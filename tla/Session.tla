------------------------------ MODULE Session ------------------------------
(* Accounts and who is signed in where: the Google callback, the one-time   *)
(* code its redirect carries and the page that exchanges it, POST /users    *)
(* and the password login, the cookie, and the push subscription a browser  *)
(* registers for whoever is signed in.  Handlers overlap between awaits and *)
(* the API process may die.                                                 *)
EXTENDS Integers, FiniteSets

CONSTANTS
  People,      \* by their email
  Browsers,
  Codes,       \* bound: one-time codes made, numbered
  Endpoints,   \* bound: push endpoints handed out, numbered
  MaxRestarts, \* bound
  None

ASSUME SessionAssumption ==
  /\ Codes \subseteq Nat \ {0} /\ Endpoints \subseteq Nat \ {0}
  /\ MaxRestarts \in Nat /\ None \notin People

VARIABLES
  users,     \* rows of users
  locals,    \* those with a password
  wallets,   \* users with a row in wallets
  login,     \* each browser's Google callback: where it is and for whom
  making,    \* one POST /users: where it is and for whom
  owner,     \* whose token a code in Redis holds; None before and after
  made,      \* codes made so far
  redeemed,  \* ghost: tokens given out for each code
  page,      \* what a browser shows: "login", "google", "capture", "app"
  code,      \* the code in its address
  answer,    \* the answer to its exchange: "waiting", a person or None
  cookie,    \* the user of its token
  way,       \* ghost: how that user came to it
  device,    \* the endpoint its push manager holds, 0 for none
  posting,   \* the user of a subscription being posted, per browser
  subs,      \* push_subscriptions: the user of each endpoint
  gone,      \* endpoints the push service no longer knows
  notice,    \* one sendToUser: where it is, its user, what it has found
  restarts

accounts == <<users, locals, wallets>>
handlers == <<login, making>>
codes == <<owner, made, redeemed>>
tab == <<page, code, answer>>
signed == <<cookie, way>>
push == <<device, posting, subs, gone, notice>>
session == <<accounts, handlers, codes, tab, signed, push, restarts>>

NoHandler == [at |-> "idle", who |-> None]
NoNotice == [at |-> "idle", who |-> None, found |-> {}, dead |-> {}]

SessionInit ==
  /\ users = {} /\ locals = {} /\ wallets = {}
  /\ login = [b \in Browsers |-> NoHandler] /\ making = NoHandler
  /\ owner = [k \in Codes |-> None] /\ made = 0 /\ redeemed = [k \in Codes |-> 0]
  /\ page = [b \in Browsers |-> "login"]
  /\ code = [b \in Browsers |-> 0] /\ answer = [b \in Browsers |-> "waiting"]
  /\ cookie = [b \in Browsers |-> None] /\ way = [b \in Browsers |-> "none"]
  /\ device = [b \in Browsers |-> 0] /\ posting = [b \in Browsers |-> None]
  /\ subs = [e \in Endpoints |-> None] /\ gone = {}
  /\ notice = NoNotice
  /\ restarts = 0

-----------------------------------------------------------------------------
(* googleCallback: the user comes back from Google's page.                  *)

HandlerAt(b, from, to) == login[b].at = from /\ login' = [login EXCEPT ![b].at = to]

Redirected(b, who) ==
  /\ page[b] = "login" /\ login[b] = NoHandler
  /\ page' = [page EXCEPT ![b] = "google"]
  /\ login' = [login EXCEPT ![b] = [at |-> "finding", who |-> who]]
  /\ UNCHANGED <<accounts, making, codes, code, answer, signed, push, restarts>>

NoUpsert(who) == "wallet"
WalletForNew(who) == IF who \in users THEN "coding" ELSE "upserting"
NextStep(who) == IF who \in users THEN "wallet" ELSE "upserting"

FindUser(b) ==
  /\ HandlerAt(b, "finding", NextStep(login[b].who))
  /\ UNCHANGED <<accounts, making, codes, tab, signed, push, restarts>>

(* The upsert writes a null password, also over one POST /users has made    *)
(* since the user was looked for.                                           *)
UpsertUser(b) ==
  /\ HandlerAt(b, "upserting", "wallet")
  /\ users' = users \cup {login[b].who}
  /\ locals' = locals \ {login[b].who}
  /\ UNCHANGED <<wallets, making, codes, tab, signed, push, restarts>>

(* createWallet finds one, or goes on to save one. *)
FindWallet(b) ==
  /\ HandlerAt(b, "wallet", IF login[b].who \in wallets THEN "coding" ELSE "saving")
  /\ UNCHANGED <<accounts, making, codes, tab, signed, push, restarts>>

(* The browser is left with an error, and goes back to sign in again. *)
Fails(b) ==
  /\ login' = [login EXCEPT ![b] = NoHandler]
  /\ page' = [page EXCEPT ![b] = "login"]

(* user_id is unique in wallets: the second of two inserts fails. *)
SaveWallet(b) ==
  /\ login[b].at = "saving"
  /\ wallets' = wallets \cup {login[b].who}
  /\ \/ login[b].who \notin wallets /\ HandlerAt(b, "saving", "coding") /\ UNCHANGED page
     \/ login[b].who \in wallets /\ Fails(b)
  /\ UNCHANGED <<users, locals, making, codes, code, answer, signed, push, restarts>>

SetCode(b) ==
  /\ login[b].at = "coding" /\ made + 1 \in Codes
  /\ made' = made + 1
  /\ owner' = [owner EXCEPT ![made + 1] = login[b].who]
  /\ login' = [login EXCEPT ![b] = NoHandler]
  /\ page' = [page EXCEPT ![b] = "capture"]
  /\ code' = [code EXCEPT ![b] = made + 1]
  /\ answer' = [answer EXCEPT ![b] = "waiting"]
  /\ UNCHANGED <<accounts, making, redeemed, signed, push, restarts>>

GoogleFails(b) ==
  /\ login[b].at = "finding"
  /\ Fails(b)
  /\ UNCHANGED <<accounts, making, codes, code, answer, signed, push, restarts>>

-----------------------------------------------------------------------------
(* TokenPage and exchangeCode.                                              *)

(* GETDEL. *)
GotAndDeleted(k) == [owner EXCEPT ![k] = None]

Exchange(b) ==
  /\ page[b] = "capture" /\ answer[b] = "waiting"
  /\ answer' = [answer EXCEPT ![b] = owner[code[b]]]
  /\ owner' = GotAndDeleted(code[b])
  /\ redeemed' = [redeemed EXCEPT ![code[b]] = @ + IF owner[code[b]] = None THEN 0 ELSE 1]
  /\ UNCHANGED <<accounts, handlers, made, page, code, signed, push, restarts>>

(* Loaded again before the answer is there, the page exchanges once more.   *)
Reload(b) ==
  /\ page[b] = "capture" /\ answer[b] # "waiting"
  /\ answer' = [answer EXCEPT ![b] = "waiting"]
  /\ UNCHANGED <<accounts, handlers, codes, page, code, signed, push, restarts>>

SaveToken(b) ==
  /\ page[b] = "capture" /\ answer[b] # "waiting"
  /\ IF answer[b] # None
     THEN /\ cookie' = [cookie EXCEPT ![b] = answer[b]]
          /\ way' = [way EXCEPT ![b] = "google"]
          /\ page' = [page EXCEPT ![b] = "app"]
     ELSE /\ page' = [page EXCEPT ![b] = "login"]
          /\ UNCHANGED signed
  /\ answer' = [answer EXCEPT ![b] = "waiting"]
  /\ code' = [code EXCEPT ![b] = 0]
  /\ UNCHANGED <<accounts, handlers, codes, push, restarts>>

CodeExpires ==
  /\ \E k \in Codes : owner[k] # None /\ owner' = [owner EXCEPT ![k] = None]
  /\ UNCHANGED <<accounts, handlers, made, redeemed, tab, signed, push, restarts>>

PasswordLogin(b, who) ==
  /\ page[b] = "login" /\ who \in locals
  /\ cookie' = [cookie EXCEPT ![b] = who]
  /\ way' = [way EXCEPT ![b] = "password"]
  /\ page' = [page EXCEPT ![b] = "app"]
  /\ UNCHANGED <<accounts, handlers, codes, code, answer, push, restarts>>

(* Home's logout deletes the cookie and nothing else; so does its expiry.   *)
SignOut(b) ==
  /\ page[b] = "app"
  /\ cookie' = [cookie EXCEPT ![b] = None]
  /\ way' = [way EXCEPT ![b] = "none"]
  /\ page' = [page EXCEPT ![b] = "login"]
  /\ UNCHANGED <<accounts, handlers, codes, code, answer, push, restarts>>

-----------------------------------------------------------------------------
(* POST /users, by anyone signed in.                                        *)

CreateUser(who) ==
  /\ making = NoHandler /\ who \notin users
  /\ \E b \in Browsers : cookie[b] # None
  /\ making' = [at |-> "inserting", who |-> who]
  /\ UNCHANGED <<accounts, login, codes, tab, signed, push, restarts>>

InsertUser ==
  /\ making.at = "inserting"
  /\ IF making.who \in users
     THEN making' = NoHandler /\ UNCHANGED <<users, locals>>
     ELSE /\ making' = [making EXCEPT !.at = "wallet"]
          /\ users' = users \cup {making.who}
          /\ locals' = locals \cup {making.who}
  /\ UNCHANGED <<wallets, login, codes, tab, signed, push, restarts>>

(* Found, saved, or refused because it is there by now. *)
MakeWallet ==
  /\ making.at = "wallet"
  /\ making' = NoHandler
  /\ wallets' = wallets \cup {making.who}
  /\ UNCHANGED <<users, locals, login, codes, tab, signed, push, restarts>>

Restart ==
  /\ restarts < MaxRestarts
  /\ restarts' = restarts + 1
  /\ login' = [b \in Browsers |-> NoHandler] /\ making' = NoHandler /\ notice' = NoNotice
  /\ page' = [b \in Browsers |-> IF page[b] = "google" THEN "login" ELSE page[b]]
  /\ posting' = [b \in Browsers |-> None]
  /\ UNCHANGED <<accounts, codes, code, answer, signed, device, subs, gone>>

-----------------------------------------------------------------------------
(* PushSubscriber: a browser with a subscription posts nothing, whoever is  *)
(* signed in now.                                                           *)

Fresh == {e \in Endpoints : e \notin gone /\ \A b \in Browsers : device[b] # e}

Subscribe(b) ==
  /\ page[b] = "app" /\ device[b] = 0 /\ Fresh # {}
  /\ device' = [device EXCEPT ![b] = CHOOSE e \in Fresh : TRUE]
  /\ posting' = [posting EXCEPT ![b] = cookie[b]]
  /\ UNCHANGED <<accounts, handlers, codes, tab, signed, subs, gone, notice, restarts>>

(* saveSubscription upserts by endpoint. *)
SaveSubscription(b) ==
  /\ posting[b] # None
  /\ subs' = [subs EXCEPT ![device[b]] = posting[b]]
  /\ posting' = [posting EXCEPT ![b] = None]
  /\ UNCHANGED <<accounts, handlers, codes, tab, signed, device, gone, notice, restarts>>

PostFails(b) ==
  /\ posting[b] # None
  /\ posting' = [posting EXCEPT ![b] = None]
  /\ UNCHANGED <<accounts, handlers, codes, tab, signed, device, subs, gone, notice, restarts>>

(* The browser drops its subscription: site data cleared, permission gone.  *)
Drop(b) ==
  /\ device[b] # 0 /\ posting[b] = None
  /\ gone' = gone \cup {device[b]}
  /\ device' = [device EXCEPT ![b] = 0]
  /\ UNCHANGED <<accounts, handlers, codes, tab, signed, posting, subs, notice, restarts>>

(* sendToUser: the rows found, what the service says of each, the clean-up. *)
FindRows(who) ==
  /\ notice = NoNotice
  /\ {e \in Endpoints : subs[e] = who} # {}
  /\ notice' = [NoNotice EXCEPT !.at = "sending", !.who = who,
                                !.found = {e \in Endpoints : subs[e] = who}]
  /\ UNCHANGED <<accounts, handlers, codes, tab, signed, device, posting, subs, gone, restarts>>

SendAll ==
  /\ notice.at = "sending"
  /\ notice' = [notice EXCEPT !.at = "cleaning", !.dead = notice.found \cap gone]
  /\ UNCHANGED <<accounts, handlers, codes, tab, signed, device, posting, subs, gone, restarts>>

PrunedAll == {e \in Endpoints : notice.dead # {} /\ subs[e] = notice.who}
Pruned == notice.dead

CleanUp ==
  /\ notice.at = "cleaning"
  /\ subs' = [e \in Endpoints |-> IF e \in Pruned THEN None ELSE subs[e]]
  /\ notice' = NoNotice
  /\ UNCHANGED <<accounts, handlers, codes, tab, signed, device, posting, gone, restarts>>

-----------------------------------------------------------------------------
Callback(b) ==
  FindUser(b) \/ UpsertUser(b) \/ FindWallet(b) \/ SaveWallet(b) \/ SetCode(b) \/ GoogleFails(b)

Registration(b) == Subscribe(b) \/ SaveSubscription(b) \/ PostFails(b) \/ Drop(b)

SessionNext ==
  \/ \E b \in Browsers :
       \/ Callback(b) \/ Exchange(b) \/ Reload(b) \/ SaveToken(b) \/ SignOut(b) \/ Registration(b)
       \/ \E who \in People : Redirected(b, who) \/ PasswordLogin(b, who)
  \/ \E who \in People : CreateUser(who) \/ FindRows(who)
  \/ InsertUser \/ MakeWallet \/ CodeExpires \/ SendAll \/ CleanUp \/ Restart

SessionSpec == SessionInit /\ [][SessionNext]_session

-----------------------------------------------------------------------------
(* Every variable has its type; no wallet is without its user, and no code  *)
(* is exchanged for more than one token.                                    *)
SessionTypeOK ==
  /\ users \subseteq People /\ locals \subseteq users /\ wallets \subseteq users
  /\ login \in [Browsers -> [at : {"idle", "finding", "upserting", "wallet", "saving", "coding"},
                             who : People \cup {None}]]
  /\ making \in [at : {"idle", "inserting", "wallet"}, who : People \cup {None}]
  /\ owner \in [Codes -> People \cup {None}] /\ made \in Codes \cup {0}
  /\ redeemed \in [Codes -> 0..1]
  /\ page \in [Browsers -> {"login", "google", "capture", "app"}]
  /\ code \in [Browsers -> Codes \cup {0}]
  /\ answer \in [Browsers -> People \cup {None, "waiting"}]
  /\ cookie \in [Browsers -> People \cup {None}]
  /\ way \in [Browsers -> {"none", "google", "password"}]
  /\ device \in [Browsers -> Endpoints \cup {0}]
  /\ posting \in [Browsers -> People \cup {None}]
  /\ subs \in [Endpoints -> People \cup {None}] /\ gone \subseteq Endpoints
  /\ notice \in [at : {"idle", "sending", "cleaning"}, who : People \cup {None},
                 found : SUBSET Endpoints, dead : SUBSET Endpoints]
  /\ restarts \in 0..MaxRestarts

(* Whoever came by Google has a wallet, whatever crash or overlapping       *)
(* sign-in or registration left the account half made before.               *)
SignedInHasWallet == \A b \in Browsers : way[b] = "google" => cookie[b] \in wallets

(* A subscription that the push service still knows is never cleaned up,    *)
(* though other devices of the same user's are gone: it may only get        *)
(* another user.                                                            *)
LiveSubscriptionStays ==
  [][\A e \in Endpoints \ gone : subs[e] # None => subs'[e] # None]_session
=============================================================================
