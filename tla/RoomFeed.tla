----------------------------- MODULE RoomFeed -----------------------------
(* What a browser shows of a gift room's leaderboard: the snapshot that     *)
(* handleJoin reads and later answers with, the patches broadcastGift emits *)
(* to the sockets in the room, and useGiftRoom and useLeaderBoardDisplay,   *)
(* which collect patches for 250 ms before they apply them.  A browser has  *)
(* one socket and at most one such page at a time; its display page also    *)
(* announces what the podium gained (LeaderboardDisplay).                   *)
(* A board is its scores; the order is theirs, and guests with equal scores *)
(* may be in either order.  Commands of the one ioredis connection and its  *)
(* replies keep their order, so a patch is emitted before the answer of any *)
(* join that read after its gift: a gift and its emit are one step.         *)
EXTENDS Integers, FiniteSets, SequencesExt

CONSTANTS
  Rooms,      \* events
  Guests,     \* givers
  Clients,    \* browsers
  Limit,      \* entries of a snapshot (20 in the code)
  Podium,     \* entries the display compares (3 in the code)
  MaxGifts,   \* bound: gifts in all rooms
  MaxVisits,  \* bound: joins a browser sends
  MaxFaults,  \* bound: failed joins and gifts that fail after their points
  None        \* no page

ASSUME BoundAssumption ==
  /\ {Limit, Podium, MaxGifts, MaxVisits, MaxFaults} \subseteq Nat
  /\ IsFiniteSet(Guests)
  /\ None \notin Rooms

VARIABLES
  score,      \* event:<id>:lb, 0 for a guest who is not on it
  gifts,      \* event:<id>:gift_count
  silent,     \* guests whose last points were added by a send that then failed
  member,     \* rooms each browser's socket is in, at the server
  request,    \* messages on their way to the server
  joins,      \* handleJoins under way
  inbox,      \* messages on their way to the browser
  up,         \* the socket is connected
  view,       \* the kind of page a browser opens: "room" or "display"
  page,       \* the room it shows
  visit,      \* its last join
  shown,      \* the page's scores, 0 for a guest it does not list
  shownGifts, \* its number of gifts
  joined,     \* its last join was answered with a board
  error,      \* roomError
  pending,    \* patches collected since the timer was set
  podium,     \* scores of the podium the display rendered last
  announced,  \* what the display has announced for each guest
  applied,    \* ghost: number of the latest gift on the page's board
  faults

server == <<score, gifts, silent, member>>
wire == <<request, joins, inbox, up>>
screen == <<page, visit, shown, shownGifts, joined, error, pending, podium, announced, applied>>
vars == <<server, wire, view, screen, faults>>

Nobody == [g \in Guests |-> 0]

Init ==
  /\ score = [r \in Rooms |-> Nobody]
  /\ gifts = [r \in Rooms |-> 0]
  /\ silent = [r \in Rooms |-> {}]
  /\ member = [c \in Clients |-> {}]
  /\ request = [c \in Clients |-> <<>>]
  /\ joins = [c \in Clients |-> {}]
  /\ inbox = [c \in Clients |-> <<>>]
  /\ up = [c \in Clients |-> TRUE]
  /\ view \in [Clients -> {"room", "display"}]
  /\ page = [c \in Clients |-> None]
  /\ visit = [c \in Clients |-> 0]
  /\ shown = [c \in Clients |-> Nobody]
  /\ shownGifts = [c \in Clients |-> 0]
  /\ joined = [c \in Clients |-> FALSE]
  /\ error = [c \in Clients |-> FALSE]
  /\ pending = [c \in Clients |-> <<>>]
  /\ podium = [c \in Clients |-> Nobody]
  /\ announced = [c \in Clients |-> Nobody]
  /\ applied = [c \in Clients |-> 0]
  /\ faults = 0

Faulty == faults < MaxFaults /\ faults' = faults + 1

-----------------------------------------------------------------------------
(* Boards, and what the two hooks and the display make of them.  The        *)
(* variant above a helper makes one mistake, for the properties to notice.  *)

Listed(board) == {g \in Guests : board[g] > 0}

(* The n best of a board, in each of the ways in which ties may fall. *)
Best(board, n) ==
  LET fits(S) == \A g \in S, h \in Listed(board) \ S : board[g] >= board[h]
      size == IF Cardinality(Listed(board)) < n THEN Cardinality(Listed(board)) ELSE n
  IN {[g \in Guests |-> IF g \in S THEN board[g] ELSE 0] :
        S \in {T \in SUBSET Listed(board) : Cardinality(T) = size /\ fits(T)}}

(* getTop: a fixed order decides between equal scores. *)
Top(board) == CHOOSE b \in Best(board, Limit) : TRUE

(* The patches of a batch, one after the other. *)
FirstWins(board, patches) ==
  FoldLeft(LAMBDA b, p : [b EXCEPT ![p.guest] = p.score], board, Reverse(patches))
Patched(board, patches) ==
  FoldLeft(LAMBDA b, p : [b EXCEPT ![p.guest] = p.score], board, patches)

(* What the display announces for a guest of the new podium. *)
GainedFromNothing(old, new, g) == IF new[g] > old[g] THEN new[g] - old[g] ELSE 0
Gained(old, new, g) == IF old[g] > 0 /\ new[g] > old[g] THEN new[g] - old[g] ELSE 0

-----------------------------------------------------------------------------
(* The server.                                                              *)

(* broadcastGift, to every socket that is in the room. *)
ToAll(r, message) ==
  inbox' = [c \in Clients |-> IF up[c] /\ r \in member[c] THEN Append(inbox[c], message) ELSE inbox[c]]

GiftsMade == FoldFunctionOnSet(LAMBDA a, b : a + b, 0, gifts, Rooms)

(* addGiftFull's pipeline, then the leaderboard update with its results. *)
Gift(r, g) ==
  /\ GiftsMade < MaxGifts
  /\ score' = [score EXCEPT ![r][g] = @ + 1]
  /\ gifts' = [gifts EXCEPT ![r] = @ + 1]
  /\ silent' = [silent EXCEPT ![r] = @ \ {g}]
  /\ ToAll(r, [kind |-> "patch", room |-> r, guest |-> g, score |-> score[r][g] + 1, gifts |-> gifts[r] + 1])
  /\ UNCHANGED <<member, request, joins, up, view, screen, faults>>

(* The pipeline ran but its reply is lost, or its last command failed: the  *)
(* send is answered with an error and nothing is emitted.                   *)
GiftFails(r, g) ==
  /\ GiftsMade < MaxGifts
  /\ Faulty
  /\ score' = [score EXCEPT ![r][g] = @ + 1]
  /\ gifts' = [gifts EXCEPT ![r] = @ + 1]
  /\ silent' = [silent EXCEPT ![r] = @ \cup {g}]
  /\ UNCHANGED <<member, wire, view, screen>>

(* A socket's messages start their handlers in order.  handleLeave leaves   *)
(* the room before its first await.                                         *)
StartHandler(c) ==
  /\ up[c] /\ request[c] # <<>>
  /\ LET m == Head(request[c])
     IN IF m.kind = "join"
        THEN /\ joins' = [joins EXCEPT ![c] = @ \cup
                  {[visit |-> m.visit, room |-> m.room, at |-> "validate", board |-> Nobody, gifts |-> 0]}]
             /\ UNCHANGED member
        ELSE /\ member' = [member EXCEPT ![c] = @ \ {m.room}]
             /\ UNCHANGED joins
  /\ request' = [request EXCEPT ![c] = Tail(@)]
  /\ UNCHANGED <<score, gifts, silent, inbox, up, view, screen, faults>>

Replace(c, j, k) == joins' = [joins EXCEPT ![c] = (@ \ {j}) \cup {k}]

(* The event is active: the socket enters its room, then handleJoin counts  *)
(* the guest (GuestPresence).                                               *)
StayOut(c, j) == member[c]
Entered(c, j) == member[c] \cup {j.room}
EnterRoom(c, j) ==
  /\ j.at = "validate"
  /\ member' = [member EXCEPT ![c] = Entered(c, j)]
  /\ Replace(c, j, [j EXCEPT !.at = "read"])
  /\ UNCHANGED <<score, gifts, silent, request, inbox, up, view, screen, faults>>

(* Promise.all sends its reads together; the answer waits for the slowest,  *)
(* getTop's second round and getBalance's query included.                   *)
ReadSnapshot(c, j) ==
  /\ j.at = "read"
  /\ Replace(c, j, [j EXCEPT !.at = "answer", !.board = Top(score[j.room]), !.gifts = gifts[j.room]])
  /\ UNCHANGED <<server, request, inbox, up, view, screen, faults>>

Answer(c, j, ok) ==
  /\ joins' = [joins EXCEPT ![c] = @ \ {j}]
  /\ inbox' = [inbox EXCEPT ![c] = Append(@,
       [kind |-> "answer", ok |-> ok, visit |-> j.visit, board |-> j.board, gifts |-> j.gifts])]
  /\ UNCHANGED <<server, request, up, view, screen>>

AnswerJoin(c, j) == j.at = "answer" /\ Answer(c, j, TRUE) /\ UNCHANGED faults

(* The event is not active, or a store call fails. *)
JoinFails(c, j) == Faulty /\ Answer(c, j, FALSE)

-----------------------------------------------------------------------------
(* The browser.                                                             *)

(* joinRoom, when the socket is connected. *)
Joining(c, r, before) ==
  /\ visit' = [visit EXCEPT ![c] = @ + 1]
  /\ request' = [request EXCEPT ![c] = before \o <<[kind |-> "join", room |-> r, visit |-> visit[c] + 1]>>]

Quiet(c) == request[c] = <<>> /\ joins[c] = {} /\ inbox[c] = <<>>

Blank(c) ==
  /\ shown' = [shown EXCEPT ![c] = Nobody]
  /\ shownGifts' = [shownGifts EXCEPT ![c] = 0]
  /\ joined' = [joined EXCEPT ![c] = FALSE]
  /\ error' = [error EXCEPT ![c] = FALSE]
  /\ pending' = [pending EXCEPT ![c] = <<>>]
  /\ podium' = [podium EXCEPT ![c] = Nobody]
  /\ announced' = [announced EXCEPT ![c] = Nobody]
  /\ applied' = [applied EXCEPT ![c] = 0]

(* A page mounts: its effect joins now, or when the socket connects. *)
Open(c, r) ==
  /\ page[c] = None
  /\ visit[c] < MaxVisits
  /\ page' = [page EXCEPT ![c] = r]
  /\ IF up[c] THEN Joining(c, r, request[c]) ELSE UNCHANGED <<visit, request>>
  /\ Blank(c)
  /\ UNCHANGED <<server, joins, inbox, up, view, faults>>

(* Its cleanup: the leave is sent, or kept until the socket connects.       *)
Close(c) ==
  /\ page[c] # None
  /\ page' = [page EXCEPT ![c] = None]
  /\ request' = [request EXCEPT ![c] = Append(@, [kind |-> "leave", room |-> page[c], visit |-> visit[c]])]
  /\ UNCHANGED <<visit, shown, shownGifts, joined, error, pending, podium, announced, applied>>
  /\ UNCHANGED <<server, joins, inbox, up, view, faults>>

(* The next message.  Listeners are off while no page is mounted, and the   *)
(* answer of a join whose page is gone sets nothing.                        *)
Collect(c, m) ==
  /\ pending' = [pending EXCEPT ![c] = Append(@, m)]
  /\ UNCHANGED <<shown, shownGifts, joined, error, applied>>

SetBoard(c, m) ==
  /\ shown' = [shown EXCEPT ![c] = m.board]
  /\ shownGifts' = [shownGifts EXCEPT ![c] = m.gifts]
  /\ joined' = [joined EXCEPT ![c] = TRUE]
  /\ applied' = [applied EXCEPT ![c] = m.gifts]
  /\ UNCHANGED <<pending, error>>

SetError(c) ==
  /\ error' = [error EXCEPT ![c] = TRUE]
  /\ UNCHANGED <<shown, shownGifts, joined, pending, applied>>

Receive(c) ==
  /\ up[c] /\ inbox[c] # <<>>
  /\ LET m == Head(inbox[c])
         mine == page[c] # None /\ m.kind = "answer" /\ m.visit = visit[c]
     IN \/ m.kind = "patch" /\ page[c] # None /\ Collect(c, m)
        \/ mine /\ m.ok /\ SetBoard(c, m)
        \/ mine /\ ~m.ok /\ SetError(c)
        \/ /\ ~mine /\ (m.kind = "patch" => page[c] = None)
           /\ UNCHANGED <<shown, shownGifts, joined, error, pending, applied>>
  /\ inbox' = [inbox EXCEPT ![c] = Tail(@)]
  /\ UNCHANGED <<server, request, joins, up, view, page, visit, podium, announced, faults>>

(* The 250 ms timer.  The display's hook leaves the number of gifts alone.  *)
Flush(c) ==
  /\ page[c] # None /\ pending[c] # <<>>
  /\ shown' = [shown EXCEPT ![c] = Patched(@, pending[c])]
  /\ shownGifts' = [shownGifts EXCEPT ![c] = IF view[c] = "room" THEN Last(pending[c]).gifts ELSE @]
  /\ applied' = [applied EXCEPT ![c] = Last(pending[c]).gifts]
  /\ pending' = [pending EXCEPT ![c] = <<>>]
  /\ UNCHANGED <<server, wire, view, page, visit, joined, error, podium, announced, faults>>

(* The display renders a board and its effect compares the podium with the  *)
(* one before; boards set in between were never rendered.                   *)
Render(c) ==
  /\ view[c] = "display" /\ page[c] # None
  /\ Listed(shown[c]) # {}
  /\ \E new \in Best(shown[c], Podium) :
       /\ podium' = [podium EXCEPT ![c] = new]
       /\ announced' = [announced EXCEPT ![c] = [g \in Guests |-> @[g] + Gained(podium[c], new, g)]]
  /\ UNCHANGED <<server, wire, view, page, visit, shown, shownGifts, joined, error, pending, applied, faults>>

(* The connection breaks: what is under way is lost, the server forgets the *)
(* socket, and joins under way answer nobody.                               *)
Disconnect(c) ==
  /\ up[c] /\ visit[c] < MaxVisits
  /\ up' = [up EXCEPT ![c] = FALSE]
  /\ member' = [member EXCEPT ![c] = {}]
  /\ request' = [request EXCEPT ![c] = <<>>]
  /\ joins' = [joins EXCEPT ![c] = {}]
  /\ inbox' = [inbox EXCEPT ![c] = <<>>]
  /\ UNCHANGED <<score, gifts, silent, view, screen, faults>>

(* It is back, half a second later at the least: a batch that was pending   *)
(* has been applied.  Messages kept since then go first.                    *)
Reconnect(c) ==
  /\ ~up[c]
  /\ page[c] # None => pending[c] = <<>>
  /\ up' = [up EXCEPT ![c] = TRUE]
  /\ IF page[c] # None
     THEN Joining(c, page[c], request[c]) /\ joined' = [joined EXCEPT ![c] = FALSE]
     ELSE UNCHANGED <<visit, request, joined>>
  /\ UNCHANGED <<server, joins, inbox, view, page, shown, shownGifts, error, pending, podium, announced, applied, faults>>

Serve(c) ==
  \/ StartHandler(c)
  \/ \E j \in joins[c] : EnterRoom(c, j) \/ ReadSnapshot(c, j) \/ AnswerJoin(c, j)
Show(c) == Receive(c) \/ Flush(c) \/ Reconnect(c)
Roam(c) == (\E r \in Rooms : Open(c, r)) \/ Close(c) \/ Disconnect(c)

Next ==
  \/ \E r \in Rooms, g \in Guests : Gift(r, g) \/ GiftFails(r, g)
  \/ \E c \in Clients :
       Serve(c) \/ Show(c) \/ Roam(c) \/ Render(c) \/ \E j \in joins[c] : JoinFails(c, j)

Spec == Init /\ [][Next]_vars

(* What the code leaves to luck, and what the properties below need: a page *)
(* is not closed while its join is under way, or the join enters the room   *)
(* after the leave and the socket stays in it; the next page opens when all *)
(* messages are through, since patches do not name their room; and nothing  *)
(* puts older scores back: no batch is applied between a join's read and    *)
(* its answer, nor a patch older than the answer's board after it, which    *)
(* gifts without a patch make possible.                                     *)
Lucky(c) ==
  /\ page[c] # None /\ page'[c] = None => request[c] = <<>> /\ joins[c] = {}
  /\ page[c] = None /\ page'[c] # None => Quiet(c)
  /\ page[c] # None => applied'[c] >= applied[c]
  /\ page'[c] # None => \A g \in Guests : shown'[c][g] \notin 1..shown[c][g] - 1
SteadySpec == Init /\ [][Next /\ \A c \in Clients : Lucky(c)]_vars

(* Handlers go on, messages arrive while the socket is connected, timers    *)
(* fire, and socket.io reconnects without end.  Nobody is obliged to give,  *)
(* to open or close a page, or to fail.                                     *)
FairSpec ==
  /\ SteadySpec
  /\ \A c \in Clients : WF_vars(Serve(c)) /\ WF_vars(Show(c))

-----------------------------------------------------------------------------
Message ==
  [kind : {"patch"}, room : Rooms, guest : Guests, score : Nat, gifts : Nat]
  \cup [kind : {"answer"}, ok : BOOLEAN, visit : Nat, board : [Guests -> Nat], gifts : Nat]

(* Every variable has its type; patches alone are collected. *)
TypeOK ==
  /\ score \in [Rooms -> [Guests -> Nat]] /\ gifts \in [Rooms -> Nat]
  /\ silent \in [Rooms -> SUBSET Guests]
  /\ member \in [Clients -> SUBSET Rooms]
  /\ \A c \in Clients :
       /\ request[c] \in Seq([kind : {"join", "leave"}, room : Rooms, visit : Nat])
       /\ joins[c] \subseteq [visit : Nat, room : Rooms, at : {"validate", "read", "answer"},
                              board : [Guests -> Nat], gifts : Nat]
       /\ inbox[c] \in Seq(Message)
       /\ pending[c] \in Seq({m \in Message : m.kind = "patch"})
  /\ up \in [Clients -> BOOLEAN] /\ view \in [Clients -> {"room", "display"}]
  /\ page \in [Clients -> Rooms \cup {None}]
  /\ visit \in [Clients -> 0..MaxVisits]
  /\ shown \in [Clients -> [Guests -> Nat]] /\ podium \in [Clients -> [Guests -> Nat]]
  /\ announced \in [Clients -> [Guests -> Nat]]
  /\ shownGifts \in [Clients -> Nat] /\ applied \in [Clients -> Nat]
  /\ {joined, error} \subseteq [Clients -> BOOLEAN]
  /\ faults \in 0..MaxFaults

(* A page shows the right board: of every guest the server's score, or the  *)
(* guest is below Limit guests it does list; a room page also has the right *)
(* number of gifts.  A send that failed after its points is nobody's patch. *)
Right(c) ==
  LET real == score[page[c]]
  IN /\ \A g \in Guests \ silent[page[c]] :
          \/ shown[c][g] = real[g]
          \/ shown[c][g] = 0 /\ Cardinality({h \in Listed(shown[c]) : real[h] >= real[g]}) >= Limit
     /\ view[c] = "room" /\ silent[page[c]] = {} => shownGifts[c] = gifts[page[c]]

(* However gifts, joins, the batch timer and reconnections interleave, a    *)
(* page with nothing left to receive or apply shows the server's board -    *)
(* unless the batch timer fired between a join's read and its answer, or    *)
(* the page was opened before the last one's messages were through.         *)
SettledBoardIsRight ==
  \A c \in Clients :
    up[c] /\ page[c] # None /\ joined[c] /\ Quiet(c) /\ pending[c] = <<>> => Right(c)

(* The display announces no naira that were not sprayed: what it has        *)
(* announced for a guest never exceeds the guest's score, over missed       *)
(* patches, reconnections and guests that leave the podium and come back -  *)
(* unless a patch or a snapshot put an older score back, whose raise is     *)
(* then announced once more.                                                *)
NothingInvented ==
  \A c \in Clients : page[c] # None =>
    \A g \in Guests : announced[c][g] <= score[page[c]][g]

(* A page that stays open ends with the right board, or an error: no gift   *)
(* is lost for good to a broken connection or to the order of messages.     *)
EventuallyRight ==
  \A c \in Clients :
    <>[](page[c] # None) => <>[](page[c] # None => error[c] \/ Right(c))
=============================================================================
