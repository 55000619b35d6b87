-------------------------- MODULE GuestPresence --------------------------
(* EventGateway: who is in a gift room.  Redis holds one active key per     *)
(* user (guest:active:<user>, the socket that joined last) and one counter  *)
(* per event.  A socket's messages start their handlers in order, but a     *)
(* handler awaits Redis at every step, so handlers overlap: those of two    *)
(* tabs, and those of one socket.  The 24 h TTLs and the set of guests to   *)
(* notify are left out.                                                     *)
EXTENDS Integers, FiniteSets, Functions, SequencesExt

CONSTANTS
  Users, Events,
  Sockets,
  Owners,           \* whom the sockets may be authenticated as
  Scripts,          \* what each socket may send before it closes, if it opens
  MaxFaults,        \* bound: Redis calls that fail
  Nobody            \* no active key, no client.data

Roles == {"guest", "display"}       \* "host" goes the way of "display"
Messages == [kind : {"join", "leave", "close"}, event : Events, role : Roles]

ASSUME FiniteAssumption == IsFiniteSet(Users) /\ IsFiniteSet(Events) /\ IsFiniteSet(Sockets)
ASSUME OwnerAssumption == Owners \subseteq [Sockets -> Users] /\ Nobody \notin Sockets
ASSUME ScriptAssumption ==
  \A s \in Sockets : \A m \in Scripts[s] : m \in Seq(Messages) /\ Len(m) \in 0..3
ASSUME BoundAssumption == MaxFaults \in Nat

Handlers == Sockets \X (1..4)       \* one for each message of a socket

VARIABLES
  owner,     \* the user of each socket
  script,    \* what each socket sends, its close last
  pc,        \* the await each handler is at
  data,      \* client.data of each socket
  seen,      \* client.data as a handler under way captured it
  got,       \* the count a handler under way will announce
  active,    \* the socket in each user's active key
  count,     \* guest_count of each event
  orderly,   \* every user's handlers have run one by one, for one room
  faults

redis == <<active, count>>
vars == <<owner, script, pc, data, seen, got, redis, orderly, faults>>

Waiting == {"validate", "claim", "incr", "renew", "read", "snapshot",
            "get", "del", "decr"}
Steps == {"idle", "done"} \cup Waiting

Sock(h) == h[1]
User(h) == owner[h[1]]
Message(h) == script[h[1]][h[2]]
Kind(h) == Message(h).kind
Event(h) == IF Kind(h) = "close" THEN seen[h].event ELSE Message(h).event

RoomsOf(u) == {m.event : m \in UNION {Range(script[s]) : s \in {t \in Sockets : owner[t] = u}}}
Busy(u) == {h \in Handlers : User(h) = u /\ pc[h] \in Waiting}

Init ==
  /\ owner \in Owners
  /\ \E s \in [Sockets -> UNION {Scripts[t] : t \in Sockets}] :
       /\ \A t \in Sockets : s[t] \in Scripts[t]
       /\ script = [t \in Sockets |->
            IF s[t] = <<>> THEN <<>> ELSE Append(s[t], [s[t][1] EXCEPT !.kind = "close"])]
  /\ pc = [h \in Handlers |-> "idle"]
  /\ data = [s \in Sockets |-> Nobody]
  /\ seen = [h \in Handlers |-> Nobody]
  /\ got = [h \in Handlers |-> 0]
  /\ active = [u \in Users |-> Nobody]
  /\ count = [e \in Events |-> 0]
  /\ orderly = (\A u \in Users : Cardinality(RoomsOf(u)) <= 1)
  /\ faults = 0

Goto(h, step) == pc' = [pc EXCEPT ![h] = step]

(* A handler ends; leave's clears client.data as it does. *)
Forget(h) ==
  /\ seen' = [seen EXCEPT ![h] = Nobody]
  /\ data' = IF Kind(h) = "leave" THEN [data EXCEPT ![Sock(h)] = Nobody] ELSE data

IsGuest(d) == d # Nobody /\ d.role = "guest"

-----------------------------------------------------------------------------
(* The next message of a socket starts its handler.  leave and close read   *)
(* client.data at once; one that is not a guest's changes nothing in Redis. *)
(* join asks EventService for the event's status first.                     *)
Start(h) ==
  /\ h[2] <= Len(script[h[1]])
  /\ pc[h] = "idle"
  /\ h[2] > 1 => pc[<<h[1], h[2] - 1>>] # "idle"
  /\ orderly' = (orderly /\ Busy(User(h)) = {})
  /\ IF Kind(h) = "join"
     THEN Goto(h, "validate") /\ UNCHANGED <<data, seen>>
     ELSE IF IsGuest(data[Sock(h)])
     THEN /\ seen' = [seen EXCEPT ![h] = data[Sock(h)]]
          /\ Goto(h, "get")
          /\ UNCHANGED data
     ELSE Goto(h, "done") /\ Forget(h)
  /\ UNCHANGED <<owner, script, got, redis, faults>>

(* The event is not open: the join ends with an error. *)
TurnedAway(h) ==
  /\ pc[h] = "validate"
  /\ Goto(h, "done")
  /\ UNCHANGED <<owner, script, data, seen, got, redis, orderly, faults>>

(* client.data is set and the socket enters the room. *)
Enter(h) ==
  /\ pc[h] = "validate"
  /\ data' = [data EXCEPT ![Sock(h)] = [event |-> Event(h), role |-> Message(h).role]]
  /\ Goto(h, IF Message(h).role = "guest" THEN "claim" ELSE "read")
  /\ UNCHANGED <<owner, script, seen, got, redis, orderly, faults>>

(* The variant above this and some later helpers makes one mistake, for the  *)
(* properties to notice.                                                    *)
AlwaysNew(h) == TRUE
IsNew(h) == active[User(h)] = Nobody                       \* SET ... NX

(* Claim the user's active key; the SADD and EXPIRE that follow change      *)
(* nothing modelled here.                                                   *)
Claim(h) ==
  /\ pc[h] = "claim"
  /\ active' = IF active[User(h)] = Nobody THEN [active EXCEPT ![User(h)] = Sock(h)] ELSE active
  /\ Goto(h, IF IsNew(h) THEN "incr" ELSE "renew")
  /\ UNCHANGED <<owner, script, data, seen, got, count, orderly, faults>>

Increment(h) ==
  /\ pc[h] = "incr"
  /\ count' = [count EXCEPT ![Event(h)] = @ + 1]
  /\ got' = [got EXCEPT ![h] = count'[Event(h)]]
  /\ Goto(h, "snapshot")
  /\ UNCHANGED <<owner, script, data, seen, active, orderly, faults>>

TakeOver(h) == [active EXCEPT ![User(h)] = Sock(h)]

(* The user is counted already: the key passes to this socket. *)
Renew(h) ==
  /\ pc[h] = "renew"
  /\ active' = TakeOver(h)
  /\ Goto(h, "read")
  /\ UNCHANGED <<owner, script, data, seen, got, count, orderly, faults>>

ReadCount(h) ==
  /\ pc[h] = "read"
  /\ got' = [got EXCEPT ![h] = count[Event(h)]]
  /\ Goto(h, "snapshot")
  /\ UNCHANGED <<owner, script, data, seen, redis, orderly, faults>>

(* The leaderboard and the balance have been read: the count, as it was     *)
(* before them, goes to the room.                                           *)
Snapshot(h) ==
  /\ pc[h] = "snapshot"
  /\ got' = [got EXCEPT ![h] = 0]
  /\ Goto(h, "done")
  /\ UNCHANGED <<owner, script, data, seen, redis, orderly, faults>>

-----------------------------------------------------------------------------
(* leave and close: read the active key, delete it if it is this socket's,  *)
(* count the guest out.                                                     *)

AnySocket(h) == TRUE
IsCurrent(h) == active[User(h)] = Sock(h)

GetActive(h) ==
  /\ pc[h] = "get"
  /\ IF IsCurrent(h)
     THEN Goto(h, "del") /\ UNCHANGED <<data, seen>>
     ELSE Goto(h, "done") /\ Forget(h)
  /\ UNCHANGED <<owner, script, got, redis, orderly, faults>>

Dropped(h) == [active EXCEPT ![User(h)] = Nobody]

DeleteActive(h) ==
  /\ pc[h] = "del"
  /\ active' = Dropped(h)
  /\ Goto(h, "decr")
  /\ UNCHANGED <<owner, script, data, seen, got, count, orderly, faults>>

Decrement(h) ==
  /\ pc[h] = "decr"
  /\ count' = [count EXCEPT ![Event(h)] = @ - 1]
  /\ Forget(h)
  /\ Goto(h, "done")
  /\ UNCHANGED <<owner, script, got, active, orderly, faults>>

(* A Redis call fails, and the handler's catch block ends it. *)
Fails(h) ==
  /\ pc[h] \in Waiting
  /\ faults < MaxFaults
  /\ faults' = faults + 1
  /\ got' = [got EXCEPT ![h] = 0]
  /\ Forget(h)
  /\ Goto(h, "done")
  /\ UNCHANGED <<owner, script, redis, orderly>>

(* The awaits of a handler that count its guest in or out. *)
Count(h) ==
  \/ Claim(h) \/ Increment(h) \/ Renew(h) \/ ReadCount(h) \/ Snapshot(h)
  \/ GetActive(h) \/ DeleteActive(h) \/ Decrement(h)

AllClosed == \A h \in Handlers : h[2] <= Len(script[h[1]]) => pc[h] = "done"

-----------------------------------------------------------------------------
(* Every variable has its type. *)
TypeOK ==
  /\ owner \in Owners
  /\ \A s \in Sockets : script[s] \in Seq(Messages)
  /\ pc \in [Handlers -> Steps]
  /\ data \in [Sockets -> [event : Events, role : Roles] \cup {Nobody}]
  /\ seen \in [Handlers -> [event : Events, role : Roles] \cup {Nobody}]
  /\ got \in [Handlers -> Int]
  /\ active \in [Users -> Sockets \cup {Nobody}]
  /\ count \in [Events -> Int]
  /\ orderly \in BOOLEAN
  /\ faults \in 0..MaxFaults

Present == {u \in Users : active[u] # Nobody}
Leaving == {h \in Handlers : pc[h] = "decr"}
Joining == {h \in Handlers : pc[h] = "incr"}
Headcount == SumFunctionOnSet(count, Events)

(* However handlers overlap, a guest is never counted twice: the counters   *)
(* together exceed the active keys only by guests on their way out and by   *)
(* failed calls.                                                            *)
NeverOvercounts == Headcount <= Cardinality(Present) + Cardinality(Leaving) + faults

(* The counter of a room is right up to failed calls. *)
CountIsExact(e) ==
  LET here == {u \in Present : RoomsOf(u) = {e}}
      drift == count[e] - Cardinality(here)
                 + Cardinality({h \in Joining : Event(h) = e})
                 - Cardinality({h \in Leaving : Event(h) = e})
  IN  drift <= faults /\ -drift <= faults

(* A guest is told of at least one guest, itself, and a display of no       *)
(* negative number: a join announces the count as it read it, where leave   *)
(* and close announce max(0, count).                                        *)
TellsTheRoom(h) ==
  pc[h] = "snapshot" => got[h] >= IF Message(h).role = "guest" THEN 1 ELSE 0

(* While each user's handlers run one after the other and in one room, the  *)
(* count is exact up to failed calls, through second tabs, reconnections    *)
(* and a room that empties, and what a join announces counts the joiner.    *)
CountsGuests ==
  orderly =>
    /\ \A e \in Events : CountIsExact(e)
    /\ faults = 0 => \A h \in Handlers : TellsTheRoom(h)

(* Only the tab that joined last ends a user's presence: an older tab that  *)
(* closes or leaves does not take the newer one's key with it.              *)
NewestTabStays ==
  [][\A u \in Users :
       orderly /\ active[u] # Nobody /\ active'[u] = Nobody =>
         \E h \in Handlers : pc[h] = "del" /\ pc'[h] = "decr" /\ Sock(h) = active[u]]_vars
=============================================================================
