---------------------------- MODULE RoomAccess ----------------------------
(* Hosts and guests at one room: EventGateway's handlers (GuestPresence),   *)
(* of which handleJoin asks EventService for the status of the event, while *)
(* the host's calls change it (EventLifecycle).  A join to the venue is a   *)
(* call of the lifecycle; the events of other hosts open and close as they  *)
(* like.                                                                    *)
EXTENDS GuestPresence

CONSTANTS
  Venue,       \* the event whose host is at work
  HostCalls,   \* bound: calls of its host
  Scenarios,   \* who guests are, what they send, what the host does, the status
  MaxLosses,   \* bound: host calls that fail, and losses of the hash
  Missing      \* no event yet

VARIABLES
  row, hash, op, call, found, calm, lost,   \* EventLifecycle's
  began        \* ghost: the status a join began with, if no host call was under way

Life == INSTANCE EventLifecycle
  WITH Calls <- HostCalls \cup Handlers, MaxFaults <- MaxLosses,
       pc <- call, orderly <- calm, faults <- lost

lifecycle == <<row, hash, op, call, found, calm, lost>>
allVars == <<vars, lifecycle, began>>

ASSUME AccessAssumption ==
  /\ Venue \in Events /\ MaxLosses \in Nat
  /\ HostCalls \cap Handlers = {} /\ Missing \notin Life!Status
  /\ \A s \in Scenarios :
       /\ s.owner \in Owners
       /\ s.scripts \in [Sockets -> SUBSET Seq(Messages)]
       /\ s.ops \in [HostCalls -> (Life!Ops \ {"join"}) \cup {Life!Unused}]
       /\ s.status \in Life!Status \cup {Missing}

JoinsVenue(h) == h[2] <= Len(script[h[1]]) /\ Kind(h) = "join" /\ Event(h) = Venue

RoomInit ==
  /\ Init
  /\ \E s \in Scenarios :
       /\ row = s.status
       /\ owner = s.owner
       /\ \A t \in Sockets : SubSeq(script[t], 1, Len(script[t]) - 1) \in s.scripts[t]
       /\ op = [c \in HostCalls \cup Handlers |->
                  IF c \in HostCalls THEN s.ops[c]
                  ELSE IF JoinsVenue(c) THEN "join"
                  ELSE Life!Unused]
  /\ Life!Init
  /\ began = [h \in Handlers |-> Missing]

HostActs ==
  /\ (\E c \in HostCalls : Life!HostStep(c)) \/ Life!HashLost
  /\ UNCHANGED <<vars, began>>

Arrive(h) ==
  /\ Start(h)
  /\ IF op[h] = "join"
     THEN /\ Life!Begin(h)
          /\ began' = [began EXCEPT ![h] = IF Life!Busy = {} THEN row ELSE Missing]
     ELSE UNCHANGED <<lifecycle, began>>

(* An await of validateAndReseedEvent at the venue; after the last of them  *)
(* the handler goes on at once.                                             *)
AskVenue(h) ==
  /\ pc[h] = "validate" /\ op[h] = "join"
  /\ Life!Validate(h)
  /\ CASE call'[h] = "done" -> Enter(h)
       [] call'[h] = "refused" -> TurnedAway(h)
       [] OTHER -> UNCHANGED vars
  /\ UNCHANGED began

AskElsewhere(h) ==
  /\ op[h] # "join"
  /\ TurnedAway(h) \/ Enter(h)
  /\ UNCHANGED <<lifecycle, began>>

HandlerFails(h) ==
  /\ Fails(h)
  /\ call' = IF pc[h] = "validate" /\ op[h] = "join"
             THEN [call EXCEPT ![h] = "failed"] ELSE call
  /\ UNCHANGED <<row, hash, op, found, calm, lost, began>>

Inside(h) == Count(h) /\ UNCHANGED <<lifecycle, began>>

GuestActs ==
  \E h \in Handlers :
    \/ Arrive(h) \/ AskVenue(h) \/ AskElsewhere(h) \/ Inside(h) \/ HandlerFails(h)

(* All sockets have closed, or there was no event to join. *)
Rests == (AllClosed \/ row = Missing) /\ UNCHANGED allVars

RoomNext == HostActs \/ GuestActs \/ Rests

RoomSpec == RoomInit /\ [][RoomNext]_allVars

-----------------------------------------------------------------------------
(* The variables of both parts have their types. *)
RoomTypeOK == TypeOK /\ Life!TypeOK /\ began \in [Handlers -> Life!Status \cup {Missing}]

(* While the host's calls follow one another, an event only goes from draft *)
(* to active to ended, and no guest's call touches its status.              *)
StatusMovesForward ==
  [][calm' /\ row # Missing => Life!Rank[row'] \in {Life!Rank[row], Life!Rank[row] + 1}]_allVars

(* While the host's calls follow one another: a join that began after the   *)
(* event had ended does not let its guest in, if no store has failed; and   *)
(* one that began when the event was open does, unless it fails or the      *)
(* event has ended meanwhile, even with the hash lost or never written.     *)
DoorFollowsHost ==
  [][\A h \in Handlers :
       calm /\ pc[h] = "validate" /\ pc'[h] # "validate" =>
         /\ began[h] = "ended" /\ lost = 0 => pc'[h] = "done"
         /\ began[h] = "active" /\ row # "ended" /\ faults' = faults =>
              pc'[h] # "done"]_allVars
=============================================================================
