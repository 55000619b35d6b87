-------------------------- MODULE EventLifecycle --------------------------
(* EventService and one event: its Postgres row and the status field of its *)
(* Redis hash, which a join reads first.  Every method finds the row, checks *)
(* it, saves the whole entity it found (TypeORM writes every column that    *)
(* differs from the row, status included) and then sets the hash; nothing   *)
(* holds these steps together.                                              *)
EXTENDS Integers

CONSTANTS
  Calls,        \* API calls on the event
  MaxFaults,    \* bound: failed store calls, and losses of the hash
  Missing       \* no row, no status in Redis

Ops == {"create", "activate", "end", "update", "join"}
Unused == "none"   \* a call that nobody makes
Status == {"draft", "active", "ended"}
Rank == [draft |-> 1, active |-> 2, ended |-> 3]

VARIABLES
  row,       \* the status column of the events row, or Missing
  hash,      \* status in event:<id>, or Missing
  op,        \* what each call does
  pc,        \* the await it is at
  found,     \* the status of the entity it holds
  orderly,   \* no two of the host's calls have overlapped
  faults

vars == <<row, hash, op, pc, found, orderly, faults>>

Steps == {"idle", "find", "save", "hset", "hget", "seed", "done", "refused", "failed"}
Ended == {"done", "refused", "failed"}
Busy == {c \in Calls : op[c] # "join" /\ pc[c] \notin Ended \cup {"idle"}}

Init ==
  /\ row \in Status \cup {Missing}
  /\ hash = row
  /\ op \in [Calls -> Ops \cup {Unused}]
  /\ \A c, d \in Calls : op[c] = "create" /\ op[d] = "create" => c = d /\ row = Missing
  /\ pc = [c \in Calls |-> "idle"]
  /\ found = [c \in Calls |-> Missing]
  /\ orderly = TRUE
  /\ faults = 0

Goto(c, step) == pc' = [pc EXCEPT ![c] = step]

FirstStep == [create |-> "save", activate |-> "find", end |-> "find",
              update |-> "find", join |-> "hget"]

(* A call begins; one that needs the event's id waits for the row.          *)
Begin(c) ==
  /\ pc[c] = "idle"
  /\ op[c] # Unused
  /\ op[c] # "create" => row # Missing
  /\ Goto(c, FirstStep[op[c]])
  /\ orderly' = (orderly /\ (op[c] # "join" => Busy = {}))
  /\ UNCHANGED <<row, hash, op, found, faults>>

(* Which statuses let a call go on.  The variant above each of these        *)
(* helpers makes one mistake, for the properties to notice.                 *)
AllowAll == [activate |-> Status, end |-> Status, update |-> Status, join |-> Status]
Allowed == [activate |-> {"draft"}, end |-> {"active"},
            update |-> {"draft", "active"}, join |-> Status]

NextStep == [activate |-> "save", end |-> "save", update |-> "save", join |-> "seed"]

Find(c) ==
  /\ pc[c] = "find"
  /\ found' = [found EXCEPT ![c] = row]
  /\ Goto(c, IF row \in Allowed[op[c]] THEN NextStep[op[c]] ELSE "refused")
  /\ UNCHANGED <<row, hash, op, orderly, faults>>

(* The status a call saves: its own, or for an update the one it found.     *)
Saved(c) ==
  IF op[c] = "update" THEN found[c]
  ELSE [create |-> "draft", activate |-> "active", end |-> "ended"][op[c]]

Save(c) ==
  /\ pc[c] = "save"
  /\ row' = Saved(c)
  /\ found' = [found EXCEPT ![c] = Saved(c)]
  /\ Goto(c, IF op[c] = "update" THEN "done" ELSE "hset")
  /\ UNCHANGED <<hash, op, orderly, faults>>

SkipEnd(c) == IF op[c] = "end" THEN hash ELSE found[c]
Hashed(c) == found[c]
SetHash(c) ==
  /\ pc[c] = "hset"
  /\ hash' = Hashed(c)
  /\ Goto(c, "done")
  /\ UNCHANGED <<row, op, found, orderly, faults>>

-----------------------------------------------------------------------------
(* A join: validateAndReseedEvent and the gateway's test of its answer,     *)
(* which admits the guest or does not.                                      *)

Admitted(s) == IF s = "active" THEN "done" ELSE "refused"

ReadHash(c) ==
  /\ pc[c] = "hget"
  /\ Goto(c, IF hash = "active" THEN Admitted(hash) ELSE "find")
  /\ UNCHANGED <<row, hash, op, found, orderly, faults>>

(* The hash it writes is that of event:event:<id>: nobody reads it.         *)
Reseed(c) ==
  /\ pc[c] = "seed"
  /\ Goto(c, Admitted(found[c]))
  /\ UNCHANGED <<row, hash, op, found, orderly, faults>>

(* A store call fails, or the process dies, before the effect. *)
Fails(c) ==
  /\ pc[c] \notin Ended \cup {"idle"}
  /\ faults < MaxFaults
  /\ faults' = faults + 1
  /\ Goto(c, "failed")
  /\ UNCHANGED <<row, hash, op, found, orderly>>

(* Redis loses the hash: nothing else holds its fields. *)
HashLost ==
  /\ hash # Missing
  /\ faults < MaxFaults
  /\ faults' = faults + 1
  /\ hash' = Missing
  /\ UNCHANGED <<row, op, pc, found, orderly>>

HostStep(c) == Begin(c) \/ Find(c) \/ Save(c) \/ SetHash(c) \/ Fails(c)
Validate(c) == ReadHash(c) \/ Find(c) \/ Reseed(c)

-----------------------------------------------------------------------------
(* Every variable has its type; a call about to set the hash has a status.  *)
TypeOK ==
  /\ row \in Status \cup {Missing}
  /\ hash \in Status \cup {Missing}
  /\ op \in [Calls -> Ops \cup {Unused}]
  /\ pc \in [Calls -> Steps]
  /\ found \in [Calls -> Status \cup {Missing}]
  /\ \A c \in Calls : pc[c] = "hset" => found[c] \in Status
  /\ orderly \in BOOLEAN
  /\ faults \in 0..MaxFaults
=============================================================================
