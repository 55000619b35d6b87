------------------------- MODULE RoomAccess_proofs -------------------------
(* Proofs that the status of an event moves forward, that the door of its   *)
(* room follows it, while its host's calls follow one another, and that the *)
(* number of guests shown for a room is that of the guests in it.           *)
EXTENDS RoomAccess, FiniteSums

Calls == HostCalls \cup Handlers
Statuses == {"draft", "active", "ended"}

(* Whose call is where: a join takes a join's steps, the others the host's. *)
CallsInv ==
  /\ op \in [Calls -> Life!Ops \cup {Life!Unused}]
  /\ call \in [Calls -> Life!Steps]
  /\ \A c \in HostCalls : op[c] # "join"
  /\ \A h \in Handlers : op[h] \in {"join", "none"}
  /\ \A c \in Calls :
       /\ op[c] = "none" => call[c] = "idle"
       /\ op[c] = "join" => call[c] \notin {"save", "hset"}
       /\ op[c] # "join" => call[c] \notin {"hget", "seed"}
       /\ op[c] = "create" => call[c] # "find"
  /\ Missing \notin Statuses

(* The event is created once, and every other call of the host needs it.    *)
CreatedInv ==
  /\ \A c, d \in Calls : op[c] = "create" /\ op[d] = "create" => c = d
  /\ \A c \in Calls : op[c] = "create" /\ call[c] \in {"idle", "save"} => row = Missing
  /\ \A c \in Calls : op[c] # "create" /\ call[c] \notin {"idle", "failed"} => row # Missing
  /\ \A c \in Calls : op[c] # "create" /\ call[c] = "save" => found[c] # Missing

DataInv ==
  /\ row \in Statuses \cup {Missing} /\ hash \in Statuses \cup {Missing}
  /\ found \in [Calls -> Statuses \cup {Missing}]
  /\ calm \in BOOLEAN /\ lost \in Nat /\ faults \in Nat
  /\ pc \in [Handlers -> Steps]
  /\ began \in [Handlers -> Statuses \cup {Missing}]

(* While it is calm, one call of the host is under way at most, what it     *)
(* found is what it overwrites, and the hash is behind by its save at most. *)
HostInv ==
  calm =>
    /\ \A c, d \in Life!Busy : c = d
    /\ \A c \in Calls :
         /\ call[c] = "save" /\ op[c] # "create" => found[c] = row /\ row \in Life!Allowed[op[c]]
         /\ call[c] = "hset" => found[c] = row
    /\ lost = 0 => hash = row \/ \E c \in Calls : call[c] = "hset"

(* What a join that met the event in a status may go by.                    *)
JoinsInv ==
  \A h \in Handlers :
    /\ began[h] # Missing => op[h] = "join"
    /\ calm /\ began[h] = "ended" =>
         /\ row = "ended" /\ (lost = 0 => hash = "ended")
         /\ call[h] = "seed" => found[h] = "ended"
    /\ calm /\ began[h] = "active" =>
         /\ row \in {"active", "ended"}
         /\ call[h] = "seed" => found[h] = "active" \/ row = "ended"

Inv == CallsInv /\ CreatedInv /\ DataInv /\ HostInv /\ JoinsInv

LEMMA InitInv == RoomInit => Inv
<1> SUFFICES ASSUME RoomInit PROVE Inv
  OBVIOUS
<1> USE AccessAssumption DEF RoomInit, Calls, Statuses, Life!Status, Life!Ops, Life!Unused
<1>1. Life!Init /\ Init /\ began = [h \in Handlers |-> Missing]
  OBVIOUS
<1>2. CallsInv
  <2>1. PICK s \in Scenarios :
          op = [c \in HostCalls \cup Handlers |->
                  IF c \in HostCalls THEN s.ops[c]
                  ELSE IF JoinsVenue(c) THEN "join" ELSE Life!Unused]
    OBVIOUS
  <2>2. \A c \in HostCalls : op[c] # "join"
    BY <2>1
  <2>3. \A h \in Handlers : op[h] \in {"join", "none"}
    BY <2>1
  <2> QED
    BY <1>1, <2>2, <2>3 DEF CallsInv, Life!Init, Life!Steps
<1>3. CreatedInv
  BY <1>1, <1>2 DEF CreatedInv, Life!Init
<1>4. DataInv
  BY <1>1 DEF DataInv, Life!Init, Init, Steps
<1>5. HostInv
  BY <1>1 DEF HostInv, Life!Init, Life!Busy, Life!Ended
<1>6. JoinsInv
  BY <1>1, <1>2 DEF JoinsInv, CallsInv
<1> QED
  BY <1>2, <1>3, <1>4, <1>5, <1>6 DEF Inv

-----------------------------------------------------------------------------
(* Steps that leave the lifecycle alone. *)
LEMMA Elsewhere ==
  ASSUME Inv, UNCHANGED <<lifecycle, began>>, pc' \in [Handlers -> Steps], faults' \in Nat
  PROVE  Inv'
BY DEF Inv, CallsInv, CreatedInv, DataInv, HostInv, JoinsInv, lifecycle, Life!Busy

(* The handlers keep their places' type, and count faults. *)
LEMMA PlacesStep ==
  ASSUME DataInv, [RoomNext]_allVars
  PROVE  pc' \in [Handlers -> Steps] /\ faults' \in Nat
<1> USE DEF DataInv, Goto, Steps, Waiting
<1>1. ASSUME NEW h \in Handlers, Start(h) PROVE pc' \in [Handlers -> Steps] /\ faults' \in Nat
  BY <1>1 DEF Start
<1>2. ASSUME NEW h \in Handlers, TurnedAway(h) \/ Enter(h)
      PROVE pc' \in [Handlers -> Steps] /\ faults' \in Nat
  BY <1>2 DEF TurnedAway, Enter
<1>3. ASSUME NEW h \in Handlers, Count(h) PROVE pc' \in [Handlers -> Steps] /\ faults' \in Nat
  BY <1>3 DEF Count, Claim, Increment, Renew, ReadCount, Snapshot, GetActive, DeleteActive, Decrement
<1>4. ASSUME NEW h \in Handlers, Fails(h) PROVE pc' \in [Handlers -> Steps] /\ faults' \in Nat
  BY <1>4 DEF Fails
<1>5. ASSUME UNCHANGED vars PROVE pc' \in [Handlers -> Steps] /\ faults' \in Nat
  BY <1>5 DEF vars
<1> QED
  BY <1>1, <1>2, <1>3, <1>4, <1>5 DEF RoomNext, HostActs, GuestActs, Arrive, AskVenue, AskElsewhere,
     HandlerFails, Inside, Rests, allVars

-----------------------------------------------------------------------------
(* The host's calls. *)
LEMMA HostStepInv ==
  ASSUME Inv, NEW c \in HostCalls, Life!HostStep(c), UNCHANGED <<vars, began>>
  PROVE  Inv'
<1> USE DEF Inv, CallsInv, CreatedInv, DataInv, HostInv, JoinsInv, Calls, Statuses, vars
<1> USE DEF Life!Goto, Life!Busy, Life!Ended, Life!Steps, Life!Ops, Life!Unused, Life!Status
<1>1. CASE Life!Begin(c)
  <2> USE <1>1 DEF Life!Begin, Life!FirstStep
  <2>0. c \in Calls /\ op[c] \in {"create", "activate", "end", "update"}
    OBVIOUS
  <2>1. CallsInv'
    BY <2>0
  <2>2. CreatedInv'
    BY <2>0
  <2>3. DataInv'
    BY <2>0
  <2>4. HostInv'
    <3>1. calm' => calm /\ Life!Busy = {} /\ Life!Busy' \subseteq {c}
      BY <2>0
    <3>2. calm' => \A d \in Calls : call'[d] = "hset" <=> call[d] = "hset"
      BY <2>0
    <3>3. calm' => \A d \in Calls : call'[d] = "save" => d = c \/ call[d] = "save"
      BY <2>0
    <3>4. call'[c] = "save" => op[c] = "create"
      BY <2>0
    <3> QED
      BY <2>0, <3>1, <3>2, <3>3, <3>4
  <2>5. JoinsInv'
    BY <2>0
  <2> QED
    BY <2>1, <2>2, <2>3, <2>4, <2>5
<1>2. CASE Life!Find(c)
  <2> USE <1>2 DEF Life!Find, Life!NextStep, Life!Allowed
  <2>0. c \in Calls /\ op[c] \in {"activate", "end", "update"}
    OBVIOUS
  <2>1. CallsInv'
    BY <2>0
  <2>2. CreatedInv'
    BY <2>0
  <2>3. DataInv'
    <3>1. found' \in [Calls -> Statuses \cup {Missing}] /\ row' \in Statuses \cup {Missing}
      BY <2>0
    <3> QED
      BY <3>1
  <2>4. HostInv'
    BY <2>0
  <2>5. JoinsInv'
    BY <2>0
  <2> QED
    BY <2>1, <2>2, <2>3, <2>4, <2>5
<1>3. CASE Life!Save(c)
  <2> USE <1>3 DEF Life!Save, Life!Saved, Life!Allowed
  <2>0. c \in Calls /\ op[c] \in {"create", "activate", "end", "update"}
    OBVIOUS
  <2>1. CallsInv'
    BY <2>0
  <2>2. CreatedInv'
    <3>1. row' # Missing
      BY <2>0
    <3> QED
      BY <2>0, <3>1
  <2>3. DataInv'
    <3>1. found' \in [Calls -> Statuses \cup {Missing}] /\ row' \in Statuses \cup {Missing}
      BY <2>0
    <3> QED
      BY <3>1
  <2>4. HostInv'
    BY <2>0
  <2>5. JoinsInv'
    BY <2>0
  <2> QED
    BY <2>1, <2>2, <2>3, <2>4, <2>5
<1>4. CASE Life!SetHash(c)
  <2> USE <1>4 DEF Life!SetHash, Life!Hashed
  <2>1. CallsInv'
    OBVIOUS
  <2>2. CreatedInv'
    OBVIOUS
  <2>3. DataInv'
    OBVIOUS
  <2>4. HostInv'
    OBVIOUS
  <2>5. JoinsInv'
    OBVIOUS
  <2> QED
    BY <2>1, <2>2, <2>3, <2>4, <2>5
<1>5. CASE Life!Fails(c)
  BY <1>5 DEF Life!Fails
<1> QED
  BY <1>1, <1>2, <1>3, <1>4, <1>5 DEF Life!HostStep

(* Redis loses the hash. *)
LEMMA HashLostInv == ASSUME Inv, Life!HashLost, UNCHANGED <<vars, began>> PROVE Inv'
BY DEF Inv, CallsInv, CreatedInv, DataInv, HostInv, JoinsInv, vars, Life!HashLost, Life!Busy

-----------------------------------------------------------------------------
(* The guests' joins. *)
LEMMA ArriveInv ==
  ASSUME Inv, NEW h \in Handlers, Arrive(h), pc' \in [Handlers -> Steps]
  PROVE  Inv'
<1> USE DEF Inv, CallsInv, CreatedInv, DataInv, HostInv, JoinsInv, Calls, Statuses
<1> USE DEF Life!Goto, Life!Busy, Life!Ended, Life!Steps, Life!Ops, Life!Unused, Life!Status
<1>0. faults' = faults
  BY DEF Arrive, Start
<1>1. CASE op[h] = "join"
  <2> USE <1>1 DEF Life!Begin, Life!FirstStep
  <2>0. Life!Begin(h) /\ began' = [began EXCEPT ![h] = IF Life!Busy = {} THEN row ELSE Missing]
    BY DEF Arrive
  <2>1. CallsInv'
    BY <2>0
  <2>2. CreatedInv'
    BY <2>0
  <2>3. DataInv'
    BY <2>0, <1>0
  <2>4. HostInv'
    <3>1. calm' = calm /\ UNCHANGED <<row, hash, op, found, lost>>
      BY <2>0
    <3>2. call'[h] = "hget" /\ \A c \in Calls : c # h => call'[c] = call[c]
      BY <2>0
    <3>3. \A c \in Calls : call'[c] \in {"save", "hset"} => c # h
      BY <3>2
    <3>4. \A c \in Calls : call[c] = "hset" => c # h /\ call'[c] = "hset"
      BY <3>2
    <3>5. Life!Busy' = Life!Busy
      BY <3>1, <3>2
    <3> QED
      BY <3>1, <3>2, <3>3, <3>4, <3>5
  <2>5. JoinsInv'
    <3>1. Life!Busy = {} => \A c \in Calls : call[c] # "hset"
      BY <2>0
    <3>2. calm /\ lost = 0 /\ Life!Busy = {} => hash = row
      BY <3>1
    <3>3. \A g \in Handlers : g # h => began'[g] = began[g] /\ call'[g] = call[g]
      BY <2>0
    <3>4. call'[h] = "hget" /\ (began'[h] # Missing => began'[h] = row /\ Life!Busy = {})
      BY <2>0
    <3>5. UNCHANGED <<row, hash, op, found, lost>> /\ calm' = calm
      BY <2>0
    <3> QED
      BY <3>2, <3>3, <3>4, <3>5
  <2> QED
    BY <2>1, <2>2, <2>3, <2>4, <2>5
<1>2. CASE op[h] # "join"
  BY <1>0, <1>2, Elsewhere DEF Arrive
<1> QED
  BY <1>1, <1>2

LEMMA AskVenueInv ==
  ASSUME Inv, NEW h \in Handlers, AskVenue(h), pc' \in [Handlers -> Steps], faults' \in Nat
  PROVE  Inv'
<1> USE DEF Inv, CallsInv, CreatedInv, DataInv, HostInv, JoinsInv, Calls, Statuses
<1> USE DEF Life!Goto, Life!Busy, Life!Ended, Life!Steps, Life!Ops, Life!Unused, Life!Status
<1>0. h \in Calls /\ op[h] = "join" /\ began' = began
  BY DEF AskVenue
<1>1. CASE Life!ReadHash(h)
  BY <1>0, <1>1 DEF Life!ReadHash, Life!Admitted
<1>2. CASE Life!Find(h)
  <2> USE <1>0, <1>2 DEF Life!Find, Life!Allowed, Life!NextStep
  <2>1. CallsInv'
    OBVIOUS
  <2>2. CreatedInv'
    OBVIOUS
  <2>3. DataInv'
    OBVIOUS
  <2>4. HostInv'
    OBVIOUS
  <2>5. JoinsInv'
    OBVIOUS
  <2> QED
    BY <2>1, <2>2, <2>3, <2>4, <2>5
<1>3. CASE Life!Reseed(h)
  BY <1>0, <1>3 DEF Life!Reseed, Life!Admitted
<1> QED
  BY <1>1, <1>2, <1>3 DEF AskVenue, Life!Validate

LEMMA HandlerFailsInv ==
  ASSUME Inv, NEW h \in Handlers, HandlerFails(h), pc' \in [Handlers -> Steps], faults' \in Nat
  PROVE  Inv'
<1> USE DEF Inv, CallsInv, CreatedInv, DataInv, HostInv, JoinsInv, Calls, Statuses
<1>1. CASE op[h] = "join" /\ pc[h] = "validate"
  BY <1>1 DEF HandlerFails, Life!Busy, Life!Ended, Life!Steps
<1>2. CASE ~(op[h] = "join" /\ pc[h] = "validate")
  BY <1>2, Elsewhere DEF HandlerFails, lifecycle
<1> QED
  BY <1>1, <1>2

-----------------------------------------------------------------------------
LEMMA InvStep == Inv /\ [RoomNext]_allVars => Inv'
<1> SUFFICES ASSUME Inv, [RoomNext]_allVars PROVE Inv'
  OBVIOUS
<1>0. pc' \in [Handlers -> Steps] /\ faults' \in Nat
  BY PlacesStep DEF Inv
<1>1. CASE HostActs
  BY <1>1, HostStepInv, HashLostInv DEF HostActs
<1>2. ASSUME NEW h \in Handlers, Arrive(h) PROVE Inv'
  BY <1>0, <1>2, ArriveInv
<1>3. ASSUME NEW h \in Handlers, AskVenue(h) PROVE Inv'
  BY <1>0, <1>3, AskVenueInv
<1>4. ASSUME NEW h \in Handlers, AskElsewhere(h) \/ Inside(h) PROVE Inv'
  BY <1>0, <1>4, Elsewhere DEF AskElsewhere, Inside
<1>5. ASSUME NEW h \in Handlers, HandlerFails(h) PROVE Inv'
  BY <1>0, <1>5, HandlerFailsInv
<1>6. CASE UNCHANGED allVars
  BY <1>0, <1>6, Elsewhere DEF allVars
<1> QED
  BY <1>1, <1>2, <1>3, <1>4, <1>5, <1>6 DEF RoomNext, GuestActs, Rests

-----------------------------------------------------------------------------
(* Only a save moves the status, by one at most while it is calm. *)
LEMMA ForwardStep ==
  Inv /\ [RoomNext]_allVars =>
    [calm' /\ row # Missing => Life!Rank[row'] \in {Life!Rank[row], Life!Rank[row] + 1}]_allVars
<1> SUFFICES ASSUME Inv, RoomNext, calm', row # Missing
             PROVE  Life!Rank[row'] \in {Life!Rank[row], Life!Rank[row] + 1}
  OBVIOUS
<1>1. row \in Statuses
  BY DEF Inv, DataInv
<1>2. ASSUME row' = row PROVE Life!Rank[row'] \in {Life!Rank[row], Life!Rank[row] + 1}
  BY <1>2
<1>3. ASSUME NEW c \in HostCalls, Life!Save(c)
      PROVE  Life!Rank[row'] \in {Life!Rank[row], Life!Rank[row] + 1}
  <2>1. calm /\ c \in Calls /\ call[c] = "save"
    BY <1>3 DEF Life!Save, Calls
  <2>2. op[c] \in {"activate", "end", "update"}
    BY <2>1 DEF Inv, CallsInv, CreatedInv, Life!Ops, Life!Unused
  <2>3. found[c] = row /\ row \in Life!Allowed[op[c]]
    BY <2>1, <2>2 DEF Inv, HostInv
  <2> QED
    BY <1>1, <1>3, <2>2, <2>3 DEF Life!Save, Life!Saved, Life!Allowed, Life!Rank, Statuses
<1>4. CASE HostActs
  BY <1>2, <1>3, <1>4 DEF HostActs, Life!HostStep, Life!Begin, Life!Find, Life!SetHash, Life!Fails, Life!HashLost
<1>5. CASE GuestActs \/ Rests
  <2>1. row' = row
    BY <1>5 DEF GuestActs, Rests, Arrive, AskVenue, AskElsewhere, HandlerFails, Inside, Life!Begin,
       Life!Validate, Life!ReadHash, Life!Find, Life!Reseed, lifecycle, allVars
  <2> QED
    BY <1>2, <2>1
<1> QED
  BY <1>4, <1>5 DEF RoomNext

(* While the host's calls follow one another, the status of an event only   *)
(* goes from draft to active to ended (activateEvent, endEvent, updateEvent). *)
THEOREM StatusForward == RoomSpec => StatusMovesForward
<1>1. Inv /\ Inv' /\ [RoomNext]_allVars =>
        [calm' /\ row # Missing => Life!Rank[row'] \in {Life!Rank[row], Life!Rank[row] + 1}]_allVars
  BY ForwardStep
<1> QED
  BY InitInv, InvStep, <1>1, PTL DEF RoomSpec, StatusMovesForward

-----------------------------------------------------------------------------
(* What DoorFollowsHost says of one handler's step. *)
Right(h) ==
  calm /\ pc[h] = "validate" /\ pc'[h] # "validate" =>
    /\ began[h] = "ended" /\ lost = 0 => pc'[h] = "done"
    /\ began[h] = "active" /\ row # "ended" /\ faults' = faults => pc'[h] # "done"

(* Only the end of the validation takes a handler away from it. *)
LEMMA StaysAtDoor ==
  ASSUME DataInv, NEW g \in Handlers, Start(g) \/ Count(g)
  PROVE  \A h \in Handlers : pc[h] = "validate" => pc'[h] = "validate"
<1> USE DEF DataInv, Goto
<1>1. CASE Start(g)
  BY <1>1 DEF Start
<1>2. CASE Count(g)
  BY <1>2 DEF Count, Claim, Increment, Renew, ReadCount, Snapshot, GetActive, DeleteActive, Decrement
<1> QED
  BY <1>1, <1>2

LEMMA AtVenue ==
  ASSUME Inv, NEW g \in Handlers, AskVenue(g)
  PROVE  \A h \in Handlers : Right(h)
<1> USE DEF Inv, CallsInv, DataInv, JoinsInv, Calls, Statuses
<1>0. g \in Calls /\ op[g] = "join" /\ call[g] \in Life!Steps
  BY DEF AskVenue
<1>1. CASE call'[g] = "done" /\ Enter(g)
  <2>1. \A h \in Handlers : h # g => pc'[h] = pc[h]
    BY <1>1 DEF Enter, Goto
  <2>2. pc'[g] \in {"claim", "read"}
    BY <1>1 DEF Enter, Goto
  <2>3. ~(calm /\ began[g] = "ended" /\ lost = 0)
    BY <1>0, <1>1 DEF AskVenue, Life!Validate, Life!ReadHash, Life!Find, Life!Reseed, Life!Admitted,
       Life!Goto, Life!Allowed, Life!NextStep
  <2> QED
    BY <2>1, <2>2, <2>3 DEF Right
<1>2. CASE call'[g] = "refused" /\ TurnedAway(g)
  <2>1. \A h \in Handlers : h # g => pc'[h] = pc[h]
    BY <1>2 DEF TurnedAway, Goto
  <2>2. pc'[g] = "done"
    BY <1>2 DEF TurnedAway, Goto
  <2>3. ~(calm /\ began[g] = "active" /\ row # "ended")
    BY <1>0, <1>2 DEF AskVenue, Life!Validate, Life!ReadHash, Life!Find, Life!Reseed, Life!Admitted,
       Life!Goto, Life!Allowed, Life!NextStep, Life!Status
  <2> QED
    BY <2>1, <2>2, <2>3 DEF Right
<1>3. CASE UNCHANGED vars
  BY <1>3 DEF vars, Right
<1> QED
  BY <1>1, <1>2, <1>3 DEF AskVenue

LEMMA DoorStep == Inv /\ [RoomNext]_allVars => [\A h \in Handlers : Right(h)]_allVars
<1> SUFFICES ASSUME Inv, RoomNext PROVE \A h \in Handlers : Right(h)
  OBVIOUS
<1>1. ASSUME NEW g \in Handlers, Start(g) \/ Count(g) PROVE \A h \in Handlers : Right(h)
  BY <1>1, StaysAtDoor DEF Inv, Right
<1>2. ASSUME NEW g \in Handlers, AskElsewhere(g) PROVE \A h \in Handlers : Right(h)
  <2>1. began[g] = Missing /\ Missing \notin Statuses
    BY <1>2 DEF Inv, CallsInv, DataInv, JoinsInv, AskElsewhere
  <2>2. \A h \in Handlers : h # g => pc'[h] = pc[h]
    BY <1>2 DEF AskElsewhere, TurnedAway, Enter, Goto, Inv, DataInv
  <2> QED
    BY <2>1, <2>2 DEF Right, Statuses
<1>3. ASSUME NEW g \in Handlers, HandlerFails(g) PROVE \A h \in Handlers : Right(h)
  <2>1. faults' # faults /\ pc'[g] = "done" /\ \A h \in Handlers : h # g => pc'[h] = pc[h]
    BY <1>3 DEF HandlerFails, Fails, Goto, Inv, DataInv
  <2> QED
    BY <2>1 DEF Right
<1>4. CASE UNCHANGED vars
  BY <1>4 DEF vars, Right
<1> QED
  BY <1>1, <1>2, <1>3, <1>4, AtVenue DEF RoomNext, HostActs, GuestActs, Rests, Arrive, Inside, allVars

(* While the host's calls follow one another, a join that began after the   *)
(* event had ended is turned away, and one that began when it was open is   *)
(* let in unless it fails or the event has ended meanwhile (handleJoin and  *)
(* validateAndReseedEvent against EventService's saves and hash writes).    *)
THEOREM DoorIsRight == RoomSpec => DoorFollowsHost
<1>1. Inv /\ Inv' /\ [RoomNext]_allVars => [\A h \in Handlers : Right(h)]_allVars
  BY DoorStep
<1> QED
  BY InitInv, InvStep, <1>1, PTL DEF RoomSpec, DoorFollowsHost, Right

-----------------------------------------------------------------------------
(* One handler of a user at a time; it deletes only the key it has read as  *)
(* its own.                                                                 *)
KeysInv ==
  /\ owner \in [Sockets -> Users]
  /\ active \in [Users -> Sockets \cup {Nobody}]
  /\ pc \in [Handlers -> Steps]
  /\ orderly =>
       /\ \A g, h \in Handlers :
            pc[g] \in Waiting /\ pc[h] \in Waiting /\ User(g) = User(h) => g = h
       /\ \A h \in Handlers : pc[h] = "del" => active[User(h)] = Sock(h)

(* What DeleteActive, and nothing else, may do to a key. *)
KeyKept ==
  \A u \in Users :
    orderly /\ active[u] # Nobody /\ active'[u] = Nobody =>
      \E h \in Handlers : pc[h] = "del" /\ pc'[h] = "decr" /\ Sock(h) = active[u]

LEMMA KeysInit == RoomInit => KeysInv
<1> SUFFICES ASSUME RoomInit PROVE KeysInv
  OBVIOUS
<1>1. owner \in Owners /\ pc = [h \in Handlers |-> "idle"] /\ active = [u \in Users |-> Nobody]
  BY DEF RoomInit, Init
<1> QED
  BY <1>1, OwnerAssumption DEF KeysInv, Waiting, Steps

(* Steps of a handler under way. *)
LEMMA KeysMove ==
  ASSUME KeysInv, NEW h \in Handlers, pc[h] \in Waiting, owner' = owner, orderly' = orderly,
         NEW to \in Steps, pc' = [pc EXCEPT ![h] = to],
         active' \in [Users -> Sockets \cup {Nobody}],
         \A u \in Users : u # User(h) => active'[u] = active[u],
         to = "del" => active'[User(h)] = Sock(h)
  PROVE  KeysInv'
<1> USE DEF KeysInv
<1>1. \A g \in Handlers : User(g)' = User(g) /\ User(g) \in Users
  BY DEF User, Handlers
<1>2. \A g \in Handlers : pc'[g] \in Waiting => pc[g] \in Waiting
  OBVIOUS
<1>3. ASSUME orderly, NEW g \in Handlers, pc'[g] = "del" PROVE active'[User(g)] = Sock(g)
  <2>1. CASE g = h
    BY <1>3, <2>1
  <2>2. CASE g # h
    BY <1>1, <1>3, <2>2 DEF Waiting
  <2> QED
    BY <2>1, <2>2
<1> QED
  BY <1>1, <1>2, <1>3 DEF Sock

LEMMA KeysStart ==
  ASSUME KeysInv, NEW h \in Handlers, Start(h)
  PROVE  KeysInv' /\ active' = active
<1> USE DEF KeysInv
<1>1. UNCHANGED <<owner, active>> /\ orderly' = (orderly /\ Busy(User(h)) = {})
  BY DEF Start, redis
<1>2. PICK to \in {"validate", "get", "done"} : pc' = [pc EXCEPT ![h] = to]
  BY DEF Start, Goto
<1>3. orderly' => orderly /\ \A g \in Handlers : User(g) = User(h) => pc[g] \notin Waiting
  BY <1>1 DEF Busy
<1>4. \A g \in Handlers : User(g)' = User(g)
  BY <1>1 DEF User
<1> QED
  BY <1>1, <1>2, <1>3, <1>4 DEF Waiting, Steps, Sock

LEMMA KeysCount ==
  ASSUME KeysInv, NEW h \in Handlers, Count(h)
  PROVE  KeysInv' /\ KeyKept
<1> USE DEF Goto
<1>0. User(h) \in Users /\ Sock(h) \in Sockets /\ Sock(h) # Nobody
  BY OwnerAssumption DEF KeysInv, User, Sock, Handlers
<1>1. CASE Increment(h) \/ ReadCount(h) \/ Snapshot(h) \/ Decrement(h)
  <2>1. UNCHANGED <<owner, active, orderly>> /\ pc[h] \in Waiting
    BY <1>1 DEF Increment, ReadCount, Snapshot, Decrement, redis, Waiting
  <2>2. PICK to \in {"snapshot", "done"} : pc' = [pc EXCEPT ![h] = to]
    BY <1>1 DEF Increment, ReadCount, Snapshot, Decrement
  <2>3. KeysInv'
    BY <2>1, <2>2, KeysMove DEF KeysInv, Steps, Waiting
  <2> QED
    BY <2>1, <2>3 DEF KeyKept
<1>2. CASE Claim(h) \/ Renew(h)
  <2>1. UNCHANGED <<owner, orderly>> /\ pc[h] \in Waiting
    BY <1>2 DEF Claim, Renew, Waiting
  <2>2. PICK to \in {"incr", "renew", "read"} : pc' = [pc EXCEPT ![h] = to]
    BY <1>2 DEF Claim, Renew
  <2>3. active' = active \/ active' = [active EXCEPT ![User(h)] = Sock(h)]
    BY <1>2 DEF Claim, Renew, TakeOver
  <2>4. KeysInv'
    <3>1. active' \in [Users -> Sockets \cup {Nobody}] /\ \A u \in Users : u # User(h) => active'[u] = active[u]
      BY <1>0, <2>3 DEF KeysInv
    <3>2. to \in Steps /\ to # "del"
      BY <2>2 DEF Steps, Waiting
    <3> QED
      BY <2>1, <2>2, <3>1, <3>2, KeysMove
  <2>5. \A u \in Users : active'[u] = active[u] \/ active'[u] # Nobody
    BY <1>0, <2>3 DEF KeysInv
  <2> QED
    BY <2>4, <2>5 DEF KeyKept
<1>3. CASE GetActive(h)
  <2>1. UNCHANGED <<owner, active, orderly>> /\ pc[h] \in Waiting
    BY <1>3 DEF GetActive, redis, Waiting
  <2>2. PICK to \in {"del", "done"} : pc' = [pc EXCEPT ![h] = to] /\ (to = "del" => active[User(h)] = Sock(h))
    BY <1>3 DEF GetActive, IsCurrent
  <2>3. KeysInv'
    BY <2>1, <2>2, KeysMove DEF KeysInv, Steps, Waiting
  <2> QED
    BY <2>1, <2>3 DEF KeyKept
<1>4. CASE DeleteActive(h)
  <2>1. UNCHANGED <<owner, orderly>> /\ pc[h] = "del"
    BY <1>4 DEF DeleteActive
  <2>2. pc' = [pc EXCEPT ![h] = "decr"] /\ active' = [active EXCEPT ![User(h)] = Nobody]
    BY <1>4 DEF DeleteActive, Dropped
  <2>3. KeysInv'
    <3>1. active' \in [Users -> Sockets \cup {Nobody}] /\ \A u \in Users : u # User(h) => active'[u] = active[u]
      BY <1>0, <2>2 DEF KeysInv
    <3>2. "decr" \in Steps /\ "decr" # "del" /\ pc[h] \in Waiting
      BY <2>1 DEF Steps, Waiting
    <3> QED
      BY <2>1, <2>2, <3>1, <3>2, KeysMove
  <2>4. ASSUME NEW u \in Users, orderly, active[u] # Nobody, active'[u] = Nobody
        PROVE  pc'[h] = "decr" /\ Sock(h) = active[u]
    BY <1>0, <2>1, <2>2, <2>4 DEF KeysInv
  <2> QED
    BY <2>1, <2>3, <2>4 DEF KeyKept
<1> QED
  BY <1>1, <1>2, <1>3, <1>4 DEF Count

LEMMA KeysStep == KeysInv /\ [RoomNext]_allVars => KeysInv' /\ [KeyKept]_vars
<1> SUFFICES ASSUME KeysInv, [RoomNext]_allVars PROVE KeysInv' /\ KeyKept
  OBVIOUS
<1>1. ASSUME NEW h \in Handlers, TurnedAway(h) \/ Enter(h) \/ Fails(h) PROVE KeysInv' /\ KeyKept
  <2>1. UNCHANGED <<owner, active, orderly>> /\ pc[h] \in Waiting
    BY <1>1 DEF TurnedAway, Enter, Fails, redis, Waiting
  <2>2. PICK to \in {"done", "claim", "read"} : pc' = [pc EXCEPT ![h] = to]
    BY <1>1 DEF TurnedAway, Enter, Fails, Goto
  <2>3. KeysInv'
    BY <2>1, <2>2, KeysMove DEF KeysInv, Steps, Waiting
  <2> QED
    BY <2>1, <2>3 DEF KeyKept
<1>2. ASSUME UNCHANGED vars PROVE KeysInv' /\ KeyKept
  BY <1>2 DEF vars, redis, KeysInv, KeyKept, User, Sock
<1>3. ASSUME NEW h \in Handlers, Start(h) PROVE KeysInv' /\ KeyKept
  BY <1>3, KeysStart DEF KeyKept
<1> QED
  BY <1>1, <1>2, <1>3, KeysCount DEF RoomNext, HostActs, GuestActs, Rests, Arrive, AskVenue,
     AskElsewhere, Inside, HandlerFails, allVars

(* Only the tab that joined last ends a user's presence (handleLeave and    *)
(* handleDisconnect compare the active key with their socket before they    *)
(* delete it), while the user's handlers run one after the other.           *)
THEOREM NewestTabKept == RoomSpec => NewestTabStays
<1>1. KeysInv /\ [RoomNext]_allVars => [KeyKept]_vars
  BY KeysStep
<1>2. KeysInv /\ [RoomNext]_allVars => KeysInv'
  BY KeysStep
<1> QED
  BY KeysInit, <1>1, <1>2, PTL DEF RoomSpec, NewestTabStays, KeyKept

-----------------------------------------------------------------------------
(* A handler under way is at a room its user's sockets speak of, whether it *)
(* takes the room from its message or from client.data.                     *)
VisitsInv ==
  /\ owner \in [Sockets -> Users] /\ \A s \in Sockets : script[s] \in Seq(Messages)
  /\ pc \in [Handlers -> Steps] /\ active \in [Users -> Sockets \cup {Nobody}]
  /\ data \in [Sockets -> [event : Events, role : Roles] \cup {Nobody}]
  /\ seen \in [Handlers -> [event : Events, role : Roles] \cup {Nobody}]
  /\ got \in [Handlers -> Int] /\ count \in [Events -> Int]
  /\ faults \in Nat /\ orderly \in BOOLEAN
  /\ \A s \in Sockets : data[s] # Nobody => data[s].event \in RoomsOf(owner[s])
  /\ \A h \in Handlers :
       /\ pc[h] \in Waiting => h[2] <= Len(script[h[1]]) /\ Event(h) \in RoomsOf(User(h))
       /\ pc[h] \in {"claim", "incr", "renew"} => Message(h).role = "guest"

(* However handlers overlap, each guest still to be counted has a key.      *)
OvercountInv ==
  Headcount + Cardinality(Joining) <= Cardinality(Present) + Cardinality(Leaving) + faults

(* One handler of a user at a time, in one room: the user is present from   *)
(* the claim of the key on.                                                 *)
PresenceInv ==
  orderly =>
    /\ \A u \in Users : Cardinality(RoomsOf(u)) <= 1
    /\ \A h \in Handlers :
         pc[h] \in {"incr", "renew"} \/ (pc[h] = "read" /\ Message(h).role = "guest")
           => active[User(h)] # Nobody

Here(e) == {u \in Present : RoomsOf(u) = {e}}
In(e) == {h \in Joining : Event(h) = e}
Out(e) == {h \in Leaving : Event(h) = e}
Drift(e) == count[e] - Cardinality(Here(e)) + Cardinality(In(e)) - Cardinality(Out(e))

DriftInv == orderly => \A e \in Events : Drift(e) <= faults /\ -Drift(e) <= faults
ToldInv == orderly /\ faults = 0 => \A h \in Handlers : TellsTheRoom(h)

-----------------------------------------------------------------------------
(* What sockets may send, and where.                                        *)
LEMMA MessageOf ==
  ASSUME \A s \in Sockets : script[s] \in Seq(Messages), NEW h \in Handlers, h[2] <= Len(script[h[1]])
  PROVE  /\ Message(h) \in Messages
         /\ Message(h).event \in RoomsOf(User(h)) /\ Message(h).event \in Events
<1>1. h[1] \in Sockets /\ h[2] \in 1..4 /\ script[h[1]] \in Seq(Messages)
  BY DEF Handlers
<1>2. h[2] \in DOMAIN script[h[1]]
  BY <1>1
<1>3. Message(h) \in Messages
  BY <1>1, <1>2 DEF Message
<1>4. Message(h) \in Range(script[h[1]])
  BY <1>2 DEF Message, Range
<1>5. Message(h) \in UNION {Range(script[s]) : s \in {t \in Sockets : owner[t] = User(h)}}
  BY <1>1, <1>4 DEF User
<1> QED
  BY <1>3, <1>5, Zenon DEF RoomsOf, Messages

LEMMA RoomsAreEvents ==
  ASSUME \A s \in Sockets : script[s] \in Seq(Messages), NEW u
  PROVE  RoomsOf(u) \subseteq Events
<1>1. \A s \in Sockets : \A m \in Range(script[s]) : m \in Messages
  BY DEF Range
<1>2. \A m \in Messages : m.event \in Events
  BY DEF Messages
<1> QED
  BY <1>1, <1>2 DEF RoomsOf

(* The last message a socket sends is its close, as if from its first room. *)
LEMMA VisitsInit == RoomInit => VisitsInv
<1> SUFFICES ASSUME RoomInit PROVE VisitsInv
  OBVIOUS
<1>1. /\ owner \in Owners /\ pc = [h \in Handlers |-> "idle"] /\ active = [u \in Users |-> Nobody]
      /\ data = [s \in Sockets |-> Nobody] /\ seen = [h \in Handlers |-> Nobody]
      /\ got = [h \in Handlers |-> 0] /\ count = [e \in Events |-> 0] /\ faults = 0
  BY DEF RoomInit, Init
<1>2. ASSUME NEW s \in Sockets PROVE script[s] \in Seq(Messages)
  <2>1. PICK sent \in [Sockets -> UNION {Scripts[t] : t \in Sockets}] :
          /\ \A t \in Sockets : sent[t] \in Scripts[t]
          /\ script = [t \in Sockets |->
               IF sent[t] = <<>> THEN <<>> ELSE Append(sent[t], [sent[t][1] EXCEPT !.kind = "close"])]
    BY DEF RoomInit, Init
  <2>2. sent[s] \in Seq(Messages)
    BY <2>1, ScriptAssumption
  <2>3. ASSUME NEW m \in Messages PROVE [m EXCEPT !.kind = "close"] \in Messages
    BY DEF Messages
  <2>4. CASE sent[s] = <<>>
    BY <2>1, <2>4
  <2>5. CASE sent[s] # <<>>
    <3>1. sent[s][1] \in Messages
      BY <2>2, <2>5
    <3>2. script[s] = Append(sent[s], [sent[s][1] EXCEPT !.kind = "close"])
      BY <2>1, <2>5
    <3> QED
      BY <2>2, <2>3, <3>1, <3>2
  <2> QED
    BY <2>4, <2>5
<1>3. orderly \in BOOLEAN
  <2>1. orderly = (\A u \in Users : Cardinality(RoomsOf(u)) <= 1)
    BY DEF RoomInit, Init
  <2> QED
    BY <2>1, Zenon
<1>4. \A h \in Handlers : pc[h] = "idle"
  BY <1>1
<1> QED
  BY <1>1, <1>2, <1>3, <1>4, OwnerAssumption DEF VisitsInv, Steps, Waiting

(* What every step of a handler keeps of the others, and of itself while it *)
(* is under way.                                                            *)
Moves(h, to) ==
  /\ UNCHANGED <<owner, script>> /\ (orderly' => orderly)
  /\ to \in Steps /\ pc' = [pc EXCEPT ![h] = to]
  /\ \A g \in Handlers : g # h => seen'[g] = seen[g] /\ got'[g] = got[g]
  /\ pc[h] \in Waiting /\ to \in Waiting => seen'[h] = seen[h]
  /\ \A u \in Users : u # User(h) => active'[u] = active[u]

LEMMA SameRooms ==
  ASSUME UNCHANGED <<owner, script>>
  PROVE  /\ \A u : RoomsOf(u)' = RoomsOf(u)
         /\ \A h : User(h)' = User(h) /\ Message(h)' = Message(h) /\ Kind(h)' = Kind(h)
BY DEF RoomsOf, User, Message, Kind

LEMMA SameEvents ==
  ASSUME NEW h \in Handlers, NEW to, Moves(h, to)
  PROVE  \A g \in Handlers : g # h \/ (pc[h] \in Waiting /\ to \in Waiting) => Event(g)' = Event(g)
BY SameRooms DEF Moves, Event

LEMMA MovesVisits ==
  ASSUME VisitsInv, NEW h \in Handlers, NEW to, Moves(h, to),
         active' \in [Users -> Sockets \cup {Nobody}],
         data' \in [Sockets -> [event : Events, role : Roles] \cup {Nobody}],
         seen' \in [Handlers -> [event : Events, role : Roles] \cup {Nobody}],
         got' \in [Handlers -> Int], count' \in [Events -> Int], faults' \in Nat, orderly' \in BOOLEAN,
         \A s \in Sockets : data'[s] \in {data[s], Nobody} \/ data'[s].event \in RoomsOf(owner[s]),
         to \in Waiting => pc[h] \in Waiting \/ (h[2] <= Len(script[h[1]]) /\ Event(h)' \in RoomsOf(User(h))),
         to \in {"claim", "incr", "renew"} => Message(h).role = "guest"
  PROVE  VisitsInv'
<1>1. UNCHANGED <<owner, script>> /\ pc' = [pc EXCEPT ![h] = to] /\ to \in Steps
  BY DEF Moves
<1>2. \A g \in Handlers : User(g)' = User(g) /\ Message(g)' = Message(g)
  BY <1>1, SameRooms
<1>3. pc' \in [Handlers -> Steps] /\ pc'[h] = to /\ \A g \in Handlers : g # h => pc'[g] = pc[g]
  BY <1>1 DEF VisitsInv
<1>4. ASSUME NEW s \in Sockets, data'[s] # Nobody PROVE data'[s].event \in RoomsOf(owner[s])'
  <2>1. data'[s].event \in RoomsOf(owner[s])
    BY <1>4 DEF VisitsInv
  <2>2. RoomsOf(owner[s])' = RoomsOf(owner[s])
    BY <1>1 DEF RoomsOf
  <2> QED
    BY <2>1, <2>2
<1>5. ASSUME NEW g \in Handlers, pc'[g] \in Waiting
      PROVE  g[2] <= Len(script'[g[1]]) /\ Event(g)' \in RoomsOf(User(g))'
  <2>1. RoomsOf(User(g))' = RoomsOf(User(g))
    BY <1>1 DEF RoomsOf, User
  <2>2. Event(g)' \in RoomsOf(User(g))
    <3>1. CASE g # h \/ pc[h] \in Waiting
      BY <1>3, <1>5, <3>1, SameEvents DEF VisitsInv
    <3>2. CASE g = h /\ pc[h] \notin Waiting
      BY <1>3, <1>5, <3>2
    <3> QED
      BY <3>1, <3>2
  <2>3. g[2] <= Len(script'[g[1]])
    BY <1>1, <1>3, <1>5 DEF VisitsInv
  <2> QED
    BY <2>1, <2>2, <2>3
<1>6. \A g \in Handlers : pc'[g] \in {"claim", "incr", "renew"} => Message(g)'.role = "guest"
  BY <1>2, <1>3 DEF VisitsInv
<1>7. owner' \in [Sockets -> Users] /\ \A s \in Sockets : script'[s] \in Seq(Messages)
  BY <1>1 DEF VisitsInv
<1> QED
  BY <1>3, <1>4, <1>5, <1>6, <1>7 DEF VisitsInv

(* How a handler that starts or ends writes client.data.                    *)
LEMMA ForgetTypes ==
  ASSUME VisitsInv, NEW h \in Handlers, Forget(h)
  PROVE  /\ data' \in [Sockets -> [event : Events, role : Roles] \cup {Nobody}]
         /\ seen' \in [Handlers -> [event : Events, role : Roles] \cup {Nobody}]
         /\ \A s \in Sockets : data'[s] \in {data[s], Nobody}
         /\ \A g \in Handlers : g # h => seen'[g] = seen[g]
<1>1. seen' = [seen EXCEPT ![h] = Nobody]
  BY DEF Forget
<1>2. data' = data \/ data' = [data EXCEPT ![Sock(h)] = Nobody]
  BY DEF Forget
<1> QED
  BY <1>1, <1>2 DEF VisitsInv

LEMMA StartMoves ==
  ASSUME VisitsInv, NEW h \in Handlers, Start(h)
  PROVE  /\ VisitsInv' /\ UNCHANGED <<active, count, faults>>
         /\ pc[h] = "idle" /\ \E to \in {"validate", "get", "done"} : Moves(h, to)
<1> USE DEF VisitsInv
<1>1. /\ UNCHANGED <<owner, script, got, active, count, faults>> /\ pc[h] = "idle"
      /\ h[2] <= Len(script[h[1]]) /\ orderly' = (orderly /\ Busy(User(h)) = {})
  BY DEF Start, redis
<1>2. orderly' \in BOOLEAN /\ (orderly' => orderly)
  BY <1>1
<1>3. Sock(h) \in Sockets /\ owner[Sock(h)] = User(h) /\ Message(h).event \in RoomsOf(User(h))
  BY <1>1, MessageOf DEF Sock, User, Handlers
<1>4. {"validate", "get", "done"} \subseteq Steps /\ "idle" \notin Waiting
  BY DEF Steps, Waiting
<1>5. CASE Kind(h) = "join" /\ Goto(h, "validate") /\ UNCHANGED <<data, seen>>
  <2>1. Moves(h, "validate")
    BY <1>1, <1>2, <1>4, <1>5 DEF Moves, Goto
  <2>2. Event(h)' \in RoomsOf(User(h))
    BY <1>1, <1>3, <1>5, SameRooms DEF Event
  <2> QED
    BY <1>1, <1>2, <1>5, <2>1, <2>2, MovesVisits
<1>6. CASE /\ IsGuest(data[Sock(h)]) /\ Goto(h, "get")
           /\ seen' = [seen EXCEPT ![h] = data[Sock(h)]] /\ UNCHANGED data
  <2>1. Moves(h, "get")
    BY <1>1, <1>2, <1>4, <1>6 DEF Moves, Goto
  <2>2. Event(h)' \in RoomsOf(User(h))
    <3>1. data[Sock(h)].event \in RoomsOf(User(h)) /\ seen'[h] = data[Sock(h)]
      BY <1>3, <1>6 DEF IsGuest
    <3> QED
      BY <1>1, <1>3, <3>1, SameRooms DEF Event
  <2>3. seen' \in [Handlers -> [event : Events, role : Roles] \cup {Nobody}]
    BY <1>3, <1>6
  <2> QED
    BY <1>1, <1>2, <1>6, <2>1, <2>2, <2>3, MovesVisits
<1>7. CASE Goto(h, "done") /\ Forget(h)
  <2>1. Moves(h, "done")
    BY <1>1, <1>2, <1>4, <1>7, ForgetTypes DEF Moves, Goto
  <2>2. "done" \notin Waiting /\ "done" \notin {"claim", "incr", "renew"}
    BY DEF Waiting
  <2> QED
    BY <1>1, <1>2, <1>7, <2>1, <2>2, ForgetTypes, MovesVisits
<1> QED
  BY <1>5, <1>6, <1>7 DEF Start

(* Of a handler under way: what a step does to the key, to the counter of   *)
(* its room and to its place.                                               *)
Quiet == {"validate", "claim", "renew", "read", "snapshot", "get", "del", "done"}
Changes(h, to) ==
  LET u == User(h)
      e == Event(h)
  IN  \/ /\ {pc[h], to} \subseteq Quiet /\ UNCHANGED <<active, count, faults>>
      \/ /\ pc[h] = "claim" /\ to = "incr" /\ active[u] = Nobody /\ active'[u] # Nobody
         /\ UNCHANGED <<count, faults>>
      \/ /\ pc[h] = "incr" /\ to = "snapshot" /\ count' = [count EXCEPT ![e] = @ + 1]
         /\ UNCHANGED <<active, faults>>
      \/ /\ pc[h] = "renew" /\ to = "read" /\ active'[u] # Nobody /\ UNCHANGED <<count, faults>>
      \/ /\ pc[h] = "del" /\ to = "decr" /\ active'[u] = Nobody /\ UNCHANGED <<count, faults>>
      \/ /\ pc[h] = "decr" /\ to = "done" /\ count' = [count EXCEPT ![e] = @ - 1]
         /\ UNCHANGED <<active, faults>>
      \/ /\ to = "done" /\ faults' = faults + 1 /\ UNCHANGED <<active, count>>

(* The order of a handler's steps, and what it will announce.               *)
Follows(h, to) ==
  /\ to = "renew" => active[User(h)] # Nobody
  /\ to = "read" /\ Message(h).role = "guest" => pc[h] = "renew"
  /\ to = "incr" => pc[h] = "claim"
  /\ to = "snapshot" => pc[h] \in {"incr", "read"} /\ got'[h] = count'[Event(h)]

HandlerMove(h) ==
  pc[h] \in Waiting /\ \E to : Moves(h, to) /\ Changes(h, to) /\ Follows(h, to)

LEMMA PlaceOf ==
  ASSUME VisitsInv, NEW h \in Handlers, pc[h] \in Waiting
  PROVE  /\ User(h) \in Users /\ Sock(h) \in Sockets /\ Sock(h) # Nobody
         /\ Event(h) \in RoomsOf(User(h)) /\ Event(h) \in Events
<1>1. User(h) \in Users /\ Sock(h) \in Sockets /\ Sock(h) # Nobody
  BY OwnerAssumption DEF VisitsInv, User, Sock, Handlers
<1> QED
  BY <1>1, RoomsAreEvents DEF VisitsInv

LEMMA HandlerMoves ==
  ASSUME VisitsInv, NEW h \in Handlers, TurnedAway(h) \/ Enter(h) \/ Count(h) \/ Fails(h)
  PROVE  VisitsInv' /\ HandlerMove(h)
<1>1. pc[h] \in Waiting
  BY DEF TurnedAway, Enter, Fails, Count, Claim, Increment, Renew, ReadCount, Snapshot,
     GetActive, DeleteActive, Decrement, Waiting
<1>2. UNCHANGED <<owner, script, orderly>>
  BY DEF TurnedAway, Enter, Fails, Count, Claim, Increment, Renew, ReadCount, Snapshot,
     GetActive, DeleteActive, Decrement
<1>3. Waiting \subseteq Steps /\ "done" \in Steps /\ "done" \notin Waiting
  BY DEF Steps, Waiting
<1>4. /\ User(h) \in Users /\ Sock(h) \in Sockets /\ Sock(h) # Nobody
      /\ Event(h) \in RoomsOf(User(h)) /\ Event(h) \in Events
  BY <1>1, PlaceOf
<1>5. /\ active \in [Users -> Sockets \cup {Nobody}] /\ pc \in [Handlers -> Steps]
      /\ data \in [Sockets -> [event : Events, role : Roles] \cup {Nobody}]
      /\ seen \in [Handlers -> [event : Events, role : Roles] \cup {Nobody}]
      /\ got \in [Handlers -> Int] /\ count \in [Events -> Int] /\ faults \in Nat /\ orderly \in BOOLEAN
  BY DEF VisitsInv
(* Of a step that writes client.data at most: the rest of it.               *)
<1>6. ASSUME NEW to \in Steps, Goto(h, to), UNCHANGED <<active, got, count>>,
             \/ UNCHANGED <<data, seen>>
             \/ to \notin Waiting /\ Forget(h),
             faults' \in Nat, to \notin {"claim", "incr", "renew"}
      PROVE  VisitsInv' /\ Moves(h, to)
  <2>1. /\ data' \in [Sockets -> [event : Events, role : Roles] \cup {Nobody}]
        /\ seen' \in [Handlers -> [event : Events, role : Roles] \cup {Nobody}]
        /\ \A s \in Sockets : data'[s] \in {data[s], Nobody}
        /\ \A g \in Handlers : g # h => seen'[g] = seen[g]
    BY <1>5, <1>6, ForgetTypes
  <2>2. Moves(h, to)
    BY <1>2, <1>6, <2>1 DEF Moves, Goto
  <2> QED
    BY <1>1, <1>2, <1>5, <1>6, <2>1, <2>2, MovesVisits
(* Of a step that leaves client.data alone.                                 *)
<1>7. ASSUME NEW to \in Steps, Goto(h, to), UNCHANGED <<data, seen, faults>>,
             NEW a \in Sockets \cup {Nobody}, active' = active \/ active' = [active EXCEPT ![User(h)] = a],
             NEW n \in Int, got' = got \/ got' = [got EXCEPT ![h] = n],
             count' \in [Events -> Int],
             to \in {"claim", "incr", "renew"} => Message(h).role = "guest"
      PROVE  VisitsInv' /\ Moves(h, to)
  <2>1. /\ active' \in [Users -> Sockets \cup {Nobody}] /\ got' \in [Handlers -> Int]
        /\ \A u \in Users : u # User(h) => active'[u] = active[u]
        /\ \A g \in Handlers : g # h => got'[g] = got[g]
    BY <1>4, <1>5, <1>7
  <2>2. Moves(h, to)
    BY <1>2, <1>7, <2>1 DEF Moves, Goto
  <2> QED
    BY <1>1, <1>2, <1>5, <1>7, <2>1, <2>2, MovesVisits
<1>8. CASE TurnedAway(h)
  <2>1. Goto(h, "done") /\ UNCHANGED <<data, seen, got, active, count, faults>> /\ pc[h] = "validate"
    BY <1>8 DEF TurnedAway, redis
  <2>2. VisitsInv' /\ Moves(h, "done")
    BY <1>3, <1>5, <1>6, <2>1
  <2>3. Changes(h, "done") /\ Follows(h, "done")
    BY <2>1 DEF Changes, Quiet, Follows
  <2> QED
    BY <1>1, <2>2, <2>3 DEF HandlerMove
<1>9. CASE Fails(h)
  <2>1. /\ Goto(h, "done") /\ UNCHANGED <<active, count>> /\ Forget(h) /\ faults' = faults + 1
        /\ got' = [got EXCEPT ![h] = 0]
    BY <1>9 DEF Fails, redis
  <2>2. Moves(h, "done")
    BY <1>2, <1>3, <1>5, <2>1, ForgetTypes DEF Moves, Goto
  <2>3. got' \in [Handlers -> Int] /\ faults' \in Nat
    BY <1>5, <2>1
  <2>4. VisitsInv'
    BY <1>2, <1>3, <1>5, <2>1, <2>2, <2>3, ForgetTypes, MovesVisits
  <2>5. Changes(h, "done") /\ Follows(h, "done")
    BY <2>1 DEF Changes, Follows
  <2> QED
    BY <1>1, <2>2, <2>4, <2>5 DEF HandlerMove
<1>10. CASE Enter(h)
  <2> DEFINE to == IF Message(h).role = "guest" THEN "claim" ELSE "read"
             d == [event |-> Event(h), role |-> Message(h).role]
  <2>1. /\ Goto(h, to) /\ UNCHANGED <<seen, got, active, count, faults>> /\ pc[h] = "validate"
        /\ data' = [data EXCEPT ![Sock(h)] = d]
    BY <1>10 DEF Enter, redis
  <2>2. h[2] <= Len(script[h[1]])
    BY <1>1 DEF VisitsInv
  <2>3. d \in [event : Events, role : Roles] /\ d.event = Event(h)
    BY <1>4, <2>2, MessageOf DEF VisitsInv, Messages
  <2>4. to \in Steps /\ to \in Waiting /\ to \in Quiet /\ (to # "read" => Message(h).role = "guest")
        /\ to \in {"claim", "read"} /\ (to = "read" => Message(h).role # "guest")
    BY DEF Steps, Waiting, Quiet
  <2> HIDE DEF d, to
  <2>5. /\ data' \in [Sockets -> [event : Events, role : Roles] \cup {Nobody}]
        /\ \A s \in Sockets : data'[s] = data[s] \/ data'[s].event \in RoomsOf(owner[s])
    BY <1>4, <1>5, <2>1, <2>3 DEF User, Sock
  <2>6. Moves(h, to)
    BY <1>2, <2>1, <2>4 DEF Moves, Goto
  <2>7. VisitsInv'
    BY <1>1, <1>2, <1>5, <2>1, <2>4, <2>5, <2>6, MovesVisits
  <2>8. Changes(h, to) /\ Follows(h, to)
    BY <2>1, <2>4 DEF Changes, Follows, Quiet
  <2> QED
    BY <1>1, <2>6, <2>7, <2>8 DEF HandlerMove
<1>11. CASE Claim(h)
  <2> DEFINE to == IF IsNew(h) THEN "incr" ELSE "renew"
  <2>1. /\ Goto(h, to) /\ UNCHANGED <<data, seen, got, count, faults>> /\ pc[h] = "claim"
        /\ active' = IF active[User(h)] = Nobody THEN [active EXCEPT ![User(h)] = Sock(h)] ELSE active
    BY <1>11 DEF Claim
  <2>2. to \in Steps /\ Message(h).role = "guest"
    BY <2>1 DEF Steps, Waiting, VisitsInv
  <2>3. VisitsInv' /\ Moves(h, to)
    BY <1>4, <1>5, <1>7, <2>1, <2>2, 0 \in Int
  <2>4. Changes(h, to) /\ Follows(h, to)
    BY <1>4, <1>5, <2>1 DEF Changes, Follows, Quiet, IsNew
  <2> QED
    BY <1>1, <2>3, <2>4 DEF HandlerMove
<1>12. CASE Increment(h)
  <2>1. /\ Goto(h, "snapshot") /\ UNCHANGED <<data, seen, active, faults>> /\ pc[h] = "incr"
        /\ count' = [count EXCEPT ![Event(h)] = @ + 1] /\ got' = [got EXCEPT ![h] = count'[Event(h)]]
    BY <1>12 DEF Increment
  <2>2. count' \in [Events -> Int] /\ count'[Event(h)] \in Int /\ "snapshot" \in Steps
    BY <1>4, <1>5, <2>1 DEF Steps, Waiting
  <2>3. VisitsInv' /\ Moves(h, "snapshot")
    BY <1>4, <1>7, <2>1, <2>2
  <2>4. Changes(h, "snapshot") /\ Follows(h, "snapshot")
    BY <1>5, <2>1 DEF Changes, Follows
  <2> QED
    BY <1>1, <2>3, <2>4 DEF HandlerMove
<1>13. CASE Renew(h)
  <2>1. /\ Goto(h, "read") /\ UNCHANGED <<data, seen, got, count, faults>> /\ pc[h] = "renew"
        /\ active' = [active EXCEPT ![User(h)] = Sock(h)]
    BY <1>13 DEF Renew, TakeOver
  <2>2. "read" \in Steps
    BY DEF Steps, Waiting
  <2>3. VisitsInv' /\ Moves(h, "read")
    BY <1>4, <1>5, <1>7, <2>1, <2>2, 0 \in Int
  <2>4. Changes(h, "read") /\ Follows(h, "read")
    BY <1>4, <1>5, <2>1 DEF Changes, Follows
  <2> QED
    BY <1>1, <2>3, <2>4 DEF HandlerMove
<1>14. CASE ReadCount(h)
  <2>1. /\ Goto(h, "snapshot") /\ UNCHANGED <<data, seen, active, count, faults>> /\ pc[h] = "read"
        /\ got' = [got EXCEPT ![h] = count[Event(h)]]
    BY <1>14 DEF ReadCount, redis
  <2>2. count[Event(h)] \in Int /\ "snapshot" \in Steps
    BY <1>4, <1>5 DEF Steps, Waiting
  <2>3. VisitsInv' /\ Moves(h, "snapshot")
    BY <1>4, <1>5, <1>7, <2>1, <2>2
  <2>4. Changes(h, "snapshot") /\ Follows(h, "snapshot")
    BY <1>5, <2>1 DEF Changes, Follows, Quiet
  <2> QED
    BY <1>1, <2>3, <2>4 DEF HandlerMove
<1>15. CASE Snapshot(h)
  <2>1. /\ Goto(h, "done") /\ UNCHANGED <<data, seen, active, count, faults>> /\ pc[h] = "snapshot"
        /\ got' = [got EXCEPT ![h] = 0]
    BY <1>15 DEF Snapshot, redis
  <2>2. VisitsInv' /\ Moves(h, "done")
    BY <1>3, <1>4, <1>5, <1>7, <2>1, 0 \in Int
  <2>3. Changes(h, "done") /\ Follows(h, "done")
    BY <2>1 DEF Changes, Follows, Quiet
  <2> QED
    BY <1>1, <2>2, <2>3 DEF HandlerMove
<1>16. CASE GetActive(h)
  <2>1. PICK to \in {"del", "done"} :
          /\ Goto(h, to) /\ UNCHANGED <<got, active, count, faults>> /\ pc[h] = "get"
          /\ UNCHANGED <<data, seen>> \/ (to = "done" /\ Forget(h))
    BY <1>16 DEF GetActive, redis
  <2>2. to \in Steps /\ (to = "done" => to \notin Waiting)
    BY <1>3, <2>1 DEF Steps, Waiting
  <2>3. VisitsInv' /\ Moves(h, to)
    BY <1>5, <1>6, <2>1, <2>2
  <2>4. Changes(h, to) /\ Follows(h, to)
    BY <2>1 DEF Changes, Follows, Quiet
  <2> QED
    BY <1>1, <2>3, <2>4 DEF HandlerMove
<1>17. CASE DeleteActive(h)
  <2>1. /\ Goto(h, "decr") /\ UNCHANGED <<data, seen, got, count, faults>> /\ pc[h] = "del"
        /\ active' = [active EXCEPT ![User(h)] = Nobody]
    BY <1>17 DEF DeleteActive, Dropped
  <2>2. "decr" \in Steps
    BY DEF Steps, Waiting
  <2>3. VisitsInv' /\ Moves(h, "decr")
    BY <1>5, <1>7, <2>1, <2>2, 0 \in Int
  <2>4. Changes(h, "decr") /\ Follows(h, "decr")
    BY <1>4, <1>5, <2>1 DEF Changes, Follows
  <2> QED
    BY <1>1, <2>3, <2>4 DEF HandlerMove
<1>18. CASE Decrement(h)
  <2>1. /\ Goto(h, "done") /\ UNCHANGED <<got, active, faults>> /\ pc[h] = "decr" /\ Forget(h)
        /\ count' = [count EXCEPT ![Event(h)] = @ - 1]
    BY <1>18 DEF Decrement
  <2>2. Moves(h, "done")
    BY <1>2, <1>3, <2>1, ForgetTypes DEF Moves, Goto
  <2>3. count' \in [Events -> Int]
    BY <1>4, <1>5, <2>1
  <2>4. VisitsInv'
    BY <1>2, <1>3, <1>5, <2>1, <2>2, <2>3, ForgetTypes, MovesVisits
  <2>5. Changes(h, "done") /\ Follows(h, "done")
    BY <2>1 DEF Changes, Follows
  <2> QED
    BY <1>1, <2>2, <2>4, <2>5 DEF HandlerMove
<1> QED
  BY <1>8, <1>9, <1>10, <1>11, <1>12, <1>13, <1>14, <1>15, <1>16, <1>17, <1>18 DEF Count

StartMove(h) ==
  /\ pc[h] = "idle" /\ UNCHANGED <<active, count, faults>>
  /\ \E to \in {"validate", "get", "done"} : Moves(h, to)

LEMMA VisitsStep ==
  ASSUME VisitsInv, [RoomNext]_allVars
  PROVE  /\ VisitsInv'
         /\ UNCHANGED vars \/ \E h \in Handlers : StartMove(h) \/ HandlerMove(h)
<1>1. ASSUME NEW h \in Handlers, Start(h)
      PROVE  VisitsInv' /\ StartMove(h)
  BY <1>1, StartMoves DEF StartMove
<1>2. ASSUME NEW h \in Handlers, TurnedAway(h) \/ Enter(h) \/ Count(h) \/ Fails(h)
      PROVE  VisitsInv' /\ HandlerMove(h)
  BY <1>2, HandlerMoves
<1>3. ASSUME UNCHANGED vars PROVE VisitsInv'
  <2>1. UNCHANGED <<owner, script, pc, data, seen, got, active, count, orderly, faults>>
    BY <1>3 DEF vars, redis
  <2> QED
    BY <2>1 DEF VisitsInv, RoomsOf, User, Message, Kind, Event
<1>4. \/ UNCHANGED vars
      \/ \E h \in Handlers : \/ Start(h)
                           \/ TurnedAway(h) \/ Enter(h) \/ Count(h) \/ Fails(h)
  BY DEF RoomNext, HostActs, GuestActs, Rests, Arrive, AskVenue, AskElsewhere, Inside, HandlerFails, allVars
<1> QED
  BY <1>1, <1>2, <1>3, <1>4

-----------------------------------------------------------------------------
(* The numbers that a handler's step changes.                               *)
LEMMA FiniteParts ==
  /\ IsFiniteSet(Handlers) /\ IsFiniteSet(Users) /\ IsFiniteSet(Events)
  /\ \A S : S \subseteq Handlers \/ S \subseteq Users => IsFiniteSet(S) /\ Cardinality(S) \in Nat
<1>1. IsFiniteSet(Handlers)
  <2>1. IsFiniteSet(1..4)
    <3>1. 1 \in Int /\ 4 \in Int
      OBVIOUS
    <3> QED
      BY <3>1, FS_Interval, Zenon
  <2> QED
    BY <2>1, FiniteAssumption, FS_Product DEF Handlers
<1> QED
  BY <1>1, FiniteAssumption, FS_Subset, FS_CardinalityType

LEMMA NumbersOfMove ==
  ASSUME VisitsInv, NEW h \in Handlers, NEW to, Moves(h, to)
  PROVE  /\ Cardinality(Joining)' + (IF pc[h] = "incr" THEN 1 ELSE 0)
              = Cardinality(Joining) + (IF to = "incr" THEN 1 ELSE 0)
         /\ Cardinality(Leaving)' + (IF pc[h] = "decr" THEN 1 ELSE 0)
              = Cardinality(Leaving) + (IF to = "decr" THEN 1 ELSE 0)
         /\ Cardinality(Present)' + (IF active[User(h)] # Nobody THEN 1 ELSE 0)
              = Cardinality(Present) + (IF active'[User(h)] # Nobody THEN 1 ELSE 0)
         /\ {Cardinality(Joining), Cardinality(Leaving), Cardinality(Present),
             Cardinality(Joining)', Cardinality(Leaving)', Cardinality(Present)'} \subseteq Nat
<1>1. pc' = [pc EXCEPT ![h] = to] /\ pc \in [Handlers -> Steps] /\ User(h) \in Users
  BY DEF Moves, VisitsInv, User, Handlers
<1>2. /\ Joining \subseteq Handlers /\ Joining' \subseteq Handlers
      /\ Leaving \subseteq Handlers /\ Leaving' \subseteq Handlers
      /\ Present \subseteq Users /\ Present' \subseteq Users
  BY DEF Joining, Leaving, Present
<1>3. /\ Joining \ {h} = Joining' \ {h} /\ (h \in Joining <=> pc[h] = "incr") /\ (h \in Joining' <=> to = "incr")
  BY <1>1 DEF Joining
<1>4. /\ Leaving \ {h} = Leaving' \ {h} /\ (h \in Leaving <=> pc[h] = "decr") /\ (h \in Leaving' <=> to = "decr")
  BY <1>1 DEF Leaving
<1>5. /\ Present \ {User(h)} = Present' \ {User(h)}
      /\ (User(h) \in Present <=> active[User(h)] # Nobody)
      /\ (User(h) \in Present' <=> active'[User(h)] # Nobody)
  BY <1>1 DEF Present, Moves
<1>6. /\ IsFiniteSet(Joining) /\ IsFiniteSet(Joining') /\ IsFiniteSet(Leaving) /\ IsFiniteSet(Leaving')
      /\ IsFiniteSet(Present) /\ IsFiniteSet(Present')
  BY <1>2, FiniteParts
<1>7. {Cardinality(Joining), Cardinality(Leaving), Cardinality(Present),
       Cardinality(Joining'), Cardinality(Leaving'), Cardinality(Present')} \subseteq Nat
  BY <1>2, FiniteParts
<1>8. Cardinality(Joining') + (IF h \in Joining THEN 1 ELSE 0) = Cardinality(Joining) + (IF h \in Joining' THEN 1 ELSE 0)
  BY <1>3, <1>6, OneDiffers
<1>9. Cardinality(Leaving') + (IF h \in Leaving THEN 1 ELSE 0) = Cardinality(Leaving) + (IF h \in Leaving' THEN 1 ELSE 0)
  BY <1>4, <1>6, OneDiffers
<1>10. Cardinality(Present') + (IF User(h) \in Present THEN 1 ELSE 0)
          = Cardinality(Present) + (IF User(h) \in Present' THEN 1 ELSE 0)
  BY <1>5, <1>6, OneDiffers
<1> QED
  BY <1>3, <1>4, <1>5, <1>7, <1>8, <1>9, <1>10

LEMMA HeadcountChange ==
  ASSUME VisitsInv
  PROVE  /\ Headcount \in Int
         /\ count' = count => Headcount' = Headcount
         /\ \A e \in Events, k \in Int : count' = [count EXCEPT ![e] = @ + k] => Headcount' = Headcount + k
<1>1. count \in [Events -> Int] /\ IsFiniteSet(Events)
  BY FiniteAssumption DEF VisitsInv
<1>2. Headcount \in Int
  BY <1>1, SumType DEF Headcount
<1>3. ASSUME NEW e \in Events, NEW k \in Int, count' = [count EXCEPT ![e] = @ + k]
      PROVE  Headcount' = Headcount + k
  <2>1. /\ \A d \in Events : count[d] \in Int /\ count'[d] \in Int
        /\ \A d \in Events : d # e => count[d] = count'[d]
        /\ count'[e] = count[e] + k
    BY <1>1, <1>3
  <2>2. SumFunctionOnSet(count', Events) = SumFunctionOnSet(count, Events) - count[e] + count'[e]
    BY <1>1, <2>1, SumChange
  <2> QED
    BY <1>2, <2>1, <2>2 DEF Headcount
<1> QED
  BY <1>2, <1>3 DEF Headcount

LEMMA OvercountStep ==
  ASSUME VisitsInv, OvercountInv, [RoomNext]_allVars
  PROVE  OvercountInv'
<1>1. CASE UNCHANGED vars
  BY <1>1 DEF vars, redis, OvercountInv, Headcount, Joining, Leaving, Present
<1>2. ASSUME NEW h \in Handlers, StartMove(h) PROVE OvercountInv'
  <2>1. PICK to \in {"validate", "get", "done"} : Moves(h, to)
    BY <1>2 DEF StartMove
  <2>2. pc[h] = "idle" /\ UNCHANGED <<active, count, faults>>
    BY <1>2 DEF StartMove
  <2> QED
    BY <2>1, <2>2, NumbersOfMove, HeadcountChange DEF OvercountInv
<1>3. ASSUME NEW h \in Handlers, HandlerMove(h) PROVE OvercountInv'
  <2>1. PICK to : Moves(h, to) /\ Changes(h, to)
    BY <1>3 DEF HandlerMove
  <2>2. User(h) \in Users /\ Event(h) \in Events /\ faults \in Nat /\ count \in [Events -> Int]
    BY <1>3, PlaceOf DEF HandlerMove, VisitsInv
  <2>3. /\ count' = count => Headcount' = Headcount
        /\ count' = [count EXCEPT ![Event(h)] = @ + 1] => Headcount' = Headcount + 1
        /\ count' = [count EXCEPT ![Event(h)] = @ - 1] => Headcount' = Headcount - 1
        /\ Headcount \in Int
    <3>1. Headcount \in Int /\ (count' = count => Headcount' = Headcount)
      BY HeadcountChange
    <3>2. ASSUME count' = [count EXCEPT ![Event(h)] = @ + 1] PROVE Headcount' = Headcount + 1
      BY <2>2, <3>2, HeadcountChange, 1 \in Int
    <3>3. ASSUME count' = [count EXCEPT ![Event(h)] = @ - 1] PROVE Headcount' = Headcount - 1
      <4>1. count' = [count EXCEPT ![Event(h)] = @ + (-1)]
        BY <2>2, <3>3
      <4> QED
        BY <2>2, <3>1, <4>1, HeadcountChange, -1 \in Int
    <3> QED
      BY <3>1, <3>2, <3>3
  <2> HIDE DEF Headcount
  <2> QED
    BY <2>1, <2>2, <2>3, NumbersOfMove DEF Changes, Quiet, OvercountInv
<1> QED
  BY <1>1, <1>2, <1>3, VisitsStep

(* However the handlers of tabs and users overlap, a guest is never counted *)
(* twice (handleJoin's SET NX before its INCR, handleLeave's and            *)
(* handleDisconnect's DEL before their DECR).                               *)
THEOREM GuestsNeverOvercounted == RoomSpec => []NeverOvercounts
<1>1. RoomInit => VisitsInv /\ OvercountInv
  <2> SUFFICES ASSUME RoomInit PROVE OvercountInv
    BY VisitsInit
  <2>1. count = [e \in Events |-> 0] /\ faults = 0 /\ Joining = {}
    BY DEF RoomInit, Init, Joining
  <2>2. Headcount = 0
    BY <2>1, FiniteAssumption, SumZero DEF Headcount
  <2>3. Cardinality(Present) \in Nat /\ Cardinality(Leaving) \in Nat
    BY FiniteParts DEF Present, Leaving
  <2> QED
    BY <2>1, <2>2, <2>3, FS_EmptySet DEF OvercountInv
<1>2. VisitsInv /\ OvercountInv /\ [RoomNext]_allVars => VisitsInv' /\ OvercountInv'
  BY VisitsStep, OvercountStep
<1>3. VisitsInv /\ OvercountInv => NeverOvercounts
  <2> SUFFICES ASSUME VisitsInv, OvercountInv PROVE NeverOvercounts
    OBVIOUS
  <2>1. /\ Cardinality(Present) \in Nat /\ Cardinality(Leaving) \in Nat /\ Cardinality(Joining) \in Nat
        /\ Headcount \in Int /\ faults \in Nat
    BY FiniteParts, HeadcountChange DEF Present, Leaving, Joining, VisitsInv
  <2> QED
    BY <2>1 DEF OvercountInv, NeverOvercounts
<1> QED
  BY <1>1, <1>2, <1>3, PTL DEF RoomSpec

-----------------------------------------------------------------------------
(* While each user's handlers run one by one, in one room.                  *)
LEMMA OneRoom ==
  ASSUME VisitsInv, PresenceInv, orderly, NEW h \in Handlers, pc[h] \in Waiting
  PROVE  RoomsOf(User(h)) = {Event(h)}
<1> DEFINE R == RoomsOf(User(h))
<1>1. Event(h) \in R /\ R \subseteq Events /\ Cardinality(R) <= 1
  BY PlaceOf, RoomsAreEvents DEF VisitsInv, PresenceInv
<1>2. IsFiniteSet(R) /\ Cardinality(R) \in Nat
  BY <1>1, FiniteAssumption, FS_Subset, FS_CardinalityType
<1> HIDE DEF R
<1>3. Cardinality(R) # 0
  BY <1>1, <1>2, FS_EmptySet
<1>4. \E x : R = {x}
  BY <1>1, <1>2, <1>3, FS_Singleton
<1> QED
  BY <1>1, <1>4 DEF R

(* The key of a guest's user is no one's to delete before it is counted.    *)
LEMMA PresenceStep ==
  ASSUME VisitsInv, KeysInv, PresenceInv, [RoomNext]_allVars
  PROVE  PresenceInv'
<1>1. CASE UNCHANGED vars
  <2>1. UNCHANGED <<owner, script, pc, active, orderly>>
    BY <1>1 DEF vars, redis
  <2> QED
    BY <2>1 DEF PresenceInv, RoomsOf, User, Message
<1>2. ASSUME NEW h \in Handlers, NEW to, Moves(h, to), orderly',
             \/ pc[h] = "idle" /\ to \in {"validate", "get", "done"} /\ UNCHANGED active
             \/ pc[h] \in Waiting /\ Changes(h, to) /\ Follows(h, to)
      PROVE  PresenceInv'
  <2>1. /\ orderly /\ UNCHANGED <<owner, script>> /\ pc' = [pc EXCEPT ![h] = to]
        /\ \A u \in Users : u # User(h) => active'[u] = active[u]
    BY <1>2 DEF Moves
  <2>2. \A u \in Users : RoomsOf(u)' = RoomsOf(u)
    BY <2>1, SameRooms
  <2>3. \A g \in Handlers : User(g)' = User(g) /\ User(g) \in Users /\ Message(g)' = Message(g)
    BY <2>1, SameRooms DEF VisitsInv, User, Handlers
  <2>4. /\ pc'[h] = to
        /\ \A g \in Handlers : g # h => pc'[g] = pc[g]
    BY <2>1 DEF VisitsInv
  <2>5. ASSUME NEW g \in Handlers,
               pc'[g] \in {"incr", "renew"} \/ (pc'[g] = "read" /\ Message(g).role = "guest")
        PROVE  active'[User(g)] # Nobody
    <3>1. CASE g # h
      <4>1. active[User(g)] # Nobody /\ pc[g] \in Waiting
        BY <2>1, <2>4, <2>5, <3>1 DEF PresenceInv, Waiting
      <4>2. UNCHANGED active \/ User(g) # User(h)
        BY <1>2, <2>1, <3>1, <4>1 DEF KeysInv
      <4> QED
        BY <2>1, <2>3, <4>1, <4>2
    <3>2. CASE g = h /\ pc[h] \in Waiting
      BY <1>2, <2>1, <2>4, <2>5, <3>2 DEF Changes, Follows, Quiet, PresenceInv
    <3>3. CASE g = h /\ pc[h] = "idle"
      BY <1>2, <2>4, <2>5, <3>3 DEF Waiting
    <3> QED
      BY <1>2, <3>1, <3>2, <3>3
  <2> QED
    BY <2>1, <2>2, <2>3, <2>5 DEF PresenceInv
<1>3. ASSUME ~orderly' PROVE PresenceInv'
  BY <1>3 DEF PresenceInv
<1>4. ASSUME NEW h \in Handlers, StartMove(h) PROVE PresenceInv'
  BY <1>2, <1>3, <1>4 DEF StartMove
<1>5. ASSUME NEW h \in Handlers, HandlerMove(h) PROVE PresenceInv'
  BY <1>2, <1>3, <1>5 DEF HandlerMove
<1> QED
  BY <1>1, <1>4, <1>5, VisitsStep

(* The numbers of one room that a handler's step changes.                   *)
LEMMA NumbersOfRoom ==
  ASSUME VisitsInv, NEW h \in Handlers, NEW to, Moves(h, to), NEW e,
         to \in {"incr", "decr"} => pc[h] \in Waiting
  PROVE  /\ Cardinality(In(e))' + (IF pc[h] = "incr" /\ Event(h) = e THEN 1 ELSE 0)
              = Cardinality(In(e)) + (IF to = "incr" /\ Event(h) = e THEN 1 ELSE 0)
         /\ Cardinality(Out(e))' + (IF pc[h] = "decr" /\ Event(h) = e THEN 1 ELSE 0)
              = Cardinality(Out(e)) + (IF to = "decr" /\ Event(h) = e THEN 1 ELSE 0)
         /\ Cardinality(Here(e))' + (IF active[User(h)] # Nobody /\ RoomsOf(User(h)) = {e} THEN 1 ELSE 0)
              = Cardinality(Here(e)) + (IF active'[User(h)] # Nobody /\ RoomsOf(User(h)) = {e} THEN 1 ELSE 0)
         /\ {Cardinality(In(e)), Cardinality(Out(e)), Cardinality(Here(e)),
             Cardinality(In(e))', Cardinality(Out(e))', Cardinality(Here(e))'} \subseteq Nat
<1>1. /\ pc' = [pc EXCEPT ![h] = to] /\ pc \in [Handlers -> Steps] /\ User(h) \in Users
      /\ \A u : RoomsOf(u)' = RoomsOf(u)
      /\ \A u \in Users : u # User(h) => active'[u] = active[u]
  BY SameRooms DEF Moves, VisitsInv, User, Handlers
<1>2. \A g \in Handlers : g # h => Event(g)' = Event(g)
  BY SameEvents
<1>3. to \in {"incr", "decr"} => Event(h)' = Event(h)
  BY SameEvents DEF Waiting
<1>4. /\ In(e) \subseteq Handlers /\ In(e)' \subseteq Handlers
      /\ Out(e) \subseteq Handlers /\ Out(e)' \subseteq Handlers
      /\ Here(e) \subseteq Users /\ Here(e)' \subseteq Users
  BY DEF In, Out, Here, Joining, Leaving, Present
<1>5. /\ In(e) \ {h} = In(e)' \ {h} /\ (h \in In(e) <=> pc[h] = "incr" /\ Event(h) = e)
      /\ h \in In(e)' <=> to = "incr" /\ Event(h) = e
  BY <1>1, <1>2, <1>3 DEF In, Joining
<1>6. /\ Out(e) \ {h} = Out(e)' \ {h} /\ (h \in Out(e) <=> pc[h] = "decr" /\ Event(h) = e)
      /\ h \in Out(e)' <=> to = "decr" /\ Event(h) = e
  BY <1>1, <1>2, <1>3 DEF Out, Leaving
<1>7. /\ Here(e) \ {User(h)} = Here(e)' \ {User(h)}
      /\ User(h) \in Here(e) <=> active[User(h)] # Nobody /\ RoomsOf(User(h)) = {e}
      /\ User(h) \in Here(e)' <=> active'[User(h)] # Nobody /\ RoomsOf(User(h)) = {e}
  BY <1>1 DEF Here, Present
<1>8. /\ IsFiniteSet(In(e)) /\ IsFiniteSet(In(e)') /\ IsFiniteSet(Out(e)) /\ IsFiniteSet(Out(e)')
      /\ IsFiniteSet(Here(e)) /\ IsFiniteSet(Here(e)')
  BY <1>4, FiniteParts
<1>9. {Cardinality(In(e)), Cardinality(Out(e)), Cardinality(Here(e)),
       Cardinality(In(e)'), Cardinality(Out(e)'), Cardinality(Here(e)')} \subseteq Nat
  BY <1>4, FiniteParts
<1>10. Cardinality(In(e)') + (IF h \in In(e) THEN 1 ELSE 0) = Cardinality(In(e)) + (IF h \in In(e)' THEN 1 ELSE 0)
  BY <1>5, <1>8, OneDiffers
<1>11. Cardinality(Out(e)') + (IF h \in Out(e) THEN 1 ELSE 0) = Cardinality(Out(e)) + (IF h \in Out(e)' THEN 1 ELSE 0)
  BY <1>6, <1>8, OneDiffers
<1>12. Cardinality(Here(e)') + (IF User(h) \in Here(e) THEN 1 ELSE 0)
          = Cardinality(Here(e)) + (IF User(h) \in Here(e)' THEN 1 ELSE 0)
  BY <1>7, <1>8, OneDiffers
<1> QED
  BY <1>5, <1>6, <1>7, <1>9, <1>10, <1>11, <1>12

(* Only a failed call makes a counter drift, by one.                        *)
LEMMA DriftStep ==
  ASSUME VisitsInv, KeysInv, PresenceInv, DriftInv, [RoomNext]_allVars
  PROVE  DriftInv'
<1>1. CASE UNCHANGED vars
  <2>1. UNCHANGED <<owner, script, pc, seen, active, count, orderly, faults>>
    BY <1>1 DEF vars, redis
  <2>2. /\ Joining' = Joining /\ Leaving' = Leaving /\ Present' = Present
        /\ \A h : Event(h)' = Event(h)
    BY <2>1 DEF Joining, Leaving, Present, Event, Kind, Message
  <2>3. \A u : RoomsOf(u)' = RoomsOf(u)
    BY <2>1, SameRooms
  <2>4. ASSUME NEW e PROVE Drift(e)' = Drift(e)
    <3>1. Here(e)' = Here(e) /\ In(e)' = In(e) /\ Out(e)' = Out(e)
      BY <2>2, <2>3 DEF Here, In, Out
    <3> QED
      BY <2>1, <3>1 DEF Drift
  <2> QED
    BY <2>1, <2>4 DEF DriftInv
<1>2. ASSUME NEW h \in Handlers, StartMove(h), orderly', NEW e \in Events
      PROVE  Drift(e)' = Drift(e) /\ faults' = faults
  <2>1. PICK to \in {"validate", "get", "done"} : Moves(h, to)
    BY <1>2 DEF StartMove
  <2>2. pc[h] = "idle" /\ UNCHANGED <<active, count, faults>>
    BY <1>2 DEF StartMove
  <2> QED
    BY <2>1, <2>2, NumbersOfRoom DEF Drift
<1>3. ASSUME NEW h \in Handlers, HandlerMove(h), orderly', NEW e \in Events
      PROVE  \/ Drift(e)' = Drift(e) /\ faults' = faults
             \/ Drift(e)' \in {Drift(e) - 1, Drift(e), Drift(e) + 1} /\ faults' = faults + 1
  <2>1. PICK to : Moves(h, to) /\ Changes(h, to) /\ Follows(h, to)
    BY <1>3 DEF HandlerMove
  <2>2. orderly /\ pc[h] \in Waiting
    BY <1>3, <2>1 DEF HandlerMove, Moves
  <2>3. User(h) \in Users /\ Event(h) \in Events /\ Sock(h) # Nobody
    BY <2>2, PlaceOf
  <2>4. RoomsOf(User(h)) = {e} <=> Event(h) = e
    BY <2>2, OneRoom
  <2>5. /\ pc[h] = "renew" => active[User(h)] # Nobody
        /\ pc[h] = "del" => active[User(h)] # Nobody
    BY <2>2, <2>3 DEF PresenceInv, KeysInv
  <2>6. /\ count' = [count EXCEPT ![Event(h)] = @ + 1] =>
               count'[e] = count[e] + (IF Event(h) = e THEN 1 ELSE 0)
        /\ count' = [count EXCEPT ![Event(h)] = @ - 1] =>
               count'[e] = count[e] - (IF Event(h) = e THEN 1 ELSE 0)
        /\ count[e] \in Int
    BY <2>3 DEF VisitsInv
  <2>7. /\ Cardinality(In(e))' + (IF pc[h] = "incr" /\ Event(h) = e THEN 1 ELSE 0)
              = Cardinality(In(e)) + (IF to = "incr" /\ Event(h) = e THEN 1 ELSE 0)
        /\ Cardinality(Out(e))' + (IF pc[h] = "decr" /\ Event(h) = e THEN 1 ELSE 0)
              = Cardinality(Out(e)) + (IF to = "decr" /\ Event(h) = e THEN 1 ELSE 0)
        /\ Cardinality(Here(e))' + (IF active[User(h)] # Nobody /\ Event(h) = e THEN 1 ELSE 0)
              = Cardinality(Here(e)) + (IF active'[User(h)] # Nobody /\ Event(h) = e THEN 1 ELSE 0)
        /\ {Cardinality(In(e)), Cardinality(Out(e)), Cardinality(Here(e)),
            Cardinality(In(e))', Cardinality(Out(e))', Cardinality(Here(e))'} \subseteq Nat
    BY <2>1, <2>2, <2>4, NumbersOfRoom
  <2>8. Drift(e)' = count'[e] - Cardinality(Here(e))' + Cardinality(In(e))' - Cardinality(Out(e))'
    BY DEF Drift
  <2> QED
    BY <2>1, <2>5, <2>6, <2>7, <2>8 DEF Changes, Quiet, Drift
<1>4. ASSUME NEW e \in Events PROVE Drift(e) \in Int
  <2>1. Here(e) \subseteq Users /\ In(e) \subseteq Handlers /\ Out(e) \subseteq Handlers
    BY DEF Here, In, Out, Present, Joining, Leaving
  <2>2. Cardinality(Here(e)) \in Nat /\ Cardinality(In(e)) \in Nat /\ Cardinality(Out(e)) \in Nat
    BY <2>1, FiniteParts
  <2> QED
    BY <2>2 DEF Drift, VisitsInv
<1>5. ASSUME NEW h \in Handlers, StartMove(h) \/ HandlerMove(h), orderly', NEW e \in Events
      PROVE  Drift(e)' <= faults' /\ -Drift(e)' <= faults'
  <2>1. orderly
    BY <1>5 DEF StartMove, HandlerMove, Moves
  <2>2. Drift(e) <= faults /\ -Drift(e) <= faults /\ faults \in Nat
    BY <2>1 DEF DriftInv, VisitsInv
  <2> QED
    BY <1>2, <1>3, <1>4, <1>5, <2>2
<1> QED
  BY <1>1, <1>5, VisitsStep DEF DriftInv

(* Those about to be counted are present, each a user of its own.           *)
LEMMA JoinersAreHere ==
  ASSUME VisitsInv, KeysInv, PresenceInv, orderly, NEW e \in Events
  PROVE  /\ Cardinality(In(e)) <= Cardinality(Here(e))
         /\ \A h \in Handlers : pc[h] = "read" /\ Message(h).role = "guest" /\ Event(h) = e =>
              Cardinality(In(e)) + 1 <= Cardinality(Here(e))
<1> DEFINE f == [h \in In(e) |-> User(h)]
<1>1. ASSUME NEW h \in Handlers, pc[h] \in {"incr", "read"}, active[User(h)] # Nobody, Event(h) = e
      PROVE  User(h) \in Here(e)
  <2>1. pc[h] \in Waiting
    BY <1>1 DEF Waiting
  <2> QED
    BY <1>1, <2>1, PlaceOf, OneRoom DEF Here, Present
<1>2. \A h \in In(e) : h \in Handlers /\ pc[h] = "incr" /\ Event(h) = e /\ User(h) \in Here(e)
  BY <1>1 DEF In, Joining, PresenceInv
<1>3. \A g, h \in In(e) : User(g) = User(h) => g = h
  BY <1>2 DEF KeysInv, Waiting
<1>4. Here(e) \subseteq Users /\ IsFiniteSet(Here(e)) /\ Cardinality(Here(e)) \in Nat
  BY FiniteParts DEF Here, Present
<1>5. ASSUME NEW T, T \subseteq Here(e), \A h \in In(e) : User(h) \in T
      PROVE  Cardinality(In(e)) <= Cardinality(T)
  <2>1. f \in Injection(In(e), T)
    BY <1>3, <1>5 DEF Injection, IsInjective
  <2>2. IsFiniteSet(T)
    BY <1>4, <1>5, FS_Subset
  <2> HIDE DEF f
  <2> QED
    BY <2>1, <2>2, FS_Injection
<1>6. ASSUME NEW h \in Handlers, pc[h] = "read", Message(h).role = "guest", Event(h) = e
      PROVE  Cardinality(In(e)) + 1 <= Cardinality(Here(e))
  <2>1. User(h) \in Here(e)
    BY <1>1, <1>6 DEF PresenceInv
  <2>2. \A g \in In(e) : User(g) # User(h)
    BY <1>2, <1>6 DEF KeysInv, Waiting
  <2>3. Cardinality(In(e)) <= Cardinality(Here(e) \ {User(h)})
    BY <1>2, <1>5, <2>2
  <2>4. Cardinality(Here(e) \ {User(h)}) = Cardinality(Here(e)) - 1
    BY <1>4, <2>1, FS_RemoveElement
  <2>5. Cardinality(In(e)) \in Nat
    BY FiniteParts DEF In, Joining
  <2> QED
    BY <1>4, <2>3, <2>4, <2>5
<1> QED
  BY <1>2, <1>5, <1>6

(* A handler reads a count that counts its guest, and no one can leave in   *)
(* that guest's name before it is announced.                                *)
LEMMA ToldStep ==
  ASSUME VisitsInv, KeysInv, PresenceInv, DriftInv, ToldInv, [RoomNext]_allVars
  PROVE  ToldInv'
<1>1. CASE UNCHANGED vars
  <2>1. UNCHANGED <<script, pc, got, orderly, faults>>
    BY <1>1 DEF vars
  <2> QED
    BY <2>1 DEF ToldInv, TellsTheRoom, Message
<1>2. ASSUME NEW h \in Handlers, NEW to, Moves(h, to), orderly', faults' = 0,
             \/ pc[h] = "idle" /\ to \in {"validate", "get", "done"} /\ UNCHANGED <<count, faults>>
             \/ pc[h] \in Waiting /\ Changes(h, to) /\ Follows(h, to)
      PROVE  ToldInv'
  <2>1. orderly /\ faults = 0 /\ faults' = faults
    BY <1>2 DEF Moves, Changes, VisitsInv
  <2>2. \A g \in Handlers : Message(g)' = Message(g)
    BY <1>2, SameRooms DEF Moves
  <2>3. pc'[h] = to /\ \A g \in Handlers : g # h => pc'[g] = pc[g] /\ got'[g] = got[g]
    BY <1>2 DEF Moves, VisitsInv
  <2>4. ASSUME to = "snapshot" PROVE got'[h] >= IF Message(h).role = "guest" THEN 1 ELSE 0
    <3> DEFINE e == Event(h)
    <3>1. /\ pc[h] \in Waiting /\ pc[h] \in {"incr", "read"} /\ got'[h] = count'[e]
          /\ \/ pc[h] = "incr" /\ count' = [count EXCEPT ![e] = @ + 1]
             \/ pc[h] = "read" /\ count' = count
      BY <1>2, <2>1, <2>4 DEF Follows, Changes, Quiet
    <3>2. e \in Events /\ count[e] \in Int
      BY <3>1, PlaceOf DEF VisitsInv
    <3>3. Drift(e) <= 0 /\ -Drift(e) <= 0
      BY <2>1, <3>2 DEF DriftInv
    <3>4. Cardinality(Here(e)) \in Nat /\ Cardinality(In(e)) \in Nat /\ Cardinality(Out(e)) \in Nat
      BY FiniteParts DEF Here, In, Out, Present, Joining, Leaving
    <3>5. /\ Cardinality(In(e)) <= Cardinality(Here(e))
          /\ pc[h] = "read" /\ Message(h).role = "guest" => Cardinality(In(e)) + 1 <= Cardinality(Here(e))
      BY <2>1, <3>2, JoinersAreHere
    <3>6. pc[h] = "incr" => count'[e] = count[e] + 1
      BY <3>1, <3>2 DEF VisitsInv
    <3>7. Drift(e) = count[e] - Cardinality(Here(e)) + Cardinality(In(e)) - Cardinality(Out(e))
      BY DEF Drift
    <3> HIDE DEF e
    <3> QED
      BY <3>1, <3>2, <3>3, <3>4, <3>5, <3>6, <3>7
  <2>5. ASSUME NEW g \in Handlers, pc'[g] = "snapshot"
        PROVE  got'[g] >= IF Message(g).role = "guest" THEN 1 ELSE 0
    <3>1. CASE g = h
      BY <2>3, <2>4, <2>5, <3>1
    <3>2. CASE g # h
      BY <2>1, <2>3, <2>5, <3>2 DEF ToldInv, TellsTheRoom
    <3> QED
      BY <3>1, <3>2
  <2> QED
    BY <2>2, <2>5 DEF ToldInv, TellsTheRoom
<1>3. ASSUME NEW h \in Handlers, StartMove(h) \/ HandlerMove(h) PROVE ToldInv'
  BY <1>2, <1>3 DEF StartMove, HandlerMove, ToldInv
<1> QED
  BY <1>1, <1>3, VisitsStep

(* While each user's handlers run one after the other and in one room, the  *)
(* counters of the gateway are right but for failed calls, through second   *)
(* tabs, reconnections and a room that empties; and what handleJoin tells   *)
(* the room counts the guest who joined.                                    *)
THEOREM GuestsCounted == RoomSpec => []CountsGuests
<1> DEFINE CountedInv == VisitsInv /\ KeysInv /\ PresenceInv /\ DriftInv /\ ToldInv
<1>1. RoomInit => CountedInv
  <2> SUFFICES ASSUME RoomInit PROVE PresenceInv /\ DriftInv /\ ToldInv
    BY VisitsInit, KeysInit
  <2>1. /\ \A h \in Handlers : pc[h] = "idle"
        /\ \A u \in Users : active[u] = Nobody
        /\ \A e \in Events : count[e] = 0
        /\ orderly = (\A u \in Users : Cardinality(RoomsOf(u)) <= 1) /\ faults = 0
    BY DEF RoomInit, Init
  <2>2. PresenceInv /\ ToldInv
    BY <2>1 DEF PresenceInv, ToldInv, TellsTheRoom
  <2>3. ASSUME NEW e \in Events PROVE Drift(e) = 0
    <3>1. Here(e) = {} /\ In(e) = {} /\ Out(e) = {}
      BY <2>1 DEF Here, In, Out, Present, Joining, Leaving
    <3> QED
      BY <2>1, <3>1, FS_EmptySet DEF Drift
  <2> QED
    BY <2>1, <2>2, <2>3 DEF DriftInv
<1>2. CountedInv /\ [RoomNext]_allVars => CountedInv'
  BY VisitsStep, KeysStep, PresenceStep, DriftStep, ToldStep
<1>3. CountedInv => CountsGuests
  BY DEF DriftInv, ToldInv, Drift, Here, In, Out, CountsGuests, CountIsExact
<1> HIDE DEF CountedInv
<1> QED
  BY <1>1, <1>2, <1>3, PTL DEF RoomSpec
=============================================================================
