-------------------------- MODULE RoomFeed_proofs --------------------------
(* What holds of the leaderboard a browser shows, for any rooms, givers,    *)
(* browsers, sizes of a snapshot and of a podium, and numbers of gifts.     *)
EXTENDS RoomFeed, FiniteSums, SequenceTheorems

-----------------------------------------------------------------------------
(* Sequences.                                                               *)

LEMMA Appended ==
  ASSUME NEW S, NEW s \in Seq(S), NEW e \in S
  PROVE  /\ Append(s, e) \in Seq(S)
         /\ Len(s) \in Nat /\ DOMAIN s = 1..Len(s)
         /\ DOMAIN Append(s, e) = 1..Len(s) + 1
         /\ \A i \in 1..Len(s) : Append(s, e)[i] = s[i]
         /\ Append(s, e)[Len(s) + 1] = e
         /\ Range(Append(s, e)) = Range(s) \cup {e}
<1>1. /\ Append(s, e) \in Seq(S) /\ Len(s) \in Nat /\ DOMAIN s = 1..Len(s)
      /\ DOMAIN Append(s, e) = 1..Len(s) + 1
      /\ \A i \in 1..Len(s) : Append(s, e)[i] = s[i]
      /\ Append(s, e)[Len(s) + 1] = e
  BY AppendProperties, LenProperties
<1>2. 1..Len(s) + 1 = (1..Len(s)) \cup {Len(s) + 1}
  BY <1>1
<1>3. Range(Append(s, e)) = Range(s) \cup {e}
  BY <1>1, <1>2, ZenonT(30) DEF Range
<1> QED
  BY <1>1, <1>3

LEMMA Beheaded ==
  ASSUME NEW S, NEW s \in Seq(S), s # <<>>
  PROVE  /\ Tail(s) \in Seq(S) /\ Head(s) \in S
         /\ Len(s) \in Nat \ {0} /\ DOMAIN s = 1..Len(s) /\ Head(s) = s[1]
         /\ DOMAIN Tail(s) = 1..Len(s) - 1
         /\ \A i \in 1..Len(s) - 1 : Tail(s)[i] = s[i + 1]
         /\ Range(s) = {Head(s)} \cup Range(Tail(s))
<1>1. /\ Tail(s) \in Seq(S) /\ Head(s) \in S
      /\ Len(s) \in Nat \ {0} /\ DOMAIN s = 1..Len(s)
      /\ DOMAIN Tail(s) = 1..Len(s) - 1
      /\ \A i \in 1..Len(s) - 1 : Tail(s)[i] = s[i + 1]
  BY HeadTailProperties, LenProperties, EmptySeq
<1>2. Head(s) = s[1]
  OBVIOUS
<1>3. Range(s) = {Head(s)} \cup Range(Tail(s))
  <2>1. ASSUME NEW i \in 1..Len(s) PROVE s[i] \in {Head(s)} \cup Range(Tail(s))
    <3>1. CASE i = 1
      BY <1>2, <3>1
    <3>2. CASE i # 1
      <4>1. i - 1 \in DOMAIN Tail(s) /\ Tail(s)[i - 1] = s[i]
        BY <1>1, <3>2
      <4> QED
        BY <4>1, Zenon DEF Range
    <3> QED
      BY <3>1, <3>2
  <2>2. ASSUME NEW i \in DOMAIN Tail(s) PROVE Tail(s)[i] \in Range(s)
    <3>1. i + 1 \in DOMAIN s /\ Tail(s)[i] = s[i + 1]
      BY <1>1
    <3> QED
      BY <3>1, Zenon DEF Range
  <2>3. Head(s) \in Range(s)
    <3>1. 1 \in DOMAIN s
      BY <1>1
    <3> QED
      BY <1>2, <3>1, Zenon DEF Range
  <2>4. Range(s) \subseteq {Head(s)} \cup Range(Tail(s))
    BY <1>1, <2>1, Zenon DEF Range
  <2>5. Range(Tail(s)) \subseteq Range(s)
    BY <2>2, Zenon DEF Range
  <2> QED
    BY <2>3, <2>4, <2>5
<1> QED
  BY <1>1, <1>2, <1>3

LEMMA EmptyRange == DOMAIN <<>> = {} /\ Range(<<>>) = {}
<1>1. DOMAIN <<>> = {}
  OBVIOUS
<1> QED
  BY <1>1, Zenon DEF Range

LEMMA NoElements ==
  ASSUME NEW S, NEW s \in Seq(S)
  PROVE  Range(s) \subseteq S
BY RangeOfSeq

-----------------------------------------------------------------------------
(* Boards.                                                                  *)

(* S is the best of a board: no guest outside has more than one within.     *)
Fits(board, S) == \A g \in S, h \in Listed(board) \ S : board[g] >= board[h]
Size(board, n) == IF Cardinality(Listed(board)) < n THEN Cardinality(Listed(board)) ELSE n
Only(board, S) == [g \in Guests |-> IF g \in S THEN board[g] ELSE 0]

LEMMA ListedFinite ==
  ASSUME NEW b
  PROVE  /\ IsFiniteSet(Listed(b)) /\ Cardinality(Listed(b)) \in Nat
         /\ \A S \in SUBSET Listed(b) :
              /\ IsFiniteSet(S) /\ Cardinality(S) \in Nat
              /\ Cardinality(S) <= Cardinality(Listed(b))
              /\ Cardinality(S) = Cardinality(Listed(b)) => S = Listed(b)
<1>1. Listed(b) \subseteq Guests
  BY DEF Listed
<1>2. IsFiniteSet(Listed(b))
  BY <1>1, BoundAssumption, FS_Subset
<1> QED
  BY <1>2, FS_Subset, FS_CardinalityType

LEMMA BestMembers ==
  ASSUME NEW board, NEW n, NEW b \in Best(board, n)
  PROVE  \E S \in SUBSET Listed(board) :
           Cardinality(S) = Size(board, n) /\ Fits(board, S) /\ b = Only(board, S)
BY Zenon DEF Best, Fits, Size, Only

(* However the guests compare, some of them are the best: all of them are,  *)
(* and the worst can be taken from any set of the best.                     *)
LEMMA BestExists ==
  ASSUME NEW board \in [Guests -> Nat], NEW n \in Nat
  PROVE  Best(board, n) # {}
<1> DEFINE L == Listed(board)
           Good(k) == \E S \in SUBSET L : Cardinality(S) = k /\ Fits(board, S)
           Bad == {i \in Nat : i <= Cardinality(L) /\ ~Good(Cardinality(L) - i)}
<1>1. Cardinality(L) \in Nat
  BY ListedFinite
<1>2. Good(Cardinality(L))
  BY DEF Fits
<1>3. ASSUME NEW k \in Nat, k # 0, Good(k) PROVE Good(k - 1)
  <2>1. PICK S \in SUBSET L : Cardinality(S) = k /\ Fits(board, S)
    BY <1>3
  <2>2. IsFiniteSet(S) /\ S # {}
    BY <1>3, <2>1, ListedFinite, FS_EmptySet
  <2>3. L \subseteq Guests
    BY DEF Listed
  <2>4. {board[g] : g \in S} \subseteq Nat /\ {board[g] : g \in S} # {}
    BY <2>2, <2>3
  <2>5. PICK x \in {board[g] : g \in S} : \A y \in {board[g] : g \in S} : x <= y
    BY <2>4, LeastNatural
  <2>6. PICK g \in S : x = board[g]
    BY <2>5
  <2>7. \A h \in S : board[g] <= board[h]
    BY <2>5, <2>6
  <2>8. Cardinality(S \ {g}) = k - 1
    BY <2>1, <2>2, FS_RemoveElement
  <2>9. Fits(board, S \ {g})
    <3> SUFFICES ASSUME NEW a \in S \ {g}, NEW h \in L \ (S \ {g}) PROVE board[a] >= board[h]
      BY Zenon DEF Fits
    <3>1. CASE h = g
      BY <2>3, <2>7, <3>1
    <3>2. CASE h # g
      BY <2>1, <3>2 DEF Fits
    <3> QED
      BY <3>1, <3>2
  <2> QED
    BY <2>8, <2>9
<1> HIDE DEF L, Good
<1>4. Bad = {}
  <2>1. SUFFICES ASSUME Bad # {} PROVE FALSE
    OBVIOUS
  <2>2. PICK i \in Bad : \A j \in Bad : i <= j
    BY <2>1, LeastNatural
  <2>3. i # 0
    BY <1>1, <1>2, <2>2
  <2>4. i - 1 \in Nat /\ i - 1 \notin Bad /\ i - 1 <= Cardinality(L)
    BY <1>1, <2>2, <2>3
  <2>5. Good(Cardinality(L) - (i - 1)) /\ Cardinality(L) - (i - 1) \in Nat \ {0}
    BY <1>1, <2>2, <2>4
  <2>6. Good(Cardinality(L) - (i - 1) - 1)
    BY <1>3, <2>5
  <2>7. Cardinality(L) - (i - 1) - 1 = Cardinality(L) - i
    BY <1>1, <2>2
  <2> QED
    BY <2>2, <2>6, <2>7
<1>5. Size(board, n) \in Nat /\ Size(board, n) <= Cardinality(L)
  BY <1>1 DEF Size, L
<1>6. Good(Size(board, n))
  <2>1. Cardinality(L) - Size(board, n) \in Nat /\ Cardinality(L) - Size(board, n) <= Cardinality(L)
    BY <1>1, <1>5
  <2>2. Cardinality(L) - (Cardinality(L) - Size(board, n)) = Size(board, n)
    BY <1>1, <1>5
  <2> QED
    BY <1>4, <2>1, <2>2
<1>7. PICK S \in SUBSET L : Cardinality(S) = Size(board, n) /\ Fits(board, S)
  BY <1>6 DEF Good
<1>8. Only(board, S) \in Best(board, n)
  BY <1>7, Zenon DEF Best, Fits, Size, Only, L
<1> QED
  BY <1>8

(* What is on a board of the best is on the board they are the best of.     *)
LEMMA BestTypes ==
  ASSUME NEW board \in [Guests -> Nat], NEW n, NEW b \in Best(board, n)
  PROVE  b \in [Guests -> Nat] /\ \A g \in Guests : b[g] \in {0, board[g]}
<1>1. PICK S \in SUBSET Listed(board) : b = Only(board, S)
  BY BestMembers
<1> QED
  BY <1>1 DEF Only

(* The board r of the server is all the board b says of guest g.            *)
Fine(real, b, g) ==
  \/ b[g] = real[g]
  \/ b[g] = 0 /\ Cardinality({h \in Listed(b) : real[h] >= real[g]}) >= Limit

(* A snapshot has each guest's score, or Limit guests that are not below.   *)
LEMMA TopIsFine ==
  ASSUME NEW real \in [Guests -> Nat]
  PROVE  /\ Top(real) \in [Guests -> Nat]
         /\ \A g \in Guests : Top(real)[g] \in {0, real[g]} /\ Fine(real, Top(real), g)
<1>1. Limit \in Nat
  BY BoundAssumption
<1>2. Top(real) \in Best(real, Limit)
  BY <1>1, BestExists DEF Top
<1>3. PICK S \in SUBSET Listed(real) :
        Cardinality(S) = Size(real, Limit) /\ Fits(real, S) /\ Top(real) = Only(real, S)
  BY <1>2, BestMembers
<1>4. ASSUME NEW g \in Guests PROVE Fine(real, Top(real), g)
  <2>1. CASE g \in S \/ g \notin Listed(real)
    BY <1>3, <2>1 DEF Only, Listed, Fine
  <2>2. CASE g \notin S /\ g \in Listed(real)
    <3>1. Top(real)[g] = 0
      BY <1>3, <2>2 DEF Only
    <3>2. Cardinality(S) = Limit
      BY <1>1, <1>3, <2>2, ListedFinite DEF Size
    <3>3. {h \in Listed(Top(real)) : real[h] >= real[g]} = S
      BY <1>3, <2>2 DEF Only, Listed, Fits
    <3> QED
      BY <1>1, <3>1, <3>2, <3>3 DEF Fine
  <2> QED
    BY <2>1, <2>2
<1> QED
  BY <1>2, <1>4, BestTypes

(* The patches ps applied to the board b, by how many are taken: the fold   *)
(* takes the last of them last.                                             *)
Raise(b, p) == [b EXCEPT ![p.guest] = p.score]
Steps(b, ps, h) ==
  [s \in SUBSET DOMAIN ps |-> IF s = {} THEN b ELSE Raise(h[s \ {Max(s)}], ps[Max(s)])]
IsSteps(b, ps, h) == h = Steps(b, ps, h)

LEMMA PatchedDef ==
  ASSUME NEW b, NEW ps
  PROVE  Patched(b, ps) = (CHOOSE h : IsSteps(b, ps, h))[DOMAIN ps]
BY Zenon DEF Patched, FoldLeft, MapThenFoldSet, IsSteps, Steps, Raise

LEMMA GreatestIndex ==
  ASSUME NEW n \in Nat, NEW s \in SUBSET (1..n), s # {}
  PROVE  Max(s) \in s /\ \A x \in s : Max(s) >= x
<1>1. \E x \in s : \A y \in s : x >= y
  <2>1. s \subseteq 0..n
    OBVIOUS
  <2> QED
    BY <2>1, GreatestNatural
<1> QED
  BY <1>1 DEF Max

Patch == [kind : {"patch"}, room : Rooms, guest : Guests, score : Nat, gifts : Nat]

LEMMA StepsExist ==
  ASSUME NEW b \in [Guests -> Nat], NEW ps \in Seq(Patch)
  PROVE  \E h : IsSteps(b, ps, h)
<1> DEFINE D == DOMAIN ps
           V == [Guests -> Nat]
           pick == [s \in SUBSET D |-> Max(s)]
           step == [i \in D |-> [v \in V |-> Raise(v, ps[i])]]
<1>1. Len(ps) \in Nat /\ D = 1..Len(ps) /\ \A i \in D : ps[i] \in Patch
  BY LenProperties, ElementOfSeq
<1>2. IsFiniteSet(D)
  BY <1>1, FS_Interval
<1>3. \A s \in SUBSET D : s # {} => pick[s] \in s
  BY <1>1, GreatestIndex
<1>4. \A i \in D, v \in V : Raise(v, ps[i]) \in V /\ step[i][v] = Raise(v, ps[i])
  BY <1>1 DEF Patch, Raise
<1>5. \A s \in SUBSET D : pick[s] = Max(s)
  OBVIOUS
<1> HIDE DEF D, V, pick, step
<1>6. b \in V /\ Picks(D, pick) /\ StaysIn(V, D, step)
  BY <1>3, <1>4, ZenonT(30) DEF V, Picks, StaysIn
<1>7. PICK h : Iteration(D, V, b, pick, step, h)
  BY <1>2, <1>6, IterationExists
<1> USE DEF Iteration
<1>8. ASSUME NEW s \in SUBSET D
      PROVE  h[s] = IF s = {} THEN b ELSE Raise(h[s \ {Max(s)}], ps[Max(s)])
  <2>1. CASE s = {}
    BY <1>7, <2>1
  <2>2. CASE s # {}
    <3>1. pick[s] \in D /\ h[s \ {pick[s]}] \in V
      BY <1>3, <1>7, <2>2
    <3>2. h[s] = Raise(h[s \ {pick[s]}], ps[pick[s]])
      BY <1>4, <1>7, <2>2, <3>1
    <3> QED
      BY <1>5, <2>2, <3>2
  <2> QED
    BY <2>1, <2>2
<1>9. h = Steps(b, ps, h)
  BY <1>7, <1>8 DEF Steps, D
<1> QED
  BY <1>9, Zenon DEF IsSteps

(* What a guest's score is after the patches ps: what it was, or that of    *)
(* the last patch of the guest.                                             *)
LastOf(ps, n, i, g) ==
  i \in 1..n /\ ps[i].guest = g /\ \A k \in 1..n : k > i => ps[k].guest # g
ScoreAfter(b, ps, n, v, g) ==
  \/ v = b[g] /\ \A i \in 1..n : ps[i].guest # g
  \/ \E i \in 1..n : LastOf(ps, n, i, g) /\ v = ps[i].score

LEMMA PatchedScores ==
  ASSUME NEW b \in [Guests -> Nat], NEW ps \in Seq(Patch)
  PROVE  /\ Patched(b, ps) \in [Guests -> Nat]
         /\ \A g \in Guests : ScoreAfter(b, ps, Len(ps), Patched(b, ps)[g], g)
<1>1. Len(ps) \in Nat /\ DOMAIN ps = 1..Len(ps) /\ \A i \in 1..Len(ps) : ps[i] \in Patch
  BY LenProperties, ElementOfSeq
<1>2. PICK h : IsSteps(b, ps, h) /\ Patched(b, ps) = h[DOMAIN ps]
  BY StepsExist, PatchedDef
<1> DEFINE Exact(k) == /\ h[1..k] \in [Guests -> Nat]
                        /\ \A g \in Guests : ScoreAfter(b, ps, k, h[1..k][g], g)
           Bad == {k \in Nat : k <= Len(ps) /\ ~Exact(k)}
<1>3. \A s \in SUBSET (1..Len(ps)) :
        h[s] = IF s = {} THEN b ELSE Raise(h[s \ {Max(s)}], ps[Max(s)])
  BY <1>1, <1>2 DEF IsSteps, Steps
<1>4. Exact(0)
  <2>1. 1..0 = {}
    OBVIOUS
  <2>2. h[{}] = b
    BY <1>3
  <2> QED
    BY <2>1, <2>2 DEF ScoreAfter
<1>5. ASSUME NEW k \in Nat, k # 0, k <= Len(ps), Exact(k - 1) PROVE Exact(k)
  <2>1. 1..k \in SUBSET (1..Len(ps)) /\ 1..k # {} /\ k \in 1..k
    <3>1. k \in 1..k /\ \A j \in 1..k : j \in 1..Len(ps)
      BY <1>1, <1>5
    <3> QED
      BY <3>1
  <2>2. Max(1..k) \in 1..k /\ Max(1..k) >= k
    BY <2>1, GreatestIndex
  <2>3. Max(1..k) = k /\ (1..k) \ {k} = 1..k - 1
    BY <2>2
  <2>4. h[1..k] = Raise(h[1..k - 1], ps[k])
    BY <1>3, <2>1, <2>3
  <2>5. ps[k] \in Patch
    BY <1>1, <2>1
  <2> DEFINE old == h[1..k - 1]
             new == h[1..k]
  <2>6. old \in [Guests -> Nat] /\ \A g \in Guests : ScoreAfter(b, ps, k - 1, old[g], g)
    BY <1>5
  <2>7. new = [old EXCEPT ![ps[k].guest] = ps[k].score]
    BY <2>4 DEF Raise
  <2> HIDE DEF old, new
  <2>8. new \in [Guests -> Nat]
    BY <2>5, <2>6, <2>7 DEF Patch
  <2>9. ASSUME NEW g \in Guests PROVE ScoreAfter(b, ps, k, new[g], g)
    <3>1. CASE ps[k].guest = g
      <4>1. new[g] = ps[k].score /\ LastOf(ps, k, k, g)
        BY <2>1, <2>6, <2>7, <3>1 DEF LastOf
      <4> QED
        BY <2>1, <4>1 DEF ScoreAfter
    <3>2. CASE ps[k].guest # g
      <4>1. new[g] = old[g]
        BY <2>6, <2>7, <3>2
      <4>2. \A i \in 1..k : i = k \/ i \in 1..k - 1
        OBVIOUS
      <4>3. \A i \in 1..k - 1 : i \in 1..k /\ (LastOf(ps, k - 1, i, g) => LastOf(ps, k, i, g))
        BY <3>2, <4>2 DEF LastOf
      <4>4. ScoreAfter(b, ps, k - 1, old[g], g)
        BY <2>6
      <4> QED
        BY <3>2, <4>1, <4>2, <4>3, <4>4 DEF ScoreAfter
    <3> QED
      BY <3>1, <3>2
  <2> QED
    BY <2>8, <2>9 DEF new
<1> HIDE DEF Exact
<1>6. Bad = {}
  <2>1. SUFFICES ASSUME Bad # {} PROVE FALSE
    OBVIOUS
  <2>2. PICK k \in Bad : \A j \in Bad : k <= j
    BY <2>1, LeastNatural
  <2>3. k # 0 /\ k <= Len(ps)
    BY <1>4, <2>2
  <2>4. k - 1 \in Nat /\ k - 1 \notin Bad /\ k - 1 <= Len(ps)
    BY <1>1, <2>2, <2>3
  <2> QED
    BY <1>5, <2>2, <2>3, <2>4
<1>7. Exact(Len(ps))
  BY <1>1, <1>6
<1> QED
  BY <1>1, <1>2, <1>7 DEF Exact

-----------------------------------------------------------------------------
(* Types.  A browser that is not connected can join once more.              *)

Requests == [kind : {"join", "leave"}, room : Rooms, visit : Nat]
Joins ==
  [visit : Nat, room : Rooms, at : {"validate", "read", "answer"}, board : [Guests -> Nat], gifts : Nat]

Patches == {m \in Message : m.kind = "patch"}

ServerTypes ==
  /\ score \in [Rooms -> [Guests -> Nat]] /\ gifts \in [Rooms -> Nat]
  /\ silent \in [Rooms -> SUBSET Guests] /\ member \in [Clients -> SUBSET Rooms]
MailTypes ==
  /\ request \in [Clients -> Seq(Requests)] /\ joins \in [Clients -> SUBSET Joins]
  /\ inbox \in [Clients -> Seq(Message)] /\ pending \in [Clients -> Seq(Patches)]
PageTypes ==
  /\ view \in [Clients -> {"room", "display"}] /\ page \in [Clients -> Rooms \cup {None}]
  /\ shown \in [Clients -> [Guests -> Nat]] /\ podium \in [Clients -> [Guests -> Nat]]
  /\ announced \in [Clients -> [Guests -> Nat]]
  /\ shownGifts \in [Clients -> Nat] /\ applied \in [Clients -> Nat]
  /\ joined \in [Clients -> BOOLEAN] /\ error \in [Clients -> BOOLEAN]
LineTypes ==
  /\ up \in [Clients -> BOOLEAN] /\ visit \in [Clients -> 0..MaxVisits] /\ faults \in 0..MaxFaults
  /\ \A c \in Clients : ~up[c] => visit[c] < MaxVisits
TypeInv == ServerTypes /\ MailTypes /\ PageTypes /\ LineTypes

LEMMA TypesMean == TypeInv => TypeOK
BY Zenon DEF TypeInv, ServerTypes, MailTypes, PageTypes, LineTypes, TypeOK, Requests, Joins, Patches

LEMMA TypeInvInit == Init => TypeInv
<1> SUFFICES ASSUME Init PROVE TypeInv
  OBVIOUS
<1>1. Nobody \in [Guests -> Nat] /\ {0, MaxVisits, MaxFaults} \subseteq Nat
  BY BoundAssumption DEF Nobody
<1>2. ASSUME NEW S PROVE <<>> \in Seq(S)
  OBVIOUS
<1>3. MailTypes
  <2>1. <<>> \in Seq(Requests) /\ <<>> \in Seq(Message) /\ <<>> \in Seq(Patches)
    BY <1>2
  <2> QED
    BY <2>1 DEF Init, MailTypes
<1>4. joined \in [Clients -> BOOLEAN] /\ error \in [Clients -> BOOLEAN] /\ up \in [Clients -> BOOLEAN]
  BY Zenon DEF Init
<1>5. ServerTypes
  BY <1>1 DEF Init, ServerTypes
<1>6. PageTypes
  BY <1>1, <1>4 DEF Init, PageTypes
<1>7. LineTypes
  <2>1. \A c \in Clients : up[c]
    BY DEF Init
  <2> QED
    BY <1>1, <1>4, <2>1 DEF Init, LineTypes
<1> QED
  BY <1>3, <1>5, <1>6, <1>7 DEF TypeInv

LEMMA MessageSent ==
  ASSUME MailTypes, NEW m \in Message, NEW c \in Clients
  PROVE  Append(inbox[c], m) \in Seq(Message)
BY AppendProperties DEF MailTypes

LEMMA TypeInvStep == TypeInv /\ [Next]_vars => TypeInv'
<1> SUFFICES ASSUME TypeInv, [Next]_vars PROVE TypeInv'
  OBVIOUS
<1> USE DEF TypeInv, server, wire, screen
<1>0. Nobody \in [Guests -> Nat] /\ {MaxVisits, MaxFaults} \subseteq Nat
  BY BoundAssumption DEF Nobody
<1>1. ASSUME NEW r \in Rooms, NEW g \in Guests, Gift(r, g) PROVE TypeInv'
  <2> DEFINE m == [kind |-> "patch", room |-> r, guest |-> g, score |-> score[r][g] + 1, gifts |-> gifts[r] + 1]
  <2>1. score[r][g] \in Nat /\ gifts[r] \in Nat
    BY DEF ServerTypes
  <2>2. m \in Message
    BY <2>1 DEF Message
  <2> HIDE DEF m
  <2>3. inbox' \in [Clients -> Seq(Message)]
    <3>1. inbox' = [c \in Clients |-> IF up[c] /\ r \in member[c] THEN Append(inbox[c], m) ELSE inbox[c]]
      BY <1>1, Zenon DEF Gift, ToAll, m
    <3>2. \A c \in Clients : inbox[c] \in Seq(Message) /\ Append(inbox[c], m) \in Seq(Message)
      BY <2>2, MessageSent DEF MailTypes
    <3> QED
      BY <3>1, <3>2
  <2>4. ServerTypes'
    BY <1>1, <2>1 DEF Gift, ServerTypes
  <2>5. MailTypes'
    BY <1>1, <2>3 DEF Gift, MailTypes
  <2>6. PageTypes' /\ LineTypes'
    BY <1>1, Zenon DEF Gift, PageTypes, LineTypes
  <2> QED
    BY <2>4, <2>5, <2>6
<1>2. ASSUME NEW r \in Rooms, NEW g \in Guests, GiftFails(r, g) PROVE TypeInv'
  <2>1. ServerTypes'
    BY <1>2 DEF GiftFails, ServerTypes
  <2>2. MailTypes' /\ PageTypes'
    BY <1>2, Zenon DEF GiftFails, MailTypes, PageTypes
  <2>3. LineTypes'
    BY <1>0, <1>2 DEF GiftFails, Faulty, LineTypes
  <2> QED
    BY <2>1, <2>2, <2>3
<1>3. ASSUME NEW c \in Clients, StartHandler(c) PROVE TypeInv'
  <2>1. Head(request[c]) \in Requests /\ Tail(request[c]) \in Seq(Requests)
    BY <1>3, HeadTailProperties DEF StartHandler, MailTypes
  <2> DEFINE j == [visit |-> Head(request[c]).visit, room |-> Head(request[c]).room, at |-> "validate",
                   board |-> Nobody, gifts |-> 0]
  <2>2. j \in Joins
    BY <1>0, <2>1 DEF Requests, Joins
  <2> HIDE DEF j
  <2>3. joins' = joins \/ joins' = [joins EXCEPT ![c] = @ \cup {j}]
    BY <1>3 DEF StartHandler, j
  <2>4. request' = [request EXCEPT ![c] = Tail(@)]
    BY <1>3 DEF StartHandler
  <2>5. MailTypes'
    <3>1. UNCHANGED <<inbox, pending>>
      BY <1>3 DEF StartHandler
    <3>2. request' \in [Clients -> Seq(Requests)]
      BY <2>1, <2>4 DEF MailTypes
    <3>3. joins' \in [Clients -> SUBSET Joins]
      BY <2>2, <2>3 DEF MailTypes
    <3> QED
      BY <3>1, <3>2, <3>3 DEF MailTypes
  <2>6. ServerTypes'
    BY <1>3 DEF StartHandler, ServerTypes
  <2>7. PageTypes' /\ LineTypes'
    BY <1>3, Zenon DEF StartHandler, PageTypes, LineTypes
  <2> QED
    BY <2>5, <2>6, <2>7
<1>4. ASSUME NEW c \in Clients, NEW j \in joins[c], EnterRoom(c, j) PROVE TypeInv'
  <2>1. j \in Joins
    BY DEF MailTypes
  <2>2. [j EXCEPT !.at = "read"] \in Joins /\ j.room \in Rooms
    BY <2>1 DEF Joins
  <2>3. MailTypes'
    BY <1>4, <2>2 DEF EnterRoom, Replace, MailTypes
  <2>4. ServerTypes'
    BY <1>4, <2>2 DEF EnterRoom, Entered, ServerTypes
  <2>5. PageTypes' /\ LineTypes'
    BY <1>4, Zenon DEF EnterRoom, PageTypes, LineTypes
  <2> QED
    BY <2>3, <2>4, <2>5
<1>5. ASSUME NEW c \in Clients, NEW j \in joins[c], ReadSnapshot(c, j) PROVE TypeInv'
  <2>1. j \in Joins
    BY DEF MailTypes
  <2>2. score[j.room] \in [Guests -> Nat] /\ gifts[j.room] \in Nat
    BY <2>1 DEF Joins, ServerTypes
  <2>3. Top(score[j.room]) \in [Guests -> Nat]
    BY <2>2, TopIsFine
  <2>4. [j EXCEPT !.at = "answer", !.board = Top(score[j.room]), !.gifts = gifts[j.room]] \in Joins
    BY <2>1, <2>2, <2>3 DEF Joins
  <2>5. MailTypes'
    BY <1>5, <2>4 DEF ReadSnapshot, Replace, MailTypes
  <2>6. ServerTypes' /\ PageTypes' /\ LineTypes'
    BY <1>5, Zenon DEF ReadSnapshot, ServerTypes, PageTypes, LineTypes
  <2> QED
    BY <2>5, <2>6
<1>6. ASSUME NEW c \in Clients, NEW j \in joins[c], AnswerJoin(c, j) \/ JoinFails(c, j) PROVE TypeInv'
  <2>1. PICK ok \in BOOLEAN : Answer(c, j, ok)
    BY <1>6 DEF AnswerJoin, JoinFails
  <2> DEFINE m == [kind |-> "answer", ok |-> ok, visit |-> j.visit, board |-> j.board, gifts |-> j.gifts]
  <2>2. j \in Joins
    BY DEF MailTypes
  <2>3. m \in Message
    BY <2>2 DEF Message, Joins
  <2> HIDE DEF m
  <2>4. inbox' = [inbox EXCEPT ![c] = Append(@, m)] /\ joins' = [joins EXCEPT ![c] = @ \ {j}]
    BY <2>1 DEF Answer, m
  <2>5. MailTypes'
    BY <2>1, <2>3, <2>4, MessageSent DEF Answer, MailTypes
  <2>6. ServerTypes' /\ PageTypes' /\ UNCHANGED <<up, visit>>
    BY <2>1, Zenon DEF Answer, ServerTypes, PageTypes
  <2>7. faults' \in 0..MaxFaults
    <3>1. faults' = faults \/ (faults < MaxFaults /\ faults' = faults + 1)
      BY <1>6, Zenon DEF AnswerJoin, JoinFails, Faulty
    <3> QED
      BY <1>0, <3>1 DEF LineTypes
  <2>8. LineTypes'
    BY <2>6, <2>7, Zenon DEF LineTypes
  <2> QED
    BY <2>5, <2>6, <2>8
<1>7. ASSUME NEW c \in Clients, NEW r \in Rooms, Open(c, r) PROVE TypeInv'
  <2> DEFINE m == [kind |-> "join", room |-> r, visit |-> visit[c] + 1]
  <2>1. visit[c] \in Nat /\ visit[c] < MaxVisits
    BY <1>0, <1>7 DEF Open, LineTypes
  <2>2. m \in Requests /\ <<m>> \in Seq(Requests) /\ <<>> \in Seq(Patches)
    BY <2>1 DEF Requests
  <2> HIDE DEF m
  <2>3. request[c] \o <<m>> \in Seq(Requests)
    BY <2>2, ConcatProperties DEF MailTypes
  <2>4. request' = request \/ request' = [request EXCEPT ![c] = @ \o <<m>>]
    BY <1>7, Zenon DEF Open, Joining, m
  <2>5. MailTypes'
    <3>1. UNCHANGED <<joins, inbox>> /\ pending' = [pending EXCEPT ![c] = <<>>]
      BY <1>7, Zenon DEF Open, Blank
    <3>2. request' \in [Clients -> Seq(Requests)]
      BY <2>3, <2>4 DEF MailTypes
    <3>3. pending' \in [Clients -> Seq(Patches)]
      BY <2>2, <3>1 DEF MailTypes
    <3> QED
      BY <3>1, <3>2, <3>3 DEF MailTypes
  <2>6. ServerTypes'
    BY <1>7, Zenon DEF Open, ServerTypes
  <2>7. joined' \in [Clients -> BOOLEAN] /\ error' \in [Clients -> BOOLEAN]
    BY <1>7, Zenon DEF Open, Blank, PageTypes
  <2>8. PageTypes'
    BY <1>0, <1>7, <2>7 DEF Open, Blank, PageTypes
  <2>9. LineTypes'
    <3>1. up' = up /\ faults' = faults
      BY <1>7, Zenon DEF Open
    <3>2. visit' = visit \/ (up[c] /\ visit' = [visit EXCEPT ![c] = @ + 1])
      BY <1>7, Zenon DEF Open, Joining
    <3> QED
      BY <1>0, <2>1, <3>1, <3>2 DEF LineTypes
  <2> QED
    BY <2>5, <2>6, <2>8, <2>9
<1>8. ASSUME NEW c \in Clients, Close(c) PROVE TypeInv'
  <2> DEFINE m == [kind |-> "leave", room |-> page[c], visit |-> visit[c]]
  <2>1. m \in Requests
    BY <1>0, <1>8 DEF Close, Requests, LineTypes, PageTypes
  <2> HIDE DEF m
  <2>2. Append(request[c], m) \in Seq(Requests)
    BY <2>1, AppendProperties DEF MailTypes
  <2>3. request' = [request EXCEPT ![c] = Append(@, m)]
    BY <1>8 DEF Close, m
  <2>4. MailTypes'
    BY <1>8, <2>2, <2>3 DEF Close, MailTypes
  <2>5. PageTypes'
    BY <1>8 DEF Close, PageTypes
  <2>6. ServerTypes' /\ LineTypes'
    BY <1>8, Zenon DEF Close, ServerTypes, LineTypes
  <2> QED
    BY <2>4, <2>5, <2>6
<1>9. ASSUME NEW c \in Clients, Receive(c) PROVE TypeInv'
  <2> DEFINE m == Head(inbox[c])
  <2>1. m \in Message /\ Tail(inbox[c]) \in Seq(Message)
    BY <1>9, HeadTailProperties DEF Receive, MailTypes
  <2>2. m.kind = "answer" => m.board \in [Guests -> Nat] /\ m.gifts \in Nat
    BY <2>1 DEF Message
  <2> HIDE DEF m
  <2>3. inbox' = [inbox EXCEPT ![c] = Tail(@)]
    BY <1>9 DEF Receive
  <2>4. UNCHANGED <<server, request, joins, up, view, page, visit, podium, announced, faults>>
    BY <1>9, Zenon DEF Receive
  <2>5. ServerTypes' /\ LineTypes'
    BY <2>4, Zenon DEF ServerTypes, LineTypes
  <2>6. pending' = pending => MailTypes'
    BY <2>1, <2>3, <2>4 DEF MailTypes
  <2>7. CASE m.kind = "patch" /\ Collect(c, m)
    <3>1. m \in Patches
      BY <2>1, <2>7 DEF Patches
    <3>2. Append(pending[c], m) \in Seq(Patches)
      BY <3>1, AppendProperties DEF MailTypes
    <3>3. MailTypes'
      BY <2>1, <2>3, <2>4, <2>7, <3>2 DEF Collect, MailTypes
    <3>4. PageTypes'
      BY <2>4, <2>7, Zenon DEF Collect, PageTypes
    <3> QED
      BY <2>5, <3>3, <3>4
  <2>8. CASE m.kind = "answer" /\ SetBoard(c, m)
    <3>1. joined' \in [Clients -> BOOLEAN]
      BY <2>8, Zenon DEF SetBoard, PageTypes
    <3>2. PageTypes'
      BY <2>2, <2>4, <2>8, <3>1 DEF SetBoard, PageTypes
    <3> QED
      BY <2>5, <2>6, <2>8, <3>2 DEF SetBoard
  <2>9. CASE SetError(c)
    <3>1. PageTypes'
      BY <2>4, <2>9, Zenon DEF SetError, PageTypes
    <3> QED
      BY <2>5, <2>6, <2>9, <3>1 DEF SetError
  <2>10. CASE UNCHANGED <<shown, shownGifts, joined, error, pending, applied>>
    <3>1. PageTypes'
      BY <2>4, <2>10, Zenon DEF PageTypes
    <3> QED
      BY <2>5, <2>6, <2>10, <3>1
  <2> QED
    BY <1>9, <2>7, <2>8, <2>9, <2>10, Zenon DEF Receive, m
<1>10. ASSUME NEW c \in Clients, Flush(c) PROVE TypeInv'
  <2> DEFINE last == Last(pending[c])
  <2>1. pending[c] \in Seq(Patches)
    BY DEF MailTypes
  <2>2. Patches = Patch
    BY DEF Patches, Patch, Message
  <2>3. Patched(shown[c], pending[c]) \in [Guests -> Nat]
    BY <2>1, <2>2, PatchedScores DEF PageTypes
  <2>4. last \in Patches
    <3>1. Len(pending[c]) \in 1..Len(pending[c])
      BY <1>10, <2>1, EmptySeq DEF Flush
    <3> QED
      BY <2>1, <3>1, ElementOfSeq DEF Last
  <2>5. last.gifts \in Nat
    BY <2>2, <2>4 DEF Patch
  <2>6. <<>> \in Seq(Patches)
    OBVIOUS
  <2>7. PageTypes'
    BY <1>10, <2>3, <2>5 DEF Flush, PageTypes
  <2>8. MailTypes'
    BY <1>10, <2>6 DEF Flush, MailTypes
  <2>9. ServerTypes' /\ LineTypes'
    BY <1>10, Zenon DEF Flush, ServerTypes, LineTypes
  <2> QED
    BY <2>7, <2>8, <2>9
<1>11. ASSUME NEW c \in Clients, Render(c) PROVE TypeInv'
  <2>1. PICK new \in Best(shown[c], Podium) :
          /\ podium' = [podium EXCEPT ![c] = new]
          /\ announced' = [announced EXCEPT ![c] = [g \in Guests |-> @[g] + Gained(podium[c], new, g)]]
    BY <1>11 DEF Render
  <2>2. new \in [Guests -> Nat] /\ podium[c] \in [Guests -> Nat]
    BY <2>1, BestTypes DEF PageTypes
  <2>3. \A g \in Guests : Gained(podium[c], new, g) \in Nat
    BY <2>2 DEF Gained
  <2>4. announced[c] \in [Guests -> Nat]
    BY DEF PageTypes
  <2>5. [g \in Guests |-> announced[c][g] + Gained(podium[c], new, g)] \in [Guests -> Nat]
    BY <2>3, <2>4
  <2>6. PageTypes'
    BY <1>11, <2>1, <2>2, <2>5 DEF Render, PageTypes
  <2>7. ServerTypes' /\ MailTypes' /\ LineTypes'
    BY <1>11, Zenon DEF Render, ServerTypes, MailTypes, LineTypes
  <2> QED
    BY <2>6, <2>7
<1>12. ASSUME NEW c \in Clients, Disconnect(c) PROVE TypeInv'
  <2>1. \A S : <<>> \in Seq(S)
    OBVIOUS
  <2>2. MailTypes'
    BY <1>12, <2>1 DEF Disconnect, MailTypes
  <2>3. ServerTypes'
    BY <1>12 DEF Disconnect, ServerTypes
  <2>4. PageTypes'
    BY <1>12, Zenon DEF Disconnect, PageTypes
  <2>5. up' \in [Clients -> BOOLEAN]
    BY <1>12, Zenon DEF Disconnect, LineTypes
  <2>6. LineTypes'
    BY <1>12, <2>5 DEF Disconnect, LineTypes
  <2> QED
    BY <2>2, <2>3, <2>4, <2>6
<1>13. ASSUME NEW c \in Clients, Reconnect(c) PROVE TypeInv'
  <2> DEFINE m == [kind |-> "join", room |-> page[c], visit |-> visit[c] + 1]
  <2>1. visit[c] \in Nat /\ visit[c] < MaxVisits
    BY <1>0, <1>13 DEF Reconnect, LineTypes
  <2>2. page[c] # None => m \in Requests /\ <<m>> \in Seq(Requests)
    BY <2>1 DEF Requests, PageTypes
  <2>3. page[c] # None => request[c] \o <<m>> \in Seq(Requests)
    BY <2>2, ConcatProperties DEF MailTypes
  <2> HIDE DEF m
  <2>4. \/ request' = request
        \/ page[c] # None /\ request' = [request EXCEPT ![c] = @ \o <<m>>]
    <3>1. CASE page[c] = None
      BY <1>13, <3>1 DEF Reconnect
    <3>2. CASE page[c] # None
      BY <1>13, <3>2 DEF Reconnect, Joining, m
    <3> QED
      BY <3>1, <3>2
  <2>5. MailTypes'
    BY <1>13, <2>3, <2>4 DEF Reconnect, MailTypes
  <2>6. ServerTypes'
    BY <1>13, Zenon DEF Reconnect, ServerTypes
  <2>7. PageTypes'
    <3>1. joined' \in [Clients -> BOOLEAN]
      BY <1>13, Zenon DEF Reconnect, PageTypes
    <3> QED
      BY <1>13, <3>1, Zenon DEF Reconnect, PageTypes
  <2>8. LineTypes'
    <3>1. up' \in [Clients -> BOOLEAN]
      BY <1>13, Zenon DEF Reconnect, LineTypes
    <3>2. visit' = visit \/ visit' = [visit EXCEPT ![c] = @ + 1]
      BY <1>13, Zenon DEF Reconnect, Joining
    <3>3. up' = [up EXCEPT ![c] = TRUE] /\ faults' = faults
      BY <1>13, Zenon DEF Reconnect
    <3> QED
      BY <1>0, <2>1, <3>1, <3>2, <3>3 DEF LineTypes
  <2> QED
    BY <2>5, <2>6, <2>7, <2>8
<1>14. CASE UNCHANGED vars
  BY <1>14, Zenon DEF vars, ServerTypes, MailTypes, PageTypes, LineTypes
<1> QED
  BY <1>1, <1>2, <1>3, <1>4, <1>5, <1>6, <1>7, <1>8, <1>9, <1>10, <1>11, <1>12, <1>13, <1>14
     DEF Next, Serve, Show, Roam

-----------------------------------------------------------------------------
(* What one browser's page has been told, and will be.                      *)

(* The patches the page has not applied, and the boards it may be given.    *)
Arriving(c) == {m \in Range(inbox[c]) : m.kind = "patch"}
Stream(c) == Range(pending[c]) \cup Arriving(c)
Boards(c) ==
  {j \in joins[c] : j.at = "answer"} \cup {m \in Range(inbox[c]) : m.kind = "answer" /\ m.ok}
NoAnswer(c) == \A m \in Range(inbox[c]) : m.kind # "answer"
OneAnswer(c) ==
  \A i, k \in DOMAIN inbox[c] : inbox[c][i].kind = "answer" /\ inbox[c][k].kind = "answer" => i = k
Due(c) == request[c] # <<>> \/ joins[c] # {} \/ Boards(c) # {}

(* Where the page's join is: on its way, with its handler, or answered.     *)
Asking(c) ==
  /\ \E m \in Requests : request[c] = <<m>> /\ m.kind = "join" /\ m.room = page[c]
  /\ joins[c] = {} /\ member[c] = {} /\ NoAnswer(c)
Handling(c) ==
  /\ request[c] = <<>> /\ NoAnswer(c)
  /\ \E j \in Joins :
       /\ joins[c] = {j} /\ j.room = page[c]
       /\ member[c] = IF j.at = "validate" THEN {} ELSE {page[c]}
Handled(c) ==
  /\ request[c] = <<>> /\ joins[c] = {} /\ OneAnswer(c)
  /\ member[c] \subseteq {page[c]}
  /\ up[c] /\ (joined[c] \/ Boards(c) # {}) => member[c] = {page[c]}
(* Without a page the socket is in no room, or leaves the only one.         *)
Away(c) ==
  /\ joins[c] = {}
  /\ \/ request[c] = <<>> /\ member[c] = {}
     \/ \E m \in Requests : request[c] = <<m>> /\ m.kind = "leave" /\ member[c] \subseteq {m.room}
JoinInv(c) ==
  /\ page[c] = None => Away(c)
  /\ page[c] # None => Asking(c) \/ Handling(c) \/ Handled(c)
  /\ page[c] # None /\ up[c] /\ joined[c] => request[c] = <<>> /\ joins[c] = {} /\ NoAnswer(c)
  /\ ~up[c] => joins[c] = {} /\ inbox[c] = <<>> /\ member[c] = {}
  /\ ~up[c] /\ page[c] # None => request[c] = <<>>

(* Patches are in the order of their gifts, pending ones before arriving.   *)
Ordered(c) ==
  /\ \A i, k \in DOMAIN pending[c] : i < k => pending[c][i].gifts < pending[c][k].gifts
  /\ \A i, k \in DOMAIN inbox[c] :
       i < k /\ inbox[c][i].kind = "patch" /\ inbox[c][k].kind = "patch"
         => inbox[c][i].gifts < inbox[c][k].gifts
  /\ \A p \in Range(pending[c]), q \in Arriving(c) : p.gifts < q.gifts
(* Patches are of the page's room and say what was true of it.              *)
Honest(c) ==
  /\ \A p \in Stream(c) :
       p.room = page[c] /\ p.gifts <= gifts[page[c]] /\ p.score \in 1..score[page[c]][p.guest]
  /\ \A p, q \in Stream(c) : p.guest = q.guest /\ p.gifts <= q.gifts => p.score <= q.score
(* The last patch of a guest has the guest's score, and the last of all the *)
(* number of gifts, unless a gift failed after it.                          *)
Complete(c) ==
  up[c] /\ Stream(c) # {} =>
    /\ member[c] = {page[c]}
    /\ \A p \in Stream(c) :
         (\A q \in Stream(c) : q.guest = p.guest => q.gifts <= p.gifts) =>
           p.guest \in silent[page[c]] \/ p.score = score[page[c]][p.guest]
    /\ \A p \in Stream(c) :
         silent[page[c]] = {} /\ (\A q \in Stream(c) : q.gifts <= p.gifts) => p.gifts = gifts[page[c]]

(* No more is announced of a guest than the page has shown, or will show.   *)
ModestOf(c, g) ==
  /\ shown[c][g] <= score[page[c]][g] /\ announced[c][g] <= score[page[c]][g]
  /\ \A b \in Boards(c) : b.board[g] <= score[page[c]][g]
  /\ podium[c][g] > 0 => announced[c][g] <= podium[c][g]
  /\ shown[c][g] > 0 => announced[c][g] <= shown[c][g]
  /\ shown[c][g] = 0 =>
       /\ \A p \in Stream(c) : p.guest = g => announced[c][g] <= p.score
       /\ \A b \in Boards(c) : b.board[g] > 0 => announced[c][g] <= b.board[g]
  /\ Due(c) => \A p \in Stream(c) : p.guest = g => shown[c][g] <= p.score
Modest(c) == \A g \in Guests : ModestOf(c, g)

(* What the page shows is right of the guests no patch is to come of.       *)
Current(c) ==
  up[c] /\ joined[c] =>
    /\ \A g \in Guests \ silent[page[c]] :
         (\A p \in Stream(c) : p.guest # g) => Fine(score[page[c]], shown[c], g)
    /\ view[c] = "room" /\ silent[page[c]] = {} /\ Stream(c) = {} => shownGifts[c] = gifts[page[c]]
(* So is a board, of the guests no newer patch is to come of.               *)
Fresh(c) ==
  \A b \in Boards(c) :
    /\ b.gifts <= gifts[page[c]]
    /\ applied[c] <= b.gifts =>
         /\ \A g \in Guests \ silent[page[c]] :
              (\A p \in Stream(c) : p.guest = g => p.gifts <= b.gifts) => Fine(score[page[c]], b.board, g)
         /\ silent[page[c]] = {} /\ (\A p \in Stream(c) : p.gifts <= b.gifts) => b.gifts = gifts[page[c]]

PageInv(c) ==
  page[c] # None => Ordered(c) /\ Honest(c) /\ Complete(c) /\ Modest(c) /\ Current(c) /\ Fresh(c)
ClientInv(c) == JoinInv(c) /\ PageInv(c)
FeedInv == TypeInv /\ \A c \in Clients : ClientInv(c)

(* Nothing of the browser changes, nor of its page's room.                  *)
Unmoved(c) ==
  /\ member'[c] = member[c] /\ request'[c] = request[c] /\ joins'[c] = joins[c]
  /\ inbox'[c] = inbox[c] /\ up'[c] = up[c] /\ view'[c] = view[c] /\ page'[c] = page[c]
  /\ shown'[c] = shown[c] /\ shownGifts'[c] = shownGifts[c] /\ joined'[c] = joined[c]
  /\ pending'[c] = pending[c] /\ podium'[c] = podium[c] /\ announced'[c] = announced[c]
  /\ applied'[c] = applied[c]
SameRoom(c) ==
  page[c] # None =>
    /\ score'[page[c]] = score[page[c]]
    /\ gifts'[page[c]] = gifts[page[c]]
    /\ silent'[page[c]] = silent[page[c]]

LEMMA SameMail ==
  ASSUME NEW c, inbox'[c] = inbox[c]
  PROVE  /\ Arriving(c)' = Arriving(c)
         /\ NoAnswer(c)' <=> NoAnswer(c)
         /\ OneAnswer(c)' <=> OneAnswer(c)
         /\ joins'[c] = joins[c] => Boards(c)' = Boards(c)
BY DEF Arriving, NoAnswer, OneAnswer, Boards

LEMMA SameTold ==
  ASSUME NEW c, inbox'[c] = inbox[c], pending'[c] = pending[c]
  PROVE  /\ Stream(c)' = Stream(c)
         /\ NoAnswer(c)' <=> NoAnswer(c)
         /\ OneAnswer(c)' <=> OneAnswer(c)
         /\ Ordered(c)' <=> Ordered(c)
         /\ joins'[c] = joins[c] => Boards(c)' = Boards(c)
BY SameMail DEF Stream, Ordered

LEMMA SameJoin ==
  ASSUME NEW c, JoinInv(c),
         inbox'[c] = inbox[c], joins'[c] = joins[c], request'[c] = request[c],
         member'[c] = member[c], up'[c] = up[c], page'[c] = page[c], joined'[c] = joined[c]
  PROVE  JoinInv(c)'
BY SameMail DEF JoinInv, Away, Asking, Handling, Handled

LEMMA Unaffected ==
  ASSUME NEW c, ClientInv(c), Unmoved(c), SameRoom(c)
  PROVE  ClientInv(c)'
<1>1. JoinInv(c)'
  BY SameJoin DEF ClientInv, Unmoved
<1>2. /\ Stream(c)' = Stream(c) /\ Boards(c)' = Boards(c) /\ (Ordered(c)' <=> Ordered(c))
      /\ (Due(c)' <=> Due(c))
  BY SameTold DEF Unmoved, Due
<1>3. ASSUME PageInv(c), page[c] # None PROVE PageInv(c)'
  <2> USE <1>3 DEF SameRoom
  <2>1. Honest(c)' <=> Honest(c)
    BY <1>2 DEF Unmoved, Honest
  <2>2. Complete(c)' <=> Complete(c)
    BY <1>2 DEF Unmoved, Complete
  <2>3. Modest(c)' <=> Modest(c)
    BY <1>2 DEF Unmoved, Modest, ModestOf
  <2>4. Current(c)' <=> Current(c)
    BY <1>2 DEF Unmoved, Current
  <2>5. Fresh(c)' <=> Fresh(c)
    BY <1>2 DEF Unmoved, Fresh
  <2> QED
    BY <1>2, <1>3, <2>1, <2>2, <2>3, <2>4, <2>5 DEF PageInv, Unmoved
<1> QED
  BY <1>1, <1>3 DEF ClientInv, PageInv, Unmoved

-----------------------------------------------------------------------------
(* Gifts.                                                                   *)

(* A board stays right of a guest whose score stays, when scores only grow  *)
(* and the board only gains guests.                                         *)
LEMMA FineStays ==
  ASSUME NEW real \in [Guests -> Nat], NEW b \in [Guests -> Nat],
         NEW real2 \in [Guests -> Nat], NEW b2 \in [Guests -> Nat], NEW g \in Guests,
         \A h \in Guests : real[h] <= real2[h], real2[g] = real[g],
         \A h \in Guests : b[h] > 0 => b2[h] > 0, b2[g] = b[g], Fine(real, b, g)
  PROVE  Fine(real2, b2, g)
<1> DEFINE S == {h \in Listed(b) : real[h] >= real[g]}
           T == {h \in Listed(b2) : real2[h] >= real2[g]}
<1>1. S \subseteq T /\ T \subseteq Listed(b2)
  BY DEF Listed
<1>2. IsFiniteSet(T)
  BY <1>1, ListedFinite
<1>3. Cardinality(S) <= Cardinality(T) /\ Cardinality(S) \in Nat /\ Cardinality(T) \in Nat
  BY <1>1, <1>2, FS_Subset, FS_CardinalityType
<1>4. Limit \in Nat
  BY BoundAssumption
<1> QED
  BY <1>3, <1>4 DEF Fine

(* What a gift, with a patch for the page or without, does to the room.     *)
Raised(r, g) ==
  /\ score' = [score EXCEPT ![r][g] = @ + 1]
  /\ gifts' = [gifts EXCEPT ![r] = @ + 1]

LEMMA RaisedScores ==
  ASSUME TypeInv, NEW r \in Rooms, NEW g \in Guests, Raised(r, g)
  PROVE  /\ score[r] \in [Guests -> Nat] /\ score'[r] \in [Guests -> Nat]
         /\ gifts[r] \in Nat /\ gifts'[r] = gifts[r] + 1
         /\ score'[r][g] = score[r][g] + 1
         /\ \A h \in Guests : h # g => score'[r][h] = score[r][h]
         /\ \A h \in Guests : score[r][h] <= score'[r][h]
         /\ \A q \in Rooms : q # r => score'[q] = score[q] /\ gifts'[q] = gifts[q]
BY DEF TypeInv, ServerTypes, Raised

LEMMA PageTyped ==
  ASSUME TypeInv, NEW c \in Clients
  PROVE  /\ shown[c] \in [Guests -> Nat] /\ announced[c] \in [Guests -> Nat] /\ podium[c] \in [Guests -> Nat]
         /\ shownGifts[c] \in Nat /\ applied[c] \in Nat
         /\ page[c] # None => page[c] \in Rooms
         /\ pending[c] \in Seq(Patches) /\ inbox[c] \in Seq(Message)
         /\ Stream(c) \subseteq Patch
         /\ \A p \in Stream(c) : p.kind = "patch" /\ p.guest \in Guests /\ p.score \in Nat /\ p.gifts \in Nat
         /\ \A b \in Boards(c) : b.board \in [Guests -> Nat] /\ b.gifts \in Nat
<1>1. pending[c] \in Seq(Patches) /\ inbox[c] \in Seq(Message)
  BY DEF TypeInv, MailTypes
<1>2. Range(pending[c]) \subseteq Patches /\ Range(inbox[c]) \subseteq Message
  BY <1>1, NoElements
<1>3. Patches = Patch
  BY DEF Patches, Patch, Message
<1>4. Stream(c) \subseteq Patch
  BY <1>2, <1>3 DEF Stream, Arriving, Patches
<1>5. \A p \in Patch : p.kind = "patch" /\ p.guest \in Guests /\ p.score \in Nat /\ p.gifts \in Nat
  BY DEF Patch
<1>6. \A b \in Boards(c) : b.board \in [Guests -> Nat] /\ b.gifts \in Nat
  <2>1. \A b \in Joins : b.board \in [Guests -> Nat] /\ b.gifts \in Nat
    BY DEF Joins
  <2>2. \A m \in Message : m.kind = "answer" => m.board \in [Guests -> Nat] /\ m.gifts \in Nat
    BY DEF Message
  <2>3. joins[c] \subseteq Joins
    BY DEF TypeInv, MailTypes
  <2> QED
    BY <1>2, <2>1, <2>2, <2>3, Zenon DEF Boards
<1>7. /\ shown[c] \in [Guests -> Nat] /\ announced[c] \in [Guests -> Nat] /\ podium[c] \in [Guests -> Nat]
      /\ shownGifts[c] \in Nat /\ applied[c] \in Nat
      /\ page[c] # None => page[c] \in Rooms
  BY DEF TypeInv, PageTypes
<1> QED
  BY <1>1, <1>4, <1>5, <1>6, <1>7

(* A page that is told nothing of a gift has no board that could miss it.   *)
LEMMA NotTold ==
  ASSUME NEW c, ClientInv(c), page[c] # None, ~(up[c] /\ page[c] \in member[c])
  PROVE  /\ up[c] => Stream(c) = {}
         /\ ~(up[c] /\ joined[c])
         /\ Boards(c) = {}
<1>1. ClientInv(c)
  OBVIOUS
<1>2. up[c] => Stream(c) = {}
  BY DEF ClientInv, PageInv, Complete
<1>3. ~(up[c] /\ joined[c])
  <2>1. SUFFICES ASSUME up[c], joined[c] PROVE FALSE
    OBVIOUS
  <2>2. request[c] = <<>> /\ joins[c] = {}
    BY <2>1 DEF ClientInv, JoinInv
  <2>3. Handled(c)
    BY <2>2 DEF ClientInv, JoinInv, Asking, Handling
  <2> QED
    BY <2>1, <2>3 DEF Handled
<1>4. Boards(c) = {}
  <2>1. CASE ~up[c]
    <3>1. joins[c] = {} /\ inbox[c] = <<>>
      BY <2>1 DEF ClientInv, JoinInv
    <3> QED
      BY <3>1, EmptyRange DEF Boards
  <2>2. CASE up[c]
    <3>1. CASE Asking(c)
      BY <3>1 DEF Asking, Boards, NoAnswer
    <3>2. CASE Handling(c)
      BY <2>2, <3>2 DEF Handling, Boards, NoAnswer
    <3>3. CASE Handled(c)
      BY <2>2, <3>3 DEF Handled
    <3> QED
      BY <3>1, <3>2, <3>3 DEF ClientInv, JoinInv
  <2> QED
    BY <2>1, <2>2
<1> QED
  BY <1>2, <1>3, <1>4

(* The page is of the room and is not told.                                 *)
LEMMA GiftUntold ==
  ASSUME TypeInv, NEW c \in Clients, ClientInv(c), NEW r \in Rooms, NEW g \in Guests, Raised(r, g),
         Unmoved(c), page[c] = r, ~(up[c] /\ r \in member[c])
  PROVE  ClientInv(c)'
<1>1. JoinInv(c)'
  BY SameJoin DEF ClientInv, Unmoved
<1>2. /\ Stream(c)' = Stream(c) /\ Boards(c)' = Boards(c) /\ (Ordered(c)' <=> Ordered(c))
      /\ (Due(c)' <=> Due(c))
  BY SameTold DEF Unmoved, Due
<1>3. page[c] # None
  BY BoundAssumption
<1>4. (up[c] => Stream(c) = {}) /\ ~(up[c] /\ joined[c]) /\ Boards(c) = {}
  BY <1>3, NotTold
<1>5. Ordered(c) /\ Honest(c) /\ Modest(c)
  BY <1>3 DEF ClientInv, PageInv
<1>6. Honest(c)'
  <2>1. \A p \in Stream(c) : p.guest \in Guests /\ p.score \in Nat /\ p.gifts \in Nat
    BY PageTyped
  <2> QED
    BY <1>2, <1>5, <2>1, RaisedScores DEF Honest, Unmoved
<1>7. Modest(c)'
  <2> SUFFICES ASSUME NEW h \in Guests PROVE ModestOf(c, h)'
    BY DEF Modest
  <2>1. ModestOf(c, h)
    BY <1>5 DEF Modest
  <2>2. shown[c][h] \in Nat /\ announced[c][h] \in Nat
    BY PageTyped
  <2> QED
    BY <1>2, <1>4, <2>1, <2>2, RaisedScores DEF ModestOf, Unmoved
<1>8. Complete(c)' /\ Current(c)' /\ Fresh(c)'
  BY <1>2, <1>4 DEF Complete, Current, Fresh, Unmoved
<1> QED
  BY <1>1, <1>2, <1>5, <1>6, <1>7, <1>8 DEF ClientInv, PageInv

(* Its points were added, but no patch is sent.                             *)
LEMMA GiftFailsTold ==
  ASSUME TypeInv, NEW c \in Clients, ClientInv(c), NEW r \in Rooms, NEW g \in Guests, Raised(r, g),
         silent' = [silent EXCEPT ![r] = @ \cup {g}], Unmoved(c), page[c] = r
  PROVE  ClientInv(c)'
<1>1. JoinInv(c)'
  BY SameJoin DEF ClientInv, Unmoved
<1>2. /\ Stream(c)' = Stream(c) /\ Boards(c)' = Boards(c) /\ (Ordered(c)' <=> Ordered(c))
      /\ (Due(c)' <=> Due(c))
  BY SameTold DEF Unmoved, Due
<1>3. page[c] # None
  BY BoundAssumption
<1>4. Ordered(c) /\ Honest(c) /\ Complete(c) /\ Modest(c) /\ Current(c) /\ Fresh(c)
  BY <1>3 DEF ClientInv, PageInv
<1>5. silent'[r] = silent[r] \cup {g} /\ silent'[r] # {}
  BY DEF TypeInv, ServerTypes
<1>6. \A p \in Stream(c) : p.guest \in Guests /\ p.score \in Nat /\ p.gifts \in Nat
  BY PageTyped
<1>7. Honest(c)'
  BY <1>2, <1>4, <1>6, RaisedScores DEF Honest, Unmoved
<1>8. Complete(c)'
  BY <1>2, <1>4, <1>5, <1>6, RaisedScores DEF Complete, Unmoved
<1>9. Modest(c)'
  <2> SUFFICES ASSUME NEW h \in Guests PROVE ModestOf(c, h)'
    BY DEF Modest
  <2>1. ModestOf(c, h)
    BY <1>4 DEF Modest
  <2>2. shown[c][h] \in Nat /\ announced[c][h] \in Nat /\ \A b \in Boards(c) : b.board[h] \in Nat
    BY PageTyped
  <2> QED
    BY <1>2, <2>1, <2>2, RaisedScores DEF ModestOf, Unmoved
<1>10. ASSUME NEW b \in [Guests -> Nat], NEW h \in Guests \ silent'[r], Fine(score[r], b, h)
       PROVE  Fine(score'[r], b, h)
  <2>1. h # g
    BY <1>5
  <2> QED
    BY <1>10, <2>1, RaisedScores, FineStays
<1>11. Current(c)'
  <2>1. shown[c] \in [Guests -> Nat]
    BY PageTyped
  <2> QED
    BY <1>2, <1>4, <1>5, <1>10, <2>1 DEF Current, Unmoved
<1>12. Fresh(c)'
  <2>1. \A b \in Boards(c) : b.board \in [Guests -> Nat] /\ b.gifts \in Nat
    BY PageTyped
  <2>2. gifts[r] \in Nat /\ gifts'[r] = gifts[r] + 1
    BY RaisedScores
  <2>3. \A b \in Boards(c) : b.gifts <= gifts'[r]
    BY <1>4, <2>1, <2>2 DEF Fresh
  <2>4. \A h \in Guests \ silent'[r] : h \in Guests \ silent[r]
    BY <1>5
  <2>5. ASSUME NEW b \in Boards(c), applied[c] <= b.gifts, NEW h \in Guests \ silent'[r],
               \A p \in Stream(c) : p.guest = h => p.gifts <= b.gifts
        PROVE  Fine(score'[r], b.board, h)
    BY <1>4, <1>10, <2>1, <2>4, <2>5 DEF Fresh
  <2> QED
    BY <1>2, <1>5, <2>3, <2>5 DEF Fresh, Unmoved
<1> QED
  BY <1>1, <1>2, <1>3, <1>4, <1>7, <1>8, <1>9, <1>11, <1>12 DEF ClientInv, PageInv, Unmoved

(* One more message for the browser.                                        *)
LEMMA Sent ==
  ASSUME TypeInv, NEW c \in Clients, NEW m \in Message, inbox'[c] = Append(inbox[c], m),
         pending'[c] = pending[c]
  PROVE  /\ m.kind = "patch" =>
              /\ Stream(c)' = Stream(c) \cup {m}
              /\ joins'[c] = joins[c] => Boards(c)' = Boards(c)
              /\ NoAnswer(c)' <=> NoAnswer(c)
              /\ OneAnswer(c) => OneAnswer(c)'
              /\ Ordered(c) /\ (\A p \in Stream(c) : p.gifts < m.gifts) => Ordered(c)'
         /\ m.kind = "answer" =>
              /\ Stream(c)' = Stream(c)
              /\ NoAnswer(c) => OneAnswer(c)'
              /\ Ordered(c) => Ordered(c)'
<1>1. inbox[c] \in Seq(Message)
  BY PageTyped
<1>2. /\ Len(inbox[c]) \in Nat /\ DOMAIN inbox[c] = 1..Len(inbox[c])
      /\ DOMAIN inbox'[c] = 1..Len(inbox[c]) + 1
      /\ \A i \in 1..Len(inbox[c]) : inbox'[c][i] = inbox[c][i]
      /\ inbox'[c][Len(inbox[c]) + 1] = m
      /\ Range(inbox'[c]) = Range(inbox[c]) \cup {m}
  BY <1>1, Appended
<1>3. \A i \in DOMAIN inbox'[c] : i \in DOMAIN inbox[c] \/ i = Len(inbox[c]) + 1
  BY <1>2
<1>4. \A i \in DOMAIN inbox[c] : inbox[c][i] \in Range(inbox[c])
  BY Zenon DEF Range
<1>5. CASE m.kind = "patch"
  <2>1. Arriving(c)' = Arriving(c) \cup {m} /\ Stream(c)' = Stream(c) \cup {m}
    BY <1>2, <1>5 DEF Arriving, Stream
  <2>2. joins'[c] = joins[c] => Boards(c)' = Boards(c)
    BY <1>2, <1>5 DEF Boards
  <2>3. NoAnswer(c)' <=> NoAnswer(c)
    BY <1>2, <1>5 DEF NoAnswer
  <2>4. OneAnswer(c) => OneAnswer(c)'
    BY <1>2, <1>3, <1>5 DEF OneAnswer
  <2>5. ASSUME Ordered(c), \A p \in Stream(c) : p.gifts < m.gifts PROVE Ordered(c)'
    <3>1. \A i \in DOMAIN inbox[c] : inbox[c][i].kind = "patch" => inbox[c][i].gifts < m.gifts
      BY <1>4, <2>5 DEF Stream, Arriving
    <3>2. \A i, k \in DOMAIN inbox'[c] :
            i < k /\ inbox'[c][i].kind = "patch" /\ inbox'[c][k].kind = "patch"
              => inbox'[c][i].gifts < inbox'[c][k].gifts
      BY <1>2, <1>3, <2>5, <3>1 DEF Ordered
    <3>3. \A p \in Range(pending[c]), q \in Arriving(c)' : p.gifts < q.gifts
      BY <2>1, <2>5 DEF Ordered, Stream
    <3> QED
      BY <2>5, <3>2, <3>3 DEF Ordered
  <2> QED
    BY <1>5, <2>1, <2>2, <2>3, <2>4, <2>5
<1>6. CASE m.kind = "answer"
  <2>1. Arriving(c)' = Arriving(c) /\ Stream(c)' = Stream(c)
    BY <1>2, <1>6 DEF Arriving, Stream
  <2>2. NoAnswer(c) => OneAnswer(c)'
    <3>1. NoAnswer(c) => \A i \in DOMAIN inbox[c] : inbox[c][i].kind # "answer"
      BY <1>4 DEF NoAnswer
    <3> QED
      BY <1>2, <1>3, <3>1 DEF OneAnswer
  <2>3. Ordered(c) => Ordered(c)'
    BY <1>2, <1>3, <1>6, <2>1 DEF Ordered
  <2> QED
    BY <1>6, <2>1, <2>2, <2>3
<1> QED
  BY <1>5, <1>6

(* The page is sent a patch of the gift.                                    *)
LEMMA GiftTold ==
  ASSUME TypeInv, NEW c \in Clients, ClientInv(c), NEW r \in Rooms, NEW g \in Guests, Raised(r, g),
         silent' = [silent EXCEPT ![r] = @ \ {g}],
         NEW m \in Patch, m.room = r, m.guest = g, m.score = score[r][g] + 1, m.gifts = gifts[r] + 1,
         inbox'[c] = Append(inbox[c], m),
         member'[c] = member[c], request'[c] = request[c], joins'[c] = joins[c],
         up'[c] = up[c], view'[c] = view[c], page'[c] = page[c],
         shown'[c] = shown[c], shownGifts'[c] = shownGifts[c], joined'[c] = joined[c],
         pending'[c] = pending[c], podium'[c] = podium[c], announced'[c] = announced[c],
         applied'[c] = applied[c], up[c], r \in member[c]
  PROVE  ClientInv(c)'
<1>0. m \in Message /\ m.kind = "patch"
  BY DEF Patch, Message
<1>1. /\ Stream(c)' = Stream(c) \cup {m} /\ Boards(c)' = Boards(c)
      /\ (NoAnswer(c)' <=> NoAnswer(c)) /\ (OneAnswer(c) => OneAnswer(c)')
      /\ Ordered(c) /\ (\A p \in Stream(c) : p.gifts < m.gifts) => Ordered(c)'
  BY <1>0, Sent
<1>2. JoinInv(c)'
  BY <1>1 DEF ClientInv, JoinInv, Away, Asking, Handling, Handled
<1>3. ASSUME page[c] # None PROVE PageInv(c)'
  <2>1. page[c] = r /\ member[c] = {r}
    BY <1>3 DEF ClientInv, JoinInv, Asking, Handling, Handled
  <2>2. Ordered(c) /\ Honest(c) /\ Complete(c) /\ Modest(c) /\ Current(c) /\ Fresh(c)
    BY <1>3 DEF ClientInv, PageInv
  <2>3. \A p \in Stream(c) : p.guest \in Guests /\ p.score \in Nat /\ p.gifts \in Nat
    BY PageTyped
  <2>4. \A p \in Stream(c) : p.gifts <= gifts[r] /\ p.score <= score[r][p.guest] /\ p.score > 0
    BY <2>1, <2>2, <2>3, RaisedScores DEF Honest
  <2>5. gifts[r] \in Nat /\ gifts'[r] = gifts[r] + 1 /\ score[r][g] \in Nat /\ score'[r][g] = score[r][g] + 1
    BY RaisedScores
  <2>6. \A p \in Stream(c) : p.gifts < m.gifts
    BY <2>3, <2>4, <2>5
  <2>7. silent'[r] = silent[r] \ {g}
    BY DEF TypeInv, ServerTypes
  <2>8. Honest(c)'
    <3>1. \A p \in Stream(c)' :
            p.room = r /\ p.gifts <= gifts'[r] /\ p.score \in 1..score'[r][p.guest]
      BY <1>1, <2>1, <2>2, <2>3, <2>4, <2>5, RaisedScores DEF Honest
    <3>2. \A p, q \in Stream(c)' : p.guest = q.guest /\ p.gifts <= q.gifts => p.score <= q.score
      BY <1>1, <2>1, <2>2, <2>3, <2>4, <2>5, <2>6, SMTT(30) DEF Honest
    <3> QED
      BY <2>1, <3>1, <3>2 DEF Honest
  <2>9. Complete(c)'
    <3>1. ASSUME NEW p \in Stream(c)', \A q \in Stream(c)' : q.guest = p.guest => q.gifts <= p.gifts
          PROVE p.guest \in silent'[r] \/ p.score = score'[r][p.guest]
      <4>1. CASE p = m
        BY <2>5, <4>1
      <4>2. CASE p # m
        <5>1. p \in Stream(c) /\ p.guest # g
          BY <1>1, <2>3, <2>5, <2>6, <3>1, <4>2
        <5>2. p.guest \in silent[r] \/ p.score = score[r][p.guest]
          BY <1>1, <2>1, <2>2, <3>1, <5>1 DEF Complete
        <5> QED
          BY <2>3, <2>7, <5>1, <5>2, RaisedScores
      <4> QED
        BY <4>1, <4>2
    <3>2. ASSUME NEW p \in Stream(c)', \A q \in Stream(c)' : q.gifts <= p.gifts
          PROVE p.gifts = gifts'[r]
      BY <1>1, <2>3, <2>5, <2>6, <3>2
    <3> QED
      BY <2>1, <3>1, <3>2 DEF Complete
  <2>10. Modest(c)'
    <3> SUFFICES ASSUME NEW h \in Guests PROVE ModestOf(c, h)'
      BY DEF Modest
    <3>1. ModestOf(c, h)
      BY <2>2 DEF Modest
    <3>2. shown[c][h] \in Nat /\ announced[c][h] \in Nat /\ \A b \in Boards(c) : b.board[h] \in Nat
      BY PageTyped
    <3>3. Due(c)' <=> Due(c)
      BY <1>1 DEF Due
    <3>4. score[r][h] \in Nat /\ score'[r][h] \in Nat /\ score[r][h] <= score'[r][h]
      BY RaisedScores
    <3> QED
      BY <1>1, <2>1, <2>3, <2>5, <3>1, <3>2, <3>3, <3>4, SMTT(30) DEF ModestOf
  <2>11. ASSUME NEW b \in [Guests -> Nat], NEW h \in Guests, h # g, Fine(score[r], b, h)
         PROVE  Fine(score'[r], b, h)
    <3>1. /\ score[r] \in [Guests -> Nat] /\ score'[r] \in [Guests -> Nat]
          /\ \A k \in Guests : score[r][k] <= score'[r][k]
          /\ score'[r][h] = score[r][h]
      BY <2>11, RaisedScores
    <3> QED
      BY <2>11, <3>1, FineStays
  <2>12. Current(c)'
    <3>1. shown[c] \in [Guests -> Nat]
      BY PageTyped
    <3> QED
      BY <1>1, <2>1, <2>2, <2>7, <2>11, <3>1 DEF Current
  <2>13. Fresh(c)'
    <3>1. \A b \in Boards(c) : b.board \in [Guests -> Nat] /\ b.gifts \in Nat
      BY PageTyped
    <3>2. \A b \in Boards(c) : b.gifts <= gifts[r] /\ b.gifts < m.gifts
      BY <2>1, <2>2, <2>5, <3>1 DEF Fresh
    <3>3. ASSUME NEW b \in Boards(c), applied[c] <= b.gifts, NEW h \in Guests \ silent'[r],
                 \A p \in Stream(c)' : p.guest = h => p.gifts <= b.gifts
          PROVE  Fine(score'[r], b.board, h)
      <4>1. h # g
        BY <1>1, <2>5, <3>1, <3>2, <3>3
      <4>2. h \in Guests \ silent[r]
        BY <2>7, <4>1
      <4>3. Fine(score[r], b.board, h)
        BY <1>1, <2>1, <2>2, <3>3, <4>2 DEF Fresh
      <4> QED
        BY <2>11, <3>1, <4>1, <4>3
    <3>4. ASSUME NEW b \in Boards(c)
          PROVE  ~\A p \in Stream(c)' : p.gifts <= b.gifts
      BY <1>1, <2>5, <3>1, <3>2
    <3>5. \A b \in Boards(c) : b.gifts <= gifts'[r]
      BY <2>5, <3>1, <3>2
    <3> QED
      BY <1>1, <2>1, <3>3, <3>4, <3>5 DEF Fresh
  <2> QED
    BY <1>1, <2>2, <2>6, <2>8, <2>9, <2>10, <2>12, <2>13 DEF PageInv
<1> QED
  BY <1>2, <1>3 DEF ClientInv, PageInv

LEMMA GiftKeeps ==
  ASSUME FeedInv, NEW r \in Rooms, NEW g \in Guests, Gift(r, g) \/ GiftFails(r, g), NEW c \in Clients
  PROVE  ClientInv(c)'
<1>1. TypeInv /\ ClientInv(c)
  BY DEF FeedInv
<1>2. Raised(r, g)
  BY DEF Gift, GiftFails, Raised
<1>3. /\ member'[c] = member[c] /\ request'[c] = request[c] /\ joins'[c] = joins[c]
      /\ up'[c] = up[c] /\ view'[c] = view[c] /\ page'[c] = page[c]
      /\ shown'[c] = shown[c] /\ shownGifts'[c] = shownGifts[c] /\ joined'[c] = joined[c]
      /\ pending'[c] = pending[c] /\ podium'[c] = podium[c] /\ announced'[c] = announced[c]
      /\ applied'[c] = applied[c]
  BY DEF Gift, GiftFails, server, wire, screen
<1>4. silent' \in {[silent EXCEPT ![r] = @ \ {g}], [silent EXCEPT ![r] = @ \cup {g}]}
  BY DEF Gift, GiftFails
<1>5. CASE page[c] # r /\ inbox'[c] = inbox[c]
  <2>1. page[c] # None => page[c] \in Rooms
    BY <1>1, PageTyped
  <2>2. SameRoom(c)
    BY <1>1, <1>2, <1>4, <1>5, <2>1, RaisedScores DEF SameRoom, TypeInv, ServerTypes
  <2> QED
    BY <1>1, <1>3, <1>5, <2>2, Unaffected DEF Unmoved
<1> DEFINE m == [kind |-> "patch", room |-> r, guest |-> g, score |-> score[r][g] + 1, gifts |-> gifts[r] + 1]
<1>6. CASE Gift(r, g) /\ up[c] /\ r \in member[c]
  <2>1. inbox'[c] = Append(inbox[c], m)
    BY <1>6 DEF Gift, ToAll
  <2>2. m \in Patch /\ m.room = r /\ m.guest = g /\ m.score = score[r][g] + 1 /\ m.gifts = gifts[r] + 1
    BY <1>1, <1>2, RaisedScores DEF Patch
  <2>3. silent' = [silent EXCEPT ![r] = @ \ {g}]
    BY <1>6 DEF Gift
  <2> HIDE DEF m
  <2> QED
    BY <1>1, <1>2, <1>3, <1>6, <2>1, <2>2, <2>3, GiftTold
<1>7. CASE GiftFails(r, g)
  <2>1. inbox'[c] = inbox[c] /\ silent' = [silent EXCEPT ![r] = @ \cup {g}]
    BY <1>7 DEF GiftFails, wire
  <2> QED
    BY <1>1, <1>2, <1>3, <1>5, <2>1, GiftFailsTold DEF Unmoved
<1>8. CASE Gift(r, g) /\ ~(up[c] /\ r \in member[c])
  <2>1. inbox'[c] = inbox[c]
    BY <1>8 DEF Gift, ToAll
  <2> QED
    BY <1>1, <1>2, <1>3, <1>5, <1>8, <2>1, GiftUntold DEF Unmoved
<1> QED
  BY <1>6, <1>7, <1>8

-----------------------------------------------------------------------------
(* The server's handlers.                                                   *)

(* What the invariant says of one board.                                    *)
BoardGood(c, b) ==
  /\ \A g \in Guests :
       /\ b.board[g] <= score[page[c]][g]
       /\ shown[c][g] = 0 /\ b.board[g] > 0 => announced[c][g] <= b.board[g]
  /\ b.gifts <= gifts[page[c]]
  /\ applied[c] <= b.gifts =>
       /\ \A g \in Guests \ silent[page[c]] :
            (\A p \in Stream(c) : p.guest = g => p.gifts <= b.gifts) => Fine(score[page[c]], b.board, g)
       /\ silent[page[c]] = {} /\ (\A p \in Stream(c) : p.gifts <= b.gifts) => b.gifts = gifts[page[c]]

LEMMA BoardsGood ==
  ASSUME NEW c, PageInv(c), page[c] # None
  PROVE  \A b \in Boards(c) : BoardGood(c, b)
BY DEF PageInv, Modest, ModestOf, Fresh, BoardGood

(* What the page shows stays, and so does what it is sent of gifts: only    *)
(* the boards it may be given change.                                       *)
LEMMA BoardsMove ==
  ASSUME NEW c, PageInv(c), page[c] # None, SameRoom(c),
         page'[c] = page[c], up'[c] = up[c], view'[c] = view[c],
         shown'[c] = shown[c], shownGifts'[c] = shownGifts[c], joined'[c] = joined[c],
         podium'[c] = podium[c], announced'[c] = announced[c], applied'[c] = applied[c],
         Stream(c)' = Stream(c), Ordered(c)', Due(c)' => Due(c),
         Stream(c) # {} => member'[c] = member[c],
         \A b \in Boards(c)' : BoardGood(c, b)
  PROVE  PageInv(c)'
<1>1. Ordered(c) /\ Honest(c) /\ Complete(c) /\ Modest(c) /\ Current(c)
  BY DEF PageInv
<1> USE DEF SameRoom
<1>2. Honest(c)'
  BY <1>1 DEF Honest
<1>3. Complete(c)'
  BY <1>1 DEF Complete
<1>4. Modest(c)'
  BY <1>1 DEF Modest, ModestOf, BoardGood
<1>5. Current(c)'
  BY <1>1 DEF Current
<1>6. Fresh(c)'
  BY DEF Fresh, BoardGood
<1> QED
  BY <1>2, <1>3, <1>4, <1>5, <1>6 DEF PageInv

LEMMA StartHandlerKeeps ==
  ASSUME TypeInv, NEW c \in Clients, ClientInv(c), StartHandler(c)
  PROVE  ClientInv(c)'
<1> DEFINE m == Head(request[c])
           j == [visit |-> m.visit, room |-> m.room, at |-> "validate", board |-> Nobody, gifts |-> 0]
<1>0. /\ request \in [Clients -> Seq(Requests)] /\ joins \in [Clients -> SUBSET Joins]
      /\ member \in [Clients -> SUBSET Rooms]
  BY DEF TypeInv, MailTypes, ServerTypes
<1>1. /\ up[c] /\ request[c] # <<>> /\ request'[c] = Tail(request[c])
      /\ UNCHANGED <<score, gifts, silent, inbox, up, view, screen>>
  BY <1>0 DEF StartHandler
<1>2. \A k : request[c] = <<k>> => m = k /\ request'[c] = <<>>
  BY <1>1
<1>3. CASE page[c] = None
  <2>1. PICK k \in Requests : request[c] = <<k>> /\ k.kind = "leave" /\ member[c] \subseteq {k.room} /\ joins[c] = {}
    BY <1>1, <1>3 DEF ClientInv, JoinInv, Away
  <2>2. m.kind = "leave" /\ m.room = k.room /\ request'[c] = <<>>
    BY <1>2, <2>1
  <2>3. member'[c] = {} /\ joins'[c] = {}
    BY <1>0, <2>1, <2>2 DEF StartHandler
  <2>4. Away(c)'
    BY <2>2, <2>3 DEF Away
  <2> QED
    BY <1>1, <1>3, <2>4 DEF ClientInv, JoinInv, PageInv, screen
<1>4. CASE page[c] # None
  <2>1. PICK k \in Requests : request[c] = <<k>> /\ k.kind = "join" /\ k.room = page[c]
    BY <1>1, <1>4 DEF ClientInv, JoinInv, Asking, Handling, Handled
  <2>2. joins[c] = {} /\ member[c] = {} /\ NoAnswer(c) /\ ~joined[c]
    BY <1>1, <1>4 DEF ClientInv, JoinInv, Asking, Handling, Handled
  <2>3. m = k /\ request'[c] = <<>>
    BY <1>2, <2>1
  <2>4. joins'[c] = {j} /\ member'[c] = {}
    BY <1>0, <2>1, <2>2, <2>3 DEF StartHandler
  <2>5. j \in Joins /\ j.room = page[c] /\ j.at = "validate"
    BY <2>1, <2>3 DEF Requests, Joins, Nobody
  <2> HIDE DEF m, j
  <2>6. inbox'[c] = inbox[c] /\ pending'[c] = pending[c] /\ page'[c] = page[c] /\ up'[c] = up[c] /\ joined'[c] = joined[c]
    BY <1>1 DEF screen
  <2>7. (NoAnswer(c)' <=> NoAnswer(c)) /\ (Ordered(c)' <=> Ordered(c)) /\ Stream(c)' = Stream(c)
    BY <2>6, SameTold
  <2>8. Handling(c)'
    BY <2>2, <2>3, <2>4, <2>5, <2>6, <2>7 DEF Handling
  <2>9. JoinInv(c)'
    BY <1>1, <1>4, <2>2, <2>6, <2>8 DEF JoinInv
  <2>10. Boards(c)' = {}
    BY <2>2, <2>4, <2>5, <2>6 DEF Boards, NoAnswer
  <2>11. PageInv(c)'
    <3>1. PageInv(c) /\ Ordered(c) /\ Due(c) /\ SameRoom(c)
      BY <1>1, <1>4 DEF ClientInv, PageInv, Due, SameRoom
    <3> QED
      BY <1>1, <1>4, <2>2, <2>4, <2>6, <2>7, <2>10, <3>1, BoardsMove DEF screen
  <2> QED
    BY <2>9, <2>11 DEF ClientInv
<1> QED
  BY <1>3, <1>4

(* A handler under way is that of the page's join.                          *)
LEMMA InHandler ==
  ASSUME NEW c, ClientInv(c), NEW j \in joins[c]
  PROVE  /\ page[c] # None /\ up[c] /\ ~joined[c] /\ request[c] = <<>> /\ NoAnswer(c)
         /\ joins[c] = {j} /\ j.room = page[c] /\ Due(c)
         /\ member[c] = IF j.at = "validate" THEN {} ELSE {page[c]}
         /\ PageInv(c) /\ Ordered(c)
<1>1. joins[c] # {}
  OBVIOUS
<1>2. page[c] # None /\ up[c] /\ ~joined[c]
  BY <1>1 DEF ClientInv, JoinInv, Away
<1>3. Handling(c)
  BY <1>1, <1>2 DEF ClientInv, JoinInv, Asking, Handled
<1> QED
  BY <1>1, <1>2, <1>3 DEF Handling, Due, ClientInv, PageInv

LEMMA EnterRoomKeeps ==
  ASSUME TypeInv, NEW c \in Clients, ClientInv(c), NEW j \in joins[c], EnterRoom(c, j)
  PROVE  ClientInv(c)'
<1> DEFINE k == [j EXCEPT !.at = "read"]
<1>0. /\ joins \in [Clients -> SUBSET Joins] /\ member \in [Clients -> SUBSET Rooms] /\ j \in Joins
  BY DEF TypeInv, MailTypes, ServerTypes
<1>1. /\ j.at = "validate"
      /\ UNCHANGED <<score, gifts, silent, request, inbox, up, view, screen>>
  BY DEF EnterRoom
<1>2. /\ page[c] # None /\ up[c] /\ ~joined[c] /\ request[c] = <<>> /\ NoAnswer(c)
      /\ joins[c] = {j} /\ j.room = page[c] /\ Due(c) /\ member[c] = {}
      /\ PageInv(c) /\ Ordered(c)
  BY <1>1, InHandler
<1>3. k \in Joins /\ k.room = page[c] /\ k.at = "read"
  BY <1>0, <1>2 DEF Joins
<1>4. joins'[c] = {k} /\ member'[c] = {page[c]}
  BY <1>0, <1>2 DEF EnterRoom, Replace, Entered
<1> HIDE DEF k
<1>5. inbox'[c] = inbox[c] /\ pending'[c] = pending[c] /\ page'[c] = page[c] /\ up'[c] = up[c] /\ joined'[c] = joined[c]
  BY <1>1 DEF screen
<1>6. (NoAnswer(c)' <=> NoAnswer(c)) /\ (Ordered(c)' <=> Ordered(c)) /\ Stream(c)' = Stream(c)
  BY <1>5, SameTold
<1>7. Handling(c)'
  BY <1>1, <1>2, <1>3, <1>4, <1>5, <1>6 DEF Handling
<1>8. JoinInv(c)'
  BY <1>2, <1>5, <1>7 DEF JoinInv
<1>9. Boards(c)' = {}
  BY <1>2, <1>3, <1>4, <1>5 DEF Boards, NoAnswer
<1>10. Stream(c) = {}
  BY <1>2 DEF PageInv, Complete
<1>11. PageInv(c)'
  BY <1>1, <1>2, <1>5, <1>6, <1>9, <1>10, BoardsMove DEF screen, SameRoom
<1> QED
  BY <1>8, <1>11 DEF ClientInv

LEMMA ReadSnapshotKeeps ==
  ASSUME TypeInv, NEW c \in Clients, ClientInv(c), NEW j \in joins[c], ReadSnapshot(c, j)
  PROVE  ClientInv(c)'
<1> DEFINE r == page[c]
           k == [j EXCEPT !.at = "answer", !.board = Top(score[r]), !.gifts = gifts[r]]
<1>0. joins \in [Clients -> SUBSET Joins] /\ j \in Joins
  BY DEF TypeInv, MailTypes
<1>1. j.at = "read" /\ UNCHANGED <<server, request, inbox, up, view, screen>>
  BY DEF ReadSnapshot
<1>2. /\ page[c] # None /\ up[c] /\ ~joined[c] /\ request[c] = <<>> /\ NoAnswer(c)
      /\ joins[c] = {j} /\ j.room = r /\ Due(c) /\ member[c] = {r}
      /\ PageInv(c) /\ Ordered(c)
  BY <1>1, InHandler
<1>3. r \in Rooms /\ score[r] \in [Guests -> Nat] /\ gifts[r] \in Nat
  BY <1>2, PageTyped DEF TypeInv, ServerTypes
<1>4. Top(score[r]) \in [Guests -> Nat]
  BY <1>3, TopIsFine
<1>5. k \in Joins /\ k.room = r /\ k.at = "answer" /\ k.board = Top(score[r]) /\ k.gifts = gifts[r]
  BY <1>0, <1>2, <1>3, <1>4 DEF Joins
<1>6. joins'[c] = {k}
  BY <1>0, <1>2 DEF ReadSnapshot, Replace
<1> HIDE DEF k
<1>7. /\ inbox'[c] = inbox[c] /\ pending'[c] = pending[c] /\ page'[c] = page[c] /\ up'[c] = up[c]
      /\ joined'[c] = joined[c] /\ member'[c] = member[c] /\ request'[c] = request[c]
  BY <1>1 DEF screen, server
<1>8. (NoAnswer(c)' <=> NoAnswer(c)) /\ (Ordered(c)' <=> Ordered(c)) /\ Stream(c)' = Stream(c)
  BY <1>7, SameTold
<1>9. Handling(c)'
  BY <1>2, <1>5, <1>6, <1>7, <1>8 DEF Handling
<1>10. JoinInv(c)'
  BY <1>2, <1>7, <1>9 DEF JoinInv
<1>11. Boards(c)' = {k}
  BY <1>2, <1>5, <1>6, <1>7 DEF Boards, NoAnswer
<1>12. BoardGood(c, k)
  <2>1. ASSUME NEW g \in Guests
        PROVE  /\ k.board[g] <= score[r][g] /\ Fine(score[r], k.board, g)
               /\ k.board[g] > 0 => announced[c][g] <= k.board[g]
    <3>1. k.board[g] \in {0, score[r][g]} /\ Fine(score[r], k.board, g)
      BY <1>3, <1>5, TopIsFine
    <3>2. announced[c][g] <= score[r][g]
      BY <1>2 DEF PageInv, Modest, ModestOf
    <3>3. score[r][g] \in Nat
      BY <1>3
    <3> QED
      BY <3>1, <3>2, <3>3
  <2> QED
    BY <1>3, <1>5, <2>1 DEF BoardGood
<1>13. PageInv(c)'
  BY <1>1, <1>2, <1>7, <1>8, <1>11, <1>12, BoardsMove DEF screen, server, SameRoom
<1> QED
  BY <1>10, <1>13 DEF ClientInv

LEMMA AnswerKeeps ==
  ASSUME TypeInv, NEW c \in Clients, ClientInv(c), NEW j \in joins[c], NEW ok \in BOOLEAN,
         Answer(c, j, ok), ok => j.at = "answer"
  PROVE  ClientInv(c)'
<1> DEFINE m == [kind |-> "answer", ok |-> ok, visit |-> j.visit, board |-> j.board, gifts |-> j.gifts]
<1>0. joins \in [Clients -> SUBSET Joins] /\ j \in Joins /\ inbox \in [Clients -> Seq(Message)]
  BY DEF TypeInv, MailTypes
<1>1. UNCHANGED <<server, request, up, view, screen>>
  BY DEF Answer
<1>2. /\ page[c] # None /\ up[c] /\ ~joined[c] /\ request[c] = <<>> /\ NoAnswer(c)
      /\ joins[c] = {j} /\ j.room = page[c] /\ Due(c) /\ member[c] \subseteq {page[c]}
      /\ ok => member[c] = {page[c]}
      /\ PageInv(c) /\ Ordered(c)
  BY InHandler
<1>3. m \in Message
  BY <1>0 DEF Message, Joins
<1>4. m.kind = "answer" /\ m.board = j.board /\ m.gifts = j.gifts /\ m.ok = ok
  OBVIOUS
<1>5. joins'[c] = {} /\ inbox'[c] = Append(inbox[c], m)
  BY <1>0, <1>2 DEF Answer
<1> HIDE DEF m
<1>6. /\ pending'[c] = pending[c] /\ page'[c] = page[c] /\ up'[c] = up[c]
      /\ joined'[c] = joined[c] /\ member'[c] = member[c] /\ request'[c] = request[c]
  BY <1>1 DEF screen, server
<1>7. Stream(c)' = Stream(c) /\ OneAnswer(c)' /\ Ordered(c)'
  BY <1>2, <1>3, <1>4, <1>5, <1>6, Sent
<1>8. Range(inbox'[c]) = Range(inbox[c]) \cup {m}
  BY <1>0, <1>3, <1>5, Appended
<1>9. Boards(c)' = IF ok THEN {m} ELSE {}
  BY <1>2, <1>4, <1>5, <1>8 DEF Boards, NoAnswer
<1>10. Handled(c)'
  BY <1>2, <1>5, <1>6, <1>7, <1>9 DEF Handled
<1>11. JoinInv(c)'
  BY <1>2, <1>6, <1>10 DEF JoinInv
<1>12. ok => BoardGood(c, m)
  <2>1. SUFFICES ASSUME ok PROVE BoardGood(c, m)
    OBVIOUS
  <2>2. j \in Boards(c)
    BY <2>1 DEF Boards
  <2>3. BoardGood(c, j)
    BY <1>2, <2>2, BoardsGood
  <2> QED
    BY <1>4, <2>3 DEF BoardGood
<1>13. PageInv(c)'
  BY <1>1, <1>2, <1>6, <1>7, <1>9, <1>12, BoardsMove DEF screen, server, SameRoom
<1> QED
  BY <1>11, <1>13 DEF ClientInv

-----------------------------------------------------------------------------
(* The browser.                                                             *)

LEMMA NothingThere ==
  ASSUME NEW c
  PROVE  /\ inbox[c] = <<>> =>
              /\ Arriving(c) = {} /\ NoAnswer(c) /\ OneAnswer(c)
              /\ pending[c] = <<>> => Stream(c) = {} /\ Ordered(c)
              /\ joins[c] = {} => Boards(c) = {}
         /\ inbox'[c] = <<>> =>
              /\ Arriving(c)' = {} /\ NoAnswer(c)' /\ OneAnswer(c)'
              /\ pending'[c] = <<>> => Stream(c)' = {} /\ Ordered(c)'
              /\ joins'[c] = {} => Boards(c)' = {}
BY EmptyRange DEF Arriving, NoAnswer, OneAnswer, Stream, Ordered, Boards

LEMMA OpenKeeps ==
  ASSUME TypeInv, NEW c \in Clients, ClientInv(c), NEW r \in Rooms, Open(c, r), Quiet(c)
  PROVE  ClientInv(c)'
<1> DEFINE m == [kind |-> "join", room |-> r, visit |-> visit[c] + 1]
<1>1. /\ page[c] = None /\ page'[c] = r /\ r # None
      /\ UNCHANGED <<server, joins, inbox, up, view>>
  BY BoundAssumption DEF Open, TypeInv, PageTypes
<1>2. /\ request[c] = <<>> /\ joins[c] = {} /\ inbox[c] = <<>> /\ member[c] = {}
      /\ joins'[c] = {} /\ inbox'[c] = <<>> /\ member'[c] = {}
  BY <1>1 DEF Quiet, ClientInv, JoinInv, Away, server
<1>3. /\ shown'[c] = Nobody /\ joined'[c] = FALSE /\ pending'[c] = <<>>
      /\ podium'[c] = Nobody /\ announced'[c] = Nobody
  BY DEF Open, Blank, TypeInv, MailTypes, PageTypes
<1>4. up[c] => request'[c] = <<m>>
  BY <1>2 DEF Open, Joining, TypeInv, MailTypes
<1>5. ~up[c] => request'[c] = <<>>
  BY <1>2 DEF Open
<1>6. m \in Requests /\ m.kind = "join" /\ m.room = r
  BY DEF Requests, TypeInv, LineTypes
<1> HIDE DEF m
<1>7. NoAnswer(c)' /\ OneAnswer(c)' /\ Stream(c)' = {} /\ Ordered(c)' /\ Boards(c)' = {}
  BY <1>2, <1>3, NothingThere
<1>8. JoinInv(c)'
  <2>1. up[c] => Asking(c)'
    BY <1>1, <1>2, <1>4, <1>6, <1>7 DEF Asking
  <2>2. ~up[c] => Handled(c)'
    BY <1>1, <1>2, <1>5, <1>7 DEF Handled
  <2> QED
    BY <1>1, <1>2, <1>3, <1>5, <2>1, <2>2 DEF JoinInv
<1>9. Modest(c)'
  <2>1. \A g \in Guests : Nobody[g] = 0 /\ score[r][g] \in Nat
    BY DEF Nobody, TypeInv, ServerTypes
  <2> QED
    BY <1>1, <1>3, <1>7, <2>1 DEF Modest, ModestOf, server
<1>10. Honest(c)' /\ Complete(c)' /\ Current(c)' /\ Fresh(c)'
  BY <1>3, <1>7 DEF Honest, Complete, Current, Fresh
<1> QED
  BY <1>7, <1>8, <1>9, <1>10 DEF ClientInv, PageInv

LEMMA CloseKeeps ==
  ASSUME TypeInv, NEW c \in Clients, ClientInv(c), Close(c), request[c] = <<>>, joins[c] = {}
  PROVE  ClientInv(c)'
<1> DEFINE m == [kind |-> "leave", room |-> page[c], visit |-> visit[c]]
<1>1. page[c] # None /\ page'[c] = None /\ UNCHANGED <<server, joins, inbox, up>>
  BY DEF Close, TypeInv, PageTypes
<1>2. m \in Requests /\ m.kind = "leave" /\ m.room = page[c]
  BY <1>1 DEF Requests, TypeInv, LineTypes, PageTypes
<1>3. request'[c] = <<m>>
  BY DEF Close, TypeInv, MailTypes
<1> HIDE DEF m
<1>4. member[c] \subseteq {page[c]}
  BY <1>1 DEF ClientInv, JoinInv, Asking, Handling, Handled
<1>5. Away(c)'
  BY <1>1, <1>2, <1>3, <1>4 DEF Away, server
<1> QED
  BY <1>1, <1>5 DEF ClientInv, JoinInv, PageInv, server

(* The first message is taken.                                              *)
LEMMA Taken ==
  ASSUME TypeInv, NEW c \in Clients, inbox[c] # <<>>, inbox'[c] = Tail(inbox[c]),
         NEW m, m = Head(inbox[c])
  PROVE  /\ m \in Message
         /\ Range(inbox[c]) = {m} \cup Range(inbox'[c])
         /\ NoAnswer(c) => NoAnswer(c)'
         /\ m.kind = "answer" => Arriving(c)' = Arriving(c) /\ (OneAnswer(c) => NoAnswer(c)')
         /\ m.kind = "patch" => Arriving(c) = {m} \cup Arriving(c)' /\ (OneAnswer(c) => OneAnswer(c)')
         /\ Ordered(c) =>
              /\ m.kind = "patch" => \A q \in Arriving(c)' : m.gifts < q.gifts
              /\ pending'[c] = pending[c] => Ordered(c)'
              /\ \A i, k \in DOMAIN inbox'[c] :
                   i < k /\ inbox'[c][i].kind = "patch" /\ inbox'[c][k].kind = "patch"
                     => inbox'[c][i].gifts < inbox'[c][k].gifts
<1> DEFINE s == inbox[c]
           n == Len(s)
<1>1. s \in Seq(Message)
  BY PageTyped
<1>2. /\ n \in Nat \ {0} /\ DOMAIN s = 1..n /\ m = s[1] /\ m \in Message
      /\ DOMAIN inbox'[c] = 1..n - 1
      /\ \A i \in 1..n - 1 : inbox'[c][i] = s[i + 1]
      /\ Range(s) = {m} \cup Range(inbox'[c])
  BY <1>1, Beheaded
<1>3. \A i \in DOMAIN inbox'[c] : i + 1 \in DOMAIN s /\ 1 \in DOMAIN s /\ i \in Nat \ {0}
  BY <1>2
<1> HIDE DEF s, n
<1>4. \A q \in Range(inbox'[c]) : \E i \in DOMAIN inbox'[c] : q = inbox'[c][i]
  BY Zenon DEF Range
<1>5. NoAnswer(c) => NoAnswer(c)'
  BY <1>2 DEF NoAnswer, s
<1>6. ASSUME m.kind = "answer" PROVE Arriving(c)' = Arriving(c) /\ (OneAnswer(c) => NoAnswer(c)')
  <2>1. Arriving(c)' = Arriving(c)
    BY <1>2, <1>6 DEF Arriving, s
  <2>2. ASSUME OneAnswer(c), NEW q \in Range(inbox'[c]) PROVE q.kind # "answer"
    <3>1. PICK i \in DOMAIN inbox'[c] : q = inbox'[c][i]
      BY <1>4
    <3>2. q = s[i + 1] /\ i + 1 # 1 /\ i + 1 \in DOMAIN s /\ 1 \in DOMAIN s
      BY <1>2, <1>3, <3>1
    <3> QED
      BY <1>2, <1>6, <2>2, <3>2 DEF OneAnswer, s
  <2> QED
    BY <2>1, <2>2 DEF NoAnswer
<1>7. ASSUME m.kind = "patch" PROVE Arriving(c) = {m} \cup Arriving(c)' /\ (OneAnswer(c) => OneAnswer(c)')
  <2>1. Arriving(c) = {m} \cup Arriving(c)'
    BY <1>2, <1>7 DEF Arriving, s
  <2>2. ASSUME OneAnswer(c) PROVE OneAnswer(c)'
    <3> SUFFICES ASSUME NEW i \in DOMAIN inbox'[c], NEW k \in DOMAIN inbox'[c],
                        inbox'[c][i].kind = "answer", inbox'[c][k].kind = "answer"
                 PROVE  i = k
      BY DEF OneAnswer
    <3>1. inbox'[c][i] = s[i + 1] /\ inbox'[c][k] = s[k + 1]
      BY <1>2
    <3>2. i + 1 = k + 1
      BY <1>3, <2>2, <3>1 DEF OneAnswer, s
    <3> QED
      BY <1>3, <3>2
  <2> QED
    BY <2>1, <2>2
<1>8. ASSUME Ordered(c)
      PROVE  /\ m.kind = "patch" => \A q \in Arriving(c)' : m.gifts < q.gifts
             /\ pending'[c] = pending[c] => Ordered(c)'
             /\ \A i, k \in DOMAIN inbox'[c] :
                  i < k /\ inbox'[c][i].kind = "patch" /\ inbox'[c][k].kind = "patch"
                    => inbox'[c][i].gifts < inbox'[c][k].gifts
  <2>1. \A i, k \in DOMAIN s : i < k /\ s[i].kind = "patch" /\ s[k].kind = "patch" => s[i].gifts < s[k].gifts
    BY <1>8 DEF Ordered, s
  <2>2. ASSUME m.kind = "patch", NEW q \in Arriving(c)' PROVE m.gifts < q.gifts
    <3>1. q \in Range(inbox'[c]) /\ q.kind = "patch"
      BY DEF Arriving
    <3>2. PICK i \in DOMAIN inbox'[c] : q = inbox'[c][i]
      BY <1>4, <3>1
    <3>3. q = s[i + 1] /\ 1 < i + 1
      BY <1>2, <1>3, <3>2
    <3> QED
      BY <1>2, <1>3, <2>1, <2>2, <3>1, <3>3
  <2>3. ASSUME NEW i \in DOMAIN inbox'[c], NEW k \in DOMAIN inbox'[c], i < k,
               inbox'[c][i].kind = "patch", inbox'[c][k].kind = "patch"
        PROVE  inbox'[c][i].gifts < inbox'[c][k].gifts
    <3>1. inbox'[c][i] = s[i + 1] /\ inbox'[c][k] = s[k + 1] /\ i + 1 < k + 1
      BY <1>2, <1>3, <2>3
    <3> QED
      BY <1>3, <2>1, <2>3, <3>1
  <2>4. Arriving(c)' \subseteq Arriving(c)
    BY <1>2 DEF Arriving, s
  <2>5. pending'[c] = pending[c] => Ordered(c)'
    BY <1>8, <2>3, <2>4 DEF Ordered
  <2> QED
    BY <2>2, <2>3, <2>5
<1> QED
  BY <1>2, <1>5, <1>6, <1>7, <1>8 DEF s

(* A patch is collected: it waits behind those collected before it.         *)
LEMMA CollectKeeps ==
  ASSUME TypeInv, NEW c \in Clients, ClientInv(c), page[c] # None, up[c],
         NEW m, m = Head(inbox[c]), inbox[c] # <<>>, inbox'[c] = Tail(inbox[c]),
         m.kind = "patch", Collect(c, m),
         UNCHANGED <<server, request, joins, up, view, page, visit, podium, announced, faults>>
  PROVE  ClientInv(c)'
<1>0. pending \in [Clients -> Seq(Patches)]
  BY DEF TypeInv, MailTypes
<1>1. /\ m \in Message /\ (NoAnswer(c) => NoAnswer(c)') /\ (OneAnswer(c) => OneAnswer(c)')
      /\ Range(inbox[c]) = {m} \cup Range(inbox'[c])
      /\ Arriving(c) = {m} \cup Arriving(c)'
      /\ Ordered(c) =>
           /\ \A q \in Arriving(c)' : m.gifts < q.gifts
           /\ \A i, k \in DOMAIN inbox'[c] :
                i < k /\ inbox'[c][i].kind = "patch" /\ inbox'[c][k].kind = "patch"
                  => inbox'[c][i].gifts < inbox'[c][k].gifts
  BY Taken
<1>2. pending'[c] = Append(pending[c], m) /\ UNCHANGED <<shown, shownGifts, joined, error, applied>>
  BY <1>0 DEF Collect
<1>3. m \in Patches
  BY <1>1 DEF Patches
<1> DEFINE n == Len(pending[c])
<1>4. /\ n \in Nat /\ DOMAIN pending[c] = 1..n /\ DOMAIN pending'[c] = 1..n + 1
      /\ \A i \in 1..n : pending'[c][i] = pending[c][i]
      /\ pending'[c][n + 1] = m
      /\ Range(pending'[c]) = Range(pending[c]) \cup {m}
  BY <1>0, <1>2, <1>3, Appended
<1> HIDE DEF n
<1>5. Stream(c)' = Stream(c)
  BY <1>1, <1>4 DEF Stream
<1>6. Boards(c)' = Boards(c)
  BY <1>1 DEF Boards
<1>7. JoinInv(c)'
  BY <1>1, <1>2, <1>6 DEF ClientInv, JoinInv, Asking, Handling, Handled, server
<1>8. PageInv(c)
  BY DEF ClientInv
<1>9. Ordered(c)'
  <2>1. Ordered(c)
    BY <1>8 DEF PageInv
  <2>2. \A p \in Range(pending[c]) : p.gifts < m.gifts
    BY <1>1, <2>1 DEF Ordered
  <2>3. \A i \in DOMAIN pending[c] : pending[c][i] \in Range(pending[c])
    BY Zenon DEF Range
  <2>4. \A i \in DOMAIN pending'[c] : i = n + 1 \/ i \in DOMAIN pending[c]
    BY <1>4
  <2>5. \A i, k \in DOMAIN pending'[c] : i < k => pending'[c][i].gifts < pending'[c][k].gifts
    BY <1>4, <2>1, <2>2, <2>3, <2>4 DEF Ordered
  <2>6. \A p \in Range(pending'[c]), q \in Arriving(c)' : p.gifts < q.gifts
    BY <1>1, <1>4, <2>1 DEF Ordered
  <2> QED
    BY <1>1, <2>1, <2>5, <2>6 DEF Ordered
<1>10. PageInv(c)'
  <2>1. \A b \in Boards(c)' : BoardGood(c, b)
    BY <1>6, <1>8, BoardsGood
  <2>2. Due(c)' => Due(c)
    BY <1>6 DEF Due
  <2> QED
    BY <1>2, <1>5, <1>8, <1>9, <2>1, <2>2, BoardsMove DEF server, SameRoom
<1> QED
  BY <1>7, <1>10 DEF ClientInv

(* The answer of the page's join comes with its board.                      *)
LEMMA SetBoardKeeps ==
  ASSUME TypeInv, NEW c \in Clients, ClientInv(c), page[c] # None, up[c],
         NEW m, m = Head(inbox[c]), inbox[c] # <<>>, inbox'[c] = Tail(inbox[c]),
         m.kind = "answer", m.ok, SetBoard(c, m),
         applied'[c] >= applied[c], \A g \in Guests : shown'[c][g] \notin 1..shown[c][g] - 1,
         UNCHANGED <<server, request, joins, up, view, page, visit, podium, announced, faults>>
  PROVE  ClientInv(c)'
<1>1. /\ m \in Message /\ (OneAnswer(c) => NoAnswer(c)')
      /\ Range(inbox[c]) = {m} \cup Range(inbox'[c])
      /\ Arriving(c)' = Arriving(c)
      /\ Ordered(c) /\ pending'[c] = pending[c] => Ordered(c)'
  BY Taken
<1>2. /\ shown'[c] = m.board /\ shownGifts'[c] = m.gifts /\ joined'[c] = TRUE /\ applied'[c] = m.gifts
      /\ pending'[c] = pending[c]
  BY DEF SetBoard, TypeInv, PageTypes
<1>3. m \in Boards(c) /\ ~NoAnswer(c)
  BY <1>1 DEF Boards, NoAnswer
<1>4. Handled(c) /\ NoAnswer(c)'
  BY <1>1, <1>3 DEF ClientInv, JoinInv, Asking, Handling, Handled
<1>5. request[c] = <<>> /\ joins[c] = {} /\ member[c] = {page[c]} /\ Due(c)
  BY <1>3, <1>4 DEF Handled, Due
<1>6. Boards(c)' = {} /\ OneAnswer(c)'
  <2>1. \A i \in DOMAIN inbox'[c] : inbox'[c][i] \in Range(inbox'[c])
    BY Zenon DEF Range
  <2> QED
    BY <1>4, <1>5, <2>1 DEF Boards, NoAnswer, OneAnswer
<1>7. JoinInv(c)'
  <2>1. Handled(c)'
    BY <1>5, <1>6 DEF Handled, server
  <2> QED
    BY <1>4, <1>5, <2>1 DEF JoinInv, server
<1>8. /\ PageInv(c) /\ Ordered(c) /\ Honest(c) /\ Complete(c) /\ Modest(c) /\ Fresh(c)
      /\ BoardGood(c, m)
  BY <1>3, BoardsGood DEF ClientInv, PageInv
<1>9. Stream(c)' = Stream(c) /\ Ordered(c)'
  BY <1>1, <1>2, <1>8 DEF Stream
<1>10. Honest(c)' /\ Complete(c)'
  BY <1>8, <1>9 DEF Honest, Complete, server
<1>11. Modest(c)'
  <2> SUFFICES ASSUME NEW g \in Guests PROVE ModestOf(c, g)'
    BY DEF Modest
  <2>1. ModestOf(c, g)
    BY <1>8 DEF Modest
  <2>2. /\ m.board[g] <= score[page[c]][g]
        /\ shown[c][g] = 0 /\ m.board[g] > 0 => announced[c][g] <= m.board[g]
    BY <1>8 DEF BoardGood
  <2>3. shown[c][g] \in Nat /\ announced[c][g] \in Nat /\ m.board[g] \in Nat
    BY <1>3, PageTyped
  <2>4. m.board[g] = 0 \/ m.board[g] >= shown[c][g]
    BY <1>2, <2>3
  <2>5. ~Due(c)'
    BY <1>5, <1>6 DEF Due
  <2>6. m.board[g] > 0 => announced[c][g] <= m.board[g]
    BY <2>1, <2>2, <2>3, <2>4 DEF ModestOf
  <2>7. \A p \in Stream(c) : p.guest = g => announced[c][g] <= p.score
    <3>1. \A p \in Stream(c) : p.score \in Nat
      BY PageTyped
    <3> QED
      BY <1>5, <2>1, <2>3, <3>1 DEF ModestOf
  <2> QED
    BY <1>2, <1>6, <1>9, <2>1, <2>2, <2>5, <2>6, <2>7 DEF ModestOf, server
<1>12. Current(c)'
  <2>1. applied[c] <= m.gifts
    BY <1>2, <1>3, PageTyped
  <2> QED
    BY <1>2, <1>8, <1>9, <2>1 DEF Current, BoardGood, server
<1>13. Fresh(c)'
  BY <1>6 DEF Fresh
<1> QED
  BY <1>7, <1>9, <1>10, <1>11, <1>12, <1>13 DEF ClientInv, PageInv

(* The answer is an error, or of an earlier join.                           *)
LEMMA AnswerLostKeeps ==
  ASSUME TypeInv, NEW c \in Clients, ClientInv(c), page[c] # None, up[c],
         NEW m, m = Head(inbox[c]), inbox[c] # <<>>, inbox'[c] = Tail(inbox[c]),
         m.kind = "answer", UNCHANGED <<shown, shownGifts, joined, pending, applied>>,
         UNCHANGED <<server, request, joins, up, view, page, visit, podium, announced, faults>>
  PROVE  ClientInv(c)'
<1>1. /\ m \in Message /\ (OneAnswer(c) => NoAnswer(c)')
      /\ Range(inbox[c]) = {m} \cup Range(inbox'[c])
      /\ Arriving(c)' = Arriving(c)
      /\ Ordered(c) => Ordered(c)'
  BY Taken
<1>2. ~NoAnswer(c)
  BY <1>1 DEF NoAnswer
<1>3. Handled(c) /\ NoAnswer(c)' /\ ~joined[c]
  BY <1>1, <1>2 DEF ClientInv, JoinInv, Asking, Handling, Handled
<1>4. Boards(c)' \subseteq Boards(c) /\ OneAnswer(c)'
  <2>1. \A i \in DOMAIN inbox'[c] : inbox'[c][i] \in Range(inbox'[c])
    BY Zenon DEF Range
  <2> QED
    BY <1>1, <1>3, <2>1 DEF Boards, NoAnswer, OneAnswer
<1>5. JoinInv(c)'
  <2>1. Handled(c)'
    BY <1>3, <1>4 DEF Handled, server
  <2> QED
    BY <1>3, <2>1 DEF JoinInv, server
<1>6. PageInv(c)
  BY DEF ClientInv
<1>7. Stream(c)' = Stream(c) /\ Ordered(c)' /\ (Due(c)' => Due(c))
  BY <1>1, <1>4, <1>6 DEF Stream, PageInv, Due
<1>8. PageInv(c)'
  <2>1. \A b \in Boards(c)' : BoardGood(c, b)
    BY <1>4, <1>6, BoardsGood
  <2> QED
    BY <1>6, <1>7, <2>1, BoardsMove DEF server, SameRoom
<1> QED
  BY <1>5, <1>8 DEF ClientInv

LEMMA ReceiveKeeps ==
  ASSUME TypeInv, NEW c \in Clients, ClientInv(c), Receive(c),
         page[c] # None => applied'[c] >= applied[c],
         page'[c] # None => \A g \in Guests : shown'[c][g] \notin 1..shown[c][g] - 1
  PROVE  ClientInv(c)'
<1> DEFINE m == Head(inbox[c])
<1>1. /\ up[c] /\ inbox[c] # <<>> /\ inbox'[c] = Tail(inbox[c])
      /\ UNCHANGED <<server, request, joins, up, view, page, visit, podium, announced, faults>>
  BY DEF Receive, TypeInv, MailTypes
<1>2. \/ m.kind = "patch" /\ page[c] # None /\ Collect(c, m)
      \/ m.kind = "answer" /\ page[c] # None /\ m.ok /\ SetBoard(c, m)
      \/ m.kind = "answer" /\ page[c] # None /\ UNCHANGED <<shown, shownGifts, joined, pending, applied>>
      \/ page[c] = None
  <2>1. m \in Message
    BY <1>1, Taken
  <2>2. m.kind \in {"patch", "answer"}
    BY <2>1 DEF Message
  <2> HIDE DEF m
  <2> QED
    BY <2>2 DEF Receive, SetError, m
<1> HIDE DEF m
<1>3. CASE page[c] = None
  BY <1>1, <1>3 DEF ClientInv, JoinInv, Away, PageInv, server
<1> QED
  BY <1>1, <1>2, <1>3, CollectKeeps, SetBoardKeeps, AnswerLostKeeps DEF m

(* What a batch leaves: patches that are newer than all of it.              *)
LEMMA FlushKeeps ==
  ASSUME TypeInv, NEW c \in Clients, ClientInv(c), Flush(c), applied'[c] >= applied[c],
         \A g \in Guests : shown'[c][g] \notin 1..shown[c][g] - 1
  PROVE  ClientInv(c)'
<1> DEFINE r == page[c]
           ps == pending[c]
           n == Len(ps)
<1>1. /\ r # None /\ r \in Rooms /\ ps # <<>>
      /\ UNCHANGED <<server, wire, view, page, visit, joined, error, podium, announced, faults>>
  BY PageTyped DEF Flush
<1>2. /\ shown'[c] = Patched(shown[c], ps) /\ pending'[c] = <<>>
      /\ applied'[c] = ps[n].gifts
      /\ view[c] = "room" => shownGifts'[c] = ps[n].gifts
      /\ view[c] # "room" => shownGifts'[c] = shownGifts[c]
  BY DEF Flush, Last, TypeInv, MailTypes, PageTypes
<1>3. score[r] \in [Guests -> Nat] /\ gifts[r] \in Nat
  BY <1>1 DEF TypeInv, ServerTypes
<1>4. Patches = Patch
  BY DEF Patches, Patch, Message
<1>5. ps \in Seq(Patch) /\ shown[c] \in [Guests -> Nat]
  BY <1>4, PageTyped
<1>6. n \in Nat \ {0} /\ DOMAIN ps = 1..n
  BY <1>1, <1>5, EmptySeq, LenProperties
<1>7. \A g \in Guests : ScoreAfter(shown[c], ps, n, shown'[c][g], g)
  BY <1>2, <1>5, PatchedScores
<1>8. shown'[c] \in [Guests -> Nat]
  BY <1>2, <1>5, PatchedScores
<1>9. /\ Ordered(c) /\ Honest(c) /\ Complete(c) /\ Modest(c) /\ Current(c) /\ Fresh(c)
  BY <1>1 DEF ClientInv, PageInv
<1>10. /\ \A i \in 1..n : ps[i] \in Stream(c) /\ ps[i] \in Range(ps)
       /\ \A p \in Range(ps) : \E i \in 1..n : p = ps[i]
  BY <1>6, Zenon DEF Stream, Range
<1>11. /\ \A p \in Stream(c) :
            /\ p.guest \in Guests /\ p.score \in Nat /\ p.gifts \in Nat
            /\ p.score > 0 /\ p.score <= score[r][p.guest] /\ p.gifts <= gifts[r]
       /\ \A p, q \in Stream(c) : p.guest = q.guest /\ p.gifts <= q.gifts => p.score <= q.score
  <2>1. \A p \in Stream(c) : p.guest \in Guests /\ p.score \in Nat /\ p.gifts \in Nat
    BY PageTyped
  <2>2. \A g \in Guests : score[r][g] \in Nat
    BY <1>3
  <2> QED
    BY <1>9, <2>1, <2>2 DEF Honest
<1>12. \A i, k \in 1..n : i < k => ps[i].gifts < ps[k].gifts
  BY <1>6, <1>9 DEF Ordered
<1>13. \A p \in Range(ps), q \in Arriving(c) : p.gifts < q.gifts
  BY <1>9 DEF Ordered
<1>14. Stream(c) = Range(ps) \cup Arriving(c)
  BY DEF Stream
<1>15. /\ inbox'[c] = inbox[c] /\ joins'[c] = joins[c] /\ request'[c] = request[c]
       /\ member'[c] = member[c] /\ up'[c] = up[c] /\ page'[c] = page[c] /\ joined'[c] = joined[c]
       /\ view'[c] = view[c] /\ podium'[c] = podium[c] /\ announced'[c] = announced[c]
       /\ score' = score /\ gifts' = gifts /\ silent' = silent
  BY <1>1 DEF server, wire
<1>16. JoinInv(c)'
  BY <1>15, SameJoin DEF ClientInv
<1>17. Boards(c)' = Boards(c) /\ Arriving(c)' = Arriving(c) /\ (Due(c)' <=> Due(c))
  BY <1>15, SameMail DEF Due
<1>18. Stream(c)' = Arriving(c)
  BY <1>2, <1>17, EmptyRange DEF Stream
<1>19. \A q \in Arriving(c), i \in 1..n : ps[i].gifts < q.gifts
  BY <1>10, <1>13
<1>20. Ordered(c)'
  <2>1. DOMAIN pending'[c] = {} /\ Range(pending'[c]) = {}
    BY <1>2, EmptyRange
  <2> QED
    BY <1>9, <1>15, <2>1 DEF Ordered
<1> HIDE DEF r, ps, n
<1>21. Honest(c)'
  BY <1>9, <1>14, <1>15, <1>18 DEF Honest
<1>22. Complete(c)'
  <2> SUFFICES ASSUME up[c], Arriving(c) # {} PROVE Complete(c)'
    BY <1>15, <1>18 DEF Complete
  <2>1. Stream(c) # {} /\ Arriving(c) \subseteq Stream(c)
    BY <1>14
  <2>2. ASSUME NEW p \in Arriving(c), NEW q \in Range(ps) PROVE q.gifts <= p.gifts
    <3>1. q.gifts < p.gifts
      BY <1>13
    <3>2. q.gifts \in Nat /\ p.gifts \in Nat
      BY <1>11, <1>14
    <3> QED
      BY <3>1, <3>2
  <2>3. \A p \in Arriving(c) :
          (\A q \in Arriving(c) : q.guest = p.guest => q.gifts <= p.gifts) =>
            \A q \in Stream(c) : q.guest = p.guest => q.gifts <= p.gifts
    BY <1>14, <2>2
  <2>4. \A p \in Arriving(c) :
          (\A q \in Arriving(c) : q.gifts <= p.gifts) => \A q \in Stream(c) : q.gifts <= p.gifts
    BY <1>14, <2>2
  <2> QED
    BY <1>9, <1>15, <1>18, <2>1, <2>3, <2>4 DEF Complete
(* The guest's last patch of the batch, when there is one.                  *)
<1>23. ASSUME NEW g \in Guests, NEW i \in 1..n, LastOf(ps, n, i, g), shown'[c][g] = ps[i].score
       PROVE  /\ shown'[c][g] > 0 /\ shown'[c][g] <= score[r][g]
              /\ \A q \in Arriving(c) : q.guest = g => shown'[c][g] <= q.score
              /\ \A k \in 1..n : ps[k].guest = g => ps[k].gifts <= ps[i].gifts
  <2>1. ps[i] \in Stream(c) /\ ps[i].guest = g /\ ps[i].gifts \in Nat
    BY <1>10, <1>11, <1>23 DEF LastOf
  <2>2. ASSUME NEW q \in Arriving(c), q.guest = g PROVE ps[i].score <= q.score
    <3>1. ps[i].gifts < q.gifts /\ q \in Stream(c) /\ q.gifts \in Nat
      BY <1>11, <1>14, <1>19
    <3> QED
      BY <1>11, <2>1, <2>2, <3>1
  <2>3. ASSUME NEW k \in 1..n, ps[k].guest = g PROVE ps[k].gifts <= ps[i].gifts
    <3>1. ps[k] \in Stream(c) /\ ps[k].gifts \in Nat
      BY <1>10, <1>11
    <3>2. k \in Nat /\ i \in Nat /\ ~(k > i)
      BY <1>6, <1>23, <2>3 DEF LastOf
    <3> QED
      BY <1>12, <2>1, <3>1, <3>2
  <2> QED
    BY <1>11, <1>23, <2>1, <2>2, <2>3
<1>24. Modest(c)'
  <2> SUFFICES ASSUME NEW g \in Guests PROVE ModestOf(c, g)'
    BY DEF Modest
  <2>1. ModestOf(c, g)
    BY <1>9 DEF Modest
  <2>2. shown[c][g] \in Nat /\ announced[c][g] \in Nat /\ shown'[c][g] \in Nat
    BY <1>8, PageTyped
  <2>3. CASE shown'[c][g] = shown[c][g]
    BY <1>14, <1>15, <1>17, <1>18, <2>1, <2>3 DEF ModestOf, r
  <2>4. ASSUME NEW i \in 1..n, LastOf(ps, n, i, g), shown'[c][g] = ps[i].score PROVE ModestOf(c, g)'
    <3>1. /\ shown'[c][g] > 0 /\ shown'[c][g] <= score[r][g]
          /\ \A q \in Arriving(c) : q.guest = g => shown'[c][g] <= q.score
      BY <1>23, <2>4
    <3>2. announced[c][g] <= shown'[c][g]
      <4>1. CASE shown[c][g] = 0
        <5>1. ps[i] \in Stream(c) /\ ps[i].guest = g
          BY <1>10, <2>4 DEF LastOf
        <5> QED
          BY <2>1, <2>4, <4>1, <5>1 DEF ModestOf
      <4>2. CASE shown[c][g] > 0
        <5>1. shown'[c][g] >= shown[c][g]
          BY <2>2, <3>1
        <5> QED
          BY <2>1, <2>2, <4>2, <5>1 DEF ModestOf
      <4> QED
        BY <2>2, <4>1, <4>2
    <3> QED
      BY <1>15, <1>17, <1>18, <2>1, <2>2, <3>1, <3>2 DEF ModestOf, r
  <2> QED
    BY <1>7, <2>3, <2>4 DEF ScoreAfter
<1>25. Current(c)'
  <2> SUFFICES ASSUME up[c], joined[c] PROVE Current(c)'
    BY <1>15 DEF Current
  <2>1. ASSUME NEW g \in Guests \ silent[r], \A q \in Arriving(c) : q.guest # g
        PROVE  Fine(score[r], shown'[c], g)
    <3>1. CASE shown'[c][g] = shown[c][g] /\ \A i \in 1..n : ps[i].guest # g
      <4>1. \A q \in Stream(c) : q.guest # g
        BY <1>10, <1>14, <2>1, <3>1
      <4>2. Fine(score[r], shown[c], g)
        BY <1>9, <4>1 DEF Current, r
      <4>3. ASSUME NEW h \in Guests, shown[c][h] > 0 PROVE shown'[c][h] > 0
        BY <1>7, <1>23, <4>3 DEF ScoreAfter
      <4>4. \A h \in Guests : score[r][h] <= score[r][h]
        BY <1>3
      <4> QED
        BY <1>3, <1>5, <1>8, <3>1, <4>2, <4>3, <4>4, FineStays
    <3>2. ASSUME NEW i \in 1..n, LastOf(ps, n, i, g), shown'[c][g] = ps[i].score
          PROVE  Fine(score[r], shown'[c], g)
      <4>1. ps[i] \in Stream(c) /\ ps[i].guest = g
        BY <1>10, <3>2 DEF LastOf
      <4>2. \A q \in Stream(c) : q.guest = ps[i].guest => q.gifts <= ps[i].gifts
        BY <1>10, <1>14, <1>23, <2>1, <3>2, <4>1
      <4>3. ps[i].score = score[r][g]
        BY <1>9, <2>1, <4>1, <4>2 DEF Complete, r
      <4> QED
        BY <3>2, <4>3 DEF Fine
    <3> QED
      BY <1>7, <3>1, <3>2 DEF ScoreAfter
  <2>2. ASSUME view[c] = "room", silent[r] = {}, Arriving(c) = {} PROVE shownGifts'[c] = gifts[r]
    <3>1. n \in 1..n /\ ps[n] \in Stream(c)
      BY <1>6, <1>10
    <3>2. ASSUME NEW q \in Stream(c) PROVE q.gifts <= ps[n].gifts
      <4>1. PICK i \in 1..n : q = ps[i]
        BY <1>10, <1>14, <2>2
      <4>2. i = n \/ i < n
        BY <1>6
      <4>3. q.gifts \in Nat /\ ps[n].gifts \in Nat
        BY <1>11, <3>1
      <4> QED
        BY <1>12, <3>1, <4>1, <4>2, <4>3
    <3> QED
      BY <1>2, <1>9, <2>2, <3>1, <3>2 DEF Complete, r
  <2> QED
    BY <1>15, <1>18, <2>1, <2>2 DEF Current, r
<1>26. Fresh(c)'
  <2>1. \A b \in Boards(c) : b.gifts \in Nat
    BY PageTyped
  <2>2. applied[c] \in Nat /\ applied'[c] \in Nat
    BY <1>2, <1>6, <1>10, <1>11, PageTyped
  <2>3. ASSUME NEW b \in Boards(c), applied'[c] <= b.gifts
        PROVE  applied[c] <= b.gifts /\ \A q \in Range(ps) : q.gifts <= b.gifts
    <3>1. applied[c] <= b.gifts
      BY <2>1, <2>2, <2>3
    <3>2. ASSUME NEW q \in Range(ps) PROVE q.gifts <= b.gifts
      <4>1. PICK i \in 1..n : q = ps[i]
        BY <1>10
      <4>2. i = n \/ i < n
        BY <1>6
      <4>3. n \in 1..n /\ q.gifts \in Nat /\ ps[n].gifts \in Nat
        BY <1>6, <1>10, <1>11, <4>1
      <4>4. q.gifts <= ps[n].gifts
        BY <1>12, <4>1, <4>2, <4>3
      <4> QED
        BY <1>2, <2>1, <2>3, <4>3, <4>4
    <3> QED
      BY <3>1, <3>2
  <2>4. \A b \in Boards(c) :
          applied'[c] <= b.gifts =>
            /\ \A g \in Guests \ silent[r] :
                 (\A p \in Arriving(c) : p.guest = g => p.gifts <= b.gifts) => Fine(score[r], b.board, g)
            /\ silent[r] = {} /\ (\A p \in Arriving(c) : p.gifts <= b.gifts) => b.gifts = gifts[r]
    <3> SUFFICES ASSUME NEW b \in Boards(c), applied'[c] <= b.gifts
                 PROVE  /\ \A g \in Guests \ silent[r] :
                             (\A p \in Arriving(c) : p.guest = g => p.gifts <= b.gifts)
                               => Fine(score[r], b.board, g)
                        /\ silent[r] = {} /\ (\A p \in Arriving(c) : p.gifts <= b.gifts)
                             => b.gifts = gifts[r]
      OBVIOUS
    <3>1. /\ \A g \in Guests \ silent[r] :
               (\A p \in Stream(c) : p.guest = g => p.gifts <= b.gifts) => Fine(score[r], b.board, g)
          /\ silent[r] = {} /\ (\A p \in Stream(c) : p.gifts <= b.gifts) => b.gifts = gifts[r]
      BY <1>9, <2>3 DEF Fresh, r
    <3> QED
      BY <1>14, <2>3, <3>1
  <2> QED
    BY <1>9, <1>15, <1>17, <1>18, <2>4 DEF Fresh, r
<1> QED
  BY <1>16, <1>20, <1>21, <1>22, <1>24, <1>25, <1>26 DEF ClientInv, PageInv

(* What is announced is what the podium gained on what it showed last.      *)
LEMMA RenderKeeps ==
  ASSUME TypeInv, NEW c \in Clients, ClientInv(c), Render(c)
  PROVE  ClientInv(c)'
<1>1. /\ page[c] # None
      /\ UNCHANGED <<server, wire, view, page, visit, shown, shownGifts, joined, error, pending, applied>>
  BY DEF Render
<1>2. PICK new \in Best(shown[c], Podium) :
        /\ podium'[c] = new
        /\ announced'[c] = [g \in Guests |-> announced[c][g] + Gained(podium[c], new, g)]
  BY DEF Render, TypeInv, PageTypes
<1>3. shown[c] \in [Guests -> Nat] /\ podium[c] \in [Guests -> Nat] /\ announced[c] \in [Guests -> Nat]
  BY PageTyped
<1>4. new \in [Guests -> Nat] /\ \A g \in Guests : new[g] \in {0, shown[c][g]}
  BY <1>2, <1>3, BestTypes
<1>5. /\ inbox'[c] = inbox[c] /\ joins'[c] = joins[c] /\ request'[c] = request[c]
      /\ member'[c] = member[c] /\ up'[c] = up[c] /\ page'[c] = page[c] /\ joined'[c] = joined[c]
      /\ view'[c] = view[c] /\ pending'[c] = pending[c] /\ shown'[c] = shown[c]
      /\ shownGifts'[c] = shownGifts[c] /\ applied'[c] = applied[c]
      /\ score' = score /\ gifts' = gifts /\ silent' = silent
  BY <1>1 DEF server, wire
<1>6. JoinInv(c)'
  BY <1>5, SameJoin DEF ClientInv
<1>7. /\ Stream(c)' = Stream(c) /\ Boards(c)' = Boards(c) /\ (Ordered(c)' <=> Ordered(c))
      /\ (Due(c)' <=> Due(c))
  BY <1>5, SameTold DEF Due
<1>8. Ordered(c) /\ Honest(c) /\ Complete(c) /\ Modest(c) /\ Current(c) /\ Fresh(c)
  BY <1>1 DEF ClientInv, PageInv
<1>9. Honest(c)' /\ Complete(c)' /\ Current(c)' /\ Fresh(c)'
  BY <1>5, <1>7, <1>8 DEF Honest, Complete, Current, Fresh
<1>10. Modest(c)'
  <2> SUFFICES ASSUME NEW g \in Guests PROVE ModestOf(c, g)'
    BY DEF Modest
  <2>1. ModestOf(c, g)
    BY <1>8 DEF Modest
  <2> DEFINE s == shown[c][g]
             a == announced[c][g]
             p == podium[c][g]
             x == new[g]
  <2>2. s \in Nat /\ a \in Nat /\ p \in Nat /\ x \in Nat /\ x \in {0, s}
    BY <1>3, <1>4
  <2>3. announced'[c][g] = a + Gained(podium[c], new, g) /\ podium'[c][g] = x /\ shown'[c][g] = s
    BY <1>2, <1>5
  <2>4. Gained(podium[c], new, g) = IF p > 0 /\ x > p THEN x - p ELSE 0
    BY DEF Gained
  <2>5. /\ s <= score[page[c]][g] /\ a <= score[page[c]][g]
        /\ p > 0 => a <= p
        /\ s > 0 => a <= s
    BY <2>1 DEF ModestOf
  <2>6. score[page[c]][g] \in Nat
    BY <1>1, PageTyped DEF TypeInv, ServerTypes
  <2> HIDE DEF s, a, p, x
  <2>7. /\ announced'[c][g] <= score[page[c]][g]
        /\ x > 0 => announced'[c][g] <= x
        /\ s > 0 => announced'[c][g] <= s
        /\ s = 0 => announced'[c][g] = a
    BY <2>2, <2>3, <2>4, <2>5, <2>6
  <2> QED
    BY <1>5, <1>7, <2>1, <2>3, <2>7 DEF ModestOf, s, a
<1> QED
  BY <1>6, <1>7, <1>8, <1>9, <1>10 DEF ClientInv, PageInv

LEMMA DisconnectKeeps ==
  ASSUME TypeInv, NEW c \in Clients, ClientInv(c), Disconnect(c)
  PROVE  ClientInv(c)'
<1>1. UNCHANGED <<score, gifts, silent, view, screen>>
  BY DEF Disconnect
<1>2. /\ up'[c] = FALSE /\ member'[c] = {} /\ request'[c] = <<>> /\ joins'[c] = {} /\ inbox'[c] = <<>>
      /\ page'[c] = page[c]
  BY <1>1 DEF Disconnect, TypeInv, ServerTypes, MailTypes, LineTypes, screen
<1>3. /\ Arriving(c)' = {} /\ NoAnswer(c)' /\ OneAnswer(c)' /\ Boards(c)' = {}
  BY <1>2, NothingThere
<1>4. JoinInv(c)'
  BY <1>2, <1>3 DEF JoinInv, Away, Handled
<1>5. ASSUME page[c] # None PROVE PageInv(c)'
  <2>1. Ordered(c) /\ Honest(c) /\ Modest(c)
    BY <1>5 DEF ClientInv, PageInv
  <2>2. Stream(c)' \subseteq Stream(c)
    BY <1>1, <1>3 DEF Stream, screen
  <2>3. Ordered(c)'
    BY <1>1, <1>2, <1>3, <2>1, EmptyRange DEF Ordered, screen
  <2>4. Honest(c)'
    BY <1>1, <2>1, <2>2 DEF Honest, screen
  <2>5. ~Due(c)'
    BY <1>2, <1>3 DEF Due
  <2>6. Modest(c)'
    BY <1>1, <1>3, <2>1, <2>2, <2>5 DEF Modest, ModestOf, screen
  <2>7. Complete(c)' /\ Current(c)' /\ Fresh(c)'
    BY <1>2, <1>3 DEF Complete, Current, Fresh
  <2> QED
    BY <2>3, <2>4, <2>6, <2>7 DEF PageInv
<1> QED
  BY <1>2, <1>4, <1>5 DEF ClientInv, PageInv

LEMMA ReconnectKeeps ==
  ASSUME TypeInv, NEW c \in Clients, ClientInv(c), Reconnect(c)
  PROVE  ClientInv(c)'
<1> DEFINE m == [kind |-> "join", room |-> page[c], visit |-> visit[c] + 1]
<1>1. /\ ~up[c] /\ (page[c] # None => pending[c] = <<>>)
      /\ UNCHANGED <<server, joins, inbox, view, page, shown, shownGifts, error, pending, podium,
                     announced, applied>>
  BY DEF Reconnect
<1>2. joins[c] = {} /\ inbox[c] = <<>> /\ member[c] = {}
  BY <1>1 DEF ClientInv, JoinInv
<1>3. /\ joins'[c] = {} /\ inbox'[c] = <<>> /\ member'[c] = {} /\ pending'[c] = pending[c]
      /\ page'[c] = page[c]
  BY <1>1, <1>2 DEF server
<1>4. NoAnswer(c)' /\ OneAnswer(c)' /\ Boards(c)' = {}
  BY <1>3, NothingThere
<1>5. CASE page[c] = None
  <2>1. request' = request
    BY <1>5 DEF Reconnect
  <2>2. Away(c)'
    BY <1>2, <1>3, <1>5, <2>1 DEF ClientInv, JoinInv, Away
  <2> QED
    BY <1>3, <1>5, <2>2, <1>1, <1>2 DEF ClientInv, JoinInv, PageInv
<1>6. CASE page[c] # None
  <2>1. request[c] = <<>>
    BY <1>1, <1>6 DEF ClientInv, JoinInv
  <2>2. request'[c] = <<m>> /\ joined'[c] = FALSE /\ up'[c] = TRUE
    BY <1>6, <2>1 DEF Reconnect, Joining, TypeInv, MailTypes, PageTypes, LineTypes
  <2>3. m \in Requests /\ m.kind = "join" /\ m.room = page[c]
    BY <1>6 DEF Requests, TypeInv, LineTypes, PageTypes
  <2> HIDE DEF m
  <2>4. Asking(c)'
    BY <1>3, <1>4, <2>2, <2>3 DEF Asking
  <2>5. JoinInv(c)'
    BY <1>3, <1>6, <2>2, <2>4 DEF JoinInv
  <2>6. Stream(c) = {} /\ Stream(c)' = {} /\ Ordered(c)'
    BY <1>1, <1>2, <1>3, <1>6, NothingThere
  <2>7. Honest(c)' /\ Complete(c)' /\ Current(c)' /\ Fresh(c)'
    BY <1>4, <2>2, <2>6 DEF Honest, Complete, Current, Fresh
  <2>8. Modest(c)'
    <3>1. Modest(c)
      BY <1>6 DEF ClientInv, PageInv
    <3> QED
      BY <1>1, <1>4, <2>6, <3>1 DEF Modest, ModestOf, server
  <2> QED
    BY <2>5, <2>6, <2>7, <2>8 DEF ClientInv, PageInv
<1> QED
  BY <1>5, <1>6

-----------------------------------------------------------------------------
(* The specification.                                                       *)

LEMMA FeedInvInit == Init => FeedInv
<1> SUFFICES ASSUME Init PROVE FeedInv
  OBVIOUS
<1>1. TypeInv
  BY TypeInvInit
<1>2. ASSUME NEW c \in Clients PROVE ClientInv(c)
  <2>1. /\ page[c] = None /\ joins[c] = {} /\ request[c] = <<>> /\ member[c] = {} /\ up[c]
    BY <1>2 DEF Init
  <2> QED
    BY <2>1 DEF ClientInv, JoinInv, PageInv, Away
<1> QED
  BY <1>1, <1>2 DEF FeedInv

(* A step of one browser does nothing to another.                           *)
LEMMA OthersUnmoved ==
  ASSUME TypeInv, NEW c \in Clients, NEW d \in Clients, d # c,
         Serve(c) \/ Show(c) \/ Roam(c) \/ Render(c) \/ \E j \in joins[c] : JoinFails(c, j)
  PROVE  Unmoved(d) /\ SameRoom(d)
<1> USE DEF TypeInv, ServerTypes, MailTypes, PageTypes, LineTypes, Unmoved, SameRoom, server, wire, screen
<1>1. CASE StartHandler(c)
  BY <1>1 DEF StartHandler
<1>2. ASSUME NEW j \in joins[c], EnterRoom(c, j) \/ ReadSnapshot(c, j) PROVE Unmoved(d) /\ SameRoom(d)
  BY <1>2 DEF EnterRoom, ReadSnapshot, Replace
<1>3. ASSUME NEW j \in joins[c], AnswerJoin(c, j) \/ JoinFails(c, j) PROVE Unmoved(d) /\ SameRoom(d)
  BY <1>3, SMTT(30) DEF AnswerJoin, JoinFails, Answer
<1>4. CASE Receive(c)
  BY <1>4 DEF Receive, Collect, SetBoard, SetError
<1>5. CASE Flush(c)
  BY <1>5 DEF Flush
<1>6. CASE Reconnect(c)
  BY <1>6 DEF Reconnect, Joining
<1>7. ASSUME NEW r \in Rooms, Open(c, r) PROVE Unmoved(d) /\ SameRoom(d)
  BY <1>7 DEF Open, Joining, Blank
<1>8. CASE Close(c)
  BY <1>8 DEF Close
<1>9. CASE Disconnect(c)
  BY <1>9 DEF Disconnect
<1>10. CASE Render(c)
  BY <1>10 DEF Render
<1> QED
  BY <1>1, <1>2, <1>3, <1>4, <1>5, <1>6, <1>7, <1>8, <1>9, <1>10, Zenon DEF Serve, Show, Roam

LEMMA FeedInvStep == FeedInv /\ [Next /\ \A c \in Clients : Lucky(c)]_vars => FeedInv'
<1> SUFFICES ASSUME FeedInv, [Next /\ \A c \in Clients : Lucky(c)]_vars PROVE FeedInv'
  OBVIOUS
<1>1. TypeInv /\ \A d \in Clients : ClientInv(d)
  BY DEF FeedInv
<1>2. TypeInv'
  BY <1>1, TypeInvStep
<1>3. ASSUME NEW r \in Rooms, NEW g \in Guests, Gift(r, g) \/ GiftFails(r, g), NEW d \in Clients
      PROVE  ClientInv(d)'
  BY <1>3, GiftKeeps
<1>4. ASSUME NEW c \in Clients, Lucky(c),
             Serve(c) \/ Show(c) \/ Roam(c) \/ Render(c) \/ \E j \in joins[c] : JoinFails(c, j)
      PROVE  ClientInv(c)'
  <2>1. CASE Serve(c)
    <3>1. CASE StartHandler(c)
      BY <1>1, <3>1, StartHandlerKeeps
    <3>2. ASSUME NEW j \in joins[c], EnterRoom(c, j) PROVE ClientInv(c)'
      BY <1>1, <3>2, EnterRoomKeeps
    <3>3. ASSUME NEW j \in joins[c], ReadSnapshot(c, j) PROVE ClientInv(c)'
      BY <1>1, <3>3, ReadSnapshotKeeps
    <3>4. ASSUME NEW j \in joins[c], AnswerJoin(c, j) PROVE ClientInv(c)'
      BY <1>1, <3>4, AnswerKeeps DEF AnswerJoin
    <3> QED
      BY <2>1, <3>1, <3>2, <3>3, <3>4 DEF Serve
  <2>2. CASE \E j \in joins[c] : JoinFails(c, j)
    BY <1>1, <2>2, AnswerKeeps DEF JoinFails
  <2>3. CASE Receive(c)
    BY <1>1, <1>4, <2>3, ReceiveKeeps DEF Lucky
  <2>4. CASE Flush(c)
    <3>1. page[c] # None /\ page'[c] # None
      BY <2>4 DEF Flush
    <3> QED
      BY <1>1, <1>4, <2>4, <3>1, FlushKeeps DEF Lucky
  <2>5. CASE Reconnect(c)
    BY <1>1, <2>5, ReconnectKeeps
  <2>6. ASSUME NEW r \in Rooms, Open(c, r) PROVE ClientInv(c)'
    <3>1. page[c] = None /\ page'[c] # None
      BY <1>1, <2>6, BoundAssumption DEF Open, TypeInv, PageTypes
    <3> QED
      BY <1>1, <1>4, <2>6, <3>1, OpenKeeps DEF Lucky
  <2>7. CASE Close(c)
    <3>1. page[c] # None /\ page'[c] = None
      BY <1>1, <2>7 DEF Close, TypeInv, PageTypes
    <3> QED
      BY <1>1, <1>4, <2>7, <3>1, CloseKeeps DEF Lucky
  <2>8. CASE Disconnect(c)
    BY <1>1, <2>8, DisconnectKeeps
  <2>9. CASE Render(c)
    BY <1>1, <2>9, RenderKeeps
  <2> QED
    BY <1>4, <2>1, <2>2, <2>3, <2>4, <2>5, <2>6, <2>7, <2>8, <2>9 DEF Show, Roam
<1>5. ASSUME NEW c \in Clients, NEW d \in Clients, d # c,
             Serve(c) \/ Show(c) \/ Roam(c) \/ Render(c) \/ \E j \in joins[c] : JoinFails(c, j)
      PROVE  ClientInv(d)'
  <2>1. Unmoved(d) /\ SameRoom(d)
    BY <1>1, <1>5, OthersUnmoved
  <2> QED
    BY <1>1, <2>1, Unaffected
<1>6. CASE UNCHANGED vars
  <2>1. \A d \in Clients : Unmoved(d) /\ SameRoom(d)
    BY <1>6 DEF vars, server, wire, screen, Unmoved, SameRoom
  <2> QED
    BY <1>1, <1>2, <2>1, Unaffected DEF FeedInv
<1> QED
  BY <1>2, <1>3, <1>4, <1>5, <1>6 DEF FeedInv, Next

(* Every variable keeps its type, whatever a browser and its user do.       *)
THEOREM FeedTypes == Spec => []TypeOK
<1>1. Spec => []TypeInv
  BY TypeInvInit, TypeInvStep, PTL DEF Spec
<1> QED
  BY <1>1, TypesMean, PTL

LEMMA FeedInvariant == SteadySpec => []FeedInv
BY FeedInvInit, FeedInvStep, PTL DEF SteadySpec

(* The display announces no naira that were not sprayed: of every guest no  *)
(* more than the guest's score (LeaderboardDisplay).                        *)
THEOREM FeedNothingInvented == SteadySpec => []NothingInvented
<1>1. FeedInv => NothingInvented
  BY DEF FeedInv, ClientInv, PageInv, Modest, ModestOf, NothingInvented
<1> QED
  BY <1>1, FeedInvariant, PTL

(* A page that has nothing left to receive or to apply shows the server's   *)
(* board (useGiftRoom, useLeaderBoardDisplay).                              *)
THEOREM FeedSettles == SteadySpec => []SettledBoardIsRight
<1>1. FeedInv => SettledBoardIsRight
  <2> SUFFICES ASSUME FeedInv, NEW c \in Clients, up[c], page[c] # None, joined[c], Quiet(c), pending[c] = <<>>
               PROVE  Right(c)
    BY DEF SettledBoardIsRight
  <2>1. Current(c)
    BY DEF FeedInv, ClientInv, PageInv
  <2>2. Stream(c) = {}
    BY NothingThere DEF Quiet
  <2> QED
    BY <2>1, <2>2 DEF Current, Right, Fine
<1> QED
  BY <1>1, FeedInvariant, PTL
=============================================================================
