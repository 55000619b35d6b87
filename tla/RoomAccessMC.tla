------------------------- MODULE RoomAccessMC -------------------------
(* Two tabs, of one guest or of two, at events whose hosts rest; and one    *)
(* tab at an event whose host makes up to four calls.                       *)
EXTENDS RoomAccess, TLC

CONSTANTS ada, bola, tab1, tab2, wedding, party, gala, c1, c2, c3, c4

OneGuest == tab1 :> ada @@ tab2 :> ada
TwoGuests == tab1 :> ada @@ tab2 :> bola
OneOrTwo == {OneGuest, TwoGuests}

Join(e) == [kind |-> "join", event |-> e, role |-> "guest"]
Watch(e) == [kind |-> "join", event |-> e, role |-> "display"]
Leave(e) == [kind |-> "leave", event |-> e, role |-> "guest"]

(* A page left, left and opened again, or left for another room; or a       *)
(* display.                                                                 *)
ComeAndGo == <<Join(wedding), Leave(wedding)>>
Return == <<Join(wedding), Leave(wedding), Join(wedding)>>
MoveOn == <<Join(wedding), Leave(wedding), Join(party)>>
Pages(first) == tab1 :> first @@ tab2 :> {<<Join(wedding)>>}
OneTab == tab1 :> {<<Join(gala)>>} @@ tab2 :> {<<>>}
AllVisits == [t \in {tab1, tab2} |-> {Return, MoveOn, ComeAndGo, <<Watch(wedding)>>,
                                      <<Join(wedding)>>, <<Join(gala)>>, <<>>}]

Plan(a, b, c, d) == c1 :> a @@ c2 :> b @@ c3 :> c @@ c4 :> d
HostRests == Plan("none", "none", "none", "none")
HostPlans ==
  {Plan("create", "activate", p[1], p[2]) :
     p \in {<<"activate", "end">>, <<"end", "update">>}}

Scene(who, pages, plan) ==
  [owner |-> who, scripts |-> pages, ops |-> plan, status |-> Missing]
Scenes ==
  {Scene(OneGuest, Pages({Return, MoveOn, <<Watch(wedding)>>}), HostRests),
   Scene(TwoGuests, Pages({ComeAndGo, <<Watch(wedding)>>}), HostRests)}
    \cup {Scene(TwoGuests, OneTab, p) : p \in HostPlans}
=============================================================================
