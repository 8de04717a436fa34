------------------------------ MODULE MCSegment ------------------------------
(* A daemon that attaches twice to a segment of three slots, one of them named
   by a client's defaults; beside it a manager with either a second
   manager or the page server: who stays idle is chosen at the start.          *)
EXTENDS Segment, TLC

CONSTANTS m1, m2, daemon, page, soc, health, avc, blank, unused

VARIABLE cast

MCRegistry == <<soc, health, avc>>
MCDefaultIds == <<soc>>

Plays ==
  {<<"linux", {m1, m2}>>, <<"linux", {page}>>, <<"windows", {m1, m2}>>, <<"windows", {m1, page}>>,
   <<"split", {m1, page}>>}

CastStep ==
  \/ \E m \in Managers \cap cast : ManagerSteps(m)
  \/ \E c \in Clients : ClientSteps(c)
  \/ page \in cast /\ PageSteps

CastInit == Init /\ cast \in {p[2] : p \in Plays} /\ <<world, cast>> \in Plays

CastSpec == CastInit /\ [][CastStep /\ UNCHANGED cast]_<<vars, cast>>
=============================================================================
