---------------------------- MODULE MCDataPoint ----------------------------
(***************************************************************************)
(* DataPoint with processes and payloads as model values.  SerialSpec      *)
(* admits writers of both kinds, one inside a write at a time; counting a  *)
(* write that has been closed may overlap with anything.                   *)
(***************************************************************************)
EXTENDS DataPoint

CONSTANTS w1, w2, r1, r2, p1, p2

MCPayloads == {p1, p2}

(* No two writers are between the first and the last store to the point.   *)
OneInside == Cardinality({w \in Writers : wpc[w] \notin RestSteps}) <= 1

SerialWriterStep == (\E w \in Writers : WriterStep(w)) /\ OneInside'

(* A call that has begun ends: the calls never wait, and the loops of the  *)
(* runner, of the controllers and of the page never stop.                  *)
SerialSpec ==
  /\ Init
  /\ [][SerialWriterStep \/ \E r \in Readers : ReaderStep(r)]_vars
  /\ WF_vars(SerialWriterStep)
  /\ \A r \in Readers : WF_vars(ReaderStep(r))
=============================================================================
