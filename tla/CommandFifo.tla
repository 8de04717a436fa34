---------------------------- MODULE CommandFifo ----------------------------
(***************************************************************************)
(* What the command queue of the shared-memory segment promises to the one *)
(* process that pushes and the one that pops: a bounded first-in first-out *)
(* queue.  A push or a pop takes effect at one instant; a pop hands over   *)
(* the oldest command, complete, exactly once.  CommandQueue implements    *)
(* this module.                                                            *)
(***************************************************************************)
EXTENDS Naturals, Sequences

CONSTANTS
  Commands,   \* the complete commands a caller can push
  Capacity,   \* how many commands the queue holds
  NoCommand   \* nothing has been popped yet

VARIABLES
  queue,      \* the commands pushed and not yet popped, oldest first
  received    \* the command the last successful pop returned

vars == <<queue, received>>

Init ==
  /\ queue = << >>
  /\ received = NoCommand

Push(c) ==
  /\ Len(queue) < Capacity
  /\ queue' = Append(queue, c)
  /\ UNCHANGED received

Pop ==
  /\ queue # << >>
  /\ received' = Head(queue)
  /\ queue' = Tail(queue)

Next == Pop \/ \E c \in Commands : Push(c)

Spec == Init /\ [][Next]_vars
=============================================================================
