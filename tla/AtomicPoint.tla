---------------------------- MODULE AtomicPoint ----------------------------
(***************************************************************************)
(* What a data point promises its readers: a write replaces value, quality *)
(* and timestamp together at one instant, and a successful read returns    *)
(* the three as they are at one instant.  DataPoint with a single writer   *)
(* implements this module.                                                 *)
(***************************************************************************)
CONSTANTS
  Readers,
  Contents,  \* the whole contents a point can have
  Initial    \* the contents initialize_shared_memory_segment leaves

VARIABLES
  stable,    \* the contents of the point
  got        \* got[r] is what the last successful read of r returned

vars == <<stable, got>>

Init ==
  /\ stable = Initial
  /\ got = [r \in Readers |-> Initial]

Write(c) ==
  /\ stable' = c
  /\ UNCHANGED got

Read(r) ==
  /\ got' = [got EXCEPT ![r] = stable]
  /\ UNCHANGED stable

Next == (\E c \in Contents : Write(c)) \/ (\E r \in Readers : Read(r))

Spec == Init /\ [][Next]_vars
=============================================================================
