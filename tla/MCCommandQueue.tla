--------------------------- MODULE MCCommandQueue ---------------------------
(* CommandQueue on a ring of three slots and two different commands.       *)
EXTENDS CommandQueue, TLC

CONSTANTS c1, c2

MCCommands == {c1, c2}
=============================================================================
