-------------------------- MODULE MCCommandChannel --------------------------
(***************************************************************************)
(* Instances of CommandChannel for TLC.                                    *)
(***************************************************************************)
EXTENDS CommandChannel

CONSTANTS r1, r2, r3
=============================================================================
