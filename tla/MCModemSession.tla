--------------------------- MODULE MCModemSession ---------------------------
(***************************************************************************)
(* Instances of ModemSession for TLC.                                      *)
(***************************************************************************)
EXTENDS ModemSession, TLC

CONSTANTS m1, m2, s1, s2, c1, c2

(* The places of the SIM card and the messages are interchangeable. *)
Interchangeable == Permutations({m1, m2}) \cup Permutations({s1, s2})
=============================================================================
