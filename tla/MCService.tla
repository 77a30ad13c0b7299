------------------------------ MODULE MCService ------------------------------
(***************************************************************************)
(* An instance of Service for TLC: a long SMS of two segments, one of them *)
(* delivered twice, and a segment of an older SMS with the same reference. *)
(***************************************************************************)
EXTENDS Service

CONSTANTS m1, m2, m3, m4, s1, c1, a1, a2, b3

Segment(count, number, body) ==
  [ udhi |-> TRUE, udSize |-> 20, udhl |-> 5, iei |-> 0, iedl |-> 3,
    ref |-> 7, count |-> count, number |-> number, dcs |-> 8, body |-> body ]

MCPdu ==
  [ m \in Messages |->
      CASE m \in {m1, m2} -> Segment(2, 1, a1)
        [] m = m3         -> Segment(2, 2, a2)
        [] m = m4         -> Segment(3, 3, b3) ]

MCPdus == {MCPdu[m] : m \in Messages}

MCBodies == {NoText, a1, a2, b3}
=============================================================================
