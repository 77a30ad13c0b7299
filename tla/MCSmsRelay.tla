----------------------------- MODULE MCSmsRelay -----------------------------
(***************************************************************************)
(* Instances of SmsRelay for TLC: the PDUs of a few short and long SMSs.   *)
(***************************************************************************)
EXTENDS SmsRelay

CONSTANTS a1, a2, b3, c1, c2, s1, z1, z2, x1, x2

(* A segment with an 8-bit reference: UDHL 5, IEI 0, IEDL 3. *)
Segment8(ref, count, number, body) ==
  [ udhi |-> TRUE, udSize |-> 20, udhl |-> 5, iei |-> 0, iedl |-> 3,
    ref |-> ref, count |-> count, number |-> number, dcs |-> 8, body |-> body ]

(* A segment with a 16-bit reference: UDHL 6, IEI 8, IEDL 4. *)
Segment16(ref, count, number, body) ==
  [ Segment8(ref, count, number, body) EXCEPT !.udhl = 6, !.iei = 8, !.iedl = 4 ]

Single(body) ==
  [ udhi |-> FALSE, udSize |-> 14, udhl |-> 0, iei |-> 0, iedl |-> 0,
    ref |-> 0, count |-> 0, number |-> 0, dcs |-> 0, body |-> body ]

MCBodies == {NoText, a1, a2, b3, c1, c2, s1, z1, z2, x1, x2}

(* A long SMS a with an 8-bit reference, c with a 16-bit one, a segment of
   another long SMS that reuses a's reference with another size, a short
   SMS, a port-addressed SMS (IEI 5) and a class of data coding the
   constructor does not know. *)
MixedPdus ==
  { Segment8(1, 2, 1, a1), Segment8(1, 2, 2, a2), Segment8(1, 3, 3, b3),
    Segment16(258, 2, 1, c1), Segment16(258, 2, 2, c2), Single(s1),
    [Segment8(3, 1, 1, x1) EXCEPT !.iei = 5],
    [Single(x2) EXCEPT !.dcs = 4] }

(* One short SMS and a long one *)
PlainPdus == {Single(s1), Segment8(1, 2, 1, a1), Segment8(1, 2, 2, a2)}

(* A long SMS with reference 0, which 8-bit references reach every 256. *)
ZeroRefPdus == {Segment8(0, 2, 1, z1), Segment8(0, 2, 2, z2)}

(* A long SMS one of whose segments has no text *)
EmptySegmentPdus ==
  {Segment8(1, 3, 1, NoText), Segment8(1, 3, 2, a1), Segment8(1, 3, 3, a2)}
=============================================================================
