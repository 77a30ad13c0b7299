------------------------------ MODULE PduCodec ------------------------------
(***************************************************************************)
(* How sms.cpp reads an SMS-DELIVER PDU: hexToBytes, the decoders of semi- *)
(* octets, time stamps, the GSM 7-bit alphabet and UCS2, and the fields    *)
(* the constructor of SMS cuts out.  A hex digit is a number below 16, an  *)
(* octet one below 256, a septet one below 128, a code unit one below      *)
(* 65536.  What SmsRelay calls a PDU is the result of Parsed.              *)
(***************************************************************************)
EXTENDS Integers, Sequences, SequencesExt

(* An odd digit at the end is an octet of its own. *)
HexToBytes(hex) ==
  [i \in 1 .. (Len(hex) + 1) \div 2 |->
     IF 2 * i <= Len(hex) THEN 16 * hex[2 * i - 1] + hex[2 * i] ELSE hex[2 * i - 1]]

Pairs(hex) == [k \in 1 .. Len(hex) \div 2 |-> <<hex[2 * k - 1], hex[2 * k]>>]

(* Mutant of DecodeSemiOctet: the fill digit F is kept. *)
DecodeSemiOctetWithFill(hex, digits) ==
  LET pairs == Pairs(hex)
      result == FlattenSeq([k \in DOMAIN pairs |-> <<pairs[k][2], pairs[k][1]>>])
  IN  SubSeq(result, 1, IF Len(result) > digits THEN digits + 1 ELSE Len(result))

(* The digits of each octet are swapped, a fill digit F is dropped. *)
DecodeSemiOctet(hex, digits) ==
  LET pairs == Pairs(hex)
      result == FlattenSeq([k \in DOMAIN pairs |->
                  IF pairs[k][1] = 15 THEN <<pairs[k][2]>>
                                      ELSE <<pairs[k][2], pairs[k][1]>>])
  IN  SubSeq(result, 1, IF Len(result) > digits THEN digits ELSE Len(result))

(* '/', ',' and ':', written as numbers that no digit has *)
Separator(i) ==
  CASE i \in {3, 5}  -> <<16>>
    [] i = 7         -> <<17>>
    [] i \in {9, 11} -> <<18>>
    [] OTHER         -> <<>>

(* The loop counts by two from 0, so no separator is ever added. *)
DecodeTimestamp(hex) ==
  LET pairs == Pairs(hex)
  IN  FlattenSeq([k \in DOMAIN pairs |->
        <<pairs[k][2], pairs[k][1]>> \o Separator(2 * (k - 1))])

(* Mutant of Septet: the next octet is left out one offset too long. *)
SeptetCut(data, i) ==
  LET byteIndex == (i * 7) \div 8
      bitOffset == (i * 7) % 8
      val == (data[byteIndex + 1] \div 2 ^ bitOffset) % 128
  IN  IF bitOffset > 2 /\ byteIndex + 1 < Len(data)
      THEN val + ((data[byteIndex + 2] * 2 ^ (8 - bitOffset)) % 128)
      ELSE val

(* The i-th septet of packed data: the bits it has in one octet, and those
   in the next. *)
Septet(data, i) ==
  LET byteIndex == (i * 7) \div 8
      bitOffset == (i * 7) % 8
      val == (data[byteIndex + 1] \div 2 ^ bitOffset) % 128
  IN  IF bitOffset > 1 /\ byteIndex + 1 < Len(data)
      THEN val + ((data[byteIndex + 2] * 2 ^ (8 - bitOffset)) % 128)
      ELSE val

(* skip is the size of the header in octets; the decoder takes it for a
   number of septets. *)
DecodeGSM7(data, skip, septetCount) ==
  [k \in 1 .. septetCount - skip |-> Septet(data, skip + k - 1)]

(* Mutant of Utf8: one bit too few for two octets. *)
Utf8TooShort(ch) ==
  IF ch < 256 THEN <<ch>>
  ELSE IF ch < 2048 THEN <<192 + ch \div 64, 128 + (ch % 64)>>
  ELSE <<224 + ch \div 4096, 128 + ((ch \div 64) % 64), 128 + (ch % 64)>>

(* A code unit as UTF-8, each half of a surrogate pair by itself *)
Utf8(ch) ==
  IF ch < 128 THEN <<ch>>
  ELSE IF ch < 2048 THEN <<192 + ch \div 64, 128 + (ch % 64)>>
  ELSE <<224 + ch \div 4096, 128 + ((ch \div 64) % 64), 128 + (ch % 64)>>

(* An odd octet at the end is dropped. *)
DecodeUCS2(data, skip) ==
  FlattenSeq([k \in 1 .. (Len(data) - skip) \div 2 |->
    Utf8(256 * data[skip + 2 * k - 1] + data[skip + 2 * k])])

-----------------------------------------------------------------------------
(* The constructor SMS(pdu); idx counts from 0 as in the code. *)

OctetAt(pdu, idx) == 16 * pdu[idx + 1] + pdu[idx + 2]

Substr(pdu, idx, size) == SubSeq(pdu, idx + 1, idx + size)

(* Semi-octets come in pairs. *)
SenderOctets(senderLen) == ((senderLen + 1) \div 2) * 2

(* The concatenation header: IEDL 3 with an 8-bit reference, 4 with 16 bits *)
Reference(ud) == IF ud[3] = 3 THEN ud[4] ELSE 256 * ud[4] + ud[5]
Count(ud) == ud[ud[3] + 2]
Number(ud) == ud[ud[3] + 3]

Content(ud, skip, dcs, udl) ==
  IF (dcs \div 4) % 4 = 2 THEN DecodeUCS2(ud, skip) ELSE DecodeGSM7(ud, skip, udl)

(* The fields of a PDU that the constructor accepts *)
Parsed(pdu) ==
  LET smscLen   == OctetAt(pdu, 0)
      first     == 2 + 2 * smscLen
      udhi      == (OctetAt(pdu, first) \div 64) % 2 = 1
      senderLen == OctetAt(pdu, first + 2)
      pid       == first + 6 + SenderOctets(senderLen)
      dcs       == OctetAt(pdu, pid + 2)
      udl       == OctetAt(pdu, pid + 18)
      ud        == HexToBytes(SubSeq(pdu, pid + 21, Len(pdu)))
      skip      == IF udhi THEN ud[1] + 1 ELSE 0
  IN  [ smsc      |-> IF smscLen > 0
                      THEN DecodeSemiOctet(Substr(pdu, 4, 2 * smscLen - 2),
                                           2 * (smscLen - 1))
                      ELSE <<>>,
        sender    |-> DecodeSemiOctet(Substr(pdu, first + 6, SenderOctets(senderLen)),
                                      senderLen),
        timestamp |-> DecodeTimestamp(Substr(pdu, pid + 4, 14)),
        segment   |-> IF udhi THEN <<Reference(ud), Count(ud), Number(ud)>> ELSE <<>>,
        content   |-> Content(ud, skip, dcs, udl) ]
=============================================================================
