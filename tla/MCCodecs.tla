------------------------------ MODULE MCCodecs ------------------------------
(***************************************************************************)
(* The functions of PduCodec, PipeMessage and MailText over bounded        *)
(* inputs: a behaviour picks one input, and the properties compare what    *)
(* the code makes of it with a reference definition.                       *)
(***************************************************************************)
EXTENDS PduCodec, MailText

P == INSTANCE PipeMessage

VARIABLE sample

Nothing == [kind |-> "nothing"]

-----------------------------------------------------------------------------
(* A reference encoder for SMS-DELIVER *)

(* A digit string as semi-octets *)
SemiOctets(digits) ==
  LET padded == IF Len(digits) % 2 = 1 THEN digits \o <<15>> ELSE digits
  IN  FlattenSeq([k \in 1 .. Len(padded) \div 2 |->
                    <<padded[2 * k], padded[2 * k - 1]>>])

Hex(octet) == <<octet \div 16, octet % 16>>

HexOf(octets) == FlattenSeq([i \in DOMAIN octets |-> Hex(octets[i])])

Bit(number, i) == (number \div 2 ^ i) % 2

(* Eight bits to an octet, the lowest first *)
OctetsOf(bits) ==
  LET at(i) == IF i <= Len(bits) THEN bits[i] ELSE 0
  IN  [o \in 1 .. (Len(bits) + 7) \div 8 |->
         at(8*o-7) + 2*at(8*o-6) + 4*at(8*o-5) + 8*at(8*o-4)
         + 16*at(8*o-3) + 32*at(8*o-2) + 64*at(8*o-1) + 128*at(8*o)]

BitsOf(numbers, width) ==
  FlattenSeq([i \in DOMAIN numbers |->
                [k \in 1 .. width |-> Bit(numbers[i], k - 1)]])

(* The header, fill bits up to the next septet, the text *)
Packed(header, septets) ==
  LET fill == [i \in 1 .. (7 - ((8 * Len(header)) % 7)) % 7 |-> 0]
  IN  OctetsOf(BitsOf(header, 8) \o fill \o BitsOf(septets, 7))

HeaderSeptets(header) == (8 * Len(header) + 6) \div 7

Header(s) ==
  CASE s.reference = "none"  -> <<>>
    [] s.reference = "short" -> <<5, 0, 3, 77, 3, s.number>>
    [] s.reference = "long"  -> <<6, 8, 4, 1, 77, 3, s.number>>

UserData(s) ==
  IF s.ucs2
  THEN Header(s) \o FlattenSeq([i \in DOMAIN s.text |->
                                  <<s.text[i] \div 256, s.text[i] % 256>>])
  ELSE Packed(Header(s), s.text)

UserDataLength(s) ==
  IF s.ucs2 THEN Len(UserData(s)) ELSE HeaderSeptets(Header(s)) + Len(s.text)

Timestamp == <<2, 5, 1, 2, 3, 1, 2, 3, 5, 9, 0, 8, 3, 2>>

Encoded(s) ==
  (IF s.smsc = <<>> THEN <<0, 0>>
   ELSE Hex(1 + (Len(s.smsc) + 1) \div 2) \o <<9, 1>> \o SemiOctets(s.smsc))
  \o Hex(IF s.reference = "none" THEN 4 ELSE 68)
  \o Hex(Len(s.sender)) \o <<9, 1>> \o SemiOctets(s.sender)
  \o <<0, 0>> \o Hex(IF s.ucs2 THEN 8 ELSE 0)
  \o SemiOctets(Timestamp)
  \o Hex(UserDataLength(s)) \o HexOf(UserData(s))

-----------------------------------------------------------------------------
Upto(S, n) == UNION {[1 .. k -> S] : k \in 0 .. n}

(* Both ends of each form of UTF-8 and a surrogate pair; septets that are
   ASCII and such that are not, the longer texts with every bit offset *)
Texts(ucs2) ==
  IF ucs2 THEN Upto({65, 127, 128, 2047, 2048, 55357, 56832, 65535}, 3)
          ELSE Upto({0, 42, 127}, 4) \cup {[i \in 1 .. 17 |-> (37 * i) % 128],
                                          [i \in 1 .. 17 |-> 97 + ((5 * i) % 26)]}

PduSamples ==
  UNION {[ kind : {"pdu"}, smsc : {<<>>, <<4, 4, 7>>, <<4, 9, 1, 7>>},
           sender : {<<1, 2, 3>>, <<4, 9, 1, 5>>},
           reference : {"none", "short", "long"}, number : {1, 3, 254},
           ucs2 : {ucs2}, text : Texts(ucs2) ] : ucs2 \in BOOLEAN}

Messages ==
  {m \in [type : P!Digits, text : Upto(P!Characters, 2),
          expected : {<<>>} \cup {<<e>> : e \in Upto(P!Characters, 2)}] :
     m.type = "2" => m.expected = <<>>}

PrintSamples == {[kind |-> "message", first |-> m] : m \in Messages}

PairSamples ==
  [ kind : {"pair"}, first : Messages,
    second : {P!Message("1", <<"A">>, <<>>), P!Message("2", <<"A", ";">>, <<>>)} ]

MailSamples ==
  [ kind : {"mail"}, text : Upto({"x", "CR", "LF"}, 4),
    buffers : Upto({1, 2, 3}, 4) ]

Init == sample = Nothing

Pick(S) == sample = Nothing /\ sample' \in S

Next ==
  \/ Pick(PduSamples)
  \/ Pick(PrintSamples)
  \/ Pick(PairSamples)
  \/ Pick(MailSamples)

Spec == Init /\ [][Next]_sample

-----------------------------------------------------------------------------
(* Properties *)

(* The default alphabet of GSM (3GPP TS 23.038) in Unicode; an escape is the
   space that a receiver shows for it. *)
Gsm(septet) ==
  CASE septet < 32         -> <<64, 163, 36, 165, 232, 233, 249, 236, 242, 199, 10,
                                216, 248, 13, 197, 229, 916, 95, 934, 915, 923, 937,
                                928, 936, 931, 920, 926, 32, 198, 230, 223, 201>>[septet + 1]
    [] septet = 36         -> 164
    [] septet = 64         -> 161
    [] septet \in 91 .. 96 -> <<196, 214, 209, 220, 167, 191>>[septet - 90]
    [] septet > 122        -> <<228, 246, 241, 252, 224>>[septet - 122]
    [] OTHER               -> septet

HighHalves == 55296 .. 56319
LowHalves == 56320 .. 57343

(* The character that a surrogate pair stands for, in UTF-8 *)
PairSent(high, low) ==
  LET point == 65536 + 1024 * (high - 55296) + low - 56320
  IN  <<240 + point \div 262144, 128 + ((point \div 4096) % 64),
        128 + ((point \div 64) % 64), 128 + (point % 64)>>

(* The replacement character, for half a pair *)
Replacement == <<239, 191, 189>>

(* The i-th code unit of a text in UTF-8, a pair at its high half *)
UnitSent(text, i) ==
  LET next == IF i < Len(text) THEN text[i + 1] ELSE 0
      previous == IF i > 1 THEN text[i - 1] ELSE 0
  IN  CASE text[i] \in HighHalves /\ next \in LowHalves       -> PairSent(text[i], next)
        [] text[i] \in LowHalves /\ previous \in HighHalves   -> <<>>
        [] text[i] \in HighHalves /\ next \notin LowHalves    -> Replacement
        [] text[i] \in LowHalves /\ previous \notin HighHalves -> Replacement
        [] OTHER                                              -> Utf8(text[i])

(* The text that the sender wrote, in the UTF-8 that the mail is declared to
   be in *)
Sent(s) ==
  FlattenSeq([i \in DOMAIN s.text |->
                IF s.ucs2 THEN UnitSent(s.text, i) ELSE Utf8(Gsm(s.text[i]))])

(* What decodeTimestamp writes, without its separators *)
DigitsOf(chars) ==
  FlattenSeq([i \in DOMAIN chars |-> IF chars[i] < 16 THEN <<chars[i]>> ELSE <<>>])

(* Addresses and the reference, count and number of a segment come out of
   the PDU as they went in, whatever the parity of the numbers before them;
   the time stamp does so digit by digit. *)
FieldsAreRead ==
  sample.kind = "pdu" =>
    LET sms == Parsed(Encoded(sample))
    IN  /\ sms.smsc = sample.smsc
        /\ sms.sender = sample.sender
        /\ DigitsOf(sms.timestamp) = Timestamp
        /\ sms.segment = CASE sample.reference = "none"  -> <<>>
                           [] sample.reference = "short" -> <<77, 3, sample.number>>
                           [] sample.reference = "long"  -> <<333, 3, sample.number>>

(* The texts that the decoders of sms.cpp can hand on *)
Readable(s) ==
  \/ s.ucs2 /\ \A i \in DOMAIN s.text : s.text[i] \notin HighHalves \cup LowHalves
  \/ ~ s.ucs2 /\ s.reference = "none" /\ \A i \in DOMAIN s.text : Gsm(s.text[i]) = s.text[i]

(* The SMS whose text is mailed as it was sent are exactly those in UCS2
   without surrogates and those of one part in septets that ASCII and GSM have
   in common: decodeGSM7 has no table of the alphabet and takes the end of a
   header for a character (sms.cpp:35-51), decodeUCS2 knows no pairs. *)
TextIsRead ==
  sample.kind = "pdu" =>
    (Parsed(Encoded(sample)).content = Sent(sample) <=> Readable(sample))

(* The code unit that some UTF-8 stands for, by the length of its form *)
CodeUnit(octets) ==
  CASE Len(octets) = 1 -> octets[1]
    [] Len(octets) = 2 -> 64 * (octets[1] - 192) + octets[2] - 128
    [] Len(octets) = 3 -> 4096 * (octets[1] - 224) + 64 * (octets[2] - 128)
                            + octets[3] - 128

(* The number of octets that UTF-8 needs for a code unit *)
Utf8Length(ch) == IF ch < 128 THEN 1 ELSE IF ch < 2048 THEN 2 ELSE 3

(* Each code unit is put into the shortest form of UTF-8 that holds it. *)
Utf8IsShortest ==
  (sample.kind = "pdu" /\ sample.ucs2) =>
    \A i \in DOMAIN sample.text :
      LET octets == Utf8(sample.text[i])
      IN  /\ CodeUnit(octets) = sample.text[i]
          /\ Len(octets) = Utf8Length(sample.text[i])

HasNone(chars, S) == \A i \in DOMAIN chars : chars[i] \notin S

(* A message that operator<< can pass on *)
Framable(m) ==
  /\ m.text # <<>> => m.text[1] \notin P!Digits
  /\ HasNone(m.text, {"NL"})
  /\ m.expected # <<>> => HasNone(m.expected[1], {"NL"})
  /\ m.type = "1" => HasNone(m.text, {";"})
  /\ m.type = "1" /\ m.text = <<>> => m.expected # <<>>

(* Exactly the messages without a newline, without a semicolon in the
   command and without a leading digit come back from parse as they were. *)
FramableIsParsed ==
  sample.kind = "message" =>
    (P!Parse(P!Printed(sample.first)) = {sample.first} <=> Framable(sample.first))

(* Lines in the FIFO are read one by one: the first is parsed as if it were
   alone, and the second is still there. *)
LinesAreSeparate ==
  (sample.kind = "pair" /\ Framable(sample.first)) =>
    LET chars == P!Printed(sample.first) \o <<"NL">>
                   \o P!Printed(sample.second) \o <<"NL">>
    IN  /\ P!Parse(chars) = {sample.first}
        /\ P!Parse(P!Remainder(chars)) = {sample.second}

(* A text without its carriage returns *)
Unreturned(text) ==
  FlattenSeq([i \in DOMAIN text |-> IF text[i] = "CR" THEN <<>> ELSE <<text[i]>>])

(* The line feeds of a text that follow no carriage return *)
BareLineFeeds(text) ==
  {i \in DOMAIN text : text[i] = "LF" /\ (i = 1 \/ text[i - 1] # "CR")}

(* Every line of a mail ends with CR LF, no CR is doubled, and nothing else
   is changed. *)
LinesEndWithCrLf ==
  sample.kind = "mail" =>
    LET text == Normalised(sample.text)
    IN  /\ BareLineFeeds(text) = {}
        /\ Normalised(text) = text
        /\ Unreturned(text) = Unreturned(sample.text)
        /\ Len(text) = Len(sample.text) + Cardinality(BareLineFeeds(sample.text))

(* Whatever buffers libcurl offers, it gets the mail from its beginning, each
   character once, then the string's NUL, and nothing from beyond it. *)
MailIsUploaded ==
  sample.kind = "mail" =>
    LET sum == FoldLeft(LAMBDA a, b : a + b, 0, sample.buffers)
        whole == sample.text \o <<"NUL">>
    IN  Uploaded(sample.text, sample.buffers).sent
          = SubSeq(whole, 1, IF sum < Len(whole) THEN sum ELSE Len(whole))
=============================================================================
