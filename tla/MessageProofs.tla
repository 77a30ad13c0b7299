---------------------------- MODULE MessageProofs ----------------------------
(***************************************************************************)
(* Proofs about the messages of the command pipe, and about the line ends  *)
(* and the upload of a mail, for texts and buffers of any length.          *)
(***************************************************************************)
EXTENDS ConversionProofs

-----------------------------------------------------------------------------
(* Where a text is cut *)

(* Before and After cut at the first character of the set. *)
LEMMA Halves ==
  ASSUME NEW S, NEW chars \in Seq(S), NEW stop
  PROVE  \/ /\ \A i \in 1 .. Len(chars) : chars[i] \notin stop
            /\ P!Before(chars, stop) = chars /\ P!After(chars, stop) = <<>>
         \/ \E k \in 1 .. Len(chars) :
              /\ chars[k] \in stop /\ \A i \in 1 .. (k - 1) : chars[i] \notin stop
              /\ P!Before(chars, stop) = SubSeq(chars, 1, k - 1)
              /\ P!After(chars, stop) = SubSeq(chars, k + 1, Len(chars))
<1> DEFINE I == {i \in 1 .. Len(chars) : chars[i] \in stop}
           k == P!Min(I)
<1>0. Len(chars) \in Nat
  BY LenProperties
<1>1. P!SelectInSeq(chars, LAMBDA c : c \in stop) = IF I # {} THEN P!Min(I) ELSE 0
  BY Zenon DEF P!SelectInSeq
<1>2. CASE I = {}
  <2>1. P!Before(chars, stop) = chars /\ P!After(chars, stop) = <<>>
    BY <1>1, <1>2, Zenon DEF P!Before, P!After
  <2>2. QED
    BY <1>2, <2>1, Zenon
<1>3. CASE I # {}
  <2>1. I \in SUBSET Nat
    BY <1>0, SMT
  <2>2. k \in I /\ \A i \in I : k <= i
    BY <1>3, <2>1, LeastOf, Zenon
  <2>3. k \in 1 .. Len(chars) /\ chars[k] \in stop
    BY <2>2, Zenon
  <2>4. \A i \in 1 .. (k - 1) : chars[i] \notin stop
    <3> HIDE DEF k
    <3>1. \A i \in 1 .. (k - 1) : i \in 1 .. Len(chars) /\ ~ (k <= i)
      BY <1>0, <2>3, SMT
    <3>2. QED
      BY <2>2, <3>1, Zenon
  <2>5. k # 0
    <3> HIDE DEF k
    <3>1. QED
      BY <1>0, <2>3, SMT
  <2>6. /\ P!Before(chars, stop) = SubSeq(chars, 1, k - 1)
        /\ P!After(chars, stop) = SubSeq(chars, k + 1, Len(chars))
    BY <1>1, <1>3, <2>5, Zenon DEF P!Before, P!After, P!From
  <2>7. QED
    BY <2>3, <2>4, <2>6, Zenon
<1>4. QED
  BY <1>2, <1>3

LEMMA CutAt ==
  ASSUME NEW S, NEW prefix \in Seq(S), NEW rest \in Seq(S), NEW stop,
         \A i \in 1 .. Len(prefix) : prefix[i] \notin stop,
         rest = <<>> \/ rest[1] \in stop
  PROVE  /\ P!Before(prefix \o rest, stop) = prefix
         /\ P!After(prefix \o rest, stop) = IF rest = <<>> THEN <<>> ELSE Tail(rest)
<1> DEFINE chars == prefix \o rest
<1>1. /\ chars \in Seq(S) /\ Len(chars) = Len(prefix) + Len(rest)
      /\ \A i \in 1 .. Len(chars) :
           chars[i] = IF i <= Len(prefix) THEN prefix[i] ELSE rest[i - Len(prefix)]
      /\ Len(prefix) \in Nat /\ Len(rest) \in Nat
  BY ConcatProperties, LenProperties
<1>2. CASE rest = <<>>
  <2>1. chars = prefix
    BY <1>2, ConcatEmptySeq
  <2>2. QED
    BY <1>2, <2>1, Halves, Zenon
<1>3. CASE rest # <<>>
  <2> HIDE DEF chars
  <2>1. Len(rest) \in Nat \ {0}
    BY <1>3, EmptySeq
  <2>2. Len(prefix) + 1 \in 1 .. Len(chars) /\ chars[Len(prefix) + 1] = rest[1]
    BY <1>1, <2>1, SMTT(60)
  <2>3. chars[Len(prefix) + 1] \in stop
    BY <1>3, <2>2, Zenon
  <2>4. PICK k \in 1 .. Len(chars) :
          /\ chars[k] \in stop /\ \A i \in 1 .. (k - 1) : chars[i] \notin stop
          /\ P!Before(chars, stop) = SubSeq(chars, 1, k - 1)
          /\ P!After(chars, stop) = SubSeq(chars, k + 1, Len(chars))
    BY <1>1, <2>2, <2>3, Halves, Zenon
  <2>5. k = Len(prefix) + 1
    <3>1. ~ (k <= Len(prefix))
      BY <1>1, <2>4, SMT
    <3>2. ~ (Len(prefix) + 1 < k)
      BY <1>1, <2>2, <2>3, <2>4, SMT
    <3>3. QED
      BY <1>1, <3>1, <3>2, SMT
  <2>6. SubSeq(chars, 1, Len(prefix)) = prefix
    <3>1. \A i \in 1 .. Len(prefix) : chars[i] \in S
      BY <1>1, <2>2, ElementOfSeq, SMT
    <3>2. /\ SubSeq(chars, 1, Len(prefix)) \in Seq(S)
          /\ Len(SubSeq(chars, 1, Len(prefix))) = Len(prefix)
          /\ \A i \in 1 .. Len(prefix) : SubSeq(chars, 1, Len(prefix))[i] = chars[i]
      BY <1>1, <3>1, SubSeqProperties, SMT
    <3>3. \A i \in 1 .. Len(prefix) : SubSeq(chars, 1, Len(prefix))[i] = prefix[i]
      BY <1>1, <3>2, SMT
    <3>4. QED
      BY <3>2, <3>3, SeqEqual
  <2>7. SubSeq(chars, Len(prefix) + 2, Len(chars)) = Tail(rest)
    <3> DEFINE end == SubSeq(chars, Len(prefix) + 2, Len(chars))
    <3>1. \A i \in Len(prefix) + 2 .. Len(chars) : chars[i] \in S
      BY <1>1, ElementOfSeq, SMT
    <3>2. /\ end \in Seq(S) /\ Len(end) = Len(rest) - 1
          /\ \A i \in 1 .. Len(rest) - 1 : end[i] = chars[Len(prefix) + 1 + i]
      <4> DEFINE m == Len(prefix) + 2
                 n == Len(chars)
      <4>1. m \in Int /\ n \in Int /\ n - m + 1 = Len(rest) - 1
        BY <1>1, SMT
      <4>2. /\ SubSeq(chars, m, n) \in Seq(S)
            /\ Len(SubSeq(chars, m, n)) = IF m <= n THEN n - m + 1 ELSE 0
            /\ \A i \in 1 .. n - m + 1 : SubSeq(chars, m, n)[i] = chars[m + i - 1]
        <5>1. \A i \in m .. n : chars[i] \in S
          BY <3>1
        <5> HIDE DEF m, n
        <5>2. QED
          BY <4>1, <5>1, SubSeqProperties
      <4>3. Len(SubSeq(chars, m, n)) = Len(rest) - 1
        BY <1>1, <2>1, <4>1, <4>2, SMT
      <4>4. \A i \in 1 .. Len(rest) - 1 : m + i - 1 = Len(prefix) + 1 + i
        BY <1>1, SMT
      <4>5. QED
        BY <4>1, <4>2, <4>3, <4>4, Zenon
    <3>3. \A i \in 1 .. Len(rest) - 1 : chars[Len(prefix) + 1 + i] = rest[i + 1]
      BY <1>1, SMT
    <3>4. /\ Tail(rest) \in Seq(S) /\ Len(Tail(rest)) = Len(rest) - 1
          /\ \A i \in 1 .. Len(rest) - 1 : Tail(rest)[i] = rest[i + 1]
      BY <1>3, HeadTailProperties
    <3>5. \A i \in 1 .. Len(end) : end[i] = Tail(rest)[i]
      BY <3>2, <3>3, <3>4, SMT
    <3>6. end = Tail(rest)
      <4> HIDE DEF end
      <4>1. QED
        BY <3>2, <3>4, <3>5, SeqEqual
    <3>7. QED
      BY <3>6
  <2>8. k - 1 = Len(prefix) /\ k + 1 = Len(prefix) + 2
    BY <1>1, <2>5, SMT
  <2>9. QED
    BY <1>3, <2>4, <2>6, <2>7, <2>8, Zenon DEF chars
<1>4. QED
  BY <1>2, <1>3

LEMMA CutShort ==
  ASSUME NEW S, NEW prefix \in Seq(S), NEW rest \in Seq(S), NEW stop,
         NEW i \in 1 .. Len(prefix), prefix[i] \in stop
  PROVE  P!Before(prefix \o rest, stop) # prefix
<1> DEFINE chars == prefix \o rest
<1>1. /\ chars \in Seq(S) /\ Len(chars) = Len(prefix) + Len(rest)
      /\ \A j \in 1 .. Len(chars) :
           chars[j] = IF j <= Len(prefix) THEN prefix[j] ELSE rest[j - Len(prefix)]
      /\ Len(prefix) \in Nat /\ Len(rest) \in Nat
  BY ConcatProperties, LenProperties
<1> HIDE DEF chars
<1>2. i \in 1 .. Len(chars) /\ chars[i] \in stop
  BY <1>1, SMT
<1>3. PICK k \in 1 .. Len(chars) :
        /\ \A j \in 1 .. (k - 1) : chars[j] \notin stop
        /\ P!Before(chars, stop) = SubSeq(chars, 1, k - 1)
  BY <1>1, <1>2, Halves, Zenon
<1>4. k <= i
  BY <1>1, <1>2, <1>3, SMT
<1>5. Len(SubSeq(chars, 1, k - 1)) = k - 1
  <2>1. \A j \in 1 .. (k - 1) : chars[j] \in S
    BY <1>1, ElementOfSeq, SMT
  <2>2. QED
    BY <1>1, <2>1, SubSeqProperties, SMT
<1>6. k - 1 # Len(prefix)
  BY <1>1, <1>4, SMT
<1>7. QED
  BY <1>3, <1>5, <1>6, Zenon DEF chars

-----------------------------------------------------------------------------
(* The messages *)

AnyText == Seq(P!Characters)

(* Every message that operator<< can be given, but for the null message *)
AnyMessage ==
  {m \in [type : P!Digits, text : AnyText,
          expected : {<<>>} \cup {<<e>> : e \in AnyText}] :
     m.type = "2" => m.expected = <<>>}

(* The type is all of the number unless the text begins with a digit. *)
LEMMA TypeRead ==
  ASSUME NEW type \in P!Digits, NEW body \in AnyText
  PROVE  /\ body = <<>> \/ body[1] \notin P!Digits =>
              /\ P!Number(<<type>> \o body) = <<type>>
              /\ P!Body(<<type>> \o body) = body
         /\ body # <<>> /\ body[1] \in P!Digits =>
              Len(P!Number(<<type>> \o body)) # 1
<1> DEFINE chars == <<type>> \o body
           others == P!Characters \ P!Digits
<1>1. /\ <<type>> \in AnyText /\ Len(<<type>>) = 1 /\ <<type>>[1] = type
      /\ type \in P!Characters /\ type # "NL" /\ type \notin others
  <2>1. type \in P!Characters /\ type # "NL" /\ type \notin others
    BY Zenon DEF P!Digits, P!Characters
  <2>2. QED
    BY <2>1 DEF AnyText
<1>2. /\ chars \in Seq(P!Characters) /\ Len(chars) = 1 + Len(body) /\ Len(body) \in Nat
      /\ chars[1] = type
      /\ \A i \in 1 .. Len(chars) : chars[i] = IF i <= 1 THEN type ELSE body[i - 1]
  <2>1. /\ <<type>> \in Seq(P!Characters) /\ body \in Seq(P!Characters)
    BY <1>1 DEF AnyText
  <2>2. /\ chars \in Seq(P!Characters) /\ Len(chars) = Len(<<type>>) + Len(body)
        /\ \A i \in 1 .. Len(<<type>>) + Len(body) :
             chars[i] = IF i <= Len(<<type>>) THEN <<type>>[i] ELSE body[i - Len(<<type>>)]
    BY <2>1, ConcatProperties
  <2>3. Len(body) \in Nat
    BY <2>1, LenProperties
  <2> HIDE DEF chars
  <2>4. QED
    BY <1>1, <2>2, <2>3, SMT
<1>3. P!SelectInSeq(chars, LAMBDA c : c # "NL") = 1
  <2> HIDE DEF chars
  <2> DEFINE I == {i \in 1 .. Len(chars) : chars[i] # "NL"}
  <2>1. P!SelectInSeq(chars, LAMBDA c : c # "NL") = IF I # {} THEN P!Min(I) ELSE 0
    BY Zenon DEF P!SelectInSeq
  <2>2. 1 \in I /\ I \in SUBSET Nat /\ \A i \in I : 1 <= i
    BY <1>1, <1>2, SMT
  <2>3. P!Min(I) \in I /\ P!Min(I) <= 1
    <3> HIDE DEF I
    <3>1. QED
      BY <2>2, LeastOf
  <2>4. P!Min(I) = 1
    BY <2>2, <2>3, SMT
  <2>5. QED
    BY <2>1, <2>2, <2>4, Zenon
<1>4. P!From(chars, 1) = chars
  BY <1>2, SubSeqFull DEF P!From
<1>5. /\ P!Number(chars) = P!Before(chars, others)
      /\ P!Body(chars) = P!From(chars, 1 + Len(P!Number(chars)))
  <2>1. P!SelectInSeq(chars, LAMBDA c : c # "NL") # 0
    BY <1>3
  <2>2. QED
    BY <1>3, <1>4, <2>1, Zenon DEF P!Number, P!Body
<1>6. ASSUME body = <<>> \/ body[1] \notin P!Digits
      PROVE  P!Number(chars) = <<type>> /\ P!Body(chars) = body
  <2>1. body = <<>> \/ body[1] \in others
    <3>1. body # <<>> => body[1] \in P!Characters
      BY EmptySeq, ElementOfSeq DEF AnyText
    <3>2. QED
      BY <1>6, <3>1
  <2>2. P!Before(chars, others) = <<type>>
    <3>1. \A i \in 1 .. Len(<<type>>) : <<type>>[i] \notin others
      BY <1>1
    <3>2. <<type>> \in Seq(P!Characters) /\ body \in Seq(P!Characters)
      BY <1>1 DEF AnyText
    <3> HIDE DEF others
    <3>3. QED
      BY <2>1, <3>1, <3>2, CutAt, ZenonT(60)
  <2>3. SubSeq(chars, 2, Len(chars)) = body
    <3>1. Tail(chars) = SubSeq(chars, 2, Len(chars))
      <4>1. chars # <<>>
        BY <1>2, EmptySeq
      <4>2. QED
        BY <1>2, <4>1, TailIsSubSeq
    <3>2. /\ Tail(chars) \in Seq(P!Characters) /\ Len(Tail(chars)) = Len(body)
          /\ \A i \in 1 .. Len(body) : Tail(chars)[i] = body[i]
      <4> HIDE DEF chars
      <4>1. chars # <<>>
        BY <1>2, EmptySeq
      <4>2. /\ Tail(chars) \in Seq(P!Characters) /\ Len(Tail(chars)) = Len(chars) - 1
            /\ \A i \in 1 .. Len(Tail(chars)) : Tail(chars)[i] = chars[i + 1]
        BY <1>2, <4>1, HeadTailProperties
      <4>3. QED
        BY <1>2, <4>2, SMT
    <3>3. Tail(chars) = body
      <4> HIDE DEF chars
      <4>1. QED
        BY <3>2, SeqEqual DEF AnyText
    <3>4. QED
      BY <3>1, <3>3
  <2>4. 1 + Len(<<type>>) = 2
    BY <1>1
  <2>5. QED
    BY <1>5, <2>2, <2>3, <2>4, Zenon DEF P!From
<1>7. ASSUME body # <<>>, body[1] \in P!Digits
      PROVE  Len(P!Number(chars)) # 1
  <2>1. Len(body) \in Nat \ {0}
    BY <1>7, EmptySeq DEF AnyText
  <2>2. 2 \in 1 .. Len(chars) /\ chars[2] = body[1]
    BY <1>2, <2>1, SMT
  <2>3. chars[1] \notin others /\ chars[2] \notin others
    BY <1>1, <1>2, <1>7, <2>2
  <2> HIDE DEF chars, others
  <2>4. CASE P!Before(chars, others) = chars
    BY <1>2, <1>5, <2>1, <2>4, SMT
  <2>5. CASE \E k \in 1 .. Len(chars) :
               chars[k] \in others /\ P!Before(chars, others) = SubSeq(chars, 1, k - 1)
    <3>1. PICK k \in 1 .. Len(chars) :
            chars[k] \in others /\ P!Before(chars, others) = SubSeq(chars, 1, k - 1)
      BY <2>5
    <3>2. k # 1 /\ k # 2
      BY <2>3, <3>1, Zenon
    <3>3. Len(SubSeq(chars, 1, k - 1)) = k - 1
      <4>1. \A j \in 1 .. (k - 1) : chars[j] \in P!Characters
        BY <1>2, ElementOfSeq, SMT
      <4>2. QED
        BY <1>2, <3>2, <4>1, SubSeqProperties, SMT
    <3>4. k - 1 # 1
      BY <1>2, <3>2, SMT
    <3>5. QED
      BY <1>5, <3>1, <3>3, <3>4, Zenon
  <2>6. \/ P!Before(chars, others) = chars
        \/ \E k \in 1 .. Len(chars) :
             chars[k] \in others /\ P!Before(chars, others) = SubSeq(chars, 1, k - 1)
    <3>1. chars \in Seq(P!Characters)
      BY <1>2
    <3>2. QED
      BY <3>1, Halves
  <2>7. QED
    BY <2>4, <2>5, <2>6, Zenon
<1>8. QED
  BY <1>6, <1>7, Zenon

(* What follows a message in the FIFO: nothing, or a newline and more *)
Endings == {e \in AnyText : e = <<>> \/ e[1] = "NL"}

LEMMA MessageFacts ==
  ASSUME NEW m \in AnyMessage
  PROVE  /\ m.type \in P!Digits /\ m.text \in AnyText
         /\ m.expected # <<>> => m.expected[1] \in AnyText /\ m.expected = <<m.expected[1]>>
         /\ m.type = "2" => m.expected = <<>>
         /\ m = P!Message(m.type, m.text, m.expected)
<1>1. /\ m \in [type : P!Digits, text : AnyText,
                expected : {<<>>} \cup {<<e>> : e \in AnyText}]
      /\ m.type = "2" => m.expected = <<>>
  BY DEF AnyMessage
<1>2. m = [type |-> m.type, text |-> m.text, expected |-> m.expected]
  BY <1>1, Zenon
<1>3. m.expected = <<>> \/ \E e \in AnyText : m.expected = <<e>>
  BY <1>1, SMT
<1>4. ASSUME NEW e \in AnyText, m.expected = <<e>>
      PROVE  m.expected[1] \in AnyText /\ m.expected = <<m.expected[1]>>
  BY <1>4
<1>5. m.expected # <<>> => m.expected[1] \in AnyText /\ m.expected = <<m.expected[1]>>
  BY <1>3, <1>4
<1>6. m.type \in P!Digits /\ m.text \in AnyText
  BY <1>1, Zenon
<1>7. QED
  BY <1>1, <1>2, <1>5, <1>6, Zenon DEF P!Message

LEMMA ConsFacts ==
  ASSUME NEW c \in P!Characters, NEW e \in AnyText
  PROVE  /\ <<c>> \in AnyText
         /\ <<c>> \o e \in AnyText /\ <<c>> \o e # <<>> /\ (<<c>> \o e)[1] = c
         /\ Tail(<<c>> \o e) = e
<1>1. <<c>> \in Seq(P!Characters) /\ e \in Seq(P!Characters) /\ Len(<<c>>) = 1
      /\ <<c>>[1] = c /\ Len(e) \in Nat
  BY LenProperties DEF AnyText
<1> DEFINE s == <<c>> \o e
<1>2. /\ s \in Seq(P!Characters) /\ Len(s) = Len(<<c>>) + Len(e)
      /\ \A i \in 1 .. Len(<<c>>) + Len(e) :
           s[i] = IF i <= Len(<<c>>) THEN <<c>>[i] ELSE e[i - Len(<<c>>)]
  BY <1>1, ConcatProperties
<1> HIDE DEF s
<1>3. Len(s) = 1 + Len(e) /\ s[1] = c /\ \A i \in 1 .. Len(e) : s[i + 1] = e[i]
  BY <1>1, <1>2, SMT
<1>4. s # <<>>
  BY <1>1, <1>3, EmptySeq, SMT
<1>5. /\ Tail(s) \in Seq(P!Characters) /\ Len(Tail(s)) = Len(s) - 1
      /\ \A i \in 1 .. Len(Tail(s)) : Tail(s)[i] = s[i + 1]
  BY <1>2, <1>4, HeadTailProperties
<1>6. Tail(s) = e
  <2>1. Len(Tail(s)) = Len(e)
    BY <1>1, <1>3, <1>5, SMT
  <2>2. \A i \in 1 .. Len(e) : Tail(s)[i] = e[i]
    BY <1>3, <1>5, <2>1, SMT
  <2>3. QED
    BY <1>1, <1>5, <2>1, <2>2, SeqEqual
<1>7. QED
  BY <1>1, <1>2, <1>3, <1>4, <1>6, Zenon DEF s, AnyText

(* A semicolon and the expected respond, if there is one *)
Respond(m) == IF m.expected = <<>> THEN <<>> ELSE <<";">> \o m.expected[1]

LEMMA RespondType ==
  ASSUME NEW m \in AnyMessage
  PROVE  Respond(m) \in AnyText /\ (Respond(m) = <<>> <=> m.expected = <<>>)
         /\ (m.expected # <<>> => Respond(m)[1] = ";" /\ Tail(Respond(m)) = m.expected[1])
<1>1. ";" \in P!Characters
  BY Zenon DEF P!Characters
<1>2. <<>> \in AnyText
  BY EmptySeq DEF AnyText
<1>3. CASE m.expected = <<>>
  BY <1>2, <1>3, Zenon DEF Respond
<1>4. CASE m.expected # <<>>
  BY <1>1, <1>4, ConsFacts, MessageFacts, Zenon DEF Respond
<1>5. QED
  BY <1>3, <1>4, Zenon

(* Concatenations of texts *)
LEMMA Joined ==
  ASSUME NEW a \in AnyText, NEW b \in AnyText
  PROVE  /\ a \o b \in AnyText
         /\ a = <<>> => a \o b = b
         /\ b = <<>> => a \o b = a
         /\ a # <<>> => a \o b # <<>> /\ (a \o b)[1] = a[1]
         /\ b # <<>> => a \o b # <<>> /\ Len(a) < Len(a \o b) /\ (a \o b)[Len(a) + 1] = b[1]
         /\ Len(a \o b) = Len(a) + Len(b) /\ Len(a) \in Nat /\ Len(b) \in Nat
<1>1. a \in Seq(P!Characters) /\ b \in Seq(P!Characters)
  BY DEF AnyText
<1> DEFINE s == a \o b
<1>2. /\ s \in Seq(P!Characters) /\ Len(s) = Len(a) + Len(b)
      /\ \A i \in 1 .. Len(a) + Len(b) :
           s[i] = IF i <= Len(a) THEN a[i] ELSE b[i - Len(a)]
  BY <1>1, ConcatProperties
<1>3. Len(a) \in Nat /\ Len(b) \in Nat
  BY <1>1, LenProperties
<1>4. a = <<>> => s = b
  BY <1>1, ConcatEmptySeq
<1>5. b = <<>> => s = a
  BY <1>1, ConcatEmptySeq
<1> HIDE DEF s
<1>6. a # <<>> => s # <<>> /\ s[1] = a[1]
  <2> HAVE a # <<>>
  <2>1. Len(a) \in Nat \ {0}
    BY <1>1, EmptySeq
  <2>2. s[1] = a[1] /\ Len(s) # 0
    BY <1>2, <1>3, <2>1, SMT
  <2>3. QED
    BY <2>2, EmptySeq
<1>7. b # <<>> => s # <<>> /\ Len(a) < Len(s) /\ s[Len(a) + 1] = b[1]
  <2> HAVE b # <<>>
  <2>1. Len(b) \in Nat \ {0}
    BY <1>1, EmptySeq
  <2>2. s[Len(a) + 1] = b[1] /\ Len(s) # 0 /\ Len(a) < Len(s)
    BY <1>2, <1>3, <2>1, SMT
  <2>3. QED
    BY <2>2, EmptySeq
<1>8. QED
  BY <1>2, <1>3, <1>4, <1>5, <1>6, <1>7, Zenon DEF s, AnyText

LEMMA JoinType == \A a, b \in AnyText : a \o b \in AnyText
  BY Joined

LEMMA JoinAssociative ==
  \A a, b, c \in AnyText : (a \o b) \o c = a \o (b \o c)
  BY ConcatAssociative DEF AnyText

LEMMA JoinElements ==
  ASSUME NEW a \in AnyText, NEW b \in AnyText, NEW c,
         \A i \in 1 .. Len(a) : a[i] # c, \A i \in 1 .. Len(b) : b[i] # c
  PROVE  \A i \in 1 .. Len(a \o b) : (a \o b)[i] # c
<1>1. /\ Len(a \o b) = Len(a) + Len(b) /\ Len(a) \in Nat /\ Len(b) \in Nat
      /\ \A i \in 1 .. Len(a) + Len(b) :
           (a \o b)[i] = IF i <= Len(a) THEN a[i] ELSE b[i - Len(a)]
  BY ConcatProperties, LenProperties DEF AnyText
<1> DEFINE s == a \o b
<1> HIDE DEF s
<1>2. \A i \in 1 .. Len(s) : i <= Len(a) \/ i - Len(a) \in 1 .. Len(b)
  BY <1>1, SMT DEF s
<1>3. \A i \in 1 .. Len(s) : s[i] # c
  BY <1>1, <1>2, SMT DEF s
<1>4. QED
  BY <1>3 DEF s

LEMMA ConsElements ==
  ASSUME NEW d \in P!Characters, NEW b \in AnyText, NEW c, d # c,
         \A i \in 1 .. Len(b) : b[i] # c
  PROVE  \A i \in 1 .. Len(<<d>> \o b) : (<<d>> \o b)[i] # c
<1>1. <<d>> \in AnyText /\ \A i \in 1 .. Len(<<d>>) : <<d>>[i] # c
  BY DEF AnyText
<1>2. QED
  BY <1>1, JoinElements, Zenon

LEMMA CutText ==
  ASSUME NEW prefix \in AnyText, NEW rest \in AnyText, NEW c,
         \A i \in 1 .. Len(prefix) : prefix[i] # c,
         rest # <<>> => rest[1] = c
  PROVE  /\ P!Before(prefix \o rest, {c}) = prefix
         /\ P!After(prefix \o rest, {c}) = IF rest = <<>> THEN <<>> ELSE Tail(rest)
<1>1. prefix \in Seq(P!Characters) /\ rest \in Seq(P!Characters)
  BY DEF AnyText
<1> DEFINE stop == {c}
<1>2. /\ \A i \in 1 .. Len(prefix) : prefix[i] \notin stop
      /\ rest = <<>> \/ rest[1] \in stop
  OBVIOUS
<1> HIDE DEF stop
<1>3. /\ P!Before(prefix \o rest, stop) = prefix
      /\ P!After(prefix \o rest, stop) = IF rest = <<>> THEN <<>> ELSE Tail(rest)
  BY <1>1, <1>2, CutAt, Zenon
<1>4. QED
  BY <1>3 DEF stop

(* What is parsed when a message is followed by an ending *)
LEMMA PrintedParts ==
  ASSUME NEW m \in AnyMessage, NEW end \in AnyText
  PROVE  /\ P!Printed(m) \in AnyText
         /\ P!Printed(m) \o end = <<m.type>> \o (m.text \o (Respond(m) \o end))
         /\ m.text \o (Respond(m) \o end) \in AnyText
<1>1. /\ m.text \in AnyText /\ Respond(m) \in AnyText /\ <<m.type>> \in AnyText
  <2>1. m.type \in P!Characters
    BY MessageFacts, Zenon DEF P!Characters
  <2>2. QED
    BY <2>1, MessageFacts, RespondType, ConsFacts
<1>2. P!Printed(m) = (<<m.type>> \o m.text) \o Respond(m)
  BY Zenon DEF P!Printed, Respond
<1>3. m.text \o Respond(m) \in AnyText /\ <<m.type>> \o m.text \in AnyText
  BY <1>1, JoinType, Zenon
<1>4. P!Printed(m) = <<m.type>> \o (m.text \o Respond(m))
  BY <1>1, <1>2, JoinAssociative, Zenon
<1>5. P!Printed(m) \o end = <<m.type>> \o ((m.text \o Respond(m)) \o end)
  <2> DEFINE body == m.text \o Respond(m)
             digit == <<m.type>>
  <2>1. body \in AnyText /\ digit \in AnyText
    BY <1>1, <1>3
  <2>2. (digit \o body) \o end = digit \o (body \o end)
    <3> HIDE DEF body, digit
    <3>1. QED
      BY <2>1, JoinAssociative, Zenon
  <2>3. QED
    BY <1>4, <2>2, Zenon
<1>6. (m.text \o Respond(m)) \o end = m.text \o (Respond(m) \o end)
  BY <1>1, JoinAssociative, ZenonT(60)
<1>7. Respond(m) \o end \in AnyText
  BY <1>1, JoinType, Zenon
<1>8. QED
  BY <1>1, <1>3, <1>4, <1>5, <1>6, <1>7, JoinType, Zenon

(* A message that can be framed is read as it was, whatever follows its
   newline, and what follows stays in the stream. *)
LEMMA ParsedBack ==
  ASSUME NEW m \in AnyMessage, Framable(m), NEW end \in Endings
  PROVE  /\ P!Parse(P!Printed(m) \o end) = {m}
         /\ P!Remainder(P!Printed(m) \o end) = IF end = <<>> THEN <<>> ELSE Tail(end)
<1> DEFINE rest == Respond(m) \o end
           body == m.text \o rest
           chars == P!Printed(m) \o end
<1>1. /\ end \in AnyText /\ (end # <<>> => end[1] = "NL")
      /\ m.type \in P!Digits /\ m.text \in AnyText /\ Respond(m) \in AnyText
      /\ m.type = "2" => m.expected = <<>>
      /\ m = P!Message(m.type, m.text, m.expected)
  BY MessageFacts, RespondType, Zenon DEF Endings
<1>2. /\ m.text # <<>> => m.text[1] \notin P!Digits
      /\ \A i \in 1 .. Len(m.text) : m.text[i] # "NL"
      /\ m.expected # <<>> => \A i \in 1 .. Len(m.expected[1]) : m.expected[1][i] # "NL"
      /\ m.type = "1" => \A i \in 1 .. Len(m.text) : m.text[i] # ";"
      /\ m.type = "1" /\ m.text = <<>> => m.expected # <<>>
  <2>1. \A t \in AnyText : DOMAIN t = 1 .. Len(t)
    BY LenProperties DEF AnyText
  <2>2. m.expected # <<>> => m.expected[1] \in AnyText
    BY MessageFacts
  <2>3. \A t \in AnyText : \A S : HasNone(t, S) => \A i \in 1 .. Len(t) : t[i] \notin S
    BY <2>1, Zenon DEF HasNone
  <2>4. QED
    BY <1>1, <2>2, <2>3, Zenon DEF Framable
<1>3. /\ rest \in AnyText /\ body \in AnyText
      /\ m.expected = <<>> => rest = end
      /\ m.expected # <<>> => rest # <<>> /\ rest[1] = ";"
  <2>1. rest \in AnyText
    BY <1>1, JoinType, Zenon
  <2>2. m.expected = <<>> => rest = end
    BY <1>1, RespondType, Joined
  <2>3. m.expected # <<>> => rest # <<>> /\ rest[1] = ";"
    BY <1>1, RespondType, Joined
  <2>4. body \in AnyText
    BY <1>1, <2>1, JoinType, Zenon
  <2>5. QED
    BY <2>1, <2>2, <2>3, <2>4, Zenon
<1>4. P!Number(chars) = <<m.type>> /\ P!Body(chars) = body
  <2>1. chars = <<m.type>> \o body
    BY <1>1, PrintedParts, Zenon
  <2>2. body = <<>> \/ body[1] \notin P!Digits
    <3>1. rest = <<>> \/ rest[1] \notin P!Digits
      BY <1>1, <1>3, Zenon DEF P!Digits
    <3> HIDE DEF rest
    <3>2. CASE m.text = <<>>
      <4>1. body = rest
        BY <1>1, <1>3, <3>2, Joined
      <4>2. QED
        BY <3>1, <4>1, Zenon
    <3>3. CASE m.text # <<>>
      <4>1. body[1] = m.text[1]
        BY <1>1, <1>3, <3>3, Joined
      <4>2. QED
        BY <1>2, <3>3, <4>1, Zenon
    <3>4. QED
      BY <3>2, <3>3, Zenon
  <2> HIDE DEF body, chars
  <2>3. QED
    BY <1>1, <1>3, <2>1, <2>2, TypeRead, Zenon
<1>5. rest = <<>> \/ rest[1] \in {";", "NL"}
  <2> HIDE DEF rest
  <2>1. QED
    BY <1>1, <1>3, Zenon
<1>6. P!After(body, {"NL"}) = IF end = <<>> THEN <<>> ELSE Tail(end)
  <2> DEFINE before == m.text \o Respond(m)
  <2>1. before \in AnyText /\ body = before \o end
    BY <1>1, JoinType, JoinAssociative, Zenon
  <2>2. \A i \in 1 .. Len(before) : before[i] # "NL"
    <3>1. CASE m.expected = <<>>
      <4>1. before = m.text
        BY <1>1, <3>1, RespondType, Joined
      <4>2. QED
        BY <1>2, <4>1, Zenon
    <3>2. CASE m.expected # <<>>
      <4>1. /\ ";" \in P!Characters /\ m.expected[1] \in AnyText
            /\ Respond(m) = <<";">> \o m.expected[1]
        BY <3>2, MessageFacts, Zenon DEF P!Characters, Respond
      <4>2. \A i \in 1 .. Len(Respond(m)) : Respond(m)[i] # "NL"
        BY <1>2, <3>2, <4>1, ConsElements, Zenon
      <4>3. QED
        BY <1>1, <1>2, <4>2, JoinElements, Zenon
    <3>3. QED
      BY <3>1, <3>2
  <2> HIDE DEF before, body
  <2>3. QED
    BY <1>1, <2>1, <2>2, CutText, Zenon
<1>7. P!Remainder(chars) = IF end = <<>> THEN <<>> ELSE Tail(end)
  BY <1>4, <1>6, Zenon DEF P!Remainder
<1>8. CASE m.type = "2"
  <2>1. P!Before(body, {"NL"}) = m.text
    <3>1. rest # <<>> => rest[1] = "NL"
      BY <1>1, <1>3, <1>8, Zenon
    <3>2. /\ m.text \in AnyText /\ rest \in AnyText
          /\ \A i \in 1 .. Len(m.text) : m.text[i] # "NL"
      BY <1>1, <1>2, <1>3, Zenon
    <3> HIDE DEF rest
    <3>3. PICK t \in AnyText : t = m.text /\ \A i \in 1 .. Len(t) : t[i] # "NL"
      BY <3>2, Zenon
    <3>4. P!Before(t \o rest, {"NL"}) = t
      BY <3>1, <3>2, <3>3, CutText, Zenon
    <3>5. QED
      BY <3>3, <3>4, Zenon
  <2>2. P!Parse(chars) = {P!Message("2", P!Before(P!Body(chars), {"NL"}), <<>>)}
    <3>1. P!Number(chars) = <<"2">> /\ <<"2">> # <<"1">>
      BY <1>4, <1>8
    <3>2. QED
      BY <3>1, Zenon DEF P!Parse
  <2>3. QED
    BY <1>1, <1>4, <1>7, <1>8, <2>1, <2>2, Zenon
<1>9. CASE m.type = "1"
  <2>1. P!Parse(chars) = P!Commands(body)
    <3>1. <<m.type>> = <<"1">> /\ <<"1">> # <<"2">>
      BY <1>9
    <3> HIDE DEF chars, body
    <3>2. QED
      BY <1>4, <3>1, Zenon DEF P!Parse
  <2>2. P!Before(body, {";", "NL"}) = m.text
    <3>1. m.text \in Seq(P!Characters) /\ rest \in Seq(P!Characters)
      BY <1>1, <1>3 DEF AnyText
    <3>2. \A i \in 1 .. Len(m.text) : m.text[i] \notin {";", "NL"}
      BY <1>2, <1>9, Zenon
    <3> HIDE DEF rest
    <3>3. QED
      BY <1>5, <3>1, <3>2, CutAt, ZenonT(60)
  <2>3. CASE m.expected = <<>>
    <3>1. body # <<>>
      BY <1>1, <1>2, <1>3, <1>9, <2>3, Joined
    <3>2. ~ (Len(m.text) < Len(body) /\ body[Len(m.text) + 1] = ";")
      <4>1. CASE end = <<>>
        <5>1. body = m.text
          BY <1>1, <1>3, <2>3, <4>1, Joined
        <5>2. ~ (Len(m.text) < Len(m.text))
          BY <1>1, Joined, SMT
        <5>3. QED
          BY <5>1, <5>2, Zenon
      <4>2. CASE end # <<>>
        <5>1. body[Len(m.text) + 1] = end[1]
          <6>1. (m.text \o end)[Len(m.text) + 1] = end[1]
            BY <1>1, <4>2, Joined, Zenon
          <6>2. QED
            BY <1>3, <2>3, <6>1, Zenon
        <5>2. QED
          BY <1>1, <4>2, <5>1, Zenon
      <4>3. QED
        BY <4>1, <4>2
    <3>3. P!Commands(body) = {P!Message("1", m.text, <<>>)}
      <4> HIDE DEF body
      <4>1. QED
        BY <2>2, <3>1, <3>2, Zenon DEF P!Commands
    <3>4. QED
      BY <1>1, <1>7, <1>9, <2>1, <2>3, <3>3, Zenon
  <2>4. CASE m.expected # <<>>
    <3>1. body # <<>> /\ Len(m.text) < Len(body) /\ body[Len(m.text) + 1] = ";"
      <4>1. rest # <<>> /\ rest[1] = ";" /\ rest \in AnyText
        BY <1>3, <2>4
      <4> HIDE DEF rest
      <4>2. QED
        BY <1>1, <4>1, Joined, Zenon
    <3>2. PICK e \in AnyText : /\ e = m.expected[1] /\ m.expected = <<e>>
                              /\ Respond(m) = <<";">> \o e
      BY <2>4, MessageFacts, Zenon DEF Respond
    <3>3. Tail(rest) = e \o end
      <4>1. ";" \in P!Characters
        BY Zenon DEF P!Characters
      <4>2. <<";">> \in AnyText /\ e \o end \in AnyText
        BY <1>1, <4>1, ConsFacts, JoinType, Zenon
      <4>3. (<<";">> \o e) \o end = <<";">> \o (e \o end)
        <5> DEFINE semicolon == <<";">>
        <5>1. semicolon \in AnyText /\ end \in AnyText
          BY <1>1, <4>2, Zenon
        <5> HIDE DEF semicolon
        <5>2. (semicolon \o e) \o end = semicolon \o (e \o end)
          BY <5>1, JoinAssociative
        <5>3. QED
          BY <5>2, Zenon DEF semicolon
      <4>4. Tail(<<";">> \o (e \o end)) = e \o end
        BY <4>1, <4>2, ConsFacts, Zenon
      <4>5. QED
        BY <3>2, <4>3, <4>4, Zenon
    <3>4. P!After(body, {";"}) = Tail(rest)
      <4>1. rest # <<>> /\ rest[1] = ";" /\ rest \in AnyText
        BY <1>3, <2>4, Zenon
      <4>2. m.text \in AnyText /\ \A i \in 1 .. Len(m.text) : m.text[i] # ";"
        BY <1>1, <1>2, <1>9, Zenon
      <4> HIDE DEF rest
      <4>3. QED
        BY <4>1, <4>2, CutText, Zenon
    <3>5. P!Before(e \o end, {"NL"}) = e
      <4>1. \A i \in 1 .. Len(e) : e[i] # "NL"
        BY <1>2, <2>4, <3>2, Zenon
      <4>2. QED
        BY <1>1, <4>1, CutText, Zenon
    <3>6. P!Commands(body) = {P!Message("1", m.text, <<e>>)}
      <4> HIDE DEF body, rest
      <4>1. QED
        BY <2>2, <3>1, <3>3, <3>4, <3>5, Zenon DEF P!Commands
    <3>7. QED
      BY <1>1, <1>7, <1>9, <2>1, <3>2, <3>6, Zenon
  <2>5. QED
    BY <2>3, <2>4
<1>10. QED
  BY <1>1, <1>8, <1>9, Zenon DEF P!Digits

LEMMA CutTextShort ==
  ASSUME NEW prefix \in AnyText, NEW rest \in AnyText, NEW stop,
         NEW i \in 1 .. Len(prefix), prefix[i] \in stop
  PROVE  P!Before(prefix \o rest, stop) # prefix
<1>1. prefix \in Seq(P!Characters) /\ rest \in Seq(P!Characters)
  BY DEF AnyText
<1>2. QED
  BY <1>1, CutShort, Zenon

(* A message that cannot be framed comes back otherwise, or not at all. *)
LEMMA NotParsedBack ==
  ASSUME NEW m \in AnyMessage, ~ Framable(m)
  PROVE  P!Parse(P!Printed(m)) # {m}
<1> DEFINE rest == Respond(m)
           body == m.text \o rest
           chars == P!Printed(m)
<1>1. /\ m.type \in P!Digits /\ m.text \in AnyText /\ rest \in AnyText /\ body \in AnyText
      /\ m.type = "2" => m.expected = <<>>
      /\ m = P!Message(m.type, m.text, m.expected)
  BY MessageFacts, RespondType, JoinType, Zenon
<1>2. chars = <<m.type>> \o body
  <2>1. <<>> \in AnyText
    BY EmptySeq DEF AnyText
  <2>2. chars \o <<>> = <<m.type>> \o (m.text \o (rest \o <<>>)) /\ chars \in AnyText
    BY <2>1, PrintedParts, Zenon
  <2>3. chars \o <<>> = chars
    BY <2>1, <2>2, Joined
  <2>4. rest \o <<>> = rest
    BY <1>1, <2>1, Joined
  <2>5. QED
    BY <2>2, <2>3, <2>4, Zenon
<1>3. m.expected = <<>> <=> rest = <<>>
  BY RespondType
<1>4. \A t \in AnyText : \A c :
        ~ HasNone(t, {c}) => \E i \in 1 .. Len(t) : t[i] = c
  <2>1. \A t \in AnyText : DOMAIN t = 1 .. Len(t)
    BY LenProperties DEF AnyText
  <2>2. QED
    BY <2>1, Zenon DEF HasNone
<1>5. ASSUME m.text # <<>>, m.text[1] \in P!Digits
      PROVE  P!Parse(chars) # {m}
  <2>1. body # <<>> /\ body[1] = m.text[1]
    BY <1>1, <1>5, Joined
  <2> HIDE DEF body, chars
  <2>2. Len(P!Number(chars)) # 1
    BY <1>1, <1>2, <1>5, <2>1, TypeRead, Zenon
  <2>3. P!Number(chars) # <<"1">> /\ P!Number(chars) # <<"2">>
    <3>1. Len(<<"1">>) = 1 /\ Len(<<"2">>) = 1
      OBVIOUS
    <3>2. QED
      BY <2>2, <3>1, Zenon
  <2>4. QED
    BY <2>3, Zenon DEF P!Parse
<1>6. ASSUME m.text # <<>> => m.text[1] \notin P!Digits
      PROVE  P!Number(chars) = <<m.type>> /\ P!Body(chars) = body
  <2>1. body = <<>> \/ body[1] \notin P!Digits
    <3>1. rest # <<>> => rest[1] = ";"
      BY <1>3, RespondType
    <3>2. rest = <<>> \/ rest[1] \notin P!Digits
      BY <3>1, Zenon DEF P!Digits
    <3> HIDE DEF rest
    <3>3. CASE m.text = <<>>
      <4>1. body = rest
        BY <1>1, <3>3, Joined
      <4>2. QED
        BY <3>2, <4>1, Zenon
    <3>4. CASE m.text # <<>>
      <4>1. body[1] = m.text[1]
        BY <1>1, <3>4, Joined
      <4>2. QED
        BY <1>6, <3>4, <4>1, Zenon
    <3>5. QED
      BY <3>3, <3>4, Zenon
  <2> HIDE DEF body, chars
  <2>2. QED
    BY <1>1, <1>2, <2>1, TypeRead, Zenon
<1>7. ASSUME m.type = "2", m.text # <<>> => m.text[1] \notin P!Digits
      PROVE  P!Parse(chars) # {m}
  <2>1. ~ HasNone(m.text, {"NL"})
    BY <1>1, <1>7, Zenon DEF Framable
  <2>2. PICK i \in 1 .. Len(m.text) : m.text[i] = "NL"
    BY <1>1, <1>4, <2>1, Zenon
  <2>3. P!Before(body, {"NL"}) # m.text
    <3>1. m.text[i] \in {"NL"}
      BY <2>2
    <3> HIDE DEF rest
    <3>2. QED
      BY <1>1, <3>1, CutTextShort, Zenon
  <2>4. P!Parse(chars) = {P!Message("2", P!Before(body, {"NL"}), <<>>)}
    <3>1. P!Number(chars) = <<"2">> /\ P!Body(chars) = body /\ <<"2">> # <<"1">>
      BY <1>6, <1>7
    <3> HIDE DEF body, chars
    <3>2. QED
      BY <3>1, Zenon DEF P!Parse
  <2>5. P!Message("2", P!Before(body, {"NL"}), <<>>).text = P!Before(body, {"NL"})
    BY DEF P!Message
  <2>6. QED
    BY <2>3, <2>4, <2>5, Zenon
<1>8. ASSUME m.type = "1", m.text # <<>> => m.text[1] \notin P!Digits
      PROVE  P!Parse(chars) # {m}
  <2> DEFINE text == P!Before(body, {";", "NL"})
             plain == P!Message("1", text, <<>>)
             respond == P!Before(P!After(body, {";"}), {"NL"})
             expecting == P!Message("1", text, <<respond>>)
  <2>1. P!Parse(chars) = P!Commands(body)
    <3>1. P!Number(chars) = <<"1">> /\ P!Body(chars) = body /\ <<"1">> # <<"2">>
      BY <1>6, <1>8
    <3> HIDE DEF body, chars
    <3>2. QED
      BY <3>1, Zenon DEF P!Parse
  <2>2. /\ P!Commands(body) \in {{plain, expecting}, {plain}, {expecting}}
        /\ body = <<>> => P!Commands(body) = {plain, expecting}
        /\ body # <<>> /\ Len(text) < Len(body) /\ body[Len(text) + 1] = ";" =>
             P!Commands(body) = {expecting}
    <3> HIDE DEF body
    <3>1. QED
      BY Zenon DEF P!Commands
  <2>3. plain.text = text /\ expecting.text = text
        /\ plain.expected = <<>> /\ expecting.expected = <<respond>>
    BY Zenon DEF P!Message
  <2>4. CASE \E i \in 1 .. Len(m.text) : m.text[i] \in {";", "NL"}
    <3>1. text # m.text
      <4> HIDE DEF rest
      <4>1. QED
        BY <1>1, <2>4, CutTextShort, Zenon
    <3> HIDE DEF text, plain, expecting, body
    <3>2. m # plain /\ m # expecting
      BY <2>3, <3>1, Zenon
    <3>3. QED
      BY <2>1, <2>2, <3>2, Zenon
  <2>5. CASE m.text = <<>> /\ m.expected = <<>>
    <3>1. body = <<>>
      BY <1>1, <1>3, <2>5, Joined
    <3>2. plain # expecting
      <4>1. <<>> # <<respond>>
        OBVIOUS
      <4> HIDE DEF plain, expecting, respond
      <4>2. QED
        BY <2>3, <4>1, Zenon
    <3>3. P!Commands(body) = {plain, expecting}
      BY <2>2, <3>1, Zenon
    <3> HIDE DEF plain, expecting, body
    <3>4. {plain, expecting} # {m}
      BY <3>2
    <3>5. QED
      BY <2>1, <3>3, <3>4, Zenon
  <2>6. CASE /\ \A i \in 1 .. Len(m.text) : m.text[i] \notin {";", "NL"}
             /\ m.expected # <<>> /\ ~ HasNone(m.expected[1], {"NL"})
    <3>1. PICK e \in AnyText : /\ e = m.expected[1] /\ m.expected = <<e>>
                              /\ rest = <<";">> \o e
      BY <2>6, MessageFacts, Zenon DEF Respond
    <3>2. rest # <<>> /\ rest[1] = ";" /\ Tail(rest) = e
      BY <2>6, <3>1, RespondType, Zenon
    <3>3. text = m.text
      <4>1. m.text \in Seq(P!Characters) /\ rest \in Seq(P!Characters)
        BY <1>1 DEF AnyText
      <4>2. rest[1] \in {";", "NL"}
        BY <3>2, Zenon
      <4> DEFINE stop == {";", "NL"}
      <4>3. (\A i \in 1 .. Len(m.text) : m.text[i] \notin stop) /\ rest[1] \in stop
        BY <2>6, <4>2, Zenon
      <4> HIDE DEF rest, stop
      <4>4. P!Before(m.text \o rest, stop) = m.text
        BY <4>1, <4>3, CutAt, ZenonT(60)
      <4>5. QED
        BY <4>4, Zenon DEF stop
    <3>4. body # <<>> /\ Len(m.text) < Len(body) /\ body[Len(m.text) + 1] = ";"
      <4> HIDE DEF rest
      <4>1. QED
        BY <1>1, <3>2, Joined, ZenonT(60)
    <3>5. P!After(body, {";"}) = e
      <4>1. m.text \in AnyText /\ \A i \in 1 .. Len(m.text) : m.text[i] # ";"
        BY <1>1, <2>6, Zenon
      <4> HIDE DEF rest
      <4>2. P!After(m.text \o rest, {";"}) = Tail(rest)
        BY <1>1, <3>2, <4>1, CutText, Zenon
      <4>3. QED
        BY <3>2, <4>2, Zenon
    <3>6. P!Before(e, {"NL"}) # e
      <4>1. PICK i \in 1 .. Len(e) : e[i] = "NL"
        BY <1>4, <2>6, <3>1, Zenon
      <4>2. <<>> \in AnyText /\ e \o <<>> = e
        BY EmptySeq, ConcatEmptySeq DEF AnyText
      <4>3. e[i] \in {"NL"}
        BY <4>1
      <4>4. P!Before(e \o <<>>, {"NL"}) # e
        BY <4>2, <4>3, CutTextShort, Zenon
      <4>5. QED
        BY <4>2, <4>4, Zenon
    <3>7. P!Commands(body) = {expecting} /\ respond # e
      BY <2>2, <3>3, <3>4, <3>5, <3>6, Zenon
    <3>8. <<respond>> # <<e>>
      <4> HIDE DEF respond
      <4>1. respond # e
        BY <3>7, Zenon
      <4>2. <<respond>>[1] = respond /\ <<e>>[1] = e
        OBVIOUS
      <4>3. QED
        BY <4>1, <4>2, Zenon
    <3> HIDE DEF expecting, respond, body
    <3>9. QED
      BY <2>1, <2>3, <3>1, <3>7, <3>8, Zenon
  <2>7. \/ \E i \in 1 .. Len(m.text) : m.text[i] \in {";", "NL"}
        \/ m.text = <<>> /\ m.expected = <<>>
        \/ m.expected # <<>> /\ ~ HasNone(m.expected[1], {"NL"})
    <3>1. \/ ~ HasNone(m.text, {"NL"}) \/ ~ HasNone(m.text, {";"})
          \/ m.text = <<>> /\ m.expected = <<>>
          \/ m.expected # <<>> /\ ~ HasNone(m.expected[1], {"NL"})
      BY <1>8, Zenon DEF Framable
    <3>2. ~ HasNone(m.text, {"NL"}) \/ ~ HasNone(m.text, {";"}) =>
            \E i \in 1 .. Len(m.text) : m.text[i] \in {";", "NL"}
      BY <1>1, <1>4, Zenon
    <3>3. QED
      BY <3>1, <3>2, Zenon
  <2>8. QED
    BY <2>4, <2>5, <2>6, <2>7, Zenon
<1>9. QED
  BY <1>1, <1>5, <1>7, <1>8, Zenon DEF P!Digits

(* For a command or prompt of any text: it comes back from parse
   (serial_interface.cpp) as it went into operator<< exactly if it has no
   newline, no semicolon in the command, no leading digit, and is not empty. *)
THEOREM ParsedIfFramable ==
  ASSUME NEW m \in AnyMessage
  PROVE  P!Parse(P!Printed(m)) = {m} <=> Framable(m)
<1>1. ASSUME Framable(m)
      PROVE  P!Parse(P!Printed(m)) = {m}
  <2>1. <<>> \in Endings
    BY EmptySeq DEF Endings, AnyText
  <2>2. P!Printed(m) \o <<>> = P!Printed(m)
    <3>1. P!Printed(m) \in AnyText /\ <<>> \in AnyText
      BY <2>1, PrintedParts, Zenon DEF Endings
    <3>2. QED
      BY <3>1, ConcatEmptySeq DEF AnyText
  <2>3. P!Parse(P!Printed(m) \o <<>>) = {m}
    BY <1>1, <2>1, ParsedBack, Zenon
  <2>4. QED
    BY <2>2, <2>3, Zenon
<1>2. QED
  BY <1>1, NotParsedBack, Zenon

(* Lines in the FIFO are read one by one, however long they are. *)
THEOREM LinesRead ==
  ASSUME NEW first \in AnyMessage, NEW second \in AnyMessage,
         Framable(first), Framable(second)
  PROVE  LET chars == P!Printed(first) \o <<"NL">> \o P!Printed(second) \o <<"NL">>
         IN  /\ P!Parse(chars) = {first}
             /\ P!Parse(P!Remainder(chars)) = {second}
<1> DEFINE newline == <<"NL">>
           next == P!Printed(second) \o newline
           end == newline \o next
           chars == P!Printed(first) \o newline \o P!Printed(second) \o newline
<1>1. "NL" \in P!Characters
  BY Zenon DEF P!Characters
<1>2. newline \in Endings
  BY <1>1 DEF Endings, AnyText
<1>3. /\ P!Printed(first) \in AnyText /\ P!Printed(second) \in AnyText
      /\ newline \in AnyText /\ next \in AnyText
  BY <1>2, PrintedParts, JoinType, Zenon DEF Endings
<1>4. end \in AnyText /\ end # <<>> /\ end[1] = "NL" /\ Tail(end) = next
  <2> HIDE DEF next
  <2>1. QED
    BY <1>1, <1>3, ConsFacts, Zenon
<1>5. chars = P!Printed(first) \o end
  <2> DEFINE a == P!Printed(first)
             b == P!Printed(second)
  <2>1. a \in AnyText /\ b \in AnyText /\ newline \in AnyText /\ a \o newline \in AnyText
    BY <1>3, JoinType, Zenon
  <2> HIDE DEF a, b, newline
  <2>2. ((a \o newline) \o b) \o newline = (a \o newline) \o (b \o newline)
    BY <2>1, JoinAssociative
  <2>3. (a \o newline) \o (b \o newline) = a \o (newline \o (b \o newline))
    <3>1. b \o newline \in AnyText
      BY <2>1, JoinType
    <3> DEFINE bn == b \o newline
    <3> HIDE DEF bn
    <3>2. (a \o newline) \o bn = a \o (newline \o bn)
      BY <2>1, <3>1, JoinAssociative, SMTT(60) DEF bn
    <3>3. QED
      BY <3>2, Zenon DEF bn
  <2>4. QED
    BY <2>2, <2>3, Zenon DEF a, b
<1>6. end \in Endings
  BY <1>4, Zenon DEF Endings
<1>7. P!Parse(chars) = {first} /\ P!Remainder(chars) = next
  <2> HIDE DEF end, chars
  <2>1. QED
    BY <1>4, <1>5, <1>6, ParsedBack, Zenon
<1>8. P!Parse(next) = {second}
  BY <1>2, ParsedBack, Zenon
<1>9. QED
  BY <1>7, <1>8, Zenon

-----------------------------------------------------------------------------
(* Folds of a sequence: FoldLeft is a function on the sets of its indices. *)

LEMMA MaxOf ==
  ASSUME NEW n \in Nat, NEW s \in SUBSET (1 .. n), s # {}
  PROVE  Max(s) \in s /\ \A y \in s : Max(s) >= y
<1> DEFINE I == {n - y : y \in s}
<1>1. I \in SUBSET Nat /\ I # {}
  <2>1. \A y \in s : n - y \in Nat
    BY SMT
  <2>2. QED
    BY <2>1, Zenon
<1>2. PICK k \in I : \A i \in I : k <= i
  BY <1>1, LeastOf, Zenon
<1>3. PICK x \in s : k = n - x
  BY <1>2, Zenon
<1>4. \A y \in s : x >= y
  <2> SUFFICES ASSUME NEW y \in s
               PROVE  x >= y
    BY Zenon
  <2>1. k <= n - y
    BY <1>2, Zenon
  <2> HIDE DEF I
  <2>2. QED
    BY <1>3, <2>1, SMT
<1>5. QED
  BY <1>4, Zenon DEF Max

LEMMA MaxIs ==
  ASSUME NEW n \in Nat, NEW s \in SUBSET (1 .. n), n \in s
  PROVE  Max(s) = n
<1> DEFINE m == Max(s)
<1>1. m \in s /\ m >= n
  BY MaxOf, Zenon
<1> HIDE DEF m
<1>2. m = n
  BY <1>1, SMT
<1>3. QED
  BY <1>2, Zenon DEF m

(* A set without its greatest element ends below it. *)
LEMMA WithoutMax ==
  ASSUME NEW n \in Nat, NEW s \in SUBSET (1 .. n), s # {}
  PROVE  /\ Max(s) \in 1 .. n /\ s \ {Max(s)} \in SUBSET (1 .. n)
         /\ s \ {Max(s)} \in SUBSET (1 .. (Max(s) - 1))
<1> DEFINE m == Max(s)
<1>1. m \in s /\ \A y \in s : m >= y
  BY MaxOf, Zenon
<1> HIDE DEF m
<1>2. m \in 1 .. n /\ s \ {m} \in SUBSET (1 .. n) /\ s \ {m} \in SUBSET (1 .. (m - 1))
  BY <1>1, SMT
<1>3. QED
  BY <1>2, Zenon DEF m

StepsAgree(f, g, n) ==
  /\ f[{}] = g[{}]
  /\ \A s \in SUBSET (1 .. n) :
       s # {} /\ f[s \ {Max(s)}] = g[s \ {Max(s)}] => f[s] = g[s]

(* Two functions on sets of indices agree if they agree on the empty set and
   on a set as soon as on what is left of it without its greatest element. *)
LEMMA SameOnSubsets ==
  \A n \in Nat : \A f, g :
    StepsAgree(f, g, n) => \A s \in SUBSET (1 .. n) : f[s] = g[s]
<1> SUFFICES ASSUME NEW n \in Nat, NEW f, NEW g, StepsAgree(f, g, n)
             PROVE  \A s \in SUBSET (1 .. n) : f[s] = g[s]
  BY Zenon
<1>0. /\ f[{}] = g[{}]
      /\ \A s \in SUBSET (1 .. n) :
           s # {} /\ f[s \ {Max(s)}] = g[s \ {Max(s)}] => f[s] = g[s]
  BY Zenon DEF StepsAgree
<1> DEFINE I == {k \in 0 .. n : \E s \in SUBSET (1 .. k) : f[s] # g[s]}
<1>1. CASE I = {}
  <2>1. n \in 0 .. n
    BY SMT
  <2>2. QED
    BY <1>1, <2>1, Zenon
<1>2. CASE I # {}
  <2>1. I \in SUBSET Nat
    BY SMT
  <2>2. PICK k \in I : \A i \in I : k <= i
    BY <1>2, <2>1, LeastOf, Zenon
  <2>3. PICK s \in SUBSET (1 .. k) : f[s] # g[s]
    BY <2>2, Zenon
  <2>4. k \in 0 .. n
    BY <2>2, Zenon
  <2> HIDE DEF I
  <2>5. s \in SUBSET (1 .. n) /\ s # {} /\ k \in Nat
    <3>1. k \in Nat /\ \A i \in 1 .. k : i \in 1 .. n
      BY <2>4, SMT
    <3>2. QED
      BY <1>0, <2>3, <3>1, Zenon
  <2> DEFINE m == Max(s)
             t == s \ {m}
  <2>6. m \in 1 .. k /\ t \in SUBSET (1 .. (m - 1))
    BY <2>5, WithoutMax, Zenon
  <2>7. f[t] # g[t]
    BY <1>0, <2>3, <2>5, Zenon
  <2> HIDE DEF m, t
  <2>8. m - 1 \in 0 .. n /\ ~ (k <= m - 1)
    BY <2>4, <2>6, SMT
  <2>9. m - 1 \in I
    BY <2>6, <2>7, <2>8, Zenon DEF I
  <2>10. QED
    BY <2>2, <2>8, <2>9, Zenon
<1>3. QED
  BY <1>1, <1>2, Zenon

(* The sums of a sequence of numbers over sets of its indices *)
IsSums(sums, numbers, n) ==
  sums = [s \in SUBSET (1 .. n) |->
            IF s = {} THEN 0 ELSE sums[s \ {Max(s)}] + numbers[Max(s)]]

LEMMA SumsExtended ==
  ASSUME NEW numbers \in Seq(Nat), NEW n \in Nat, n + 1 <= Len(numbers),
         NEW g \in [SUBSET (1 .. n) -> Nat], IsSums(g, numbers, n)
  PROVE  \E h \in [SUBSET (1 .. n + 1) -> Nat] : IsSums(h, numbers, n + 1)
<1> DEFINE h == [s \in SUBSET (1 .. n + 1) |->
                   IF n + 1 \in s THEN g[s \ {n + 1}] + numbers[n + 1] ELSE g[s]]
           value(s) == IF s = {} THEN 0 ELSE h[s \ {Max(s)}] + numbers[Max(s)]
<1>0. n + 1 \in Nat /\ Len(numbers) \in Nat /\ numbers[n + 1] \in Nat
  <2>1. Len(numbers) \in Nat
    BY LenProperties
  <2>2. QED
    BY <2>1, ElementOfSeq, SMT
<1>1. ASSUME NEW s \in SUBSET (1 .. n + 1)
      PROVE  h[s] \in Nat /\ h[s] = value(s)
  <2>1. CASE n + 1 \in s
    <3>1. Max(s) = n + 1
      BY <1>0, <2>1, MaxIs, Zenon
    <3>2. s \ {n + 1} \in SUBSET (1 .. n) /\ s \ {n + 1} \in SUBSET (1 .. n + 1)
      BY SMT
    <3>3. h[s \ {n + 1}] = g[s \ {n + 1}]
      BY <3>2, Zenon
    <3>4. h[s] = g[s \ {n + 1}] + numbers[n + 1] /\ g[s \ {n + 1}] \in Nat
      BY <2>1, <3>2, Zenon
    <3> HIDE DEF h
    <3>5. QED
      BY <1>0, <2>1, <3>1, <3>3, <3>4, SMT
  <2>2. CASE n + 1 \notin s
    <3>1. s \in SUBSET (1 .. n)
      BY <2>2, SMT
    <3>2. h[s] = g[s] /\ g[s] \in Nat
      BY <2>2, <3>1, Zenon
    <3>3. g[s] = IF s = {} THEN 0 ELSE g[s \ {Max(s)}] + numbers[Max(s)]
      BY <3>1, Zenon DEF IsSums
    <3>4. n + 1 \notin s \ {Max(s)} /\ s \ {Max(s)} \in SUBSET (1 .. n + 1)
      BY <2>2, Zenon
    <3>5. h[s \ {Max(s)}] = g[s \ {Max(s)}]
      BY <3>4, Zenon
    <3>6. QED
      BY <3>2, <3>3, <3>5, Zenon
  <2>3. QED
    BY <2>1, <2>2, Zenon
<1>2. h = [s \in SUBSET (1 .. n + 1) |-> h[s]]
  BY Zenon
<1> HIDE DEF h
<1>3. h = [s \in SUBSET (1 .. n + 1) |-> value(s)]
  BY <1>1, <1>2, Zenon
<1>4. h \in [SUBSET (1 .. n + 1) -> Nat]
  BY <1>1, <1>2, Zenon
<1>5. QED
  BY <1>3, <1>4, Zenon DEF IsSums

LEMMA SumsExist ==
  ASSUME NEW numbers \in Seq(Nat)
  PROVE  \E g \in [SUBSET (1 .. Len(numbers)) -> Nat] : IsSums(g, numbers, Len(numbers))
<1> DEFINE has(n) == \E g \in [SUBSET (1 .. n) -> Nat] : IsSums(g, numbers, n)
           I == {n \in 0 .. Len(numbers) : ~ has(n)}
<1>0. Len(numbers) \in Nat
  BY LenProperties
<1>1. has(0)
  <2> DEFINE g == [s \in SUBSET (1 .. 0) |-> 0]
  <2>1. \A s \in SUBSET (1 .. 0) : s = {}
    BY SMT
  <2>2. g = [s \in SUBSET (1 .. 0) |->
               IF s = {} THEN 0 ELSE g[s \ {Max(s)}] + numbers[Max(s)]]
    BY <2>1, Zenon
  <2>3. g \in [SUBSET (1 .. 0) -> Nat]
    BY SMT
  <2> HIDE DEF g
  <2>4. QED
    BY <2>2, <2>3, Zenon DEF IsSums
<1>2. ASSUME NEW n \in Nat, n + 1 <= Len(numbers), has(n)
      PROVE  has(n + 1)
  BY <1>2, SumsExtended, Zenon
<1> HIDE DEF has
<1>3. CASE I # {}
  <2>1. I \in SUBSET Nat
    BY <1>0, SMT
  <2>2. PICK k \in I : \A i \in I : k <= i
    BY <1>3, <2>1, LeastOf, Zenon
  <2>3. k \in 0 .. Len(numbers) /\ ~ has(k)
    BY <2>2, Zenon
  <2>4. k # 0
    BY <1>1, <2>3, Zenon
  <2>5. /\ k - 1 \in 0 .. Len(numbers) /\ k - 1 \in Nat /\ ~ (k <= k - 1)
        /\ k - 1 + 1 = k /\ k <= Len(numbers)
    BY <1>0, <2>3, <2>4, SMT
  <2>6. has(k - 1)
    BY <2>2, <2>5, Zenon
  <2> DEFINE p == k - 1
  <2>7. p \in Nat /\ p + 1 = k /\ p + 1 <= Len(numbers) /\ has(p)
    BY <2>5, <2>6, Zenon
  <2> HIDE DEF p
  <2>8. QED
    BY <1>2, <2>3, <2>7, Zenon
<1>4. CASE I = {}
  <2>1. Len(numbers) \in 0 .. Len(numbers)
    BY <1>0, SMT
  <2>2. QED
    BY <1>4, <2>1, Zenon DEF has
<1>5. QED
  BY <1>3, <1>4

(* The fold of the numbers by addition is their sum, a natural number. *)
LEMMA SumOf ==
  ASSUME NEW numbers \in Seq(Nat)
  PROVE  \E g \in [SUBSET (1 .. Len(numbers)) -> Nat] :
           /\ IsSums(g, numbers, Len(numbers))
           /\ FoldLeft(LAMBDA a, b : a + b, 0, numbers) = g[1 .. Len(numbers)]
<1> DEFINE g == CHOOSE iter : iter = [s \in SUBSET DOMAIN numbers |->
                  IF s = {} THEN 0 ELSE iter[s \ {Max(s)}] + numbers[Max(s)]]
           n == Len(numbers)
<1>1. n \in Nat /\ DOMAIN numbers = 1 .. n
  BY LenProperties
<1>2. FoldLeft(LAMBDA a, b : a + b, 0, numbers) = g[DOMAIN numbers]
  BY Zenon DEF FoldLeft, MapThenFoldSet
<1>3. PICK h \in [SUBSET (1 .. n) -> Nat] : IsSums(h, numbers, n)
  BY SumsExist, Zenon
<1>4. IsSums(g, numbers, n)
  <2>1. h = [s \in SUBSET DOMAIN numbers |->
               IF s = {} THEN 0 ELSE h[s \ {Max(s)}] + numbers[Max(s)]]
    BY <1>1, <1>3, Zenon DEF IsSums
  <2>2. g = [s \in SUBSET DOMAIN numbers |->
               IF s = {} THEN 0 ELSE g[s \ {Max(s)}] + numbers[Max(s)]]
    BY <2>1, Zenon
  <2> HIDE DEF g
  <2>3. QED
    BY <1>1, <2>2, Zenon DEF IsSums
<1> HIDE DEF g, n
<1>5. /\ {} \in SUBSET (1 .. n)
      /\ \A s \in SUBSET (1 .. n) :
           /\ g[s] = IF s = {} THEN 0 ELSE g[s \ {Max(s)}] + numbers[Max(s)]
           /\ h[s] = IF s = {} THEN 0 ELSE h[s \ {Max(s)}] + numbers[Max(s)]
  BY <1>3, <1>4, Zenon DEF IsSums
<1>6. \A s \in SUBSET (1 .. n) : g[s] = h[s]
  <2>1. g[{}] = h[{}]
    BY <1>5, Zenon
  <2>2. \A s \in SUBSET (1 .. n) :
          s # {} /\ g[s \ {Max(s)}] = h[s \ {Max(s)}] => g[s] = h[s]
    BY <1>5, Zenon
  <2>3. StepsAgree(g, h, n)
    BY <2>1, <2>2, Zenon DEF StepsAgree
  <2>4. QED
    BY <1>1, <2>3, SameOnSubsets, ZenonT(60)
<1>7. g \in [SUBSET (1 .. n) -> Nat]
  <2>1. g = [s \in SUBSET (1 .. n) |-> g[s]]
    BY <1>4, Zenon DEF IsSums
  <2>2. \A s \in SUBSET (1 .. n) : g[s] \in Nat
    BY <1>6, Zenon
  <2>3. QED
    BY <2>1, <2>2, Zenon
<1>8. QED
  BY <1>1, <1>2, <1>4, <1>7, Zenon DEF n

-----------------------------------------------------------------------------
(* The upload of a mail *)

(* One call of payload_reader (sms.cpp:108), for a mail and a buffer of any size:
   if what libcurl has is the mail's beginning, so it is after the call, longer
   by the buffer or up to the final NUL, and with nothing from beyond it. *)
THEOREM ReaderCopies ==
  ASSUME NEW S, NEW data \in Seq(S), NEW bufferSize \in Nat,
         NEW pos \in 0 .. Len(data) + 1
  PROVE  LET whole == data \o <<"NUL">>
             next == PayloadReader(data, [pos |-> pos, sent |-> SubSeq(whole, 1, pos)],
                                   bufferSize)
             end == IF pos + bufferSize < Len(whole) THEN pos + bufferSize ELSE Len(whole)
         IN  next.pos = end /\ next.sent = SubSeq(whole, 1, end)
<1> DEFINE whole == data \o <<"NUL">>
           carrier == [pos |-> pos, sent |-> SubSeq(whole, 1, pos)]
           next == PayloadReader(data, carrier, bufferSize)
           end == IF pos + bufferSize < Len(whole) THEN pos + bufferSize ELSE Len(whole)
           T == S \cup {"NUL"}
           copyLen == CopyLen(Len(data), pos, bufferSize)
           copied == [k \in 1 .. copyLen |->
                        IF pos + k <= Len(data) + 1 THEN whole[pos + k] ELSE "beyond"]
<1>1. /\ whole \in Seq(T) /\ Len(whole) = Len(data) + 1 /\ Len(data) \in Nat
  <2>1. data \in Seq(T) /\ <<"NUL">> \in Seq(T) /\ Len(<<"NUL">>) = 1
    BY SeqMonotonic
  <2>2. Len(data) \in Nat
    BY LenProperties
  <2> HIDE DEF T
  <2>3. QED
    BY <2>1, <2>2, ConcatProperties
<1>2. copyLen \in Nat /\ end = pos + copyLen /\ end \in pos .. Len(whole)
  <2> HIDE DEF whole
  <2>1. QED
    BY <1>1, SMT DEF CopyLen
<1>3. next.pos = end /\ next.sent = SubSeq(whole, 1, pos) \o copied
  <2> HIDE DEF end, whole
  <2>1. next.pos = pos + copyLen /\ next.sent = SubSeq(whole, 1, pos) \o copied
    BY DEF PayloadReader, Memory, whole
  <2>2. QED
    BY <1>2, <2>1, Zenon
<1> HIDE DEF whole, T, end, next, carrier
<1>4. copied = SubSeq(whole, pos + 1, end)
  <2>1. \A i \in pos + 1 .. end : whole[i] \in T
    BY <1>1, <1>2, ElementOfSeq, SMT
  <2>2. /\ SubSeq(whole, pos + 1, end) \in Seq(T)
        /\ Len(SubSeq(whole, pos + 1, end)) = copyLen
        /\ \A k \in 1 .. copyLen : SubSeq(whole, pos + 1, end)[k] = whole[pos + k]
    <3> HIDE DEF copyLen
    <3> DEFINE m == pos + 1
    <3>1. m \in Int /\ end \in Int /\ end - m + 1 = copyLen
          /\ (IF m <= end THEN end - m + 1 ELSE 0) = copyLen
      BY <1>1, <1>2, SMT
    <3>2. \A k \in 1 .. copyLen : m + k - 1 = pos + k
      BY <1>2, SMT
    <3>3. /\ SubSeq(whole, m, end) \in Seq(T)
          /\ Len(SubSeq(whole, m, end)) = IF m <= end THEN end - m + 1 ELSE 0
          /\ \A k \in 1 .. end - m + 1 : SubSeq(whole, m, end)[k] = whole[m + k - 1]
      <4>1. \A i \in m .. end : whole[i] \in T
        BY <2>1
      <4> HIDE DEF m
      <4>2. QED
        BY <3>1, <4>1, SubSeqProperties
    <3>4. QED
      BY <3>1, <3>2, <3>3, Zenon
  <2>3. \A k \in 1 .. copyLen : copied[k] = whole[pos + k] /\ whole[pos + k] \in T
    <3> HIDE DEF copyLen
    <3>1. \A k \in 1 .. copyLen : pos + k \in pos + 1 .. end /\ pos + k <= Len(data) + 1
      BY <1>1, <1>2, SMT
    <3>2. QED
      BY <2>1, <3>1, Zenon
  <2>4. copied \in Seq(T) /\ Len(copied) = copyLen
    <3> HIDE DEF copyLen
    <3>1. copied \in [1 .. copyLen -> T]
      BY <2>3
    <3>2. QED
      BY <1>2, <3>1, SeqDef
  <2> HIDE DEF copied, copyLen
  <2>5. QED
    BY <2>2, <2>3, <2>4, SeqEqual
<1>5. SubSeq(whole, 1, pos) \o SubSeq(whole, pos + 1, end) = SubSeq(whole, 1, end)
  <2>1. 1 \in 1 .. Len(whole) + 1 /\ pos \in 1 - 1 .. Len(whole) /\ end \in pos .. Len(whole)
    BY <1>1, <1>2, SMT
  <2>2. QED
    BY <1>1, <2>1, ConcatAdjacentSubSeq
<1>6. QED
  BY <1>3, <1>4, <1>5, Zenon DEF whole, end, next, carrier

Total(numbers) == FoldLeft(LAMBDA a, b : a + b, 0, numbers)

Least(i, j) == IF i < j THEN i ELSE j

(* MailIsUploaded for any mail and any list of buffers (payload_reader,
   sms.cpp:108, called by curl_easy_perform for one buffer after the other):
   libcurl has the beginning of the mail and its NUL, as much of them as the
   buffers hold, however the upload was cut into buffers. *)
THEOREM UploadComplete ==
  ASSUME NEW S, NEW data \in Seq(S), NEW buffers \in Seq(Nat)
  PROVE  Uploaded(data, buffers).sent
           = SubSeq(data \o <<"NUL">>, 1, Least(Total(buffers), Len(data \o <<"NUL">>)))
<1> DEFINE whole == data \o <<"NUL">>
           n == Len(buffers)
           carrier(pos) == [pos |-> pos, sent |-> SubSeq(whole, 1, pos)]
           start == [pos |-> 0, sent |-> <<>>]
           u == CHOOSE iter : iter = [s \in SUBSET DOMAIN buffers |->
                  IF s = {} THEN start
                  ELSE PayloadReader(data, iter[s \ {Max(s)}], buffers[Max(s)])]
<1>1. n \in Nat /\ DOMAIN buffers = 1 .. n
  BY LenProperties
<1>2. Uploaded(data, buffers) = u[DOMAIN buffers]
  BY Zenon DEF Uploaded, FoldLeft, MapThenFoldSet
<1>3. /\ Len(whole) \in Nat /\ Len(whole) = Len(data) + 1 /\ SubSeq(whole, 1, 0) = <<>>
  <2> DEFINE T == S \cup {"NUL"}
  <2>1. data \in Seq(T) /\ <<"NUL">> \in Seq(T) /\ Len(<<"NUL">>) = 1
    BY SeqMonotonic
  <2>2. Len(data) \in Nat
    BY LenProperties
  <2> HIDE DEF T
  <2>3. whole \in Seq(T) /\ Len(whole) = Len(data) + 1
    BY <2>1, <2>2, ConcatProperties
  <2>4. SubSeq(whole, 1, 0) = <<>>
    BY <2>3, SubSeqEmpty, SMT
  <2>5. QED
    BY <2>2, <2>3, <2>4, SMT
<1>4. PICK sums \in [SUBSET (1 .. n) -> Nat] :
        IsSums(sums, buffers, n) /\ Total(buffers) = sums[1 .. n]
  BY SumOf, Zenon DEF Total
<1> HIDE DEF u, start, carrier, whole, n
<1> DEFINE pos(s) == Least(sums[s], Len(whole))
           h == [s \in SUBSET (1 .. n) |-> carrier(pos(s))]
           next(f, s) == IF s = {} THEN start
                         ELSE PayloadReader(data, f[s \ {Max(s)}], buffers[Max(s)])
<1>5. ASSUME NEW s \in SUBSET (1 .. n), s # {}
      PROVE  PayloadReader(data, carrier(pos(s \ {Max(s)})), buffers[Max(s)])
               = carrier(pos(s))
  <2> DEFINE t == s \ {Max(s)}
             p == pos(t)
             size == buffers[Max(s)]
  <2>1. Max(s) \in 1 .. n /\ t \in SUBSET (1 .. n)
    BY <1>1, <1>5, WithoutMax, Zenon
  <2>2. size \in Nat
    BY <2>1, ElementOfSeq, Zenon DEF n
  <2>3. sums[s] = sums[t] + size /\ sums[t] \in Nat
    BY <1>4, <1>5, <2>1, Zenon DEF IsSums
  <2>4. p \in 0 .. Len(data) + 1
    <3> HIDE DEF t
    <3>1. QED
      BY <1>3, <2>3, SMT DEF Least
  <2>5. pos(s) = IF p + size < Len(whole) THEN p + size ELSE Len(whole)
    <3> HIDE DEF t, size
    <3>1. QED
      BY <1>3, <2>2, <2>3, SMT DEF Least
  <2>6. /\ PayloadReader(data, carrier(p), size).pos = pos(s)
        /\ PayloadReader(data, carrier(p), size).sent = SubSeq(whole, 1, pos(s))
    <3> DEFINE end == IF p + size < Len(whole) THEN p + size ELSE Len(whole)
    <3> HIDE DEF p, size
    <3>1. /\ PayloadReader(data, carrier(p), size).pos = end
          /\ PayloadReader(data, carrier(p), size).sent = SubSeq(whole, 1, end)
      BY <2>2, <2>4, ReaderCopies, Zenon DEF carrier, whole
    <3>2. QED
      BY <2>5, <3>1, Zenon DEF p, size
  <2>7. \A c, k : PayloadReader(data, c, k)
                    = [pos |-> PayloadReader(data, c, k).pos,
                       sent |-> PayloadReader(data, c, k).sent]
    BY DEF PayloadReader
  <2> HIDE DEF p, size, pos
  <2>8. PayloadReader(data, carrier(p), size) = carrier(pos(s))
    BY <2>6, <2>7, Zenon DEF carrier
  <2>9. QED
    BY <2>8, Zenon DEF p, size
<1>6. ASSUME NEW s \in SUBSET (1 .. n)
      PROVE  h[s] = next(h, s)
  <2>1. CASE s = {}
    <3>1. sums[s] = 0
      BY <1>4, <2>1, Zenon DEF IsSums
    <3>2. pos(s) = 0
      BY <1>3, <3>1, SMT DEF Least
    <3>3. carrier(0) = start
      BY <1>3, Zenon DEF carrier, start
    <3> HIDE DEF pos
    <3>4. QED
      BY <2>1, <3>2, <3>3, Zenon
  <2>2. CASE s # {}
    <3>1. s \ {Max(s)} \in SUBSET (1 .. n)
      BY <1>1, <2>2, WithoutMax, Zenon
    <3> HIDE DEF pos
    <3>2. QED
      BY <1>5, <2>2, <3>1, Zenon
  <2>3. QED
    BY <2>1, <2>2, Zenon
<1>7. h = [s \in SUBSET DOMAIN buffers |-> next(h, s)]
  <2>1. h = [s \in SUBSET (1 .. n) |-> h[s]]
    BY Zenon
  <2> HIDE DEF h, next
  <2>2. QED
    BY <1>1, <1>6, <2>1, Zenon
<1>8. u = [s \in SUBSET DOMAIN buffers |-> next(u, s)]
  <2> HIDE DEF h
  <2>1. QED
    BY <1>7, Zenon DEF u
<1>9. \A s \in SUBSET (1 .. n) : u[s] = h[s]
  <2> DEFINE x == h
  <2>1. \A s \in SUBSET (1 .. n) : u[s] = next(u, s) /\ x[s] = next(x, s)
    <3> HIDE DEF next, h
    <3>1. QED
      BY <1>1, <1>7, <1>8, Zenon
  <2> HIDE DEF h, x
  <2>2. u[{}] = x[{}]
    <3>1. {} \in SUBSET (1 .. n)
      BY Zenon
    <3>2. QED
      BY <2>1, <3>1, Zenon
  <2>3. \A s \in SUBSET (1 .. n) :
          s # {} /\ u[s \ {Max(s)}] = x[s \ {Max(s)}] => u[s] = x[s]
    BY <2>1, Zenon
  <2>4. StepsAgree(u, x, n)
    BY <2>2, <2>3, Zenon DEF StepsAgree
  <2>5. QED
    BY <1>1, <2>4, SameOnSubsets, ZenonT(60) DEF x
<1>10. Uploaded(data, buffers) = carrier(pos(1 .. n))
  <2>1. 1 .. n \in SUBSET (1 .. n)
    BY Zenon
  <2> HIDE DEF pos
  <2>2. QED
    BY <1>1, <1>2, <1>9, <2>1, Zenon
<1>11. Uploaded(data, buffers).sent = SubSeq(whole, 1, pos(1 .. n))
  <2>1. \A p, q : [pos |-> p, sent |-> q].sent = q
    OBVIOUS
  <2> HIDE DEF pos
  <2>2. QED
    BY <1>10, <2>1, Zenon DEF carrier
<1>12. QED
  BY <1>4, <1>11, Zenon DEF whole

-----------------------------------------------------------------------------
(* The line ends of a mail *)

(* What send_email makes of one character more *)
Piece(text, c) ==
  IF c = "LF" /\ (text = <<>> \/ text[Len(text)] # "CR") THEN <<"CR", "LF">> ELSE <<c>>

LEMMA TwoMore ==
  ASSUME NEW S, NEW seq \in Seq(S), NEW a \in S, NEW b \in S
  PROVE  seq \o <<a, b>> = Append(Append(seq, a), b)
<1> DEFINE two == <<a, b>>
           one == Append(seq, a)
           both == Append(one, b)
           n == Len(seq)
<1>1. two \in Seq(S) /\ Len(two) = 2 /\ two[1] = a /\ two[2] = b /\ n \in Nat
  BY LenProperties
<1>2. /\ one \in Seq(S) /\ Len(one) = n + 1 /\ one[n + 1] = a
      /\ \A i \in 1 .. n : one[i] = seq[i]
  BY AppendProperties
<1> HIDE DEF one, two
<1>3. /\ both \in Seq(S) /\ Len(both) = Len(one) + 1 /\ both[Len(one) + 1] = b
      /\ \A i \in 1 .. Len(one) : both[i] = one[i]
  BY <1>2, AppendProperties
<1>4. /\ seq \o two \in Seq(S) /\ Len(seq \o two) = n + Len(two)
      /\ \A i \in 1 .. n + Len(two) :
           (seq \o two)[i] = IF i <= n THEN seq[i] ELSE two[i - n]
  BY <1>1, ConcatProperties
<1> HIDE DEF both, n
<1> DEFINE joined == seq \o two
<1>5. joined \in Seq(S) /\ Len(joined) = Len(both)
  BY <1>1, <1>2, <1>3, <1>4, SMT
<1>6. ASSUME NEW i \in 1 .. Len(both)
      PROVE  joined[i] = both[i]
  <2>1. i \in 1 .. n \/ i = n + 1 \/ i = n + 2
    BY <1>1, <1>2, <1>3, SMT
  <2>2. joined[i] = IF i <= n THEN seq[i] ELSE two[i - n]
    <3>1. i \in 1 .. n + Len(two)
      BY <1>1, <1>2, <1>3, SMT
    <3>2. QED
      BY <1>4, <3>1, Zenon
  <2> HIDE DEF joined
  <2>3. CASE i \in 1 .. n
    BY <1>1, <1>2, <1>3, <2>2, <2>3, SMT
  <2>4. CASE i = n + 1
    BY <1>1, <1>2, <1>3, <2>2, <2>4, SMT
  <2>5. CASE i = n + 2
    BY <1>1, <1>2, <1>3, <2>2, <2>5, SMT
  <2>6. QED
    BY <2>1, <2>3, <2>4, <2>5, Zenon
<1> HIDE DEF joined
<1>7. joined = both
  BY <1>3, <1>5, <1>6, SeqEqual
<1>8. QED
  BY <1>7, Zenon DEF joined, both, one, two

LEMMA NormalisedAppend ==
  ASSUME NEW S, "CR" \in S, "LF" \in S, NEW text \in Seq(S), NEW c \in S
  PROVE  /\ Normalised(<<>>) = <<>>
         /\ Normalised(text) \in Seq(S)
         /\ Normalised(Append(text, c)) = Normalised(text) \o Piece(text, c)
<1> DEFINE piece(t, i) == IF t[i] = "LF" /\ (i = 1 \/ t[i - 1] # "CR")
                          THEN <<"CR", "LF">> ELSE <<t[i]>>
           pieces(t) == [i \in DOMAIN t |-> piece(t, i)]
           more == Append(text, c)
           T == Seq(S)
<1>1. \A t : Normalised(t) = FlattenSeq(pieces(t))
  BY Zenon DEF Normalised
<1>2. /\ more \in Seq(S) /\ Len(more) = Len(text) + 1 /\ Len(text) \in Nat
      /\ more[Len(text) + 1] = c /\ \A i \in 1 .. Len(text) : more[i] = text[i]
  BY AppendProperties, LenProperties
<1>3. ASSUME NEW t \in Seq(S)
      PROVE  pieces(t) \in Seq(T) /\ Len(pieces(t)) = Len(t) /\ DOMAIN t = 1 .. Len(t)
  <2>1. DOMAIN t = 1 .. Len(t) /\ Len(t) \in Nat /\ \A i \in 1 .. Len(t) : t[i] \in S
    BY LenProperties, ElementOfSeq
  <2>2. \A d \in S : <<d>> \in T /\ <<"CR", "LF">> \in T
    BY SMT
  <2> HIDE DEF T
  <2>3. \A i \in DOMAIN t : piece(t, i) \in T
    BY <2>1, <2>2, Zenon
  <2> HIDE DEF piece
  <2>4. pieces(t) \in [1 .. Len(t) -> T]
    BY <2>1, <2>3, Zenon
  <2> HIDE DEF pieces
  <2>5. pieces(t) \in Seq(T) /\ Len(pieces(t)) = Len(t)
    BY <2>1, <2>4, FunctionsAreSeqs, Zenon
  <2>6. QED
    BY <2>1, <2>5, Zenon
<1>4. Normalised(<<>>) = <<>>
  <2>1. pieces(<<>>) = <<>>
    BY SMT
  <2>2. FlattenSeq(<<>>) = <<>>
    BY EmptySeq, FlattenAppend, Zenon
  <2>3. QED
    BY <1>1, <2>1, <2>2, Zenon
<1>5. Piece(text, c) \in Seq(S)
  BY SMT DEF Piece
<1>6. pieces(more) = Append(pieces(text), Piece(text, c))
  <2>1. Piece(text, c) \in T
    BY <1>5, Zenon
  <2>2. /\ pieces(text) \in Seq(T) /\ Len(pieces(text)) = Len(text) /\ DOMAIN text = 1 .. Len(text)
        /\ pieces(more) \in Seq(T) /\ Len(pieces(more)) = Len(more) /\ DOMAIN more = 1 .. Len(more)
    BY <1>2, <1>3, Zenon
  <2>3. \A i \in 1 .. Len(text) : pieces(more)[i] = pieces(text)[i]
    <3> SUFFICES ASSUME NEW i \in 1 .. Len(text)
                 PROVE  piece(more, i) = piece(text, i)
      <4>1. \A i \in 1 .. Len(text) : i \in 1 .. Len(more)
        BY <1>2, SMT
      <4> HIDE DEF piece
      <4>2. QED
        BY <2>2, <4>1, Zenon
    <3>1. more[i] = text[i] /\ (i # 1 => more[i - 1] = text[i - 1])
      <4>1. i # 1 => i - 1 \in 1 .. Len(text)
        BY <1>2, SMT
      <4> HIDE DEF more
      <4>2. QED
        BY <1>2, <4>1, Zenon
    <3> HIDE DEF more
    <3>2. QED
      BY <3>1, Zenon
  <2>4. pieces(more)[Len(text) + 1] = Piece(text, c)
    <3>1. Len(text) + 1 \in 1 .. Len(more)
      BY <1>2, SMT
    <3>2. text = <<>> <=> Len(text) + 1 = 1
      BY <1>2, EmptySeq, SMT
    <3>3. text # <<>> => more[(Len(text) + 1) - 1] = text[Len(text)]
      <4>1. text # <<>> => Len(text) \in 1 .. Len(text) /\ (Len(text) + 1) - 1 = Len(text)
        BY <1>2, <3>2, SMT
      <4> HIDE DEF more
      <4>2. QED
        BY <1>2, <4>1, Zenon
    <3> HIDE DEF more
    <3> DEFINE k == Len(text) + 1
    <3>4. piece(more, k) = Piece(text, c)
      <4>1. more[k] = c /\ (text = <<>> <=> k = 1) /\ (text # <<>> => more[k - 1] = text[Len(text)])
        BY <1>2, <3>2, <3>3, Zenon
      <4> HIDE DEF k
      <4>2. CASE text = <<>>
        BY <4>1, <4>2, Zenon DEF Piece
      <4>3. CASE text # <<>>
        BY <4>1, <4>3, Zenon DEF Piece
      <4>4. QED
        BY <4>2, <4>3, Zenon
    <3> HIDE DEF piece
    <3>5. QED
      BY <2>2, <3>1, <3>4, Zenon
  <2> HIDE DEF pieces, T, more
  <2> DEFINE a == Append(pieces(text), Piece(text, c))
  <2>5. /\ a \in Seq(T) /\ Len(a) = Len(more) /\ a[Len(text) + 1] = Piece(text, c)
        /\ \A i \in 1 .. Len(text) : a[i] = pieces(text)[i]
    BY <1>2, <2>1, <2>2, AppendProperties
  <2> HIDE DEF a
  <2>6. \A i \in 1 .. Len(more) : i = Len(text) + 1 \/ i \in 1 .. Len(text)
    BY <1>2, SMT
  <2>7. \A i \in 1 .. Len(more) : a[i] = pieces(more)[i]
    BY <2>3, <2>4, <2>5, <2>6, Zenon
  <2>8. QED
    BY <2>2, <2>5, <2>7, SeqEqual, Zenon DEF a
<1>7. /\ FlattenSeq(pieces(text)) \in Seq(S)
      /\ FlattenSeq(Append(pieces(text), Piece(text, c)))
           = FlattenSeq(pieces(text)) \o Piece(text, c)
  <2>1. pieces(text) \in Seq(Seq(S))
    BY <1>3, Zenon
  <2> HIDE DEF pieces
  <2>2. QED
    BY <1>5, <2>1, FlattenAppend, Zenon
<1>8. QED
  BY <1>1, <1>4, <1>6, <1>7, Zenon

LEMMA UnreturnedAppend ==
  ASSUME NEW S, NEW text \in Seq(S), NEW c \in S
  PROVE  /\ Unreturned(<<>>) = <<>>
         /\ Unreturned(text) \in Seq(S)
         /\ Unreturned(Append(text, c))
              = IF c = "CR" THEN Unreturned(text) ELSE Append(Unreturned(text), c)
<1> DEFINE kept(d) == IF d = "CR" THEN <<>> ELSE <<d>>
           pieces(t) == [i \in DOMAIN t |-> kept(t[i])]
           more == Append(text, c)
           T == Seq(S)
<1>1. \A t : Unreturned(t) = FlattenSeq(pieces(t))
  BY Zenon DEF Unreturned
<1>2. /\ more \in Seq(S) /\ Len(more) = Len(text) + 1 /\ Len(text) \in Nat
      /\ more[Len(text) + 1] = c /\ \A i \in 1 .. Len(text) : more[i] = text[i]
  BY AppendProperties, LenProperties
<1>3. \A d \in S : kept(d) \in T
  BY SMT
<1> HIDE DEF kept
<1>4. ASSUME NEW t \in Seq(S)
      PROVE  /\ pieces(t) \in Seq(T) /\ Len(pieces(t)) = Len(t)
             /\ \A i \in 1 .. Len(t) : pieces(t)[i] = kept(t[i])
  <2>1. DOMAIN t = 1 .. Len(t) /\ Len(t) \in Nat /\ \A i \in 1 .. Len(t) : t[i] \in S
    BY LenProperties, ElementOfSeq
  <2> HIDE DEF T
  <2>2. /\ pieces(t) \in [1 .. Len(t) -> T]
        /\ \A i \in 1 .. Len(t) : pieces(t)[i] = kept(t[i])
    BY <1>3, <2>1, Zenon
  <2> HIDE DEF pieces
  <2>3. QED
    BY <2>1, <2>2, FunctionsAreSeqs, Zenon
<1>5. Unreturned(<<>>) = <<>>
  <2>1. pieces(<<>>) = <<>>
    BY SMT
  <2>2. FlattenSeq(<<>>) = <<>>
    BY EmptySeq, FlattenAppend, Zenon
  <2>3. QED
    BY <1>1, <2>1, <2>2, Zenon
<1>6. kept(c) \in Seq(S)
  BY <1>3, Zenon
<1>7. pieces(more) = Append(pieces(text), kept(c))
  <2>1. kept(c) \in T
    BY <1>6, Zenon
  <2>2. /\ pieces(text) \in Seq(T) /\ Len(pieces(text)) = Len(text)
        /\ \A i \in 1 .. Len(text) : pieces(text)[i] = kept(text[i])
        /\ pieces(more) \in Seq(T) /\ Len(pieces(more)) = Len(more)
        /\ \A i \in 1 .. Len(more) : pieces(more)[i] = kept(more[i])
    BY <1>2, <1>4, Zenon
  <2> HIDE DEF pieces, T, more
  <2> DEFINE a == Append(pieces(text), kept(c))
  <2>3. /\ a \in Seq(T) /\ Len(a) = Len(more) /\ a[Len(text) + 1] = kept(c)
        /\ \A i \in 1 .. Len(text) : a[i] = pieces(text)[i]
    BY <1>2, <2>1, <2>2, AppendProperties
  <2> HIDE DEF a
  <2>4. \A i \in 1 .. Len(more) : i = Len(text) + 1 \/ i \in 1 .. Len(text)
    BY <1>2, SMT
  <2>5. \A i \in 1 .. Len(more) : a[i] = pieces(more)[i]
    BY <1>2, <2>2, <2>3, <2>4, Zenon
  <2>6. QED
    BY <2>2, <2>3, <2>5, SeqEqual, Zenon DEF a
<1>8. /\ FlattenSeq(pieces(text)) \in Seq(S)
      /\ FlattenSeq(Append(pieces(text), kept(c))) = FlattenSeq(pieces(text)) \o kept(c)
  <2>1. pieces(text) \in Seq(Seq(S))
    BY <1>4, Zenon
  <2> HIDE DEF pieces
  <2>2. QED
    BY <1>6, <2>1, FlattenAppend, Zenon
<1>9. Unreturned(more) = Unreturned(text) \o kept(c) /\ Unreturned(text) \in Seq(S)
  BY <1>1, <1>7, <1>8, Zenon
<1>10. Unreturned(text) \o kept(c)
         = IF c = "CR" THEN Unreturned(text) ELSE Append(Unreturned(text), c)
  BY <1>9, AppendIsConcat, ConcatEmptySeq, Zenon DEF kept
<1>11. QED
  BY <1>5, <1>9, <1>10, Zenon

(* What one character more changes in each of the things compared *)
Ended(text) == \A i \in DOMAIN text : text[i] = "LF" => i > 1 /\ text[i - 1] = "CR"

(* The invariant of the loop of send_email *)
LineEndsKept(text) ==
  LET new == Normalised(text)
  IN  /\ text = <<>> <=> new = <<>>
      /\ text # <<>> => new[Len(new)] = text[Len(text)]
      /\ Ended(new)
      /\ Unreturned(new) = Unreturned(text)
      /\ IsFiniteSet(BareLineFeeds(text))
      /\ Len(new) = Len(text) + Cardinality(BareLineFeeds(text))

LEMMA NoneBare ==
  ASSUME NEW S, NEW text \in Seq(S)
  PROVE  Ended(text) <=> BareLineFeeds(text) = {}
<1>1. DOMAIN text = 1 .. Len(text) /\ Len(text) \in Nat
  BY LenProperties
<1>2. \A i \in DOMAIN text : i > 1 <=> ~ (i = 1)
  BY <1>1, SMT
<1>3. QED
  BY <1>2, Zenon DEF Ended, BareLineFeeds

LEMMA EndedStays ==
  ASSUME NEW S, NEW text \in Seq(S), NEW c \in S
  PROVE  Ended(Append(text, c))
           <=> Ended(text) /\ (c = "LF" => text # <<>> /\ text[Len(text)] = "CR")
<1> DEFINE more == Append(text, c)
           n == Len(text)
<1>1. /\ more \in Seq(S) /\ n \in Nat /\ DOMAIN more = 1 .. n + 1 /\ DOMAIN text = 1 .. n
      /\ more[n + 1] = c /\ \A i \in 1 .. n : more[i] = text[i]
  <2>1. /\ more \in Seq(S) /\ Len(more) = n + 1 /\ more[n + 1] = c
        /\ \A i \in 1 .. n : more[i] = text[i]
    BY AppendProperties
  <2>2. DOMAIN more = 1 .. Len(more) /\ n \in Nat /\ DOMAIN text = 1 .. n
    BY <2>1, LenProperties
  <2>3. QED
    BY <2>1, <2>2, Zenon
<1>2. text # <<>> <=> n # 0
  BY EmptySeq
<1> HIDE DEF more, n
<1> DEFINE ok(t, i) == t[i] = "LF" => i > 1 /\ t[i - 1] = "CR"
<1>3. \A i \in 1 .. n : ok(more, i) <=> ok(text, i)
  <2>1. \A i \in 1 .. n : i > 1 => i - 1 \in 1 .. n
    BY <1>1, SMT
  <2>2. QED
    BY <1>1, <2>1, Zenon
<1>4. ok(more, n + 1) <=> (c = "LF" => text # <<>> /\ text[n] = "CR")
  <2>1. /\ n + 1 > 1 <=> n # 0
        /\ (n + 1) - 1 = n /\ (n # 0 => n \in 1 .. n)
    BY <1>1, SMT
  <2>2. QED
    BY <1>1, <1>2, <2>1, Zenon
<1>5. \A i : i \in 1 .. n + 1 <=> i \in 1 .. n \/ i = n + 1
  BY <1>1, SMT
<1> HIDE DEF ok
<1>6. Ended(more) <=> (\A i \in 1 .. n : ok(text, i)) /\ ok(more, n + 1)
  <2>1. Ended(more) <=> \A i \in 1 .. n + 1 : ok(more, i)
    BY <1>1, Zenon DEF Ended, ok
  <2>2. QED
    BY <1>3, <1>5, <2>1, Zenon
<1>7. Ended(text) <=> \A i \in 1 .. n : ok(text, i)
  BY <1>1, Zenon DEF Ended, ok
<1>8. QED
  BY <1>4, <1>6, <1>7, Zenon DEF more, n

LEMMA BareMore ==
  ASSUME NEW S, NEW text \in Seq(S), NEW c \in S
  PROVE  BareLineFeeds(Append(text, c))
           = IF c = "LF" /\ (text = <<>> \/ text[Len(text)] # "CR")
             THEN BareLineFeeds(text) \cup {Len(text) + 1} ELSE BareLineFeeds(text)
<1> DEFINE more == Append(text, c)
           n == Len(text)
           bare(t, i) == t[i] = "LF" /\ (i = 1 \/ t[i - 1] # "CR")
<1>1. /\ more \in Seq(S) /\ n \in Nat /\ DOMAIN more = 1 .. n + 1 /\ DOMAIN text = 1 .. n
      /\ more[n + 1] = c /\ \A i \in 1 .. n : more[i] = text[i]
  <2>1. /\ more \in Seq(S) /\ Len(more) = n + 1 /\ more[n + 1] = c
        /\ \A i \in 1 .. n : more[i] = text[i]
    BY AppendProperties
  <2>2. DOMAIN more = 1 .. Len(more) /\ n \in Nat /\ DOMAIN text = 1 .. n
    BY <2>1, LenProperties
  <2>3. QED
    BY <2>1, <2>2, Zenon
<1>2. text = <<>> <=> n = 0
  BY EmptySeq
<1> HIDE DEF more, n
<1>3. \A i \in 1 .. n : bare(more, i) <=> bare(text, i)
  <2>1. \A i \in 1 .. n : i = 1 \/ i - 1 \in 1 .. n
    BY <1>1, SMT
  <2>2. QED
    BY <1>1, <2>1, Zenon
<1>4. bare(more, n + 1) <=> c = "LF" /\ (text = <<>> \/ text[n] # "CR")
  <2>1. /\ n + 1 = 1 <=> n = 0
        /\ (n + 1) - 1 = n /\ (n # 0 => n \in 1 .. n)
    BY <1>1, SMT
  <2>2. QED
    BY <1>1, <1>2, <2>1, Zenon
<1>5. \A i : i \in 1 .. n + 1 <=> i \in 1 .. n \/ i = n + 1
  BY <1>1, SMT
<1> HIDE DEF bare
<1>6. \A i : i \in BareLineFeeds(more) <=> i \in 1 .. n + 1 /\ bare(more, i)
  BY <1>1, Zenon DEF BareLineFeeds, bare
<1>7. \A i : i \in BareLineFeeds(text) <=> i \in 1 .. n /\ bare(text, i)
  BY <1>1, Zenon DEF BareLineFeeds, bare
<1>8. \A i : i \in BareLineFeeds(more)
               <=> i \in BareLineFeeds(text) \/ (i = n + 1 /\ bare(more, n + 1))
  BY <1>3, <1>5, <1>6, <1>7, Zenon
<1>9. CASE bare(more, n + 1)
  <2>1. BareLineFeeds(more) = BareLineFeeds(text) \cup {n + 1}
    BY <1>8, <1>9, Zenon
  <2>2. QED
    BY <1>4, <1>9, <2>1, Zenon DEF more, n
<1>10. CASE ~ bare(more, n + 1)
  <2>1. BareLineFeeds(more) = BareLineFeeds(text)
    BY <1>8, <1>10, Zenon
  <2>2. QED
    BY <1>4, <1>10, <2>1, Zenon DEF more, n
<1>11. QED
  BY <1>9, <1>10, Zenon

LEMMA KeptByOneMore ==
  ASSUME NEW S, "CR" \in S, "LF" \in S, NEW text \in Seq(S), NEW c \in S,
         LineEndsKept(text)
  PROVE  LineEndsKept(Append(text, c))
<1> DEFINE old == Normalised(text)
           new == Normalised(Append(text, c))
           more == Append(text, c)
           bare == c = "LF" /\ (text = <<>> \/ text[Len(text)] # "CR")
<1>1. old \in Seq(S) /\ new = old \o Piece(text, c)
  BY NormalisedAppend, Zenon
<1>2. /\ text = <<>> <=> old = <<>>
      /\ text # <<>> => old[Len(old)] = text[Len(text)]
      /\ Ended(old)
      /\ Unreturned(old) = Unreturned(text)
      /\ IsFiniteSet(BareLineFeeds(text))
      /\ Len(old) = Len(text) + Cardinality(BareLineFeeds(text))
  BY Zenon DEF LineEndsKept
<1>3. /\ more \in Seq(S) /\ more # <<>> /\ Len(more) = Len(text) + 1
      /\ more[Len(more)] = c /\ Len(text) \in Nat /\ Len(old) \in Nat
  <2>1. more \in Seq(S) /\ more # <<>> /\ Len(more) = Len(text) + 1 /\ more[Len(text) + 1] = c
    BY AppendProperties
  <2>2. Len(text) \in Nat /\ Len(old) \in Nat
    BY <1>1, LenProperties, Zenon
  <2> HIDE DEF more
  <2>3. QED
    BY <2>1, <2>2, Zenon
<1>4. Unreturned(more) = IF c = "CR" THEN Unreturned(text) ELSE Append(Unreturned(text), c)
  BY UnreturnedAppend, Zenon
<1>5. Cardinality(BareLineFeeds(text)) \in Nat
  BY <1>2, FS_CardinalityType, Zenon
<1> HIDE DEF old, new
<1>6. CASE bare
  <2> DEFINE half == Append(old, "CR")
  <2>1. half \in Seq(S) /\ new = Append(half, c)
    <3>1. new = old \o <<"CR", "LF">>
      BY <1>1, <1>6, Zenon DEF Piece
    <3>2. new = Append(half, "LF")
      <4> DEFINE cr == "CR"
                 lf == "LF"
      <4>1. cr \in S /\ lf \in S /\ new = old \o <<cr, lf>>
        BY <3>1, Zenon
      <4> HIDE DEF cr, lf
      <4>2. new = Append(Append(old, cr), lf)
        BY <1>1, <4>1, TwoMore
      <4>3. QED
        BY <4>2, Zenon DEF cr, lf
    <3>3. half \in Seq(S)
      BY <1>1, AppendProperties
    <3>4. QED
      BY <1>6, <3>2, <3>3, Zenon
  <2>2. /\ half # <<>> /\ Len(half) = Len(old) + 1 /\ half[Len(half)] = "CR"
    BY <1>1, AppendProperties
  <2>3. /\ new \in Seq(S) /\ new # <<>> /\ Len(new) = Len(half) + 1 /\ new[Len(new)] = c
    <3> HIDE DEF half
    <3>1. new \in Seq(S) /\ new # <<>> /\ Len(new) = Len(half) + 1 /\ new[Len(half) + 1] = c
      BY <2>1, AppendProperties, ZenonT(60)
    <3>2. QED
      BY <3>1, Zenon
  <2>4. Ended(half)
    <3>1. "CR" # "LF"
      OBVIOUS
    <3>2. QED
      BY <1>1, <1>2, <3>1, EndedStays, Zenon
  <2>5. Unreturned(half) = Unreturned(text)
    BY <1>1, <1>2, UnreturnedAppend, Zenon
  <2> HIDE DEF half
  <2>6. Ended(new)
    BY <2>1, <2>2, <2>4, EndedStays, Zenon
  <2>7. Unreturned(new) = Unreturned(more)
    <3>1. Unreturned(Append(half, c))
            = IF c = "CR" THEN Unreturned(half) ELSE Append(Unreturned(half), c)
      BY <2>1, UnreturnedAppend, Zenon
    <3>2. QED
      BY <1>4, <2>1, <2>5, <3>1, Zenon
  <2>8. BareLineFeeds(more) = BareLineFeeds(text) \cup {Len(text) + 1}
    BY <1>6, BareMore, Zenon
  <2>9. Len(text) + 1 \notin BareLineFeeds(text)
    <3>1. DOMAIN text = 1 .. Len(text)
      BY LenProperties
    <3>2. Len(text) + 1 \notin DOMAIN text
      BY <1>3, <3>1, SMT
    <3>3. QED
      BY <3>2, Zenon DEF BareLineFeeds
  <2>10. /\ IsFiniteSet(BareLineFeeds(more))
         /\ Cardinality(BareLineFeeds(more)) = Cardinality(BareLineFeeds(text)) + 1
    <3> DEFINE B == BareLineFeeds(text)
               m == Len(text) + 1
    <3>1. IsFiniteSet(B) /\ m \notin B /\ BareLineFeeds(more) = B \cup {m}
      BY <1>2, <2>8, <2>9, Zenon
    <3> HIDE DEF B, m, more
    <3>2. IsFiniteSet(B \cup {m}) /\ Cardinality(B \cup {m}) = Cardinality(B) + 1
      BY <3>1, FS_AddElement
    <3>3. QED
      BY <3>1, <3>2, Zenon DEF B
  <2>11. Len(new) = Len(more) + Cardinality(BareLineFeeds(more))
    BY <1>2, <1>3, <1>5, <2>2, <2>3, <2>10, SMT
  <2>12. QED
    BY <1>3, <2>3, <2>6, <2>7, <2>10, <2>11, Zenon DEF LineEndsKept, new
<1>7. CASE ~ bare
  <2>1. new = Append(old, c)
    <3>1. new = old \o <<c>>
      BY <1>1, <1>7, Zenon DEF Piece
    <3>2. QED
      BY <1>1, <3>1, AppendIsConcat, Zenon
  <2>2. new \in Seq(S) /\ new # <<>> /\ Len(new) = Len(old) + 1 /\ new[Len(new)] = c
    <3>1. new \in Seq(S) /\ new # <<>> /\ Len(new) = Len(old) + 1 /\ new[Len(old) + 1] = c
      BY <1>1, <2>1, AppendProperties
    <3>2. QED
      BY <3>1, Zenon
  <2>3. Ended(new)
    BY <1>1, <1>2, <1>7, <2>1, EndedStays, Zenon
  <2>4. Unreturned(new) = Unreturned(more)
    <3>1. Unreturned(Append(old, c))
            = IF c = "CR" THEN Unreturned(old) ELSE Append(Unreturned(old), c)
      BY <1>1, UnreturnedAppend, Zenon
    <3>2. QED
      BY <1>2, <1>4, <2>1, <3>1, Zenon
  <2>5. BareLineFeeds(more) = BareLineFeeds(text)
    BY <1>7, BareMore, Zenon
  <2>6. Len(new) = Len(more) + Cardinality(BareLineFeeds(more))
    BY <1>2, <1>3, <1>5, <2>2, <2>5, SMT
  <2>7. QED
    BY <1>2, <1>3, <2>2, <2>3, <2>4, <2>5, <2>6, Zenon DEF LineEndsKept, new
<1>8. QED
  BY <1>6, <1>7, Zenon

LEMMA AllKept ==
  ASSUME NEW S, "CR" \in S, "LF" \in S
  PROVE  \A text \in Seq(S) : LineEndsKept(text)
<1> DEFINE Good == {text \in Seq(S) : LineEndsKept(text)}
<1>1. <<>> \in Good
  <2>1. <<>> \in Seq(S) /\ Len(<<>>) = 0 /\ DOMAIN <<>> = {}
    BY EmptySeq, SMT
  <2>2. Normalised(<<>>) = <<>>
    BY <2>1, NormalisedAppend, Zenon
  <2>3. BareLineFeeds(<<>>) = {} /\ Ended(<<>>)
    BY <2>1, Zenon DEF BareLineFeeds, Ended
  <2>4. IsFiniteSet({}) /\ Cardinality({}) = 0
    BY FS_EmptySet
  <2>5. 0 = 0 + 0
    OBVIOUS
  <2>6. LineEndsKept(<<>>)
    BY <2>1, <2>2, <2>3, <2>4, <2>5, Zenon DEF LineEndsKept
  <2>7. QED
    BY <2>1, <2>6, Zenon
<1>2. ASSUME NEW text \in Seq(S), text \in Good, NEW c \in S
      PROVE  Append(text, c) \in Good
  <2>1. LineEndsKept(Append(text, c))
    BY <1>2, KeptByOneMore, Zenon
  <2>2. Append(text, c) \in Seq(S)
    BY AppendProperties
  <2>3. QED
    BY <2>1, <2>2, Zenon
<1> HIDE DEF Good
<1>3. \A text \in Seq(S) : text \in Good
  BY <1>1, <1>2, TextInduction, Zenon
<1>4. QED
  BY <1>3, Zenon DEF Good

(* A text whose line feeds all follow a carriage return is left as it is. *)
LEMMA EndedIsKept ==
  ASSUME NEW S, "CR" \in S, "LF" \in S
  PROVE  \A text \in Seq(S) : Ended(text) => Normalised(text) = text
<1> DEFINE Good == {text \in Seq(S) : Ended(text) => Normalised(text) = text}
<1>1. <<>> \in Good
  <2>1. <<>> \in Seq(S)
    BY EmptySeq, SMT
  <2>2. Normalised(<<>>) = <<>>
    BY <2>1, NormalisedAppend, Zenon
  <2>3. QED
    BY <2>1, <2>2, Zenon
<1>2. ASSUME NEW text \in Seq(S), text \in Good, NEW c \in S
      PROVE  Append(text, c) \in Good
  <2>1. Append(text, c) \in Seq(S)
    BY AppendProperties
  <2>2. ASSUME Ended(Append(text, c))
        PROVE  Normalised(Append(text, c)) = Append(text, c)
    <3>1. Ended(text) /\ (c = "LF" => text # <<>> /\ text[Len(text)] = "CR")
      BY <2>2, EndedStays, Zenon
    <3>2. Normalised(text) = text
      BY <1>2, <3>1, Zenon
    <3>3. Piece(text, c) = <<c>>
      BY <3>1, Zenon DEF Piece
    <3>4. Normalised(Append(text, c)) = text \o <<c>>
      BY <3>2, <3>3, NormalisedAppend, Zenon
    <3>5. QED
      BY <3>4, AppendIsConcat, Zenon
  <2>3. QED
    BY <2>1, <2>2, Zenon
<1> HIDE DEF Good
<1>3. \A text \in Seq(S) : text \in Good
  BY <1>1, <1>2, TextInduction, Zenon
<1>4. QED
  BY <1>3, Zenon DEF Good

(* LinesEndWithCrLf for a mail of any length in any alphabet (send_email,
   sms.cpp): whatever the order of its CRs and LFs, every line feed of what is
   sent follows a CR, sending it again would change nothing, the text without
   its CRs is the same, and it is longer by one CR for each bare line feed. *)
THEOREM LineEndsNormalised ==
  ASSUME NEW S, "CR" \in S, "LF" \in S, NEW text \in Seq(S)
  PROVE  /\ BareLineFeeds(Normalised(text)) = {}
         /\ Normalised(Normalised(text)) = Normalised(text)
         /\ Unreturned(Normalised(text)) = Unreturned(text)
         /\ Len(Normalised(text)) = Len(text) + Cardinality(BareLineFeeds(text))
<1>1. Normalised(text) \in Seq(S)
  BY NormalisedAppend, Zenon
<1>2. LineEndsKept(text)
  BY AllKept, Zenon
<1>3. Ended(Normalised(text))
  BY <1>2, Zenon DEF LineEndsKept
<1>4. BareLineFeeds(Normalised(text)) = {}
  BY <1>1, <1>3, NoneBare, Zenon
<1>5. Normalised(Normalised(text)) = Normalised(text)
  BY <1>1, <1>3, EndedIsKept, Zenon
<1>6. QED
  BY <1>2, <1>4, <1>5, Zenon DEF LineEndsKept

-----------------------------------------------------------------------------
(* The samples of the run are among the messages. *)

LEMMA MessagesAreAny == Messages \subseteq AnyMessage
<1>1. \A n \in Nat : \A t \in Upto(P!Characters, n) : t \in AnyText
  BY SeqDef DEF Upto, AnyText
<1>2. \A t \in Upto(P!Characters, 2) : t \in AnyText
  BY <1>1
<1>3. ASSUME NEW m \in Messages
      PROVE  m \in AnyMessage
  <2>1. /\ m \in [type : P!Digits, text : Upto(P!Characters, 2),
                  expected : {<<>>} \cup {<<e>> : e \in Upto(P!Characters, 2)}]
        /\ m.type = "2" => m.expected = <<>>
    BY <1>3 DEF Messages
  <2>2. m \in [type : P!Digits, text : AnyText,
               expected : {<<>>} \cup {<<e>> : e \in AnyText}]
    BY <1>2, <2>1
  <2>3. QED
    BY <2>1, <2>2 DEF AnyMessage
<1>4. QED
  BY <1>3

(* ParsedIfFramable for the samples *)
THEOREM MessagesParsed == Spec => []FramableIsParsed
<1>1. (sample.kind = "message" => sample \in PrintSamples) => FramableIsParsed
  <2>1. ASSUME NEW s \in PrintSamples
        PROVE  s.first \in AnyMessage
    BY MessagesAreAny DEF PrintSamples
  <2>2. QED
    BY <2>1, ParsedIfFramable, Zenon DEF FramableIsParsed
<1>2. QED
  BY <1>1, SamplesPicked, PTL

(* LinesRead for the samples *)
THEOREM LinesSeparated == Spec => []LinesAreSeparate
<1> DEFINE p == P!Message("1", <<"A">>, <<>>)
           q == P!Message("2", <<"A", ";">>, <<>>)
<1>1. p \in AnyMessage /\ q \in AnyMessage /\ Framable(p) /\ Framable(q)
  <2>1. /\ "A" \in P!Characters /\ ";" \in P!Characters
        /\ "1" \in P!Digits /\ "2" \in P!Digits /\ "1" # "2"
    BY Zenon DEF P!Characters, P!Digits
  <2>2. \A c, d \in P!Characters :
          /\ <<c>> \in AnyText /\ <<c>> # <<>> /\ <<c>>[1] = c
          /\ \A i \in DOMAIN <<c>> : <<c>>[i] = c
          /\ <<c, d>> \in AnyText /\ <<c, d>> # <<>> /\ <<c, d>>[1] = c
          /\ \A i \in DOMAIN <<c, d>> : <<c, d>>[i] \in {c, d}
    BY DEF AnyText
  <2> DEFINE letter == <<"A">>
             both == <<"A", ";">>
  <2>3. /\ letter \in AnyText /\ letter # <<>> /\ letter[1] = "A"
        /\ \A i \in DOMAIN letter : letter[i] = "A"
        /\ both \in AnyText /\ both # <<>> /\ both[1] = "A"
        /\ \A i \in DOMAIN both : both[i] \in {"A", ";"}
    BY <2>1, <2>2, Zenon
  <2>4. /\ p.type = "1" /\ p.text = letter /\ p.expected = <<>>
        /\ q.type = "2" /\ q.text = both /\ q.expected = <<>>
    BY Zenon DEF P!Message
  <2>5. "A" \notin P!Digits /\ "A" # "NL" /\ ";" # "NL" /\ "A" # ";"
    BY Zenon DEF P!Digits
  <2> HIDE DEF letter, both
  <2>6. p \in AnyMessage /\ q \in AnyMessage
    <3>1. \A type \in P!Digits, text \in AnyText : P!Message(type, text, <<>>) \in AnyMessage
      BY DEF P!Message, AnyMessage
    <3>2. QED
      BY <2>1, <2>3, <3>1, Zenon DEF letter, both
  <2> HIDE DEF p, q
  <2>7. Framable(p)
    BY <2>3, <2>4, <2>5, Zenon DEF Framable, HasNone
  <2>8. Framable(q)
    BY <2>1, <2>3, <2>4, <2>5, Zenon DEF Framable, HasNone
  <2>9. QED
    BY <2>6, <2>7, <2>8, Zenon
<1>2. (sample.kind = "pair" => sample \in PairSamples) => LinesAreSeparate
  <2>1. ASSUME NEW s \in PairSamples
        PROVE  s.first \in AnyMessage /\ s.second \in {p, q}
    BY MessagesAreAny, Zenon DEF PairSamples
  <2>2. ASSUME NEW s \in PairSamples
        PROVE  s.second \in AnyMessage /\ Framable(s.second)
    BY <1>1, <2>1, Zenon
  <2>3. QED
    BY <2>1, <2>2, LinesRead, Zenon DEF LinesAreSeparate
<1>3. QED
  BY <1>2, SamplesPicked, PTL

(* UploadComplete for the samples *)
THEOREM MailUploaded == Spec => []MailIsUploaded
<1>1. \A U : \A k \in Nat : \A t \in Upto(U, k) : t \in Seq(U)
  BY SeqDef DEF Upto
<1>2. (sample.kind = "mail" => sample \in MailSamples) => MailIsUploaded
  <2> SUFFICES ASSUME sample \in MailSamples, sample.kind = "mail"
               PROVE  MailIsUploaded
    BY Zenon DEF MailIsUploaded
  <2>1. sample.text \in Seq({"x", "CR", "LF"}) /\ sample.buffers \in Seq({1, 2, 3})
    <3>1. /\ sample.text \in Upto({"x", "CR", "LF"}, 4)
          /\ sample.buffers \in Upto({1, 2, 3}, 4)
      BY Zenon DEF MailSamples
    <3>2. 4 \in Nat
      OBVIOUS
    <3>3. QED
      BY <1>1, <3>1, <3>2, Zenon
  <2>2. sample.buffers \in Seq(Nat)
    BY <2>1, SeqMonotonic, SMT
  <2>3. QED
    BY <2>1, <2>2, UploadComplete, Zenon DEF MailIsUploaded, Total, Least
<1>3. QED
  BY <1>2, SamplesPicked, PTL

(* LineEndsNormalised for the samples *)
THEOREM LinesEnd == Spec => []LinesEndWithCrLf
<1> DEFINE C == {"x", "CR", "LF"}
<1>1. \A k \in Nat : \A t \in Upto(C, k) : t \in Seq(C)
  BY SeqDef DEF Upto
<1>2. (sample.kind = "mail" => sample \in MailSamples) => LinesEndWithCrLf
  <2> SUFFICES ASSUME sample \in MailSamples, sample.kind = "mail"
               PROVE  LinesEndWithCrLf
    BY Zenon DEF LinesEndWithCrLf
  <2>1. sample.text \in Upto(C, 4)
    BY Zenon DEF MailSamples
  <2>2. sample.text \in Seq(C)
    <3>1. 4 \in Nat
      OBVIOUS
    <3> HIDE DEF C
    <3>2. QED
      BY <1>1, <2>1, <3>1, Zenon
  <2>3. "CR" \in C /\ "LF" \in C
    OBVIOUS
  <2> HIDE DEF C
  <2>4. QED
    BY <2>2, <2>3, LineEndsNormalised, Zenon DEF LinesEndWithCrLf
<1>3. QED
  BY <1>2, SamplesPicked, PTL
=============================================================================
