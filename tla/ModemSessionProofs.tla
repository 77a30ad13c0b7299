-------------------------- MODULE ModemSessionProofs --------------------------
(***************************************************************************)
(* Proofs about ModemSession, for any SMSs, storage places, front-end      *)
(* commands and bounds, with late answers, codes at any time, failing      *)
(* mails and restarts: its type invariant, that no SMS is relayed twice,   *)
(* that no SMS is deleted before it was read out unless the modem loses    *)
(* power, that no request gets two prompts, and that its requests and its  *)
(* calls are those of CommandQueue and ModemCall.                          *)
(***************************************************************************)
EXTENDS ModemSession, SequenceTheorems, TLAPS

(* What the sequences of this module are about *)
Has(seq, x) == \E i \in DOMAIN seq : seq[i] = x

Single(seq, x) == \A i, j \in DOMAIN seq : seq[i] = x /\ seq[j] = x => i = j

InOrder(seq, x, y) == \A i, j \in DOMAIN seq : seq[i] = x /\ seq[j] = y => i < j

-----------------------------------------------------------------------------
(* Sequences *)

LEMMA TailFacts ==
  ASSUME NEW S, NEW seq \in Seq(S), seq # <<>>
  PROVE  /\ Tail(seq) \in Seq(S)
         /\ Head(seq) = seq[1] /\ Head(seq) \in S
         /\ Len(seq) \in Nat \ {0}
         /\ DOMAIN seq = 1 .. Len(seq)
         /\ DOMAIN Tail(seq) = 1 .. Len(seq) - 1
         /\ \A i \in DOMAIN Tail(seq) : Tail(seq)[i] = seq[i + 1]
<1>1. /\ Tail(seq) \in Seq(S) /\ Head(seq) \in S /\ Len(seq) \in Nat \ {0}
      /\ Len(Tail(seq)) = Len(seq) - 1
  BY HeadTailProperties, EmptySeq
<1>2. DOMAIN Tail(seq) = 1 .. Len(seq) - 1 /\ DOMAIN seq = 1 .. Len(seq)
  BY <1>1, LenProperties
<1>3. \A i \in DOMAIN Tail(seq) : Tail(seq)[i] = seq[i + 1]
  BY <1>1, <1>2, HeadTailProperties
<1>4. QED
  BY <1>1, <1>2, <1>3

LEMMA AppendFacts ==
  ASSUME NEW S, NEW seq \in Seq(S), NEW e \in S
  PROVE  /\ Append(seq, e) \in Seq(S)
         /\ Len(seq) \in Nat
         /\ DOMAIN seq = 1 .. Len(seq)
         /\ DOMAIN Append(seq, e) = 1 .. Len(seq) + 1
         /\ \A i \in DOMAIN seq : Append(seq, e)[i] = seq[i]
         /\ Append(seq, e)[Len(seq) + 1] = e
<1>1. /\ Append(seq, e) \in Seq(S) /\ Len(Append(seq, e)) = Len(seq) + 1
      /\ \A i \in 1 .. Len(seq) : Append(seq, e)[i] = seq[i]
      /\ Append(seq, e)[Len(seq) + 1] = e
  BY AppendProperties
<1>2. DOMAIN seq = 1 .. Len(seq) /\ Len(seq) \in Nat
      /\ DOMAIN Append(seq, e) = 1 .. Len(Append(seq, e))
  BY <1>1, LenProperties
<1>3. QED
  BY <1>1, <1>2

LEMMA HasNone ==
  ASSUME NEW x, NEW y
  PROVE  ~ Has(<<>>, x) /\ Single(<<>>, x) /\ InOrder(<<>>, x, y)
  BY DEF Has, Single, InOrder

LEMMA HasOther ==
  ASSUME NEW a, NEW x, a # x
  PROVE  /\ ~ Has(<<a>>, x) /\ Single(<<a>>, x)
         /\ \A b : b # x => ~ Has(<<a, b>>, x) /\ Single(<<a, b>>, x)
  BY DEF Has, Single

LEMMA HasAppend ==
  ASSUME NEW S, NEW seq \in Seq(S), NEW e \in S, NEW x
  PROVE  /\ Has(Append(seq, e), x) <=> Has(seq, x) \/ e = x
         /\ Single(seq, x) /\ (e = x => ~ Has(seq, x)) => Single(Append(seq, e), x)
<1>1. ASSUME Has(Append(seq, e), x)
      PROVE  Has(seq, x) \/ e = x
  BY <1>1, AppendFacts DEF Has
<1>2. ASSUME Has(seq, x) \/ e = x
      PROVE  Has(Append(seq, e), x)
  <2>1. CASE Has(seq, x)
    <3>1. PICK i \in DOMAIN seq : seq[i] = x
      BY <2>1 DEF Has
    <3>2. i \in DOMAIN Append(seq, e) /\ Append(seq, e)[i] = x
      BY <3>1, AppendFacts
    <3>3. QED
      BY <3>2 DEF Has
  <2>2. CASE e = x
    <3>1. Len(seq) + 1 \in DOMAIN Append(seq, e) /\ Append(seq, e)[Len(seq) + 1] = x
      BY <2>2, AppendFacts
    <3>2. QED
      BY <3>1 DEF Has
  <2>3. QED
    BY <1>2, <2>1, <2>2
<1>3. ASSUME Single(seq, x), e = x => ~ Has(seq, x)
      PROVE  Single(Append(seq, e), x)
  BY <1>3, AppendFacts DEF Has, Single
<1>4. QED
  BY <1>1, <1>2, <1>3

LEMMA HasTail ==
  ASSUME NEW S, NEW seq \in Seq(S), seq # <<>>, NEW x
  PROVE  /\ Has(seq, x) <=> Has(Tail(seq), x) \/ Head(seq) = x
         /\ Single(seq, x) =>
              Single(Tail(seq), x) /\ (Head(seq) = x => ~ Has(Tail(seq), x))
<1>1. ASSUME Has(seq, x)
      PROVE  Has(Tail(seq), x) \/ Head(seq) = x
  <2>1. PICK i \in DOMAIN seq : seq[i] = x
    BY <1>1 DEF Has
  <2>2. CASE i = 1
    BY <2>1, <2>2, TailFacts
  <2>3. CASE i # 1
    <3>1. i - 1 \in DOMAIN Tail(seq) /\ Tail(seq)[i - 1] = x
      BY <2>1, <2>3, TailFacts
    <3>2. QED
      BY <3>1 DEF Has
  <2>4. QED
    BY <2>2, <2>3
<1>2. ASSUME Has(Tail(seq), x) \/ Head(seq) = x
      PROVE  Has(seq, x)
  <2>1. CASE Has(Tail(seq), x)
    <3>1. PICK i \in DOMAIN Tail(seq) : Tail(seq)[i] = x
      BY <2>1 DEF Has
    <3>2. i + 1 \in DOMAIN seq /\ seq[i + 1] = x
      BY <3>1, TailFacts
    <3>3. QED
      BY <3>2 DEF Has
  <2>2. CASE Head(seq) = x
    <3>1. 1 \in DOMAIN seq /\ seq[1] = x
      BY <2>2, TailFacts
    <3>2. QED
      BY <3>1 DEF Has
  <2>3. QED
    BY <1>2, <2>1, <2>2
<1>3. ASSUME Single(seq, x)
      PROVE  Single(Tail(seq), x) /\ (Head(seq) = x => ~ Has(Tail(seq), x))
  <2>1. \A i \in DOMAIN Tail(seq) : /\ i + 1 \in DOMAIN seq /\ i \in Nat \ {0}
                                    /\ Tail(seq)[i] = seq[i + 1]
    BY TailFacts
  <2>2. 1 \in DOMAIN seq /\ Head(seq) = seq[1]
    BY TailFacts
  <2>3. QED
    BY <1>3, <2>1, <2>2 DEF Has, Single
<1>4. QED
  BY <1>1, <1>2, <1>3

LEMMA HasAppendTwo ==
  ASSUME NEW S, NEW seq \in Seq(S), NEW a \in S, NEW b \in S, NEW x, a # x, b # x
  PROVE  /\ Has(Append(Append(seq, a), b), x) <=> Has(seq, x)
         /\ Single(seq, x) => Single(Append(Append(seq, a), b), x)
<1> DEFINE one == Append(seq, a)
<1>1. one \in Seq(S) /\ (Has(one, x) <=> Has(seq, x)) /\ (Single(seq, x) => Single(one, x))
  BY AppendFacts, HasAppend
<1> HIDE DEF one
<1>2. /\ Has(Append(one, b), x) <=> Has(one, x)
      /\ Single(one, x) => Single(Append(one, b), x)
  BY <1>1, HasAppend
<1>3. QED
  BY <1>1, <1>2 DEF one

LEMMA InOrderSteps ==
  ASSUME NEW S, NEW seq \in Seq(S), NEW x, NEW y, InOrder(seq, x, y)
  PROVE  /\ \A e \in S : x # y /\ (e = x => ~ Has(seq, y)) =>
              InOrder(Append(seq, e), x, y)
         /\ seq # <<>> =>
              InOrder(Tail(seq), x, y) /\ (Head(seq) = y => ~ Has(seq, x))
<1>1. ASSUME NEW e \in S, x # y, e = x => ~ Has(seq, y)
      PROVE  InOrder(Append(seq, e), x, y)
  BY <1>1, AppendFacts DEF Has, InOrder
<1>2. ASSUME seq # <<>>
      PROVE  InOrder(Tail(seq), x, y) /\ (Head(seq) = y => ~ Has(seq, x))
  <2>1. \A i \in DOMAIN Tail(seq) : /\ i + 1 \in DOMAIN seq /\ i \in Nat \ {0}
                                    /\ Tail(seq)[i] = seq[i + 1]
    BY <1>2, TailFacts
  <2>2. 1 \in DOMAIN seq /\ Head(seq) = seq[1] /\ \A i \in DOMAIN seq : i \in Nat /\ ~ i < 1
    BY <1>2, TailFacts
  <2>3. InOrder(Tail(seq), x, y)
    <3>1. ASSUME NEW i \in DOMAIN Tail(seq), NEW j \in DOMAIN Tail(seq),
                 Tail(seq)[i] = x, Tail(seq)[j] = y
          PROVE  i < j
      <4>1. i + 1 < j + 1
        BY <2>1, <3>1 DEF InOrder
      <4>2. QED
        BY <2>1, <4>1
    <3>2. QED
      BY <3>1 DEF InOrder
  <2>4. Head(seq) = y => ~ Has(seq, x)
    BY <2>2 DEF Has, InOrder
  <2>5. QED
    BY <2>3, <2>4
<1>3. QED
  BY <1>1, <1>2

LEMMA AppendTwo ==
  ASSUME NEW S, NEW seq \in Seq(S), NEW a \in S, NEW b \in S
  PROVE  seq \o <<a, b>> = Append(Append(seq, a), b)
<1>1. /\ <<a>> \in Seq(S) /\ <<b>> \in Seq(S)
      /\ Append(seq, a) = seq \o <<a>> /\ Append(seq, a) \in Seq(S)
  BY AppendIsConcat, AppendProperties
<1>2. <<a>> \o <<b>> = <<a, b>>
  <2>1. <<a, b>> = Append(<<a>>, b)
    OBVIOUS
  <2>2. QED
    BY <1>1, <2>1, AppendIsConcat
<1>3. (seq \o <<a>>) \o <<b>> = seq \o (<<a>> \o <<b>>)
  BY <1>1, ConcatAssociative
<1>4. Append(Append(seq, a), b) = Append(seq, a) \o <<b>>
  BY <1>1, AppendIsConcat
<1>5. QED
  BY <1>1, <1>2, <1>3, <1>4

-----------------------------------------------------------------------------
(* The invariants *)

Cmti(s) == Line("+CMTI", s)
Cmgr(s) == Command("CMGR", s)
Cmgd(s) == Command("CMGD", s)
PduLine(m) == Line("PDU", m)

(* The commands of one branch of loop that have not returned yet *)
Scripts ==
  {<<>>, Boot, <<Command("CNMI", Nothing)>>}
    \cup {<<Cmgr(s), Cmgd(s)>> : s \in Slots} \cup {<<Cmgd(s)>> : s \in Slots}

Sending == phase \in {"flush", "println", "read"}

(* AT+CMGR and AT+CMGD name a place, and so does a +CMTI, which is never part
   of a response. *)
Sendable == {c \in CommandType : c.op \in {"CMGR", "CMGD"} => c.arg \in Slots}

Writable == {l \in LineType : l.kind # "+CMTI"}

Readable == {l \in LineType : l.kind = "+CMTI" => l.of \in Slots}

MainOK ==
  /\ phase \in Phases
  /\ script \in Scripts
  /\ Sending <=> script # <<>>
  /\ oss \in Seq(LineType)
  /\ smsContent \in Seq(LineType) \cup {Nothing}
  /\ prompting \in PromptType \cup {Nothing}
  /\ phase = "prompt" => prompting \in PromptType

LinesOK == tx \in Seq(Sendable) /\ out \in Seq(Writable) /\ rx \in Seq(Readable)

WorldOK ==
  /\ queue \in Seq(Requests)
  /\ daemon \in Requests \cup {Nothing}
  /\ sim \in [Slots -> Messages \cup {Nothing}]
  /\ unsent \subseteq Messages
  /\ waiting \subseteq Requests
  /\ calls \in Nat /\ restarts \in Nat /\ resets \in Nat
  /\ readOut \subseteq Messages
  /\ mailed \in [Messages -> Nat]
  /\ prompts \in Seq(PromptType)

TInv == MainOK /\ LinesOK /\ WorldOK

(* The AT+CMGR, or the AT+CMGD, of place s has still to be sent. *)
ToRead(s) == phase \in {"flush", "println"} /\ script = <<Cmgr(s), Cmgd(s)>>

ToDelete(s) ==
  \/ script = <<Cmgr(s), Cmgd(s)>>
  \/ phase \in {"flush", "println"} /\ script = <<Cmgd(s)>>

(* A place is announced, read and deleted once for each SMS it gets. *)
OneTurn(s) ==
  /\ Single(tx, Cmgr(s)) /\ Single(tx, Cmgd(s)) /\ InOrder(tx, Cmgr(s), Cmgd(s))
  /\ ToRead(s) => ~ Has(tx, Cmgr(s))
  /\ ToDelete(s) => ~ Has(tx, Cmgd(s))
  /\ Single(rx, Cmti(s))
  /\ Has(rx, Cmti(s)) => ~ ToDelete(s) /\ ~ Has(tx, Cmgr(s)) /\ ~ Has(tx, Cmgd(s))
  /\ ToRead(s) => ~ Has(tx, Cmgd(s))
  /\ sim[s] = Nothing =>
       ~ Has(rx, Cmti(s)) /\ ~ ToDelete(s) /\ ~ Has(tx, Cmgr(s)) /\ ~ Has(tx, Cmgd(s))

(* The SMS in place s will be read out. *)
ReadAhead(s) == Has(rx, Cmti(s)) \/ ToRead(s) \/ Has(tx, Cmgr(s))

InSms(m) == smsContent # Nothing /\ Has(smsContent, PduLine(m))

Unread(m) ==
  /\ ~ Has(out, PduLine(m)) /\ ~ Has(rx, PduLine(m)) /\ ~ Has(oss, PduLine(m)) /\ ~ InSms(m)
  /\ mailed[m] = 0

(* A PDU is in one place on its way from the modem to the mail. *)
OneCopy(m) ==
  /\ Single(out, PduLine(m)) /\ Single(rx, PduLine(m))
  /\ Has(out, PduLine(m)) => ~ Has(rx, PduLine(m)) /\ ~ Has(oss, PduLine(m)) /\ ~ InSms(m) /\ mailed[m] = 0
  /\ Has(rx, PduLine(m)) => ~ Has(oss, PduLine(m)) /\ ~ InSms(m) /\ mailed[m] = 0
  /\ Has(oss, PduLine(m)) => ~ InSms(m) /\ mailed[m] = 0
  /\ InSms(m) => mailed[m] = 0
  /\ mailed[m] <= 1
  /\ m \in unsent => Unread(m) /\ ~ Stored(m)
  /\ \A s \in Slots : sim[s] = m /\ ReadAhead(s) => Unread(m)
  /\ \A s, t \in Slots : sim[s] = m /\ sim[t] = m => s = t

TurnInv == \A s \in Slots : OneTurn(s)

CopyInv == \A m \in Messages : OneCopy(m)

(* What is to be deleted, and no longer to be read, was read out. *)
ReadBefore(s) ==
  (ToDelete(s) \/ Has(tx, Cmgd(s))) /\ ~ ToRead(s) /\ ~ Has(tx, Cmgr(s))
    => sim[s] \in readOut \cup {Nothing}

DeleteInv == (\A s \in Slots : ReadBefore(s)) /\ DeletedAfterReadOut

(* A request is with the front-end, printed, queued, being answered, or
   answered. *)
Prompted(r) == \E k \in DOMAIN prompts : prompts[k].request = r

Passing(r) == phase = "prompt" /\ prompting.request = r

PromptedOnce(r) ==
  \A j, k \in DOMAIN prompts : prompts[j].request = r /\ prompts[k].request = r => j = k

OnePrompt(r) ==
  /\ Single(queue, r)
  /\ r \in waiting => daemon # r /\ ~ Has(queue, r) /\ ~ Passing(r) /\ ~ Prompted(r)
  /\ daemon = r => ~ Has(queue, r) /\ ~ Passing(r) /\ ~ Prompted(r)
  /\ Has(queue, r) => ~ Passing(r) /\ ~ Prompted(r)
  /\ Passing(r) => ~ Prompted(r)
  /\ PromptedOnce(r)

PromptInv == \A r \in Requests : OnePrompt(r)

-----------------------------------------------------------------------------
(* Commands, lines and the scripts of loop *)

LEMMA CommandFacts ==
  /\ \A s, t : (Cmgr(s) = Cmgr(t) <=> s = t) /\ (Cmgd(s) = Cmgd(t) <=> s = t)
               /\ Cmgr(s) # Cmgd(t)
  /\ \A c \in CommandType : /\ \A s : c = Cmgr(s) <=> c.op = "CMGR" /\ c.arg = s
                            /\ \A s : c = Cmgd(s) <=> c.op = "CMGD" /\ c.arg = s
  /\ \A s \in Slots : Cmgr(s) \in CommandType /\ Cmgd(s) \in CommandType
  /\ \A r \in Requests : Command("request", r) \in CommandType
  /\ Boot \in Seq(CommandType)
  BY DEF Cmgr, Cmgd, Command, CommandType, Ops, Boot

LEMMA LineFacts ==
  /\ \A x, y : (Cmti(x) = Cmti(y) <=> x = y) /\ (PduLine(x) = PduLine(y) <=> x = y)
               /\ Cmti(x) # PduLine(y)
  /\ \A l \in LineType : /\ \A x : l = Cmti(x) <=> l.kind = "+CMTI" /\ l.of = x
                         /\ \A x : l = PduLine(x) <=> l.kind = "PDU" /\ l.of = x
  /\ \A k \in Kinds, x \in Slots \cup Messages \cup Requests \cup {Nothing} :
       Line(k, x) \in LineType /\ Line(k, x).kind = k /\ Line(k, x).of = x
  BY DEF Cmti, PduLine, Line, LineType, Kinds

LEMMA ScriptFacts ==
  ASSUME script \in Scripts, script # <<>>
  PROVE  /\ Head(script) \in Sendable
         /\ Head(script).op # "request"
         /\ Head(script).op = "CMGD" => Tail(script) = <<>>
         /\ Tail(script) \in Scripts
         /\ \A s \in Slots :
              /\ Head(script) = Cmgr(s) <=> script = <<Cmgr(s), Cmgd(s)>>
              /\ Head(script) = Cmgd(s) <=> script = <<Cmgd(s)>>
              /\ Tail(script) = <<Cmgd(s)>> <=> script = <<Cmgr(s), Cmgd(s)>>
              /\ Tail(script) # <<Cmgr(s), Cmgd(s)>>
<1>1. CASE script = Boot
  BY <1>1 DEF Boot, Scripts, Command, CommandType, Sendable, Ops, Cmgr, Cmgd
<1>2. CASE script = <<Command("CNMI", Nothing)>>
  BY <1>2 DEF Scripts, Command, CommandType, Sendable, Ops, Cmgr, Cmgd
<1>3. ASSUME NEW t \in Slots, script = <<Cmgr(t), Cmgd(t)>>
      PROVE  /\ Head(script) = Cmgr(t) /\ Tail(script) = <<Cmgd(t)>>
             /\ Tail(script) \in Scripts
  BY <1>3 DEF Scripts
<1>4. ASSUME NEW t \in Slots, script = <<Cmgd(t)>>
      PROVE  /\ Head(script) = Cmgd(t) /\ Tail(script) = <<>>
             /\ Tail(script) \in Scripts
  BY <1>4 DEF Scripts
<1>5. \A s, t : /\ <<Cmgr(s), Cmgd(s)>> = <<Cmgr(t), Cmgd(t)>> <=> s = t
                /\ <<Cmgd(s)>> = <<Cmgd(t)>> <=> s = t
                /\ <<Cmgr(s), Cmgd(s)>> # <<Cmgd(t)>>
                /\ <<>> # <<Cmgd(t)>> /\ <<>> # <<Cmgr(t), Cmgd(t)>>
  BY CommandFacts
<1>6. ASSUME NEW t \in Slots, script = <<Cmgr(t), Cmgd(t)>>
      PROVE  /\ Head(script) \in CommandType
             /\ Head(script).op = "CMGR" /\ Head(script).arg = t
  BY <1>3, <1>6, CommandFacts
<1>7. ASSUME NEW t \in Slots, script = <<Cmgd(t)>>
      PROVE  /\ Head(script) \in CommandType
             /\ Head(script).op = "CMGD" /\ Head(script).arg = t
  BY <1>4, <1>7, CommandFacts
<1>8. CASE \E t \in Slots : script = <<Cmgr(t), Cmgd(t)>>
  <2>1. PICK t \in Slots : script = <<Cmgr(t), Cmgd(t)>>
    BY <1>8
  <2>2. Head(script) = Cmgr(t) /\ Tail(script) = <<Cmgd(t)>> /\ Tail(script) \in Scripts
    BY <2>1, <1>3
  <2>3. QED
    BY <2>1, <2>2, <1>5, <1>6, CommandFacts DEF Sendable
<1>9. CASE \E t \in Slots : script = <<Cmgd(t)>>
  <2>1. PICK t \in Slots : script = <<Cmgd(t)>>
    BY <1>9
  <2>2. Head(script) = Cmgd(t) /\ Tail(script) = <<>> /\ Tail(script) \in Scripts
    BY <2>1, <1>4
  <2>3. QED
    BY <2>1, <2>2, <1>5, <1>7, CommandFacts DEF Sendable
<1>10. QED
  BY <1>1, <1>2, <1>8, <1>9 DEF Scripts

LEMMA ScriptType == Scripts \subseteq Seq(CommandType)
<1>1. Command("CNMI", Nothing) \in CommandType
  BY DEF Command, CommandType, Ops
<1>2. /\ <<>> \in Seq(CommandType) /\ <<Command("CNMI", Nothing)>> \in Seq(CommandType)
      /\ \A s \in Slots : /\ <<Cmgr(s), Cmgd(s)>> \in Seq(CommandType)
                          /\ <<Cmgd(s)>> \in Seq(CommandType)
  BY <1>1, CommandFacts
<1>3. ASSUME NEW q \in Scripts
      PROVE  q \in Seq(CommandType)
  <2>1. \/ q \in {<<>>, Boot, <<Command("CNMI", Nothing)>>}
        \/ \E s \in Slots : q = <<Cmgr(s), Cmgd(s)>> \/ q = <<Cmgd(s)>>
    BY DEF Scripts
  <2>2. CASE q \in {<<>>, Boot, <<Command("CNMI", Nothing)>>}
    BY <1>2, <2>2, CommandFacts
  <2>3. CASE \E s \in Slots : q = <<Cmgr(s), Cmgd(s)>> \/ q = <<Cmgd(s)>>
    BY <1>2, <2>3
  <2>4. QED
    BY <2>1, <2>2, <2>3
<1>4. QED
  BY <1>3

LEMMA SeqSubset ==
  ASSUME NEW S, NEW T, S \subseteq T, NEW seq \in Seq(S)
  PROVE  seq \in Seq(T)
<1>1. seq \in [1 .. Len(seq) -> T] /\ Len(seq) \in Nat
  BY LenProperties
<1>2. QED
  BY <1>1, SeqDef

-----------------------------------------------------------------------------
(* Type correctness *)

LEMMA TInvTypeOK == TInv => TypeOK
<1> SUFFICES ASSUME TInv
             PROVE  TypeOK
  OBVIOUS
<1>1. Sendable \subseteq CommandType /\ Writable \subseteq LineType
      /\ Readable \subseteq LineType
  BY DEF Sendable, Writable, Readable
<1>2. /\ tx \in Seq(CommandType) /\ out \in Seq(LineType) /\ rx \in Seq(LineType)
      /\ script \in Seq(CommandType)
  BY <1>1, SeqSubset, ScriptType DEF TInv, LinesOK, MainOK
<1>3. QED
  BY <1>2 DEF TInv, MainOK, WorldOK, TypeOK

LEMMA TInvInit == Init => TInv
<1> SUFFICES ASSUME Init
             PROVE  TInv
  OBVIOUS
<1>1. Boot \in Scripts /\ Boot # <<>>
  BY DEF Scripts, Boot
<1>2. MainOK
  BY <1>1, EmptySeq DEF Init, MainOK, Phases, Sending
<1>3. LinesOK
  BY EmptySeq DEF Init, LinesOK
<1>4. WorldOK
  BY EmptySeq DEF Init, WorldOK
<1>5. QED
  BY <1>2, <1>3, <1>4 DEF TInv

LEMMA KeptMain == MainOK /\ UNCHANGED mainVars => MainOK'
  BY DEF MainOK, mainVars, Sending

LEMMA KeptLines == LinesOK /\ UNCHANGED lineVars => LinesOK'
  BY DEF LinesOK, lineVars

LEMMA KeptWorld == WorldOK /\ UNCHANGED <<queue, daemon, worldVars>> => WorldOK'
  BY DEF WorldOK, worldVars

(* What is read from the serial port *)
LEMMA RxTail ==
  ASSUME LinesOK, rx # <<>>
  PROVE  Tail(rx) \in Seq(Readable) /\ Head(rx) \in Readable /\ Head(rx) \in LineType
  BY TailFacts DEF LinesOK, Readable

LEMMA ReturnType ==
  ASSUME TInv, phase = "read",
         NEW response \in Seq(LineType) \cup {Nothing}, Return(response)
  PROVE  MainOK'
<1>1. script \in Scripts /\ script # <<>>
  BY DEF TInv, MainOK, Sending
<1>2. Tail(script) \in Scripts
  BY <1>1, ScriptFacts
<1>3. /\ script' = Tail(script)
      /\ smsContent' \in {response, smsContent} /\ oss' = <<>> /\ prompting' = prompting
      /\ phase' \in {"flush", "handle", "receive"}
      /\ phase' = "flush" <=> Tail(script) # <<>>
  BY <1>1, ScriptFacts DEF Return
<1>4. oss' \in Seq(LineType)
  BY <1>3, EmptySeq
<1>5. phase' \in Phases
  BY <1>3 DEF Phases
<1>6. Sending' <=> script' # <<>>
  BY <1>3 DEF Sending
<1>7. QED
  BY <1>2, <1>3, <1>4, <1>5, <1>6 DEF TInv, MainOK

LEMMA SendCommandType == TInv /\ SendCommand => TInv'
<1> SUFFICES ASSUME TInv, SendCommand
             PROVE  TInv'
  OBVIOUS
<1>1. CASE Flush
  <2>1. MainOK'
    BY <1>1 DEF TInv, MainOK, Flush, Sending, Phases
  <2>2. LinesOK'
    BY <1>1, EmptySeq DEF TInv, LinesOK, Flush
  <2>3. QED
    BY <1>1, <2>1, <2>2, KeptWorld DEF TInv, Flush
<1>2. CASE Println
  <2>1. MainOK'
    BY <1>2, EmptySeq DEF TInv, MainOK, Println, Sending, Phases
  <2>2. LinesOK'
    <3>1. Head(script) \in Sendable
      BY <1>2, ScriptFacts DEF TInv, MainOK, Println, Sending
    <3>2. QED
      BY <1>2, <3>1, AppendFacts DEF TInv, LinesOK, Println
  <2>3. QED
    BY <1>2, <2>1, <2>2, KeptWorld DEF TInv, Println
<1>3. CASE ReadLine
  <2>1. MainOK'
    <3>1. oss' \in Seq(LineType)
      BY <1>3, RxTail, AppendFacts DEF TInv, MainOK, ReadLine
    <3>2. QED
      BY <1>3, <3>1 DEF TInv, MainOK, ReadLine, Sending
  <2>2. LinesOK'
    BY <1>3, RxTail DEF TInv, LinesOK, ReadLine
  <2>3. QED
    BY <1>3, <2>1, <2>2, KeptWorld DEF TInv, ReadLine
<1>4. CASE ReadOk
  <2>1. MainOK'
    BY <1>4, ReturnType DEF TInv, MainOK, ReadOk
  <2>2. LinesOK'
    BY <1>4, RxTail DEF TInv, LinesOK, ReadOk, Return
  <2>3. QED
    BY <1>4, <2>1, <2>2, KeptWorld DEF TInv, ReadOk, Return
<1>5. CASE GiveUp
  <2>1. MainOK'
    BY <1>5, ReturnType DEF GiveUp
  <2>2. LinesOK'
    BY <1>5 DEF TInv, LinesOK, GiveUp, Return
  <2>3. QED
    BY <1>5, <2>1, <2>2, KeptWorld DEF TInv, GiveUp, Return
<1>6. QED
  BY <1>1, <1>2, <1>3, <1>4, <1>5 DEF SendCommand

LEMMA SmsHandlerType == TInv /\ SmsHandler => TInv'
<1> SUFFICES ASSUME TInv, SmsHandler
             PROVE  TInv'
  OBVIOUS
<1>1. HandlerReturns
  BY DEF SmsHandler, RelaySms, DropSms
<1>2. MainOK'
  BY <1>1 DEF TInv, MainOK, HandlerReturns, Sending, Phases
<1>3. LinesOK'
  BY <1>1, KeptLines DEF TInv, HandlerReturns
<1>4. WorldOK'
  <2>1. CASE DropSms
    BY <1>1, <2>1, KeptWorld DEF TInv, DropSms, HandlerReturns
  <2>2. CASE RelaySms
    <3>1. mailed' \in [Messages -> Nat]
      <4>1. PICK m \in PduOf(smsContent) : mailed' = [mailed EXCEPT ![m] = @ + 1]
        BY <2>2 DEF RelaySms
      <4>2. mailed \in [Messages -> Nat]
        BY DEF TInv, WorldOK
      <4>3. \A x \in Messages : mailed'[x] = IF x = m THEN mailed[x] + 1 ELSE mailed[x]
        BY <4>1, <4>2
      <4>4. mailed' = [x \in Messages |-> mailed'[x]]
        BY <4>1, <4>2
      <4>5. QED
        BY <4>2, <4>3, <4>4
    <3>2. QED
      BY <1>1, <2>2, <3>1 DEF TInv, WorldOK, RelaySms, HandlerReturns
  <2>3. QED
    BY <2>1, <2>2 DEF SmsHandler
<1>5. QED
  BY <1>2, <1>3, <1>4 DEF TInv

LEMMA LoopType == TInv /\ (Loop \/ SendPrompt \/ PromptFails) => TInv'
<1> SUFFICES ASSUME TInv, Loop \/ SendPrompt \/ PromptFails
             PROVE  TInv'
  OBVIOUS
<1>1. CASE Loop
  <2>1. TakeLine
    BY <1>1 DEF Loop, LoopCmti, LoopOtherStore, LoopRing, LoopUnparsable, LoopVerifyFails,
                LoopAnswer
  <2>2. LinesOK'
    BY <2>1, RxTail DEF TInv, LinesOK, TakeLine
  <2>3. queue # <<>> => Tail(queue) \in Seq(Requests) /\ Head(queue) \in Requests
    BY TailFacts DEF TInv, WorldOK
  <2>4. WorldOK'
    <3>1. queue' \in Seq(Requests)
      BY <1>1, <2>3
         DEF TInv, WorldOK, Loop, LoopCmti, LoopOtherStore, LoopRing, LoopUnparsable,
             LoopVerifyFails, LoopAnswer
    <3>2. QED
      BY <2>1, <3>1 DEF TInv, WorldOK, TakeLine, worldVars
  <2>5. MainOK'
    <3>1. CASE LoopCmti
      <4>1. script' \in Scripts /\ script' # <<>>
        <5>1. Head(rx).of \in Slots
          BY <2>1, <3>1, RxTail DEF TInv, LoopCmti, TakeLine, Readable
        <5>2. script' = <<Cmgr(Head(rx).of), Cmgd(Head(rx).of)>>
          BY <3>1 DEF LoopCmti, Cmgr, Cmgd
        <5>3. QED
          BY <5>1, <5>2 DEF Scripts
      <4>2. QED
        BY <2>1, <3>1, <4>1 DEF TInv, MainOK, LoopCmti, TakeLine, Sending, Phases
    <3>2. CASE LoopOtherStore \/ LoopRing \/ LoopUnparsable \/ LoopVerifyFails
      BY <2>1, <3>2, KeptMain
         DEF TInv, LoopOtherStore, LoopRing, LoopUnparsable, LoopVerifyFails, TakeLine,
             mainVars
    <3>3. CASE LoopAnswer
      <4>1. prompting' \in PromptType
        BY <2>1, <2>3, <3>3, RxTail DEF TInv, LoopAnswer, TakeLine, PromptType
      <4>2. QED
        BY <2>1, <3>3, <4>1 DEF TInv, MainOK, LoopAnswer, TakeLine, Sending, Phases
    <3>4. QED
      BY <1>1, <3>1, <3>2, <3>3 DEF Loop
  <2>6. QED
    BY <2>2, <2>4, <2>5 DEF TInv
<1>2. CASE SendPrompt \/ PromptFails
  <2>1. MainOK'
    BY <1>2 DEF TInv, MainOK, SendPrompt, PromptFails, Sending, Phases
  <2>2. LinesOK'
    BY <1>2, KeptLines DEF TInv, SendPrompt, PromptFails
  <2>3. prompts' \in Seq(PromptType)
    <3>1. CASE SendPrompt
      <4>1. prompting \in PromptType /\ prompts \in Seq(PromptType)
        BY <3>1 DEF TInv, MainOK, WorldOK, SendPrompt
      <4>2. QED
        BY <3>1, <4>1, AppendFacts DEF SendPrompt
    <3>2. CASE PromptFails
      BY <3>2 DEF TInv, WorldOK, PromptFails, worldVars
    <3>3. QED
      BY <1>2, <3>1, <3>2
  <2>4. WorldOK'
    BY <1>2, <2>3 DEF TInv, WorldOK, SendPrompt, PromptFails, worldVars
  <2>5. QED
    BY <2>1, <2>2, <2>4 DEF TInv
<1>3. QED
  BY <1>1, <1>2

LEMMA TxTail ==
  ASSUME LinesOK, tx # <<>>
  PROVE  /\ Tail(tx) \in Seq(Sendable) /\ Head(tx) \in Sendable
         /\ Head(tx) \in CommandType
         /\ Head(tx).op = "CMGR" => Head(tx).arg \in Slots
         /\ Head(tx).op = "CMGD" => Head(tx).arg \in Slots
  BY TailFacts DEF LinesOK, Sendable

(* An answer holds the PDU of the place its AT+CMGR names, once, or none. *)
LEMMA ResponseFacts ==
  ASSUME TInv, tx # <<>>
  PROVE  /\ Response(Head(tx)) \in Seq(Writable)
         /\ \A m \in Messages :
              /\ Has(Response(Head(tx)), PduLine(m)) <=>
                   Head(tx).op = "CMGR" /\ sim[Head(tx).arg] = m
              /\ Single(Response(Head(tx)), PduLine(m))
         /\ \A x : x \notin Messages => ~ Has(Response(Head(tx)), PduLine(x))
<1> DEFINE c == Head(tx)
<1>1. c \in CommandType /\ (c.op = "CMGR" => c.arg \in Slots)
  BY TxTail DEF TInv
<1>2. /\ \A k \in {"ERROR", "+CMGR", "OK"} :
           Line(k, Nothing) \in Writable /\ \A m : Line(k, Nothing) # PduLine(m)
      /\ \A m \in Messages : Line("PDU", m) \in Writable /\ Line("PDU", m) = PduLine(m)
      /\ \A x \in Slots \cup Requests \cup {Nothing} :
           Line("answer", x) \in Writable /\ \A m : Line("answer", x) # PduLine(m)
  BY DEF Writable, Line, LineType, Kinds, PduLine
<1>3. \A m, n : PduLine(m) = PduLine(n) <=> m = n
  BY LineFacts
<1> HIDE DEF c
<1>4. CASE c.op = "CMGR" /\ sim[c.arg] = Nothing
  <2>1. Response(c) = <<Line("ERROR", Nothing)>>
    BY <1>4 DEF Response
  <2>2. Nothing \notin Messages
    BY SessionAssumption
  <2>3. Response(c) \in Seq(Writable)
    BY <1>2, <2>1
  <2>4. \A m : ~ Has(Response(c), PduLine(m)) /\ Single(Response(c), PduLine(m))
    BY <1>2, <2>1, HasOther
  <2>5. QED
    BY <1>4, <2>2, <2>3, <2>4 DEF c
<1>5. CASE c.op = "CMGR" /\ sim[c.arg] # Nothing
  <2>1. Response(c) = <<Line("+CMGR", Nothing), Line("PDU", sim[c.arg]), Line("OK", Nothing)>>
    BY <1>5 DEF Response
  <2>2. sim[c.arg] \in Messages
    BY <1>1, <1>5 DEF TInv, WorldOK
  <2> DEFINE answer == <<Line("+CMGR", Nothing), PduLine(sim[c.arg]), Line("OK", Nothing)>>
  <2>3. Response(c) = answer /\ answer \in Seq(Writable)
    BY <1>2, <2>1, <2>2
  <2>4. ASSUME NEW m
        PROVE  /\ Has(answer, PduLine(m)) <=> sim[c.arg] = m
               /\ Single(answer, PduLine(m))
    <3>1. DOMAIN answer = {1, 2, 3}
      OBVIOUS
    <3>2. answer[1] # PduLine(m) /\ answer[3] # PduLine(m) /\ (answer[2] = PduLine(m) <=> sim[c.arg] = m)
      BY <1>2, <1>3
    <3>3. QED
      BY <3>1, <3>2 DEF Has, Single
  <2> HIDE DEF answer
  <2>5. QED
    BY <1>5, <2>2, <2>3, <2>4 DEF c
<1>6. CASE c.op = "request"
  <2>1. Response(c) = <<Line("answer", c.arg), Line("OK", Nothing)>>
    BY <1>6 DEF Response
  <2>2. c.arg \in Slots \cup Requests \cup {Nothing}
    BY <1>1 DEF CommandType
  <2>3. Response(c) \in Seq(Writable)
    BY <1>2, <2>1, <2>2
  <2>4. \A m : ~ Has(Response(c), PduLine(m)) /\ Single(Response(c), PduLine(m))
    BY <1>2, <2>1, <2>2, HasOther, ZenonT(60)
  <2>5. QED
    BY <1>6, <2>3, <2>4 DEF c
<1>7. CASE c.op \notin {"CMGR", "request"}
  <2>1. Response(c) = <<Line("OK", Nothing)>>
    BY <1>7 DEF Response
  <2>2. Response(c) \in Seq(Writable)
    BY <1>2, <2>1
  <2>3. \A m : ~ Has(Response(c), PduLine(m)) /\ Single(Response(c), PduLine(m))
    BY <1>2, <2>1, HasOther
  <2>4. QED
    BY <1>7, <2>2, <2>3 DEF c
<1>8. QED
  BY <1>4, <1>5, <1>6, <1>7

LEMMA ModemType == TInv /\ (Modem \/ FrontEmplace) => TInv'
<1> SUFFICES ASSUME TInv, Modem \/ FrontEmplace
             PROVE  TInv'
  OBVIOUS
<1>1. CASE Execute
  <2>1. LinesOK'
    BY <1>1, TxTail, ResponseFacts DEF TInv, LinesOK, Execute
  <2>2. sim' \in [Slots -> Messages \cup {Nothing}]
    BY <1>1 DEF TInv, WorldOK, Execute
  <2>3. readOut' \subseteq Messages
    BY <1>1, TxTail DEF TInv, WorldOK, Execute
  <2>4. WorldOK'
    BY <1>1, <2>2, <2>3 DEF TInv, WorldOK, Execute
  <2>5. QED
    BY <1>1, <2>1, <2>4, KeptMain DEF TInv, Execute
<1>2. CASE WriteLine
  <2>1. Head(out) \in Writable /\ Head(out) \in Readable /\ Tail(out) \in Seq(Writable)
    BY <1>2, TailFacts DEF TInv, LinesOK, WriteLine, Writable, Readable
  <2>2. LinesOK'
    BY <1>2, <2>1, AppendFacts DEF TInv, LinesOK, WriteLine
  <2>3. QED
    BY <1>2, <2>2, KeptMain, KeptWorld DEF TInv, WriteLine
<1>3. CASE FrontEmplace
  <2>1. queue' \in Seq(Requests)
    BY <1>3, AppendFacts DEF TInv, WorldOK, FrontEmplace
  <2>2. WorldOK'
    BY <1>3, <2>1 DEF TInv, WorldOK, FrontEmplace, worldVars
  <2>3. QED
    BY <1>3, <2>2, KeptMain, KeptLines DEF TInv, FrontEmplace
<1>4. QED
  BY <1>1, <1>2, <1>3 DEF Modem

LEMMA DeliverLine ==
  ASSUME NEW s \in Slots
  PROVE  Line("+CMTI", s) \in Readable /\ Line("+CMTI", s) = Cmti(s)
  BY DEF Readable, Line, LineType, Kinds, Cmti

LEMMA CallLines ==
  /\ Line("RING", Nothing) \in Readable /\ Line("+CLIP", Nothing) \in Readable
  /\ \A x : /\ Line("RING", Nothing) # Cmti(x) /\ Line("+CLIP", Nothing) # Cmti(x)
            /\ Line("RING", Nothing) # PduLine(x) /\ Line("+CLIP", Nothing) # PduLine(x)
  BY DEF Readable, Line, LineType, Kinds, Cmti, PduLine

LEMMA EnvironmentType == TInv /\ Environment => TInv'
<1> SUFFICES ASSUME TInv, Environment
             PROVE  TInv'
  OBVIOUS
<1>1. ASSUME NEW m \in Messages, NEW s \in Slots, DeliverSms(m, s)
      PROVE  TInv'
  <2>1. LinesOK'
    BY <1>1, DeliverLine, AppendFacts DEF TInv, LinesOK, DeliverSms
  <2>2. sim' \in [Slots -> Messages \cup {Nothing}] /\ unsent' \subseteq Messages
    BY <1>1 DEF TInv, WorldOK, DeliverSms
  <2>3. WorldOK'
    BY <1>1, <2>2 DEF TInv, WorldOK, DeliverSms
  <2>4. QED
    BY <1>1, <2>1, <2>3, KeptMain DEF TInv, DeliverSms
<1>2. CASE IncomingCall
  <2>1. LinesOK'
    BY <1>2, CallLines, AppendTwo, AppendFacts DEF TInv, LinesOK, IncomingCall
  <2>2. WorldOK'
    BY <1>2 DEF TInv, WorldOK, IncomingCall
  <2>3. QED
    BY <1>2, <2>1, <2>2, KeptMain DEF TInv, IncomingCall
<1>3. ASSUME NEW request \in Requests, FrontPrintln(request)
      PROVE  TInv'
  <2>1. Command("request", request) \in Sendable
    BY CommandFacts DEF Sendable, Command
  <2>2. LinesOK'
    BY <1>3, <2>1, AppendFacts DEF TInv, LinesOK, FrontPrintln
  <2>3. WorldOK'
    BY <1>3 DEF TInv, WorldOK, FrontPrintln
  <2>4. QED
    BY <1>3, <2>2, <2>3, KeptMain DEF TInv, FrontPrintln
<1>4. CASE Restart
  <2>1. Boot \in Scripts /\ Boot # <<>>
    BY DEF Scripts, Boot
  <2>2. MainOK'
    BY <1>4, <2>1, EmptySeq DEF TInv, MainOK, Restart, Sending, Phases
  <2>3. LinesOK'
    BY <1>4, EmptySeq DEF TInv, LinesOK, Restart
  <2>4. WorldOK'
    BY <1>4, EmptySeq DEF TInv, WorldOK, Restart
  <2>5. QED
    BY <2>2, <2>3, <2>4 DEF TInv
<1>5. CASE ModemReset
  <2>1. LinesOK'
    BY <1>5, EmptySeq DEF TInv, LinesOK, ModemReset
  <2>2. WorldOK'
    BY <1>5 DEF TInv, WorldOK, ModemReset
  <2>3. QED
    BY <1>5, <2>1, <2>2, KeptMain DEF TInv, ModemReset
<1>6. QED
  BY <1>1, <1>2, <1>3, <1>4, <1>5 DEF Environment

LEMMA TInvStep == TInv /\ [Next]_vars => TInv'
<1>1. TInv /\ UNCHANGED vars => TInv'
  BY KeptMain, KeptLines, KeptWorld DEF TInv, vars
<1>2. QED
  BY <1>1, SendCommandType, SmsHandlerType, LoopType, ModemType, EnvironmentType
     DEF Next, MainThread, FrontEnd

LEMMA TInvAlways == Spec => []TInv
  BY TInvInit, TInvStep, PTL DEF Spec

(* Every variable of the conversation only takes values of its type, for any
   requests, SMSs and places and whatever the modem answers (TypeOK). *)
THEOREM TypeCorrect == Spec => []TypeOK
  BY TInvTypeOK, TInvAlways, PTL

-----------------------------------------------------------------------------
(* Each place is announced, read and deleted in turn. *)

(* OneTurn says what may not be there: taking away keeps it. *)
LEMMA TurnShrinks ==
  ASSUME NEW s \in Slots, OneTurn(s),
         ToRead(s)' => ToRead(s), ToDelete(s)' => ToDelete(s),
         Single(tx', Cmgr(s)), Single(tx', Cmgd(s)), InOrder(tx', Cmgr(s), Cmgd(s)),
         Has(tx', Cmgr(s)) => Has(tx, Cmgr(s)), Has(tx', Cmgd(s)) => Has(tx, Cmgd(s)),
         Single(rx', Cmti(s)), Has(rx', Cmti(s)) => Has(rx, Cmti(s)),
         sim'[s] = Nothing => sim[s] = Nothing
  PROVE  OneTurn(s)'
  BY DEF OneTurn

(* Only the lines that have been read are gone, and nothing new is to do. *)
LEMMA TurnRead ==
  ASSUME NEW s \in Slots, OneTurn(s),
         ToRead(s)' => ToRead(s), ToDelete(s)' => ToDelete(s), UNCHANGED <<tx, sim>>,
         Single(rx', Cmti(s)), Has(rx', Cmti(s)) => Has(rx, Cmti(s))
  PROVE  OneTurn(s)'
  BY TurnShrinks DEF OneTurn

(* The head of rx has been read. *)
LEMMA TurnTail ==
  ASSUME TInv, NEW s \in Slots, OneTurn(s), rx # <<>>
  PROVE  /\ Single(Tail(rx), Cmti(s))
         /\ Has(Tail(rx), Cmti(s)) => Has(rx, Cmti(s))
         /\ Head(rx) = Cmti(s) => ~ Has(Tail(rx), Cmti(s)) /\ Has(rx, Cmti(s))
  BY HasTail DEF TInv, LinesOK, OneTurn

LEMMA TurnReturn ==
  ASSUME TInv, phase = "read", NEW response, Return(response), NEW s \in Slots
  PROVE  /\ ~ ToRead(s)'
         /\ ToDelete(s)' => ToDelete(s)
<1>1. script \in Scripts /\ script # <<>>
  BY DEF TInv, MainOK, Sending
<1>2. script' = Tail(script)
  BY DEF Return
<1>3. QED
  BY <1>1, <1>2, ScriptFacts DEF ToRead, ToDelete

LEMMA TurnSendCommand ==
  ASSUME TInv, SendCommand, NEW s \in Slots, OneTurn(s)
  PROVE  OneTurn(s)'
<1>1. CASE Flush
  <2>1. Single(rx', Cmti(s)) /\ ~ Has(rx', Cmti(s))
    BY <1>1, HasNone DEF Flush
  <2>2. (ToRead(s)' => ToRead(s)) /\ (ToDelete(s)' => ToDelete(s))
    BY <1>1 DEF Flush, ToRead, ToDelete
  <2>3. QED
    BY <1>1, <2>1, <2>2, TurnRead DEF Flush, worldVars
<1>2. CASE Println
  <2>1. script \in Scripts /\ script # <<>> /\ Head(script) \in Sendable
    BY <1>2, ScriptFacts DEF TInv, MainOK, Sending, Println
  <2>2. /\ ~ ToRead(s)'
        /\ ToDelete(s)' <=> script = <<Cmgr(s), Cmgd(s)>>
        /\ UNCHANGED <<rx, sim>>
        /\ tx' = Append(tx, Head(script)) /\ tx \in Seq(Sendable)
    BY <1>2 DEF Println, ToRead, ToDelete, worldVars, TInv, LinesOK
  <2>3. /\ ToRead(s) <=> script = <<Cmgr(s), Cmgd(s)>>
        /\ ToDelete(s) <=> script = <<Cmgr(s), Cmgd(s)>> \/ script = <<Cmgd(s)>>
    BY <1>2 DEF Println, ToRead, ToDelete
  <2>4. /\ Has(tx', Cmgr(s)) <=> Has(tx, Cmgr(s)) \/ Head(script) = Cmgr(s)
        /\ Has(tx', Cmgd(s)) <=> Has(tx, Cmgd(s)) \/ Head(script) = Cmgd(s)
    BY <2>1, <2>2, HasAppend
  <2>5. /\ Head(script) = Cmgr(s) <=> script = <<Cmgr(s), Cmgd(s)>>
        /\ Head(script) = Cmgd(s) <=> script = <<Cmgd(s)>>
        /\ Cmgr(s) # Cmgd(s)
    BY <2>1, ScriptFacts, CommandFacts
  <2>6. Single(tx', Cmgr(s)) /\ Single(tx', Cmgd(s))
    BY <2>1, <2>2, <2>3, <2>5, HasAppend DEF OneTurn
  <2>7. InOrder(tx', Cmgr(s), Cmgd(s))
    BY <2>1, <2>2, <2>3, <2>5, InOrderSteps DEF OneTurn
  <2>8. QED
    BY <2>2, <2>3, <2>4, <2>5, <2>6, <2>7 DEF OneTurn
<1>3. CASE ReadLine
  <2>1. (ToRead(s)' => ToRead(s)) /\ (ToDelete(s)' => ToDelete(s))
    BY <1>3 DEF ReadLine, ToRead, ToDelete
  <2>2. QED
    BY <1>3, <2>1, TurnTail, TurnRead DEF ReadLine, worldVars
<1>4. CASE ReadOk
  <2>1. ~ ToRead(s)' /\ (ToDelete(s)' => ToDelete(s))
    BY <1>4, TurnReturn DEF ReadOk
  <2>2. QED
    BY <1>4, <2>1, TurnTail, TurnRead DEF ReadOk, Return, worldVars
<1>5. CASE GiveUp
  <2>1. ~ ToRead(s)' /\ (ToDelete(s)' => ToDelete(s))
    BY <1>5, TurnReturn DEF GiveUp
  <2>2. QED
    BY <1>5, <2>1, TurnRead DEF GiveUp, Return, worldVars, OneTurn
<1>6. QED
  BY <1>1, <1>2, <1>3, <1>4, <1>5 DEF SendCommand

LEMMA TurnLoop ==
  ASSUME TInv, Loop, NEW s \in Slots, OneTurn(s)
  PROVE  OneTurn(s)'
<1>1. TakeLine
  BY DEF Loop, LoopCmti, LoopOtherStore, LoopRing, LoopUnparsable, LoopVerifyFails,
         LoopAnswer
<1>2. script = <<>> /\ ~ ToRead(s) /\ ~ ToDelete(s)
  BY <1>1 DEF TInv, MainOK, Sending, TakeLine, ToRead, ToDelete
<1>3. rx # <<>> /\ rx' = Tail(rx) /\ UNCHANGED <<tx, sim>>
  BY <1>1 DEF TakeLine, worldVars
<1>4. CASE LoopCmti /\ Head(rx) = Cmti(s)
  <2>1. ~ Has(rx', Cmti(s)) /\ Has(rx, Cmti(s)) /\ Single(rx', Cmti(s))
    BY <1>3, <1>4, TurnTail
  <2>2. QED
    BY <1>3, <2>1 DEF OneTurn
<1>5. CASE ~ (LoopCmti /\ Head(rx) = Cmti(s))
  <2>1. ~ ToRead(s)' /\ ~ ToDelete(s)'
    <3>1. CASE LoopCmti
      <4>1. Head(rx) \in LineType /\ Head(rx).of # s
        BY <1>3, <1>5, <3>1, RxTail, LineFacts DEF TInv, LoopCmti
      <4>2. script' = <<Cmgr(Head(rx).of), Cmgd(Head(rx).of)>>
        BY <3>1 DEF LoopCmti, Cmgr, Cmgd
      <4>3. script' # <<Cmgr(s), Cmgd(s)>> /\ script' # <<Cmgd(s)>>
        BY <4>1, <4>2, CommandFacts
      <4>4. QED
        BY <4>3 DEF ToRead, ToDelete
    <3>2. CASE ~ LoopCmti
      BY <1>2, <3>2
         DEF Loop, LoopOtherStore, LoopRing, LoopUnparsable, LoopVerifyFails, LoopAnswer,
             ToRead, ToDelete
    <3>3. QED
      BY <3>1, <3>2
  <2>2. QED
    BY <1>3, <2>1, TurnTail, TurnRead
<1>6. QED
  BY <1>4, <1>5

LEMMA TurnExecute ==
  ASSUME TInv, Execute, NEW s \in Slots, OneTurn(s)
  PROVE  OneTurn(s)'
<1>1. tx # <<>> /\ tx' = Tail(tx) /\ tx \in Seq(Sendable) /\ UNCHANGED <<phase, script, rx>>
  BY DEF TInv, LinesOK, Execute, mainVars
<1>2. (ToRead(s)' <=> ToRead(s)) /\ (ToDelete(s)' <=> ToDelete(s))
  BY <1>1 DEF ToRead, ToDelete
<1>3. /\ Has(tx', Cmgr(s)) => Has(tx, Cmgr(s))
      /\ Has(tx', Cmgd(s)) => Has(tx, Cmgd(s))
      /\ Single(tx', Cmgr(s)) /\ Single(tx', Cmgd(s)) /\ InOrder(tx', Cmgr(s), Cmgd(s))
  BY <1>1, HasTail, InOrderSteps DEF OneTurn
<1>4. CASE Head(tx) = Cmgd(s)
  <2>1. Has(tx, Cmgd(s)) /\ ~ Has(tx', Cmgd(s)) /\ ~ Has(tx, Cmgr(s))
    BY <1>1, <1>4, HasTail, InOrderSteps DEF OneTurn
  <2>2. QED
    BY <1>1, <1>2, <1>3, <2>1 DEF OneTurn
<1>5. CASE Head(tx) # Cmgd(s)
  <2>1. ~ (Head(tx).op = "CMGD" /\ Head(tx).arg = s)
    BY <1>1, <1>5, TxTail, CommandFacts DEF TInv
  <2>2. sim'[s] = sim[s]
    BY <2>1 DEF Execute, TInv, WorldOK
  <2>3. QED
    BY <1>1, <1>2, <1>3, <2>2, TurnShrinks DEF OneTurn
<1>6. QED
  BY <1>4, <1>5

LEMMA TurnWorld ==
  ASSUME TInv, Environment \/ WriteLine, NEW s \in Slots, OneTurn(s)
  PROVE  OneTurn(s)'
<1>1. ASSUME NEW m \in Messages, NEW t \in Slots, DeliverSms(m, t)
      PROVE  OneTurn(s)'
  <2>1. /\ (ToRead(s)' <=> ToRead(s)) /\ (ToDelete(s)' <=> ToDelete(s))
        /\ tx' = tx
    BY <1>1 DEF DeliverSms, ToRead, ToDelete, mainVars
  <2>2. rx' = Append(rx, Cmti(t)) /\ rx \in Seq(Readable) /\ Cmti(t) \in Readable
    BY <1>1, DeliverLine DEF DeliverSms, TInv, LinesOK
  <2>3. CASE t = s
    <3>1. sim[s] = Nothing /\ sim'[s] # Nothing
      BY <1>1, <2>3, SessionAssumption DEF DeliverSms, TInv, WorldOK
    <3>2. Single(rx', Cmti(s))
      BY <2>2, <2>3, <3>1, HasAppend DEF OneTurn
    <3>3. QED
      BY <2>1, <3>1, <3>2 DEF OneTurn
  <2>4. CASE t # s
    <3>1. sim'[s] = sim[s]
      BY <1>1, <2>4 DEF DeliverSms, TInv, WorldOK
    <3>2. Single(rx', Cmti(s)) /\ (Has(rx', Cmti(s)) <=> Has(rx, Cmti(s)))
      BY <2>2, <2>4, HasAppend, LineFacts DEF OneTurn
    <3>3. QED
      BY <2>1, <3>1, <3>2, TurnShrinks DEF OneTurn
  <2>5. QED
    BY <2>3, <2>4
<1>2. CASE IncomingCall
  <2>1. (ToRead(s)' <=> ToRead(s)) /\ (ToDelete(s)' <=> ToDelete(s)) /\ UNCHANGED <<tx, sim>>
    BY <1>2 DEF IncomingCall, ToRead, ToDelete, mainVars
  <2>2. /\ rx' = Append(Append(rx, Line("RING", Nothing)), Line("+CLIP", Nothing))
        /\ rx \in Seq(Readable) /\ Single(rx, Cmti(s))
    BY <1>2, CallLines, AppendTwo DEF IncomingCall, TInv, LinesOK, OneTurn
  <2>3. Single(rx', Cmti(s)) /\ (Has(rx', Cmti(s)) <=> Has(rx, Cmti(s)))
    BY <2>2, CallLines, HasAppendTwo
  <2>4. QED
    BY <2>1, <2>3, TurnRead
<1>3. ASSUME NEW request \in Requests, FrontPrintln(request)
      PROVE  OneTurn(s)'
  <2>1. /\ (ToRead(s)' <=> ToRead(s)) /\ (ToDelete(s)' <=> ToDelete(s))
        /\ UNCHANGED <<rx, sim>>
    BY <1>3 DEF FrontPrintln, ToRead, ToDelete, mainVars
  <2>2. /\ tx' = Append(tx, Command("request", request)) /\ tx \in Seq(Sendable)
        /\ Command("request", request) \in Sendable
        /\ Command("request", request) # Cmgr(s) /\ Command("request", request) # Cmgd(s)
    BY <1>3, CommandFacts DEF FrontPrintln, TInv, LinesOK, Sendable, Command, Cmgr, Cmgd
  <2>3. /\ Single(tx', Cmgr(s)) /\ Single(tx', Cmgd(s))
        /\ Has(tx', Cmgr(s)) <=> Has(tx, Cmgr(s))
        /\ Has(tx', Cmgd(s)) <=> Has(tx, Cmgd(s))
    BY <2>2, HasAppend DEF OneTurn
  <2>4. InOrder(tx', Cmgr(s), Cmgd(s))
    BY <2>2, InOrderSteps, CommandFacts DEF OneTurn
  <2>5. QED
    BY <2>1, <2>3, <2>4, TurnShrinks DEF OneTurn
<1>4. CASE Restart
  <2>1. ~ ToRead(s)' /\ ~ ToDelete(s)'
    BY <1>4, CommandFacts DEF Restart, ToRead, ToDelete, Boot, Command, Cmgr, Cmgd
  <2>2. QED
    BY <1>4, <2>1, HasNone, TurnRead DEF Restart
<1>5. CASE ModemReset
  <2>1. (ToRead(s)' <=> ToRead(s)) /\ (ToDelete(s)' <=> ToDelete(s))
    BY <1>5 DEF ModemReset, ToRead, ToDelete, mainVars
  <2>2. QED
    BY <1>5, <2>1, HasNone, TurnShrinks DEF ModemReset, OneTurn
<1>6. CASE WriteLine
  <2>1. (ToRead(s)' <=> ToRead(s)) /\ (ToDelete(s)' <=> ToDelete(s)) /\ UNCHANGED <<tx, sim>>
    BY <1>6 DEF WriteLine, ToRead, ToDelete, mainVars, worldVars
  <2>2. /\ rx' = Append(rx, Head(out)) /\ rx \in Seq(Readable)
        /\ Head(out) \in Readable /\ Head(out) # Cmti(s)
    BY <1>6, TailFacts, LineFacts DEF WriteLine, TInv, LinesOK, Writable, Readable
  <2>3. Single(rx', Cmti(s)) /\ (Has(rx', Cmti(s)) <=> Has(rx, Cmti(s)))
    BY <2>2, HasAppend DEF OneTurn
  <2>4. QED
    BY <2>1, <2>3, TurnRead
<1>7. QED
  BY <1>1, <1>2, <1>3, <1>4, <1>5, <1>6 DEF Environment

LEMMA TurnInit == Init => TurnInv
  BY HasNone DEF Init, TurnInv, OneTurn, ToRead, ToDelete, Boot, Command, Cmgr, Cmgd

LEMMA TurnStep == TInv /\ TurnInv /\ [Next]_vars => TurnInv'
<1> SUFFICES ASSUME TInv, TurnInv, [Next]_vars, NEW s \in Slots
             PROVE  OneTurn(s)'
  BY DEF TurnInv
<1>1. OneTurn(s)
  BY DEF TurnInv
<1>2. CASE SmsHandler \/ SendPrompt \/ PromptFails \/ FrontEmplace \/ UNCHANGED vars
  <2>1. UNCHANGED <<tx, rx, sim>>
    BY <1>2 DEF SmsHandler, RelaySms, DropSms, HandlerReturns, SendPrompt, PromptFails,
                FrontEmplace, vars, lineVars, worldVars
  <2>2. (ToRead(s)' => ToRead(s)) /\ (ToDelete(s)' => ToDelete(s))
    BY <1>2 DEF SmsHandler, RelaySms, DropSms, HandlerReturns, SendPrompt, PromptFails,
                FrontEmplace, vars, mainVars, ToRead, ToDelete
  <2>3. QED
    BY <1>1, <2>1, <2>2, TurnRead DEF OneTurn
<1>3. QED
  BY <1>1, <1>2, TurnSendCommand, TurnLoop, TurnExecute, TurnWorld
     DEF Next, MainThread, FrontEnd, Modem

-----------------------------------------------------------------------------
(* Nothing is deleted before it was read out. *)

(* To be deleted, and no longer to be read *)
DueFor(s) ==
  (ToDelete(s) \/ Has(tx, Cmgd(s))) /\ ~ ToRead(s) /\ ~ Has(tx, Cmgr(s))

LEMMA ReadKept ==
  ASSUME NEW s \in Slots, ReadBefore(s), DueFor(s)' => DueFor(s), UNCHANGED <<sim, readOut>>
  PROVE  ReadBefore(s)'
  BY DEF ReadBefore, DueFor

LEMMA ReadScript ==
  ASSUME NEW s \in Slots, ReadBefore(s), UNCHANGED <<tx, sim, readOut>>,
         ToDelete(s)' => ToDelete(s), ToRead(s) => ToRead(s)'
  PROVE  ReadBefore(s)'
  BY DEF ReadBefore

LEMMA ReadSendCommand ==
  ASSUME TInv, SendCommand, NEW s \in Slots, OneTurn(s), ReadBefore(s)
  PROVE  ReadBefore(s)'
<1>1. CASE Flush \/ ReadLine
  BY <1>1, ReadScript DEF Flush, ReadLine, ToRead, ToDelete, worldVars
<1>2. CASE Println
  <2>1. script \in Scripts /\ script # <<>> /\ Head(script) \in Sendable
    BY <1>2, ScriptFacts DEF TInv, MainOK, Sending, Println
  <2>2. /\ ~ ToRead(s)'
        /\ ToDelete(s)' <=> script = <<Cmgr(s), Cmgd(s)>>
        /\ UNCHANGED <<sim, readOut>>
        /\ tx' = Append(tx, Head(script)) /\ tx \in Seq(Sendable)
    BY <1>2 DEF Println, ToRead, ToDelete, worldVars, TInv, LinesOK
  <2>3. /\ ToRead(s) <=> script = <<Cmgr(s), Cmgd(s)>>
        /\ ToDelete(s) <=> script = <<Cmgr(s), Cmgd(s)>> \/ script = <<Cmgd(s)>>
    BY <1>2 DEF Println, ToRead, ToDelete
  <2>4. /\ Has(tx', Cmgr(s)) <=> Has(tx, Cmgr(s)) \/ script = <<Cmgr(s), Cmgd(s)>>
        /\ Has(tx', Cmgd(s)) <=> Has(tx, Cmgd(s)) \/ script = <<Cmgd(s)>>
    BY <2>1, <2>2, HasAppend, ScriptFacts
  <2>5. script # <<Cmgr(s), Cmgd(s)>> \/ script # <<Cmgd(s)>>
    OBVIOUS
  <2>6. QED
    BY <2>2, <2>3, <2>4, <2>5 DEF ReadBefore
<1>3. CASE ReadOk \/ GiveUp
  <2>1. PICK response : phase = "read" /\ Return(response)
    BY <1>3 DEF ReadOk, GiveUp
  <2>2. ~ ToRead(s) /\ (ToDelete(s)' => ToDelete(s)) /\ UNCHANGED <<tx, sim, readOut>>
    BY <2>1, TurnReturn DEF Return, ToRead, worldVars
  <2>3. QED
    BY <2>2, ReadScript
<1>4. QED
  BY <1>1, <1>2, <1>3 DEF SendCommand

LEMMA ReadLoop ==
  ASSUME TInv, Loop, NEW s \in Slots, ReadBefore(s)
  PROVE  ReadBefore(s)'
<1>1. TakeLine
  BY DEF Loop, LoopCmti, LoopOtherStore, LoopRing, LoopUnparsable, LoopVerifyFails,
         LoopAnswer
<1>2. script = <<>> /\ ~ ToRead(s) /\ ~ ToDelete(s)
  BY <1>1 DEF TInv, MainOK, Sending, TakeLine, ToRead, ToDelete
<1>3. UNCHANGED <<tx, sim, readOut>>
  BY <1>1 DEF TakeLine, worldVars
<1>4. ToDelete(s)' => ToRead(s)'
  <2>1. CASE LoopCmti
    <3>1. script' = <<Cmgr(Head(rx).of), Cmgd(Head(rx).of)>> /\ phase' = "flush"
      BY <2>1 DEF LoopCmti, Cmgr, Cmgd
    <3>2. script' # <<Cmgd(s)>>
      BY <3>1
    <3>3. QED
      BY <3>1, <3>2 DEF ToRead, ToDelete
  <2>2. CASE ~ LoopCmti
    BY <1>2, <2>2
       DEF Loop, LoopOtherStore, LoopRing, LoopUnparsable, LoopVerifyFails, LoopAnswer,
           ToDelete
  <2>3. QED
    BY <2>1, <2>2
<1>5. QED
  BY <1>2, <1>3, <1>4 DEF ReadBefore

LEMMA ReadExecute ==
  ASSUME TInv, Execute, NEW s \in Slots, ReadBefore(s)
  PROVE  ReadBefore(s)'
<1>1. tx # <<>> /\ tx' = Tail(tx) /\ tx \in Seq(Sendable) /\ Head(tx) \in CommandType
  BY TxTail DEF TInv, LinesOK, Execute
<1>2. (ToRead(s)' <=> ToRead(s)) /\ (ToDelete(s)' <=> ToDelete(s))
  BY DEF Execute, mainVars, ToRead, ToDelete
<1>3. /\ Has(tx, Cmgr(s)) <=> Has(tx', Cmgr(s)) \/ Head(tx) = Cmgr(s)
      /\ Has(tx, Cmgd(s)) <=> Has(tx', Cmgd(s)) \/ Head(tx) = Cmgd(s)
  BY <1>1, HasTail
<1>4. CASE Head(tx) = Cmgd(s)
  <2>1. Head(tx).op = "CMGD" /\ Head(tx).arg = s
    BY <1>1, <1>4, CommandFacts
  <2>2. sim'[s] = Nothing
    BY <2>1 DEF Execute, TInv, WorldOK
  <2>3. QED
    BY <2>2 DEF ReadBefore
<1>5. CASE Head(tx) = Cmgr(s)
  <2>1. Head(tx).op = "CMGR" /\ Head(tx).arg = s
    BY <1>1, <1>5, CommandFacts
  <2>2. sim' = sim /\ readOut' = readOut \cup ({sim[s]} \ {Nothing})
    BY <2>1 DEF Execute
  <2>3. QED
    BY <2>2 DEF ReadBefore
<1>6. CASE Head(tx) # Cmgd(s) /\ Head(tx) # Cmgr(s)
  <2>1. ~ (Head(tx).op = "CMGD" /\ Head(tx).arg = s)
    BY <1>1, <1>6, CommandFacts
  <2>2. sim'[s] = sim[s] /\ readOut \subseteq readOut'
    BY <2>1 DEF Execute, TInv, WorldOK
  <2>3. QED
    BY <1>2, <1>3, <1>6, <2>2 DEF ReadBefore
<1>7. QED
  BY <1>4, <1>5, <1>6

LEMMA ReadWorld ==
  ASSUME MaxResets = 0, TInv, Environment, NEW s \in Slots, OneTurn(s), ReadBefore(s)
  PROVE  ReadBefore(s)'
<1>1. ASSUME NEW m \in Messages, NEW t \in Slots, DeliverSms(m, t)
      PROVE  ReadBefore(s)'
  <2>1. /\ (ToRead(s)' <=> ToRead(s)) /\ (ToDelete(s)' <=> ToDelete(s))
        /\ UNCHANGED <<tx, readOut>>
    BY <1>1 DEF DeliverSms, ToRead, ToDelete, mainVars
  <2>2. CASE t = s
    <3>1. sim[s] = Nothing
      BY <1>1, <2>2 DEF DeliverSms
    <3>2. QED
      BY <2>1, <3>1 DEF OneTurn, ReadBefore
  <2>3. CASE t # s
    <3>1. sim'[s] = sim[s]
      BY <1>1, <2>3 DEF DeliverSms, TInv, WorldOK
    <3>2. QED
      BY <2>1, <3>1 DEF ReadBefore
  <2>4. QED
    BY <2>2, <2>3
<1>2. CASE IncomingCall
  BY <1>2, ReadScript DEF IncomingCall, ToRead, ToDelete, mainVars
<1>3. ASSUME NEW request \in Requests, FrontPrintln(request)
      PROVE  ReadBefore(s)'
  <2>1. /\ (ToRead(s)' <=> ToRead(s)) /\ (ToDelete(s)' <=> ToDelete(s))
        /\ UNCHANGED <<sim, readOut>>
    BY <1>3 DEF FrontPrintln, ToRead, ToDelete, mainVars
  <2>2. /\ tx' = Append(tx, Command("request", request)) /\ tx \in Seq(Sendable)
        /\ Command("request", request) \in Sendable
        /\ Command("request", request) # Cmgr(s) /\ Command("request", request) # Cmgd(s)
    BY <1>3, CommandFacts DEF FrontPrintln, TInv, LinesOK, Sendable, Command, Cmgr, Cmgd
  <2>3. /\ Has(tx', Cmgr(s)) <=> Has(tx, Cmgr(s))
        /\ Has(tx', Cmgd(s)) <=> Has(tx, Cmgd(s))
    BY <2>2, HasAppend
  <2>4. QED
    BY <2>1, <2>3 DEF ReadBefore
<1>4. CASE Restart
  <2>1. ~ ToDelete(s)' /\ UNCHANGED <<tx, sim, readOut>>
    BY <1>4, CommandFacts DEF Restart, ToDelete, Boot, Command, Cmgr, Cmgd
  <2>2. QED
    BY <2>1 DEF OneTurn, ReadBefore
<1>5. ~ ModemReset
  BY DEF TInv, WorldOK, ModemReset
<1>6. QED
  BY <1>1, <1>2, <1>3, <1>4, <1>5 DEF Environment

LEMMA ReadOthers ==
  ASSUME TInv, NEW s \in Slots, ReadBefore(s),
         \/ SmsHandler \/ SendPrompt \/ PromptFails \/ FrontEmplace \/ WriteLine
         \/ UNCHANGED vars
  PROVE  ReadBefore(s)'
<1>1. UNCHANGED <<tx, sim, readOut>>
  BY DEF SmsHandler, RelaySms, DropSms, HandlerReturns, SendPrompt, PromptFails,
         FrontEmplace, WriteLine, vars, lineVars, worldVars
<1>2. (ToDelete(s)' => ToDelete(s)) /\ (ToRead(s) => ToRead(s)')
  BY DEF SmsHandler, RelaySms, DropSms, HandlerReturns, SendPrompt, PromptFails,
         FrontEmplace, WriteLine, vars, mainVars, ToRead, ToDelete
<1>3. QED
  BY <1>1, <1>2, ReadScript

LEMMA ReadStep ==
  ASSUME MaxResets = 0, TInv, [Next]_vars, NEW s \in Slots, OneTurn(s), ReadBefore(s)
  PROVE  ReadBefore(s)'
BY ReadSendCommand, ReadLoop, ReadExecute, ReadWorld, ReadOthers
   DEF Next, MainThread, FrontEnd, Modem

LEMMA DeletedStep ==
  ASSUME TInv, TurnInv, DeleteInv, [Next]_vars
  PROVE  DeletedAfterReadOut'
<1> SUFFICES ASSUME NEW m \in Messages
             PROVE  m \in unsent' \/ (\E s \in Slots : sim'[s] = m) \/ m \in readOut'
  BY DEF DeletedAfterReadOut, Stored
<1>1. m \in unsent \/ (\E s \in Slots : sim[s] = m) \/ m \in readOut
  BY DEF DeleteInv, DeletedAfterReadOut, Stored
<1>2. m # Nothing /\ sim \in [Slots -> Messages \cup {Nothing}]
  BY SessionAssumption DEF TInv, WorldOK
<1>3. ASSUME NEW n \in Messages, NEW t \in Slots, DeliverSms(n, t)
      PROVE  m \in unsent' \/ (\E s \in Slots : sim'[s] = m) \/ m \in readOut'
  <2>1. /\ sim[t] = Nothing /\ sim' = [sim EXCEPT ![t] = n]
        /\ unsent' = unsent \ {n} /\ readOut' = readOut
    BY <1>3 DEF DeliverSms
  <2>2. sim'[t] = n /\ \A s \in Slots : s # t => sim'[s] = sim[s]
    BY <1>2, <2>1
  <2>3. QED
    BY <1>1, <1>2, <2>1, <2>2
<1>4. CASE Execute
  <2>1. CASE Head(tx).op = "CMGD"
    <3> DEFINE t == Head(tx).arg
    <3>1. t \in Slots /\ Head(tx) = Cmgd(t) /\ tx # <<>> /\ tx \in Seq(Sendable)
      BY <1>4, <2>1, TxTail, CommandFacts DEF TInv, LinesOK, Execute
    <3>2. /\ sim' = [sim EXCEPT ![t] = Nothing]
          /\ unsent' = unsent /\ readOut' = readOut
      BY <1>4, <2>1 DEF Execute
    <3> HIDE DEF t
    <3>3. OneTurn(t) /\ ReadBefore(t)
      BY <3>1 DEF TurnInv, DeleteInv
    <3>4. Has(tx, Cmgd(t)) /\ ~ Has(tx, Cmgr(t))
      BY <3>1, <3>3, HasTail, InOrderSteps DEF OneTurn
    <3>5. sim[t] \in readOut \cup {Nothing}
      BY <3>3, <3>4 DEF OneTurn, ReadBefore
    <3>6. \A s \in Slots : s # t => sim'[s] = sim[s]
      BY <1>2, <3>2
    <3>7. QED
      BY <1>1, <1>2, <3>2, <3>5, <3>6
  <2>2. CASE Head(tx).op # "CMGD"
    <3>1. sim' = sim /\ unsent' = unsent /\ readOut \subseteq readOut'
      BY <1>4, <2>2 DEF Execute
    <3>2. QED
      BY <1>1, <3>1
  <2>3. QED
    BY <2>1, <2>2
<1>5. CASE UNCHANGED <<sim, unsent, readOut>>
  BY <1>1, <1>5
<1>6. MainThread \/ FrontEnd \/ FrontEmplace \/ WriteLine \/ IncomingCall \/ Restart \/ ModemReset
        \/ (\E request \in Requests : FrontPrintln(request)) \/ UNCHANGED vars
        => UNCHANGED <<sim, unsent, readOut>>
  <2>1. MainThread \/ FrontEnd => UNCHANGED <<sim, unsent, readOut>>
    BY DEF MainThread, FrontEnd, SendCommand, Flush, Println, ReadLine, ReadOk, GiveUp, Return,
           SmsHandler, RelaySms, DropSms, Loop, LoopCmti, LoopOtherStore, LoopRing,
           LoopUnparsable, LoopVerifyFails, LoopAnswer, TakeLine, SendPrompt, PromptFails,
           worldVars
  <2>2. QED
    BY <2>1 DEF FrontEmplace, WriteLine, IncomingCall, Restart, ModemReset, FrontPrintln,
                vars, worldVars
<1>7. QED
  BY <1>3, <1>4, <1>5, <1>6 DEF Next, Modem, Environment

LEMMA TurnAlways == Spec => []TurnInv
  BY TInvAlways, TurnInit, TurnStep, PTL DEF Spec

(* While the modem keeps its power (MaxResets = 0), an SMS is deleted only
   after it was read out: the AT+CMGD that follows a failed AT+CMGR, or one a
   process that has ended left on the line, never costs an SMS nobody read
   (DeletedAfterReadOut). *)
THEOREM NeverDeletedUnread ==
  ASSUME MaxResets = 0
  PROVE  Spec => []DeletedAfterReadOut
<1>1. Init => DeleteInv
  BY HasNone
     DEF Init, DeleteInv, DeletedAfterReadOut, ReadBefore, ToDelete, Boot, Command, Cmgr, Cmgd
<1>2. TInv /\ TurnInv /\ DeleteInv /\ [Next]_vars => DeleteInv'
  <2> SUFFICES ASSUME TInv, TurnInv, DeleteInv, [Next]_vars
               PROVE  DeleteInv'
    OBVIOUS
  <2>1. ASSUME NEW s \in Slots
        PROVE  ReadBefore(s)'
    BY ReadStep DEF TurnInv, DeleteInv
  <2>2. QED
    BY <2>1, DeletedStep DEF DeleteInv
<1>3. DeleteInv => DeletedAfterReadOut
  BY DEF DeleteInv
<1>4. QED
  BY <1>1, <1>2, <1>3, TInvAlways, TurnAlways, PTL DEF Spec

-----------------------------------------------------------------------------
(* A PDU is in one place on its way to the mail. *)

(* Only a new SMS gives a place a turn. *)
LEMMA AheadStep ==
  ASSUME TInv, [Next]_vars, NEW s \in Slots, ~ \E m \in Messages : DeliverSms(m, s)
  PROVE  ReadAhead(s)' => ReadAhead(s)
<1>1. ASSUME UNCHANGED <<tx, rx>>, ToRead(s)' => ToRead(s)
      PROVE  ReadAhead(s)' => ReadAhead(s)
  BY <1>1 DEF ReadAhead
<1>2. ASSUME tx' = tx, rx # <<>>, rx' = Tail(rx), ToRead(s)' => ToRead(s) \/ Head(rx) = Cmti(s)
      PROVE  ReadAhead(s)' => ReadAhead(s)
  BY <1>2, HasTail DEF ReadAhead, TInv, LinesOK
<1>3. CASE Flush
  BY <1>3, HasNone DEF Flush, ReadAhead, ToRead
<1>4. CASE Println
  <2>1. script \in Scripts /\ script # <<>> /\ Head(script) \in Sendable
    BY <1>4, ScriptFacts DEF TInv, MainOK, Sending, Println
  <2>2. tx' = Append(tx, Head(script)) /\ rx' = rx /\ tx \in Seq(Sendable) /\ ~ ToRead(s)'
    BY <1>4 DEF Println, TInv, LinesOK, ToRead
  <2>3. Has(tx', Cmgr(s)) <=> Has(tx, Cmgr(s)) \/ Head(script) = Cmgr(s)
    BY <2>1, <2>2, HasAppend
  <2>4. Head(script) = Cmgr(s) => ToRead(s)
    BY <1>4, <2>1, ScriptFacts DEF Println, ToRead
  <2>5. QED
    BY <2>2, <2>3, <2>4 DEF ReadAhead
<1>5. CASE ReadLine
  BY <1>5, <1>2 DEF ReadLine, ToRead
<1>6. CASE ReadOk \/ GiveUp
  <2>1. PICK response : phase = "read" /\ Return(response)
    BY <1>6 DEF ReadOk, GiveUp
  <2>2. ~ ToRead(s)'
    BY <2>1, TurnReturn
  <2>3. QED
    BY <1>1, <1>2, <1>6, <2>2 DEF ReadOk, GiveUp, Return
<1>7. CASE Loop
  <2>1. TakeLine
    BY <1>7 DEF Loop, LoopCmti, LoopOtherStore, LoopRing, LoopUnparsable, LoopVerifyFails,
                LoopAnswer
  <2>2. ToRead(s)' => Head(rx) = Cmti(s)
    <3>1. CASE LoopCmti
      <4>1. Head(rx) = Cmti(s) <=> Head(rx).of = s
        BY <2>1, <3>1, RxTail, LineFacts DEF TInv, TakeLine, LoopCmti
      <4>2. script' = <<Cmgr(Head(rx).of), Cmgd(Head(rx).of)>>
        BY <3>1 DEF LoopCmti, Cmgr, Cmgd
      <4>3. script' = <<Cmgr(s), Cmgd(s)>> => Head(rx).of = s
        BY <4>2, CommandFacts
      <4>4. QED
        BY <4>1, <4>3 DEF ToRead
    <3>2. CASE ~ LoopCmti
      BY <1>7, <2>1, <3>2
         DEF TInv, MainOK, Sending, TakeLine, Loop, LoopOtherStore, LoopRing,
             LoopUnparsable, LoopVerifyFails, LoopAnswer, ToRead
    <3>3. QED
      BY <3>1, <3>2
  <2>3. QED
    BY <1>2, <2>1, <2>2 DEF TakeLine
<1>8. CASE Execute
  BY <1>8, HasTail DEF Execute, mainVars, ReadAhead, ToRead, TInv, LinesOK
<1>9. ASSUME NEW l \in Readable, rx' = Append(rx, l), l # Cmti(s), UNCHANGED <<tx, mainVars>>
      PROVE  ReadAhead(s)' => ReadAhead(s)
  BY <1>9, HasAppend DEF ReadAhead, ToRead, mainVars, TInv, LinesOK
<1>10. CASE WriteLine
  <2>1. Head(out) \in Readable /\ Head(out) # Cmti(s)
    BY <1>10, TailFacts, LineFacts DEF WriteLine, TInv, LinesOK, Writable, Readable
  <2>2. QED
    BY <1>9, <1>10, <2>1 DEF WriteLine
<1>11. ASSUME NEW m \in Messages, NEW t \in Slots, DeliverSms(m, t)
       PROVE  ReadAhead(s)' => ReadAhead(s)
  <2>1. t # s
    BY <1>11
  <2>2. Line("+CMTI", t) \in Readable /\ Line("+CMTI", t) # Cmti(s)
    BY <2>1, DeliverLine, LineFacts
  <2>3. QED
    BY <1>9, <1>11, <2>2 DEF DeliverSms
<1>12. CASE IncomingCall
  <2>1. /\ rx' = Append(Append(rx, Line("RING", Nothing)), Line("+CLIP", Nothing))
        /\ rx \in Seq(Readable)
    BY <1>12, CallLines, AppendTwo DEF IncomingCall, TInv, LinesOK
  <2>2. Has(rx', Cmti(s)) <=> Has(rx, Cmti(s))
    BY <2>1, CallLines, HasAppendTwo
  <2>3. QED
    BY <1>12, <2>2 DEF IncomingCall, mainVars, ReadAhead, ToRead
<1>13. ASSUME NEW request \in Requests, FrontPrintln(request)
       PROVE  ReadAhead(s)' => ReadAhead(s)
  <2>1. /\ tx' = Append(tx, Command("request", request)) /\ tx \in Seq(Sendable)
        /\ Command("request", request) \in Sendable
        /\ Command("request", request) # Cmgr(s)
    BY <1>13, CommandFacts DEF FrontPrintln, TInv, LinesOK, Sendable, Command, Cmgr
  <2>2. Has(tx', Cmgr(s)) <=> Has(tx, Cmgr(s))
    BY <2>1, HasAppend
  <2>3. QED
    BY <1>13, <2>2 DEF FrontPrintln, mainVars, ReadAhead, ToRead
<1>14. CASE Restart
  <2>1. ~ ToRead(s)'
    BY <1>14, CommandFacts DEF Restart, ToRead, Boot, Command, Cmgr, Cmgd
  <2>2. QED
    BY <1>14, <2>1, HasNone DEF Restart, ReadAhead
<1>15. CASE ModemReset
  BY <1>15, HasNone DEF ModemReset, mainVars, ReadAhead, ToRead
<1>16. CASE SmsHandler \/ SendPrompt \/ PromptFails \/ FrontEmplace \/ UNCHANGED vars
  <2>1. UNCHANGED <<tx, rx>>
    BY <1>16 DEF SmsHandler, RelaySms, DropSms, HandlerReturns, SendPrompt, PromptFails,
                FrontEmplace, vars, lineVars
  <2>2. ToRead(s)' => ToRead(s)
    BY <1>16 DEF SmsHandler, RelaySms, DropSms, HandlerReturns, SendPrompt, PromptFails,
                FrontEmplace, vars, mainVars, ToRead
  <2>3. QED
    BY <1>1, <2>1, <2>2
<1>17. QED
  BY <1>3, <1>4, <1>5, <1>6, <1>7, <1>8, <1>10, <1>11, <1>12, <1>13, <1>14, <1>15, <1>16
     DEF Next, MainThread, FrontEnd, SendCommand, Modem, Environment

(* OneCopy, like OneTurn, says what may not be there. *)
LEMMA CopyShrinks ==
  ASSUME NEW m \in Messages, OneCopy(m),
         Single(out', PduLine(m)), Single(rx', PduLine(m)),
         Has(out', PduLine(m)) => Has(out, PduLine(m)), Has(rx', PduLine(m)) => Has(rx, PduLine(m)),
         Has(oss', PduLine(m)) => Has(oss, PduLine(m)), InSms(m)' => InSms(m),
         mailed'[m] = mailed[m], m \in unsent' => m \in unsent,
         \A s \in Slots : sim'[s] = m => sim[s] = m,
         \A s \in Slots : ReadAhead(s)' => ReadAhead(s)
  PROVE  OneCopy(m)'
<1>1. Stored(m)' => Stored(m)
  BY DEF Stored
<1>2. Unread(m) => Unread(m)'
  BY DEF Unread
<1>3. QED
  BY <1>1, <1>2 DEF OneCopy

LEMMA CopyReadLine ==
  ASSUME TInv, NEW m \in Messages, OneCopy(m), ReadLine,
         \A s \in Slots : ReadAhead(s)' => ReadAhead(s)
  PROVE  OneCopy(m)'
<1>1. /\ rx # <<>> /\ rx' = Tail(rx) /\ rx \in Seq(Readable)
      /\ oss' = Append(oss, Head(rx)) /\ oss \in Seq(LineType) /\ Head(rx) \in LineType
      /\ UNCHANGED <<out, smsContent, mailed, unsent, sim>>
  BY RxTail DEF ReadLine, TInv, MainOK, LinesOK, worldVars
<1>2. /\ Has(rx, PduLine(m)) <=> Has(rx', PduLine(m)) \/ Head(rx) = PduLine(m)
      /\ Head(rx) = PduLine(m) => ~ Has(rx', PduLine(m))
      /\ Single(rx', PduLine(m))
      /\ Has(oss', PduLine(m)) <=> Has(oss, PduLine(m)) \/ Head(rx) = PduLine(m)
  BY <1>1, HasTail, HasAppend DEF OneCopy
<1>3. (InSms(m)' <=> InSms(m)) /\ (Stored(m)' <=> Stored(m))
  BY <1>1 DEF InSms, Stored
<1>4. Unread(m) => Unread(m)'
  BY <1>1, <1>2, <1>3 DEF Unread
<1>5. QED
  BY <1>1, <1>2, <1>3, <1>4 DEF OneCopy

LEMMA CopyReturn ==
  ASSUME TInv, NEW m \in Messages, OneCopy(m), ReadOk \/ GiveUp,
         \A s \in Slots : ReadAhead(s)' => ReadAhead(s)
  PROVE  OneCopy(m)'
<1>1. /\ UNCHANGED <<out, mailed, unsent, sim>>
      /\ oss' = <<>> /\ ~ Has(oss', PduLine(m))
      /\ smsContent' \in {oss, Nothing, smsContent}
  BY HasNone DEF ReadOk, GiveUp, Return, worldVars
<1>2. Single(rx', PduLine(m)) /\ (Has(rx', PduLine(m)) => Has(rx, PduLine(m)))
  BY HasTail DEF ReadOk, GiveUp, TInv, LinesOK, OneCopy
<1>3. /\ InSms(m)' => InSms(m) \/ Has(oss, PduLine(m))
      /\ Stored(m)' <=> Stored(m)
  BY <1>1 DEF InSms, Stored
<1>4. Unread(m) => Unread(m)'
  BY <1>1, <1>2, <1>3 DEF Unread
<1>5. QED
  BY <1>1, <1>2, <1>3, <1>4 DEF OneCopy

LEMMA CopyRelay ==
  ASSUME TInv, NEW m \in Messages, OneCopy(m), RelaySms,
         \A s \in Slots : ReadAhead(s)' => ReadAhead(s)
  PROVE  OneCopy(m)'
<1>1. UNCHANGED <<out, rx, oss, unsent, sim>> /\ ~ InSms(m)'
  BY DEF RelaySms, HandlerReturns, lineVars, InSms
<1>2. PICK n \in PduOf(smsContent) : mailed' = [mailed EXCEPT ![n] = @ + 1]
  BY DEF RelaySms
<1>3. CASE n = m
  <2>1. InSms(m)
    <3>1. /\ smsContent # Nothing /\ Len(smsContent) = 2
          /\ smsContent[2].kind = "PDU" /\ smsContent[2].of = m
      BY <1>3 DEF PduOf
    <3>2. smsContent \in Seq(LineType)
      BY <3>1 DEF TInv, MainOK
    <3>3. 2 \in DOMAIN smsContent /\ smsContent[2] \in LineType
      BY <3>1, <3>2, LenProperties
    <3>4. smsContent[2] = PduLine(m)
      BY <3>1, <3>3, LineFacts
    <3>5. QED
      BY <3>1, <3>3, <3>4 DEF InSms, Has
  <2>2. mailed'[m] = 1
    BY <1>2, <1>3, <2>1 DEF OneCopy, TInv, WorldOK
  <2>3. /\ ~ Has(out, PduLine(m)) /\ ~ Has(rx, PduLine(m)) /\ ~ Has(oss, PduLine(m)) /\ ~ Unread(m)
    BY <2>1 DEF OneCopy, Unread
  <2>4. QED
    BY <1>1, <2>2, <2>3 DEF OneCopy
<1>4. CASE n # m
  <2>1. mailed'[m] = mailed[m]
    BY <1>2, <1>4 DEF TInv, WorldOK
  <2>2. QED
    BY <1>1, <2>1, CopyShrinks DEF OneCopy
<1>5. QED
  BY <1>3, <1>4

LEMMA CopyExecute ==
  ASSUME TInv, TurnInv, NEW m \in Messages, OneCopy(m), Execute,
         \A s \in Slots : ReadAhead(s)' => ReadAhead(s)
  PROVE  OneCopy(m)'
<1>1. /\ tx # <<>> /\ tx' = Tail(tx) /\ tx \in Seq(Sendable) /\ out = <<>>
      /\ out' = Response(Head(tx))
      /\ UNCHANGED <<rx, oss, smsContent, mailed, unsent, phase, script>>
  BY DEF Execute, TInv, LinesOK, mainVars
<1>2. /\ Has(out', PduLine(m)) <=> Head(tx).op = "CMGR" /\ sim[Head(tx).arg] = m
      /\ Single(out', PduLine(m)) /\ ~ Has(out, PduLine(m))
  BY <1>1, ResponseFacts, HasNone
<1>3. \A s \in Slots : sim'[s] = m => sim[s] = m
  BY SessionAssumption DEF Execute, TInv, WorldOK
<1>4. InSms(m)' <=> InSms(m)
  BY <1>1 DEF InSms
<1>5. CASE Head(tx).op = "CMGR" /\ sim[Head(tx).arg] = m
  <2>1. PICK t \in Slots : Head(tx) = Cmgr(t) /\ sim[t] = m
    BY <1>1, <1>5, TxTail, CommandFacts DEF TInv
  <2>2. Has(tx, Cmgr(t)) /\ ~ Has(tx', Cmgr(t)) /\ OneTurn(t)
    BY <1>1, <2>1, HasTail DEF TurnInv, OneTurn
  <2>3. Unread(m) /\ Stored(m)
    BY <2>1, <2>2 DEF OneCopy, ReadAhead, Stored
  <2>4. ~ ReadAhead(t)'
    <3>1. ~ Has(rx, Cmti(t)) /\ ~ ToRead(t)
      BY <2>2 DEF OneTurn
    <3>2. ~ Has(rx', Cmti(t)) /\ ~ ToRead(t)'
      BY <1>1, <3>1 DEF ToRead
    <3>3. QED
      BY <2>2, <3>2 DEF ReadAhead
  <2>5. \A s \in Slots : sim[s] = m => s = t
    BY <2>1 DEF OneCopy
  <2>6. ~ Has(rx', PduLine(m)) /\ ~ Has(oss', PduLine(m)) /\ ~ InSms(m)' /\ mailed'[m] = 0
    BY <1>1, <1>4, <2>3 DEF Unread
  <2>7. m \notin unsent'
    BY <1>1, <2>3 DEF OneCopy
  <2>8. \A s \in Slots : sim'[s] = m => ~ ReadAhead(s)'
    <3>1. ASSUME NEW s \in Slots, sim'[s] = m
          PROVE  ~ ReadAhead(s)'
      <4>1. s = t
        BY <1>3, <2>5, <3>1
      <4>2. QED
        BY <2>4, <4>1
    <3>2. QED
      BY <3>1
  <2>9. /\ Single(rx', PduLine(m))
        /\ \A s, u \in Slots : sim'[s] = m /\ sim'[u] = m => s = u
    BY <1>1, <1>3 DEF OneCopy
  <2>10. QED
    BY <1>2, <2>6, <2>7, <2>8, <2>9 DEF OneCopy
<1>6. CASE ~ (Head(tx).op = "CMGR" /\ sim[Head(tx).arg] = m)
  BY <1>1, <1>2, <1>3, <1>4, <1>6, CopyShrinks DEF OneCopy
<1>7. QED
  BY <1>5, <1>6

LEMMA CopyWriteLine ==
  ASSUME TInv, NEW m \in Messages, OneCopy(m), WriteLine,
         \A s \in Slots : ReadAhead(s)' => ReadAhead(s)
  PROVE  OneCopy(m)'
<1>1. /\ out # <<>> /\ out' = Tail(out) /\ out \in Seq(Writable)
      /\ rx' = Append(rx, Head(out)) /\ rx \in Seq(Readable) /\ Head(out) \in Readable
      /\ UNCHANGED <<oss, smsContent, mailed, unsent, sim>>
  BY TailFacts DEF WriteLine, TInv, LinesOK, Writable, Readable, mainVars, worldVars
<1>2. /\ Has(out, PduLine(m)) <=> Has(out', PduLine(m)) \/ Head(out) = PduLine(m)
      /\ Head(out) = PduLine(m) => ~ Has(out', PduLine(m))
      /\ Single(out', PduLine(m))
      /\ Has(rx', PduLine(m)) <=> Has(rx, PduLine(m)) \/ Head(out) = PduLine(m)
  BY <1>1, HasTail, HasAppend DEF OneCopy
<1>3. Single(rx', PduLine(m))
  BY <1>1, <1>2, HasAppend DEF OneCopy
<1>4. (InSms(m)' <=> InSms(m)) /\ (Stored(m)' <=> Stored(m))
  BY <1>1 DEF InSms, Stored
<1>5. Unread(m) => Unread(m)'
  BY <1>1, <1>2, <1>4 DEF Unread
<1>6. QED
  BY <1>1, <1>2, <1>3, <1>4, <1>5 DEF OneCopy

LEMMA CopyDeliver ==
  ASSUME TInv, NEW m \in Messages, OneCopy(m),
         NEW n \in Messages, NEW t \in Slots, DeliverSms(n, t),
         \A s \in Slots \ {t} : ReadAhead(s)' => ReadAhead(s)
  PROVE  OneCopy(m)'
<1>1. /\ rx' = Append(rx, Cmti(t)) /\ rx \in Seq(Readable) /\ Cmti(t) \in Readable
      /\ UNCHANGED <<out, oss, smsContent, mailed>>
      /\ n \in unsent /\ unsent' = unsent \ {n} /\ sim[t] = Nothing
      /\ sim \in [Slots -> Messages \cup {Nothing}] /\ sim' = [sim EXCEPT ![t] = n]
  BY DeliverLine DEF DeliverSms, TInv, LinesOK, WorldOK, mainVars
<1>2. (Has(rx', PduLine(m)) <=> Has(rx, PduLine(m))) /\ Single(rx', PduLine(m))
  BY <1>1, HasAppend, LineFacts DEF OneCopy
<1>3. InSms(m)' <=> InSms(m)
  BY <1>1 DEF InSms
<1>4. Unread(m) => Unread(m)'
  BY <1>1, <1>2, <1>3 DEF Unread
<1>5. sim'[t] = n /\ \A s \in Slots : s # t => sim'[s] = sim[s]
  BY <1>1
<1>6. CASE n = m
  <2>1. Unread(m)' /\ m \notin unsent' /\ \A s \in Slots : sim[s] # m
    BY <1>1, <1>4, <1>6 DEF OneCopy, Stored
  <2>2. \A s \in Slots : sim'[s] = m => s = t
    BY <1>5, <2>1
  <2>3. ~ Has(out', PduLine(m)) /\ ~ Has(rx', PduLine(m)) /\ ~ Has(oss', PduLine(m)) /\ ~ InSms(m)'
        /\ mailed'[m] = 0
    BY <2>1 DEF Unread
  <2>4. QED
    BY <1>1, <1>2, <2>1, <2>2, <2>3 DEF OneCopy
<1>7. CASE n # m
  <2>1. \A s \in Slots : sim'[s] = m => sim[s] = m /\ s # t
    BY <1>5, <1>7
  <2>2. Stored(m)' => Stored(m)
    BY <2>1 DEF Stored
  <2>3. QED
    BY <1>1, <1>2, <1>3, <1>4, <2>1, <2>2 DEF OneCopy
<1>8. QED
  BY <1>6, <1>7

LEMMA CopyStep == TInv /\ TurnInv /\ CopyInv /\ [Next]_vars => CopyInv'
<1> SUFFICES ASSUME TInv, TurnInv, CopyInv, [Next]_vars, NEW m \in Messages
             PROVE  OneCopy(m)'
  BY DEF CopyInv
<1>1. OneCopy(m)
  BY DEF CopyInv
<1>2. CASE \E n \in Messages, t \in Slots : DeliverSms(n, t)
  <2>1. PICK n \in Messages, t \in Slots : DeliverSms(n, t)
    BY <1>2
  <2>2. ASSUME NEW s \in Slots \ {t}
        PROVE  ReadAhead(s)' => ReadAhead(s)
    <3>1. ~ \E x \in Messages : DeliverSms(x, s)
      BY <2>1, SessionAssumption DEF DeliverSms, TInv, WorldOK
    <3>2. QED
      BY <3>1, AheadStep
  <2>3. QED
    BY <1>1, <2>1, <2>2, CopyDeliver
<1>3. CASE ~ \E n \in Messages, t \in Slots : DeliverSms(n, t)
  <2>1. \A s \in Slots : ReadAhead(s)' => ReadAhead(s)
    BY <1>3, AheadStep
  <2>2. CASE \/ Flush \/ Println \/ IncomingCall \/ Restart \/ ModemReset \/ DropSms
             \/ Loop \/ SendPrompt \/ PromptFails \/ FrontEmplace \/ UNCHANGED vars
             \/ \E request \in Requests : FrontPrintln(request)
    <3>1. UNCHANGED <<mailed, unsent, sim>>
      BY <2>2 DEF Flush, Println, IncomingCall, Restart, ModemReset, DropSms, Loop, LoopCmti,
                  LoopOtherStore, LoopRing, LoopUnparsable, LoopVerifyFails, LoopAnswer,
                  TakeLine, SendPrompt, PromptFails, FrontEmplace, FrontPrintln, vars,
                  worldVars
    <3>2. out' = out \/ out' = <<>>
      BY <2>2 DEF Flush, Println, IncomingCall, Restart, ModemReset, DropSms, HandlerReturns,
                  Loop, LoopCmti, LoopOtherStore, LoopRing, LoopUnparsable, LoopVerifyFails,
                  LoopAnswer, TakeLine, SendPrompt, PromptFails, FrontEmplace, FrontPrintln,
                  vars, lineVars
    <3>3. oss' = oss \/ oss' = <<>>
      BY <2>2 DEF Flush, Println, IncomingCall, Restart, ModemReset, DropSms, HandlerReturns,
                  Loop, LoopCmti, LoopOtherStore, LoopRing, LoopUnparsable, LoopVerifyFails,
                  LoopAnswer, TakeLine, SendPrompt, PromptFails, FrontEmplace, FrontPrintln,
                  vars, mainVars
    <3>4. smsContent' = smsContent \/ smsContent' = Nothing
      BY <2>2 DEF Flush, Println, IncomingCall, Restart, ModemReset, DropSms, HandlerReturns,
                  Loop, LoopCmti, LoopOtherStore, LoopRing, LoopUnparsable, LoopVerifyFails,
                  LoopAnswer, TakeLine, SendPrompt, PromptFails, FrontEmplace, FrontPrintln,
                  vars, mainVars
    <3>5. \/ rx' \in {rx, <<>>}
          \/ rx # <<>> /\ rx' = Tail(rx)
          \/ rx' = rx \o <<Line("RING", Nothing), Line("+CLIP", Nothing)>>
      BY <2>2 DEF Flush, Println, IncomingCall, Restart, ModemReset, DropSms, HandlerReturns,
                  Loop, LoopCmti, LoopOtherStore, LoopRing, LoopUnparsable, LoopVerifyFails,
                  LoopAnswer, TakeLine, SendPrompt, PromptFails, FrontEmplace, FrontPrintln,
                  vars, lineVars
    <3>6. Single(rx', PduLine(m)) /\ (Has(rx', PduLine(m)) => Has(rx, PduLine(m)))
      <4>1. Single(rx, PduLine(m)) /\ rx \in Seq(Readable)
        BY <1>1 DEF OneCopy, TInv, LinesOK
      <4>2. CASE rx' = rx \o <<Line("RING", Nothing), Line("+CLIP", Nothing)>>
        <5>1. rx' = Append(Append(rx, Line("RING", Nothing)), Line("+CLIP", Nothing))
          BY <4>1, <4>2, CallLines, AppendTwo
        <5>2. QED
          BY <4>1, <5>1, CallLines, HasAppendTwo
      <4>3. CASE rx # <<>> /\ rx' = Tail(rx)
        BY <4>1, <4>3, HasTail
      <4>4. CASE rx' = rx
        BY <4>1, <4>4
      <4>5. CASE rx' = <<>>
        BY <4>5, HasNone
      <4>6. QED
        BY <3>5, <4>2, <4>3, <4>4, <4>5
    <3>7. /\ Single(out', PduLine(m)) /\ (Has(out', PduLine(m)) => Has(out, PduLine(m)))
          /\ Has(oss', PduLine(m)) => Has(oss, PduLine(m))
      BY <1>1, <3>2, <3>3, HasNone DEF OneCopy
    <3>8. InSms(m)' => InSms(m)
      BY <3>4 DEF InSms
    <3>9. QED
      BY <1>1, <2>1, <3>1, <3>6, <3>7, <3>8, CopyShrinks
  <2>3. QED
    BY <1>1, <1>3, <2>1, <2>2, CopyReadLine, CopyReturn, CopyRelay, CopyExecute, CopyWriteLine
       DEF Next, MainThread, FrontEnd, SendCommand, SmsHandler, Modem, Environment
<1>4. QED
  BY <1>2, <1>3

LEMMA CopyInit == Init => CopyInv
<1> SUFFICES ASSUME Init, NEW m \in Messages
             PROVE  OneCopy(m)
  BY DEF CopyInv
<1>1. /\ out = <<>> /\ rx = <<>> /\ oss = <<>> /\ tx = <<>> /\ mailed[m] = 0
      /\ \A s \in Slots : sim[s] # m
      /\ ~ InSms(m)
  BY SessionAssumption DEF Init, InSms
<1>2. ~ Stored(m)
  BY <1>1 DEF Stored
<1>3. QED
  BY <1>1, <1>2, HasNone DEF OneCopy, Unread

(* No SMS is relayed twice, however late the modem answers, whatever is on
   the line in between, and wherever the process ends and starts again
   (RelayedAtMostOnce). *)
THEOREM RelayedOnce == Spec => []RelayedAtMostOnce
<1>1. CopyInv => RelayedAtMostOnce
  BY DEF CopyInv, OneCopy, RelayedAtMostOnce
<1>2. QED
  BY <1>1, CopyInit, CopyStep, TInvAlways, TurnAlways, PTL DEF Spec

-----------------------------------------------------------------------------
(* A request gets one prompt. *)

LEMMA PromptShrinks ==
  ASSUME NEW r \in Requests, OnePrompt(r), Passing(r)' => Passing(r),
         Single(queue', r), Has(queue', r) => Has(queue, r),
         r \in waiting' => r \in waiting, daemon' = r => daemon = r,
         UNCHANGED prompts
  PROVE  OnePrompt(r)'
<1>1. (Prompted(r)' <=> Prompted(r)) /\ (PromptedOnce(r)' <=> PromptedOnce(r))
  BY DEF Prompted, PromptedOnce
<1>2. QED
  BY <1>1 DEF OnePrompt

(* The actions that neither pass a request on nor prompt *)
LEMMA PromptKept ==
  ASSUME NEW r \in Requests, OnePrompt(r),
         \/ SendCommand \/ SmsHandler \/ LoopCmti \/ LoopOtherStore \/ LoopRing
         \/ LoopUnparsable \/ PromptFails \/ Modem \/ IncomingCall \/ ModemReset
         \/ UNCHANGED vars
         \/ \E m \in Messages, s \in Slots : DeliverSms(m, s)
  PROVE  OnePrompt(r)'
<1>1. UNCHANGED <<queue, daemon, waiting, prompts>>
  BY DEF SendCommand, Flush, Println, ReadLine, ReadOk, GiveUp, Return, SmsHandler, RelaySms,
         DropSms, HandlerReturns, LoopCmti, LoopOtherStore, LoopRing, LoopUnparsable,
         TakeLine, PromptFails, Modem, Execute, WriteLine, IncomingCall, ModemReset,
         DeliverSms, vars, worldVars
<1>2. (phase' = phase \/ phase' # "prompt") /\ (prompting' = prompting \/ phase' # "prompt")
  BY DEF SendCommand, Flush, Println, ReadLine, ReadOk, GiveUp, Return, SmsHandler, RelaySms,
         DropSms, HandlerReturns, LoopCmti, LoopOtherStore, LoopRing, LoopUnparsable,
         TakeLine, PromptFails, Modem, Execute, WriteLine, IncomingCall, ModemReset,
         DeliverSms, vars, mainVars
<1>3. Passing(r)' => Passing(r)
  BY <1>2 DEF Passing
<1>4. QED
  BY <1>1, <1>3, PromptShrinks DEF OnePrompt

LEMMA PromptAnswer ==
  ASSUME TInv, NEW r \in Requests, OnePrompt(r), LoopAnswer \/ LoopVerifyFails
  PROVE  OnePrompt(r)'
<1>1. /\ phase = "receive" /\ queue # <<>> /\ queue' = Tail(queue) /\ queue \in Seq(Requests)
      /\ UNCHANGED <<daemon, waiting, prompts>>
      /\ phase' = "prompt" => prompting'.request = Head(queue)
  BY DEF LoopAnswer, LoopVerifyFails, TakeLine, TInv, WorldOK, worldVars
<1>2. /\ Has(queue, r) <=> Has(queue', r) \/ Head(queue) = r
      /\ Single(queue', r) /\ (Head(queue) = r => ~ Has(queue', r))
  BY <1>1, HasTail DEF OnePrompt
<1>3. Passing(r)' => Head(queue) = r
  BY <1>1 DEF Passing
<1>4. (Prompted(r)' <=> Prompted(r)) /\ (PromptedOnce(r)' <=> PromptedOnce(r))
  BY <1>1 DEF Prompted, PromptedOnce
<1>5. QED
  BY <1>1, <1>2, <1>3, <1>4 DEF OnePrompt

LEMMA PromptSent ==
  ASSUME TInv, NEW r \in Requests, OnePrompt(r), SendPrompt
  PROVE  OnePrompt(r)'
<1>1. /\ phase = "prompt" /\ prompting \in PromptType /\ prompts \in Seq(PromptType)
      /\ prompts' = Append(prompts, prompting)
      /\ UNCHANGED <<queue, daemon, waiting>>
      /\ ~ Passing(r)'
  BY DEF SendPrompt, TInv, MainOK, WorldOK, Passing
<1>2. /\ Len(prompts) \in Nat
      /\ DOMAIN prompts = 1 .. Len(prompts) /\ DOMAIN prompts' = 1 .. Len(prompts) + 1
      /\ \A i \in DOMAIN prompts : prompts'[i] = prompts[i]
      /\ prompts'[Len(prompts) + 1] = prompting
  BY <1>1, AppendFacts
<1>3. Prompted(r)' => Prompted(r) \/ Passing(r)
  <2>1. ASSUME NEW k \in DOMAIN prompts', prompts'[k].request = r
        PROVE  Prompted(r) \/ Passing(r)
    BY <1>1, <1>2, <2>1 DEF Prompted, Passing
  <2>2. QED
    BY <2>1 DEF Prompted
<1>4. PromptedOnce(r)'
  <2>1. ASSUME NEW j \in DOMAIN prompts', NEW k \in DOMAIN prompts',
               prompts'[j].request = r, prompts'[k].request = r
        PROVE  j = k
    <3>1. CASE j \in DOMAIN prompts /\ k \in DOMAIN prompts
      BY <1>2, <2>1, <3>1 DEF OnePrompt, PromptedOnce
    <3>2. CASE j \notin DOMAIN prompts \/ k \notin DOMAIN prompts
      <4>1. Passing(r)
        BY <1>1, <1>2, <2>1, <3>2 DEF Passing
      <4>2. \A i \in DOMAIN prompts : prompts[i].request # r
        BY <4>1 DEF OnePrompt, Prompted
      <4>3. QED
        BY <1>2, <2>1, <4>2
    <3>3. QED
      BY <3>1, <3>2
  <2>2. QED
    BY <2>1 DEF PromptedOnce
<1>5. QED
  BY <1>1, <1>3, <1>4 DEF OnePrompt

LEMMA PromptDaemon ==
  ASSUME TInv, NEW r \in Requests, OnePrompt(r),
         FrontEmplace \/ Restart \/ \E request \in Requests : FrontPrintln(request)
  PROVE  OnePrompt(r)'
<1>1. (Prompted(r)' <=> Prompted(r)) /\ (PromptedOnce(r)' <=> PromptedOnce(r))
  BY DEF FrontEmplace, Restart, FrontPrintln, worldVars, Prompted, PromptedOnce
<1>2. r # Nothing
  BY SessionAssumption
<1>3. CASE FrontEmplace
  <2>1. /\ daemon \in Requests /\ queue \in Seq(Requests) /\ queue' = Append(queue, daemon)
        /\ daemon' = Nothing /\ waiting' = waiting
        /\ Passing(r)' <=> Passing(r)
    BY <1>3 DEF FrontEmplace, TInv, WorldOK, worldVars, mainVars, Passing
  <2>2. /\ Has(queue', r) <=> Has(queue, r) \/ daemon = r
        /\ Single(queue', r)
    BY <2>1, HasAppend DEF OnePrompt
  <2>3. QED
    BY <1>1, <1>2, <2>1, <2>2 DEF OnePrompt
<1>4. ASSUME NEW request \in Requests, FrontPrintln(request)
      PROVE  OnePrompt(r)'
  <2>1. /\ request \in waiting /\ waiting' = waiting \ {request} /\ daemon' = request
        /\ queue' = queue
        /\ Passing(r)' <=> Passing(r)
    BY <1>4 DEF FrontPrintln, mainVars, Passing
  <2>2. QED
    BY <1>1, <2>1 DEF OnePrompt
<1>5. CASE Restart
  <2>1. ~ Passing(r)' /\ UNCHANGED <<waiting, prompts>> /\ queue' = <<>> /\ daemon' = Nothing
    BY <1>5 DEF Restart, Passing
  <2>2. QED
    BY <1>2, <2>1, HasNone, PromptShrinks
<1>6. QED
  BY <1>3, <1>4, <1>5

LEMMA PromptStep == TInv /\ PromptInv /\ [Next]_vars => PromptInv'
<1> SUFFICES ASSUME TInv, PromptInv, [Next]_vars, NEW r \in Requests
             PROVE  OnePrompt(r)'
  BY DEF PromptInv
<1>1. OnePrompt(r)
  BY DEF PromptInv
<1>2. QED
  BY <1>1, PromptKept, PromptAnswer, PromptSent, PromptDaemon
     DEF Next, MainThread, FrontEnd, Loop, Environment

LEMMA PromptInit == Init => PromptInv
<1> SUFFICES ASSUME Init, NEW r \in Requests
             PROVE  OnePrompt(r)
  BY DEF PromptInv
<1>1. /\ queue = <<>> /\ daemon # r /\ ~ Passing(r) /\ prompts = <<>>
  BY SessionAssumption DEF Init, Passing
<1>2. ~ Prompted(r) /\ PromptedOnce(r)
  BY <1>1 DEF Prompted, PromptedOnce
<1>3. QED
  BY <1>1, <1>2, HasNone DEF OnePrompt

(* A front-end hears of each request once at most: its answer's final OK, a
   +CLIP or the answer to a command of a process that has ended goes to a
   later request or to nobody (PromptedAtMostOnce). *)
THEOREM OnePromptEach == Spec => []PromptedAtMostOnce
<1>1. TInv /\ PromptInv => PromptedAtMostOnce
  <2> SUFFICES ASSUME TInv, PromptInv, NEW j \in DOMAIN prompts, NEW k \in DOMAIN prompts,
                      prompts[j].request = prompts[k].request
               PROVE  j = k
    BY DEF PromptedAtMostOnce
  <2>1. prompts[j] \in PromptType
    BY LenProperties DEF TInv, WorldOK
  <2>2. PromptedOnce(prompts[j].request)
    BY <2>1 DEF PromptInv, OnePrompt, PromptType
  <2>3. QED
    BY <2>2 DEF PromptedOnce
<1>2. QED
  BY <1>1, TInvAlways, PromptInit, PromptStep, PTL DEF Spec
-----------------------------------------------------------------------------
(* The session keeps the queue that CommandQueue promises. *)

(* The queue as CommandQueue sees it *)
Alone(seq) == [i \in DOMAIN seq |-> {seq[i]}]

LEMMA AloneFacts ==
  ASSUME NEW seq \in Seq(Requests)
  PROVE  /\ Alone(seq) \in Seq(SUBSET Requests)
         /\ Len(Alone(seq)) = Len(seq)
         /\ \A i \in 1 .. Len(seq) : Alone(seq)[i] = {seq[i]}
<1>1. Len(seq) \in Nat /\ DOMAIN seq = 1 .. Len(seq)
  BY LenProperties
<1>2. \A i \in 1 .. Len(seq) : seq[i] \in Requests
  BY <1>1, ElementOfSeq
<1>3. Alone(seq) \in [1 .. Len(seq) -> SUBSET Requests]
  BY <1>1, <1>2 DEF Alone
<1>4. Alone(seq) \in Seq(SUBSET Requests)
  BY <1>1, <1>3, SeqDef
<1>5. QED
  <2>1. DOMAIN Alone(seq) = 1 .. Len(seq)
    BY <1>3
  <2>2. DOMAIN Alone(seq) = 1 .. Len(Alone(seq)) /\ Len(Alone(seq)) \in Nat
    BY <1>4, LenProperties
  <2>3. Len(Alone(seq)) = Len(seq)
    BY <1>1, <2>1, <2>2
  <2>4. QED
    BY <1>1, <1>4, <2>3 DEF Alone

LEMMA AloneAppend ==
  ASSUME NEW seq \in Seq(Requests), NEW r \in Requests
  PROVE  Alone(Append(seq, r)) = Append(Alone(seq), {r})
<1>1. /\ Append(seq, r) \in Seq(Requests) /\ Len(Append(seq, r)) = Len(seq) + 1
      /\ Len(seq) \in Nat
      /\ \A i \in 1 .. Len(seq) : Append(seq, r)[i] = seq[i]
      /\ Append(seq, r)[Len(seq) + 1] = r
  BY AppendProperties, LenProperties
<1>2. {r} \in SUBSET Requests
  OBVIOUS
<1>3. /\ Append(Alone(seq), {r}) \in Seq(SUBSET Requests)
      /\ Len(Append(Alone(seq), {r})) = Len(seq) + 1
      /\ \A i \in 1 .. Len(seq) : Append(Alone(seq), {r})[i] = {seq[i]}
      /\ Append(Alone(seq), {r})[Len(seq) + 1] = {r}
  BY <1>2, AloneFacts, AppendProperties
<1>4. /\ Alone(Append(seq, r)) \in Seq(SUBSET Requests)
      /\ Len(Alone(Append(seq, r))) = Len(seq) + 1
      /\ \A i \in 1 .. Len(seq) + 1 : Alone(Append(seq, r))[i] = {Append(seq, r)[i]}
  BY <1>1, AloneFacts
<1>5. ASSUME NEW i \in 1 .. Len(seq) + 1
      PROVE  Alone(Append(seq, r))[i] = Append(Alone(seq), {r})[i]
  <2>1. i \in 1 .. Len(seq) \/ i = Len(seq) + 1
    BY <1>1
  <2>2. Alone(Append(seq, r))[i] = {Append(seq, r)[i]}
    BY <1>4
  <2>3. CASE i \in 1 .. Len(seq)
    BY <1>1, <1>3, <2>2, <2>3
  <2>4. CASE i = Len(seq) + 1
    BY <1>1, <1>3, <2>2, <2>4
  <2>5. QED
    BY <2>1, <2>3, <2>4
<1>6. QED
  BY <1>3, <1>4, <1>5, SeqEqual

LEMMA AloneTail ==
  ASSUME NEW seq \in Seq(Requests), seq # <<>>
  PROVE  Alone(seq) # <<>> /\ Alone(Tail(seq)) = Tail(Alone(seq))
<1>1. /\ Tail(seq) \in Seq(Requests) /\ Len(seq) \in Nat \ {0}
      /\ Len(Tail(seq)) = Len(seq) - 1
      /\ \A i \in 1 .. Len(Tail(seq)) : Tail(seq)[i] = seq[i + 1]
  BY HeadTailProperties, EmptySeq
<1>2. Alone(seq) # <<>>
  BY <1>1, AloneFacts, EmptySeq
<1>3. /\ Tail(Alone(seq)) \in Seq(SUBSET Requests)
      /\ Len(Tail(Alone(seq))) = Len(seq) - 1
      /\ \A i \in 1 .. Len(seq) - 1 : Tail(Alone(seq))[i] = Alone(seq)[i + 1]
  BY <1>2, AloneFacts, HeadTailProperties
<1>4. /\ Alone(Tail(seq)) \in Seq(SUBSET Requests)
      /\ Len(Alone(Tail(seq))) = Len(seq) - 1
      /\ \A i \in 1 .. Len(seq) - 1 : Alone(Tail(seq))[i] = {Tail(seq)[i]}
  BY <1>1, AloneFacts
<1>5. ASSUME NEW i \in 1 .. Len(seq) - 1
      PROVE  Alone(Tail(seq))[i] = Tail(Alone(seq))[i]
  <2>1. i + 1 \in 1 .. Len(seq)
    BY <1>1
  <2>2. Alone(seq)[i + 1] = {seq[i + 1]}
    BY <2>1, AloneFacts
  <2>3. QED
    BY <1>1, <1>3, <1>4, <2>2
<1>6. QED
  BY <1>2, <1>3, <1>4, <1>5, SeqEqual

(* The variables of CommandQueue, as the session has them *)
LEMMA QueueIs ==
  /\ Q!vars = <<waiting, RequestOf(daemon), Alone(queue), phase = "prompt">>
  /\ Q!vars' = <<waiting', RequestOf(daemon)', Alone(queue)', phase' = "prompt">>
  BY DEF Q!vars, Alone

LEMMA QueueInit == Init => Q!Init
<1> SUFFICES ASSUME Init
             PROVE  Q!Init
  OBVIOUS
<1>1. Alone(queue) = <<>>
  BY EmptySeq DEF Init, Alone
<1>2. QED
  BY <1>1 DEF Init, Q!Init, RequestOf, Alone

(* Everything but the two threads' work on requests is a stutter. *)
LEMMA QueueStutters ==
  ASSUME UNCHANGED <<queue, daemon, waiting>>,
         phase' = phase \/ (phase # "prompt" /\ phase' # "prompt")
  PROVE  UNCHANGED Q!vars
<1>1. UNCHANGED <<waiting, RequestOf(daemon), Alone(queue)>>
  BY DEF RequestOf, Alone
<1>2. (phase = "prompt") = (phase' = "prompt")
  OBVIOUS
<1>3. QED
  BY <1>1, <1>2, QueueIs

LEMMA QueueStep == TInv /\ [Next]_vars => [Q!Next]_(Q!vars)
<1> SUFFICES ASSUME TInv, [Next]_vars
             PROVE  Q!Next \/ UNCHANGED Q!vars
  OBVIOUS
<1>1. queue \in Seq(Requests) /\ daemon \in Requests \cup {Nothing}
  BY DEF TInv, WorldOK
<1>2. Nothing \notin Requests
  BY SessionAssumption
<1>3. CASE \/ SendCommand \/ SmsHandler \/ LoopCmti \/ LoopOtherStore \/ LoopRing
           \/ LoopUnparsable \/ Modem \/ IncomingCall \/ ModemReset
           \/ UNCHANGED vars
           \/ \E m \in Messages, s \in Slots : DeliverSms(m, s)
  <2>1. UNCHANGED <<queue, daemon, waiting>>
    BY <1>3 DEF SendCommand, Flush, Println, ReadLine, ReadOk, GiveUp, Return,
         SmsHandler, RelaySms, DropSms, HandlerReturns, LoopCmti, LoopOtherStore,
         LoopRing, LoopUnparsable, TakeLine, Modem, Execute, WriteLine, IncomingCall,
         ModemReset, DeliverSms, vars, worldVars
  <2>2. phase' = phase \/ (phase # "prompt" /\ phase' # "prompt")
    BY <1>3 DEF SendCommand, Flush, Println, ReadLine, ReadOk, GiveUp, Return,
         SmsHandler, RelaySms, DropSms, HandlerReturns, LoopCmti, LoopOtherStore,
         LoopRing, LoopUnparsable, TakeLine, Modem, Execute, WriteLine, IncomingCall,
         ModemReset, DeliverSms, vars, mainVars
  <2>3. QED
    BY <2>1, <2>2, QueueStutters
<1>4. CASE LoopAnswer \/ LoopVerifyFails
  <2>1. /\ phase = "receive" /\ queue # <<>> /\ queue' = Tail(queue)
        /\ UNCHANGED <<daemon, waiting>>
    BY <1>4 DEF LoopAnswer, LoopVerifyFails, TakeLine, worldVars
  <2>2. Alone(queue) # <<>> /\ Alone(queue)' = Tail(Alone(queue))
    BY <1>1, <2>1, AloneTail DEF Alone
  <2>3. Q!Pop
    BY <2>1, <2>2 DEF Q!Pop, Alone, RequestOf
  <2>4. QED
    BY <2>3 DEF Q!Next
<1>5. CASE SendPrompt \/ PromptFails
  <2>1. phase = "prompt" /\ phase' # "prompt" /\ UNCHANGED <<queue, daemon, waiting>>
    BY <1>5 DEF SendPrompt, PromptFails, worldVars
  <2>2. Q!Release
    BY <2>1 DEF Q!Release, RequestOf
  <2>3. QED
    BY <2>2 DEF Q!Next
<1>6. ASSUME NEW request \in Requests, FrontPrintln(request)
      PROVE  Q!Next
  <2>1. /\ request \in waiting /\ waiting' = waiting \ {request}
        /\ daemon = Nothing /\ daemon' = request /\ UNCHANGED <<queue, phase>>
    BY <1>6 DEF FrontPrintln, mainVars
  <2>2. RequestOf(daemon) = {} /\ RequestOf(daemon)' = {request}
    BY <1>2, <2>1 DEF RequestOf
  <2>3. Q!Write({request}) /\ {request} \in SUBSET waiting
    BY <2>1, <2>2 DEF Q!Write
  <2>4. QED
    BY <2>3 DEF Q!Next
<1>7. CASE FrontEmplace
  <2>1. /\ daemon \in Requests /\ phase # "prompt" /\ queue' = Append(queue, daemon)
        /\ daemon' = Nothing /\ UNCHANGED <<phase, waiting>>
    BY <1>1, <1>7 DEF FrontEmplace, mainVars, worldVars
  <2>2. RequestOf(daemon) = {daemon} /\ RequestOf(daemon)' = {}
    BY <1>2, <2>1 DEF RequestOf
  <2>3. Alone(queue)' = Append(Alone(queue), {daemon})
    BY <1>1, <2>1, AloneAppend DEF Alone
  <2>4. Q!Emplace
    BY <2>1, <2>2, <2>3 DEF Q!Emplace, Alone
  <2>5. QED
    BY <2>4 DEF Q!Next
<1>8. CASE Restart
  <2>1. phase' = "flush" /\ queue' = <<>> /\ daemon' = Nothing /\ UNCHANGED waiting
    BY <1>8 DEF Restart
  <2>2. Alone(queue)' = <<>> /\ RequestOf(daemon)' = {}
    BY <2>1, EmptySeq DEF Alone, RequestOf
  <2>3. Q!Lose
    BY <2>1, <2>2 DEF Q!Lose, Alone
  <2>4. QED
    BY <2>3 DEF Q!Next
<1>9. QED
  BY <1>3, <1>4, <1>5, <1>6, <1>7, <1>8 DEF Next, MainThread, FrontEnd, Loop, Environment

(* The session, with late answers, unsolicited codes and restarts, keeps one
   queue of requests: each is written before it is queued, is given to lines
   in the order of writing, and leaves with the first (ImplementsQueue). *)
THEOREM SessionKeepsQueue == Spec => ImplementsQueue
  BY QueueInit, QueueStep, TInvAlways, PTL DEF Spec, ImplementsQueue, Q!Spec
-----------------------------------------------------------------------------
(* The calls of the session are the calls that ModemCall promises. *)

Stage ==
  CASE phase = "flush"   -> "flush"
    [] phase = "println" -> "print"
    [] phase = "read"    -> "read"
    [] OTHER             -> "idle"

Heard == IF phase = "read" THEN oss ELSE <<>>

Kept == IF smsContent = Nothing THEN <<>> ELSE <<smsContent>>

LEMMA CallIs ==
  /\ C!vars = <<Stage, rx, Heard, Kept>>
  /\ C!vars' = <<Stage', rx', Heard', Kept'>>
  BY DEF C!vars, Stage, Heard, Kept

(* The beginning of a sequence that has grown *)
LEMMA Begins ==
  ASSUME NEW S, NEW seq \in Seq(S), NEW e \in S
  PROVE  SubSeq(Append(seq, e), 1, Len(seq)) = seq
<1>1. /\ Append(seq, e) \in Seq(S) /\ Len(seq) \in Nat
      /\ DOMAIN seq = 1 .. Len(seq)
      /\ \A i \in DOMAIN seq : Append(seq, e)[i] = seq[i]
  BY AppendFacts
<1>2. \A i \in 1 .. Len(seq) : seq[i] \in S
  BY ElementOfSeq
<1>3. /\ SubSeq(Append(seq, e), 1, Len(seq)) \in Seq(S)
      /\ Len(SubSeq(Append(seq, e), 1, Len(seq))) = Len(seq)
      /\ \A i \in 1 .. Len(seq) :
           SubSeq(Append(seq, e), 1, Len(seq))[i] = Append(seq, e)[i]
  BY <1>1, <1>2, SubSeqProperties
<1>4. QED
  BY <1>1, <1>3, SeqEqual

LEMMA CallInit == Init => C!Init
<1> SUFFICES ASSUME Init
             PROVE  C!Init
  OBVIOUS
<1>1. Stage = "flush" /\ Heard = <<>> /\ Kept = <<>> /\ rx = <<>>
  BY DEF Init, Stage, Heard, Kept
<1>2. QED
  BY <1>1 DEF C!Init, Stage, Heard, Kept

(* What does not touch the main thread's part and the buffer is a stutter. *)
LEMMA CallStutters ==
  ASSUME UNCHANGED <<smsContent, rx>>,
         \/ UNCHANGED <<phase, oss>>
         \/ {phase, phase'} \subseteq {"receive", "handle", "prompt"}
  PROVE  UNCHANGED C!vars
<1>1. UNCHANGED <<Stage, Heard, Kept>>
  BY DEF Stage, Heard, Kept
<1>2. QED
  BY <1>1, CallIs

LEMMA CallReturns ==
  ASSUME TInv, phase = "read", NEW text \in Seq(LineType) \cup {Nothing}, Return(text)
  PROVE  /\ Stage = "read" /\ Heard = oss
         /\ Stage' \in {"flush", "idle"} /\ Heard' = <<>>
         /\ Kept' \in {IF text = Nothing THEN <<>> ELSE <<text>>, Kept}
<1>1. /\ phase' \in {"flush", "handle", "receive"}
      /\ smsContent' \in {text, smsContent}
  BY DEF Return
<1>2. QED
  BY <1>1 DEF Stage, Heard, Kept

LEMMA CallSend == TInv /\ SendCommand => C!Next
<1> SUFFICES ASSUME TInv, SendCommand
             PROVE  C!Next
  OBVIOUS
<1>1. CASE Flush
  <2>1. /\ Stage = "flush" /\ Stage' = "print" /\ rx' = <<>> /\ UNCHANGED <<Heard, Kept>>
    BY <1>1 DEF Flush, Stage, Heard, Kept
  <2>2. C!Flush
    BY <2>1 DEF C!Flush, Stage, Heard, Kept
  <2>3. QED
    BY <2>2 DEF C!Next
<1>2. CASE Println
  <2>1. /\ Stage = "print" /\ Stage' = "read" /\ UNCHANGED <<rx, Heard, Kept>>
    BY <1>2 DEF Println, Stage, Heard, Kept
  <2>2. C!Write
    BY <2>1 DEF C!Write, Stage, Heard, Kept
  <2>3. QED
    BY <2>2 DEF C!Next
<1>3. ASSUME phase = "read", rx # <<>>
      PROVE  /\ Heard = oss /\ Append(oss, Head(rx)) \in Seq(LineType)
             /\ LastIsOk(Append(oss, Head(rx))) <=> Head(rx).kind = "OK"
             /\ BeforeOk(Append(oss, Head(rx))) = oss
  <2>1. Head(rx) \in LineType /\ oss \in Seq(LineType)
    BY <1>3, RxTail DEF TInv, MainOK
  <2>2. /\ Append(oss, Head(rx)) \in Seq(LineType) /\ Len(oss) \in Nat
        /\ Len(Append(oss, Head(rx))) = Len(oss) + 1
        /\ Append(oss, Head(rx))[Len(oss) + 1] = Head(rx)
    BY <2>1, AppendProperties, LenProperties
  <2>3. Len(Append(oss, Head(rx))) - 1 = Len(oss)
    BY <2>2
  <2>4. BeforeOk(Append(oss, Head(rx))) = oss
    BY <2>1, <2>3, Begins DEF BeforeOk
  <2>5. QED
    BY <1>3, <2>2, <2>4 DEF Heard, LastIsOk
<1>4. CASE ReadLine
  <2>1. /\ phase = "read" /\ rx # <<>> /\ Head(rx).kind # "OK"
        /\ oss' = Append(oss, Head(rx)) /\ rx' = Tail(rx) /\ UNCHANGED <<phase, smsContent>>
    BY <1>4 DEF ReadLine
  <2>2. /\ Stage = "read" /\ Heard' = Append(Heard, Head(rx)) /\ UNCHANGED <<Stage, Kept>>
    BY <1>3, <2>1 DEF Stage, Heard, Kept
  <2>3. ~ LastIsOk(Append(Heard, Head(rx)))
    BY <1>3, <2>1
  <2>4. C!Hear
    BY <2>1, <2>2, <2>3 DEF C!Hear, C!Hears, QuitsAtLine, Stage, Heard, Kept
  <2>5. QED
    BY <2>4 DEF C!Next
<1>5. CASE ReadOk
  <2>1. phase = "read" /\ rx # <<>> /\ Head(rx).kind = "OK" /\ rx' = Tail(rx) /\ Return(oss)
    BY <1>5 DEF ReadOk
  <2>2. oss \in Seq(LineType) /\ oss # Nothing
    BY NothingAssumption DEF TInv, MainOK
  <2>3. /\ Stage = "read" /\ Stage' \in {"flush", "idle"} /\ Heard' = <<>>
        /\ Kept' \in {<<oss>>, Kept}
    BY <2>1, <2>2, CallReturns
  <2>4. LastIsOk(Append(Heard, Head(rx))) /\ BeforeOk(Append(Heard, Head(rx))) = oss
    BY <1>3, <2>1
  <2>5. C!Return(<<BeforeOk(C!Hears)>>)
    BY <2>3, <2>4 DEF C!Return, C!Hears, Stage, Heard, Kept
  <2>6. C!Answered
    BY <2>1, <2>3, <2>4, <2>5 DEF C!Answered, C!Hears, QuitsAtLine, Stage, Heard
  <2>7. QED
    BY <2>6 DEF C!Next
<1>6. CASE GiveUp
  <2>1. phase = "read" /\ rx = <<>> /\ UNCHANGED rx /\ Return(Nothing)
    BY <1>6 DEF GiveUp
  <2>2. /\ Stage = "read" /\ Stage' \in {"flush", "idle"} /\ Heard' = <<>>
        /\ Kept' \in {<<>>, Kept}
    BY <2>1, CallReturns
  <2>3. C!GiveUp
    BY <2>1, <2>2 DEF C!GiveUp, C!Return, Stage, Heard, Kept
  <2>4. QED
    BY <2>3 DEF C!Next
<1>7. QED
  BY <1>1, <1>2, <1>4, <1>5, <1>6 DEF SendCommand

(* Lines that arrive *)
LEMMA CallArrives ==
  ASSUME TInv, UNCHANGED mainVars, NEW a \in Readable, NEW b \in Readable,
         rx' = Append(rx, a) \/ rx' = Append(Append(rx, a), b)
  PROVE  C!Next
<1>1. UNCHANGED <<Stage, Heard, Kept>>
  BY DEF mainVars, Stage, Heard, Kept
<1>2. rx \in Seq(Readable) /\ Len(rx) \in Nat
  BY LenProperties DEF TInv, LinesOK
<1>3. Len(rx) < Len(rx') /\ SubSeq(rx', 1, Len(rx)) = rx
  <2> DEFINE more == Append(rx, a)
  <2>1. /\ more \in Seq(Readable) /\ Len(more) = Len(rx) + 1
        /\ SubSeq(more, 1, Len(rx)) = rx
    BY <1>2, AppendProperties, Begins
  <2> HIDE DEF more
  <2>2. CASE rx' = more
    BY <1>2, <2>1, <2>2
  <2>3. CASE rx' = Append(more, b)
    <3> DEFINE most == Append(more, b)
    <3>1. /\ most \in Seq(Readable) /\ Len(most) = Len(rx) + 2
          /\ \A i \in 1 .. Len(rx) + 1 : most[i] = more[i]
      BY <1>2, <2>1, AppendProperties
    <3>2. \A i \in 1 .. Len(rx) : most[i] = rx[i]
      <4>1. \A i \in 1 .. Len(rx) : more[i] = rx[i]
        BY <1>2, AppendProperties DEF more
      <4>2. QED
        BY <1>2, <3>1, <4>1
    <3> HIDE DEF most
    <3>3. \A i \in 1 .. Len(rx) : rx[i] \in Readable
      BY <1>2, ElementOfSeq
    <3>4. /\ SubSeq(most, 1, Len(rx)) \in Seq(Readable)
          /\ Len(SubSeq(most, 1, Len(rx))) = Len(rx)
          /\ \A i \in 1 .. Len(rx) : SubSeq(most, 1, Len(rx))[i] = most[i]
      BY <1>2, <3>2, <3>3, SubSeqProperties
    <3>5. SubSeq(most, 1, Len(rx)) = rx
      BY <1>2, <3>2, <3>4, SeqEqual
    <3>6. QED
      BY <1>2, <2>3, <3>1, <3>5 DEF most
  <2>4. QED
    BY <2>2, <2>3 DEF more
<1>4. C!Arrive
  BY <1>1, <1>3 DEF C!Arrive, Stage, Heard, Kept
<1>5. QED
  BY <1>4 DEF C!Next

LEMMA CallWorld ==
  TInv /\ (Modem \/ FrontEmplace \/ Environment) => C!Next \/ UNCHANGED C!vars
<1> SUFFICES ASSUME TInv, Modem \/ FrontEmplace \/ Environment
             PROVE  C!Next \/ UNCHANGED C!vars
  OBVIOUS
<1>1. CASE Execute \/ FrontEmplace \/ ModemReset
           \/ \E request \in Requests : FrontPrintln(request)
  <2>1. UNCHANGED <<smsContent, rx, phase, oss>>
    BY <1>1 DEF Execute, FrontEmplace, ModemReset, FrontPrintln, mainVars, lineVars
  <2>2. QED
    BY <2>1, CallStutters
<1>2. CASE WriteLine
  <2>1. /\ out # <<>> /\ rx' = Append(rx, Head(out)) /\ UNCHANGED mainVars
    BY <1>2 DEF WriteLine
  <2>2. Head(out) \in Readable
    BY <2>1, TailFacts DEF TInv, LinesOK, Writable, Readable
  <2>3. QED
    BY <2>1, <2>2, CallArrives
<1>3. ASSUME NEW m \in Messages, NEW s \in Slots, DeliverSms(m, s)
      PROVE  C!Next
  <2>1. rx' = Append(rx, Line("+CMTI", s)) /\ UNCHANGED mainVars
    BY <1>3 DEF DeliverSms
  <2>2. QED
    BY <2>1, DeliverLine, CallArrives
<1>4. CASE IncomingCall
  <2> DEFINE ring == Line("RING", Nothing)
             clip == Line("+CLIP", Nothing)
  <2>1. rx' = rx \o <<ring, clip>> /\ UNCHANGED mainVars /\ ring \in Readable /\ clip \in Readable
    BY <1>4, CallLines DEF IncomingCall
  <2> HIDE DEF ring, clip
  <2>2. rx' = Append(Append(rx, ring), clip)
    BY <2>1, AppendTwo DEF TInv, LinesOK
  <2>3. QED
    BY <2>1, <2>2, CallArrives
<1>5. CASE Restart
  <2>1. Stage' = "flush" /\ Heard' = <<>> /\ Kept' = <<>> /\ rx' = <<>>
    BY <1>5 DEF Restart, Stage, Heard, Kept
  <2>2. C!Reset
    BY <2>1 DEF C!Reset, Stage, Heard, Kept
  <2>3. QED
    BY <2>2 DEF C!Next
<1>6. QED
  BY <1>1, <1>2, <1>3, <1>4, <1>5 DEF Modem, Environment

(* Between the calls: loop, sms_handler, send *)
LEMMA CallBetween ==
  SmsHandler \/ Loop \/ SendPrompt \/ PromptFails => C!Next \/ UNCHANGED C!vars
<1> SUFFICES ASSUME SmsHandler \/ Loop \/ SendPrompt \/ PromptFails
             PROVE  C!Next \/ UNCHANGED C!vars
  OBVIOUS
<1>1. CASE SmsHandler
  <2>1. /\ phase = "handle" /\ phase' = "receive" /\ smsContent' = Nothing /\ UNCHANGED rx
    BY <1>1 DEF SmsHandler, RelaySms, DropSms, HandlerReturns, lineVars
  <2>2. Stage = "idle" /\ Kept' = <<>> /\ UNCHANGED <<Stage, rx, Heard>>
    BY <2>1 DEF Stage, Heard, Kept
  <2>3. C!Forget
    BY <2>2 DEF C!Forget, Stage, Heard, Kept
  <2>4. QED
    BY <2>3 DEF C!Next
<1>2. CASE Loop
  <2>1. /\ phase = "receive" /\ rx # <<>> /\ rx' = Tail(rx)
        /\ phase' \in {"receive", "flush", "prompt"} /\ UNCHANGED smsContent
    BY <1>2 DEF Loop, LoopCmti, LoopOtherStore, LoopRing, LoopUnparsable,
                LoopVerifyFails, LoopAnswer, TakeLine
  <2>2. Stage = "idle" /\ Stage' \in {"flush", "idle"} /\ UNCHANGED <<Heard, Kept>>
    BY <2>1 DEF Stage, Heard, Kept
  <2>3. C!Take
    BY <2>1, <2>2 DEF C!Take, Stage, Heard, Kept
  <2>4. QED
    BY <2>3 DEF C!Next
<1>3. CASE SendPrompt \/ PromptFails
  <2>1. phase = "prompt" /\ phase' = "receive" /\ UNCHANGED <<smsContent, rx>>
    BY <1>3 DEF SendPrompt, PromptFails, lineVars
  <2>2. QED
    BY <2>1, CallStutters
<1>4. QED
  BY <1>1, <1>2, <1>3

LEMMA CallStep == TInv /\ [Next]_vars => [C!Next]_(C!vars)
<1> SUFFICES ASSUME TInv, [Next]_vars
             PROVE  C!Next \/ UNCHANGED C!vars
  OBVIOUS
<1>1. CASE UNCHANGED vars
  BY <1>1, CallStutters DEF vars, mainVars, lineVars
<1>2. QED
  BY <1>1, CallSend, CallWorld, CallBetween DEF Next, MainThread, FrontEnd

(* Every call of the session hears all lines from its flush to the first OK,
   returns those before it, and gives up on an empty buffer only; that is all
   sms_handler ever gets (ImplementsCall). *)
THEOREM SessionMakesCalls == Spec => ImplementsCall
  BY CallInit, CallStep, TInvAlways, PTL DEF Spec, ImplementsCall, C!Spec
=============================================================================
