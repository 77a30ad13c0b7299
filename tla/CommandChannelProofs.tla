------------------------- MODULE CommandChannelProofs -------------------------
(***************************************************************************)
(* Proofs about CommandChannel, for any number of front-ends, any mixture  *)
(* of requests with and without a newline, and any number of ends of the   *)
(* process: its type invariant, that m_incoming_commands accounts for      *)
(* every command written to the modem, what a written command can consist  *)
(* of, that no request is written twice, and that its queue is the one of  *)
(* CommandQueue.                                                           *)
(***************************************************************************)
EXTENDS CommandChannel, SequenceTheorems, TLAPS

-----------------------------------------------------------------------------
(* Sequences *)

LEMMA TailFacts ==
  ASSUME NEW S, NEW s \in Seq(S), s # <<>>
  PROVE  /\ Tail(s) \in Seq(S)
         /\ Head(s) = s[1] /\ Head(s) \in S
         /\ Len(s) \in Nat \ {0}
         /\ DOMAIN s = 1 .. Len(s)
         /\ DOMAIN Tail(s) = 1 .. Len(s) - 1
         /\ \A i \in DOMAIN Tail(s) : Tail(s)[i] = s[i + 1]
<1>1. Tail(s) \in Seq(S) /\ Head(s) \in S /\ Len(s) \in Nat \ {0}
  BY HeadTailProperties, EmptySeq
<1>2. Len(Tail(s)) = Len(s) - 1
  BY HeadTailProperties
<1>3. DOMAIN Tail(s) = 1 .. Len(s) - 1 /\ DOMAIN s = 1 .. Len(s)
  BY <1>1, <1>2, LenProperties
<1>4. \A i \in DOMAIN Tail(s) : Tail(s)[i] = s[i + 1]
  BY <1>2, <1>3, HeadTailProperties
<1>5. QED
  BY <1>1, <1>3, <1>4

(* The oldest element goes from one queue to the end of another. *)
LEMMA MoveHead ==
  ASSUME NEW S, NEW s \in Seq(S), NEW t \in Seq(S), s # <<>>
  PROVE  Append(t, Head(s)) \o Tail(s) = t \o s
<1>1. Head(s) \in S /\ Tail(s) \in Seq(S) /\ Len(Tail(s)) = Len(s) - 1
      /\ \A i \in 1 .. Len(s) - 1 : Tail(s)[i] = s[i + 1]
  BY HeadTailProperties
<1>2. Len(s) \in Nat \ {0} /\ Len(t) \in Nat /\ Head(s) = s[1]
  BY EmptySeq, LenProperties
<1>3. /\ Append(t, Head(s)) \in Seq(S)
      /\ Len(Append(t, Head(s))) = Len(t) + 1
      /\ \A i \in 1 .. Len(t) : Append(t, Head(s))[i] = t[i]
      /\ Append(t, Head(s))[Len(t) + 1] = s[1]
  BY <1>1, <1>2, AppendProperties
<1> DEFINE l == Append(t, Head(s)) \o Tail(s)
<1>4. /\ l \in Seq(S) /\ Len(l) = Len(t) + Len(s)
      /\ \A i \in 1 .. Len(t) + Len(s) :
           l[i] = IF i <= Len(t) + 1 THEN Append(t, Head(s))[i]
                                     ELSE Tail(s)[i - (Len(t) + 1)]
  BY <1>1, <1>2, <1>3, ConcatProperties
<1>5. /\ t \o s \in Seq(S) /\ Len(t \o s) = Len(t) + Len(s)
      /\ \A i \in 1 .. Len(t) + Len(s) :
           (t \o s)[i] = IF i <= Len(t) THEN t[i] ELSE s[i - Len(t)]
  BY ConcatProperties
<1>6. ASSUME NEW i \in 1 .. Len(t) + Len(s)
      PROVE  l[i] = (t \o s)[i]
  <2>1. CASE i <= Len(t)
    BY <1>2, <1>3, <1>4, <1>5, <2>1
  <2>2. CASE i = Len(t) + 1
    BY <1>2, <1>3, <1>4, <1>5, <2>2
  <2>3. CASE i > Len(t) + 1
    <3>1. i - (Len(t) + 1) \in 1 .. Len(s) - 1
      BY <1>2, <2>3
    <3>2. Tail(s)[i - (Len(t) + 1)] = s[i - Len(t)]
      BY <1>1, <1>2, <3>1
    <3>3. QED
      BY <1>2, <1>4, <1>5, <2>3, <3>2
  <2>4. QED
    BY <1>2, <2>1, <2>2, <2>3
<1> HIDE DEF l
<1>7. l = t \o s
  BY <1>4, <1>5, <1>6, SeqEqual
<1>8. QED
  BY <1>7 DEF l

-----------------------------------------------------------------------------
(* Type correctness *)

LEMMA WrittenType ==
  ASSUME NEW r \in Requests
  PROVE  Written(r) \in Seq(PieceType)
<1>1. \A p \in {"type", "text", "newline"} : Piece(r, p) \in PieceType
  BY DEF Piece, PieceType
<1>2. /\ <<Piece(r, "type"), Piece(r, "text")>> \in Seq(PieceType)
      /\ <<Piece(r, "newline")>> \in Seq(PieceType)
      /\ <<>> \in Seq(PieceType)
  BY <1>1
<1>3. QED
  BY <1>2, ConcatProperties DEF Written

(* With the process down there is no daemon thread. *)
Down == main = "down" => daemon = "none"

TInv == TypeOK /\ Down

LEMMA TInvInit == Init => TInv
<1> SUFFICES ASSUME Init
             PROVE  TInv
  OBVIOUS
<1>1. /\ <<>> \in Seq(PieceType) /\ <<>> \in Seq(Seq(PieceType))
      /\ <<>> \in Seq(Causes)
  BY EmptySeq
<1>2. clients \in [Requests -> ClientStates] /\ prints \in [Requests -> Nat]
  BY DEF Init, ClientStates
<1>3. reading \in BOOLEAN /\ eof \in BOOLEAN /\ isCommand \in BOOLEAN
  BY DEF Init
<1>4. daemon \in DaemonStates /\ main \in MainStates /\ Down
  BY DEF Init, DaemonStates, MainStates, Down
<1>5. QED
  BY <1>1, <1>2, <1>3, <1>4 DEF TInv, TypeOK, Init

LEMMA EndsType ==
  ASSUME TInv, NEW cause \in Causes, ProcessEnds(cause)
  PROVE  TInv'
<1>1. /\ <<>> \in Seq(PieceType) /\ <<>> \in Seq(Seq(PieceType))
      /\ ends' \in Seq(Causes)
  BY EmptySeq, AppendProperties DEF TInv, TypeOK, ProcessEnds
<1>2. c2s' \in Seq(PieceType)
  BY <1>1 DEF TInv, TypeOK, ProcessEnds
<1>3. /\ daemon' \in DaemonStates /\ main' \in MainStates /\ Down'
      /\ eof' \in BOOLEAN /\ isCommand' \in BOOLEAN
  BY DEF ProcessEnds, DaemonStates, MainStates, Down
<1>4. QED
  BY <1>1, <1>2, <1>3 DEF TInv, TypeOK, ProcessEnds

LEMMA ClientType ==
  ASSUME TInv, NEW r \in Requests, Client(r)
  PROVE  TInv'
<1>1. /\ clients' \in [Requests -> ClientStates]
      /\ UNCHANGED <<reading, isCommand, text, eof, main, queue, historyVars>>
  BY DEF TInv, TypeOK, Client, ClientOpen, ClientWrite, ClientBreaks, ClientClose,
         ClientStep, ClientStates
<1>2. c2s' \in Seq(PieceType)
  <2>1. c2s \o Written(r) \in Seq(PieceType) /\ <<>> \in Seq(PieceType)
    BY WrittenType, ConcatProperties, EmptySeq DEF TInv, TypeOK
  <2>2. c2s' \in {c2s, <<>>, c2s \o Written(r)}
    BY DEF Client, ClientOpen, ClientWrite, ClientBreaks, ClientClose, Unread
  <2>3. QED
    BY <2>1, <2>2 DEF TInv, TypeOK
<1>3. daemon' \in DaemonStates /\ (daemon = "none" => daemon' = "none")
  BY DEF TInv, TypeOK, Client, ClientOpen, ClientWrite, ClientBreaks, ClientClose,
         DaemonStates
<1>4. QED
  BY <1>1, <1>2, <1>3 DEF TInv, TypeOK, Down, historyVars

LEMMA ListenType == TInv /\ (Listen \/ FrontEmplace) => TInv'
<1> SUFFICES ASSUME TInv, Listen \/ FrontEmplace
             PROVE  TInv'
  OBVIOUS
<1> USE DEF ParseStep, DaemonStep, DaemonStates, Down, streamVars
<1>1. CASE DaemonOpen
  BY <1>1 DEF TInv, TypeOK, DaemonOpen
<1>2. CASE ReadType \/ SkipNewline \/ ReadNewline
  <2>1. c2s' \in Seq(PieceType) /\ text' \in Seq(PieceType)
    BY <1>2, TailFacts, EmptySeq, ZenonT(60)
       DEF TInv, TypeOK, ReadType, SkipNewline, ReadNewline, Get
  <2>2. QED
    BY <1>2, <2>1 DEF TInv, TypeOK, ReadType, SkipNewline, ReadNewline, Get
<1>3. CASE ParseFails
  BY <1>3, EndsType DEF ParseFails, Causes
<1>4. CASE ReadText
  <2>1. c2s' \in Seq(PieceType) /\ text' \in Seq(PieceType)
    BY <1>4, TailFacts, AppendProperties DEF TInv, TypeOK, ReadText, Get
  <2>2. QED
    BY <1>4, <2>1 DEF TInv, TypeOK, ReadText, Get
<1>5. CASE ReadEof
  BY <1>5 DEF TInv, TypeOK, ReadEof
<1>6. CASE FrontPrintln
  <2>1. printed' \in Seq(Seq(PieceType))
    BY <1>6, AppendProperties DEF TInv, TypeOK, FrontPrintln
  <2>2. prints' \in [Requests -> Nat]
    BY <1>6 DEF TInv, TypeOK, FrontPrintln
  <2>3. QED
    BY <1>6, <2>1, <2>2 DEF TInv, TypeOK, FrontPrintln
<1>7. CASE FrontEmplace
  <2>1. queue' \in Seq(Seq(PieceType))
    BY <1>7, AppendProperties DEF TInv, TypeOK, FrontEmplace
  <2>2. QED
    BY <1>7, <2>1 DEF TInv, TypeOK, FrontEmplace
<1>8. CASE FrontIgnores
  BY <1>8 DEF TInv, TypeOK, FrontIgnores
<1>9. QED
  BY <1>1, <1>2, <1>3, <1>4, <1>5, <1>6, <1>7, <1>8 DEF Listen

LEMMA TInvStep == TInv /\ [Next]_vars => TInv'
<1> SUFFICES ASSUME TInv, [Next]_vars
             PROVE  TInv'
  OBVIOUS
<1>1. ASSUME NEW r \in Requests, Client(r)
      PROVE  TInv'
  BY <1>1, ClientType
<1>2. CASE Reader
  BY <1>2 DEF TInv, TypeOK, Down, Reader, MainStates, streamVars, historyVars
<1>3. CASE Listen \/ FrontEmplace
  BY <1>3, ListenType
<1>4. CASE LoopAnswer
  <2>1. queue' \in Seq(Seq(PieceType)) /\ popped' \in Seq(Seq(PieceType))
    BY <1>4, TailFacts, AppendProperties DEF TInv, TypeOK, LoopAnswer
  <2>2. QED
    BY <1>4, <2>1
       DEF TInv, TypeOK, Down, LoopAnswer, MainStep, MainStates, streamVars
<1>5. CASE SendOpen \/ SendFails \/ SendWrite
  BY <1>5 DEF TInv, TypeOK, Down, SendOpen, SendFails, SendWrite, MainStep,
              MainStates, streamVars
<1>6. CASE SendBreaks \/ Crash
  BY <1>6, EndsType DEF SendBreaks, Crash, Causes
<1>7. CASE Restart
  BY <1>7 DEF TInv, TypeOK, Down, Restart, MainStates, DaemonStates, streamVars,
              historyVars
<1>8. CASE UNCHANGED vars
  BY <1>8 DEF TInv, TypeOK, Down, vars, streamVars, historyVars
<1>9. QED
  BY <1>1, <1>2, <1>3, <1>4, <1>5, <1>6, <1>7, <1>8 DEF Next

LEMMA TInvAlways == Spec => []TInv
  BY TInvInit, TInvStep, PTL DEF Spec

(* The threads, the FIFO and the queues of the service only take values of
   their types, whatever the front-ends write (TypeOK). *)
THEOREM TypeCorrect == Spec => []TypeOK
<1>1. TInv => TypeOK
  BY DEF TInv
<1>2. QED
  BY <1>1, TInvAlways, PTL

-----------------------------------------------------------------------------
(* The queue *)

LEMMA QueueInit == Init => PrintedIsQueued
  BY ConcatEmptySeq, EmptySeq DEF Init, PrintedIsQueued

LEMMA QueueEnds ==
  ASSUME NEW cause, ProcessEnds(cause)
  PROVE  PrintedIsQueued'
  BY ConcatEmptySeq, EmptySeq DEF ProcessEnds, PrintedIsQueued

LEMMA QueueKept ==
  ASSUME PrintedIsQueued, UNCHANGED <<printed, popped, queue>>,
         daemon # "lock", daemon' # "lock"
  PROVE  PrintedIsQueued'
  BY DEF PrintedIsQueued

LEMMA QueueSame ==
  ASSUME PrintedIsQueued, UNCHANGED <<printed, popped, queue, text, daemon>>
  PROVE  PrintedIsQueued'
  BY DEF PrintedIsQueued

LEMMA QueueStep == TInv /\ PrintedIsQueued /\ [Next]_vars => PrintedIsQueued'
<1> SUFFICES ASSUME TInv, PrintedIsQueued, [Next]_vars
             PROVE  PrintedIsQueued'
  OBVIOUS
<1> DEFINE Commands == Seq(PieceType)
<1>1. /\ printed \in Seq(Commands) /\ popped \in Seq(Commands)
      /\ queue \in Seq(Commands) /\ text \in Commands
      /\ popped \o queue \in Seq(Commands)
      /\ <<text>> \in Seq(Commands)
  BY ConcatProperties DEF TInv, TypeOK
<1>2. ASSUME NEW r \in Requests, Client(r)
      PROVE  PrintedIsQueued'
  <2>1. UNCHANGED <<printed, popped, queue, text>>
    BY <1>2 DEF Client, ClientOpen, ClientWrite, ClientBreaks, ClientClose,
                ClientStep, historyVars
  <2>2. \/ UNCHANGED daemon
        \/ daemon = "open" /\ daemon' = "parse"
    BY <1>2 DEF Client, ClientOpen, ClientWrite, ClientBreaks, ClientClose
  <2>3. QED
    BY <2>1, <2>2, QueueKept, QueueSame
<1>3. CASE Reader \/ SendOpen \/ SendFails \/ SendWrite \/ UNCHANGED vars
  BY <1>3, QueueSame
     DEF Reader, SendOpen, SendFails, SendWrite, MainStep, vars, streamVars, historyVars
<1>4. CASE \/ DaemonOpen \/ ReadType \/ SkipNewline \/ ReadText \/ ReadNewline
           \/ ReadEof \/ FrontIgnores
  BY <1>4, QueueKept
     DEF DaemonOpen, ReadType, SkipNewline, ReadText, ReadNewline, ReadEof, FrontIgnores,
         ParseStep, DaemonStep
<1>5. CASE ParseFails \/ SendBreaks \/ Crash
  BY <1>5, QueueEnds DEF ParseFails, SendBreaks, Crash
<1>6. CASE FrontPrintln
  <2>1. printed = popped \o queue
    BY <1>1, <1>6, ConcatEmptySeq DEF PrintedIsQueued, FrontPrintln, DaemonStep
  <2>2. printed' = printed \o <<text>>
    BY <1>1, <1>6, AppendIsConcat DEF FrontPrintln
  <2>3. daemon' = "lock" /\ UNCHANGED <<popped, queue, text>>
    BY <1>6 DEF FrontPrintln, DaemonStep, streamVars
  <2>4. QED
    BY <2>1, <2>2, <2>3 DEF PrintedIsQueued
<1>7. CASE FrontEmplace
  <2>1. printed = (popped \o queue) \o <<text>>
    BY <1>7 DEF PrintedIsQueued, FrontEmplace, DaemonStep
  <2>2. queue' = queue \o <<text>>
    BY <1>1, <1>7, AppendIsConcat DEF FrontEmplace
  <2>3. printed = popped \o queue'
    BY <1>1, <2>1, <2>2, ConcatAssociative, SMTT(60)
  <2>4. popped \o queue' \in Seq(Commands)
    BY <1>1, <2>3
  <2>5. daemon' # "lock" /\ UNCHANGED <<printed, popped>>
    BY <1>7 DEF FrontEmplace, DaemonStep
  <2>6. QED
    BY <2>3, <2>4, <2>5, ConcatEmptySeq DEF PrintedIsQueued
<1>8. CASE LoopAnswer
  <2>1. popped' \o queue' = popped \o queue
    BY <1>1, <1>8, MoveHead DEF LoopAnswer
  <2>2. UNCHANGED <<daemon, text, printed>>
    BY <1>8 DEF LoopAnswer, MainStep, streamVars
  <2>3. QED
    BY <2>1, <2>2 DEF PrintedIsQueued
<1>9. CASE Restart
  BY <1>9, QueueKept DEF Restart, TInv, Down, historyVars
<1>10. QED
  BY <1>2, <1>3, <1>4, <1>5, <1>6, <1>7, <1>8, <1>9 DEF Next, Listen

(* The commands written to the modem are those in m_incoming_commands and
   those popped for an answer, in this order, but for the one the daemon is
   about to queue; ends and restarts of the process do not change that. *)
THEOREM QueueAccounts == Spec => []PrintedIsQueued
  BY QueueInit, QueueStep, TInvAlways, PTL DEF Spec

-----------------------------------------------------------------------------
(* What a command consists of *)

EndText(piece) == piece \in {Piece(r, "text") : r \in Terminated}

(* A text that the daemon reads; no prompt begins that of a command. *)
Good(read, command) ==
  \A i \in DOMAIN read :
    /\ i = 1 => read[i].part = "text" /\ (command => read[i].of \notin Prompts)
    /\ EndText(read[i]) => i = Len(read)

(* In the FIFO a type is never without its own text, nor a text without the
   newline it was written with: a process that dies reads whole pieces. *)
Following(s) ==
  \A i \in DOMAIN s :
    /\ s[i].part = "type" => /\ i + 1 \in DOMAIN s /\ s[i + 1].part = "text"
                            /\ s[i + 1].of = s[i].of
    /\ EndText(s[i]) => i + 1 \in DOMAIN s /\ s[i + 1].part = "newline"

(* What the daemon finds next depends on what it has read. *)
NextPiece ==
  daemon = "text" =>
    /\ text = <<>> => /\ c2s # <<>> /\ c2s[1].part = "text"
                      /\ isCommand => c2s[1].of \notin Prompts
    /\ text # <<>> /\ EndText(text[Len(text)])
         => c2s # <<>> /\ c2s[1].part = "newline"

SInv ==
  /\ Following(c2s)
  /\ daemon \in {"text", "handler"} => Good(text, isCommand)
  /\ NextPiece
  /\ CommandsEndAtNewline

LEMMA PieceFacts ==
  ASSUME NEW r, NEW q, NEW part, NEW other
  PROVE  /\ Piece(r, part).of = r /\ Piece(r, part).part = part
         /\ Piece(r, part) = Piece(q, other) => r = q /\ part = other
         /\ EndText(Piece(r, part)) <=> r \in Terminated /\ part = "text"
<1>1. /\ Piece(r, part).of = r /\ Piece(r, part).part = part
      /\ Piece(q, other).of = q /\ Piece(q, other).part = other
  BY DEF Piece
<1>2. \A t : Piece(t, "text").of = t /\ Piece(t, "text").part = "text"
  BY DEF Piece
<1>3. EndText(Piece(r, part)) => r \in Terminated /\ part = "text"
  BY <1>1, <1>2 DEF EndText
<1>4. QED
  BY <1>1, <1>3 DEF EndText

LEMMA WrittenFacts ==
  ASSUME NEW r \in Requests
  PROVE  /\ Len(Written(r)) = IF r \in Terminated THEN 3 ELSE 2
         /\ DOMAIN Written(r) = 1 .. Len(Written(r))
         /\ Written(r)[1] = Piece(r, "type")
         /\ Written(r)[2] = Piece(r, "text")
         /\ r \in Terminated => Written(r)[3] = Piece(r, "newline")
<1>1. \A p \in {"type", "text", "newline"} : Piece(r, p) \in PieceType
  BY DEF Piece, PieceType
<1> DEFINE a == <<Piece(r, "type"), Piece(r, "text")>>
           b == IF r \in Terminated THEN <<Piece(r, "newline")>> ELSE <<>>
<1>2. /\ a \in Seq(PieceType) /\ Len(a) = 2
      /\ a[1] = Piece(r, "type") /\ a[2] = Piece(r, "text")
  BY <1>1
<1>3. /\ b \in Seq(PieceType)
      /\ Len(b) = IF r \in Terminated THEN 1 ELSE 0
      /\ r \in Terminated => b[1] = Piece(r, "newline")
  BY <1>1
<1>4. Written(r) = a \o b
  BY DEF Written
<1> HIDE DEF a, b
<1>5. /\ Written(r) \in Seq(PieceType)
      /\ Len(Written(r)) = Len(a) + Len(b)
      /\ \A i \in 1 .. Len(a) + Len(b) :
           Written(r)[i] = IF i <= Len(a) THEN a[i] ELSE b[i - Len(a)]
  <2>1. a \in Seq(PieceType) /\ b \in Seq(PieceType)
    BY <1>2, <1>3
  <2>2. /\ a \o b \in Seq(PieceType)
        /\ Len(a \o b) = Len(a) + Len(b)
        /\ \A i \in 1 .. Len(a) + Len(b) :
             (a \o b)[i] = IF i <= Len(a) THEN a[i] ELSE b[i - Len(a)]
    BY <2>1, ConcatProperties
  <2>3. QED
    BY <1>4, <2>2
<1>6. DOMAIN Written(r) = 1 .. Len(Written(r))
  BY <1>5, LenProperties
<1>7. Written(r)[1] = a[1] /\ Written(r)[2] = a[2]
  BY <1>2, <1>3, <1>5
<1>8. r \in Terminated => Written(r)[3] = b[1]
  <2>1. r \in Terminated => 3 \in 1 .. Len(a) + Len(b) /\ 3 - Len(a) = 1 /\ ~ 3 <= Len(a)
    BY <1>2, <1>3
  <2>2. QED
    BY <1>5, <2>1
<1>9. QED
  BY <1>2, <1>3, <1>5, <1>6, <1>7, <1>8

LEMMA FollowingWritten ==
  ASSUME NEW r \in Requests
  PROVE  Following(Written(r))
<1>1. SUFFICES ASSUME NEW i \in DOMAIN Written(r)
               PROVE  /\ Written(r)[i].part = "type"
                           => /\ i + 1 \in DOMAIN Written(r)
                              /\ Written(r)[i + 1].part = "text"
                              /\ Written(r)[i + 1].of = Written(r)[i].of
                      /\ EndText(Written(r)[i])
                           => i + 1 \in DOMAIN Written(r) /\ Written(r)[i + 1].part = "newline"
  BY DEF Following
<1>2. i = 1 \/ i = 2 \/ (i = 3 /\ r \in Terminated)
  BY WrittenFacts
<1>3. CASE i = 1
  <2>1. i + 1 \in DOMAIN Written(r) /\ Written(r)[i + 1] = Piece(r, "text")
    BY <1>3, WrittenFacts
  <2>2. ~ EndText(Written(r)[i]) /\ Written(r)[i].of = r
    BY <1>3, WrittenFacts, PieceFacts
  <2>3. QED
    BY <2>1, <2>2, PieceFacts
<1>4. CASE i = 2
  <2>1. /\ Written(r)[i].part = "text"
        /\ EndText(Written(r)[i]) => r \in Terminated
    BY <1>4, WrittenFacts, PieceFacts
  <2>2. r \in Terminated => i + 1 \in DOMAIN Written(r)
                              /\ Written(r)[i + 1] = Piece(r, "newline")
    BY <1>4, WrittenFacts
  <2>3. QED
    BY <2>1, <2>2, PieceFacts
<1>5. CASE i = 3 /\ r \in Terminated
  BY <1>5, WrittenFacts, PieceFacts
<1>6. QED
  BY <1>2, <1>3, <1>4, <1>5

LEMMA FollowingConcat ==
  ASSUME NEW s \in Seq(PieceType), NEW t \in Seq(PieceType), Following(s), Following(t)
  PROVE  Following(s \o t)
<1>1. /\ Len(s) \in Nat /\ Len(t) \in Nat
      /\ DOMAIN s = 1 .. Len(s) /\ DOMAIN t = 1 .. Len(t)
      /\ DOMAIN (s \o t) = 1 .. Len(s) + Len(t)
      /\ \A i \in 1 .. Len(s) : (s \o t)[i] = s[i]
      /\ \A i \in 1 .. Len(t) : (s \o t)[Len(s) + i] = t[i]
  BY ConcatProperties, LenProperties
<1>2. SUFFICES ASSUME NEW i \in DOMAIN (s \o t)
               PROVE  /\ (s \o t)[i].part = "type"
                           => /\ i + 1 \in DOMAIN (s \o t)
                              /\ (s \o t)[i + 1].part = "text"
                              /\ (s \o t)[i + 1].of = (s \o t)[i].of
                      /\ EndText((s \o t)[i])
                           => /\ i + 1 \in DOMAIN (s \o t)
                              /\ (s \o t)[i + 1].part = "newline"
  BY DEF Following
<1>3. CASE i \in DOMAIN s
  BY <1>1, <1>3 DEF Following
<1>4. CASE i \notin DOMAIN s
  <2> DEFINE j == i - Len(s)
  <2>1. j \in DOMAIN t /\ i = Len(s) + j /\ i + 1 = Len(s) + (j + 1)
    BY <1>1, <1>4
  <2>2. (s \o t)[i] = t[j]
    BY <1>1, <2>1
  <2>3. j + 1 \in DOMAIN t => i + 1 \in DOMAIN (s \o t) /\ (s \o t)[i + 1] = t[j + 1]
    BY <1>1, <2>1
  <2> HIDE DEF j
  <2>4. QED
    BY <2>1, <2>2, <2>3 DEF Following
<1>5. QED
  BY <1>3, <1>4

LEMMA FollowingTail ==
  ASSUME NEW s \in Seq(PieceType), s # <<>>, Following(s)
  PROVE  /\ Following(Tail(s))
         /\ s[1].part = "type"
              => Tail(s) # <<>> /\ Tail(s)[1].part = "text" /\ Tail(s)[1].of = s[1].of
         /\ EndText(s[1]) => Tail(s) # <<>> /\ Tail(s)[1].part = "newline"
<1>1. /\ Len(s) \in Nat \ {0}
      /\ DOMAIN s = 1 .. Len(s)
      /\ DOMAIN Tail(s) = 1 .. Len(s) - 1
      /\ \A i \in DOMAIN Tail(s) : Tail(s)[i] = s[i + 1]
  BY TailFacts
<1>2. Following(Tail(s))
  BY <1>1 DEF Following
<1>3. Len(Tail(s)) = Len(s) - 1
  BY HeadTailProperties
<1>4. ASSUME 1 + 1 \in DOMAIN s
      PROVE  Tail(s) # <<>> /\ Tail(s)[1] = s[1 + 1]
  <2>1. 1 \in DOMAIN Tail(s)
    BY <1>1, <1>4
  <2>2. Len(Tail(s)) # Len(<<>>)
    BY <1>1, <1>3, <1>4
  <2>3. QED
    BY <1>1, <2>1, <2>2
<1>5. QED
  BY <1>1, <1>2, <1>4 DEF Following

(* Which steps change the stream, and how. *)
LEMMA ClientStream ==
  ASSUME TInv, NEW r \in Requests, Client(r)
  PROVE  /\ UNCHANGED <<isCommand, text, printed, prints>>
         /\ daemon' = daemon \/ (daemon = "open" /\ daemon' = "parse")
         /\ \/ c2s' \in {c2s, <<>>}
            \/ /\ clients[r] = "open" /\ clients'[r] = "written"
               /\ c2s' = c2s \o Written(r)
         /\ daemon \in {"text", "handler"} => c2s' \in {c2s, c2s \o Written(r)}
         /\ \A q \in Requests :
              clients'[q] \in {"idle", "open"} => clients[q] \in {"idle", "open"}
<1> USE DEF ClientStep, historyVars
<1>1. clients \in [Requests -> ClientStates]
  BY DEF TInv, TypeOK
<1>2. CASE ClientOpen(r)
  BY <1>1, <1>2 DEF ClientOpen
<1>3. CASE ClientWrite(r)
  BY <1>1, <1>3 DEF ClientWrite
<1>4. CASE ClientBreaks(r)
  BY <1>1, <1>4 DEF ClientBreaks, Unread, Listening
<1>5. CASE ClientClose(r)
  BY <1>1, <1>5 DEF ClientClose, Unread, Listening
<1>6. QED
  BY <1>2, <1>3, <1>4, <1>5 DEF Client

LEMMA ShapeInit == Init => SInv
  BY EmptySeq DEF Init, SInv, Following, NextPiece, CommandsEndAtNewline

LEMMA ShapeEnds ==
  ASSUME SInv, NEW cause, ProcessEnds(cause)
  PROVE  SInv'
<1>1. Following(c2s')
  BY DEF SInv, ProcessEnds, Following
<1>2. daemon' = "none" /\ printed' = <<>>
  BY DEF ProcessEnds
<1>3. CommandsEndAtNewline'
  BY <1>2 DEF CommandsEndAtNewline
<1>4. QED
  BY <1>1, <1>2, <1>3 DEF SInv, NextPiece

(* One step per kind of action *)
LEMMA ShapeStep == TInv /\ SInv /\ [Next]_vars => SInv'
<1> SUFFICES ASSUME TInv, SInv, [Next]_vars
             PROVE  SInv'
  OBVIOUS
<1>1. c2s \in Seq(PieceType) /\ text \in Seq(PieceType)
  BY DEF TInv, TypeOK
<1>2. ASSUME NEW r \in Requests, Client(r)
      PROVE  SInv'
  <2>1. Following(c2s')
    <3>1. Following(c2s \o Written(r))
      BY <1>1, WrittenType, FollowingWritten, FollowingConcat DEF SInv
    <3>2. Following(<<>>)
      BY DEF Following
    <3>3. QED
      BY <1>2, <3>1, <3>2, ClientStream DEF SInv
  <2>2. c2s # <<>> => c2s \o Written(r) # <<>> /\ (c2s \o Written(r))[1] = c2s[1]
    BY <1>1, WrittenType, ConcatProperties, ConcatEqualIffEmpty, LenProperties, EmptySeq
  <2>3. NextPiece'
    BY <1>2, <2>2, ClientStream DEF SInv, NextPiece
  <2>4. QED
    BY <1>2, <2>1, <2>3, ClientStream DEF SInv, CommandsEndAtNewline
<1>3. CASE \/ Reader \/ FrontIgnores \/ FrontEmplace \/ LoopAnswer \/ SendOpen \/ SendFails
           \/ SendWrite \/ UNCHANGED vars
  <2>1. /\ UNCHANGED <<isCommand, text, c2s, printed>>
        /\ daemon' = daemon \/ daemon' = "parse"
    BY <1>3 DEF Reader, FrontIgnores, ParseStep, FrontEmplace, LoopAnswer, SendOpen, SendFails, SendWrite,
                MainStep, DaemonStep, vars, streamVars, historyVars
  <2>2. QED
    BY <2>1 DEF SInv, NextPiece, CommandsEndAtNewline
<1>4. CASE DaemonOpen \/ Restart
  <2>1. UNCHANGED <<text, c2s, printed>> /\ daemon' \in {"open", "parse"}
    BY <1>4 DEF DaemonOpen, Restart, ParseStep, DaemonStep, streamVars, historyVars
  <2>2. QED
    BY <2>1 DEF SInv, NextPiece, CommandsEndAtNewline
<1>5. CASE ReadType
  <2>1. /\ c2s # <<>> /\ c2s[1].part = "type" /\ c2s' = Tail(c2s)
        /\ text' = <<>> /\ daemon' = "text" /\ UNCHANGED printed
        /\ isCommand' = (c2s[1].of \notin Prompts)
    BY <1>1, <1>5, TailFacts DEF ReadType, Get, ParseStep, DaemonStep
  <2>2. /\ Following(c2s') /\ c2s' # <<>> /\ c2s'[1].part = "text"
        /\ c2s'[1].of = c2s[1].of
    BY <1>1, <2>1, FollowingTail DEF SInv
  <2>3. Good(text', isCommand')
    BY <2>1 DEF Good
  <2>4. QED
    BY <2>1, <2>2, <2>3 DEF SInv, NextPiece, CommandsEndAtNewline
<1>6. CASE SkipNewline \/ ReadNewline
  <2>1. /\ c2s # <<>> /\ c2s' = Tail(c2s) /\ UNCHANGED <<isCommand, text, printed>>
        /\ daemon' \in {"parse", "handler"}
        /\ daemon' = "handler" => daemon = "text"
    BY <1>6 DEF SkipNewline, ReadNewline, Get, ParseStep, DaemonStep
  <2>2. Following(c2s')
    BY <1>1, <2>1, FollowingTail DEF SInv
  <2>3. QED
    BY <2>1, <2>2 DEF SInv, NextPiece, CommandsEndAtNewline
<1>7. CASE ParseFails \/ SendBreaks \/ Crash
  BY <1>7, ShapeEnds DEF ParseFails, SendBreaks, Crash
<1>8. CASE ReadText
  <2> DEFINE piece == c2s[1]
  <2>1. /\ c2s # <<>> /\ piece \in PieceType /\ piece.part \in {"type", "text"}
        /\ c2s' = Tail(c2s) /\ text' = Append(text, piece)
        /\ daemon = "text" /\ daemon' = "text" /\ UNCHANGED <<isCommand, printed>>
    BY <1>1, <1>8, TailFacts DEF ReadText, Get, ParseStep, DaemonStep
  <2>2. /\ Following(c2s')
        /\ EndText(piece) => c2s' # <<>> /\ c2s'[1].part = "newline"
    BY <1>1, <2>1, FollowingTail DEF SInv
  <2>3. /\ Len(text) \in Nat /\ DOMAIN text = 1 .. Len(text)
        /\ Len(text') = Len(text) + 1 /\ DOMAIN text' = 1 .. Len(text) + 1
        /\ \A i \in 1 .. Len(text) : text'[i] = text[i]
        /\ text'[Len(text) + 1] = piece
        /\ text' # <<>>
    BY <1>1, <2>1, AppendProperties, LenProperties
  <2> HIDE DEF piece
  <2>4. Good(text, isCommand) /\ NextPiece
    BY <2>1 DEF SInv
  <2>5. \A i \in DOMAIN text : ~ EndText(text[i])
    <3>1. \A i \in DOMAIN text : EndText(text[i]) => i = Len(text) /\ text # <<>>
      BY <2>3, <2>4 DEF Good
    <3>2. text # <<>> /\ EndText(text[Len(text)]) => FALSE
      BY <2>1, <2>4 DEF NextPiece, piece
    <3>3. QED
      BY <3>1, <3>2
  <2>6. text = <<>> => piece.part = "text" /\ (isCommand => piece.of \notin Prompts)
    BY <2>1, <2>4 DEF NextPiece, piece
  <2>7. Good(text', isCommand)
    <3>1. ASSUME NEW i \in 1 .. Len(text) + 1
          PROVE  /\ i = 1 => text'[i].part = "text"
                 /\ i = 1 /\ isCommand => text'[i].of \notin Prompts
                 /\ EndText(text'[i]) => i = Len(text) + 1
      <4>1. CASE i \in 1 .. Len(text)
        BY <2>3, <2>4, <2>5, <4>1 DEF Good
      <4>2. CASE i = Len(text) + 1
        <5>1. i = 1 => text = <<>>
          BY <1>1, <2>3, <4>2, EmptySeq
        <5>2. QED
          BY <2>3, <2>6, <4>2, <5>1
      <4>3. QED
        BY <2>3, <3>1, <4>1, <4>2
    <3>2. QED
      BY <2>3, <3>1, Zenon DEF Good
  <2>8. NextPiece'
    BY <2>2, <2>3 DEF NextPiece
  <2>9. QED
    BY <2>1, <2>2, <2>7, <2>8 DEF SInv, CommandsEndAtNewline
<1>9. CASE ReadEof
  <2>1. /\ UNCHANGED <<isCommand, text, c2s, printed>>
        /\ daemon = "text" /\ daemon' = "handler"
    BY <1>9 DEF ReadEof, ParseStep, DaemonStep
  <2>2. QED
    BY <2>1 DEF SInv, NextPiece, CommandsEndAtNewline
<1>10. CASE FrontPrintln
  <2>1. /\ UNCHANGED <<text, c2s>> /\ printed' = Append(printed, text)
        /\ daemon = "handler" /\ daemon' = "lock" /\ isCommand
    BY <1>10 DEF FrontPrintln, DaemonStep, streamVars
  <2>2. printed \in Seq(Seq(PieceType))
    BY DEF TInv, TypeOK
  <2>3. /\ DOMAIN printed = 1 .. Len(printed) /\ Len(printed) \in Nat
        /\ DOMAIN printed' = 1 .. Len(printed) + 1
        /\ \A k \in 1 .. Len(printed) : printed'[k] = printed[k]
        /\ printed'[Len(printed) + 1] = text
    BY <1>1, <2>1, <2>2, AppendProperties, LenProperties
  <2>4. Good(text, TRUE)
    BY <2>1 DEF SInv, Good
  <2>5. \A k \in DOMAIN printed : Good(printed[k], TRUE)
    BY DEF SInv, CommandsEndAtNewline, Good, EndText
  <2>6. \A k \in DOMAIN printed' : Good(printed'[k], TRUE)
    <3>1. \A k \in DOMAIN printed' : k \in DOMAIN printed \/ k = Len(printed) + 1
      BY <2>3
    <3>2. \A k \in DOMAIN printed : printed'[k] = printed[k]
      BY <2>3
    <3>3. QED
      BY <2>3, <2>4, <2>5, <3>1, <3>2, Zenon
  <2>7. CommandsEndAtNewline'
    BY <2>6 DEF CommandsEndAtNewline, Good, EndText
  <2>8. QED
    BY <2>1, <2>7 DEF SInv, NextPiece
<1>11. QED
  BY <1>2, <1>3, <1>4, <1>5, <1>6, <1>7, <1>8, <1>9, <1>10 DEF Next, Listen

(* Whatever the front-ends write into the one FIFO and whenever processes
   die, what is written to the modem begins with the text of a request that is
   a command, and ends with the first text that had a newline behind it; only
   a text without one can be followed by others (CommandsEndAtNewline). *)
THEOREM CommandsKeepToALine == Spec => []CommandsEndAtNewline
<1>1. SInv => CommandsEndAtNewline
  BY DEF SInv
<1>2. QED
  BY <1>1, ShapeInit, ShapeStep, TInvAlways, PTL DEF Spec

-----------------------------------------------------------------------------
(* No request is written twice *)

(* The daemon has the text of request r and has not written it yet. *)
Reading(r) == daemon \in {"text", "handler"} /\ HasText(text, r)

(* A request is before the FIFO, in it, in the daemon's text, or written. *)
Once(r) ==
  /\ prints[r] <= 1
  /\ prints[r] > 0 => ~ HasText(c2s, r) /\ ~ Reading(r)
  /\ Reading(r) => ~ HasText(c2s, r)
  /\ \A i, j \in DOMAIN c2s :
       c2s[i] = Piece(r, "text") /\ c2s[j] = Piece(r, "text") => i = j
  /\ clients[r] \in {"idle", "open"}
       => prints[r] = 0 /\ ~ HasText(c2s, r) /\ ~ Reading(r)

OInv == \A r \in Requests : Once(r)

LEMMA OnceInit == Init => OInv
<1> SUFFICES ASSUME Init, NEW r \in Requests
             PROVE  Once(r)
  BY DEF OInv
<1>1. prints[r] = 0 /\ DOMAIN c2s = {} /\ daemon = "open"
  BY DEF Init
<1>2. ~ HasText(c2s, r) /\ ~ Reading(r)
  BY <1>1 DEF HasText, Reading
<1>3. QED
  BY <1>1, <1>2 DEF Once

LEMMA TextOfTail ==
  ASSUME NEW s \in Seq(PieceType), s # <<>>, NEW r \in Requests,
         \A i, j \in DOMAIN s : s[i] = Piece(r, "text") /\ s[j] = Piece(r, "text") => i = j
  PROVE  /\ HasText(Tail(s), r) => HasText(s, r) /\ s[1] # Piece(r, "text")
         /\ s[1] = Piece(r, "text") => HasText(s, r)
         /\ \A i, j \in DOMAIN Tail(s) :
              Tail(s)[i] = Piece(r, "text") /\ Tail(s)[j] = Piece(r, "text") => i = j
<1>1. /\ Len(s) \in Nat \ {0}
      /\ DOMAIN s = 1 .. Len(s)
      /\ DOMAIN Tail(s) = 1 .. Len(s) - 1
      /\ \A i \in DOMAIN Tail(s) : Tail(s)[i] = s[i + 1]
  BY TailFacts
<1>2. \A i \in DOMAIN Tail(s) : i \in Nat /\ i + 1 \in DOMAIN s /\ i + 1 # 1
  BY <1>1
<1>3. 1 \in DOMAIN s
  BY <1>1
<1>4. HasText(Tail(s), r) => HasText(s, r) /\ s[1] # Piece(r, "text")
  BY <1>1, <1>2, <1>3 DEF HasText
<1>5. ASSUME NEW i \in DOMAIN Tail(s), NEW j \in DOMAIN Tail(s),
             Tail(s)[i] = Piece(r, "text"), Tail(s)[j] = Piece(r, "text")
      PROVE  i = j
  <2>1. i + 1 = j + 1
    BY <1>1, <1>2, <1>5
  <2>2. QED
    BY <1>2, <2>1
<1>6. QED
  BY <1>3, <1>4, <1>5 DEF HasText

LEMMA TextOfConcat ==
  ASSUME NEW s \in Seq(PieceType), NEW r \in Requests, NEW q \in Requests
  PROVE  LET t == s \o Written(r)
         IN  /\ HasText(t, q) => HasText(s, q) \/ q = r
             /\ (q = r => ~ HasText(s, q))
                  /\ (\A i, j \in DOMAIN s :
                        s[i] = Piece(q, "text") /\ s[j] = Piece(q, "text") => i = j)
                => \A i, j \in DOMAIN t :
                     t[i] = Piece(q, "text") /\ t[j] = Piece(q, "text") => i = j
<1> DEFINE w == Written(r)
           t == s \o w
<1>1. /\ Len(s) \in Nat /\ Len(w) \in 2 .. 3
      /\ DOMAIN s = 1 .. Len(s)
      /\ DOMAIN t = 1 .. Len(s) + Len(w)
      /\ \A i \in 1 .. Len(s) : t[i] = s[i]
      /\ \A i \in 1 .. Len(w) : t[Len(s) + i] = w[i]
  BY WrittenType, WrittenFacts, ConcatProperties, LenProperties
<1>2. \A i \in 1 .. Len(w) : w[i] = Piece(q, "text") => i = 2 /\ q = r
  <2>1. TAKE i \in 1 .. Len(w)
  <2>2. \/ i = 1 /\ w[i] = Piece(r, "type")
        \/ i = 2 /\ w[i] = Piece(r, "text")
        \/ i = 3 /\ w[i] = Piece(r, "newline")
    <3>1. Len(w) = IF r \in Terminated THEN 3 ELSE 2
      BY WrittenFacts
    <3>2. i = 1 \/ i = 2 \/ (i = 3 /\ r \in Terminated)
      BY <3>1
    <3>3. QED
      BY <3>2, WrittenFacts
  <2>3. QED
    BY <2>2, PieceFacts
<1> HIDE DEF w, t
<1>3. ASSUME NEW i \in DOMAIN t, t[i] = Piece(q, "text")
      PROVE  \/ i \in DOMAIN s /\ s[i] = Piece(q, "text")
             \/ i = Len(s) + 2 /\ q = r
  <2>1. CASE i \in 1 .. Len(s)
    BY <1>1, <1>3, <2>1
  <2>2. CASE i \notin 1 .. Len(s)
    <3>1. i - Len(s) \in 1 .. Len(w) /\ i = Len(s) + (i - Len(s))
      BY <1>1, <2>2
    <3>2. w[i - Len(s)] = Piece(q, "text")
      BY <1>1, <1>3, <3>1
    <3>3. QED
      BY <1>1, <1>2, <3>1, <3>2
  <2>3. QED
    BY <2>1, <2>2
<1>4. HasText(t, q) => HasText(s, q) \/ q = r
  BY <1>3 DEF HasText
<1>5. ASSUME q = r => ~ HasText(s, q),
             \A i, j \in DOMAIN s :
               s[i] = Piece(q, "text") /\ s[j] = Piece(q, "text") => i = j,
             NEW i \in DOMAIN t, NEW j \in DOMAIN t,
             t[i] = Piece(q, "text"), t[j] = Piece(q, "text")
      PROVE  i = j
  BY <1>3, <1>5 DEF HasText
<1>6. QED
  BY <1>4, <1>5 DEF t, w

(* The FIFO keeps what it holds or is emptied; the daemon's text is as it
   was, or is no longer waiting to be written. *)
LEMMA OnceKept ==
  ASSUME OInv, UNCHANGED prints,
         c2s' \in {c2s, <<>>},
         \/ UNCHANGED <<text, daemon>>
         \/ daemon' \notin {"text", "handler"}
         \/ daemon = "text" /\ daemon' = "handler" /\ UNCHANGED text,
         \A q \in Requests :
           clients'[q] \in {"idle", "open"} => clients[q] \in {"idle", "open"}
  PROVE  OInv'
<1>1. SUFFICES ASSUME NEW r \in Requests
               PROVE  Once(r)'
  BY DEF OInv
<1>2. Once(r)
  BY DEF OInv
<1>3. HasText(c2s, r)' => HasText(c2s, r)
  BY EmptySeq DEF HasText
<1>4. Reading(r)' => Reading(r)
  BY DEF Reading, HasText
<1>5. \A i, j \in DOMAIN c2s' :
        c2s'[i] = Piece(r, "text") /\ c2s'[j] = Piece(r, "text") => i = j
  BY <1>2, EmptySeq DEF Once
<1>6. QED
  BY <1>2, <1>3, <1>4, <1>5 DEF Once

LEMMA OnceStep == TInv /\ OInv /\ [Next]_vars => OInv'
<1> SUFFICES ASSUME TInv, OInv, [Next]_vars
             PROVE  OInv'
  OBVIOUS
<1>1. c2s \in Seq(PieceType) /\ text \in Seq(PieceType)
      /\ clients \in [Requests -> ClientStates] /\ prints \in [Requests -> Nat]
  BY DEF TInv, TypeOK
<1>2. ASSUME NEW r \in Requests, Client(r)
      PROVE  OInv'
  <2>1. CASE c2s' \in {c2s, <<>>} 
    BY <1>2, <2>1, ClientStream, OnceKept
  <2>2. CASE /\ clients[r] = "open" /\ clients'[r] = "written"
             /\ c2s' = c2s \o Written(r)
    <3>1. SUFFICES ASSUME NEW q \in Requests
                   PROVE  Once(q)'
      BY DEF OInv
    <3>2. Once(q) /\ (q = r => ~ HasText(c2s, q) /\ prints[q] = 0 /\ ~ Reading(q))
      BY <2>2 DEF OInv, Once
    <3>3. /\ HasText(c2s', q) => HasText(c2s, q) \/ q = r
          /\ \A i, j \in DOMAIN c2s' :
               c2s'[i] = Piece(q, "text") /\ c2s'[j] = Piece(q, "text") => i = j
      BY <1>1, <2>2, <3>2, TextOfConcat DEF Once
    <3>4. (Reading(q)' => Reading(q)) /\ UNCHANGED prints
      BY <1>2, ClientStream DEF Reading, HasText
    <3>5. clients'[q] \in {"idle", "open"} => clients[q] \in {"idle", "open"} /\ q # r
      BY <1>2, <2>2, ClientStream
    <3>6. QED
      BY <3>2, <3>3, <3>4, <3>5 DEF Once
  <2>3. QED
    BY <1>2, <2>1, <2>2, ClientStream
<1>3. CASE \/ Reader \/ FrontIgnores \/ FrontEmplace \/ LoopAnswer \/ SendOpen \/ SendFails
           \/ SendWrite \/ UNCHANGED vars
  <2>1. /\ UNCHANGED <<text, c2s, prints, clients>>
        /\ daemon' = daemon \/ daemon' = "parse"
    BY <1>3 DEF Reader, FrontIgnores, ParseStep, FrontEmplace, LoopAnswer, SendOpen, SendFails, SendWrite,
                MainStep, DaemonStep, vars, streamVars, historyVars
  <2>2. QED
    BY <2>1, OnceKept
<1>4. CASE DaemonOpen \/ Restart \/ ReadEof
  <2>1. /\ UNCHANGED <<text, c2s, prints, clients>>
        /\ \/ daemon' \in {"open", "parse"}
           \/ daemon = "text" /\ daemon' = "handler"
    BY <1>4 DEF DaemonOpen, Restart, ReadEof, ParseStep, DaemonStep, streamVars,
                historyVars
  <2>2. QED
    BY <2>1, OnceKept
<1>5. CASE ParseFails \/ SendBreaks \/ Crash
  <2>1. c2s' \in {c2s, <<>>} /\ UNCHANGED <<prints, clients>> /\ daemon' = "none"
    BY <1>5 DEF ParseFails, SendBreaks, Crash, ProcessEnds
  <2>2. QED
    BY <2>1, OnceKept
<1>6. CASE ReadType \/ SkipNewline \/ ReadNewline \/ ReadText
  <2>1. /\ c2s # <<>> /\ c2s' = Tail(c2s) /\ UNCHANGED <<prints, clients>>
        /\ \/ text' = <<>>
           \/ daemon' = "parse"
           \/ daemon = "text" /\ text' \in {text, Append(text, c2s[1])}
    BY <1>1, <1>6, TailFacts
       DEF ReadType, SkipNewline, ReadNewline, ReadText, Get, ParseStep, DaemonStep
  <2>2. SUFFICES ASSUME NEW q \in Requests
                 PROVE  Once(q)'
    BY DEF OInv
  <2>3. Once(q)
    BY DEF OInv
  <2>4. /\ HasText(c2s', q) => HasText(c2s, q) /\ c2s[1] # Piece(q, "text")
        /\ c2s[1] = Piece(q, "text") => HasText(c2s, q)
        /\ \A i, j \in DOMAIN c2s' :
             c2s'[i] = Piece(q, "text") /\ c2s'[j] = Piece(q, "text") => i = j
    BY <1>1, <2>1, <2>3, TextOfTail DEF Once
  <2>5. HasText(Append(text, c2s[1]), q) => HasText(text, q) \/ c2s[1] = Piece(q, "text")
    <3>1. c2s[1] \in PieceType
      BY <1>1, <2>1, TailFacts
    <3>2. QED
      BY <1>1, <3>1, AppendProperties, LenProperties DEF HasText
  <2>6. Reading(q)' => Reading(q) \/ c2s[1] = Piece(q, "text")
    BY <2>1, <2>5, EmptySeq DEF Reading, HasText
  <2>7. QED
    BY <2>1, <2>3, <2>4, <2>6 DEF Once
<1>7. CASE FrontPrintln
  <2>1. /\ UNCHANGED <<text, c2s, clients>> /\ daemon = "handler" /\ daemon' = "lock"
        /\ \A q \in Requests :
             prints'[q] = IF HasText(text, q) THEN prints[q] + 1 ELSE prints[q]
    BY <1>7 DEF FrontPrintln, DaemonStep, streamVars
  <2>2. SUFFICES ASSUME NEW q \in Requests
                 PROVE  Once(q)'
    BY DEF OInv
  <2>3. Once(q) /\ (Reading(q) <=> HasText(text, q)) /\ ~ Reading(q)'
    BY <2>1 DEF OInv, Reading
  <2>4. HasText(c2s, q)' <=> HasText(c2s, q)
    BY <2>1 DEF HasText
  <2>5. prints[q] \in Nat /\ prints'[q] = IF HasText(text, q) THEN prints[q] + 1 ELSE prints[q]
    BY <1>1, <2>1
  <2>6. QED
    BY <2>1, <2>3, <2>4, <2>5 DEF Once
<1>8. QED
  BY <1>2, <1>3, <1>4, <1>5, <1>6, <1>7 DEF Next, Listen

(* Neither the wait for the mutex nor a restart of the service makes it write
   the text of a request to the modem a second time. *)
THEOREM NoRequestTwice == Spec => []PrintedAtMostOnce
<1>1. OInv => PrintedAtMostOnce
  BY DEF OInv, Once, PrintedAtMostOnce
<1>2. QED
  BY <1>1, OnceInit, OnceStep, TInvAlways, PTL DEF Spec

-----------------------------------------------------------------------------
(* Daemon and main thread keep the queue that CommandQueue promises. *)

(* What is written to the modem is the text of a request at least. *)
NotEmpty ==
  daemon \in {"handler", "lock"} => text # <<>> /\ text[1].part = "text"

LEMMA RequestFound ==
  ASSUME NEW command \in Seq(PieceType), command # <<>>, command[1].part = "text"
  PROVE  RequestsIn(command) # {}
<1>1. Len(command) \in Nat \ {0} /\ DOMAIN command = 1 .. Len(command)
  BY EmptySeq, LenProperties
<1>2. 1 \in DOMAIN command
  BY <1>1
<1>3. command[1] \in PieceType
  BY <1>1, <1>2, ElementOfSeq
<1>4. command[1].of \in Requests /\ command[1] = Piece(command[1].of, "text")
  BY <1>3 DEF PieceType, Piece
<1>5. HasText(command, command[1].of)
  BY <1>2, <1>4 DEF HasText
<1>6. QED
  BY <1>4, <1>5 DEF RequestsIn

LEMMA NotEmptyStep == TInv /\ SInv /\ NotEmpty /\ [Next]_vars => NotEmpty'
<1> SUFFICES ASSUME TInv, SInv, NotEmpty, [Next]_vars
             PROVE  NotEmpty'
  OBVIOUS
<1>1. ASSUME UNCHANGED text, daemon' = daemon
      PROVE  NotEmpty'
  BY <1>1 DEF NotEmpty
<1>2. ASSUME daemon' \notin {"handler", "lock"}
      PROVE  NotEmpty'
  BY <1>2 DEF NotEmpty
<1>3. ASSUME NEW r \in Requests, Client(r)
      PROVE  NotEmpty'
  BY <1>1, <1>2, <1>3, ClientStream
<1>4. CASE Reader \/ LoopAnswer \/ SendOpen \/ SendFails \/ SendWrite \/ UNCHANGED vars
  BY <1>1, <1>4 DEF Reader, LoopAnswer, SendOpen, SendFails, SendWrite, MainStep, vars,
                    streamVars
<1>5. CASE \/ DaemonOpen \/ ReadType \/ SkipNewline \/ ReadText \/ FrontEmplace
           \/ FrontIgnores \/ ParseFails \/ SendBreaks \/ Crash \/ Restart
  BY <1>2, <1>5 DEF DaemonOpen, ReadType, SkipNewline, ReadText, FrontEmplace, ParseStep,
                    FrontIgnores, DaemonStep, ParseFails, SendBreaks, Crash, ProcessEnds, Restart
<1>6. CASE ReadNewline \/ ReadEof
  <2>1. /\ daemon = "text" /\ UNCHANGED text
        /\ c2s = <<>> \/ (c2s # <<>> /\ Head(c2s).part = "newline")
    BY <1>6 DEF ReadNewline, ReadEof, Get, AtEnd, ParseStep, DaemonStep
  <2>2. text # <<>>
    BY <2>1, TailFacts DEF SInv, NextPiece, TInv, TypeOK
  <2>3. 1 \in DOMAIN text
    BY <2>2, TailFacts DEF TInv, TypeOK
  <2>4. text[1].part = "text"
    BY <2>1, <2>3 DEF SInv, Good
  <2>5. QED
    BY <2>1, <2>2, <2>4 DEF NotEmpty
<1>7. CASE FrontPrintln
  BY <1>7 DEF FrontPrintln, DaemonStep, streamVars, NotEmpty
<1>8. QED
  BY <1>3, <1>4, <1>5, <1>6, <1>7 DEF Next, Listen

(* The queue as CommandQueue sees it *)
Contents(seq) == [i \in DOMAIN seq |-> RequestsIn(seq[i])]

LEMMA ContentsFacts ==
  ASSUME NEW S, NEW seq \in Seq(S)
  PROVE  /\ Contents(seq) \in Seq(SUBSET Requests)
         /\ Len(Contents(seq)) = Len(seq)
         /\ \A i \in 1 .. Len(seq) : Contents(seq)[i] = RequestsIn(seq[i])
<1>1. Len(seq) \in Nat /\ DOMAIN seq = 1 .. Len(seq)
  BY LenProperties
<1>2. \A i : RequestsIn(seq[i]) \in SUBSET Requests
  BY DEF RequestsIn
<1>3. Contents(seq) \in [1 .. Len(seq) -> SUBSET Requests]
  BY <1>1, <1>2 DEF Contents
<1>4. Contents(seq) \in Seq(SUBSET Requests)
  BY <1>1, <1>3, SeqDef
<1>5. DOMAIN Contents(seq) = 1 .. Len(seq)
  BY <1>3
<1>6. DOMAIN Contents(seq) = 1 .. Len(Contents(seq)) /\ Len(Contents(seq)) \in Nat
  BY <1>4, LenProperties
<1>7. Len(Contents(seq)) = Len(seq)
  BY <1>1, <1>5, <1>6
<1>8. QED
  BY <1>1, <1>4, <1>7 DEF Contents

LEMMA ContentsAppend ==
  ASSUME NEW S, NEW seq \in Seq(S), NEW command \in S
  PROVE  Contents(Append(seq, command)) = Append(Contents(seq), RequestsIn(command))
<1> DEFINE more == Append(seq, command)
           c == RequestsIn(command)
<1>1. /\ more \in Seq(S) /\ Len(more) = Len(seq) + 1 /\ Len(seq) \in Nat
      /\ \A i \in 1 .. Len(seq) : more[i] = seq[i]
      /\ more[Len(seq) + 1] = command
  BY AppendProperties, LenProperties
<1>2. c \in SUBSET Requests
  BY DEF RequestsIn
<1> HIDE DEF more
<1>3. /\ Contents(seq) \in Seq(SUBSET Requests) /\ Len(Contents(seq)) = Len(seq)
      /\ \A i \in 1 .. Len(seq) : Contents(seq)[i] = RequestsIn(seq[i])
  BY ContentsFacts
<1>4. /\ Contents(more) \in Seq(SUBSET Requests) /\ Len(Contents(more)) = Len(seq) + 1
      /\ \A i \in 1 .. Len(seq) + 1 : Contents(more)[i] = RequestsIn(more[i])
  BY <1>1, ContentsFacts
<1> HIDE DEF c
<1>5. /\ Append(Contents(seq), c) \in Seq(SUBSET Requests)
      /\ Len(Append(Contents(seq), c)) = Len(seq) + 1
      /\ \A i \in 1 .. Len(seq) : Append(Contents(seq), c)[i] = Contents(seq)[i]
      /\ Append(Contents(seq), c)[Len(seq) + 1] = c
  BY <1>2, <1>3, AppendProperties
<1>6. ASSUME NEW i \in 1 .. Len(seq) + 1
      PROVE  Contents(more)[i] = Append(Contents(seq), c)[i]
  <2>1. Contents(more)[i] = RequestsIn(more[i])
    BY <1>4
  <2>2. CASE i \in 1 .. Len(seq)
    BY <1>1, <1>3, <1>5, <2>1, <2>2
  <2>3. CASE i = Len(seq) + 1
    BY <1>1, <1>5, <2>1, <2>3 DEF c
  <2>4. i \in 1 .. Len(seq) \/ i = Len(seq) + 1
    BY <1>1
  <2>5. QED
    BY <2>2, <2>3, <2>4
<1>7. Contents(more) = Append(Contents(seq), c)
  BY <1>4, <1>5, <1>6, SeqEqual
<1>8. QED
  BY <1>7 DEF more, c

LEMMA ContentsTail ==
  ASSUME NEW S, NEW seq \in Seq(S), seq # <<>>
  PROVE  Contents(seq) # <<>> /\ Contents(Tail(seq)) = Tail(Contents(seq))
<1>1. /\ Tail(seq) \in Seq(S) /\ Len(seq) \in Nat \ {0}
      /\ Len(Tail(seq)) = Len(seq) - 1
      /\ \A i \in 1 .. Len(Tail(seq)) : Tail(seq)[i] = seq[i + 1]
  BY HeadTailProperties, EmptySeq
<1>2. /\ Contents(seq) \in Seq(SUBSET Requests) /\ Len(Contents(seq)) = Len(seq)
      /\ \A i \in 1 .. Len(seq) : Contents(seq)[i] = RequestsIn(seq[i])
  BY ContentsFacts
<1>3. Contents(seq) # <<>>
  BY <1>1, <1>2, EmptySeq
<1>4. /\ Tail(Contents(seq)) \in Seq(SUBSET Requests)
      /\ Len(Tail(Contents(seq))) = Len(seq) - 1
      /\ \A i \in 1 .. Len(seq) - 1 : Tail(Contents(seq))[i] = Contents(seq)[i + 1]
  BY <1>2, <1>3, HeadTailProperties
<1>5. /\ Contents(Tail(seq)) \in Seq(SUBSET Requests)
      /\ Len(Contents(Tail(seq))) = Len(seq) - 1
      /\ \A i \in 1 .. Len(seq) - 1 : Contents(Tail(seq))[i] = RequestsIn(Tail(seq)[i])
  BY <1>1, ContentsFacts
<1>6. ASSUME NEW i \in 1 .. Len(seq) - 1
      PROVE  Contents(Tail(seq))[i] = Tail(Contents(seq))[i]
  <2>1. i + 1 \in 1 .. Len(seq)
    BY <1>1
  <2>2. Contents(seq)[i + 1] = RequestsIn(seq[i + 1])
    BY <1>2, <2>1
  <2>3. Tail(seq)[i] = seq[i + 1]
    BY <1>1
  <2>4. QED
    BY <1>4, <1>5, <2>2, <2>3
<1>7. QED
  BY <1>3, <1>4, <1>5, <1>6, SeqEqual

(* What CommandQueue sees of the channel *)
Fresh == {r \in Requests : prints[r] = 0}

Printing == IF daemon = "lock" THEN RequestsIn(text) ELSE {}

Held == main \in {"open", "write"}

LEMMA QueueIs ==
  /\ Q!vars = <<Fresh, Printing, Contents(queue), Held>>
  /\ Q!vars' = <<Fresh', Printing', Contents(queue)', Held'>>
  BY DEF Q!vars, Fresh, Printing, Contents, Held

LEMMA NextContents == Contents(queue)' = Contents(queue')
  BY DEF Contents, RequestsIn, HasText

LEMMA MapInit == Init => Q!Init
<1> SUFFICES ASSUME Init
             PROVE  Q!Init
  OBVIOUS
<1>1. Contents(queue) = <<>> /\ Fresh = Requests /\ Printing = {} /\ ~ Held
  BY EmptySeq DEF Init, Contents, Fresh, Printing, Held
<1>2. QED
  BY <1>1 DEF Q!Init, Contents, Fresh, Printing, Held

(* A step that leaves the queue and the prints alone is a stutter, unless it
   writes a command or has to do with the mutex. *)
LEMMA MapStutters ==
  ASSUME UNCHANGED <<queue, prints>>,
         UNCHANGED <<daemon, text>> \/ (daemon # "lock" /\ daemon' # "lock"),
         Held' = Held
  PROVE  UNCHANGED Q!vars
<1>1. UNCHANGED <<Fresh, Contents(queue)>>
  BY DEF Fresh, Contents
<1>2. UNCHANGED Printing
  BY DEF Printing, RequestsIn, HasText
<1>3. QED
  BY <1>1, <1>2, QueueIs

LEMMA MapEnds ==
  ASSUME NEW cause, ProcessEnds(cause)
  PROVE  Q!Lose
<1>1. Printing' = {} /\ Contents(queue)' = <<>> /\ Held' = FALSE /\ UNCHANGED Fresh
  BY EmptySeq DEF ProcessEnds, Printing, Contents, Held, Fresh
<1>2. QED
  BY <1>1 DEF Q!Lose, Printing, Contents, Held, Fresh

LEMMA MapPrintln ==
  ASSUME TInv, OInv, NotEmpty, FrontPrintln
  PROVE  Q!Next
<1>1. /\ daemon = "handler" /\ daemon' = "lock" /\ UNCHANGED <<text, queue, main>>
      /\ prints' = [r \in Requests |->
                      IF HasText(text, r) THEN prints[r] + 1 ELSE prints[r]]
      /\ text \in Seq(PieceType) /\ prints \in [Requests -> Nat]
  BY DEF FrontPrintln, DaemonStep, streamVars, TInv, TypeOK
<1>2. PICK command : command = RequestsIn(text)
  OBVIOUS
<1>3. command # {}
  BY <1>1, <1>2, RequestFound DEF NotEmpty
<1>4. \A r \in command : prints[r] = 0
  BY <1>1, <1>2 DEF OInv, Once, Reading, RequestsIn
<1>5. command \in SUBSET Fresh
  BY <1>2, <1>4 DEF Fresh, RequestsIn
<1>6. Fresh' = Fresh \ command
  <2>1. \A r \in Requests : prints'[r] = 0 <=> prints[r] = 0 /\ r \notin command
    BY <1>1, <1>2 DEF RequestsIn
  <2>2. QED
    BY <2>1 DEF Fresh
<1>7. Printing = {} /\ Printing' = command
  BY <1>1, <1>2 DEF Printing, RequestsIn, HasText
<1>8. UNCHANGED <<Contents(queue), Held>>
  BY <1>1 DEF Contents, Held
<1>9. Q!Write(command)
  BY <1>3, <1>6, <1>7, <1>8 DEF Q!Write, Fresh, Printing, Contents, Held
<1>10. QED
  BY <1>5, <1>9 DEF Q!Next, Fresh

LEMMA MapEmplace ==
  ASSUME TInv, NotEmpty, FrontEmplace
  PROVE  Q!Emplace
<1>1. /\ daemon = "lock" /\ daemon' = "parse" /\ UNCHANGED <<text, prints, main>>
      /\ ~ Held /\ queue' = Append(queue, text)
      /\ text \in Seq(PieceType) /\ queue \in Seq(Seq(PieceType))
  BY DEF FrontEmplace, DaemonStep, streamVars, Locked, Held, TInv, TypeOK
<1>2. Printing = RequestsIn(text) /\ Printing' = {} /\ Printing # {}
  BY <1>1, RequestFound DEF Printing, NotEmpty
<1>3. Contents(queue)' = Append(Contents(queue), Printing)
  BY <1>1, <1>2, ContentsAppend, NextContents
<1>4. UNCHANGED <<Fresh, Held>>
  BY <1>1 DEF Fresh, Held
<1>5. QED
  BY <1>1, <1>2, <1>3, <1>4 DEF Q!Emplace, Fresh, Printing, Contents, Held

LEMMA MapAnswer ==
  ASSUME TInv, LoopAnswer
  PROVE  Q!Pop
<1>1. /\ main = "receive" /\ main' \in {"receive", "open"}
      /\ queue # <<>> /\ queue' = Tail(queue) /\ queue \in Seq(Seq(PieceType))
      /\ UNCHANGED <<daemon, text, prints>>
  BY DEF LoopAnswer, MainStep, streamVars, TInv, TypeOK
<1>2. Contents(queue) # <<>> /\ Contents(queue)' = Tail(Contents(queue))
  BY <1>1, ContentsTail, NextContents
<1>3. UNCHANGED <<Fresh, Printing>>
  BY <1>1 DEF Fresh, Printing, RequestsIn, HasText
<1>4. ~ Held /\ Held' \in BOOLEAN
  BY <1>1 DEF Held
<1>5. QED
  BY <1>2, <1>3, <1>4 DEF Q!Pop, Fresh, Printing, Contents, Held

LEMMA MapStep ==
  TInv /\ SInv /\ OInv /\ NotEmpty /\ [Next]_vars => [Q!Next]_(Q!vars)
<1> SUFFICES ASSUME TInv, SInv, OInv, NotEmpty, [Next]_vars
             PROVE  Q!Next \/ UNCHANGED Q!vars
  OBVIOUS
<1>1. ASSUME NEW r \in Requests, Client(r)
      PROVE  UNCHANGED Q!vars
  <2>1. UNCHANGED <<queue, prints, text, main>>
    BY <1>1 DEF Client, ClientOpen, ClientWrite, ClientBreaks, ClientClose, ClientStep,
                historyVars
  <2>2. UNCHANGED daemon \/ (daemon # "lock" /\ daemon' # "lock")
    BY <1>1, ClientStream
  <2>3. QED
    BY <2>1, <2>2, MapStutters DEF Held
<1>2. CASE Reader \/ SendOpen \/ UNCHANGED vars
  <2>1. UNCHANGED <<queue, prints, text, daemon>>
    BY <1>2 DEF Reader, SendOpen, MainStep, vars, streamVars, historyVars
  <2>2. Held' = Held
    BY <1>2 DEF Reader, SendOpen, MainStep, vars, Held
  <2>3. QED
    BY <2>1, <2>2, MapStutters
<1>3. CASE \/ DaemonOpen \/ ReadType \/ SkipNewline \/ ReadText \/ ReadNewline
           \/ ReadEof \/ FrontIgnores
  <2>1. UNCHANGED <<queue, prints, main>> /\ daemon # "lock" /\ daemon' # "lock"
    BY <1>3 DEF DaemonOpen, ReadType, SkipNewline, ReadText, ReadNewline, ReadEof,
                FrontIgnores, ParseStep, DaemonStep
  <2>2. QED
    BY <2>1, MapStutters DEF Held
<1>4. CASE ParseFails \/ SendBreaks \/ Crash
  BY <1>4, MapEnds DEF ParseFails, SendBreaks, Crash, Q!Next
<1>5. CASE FrontPrintln
  BY <1>5, MapPrintln
<1>6. CASE FrontEmplace
  BY <1>6, MapEmplace DEF Q!Next
<1>7. CASE LoopAnswer
  BY <1>7, MapAnswer DEF Q!Next
<1>8. CASE SendFails \/ SendWrite
  <2>1. Held /\ Held' = FALSE /\ UNCHANGED <<queue, prints, daemon, text>>
    BY <1>8 DEF SendFails, SendWrite, MainStep, streamVars, Held
  <2>2. UNCHANGED <<Fresh, Printing, Contents(queue)>>
    BY <2>1 DEF Fresh, Printing, Contents, RequestsIn, HasText
  <2>3. Q!Release
    BY <2>1, <2>2 DEF Q!Release, Fresh, Printing, Contents, Held
  <2>4. QED
    BY <2>3 DEF Q!Next
<1>9. CASE Restart
  <2>1. /\ UNCHANGED <<queue, prints>> /\ daemon # "lock" /\ daemon' # "lock"
        /\ main = "down" /\ main' = "receive"
    BY <1>9 DEF Restart, TInv, Down, historyVars
  <2>2. QED
    BY <2>1, MapStutters DEF Held
<1>10. QED
  BY <1>1, <1>2, <1>3, <1>4, <1>5, <1>6, <1>7, <1>8, <1>9 DEF Next, Listen

(* Two threads, a mutex that one of them takes only after it has printed, and
   a FIFO without message boundaries implement one queue of commands, each of
   requests that were not written before (ImplementsQueue). *)
THEOREM ChannelKeepsQueue == Spec => ImplementsQueue
<1>1. Init => NotEmpty
  BY DEF Init, NotEmpty
<1>2. QED
  BY <1>1, NotEmptyStep, MapInit, MapStep, TInvAlways, ShapeInit, ShapeStep, OnceInit,
     OnceStep, PTL DEF Spec, ImplementsQueue, Q!Spec
=============================================================================
