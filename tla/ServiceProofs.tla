---------------------------- MODULE ServiceProofs ----------------------------
(***************************************************************************)
(* Proofs about Service, for any SMSs, storage places, PDUs and faults:    *)
(* that its steps are steps of ModemSession and of SmsRelay, that no text  *)
(* leaves more often than the network delivered it, and that no segment is *)
(* lost on its way.  What is known of the two parts comes from             *)
(* ModemSessionProofs and SmsRelayProofs.                                  *)
(***************************************************************************)
EXTENDS Service, ModemSessionProofs, FiniteSetTheorems

SP == INSTANCE SmsRelayProofs

-----------------------------------------------------------------------------
(* The steps of Service *)

(* Service and SmsRelayProofs speak of the same relay. *)
LEMMA SameAssumption == SP!SmsAssumption
<1>1. S!References = SP!References
  BY DEF S!References, SP!References
<1>2. S!PduType = SP!PduType
  BY <1>1, Zenon DEF S!PduType, SP!PduType
<1>3. S!FaultKinds = SP!FaultKinds
  BY Zenon DEF S!FaultKinds, SP!FaultKinds
<1>4. S!SmsAssumption <=> SP!SmsAssumption
  BY <1>2, <1>3, Zenon DEF S!SmsAssumption, SP!SmsAssumption
<1>5. QED
  BY <1>4, RelayAssumption

LEMMA SameInit == S!Init <=> SP!Init
  BY DEF S!Init, SP!Init, S!NoSegments, SP!NoSegments

LEMMA SameFiled ==
  ASSUME NEW p
  PROVE  /\ S!IsFiled(p) <=> SP!IsFiled(p)
         /\ S!Mismatch(p) <=> SP!Mismatch(p)
         /\ S!Filed(p) = SP!Filed(p)
         /\ S!Unparsable(p) <=> SP!Unparsable(p)
         /\ S!Arrive(p) <=> SP!Arrive(p)
<1>1. (S!IsFiled(p) <=> SP!IsFiled(p)) /\ (S!Mismatch(p) <=> SP!Mismatch(p))
  BY DEF S!IsFiled, SP!IsFiled, S!Mismatch, SP!Mismatch
<1>2. S!Filed(p) = SP!Filed(p)
  BY DEF S!Filed, SP!Filed
<1>3. (S!Unparsable(p) <=> SP!Unparsable(p)) /\ (S!Arrive(p) <=> SP!Arrive(p))
  BY DEF S!Unparsable, SP!Unparsable, S!HeaderRejected, SP!HeaderRejected, S!Arrive, SP!Arrive
<1>4. QED
  BY <1>1, <1>2, <1>3

LEMMA SameParse ==
  ASSUME NEW p
  PROVE  /\ S!RejectPdu(p) <=> SP!RejectPdu(p)
         /\ S!ParseSingle(p) <=> SP!ParseSingle(p)
         /\ S!FileSegment(p) <=> SP!FileSegment(p)
<1>1. S!RejectPdu(p) <=> SP!RejectPdu(p)
  BY SameFiled DEF S!RejectPdu, SP!RejectPdu
<1>2. S!ParseSingle(p) <=> SP!ParseSingle(p)
  BY SameFiled DEF S!ParseSingle, SP!ParseSingle
<1>3. S!FileSegment(p) <=> SP!FileSegment(p)
  BY SameFiled DEF S!FileSegment, SP!FileSegment
<1>4. QED
  BY <1>1, <1>2, <1>3

LEMMA SameSend ==
  /\ S!ConfigThrows <=> SP!ConfigThrows
  /\ \A cfg : /\ S!SkipIncomplete(cfg) <=> SP!SkipIncomplete(cfg)
              /\ S!CurlInitFails(cfg) <=> SP!CurlInitFails(cfg)
  /\ S!LogOnly <=> SP!LogOnly
  /\ S!MailSent <=> SP!MailSent
  /\ S!MailFails <=> SP!MailFails
  /\ S!Restart <=> SP!Restart
<1>1. S!HandlerReturns <=> SP!HandlerReturns
  BY DEF S!HandlerReturns, SP!HandlerReturns
<1>2. \A cfg : S!LoadConfig(cfg) <=> SP!LoadConfig(cfg)
  BY DEF S!LoadConfig, SP!LoadConfig
<1>3. /\ S!Relayable(message) <=> SP!Relayable(message)
      /\ S!Extract(message) = SP!Extract(message)
      /\ \A via : S!Outgoing(message, via) = SP!Outgoing(message, via)
  BY DEF S!Relayable, SP!Relayable, S!Extract, SP!Extract, S!Outgoing, SP!Outgoing
<1>4. S!ConfigThrows <=> SP!ConfigThrows
  BY <1>1 DEF S!ConfigThrows, SP!ConfigThrows
<1>5. \A cfg : /\ S!SkipIncomplete(cfg) <=> SP!SkipIncomplete(cfg)
               /\ S!CurlInitFails(cfg) <=> SP!CurlInitFails(cfg)
  BY <1>1, <1>2, <1>3 DEF S!SkipIncomplete, SP!SkipIncomplete, S!CurlInitFails, SP!CurlInitFails
<1>6. (S!LogOnly <=> SP!LogOnly) /\ (S!MailSent <=> SP!MailSent)
  BY <1>1, <1>2, <1>3 DEF S!LogOnly, SP!LogOnly, S!MailSent, SP!MailSent
<1>7. S!MailFails <=> SP!MailFails
  BY <1>1, <1>2, <1>3 DEF S!MailFails, SP!MailFails
<1>8. S!Restart <=> SP!Restart
  BY DEF S!Restart, SP!Restart, S!NoSegments, SP!NoSegments
<1>9. QED
  BY <1>4, <1>5, <1>6, <1>7, <1>8

(* Every step of Service is a step of the session, or none. *)
LEMMA SessionSteps == [ServiceNext]_serviceVars => [Next]_vars
<1>1. ASSUME UNCHANGED serviceVars
      PROVE  UNCHANGED vars
  BY <1>1 DEF serviceVars
<1>2. ASSUME Construct
      PROVE  UNCHANGED vars
  BY <1>2 DEF Construct
<1>3. ASSUME ServiceMain, ~ Construct
      PROVE  MainThread
  BY <1>3 DEF ServiceMain, SessionMain, HandleNothing, ConstructFails, SendReturns, SendFails,
              MainThread, SmsHandler
<1>4. ASSUME Disturbance
      PROVE  SendCommand \/ Environment
  BY <1>4 DEF Disturbance, Network, SendCommand, Environment
<1>5. ASSUME ServiceModem \/ ServiceFront \/ ServiceRestart \/ ServiceNetwork
      PROVE  Modem \/ FrontEmplace \/ FrontEnd \/ Environment
  BY <1>5 DEF ServiceModem, ServiceFront, ServiceRestart, ServiceNetwork, Network, Environment
<1>6. QED
  BY <1>1, <1>2, <1>3, <1>4, <1>5 DEF ServiceNext, Next, MainThread

LEMMA SameSize == \A set : SP!Cardinality(set) = Cardinality(set)
  BY DEF SP!Cardinality, Cardinality

(* What sms_handler works on is one message, whose PDU was read. *)
LEMMA HandledFacts ==
  ASSUME TInv
  PROVE  /\ \A m \in Handled : InSms(m) /\ m \in Slots \cup Messages \cup Requests \cup {Nothing}
         /\ \A m, n \in Handled : m = n
<1> SUFFICES ASSUME NEW m \in Handled
             PROVE  /\ InSms(m) /\ m \in Slots \cup Messages \cup Requests \cup {Nothing}
                    /\ \A n \in Handled : m = n
  OBVIOUS
<1>1. /\ smsContent # Nothing /\ Len(smsContent) = 2 /\ smsContent[2].kind = "PDU"
      /\ smsContent[2].of = m /\ \A n \in Handled : n = m
  BY DEF Handled, PduOf
<1>2. smsContent \in Seq(LineType)
  BY <1>1 DEF TInv, MainOK
<1>3. 2 \in DOMAIN smsContent /\ smsContent[2] \in LineType
  BY <1>1, <1>2, LenProperties
<1>4. smsContent[2] = PduLine(m)
  BY <1>1, <1>3, LineFacts
<1>5. QED
  BY <1>1, <1>3, <1>4 DEF InSms, Has, LineType

(* Every step of Service is a step of the relay, or none; only Construct hands
   it a PDU, that of the message sms_handler works on. *)
LEMMA RelaySteps ==
  ASSUME [ServiceNext]_serviceVars, Handled \subseteq Messages
  PROVE  \/ /\ Construct
            /\ \E m \in Handled : SP!ParseSingle(Pdu[m]) \/ SP!FileSegment(Pdu[m])
         \/ SP!SendEmail \/ SP!Restart
         \/ \E p \in Pdus : SP!RejectPdu(p)
         \/ UNCHANGED SP!vars
<1>1. CASE Construct
  BY <1>1, SameParse DEF Construct
<1>2. CASE ConstructFails
  <2>1. PICK m \in Handled : S!RejectPdu(Pdu[m])
    BY <1>2 DEF ConstructFails
  <2>2. Pdu[m] \in Pdus
    BY ServiceAssumption
  <2>3. QED
    BY <2>1, <2>2, SameParse
<1>3. CASE SendReturns \/ SendFails
  BY <1>3, SameSend DEF SendReturns, SendFails, SP!SendEmail
<1>4. CASE ServiceRestart
  BY <1>4, SameSend DEF ServiceRestart
<1>5. CASE \/ SessionMain \/ HandleNothing \/ ServiceModem \/ ServiceFront
           \/ ServiceNetwork \/ Disturbance \/ UNCHANGED serviceVars
  BY <1>5 DEF SessionMain, HandleNothing, ServiceModem, ServiceFront, ServiceNetwork,
              Disturbance, serviceVars, relayVars, SP!vars
<1>6. QED
  BY <1>1, <1>2, <1>3, <1>4, <1>5 DEF ServiceNext, ServiceMain

-----------------------------------------------------------------------------
(* What the session says of one SMS *)

(* Its PDU has left the SIM card and has not reached the end of sms_handler. *)
OnWay(m) ==
  Has(out, PduLine(m)) \/ Has(rx, PduLine(m)) \/ Has(oss, PduLine(m)) \/ InSms(m)

(* A PDU on its way was read out, what was read out was delivered before, and
   a place that will be read holds an SMS that was not. *)
ReadInv ==
  /\ \A x \in Slots \cup Messages \cup Requests \cup {Nothing} : OnWay(x) => x \in readOut
  /\ \A m \in readOut : m \notin unsent
  /\ \A m \in Messages, s \in Slots : sim[s] = m /\ ReadAhead(s) => m \notin readOut

(* Only the modem's answer brings a PDU on its way. *)
LEMMA WayShrinks ==
  ASSUME TInv, [Next]_vars, ~ Execute, NEW x
  PROVE  UNCHANGED readOut /\ (OnWay(x)' => OnWay(x))
<1>1. ASSUME Has(out', PduLine(x)) => Has(out, PduLine(x)),
             Has(rx', PduLine(x)) => Has(rx, PduLine(x)) \/ Has(out, PduLine(x)),
             Has(oss', PduLine(x)) => Has(oss, PduLine(x)) \/ Has(rx, PduLine(x)),
             smsContent' \in {smsContent, Nothing, oss}
      PROVE  OnWay(x)' => OnWay(x)
  <2>1. InSms(x)' => InSms(x) \/ Has(oss, PduLine(x))
    BY <1>1 DEF InSms
  <2>2. QED
    BY <1>1, <2>1 DEF OnWay
<1>2. CASE ReadLine
  <2>1. /\ rx # <<>> /\ rx' = Tail(rx) /\ rx \in Seq(Readable)
        /\ oss' = Append(oss, Head(rx)) /\ oss \in Seq(LineType) /\ Head(rx) \in LineType
        /\ UNCHANGED <<out, smsContent, readOut>>
    BY <1>2, RxTail DEF ReadLine, TInv, MainOK, LinesOK, worldVars
  <2>2. /\ Has(rx, PduLine(x)) <=> Has(rx', PduLine(x)) \/ Head(rx) = PduLine(x)
        /\ Has(oss', PduLine(x)) <=> Has(oss, PduLine(x)) \/ Head(rx) = PduLine(x)
    BY <2>1, HasTail, HasAppend
  <2>3. QED
    BY <1>1, <2>1, <2>2
<1>3. CASE ReadOk \/ GiveUp
  <2>1. /\ UNCHANGED <<out, readOut>>
        /\ oss' = <<>> /\ ~ Has(oss', PduLine(x))
        /\ smsContent' \in {oss, Nothing, smsContent}
    BY <1>3, HasNone DEF ReadOk, GiveUp, Return, worldVars
  <2>2. Has(rx', PduLine(x)) => Has(rx, PduLine(x))
    BY <1>3, HasTail DEF ReadOk, GiveUp, TInv, LinesOK
  <2>3. QED
    BY <1>1, <2>1, <2>2
<1>4. CASE WriteLine
  <2>1. /\ out # <<>> /\ out' = Tail(out) /\ out \in Seq(Writable)
        /\ rx' = Append(rx, Head(out)) /\ rx \in Seq(Readable) /\ Head(out) \in Readable
        /\ UNCHANGED <<oss, smsContent, readOut>>
    BY <1>4, TailFacts DEF WriteLine, TInv, LinesOK, Writable, Readable, mainVars, worldVars
  <2>2. /\ Has(out, PduLine(x)) <=> Has(out', PduLine(x)) \/ Head(out) = PduLine(x)
        /\ Has(rx', PduLine(x)) <=> Has(rx, PduLine(x)) \/ Head(out) = PduLine(x)
    BY <2>1, HasTail, HasAppend
  <2>3. QED
    BY <1>1, <2>1, <2>2
<1>5. ASSUME NEW n \in Messages, NEW t \in Slots, DeliverSms(n, t)
      PROVE  UNCHANGED readOut /\ (OnWay(x)' => OnWay(x))
  <2>1. /\ rx' = Append(rx, Cmti(t)) /\ rx \in Seq(Readable) /\ Cmti(t) \in Readable
        /\ UNCHANGED <<out, oss, smsContent, readOut>>
    BY <1>5, DeliverLine DEF DeliverSms, TInv, LinesOK, mainVars
  <2>2. Has(rx', PduLine(x)) <=> Has(rx, PduLine(x))
    BY <2>1, HasAppend, LineFacts
  <2>3. QED
    BY <1>1, <2>1, <2>2
<1>6. CASE IncomingCall
  <2>1. /\ rx' = Append(Append(rx, Line("RING", Nothing)), Line("+CLIP", Nothing))
        /\ rx \in Seq(Readable)
        /\ UNCHANGED <<out, oss, smsContent, readOut>>
    BY <1>6, CallLines, AppendTwo DEF IncomingCall, TInv, LinesOK, mainVars
  <2>2. Has(rx', PduLine(x)) <=> Has(rx, PduLine(x))
    BY <2>1, CallLines, HasAppendTwo
  <2>3. QED
    BY <1>1, <2>1, <2>2
<1>7. CASE Loop
  <2>1. rx # <<>> /\ rx' = Tail(rx) /\ UNCHANGED <<out, oss, smsContent, readOut>>
    BY <1>7 DEF Loop, LoopCmti, LoopOtherStore, LoopRing, LoopUnparsable, LoopVerifyFails,
                LoopAnswer, TakeLine, worldVars
  <2>2. Has(rx', PduLine(x)) => Has(rx, PduLine(x))
    BY <2>1, HasTail DEF TInv, LinesOK
  <2>3. QED
    BY <1>1, <2>1, <2>2
<1>8. CASE \/ Flush \/ Println \/ RelaySms \/ DropSms \/ SendPrompt \/ PromptFails
           \/ FrontEmplace \/ Restart \/ ModemReset \/ UNCHANGED vars
           \/ \E request \in Requests : FrontPrintln(request)
  <2>1. UNCHANGED readOut
    BY <1>8 DEF Flush, Println, RelaySms, DropSms, SendPrompt, PromptFails, FrontEmplace,
                Restart, ModemReset, FrontPrintln, vars, worldVars
  <2>2. /\ out' \in {out, <<>>} /\ rx' \in {rx, <<>>} /\ oss' \in {oss, <<>>}
        /\ smsContent' \in {smsContent, Nothing}
    BY <1>8 DEF Flush, Println, RelaySms, DropSms, HandlerReturns, SendPrompt, PromptFails,
                FrontEmplace, Restart, ModemReset, FrontPrintln, vars, mainVars, lineVars
  <2>3. QED
    BY <1>1, <2>1, <2>2, HasNone
<1>9. QED
  BY <1>2, <1>3, <1>4, <1>5, <1>6, <1>7, <1>8
     DEF Next, MainThread, FrontEnd, SendCommand, SmsHandler, Modem, Environment

(* The modem reads a place out, and will not read it again. *)
LEMMA ReadOnce ==
  ASSUME TInv, TurnInv, CopyInv, Execute
  PROVE  \/ /\ UNCHANGED readOut
            /\ \A x : OnWay(x)' => OnWay(x)
         \/ \E t \in Slots :
              /\ sim[t] \in Messages /\ ReadAhead(t) /\ ~ ReadAhead(t)'
              /\ readOut' = readOut \cup {sim[t]}
              /\ \A x : OnWay(x)' => OnWay(x) \/ x = sim[t]
<1>1. /\ tx # <<>> /\ tx' = Tail(tx) /\ tx \in Seq(Sendable) /\ out = <<>>
      /\ out' = Response(Head(tx))
      /\ UNCHANGED <<rx, oss, smsContent, phase, script>>
  BY DEF Execute, TInv, LinesOK, mainVars
<1>2. /\ \A m \in Messages :
           Has(out', PduLine(m)) <=> Head(tx).op = "CMGR" /\ sim[Head(tx).arg] = m
      /\ \A x : x \notin Messages => ~ Has(out', PduLine(x))
  BY <1>1, ResponseFacts
<1>3. \A x : (InSms(x)' <=> InSms(x)) /\ ~ Has(out, PduLine(x))
  BY <1>1, HasNone DEF InSms
<1>4. ASSUME NEW x, OnWay(x)', ~ Has(out', PduLine(x))
      PROVE  OnWay(x)
  BY <1>1, <1>3, <1>4 DEF OnWay
<1>5. CASE Head(tx).op = "CMGR" /\ sim[Head(tx).arg] # Nothing
  <2>1. PICK t \in Slots : Head(tx) = Cmgr(t) /\ t = Head(tx).arg
    BY <1>1, <1>5, TxTail, CommandFacts DEF TInv
  <2>2. sim[t] \in Messages
    BY <1>5, <2>1 DEF TInv, WorldOK
  <2>3. Has(tx, Cmgr(t)) /\ ~ Has(tx', Cmgr(t)) /\ OneTurn(t)
    BY <1>1, <2>1, HasTail DEF TurnInv, OneTurn
  <2>4. ReadAhead(t) /\ ~ ReadAhead(t)'
    <3>1. ~ Has(rx, Cmti(t)) /\ ~ ToRead(t)
      BY <2>3 DEF OneTurn
    <3>2. ~ Has(rx', Cmti(t)) /\ ~ ToRead(t)'
      BY <1>1, <3>1 DEF ToRead
    <3>3. QED
      BY <2>3, <3>2 DEF ReadAhead
  <2>5. readOut' = readOut \cup {sim[t]}
    BY <1>5, <2>1 DEF Execute
  <2>6. \A x : OnWay(x)' => OnWay(x) \/ x = sim[t]
    BY <1>2, <1>4, <2>1
  <2>7. QED
    BY <2>2, <2>4, <2>5, <2>6
<1>6. CASE ~ (Head(tx).op = "CMGR" /\ sim[Head(tx).arg] # Nothing)
  <2>1. UNCHANGED readOut
    BY <1>6 DEF Execute
  <2>2. \A m \in Messages : ~ Has(out', PduLine(m))
    BY <1>2, <1>6, SessionAssumption
  <2>3. QED
    BY <1>2, <1>4, <2>1, <2>2
<1>7. QED
  BY <1>5, <1>6

LEMMA ReadInvInit == Init => ReadInv
<1> SUFFICES ASSUME Init PROVE ReadInv
  OBVIOUS
<1>1. /\ out = <<>> /\ rx = <<>> /\ oss = <<>> /\ smsContent = Nothing /\ readOut = {}
  BY DEF Init
<1>2. \A x : ~ OnWay(x)
  BY <1>1, HasNone DEF OnWay, InSms
<1>3. QED
  BY <1>1, <1>2 DEF ReadInv

LEMMA ReadInvStep == TInv /\ TurnInv /\ CopyInv /\ ReadInv /\ [Next]_vars => ReadInv'
<1> SUFFICES ASSUME TInv, TurnInv, CopyInv, ReadInv, [Next]_vars
             PROVE  ReadInv'
  OBVIOUS
<1>0. readOut \subseteq Messages /\ sim \in [Slots -> Messages \cup {Nothing}]
      /\ unsent \subseteq Messages
  BY DEF TInv, WorldOK
<1>1. CASE Execute
  <2>1. UNCHANGED unsent /\ \A s \in Slots, m \in Messages : sim'[s] = m => sim[s] = m
    BY <1>0, <1>1, SessionAssumption DEF Execute
  <2>2. \A s \in Slots : ReadAhead(s)' => ReadAhead(s)
    <3>1. ASSUME NEW s \in Slots
          PROVE  ~ \E m \in Messages : DeliverSms(m, s)
      BY <1>0, <1>1 DEF Execute, DeliverSms
    <3>2. QED
      BY <3>1, AheadStep
  <2>3. CASE UNCHANGED readOut /\ \A x : OnWay(x)' => OnWay(x)
    BY <1>0, <2>1, <2>2, <2>3 DEF ReadInv
  <2>4. CASE \E t \in Slots :
              /\ sim[t] \in Messages /\ ReadAhead(t) /\ ~ ReadAhead(t)'
              /\ readOut' = readOut \cup {sim[t]}
              /\ \A x : OnWay(x)' => OnWay(x) \/ x = sim[t]
    <3>1. PICK t \in Slots :
              /\ sim[t] \in Messages /\ ReadAhead(t) /\ ~ ReadAhead(t)'
              /\ readOut' = readOut \cup {sim[t]}
              /\ \A x : OnWay(x)' => OnWay(x) \/ x = sim[t]
      BY <2>4
    <3>2. \A x \in Slots \cup Messages \cup Requests \cup {Nothing} : OnWay(x)' => x \in readOut'
      BY <3>1 DEF ReadInv
    <3>3. sim[t] \notin unsent
      <4>1. Stored(sim[t])
        BY DEF Stored
      <4>2. QED
        BY <3>1, <4>1 DEF CopyInv, OneCopy
    <3>4. ASSUME NEW m \in Messages, NEW s \in Slots, sim'[s] = m, ReadAhead(s)'
          PROVE  m \notin readOut'
      <4>1. sim[s] = m /\ ReadAhead(s) /\ s # t
        BY <2>1, <2>2, <3>1, <3>4
      <4>2. m # sim[t]
        BY <4>1 DEF CopyInv, OneCopy
      <4>3. QED
        BY <3>1, <4>1, <4>2 DEF ReadInv
    <3>5. QED
      BY <2>1, <3>1, <3>2, <3>3, <3>4 DEF ReadInv
  <2>5. QED
    BY <1>1, <2>3, <2>4, ReadOnce
<1>2. CASE ~ Execute
  <2>1. UNCHANGED readOut /\ \A x : OnWay(x)' => OnWay(x)
    BY <1>2, WayShrinks
  <2>2. unsent' \subseteq unsent
    BY DEF Next, MainThread, FrontEnd, SendCommand, Flush, Println, ReadLine, ReadOk, GiveUp, Return,
           SmsHandler, RelaySms, DropSms, Loop, LoopCmti, LoopOtherStore, LoopRing,
           LoopUnparsable, LoopVerifyFails, LoopAnswer, TakeLine, SendPrompt, PromptFails,
           FrontEmplace, Modem, Execute, WriteLine, Environment, DeliverSms, IncomingCall,
           FrontPrintln, Restart, ModemReset, vars, worldVars
  <2>3. ASSUME NEW m \in Messages, NEW s \in Slots, sim'[s] = m, ReadAhead(s)'
        PROVE  m \notin readOut'
    <3>1. CASE \E n \in Messages : DeliverSms(n, s)
      <4>1. PICK n \in Messages : DeliverSms(n, s)
        BY <3>1
      <4>2. n = m /\ m \in unsent
        BY <1>0, <2>3, <4>1 DEF DeliverSms
      <4>3. QED
        BY <2>1, <4>2 DEF ReadInv
    <3>2. CASE ~ \E n \in Messages : DeliverSms(n, s)
      <4>1. ReadAhead(s)
        BY <2>3, <3>2, AheadStep
      <4>2. sim[s] = m
        <5>1. CASE \E n \in Messages, t \in Slots : DeliverSms(n, t)
          BY <1>0, <2>3, <3>2, <5>1 DEF DeliverSms
        <5>2. CASE ~ \E n \in Messages, t \in Slots : DeliverSms(n, t)
          <6>1. UNCHANGED sim
            BY <1>2, <5>2
               DEF Next, MainThread, FrontEnd, SendCommand, Flush, Println, ReadLine, ReadOk, GiveUp,
                   Return, SmsHandler, RelaySms, DropSms, Loop, LoopCmti, LoopOtherStore,
                   LoopRing, LoopUnparsable, LoopVerifyFails, LoopAnswer, TakeLine,
                   SendPrompt, PromptFails, FrontEmplace, Modem, WriteLine, Environment,
                   IncomingCall, FrontPrintln, Restart, ModemReset, vars, worldVars
          <6>2. QED
            BY <2>3, <6>1
        <5>3. QED
          BY <5>1, <5>2
      <4>3. QED
        BY <2>1, <4>1, <4>2 DEF ReadInv
    <3>3. QED
      BY <3>1, <3>2
  <2>4. QED
    BY <2>1, <2>2, <2>3 DEF ReadInv
<1>3. QED
  BY <1>1, <1>2

(* What is read out and no longer on its way never comes again. *)
Over(m) == m \in readOut /\ ~ OnWay(m)

LEMMA OverStays ==
  ASSUME TInv, TurnInv, CopyInv, ReadInv, [Next]_vars, NEW m \in Messages, Over(m)
  PROVE  Over(m)'
<1>1. CASE Execute
  <2>1. CASE UNCHANGED readOut /\ \A x : OnWay(x)' => OnWay(x)
    BY <2>1 DEF Over
  <2>2. CASE \E t \in Slots :
              /\ sim[t] \in Messages /\ ReadAhead(t) /\ ~ ReadAhead(t)'
              /\ readOut' = readOut \cup {sim[t]}
              /\ \A x : OnWay(x)' => OnWay(x) \/ x = sim[t]
    BY <2>2 DEF Over, ReadInv
  <2>3. QED
    BY <1>1, <2>1, <2>2, ReadOnce
<1>2. CASE ~ Execute
  BY <1>2, WayShrinks DEF Over
<1>3. QED
  BY <1>1, <1>2

(* The SMS object is alive only while sms_handler runs, and has a PDU. *)
MessageInv == message # NoMessage => phase = "handle" /\ Handled # {}

(* As long as it is, the main thread is nowhere else. *)
LEMMA AliveStep ==
  ASSUME MessageInv, message # NoMessage, [ServiceNext]_serviceVars
  PROVE  \/ SendReturns \/ SendFails \/ ServiceRestart
         \/ UNCHANGED <<phase, smsContent, relayVars>> /\ ~ Construct /\ ~ ConstructFails
<1>1. phase = "handle" /\ Handled # {}
  BY DEF MessageInv
<1>2. ~ SessionMain /\ ~ HandleNothing /\ ~ FrontEnd /\ ~ GiveUp
  BY <1>1 DEF SessionMain, HandleNothing, SendCommand, Flush, Println, ReadLine, ReadOk, GiveUp,
              Loop, LoopCmti, LoopOtherStore, LoopRing, LoopUnparsable, LoopVerifyFails,
              LoopAnswer, TakeLine, FrontEnd, SendPrompt, PromptFails
<1>3. ~ Construct /\ ~ ConstructFails
  BY DEF Construct, ConstructFails, S!ParseSingle, S!FileSegment, S!RejectPdu, S!Arrive
<1>4. CASE ServiceModem \/ ServiceFront \/ UNCHANGED serviceVars
  BY <1>2, <1>3, <1>4
     DEF ServiceModem, Modem, Execute, WriteLine, ServiceFront, FrontEmplace, serviceVars, vars,
         mainVars
<1>5. CASE ServiceNetwork \/ Disturbance
  BY <1>2, <1>3, <1>5
     DEF ServiceNetwork, Disturbance, Network, DeliverSms, IncomingCall, FrontPrintln,
         ModemReset, mainVars
<1>6. QED
  BY <1>2, <1>3, <1>4, <1>5 DEF ServiceNext, ServiceMain

(* Only the constructor makes the object. *)
LEMMA NotAliveStep ==
  ASSUME message = NoMessage, [ServiceNext]_serviceVars, ~ Construct
  PROVE  message' = NoMessage
<1>1. CASE \/ SessionMain \/ HandleNothing \/ ServiceModem \/ ServiceFront
           \/ ServiceNetwork \/ Disturbance \/ UNCHANGED serviceVars
  BY <1>1 DEF SessionMain, HandleNothing, ServiceModem, ServiceFront, ServiceNetwork,
              Disturbance, serviceVars, relayVars
<1>2. CASE ConstructFails
  BY <1>2 DEF ConstructFails, S!RejectPdu
<1>3. CASE SendReturns \/ SendFails \/ ServiceRestart
  BY <1>3 DEF SendReturns, SendFails, ServiceRestart, S!SkipIncomplete, S!LogOnly, S!MailSent,
              S!CurlInitFails, S!ConfigThrows, S!MailFails, S!HandlerReturns, S!Restart
<1>4. QED
  BY <1>1, <1>2, <1>3 DEF ServiceNext, ServiceMain

LEMMA MessageStep == MessageInv /\ [ServiceNext]_serviceVars => MessageInv'
<1> SUFFICES ASSUME MessageInv, [ServiceNext]_serviceVars, message' # NoMessage
             PROVE  phase' = "handle" /\ Handled' # {}
  BY DEF MessageInv
<1>1. CASE Construct
  BY <1>1 DEF Construct, vars, mainVars, Handled
<1>2. CASE ~ Construct
  <2>1. message # NoMessage
    BY <1>2, NotAliveStep
  <2>2. ~ SendReturns /\ ~ SendFails /\ ~ ServiceRestart
    BY DEF SendReturns, SendFails, ServiceRestart, S!SkipIncomplete, S!LogOnly, S!MailSent,
           S!CurlInitFails, S!ConfigThrows, S!MailFails, S!HandlerReturns, S!Restart
  <2>3. UNCHANGED <<phase, smsContent>>
    BY <2>1, <2>2, AliveStep
  <2>4. QED
    BY <2>1, <2>3 DEF MessageInv, Handled
<1>3. QED
  BY <1>1, <1>2

(* What the two parts and their meeting keep at every step *)
FinInv == IsFiniteSet(Messages \ unsent)

BothInv ==
  /\ TInv /\ TurnInv /\ CopyInv /\ ReadInv /\ SP!TypeOK /\ MessageInv /\ FinInv
  /\ disturbances \in Nat

LEMMA FinStep == FinInv /\ [Next]_vars => FinInv'
<1> SUFFICES ASSUME FinInv, [Next]_vars
             PROVE  FinInv'
  OBVIOUS
<1>1. ASSUME NEW m \in Messages, unsent' = unsent \ {m}
      PROVE  FinInv'
  <2>1. Messages \ unsent' = (Messages \ unsent) \cup {m}
    BY <1>1
  <2>2. QED
    BY <2>1, FS_AddElement DEF FinInv
<1>2. CASE \E m \in Messages, s \in Slots : DeliverSms(m, s)
  BY <1>1, <1>2 DEF DeliverSms
<1>3. CASE ~ \E m \in Messages, s \in Slots : DeliverSms(m, s)
  <2>1. UNCHANGED unsent
    BY <1>3
       DEF Next, MainThread, FrontEnd, SendCommand, Flush, Println, ReadLine, ReadOk, GiveUp, Return,
           SmsHandler, RelaySms, DropSms, Loop, LoopCmti, LoopOtherStore, LoopRing,
           LoopUnparsable, LoopVerifyFails, LoopAnswer, TakeLine, SendPrompt, PromptFails,
           FrontEmplace, Modem, Execute, WriteLine, Environment, IncomingCall,
           FrontPrintln, Restart, ModemReset, vars, worldVars
  <2>2. QED
    BY <2>1 DEF FinInv
<1>4. QED
  BY <1>2, <1>3

(* sms_handler works on a delivered message. *)
LEMMA HandledIs ==
  ASSUME TInv, ReadInv
  PROVE  /\ Handled \subseteq Messages
         /\ \A m \in Handled : InSms(m) /\ m \in readOut
         /\ \A m, n \in Handled : m = n
<1>1. \A m \in Handled : InSms(m) /\ m \in Slots \cup Messages \cup Requests \cup {Nothing}
  BY HandledFacts
<1>2. \A m \in Handled : m \in readOut
  BY <1>1 DEF ReadInv, OnWay
<1>3. readOut \subseteq Messages
  BY DEF TInv, WorldOK
<1>4. QED
  BY <1>1, <1>2, <1>3, HandledFacts

LEMMA RelayType ==
  ASSUME SP!TypeOK, [ServiceNext]_serviceVars, Handled \subseteq Messages
  PROVE  SP!TypeOK'
<1>1. \A m \in Handled : Pdu[m] \in Pdus
  BY ServiceAssumption
<1>2. [SP!Next]_(SP!vars)
  BY <1>1, RelaySteps DEF SP!Next, SP!ParsePdu
<1>3. SP!SmsAssumption => (SP!TypeOK /\ [SP!Next]_(SP!vars) => SP!TypeOK')
  BY SP!TypeStep
<1>4. QED
  BY <1>2, <1>3, SameAssumption

LEMMA BothInit == ServiceInit => BothInv
<1> SUFFICES ASSUME ServiceInit PROVE BothInv
  OBVIOUS
<1>1. Init /\ SP!Init
  BY SameInit DEF ServiceInit
<1>2. SP!SmsAssumption => (SP!Init => SP!TypeOK)
  BY SP!TypeInit
<1>3. SP!TypeOK
  BY <1>1, <1>2, SameAssumption
<1>4. MessageInv
  BY <1>1 DEF SP!Init, MessageInv
<1>5. FinInv
  <2>1. Messages \ unsent = {}
    BY <1>1 DEF Init
  <2>2. QED
    BY <2>1, FS_EmptySet DEF FinInv
<1>6. disturbances = 0
  BY DEF ServiceInit
<1>7. QED
  BY <1>1, <1>3, <1>4, <1>5, <1>6, TInvInit, TurnInit, CopyInit, ReadInvInit DEF BothInv

LEMMA BothStep == BothInv /\ [ServiceNext]_serviceVars => BothInv'
<1> SUFFICES ASSUME BothInv, [ServiceNext]_serviceVars
             PROVE  BothInv'
  OBVIOUS
<1>1. TInv /\ TurnInv /\ CopyInv /\ ReadInv /\ SP!TypeOK /\ MessageInv /\ FinInv
  BY DEF BothInv
<1>2. [Next]_vars
  BY SessionSteps
<1>3. TInv' /\ TurnInv' /\ CopyInv' /\ ReadInv' /\ FinInv'
  BY <1>1, <1>2, TInvStep, TurnStep, CopyStep, ReadInvStep, FinStep
<1>4. SP!TypeOK'
  BY <1>1, HandledIs, RelayType
<1>5. MessageInv'
  BY <1>1, MessageStep
<1>6. disturbances' \in Nat
  BY DEF BothInv, ServiceNext, ServiceMain, SessionMain, HandleNothing, Construct,
         ConstructFails, SendReturns, SendFails, ServiceModem, ServiceFront, ServiceRestart,
         ServiceNetwork, Disturbance, serviceVars
<1>7. QED
  BY <1>3, <1>4, <1>5, <1>6 DEF BothInv

-----------------------------------------------------------------------------
(* No text leaves more often than it was delivered. *)

(* The message can give rise to no further copy of its text: it was read out
   and is on its way no longer, or the constructor has taken its PDU. *)
Spent(m) == Over(m) \/ (InSms(m) /\ message # NoMessage)

SpentOn(b) == {m \in Messages : Spent(m) /\ Pdu[m].body = b}

(* Each copy in the outbox, the map or the SMS object has a message of its
   own that was spent on it. *)
CountInv ==
  \A b \in Bodies \ {NoText} : SP!Copies(b) <= Cardinality(SpentOn(b))

LEMMA SpentStays ==
  ASSUME BothInv, [ServiceNext]_serviceVars, NEW m \in Messages, Spent(m)
  PROVE  Spent(m)'
<1>0. TInv /\ TurnInv /\ CopyInv /\ ReadInv /\ MessageInv /\ [Next]_vars
  BY SessionSteps DEF BothInv
<1>1. CASE Over(m)
  BY <1>0, <1>1, OverStays DEF Spent
<1>2. CASE InSms(m) /\ message # NoMessage
  <2>1. /\ phase = "handle" /\ m \in readOut
        /\ ~ Has(out, PduLine(m)) /\ ~ Has(rx, PduLine(m)) /\ ~ Has(oss, PduLine(m))
    BY <1>0, <1>2 DEF MessageInv, CopyInv, OneCopy, ReadInv, OnWay
  <2>2. CASE SendReturns \/ SendFails
    <3>1. /\ UNCHANGED <<out, rx, oss>> /\ smsContent' = Nothing /\ UNCHANGED readOut
      BY <2>2 DEF SendReturns, SendFails, RelaySms, DropSms, HandlerReturns, lineVars,
                  worldVars
    <3>2. QED
      BY <2>1, <3>1 DEF Spent, Over, OnWay, InSms
  <2>3. CASE ServiceRestart
    <3>1. /\ UNCHANGED <<out, readOut>> /\ rx' = <<>> /\ oss' = <<>> /\ smsContent' = Nothing
      BY <2>3 DEF ServiceRestart, Restart
    <3>2. QED
      BY <2>1, <3>1, HasNone DEF Spent, Over, OnWay, InSms
  <2>4. CASE UNCHANGED <<smsContent, relayVars>>
    BY <1>2, <2>4 DEF Spent, InSms, relayVars
  <2>5. QED
    BY <1>0, <1>2, <2>2, <2>3, <2>4, AliveStep
<1>3. QED
  BY <1>1, <1>2 DEF Spent

(* The constructor spends the message it is called with, which was not spent
   before. *)
LEMMA ConstructSpends ==
  ASSUME BothInv, Construct, NEW m \in Handled, S!ParseSingle(Pdu[m]) \/ S!FileSegment(Pdu[m])
  PROVE  m \in Messages /\ ~ Spent(m) /\ Spent(m)'
<1>1. m \in Messages /\ InSms(m)
  BY HandledIs DEF BothInv
<1>2. message = NoMessage
  BY DEF S!ParseSingle, S!FileSegment, S!Arrive
<1>3. ~ Spent(m)
  BY <1>1, <1>2 DEF Spent, Over, OnWay
<1>4. InSms(m)'
  BY <1>1 DEF Construct, vars, mainVars, InSms
<1>5. message' # NoMessage
  <2>1. Pdu[m] \in Pdus
    BY <1>1, ServiceAssumption
  <2>2. Pdu[m].ref \in S!References /\ Pdu[m].body \in Bodies
    BY <2>1, RelayAssumption DEF S!SmsAssumption, S!PduType
  <2>3. 0 \in S!References
    BY DEF S!References
  <2>4. CASE S!ParseSingle(Pdu[m])
    <3>1. PICK flag \in BOOLEAN :
            message' = [isSegment |-> flag, reference |-> 0, content |-> Pdu[m].body]
      BY <2>4 DEF S!ParseSingle
    <3>2. QED
      BY <2>2, <2>3, <3>1, RelayAssumption DEF S!MessageType
  <2>5. CASE S!FileSegment(Pdu[m])
    <3>1. message' = [isSegment |-> TRUE, reference |-> Pdu[m].ref, content |-> Pdu[m].body]
      BY <2>5 DEF S!FileSegment
    <3>2. message' \in S!MessageType
      <4> DEFINE ref == Pdu[m].ref
                 body == Pdu[m].body
      <4>1. message' = [isSegment |-> TRUE, reference |-> ref, content |-> body]
        BY <3>1
      <4>2. ref \in S!References /\ body \in Bodies
        BY <2>2
      <4> HIDE DEF ref, body
      <4>3. QED
        BY <4>1, <4>2 DEF S!MessageType
    <3>3. QED
      BY <3>2, RelayAssumption
  <2>6. QED
    BY <2>4, <2>5
<1>6. QED
  BY <1>1, <1>3, <1>4, <1>5 DEF Spent

(* There are finitely many spent messages, for they were delivered. *)
LEMMA SpentFinite ==
  ASSUME BothInv, NEW b
  PROVE  /\ SpentOn(b) \subseteq {m \in Messages : Received(m) /\ Pdu[m].body = b}
         /\ IsFiniteSet({m \in Messages : Received(m) /\ Pdu[m].body = b})
         /\ IsFiniteSet(SpentOn(b)) /\ Cardinality(SpentOn(b)) \in Nat
<1> DEFINE received == {m \in Messages : Received(m) /\ Pdu[m].body = b}
<1>1. \A m \in Messages : Spent(m) => m \in readOut
  BY DEF BothInv, ReadInv, Spent, Over, OnWay
<1>2. \A m \in Messages : Spent(m) => Received(m)
  BY <1>1 DEF BothInv, ReadInv, Received
<1>3. SpentOn(b) \subseteq received
  BY <1>2 DEF SpentOn
<1>4. IsFiniteSet(received)
  <2>1. received \subseteq Messages \ unsent
    BY DEF Received
  <2>2. QED
    BY <2>1, FS_Subset DEF BothInv, FinInv
<1>5. IsFiniteSet(SpentOn(b))
  BY <1>3, <1>4, FS_Subset
<1>6. QED
  BY <1>3, <1>4, <1>5, FS_CardinalityType

LEMMA CountStep == BothInv /\ CountInv /\ [ServiceNext]_serviceVars => CountInv'
<1> SUFFICES ASSUME BothInv, CountInv, [ServiceNext]_serviceVars, NEW b \in Bodies \ {NoText}
             PROVE  SP!Copies(b)' <= Cardinality(SpentOn(b)')
  BY DEF CountInv
<1>1. /\ IsFiniteSet(SpentOn(b)) /\ Cardinality(SpentOn(b)) \in Nat
      /\ IsFiniteSet(SpentOn(b)') /\ Cardinality(SpentOn(b)') \in Nat
  <2>1. ReadInv' /\ FinInv'
    BY BothStep DEF BothInv
  <2>2. \A m \in Messages : Spent(m)' => m \in readOut'
    BY <2>1 DEF ReadInv, Spent, Over, OnWay
  <2>3. SpentOn(b)' \subseteq Messages \ unsent'
    BY <2>1, <2>2 DEF ReadInv, SpentOn
  <2>4. IsFiniteSet(SpentOn(b)')
    BY <2>1, <2>3, FS_Subset DEF FinInv
  <2>5. QED
    BY <2>4, SpentFinite, FS_CardinalityType
<1>2. SpentOn(b) \subseteq SpentOn(b)'
  BY SpentStays DEF SpentOn
<1>3. Cardinality(SpentOn(b)) <= Cardinality(SpentOn(b)')
  BY <1>1, <1>2, FS_Subset
<1>4. SP!SmsAssumption /\ SP!TypeOK => SP!Copies(b) \in Nat
  BY SP!CopiesFinite
<1>5. SP!Copies(b) \in Nat /\ SP!Copies(b) <= Cardinality(SpentOn(b))
  BY <1>4, SameAssumption DEF BothInv, CountInv
<1>6. CASE SP!SendEmail \/ SP!Restart \/ (\E p \in Pdus : SP!RejectPdu(p)) \/ UNCHANGED SP!vars
  <2>1. SP!Copies(b)' <= SP!Copies(b) /\ SP!Copies(b)' \in Nat
    BY <1>6, SameAssumption, SP!CopiesKept DEF BothInv
  <2>2. QED
    BY <1>1, <1>3, <1>5, <2>1
<1>7. ASSUME Construct, NEW m \in Handled, SP!ParseSingle(Pdu[m]) \/ SP!FileSegment(Pdu[m])
      PROVE  SP!Copies(b)' <= Cardinality(SpentOn(b)')
  <2>1. m \in Messages /\ ~ Spent(m) /\ Spent(m)'
    BY <1>7, SameParse, ConstructSpends
  <2> DEFINE p == Pdu[m]
  <2>2. p \in Pdus
    BY <2>1, ServiceAssumption
  <2>3. /\ SP!Copies(b)' <= SP!Copies(b) + 1 /\ SP!Copies(b)' \in Nat
        /\ b # p.body => SP!Copies(b)' <= SP!Copies(b)
    BY <1>7, <2>2, SameAssumption, SP!CopiesAccepted DEF BothInv
  <2>4. CASE b # p.body
    BY <1>1, <1>3, <1>5, <2>3, <2>4
  <2>5. CASE b = p.body
    <3>1. SpentOn(b) \cup {m} \subseteq SpentOn(b)' /\ m \notin SpentOn(b)
      BY <1>2, <2>1, <2>5 DEF SpentOn
    <3>2. /\ IsFiniteSet(SpentOn(b) \cup {m})
          /\ Cardinality(SpentOn(b) \cup {m}) = Cardinality(SpentOn(b)) + 1
      BY <1>1, <3>1, FS_AddElement
    <3>3. Cardinality(SpentOn(b) \cup {m}) <= Cardinality(SpentOn(b)')
      BY <1>1, <3>1, FS_Subset
    <3>4. QED
      BY <1>1, <1>5, <2>3, <3>2, <3>3
  <2>6. QED
    BY <2>4, <2>5
<1>8. QED
  BY <1>6, <1>7, HandledIs, RelaySteps DEF BothInv

LEMMA CountInit == ServiceInit => CountInv
<1> SUFFICES ASSUME ServiceInit, NEW b \in Bodies \ {NoText}
             PROVE  SP!Copies(b) <= Cardinality(SpentOn(b))
  BY DEF CountInv
<1>1. SP!SentIn(b) = {} /\ SP!HeldIn(b) = {} /\ ~ SP!Alive(b)
  BY SameInit DEF ServiceInit, SP!Init, SP!SentIn, SP!HeldIn, SP!Alive, SP!NoSegments
<1>2. SP!Copies(b) = 0
  <2>1. Cardinality(SP!SentIn(b)) = 0 /\ Cardinality(SP!HeldIn(b)) = 0
    BY <1>1, FS_EmptySet
  <2>2. QED
    BY <1>1, <2>1, SameSize DEF SP!Copies
<1>3. Cardinality(SpentOn(b)) \in Nat
  BY BothInit, SpentFinite
<1>4. QED
  BY <1>2, <1>3

(* No text leaves the relay more often than the network delivered an SMS with
   it, for any SMSs, storage places and texts, and however often the session is
   disturbed: answers may come after the call has ended, codes and the answers
   of front-end commands may lie between those of AT+CMGR and AT+CMGD, the
   modem may forget what it was told; places are used again as soon as they are
   deleted, segments are repeated under the references of others, mails fail
   after the group was extracted, and the process may end between reading,
   deleting, filing (sms.cpp:402-433) and mailing (sms.cpp:149-164).  All of
   these lose copies, none makes one. *)
THEOREM NoneTwice == ServiceSpec => []SentOnce
<1>1. ServiceInit => BothInv /\ CountInv
  BY BothInit, CountInit
<1>2. BothInv /\ CountInv /\ [ServiceNext]_serviceVars => BothInv' /\ CountInv'
  BY BothStep, CountStep
<1>3. BothInv /\ CountInv => SentOnce
  <2> SUFFICES ASSUME BothInv, CountInv, NEW b \in Bodies \ {NoText}
               PROVE  Cardinality(Sent(b))
                        <= Cardinality({m \in Messages : Received(m) /\ Pdu[m].body = b})
    BY DEF SentOnce
  <2> DEFINE received == {m \in Messages : Received(m) /\ Pdu[m].body = b}
  <2>1. Sent(b) = SP!SentIn(b)
    BY DEF Sent, SP!SentIn
  <2>2. /\ Cardinality(SP!SentIn(b)) \in Nat /\ Cardinality(SP!HeldIn(b)) \in Nat
        /\ SP!Copies(b) \in Nat
    <3>1. SP!TypeOK
      BY DEF BothInv
    <3>2. QED
      BY <3>1, SameAssumption, SP!CopiesFinite, SameSize
  <2>3. Cardinality(Sent(b)) <= SP!Copies(b)
    <3>1. SP!Copies(b) = Cardinality(SP!SentIn(b)) + Cardinality(SP!HeldIn(b))
                           + (IF SP!Alive(b) THEN 1 ELSE 0)
      BY SameSize DEF SP!Copies
    <3>2. QED
      BY <2>1, <2>2, <3>1
  <2>4. /\ Cardinality(SpentOn(b)) <= Cardinality(received)
        /\ Cardinality(SpentOn(b)) \in Nat /\ Cardinality(received) \in Nat
    BY SpentFinite, FS_Subset, FS_CardinalityType
  <2>5. SP!Copies(b) <= Cardinality(SpentOn(b))
    BY DEF CountInv
  <2>6. QED
    BY <2>1, <2>2, <2>3, <2>4, <2>5
<1>4. QED
  BY <1>1, <1>2, <1>3, PTL DEF ServiceSpec

-----------------------------------------------------------------------------
(* What the main thread reads while it fetches an SMS *)

LEMMA ConcatHead ==
  ASSUME NEW E, NEW u \in Seq(E), NEW v \in Seq(E), u # <<>>
  PROVE  /\ u \o v \in Seq(E) /\ u \o v # <<>>
         /\ Head(u \o v) = Head(u) /\ Tail(u \o v) = Tail(u) \o v
<1>1. /\ u \o v \in Seq(E) /\ Len(u \o v) = Len(u) + Len(v)
      /\ Len(u) \in Nat \ {0} /\ Len(v) \in Nat
      /\ \A i \in 1 .. Len(u) + Len(v) :
           (u \o v)[i] = IF i <= Len(u) THEN u[i] ELSE v[i - Len(u)]
  BY ConcatProperties, LenProperties, EmptySeq
<1>2. u \o v # <<>>
  BY <1>1, EmptySeq
<1>3. Head(u \o v) = Head(u)
  BY <1>1, <1>2, HeadTailProperties
<1>4. Tail(u \o v) = Tail(u) \o v
  <2>1. /\ Tail(u) \in Seq(E) /\ Len(Tail(u)) = Len(u) - 1
        /\ \A i \in 1 .. Len(u) - 1 : Tail(u)[i] = u[i + 1]
    BY HeadTailProperties
  <2>2. /\ Tail(u \o v) \in Seq(E) /\ Len(Tail(u \o v)) = Len(u) + Len(v) - 1
        /\ \A i \in 1 .. Len(u) + Len(v) - 1 : Tail(u \o v)[i] = (u \o v)[i + 1]
    BY <1>1, <1>2, HeadTailProperties
  <2>3. /\ Tail(u) \o v \in Seq(E) /\ Len(Tail(u) \o v) = Len(u) - 1 + Len(v)
        /\ \A i \in 1 .. Len(u) - 1 + Len(v) :
             (Tail(u) \o v)[i] = IF i <= Len(u) - 1 THEN Tail(u)[i] ELSE v[i - (Len(u) - 1)]
    BY <1>1, <2>1, ConcatProperties
  <2>4. ASSUME NEW i \in 1 .. Len(u) + Len(v) - 1
        PROVE  Tail(u \o v)[i] = (Tail(u) \o v)[i]
    <3>1. Tail(u \o v)[i] = IF i + 1 <= Len(u) THEN u[i + 1] ELSE v[i + 1 - Len(u)]
      BY <1>1, <2>2
    <3>2. i - (Len(u) - 1) = i + 1 - Len(u)
      BY <1>1
    <3>3. CASE i <= Len(u) - 1
      BY <1>1, <2>1, <2>3, <3>1, <3>3
    <3>4. CASE ~ (i <= Len(u) - 1)
      BY <1>1, <2>3, <3>1, <3>2, <3>4
    <3>5. QED
      BY <3>3, <3>4
  <2>5. QED
    BY <1>1, <2>2, <2>3, <2>4, SeqEqual
<1>5. QED
  BY <1>1, <1>2, <1>3, <1>4

(* Passing the first line on changes nothing in what is said as a whole. *)
LEMMA PassOn ==
  ASSUME NEW E, NEW u \in Seq(E), NEW v \in Seq(E), v # <<>>
  PROVE  Append(u, Head(v)) \o Tail(v) = u \o v
<1>1. Head(v) \in E /\ Tail(v) \in Seq(E) /\ v = <<Head(v)>> \o Tail(v)
  BY HeadTailProperties, EmptySeq
<1>2. <<Head(v)>> \in Seq(E) /\ Append(u, Head(v)) = u \o <<Head(v)>>
  BY <1>1, AppendIsConcat
<1>3. (u \o <<Head(v)>>) \o Tail(v) = u \o (<<Head(v)>> \o Tail(v))
  BY <1>1, <1>2, ConcatAssociative
<1>4. QED
  BY <1>1, <1>2, <1>3

(* If only the last line of all matches the first one of what is left, then
   that is all that is left. *)
LEMMA OnlyLast ==
  ASSUME NEW E, NEW u \in Seq(E), NEW v \in Seq(E), NEW w \in Seq(E), v # <<>>,
         \A i \in 1 .. Len(u \o (v \o w)) - 1 : (u \o (v \o w))[i] # Head(v)
  PROVE  /\ Tail(v) = <<>> /\ w = <<>>
         /\ Len(u) = Len(u \o (v \o w)) - 1
         /\ \A i \in 1 .. Len(u) : u[i] = (u \o (v \o w))[i]
<1> DEFINE all == u \o (v \o w)
<1>0. \A i \in 1 .. Len(all) - 1 : all[i] # Head(v)
  OBVIOUS
<1>1. /\ v \o w \in Seq(E) /\ Len(v \o w) = Len(v) + Len(w) /\ (v \o w)[1] = Head(v)
      /\ Len(v) \in Nat \ {0} /\ Len(w) \in Nat /\ Len(u) \in Nat
  <2>1. v \o w \in Seq(E) /\ v \o w # <<>> /\ Head(v \o w) = Head(v)
    BY ConcatHead
  <2>2. Head(v \o w) = (v \o w)[1]
    BY <2>1
  <2>3. QED
    BY <2>1, <2>2, ConcatProperties, LenProperties, EmptySeq
<1>2. /\ Len(all) = Len(u) + Len(v) + Len(w)
      /\ \A i \in 1 .. Len(u) + Len(v) + Len(w) :
           all[i] = IF i <= Len(u) THEN u[i] ELSE (v \o w)[i - Len(u)]
  <2>1. /\ Len(u \o (v \o w)) = Len(u) + Len(v \o w)
        /\ \A i \in 1 .. Len(u) + Len(v \o w) :
             (u \o (v \o w))[i] = IF i <= Len(u) THEN u[i] ELSE (v \o w)[i - Len(u)]
    BY <1>1, ConcatProperties
  <2>2. QED
    BY <1>1, <2>1
<1>3. all[Len(u) + 1] = Head(v)
  <2>1. Len(u) + 1 \in 1 .. Len(u) + Len(v) + Len(w) /\ Len(u) + 1 - Len(u) = 1
    BY <1>1
  <2>2. QED
    BY <1>1, <1>2, <2>1
<1>4. Len(u) + 1 \notin 1 .. Len(all) - 1
  BY <1>0, <1>3
<1>5. Len(v) = 1 /\ Len(w) = 0
  <2> DEFINE a == Len(u)
             b == Len(v)
             c == Len(w)
             n == Len(all)
  <2>1. a \in Nat /\ b \in Nat \ {0} /\ c \in Nat /\ n = a + b + c /\ a + 1 \notin 1 .. n - 1
    BY <1>1, <1>2, <1>4
  <2> HIDE DEF a, b, c, n
  <2>2. b = 1 /\ c = 0
    BY <2>1
  <2>3. QED
    BY <2>2 DEF b, c
<1>6. Tail(v) \in Seq(E) /\ Len(Tail(v)) = 0
  BY <1>5, HeadTailProperties
<1>7. Tail(v) = <<>> /\ w = <<>>
  BY <1>5, <1>6, EmptySeq
<1>8. Len(u) = Len(all) - 1
  BY <1>1, <1>2, <1>5
<1>9. \A i \in 1 .. Len(u) : u[i] = all[i]
  BY <1>1, <1>2
<1>10. QED
  BY <1>7, <1>8, <1>9

-----------------------------------------------------------------------------
(* How an SMS is fetched *)

Header == Line("+CMGR", Nothing)
Ok == Line("OK", Nothing)

(* What AT+CMGR returns for m *)
Contents(m) == <<Header, PduLine(m)>>

(* All the lines of the answer, wherever they are by now *)
Said == oss \o (rx \o out)

Silent == tx = <<>> /\ rx = <<>> /\ out = <<>>

Asked(command) ==
  phase = "read" /\ tx = <<command>> /\ rx = <<>> /\ out = <<>> /\ oss = <<>>

Answered(lines) ==
  /\ phase = "read" /\ tx = <<>> /\ Said = lines
  /\ \A i \in DOMAIN oss : oss[i].kind # "OK"

(* A +CMTI waits alone, for nothing was under way when it came. *)
CodesAlone ==
  \A s \in Slots :
    Has(rx, Cmti(s)) => phase = "receive" /\ rx = <<Cmti(s)>> /\ tx = <<>> /\ out = <<>>

ContentKept ==
  smsContent # Nothing => phase = "handle" \/ \E s \in Slots : script = <<Cmgd(s)>>

Reading(s) ==
  script = <<Cmgr(s), Cmgd(s)>> =>
    \/ phase \in {"flush", "println"} /\ Silent
    \/ Asked(Cmgr(s))
    \/ Answered(<<Header, PduLine(sim[s]), Ok>>)

Deleting(s) ==
  script = <<Cmgd(s)>> =>
    \E m \in Messages :
      /\ smsContent = Contents(m)
      /\ \/ phase \in {"flush", "println"} /\ Silent /\ sim[s] = m
         \/ Asked(Cmgd(s)) /\ sim[s] = m
         \/ Answered(<<Ok>>) /\ sim[s] = Nothing

Handling == phase = "handle" => \E m \in Messages : smsContent = Contents(m)

(* While nothing disturbs the session each SMS is read, deleted and handled
   with its own answers, also after the process was started again while the
   modem had still to answer. *)
TalkInv ==
  /\ CodesAlone /\ ContentKept /\ Handling
  /\ \A s \in Slots : Reading(s) /\ Deleting(s)

(* A step of the session that is no disturbance *)
CalmNext ==
  \/ (SendCommand \/ Loop) /\ ~ AnswerToCome
  \/ SmsHandler \/ FrontEnd \/ FrontEmplace \/ Modem \/ Restart
  \/ AtRest /\ Network
  \/ UNCHANGED vars

LEMMA CalmStep ==
  ASSUME disturbances \in Nat, [ServiceNext]_serviceVars, disturbances' = 0
  PROVE  CalmNext /\ disturbances = 0
<1>1. ~ Disturbance
  BY DEF Disturbance
<1>2. disturbances = 0
  BY <1>1 DEF ServiceNext, ServiceMain, SessionMain, HandleNothing, Construct, ConstructFails,
              SendReturns, SendFails, ServiceModem, ServiceFront, ServiceRestart,
              ServiceNetwork, serviceVars
<1>3. CASE ServiceMain \/ UNCHANGED serviceVars
  BY <1>3 DEF ServiceMain, SessionMain, HandleNothing, Construct, ConstructFails, SendReturns,
              SendFails, CalmNext, SmsHandler, serviceVars
<1>4. CASE ServiceModem \/ ServiceFront \/ ServiceRestart \/ ServiceNetwork
  BY <1>4 DEF ServiceModem, ServiceFront, ServiceRestart, ServiceNetwork, CalmNext
<1>5. QED
  BY <1>1, <1>2, <1>3, <1>4 DEF ServiceNext

LEMMA AnswerLines ==
  /\ Header \in LineType /\ Header.kind = "+CMGR" /\ Ok \in LineType /\ Ok.kind = "OK"
  /\ \A m \in Messages : PduLine(m) \in LineType /\ PduLine(m).kind = "PDU"
  /\ \A c \in CommandType, s \in Slots :
       /\ c = Cmgr(s) /\ sim[s] # Nothing => Response(c) = <<Header, PduLine(sim[s]), Ok>>
       /\ c = Cmgd(s) => Response(c) = <<Ok>>
<1>1. /\ Header \in LineType /\ Header.kind = "+CMGR" /\ Ok \in LineType /\ Ok.kind = "OK"
      /\ \A m \in Messages : PduLine(m) \in LineType /\ PduLine(m).kind = "PDU"
  BY LineFacts DEF Header, Ok, PduLine, Kinds
<1>2. ASSUME NEW c \in CommandType, NEW s \in Slots, c = Cmgr(s), sim[s] # Nothing
      PROVE  Response(c) = <<Header, PduLine(sim[s]), Ok>>
  BY <1>2, CommandFacts DEF Response, Header, PduLine, Ok
<1>3. ASSUME NEW c \in CommandType, NEW s \in Slots, c = Cmgd(s)
      PROVE  Response(c) = <<Ok>>
  <2>1. c.op = "CMGD"
    BY <1>3, CommandFacts
  <2>2. QED
    BY <2>1 DEF Response, Ok
<1>4. QED
  BY <1>1, <1>2, <1>3

(* No SMS is being fetched. *)
LEMMA TalkOther ==
  ASSUME \A s \in Slots : ~ Has(rx', Cmti(s)),
         \A s \in Slots : script' # <<Cmgr(s), Cmgd(s)>> /\ script' # <<Cmgd(s)>>,
         smsContent' = Nothing, phase' # "handle"
  PROVE  TalkInv'
  BY DEF TalkInv, CodesAlone, ContentKept, Handling, Reading, Deleting

LEMMA TalkIdle ==
  ASSUME TInv, TalkInv
  PROVE  /\ phase \in {"receive", "handle", "prompt"} => script = <<>>
         /\ phase \in {"receive", "prompt"} => smsContent = Nothing
         /\ phase # "receive" \/ tx # <<>> \/ out # <<>> => \A s \in Slots : ~ Has(rx, Cmti(s))
         /\ \A s \in Slots : <<>> # <<Cmgr(s), Cmgd(s)>> /\ <<>> # <<Cmgd(s)>>
         /\ \A s \in Slots : Boot # <<Cmgr(s), Cmgd(s)>> /\ Boot # <<Cmgd(s)>>
         /\ \A s \in Slots : <<Command("CNMI", Nothing)>> # <<Cmgr(s), Cmgd(s)>>
                              /\ <<Command("CNMI", Nothing)>> # <<Cmgd(s)>>
<1>1. phase \in {"receive", "handle", "prompt"} => script = <<>>
  BY DEF TInv, MainOK, Sending
<1>2. \A s \in Slots : <<>> # <<Cmgr(s), Cmgd(s)>> /\ <<>> # <<Cmgd(s)>>
  OBVIOUS
<1>3. \A s \in Slots : Boot # <<Cmgr(s), Cmgd(s)>> /\ Boot # <<Cmgd(s)>>
  BY DEF Boot, Command, Cmgr, Cmgd
<1>4. \A s \in Slots : <<Command("CNMI", Nothing)>> # <<Cmgr(s), Cmgd(s)>>
                         /\ <<Command("CNMI", Nothing)>> # <<Cmgd(s)>>
  BY DEF Command, Cmgr, Cmgd
<1>5. phase \in {"receive", "prompt"} => smsContent = Nothing
  BY <1>1, <1>2 DEF TalkInv, ContentKept
<1>6. phase # "receive" \/ tx # <<>> \/ out # <<>> => \A s \in Slots : ~ Has(rx, Cmti(s))
  BY DEF TalkInv, CodesAlone
<1>7. QED
  BY <1>1, <1>2, <1>3, <1>4, <1>5, <1>6

LEMMA TalkSend ==
  ASSUME TInv, TalkInv, Flush \/ Println
  PROVE  TalkInv'
<1>1. /\ phase \in {"flush", "println"} /\ phase' \in {"println", "read"}
      /\ UNCHANGED <<script, smsContent, out, sim>> /\ rx' \in {rx, <<>>}
  BY DEF Flush, Println, worldVars
<1>2. \A s \in Slots : ~ Has(rx', Cmti(s))
  BY <1>1, TalkIdle, HasNone
<1>3. CodesAlone' /\ ContentKept' /\ Handling'
  BY <1>1, <1>2 DEF TalkInv, CodesAlone, ContentKept, Handling
<1>4. ASSUME NEW s \in Slots
      PROVE  Reading(s)' /\ Deleting(s)'
  <2>1. CASE Flush
    BY <1>1, <2>1 DEF Flush, TalkInv, Reading, Deleting, Asked, Answered, Silent
  <2>2. CASE Println
    <3>1. ASSUME Silent
          PROVE  Asked(Head(script))'
      BY <2>2, <3>1 DEF Println, Silent, Asked
    <3>2. QED
      BY <1>1, <3>1 DEF TalkInv, Reading, Deleting, Asked, Answered
  <2>3. QED
    BY <2>1, <2>2
<1>5. QED
  BY <1>3, <1>4 DEF TalkInv

LEMMA TalkReadLine ==
  ASSUME TInv, TalkInv, ReadLine
  PROVE  TalkInv'
<1>1. /\ phase = "read" /\ rx # <<>> /\ Head(rx).kind # "OK"
      /\ oss' = Append(oss, Head(rx)) /\ rx' = Tail(rx)
      /\ UNCHANGED <<phase, script, smsContent, tx, out, sim>>
  BY DEF ReadLine, worldVars
<1>2. /\ oss \in Seq(LineType) /\ rx \in Seq(LineType) /\ out \in Seq(LineType)
  BY TInvTypeOK DEF TypeOK
<1>3. \A s \in Slots : ~ Has(rx', Cmti(s))
  BY <1>1, <1>2, TalkIdle, HasTail
<1>4. Said' = Said
  <2>1. /\ rx \o out \in Seq(LineType) /\ rx \o out # <<>>
        /\ Head(rx \o out) = Head(rx) /\ Tail(rx \o out) = Tail(rx) \o out
    BY <1>1, <1>2, ConcatHead
  <2>2. Append(oss, Head(rx \o out)) \o Tail(rx \o out) = oss \o (rx \o out)
    BY <1>2, <2>1, PassOn
  <2>3. QED
    BY <1>1, <2>1, <2>2 DEF Said
<1>5. (\A i \in DOMAIN oss : oss[i].kind # "OK") => \A i \in DOMAIN oss' : oss'[i].kind # "OK"
  <2>1. Head(rx) \in LineType
    BY <1>1, <1>2, TailFacts
  <2>2. QED
    BY <1>1, <1>2, <2>1, AppendFacts
<1>6. ASSUME NEW lines, Answered(lines)
      PROVE  Answered(lines)'
  BY <1>1, <1>4, <1>5, <1>6 DEF Answered
<1>7. CodesAlone' /\ ContentKept' /\ Handling'
  BY <1>1, <1>3 DEF TalkInv, CodesAlone, ContentKept, Handling
<1>8. \A s \in Slots : Reading(s)' /\ Deleting(s)'
  BY <1>1, <1>6 DEF TalkInv, Reading, Deleting, Asked
<1>9. QED
  BY <1>7, <1>8 DEF TalkInv

LEMMA LastLine ==
  ASSUME TInv, rx # <<>>, NEW lines, Said = lines,
         \A i \in 1 .. Len(lines) - 1 : lines[i] # Head(rx)
  PROVE  /\ Tail(rx) = <<>> /\ out = <<>>
         /\ Len(oss) = Len(lines) - 1 /\ \A i \in 1 .. Len(oss) : oss[i] = lines[i]
<1>1. oss \in Seq(LineType) /\ rx \in Seq(LineType) /\ out \in Seq(LineType)
  BY TInvTypeOK DEF TypeOK
<1>2. oss \o (rx \o out) = lines
  BY DEF Said
<1>3. \A i \in 1 .. Len(oss \o (rx \o out)) - 1 : (oss \o (rx \o out))[i] # Head(rx)
  BY <1>2
<1>4. /\ Tail(rx) = <<>> /\ out = <<>>
      /\ Len(oss) = Len(oss \o (rx \o out)) - 1
      /\ \A i \in 1 .. Len(oss) : oss[i] = (oss \o (rx \o out))[i]
  BY <1>1, <1>3, OnlyLast
<1>5. QED
  BY <1>2, <1>4

(* The "OK" that ends a response is the last of its lines. *)
LEMMA TalkEnd ==
  ASSUME TInv, ReadOk, NEW lines, Answered(lines)
  PROVE  /\ lines = <<Ok>> => rx' = <<>> /\ out = <<>>
         /\ \A m \in Messages :
              lines = <<Header, PduLine(m), Ok>> => rx' = <<>> /\ out = <<>> /\ oss = Contents(m)
<1>1. /\ oss \in Seq(LineType) /\ rx \in Seq(LineType) /\ out \in Seq(LineType)
      /\ rx # <<>> /\ Head(rx).kind = "OK" /\ rx' = Tail(rx)
  BY TInvTypeOK DEF TypeOK, ReadOk
<1>2. Said = lines
  BY DEF Answered
<1>3. ASSUME lines = <<Ok>>
      PROVE  rx' = <<>> /\ out = <<>>
  <2>1. \A i \in 1 .. Len(lines) - 1 : lines[i] # Head(rx)
    BY <1>3
  <2>2. QED
    BY <1>1, <1>2, <2>1, LastLine
<1>4. ASSUME NEW m \in Messages, lines = <<Header, PduLine(m), Ok>>
      PROVE  rx' = <<>> /\ out = <<>> /\ oss = Contents(m)
  <2>1. Len(lines) - 1 = 2 /\ lines[1] = Header /\ lines[2] = PduLine(m)
    BY <1>4
  <2>2. \A i \in 1 .. Len(lines) - 1 : lines[i] # Head(rx)
    <3>1. Head(rx) # Header /\ Head(rx) # PduLine(m)
      BY <1>1, AnswerLines
    <3>2. 1 .. 2 = {1, 2}
      OBVIOUS
    <3>3. \A i \in {1, 2} : lines[i] # Head(rx)
      BY <2>1, <3>1
    <3>4. QED
      BY <2>1, <3>2, <3>3, Zenon
  <2>3. /\ rx' = <<>> /\ out = <<>>
        /\ Len(oss) = Len(lines) - 1 /\ \A i \in 1 .. Len(oss) : oss[i] = lines[i]
    BY <1>1, <1>2, <2>2, LastLine
  <2>4. oss = <<Header, PduLine(m)>>
    <3>1. <<Header, PduLine(m)>> \in Seq(LineType) /\ Len(<<Header, PduLine(m)>>) = 2
      BY AnswerLines
    <3>2. Len(oss) = 2 /\ \A i \in 1 .. 2 : oss[i] = <<Header, PduLine(m)>>[i]
      BY <2>1, <2>3
    <3>3. QED
      BY <1>1, <3>1, <3>2, SeqEqual
  <2>5. QED
    BY <2>3, <2>4 DEF Contents
<1>5. QED
  BY <1>3, <1>4

LEMMA TalkReturn ==
  ASSUME TInv, TurnInv, TalkInv, ReadOk \/ GiveUp, ~ AnswerToCome
  PROVE  TalkInv'
<1>1. /\ phase = "read" /\ script \in Scripts /\ script # <<>>
      /\ script' = Tail(script) /\ oss' = <<>>
      /\ phase' = CASE Tail(script) # <<>>       -> "flush"
                    [] Head(script).op = "CMGD"  -> "handle"
                    [] OTHER                     -> "receive"
      /\ Head(script).op # "CMGR" => UNCHANGED smsContent
      /\ UNCHANGED <<tx, out, sim>>
  BY DEF ReadOk, GiveUp, Return, TInv, MainOK, Sending, worldVars
<1>2. \A s \in Slots : ~ Has(rx', Cmti(s))
  <2>1. \A s \in Slots : ~ Has(rx, Cmti(s))
    BY <1>1, TalkIdle
  <2>2. rx' = rx \/ (rx # <<>> /\ rx' = Tail(rx))
    BY DEF ReadOk, GiveUp
  <2>3. rx \in Seq(LineType)
    BY TInvTypeOK DEF TypeOK
  <2>4. rx # <<>> => \A s \in Slots : Has(Tail(rx), Cmti(s)) => Has(rx, Cmti(s))
    BY <2>3, HasTail
  <2>5. QED
    BY <2>1, <2>2, <2>4
<1>3. CodesAlone'
  BY <1>2 DEF CodesAlone
<1>4. ASSUME GiveUp, NEW c, NEW lines, lines \in {<<Ok>>} \cup {<<Header, PduLine(m), Ok>> : m \in Messages}
      PROVE  ~ Asked(c) /\ ~ Answered(lines)
  <2>1. tx = <<>> /\ out = <<>> /\ rx = <<>>
    BY <1>4 DEF GiveUp, AnswerToCome
  <2>2. ~ Asked(c)
    BY <2>1 DEF Asked
  <2>3. ASSUME Answered(lines)
        PROVE  FALSE
    <3>1. oss = lines
      <4>1. oss \in Seq(LineType)
        BY TInvTypeOK DEF TypeOK
      <4>2. <<>> \o <<>> = <<>> /\ oss \o <<>> = oss
        BY <4>1, ConcatEmptySeq, EmptySeq
      <4>3. QED
        BY <2>1, <2>3, <4>2 DEF Answered, Said
    <3>2. lines[Len(lines)] = Ok /\ Len(lines) \in DOMAIN lines
      <4>1. CASE lines = <<Ok>>
        BY <4>1
      <4>2. ASSUME NEW m \in Messages, lines = <<Header, PduLine(m), Ok>>
            PROVE  lines[Len(lines)] = Ok /\ Len(lines) \in DOMAIN lines
        BY <4>2
      <4>3. QED
        BY <1>4, <4>1, <4>2
    <3>3. QED
      BY <2>3, <3>1, <3>2, AnswerLines DEF Answered
  <2>4. QED
    BY <2>2, <2>3
<1>5. CASE script = Boot \/ script = <<Command("CNMI", Nothing)>>
  <2>1. /\ Tail(script) \in {<<Command("CNMI", Nothing)>>, <<>>}
        /\ Head(script).op \notin {"CMGR", "CMGD"}
    <3>1. CASE script = Boot
      BY <3>1 DEF Boot, Command
    <3>2. CASE script = <<Command("CNMI", Nothing)>>
      BY <3>2 DEF Command
    <3>3. QED
      BY <1>5, <3>1, <3>2
  <2>2. phase' # "handle"
    BY <1>1, <2>1
  <2>3. smsContent' = Nothing
    BY <1>1, <1>5, <2>1, TalkIdle DEF TalkInv, ContentKept
  <2>4. \A s \in Slots : script' # <<Cmgr(s), Cmgd(s)>> /\ script' # <<Cmgd(s)>>
    BY <1>1, <2>1, TalkIdle
  <2>5. QED
    BY <1>2, <2>2, <2>3, <2>4, TalkOther
<1>6. ASSUME NEW s \in Slots, script = <<Cmgr(s), Cmgd(s)>>
      PROVE  TalkInv'
  <2>1. sim[s] \in Messages
    BY <1>6 DEF TInv, WorldOK, TurnInv, OneTurn, ToDelete
  <2> DEFINE m == sim[s]
  <2>2. /\ ReadOk /\ Answered(<<Header, PduLine(m), Ok>>)
    <3>1. Asked(Cmgr(s)) \/ Answered(<<Header, PduLine(m), Ok>>)
      BY <1>1, <1>6 DEF TalkInv, Reading
    <3>2. ~ GiveUp
      BY <1>4, <2>1, <3>1
    <3>3. ~ Asked(Cmgr(s))
      BY <3>2 DEF ReadOk, Asked
    <3>4. QED
      BY <3>1, <3>2, <3>3
  <2>3. rx' = <<>> /\ out = <<>> /\ oss = Contents(m) /\ tx = <<>>
    BY <2>1, <2>2, TalkEnd DEF Answered
  <2>4. script' = <<Cmgd(s)>> /\ Head(script).op = "CMGR"
    BY <1>1, <1>6 DEF Cmgr, Command
  <2>5. smsContent' = Contents(m) /\ phase' = "flush"
    BY <1>1, <2>2, <2>3, <2>4 DEF ReadOk, Return
  <2>6. ASSUME NEW t \in Slots
        PROVE  Reading(t)' /\ Deleting(t)'
    <3>1. script' # <<Cmgr(t), Cmgd(t)>>
      BY <2>4
    <3>2. script' = <<Cmgd(t)>> => s = t
      BY <2>4, CommandFacts
    <3>3. Silent' /\ sim'[s] = m
      BY <1>1, <2>3 DEF Silent
    <3>4. QED
      BY <2>1, <2>5, <3>1, <3>2, <3>3 DEF Reading, Deleting
  <2>7. ContentKept' /\ Handling'
    BY <2>4, <2>5 DEF ContentKept, Handling
  <2>8. QED
    BY <1>3, <2>6, <2>7 DEF TalkInv
<1>7. ASSUME NEW s \in Slots, script = <<Cmgd(s)>>
      PROVE  TalkInv'
  <2>1. script' = <<>> /\ Head(script).op = "CMGD" /\ UNCHANGED smsContent
    BY <1>1, <1>7 DEF Cmgd, Command
  <2>2. phase' = "handle"
    BY <1>1, <2>1
  <2>3. \E m \in Messages : smsContent' = Contents(m)
    BY <1>7, <2>1 DEF TalkInv, Deleting
  <2>4. ContentKept' /\ Handling'
    BY <2>2, <2>3 DEF ContentKept, Handling
  <2>5. \A t \in Slots : Reading(t)' /\ Deleting(t)'
    BY <2>1, TalkIdle DEF Reading, Deleting
  <2>6. QED
    BY <1>3, <2>4, <2>5 DEF TalkInv
<1>8. QED
  BY <1>1, <1>5, <1>6, <1>7 DEF Scripts

LEMMA TalkLoop ==
  ASSUME TInv, TalkInv, Loop
  PROVE  TalkInv'
<1>1. /\ phase = "receive" /\ rx # <<>> /\ rx' = Tail(rx) /\ rx \in Seq(LineType)
      /\ UNCHANGED <<smsContent, tx, out, sim>>
  BY TInvTypeOK DEF TypeOK, Loop, LoopCmti, LoopOtherStore, LoopRing, LoopUnparsable,
                    LoopVerifyFails, LoopAnswer, TakeLine, worldVars
<1>2. script = <<>> /\ smsContent = Nothing
  BY <1>1, TalkIdle
<1>3. ASSUME NEW s \in Slots, Has(rx, Cmti(s))
      PROVE  Head(rx) = Cmti(s) /\ rx' = <<>> /\ tx = <<>> /\ out = <<>>
  BY <1>1, <1>3 DEF TalkInv, CodesAlone
<1>4. \A s \in Slots : ~ Has(rx', Cmti(s))
  <2>1. \A s \in Slots : Has(rx', Cmti(s)) => Has(rx, Cmti(s))
    BY <1>1, HasTail
  <2>2. QED
    BY <1>3, <2>1, HasNone
<1>5. CASE LoopCmti
  <2>1. PICK s \in Slots : Head(rx) = Cmti(s) /\ Head(rx).of = s
    BY <1>1, <1>5, RxTail, LineFacts DEF LoopCmti, TInv, LinesOK, Readable
  <2>2. Has(rx, Cmti(s))
    BY <1>1, <2>1, HasTail
  <2>3. Silent' /\ phase' = "flush" /\ script' = <<Cmgr(s), Cmgd(s)>>
    BY <1>1, <1>3, <1>5, <2>1, <2>2 DEF LoopCmti, Silent, Cmgr, Cmgd
  <2>4. CodesAlone' /\ ContentKept' /\ Handling'
    BY <1>1, <1>2, <1>4, <2>3 DEF CodesAlone, ContentKept, Handling
  <2>5. \A t \in Slots : Reading(t)' /\ Deleting(t)'
    BY <2>3 DEF Reading, Deleting
  <2>6. QED
    BY <2>4, <2>5 DEF TalkInv
<1>6. CASE ~ LoopCmti
  <2>1. script' = script /\ phase' # "handle"
    BY <1>1, <1>6 DEF Loop, LoopOtherStore, LoopRing, LoopUnparsable, LoopVerifyFails,
                      LoopAnswer
  <2>2. QED
    BY <1>1, <1>2, <1>4, <2>1, TalkIdle, TalkOther
<1>7. QED
  BY <1>5, <1>6

LEMMA TalkExecute ==
  ASSUME TInv, TurnInv, TalkInv, Execute
  PROVE  TalkInv'
<1>1. /\ tx # <<>> /\ tx' = Tail(tx) /\ out = <<>> /\ out' = Response(Head(tx))
      /\ UNCHANGED <<phase, script, oss, smsContent, rx>>
      /\ Head(tx) \in CommandType
  BY TxTail DEF Execute, mainVars, TInv
<1>2. \A s \in Slots : ~ Has(rx', Cmti(s))
  BY <1>1, TalkIdle
<1>3. CodesAlone' /\ ContentKept' /\ Handling'
  BY <1>1, <1>2 DEF TalkInv, CodesAlone, ContentKept, Handling
<1>4. ASSUME NEW c, Asked(c)
      PROVE  /\ Head(tx) = c /\ tx' = <<>>
             /\ Said' = Response(c)
             /\ phase = "read" /\ \A i \in DOMAIN oss : oss[i].kind # "OK"
  <2>1. tx = <<c>> /\ rx = <<>> /\ oss = <<>> /\ phase = "read"
    BY <1>4 DEF Asked
  <2>2. Head(tx) = c /\ tx' = <<>> /\ DOMAIN oss = {}
    BY <1>1, <2>1
  <2>3. Response(c) \in Seq(Writable)
    BY <1>1, <2>2, ResponseFacts
  <2>4. <<>> \o Response(c) = Response(c)
    BY <2>3, ConcatEmptySeq
  <2>5. Said' = Response(c)
    BY <1>1, <2>1, <2>2, <2>4 DEF Said
  <2>6. QED
    BY <2>1, <2>2, <2>5
<1>5. ASSUME NEW s \in Slots, script = <<Cmgr(s), Cmgd(s)>>
      PROVE  Reading(s)'
  <2>1. Asked(Cmgr(s))
    BY <1>1, <1>5 DEF TalkInv, Reading, Silent, Answered
  <2>2. sim[s] # Nothing
    BY <1>5 DEF TurnInv, OneTurn, ToDelete
  <2>3. Response(Cmgr(s)) = <<Header, PduLine(sim[s]), Ok>>
    BY <1>1, <1>4, <2>1, <2>2, AnswerLines
  <2>4. sim' = sim
    <3>1. Head(tx).op # "CMGD"
      BY <1>4, <2>1 DEF Cmgr, Command
    <3>2. QED
      BY <3>1 DEF Execute
  <2>5. Answered(<<Header, PduLine(sim[s]), Ok>>)'
    BY <1>1, <1>4, <2>1, <2>3, <2>4 DEF Answered
  <2>6. QED
    BY <2>5 DEF Reading
<1>6. ASSUME NEW s \in Slots, script = <<Cmgd(s)>>
      PROVE  Deleting(s)'
  <2>1. PICK m \in Messages : smsContent = Contents(m) /\ Asked(Cmgd(s)) /\ sim[s] = m
    BY <1>1, <1>6 DEF TalkInv, Deleting, Silent, Answered
  <2>2. Response(Cmgd(s)) = <<Ok>>
    BY <1>1, <1>4, <2>1, AnswerLines
  <2>3. sim' = [sim EXCEPT ![s] = Nothing] /\ sim \in [Slots -> Messages \cup {Nothing}]
    <3>1. Head(tx).op = "CMGD" /\ Head(tx).arg = s
      BY <1>4, <2>1 DEF Cmgd, Command
    <3>2. QED
      BY <3>1 DEF Execute, TInv, WorldOK
  <2>4. Answered(<<Ok>>)' /\ sim'[s] = Nothing
    BY <1>1, <1>4, <2>1, <2>2, <2>3 DEF Answered
  <2>5. QED
    BY <1>1, <2>1, <2>4 DEF Deleting
<1>7. \A s \in Slots : Reading(s)' /\ Deleting(s)'
  <2> SUFFICES ASSUME NEW s \in Slots
               PROVE  Reading(s)' /\ Deleting(s)'
    OBVIOUS
  <2>1. Reading(s)'
    BY <1>1, <1>5 DEF Reading
  <2>2. Deleting(s)'
    BY <1>1, <1>6 DEF Deleting
  <2>3. QED
    BY <2>1, <2>2
<1>8. QED
  BY <1>3, <1>7 DEF TalkInv

LEMMA TalkWriteLine ==
  ASSUME TInv, TalkInv, WriteLine
  PROVE  TalkInv'
<1>1. /\ out # <<>> /\ rx' = Append(rx, Head(out)) /\ out' = Tail(out)
      /\ UNCHANGED <<phase, script, oss, smsContent, tx, sim>>
  BY DEF WriteLine, mainVars, worldVars
<1>2. /\ oss \in Seq(LineType) /\ rx \in Seq(LineType) /\ out \in Seq(LineType)
      /\ out \in Seq(Writable)
  BY TInvTypeOK DEF TypeOK, TInv, LinesOK
<1>3. \A s \in Slots : ~ Has(rx', Cmti(s))
  <2>1. Head(out) \in LineType /\ Head(out) \in Writable
    BY <1>1, <1>2, TailFacts
  <2>2. \A s \in Slots : Head(out) # Cmti(s)
    BY <2>1, LineFacts DEF Writable
  <2>3. \A s \in Slots : ~ Has(rx, Cmti(s))
    BY <1>1, TalkIdle
  <2>4. QED
    BY <1>1, <1>2, <2>1, <2>2, <2>3, HasAppend
<1>4. Said' = Said
  BY <1>1, <1>2, PassOn DEF Said
<1>5. ASSUME NEW lines, Answered(lines)
      PROVE  Answered(lines)'
  BY <1>1, <1>4, <1>5 DEF Answered
<1>6. CodesAlone' /\ ContentKept' /\ Handling'
  BY <1>1, <1>3 DEF TalkInv, CodesAlone, ContentKept, Handling
<1>7. \A s \in Slots : Reading(s)' /\ Deleting(s)'
  BY <1>1, <1>5 DEF TalkInv, Reading, Deleting, Asked, Silent
<1>8. QED
  BY <1>6, <1>7 DEF TalkInv

LEMMA TalkDeliver ==
  ASSUME TInv, TalkInv, AtRest, NEW m \in Messages, NEW s \in Slots, DeliverSms(m, s)
  PROVE  TalkInv'
<1>1. /\ phase = "receive" /\ tx = <<>> /\ rx = <<>> /\ out = <<>>
      /\ rx' = Append(rx, Cmti(s))
      /\ UNCHANGED <<phase, script, smsContent, tx, out>>
  BY DEF DeliverSms, CodeAllowed, AtRest, mainVars, Cmti
<1>2. rx' = <<Cmti(s)>> /\ \A t \in Slots : Has(rx', Cmti(t)) => t = s
  <2>1. rx' = <<Cmti(s)>>
    BY <1>1
  <2>2. QED
    BY <2>1, LineFacts DEF Has
<1>3. script' = <<>> /\ smsContent' = Nothing
  BY <1>1, TalkIdle
<1>4. CodesAlone' /\ ContentKept' /\ Handling'
  BY <1>1, <1>2, <1>3 DEF CodesAlone, ContentKept, Handling
<1>5. \A t \in Slots : Reading(t)' /\ Deleting(t)'
  BY <1>3, TalkIdle DEF Reading, Deleting
<1>6. QED
  BY <1>4, <1>5 DEF TalkInv

LEMMA TalkWorld ==
  ASSUME TInv, TalkInv,
         \/ RelaySms \/ DropSms \/ SendPrompt \/ PromptFails \/ FrontEmplace
         \/ (AtRest /\ IncomingCall) \/ Restart \/ UNCHANGED vars
  PROVE  TalkInv'
<1>1. CASE RelaySms \/ DropSms \/ SendPrompt \/ PromptFails
  <2>1. /\ phase \in {"handle", "prompt"} /\ phase' = "receive" /\ UNCHANGED <<script, rx>>
        /\ smsContent' \in {smsContent, Nothing} /\ (phase = "handle" => smsContent' = Nothing)
    BY <1>1 DEF RelaySms, DropSms, HandlerReturns, SendPrompt, PromptFails, lineVars
  <2>2. /\ script' = <<>> /\ smsContent' = Nothing /\ \A s \in Slots : ~ Has(rx', Cmti(s))
    BY <2>1, TalkIdle
  <2>3. QED
    BY <2>1, <2>2, TalkIdle, TalkOther
<1>2. CASE AtRest /\ IncomingCall
  <2>1. /\ phase = "receive" /\ rx = <<>> /\ UNCHANGED <<phase, script, smsContent>>
        /\ rx' = <<>> \o <<Line("RING", Nothing), Line("+CLIP", Nothing)>>
    BY <1>2 DEF IncomingCall, AtRest, mainVars
  <2>2. rx' = <<Line("RING", Nothing), Line("+CLIP", Nothing)>>
    BY <2>1
  <2>3. \A s \in Slots : ~ Has(rx', Cmti(s))
    BY <2>2 DEF Has, Line, Cmti
  <2>4. script' = <<>> /\ smsContent' = Nothing
    BY <2>1, TalkIdle
  <2>5. QED
    BY <2>1, <2>3, <2>4, TalkIdle, TalkOther
<1>3. CASE Restart
  <2>1. phase' = "flush" /\ script' = Boot /\ smsContent' = Nothing /\ rx' = <<>>
    BY <1>3 DEF Restart
  <2>2. QED
    BY <2>1, HasNone, TalkIdle, TalkOther
<1>4. CASE FrontEmplace \/ UNCHANGED vars
  <2>1. UNCHANGED <<mainVars, lineVars, worldVars>>
    BY <1>4 DEF FrontEmplace, vars
  <2>2. QED
    BY <2>1 DEF TalkInv, CodesAlone, ContentKept, Handling, Reading, Deleting, Asked, Answered,
                Said, Silent, mainVars, lineVars, worldVars
<1>5. QED
  BY <1>1, <1>2, <1>3, <1>4

LEMMA TalkStep == TInv /\ TurnInv /\ TalkInv /\ CalmNext => TalkInv'
<1> SUFFICES ASSUME TInv, TurnInv, TalkInv, CalmNext
             PROVE  TalkInv'
  OBVIOUS
<1>1. CASE (SendCommand \/ Loop) /\ ~ AnswerToCome
  BY <1>1, TalkSend, TalkReadLine, TalkReturn, TalkLoop DEF SendCommand
<1>2. CASE SmsHandler \/ FrontEnd \/ FrontEmplace \/ Restart \/ UNCHANGED vars
  BY <1>2, TalkWorld DEF SmsHandler, FrontEnd
<1>3. CASE Modem
  BY <1>3, TalkExecute, TalkWriteLine DEF Modem
<1>4. CASE AtRest /\ Network
  BY <1>4, TalkDeliver, TalkWorld DEF Network
<1>5. QED
  BY <1>1, <1>2, <1>3, <1>4 DEF CalmNext

(* The constructor of SMS is called with the PDU that was read. *)
LEMMA ContentsHandled ==
  ASSUME NEW m \in Messages, smsContent = Contents(m)
  PROVE  m \in Handled
<1>1. smsContent \in Seq(LineType)
  BY AnswerLines DEF Contents
<1>2. smsContent # Nothing
  BY <1>1, NothingAssumption
<1>3. /\ Len(smsContent) = 2 /\ smsContent[2] = PduLine(m)
      /\ PduLine(m).kind = "PDU" /\ PduLine(m).of = m
  BY DEF Contents, PduLine, Line
<1>4. QED
  BY <1>2, <1>3 DEF Handled, PduOf

LEMMA TalkInit == Init => TalkInv
<1> SUFFICES ASSUME Init PROVE TalkInv
  OBVIOUS
<1>1. phase = "flush" /\ script = Boot /\ smsContent = Nothing /\ rx = <<>>
  BY DEF Init
<1>2. \A s \in Slots : Boot # <<Cmgr(s), Cmgd(s)>> /\ Boot # <<Cmgd(s)>>
  BY DEF Boot, Command, Cmgr, Cmgd
<1>3. QED
  BY <1>1, <1>2, HasNone DEF TalkInv, CodesAlone, ContentKept, Handling, Reading, Deleting

(* Until the process is started again or the session is disturbed, the modem
   deletes only what the main thread waits to see deleted. *)
DeleteAsked ==
  restarts = 0 => \A s \in Slots : Has(tx, Cmgd(s)) => script = <<Cmgd(s)>>

LEMMA RestartsGrow ==
  ASSUME TInv, [Next]_vars
  PROVE  /\ Restart => restarts' # 0
         /\ ~ Restart => UNCHANGED restarts
<1>1. Restart => restarts' # 0
  BY DEF Restart, TInv, WorldOK
<1>2. ASSUME ~ Restart
      PROVE  UNCHANGED restarts
  BY <1>2
     DEF Next, MainThread, FrontEnd, SendCommand, Flush, Println, ReadLine, ReadOk, GiveUp, Return,
         SmsHandler, RelaySms, DropSms, Loop, LoopCmti, LoopOtherStore, LoopRing,
         LoopUnparsable, LoopVerifyFails, LoopAnswer, TakeLine, SendPrompt, PromptFails,
         FrontEmplace, Modem, Execute, WriteLine, Environment, DeliverSms, IncomingCall,
         FrontPrintln, ModemReset, vars, worldVars
<1>3. QED
  BY <1>1, <1>2

LEMMA DeleteAskedStep ==
  TInv /\ TalkInv /\ DeleteAsked /\ [Next]_vars /\ CalmNext => DeleteAsked'
<1> SUFFICES ASSUME TInv, TalkInv, DeleteAsked, CalmNext, ~ Restart, restarts = 0,
                    NEW s \in Slots, Has(tx', Cmgd(s))
             PROVE  script' = <<Cmgd(s)>>
  BY RestartsGrow DEF DeleteAsked
<1>1. CASE Println
  <2>1. /\ tx' = Append(tx, Head(script)) /\ UNCHANGED script /\ tx \in Seq(Sendable)
        /\ script \in Scripts /\ script # <<>>
    BY <1>1 DEF Println, TInv, MainOK, LinesOK, Sending
  <2>2. Head(script) \in Sendable /\ (Head(script) = Cmgd(s) => script = <<Cmgd(s)>>)
    BY <2>1, ScriptFacts
  <2>3. Has(tx, Cmgd(s)) \/ Head(script) = Cmgd(s)
    BY <2>1, <2>2, HasAppend
  <2>4. QED
    BY <2>1, <2>2, <2>3 DEF DeleteAsked
<1>2. CASE Execute
  <2>1. tx # <<>> /\ tx' = Tail(tx) /\ tx \in Seq(Sendable) /\ UNCHANGED script
    BY <1>2 DEF Execute, TInv, LinesOK, mainVars
  <2>2. Has(tx, Cmgd(s))
    BY <2>1, HasTail
  <2>3. QED
    BY <2>1, <2>2 DEF DeleteAsked
<1>3. CASE (ReadOk \/ GiveUp) /\ ~ AnswerToCome
  <2>1. UNCHANGED tx
    BY <1>3 DEF ReadOk, GiveUp, Return
  <2>2. script = <<Cmgd(s)>>
    BY <2>1 DEF DeleteAsked
  <2>3. PICK m \in Messages : \/ Silent \/ Answered(<<Ok>>) \/ Asked(Cmgd(s))
    BY <2>2 DEF TalkInv, Deleting
  <2>4. tx = <<>>
    BY <1>3, <2>3 DEF ReadOk, GiveUp, AnswerToCome, Silent, Answered, Asked
  <2>5. QED
    BY <2>1, <2>4, HasNone
<1>4. CASE Loop \/ RelaySms \/ DropSms \/ SendPrompt \/ PromptFails
  <2>1. phase \in {"receive", "handle", "prompt"} /\ UNCHANGED tx
    BY <1>4 DEF Loop, LoopCmti, LoopOtherStore, LoopRing, LoopUnparsable, LoopVerifyFails,
                LoopAnswer, TakeLine, RelaySms, DropSms, HandlerReturns, SendPrompt,
                PromptFails, lineVars
  <2>2. script = <<>>
    BY <2>1, TalkIdle
  <2>3. QED
    BY <2>1, <2>2, TalkIdle DEF DeleteAsked
<1>5. CASE \/ Flush \/ ReadLine \/ FrontEmplace \/ WriteLine \/ IncomingCall \/ UNCHANGED vars
           \/ \E m \in Messages, t \in Slots : DeliverSms(m, t)
  <2>1. UNCHANGED <<tx, script>>
    BY <1>5 DEF Flush, ReadLine, FrontEmplace, WriteLine, IncomingCall, DeliverSms, vars,
                mainVars, lineVars
  <2>2. QED
    BY <2>1 DEF DeleteAsked
<1>6. QED
  BY <1>1, <1>2, <1>3, <1>4, <1>5
     DEF CalmNext, Network, FrontEnd, SendCommand, SmsHandler, Modem

-----------------------------------------------------------------------------
(* No segment is lost. *)

(* Segments that say they are the same part of the same long SMS are: a
   reference is not used again for another text of as many segments. *)
SamePlaceSameText ==
  \A p, q \in Pdus :
    S!IsFiled(p) /\ S!IsFiled(q) /\ p.ref = q.ref /\ p.number = q.number /\ p.count = q.count
      => p.body = q.body

HeldAs(p) ==
  /\ p.ref \in DOMAIN refToSegments
  /\ Len(refToSegments[p.ref].contents) = p.count
  /\ refToSegments[p.ref].contents[p.number] = p.body

Done(m) == HeldAs(Pdu[m]) \/ Sent(Pdu[m].body) # {} \/ Reported(m)

InHandler(m) == m \in Handled /\ message = NoMessage

(* The group that send_email would extract is that of the message which
   sms_handler works on, whose segment it has filed. *)
GroupInv ==
  /\ 0 \notin DOMAIN refToSegments
  /\ message # NoMessage /\ message.isSegment /\ message.reference \in DOMAIN refToSegments =>
       \E f \in Handled : /\ Pdu[f].ref = message.reference
                          /\ Pdu[f].count = Len(refToSegments[message.reference].contents)
  /\ message # NoMessage => \A m \in Handled : S!IsFiled(Pdu[m]) => HeldAs(Pdu[m])

(* A segment that sms_handler has returned from is dealt with.  If nothing has
   disturbed the session, every delivered one is so far, or with sms_handler,
   or on the SIM card. *)
KeptInv ==
  restarts = 0 =>
    \A m \in {n \in Messages : S!IsFiled(Pdu[n])} :
      /\ mailed[m] > 0 => Done(m)
      /\ disturbances = 0 /\ Received(m) => Stored(m) \/ InHandler(m) \/ Done(m)

CalmInv == disturbances = 0 => TalkInv /\ DeleteAsked

LossInv == BothInv /\ CalmInv /\ GroupInv /\ KeptInv

(* A segment that is filed lies in its place, and the others in theirs. *)
LEMMA FiledIs ==
  ASSUME SP!TypeOK, NEW p \in Pdus, S!FileSegment(p)
  PROVE  /\ p.ref # 0 /\ p.number \in 1 .. p.count
         /\ DOMAIN refToSegments' = DOMAIN refToSegments \cup {p.ref}
         /\ \A r \in DOMAIN refToSegments \ {p.ref} : refToSegments'[r] = refToSegments[r]
         /\ Len(refToSegments'[p.ref].contents) = p.count
         /\ refToSegments'[p.ref].contents[p.number] = p.body
         /\ p.ref \in DOMAIN refToSegments =>
              /\ Len(refToSegments[p.ref].contents) = p.count
              /\ \A i \in 1 .. p.count : i # p.number =>
                   refToSegments'[p.ref].contents[i] = refToSegments[p.ref].contents[i]
<1>1. /\ S!IsFiled(p) /\ ~ S!Mismatch(p)
      /\ DOMAIN refToSegments' = DOMAIN refToSegments \cup {p.ref}
      /\ refToSegments'[p.ref] = S!Filed(p)
      /\ \A r \in DOMAIN refToSegments \ {p.ref} : refToSegments'[r] = refToSegments[r]
  BY DEF S!FileSegment
<1>2. p.udhi /\ p.ref # 0 /\ p.number \in 1 .. p.count
  BY <1>1, RelayAssumption DEF S!IsFiled, S!SmsAssumption
<1>3. p.count \in Nat
  BY RelayAssumption DEF S!SmsAssumption, S!PduType
<1>4. CASE p.ref \in DOMAIN refToSegments
  <2> DEFINE old == refToSegments[p.ref].contents
  <2>1. old \in Seq(Bodies) /\ Len(old) = p.count
    BY <1>1, <1>4 DEF SP!TypeOK, SP!SegmentCountAndContents, S!Mismatch
  <2>2. S!Filed(p).contents = [old EXCEPT ![p.number] = p.body]
    BY <1>4 DEF S!Filed
  <2>3. p.body \in Bodies
    BY RelayAssumption DEF S!SmsAssumption, S!PduType
  <2>4. /\ Len([old EXCEPT ![p.number] = p.body]) = Len(old)
        /\ \A j \in 1 .. Len(old) :
             [old EXCEPT ![p.number] = p.body][j] = IF j = p.number THEN p.body ELSE old[j]
    BY <1>2, <2>1, <2>3, ExceptSeq
  <2>5. QED
    BY <1>1, <1>2, <1>4, <2>1, <2>2, <2>4
<1>5. CASE p.ref \notin DOMAIN refToSegments
  <2>1. S!Filed(p).contents = [i \in 1 .. p.count |-> IF i = p.number THEN p.body ELSE NoText]
    BY <1>5 DEF S!Filed
  <2>2. Len(S!Filed(p).contents) = p.count
    BY <1>3, <2>1
  <2>3. S!Filed(p).contents[p.number] = p.body
    BY <1>2, <2>1
  <2>4. QED
    BY <1>1, <1>2, <1>5, <2>2, <2>3
<1>6. QED
  BY <1>4, <1>5

(* What a step of the relay does to the map, to the outbox and to what was
   reported. *)
LEMMA SendIs ==
  ASSUME SendReturns \/ SendFails
  PROVE  /\ message # NoMessage /\ message' = NoMessage /\ failures \subseteq failures'
         /\ UNCHANGED sim /\ smsContent' = Nothing
         /\ \/ UNCHANGED <<refToSegments, outbox>>
            \/ /\ S!Relayable(message) /\ refToSegments' = S!Extract(message)
               /\ \/ \E via : outbox' = Append(outbox, S!Outgoing(message, via))
                  \/ UNCHANGED outbox /\ failures' = failures \cup Handled
<1>1. UNCHANGED sim /\ smsContent' = Nothing /\ failures \subseteq failures'
  BY DEF SendReturns, SendFails, RelaySms, DropSms, HandlerReturns, worldVars
<1>2. CASE SendReturns
  BY <1>1, <1>2 DEF SendReturns, S!SkipIncomplete, S!LogOnly, S!MailSent, S!HandlerReturns
<1>3. CASE SendFails
  BY <1>1, <1>3 DEF SendFails, S!CurlInitFails, S!ConfigThrows, S!MailFails, S!HandlerReturns
<1>4. QED
  BY <1>2, <1>3

LEMMA OtherIs ==
  ASSUME [ServiceNext]_serviceVars, ~ Construct, ~ SendReturns, ~ SendFails, ~ ServiceRestart
  PROVE  UNCHANGED <<refToSegments, outbox, message, mailed>> /\ failures \subseteq failures'
<1>1. CASE ConstructFails \/ HandleNothing
  BY <1>1 DEF ConstructFails, HandleNothing, DropSms, S!RejectPdu, relayVars, worldVars
<1>2. CASE SessionMain \/ ServiceModem \/ ServiceNetwork \/ UNCHANGED serviceVars
  <2>1. UNCHANGED mailed
    BY <1>2 DEF SessionMain, SendCommand, Flush, Println, ReadLine, ReadOk, GiveUp, Return, Loop,
                LoopCmti, LoopOtherStore, LoopRing, LoopUnparsable, LoopVerifyFails, LoopAnswer,
                TakeLine, ServiceModem, Modem, Execute, WriteLine, ServiceNetwork, Network,
                DeliverSms, IncomingCall, serviceVars, vars, worldVars
  <2>2. QED
    BY <1>2, <2>1 DEF SessionMain, ServiceModem, ServiceNetwork, serviceVars, relayVars
<1>3. CASE ServiceFront \/ Disturbance
  <2>1. UNCHANGED mailed
    BY <1>3 DEF ServiceFront, FrontEmplace, FrontEnd, SendPrompt, PromptFails, Disturbance,
                Network, GiveUp, Return, DeliverSms, IncomingCall, FrontPrintln, ModemReset,
                worldVars
  <2>2. QED
    BY <1>3, <2>1 DEF ServiceFront, Disturbance, relayVars
<1>4. QED
  BY <1>1, <1>2, <1>3 DEF ServiceNext, ServiceMain

LEMMA ConstructIs ==
  ASSUME BothInv, Construct
  PROVE  /\ UNCHANGED <<smsContent, sim, outbox, failures, restarts, unsent, mailed>>
         /\ Handled' = Handled /\ message = NoMessage
         /\ \E m \in Handled :
              /\ m \in Messages /\ Pdu[m] \in Pdus /\ \A n \in Handled : n = m
              /\ \/ /\ UNCHANGED refToSegments /\ ~ S!IsFiled(Pdu[m]) /\ message'.reference = 0
                 \/ S!FileSegment(Pdu[m]) /\ message'.reference = Pdu[m].ref
<1>1. PICK m \in Handled : S!ParseSingle(Pdu[m]) \/ S!FileSegment(Pdu[m])
  BY DEF Construct
<1>2. m \in Messages /\ Pdu[m] \in Pdus /\ \A n \in Handled : n = m
  BY HandledIs, ServiceAssumption DEF BothInv
<1>3. UNCHANGED <<smsContent, sim, failures, restarts, unsent, mailed>> /\ Handled' = Handled
  BY DEF Construct, vars, mainVars, worldVars, Handled
<1>4. UNCHANGED outbox /\ message = NoMessage
  BY <1>1 DEF S!ParseSingle, S!FileSegment, S!Arrive
<1>5. \/ UNCHANGED refToSegments /\ ~ S!IsFiled(Pdu[m]) /\ message'.reference = 0
      \/ S!FileSegment(Pdu[m]) /\ message'.reference = Pdu[m].ref
  <2>1. CASE S!ParseSingle(Pdu[m])
    <3>1. UNCHANGED refToSegments /\ ~ S!IsFiled(Pdu[m])
      BY <2>1 DEF S!ParseSingle
    <3>2. message'.reference = 0
      BY <2>1 DEF S!ParseSingle
    <3>3. QED
      BY <3>1, <3>2
  <2>2. CASE S!FileSegment(Pdu[m])
    <3>1. message'.reference = Pdu[m].ref
      BY <2>2 DEF S!FileSegment
    <3>2. QED
      BY <2>2, <3>1
  <2>3. QED
    BY <1>1, <2>1, <2>2
<1>6. QED
  BY <1>2, <1>3, <1>4, <1>5

LEMMA GroupStep == BothInv /\ GroupInv /\ [ServiceNext]_serviceVars => GroupInv'
<1> SUFFICES ASSUME BothInv, GroupInv, [ServiceNext]_serviceVars
             PROVE  GroupInv'
  OBVIOUS
<1>1. CASE Construct
  <2>1. PICK m \in Handled :
          /\ m \in Messages /\ Pdu[m] \in Pdus /\ \A n \in Handled : n = m
          /\ \/ UNCHANGED refToSegments /\ ~ S!IsFiled(Pdu[m]) /\ message'.reference = 0
             \/ S!FileSegment(Pdu[m]) /\ message'.reference = Pdu[m].ref
    BY <1>1, ConstructIs
  <2>2. m \in Handled' /\ \A n \in Handled' : n = m
    BY <1>1, <2>1, ConstructIs
  <2>3. CASE UNCHANGED refToSegments /\ ~ S!IsFiled(Pdu[m]) /\ message'.reference = 0
    BY <2>2, <2>3 DEF GroupInv, S!IsFiled
  <2>4. CASE S!FileSegment(Pdu[m]) /\ message'.reference = Pdu[m].ref
    <3>1. /\ Pdu[m].ref # 0 /\ DOMAIN refToSegments' = DOMAIN refToSegments \cup {Pdu[m].ref}
          /\ Len(refToSegments'[Pdu[m].ref].contents) = Pdu[m].count
          /\ refToSegments'[Pdu[m].ref].contents[Pdu[m].number] = Pdu[m].body
      BY <2>1, <2>4, FiledIs DEF BothInv
    <3>2. HeldAs(Pdu[m])'
      BY <3>1 DEF HeldAs
    <3>3. QED
      BY <2>2, <2>4, <3>1, <3>2 DEF GroupInv
  <2>5. QED
    BY <2>1, <2>3, <2>4
<1>2. CASE SendReturns \/ SendFails
  <2>1. message' = NoMessage /\ DOMAIN refToSegments' \subseteq DOMAIN refToSegments
    BY <1>2, SendIs DEF S!Extract
  <2>2. QED
    BY <2>1 DEF GroupInv
<1>3. CASE ServiceRestart
  <2>1. message' = NoMessage /\ DOMAIN refToSegments' = {}
    BY <1>3 DEF ServiceRestart, S!Restart, S!NoSegments
  <2>2. QED
    BY <2>1 DEF GroupInv
<1>4. CASE ~ Construct /\ ~ SendReturns /\ ~ SendFails /\ ~ ServiceRestart
  <2>1. UNCHANGED <<refToSegments, message>>
    BY <1>4, OtherIs
  <2>2. message # NoMessage => UNCHANGED Handled
    BY <1>4, AliveStep DEF BothInv, Handled
  <2>3. QED
    BY <2>1, <2>2 DEF GroupInv, HeldAs
<1>5. QED
  BY <1>1, <1>2, <1>3, <1>4

(* What sms_handler has returned from was filed by its constructor. *)
LEMMA MailedStep ==
  ASSUME BothInv, GroupInv, [ServiceNext]_serviceVars, NEW m \in Messages,
         S!IsFiled(Pdu[m]), mailed'[m] > 0
  PROVE  mailed[m] > 0 \/ Done(m)
<1>0. mailed \in [Messages -> Nat]
  BY DEF BothInv, TInv, WorldOK
<1>1. CASE SendReturns
  <2>1. message # NoMessage
    BY <1>1, SendIs
  <2>2. \E n \in Handled : mailed' = [mailed EXCEPT ![n] = @ + 1]
    BY <1>1 DEF SendReturns, RelaySms, Handled
  <2>3. mailed[m] > 0 \/ m \in Handled
    BY <1>0, <2>2
  <2>4. QED
    BY <2>1, <2>3 DEF GroupInv, Done
<1>2. CASE SendFails \/ ServiceRestart
  BY <1>2 DEF SendFails, DropSms, ServiceRestart, Restart, worldVars
<1>3. CASE Construct
  BY <1>3, ConstructIs
<1>4. CASE ~ Construct /\ ~ SendReturns /\ ~ SendFails /\ ~ ServiceRestart
  BY <1>4, OtherIs
<1>5. QED
  BY <1>1, <1>2, <1>3, <1>4

(* What left stays in the outbox. *)
LEMMA SentAppend ==
  ASSUME SP!TypeOK, NEW via, outbox' = Append(outbox, S!Outgoing(message, via)), NEW b
  PROVE  /\ Sent(b) \subseteq Sent(b)'
         /\ (\E i \in DOMAIN S!Outgoing(message, via).parts :
               S!Outgoing(message, via).parts[i] = b) => Sent(b)' # {}
<1> DEFINE new == S!Outgoing(message, via)
           n == Len(outbox)
<1>1. /\ DOMAIN outbox = 1 .. n /\ DOMAIN outbox' = 1 .. n + 1 /\ n \in Nat
      /\ \A k \in 1 .. n : outbox'[k] = outbox[k]
      /\ outbox'[n + 1] = new
  <2>1. outbox \in Seq(SP!OutgoingType)
    BY DEF SP!TypeOK
  <2> HIDE DEF new
  <2>2. outbox \in Seq(SP!OutgoingType \cup {new}) /\ new \in SP!OutgoingType \cup {new}
    BY <2>1, SeqSubset
  <2>3. outbox' = Append(outbox, new)
    BY DEF new
  <2>4. QED
    BY <2>2, <2>3, AppendFacts
<1>2. Sent(b) \subseteq Sent(b)'
  BY <1>1 DEF Sent
<1>3. (\E i \in DOMAIN new.parts : new.parts[i] = b) => n + 1 \in Sent(b)'
  <2>1. n + 1 \in DOMAIN outbox'
    BY <1>1
  <2> HIDE DEF new
  <2>2. QED
    BY <1>1, <2>1 DEF Sent
<1>4. QED
  BY <1>2, <1>3

(* Another segment does not take the place of one that is held. *)
LEMMA HeldStays ==
  ASSUME SP!TypeOK, NEW p \in Pdus, NEW q \in Pdus, HeldAs(p), p.number \in 1 .. p.count,
         S!FileSegment(q),
         p.ref = q.ref /\ p.number = q.number /\ p.count = q.count => p.body = q.body
  PROVE  HeldAs(p)'
<1>1. /\ DOMAIN refToSegments' = DOMAIN refToSegments \cup {q.ref}
      /\ \A r \in DOMAIN refToSegments \ {q.ref} : refToSegments'[r] = refToSegments[r]
      /\ Len(refToSegments'[q.ref].contents) = q.count
      /\ refToSegments'[q.ref].contents[q.number] = q.body
      /\ q.ref \in DOMAIN refToSegments =>
           /\ Len(refToSegments[q.ref].contents) = q.count
           /\ \A i \in 1 .. q.count : i # q.number =>
                refToSegments'[q.ref].contents[i] = refToSegments[q.ref].contents[i]
  BY FiledIs
<1>2. p.ref = q.ref => p.count = q.count
  BY <1>1 DEF HeldAs
<1>3. CASE p.ref = q.ref /\ p.number = q.number
  BY <1>1, <1>2, <1>3 DEF HeldAs
<1>4. CASE p.ref = q.ref /\ p.number # q.number
  BY <1>1, <1>2, <1>4 DEF HeldAs
<1>5. CASE p.ref # q.ref
  BY <1>1, <1>5 DEF HeldAs
<1>6. QED
  BY <1>3, <1>4, <1>5

(* A segment that is dealt with stays so: a group leaves the map only for the
   outbox, or with a failure that is logged for one of its segments. *)
LEMMA DoneStays ==
  ASSUME SamePlaceSameText, BothInv, GroupInv, [ServiceNext]_serviceVars, ~ ServiceRestart,
         NEW m \in Messages, S!IsFiled(Pdu[m]), Done(m)
  PROVE  Done(m)'
<1> DEFINE p == Pdu[m]
           b == Pdu[m].body
<1>0. p \in Pdus /\ p.number \in 1 .. p.count /\ p.count \in Nat
  BY ServiceAssumption, RelayAssumption DEF S!IsFiled, S!SmsAssumption, S!PduType
<1>1. ASSUME UNCHANGED <<refToSegments, outbox>>, failures \subseteq failures'
      PROVE  Done(m)'
  BY <1>1 DEF Done, HeldAs, Sent, Reported
<1>2. CASE Construct
  <2>1. PICK n \in Handled :
          /\ n \in Messages /\ Pdu[n] \in Pdus
          /\ UNCHANGED refToSegments \/ S!FileSegment(Pdu[n])
    BY <1>2, ConstructIs
  <2>2. UNCHANGED <<outbox, failures>>
    BY <1>2, ConstructIs
  <2>3. CASE UNCHANGED refToSegments
    BY <1>1, <2>2, <2>3
  <2>4. CASE S!FileSegment(Pdu[n]) /\ HeldAs(p)
    <3>1. S!IsFiled(Pdu[n])
      BY <2>4 DEF S!FileSegment
    <3>2. p.ref = Pdu[n].ref /\ p.number = Pdu[n].number /\ p.count = Pdu[n].count
            => p.body = Pdu[n].body
      BY <1>0, <2>1, <3>1 DEF SamePlaceSameText
    <3>3. HeldAs(p)'
      BY <1>0, <2>1, <2>4, <3>2, HeldStays DEF BothInv
    <3>4. QED
      BY <3>3 DEF Done
  <2>5. CASE ~ HeldAs(p)
    BY <2>2, <2>5 DEF Done, Sent, Reported
  <2>6. QED
    BY <2>1, <2>3, <2>4, <2>5
<1>3. CASE SendReturns \/ SendFails
  <2>0. failures \subseteq failures' /\ message # NoMessage
    BY <1>3, SendIs
  <2>1. CASE UNCHANGED <<refToSegments, outbox>>
    BY <1>1, <2>0, <2>1
  <2>2. CASE /\ S!Relayable(message) /\ refToSegments' = S!Extract(message)
             /\ \/ \E via : outbox' = Append(outbox, S!Outgoing(message, via))
                \/ UNCHANGED outbox /\ failures' = failures \cup Handled
    <3>1. Sent(b) # {} => Sent(b)' # {}
      BY <2>2, SentAppend DEF BothInv, Sent
    <3>2. Reported(m) => Reported(m)'
      BY <2>0 DEF Reported
    <3>3. ASSUME HeldAs(p), ~ (message.isSegment /\ message.reference = p.ref)
          PROVE  HeldAs(p)'
      BY <2>2, <3>3 DEF S!Extract, HeldAs
    <3>4. ASSUME HeldAs(p), message.isSegment, message.reference = p.ref
          PROVE  Sent(b)' # {} \/ Reported(m)'
      <4>1. CASE \E via : outbox' = Append(outbox, S!Outgoing(message, via))
        <5>1. PICK via : outbox' = Append(outbox, S!Outgoing(message, via))
          BY <4>1
        <5>2. S!Outgoing(message, via).parts = refToSegments[p.ref].contents
          BY <3>4 DEF S!Outgoing
        <5>3. p.number \in DOMAIN refToSegments[p.ref].contents
          <6>1. refToSegments[p.ref].contents \in Seq(Bodies)
            BY <3>4 DEF BothInv, SP!TypeOK, SP!SegmentCountAndContents, HeldAs
          <6>2. QED
            BY <1>0, <3>4, <6>1, LenProperties DEF HeldAs
        <5>4. refToSegments[p.ref].contents[p.number] = b
          BY <3>4 DEF HeldAs
        <5>5. QED
          BY <5>1, <5>2, <5>3, <5>4, SentAppend DEF BothInv
      <4>2. CASE failures' = failures \cup Handled
        <5>1. PICK f \in Handled : /\ Pdu[f].ref = message.reference
                                   /\ Pdu[f].count = Len(refToSegments[p.ref].contents)
          BY <2>0, <3>4 DEF GroupInv, HeldAs
        <5>2. Pdu[f].ref = p.ref /\ Pdu[f].count = p.count /\ f \in failures'
          BY <3>4, <4>2, <5>1 DEF HeldAs
        <5>3. QED
          BY <5>2 DEF Reported
      <4>3. QED
        BY <2>2, <4>1, <4>2
    <3>5. QED
      BY <3>1, <3>2, <3>3, <3>4 DEF Done
  <2>3. QED
    BY <1>3, <2>1, <2>2, SendIs
<1>4. CASE ~ Construct /\ ~ SendReturns /\ ~ SendFails
  BY <1>1, <1>4, OtherIs
<1>5. QED
  BY <1>2, <1>3, <1>4

(* A segment leaves the SIM card for sms_handler, and sms_handler for the map,
   the outbox or the log. *)
LEMMA KeptMove ==
  ASSUME LossInv, [ServiceNext]_serviceVars, ~ ServiceRestart, restarts = 0, disturbances' = 0,
         NEW m \in Messages, S!IsFiled(Pdu[m]), m \notin unsent',
         Stored(m) \/ InHandler(m) \/ ~ Received(m)
  PROVE  Stored(m)' \/ InHandler(m)' \/ Done(m)'
<1>0. /\ TInv /\ TurnInv /\ TalkInv /\ DeleteAsked /\ MessageInv /\ [Next]_vars
      /\ sim \in [Slots -> Messages \cup {Nothing}] /\ ~ Disturbance
  <2>1. disturbances = 0
    BY CalmStep DEF LossInv, BothInv
  <2>2. ~ Disturbance
    BY <2>1 DEF Disturbance
  <2>3. QED
    BY <2>1, <2>2, SessionSteps DEF LossInv, CalmInv, BothInv, TInv, WorldOK
<1>1. ASSUME UNCHANGED <<sim, smsContent, message, unsent>>
      PROVE  Stored(m)' \/ InHandler(m)'
  BY <1>1 DEF Stored, InHandler, Handled, Received
<1>2. CASE Construct
  <2>1. PICK n \in Handled :
          /\ Pdu[n] \in Pdus /\ \A k \in Handled : k = n
          /\ ~ S!IsFiled(Pdu[n]) \/ S!FileSegment(Pdu[n])
    BY <1>2, ConstructIs DEF LossInv
  <2>2. UNCHANGED <<sim, unsent>>
    BY <1>2, ConstructIs DEF LossInv
  <2>3. CASE InHandler(m)
    <3>1. n = m
      BY <2>1, <2>3 DEF InHandler
    <3>2. HeldAs(Pdu[m])'
      <4>1. /\ Pdu[m].ref \in DOMAIN refToSegments'
            /\ Len(refToSegments'[Pdu[m].ref].contents) = Pdu[m].count
            /\ refToSegments'[Pdu[m].ref].contents[Pdu[m].number] = Pdu[m].body
        BY <2>1, <3>1, FiledIs DEF LossInv, BothInv
      <4>2. UNCHANGED Pdu
        OBVIOUS
      <4>3. QED
        BY <4>1 DEF HeldAs
    <3>3. QED
      BY <3>2 DEF Done
  <2>4. CASE Stored(m)
    BY <2>2, <2>4 DEF Stored
  <2>5. QED
    BY <2>2, <2>3, <2>4 DEF Received
<1>3. CASE ConstructFails
  <2>1. UNCHANGED <<sim, unsent>> /\ failures' = failures \cup Handled
    BY <1>3 DEF ConstructFails, DropSms, worldVars
  <2>2. InHandler(m) => Reported(m)'
    BY <2>1 DEF InHandler, Reported
  <2>3. QED
    BY <2>1, <2>2 DEF Done, Stored, Received
<1>4. CASE SendReturns \/ SendFails
  <2>1. message # NoMessage /\ UNCHANGED sim
    BY <1>4, SendIs
  <2>2. UNCHANGED unsent
    BY <1>4 DEF SendReturns, SendFails, RelaySms, DropSms, worldVars
  <2>3. QED
    BY <2>1, <2>2 DEF InHandler, Stored, Received
<1>5. CASE SessionMain
  <2>1. UNCHANGED <<sim, message, unsent>>
    BY <1>5 DEF SessionMain, relayVars, SendCommand, Flush, Println, ReadLine, ReadOk, GiveUp,
                Return, Loop, LoopCmti, LoopOtherStore, LoopRing, LoopUnparsable,
                LoopVerifyFails, LoopAnswer, TakeLine, worldVars
  <2>2. smsContent # Nothing => UNCHANGED smsContent
    <3>1. CASE (ReadOk \/ GiveUp) /\ Head(script).op = "CMGR"
      <4>1. phase = "read"
        BY <3>1 DEF ReadOk, GiveUp
      <4>2. \A s \in Slots : script # <<Cmgd(s)>>
        BY <3>1 DEF Cmgd, Command
      <4>3. QED
        BY <1>0, <4>1, <4>2 DEF TalkInv, ContentKept
    <3>2. CASE ~ ((ReadOk \/ GiveUp) /\ Head(script).op = "CMGR")
      BY <1>5, <3>2 DEF SessionMain, SendCommand, Flush, Println, ReadLine, ReadOk, GiveUp,
                Return, Loop, LoopCmti, LoopOtherStore, LoopRing, LoopUnparsable,
                LoopVerifyFails, LoopAnswer, TakeLine
    <3>3. QED
      BY <3>1, <3>2
  <2>3. InHandler(m) => InHandler(m)'
    <3>1. Handled # {} => smsContent # Nothing
      BY DEF Handled, PduOf
    <3>2. QED
      BY <2>1, <2>2, <3>1 DEF InHandler, Handled
  <2>4. QED
    BY <2>1, <2>3 DEF Stored, Received
<1>6. CASE Execute /\ UNCHANGED <<relayVars, failures>>
  <2>1. UNCHANGED <<smsContent, message, unsent>>
    BY <1>6 DEF Execute, mainVars, relayVars
  <2>2. CASE Stored(m) /\ ~ Stored(m)'
    <3>1. PICK s \in Slots : sim[s] = m
      BY <2>2 DEF Stored
    <3>2. Head(tx) = Cmgd(s) /\ tx # <<>> /\ tx \in Seq(Sendable)
      <4>1. sim'[s] # m /\ m # Nothing
        BY <2>2, SessionAssumption DEF Stored
      <4>2. Head(tx).op = "CMGD" /\ Head(tx).arg = s /\ Head(tx) \in CommandType
        BY <1>0, <1>6, <3>1, <4>1, TxTail DEF Execute, TInv
      <4>3. QED
        BY <1>0, <1>6, <4>2, CommandFacts DEF Execute, TInv, LinesOK
    <3>3. script = <<Cmgd(s)>>
      BY <1>0, <3>2, HasTail DEF DeleteAsked
    <3>4. smsContent = Contents(m) /\ phase = "read"
      BY <1>0, <3>1, <3>2, <3>3 DEF TalkInv, Deleting, Silent, Asked, Answered
    <3>5. m \in Handled
      BY <3>4, ContentsHandled
    <3>6. message = NoMessage
      BY <1>0, <3>4 DEF MessageInv
    <3>7. QED
      BY <2>1, <3>5, <3>6 DEF InHandler, Handled
  <2>3. QED
    BY <2>1, <2>2 DEF InHandler, Handled, Received
<1>7. CASE ServiceNetwork
  <2>1. CASE IncomingCall
    BY <1>1, <1>7, <2>1 DEF ServiceNetwork, IncomingCall, mainVars, relayVars
  <2>2. ASSUME NEW n \in Messages, NEW s \in Slots, DeliverSms(n, s),
               UNCHANGED <<relayVars, failures>>
        PROVE  Stored(m)' \/ InHandler(m)'
    <3>1. /\ sim[s] = Nothing /\ sim' = [sim EXCEPT ![s] = n] /\ unsent' = unsent \ {n}
          /\ UNCHANGED <<smsContent, message>>
      BY <2>2 DEF DeliverSms, mainVars, relayVars
    <3>2. n = m => Stored(m)'
      BY <1>0, <3>1 DEF Stored
    <3>3. ASSUME NEW t \in Slots, sim[t] = m
          PROVE  sim'[t] = m
      <4>1. t # s
        BY <3>1, <3>3, SessionAssumption
      <4>2. QED
        BY <1>0, <3>1, <3>3, <4>1
    <3>4. Stored(m) => Stored(m)'
      BY <3>3 DEF Stored
    <3>5. InHandler(m) => InHandler(m)'
      BY <3>1 DEF InHandler, Handled
    <3>6. QED
      BY <3>1, <3>2, <3>4, <3>5 DEF Received
  <2>3. QED
    BY <1>7, <2>1, <2>2 DEF ServiceNetwork, Network
<1>8. CASE (WriteLine /\ UNCHANGED <<relayVars, failures>>) \/ UNCHANGED serviceVars
  BY <1>1, <1>8 DEF WriteLine, serviceVars, vars, mainVars, worldVars, relayVars
<1>9. CASE HandleNothing
  <2>1. UNCHANGED <<sim, unsent>> /\ Handled = {}
    BY <1>9 DEF HandleNothing, DropSms, worldVars
  <2>2. QED
    BY <2>1 DEF InHandler, Stored, Received
<1>10. CASE ServiceFront
  <2>1. UNCHANGED <<sim, unsent, message>> /\ smsContent' = smsContent
    BY <1>10 DEF ServiceFront, FrontEmplace, FrontEnd, SendPrompt, PromptFails, mainVars,
                 worldVars, relayVars
  <2>2. QED
    BY <1>1, <2>1
<1>11. QED
  BY <1>0, <1>2, <1>3, <1>4, <1>5, <1>6, <1>7, <1>8, <1>9, <1>10
     DEF ServiceNext, ServiceMain, ServiceModem, Modem

LEMMA KeptStep ==
  ASSUME SamePlaceSameText
  PROVE  LossInv /\ [ServiceNext]_serviceVars => KeptInv'
<1> SUFFICES ASSUME LossInv, [ServiceNext]_serviceVars, restarts' = 0,
                    NEW m \in Messages, S!IsFiled(Pdu[m])
             PROVE  /\ mailed'[m] > 0 => Done(m)'
                    /\ disturbances' = 0 /\ m \notin unsent' =>
                         Stored(m)' \/ InHandler(m)' \/ Done(m)'
  BY DEF KeptInv, Received, S!IsFiled
<1>1. ~ ServiceRestart /\ restarts = 0
  BY SessionSteps, RestartsGrow DEF LossInv, BothInv, ServiceRestart
<1>2. Done(m) => Done(m)'
  BY <1>1, DoneStays DEF LossInv
<1>3. mailed'[m] > 0 => Done(m)'
  BY <1>1, <1>2, MailedStep DEF LossInv, KeptInv
<1>4. ASSUME disturbances' = 0, m \notin unsent'
      PROVE  Stored(m)' \/ InHandler(m)' \/ Done(m)'
  <2>1. disturbances = 0
    BY <1>4, CalmStep DEF LossInv, BothInv
  <2>2. Stored(m) \/ InHandler(m) \/ ~ Received(m) \/ Done(m)
    BY <1>1, <2>1 DEF LossInv, KeptInv
  <2>3. QED
    BY <1>1, <1>2, <1>4, <2>2, KeptMove
<1>5. QED
  BY <1>3, <1>4

LEMMA LossInit == ServiceInit => LossInv
<1> SUFFICES ASSUME ServiceInit PROVE LossInv
  OBVIOUS
<1>1. Init /\ SP!Init /\ BothInv
  BY BothInit, SameInit DEF ServiceInit
<1>2. tx = <<>> /\ unsent = Messages /\ \A m \in Messages : ~ (mailed[m] > 0)
  BY <1>1 DEF Init
<1>3. DeleteAsked /\ KeptInv
  BY <1>2, HasNone DEF DeleteAsked, KeptInv, Received
<1>4. GroupInv
  BY <1>1 DEF SP!Init, SP!NoSegments, GroupInv
<1>5. QED
  BY <1>1, <1>3, <1>4, TalkInit DEF LossInv, CalmInv

LEMMA TalkAlways == ServiceSpec => [](BothInv /\ (disturbances = 0 => TalkInv))
<1>1. ServiceInit => BothInv /\ (disturbances = 0 => TalkInv)
  BY BothInit, TalkInit DEF ServiceInit
<1>2. BothInv /\ (disturbances = 0 => TalkInv) /\ [ServiceNext]_serviceVars
        => BothInv' /\ (disturbances = 0 => TalkInv)'
  BY BothStep, CalmStep, TalkStep DEF BothInv
<1>3. QED
  BY <1>1, <1>2, PTL DEF ServiceSpec

(* As long as the session is undisturbed, that is no call has ended before the
   answer was there, no code has come while the main thread was busy, and
   neither front-end nor power loss has interfered, sms_handler
   (service.cpp:260-283) finds the PDU of one delivered SMS in what AT+CMGR
   returned, also after a restart in the middle of an answer: it is the loop's
   flush and the boot commands that keep a stale line from being taken for the
   new one. *)
THEOREM HandlerHasPdu ==
  ServiceSpec =>
    [](disturbances = 0 /\ phase = "handle" => \E m \in Messages : Handled = {m})
<1>1. BothInv /\ (disturbances = 0 => TalkInv)
        => (disturbances = 0 /\ phase = "handle" => \E m \in Messages : Handled = {m})
  <2> SUFFICES ASSUME BothInv, TalkInv, phase = "handle"
               PROVE  \E m \in Messages : Handled = {m}
    OBVIOUS
  <2>1. PICK m \in Messages : smsContent = Contents(m)
    BY DEF TalkInv, Handling
  <2>2. m \in Handled
    BY <2>1, ContentsHandled
  <2>3. \A n \in Handled : n = m
    BY <2>2, HandledIs DEF BothInv
  <2>4. QED
    BY <2>2, <2>3
<1>2. QED
  BY <1>1, TalkAlways, PTL

(* Until the process is started again, a segment that sms_handler has returned
   from is in the map, in the outbox, or a failure was logged for its group,
   whatever disturbs the session: a group that was extracted has left or has
   failed for a segment of its own.  As long as nothing has disturbed the
   session this goes back to the network: the AT+CMGD that is sent whatever
   AT+CMGR returned (service.cpp:110-111) deletes only what is with sms_handler
   by then.  A disturbance does lose segments there, as RelayedOrStored of
   ModemSession shows.  The hypothesis is the network's part: a reference that
   comes again while an old group still waits under it, with as many segments,
   overwrites the old text (sms.cpp:424). *)
THEOREM SegmentsKept ==
  ASSUME SamePlaceSameText
  PROVE  ServiceSpec => []NothingLost
<1>1. ServiceInit => LossInv
  BY LossInit
<1>2. LossInv /\ [ServiceNext]_serviceVars => LossInv'
  <2> SUFFICES ASSUME LossInv, [ServiceNext]_serviceVars
               PROVE  LossInv'
    OBVIOUS
  <2>1. BothInv'
    BY BothStep DEF LossInv
  <2>2. ASSUME disturbances' = 0
        PROVE  TalkInv' /\ DeleteAsked'
    <3>1. CalmNext /\ [Next]_vars /\ TalkInv /\ DeleteAsked
      BY <2>2, CalmStep, SessionSteps DEF LossInv, CalmInv, BothInv
    <3>2. QED
      BY <3>1, TalkStep, DeleteAskedStep DEF LossInv, BothInv
  <2>3. GroupInv' /\ KeptInv'
    BY GroupStep, KeptStep DEF LossInv
  <2>4. QED
    BY <2>1, <2>2, <2>3 DEF LossInv, CalmInv
<1>3. LossInv => NothingLost
  <2>1. ASSUME LossInv, NEW m \in Messages, S!IsFiled(Pdu[m]), Done(m)
        PROVE  KeptOrReported(m)
    <3> DEFINE p == Pdu[m]
    <3>1. p.number \in 1 .. p.count
      BY <2>1, ServiceAssumption, RelayAssumption DEF S!IsFiled, S!SmsAssumption
    <3>2. ASSUME HeldAs(p)
          PROVE  Filed(p)
      <4>1. refToSegments[p.ref].contents \in Seq(Bodies)
        BY <2>1, <3>2 DEF LossInv, BothInv, SP!TypeOK, SP!SegmentCountAndContents, HeldAs
      <4>2. p.number \in DOMAIN refToSegments[p.ref].contents
        BY <3>1, <3>2, <4>1, LenProperties DEF HeldAs
      <4>3. QED
        BY <3>2, <4>2 DEF HeldAs, Filed
    <3>3. QED
      BY <2>1, <3>2 DEF Done, KeptOrReported
  <2>2. ASSUME LossInv, phase = "receive", NEW m \in Messages, disturbances = 0
        PROVE  ~ InHandler(m)
    <3>1. smsContent = Nothing
      BY <2>2, TalkIdle DEF LossInv, CalmInv, BothInv
    <3>2. QED
      BY <3>1 DEF InHandler, Handled, PduOf
  <2>3. QED
    BY <2>1, <2>2 DEF LossInv, KeptInv, NothingLost
<1>4. QED
  BY <1>1, <1>2, <1>3, PTL DEF ServiceSpec

-----------------------------------------------------------------------------
(* Service implements its two parts. *)

(* Split in two, sms_handler (service.cpp:260-283) is still that of the session:
   whatever ModemSession promises of the serial line, the SIM card and the
   responses holds with the class SMS in place of its one step. *)
THEOREM SessionImplemented == ServiceSpec => Spec
<1>1. ServiceInit => Init
  BY DEF ServiceInit
<1>2. QED
  BY <1>1, SessionSteps, PTL DEF ServiceSpec, Spec

(* Driven by the modem, with PDUs in the order in which AT+CMGR returns them,
   and stopped by restarts of the whole process, the class SMS implements the
   abstract reassembly (sms.cpp:125-164, 402-433): what leaves is whole. *)
THEOREM RelayImplemented ==
  ASSUME SP!NonEmptySegments
  PROVE  ServiceSpec => SP!ImplementsReassembly
<1>1. ServiceInit => BothInv /\ SP!Init
  BY BothInit, SameInit DEF ServiceInit
<1>2. BothInv /\ [ServiceNext]_serviceVars => BothInv'
  BY BothStep
<1>3. BothInv /\ [ServiceNext]_serviceVars => [SP!Next]_SP!vars
  <2> SUFFICES ASSUME BothInv, [ServiceNext]_serviceVars
               PROVE  SP!Next \/ UNCHANGED SP!vars
    OBVIOUS
  <2>1. Handled \subseteq Messages
    BY HandledIs DEF BothInv
  <2>2. \A m \in Handled : Pdu[m] \in Pdus
    BY <2>1, ServiceAssumption
  <2>3. QED
    BY <2>1, <2>2, RelaySteps DEF SP!Next, SP!ParsePdu
<1>4. SP!SmsAssumption /\ SP!NonEmptySegments => (SP!Spec => SP!ImplementsReassembly)
  BY SP!RelayImplementsReassembly
<1>5. SP!Spec => SP!ImplementsReassembly
  BY <1>4, SameAssumption
<1>6. QED
  BY <1>1, <1>2, <1>3, <1>5, PTL DEF ServiceSpec, SP!Spec
=============================================================================
