------------------------------- MODULE Service -------------------------------
(***************************************************************************)
(* The relay from the network to the mail: ModemSession, whose sms_handler *)
(* is one step, composed with SmsRelay, which says what its two calls, the *)
(* constructor of SMS and send_email, do.  Each SMS of the session carries *)
(* a PDU, and several SMSs may carry the same one: the network repeats     *)
(* itself.  An exception of either call ends the handler with a log entry. *)
(*                                                                         *)
(* What can come between AT+CMGR and its answer is counted: a call that    *)
(* ends before the answer is there, a code while the main thread is busy,  *)
(* a command of the front-end, a loss of the modem's power.                *)
(***************************************************************************)
EXTENDS ModemSession, FiniteSets

CONSTANTS
  Bodies, NoText, NoMessage, Pdus, Faults, MaxArrivals,  \* as in SmsRelay
  Pdu,             \* the PDU each SMS carries
  MaxDisturbances  \* bound: how often the session is disturbed or restarted

ASSUME ServiceAssumption == Pdu \in [Messages -> Pdus] /\ MaxDisturbances \in Nat

VARIABLES
  refToSegments, emailConfig, message, outbox, arrivals, accepted,
  failures,     \* history: SMSs whose handling ended with an exception
  disturbances  \* history: how often the session was disturbed

relayVars == <<refToSegments, emailConfig, message, outbox, arrivals, accepted>>
serviceVars == <<vars, relayVars, failures, disturbances>>

S == INSTANCE SmsRelay

ASSUME RelayAssumption == S!SmsAssumption /\ NoMessage \notin S!MessageType

ServiceInit == Init /\ S!Init /\ failures = {} /\ disturbances = 0

(* The SMS sms_handler was called with, if what was read is one *)
Handled == PduOf(smsContent)

(* AT+CMGR returned nothing, or no PDU: a log entry. *)
HandleNothing ==
  /\ DropSms
  /\ Handled = {}
  /\ UNCHANGED <<relayVars, failures, disturbances>>

(* SMS message(pdu): the object exists until the handler returns. *)
Construct ==
  /\ phase = "handle"
  /\ \E m \in Handled : S!ParseSingle(Pdu[m]) \/ S!FileSegment(Pdu[m])
  /\ UNCHANGED <<vars, failures, disturbances>>

(* SMSParseError *)
ConstructFails ==
  /\ DropSms
  /\ \E m \in Handled : S!RejectPdu(Pdu[m])
  /\ failures' = failures \cup Handled
  /\ UNCHANGED disturbances

(* A mail, a log entry, or a group that waits for more *)
SendReturns ==
  /\ RelaySms
  /\ \/ \E cfg \in {"valid", "invalid"} : S!SkipIncomplete(cfg)
     \/ S!LogOnly
     \/ S!MailSent
  /\ UNCHANGED <<failures, disturbances>>

(* EmailError, or what reading the configuration throws *)
SendFails ==
  /\ DropSms
  /\ \/ \E cfg \in {"valid", "invalid"} : S!CurlInitFails(cfg)
     \/ S!ConfigThrows
     \/ S!MailFails
  /\ failures' = failures \cup Handled
  /\ UNCHANGED disturbances

(* The call has read all there is, and the modem is not done with it. *)
AnswerToCome == phase = "read" /\ rx = <<>> /\ (tx # <<>> \/ out # <<>>)

AtRest == phase = "receive" /\ tx = <<>> /\ rx = <<>>

Network == IncomingCall \/ \E m \in Messages, s \in Slots : DeliverSms(m, s)

(* Everything but sms_handler is a step of the session alone. *)
SessionMain ==
  /\ SendCommand \/ Loop
  /\ ~ AnswerToCome
  /\ UNCHANGED <<relayVars, failures, disturbances>>

ServiceMain ==
  \/ SessionMain
  \/ HandleNothing
  \/ Construct \/ ConstructFails
  \/ SendReturns \/ SendFails

ServiceModem == Modem /\ UNCHANGED <<relayVars, failures, disturbances>>

ServiceFront ==
  /\ FrontEmplace \/ FrontEnd
  /\ UNCHANGED <<relayVars, failures, disturbances>>

Undisturbed == restarts + disturbances = 0

MayDisturb == restarts + disturbances < MaxDisturbances

(* What memory held is gone, the SIM card and the mails are not. *)
ServiceRestart ==
  /\ MayDisturb
  /\ Restart /\ S!Restart
  /\ UNCHANGED <<failures, disturbances>>

ServiceNetwork ==
  /\ AtRest
  /\ Network
  /\ UNCHANGED <<relayVars, failures, disturbances>>

Disturbance ==
  /\ MayDisturb
  /\ disturbances' = disturbances + 1
  /\ \/ AnswerToCome /\ GiveUp
     \/ ~ AtRest /\ Network
     \/ \E request \in Requests : FrontPrintln(request)
     \/ ModemReset
  /\ UNCHANGED <<relayVars, failures>>

ServiceNext ==
  \/ ServiceMain \/ ServiceModem \/ ServiceFront
  \/ ServiceNetwork \/ ServiceRestart
  \/ Disturbance

(* As in ModemSession *)
ServiceSpec ==
  /\ ServiceInit /\ [][ServiceNext]_serviceVars
  /\ WF_serviceVars(ServiceMain)
  /\ WF_serviceVars(ServiceModem)

-----------------------------------------------------------------------------
(* Properties *)

Received(m) == m \notin unsent

Sent(body) ==
  {k \in DOMAIN outbox : \E i \in DOMAIN outbox[k].parts : outbox[k].parts[i] = body}

Filed(p) ==
  /\ p.ref \in DOMAIN refToSegments
  /\ p.number \in DOMAIN refToSegments[p.ref].contents
  /\ refToSegments[p.ref].contents[p.number] = p.body

(* A failure that was logged for this SMS or for another segment of the same
   long SMS *)
Reported(m) ==
  \E f \in failures : f = m \/ (Pdu[f].ref = Pdu[m].ref /\ Pdu[f].count = Pdu[m].count)

(* No text leaves more often than the network delivered an SMS with it,
   although place and reference are used again, segments are repeated, answers
   come late or mixed with codes and other answers, and the process may end
   between reading, deleting, filing and mailing. *)
SentOnce ==
  \A body \in Bodies \ {NoText} :
    Cardinality(Sent(body)) <= Cardinality({m \in Messages : Received(m)
                                                           /\ Pdu[m].body = body})

KeptOrReported(m) ==
  Filed(Pdu[m]) \/ Sent(Pdu[m].body) # {} \/ Reported(m)

(* README.md:9, from the network to the outbox.  A segment that sms_handler
   has dealt with stays in the map until it is in the outbox, unless a failure
   was logged, whatever disturbs the session.  If nothing has, each segment
   the network has delivered is that far, or on the SIM card, when the main
   thread is back in loop. *)
NothingLost ==
  restarts = 0 =>
    \A m \in {n \in Messages : S!IsFiled(Pdu[n])} :
      /\ mailed[m] > 0 => KeptOrReported(m)
      /\ disturbances = 0 /\ phase = "receive" /\ Received(m) =>
           Stored(m) \/ KeptOrReported(m)

(* Every SMS on the SIM card reaches sms_handler, unless the session was
   disturbed. *)
StoredIsHandled ==
  \A m \in Messages :
    Stored(m) ~> (mailed[m] > 0 \/ m \in failures \/ ~ Undisturbed)

(* One SMS for every number of the long SMS that m belongs to *)
AllReceived(m) ==
  \A i \in 1 .. Pdu[m].count :
    \E n \in Messages : /\ Received(n)
                        /\ Pdu[n].ref = Pdu[m].ref
                        /\ Pdu[n].count = Pdu[m].count
                        /\ Pdu[n].number = i

Relayed(m) ==
  \E k \in DOMAIN outbox :
    /\ outbox[k].isSegment
    /\ outbox[k].reference = Pdu[m].ref
    /\ Len(outbox[k].parts) = Pdu[m].count
    /\ outbox[k].parts[Pdu[m].number] = Pdu[m].body

(* README.md:9 for a long SMS: when the network has delivered the last of its
   segments, in whatever order and with whatever repetitions, the whole text
   is relayed, unless a failure was logged, the process was restarted or the
   session disturbed. *)
LongSmsRelayed ==
  \A m \in {n \in Messages : S!IsFiled(Pdu[n])} :
    AllReceived(m) ~>
      (Relayed(m) \/ failures # {} \/ ~ Undisturbed)
=============================================================================
