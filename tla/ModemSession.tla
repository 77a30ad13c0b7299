---------------------------- MODULE ModemSession ----------------------------
(***************************************************************************)
(* The conversation of the Service class (service.cpp) with the SIM7600    *)
(* modem: the main thread, which runs loop and, inside it,                 *)
(* send_command_get_respond and sms_handler; the daemon thread, which runs *)
(* frontend_request_handler; the modem with its SIM card; the network and  *)
(* the front-end program.                                                  *)
(*                                                                         *)
(* Both threads write to one serial port without a lock, and the modem     *)
(* writes its answers and its unsolicited codes to the same line, so what  *)
(* a reader finds there need not be the answer to what it asked.  The      *)
(* serial line carries whole lines, without the bytes 26, 0 and 4: a call  *)
(* that ends at one of them, as in CommandResponse, is one that gives up   *)
(* before the rest has come.  An SMS is a member of Messages.              *)
(***************************************************************************)
EXTENDS Naturals, Sequences

CONSTANTS
  Messages,     \* the SMSs the network delivers, each once
  Slots,        \* the storage places for SMSs
  OtherPlaces,  \* those of them that are not in the store "SM"
  Requests,     \* the commands of the front-end, each sent once
  Strict,       \* the requests that name the respond they expect
  Nothing,      \* no message, no request, no response
  MaxCalls,     \* bound: incoming phone calls
  MaxRestarts,  \* bound: how often the process ends and starts again
  MaxResets,    \* bound: how often the modem loses its power
  MayTimeOut,   \* the modem may answer later than send_command_get_respond waits
  BusyCodes,    \* unsolicited codes may come while the main thread is busy
  MailMayFail   \* send_email may throw

ASSUME SessionAssumption ==
  /\ OtherPlaces \subseteq Slots
  /\ Strict \subseteq Requests
  /\ Nothing \notin Messages \cup Requests
  /\ MaxCalls \in Nat
  /\ MaxRestarts \in Nat
  /\ MaxResets \in Nat
  /\ {MayTimeOut, BusyCodes, MailMayFail} \subseteq BOOLEAN

VARIABLES
  phase,       \* where the main thread is
  script,      \* the commands the main thread has still to send, in order
  oss,         \* the lines send_command_get_respond has collected
  smsContent,  \* what the AT+CMGR of this CMTI returned
  queue,       \* m_incoming_commands
  prompting,   \* the request and the line m_pipe.send is passing on
  daemon,      \* the request the daemon has printed but not yet queued
  tx,          \* commands on their way to the modem
  out,         \* lines the modem has still to write
  rx,          \* lines in the receive buffer of the serial port
  sim,         \* what each place holds
  unsent,      \* messages the network has not delivered yet
  waiting,     \* requests the front-end has not sent yet
  calls,       \* history: phone calls so far
  restarts,    \* history: restarts so far
  resets,      \* history: power losses of the modem so far
  readOut,     \* history: messages the modem has read out for an AT+CMGR
  mailed,      \* history: how often each message was relayed
  prompts      \* history: what the front-end was told, with the request meant

mainVars == <<phase, script, oss, smsContent, prompting>>
lineVars == <<tx, out, rx>>
worldVars == <<sim, unsent, waiting, calls, restarts, resets, readOut,
              mailed, prompts>>
vars == <<mainVars, queue, daemon, lineVars, worldVars>>

Phases == {"receive", "flush", "println", "read", "handle", "prompt"}

Ops == {"CMGF", "CNMI", "CMGR", "CMGD", "request"}

Command(op, arg) == [op |-> op, arg |-> arg]

(* AT+CMGR and AT+CMGD name a place, a request stands for itself. *)
CommandType == [op : Ops, arg : Slots \cup Requests \cup {Nothing}]

Kinds == {"+CMTI", "+CMGR", "PDU", "OK", "ERROR", "answer", "RING", "+CLIP"}

Line(kind, of) == [kind |-> kind, of |-> of]

LineType == [kind : Kinds, of : Slots \cup Messages \cup Requests \cup {Nothing}]

PromptType == [request : Requests, line : LineType]

(* nullopt is no text. *)
ASSUME NothingAssumption == Nothing \notin Seq(LineType)

(* loop begins with PDU mode and the reporting of new messages. *)
Boot == <<Command("CMGF", Nothing), Command("CNMI", Nothing)>>

TypeOK ==
  /\ phase \in Phases
  /\ script \in Seq(CommandType)
  /\ oss \in Seq(LineType)
  /\ smsContent \in Seq(LineType) \cup {Nothing}
  /\ queue \in Seq(Requests)
  /\ prompting \in PromptType \cup {Nothing}
  /\ daemon \in Requests \cup {Nothing}
  /\ tx \in Seq(CommandType)
  /\ out \in Seq(LineType)
  /\ rx \in Seq(LineType)
  /\ sim \in [Slots -> Messages \cup {Nothing}]
  /\ unsent \subseteq Messages
  /\ waiting \subseteq Requests
  /\ calls \in Nat
  /\ restarts \in Nat
  /\ resets \in Nat
  /\ readOut \subseteq Messages
  /\ mailed \in [Messages -> Nat]
  /\ prompts \in Seq(PromptType)

Init ==
  /\ phase = "flush"
  /\ script = Boot
  /\ oss = <<>>
  /\ smsContent = Nothing
  /\ queue = <<>>
  /\ prompting = Nothing
  /\ daemon = Nothing
  /\ tx = <<>>
  /\ out = <<>>
  /\ rx = <<>>
  /\ sim = [s \in Slots |-> Nothing]
  /\ unsent = Messages
  /\ waiting = Requests
  /\ calls = 0
  /\ restarts = 0
  /\ resets = 0
  /\ readOut = {}
  /\ mailed = [m \in Messages |-> 0]
  /\ prompts = <<>>

-----------------------------------------------------------------------------
(* send_command_get_respond, for the command at the head of script *)

(* Whatever has arrived so far is dropped. *)
Flush ==
  /\ phase = "flush"
  /\ rx' = <<>>
  /\ phase' = "println"
  /\ UNCHANGED <<script, oss, smsContent, prompting, queue, daemon, tx, out,
                 worldVars>>

Println ==
  /\ phase = "println"
  /\ tx' = Append(tx, Head(script))
  /\ oss' = <<>>
  /\ phase' = "read"
  /\ UNCHANGED <<script, smsContent, prompting, queue, daemon, out, rx,
                 worldVars>>

(* Mutant of Return: sms_handler is not called. *)
ReturnUnhandled(response) ==
  /\ script' = Tail(script)
  /\ smsContent' = Nothing
  /\ phase' = IF Tail(script) # <<>> THEN "flush" ELSE "receive"
  /\ oss' = <<>>
  /\ UNCHANGED <<prompting, queue, daemon, tx, out, worldVars>>

(* The call returns response, and loop goes on: with the next command, or
   with sms_handler after the AT+CMGD of a CMTI, or with the next line. *)
Return(response) ==
  LET command == Head(script)
  IN  /\ script' = Tail(script)
      /\ smsContent' = IF command.op = "CMGR" THEN response ELSE smsContent
      /\ phase' = CASE Tail(script) # <<>>  -> "flush"
                    [] command.op = "CMGD"  -> "handle"
                    [] OTHER                -> "receive"
      /\ oss' = <<>>
      /\ UNCHANGED <<prompting, queue, daemon, tx, out, worldVars>>

(* Any line without "OK" belongs to the response. *)
ReadLine ==
  /\ phase = "read"
  /\ rx # <<>>
  /\ Head(rx).kind # "OK"
  /\ oss' = Append(oss, Head(rx))
  /\ rx' = Tail(rx)
  /\ UNCHANGED <<phase, script, smsContent, prompting, queue, daemon, tx, out,
                 worldVars>>

(* The first "OK" ends it, whoever caused it. *)
ReadOk ==
  /\ phase = "read"
  /\ rx # <<>>
  /\ Head(rx).kind = "OK"
  /\ rx' = Tail(rx)
  /\ Return(oss)

(* Mutant of GiveUp: the time limit holds only until the first line. *)
GiveUpOnSilence ==
  /\ phase = "read"
  /\ rx = <<>>
  /\ oss = <<>>
  /\ MayTimeOut \/ (tx = <<>> /\ out = <<>>)
  /\ UNCHANGED rx
  /\ Return(Nothing)

(* Mutant of GiveUp: the lines so far are returned. *)
GiveUpWithLines ==
  /\ phase = "read"
  /\ rx = <<>>
  /\ MayTimeOut \/ (tx = <<>> /\ out = <<>>)
  /\ UNCHANGED rx
  /\ Return(oss)

(* Nothing to read and no time left: nullopt.  The time can run out while
   the modem still has something to say only if MayTimeOut. *)
GiveUp ==
  /\ phase = "read"
  /\ rx = <<>>
  /\ MayTimeOut \/ (tx = <<>> /\ out = <<>>)
  /\ UNCHANGED rx
  /\ Return(Nothing)

-----------------------------------------------------------------------------
(* sms_handler *)

(* The text after the second newline is the PDU: it is one only if exactly
   one line came before it. *)
PduOf(response) ==
  IF response # Nothing /\ Len(response) = 2 /\ response[2].kind = "PDU"
  THEN {response[2].of}
  ELSE {}

HandlerReturns ==
  /\ phase = "handle"
  /\ phase' = "receive"
  /\ smsContent' = Nothing
  /\ UNCHANGED <<script, oss, prompting, queue, daemon, lineVars>>

(* Mutant of RelaySms: mailed, but taken for a failure and tried again. *)
RelaySmsAgain ==
  /\ phase = "handle"
  /\ \E m \in PduOf(smsContent) : mailed' = [mailed EXCEPT ![m] = @ + 1]
  /\ phase' \in {"handle", "receive"}
  /\ \A m \in Messages : mailed[m] < 2
  /\ UNCHANGED <<script, oss, smsContent, prompting, queue, daemon, lineVars,
                 sim, unsent, waiting, calls, restarts, resets, readOut, prompts>>

RelaySms ==
  /\ HandlerReturns
  /\ \E m \in PduOf(smsContent) : mailed' = [mailed EXCEPT ![m] = @ + 1]
  /\ UNCHANGED <<sim, unsent, waiting, calls, restarts, resets, readOut, prompts>>

(* No message returned, or SMSParseError, or EmailError: only logged. *)
DropSms ==
  /\ HandlerReturns
  /\ MailMayFail \/ PduOf(smsContent) = {}
  /\ UNCHANGED worldVars

-----------------------------------------------------------------------------
(* loop: the next line of the serial port *)

TakeLine ==
  /\ phase = "receive"
  /\ rx # <<>>
  /\ rx' = Tail(rx)
  /\ UNCHANGED <<oss, smsContent, daemon, tx, out, worldVars>>

(* Mutant of LoopCmti: the place is cleared before it is read. *)
LoopCmtiDeletesFirst ==
  /\ TakeLine
  /\ Head(rx).kind = "+CMTI"
  /\ Head(rx).of \notin OtherPlaces
  /\ script' = << Command("CMGD", Head(rx).of), Command("CMGR", Head(rx).of) >>
  /\ phase' = "flush"
  /\ UNCHANGED <<prompting, queue>>

(* +CMTI: "SM",<place>: read the message, delete it, handle it. *)
LoopCmti ==
  /\ TakeLine
  /\ Head(rx).kind = "+CMTI"
  /\ Head(rx).of \notin OtherPlaces
  /\ script' = << Command("CMGR", Head(rx).of), Command("CMGD", Head(rx).of) >>
  /\ phase' = "flush"
  /\ UNCHANGED <<prompting, queue>>

(* A +CMTI of another store: "Unparsable number". *)
LoopOtherStore ==
  /\ TakeLine
  /\ Head(rx).kind = "+CMTI"
  /\ Head(rx).of \in OtherPlaces
  /\ UNCHANGED <<phase, script, prompting, queue>>

(* RING: a log entry, no more. *)
LoopRing ==
  /\ TakeLine
  /\ Head(rx).kind = "RING"
  /\ UNCHANGED <<phase, script, prompting, queue>>

IsAnswer(line) == line.kind \notin {"+CMTI", "RING"}

(* verify: the line equals the expected respond, if there is one. *)
Verified(request, line) ==
  request \in Strict => line = Line("answer", request)

(* No request is pending: "Unparsable content from serial port". *)
LoopUnparsable ==
  /\ TakeLine
  /\ IsAnswer(Head(rx))
  /\ queue = <<>>
  /\ UNCHANGED <<phase, script, prompting, queue>>

(* UnexpectedATResponse: the request is popped and gets no prompt. *)
LoopVerifyFails ==
  /\ TakeLine
  /\ IsAnswer(Head(rx))
  /\ queue # <<>>
  /\ ~ Verified(Head(queue), Head(rx))
  /\ queue' = Tail(queue)
  /\ UNCHANGED <<phase, script, prompting>>

(* Mutant of LoopAnswer: the request is looked at, not popped. *)
LoopAnswerKeeps ==
  /\ TakeLine
  /\ IsAnswer(Head(rx))
  /\ queue # <<>>
  /\ Verified(Head(queue), Head(rx))
  /\ prompting' = [request |-> Head(queue), line |-> Head(rx)]
  /\ phase' = "prompt"
  /\ UNCHANGED <<script, queue>>

(* The line goes to the front-end; m_cmd_queue_mtx is held meanwhile. *)
LoopAnswer ==
  /\ TakeLine
  /\ IsAnswer(Head(rx))
  /\ queue # <<>>
  /\ Verified(Head(queue), Head(rx))
  /\ queue' = Tail(queue)
  /\ prompting' = [request |-> Head(queue), line |-> Head(rx)]
  /\ phase' = "prompt"
  /\ UNCHANGED script

(* CommandPipe::send returns once a front-end has opened its FIFO: when it
   does, if it ever does.  Until then the mutex is held. *)
SendPrompt ==
  /\ phase = "prompt"
  /\ prompts' = Append(prompts, prompting)
  /\ prompting' = Nothing
  /\ phase' = "receive"
  /\ UNCHANGED <<script, oss, smsContent, queue, daemon, lineVars, sim, unsent,
                 waiting, calls, restarts, resets, readOut, mailed>>

(* PipeError: the FIFO cannot be opened; only logged. *)
PromptFails ==
  /\ phase = "prompt"
  /\ prompting' = Nothing
  /\ phase' = "receive"
  /\ UNCHANGED <<script, oss, smsContent, queue, daemon, lineVars, worldVars>>

-----------------------------------------------------------------------------
(* frontend_request_handler, on the daemon thread: println before the lock.
   Requests are commands; a message that is none is returned from without a
   change (CommandChannel has it). *)

FrontPrintln(request) ==
  /\ request \in waiting
  /\ daemon = Nothing
  /\ waiting' = waiting \ {request}
  /\ tx' = Append(tx, Command("request", request))
  /\ daemon' = request
  /\ UNCHANGED <<mainVars, queue, out, rx, sim, unsent, calls, restarts,
                 resets, readOut, mailed, prompts>>

(* Mutant of FrontEmplace: it does not wait for a request. *)
FrontEmplaceAlways ==
  /\ phase # "prompt"
  /\ Len(queue) < 2
  /\ queue' = Append(queue, daemon)
  /\ daemon' = Nothing
  /\ UNCHANGED <<mainVars, lineVars, worldVars>>

(* Mutant of FrontEmplace: the mutex is not taken. *)
FrontEmplaceUnlocked ==
  /\ daemon # Nothing
  /\ queue' = Append(queue, daemon)
  /\ daemon' = Nothing
  /\ UNCHANGED <<mainVars, lineVars, worldVars>>

FrontEmplace ==
  /\ daemon # Nothing
  /\ phase # "prompt"
  /\ queue' = Append(queue, daemon)
  /\ daemon' = Nothing
  /\ UNCHANGED <<mainVars, lineVars, worldVars>>

-----------------------------------------------------------------------------
(* The modem, the network and the process's end *)

Response(command) ==
  CASE command.op = "CMGR" ->
         IF sim[command.arg] = Nothing
         THEN <<Line("ERROR", Nothing)>>
         ELSE << Line("+CMGR", Nothing), Line("PDU", sim[command.arg]),
                 Line("OK", Nothing) >>
    [] command.op = "request" ->
         <<Line("answer", command.arg), Line("OK", Nothing)>>
    [] OTHER -> <<Line("OK", Nothing)>>

(* One command at a time, in the order they arrive *)
Execute ==
  /\ tx # <<>>
  /\ out = <<>>
  /\ LET command == Head(tx)
     IN  /\ out' = Response(command)
         /\ readOut' = IF command.op = "CMGR"
                       THEN readOut \cup ({sim[command.arg]} \ {Nothing})
                       ELSE readOut
         /\ sim' = IF command.op = "CMGD"
                   THEN [sim EXCEPT ![command.arg] = Nothing]
                   ELSE sim
  /\ tx' = Tail(tx)
  /\ UNCHANGED <<mainVars, queue, daemon, rx, unsent, waiting, calls, restarts,
                 resets, mailed, prompts>>

WriteLine ==
  /\ out # <<>>
  /\ rx' = Append(rx, Head(out))
  /\ out' = Tail(out)
  /\ UNCHANGED <<mainVars, queue, daemon, tx, worldVars>>

(* Unsolicited codes never split a response; without BusyCodes they come
   only when the main thread is waiting for them. *)
CodeAllowed ==
  /\ out = <<>>
  /\ BusyCodes \/ (phase = "receive" /\ tx = <<>> /\ rx = <<>>)

DeliverSms(m, s) ==
  /\ CodeAllowed
  /\ m \in unsent
  /\ sim[s] = Nothing
  /\ sim' = [sim EXCEPT ![s] = m]
  /\ unsent' = unsent \ {m}
  /\ rx' = Append(rx, Line("+CMTI", s))
  /\ UNCHANGED <<mainVars, queue, daemon, tx, out, waiting, calls, restarts,
                 resets, readOut, mailed, prompts>>

IncomingCall ==
  /\ CodeAllowed
  /\ calls < MaxCalls
  /\ calls' = calls + 1
  /\ rx' = rx \o <<Line("RING", Nothing), Line("+CLIP", Nothing)>>
  /\ UNCHANGED <<mainVars, queue, daemon, tx, out, sim, unsent, waiting,
                 restarts, resets, readOut, mailed, prompts>>

(* The process ends, by a signal or because the port is closed, and systemd
   starts it again.  Modem and SIM card go on. *)
Restart ==
  /\ restarts < MaxRestarts
  /\ restarts' = restarts + 1
  /\ phase' = "flush"
  /\ script' = Boot
  /\ oss' = <<>>
  /\ smsContent' = Nothing
  /\ queue' = <<>>
  /\ prompting' = Nothing
  /\ daemon' = Nothing
  /\ rx' = <<>>
  /\ UNCHANGED <<tx, out, sim, unsent, waiting, calls, resets, readOut, mailed,
                 prompts>>

(* The modem loses what it was told and what it was about to say. *)
ModemReset ==
  /\ resets < MaxResets
  /\ resets' = resets + 1
  /\ tx' = <<>>
  /\ out' = <<>>
  /\ UNCHANGED <<mainVars, queue, daemon, rx, sim, unsent, waiting, calls,
                 restarts, readOut, mailed, prompts>>

-----------------------------------------------------------------------------
SendCommand == Flush \/ Println \/ ReadLine \/ ReadOk \/ GiveUp

SmsHandler == RelaySms \/ DropSms

Loop ==
  \/ LoopCmti \/ LoopOtherStore \/ LoopRing
  \/ LoopUnparsable \/ LoopVerifyFails \/ LoopAnswer

MainThread == SendCommand \/ SmsHandler \/ Loop

FrontEnd == SendPrompt \/ PromptFails

Modem == Execute \/ WriteLine

Environment ==
  \/ \E m \in Messages, s \in Slots : DeliverSms(m, s)
  \/ IncomingCall
  \/ \E request \in Requests : FrontPrintln(request)
  \/ Restart
  \/ ModemReset

Next == MainThread \/ FrontEnd \/ FrontEmplace \/ Modem \/ Environment

Spec == Init /\ [][Next]_vars

(* Both threads run and the modem works.  Nothing obliges the network, the
   caller or the user, nor a front-end to read what it is sent. *)
Fairness ==
  /\ WF_vars(MainThread)
  /\ WF_vars(FrontEmplace)
  /\ WF_vars(Modem)

FairSpec == Spec /\ Fairness

-----------------------------------------------------------------------------
(* Properties *)

Stored(m) == \E s \in Slots : sim[s] = m

(* No SMS is relayed twice, however late the modem answers, whatever the
   front-end sends in between and whenever the process starts again. *)
RelayedAtMostOnce == \A m \in Messages : mailed[m] <= 1

(* The AT+CMGD of a CMTI is sent whether or not its AT+CMGR succeeded.  Still,
   unless the modem loses a command, it deletes only a message the modem has
   read out before, and never a newer one that took the place. *)
DeletedAfterReadOut ==
  \A m \in Messages : m \in unsent \/ Stored(m) \/ m \in readOut

(* README.md:9: an SMS that is gone from the SIM card when the main thread is
   back in loop has been relayed. *)
RelayedOrStored ==
  phase = "receive" =>
    \A m \in Messages : m \in unsent \/ Stored(m) \/ mailed[m] > 0

(* README.md:9: an SMS that is on the SIM card will be relayed. *)
StoredIsRelayed == \A m \in Messages : Stored(m) ~> mailed[m] > 0

(* send_command_get_respond always ends: the main thread comes back to reading
   the serial port again and again, but for one reason.  A prompt that no
   front-end fetches holds it, and m_cmd_queue_mtx, for ever. *)
LoopReturns == []<>(phase = "receive") \/ <>[](phase = "prompt")

(* The refinement mapping: what is heard are lines, an OK ends an answer, and
   sms_handler gets the text. *)
LastIsOk(lines) == lines[Len(lines)].kind = "OK"

BeforeOk(lines) == SubSeq(lines, 1, Len(lines) - 1)

QuitsAtLine(line) == FALSE

C == INSTANCE ModemCall WITH
       Ends     <- LastIsOk,
       Text     <- BeforeOk,
       Quits    <- QuitsAtLine,
       stage    <- CASE phase = "flush"   -> "flush"
                     [] phase = "println" -> "print"
                     [] phase = "read"    -> "read"
                     [] OTHER             -> "idle",
       buffer   <- rx,
       heard    <- IF phase = "read" THEN oss ELSE <<>>,
       response <- IF smsContent = Nothing THEN <<>> ELSE <<smsContent>>

(* The calls of the session are the calls that CommandResponse implements with
   bytes and a clock: what sms_handler gets was read after the flush of
   AT+CMGR and before the first OK, or is nothing. *)
ImplementsCall == C!Spec

(* A request gets one prompt at most: the lines that follow its answer, the
   final OK or a +CLIP, go to later requests or to nobody, and those of a
   process that has ended reach none of its requests. *)
PromptedAtMostOnce ==
  \A j, k \in DOMAIN prompts : prompts[j].request = prompts[k].request => j = k

(* The refinement mapping: every command has one request. *)
RequestOf(request) == IF request = Nothing THEN {} ELSE {request}

Q == INSTANCE CommandQueue WITH
       fresh    <- waiting,
       printing <- RequestOf(daemon),
       queue    <- [i \in DOMAIN queue |-> {queue[i]}],
       held     <- phase = "prompt"

(* The two threads of the session keep the queue that CommandChannel keeps:
   whatever the modem says in between, lines are given to the oldest request,
   and a request leaves the queue with the first line it is given. *)
ImplementsQueue == Q!Spec

(* service.cpp:149: what the front-end is told is the result of the command
   it is told it for. *)
PromptAnswersItsCommand ==
  \A k \in DOMAIN prompts :
    prompts[k].line = Line("answer", prompts[k].request)
=============================================================================
