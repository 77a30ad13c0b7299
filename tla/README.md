# Formal models of CellurlarRelay

The service of this repository runs on a Raspberry Pi, talks to a SIM7600 modem
over a serial line, and relays incoming SMSs by mail. These modules model its
control flow and its conversions in TLA+, TLC checks them on small instances, and
TLAPS proves what holds for every instance.

Run a check with `tlc -config MCSmsRelay_faults.cfg MCSmsRelay`, the proofs with
`tlapm SmsRelayProofs.tla`. PROJECT.json lists every run with its configuration, and
for each definition the lines of the source it translates.

## Inventory

| component | state | operations | talks to | modelled by |
|---|---|---|---|---|
| `SMS` (sms.cpp, sms.hpp) | static `ref_to_segments`, `config_init`, `email_config`; per object `is_segment`, `reference`, `content` | constructor from a PDU, `send_email` | `Options::Email`, libcurl | `SmsRelay`, `Service` |
| modem session: `Service::loop`, `send_command_get_respond`, `sms_handler` (service.cpp) | position in the code, lines collected so far | read a line, send a command and wait for OK, handle an SMS | serial port, `SMS`, queue | `ModemSession`, `CommandResponse`, `Service` |
| front-end commands: `frontend_request_handler`, `m_incoming_commands` (service.cpp) | queue, mutex | print, then queue; pop, verify, prompt | serial port, `CommandPipe` | `ModemSession`, `CommandChannel` |
| `CommandPipe` (cmd_pipe.cpp) | two FIFO files, one input stream | create, `listen`, `send`, `close` | front-end process | `CommandChannel` |
| pipe messages (serial_interface.cpp) | none | `parse`, `operator<<`, `verify` | `CommandPipe` | `PipeMessage`, `ModemSession` |
| `Service` life cycle, `main` (service.cpp) | static `ptr`, daemon thread | constructor loops, signal handler, destructor | all of the above, systemd | `ServiceProcess` |
| `Options::Base`, `Options::Email` (options.cpp) | `all_configs`, `m_valid` | read the YAML once | file system | three outcomes in `SmsRelay` |
| `SerialPi` (serial.cpp) | file descriptor, kernel buffer | `begin`, `println`, `flush`, `available`, `receive` | modem | `CommandResponse`, `ServiceProcess` |
| GPIO (serial.cpp) | mapped registers | `pinMode`, `digitalWrite`; calls commented out | hardware | |
| field decoders (sms.cpp) | none | GSM 7-bit, UCS2, semi-octets, timestamp | `SMS` | `PduCodec` |
| mail text (sms.cpp) | position in the mail | line ends, `payload_reader` | libcurl | `MailText` |
| error types, `crash_printer` (error.cpp) | none | formatting, raising the signal again | | an end in `ServiceProcess` |
| front-end application (cmd_app) | the file is empty | | | |
| test program (test/src/main.cpp) | none | prints parsed SMSs | `SMS` | |

Two threads exist: the main thread runs `loop`; the daemon thread runs
`CommandPipe::listen`. They share the queue, under `m_cmd_queue_mtx`, and the
serial port, under nothing. A signal handler runs on top of either thread.

What is hard here:

- The modem answers commands and sends unsolicited codes (`+CMTI`, `RING`) on one
  line. `send_command_get_respond` drops what arrived before (`flush`) and takes
  everything up to the next `OK` for its response; it reads byte by byte and
  gives up on two different clocks.
- Both threads write to that line, and responses carry no mark of whose they are.
- An SMS is deleted from the SIM card before it is parsed and mailed.
- Segments of long SMSs come in any order, twice, or never; whether a group is
  complete is decided by a counter kept beside the slots.
- A FIFO has no message boundaries; its ends open, close and die one without the
  other; opening blocks, partly with the mutex held.
- The signal handler destroys the Service under both threads' feet, on top of an
  allocation perhaps, or beside another handler; the daemon thread is never joined.
- What is held in memory is lost at a restart. The SIM card, the modem, the
  commands on their way to it and what a front-end holds in the FIFO go on.

What makes each component correct:

- `SMS`: a mail holds whole groups only, each part once, in order, as received; no
  accepted segment disappears without a fault.
- session: an SMS that left the SIM card was relayed; no SMS is relayed twice; every
  command ends and the main thread returns to the port; an OK that came is seen.
- front-end commands: written and queued in one order, written once, answered once.
- pipe: a request written by the front-end is the request read.
- life cycle: after a signal the process ends, and nothing is destroyed twice. Neither
  holds without exception; `ServiceProcess` says what the exceptions are.
- decoders: what the sender encoded is what the mail says.

## Modules

| module | models |
|---|---|
| `Reassembly` | what the `SMS` class promises: a group is a set of segments, which leaves whole or not at all |
| `CommandQueue` | what `m_incoming_commands` promises: commands are written, queued and popped in one order |
| `ModemCall` | what `send_command_get_respond` promises: it hears all from its flush on, ends with the first OK, and gives up with an empty buffer or at a byte that means the end |
| `SmsRelay` | the `SMS` class: the constructor's checks and filing, `send_email`, restart |
| `ModemSession` | the two threads of the service, the serial line, modem, SIM card, front-end, by lines |
| `Service` | `ModemSession` and `SmsRelay` composed: from the network to the mail |
| `CommandResponse` | one `send_command_get_respond` by bytes and with a clock |
| `CommandChannel` | FIFOs, front-end processes, the daemon thread, the queue and its mutex |
| `ServiceProcess` | main, constructor, destructor, signals, static destructors, systemd |
| `PduCodec` | the PDU's decoders and the positions of its fields |
| `PipeMessage` | `operator<<` and `parse` |
| `MailText` | line ends of the mail, `payload_reader` |
| `MCSmsRelay`, `MCModemSession`, `MCService`, `MCCommandChannel` | instances for TLC |
| `MCCodecs` | inputs for the three modules of conversions, with a reference encoder of SMS-DELIVER and the GSM alphabet |
| `SmsRelayProofs`, `ModemSessionProofs`, `CommandResponseProofs`, `CommandChannelProofs`, `ServiceProcessProofs` | theorems about the module of that name |
| `ServiceProofs` | theorems about `Service`, from those of its two parts |
| `ConversionProofs` | theorems about `PduCodec` |
| `MessageProofs` | theorems about `PipeMessage` and `MailText` |

`Reassembly`, `CommandQueue` and `ModemCall` are abstract: no code corresponds to their
actions one by one. Each is a promise of one component to the others, and a detailed
module implements it. The queue and the call are modelled twice, once by lines in
`ModemSession`, where everything runs together, and once closely (`CommandChannel` with
FIFOs and processes, `CommandResponse` with bytes and a clock); that both implement the
same abstract module ties the two models to each other.

Operators whose comment says "Mutant of" are plausible faults of the definition
that follows them. No specification uses them; each shows that a property can fail
if the code is changed in that way.

### SmsRelay

`refToSegments` is `ref_to_segments`: from a reference to the counter and the vector
of texts. `emailConfig` is `config_init` with `email_config`: unset, valid or
invalid. `message` is the `SMS` object in `sms_handler`. `outbox`, `arrivals` and
`accepted` are history.

| action | code |
|---|---|
| `RejectPdu` | the constructor throws; `sms_handler` logs |
| `ParseSingle` | the constructor returns without filing. Without a header `isSegment` is any Boolean, since the member has no initialiser |
| `FileSegment` | the constructor files the text in a group, a new one or an open one |
| `ConfigThrows` | reading the configuration throws; `call_once` stays unset |
| `SkipIncomplete` | "the segments is missing or not completed" |
| `CurlInitFails` | `curl_easy_init` gives null, before `extract` |
| `LogOnly`, `MailSent`, `MailFails` | `extract`, then one of the three ends of `send_email` |
| `Restart` | the process ends; the statics start afresh |

Each of them is one step because the main thread runs `sms_handler` alone; only the
end of the process can come between constructor and `send_email`. A PDU is a record
of the fields that the control flow reads. The fields come from the PDU sets of the
MC module; the proofs let them be any set that satisfies `SmsAssumption`. A PDU that the
hex or field decoders refuse leaves nothing behind, like one with an unknown DCS, since
filing is the constructor's last act. Texts are model values, and a concatenation is
the sequence of its pieces.

### ModemSession

`phase` is where the main thread is: waiting for a line in `loop` ("receive"), in
`send_command_get_respond` ("flush", "println", "read"), in `sms_handler`
("handle"), or in `m_pipe.send` with the mutex held ("prompt"). `script` holds the
commands of the current branch that have still to be sent: CMGF and CNMI at the
start, CMGR and CMGD for a `+CMTI`. `tx` holds commands on their way to the modem,
`out` the lines the modem has still to write, `rx` the receive buffer. `daemon` is a
request that is printed and not yet queued.

| action | code |
|---|---|
| `Flush`, `Println`, `ReadLine`, `ReadOk`, `GiveUp` | the steps of `send_command_get_respond`. The first OK ends it; `GiveUp` is its nullopt |
| `RelaySms`, `DropSms` | `sms_handler`: relayed, or logged after an exception or for want of a message |
| `LoopCmti`, `LoopOtherStore`, `LoopRing` | the first two branches of `loop`; a `+CMTI` that does not name the store "SM" is only logged |
| `LoopUnparsable`, `LoopVerifyFails`, `LoopAnswer` | the third: queue empty, verification fails, or prompt |
| `SendPrompt`, `PromptFails` | `CommandPipe::send` returns, or throws. Nothing obliges either to happen: opening the FIFO waits for a front-end |
| `FrontPrintln`, `FrontEmplace` | `frontend_request_handler` for a command: line 243, and the locked lines after it. What it does with other messages, nothing, is in `CommandChannel` |
| `Restart` | the process ends at any point, also when the port is closed (service.cpp:84-88), and starts again |
| `Execute`, `WriteLine`, `DeliverSms`, `IncomingCall`, `ModemReset` | modem and network, external |

Abstractions. The line carries whole lines, with the modem's echo off; empty lines
are left out, as `loop` skips them and `sms_handler` counts on exactly one before the
header. `PduOf` is the effect of the two `find("\n")` of `sms_handler`: the response
must be one line and then the PDU. Any other text goes to the SMS parser, which
rejects it or decodes rubbish; either way the SMS is not relayed. Time is the
choice of `GiveUp`. The constructor's commands come before `Boot` and have only the
effect that `Boot`'s flush has again. A mail that is sent is one step with
the parsing; `Service` puts `SmsRelay` in its place.

`ImplementsQueue` maps the session to `CommandQueue`: `waiting` are the fresh requests,
`daemon` is the command being printed, `queue` the queue of commands of one request
each, and the mutex is held in the phase "prompt". `ImplementsCall` maps it to
`ModemCall`: lines are heard, a line OK ends the call (`LastIsOk`), and the text is what
came before it (`BeforeOk`); `smsContent` is the result the caller keeps. Between two
calls, in `loop` and `sms_handler`, the call is idle.

### Service

`Service` extends `ModemSession` and instantiates `SmsRelay` as `S`. The session's one
step for `sms_handler` becomes two: `Construct`, the constructor of `SMS` while the
phase stays "handle", and `SendReturns` or `SendFails`, which are the session's
`RelaySms` and `DropSms` together with an end of `send_email`. `ConstructFails` is an
exception of the constructor. `Restart` is the session's and the relay's at once: SIM
card and outbox stay, the map of groups does not. `failures` is history: the SMSs
whose handling ended with a log entry. `HandleNothing` is the branch of `loop` and the
path through `sms_handler` that find no PDU.

The constants allow all that `ModemSession` has: late answers, codes at any time, commands
of a front-end, power losses. What can come between AT+CMGR and its answer is counted in
`disturbances`: a call that ends before its answer is there (`AnswerToCome`), a code
while the main thread is not waiting for one (`~ AtRest`), a front-end's command, a power
loss. `Disturbance` has these four; the same actions of the session at rest, or with the
answer read, are steps of `SessionMain` and `ServiceNetwork` and count for nothing.
`MaxDisturbances` bounds them together with the restarts, in the run only: the proofs hold for
any number.

### CommandResponse

One call of `send_command_get_respond`, with `SerialPi`'s `flush`, `println`,
`available` and `receive`. `pc` is the place in the code, `rx` the receive buffer,
`oss` and `oFound` the scanner for OK, `deadline` the end of the poll in `receive`.

| action | code |
|---|---|
| `Flush`, `Println` | service.cpp:186-188 |
| `Spin` | the first loop, which burns time until the first byte |
| `Check` | the head of the second loop, with the computation of what poll is told. If the call ends here without having read a byte, `c` is uninitialised (service.cpp:197, 229), and it may report a time-out or an error |
| `ReceiveByte`, `ReceiveOk` | one byte through the scanner |
| `ReceiveQuit` | a byte 26, 0 or 4 of the modem, which the loop takes for a code of `receive` (service.cpp:203) |
| `ReceiveTimeout`, `ReceiveError` | `receive` throws 26, or another error; nullopt |
| `Tick`, `Arrive` | time, and the modem; external |

Of the bytes, SUB is 26, NUL stands for 0 and 4, x for all that no line of the code
compares with. A `read` that fails although poll saw data leaves the byte of `receive`
uninitialised (serial.cpp:262-268); for the call that is one more byte that came, of any
value, so it is an `Arrive` of the model.

The unit of time is 500 ms, the greatest that divides all limits of the service.
`Wait` is what poll is told: the remaining nanoseconds, narrowed to int, taken for
milliseconds. `Factor` stands for the million between the two units; the run uses 3,
which is enough to tell a poll that is too long from one that is right.

`ImplementsCall` maps the module to the same `ModemCall`, with bytes: `HasOk` says what
ends a call, the text is what comes before the OK without carriage returns, and what was
heard is what has been read since the flush (`Consumed`). `Spin`, `Check` and `Tick` are
stutters; `ReceiveTimeout` and `ReceiveError` are `GiveUp`, `ReceiveQuit` is `Quit`.

### CommandChannel

A request in the FIFO is two pieces, the digit of its type and its text, with a third
if the front-end adds a newline (`operator<<` does not). Requests in `Prompts` are no commands
but messages of the other type, and are ignored once read. `c2s` is what is in
/tmp/command_pipe_c2s. Each request has a front-end process of its own, which opens,
writes and closes. `daemon` is where the daemon thread is: opening the FIFO, before
the type, in the text, in the handler, or waiting for the mutex with the command
written. `main` knows four places: receiving, opening the FIFO to the front-end, and
writing to it, the latter two with the mutex held, and down.

| action | code |
|---|---|
| `ClientOpen`, `ClientWrite`, `ClientClose`, `ClientBreaks` | `CommandPipe::send` in a front-end, the last when SIGPIPE ends it |
| `Reader` | a front-end opens or closes its reading end; external |
| `DaemonOpen`, `ReadType`, `SkipNewline`, `ReadText`, `ReadNewline`, `ReadEof` | `listen` and `parse` |
| `ParseFails` | `ParserError` on the daemon thread: the process ends |
| `FrontIgnores`, `FrontPrintln`, `FrontEmplace` | `frontend_request_handler` |
| `LoopAnswer`, `SendOpen`, `SendWrite`, `SendFails`, `SendBreaks` | the third branch of `loop` with `CommandPipe::send` |
| `Crash`, `Restart` | the process ends for another reason; systemd starts it |

`ImplementsQueue` maps the module to `CommandQueue`: a command is the set of the
requests whose texts it consists of, since requests without a newline run together
(`RequestsIn`). What has to do with FIFOs and front-ends is a stutter, and so is a message
that is ignored.

`ProcessEnds` is what the operating system does when a process with FIFOs open ends; no
line of the code corresponds to it. `CommandPipe::close` under a daemon that listens is part
of the destructor, in `ServiceProcess` (`Body`, `DaemonReturns`).

### ServiceProcess

`main` is where the main thread is, from the constructor to the static destructors;
`daemon` says whether the daemon thread exists. `stacks` holds for each of the two threads
what runs on top of it: runs of `sig_int_handler`, each for one signal, and the destructor of
`ptr` at exit. Each of these activations is at a stage:

| stage | code |
|---|---|
| `print` | the handler prints (service.cpp:301-304); it has not read `ptr` |
| `clear` | `unique_ptr::reset` has read `ptr` and not yet cleared it (service.cpp:306) |
| `body` | `~Service`: `m_serial.end()`, `m_pipe.close()` |
| `members` | the members after `m_frontend_thread`, destroyed in reverse: `m_pipe` and the queue |
| `thread` | `m_frontend_thread`: joinable, so `std::terminate` |
| `hung` | it waits for the heap's lock, which what it interrupted holds |
| `return` | `ptr` was null |

A signal goes to a thread that does not block it, and each thread blocks a signal while its
handler runs there. So handlers of two signals nest, and two handlers of one signal can run
side by side on the two threads. The static destructor starts at `body`, and clears `ptr`
never: until it ends, a handler still finds it set. `port`, `modem`, `ptr` and `joinable` are the
code's; `destroyed` counts how often the members at stage `members` were destroyed, and
`overlapped` records that `ptr` was read while another activation had read it and was not
finished. `ending` is how the process ended.

| action | code |
|---|---|
| `Construct`, `ConstructFails`, `AtAnswered`, `SimReady`, `Setup`, `Publish` | `make_unique<Service>` |
| `Enter`, `CreateThread`, `KeepThread`, `CallLoop`, `NullPointer` | the two calls through `ptr`, either of which a handler may have cleared |
| `LoopLine`, `CommandsReturn`, `SendReturns`, `LoopEnds` | `loop`: sending commands, waiting in `CommandPipe::send`, the end of the port |
| `StaticDestructors`, `Exits` | `exit`, with `ptr` set or not |
| `Signal`, `RaiseInterrupt` | a signal from outside, on either thread; `raise(SIGINT)` in `available` |
| `Read`, `Clear`, `Body`, `Members`, `ThreadTerminates`, `Freed`, `HandlerReturns` | the stages |
| `DoubleFree`, `Hang`, `UsesDestroyed` | what becomes of a member destroyed twice, of a handler that frees what an allocation below it is in the middle of, of a thread that uses what is gone |
| `DaemonThrows`, `DaemonReturns` | the daemon thread ends the process, or finds its pipe closed |
| `ModemComesUp`, `Lose`, `Start` | modem, port and systemd; external |

A second destruction has no defined outcome: `DoubleFree` ends the process by SIGABRT or
SIGSEGV, `Members` takes it as unnoticed and counts it.

### Conversions

`PduCodec!Parsed` cuts a PDU into fields with the index arithmetic of the constructor
and decodes each. `MCCodecs` encodes an SMS with a definition of its own, taken from
the format and not from the code, and compares. `PipeMessage!Parse` returns the set
of messages `parse` may return, because `parse` reads a variable nothing has written
when nothing follows the type. `MailText` copies a mail into one buffer after
another.

What the sender wrote is `MCCodecs!Sent`: septets are letters of the GSM default alphabet
(`Gsm`), code units are UTF-16, and the mail, which is declared `charset=UTF-8`
(sms.cpp:184), should have the text in UTF-8. The decoders have neither the alphabet nor
surrogates, so `TextIsRead` says exactly which texts arrive as written (`Readable`) and, with
that, that no other does.

## Runs

| run | question | bounds |
|---|---|---|
| `relay_faults` | does `SmsRelay` implement `Reassembly`; are counter, parts and number of mails right under duplicates, reordering, rejected PDUs, every fault and restarts | 8 PDUs, 5 arrivals |
| `service_relay` | is a text sent too often, or a segment lost that `sms_handler` had, whatever disturbs the session; undisturbed, is every segment kept and a long SMS relayed | 4 SMSs, 1 place, 1 request, 1 disturbance or restart |
| `session_faults` | is an SMS relayed twice, or deleted before the modem read it out | 2 SMSs, 2 places, 1 request, 1 call, 1 restart |
| `session_fair` | does the main thread return to the port, unless it waits for ever in `send`; is each send_command_get_respond the call of `ModemCall`; is a request prompted once | 1 SMS, 2 places of which one is not in "SM", 1 request, 1 call, 1 restart, 1 power loss |
| `respond_bytes` | is the text what came; is an OK missed; does a call end, and not early; what do bytes 26, 0 and 4 do; is it the call of `ModemCall` | 4 bytes, limits of 1 to 4 units, 20 units |
| `channel_lines` | does the channel implement `CommandQueue`; is a request written once, queued in order, cut at the newline, and not held up for ever but by `send` | 3 front-ends, 2 of them with a newline, one of these with a prompt, 2 ends of the process |
| `process_life` | does the process end, or hang in a handler, after a signal or a lost port; when are members destroyed twice; how does it end with a daemon thread; does the constructor get through | 3 signals, 2 starts, 2 losses |
| `codecs` | do decoders, messages and mail text agree with their reference definitions | 55 942 inputs |

The passing runs reach from 54 000 (`channel_lines`) to 2 100 000 (`session_faults`)
states. The bounds are enough for the questions:

- Relay: two groups of two segments, a third claimant of a reference with another
  size and 5 arrivals let a group be completed, duplicated before and after,
  interleaved with another and reopened. In `service_relay` the one place is used
  four times over, and the one disturbance falls at any step: a late answer is one,
  a restart is one. Further disturbances are in `session_faults` by lines, and in the
  proofs.
- Session: with two SMSs and two places one is read while the other arrives; with one
  free place it is used again. One restart can fall at any step. Each further
  request or call multiplies the interleavings with steps that the properties do not
  distinguish.
- Response: four bytes hold an OK with an O before or after it, a doubled O, and
  bytes of an earlier answer; limits from 1 to 4 units are the 500 to 2000 ms of the
  service; 20 units are longer than the longest poll. One byte that means the end may come
  before, in or after an OK.
- Channel: three front-ends let one die in the middle of another's message, with one
  request that lacks its newline between two that have it; two ends of the process
  let a third process read what two have left.
- Process: three signals fill one thread's stack of two handlers and put a third beside
  them, on the other thread, or let one come afterwards.
- Codecs: number lengths of either parity, headers of both kinds, texts of up to four
  septets and two of 17, which pass all eight bit offsets twice, one of letters that both
  alphabets share; code units at the borders of one, two and three octets, and both
  halves of surrogate pairs, apart and together.

`CHECK_DEADLOCK FALSE` is set where the environment's bounded supply runs out and the
service waits, as it should, and where a call or the last allowed process has ended.
`relay_faults` needs no exception, since a restart is always possible.

That `ModemSession` implements `CommandQueue` needs two requests, which with the other
bounds of `session_fair` would take too long. `MCModemSession_queue.cfg` checks it without
SMSs, with 2 requests, one of them with an expected respond, a call, a restart and a power
loss (500 000 states); it is no run of PROJECT.json, since `SessionKeepsQueue` proves it for
any of them. With `FrontEmplaceUnlocked` in place of `FrontEmplace` it fails.

### Disagreements

Each of these runs finds a behaviour of the code that a document, a comment or a name
of the repository rules out.

| run | what happens | against |
|---|---|---|
| `relay_plain` | `is_segment` is read uninitialised (sms.hpp:41, sms.cpp:130); an SMS without a header may be held back as a segment | README.md:9 |
| `session_busy` | a `+CMTI` before the response of AT+CMGR shifts its lines; the SMS is deleted and lost | service.cpp:270 |
| `channel_eof` | the last front-end closes the FIFO, `parse` throws on the daemon thread, the service is terminated (cmd_pipe.cpp:70) | service.cpp:179 |
| `respond_late` | nanoseconds are passed as milliseconds: a call waits far beyond its limit once a byte has come (service.cpp:200) | serial.hpp:300 |

Further settings have configurations of their own, which TLC refutes as well; they
are no runs of PROJECT.json.

| configuration | property | what happens |
|---|---|---|
| `MCSmsRelay_zeroref.cfg` | `LongRelayed` | a long SMS with reference 0 is never filed and never relayed (sms.cpp:402) |
| `MCSmsRelay_emptysegment.cfg` | `PartsWereReceived` | a duplicate of an empty segment counts twice; a mail with a hole (sms.cpp:423) |
| `MCModemSession_slow.cfg` | `RelayedOrStored` | AT+CMGR times out, AT+CMGD is sent all the same (service.cpp:110-111) |
| `MCModemSession_boot.cfg` | `StoredIsRelayed` | `flush` drops a `+CMTI`; the SMS stays on the card unread (service.cpp:186) |
| `MCModemSession_prompt.cfg` | `PromptAnswersItsCommand` | an OK or `+CLIP` line is passed on as the result of a request (service.cpp:146-150) |

`session_busy` has two relatives, which its configuration shows when its
constants are changed. With `Requests = {c1}` and one message, the OK of a front-end
command ends AT+CMGR early (service.cpp:243), and the SMS is deleted and lost. With
`MailMayFail = TRUE` an SMS is lost because it is deleted before it is mailed
(service.cpp:111-114).

The conversions have deviations as well. Two properties say exactly what comes through
unchanged, and so what does not:

- `TextIsRead`. `decodeGSM7` has no table of the GSM alphabet and hands on septets as
  ASCII (sms.cpp:34-51): '@', which is 0, arrives as NUL, the umlauts as brackets, `$` and
  every national letter as something else, in a mail declared UTF-8 (sms.cpp:184). A 7-bit
  text with a header has one character too many in front, since the header's octets
  are skipped as if they were septets. A character beyond 0xFFFF comes as two code units,
  each of which `decodeUCS2` puts into three octets, which is not UTF-8.
- `FramableIsParsed`. A command that contains a semicolon comes back as a command with an
  expected respond, one that begins with a digit as another type.

Two details are in the model and need no property of their own: no separator is ever put
into a time stamp, since the loop counts in steps of two (`DecodeTimestamp`;
`FieldsAreRead` compares the digits), and `payload_reader` copies the NUL at the end of the
mail (`CopyLen`; `MailIsUploaded` has it in the upload).

More differences are visible in the code without a run. Groups are looked up by
the reference alone (sms.cpp:404), which each sender chooses for itself, so the
segments of two senders can fill one group; `Reassembly` allows it. A
`RING` line is only logged (service.cpp:126-138), while README.md:10 promises that a
call is refused or prompted. The scanner for OK misses the OK in "OOK", since the
second O clears what the first has set (`OkAt` says which OKs are seen). A byte 26, 0 or 4
of the modem ends a call as if `receive` had reported a time-out, an error or the end of the
file (`Quits`). When a call ends before any byte was read its report depends on an
uninitialised `c` (service.cpp:197, 229). A time limit beyond 2147 ms would become negative in
int; the service has none (`ResponseAssumption`). `pinMode` with INPUT on pin 27 clears the
function of pin 21 (serial.cpp:517-519); nothing calls it.

`DestroyedOnce` and `EndsWhenToldTo` say what is left of "a signal ends the process". The
members of a Service are destroyed twice if a handler reads `ptr` while another has read it
and not cleared it, on the other thread or below it on the same one, or while the static
destructor runs, which clears nothing (service.cpp:297, 306). And a handler that frees what
an allocation it interrupted has locked waits for ever, with the process alive, so that systemd
does not start it again.

`service_relay` says what is left of README.md:9 under the session's disagreements: a late
answer, a code at the wrong time, a front-end command or a power loss may cost the SMS that is
just being read, which `NothingLost` excepts, but not one that `sms_handler` has had, and
none makes a text leave twice. `session_faults`
leaves the modem's power loss out, because a lost AT+CMGR followed by an executed
AT+CMGD deletes an SMS that was never read out; that is the fault of
`MCModemSession_slow.cfg` in a stronger form.

## Fairness

- `ModemSession`: weak fairness of the main thread, of `FrontEmplace` and of the
  modem. Both are threads of one process on a preemptive scheduler, and no step of
  theirs waits for a condition that comes and goes, except `FrontEmplace`, which waits
  for the mutex. The modem executes what reaches it. The steps of `m_pipe.send`
  (`SendPrompt`, `PromptFails`) have no fairness: opening the FIFO waits for a front-end
  (cmd_pipe.cpp:90), and nothing makes one read. So `LoopReturns` has two cases: the main
  thread comes back to the port again and again, or from some point on it is in `send`,
  with `m_cmd_queue_mtx`, for ever.
- `Service`: the same for the main thread with `sms_handler` in two steps. Neither
  `FrontEmplace` nor `send` is needed: a session with a front-end's command is disturbed,
  and the liveness properties speak of undisturbed ones.
- `CommandChannel`: weak fairness of the daemon thread's steps, of `FrontEmplace`, and of
  the main thread in `send` once a reader is there; systemd restarts the process. `Reader`,
  the front-end, has no fairness. `WrittenIsPrinted` is about behaviours in which the
  main thread is not in "open" for ever; otherwise the daemon, too, waits for ever, at its
  next emplace, and no command is written any more.
  Weak fairness is enough for the mutex, since the main thread takes it only as long as it
  has commands to pop, of which no more come while the daemon waits.
- `CommandResponse`: the thread runs and time goes by. Steps of the thread take no
  time: time passes only where the code spins or polls.
- `ServiceProcess`: weak fairness of the main thread and of the handlers on each thread. A
  step of the main thread needs that no handler is on top; there are finitely many signals,
  and every handler returns, ends the process or hangs. `CommandsReturn` is among the steps of
  the main thread, since commands end (`LoopReturns`); `LoopLine` and `SendReturns` are not:
  no line need come, and no front-end need read. `Hang` is one of the steps a handler may take.

Network, callers, users, front-ends, signals, restarts and power losses have no fairness.

## Proofs

The theorems about `PduCodec`, `PipeMessage` and `MailText` are about operators,
for arguments of any size, and then for the samples of the run `codecs`. All others have
the form `Spec => []P` or are refinements, for every value of the constants that satisfies
the module's assumption.

`SmsRelayProofs`, from `SmsAssumption` (types of the constants; the number of a
segment lies in 1..count):

- `TypeCorrect`: `Spec => []TypeOK`, one step per action.
- `CounterCorrect`, `NoHoles`: `ReceivedIsFilled` and `PartsWereReceived`.
- `RelayImplementsReassembly`: `Spec => R!Spec`.

`CounterCorrect`, `NoHoles` and `RelayImplementsReassembly` assume `NonEmptySegments`:
every segment has a text. The assumption is needed, as `MCSmsRelay_emptysegment.cfg` shows. Neither property is inductive. A mail
has no holes because the group it came from had none, and that follows from the
counter only if the counter is right and every filled slot was received. So the
invariant `IInv` says, besides typing: for every group the counter is the number of
its filled slots; every filled slot holds the text of an accepted PDU with this
reference, number and count; an SMS object that is no segment has reference 0 (the
abstract `Single` needs it); and what was relayed was received. `FiledGroup` shows
that filing keeps the counter right: a slot that was filled stays filled, one that
was empty adds one (`FillSlot`). `CompleteIsFilled` is the pigeonhole step: a subset
of 1..n with n elements is 1..n. For the refinement `FileIsJoin` maps filing to
`Join`, `ExtractIsRelease` and `RelayMaps` map the ends of `send_email` to `Release`,
`Lose`, `Single` or a stutter.

- `NoTextTwice`: `RelayedNoMoreThanReceived`, if different PDUs have different texts
  (`DistinctTexts`), since a text that leaves does not say which PDU it came from.
  Segments may be empty here. The property is not inductive: a text that waits in the map
  or in the SMS object has still to leave. `CopiesInv` counts the places a text is in (the
  mails, the groups, an SMS object that is no segment) and says that there are no more of
  them than PDUs with that text were accepted. Filing adds one place at most, since a
  group counts once however often a segment is filed in it; `Extract` moves a text from a
  group to a mail or drops it.

`ModemSessionProofs`, from `SessionAssumption` and `NothingAssumption` (the mark for
an empty place or for no response is not itself a sequence of lines):

- `TypeCorrect`. The invariant `TInv` is stronger than `TypeOK`: loop has at most the
  two commands of one branch still to send (`Scripts`), AT+CMGR and AT+CMGD name a
  place, and a `+CMTI` is never part of a response.
- `RelayedOnce`: `RelayedAtMostOnce`, from two invariants. `TurnInv` says that a place
  is announced, read and deleted once for each SMS it gets: at most one `+CMTI`, one
  AT+CMGR and one AT+CMGD are under way for it, in this order, and none when it is
  empty. It is kept because the network fills only empty places. `CopyInv` says that
  the PDU of an SMS is in one place on its way from the modem to the mail, and nowhere
  while its AT+CMGR is still to come. Both say what may not be there, so an action that
  only takes away keeps them (`TurnShrinks`, `CopyShrinks`).
- `NeverDeletedUnread`: `DeletedAfterReadOut`, if `MaxResets = 0`. `ReadBefore` says that
  what is still to be deleted and no longer to be read was read out. A modem that
  loses power between the two commands breaks it, which is why the run
  `MCModemSession_faults.cfg` has no resets.
- `OnePromptEach`: `PromptedAtMostOnce`. A request is with the front-end, with the daemon,
  in the queue, being answered, or answered, and in one of these states only.
- `SessionKeepsQueue`: `ImplementsQueue`, with `QueueStep` from the types alone. The queue
  of requests becomes one of sets of one request (`Alone`), which `Append` and `Tail`
  respect.
- `SessionMakesCalls`: `ImplementsCall`, one lemma for each group of actions: the steps of
  `send_command_get_respond` (`CallSend`), its ends with what the caller keeps
  (`CallReturns`), lines that arrive (`CallArrives`), and what is a stutter.

`CommandResponseProofs`, from `ResponseAssumption` (limits fit into int):

- `TypeCorrect`: poll is never told a negative time.
- `GivesUpLate`: `NeverEarly`, because while it polls the deadline is at or after the
  limit (`WaitType` is the arithmetic). A time-out reported at a byte 26 is the exception
  the property names, and the last byte read tells it.
- `NoOkMissed`: `OkNotMissed`. The invariant `OkInv` says that the receive buffer is
  the rest of what arrived; that `oFound` is the parity of the Os read last, counted
  from the place where they begin, which is unique (`RunUnique`); and that the bytes
  read contain no OK. A call that gives up has read everything, or has read a byte that
  means the end, and an OK would be behind it.
- `TextComplete`: `TextIsWhatCame`. `TextInv` says at every place of the code that the
  bytes read are what is in `oss`, then the O the scanner holds back, then the K that
  ended the call. `Readable`, which drops carriage returns and the bytes that end a call,
  is defined by the ranks of the bytes that stay and not by recursion (`RankFacts`,
  `ReadableAppend`).
- `ResponseMakesCalls`: `ImplementsCall`, from both invariants. A byte that leaves the scanner
  running leaves no OK in what was read, since `OkInv` holds after the step as well
  (`OkAmongFirst`); a K after an odd number of Os makes one (`EndedByK`); and what comes
  before it is what was collected, because `TextInv` gives both with an O at the end
  (`TextBeforeOk`). A call that gives up is `GiveUp` or `Quit`, by what was in the buffer
  (`CallGivesUp`).

`CommandChannelProofs`, from `ChannelAssumption`:

- `TypeCorrect`, with the daemon gone while the process is down.
- `QueueAccounts`: `PrintedIsQueued` is inductive given the types; `MoveHead` is the
  pop.
- `ChannelKeepsQueue`: `ImplementsQueue`. `NotEmpty` says that a command that is written
  consists of at least one request, which rests on `SInv` (below): the daemon has no text
  it could hand over before a front-end has written one. The requests of a command are
  fresh until it is written because of `Once`. `Contents` carries the queue of texts over
  to a queue of sets (`ContentsAppend`, `ContentsTail`).
- `CommandsKeepToALine`: `CommandsEndAtNewline`. The invariant `SInv` says that in the
  FIFO a type is followed by a text and a terminated text by its newline
  (`Following`, kept by concatenation and by `Tail`), and what the daemon finds next
  (`NextPiece`). So a process that dies in a message leaves a FIFO whose rest starts
  with a whole piece.
- `NoRequestTwice`: `PrintedAtMostOnce`. A request is before the FIFO, in it, in the
  daemon's text, or written, and in one of these places only (`Once`).

`ServiceProcessProofs`, from `ProcessAssumption`:

- `TypeCorrect`, `TwiceOnlyByOverlap`, `ThreadEndsByCrash`, all from one `IInv`. The bound on
  a stack follows from its activations having different signals (`Nested`). `OneOwner` is about a
  process in which no two activations had `ptr` at the same time: who may still destroy the
  members is `ptr`, or one activation (`Single`) that has not done so (`Untouched`), or nobody
  any more; only the static destructor leaves `ptr` set while it destroys (`ResetLate`), so
  whoever reads it then overlaps. `Loops` says that in `loop` and after it `ptr` is set or
  somebody is in a destructor, which a joinable thread lets no one leave: so main can end with
  status 0 only past a destructor that another thread is still in.

`ServiceProofs`, from `ServiceAssumption` (each SMS carries one of the PDUs; the bound on
disturbances is a number), `RelayAssumption` (`SmsAssumption` for the
PDUs of the messages; the mark for no SMS object is none) and those of the session. None of
them is about the environment: answers come in time or late, codes at any time, and
front-ends, power losses and restarts as often as the bounds allow, which are any numbers.

- `SessionImplemented`, `RelayImplemented`: `Service` implements `ModemSession`, and
  under `NonEmptySegments` also `Reassembly`. `Construct` is a stutter for the session
  (`SessionSteps`); each step of the service is one of the relay or a stutter
  (`RelaySteps`). So the invariants of both parts hold here; `BothInv` collects them.
- `NoneTwice`: `SentOnce`. `CountInv` ties the two parts: the copies of a text in the
  relay (`Copies`) are no more than the SMSs with this text that were spent on it, that is,
  whose object exists or which have left the session for good. A PDU can be constructed
  only from an SMS that was not spent before (`ConstructSpends`), because of `CopyInv`, which
  holds however the session is disturbed.
- `HandlerHasPdu`: as long as no disturbance has come, `sms_handler` finds the PDU of exactly
  one SMS. `TalkInv` follows a place through the
  conversation: what was collected, what was received and what has still to be written
  (`Said`) together are the lines of the answer to the command that was sent, also when
  the process was started again in the middle of an answer. `CalmStep` sorts out the
  steps that are no disturbance.
- `SegmentsKept`: `NothingLost`, from `LossInv`. `GroupInv` says that the group `send_email`
  would extract is that of the SMS being handled, so that its failure is reported for the
  whole group, and `KeptInv` that what `sms_handler` has returned from is dealt with, under
  every disturbance, and that without one a delivered segment is on the SIM card, in the
  handler, or dealt with. For the latter `DeleteAsked` says that the modem deletes only what
  the main thread waits to see deleted; a disturbance breaks it (`MCModemSession_slow.cfg`).
  The hypothesis `SamePlaceSameText` is the network's part, and is needed: a segment with
  another text under the same reference, number and count overwrites the one that waits
  (sms.cpp:424), and nothing is logged. The segments of the run `service_relay` satisfy it.

`ConversionProofs`:

- `Utf8Holds`: for every code unit, not only the seven of the run.
- `PduRead`: for every SMS that the length octets of a PDU can describe (`AnyPdu`), in both
  alphabets and with each kind of header, `Parsed` gives back what `Encoded` put in. The fields'
  positions follow from the lengths of what comes before them (`PduIsLaid`, `HoldsStill`);
  addresses and the time stamp from the swapping of digits in pairs (`SemiOctetsRead`); UCS2
  from the halves of a unit (`Ucs2Read`). For 7-bit texts the packed octets and the septets
  are two readings of one stream of bits (`StreamIs`, `OctetsAre`), and a septet taken from
  two neighbouring octets has the right seven bits at each of the eight offsets
  (`SeptetBits`); a header moves the offset and gives the character too many
  (`SeptetInHeader`). `PduRead` says what comes out, defects included; whether that is what
  was sent is the next theorem. Texts are induced over by their length with a least counterexample,
  which needs no operator as a hypothesis (`LeastOf`, `TextInduction`); that a fold over a
  longer text extends the fold over the shorter one is `FlatExtended`, `FlattenAppend`.
- `TextArrives`: for every SMS of `AnyPdu` the text is `Sent` exactly if it is `Readable`. That
  readable texts arrive is a comparison piece by piece. That no other does needs that pieces
  of UTF-8 cannot make up for each other: the first piece that differs decides, because its
  first octet tells its length (`FirstOctet`, `PiecesKept`). For septets that is the first
  letter in which the alphabets differ, or the length of the text when a header adds one
  (`SeptetsSent`); for UCS2 the first surrogate, which goes out with 237 as its first octet
  where the sender's text has 240 or above, or 239 (`FirstSent`, `UnitsSent`).
- `FieldsRead`, `TextRead` and `Utf8Shortest` conclude the invariants of
  the run: its samples are among `AnyPdu` (`SamplesAreAny`).

`MessageProofs`:

- `ParsedIfFramable`, `LinesRead`: for commands and prompts of any length. `Before` and
  `After` cut at the first character of a set (`Halves`, which needs that a set of numbers
  has a least one). A type is read apart from a text that does not begin with a digit
  (`TypeRead`); a message that can be framed is parsed as it was, whatever follows its
  newline (`ParsedBack`); any other is parsed as several messages, as another one, or not
  at all (`NotParsedBack`).
- `MessagesParsed` and `LinesSeparated` conclude the two invariants of the run.
- `ReaderCopies`: one call of `payload_reader`, for any mail, position and buffer.
- `UploadComplete`: any list of buffers. The fold over the buffers is compared with the
  sums of their sizes (`SumsExist`, `SumOf`): each buffer takes the carrier from one sum to
  the next (`ReaderCopies`), and two functions that agree step by step agree
  (`SameOnSubsets`, by least counterexample).
- `LineEndsNormalised`: a mail of any length, character by character: appending one to the
  text appends one or two to what is sent (`NormalisedAppend`), and keeps `Ended`, that
  every line feed follows a carriage return.
- `MailUploaded` and `LinesEnd` conclude the other two invariants of the run.

Every invariant that a passing run checks is proved, and so is every refinement. Only
model-checked is liveness, which needs fairness and `ENABLED`, beyond the prover's reach:
`StoredIsHandled`, `LongSmsRelayed`, `LoopReturns`, `Returns`, `WrittenIsPrinted`,
`EndsWhenToldTo` and `BootsWhenReady`.

## Not modelled

- Options from YAML: parsing of a file by a library. Its outcomes are in `SmsRelay`.
- Segment numbers outside 1..count: the constructor does not check the first segment
  of a group (sms.cpp:430); the models assume what the network guarantees. PDUs that
  end early, hold characters that are no hex digits, or have alphanumeric senders.
- GPIO: `pinMode`, `digitalWrite` and `delayMicroseconds` have no caller, the calls in the
  service being commented out (service.cpp:30-36). Their register arithmetic is written out pin
  by pin, so a model with a formula for it would not show a wrong constant.
- The heap's lock is the only one a handler waits for. The one of `std::cout`, in the
  print at its start, has the same effect, before `ptr` is read.
- termios flags and baud rates in `begin`; `parseInt`, `parseFloat`, `peek`,
  `setTimeout` and `send(char)`, which nothing calls.
- The wording of logs, mails and error messages.
- The front-end application, whose file is empty; the test program, which only prints.

## What is left

- Liveness for every instance: it stays with TLC, for the reason above.
- Time limits in `ModemSession`. There `GiveUp` needs an empty buffer and may come at once;
  `ModemCall` promises no more. That a call does not give up early is `NeverEarly` of
  `CommandResponse` and not part of the common promise, since the session has no clock.
- Segment numbers and references that break the network's standard, as far as the code's
  behaviour on them is defined (see above).
