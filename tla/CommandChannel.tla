--------------------------- MODULE CommandChannel ---------------------------
(***************************************************************************)
(* The FIFOs between front-ends and the service (cmd_pipe.cpp), the daemon *)
(* thread that runs CommandPipe::listen with frontend_request_handler as   *)
(* its callback, and the main thread where it shares m_incoming_commands   *)
(* and m_cmd_queue_mtx with it.                                            *)
(*                                                                         *)
(* A FIFO has no message boundaries: the daemon sees the pieces that all   *)
(* writers wrote, one after the other, and an end of file when the last of *)
(* them has closed.  Opening waits for the other end, for ever if need be. *)
(* Each request comes from a front-end process of its own, which opens,    *)
(* writes and closes as CommandPipe::send does.                            *)
(***************************************************************************)
EXTENDS Naturals, Sequences

CONSTANTS
  Requests,     \* requests of front-ends
  Terminated,   \* those followed by a newline, which operator<< does not write
  Prompts,      \* those that are no commands: their type is PROMPT
  MaxEnds       \* bound: how often the process may end and be started again

ASSUME ChannelAssumption ==
  /\ Terminated \subseteq Requests
  /\ Prompts \subseteq Requests
  /\ MaxEnds \in Nat

VARIABLES
  clients,   \* how far each front-end process is with its send
  reading,   \* a front-end has /tmp/command_pipe_s2c open for reading
  c2s,       \* the pieces in /tmp/command_pipe_c2s
  daemon,    \* where the daemon thread is
  isCommand, \* the message that parse is reading is a command
  text,      \* the pieces of its text that parse has read so far
  eof,       \* the stream of the daemon is at its end (eofbit and failbit)
  main,      \* where the main thread is
  queue,     \* m_incoming_commands
  printed,   \* history: the commands this process wrote to the modem
  popped,    \* history: the commands it took out of the queue
  prints,    \* history: how often each request was written to the modem
  ends       \* history: why the process ended, each time

streamVars == <<c2s, isCommand, text, eof>>
historyVars == <<printed, popped, prints, ends>>
vars == <<clients, reading, streamVars, daemon, main, queue, historyVars>>

ClientStates == {"idle", "open", "written", "closed", "broken"}

(* "open" waits for a writer, "handler" has a message, "lock" has printed it. *)
DaemonStates == {"none", "open", "parse", "text", "handler", "lock"}

(* In "open" and "write" of send the main thread holds m_cmd_queue_mtx. *)
MainStates == {"down", "receive", "open", "write"}

Causes == {"parser", "pipe", "crash"}

PieceType == [of : Requests, part : {"type", "text", "newline"}]

Piece(request, part) == [of |-> request, part |-> part]

(* Mutant of Written: the expected respond follows in a line of its own. *)
WrittenTwoLines(request) ==
  <<Piece(request, "type"), Piece(request, "text"),
    Piece(request, "newline"), Piece(request, "respond")>>

(* operator<<: the digit of the type and the text. *)
Written(request) ==
  <<Piece(request, "type"), Piece(request, "text")>>
    \o IF request \in Terminated THEN <<Piece(request, "newline")>> ELSE <<>>

Writers == {r \in Requests : clients[r] \in {"open", "written"}}

TypeOK ==
  /\ clients \in [Requests -> ClientStates]
  /\ reading \in BOOLEAN
  /\ c2s \in Seq(PieceType)
  /\ daemon \in DaemonStates
  /\ isCommand \in BOOLEAN
  /\ text \in Seq(PieceType)
  /\ eof \in BOOLEAN
  /\ main \in MainStates
  /\ queue \in Seq(Seq(PieceType))
  /\ printed \in Seq(Seq(PieceType))
  /\ popped \in Seq(Seq(PieceType))
  /\ prints \in [Requests -> Nat]
  /\ ends \in Seq(Causes)

Init ==
  /\ clients = [r \in Requests |-> "idle"]
  /\ reading = FALSE
  /\ daemon = "open"
  /\ main = "receive"
  /\ c2s = <<>> /\ text = <<>> /\ queue = <<>>
  /\ isCommand = TRUE /\ eof = FALSE
  /\ printed = <<>> /\ popped = <<>> /\ ends = <<>>
  /\ prints = [r \in Requests |-> 0]

-----------------------------------------------------------------------------
(* Front-ends: CommandPipe::send with Role::CLIENT *)

ClientStep(r, from, to) ==
  /\ clients[r] = from
  /\ clients' = [clients EXCEPT ![r] = to]
  /\ UNCHANGED <<reading, isCommand, text, eof, main, queue, historyVars>>

(* Has the daemon the FIFO open for reading? *)
Listening == daemon \notin {"none", "open"}

(* What is in a FIFO that no process has open is gone. *)
Unread(r) == IF Writers = {r} /\ ~ Listening THEN <<>> ELSE c2s

(* Opening for writing waits for the daemon, and wakes it. *)
ClientOpen(r) ==
  /\ ClientStep(r, "idle", "open")
  /\ daemon # "none"
  /\ daemon' = IF daemon = "open" THEN "parse" ELSE daemon
  /\ UNCHANGED c2s

(* The stream is flushed in one write. *)
ClientWrite(r) ==
  /\ ClientStep(r, "open", "written")
  /\ Listening
  /\ c2s' = c2s \o Written(r)
  /\ UNCHANGED daemon

(* Nobody has the FIFO open for reading any more: SIGPIPE. *)
ClientBreaks(r) ==
  /\ ClientStep(r, "open", "broken")
  /\ ~ Listening
  /\ c2s' = Unread(r)
  /\ UNCHANGED daemon

ClientClose(r) ==
  /\ ClientStep(r, "written", "closed")
  /\ c2s' = Unread(r)
  /\ UNCHANGED daemon

(* A front-end opens its FIFO, which wakes a service that waits in send, or
   closes it. *)
Reader ==
  /\ reading' = ~ reading
  /\ main' = IF main = "open" /\ ~ reading THEN "write" ELSE main
  /\ UNCHANGED <<clients, streamVars, daemon, queue, historyVars>>

-----------------------------------------------------------------------------
(* The process ends and systemd starts it again *)

(* Queue and stream are lost; the FIFO keeps what a writer still holds. *)
ProcessEnds(cause) ==
  /\ Len(ends) < MaxEnds
  /\ ends' = Append(ends, cause)
  /\ main' = "down"
  /\ daemon' = "none"
  /\ text' = <<>> /\ queue' = <<>>
  /\ printed' = <<>> /\ popped' = <<>>
  /\ isCommand' = TRUE /\ eof' = FALSE
  /\ c2s' = IF Writers = {} THEN <<>> ELSE c2s
  /\ UNCHANGED <<clients, reading, prints>>

Crash == main # "down" /\ ProcessEnds("crash")

Restart ==
  /\ main = "down"
  /\ main' = "receive"
  /\ daemon' = "open"
  /\ UNCHANGED <<clients, reading, streamVars, queue, historyVars>>

-----------------------------------------------------------------------------
(* The daemon thread: listen, parse, frontend_request_handler *)

DaemonStep(from, to) ==
  /\ daemon = from
  /\ daemon' = to
  /\ UNCHANGED <<clients, reading, main, popped, ends>>

ParseStep(from, to) ==
  /\ DaemonStep(from, to)
  /\ UNCHANGED <<queue, printed, prints>>

(* The next piece is read, and is of this kind. *)
Get(part) ==
  /\ ~ eof
  /\ c2s # <<>>
  /\ Head(c2s).part \in part
  /\ c2s' = Tail(c2s)
  /\ UNCHANGED eof

(* The FIFO is empty and nobody can write to it. *)
AtEnd == c2s = <<>> /\ Writers = {}

(* A writer from the time of an earlier process still has the FIFO open. *)
DaemonOpen ==
  /\ ParseStep("open", "parse")
  /\ Writers # {}
  /\ UNCHANGED streamVars

(* is >> type *)
ReadType ==
  /\ ParseStep("parse", "text")
  /\ Get({"type"})
  /\ isCommand' = (Head(c2s).of \notin Prompts)
  /\ text' = <<>>

(* White space before the type is skipped. *)
SkipNewline ==
  /\ ParseStep("parse", "parse")
  /\ Get({"newline"})
  /\ UNCHANGED <<isCommand, text>>

(* ParserError at the end of the input or when it does not start with a
   digit.  Nothing on the daemon thread catches it: std::terminate. *)
ParseFails ==
  /\ daemon = "parse"
  /\ \/ eof \/ AtEnd
     \/ c2s # <<>> /\ Head(c2s).part = "text"
  /\ ProcessEnds("parser")

(* Mutant of ReadText: a newline does not end the text. *)
ReadTextLines ==
  /\ ParseStep("text", "text")
  /\ Get({"type", "text", "newline"})
  /\ text' = Append(text, Head(c2s))
  /\ UNCHANGED isCommand

(* Everything up to the newline is text, a type digit included. *)
ReadText ==
  /\ ParseStep("text", "text")
  /\ Get({"type", "text"})
  /\ text' = Append(text, Head(c2s))
  /\ UNCHANGED isCommand

ReadNewline ==
  /\ ParseStep("text", "handler")
  /\ Get({"newline"})
  /\ UNCHANGED <<isCommand, text>>

(* The end of the input ends the text as well; the stream has failed. *)
ReadEof ==
  /\ ParseStep("text", "handler")
  /\ AtEnd
  /\ eof' = TRUE
  /\ UNCHANGED <<c2s, isCommand, text>>

HasText(command, r) == \E i \in DOMAIN command : command[i] = Piece(r, "text")

(* Mutant of FrontIgnores: the daemon stops listening. *)
FrontIgnoresAll ==
  /\ ParseStep("handler", "none")
  /\ ~ isCommand
  /\ UNCHANGED streamVars

(* "daemon thread receive non-command message, ignore" *)
FrontIgnores ==
  /\ ParseStep("handler", "parse")
  /\ ~ isCommand
  /\ UNCHANGED streamVars

FrontPrintln ==
  /\ DaemonStep("handler", "lock")
  /\ isCommand
  /\ printed' = Append(printed, text)
  /\ prints' = [r \in Requests |->
                  IF HasText(text, r) THEN prints[r] + 1 ELSE prints[r]]
  /\ UNCHANGED <<streamVars, queue>>

(* Mutant of Locked: the mutex is taken after the FIFO has been opened. *)
LockedToWrite == main = "write"

Locked == main \in {"open", "write"}

(* Mutant of FrontEmplace: try_lock, and the command is dropped when the
   main thread has the mutex. *)
FrontEmplaceTry ==
  /\ DaemonStep("lock", "parse")
  /\ queue' = IF Locked THEN queue ELSE Append(queue, text)
  /\ UNCHANGED <<streamVars, printed, prints>>

(* Mutant of FrontEmplace: try_lock, and the handler starts again when the
   main thread has the mutex. *)
FrontEmplaceRetry ==
  /\ DaemonStep("lock", IF Locked THEN "handler" ELSE "parse")
  /\ queue' = IF Locked THEN queue ELSE Append(queue, text)
  /\ UNCHANGED <<streamVars, printed, prints>>

FrontEmplace ==
  /\ DaemonStep("lock", "parse")
  /\ ~ Locked
  /\ queue' = Append(queue, text)
  /\ UNCHANGED <<streamVars, printed, prints>>

-----------------------------------------------------------------------------
(* The main thread: a line of the modem that is for the front-end *)

MainStep(from, to) ==
  /\ main = from
  /\ main' = to
  /\ UNCHANGED <<clients, reading, streamVars, daemon, printed, prints, ends>>

(* The oldest command is popped; verify throws, or send is called. *)
LoopAnswer ==
  /\ \E to \in {"receive", "open"} : MainStep("receive", to)
  /\ queue # <<>>
  /\ queue' = Tail(queue)
  /\ popped' = Append(popped, Head(queue))

(* The FIFO has a reader already. *)
SendOpen ==
  /\ MainStep("open", "write")
  /\ reading
  /\ UNCHANGED <<queue, popped>>

(* PipeError: the FIFO cannot be opened; the error is caught and logged. *)
SendFails ==
  /\ MainStep("open", "receive")
  /\ UNCHANGED <<queue, popped>>

SendWrite ==
  /\ MainStep("write", "receive")
  /\ reading
  /\ UNCHANGED <<queue, popped>>

(* The reader went away after the open: SIGPIPE, which nothing handles. *)
SendBreaks ==
  /\ main = "write"
  /\ ~ reading
  /\ ProcessEnds("pipe")

-----------------------------------------------------------------------------
Client(r) == ClientOpen(r) \/ ClientWrite(r) \/ ClientBreaks(r) \/ ClientClose(r)

Listen ==
  \/ DaemonOpen \/ ReadType \/ SkipNewline \/ ParseFails
  \/ ReadText \/ ReadNewline \/ ReadEof
  \/ FrontIgnores \/ FrontPrintln

Next ==
  \/ \E r \in Requests : Client(r)
  \/ Reader
  \/ Listen
  \/ FrontEmplace
  \/ LoopAnswer \/ SendOpen \/ SendFails \/ SendWrite \/ SendBreaks
  \/ Crash
  \/ Restart

Spec == Init /\ [][Next]_vars

(* Both threads run, and systemd restarts the process.  Nothing obliges a
   front-end to read. *)
Fairness ==
  /\ WF_vars(Listen)
  /\ WF_vars(FrontEmplace)
  /\ WF_vars(SendOpen \/ SendWrite \/ SendBreaks)
  /\ WF_vars(Restart)

FairSpec == Spec /\ Fairness

-----------------------------------------------------------------------------
(* Properties *)

(* What goes to the modem begins with the text of a command and goes beyond
   the first newline in no case, although several front-ends write to one
   FIFO, some of what they write is no command, a process may die in the
   middle of a message, and the next one reads the rest.  Only a text without
   a newline lets others run into it, commands or not. *)
CommandsEndAtNewline ==
  \A k \in DOMAIN printed :
    \A i \in DOMAIN printed[k] :
      /\ i = 1 => printed[k][i].part = "text" /\ printed[k][i].of \notin Prompts
      /\ printed[k][i] \in {Piece(r, "text") : r \in Terminated}
           => i = Len(printed[k])

(* Waiting for the mutex and restarting never make the service write a
   request to the modem again. *)
PrintedAtMostOnce == \A r \in Requests : prints[r] <= 1

(* What was written to the modem is waiting for its answer, or has been
   popped, in this order; only the command between the unlocked println and
   the locked emplace may be in neither place. *)
PrintedIsQueued ==
  printed = popped \o queue \o IF daemon = "lock" THEN <<text>> ELSE <<>>

(* The refinement mapping: a command is the set of the requests in it. *)
RequestsIn(command) == {r \in Requests : HasText(command, r)}

Q == INSTANCE CommandQueue WITH
       fresh    <- {r \in Requests : prints[r] = 0},
       printing <- IF daemon = "lock" THEN RequestsIn(text) ELSE {},
       queue    <- [i \in DOMAIN queue |-> RequestsIn(queue[i])],
       held     <- main \in {"open", "write"}

(* Daemon and main thread together keep one queue, whatever the front-ends do
   and whenever the process ends: every command consists of requests that
   were never written before, commands are popped in the order written, and
   none is queued while the main thread waits in send with the mutex. *)
ImplementsQueue == Q!Spec

(* A command in the FIFO reaches the modem, unless the process ends or the
   main thread waits in send for ever, with the mutex, because no front-end
   reads: neither a mutex that is released again nor the other front-ends stop
   the daemon. *)
WrittenIsPrinted ==
  []<>(main # "open") =>
    \A r \in Terminated \ Prompts :
      (clients[r] = "written" /\ ends = <<>>) ~> (prints[r] > 0 \/ ends # <<>>)

(* service.cpp:179, "Daemon is listening to front-end": it goes on listening
   when a front-end has closed its end. *)
KeepsListening ==
  \A k \in DOMAIN ends : ends[k] # "parser"
=============================================================================
