--------------------------- MODULE ServiceProcess ---------------------------
(***************************************************************************)
(* The life of the service process: main and the constructor of Service    *)
(* (service.cpp), the static ptr that owns the Service, the daemon thread, *)
(* sig_int_handler, which destroys the Service on top of whatever its      *)
(* thread was doing, and the static destructors that run after main.       *)
(*                                                                         *)
(* A SIGINT or SIGTERM is handled by a thread that does not block it: each *)
(* is blocked, on its thread, while its own handler runs there.  So a      *)
(* handler may run on top of a handler of the other signal, or beside one  *)
(* on the other thread.                                                    *)
(***************************************************************************)
EXTENDS Naturals, Sequences

CONSTANTS
  MaxSignals,  \* bound: SIGINTs and SIGTERMs sent to the process
  MaxStarts,   \* bound: how often systemd starts the process
  MaxLosses    \* bound: how often the modem loses power or the port fails

ASSUME ProcessAssumption == {MaxSignals, MaxStarts, MaxLosses} \subseteq Nat

VARIABLES
  main,       \* where the main thread is
  daemon,     \* the daemon thread exists, or is over
  stacks,     \* the handlers on top of each thread, the last one running
  ptr,        \* the static unique_ptr<Service> is not null
  joinable,   \* m_frontend_thread holds the daemon thread
  destroyed,  \* how often m_pipe and m_incoming_commands were destroyed
  overlapped, \* history: two activations had ptr at the same time
  port,       \* the serial port
  modem,      \* the modem is off, on, or on with its SIM ready
  ending,     \* how the process ended
  signals,    \* history: signals sent so far
  starts,     \* history: starts so far
  losses      \* history: losses of power or port so far

objectVars == <<ptr, joinable, destroyed, overlapped>>
worldVars == <<port, modem, signals, starts, losses>>
vars == <<main, daemon, stacks, objectVars, ending, worldVars>>

Threads == {"main", "daemon"}

Construction == {"construct", "at", "sim", "setup", "publish"}

(* ptr owns a Service from "enter" on, the call of begin_daemon_thread; in
   "send" a command pipe without a reader keeps the main thread. *)
Published ==
  {"enter", "create", "keep", "call", "loop", "command", "send", "exit"}

Signals == {"SIGINT", "SIGTERM"}

(* The destructor is in "body", at the members up to m_incoming_commands, or
   at m_frontend_thread; what it frees may be locked by what it interrupted. *)
Destroying == {"body", "members", "thread", "hung"}

(* The pointer has been read, and was not null. *)
Owning == {"clear"} \cup Destroying

(* A run of sig_int_handler, or of the destructor of ptr at exit.  One that
   is synchronous has interrupted no allocation. *)
Activation == [sig   : Signals \cup {"exit"},
               sync  : BOOLEAN,
               stage : {"print", "return"} \cup Owning]

Endings == {"running", "zero", "failure", "abort", "segv"}

TypeOK ==
  /\ main \in Construction \cup Published
  /\ daemon \in {"none", "alive", "over"}
  /\ stacks \in [Threads -> Seq(Activation)]
  /\ \A t \in Threads : Len(stacks[t]) <= 3
  /\ {ptr, joinable, overlapped} \subseteq BOOLEAN
  /\ destroyed \in Nat
  /\ port \in {"closed", "open", "lost"}
  /\ modem \in {"off", "on", "ready"}
  /\ ending \in Endings
  /\ {signals, starts, losses} \subseteq Nat

Init ==
  /\ main = "construct" /\ daemon = "none"
  /\ stacks = [t \in Threads |-> <<>>]
  /\ ptr = FALSE /\ joinable = FALSE /\ destroyed = 0 /\ overlapped = FALSE
  /\ ending = "running"
  /\ port = "closed" /\ modem = "off"
  /\ signals = 0 /\ starts = 1 /\ losses = 0

Running == ending = "running"

Ends(how) ==
  /\ ending' = how
  /\ UNCHANGED <<main, daemon, stacks, objectVars, worldVars>>

(* std::terminate raises SIGABRT; crash_printer prints and raises it again. *)
Terminate == Ends("abort")

(* Is the thread in its own code, with no handler on top? *)
Free(t) ==
  /\ Running
  /\ stacks[t] = <<>>
  /\ t = "main" \/ daemon = "alive"

(* Somebody has read ptr and has not yet finished with it. *)
Taken == \E t \in Threads : \E i \in DOMAIN stacks[t] : stacks[t][i].stage \in Owning

-----------------------------------------------------------------------------
(* main and the constructor *)

MainAt(place) == Free("main") /\ main = place

Goto(from, to) ==
  /\ MainAt(from)
  /\ main' = to
  /\ UNCHANGED <<stacks, ending>>

(* SerialPi reads the board's revision, CommandPipe makes the FIFOs, begin
   opens the port. *)
Construct ==
  /\ Goto("construct", "at")
  /\ port' = "open"
  /\ UNCHANGED <<daemon, objectVars, modem, signals, starts, losses>>

(* exit(1), exit(-1); "Failed to create named pipe" leaves main uncaught. *)
ConstructFails ==
  /\ MainAt("construct")
  /\ Ends("failure") \/ Terminate

Command(from, to) ==
  /\ Goto(from, to)
  /\ UNCHANGED <<daemon, objectVars, worldVars>>

(* AT is repeated until it gets an OK. *)
AtAnswered ==
  /\ Command("at", "sim")
  /\ port = "open"
  /\ modem # "off"

(* Mutant of SimReady: the SIM has to ask for its PIN. *)
SimAsksPin ==
  /\ Command("sim", "setup")
  /\ port = "open"
  /\ modem = "on"

(* AT+CPIN? is repeated until the answer says CPIN: READY. *)
SimReady ==
  /\ Command("sim", "setup")
  /\ port = "open"
  /\ modem = "ready"

(* CREG, COPS, CGATT, CLIP and CSQ, answered or not. *)
Setup == Command("setup", "publish")

(* ptr = make_unique<Service>(POWERKEY) *)
Publish ==
  /\ Goto("publish", "enter")
  /\ ptr' = TRUE
  /\ UNCHANGED <<daemon, joinable, destroyed, overlapped, worldVars>>

(* ptr->begin_daemon_thread(): the pointer is read before the call. *)
Enter == Command("enter", "create") /\ ptr

(* The thread runs before m_frontend_thread has it. *)
CreateThread ==
  /\ Goto("create", "keep")
  /\ daemon' = "alive"
  /\ UNCHANGED <<objectVars, worldVars>>

KeepThread ==
  /\ Goto("keep", "call")
  /\ joinable' = TRUE
  /\ UNCHANGED <<daemon, ptr, destroyed, overlapped, worldVars>>

CallLoop == Command("call", "loop") /\ ptr

(* Members of a null Service are used: SIGSEGV. *)
NullPointer ==
  /\ MainAt("enter") \/ MainAt("call")
  /\ ~ ptr
  /\ Ends("segv")

(* A line was read: loop sends the commands of a CMTI, or an answer to the
   front-end. *)
LoopLine ==
  /\ \E to \in {"command", "send"} : Command("loop", to)
  /\ port = "open"

CommandsReturn == Command("command", "loop")

SendReturns == Command("send", "loop")

(* Mutant of LoopEnds: EOF is taken for a time-out, and receive called again. *)
LoopGoesOn ==
  /\ Command("loop", "loop")
  /\ port # "open"

(* receive returns 4 (EOF): loop ends, main returns. *)
LoopEnds ==
  /\ Command("loop", "exit")
  /\ port # "open"

(* ~unique_ptr: the Service is deleted, and ptr cleared only afterwards. *)
StaticDestructors ==
  /\ MainAt("exit")
  /\ ptr
  /\ stacks' = [stacks EXCEPT !["main"] =
                  <<[sig |-> "exit", sync |-> TRUE, stage |-> "body"]>>]
  /\ overlapped' = (overlapped \/ Taken)
  /\ UNCHANGED <<main, daemon, ptr, joinable, destroyed, ending, worldVars>>

(* A handler on the daemon thread has taken ptr: nothing is left to delete. *)
Exits ==
  /\ MainAt("exit")
  /\ ~ ptr
  /\ Ends("zero")

-----------------------------------------------------------------------------
(* Signals *)

(* The handler prints; unique_ptr::reset reads ptr, clears it, and deletes. *)
Handle(t, sig, sync) ==
  /\ Running
  /\ stacks' = [stacks EXCEPT ![t] =
                  Append(@, [sig |-> sig, sync |-> sync, stage |-> "print"])]
  /\ UNCHANGED <<main, daemon, objectVars, ending, port, modem, starts, losses>>

Blocks(t, sig) == \E i \in DOMAIN stacks[t] : stacks[t][i].sig = sig

(* Mutant of Signal: the handler does not block its own signal. *)
SignalUnblocked(t, sig) ==
  /\ signals < MaxSignals
  /\ signals' = signals + 1
  /\ t = "main" \/ daemon = "alive"
  /\ Handle(t, sig, FALSE)

Signal(t, sig) ==
  /\ signals < MaxSignals
  /\ signals' = signals + 1
  /\ t = "main" \/ daemon = "alive"
  /\ ~ Blocks(t, sig)
  /\ Handle(t, sig, FALSE)

(* available cannot ask the port: raise(SIGINT), on this thread. *)
RaiseInterrupt ==
  /\ \E place \in {"at", "sim", "setup", "command"} : MainAt(place)
  /\ port # "open"
  /\ Handle("main", "SIGINT", TRUE)
  /\ UNCHANGED signals

-----------------------------------------------------------------------------
(* sig_int_handler and ~Service *)

Top(t) == stacks[t][Len(stacks[t])]

At(t, stage) == Running /\ stacks[t] # <<>> /\ Top(t).stage = stage

ToStage(t, from, to) ==
  /\ At(t, from)
  /\ stacks' = [stacks EXCEPT ![t][Len(stacks[t])].stage = to]
  /\ UNCHANGED <<main, daemon, ending>>

(* Back to what was interrupted *)
Pop(t) ==
  /\ stacks' = [stacks EXCEPT ![t] = SubSeq(@, 1, Len(@) - 1)]
  /\ UNCHANGED <<main, daemon, objectVars, ending, worldVars>>

Read(t) ==
  /\ ToStage(t, "print", IF ptr THEN "clear" ELSE "return")
  /\ overlapped' = (overlapped \/ (ptr /\ Taken))
  /\ UNCHANGED <<ptr, joinable, destroyed, worldVars>>

(* Mutant of Clear: the Service is deleted, ptr is left as it was. *)
ClearForgotten(t) ==
  /\ ToStage(t, "clear", "body")
  /\ UNCHANGED <<objectVars, worldVars>>

Clear(t) ==
  /\ ToStage(t, "clear", "body")
  /\ ptr' = FALSE
  /\ UNCHANGED <<joinable, destroyed, overlapped, worldVars>>

(* m_serial.end(), m_pipe.close() *)
Body(t) ==
  /\ ToStage(t, "body", "members")
  /\ port' = "closed"
  /\ UNCHANGED <<objectVars, modem, signals, starts, losses>>

(* Members are destroyed in reverse: m_pipe and m_incoming_commands first. *)
Members(t) ==
  /\ ToStage(t, "members", "thread")
  /\ destroyed' = destroyed + 1
  /\ UNCHANGED <<ptr, joinable, overlapped, worldVars>>

(* They have been destroyed already: their memory is freed twice. *)
DoubleFree(t) ==
  /\ At(t, "members")
  /\ destroyed > 0
  /\ Terminate \/ Ends("segv")

(* Mutant of IsJoinable: the daemon thread is detached. *)
IsDetached == FALSE

IsJoinable == joinable

(* A joinable thread is destroyed with m_frontend_thread: std::terminate. *)
ThreadTerminates(t) == At(t, "thread") /\ IsJoinable /\ Terminate

(* The Service is freed; at exit the process ends. *)
Freed(t) ==
  /\ At(t, "thread")
  /\ ~ IsJoinable
  /\ IF Top(t).sig = "exit" THEN Ends("zero") ELSE Pop(t)

(* What the thread was doing when the signal came holds the lock of the heap,
   which free and backtrace wait for. *)
Hang(t) ==
  /\ \E from \in {"members", "thread"} : ToStage(t, from, "hung")
  /\ \E i \in DOMAIN stacks[t] : ~ stacks[t][i].sync
  /\ UNCHANGED <<objectVars, worldVars>>

HandlerReturns(t) == At(t, "return") /\ Pop(t)

-----------------------------------------------------------------------------
(* The daemon thread, the modem, the port, systemd *)

(* ParserError or PipeError on the daemon thread: std::terminate. *)
DaemonThrows == Free("daemon") /\ Terminate

(* The pipe was closed by ~Service: listen returns. *)
DaemonReturns ==
  /\ Free("daemon")
  /\ port = "closed"
  /\ daemon' = "over"
  /\ UNCHANGED <<main, stacks, objectVars, ending, worldVars>>

(* A thread uses what a handler has destroyed. *)
UsesDestroyed ==
  /\ destroyed > 0
  /\ \E t \in Threads : Free(t)
  /\ Ends("segv")

ModemComesUp ==
  /\ modem' = IF modem = "off" THEN "on" ELSE "ready"
  /\ UNCHANGED <<main, daemon, stacks, objectVars, ending, port, signals, starts,
                 losses>>

Lose ==
  /\ losses < MaxLosses
  /\ losses' = losses + 1
  /\ \/ modem' = "off" /\ UNCHANGED port
     \/ port = "open" /\ port' = "lost" /\ UNCHANGED modem
  /\ UNCHANGED <<main, daemon, stacks, objectVars, ending, signals, starts>>

Start ==
  /\ ~ Running
  /\ starts < MaxStarts
  /\ starts' = starts + 1
  /\ main' = "construct" /\ daemon' = "none"
  /\ stacks' = [t \in Threads |-> <<>>]
  /\ ptr' = FALSE /\ joinable' = FALSE /\ destroyed' = 0 /\ overlapped' = FALSE
  /\ ending' = "running"
  /\ port' = "closed"
  /\ UNCHANGED <<modem, signals, losses>>

-----------------------------------------------------------------------------
Handler(t) ==
  \/ Read(t) \/ Clear(t) \/ Body(t) \/ Members(t) \/ DoubleFree(t)
  \/ ThreadTerminates(t) \/ Freed(t) \/ Hang(t)
  \/ HandlerReturns(t)

MainThread ==
  \/ Construct \/ ConstructFails
  \/ AtAnswered \/ SimReady \/ Setup \/ Publish
  \/ Enter \/ CreateThread \/ KeepThread \/ CallLoop \/ NullPointer
  \/ CommandsReturn \/ LoopEnds \/ StaticDestructors \/ Exits
  \/ RaiseInterrupt

Next ==
  \/ MainThread
  \/ LoopLine \/ SendReturns
  \/ \E t \in Threads : Handler(t)
  \/ \E t \in Threads, sig \in Signals : Signal(t, sig)
  \/ DaemonThrows \/ DaemonReturns
  \/ UsesDestroyed
  \/ ModemComesUp
  \/ Lose
  \/ Start

Spec == Init /\ [][Next]_vars

(* Both threads run, a modem that is up goes on answering, and the commands
   of loop end (ModemSession!LoopReturns).  Nothing makes send return. *)
Fairness ==
  /\ WF_vars(MainThread)
  /\ \A t \in Threads : WF_vars(Handler(t))

FairSpec == Spec /\ Fairness

-----------------------------------------------------------------------------
(* Properties *)

(* Once m_frontend_thread holds the thread no destructor gets past it: the
   process ends with status 0 in one case only, when main returns while a
   handler on the daemon thread is still in the destructor. *)
EndsByCrash ==
  joinable =>
    \/ ending \in {"running", "abort", "segv"}
    \/ /\ ending = "zero"
       /\ \E i \in DOMAIN stacks["daemon"] : stacks["daemon"][i].stage \in Destroying

(* The members of a Service are destroyed a second time only if ptr was read
   while an earlier reader was not finished: between the read and the reset
   of a handler, or in the static destructor, which resets too late. *)
DestroyedOnce == destroyed <= 1 \/ overlapped

(* A handler waits for ever for the heap. *)
Hung == \E t \in Threads : \E i \in DOMAIN stacks[t] : stacks[t][i].stage = "hung"

(* A signal that comes when ptr is set ends the process, wherever its threads
   were, or leaves it hanging in the handler.  So does the loss of the port,
   but for a main thread that never returns from send. *)
EndsWhenToldTo ==
  /\ (main \in Published /\ \E t \in Threads : stacks[t] # <<>>) ~> (~ Running \/ Hung)
  /\ []<>(main # "send") =>
       ((main \in Published /\ port # "open") ~> (~ Running \/ Hung))

(* When modem and SIM stay ready, every constructor that runs ends, whatever
   signals were ignored and answers missed before. *)
BootsWhenReady ==
  <>[](modem = "ready" /\ port # "lost") =>
    ((main \in Construction /\ Running) ~> (main \in Published \/ ~ Running))
=============================================================================
