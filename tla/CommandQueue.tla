---------------------------- MODULE CommandQueue ----------------------------
(***************************************************************************)
(* What m_incoming_commands promises, without FIFO, threads or serial      *)
(* line: a command is written to the modem, queued and popped, in this     *)
(* order; commands are popped in the order in which they were written; no  *)
(* request is in two of them; and nobody touches the queue while a command *)
(* is being answered.                                                      *)
(*                                                                         *)
(* A command is the set of the requests whose texts it consists of.        *)
(***************************************************************************)
EXTENDS Sequences

CONSTANT Requests

VARIABLES
  fresh,     \* requests that have not been written to the modem
  printing,  \* the command that is written and not yet queued, or {}
  queue,     \* the commands that wait for their answers
  held       \* the main thread holds the mutex and passes on an answer

vars == <<fresh, printing, queue, held>>

Init ==
  /\ fresh = Requests
  /\ printing = {}
  /\ queue = <<>>
  /\ held = FALSE

(* Written first, without the mutex *)
Write(command) ==
  /\ printing = {}
  /\ command # {}
  /\ printing' = command
  /\ fresh' = fresh \ command
  /\ UNCHANGED <<queue, held>>

Emplace ==
  /\ printing # {}
  /\ ~ held
  /\ queue' = Append(queue, printing)
  /\ printing' = {}
  /\ UNCHANGED <<fresh, held>>

(* A line of the modem is for the oldest command: it is passed on, or it is
   not what was expected. *)
Pop ==
  /\ queue # <<>>
  /\ ~ held
  /\ queue' = Tail(queue)
  /\ held' \in BOOLEAN
  /\ UNCHANGED <<fresh, printing>>

Release ==
  /\ held
  /\ held' = FALSE
  /\ UNCHANGED <<fresh, printing, queue>>

(* The process ends; what was written stays written. *)
Lose ==
  /\ printing' = {}
  /\ queue' = <<>>
  /\ held' = FALSE
  /\ UNCHANGED fresh

Next ==
  \/ \E command \in SUBSET fresh : Write(command)
  \/ Emplace \/ Pop \/ Release \/ Lose

Spec == Init /\ [][Next]_vars
=============================================================================
