------------------------------ MODULE ModemCall ------------------------------
(***************************************************************************)
(* What send_command_get_respond promises its caller, without scanner and  *)
(* clock: what arrived before the flush is not heard; from then on all of  *)
(* it is, in order; the first thing that ends an answer ends the call, and *)
(* what came before it is the text; and the call gives up only when there  *)
(* is nothing to read, or when it reads something that means so.           *)
(*                                                                         *)
(* What arrives are bytes for one implementation, lines for the other.     *)
(***************************************************************************)
EXTENDS Naturals, Sequences

CONSTANTS
  Ends(_),  \* what was heard ends an answer
  Text(_),  \* the text in it
  Quits(_)  \* what was read makes the call give up

VARIABLES
  stage,    \* of the call; "idle" between two calls
  buffer,   \* what has arrived and was not read
  heard,    \* what the call has read
  response  \* <<text>> of an earlier call that the caller still has, or <<>>

vars == <<stage, buffer, heard, response>>

Init ==
  /\ stage = "flush"
  /\ buffer = <<>> /\ heard = <<>> /\ response = <<>>

Flush ==
  /\ stage = "flush"
  /\ stage' = "print"
  /\ buffer' = <<>>
  /\ UNCHANGED <<heard, response>>

Write ==
  /\ stage = "print"
  /\ stage' = "read"
  /\ UNCHANGED <<buffer, heard, response>>

Hears == Append(heard, Head(buffer))

Hear ==
  /\ stage = "read"
  /\ buffer # <<>>
  /\ ~ Ends(Hears) /\ ~ Quits(Head(buffer))
  /\ buffer' = Tail(buffer)
  /\ heard' = Hears
  /\ UNCHANGED <<stage, response>>

(* The caller takes the result, or has no use for it. *)
Return(result) ==
  /\ stage' \in {"flush", "idle"}
  /\ heard' = <<>>
  /\ response' \in {result, response}

Answered ==
  /\ stage = "read"
  /\ buffer # <<>>
  /\ Ends(Hears) /\ ~ Quits(Head(buffer))
  /\ buffer' = Tail(buffer)
  /\ Return(<<Text(Hears)>>)

GiveUp ==
  /\ stage = "read"
  /\ buffer = <<>>
  /\ UNCHANGED buffer
  /\ Return(<<>>)

Quit ==
  /\ stage = "read"
  /\ buffer # <<>>
  /\ Quits(Head(buffer))
  /\ buffer' = Tail(buffer)
  /\ Return(<<>>)

Arrive ==
  /\ Len(buffer) < Len(buffer')
  /\ SubSeq(buffer', 1, Len(buffer)) = buffer
  /\ UNCHANGED <<stage, heard, response>>

(* Between two calls the caller reads by itself. *)
Take ==
  /\ stage = "idle"
  /\ buffer # <<>>
  /\ buffer' = Tail(buffer)
  /\ stage' \in {"flush", "idle"}
  /\ UNCHANGED <<heard, response>>

Forget ==
  /\ stage = "idle"
  /\ response' = <<>>
  /\ UNCHANGED <<stage, buffer, heard>>

(* The process ends and starts again. *)
Reset ==
  /\ stage' = "flush"
  /\ buffer' = <<>> /\ heard' = <<>> /\ response' = <<>>

Next ==
  \/ Flush \/ Write \/ Hear \/ Answered \/ GiveUp \/ Quit
  \/ Arrive \/ Take \/ Forget \/ Reset

Spec == Init /\ [][Next]_vars
=============================================================================
