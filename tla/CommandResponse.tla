-------------------------- MODULE CommandResponse ---------------------------
(***************************************************************************)
(* One call of Service::send_command_get_respond with the SerialPi members *)
(* it uses, byte by byte and with a clock.  ModemSession has the same call *)
(* with whole lines and without time.                                      *)
(*                                                                         *)
(* The clock counts units of 500 ms, which divide every time limit of the  *)
(* service.  The limit minus the time that has passed is a number of       *)
(* nanoseconds, is narrowed to int, and goes to poll as a number of        *)
(* milliseconds: poll waits a million times too long.  Steps of the thread *)
(* take no time; time passes while it spins or waits in poll.              *)
(***************************************************************************)
EXTENDS Integers, Sequences, FiniteSets

CONSTANTS
  Timeouts,  \* the time limits of the calls, in units
  Factor,    \* nanoseconds in a millisecond
  IntMax,    \* units in 2^31 - 1 nanoseconds
  MaxBytes,  \* bound: bytes the modem sends
  MaxNow     \* bound: the clock

(* Two seconds, the longest limit, is less than 2^31 - 1 nanoseconds. *)
ASSUME ResponseAssumption ==
  /\ Timeouts \subseteq 0 .. IntMax
  /\ Factor \in Nat \ {0}
  /\ {IntMax, MaxBytes, MaxNow} \subseteq Nat

VARIABLES
  pc,        \* where the call is
  timeout,   \* its time limit
  now,       \* the clock; println is at 0
  rx,        \* the receive buffer of the port
  oss,       \* the text collected
  oFound,    \* the last byte was an O
  deadline,  \* when the poll of receive ends, or Never
  result,    \* what ended the call
  arrived,   \* history: bytes that arrived since the flush
  total      \* history: how many bytes the modem has sent

textVars == <<oss, oFound>>
vars == <<pc, timeout, now, rx, textVars, deadline, result, arrived, total>>

Never == MaxNow + 1

(* SUB is byte 26, NUL stands for the bytes 0 and 4, x for any other byte.
   A read that fails although poll saw data gives the call an uninitialised
   byte: one that came, for the call. *)
Bytes == {"O", "K", "x", "CR", "SUB", "NUL"}

(* What the modem sends is taken for the codes that receive reports a
   time-out, an error and the end of the file with. *)
Quits(byte) == byte \in {"SUB", "NUL"}

TypeOK ==
  /\ pc \in {"flush", "println", "spin", "check", "poll", "done"}
  /\ timeout \in Timeouts
  /\ now \in 0 .. MaxNow
  /\ rx \in Seq(Bytes)
  /\ oss \in Seq(Bytes)
  /\ oFound \in BOOLEAN
  /\ deadline \in Nat
  /\ result \in {"none", "text", "timeout", "error"}
  /\ arrived \in Seq(Bytes)
  /\ total \in 0 .. MaxBytes

Init ==
  /\ pc = "flush"
  /\ timeout \in Timeouts
  /\ now = 0
  /\ rx = <<>> /\ arrived = <<>> /\ total = 0
  /\ oss = <<>> /\ oFound = FALSE
  /\ deadline = 0
  /\ result = "none"

-----------------------------------------------------------------------------
Step(from, to) ==
  /\ pc = from
  /\ pc' = to
  /\ UNCHANGED <<timeout, now, total>>

Available == rx # <<>>

InTime == now <= timeout

(* SerialPi::flush drops what is left of earlier answers. *)
Flush ==
  /\ Step("flush", "println")
  /\ rx' = <<>> /\ arrived' = <<>>
  /\ UNCHANGED <<textVars, deadline, result>>

(* Mutant of Println: the flush comes after the command. *)
PrintlnFlushes ==
  /\ Step("println", "spin")
  /\ rx' = <<>> /\ arrived' = <<>>
  /\ UNCHANGED <<textVars, deadline, result>>

Println ==
  /\ Step("println", "spin")
  /\ UNCHANGED <<rx, textVars, deadline, result, arrived>>

(* The first loop ends at the first byte or with the time limit. *)
Spin ==
  /\ Step("spin", "check")
  /\ Available \/ ~ InTime
  /\ UNCHANGED <<rx, textVars, deadline, result, arrived>>

(* An int of more than IntMax becomes negative. *)
Narrowed(n) == IF n <= IntMax THEN n ELSE n - 2 * IntMax

(* Mutant of Wait: whole time limits, which are none after the start. *)
WaitWhole == IF now = 0 THEN timeout ELSE 0

(* Mutant of Wait: a limit that has passed is not made zero. *)
WaitUnclamped == Factor * Narrowed(timeout - now)

(* What poll is told to wait *)
Wait ==
  LET remainedTime == Narrowed(timeout - now)
  IN  IF remainedTime >= 0 THEN Factor * remainedTime ELSE 0

(* Mutant of Check: what is in the buffer does not count after the limit. *)
CheckTimeOnly ==
  \/ /\ Step("check", "poll")
     /\ InTime
     /\ deadline' = now + Wait
     /\ UNCHANGED <<rx, textVars, result, arrived>>
  \/ /\ Step("check", "done")
     /\ ~ InTime
     /\ result' = "timeout"
     /\ UNCHANGED <<rx, textVars, deadline, arrived>>

(* Mutant of Check: receive without an argument waits for ever. *)
CheckForEver ==
  \/ /\ Step("check", "poll")
     /\ Available \/ InTime
     /\ deadline' = Never
     /\ UNCHANGED <<rx, textVars, result, arrived>>
  \/ /\ Step("check", "done")
     /\ ~ Available /\ ~ InTime
     /\ result' = "timeout"
     /\ UNCHANGED <<rx, textVars, deadline, arrived>>

(* The head of the second loop: poll, or the call ends without an OK.  The
   report depends on the last byte received, which may not be initialised. *)
Check ==
  \/ /\ Step("check", "poll")
     /\ Available \/ InTime
     /\ deadline' = now + Wait
     /\ UNCHANGED <<rx, textVars, result, arrived>>
  \/ /\ Step("check", "done")
     /\ ~ Available /\ ~ InTime
     /\ result' \in {"timeout"} \cup (IF arrived = rx THEN {"error"} ELSE {})
     /\ UNCHANGED <<rx, textVars, deadline, arrived>>

(* Mutant of Collected: the O before another byte is dropped. *)
CollectedWithoutO(c) ==
  CASE ~ oFound /\ c = "O" -> oss
    [] ~ oFound /\ c = "CR" -> oss
    [] OTHER -> Append(oss, c)

(* A byte that does not complete an OK *)
Collected(c) ==
  CASE oFound -> oss \o <<"O", c>>
    [] ~ oFound /\ c \in {"O", "CR"} -> oss
    [] OTHER -> Append(oss, c)

Received ==
  /\ Available
  /\ rx' = Tail(rx)
  /\ UNCHANGED <<deadline, arrived>>

ReceiveByte ==
  /\ Step("poll", "check")
  /\ Received
  /\ ~ Quits(Head(rx))
  /\ ~ (oFound /\ Head(rx) = "K")
  /\ oss' = Collected(Head(rx))
  /\ oFound' = (~ oFound /\ Head(rx) = "O")
  /\ UNCHANGED result

ReceiveOk ==
  /\ Step("poll", "done")
  /\ Received
  /\ oFound
  /\ Head(rx) = "K"
  /\ result' = "text"
  /\ UNCHANGED textVars

(* A byte that means the end, whatever is behind it and however early *)
ReceiveQuit ==
  /\ Step("poll", "done")
  /\ Received
  /\ Quits(Head(rx))
  /\ result' = (IF Head(rx) = "SUB" THEN "timeout" ELSE "error")
  /\ UNCHANGED textVars

(* 26: poll has waited in vain. *)
ReceiveTimeout ==
  /\ Step("poll", "done")
  /\ ~ Available
  /\ now >= deadline
  /\ result' = "timeout"
  /\ UNCHANGED <<rx, textVars, deadline, arrived>>

(* 0 or 4: a signal, or the port is gone. *)
ReceiveError ==
  /\ Step("poll", "done")
  /\ ~ Available
  /\ result' = "error"
  /\ UNCHANGED <<rx, textVars, deadline, arrived>>

-----------------------------------------------------------------------------
(* Time, and the modem *)

Waiting ==
  \/ pc = "spin" /\ ~ Available /\ InTime
  \/ pc = "poll" /\ ~ Available /\ now < deadline

Tick ==
  /\ Waiting
  /\ now < MaxNow
  /\ now' = now + 1
  /\ UNCHANGED <<pc, timeout, rx, textVars, deadline, result, arrived, total>>

(* Answers of this and of earlier commands, and unsolicited codes *)
Arrive(byte) ==
  /\ pc # "done"
  /\ total < MaxBytes
  /\ total' = total + 1
  /\ rx' = Append(rx, byte)
  /\ arrived' = Append(arrived, byte)
  /\ UNCHANGED <<pc, timeout, now, textVars, deadline, result>>

Call ==
  \/ Flush \/ Println \/ Spin \/ Check
  \/ ReceiveByte \/ ReceiveOk \/ ReceiveQuit \/ ReceiveTimeout

Next ==
  \/ Call
  \/ ReceiveError
  \/ Tick
  \/ \E byte \in Bytes : Arrive(byte)

Spec == Init /\ [][Next]_vars

(* The thread runs and time goes by. *)
FairSpec == Spec /\ WF_vars(Call) /\ WF_vars(Tick)

-----------------------------------------------------------------------------
(* Properties *)

(* The bytes that can be part of a text: neither carriage returns nor bytes
   that end a call.  The k-th is the one that is the k-th of them. *)
Visible(bytes) == {i \in DOMAIN bytes : bytes[i] # "CR" /\ ~ Quits(bytes[i])}

Rank(bytes, i) == Cardinality({j \in Visible(bytes) : j <= i})

Readable(bytes) ==
  [k \in 1 .. Cardinality(Visible(bytes)) |->
     bytes[CHOOSE i \in Visible(bytes) : Rank(bytes, i) = k]]

Consumed == SubSeq(arrived, 1, Len(arrived) - Len(rx))

(* Of the bytes read since the flush none but carriage returns, and the byte
   that made the call give up, is missing from the collected text, none is in
   it twice, and none comes from before the flush; an OK that ends the call
   is not part of it. *)
TextIsWhatCame ==
  pc \in {"check", "poll", "done"} =>
    Readable(Consumed)
      = Readable(oss) \o (IF oFound THEN <<"O">> ELSE <<>>)
                      \o (IF result = "text" THEN <<"K">> ELSE <<>>)

(* The bytes i and i + 1 are an OK: an O and a K, with no or an even number of
   Os right before. *)
OkAt(bytes, i) ==
  /\ bytes[i] = "O" /\ bytes[i + 1] = "K"
  /\ \E j \in 1 .. i :
       /\ (i - j) % 2 = 0
       /\ \A k \in j .. i : bytes[k] = "O"
       /\ j = 1 \/ bytes[j - 1] # "O"

HasOk(bytes) == \E i \in 1 .. Len(bytes) - 1 : OkAt(bytes, i)

(* The call does not give up while an OK is in the buffer, however late the
   OK came: the second loop reads on as long as bytes are there.  Only a byte
   26, 0 or 4 before the OK keeps the call from it. *)
OkNotMissed ==
  result \in {"timeout", "error"} =>
    \A i \in 1 .. Len(arrived) - 1 :
      OkAt(arrived, i) => \E k \in 1 .. i - 1 : Quits(arrived[k])

(* Nor does it report a time-out before its time: the narrowing to int never
   makes the poll shorter than what is left.  Only a byte 26 of the modem is
   reported so before. *)
NeverEarly ==
  result = "timeout" =>
    \/ now >= timeout
    \/ Consumed # <<>> /\ Consumed[Len(Consumed)] = "SUB"

(* The refinement mapping: what was heard are the bytes read since the flush,
   the text is what was collected, carriage returns aside. *)
BeforeOk(bytes) == Readable(SubSeq(bytes, 1, Len(bytes) - 2))

C == INSTANCE ModemCall WITH
       Ends     <- HasOk,
       Text     <- BeforeOk,
       stage    <- CASE pc = "flush"   -> "flush"
                     [] pc = "println" -> "print"
                     [] pc = "done"    -> "idle"
                     [] OTHER          -> "read",
       buffer   <- rx,
       heard    <- IF pc \in {"spin", "check", "poll"} THEN Consumed ELSE <<>>,
       response <- IF result = "text" THEN <<Readable(oss)>> ELSE <<>>

(* Scanner, spinning and poll together are one call: it hears every byte from
   the flush on, ends with the first OK and with no other byte but 26, 0 and
   4, returns what was before the OK, and gives up, unless at such a byte,
   with an empty buffer only. *)
ImplementsCall == C!Spec

(* The call always ends. *)
Returns == <>(pc = "done")

(* serial.hpp:300, "timeoutInMs": receive is told milliseconds, so that the
   call returns about when its time limit has passed. *)
ReturnsInTime == pc # "done" => now <= timeout + 1
=============================================================================
