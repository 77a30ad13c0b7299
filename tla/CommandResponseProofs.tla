------------------------ MODULE CommandResponseProofs -------------------------
(***************************************************************************)
(* Proofs about CommandResponse, for any time limit within int, any bytes  *)
(* of the modem and any bound: its type invariant, that an OK is never     *)
(* missed but behind a byte that makes the call give up, that no other     *)
(* time-out is early, that its text is what came,                          *)
(* and that it is a call of ModemCall.                                     *)
(***************************************************************************)
EXTENDS CommandResponse, SequenceTheorems, FiniteSetTheorems, TLAPS

-----------------------------------------------------------------------------
(* Type correctness *)

LEMMA WaitType ==
  ASSUME TypeOK
  PROVE  /\ Wait \in Nat
         /\ now <= timeout => now + Wait >= timeout
<1>1. /\ timeout \in 0 .. IntMax /\ now \in Nat /\ IntMax \in Nat
      /\ Factor \in Nat /\ Factor >= 1
  BY ResponseAssumption DEF TypeOK
<1> DEFINE remained == Narrowed(timeout - now)
<1>2. remained = timeout - now
  BY <1>1 DEF Narrowed
<1>3. remained \in Int
  BY <1>1, <1>2
<1>4. remained >= 0 => Factor * remained \in Nat /\ Factor * remained >= remained
  <2>1. ASSUME NEW r \in Nat
        PROVE  Factor * r \in Nat /\ Factor * r >= r
    BY <1>1, <2>1
  <2>2. QED
    BY <1>3, <2>1
<1>5. Wait = IF remained >= 0 THEN Factor * remained ELSE 0
  BY DEF Wait
<1> HIDE DEF remained
<1>6. Wait \in Nat /\ (remained >= 0 => Wait >= remained)
  BY <1>3, <1>4, <1>5
<1>7. QED
  BY <1>1, <1>2, <1>6

LEMMA TailBytes ==
  ASSUME TypeOK, rx # <<>>
  PROVE  /\ Head(rx) \in Bytes /\ Head(rx) = rx[1]
         /\ Tail(rx) \in Seq(Bytes)
         /\ Len(rx) \in Nat \ {0} /\ Len(Tail(rx)) = Len(rx) - 1
         /\ \A i \in 1 .. Len(rx) - 1 : Tail(rx)[i] = rx[i + 1]
  BY HeadTailProperties, EmptySeq DEF TypeOK

LEMMA TypeInit == Init => TypeOK
<1> SUFFICES ASSUME Init
             PROVE  TypeOK
  OBVIOUS
<1>1. <<>> \in Seq(Bytes) /\ oFound \in BOOLEAN
  BY EmptySeq DEF Init
<1>2. now \in 0 .. MaxNow /\ total \in 0 .. MaxBytes /\ deadline \in Nat
  BY ResponseAssumption DEF Init
<1>3. QED
  BY <1>1, <1>2 DEF Init, TypeOK

LEMMA TypeStep == TypeOK /\ [Next]_vars => TypeOK'
<1> SUFFICES ASSUME TypeOK, [Next]_vars
             PROVE  TypeOK'
  OBVIOUS
<1> USE DEF Step, textVars
<1>1. CASE Flush
  BY <1>1, EmptySeq DEF TypeOK, Flush
<1>2. CASE Println \/ Spin
  BY <1>2 DEF TypeOK, Println, Spin
<1>3. CASE Check
  <2>1. deadline' \in Nat
    <3>1. now \in Nat /\ deadline \in Nat
      BY ResponseAssumption DEF TypeOK
    <3>2. deadline' \in {deadline, now + Wait}
      BY <1>3 DEF Check
    <3>3. QED
      BY <3>1, <3>2, WaitType
  <2>2. QED
    BY <1>3, <2>1 DEF TypeOK, Check
<1>4. CASE ReceiveByte
  <2>1. rx' \in Seq(Bytes) /\ Head(rx) \in Bytes
    BY <1>4, TailBytes DEF ReceiveByte, Received, Available
  <2>2. oFound' \in BOOLEAN
    BY <1>4 DEF ReceiveByte
  <2>3. oss' \in Seq(Bytes)
    <3>1. <<"O", Head(rx)>> \in Seq(Bytes)
      BY <2>1 DEF Bytes
    <3>2. /\ oss \o <<"O", Head(rx)>> \in Seq(Bytes)
          /\ Append(oss, Head(rx)) \in Seq(Bytes)
      BY <2>1, <3>1, ConcatProperties, AppendProperties DEF TypeOK
    <3>3. Collected(Head(rx)) \in {oss, oss \o <<"O", Head(rx)>>, Append(oss, Head(rx))}
      <4>1. CASE oFound
        BY <4>1 DEF Collected
      <4>2. CASE ~ oFound /\ Head(rx) \in {"O", "CR"}
        BY <4>2 DEF Collected
      <4>3. CASE ~ oFound /\ Head(rx) \notin {"O", "CR"}
        BY <4>3 DEF Collected
      <4>4. QED
        BY <4>1, <4>2, <4>3
    <3>4. QED
      BY <1>4, <3>2, <3>3 DEF ReceiveByte, TypeOK
  <2>4. QED
    BY <1>4, <2>1, <2>2, <2>3 DEF TypeOK, ReceiveByte, Received
<1>5. CASE ReceiveOk \/ ReceiveQuit
  BY <1>5, TailBytes DEF TypeOK, ReceiveOk, ReceiveQuit, Received, Available
<1>6. CASE ReceiveTimeout \/ ReceiveError
  BY <1>6 DEF TypeOK, ReceiveTimeout, ReceiveError
<1>7. CASE Tick
  BY <1>7, ResponseAssumption DEF TypeOK, Tick
<1>8. ASSUME NEW byte \in Bytes, Arrive(byte)
      PROVE  TypeOK'
  <2>1. rx' \in Seq(Bytes) /\ arrived' \in Seq(Bytes)
    BY <1>8, AppendProperties DEF TypeOK, Arrive
  <2>2. total' \in 0 .. MaxBytes
    BY <1>8, ResponseAssumption DEF TypeOK, Arrive
  <2>3. QED
    BY <1>8, <2>1, <2>2 DEF TypeOK, Arrive
<1>9. CASE UNCHANGED vars
  BY <1>9 DEF TypeOK, vars
<1>10. QED
  BY <1>1, <1>2, <1>3, <1>4, <1>5, <1>6, <1>7, <1>8, <1>9 DEF Next, Call

(* The times and buffers of a call only take values of their types: what
   poll is told to wait is never negative (TypeOK). *)
THEOREM TypeCorrect == Spec => []TypeOK
  BY TypeInit, TypeStep, PTL DEF Spec

-----------------------------------------------------------------------------
(* The OK *)

(* The number of bytes that were read since the flush *)
Read == Len(arrived) - Len(rx)

(* The receive buffer is what is left of what arrived. *)
Buffer ==
  /\ Len(rx) <= Len(arrived)
  /\ \A i \in 1 .. Len(rx) : rx[i] = arrived[Read + i]
  /\ pc \in {"flush", "println", "spin"} => Read = 0 /\ ~ oFound

(* The Os right before position n of bytes begin at s. *)
RunFrom(bytes, s, n) ==
  /\ \A k \in s .. n : bytes[k] = "O"
  /\ s = 1 \/ bytes[s - 1] # "O"

(* oFound is the parity of the Os read last, and what was read has no OK. *)
Scanned ==
  pc # "done" =>
    /\ \E s \in 1 .. Read + 1 :
         RunFrom(arrived, s, Read) /\ (oFound <=> (Read + 1 - s) % 2 = 1)
    /\ \A i \in 1 .. Read - 1 : ~ OkAt(arrived, i)

OkInv ==
  /\ Buffer
  /\ Scanned
  /\ result # "none" => pc = "done"
  /\ OkNotMissed

LEMMA Parity ==
  ASSUME NEW n \in Nat
  PROVE  /\ n % 2 \in {0, 1}
         /\ (n + 1) % 2 = 1 <=> n % 2 = 0
         /\ 0 % 2 = 0
  OBVIOUS

LEMMA ReadFacts ==
  ASSUME TypeOK, Buffer
  PROVE  /\ Len(arrived) \in Nat /\ Len(rx) \in Nat /\ Read \in Nat
         /\ Read + Len(rx) = Len(arrived)
         /\ arrived \in Seq(Bytes)
  BY LenProperties DEF TypeOK, Buffer, Read

(* There is only one place where the Os before n can begin. *)
LEMMA RunUnique ==
  ASSUME NEW bytes, NEW n \in Nat, NEW s \in 1 .. n, NEW j \in 1 .. n,
         RunFrom(bytes, s, n), RunFrom(bytes, j, n)
  PROVE  s = j
<1>1. ASSUME s < j
      PROVE  FALSE
  <2>1. j - 1 \in s .. n /\ j # 1
    BY <1>1
  <2>2. QED
    BY <2>1 DEF RunFrom
<1>2. ASSUME j < s
      PROVE  FALSE
  <2>1. s - 1 \in j .. n /\ s # 1
    BY <1>2
  <2>2. QED
    BY <2>1 DEF RunFrom
<1>3. QED
  BY <1>1, <1>2

(* Nothing read, nothing found *)
LEMMA NothingScanned ==
  ASSUME Read' = 0, ~ oFound'
  PROVE  Scanned'
<1>1. RunFrom(arrived', 1, Read') /\ (oFound' <=> (Read' + 1 - 1) % 2 = 1)
      /\ 1 \in 1 .. Read' + 1
  BY Parity DEF RunFrom
<1>2. \A i \in 1 .. Read' - 1 : ~ OkAt(arrived', i)
  OBVIOUS
<1>3. QED
  BY <1>1, <1>2 DEF Scanned

(* Bytes that arrive do not change what was read. *)
LEMMA ArriveStep ==
  ASSUME TypeOK, OkInv, NEW byte \in Bytes, Arrive(byte)
  PROVE  OkInv'
<1>1. /\ arrived \in Seq(Bytes) /\ rx \in Seq(Bytes)
      /\ arrived' = Append(arrived, byte) /\ rx' = Append(rx, byte)
      /\ UNCHANGED <<pc, oFound, result>> /\ pc # "done"
  BY DEF TypeOK, Arrive, textVars
<1>2. /\ Len(arrived) \in Nat /\ Len(rx) \in Nat
      /\ Len(arrived') = Len(arrived) + 1 /\ Len(rx') = Len(rx) + 1
      /\ \A i \in 1 .. Len(arrived) : arrived'[i] = arrived[i]
      /\ \A i \in 1 .. Len(rx) : rx'[i] = rx[i]
      /\ arrived'[Len(arrived) + 1] = byte /\ rx'[Len(rx) + 1] = byte
  BY <1>1, AppendProperties, LenProperties
<1>3. Read' = Read /\ Read \in Nat /\ Read + Len(rx) = Len(arrived)
  BY <1>2, ReadFacts DEF Read, OkInv
<1>4. Buffer'
  <2>1. \A i \in 1 .. Len(rx') : rx'[i] = arrived'[Read + i]
    <3>1. TAKE i \in 1 .. Len(rx')
    <3>2. CASE i \in 1 .. Len(rx)
      <4>1. Read + i \in 1 .. Len(arrived)
        BY <1>2, <1>3, <3>2
      <4>2. QED
        BY <1>2, <3>2, <4>1 DEF OkInv, Buffer
    <3>3. CASE i = Len(rx) + 1
      <4>1. Read + i = Len(arrived) + 1
        BY <1>2, <1>3, <3>3
      <4>2. QED
        BY <1>2, <3>3, <4>1
    <3>4. QED
      BY <1>2, <3>2, <3>3
  <2>2. Len(rx') <= Len(arrived')
    BY <1>2, <1>3
  <2>3. pc' \in {"flush", "println", "spin"} => Read' = 0 /\ ~ oFound'
    BY <1>1, <1>3 DEF OkInv, Buffer
  <2>4. QED
    BY <1>3, <2>1, <2>2, <2>3 DEF Buffer
<1>5. \A k \in 1 .. Read : arrived'[k] = arrived[k]
  BY <1>2, <1>3
<1>6. Scanned'
  <2>1. PICK s \in 1 .. Read + 1 :
          RunFrom(arrived, s, Read) /\ (oFound <=> (Read + 1 - s) % 2 = 1)
    BY <1>1 DEF OkInv, Scanned
  <2>2. RunFrom(arrived', s, Read)
    BY <1>3, <1>5, <2>1 DEF RunFrom
  <2>3. ASSUME NEW i \in 1 .. Read - 1, OkAt(arrived', i)
        PROVE  FALSE
    <3>1. ~ OkAt(arrived, i)
      BY <1>1 DEF OkInv, Scanned
    <3>2. \A k \in 1 .. i + 1 : arrived'[k] = arrived[k]
      BY <1>3, <1>5
    <3>3. PICK j \in 1 .. i : /\ (i - j) % 2 = 0
                              /\ \A k \in j .. i : arrived'[k] = "O"
                              /\ j = 1 \/ arrived'[j - 1] # "O"
      BY <2>3 DEF OkAt
    <3>4. /\ \A k \in j .. i : arrived[k] = "O"
          /\ j = 1 \/ arrived[j - 1] # "O"
          /\ arrived[i] = "O" /\ arrived[i + 1] = "K"
      BY <1>3, <2>3, <3>2, <3>3 DEF OkAt
    <3>5. QED
      BY <3>1, <3>3, <3>4 DEF OkAt
  <2>4. QED
    BY <1>1, <1>3, <2>1, <2>2, <2>3 DEF Scanned
<1>7. QED
  BY <1>1, <1>4, <1>6 DEF OkInv, OkNotMissed

(* One byte more is read. *)
LEMMA ByteStep ==
  ASSUME TypeOK, OkInv, ReceiveByte
  PROVE  OkInv'
<1> DEFINE n == Read
           c == arrived[n + 1]
<1>1. /\ rx # <<>> /\ rx' = Tail(rx) /\ Head(rx) = rx[1]
      /\ Len(rx) \in Nat \ {0} /\ Len(Tail(rx)) = Len(rx) - 1
      /\ \A i \in 1 .. Len(rx) - 1 : Tail(rx)[i] = rx[i + 1]
  BY TailBytes DEF ReceiveByte, Received, Available
<1>2. n \in Nat /\ n + Len(rx) = Len(arrived) /\ Len(arrived) \in Nat
  BY ReadFacts DEF OkInv
<1>3. /\ UNCHANGED <<arrived, result>> /\ pc = "poll" /\ pc' = "check"
      /\ ~ (oFound /\ rx[1] = "K")
      /\ oFound' = (~ oFound /\ rx[1] = "O")
  BY <1>1 DEF ReceiveByte, Received, Step
<1>4. rx[1] = c
  BY <1>1, <1>2 DEF OkInv, Buffer
<1>5. Read' = n + 1
  BY <1>1, <1>2, <1>3 DEF Read
<1>6. Buffer'
  <2>1. \A i \in 1 .. Len(rx) - 1 : Tail(rx)[i] = arrived[n + 1 + i]
    <3>1. TAKE i \in 1 .. Len(rx) - 1
    <3>2. i + 1 \in 1 .. Len(rx) /\ n + (i + 1) = n + 1 + i
      BY <1>1, <1>2
    <3>3. rx[i + 1] = arrived[n + (i + 1)]
      BY <3>2 DEF OkInv, Buffer
    <3>4. QED
      BY <1>1, <3>2, <3>3
  <2>2. QED
    BY <1>1, <1>2, <1>3, <1>5, <2>1 DEF Buffer
<1>7. PICK s \in 1 .. n + 1 :
        RunFrom(arrived, s, n) /\ (oFound <=> (n + 1 - s) % 2 = 1)
  BY <1>3 DEF OkInv, Scanned
<1> HIDE DEF n, c
<1>8. n + 1 - s \in Nat /\ n + 1 + 1 - s = (n + 1 - s) + 1
  BY <1>2
<1>9. \E t \in 1 .. n + 2 :
        RunFrom(arrived, t, n + 1) /\ (oFound' <=> (n + 1 + 1 - t) % 2 = 1)
  <2>1. CASE c = "O"
    <3>1. RunFrom(arrived, s, n + 1)
      <4>1. \A k \in s .. n + 1 : k \in s .. n \/ k = n + 1
        BY <1>2
      <4>2. QED
        BY <1>7, <2>1, <4>1 DEF RunFrom, c
    <3>2. oFound' <=> (n + 1 + 1 - s) % 2 = 1
      <4>1. oFound' <=> ~ oFound
        BY <1>3, <1>4, <2>1
      <4>2. (n + 1 - s) % 2 \in {0, 1}
            /\ ((n + 1 + 1 - s) % 2 = 1 <=> (n + 1 - s) % 2 = 0)
        BY <1>8, Parity
      <4>3. QED
        BY <1>7, <4>1, <4>2
    <3>3. s \in 1 .. n + 2
      BY <1>2
    <3>4. QED
      BY <3>1, <3>2, <3>3
  <2>2. CASE c # "O"
    <3>1. RunFrom(arrived, n + 2, n + 1)
      <4>1. (n + 2) - 1 = n + 1 /\ (n + 2) .. (n + 1) = {}
        BY <1>2
      <4>2. QED
        BY <2>2, <4>1 DEF RunFrom, c
    <3>2. ~ oFound'
      BY <1>3, <1>4, <2>2
    <3>3. n + 1 + 1 - (n + 2) = 0 /\ n + 2 \in 1 .. n + 2
      BY <1>2
    <3>4. (n + 1 + 1 - (n + 2)) % 2 # 1
      BY <3>3, Parity
    <3>5. QED
      BY <3>1, <3>2, <3>3, <3>4
  <2>3. QED
    BY <2>1, <2>2
<1>10. ASSUME n \in 1 .. n, OkAt(arrived, n)
       PROVE  FALSE
  <2>1. PICK j \in 1 .. n : (n - j) % 2 = 0 /\ RunFrom(arrived, j, n)
    BY <1>10 DEF OkAt, RunFrom
  <2>2. arrived[n] = "O" /\ c = "K"
    BY <1>10 DEF OkAt, c
  <2>3. s \in 1 .. n
    <3>1. s # n + 1
      BY <1>2, <1>7, <1>10, <2>2 DEF RunFrom
    <3>2. QED
      BY <1>2, <3>1
  <2>4. s = j
    BY <1>2, <1>7, <2>1, <2>3, RunUnique
  <2>5. n - s \in Nat /\ n + 1 - s = (n - s) + 1
    BY <1>2, <2>3
  <2>6. (n + 1 - s) % 2 = 1
    BY <2>1, <2>4, <2>5, Parity
  <2>7. QED
    BY <1>3, <1>4, <1>7, <2>2, <2>6
<1>11. \A i \in 1 .. (n + 1) - 1 : ~ OkAt(arrived, i)
  <2>1. \A i \in 1 .. n - 1 : ~ OkAt(arrived, i)
    BY <1>3 DEF OkInv, Scanned, n
  <2>2. \A i \in 1 .. (n + 1) - 1 : i \in 1 .. n - 1 \/ (i = n /\ n \in 1 .. n)
    BY <1>2
  <2>3. QED
    BY <1>10, <2>1, <2>2
<1>12. Scanned'
  <2>1. n + 2 = (n + 1) + 1
    BY <1>2
  <2>2. QED
    BY <1>3, <1>5, <1>9, <1>11, <2>1 DEF Scanned
<1>13. QED
  BY <1>3, <1>6, <1>12 DEF OkInv, OkNotMissed

(* The call ends without an OK: no byte is left, or the next one ends it. *)
LEMMA TimeoutStep ==
  ASSUME TypeOK, OkInv, pc # "done", ~ Available,
         pc' = "done", UNCHANGED <<rx, arrived, oFound>>
  PROVE  OkInv'
<1>1. Len(rx) = 0 /\ Read = Len(arrived)
  BY ReadFacts DEF Available, OkInv
<1>2. \A i \in 1 .. Len(arrived) - 1 : ~ OkAt(arrived, i)
  BY <1>1 DEF OkInv, Scanned
<1>3. Buffer'
  BY DEF OkInv, Buffer, Read
<1>4. QED
  BY <1>2, <1>3 DEF OkInv, Scanned, OkNotMissed

(* The byte that ends the call leaves what is behind it in the buffer. *)
LEMMA LastByte ==
  ASSUME TypeOK, Buffer, Received, pc' = "done"
  PROVE  Buffer'
<1>1. rx # <<>> /\ rx' = Tail(rx) /\ UNCHANGED arrived
  BY DEF Received, Available
<1>2. /\ Len(rx) \in Nat \ {0} /\ Len(Tail(rx)) = Len(rx) - 1
      /\ \A i \in 1 .. Len(rx) - 1 : Tail(rx)[i] = rx[i + 1]
  BY <1>1, TailBytes
<1>3. Read \in Nat /\ Len(arrived) \in Nat /\ Read' = Read + 1
  BY <1>1, <1>2, ReadFacts DEF Read
<1>4. ASSUME NEW i \in 1 .. Len(rx) - 1
      PROVE  Tail(rx)[i] = arrived[Read + 1 + i]
  <2>1. i + 1 \in 1 .. Len(rx) /\ Read + (i + 1) = Read + 1 + i
    BY <1>2, <1>3
  <2>2. rx[i + 1] = arrived[Read + (i + 1)]
    BY <2>1 DEF Buffer
  <2>3. QED
    BY <1>2, <2>1, <2>2
<1>5. Len(rx') <= Len(arrived') /\ Len(rx') = Len(rx) - 1
  BY <1>1, <1>2 DEF Buffer
<1>6. \A i \in 1 .. Len(rx') : rx'[i] = arrived'[Read' + i]
  BY <1>1, <1>3, <1>4, <1>5
<1>7. QED
  BY <1>5, <1>6 DEF Buffer

LEMMA OkStep == TypeOK /\ OkInv /\ [Next]_vars => OkInv'
<1> SUFFICES ASSUME TypeOK, OkInv, [Next]_vars
             PROVE  OkInv'
  OBVIOUS
<1> USE DEF Step, textVars
<1>1. CASE Flush
  <2>1. /\ rx' = <<>> /\ arrived' = <<>> /\ pc' = "println"
        /\ ~ oFound' /\ result' = "none"
    BY <1>1 DEF Flush, OkInv, Buffer
  <2>2. Read' = 0 /\ Buffer'
    BY <2>1, EmptySeq DEF Read, Buffer
  <2>3. QED
    BY <2>1, <2>2, NothingScanned DEF OkInv, OkNotMissed
<1>2. CASE Println \/ Spin \/ (Check /\ pc' = "poll") \/ UNCHANGED vars
  <2>1. /\ UNCHANGED <<rx, arrived, oFound, result>>
        /\ pc' \in {"flush", "println", "spin"} => pc \in {"flush", "println", "spin"}
        /\ pc' = pc \/ (pc # "done" /\ pc' # "done")
    BY <1>2 DEF Println, Spin, Check, vars
  <2>2. Read' = Read
    BY <2>1 DEF Read
  <2>3. QED
    BY <2>1, <2>2 DEF OkInv, Buffer, Scanned, OkNotMissed
<1>3. CASE Check /\ pc' = "done"
  BY <1>3, TimeoutStep DEF Check
<1>4. CASE ReceiveByte
  BY <1>4, ByteStep
<1>5. CASE ReceiveOk
  <2>1. /\ pc' = "done" /\ result' = "text" /\ Received /\ UNCHANGED arrived
    BY <1>5 DEF ReceiveOk, Received
  <2>2. Buffer'
    BY <2>1, LastByte DEF OkInv
  <2>3. QED
    BY <2>1, <2>2 DEF OkInv, Scanned, OkNotMissed
<1>10. CASE ReceiveQuit
  <2>1. /\ pc # "done" /\ pc' = "done" /\ Received /\ UNCHANGED arrived
        /\ Quits(Head(rx))
    BY <1>10 DEF ReceiveQuit, Received
  <2>2. Buffer'
    BY <2>1, LastByte DEF OkInv
  <2>3. Read \in Nat /\ Quits(arrived[Read + 1])
    <3>1. Head(rx) = rx[1] /\ 1 \in 1 .. Len(rx)
      BY <2>1, TailBytes DEF Received, Available
    <3>2. rx[1] = arrived[Read + 1]
      BY <3>1 DEF OkInv, Buffer
    <3>3. QED
      BY <2>1, <3>1, <3>2, ReadFacts DEF OkInv
  <2>4. ASSUME NEW i \in 1 .. Len(arrived) - 1, OkAt(arrived, i)
        PROVE  \E k \in 1 .. i - 1 : Quits(arrived[k])
    <3>1. i \notin 1 .. Read - 1
      BY <2>1, <2>4 DEF OkInv, Scanned
    <3>2. Read + 1 # i /\ Read + 1 # i + 1
      BY <2>3, <2>4 DEF OkAt, Quits
    <3>3. Read + 1 \in 1 .. i - 1
      BY <2>3, <3>1, <3>2
    <3>4. QED
      BY <2>3, <3>3
  <2>5. OkNotMissed'
    BY <2>1, <2>4 DEF OkNotMissed
  <2>6. QED
    BY <2>1, <2>2, <2>5 DEF OkInv, Scanned
<1>6. CASE ReceiveTimeout \/ ReceiveError
  BY <1>6, TimeoutStep DEF ReceiveTimeout, ReceiveError
<1>7. CASE Tick
  <2>1. UNCHANGED <<rx, arrived, oFound, result, pc>>
    BY <1>7 DEF Tick
  <2>2. Read' = Read
    BY <2>1 DEF Read
  <2>3. QED
    BY <2>1, <2>2 DEF OkInv, Buffer, Scanned, OkNotMissed
<1>8. ASSUME NEW byte \in Bytes, Arrive(byte)
      PROVE  OkInv'
  BY <1>8, ArriveStep
<1>9. QED
  BY <1>1, <1>2, <1>3, <1>4, <1>5, <1>6, <1>7, <1>8, <1>10 DEF Next, Call, Check

LEMMA OkInit == Init => OkInv
<1> SUFFICES ASSUME Init
             PROVE  OkInv
  OBVIOUS
<1>1. rx = <<>> /\ arrived = <<>> /\ ~ oFound /\ result = "none" /\ Len(<<>>) = 0
  BY EmptySeq DEF Init
<1>2. Read = 0 /\ Buffer
  BY <1>1 DEF Read, Buffer
<1>3. RunFrom(arrived, 1, Read) /\ (Read + 1 - 1) % 2 = 0 /\ 1 \in 1 .. Read + 1
      /\ 1 .. Read - 1 = {}
  BY <1>2, Parity DEF RunFrom
<1>4. Scanned
  BY <1>1, <1>3 DEF Scanned
<1>5. QED
  BY <1>1, <1>2, <1>4 DEF OkInv, OkNotMissed

(* For every text the modem sends and every moment its bytes come at: when
   the call reports a time-out or an error, no OK was among the bytes that
   arrived, unless a byte 26, 0 or 4 came before it (service.cpp:203). *)
THEOREM NoOkMissed == Spec => []OkNotMissed
<1>1. OkInv => OkNotMissed
  BY DEF OkInv
<1>2. QED
  BY <1>1, OkInit, OkStep, TypeCorrect, PTL DEF Spec

-----------------------------------------------------------------------------
(* The text of the call *)

(* Not part of a text *)
Unseen(c) == c = "CR" \/ Quits(c)

LEMMA VisibleFacts ==
  ASSUME NEW bytes \in Seq(Bytes)
  PROVE  /\ Visible(bytes) \subseteq 1 .. Len(bytes) /\ Len(bytes) \in Nat
         /\ IsFiniteSet(Visible(bytes)) /\ Cardinality(Visible(bytes)) \in Nat
<1>1. Len(bytes) \in Nat /\ DOMAIN bytes = 1 .. Len(bytes)
  BY LenProperties
<1>2. IsFiniteSet(1 .. Len(bytes))
  BY <1>1, FS_Interval
<1>3. Visible(bytes) \subseteq 1 .. Len(bytes)
  BY <1>1 DEF Visible
<1>4. IsFiniteSet(Visible(bytes))
  BY <1>2, <1>3, FS_Subset
<1>5. QED
  BY <1>1, <1>3, <1>4, FS_CardinalityType

LEMMA RankFacts ==
  ASSUME NEW bytes \in Seq(Bytes), NEW i \in Nat
  PROVE  /\ Rank(bytes, i) \in Nat /\ Rank(bytes, i) <= Cardinality(Visible(bytes))
         /\ IsFiniteSet({j \in Visible(bytes) : j <= i})
         /\ i \in Visible(bytes) => Rank(bytes, i) >= 1
<1> DEFINE upto == {j \in Visible(bytes) : j <= i}
<1>1. upto \in SUBSET Visible(bytes)
  OBVIOUS
<1>2. IsFiniteSet(upto) /\ Cardinality(upto) \in Nat
      /\ Cardinality(upto) <= Cardinality(Visible(bytes))
  BY <1>1, VisibleFacts, FS_Subset, FS_CardinalityType
<1>3. ASSUME i \in Visible(bytes)
      PROVE  upto # {}
  BY <1>3
<1>4. i \in Visible(bytes) => Cardinality(upto) # 0
  BY <1>2, <1>3, FS_EmptySet
<1>5. QED
  BY <1>2, <1>4 DEF Rank

(* Later bytes have higher ranks. *)
LEMMA RankGrows ==
  ASSUME NEW bytes \in Seq(Bytes), NEW i \in Visible(bytes), NEW j \in Visible(bytes), i < j
  PROVE  Rank(bytes, i) < Rank(bytes, j)
<1> DEFINE low == {k \in Visible(bytes) : k <= i}
           high == {k \in Visible(bytes) : k <= j}
<1>1. i \in Nat /\ j \in Nat /\ Visible(bytes) \subseteq Nat
  BY VisibleFacts
<1>2. IsFiniteSet(low) /\ IsFiniteSet(high)
  BY <1>1, RankFacts
<1>3. j \notin low /\ low \cup {j} \subseteq high
  BY <1>1
<1>4. IsFiniteSet(low \cup {j}) /\ Cardinality(low \cup {j}) = Cardinality(low) + 1
  BY <1>2, <1>3, FS_AddElement
<1>5. Cardinality(low \cup {j}) <= Cardinality(high)
  BY <1>2, <1>3, FS_Subset
<1>6. Cardinality(low) \in Nat /\ Cardinality(high) \in Nat
  BY <1>2, FS_CardinalityType
<1> HIDE DEF low, high
<1>7. Cardinality(low) < Cardinality(high)
  BY <1>4, <1>5, <1>6
<1>8. QED
  BY <1>7 DEF Rank, low, high

(* Each of the first ranks is some byte's. *)
LEMMA RankReached ==
  ASSUME NEW bytes \in Seq(Bytes), NEW k \in 1 .. Cardinality(Visible(bytes))
  PROVE  \E i \in Visible(bytes) : Rank(bytes, i) = k
<1> DEFINE n == Cardinality(Visible(bytes))
           rank == [i \in Visible(bytes) |-> Rank(bytes, i)]
<1>1. n \in Nat /\ Visible(bytes) \subseteq Nat /\ IsFiniteSet(Visible(bytes))
  BY VisibleFacts
<1>2. IsFiniteSet(1 .. n) /\ Cardinality(1 .. n) = n
  BY <1>1, FS_Interval
<1>3. rank \in [Visible(bytes) -> 1 .. n]
  <2>1. ASSUME NEW i \in Visible(bytes)
        PROVE  Rank(bytes, i) \in 1 .. n
    <3>1. i \in Nat
      BY <1>1
    <3>2. Rank(bytes, i) \in Nat /\ Rank(bytes, i) <= n /\ Rank(bytes, i) >= 1
      BY <3>1, RankFacts
    <3>3. QED
      BY <1>1, <3>2
  <2>2. QED
    BY <2>1
<1>4. ASSUME NEW i \in Visible(bytes), NEW j \in Visible(bytes), rank[i] = rank[j]
      PROVE  i = j
  <2>1. i \in Nat /\ j \in Nat /\ Rank(bytes, i) \in Nat /\ Rank(bytes, j) \in Nat
    BY <1>1, RankFacts
  <2>2. Rank(bytes, i) = Rank(bytes, j)
    BY <1>4
  <2>3. ~ (i < j) /\ ~ (j < i)
    BY <2>1, <2>2, RankGrows
  <2>4. QED
    BY <2>1, <2>3
<1>5. rank \in Injection(Visible(bytes), 1 .. n)
  BY <1>3, <1>4 DEF Injection, IsInjective
<1>6. rank \in Surjection(Visible(bytes), 1 .. n)
  BY <1>2, <1>5, FS_Injection
<1>7. QED
  BY <1>6 DEF Surjection

LEMMA AppendFacts ==
  ASSUME NEW bytes \in Seq(Bytes), NEW c \in Bytes
  PROVE  LET longer == Append(bytes, c)
         IN  /\ longer \in Seq(Bytes) /\ Len(longer) = Len(bytes) + 1 /\ Len(bytes) \in Nat
             /\ \A i \in 1 .. Len(bytes) : longer[i] = bytes[i]
             /\ longer[Len(bytes) + 1] = c
             /\ Visible(longer) = IF Unseen(c) THEN Visible(bytes)
                                  ELSE Visible(bytes) \cup {Len(bytes) + 1}
             /\ \A i \in 1 .. Len(bytes) : Rank(longer, i) = Rank(bytes, i)
<1> DEFINE longer == Append(bytes, c)
<1>1. /\ longer \in Seq(Bytes) /\ Len(longer) = Len(bytes) + 1 /\ Len(bytes) \in Nat
      /\ \A i \in 1 .. Len(bytes) : longer[i] = bytes[i]
      /\ longer[Len(bytes) + 1] = c
      /\ DOMAIN longer = 1 .. Len(bytes) + 1 /\ DOMAIN bytes = 1 .. Len(bytes)
  BY AppendProperties, LenProperties
<1> HIDE DEF longer
<1>2. Visible(longer) = IF Unseen(c) THEN Visible(bytes)
                        ELSE Visible(bytes) \cup {Len(bytes) + 1}
  BY <1>1 DEF Visible, Unseen
<1>3. ASSUME NEW i \in 1 .. Len(bytes)
      PROVE  Rank(longer, i) = Rank(bytes, i)
  <2>1. {j \in Visible(longer) : j <= i} = {j \in Visible(bytes) : j <= i}
    BY <1>1, <1>2, VisibleFacts
  <2>2. QED
    BY <2>1 DEF Rank
<1>4. QED
  BY <1>1, <1>2, <1>3 DEF longer

(* The byte of rank k is the k-th. *)
LEMMA ReadableAt ==
  ASSUME NEW bytes \in Seq(Bytes)
  PROVE  /\ Readable(bytes) \in Seq(Bytes)
         /\ Len(Readable(bytes)) = Cardinality(Visible(bytes))
         /\ \A i \in Visible(bytes) : /\ Rank(bytes, i) \in 1 .. Cardinality(Visible(bytes))
                                     /\ Readable(bytes)[Rank(bytes, i)] = bytes[i]
<1> DEFINE n == Cardinality(Visible(bytes))
           at(k) == CHOOSE i \in Visible(bytes) : Rank(bytes, i) = k
<1>1. n \in Nat /\ Visible(bytes) \subseteq 1 .. Len(bytes) /\ Len(bytes) \in Nat
  BY VisibleFacts
<1>2. \A i \in Visible(bytes) : bytes[i] \in Bytes
  BY <1>1, ElementOfSeq
<1>3. ASSUME NEW k \in 1 .. n
      PROVE  at(k) \in Visible(bytes) /\ Rank(bytes, at(k)) = k
  BY RankReached
<1>4. Readable(bytes) = [k \in 1 .. n |-> bytes[at(k)]]
  BY DEF Readable
<1> HIDE DEF n, at
<1>5. Readable(bytes) \in Seq(Bytes) /\ Len(Readable(bytes)) = n
  <2>1. Readable(bytes) \in [1 .. n -> Bytes]
    BY <1>2, <1>3, <1>4
  <2>2. Readable(bytes) \in Seq(Bytes)
    BY <1>1, <2>1, SeqDef
  <2>3. QED
    BY <1>1, <2>1, <2>2, LenProperties
<1>6. ASSUME NEW i \in Visible(bytes)
      PROVE  Rank(bytes, i) \in 1 .. n /\ Readable(bytes)[Rank(bytes, i)] = bytes[i]
  <2>1. Rank(bytes, i) \in 1 .. n /\ i \in Nat
    <3>1. i \in Nat
      BY <1>1
    <3>2. Rank(bytes, i) \in Nat /\ Rank(bytes, i) <= n /\ Rank(bytes, i) >= 1
      BY <3>1, RankFacts DEF n
    <3>3. QED
      BY <1>1, <3>1, <3>2
  <2>2. at(Rank(bytes, i)) \in Visible(bytes) /\ Rank(bytes, at(Rank(bytes, i))) = Rank(bytes, i)
    BY <1>3, <2>1
  <2>3. at(Rank(bytes, i)) = i
    BY <1>1, <2>1, <2>2, RankGrows
  <2>4. QED
    BY <1>4, <2>1, <2>3
<1>7. QED
  BY <1>5, <1>6 DEF n

(* A byte at the end comes at the end; one that is not part of a text does not. *)
LEMMA ReadableAppend ==
  ASSUME NEW bytes \in Seq(Bytes), NEW c \in Bytes
  PROVE  Readable(Append(bytes, c)) = IF Unseen(c) THEN Readable(bytes)
                                      ELSE Append(Readable(bytes), c)
<1> DEFINE longer == Append(bytes, c)
           m == Len(bytes) + 1
           n == Cardinality(Visible(bytes))
<1>1. /\ longer \in Seq(Bytes) /\ Len(longer) = m /\ Len(bytes) \in Nat
      /\ \A i \in 1 .. Len(bytes) : longer[i] = bytes[i]
      /\ longer[m] = c
      /\ Visible(longer) = IF Unseen(c) THEN Visible(bytes) ELSE Visible(bytes) \cup {m}
      /\ \A i \in 1 .. Len(bytes) : Rank(longer, i) = Rank(bytes, i)
  BY AppendFacts
<1>2. Visible(bytes) \subseteq 1 .. Len(bytes) /\ n \in Nat /\ IsFiniteSet(Visible(bytes))
  BY VisibleFacts
<1>3. m \notin Visible(bytes)
  BY <1>1, <1>2
<1>4. Cardinality(Visible(longer)) = IF Unseen(c) THEN n ELSE n + 1
  BY <1>1, <1>2, <1>3, FS_AddElement
<1>5. /\ Readable(bytes) \in Seq(Bytes) /\ Len(Readable(bytes)) = n
      /\ Readable(longer) \in Seq(Bytes)
      /\ Len(Readable(longer)) = Cardinality(Visible(longer))
  BY <1>1, ReadableAt
<1> HIDE DEF longer, m, n
<1>6. ASSUME NEW k \in 1 .. n
      PROVE  Readable(longer)[k] = Readable(bytes)[k]
  <2>1. PICK i \in Visible(bytes) : Rank(bytes, i) = k
    BY RankReached DEF n
  <2>2. i \in Visible(longer) /\ Rank(longer, i) = k /\ longer[i] = bytes[i]
    BY <1>1, <1>2, <2>1
  <2>3. Readable(bytes)[k] = bytes[i] /\ Readable(longer)[k] = longer[i]
    BY <1>1, <2>1, <2>2, ReadableAt
  <2>4. QED
    BY <2>2, <2>3
<1>7. CASE Unseen(c)
  <2>1. Readable(longer) = Readable(bytes)
    BY <1>2, <1>4, <1>5, <1>6, <1>7, SeqEqual
  <2>2. QED
    BY <1>7, <2>1 DEF longer
<1>8. CASE ~ Unseen(c)
  <2>1. Readable(longer)[n + 1] = c
    <3>1. m \in Visible(longer) /\ m \in Nat
      BY <1>1, <1>8 DEF m
    <3>2. {j \in Visible(longer) : j <= m} = Visible(longer)
      BY <1>1, <1>2 DEF m
    <3>3. Rank(longer, m) = n + 1
      BY <1>4, <1>8, <3>2 DEF Rank
    <3>4. QED
      BY <1>1, <3>1, <3>3, ReadableAt
  <2>2. Append(Readable(bytes), c) \in Seq(Bytes)
        /\ Len(Append(Readable(bytes), c)) = n + 1
        /\ \A k \in 1 .. n : Append(Readable(bytes), c)[k] = Readable(bytes)[k]
        /\ Append(Readable(bytes), c)[n + 1] = c
    BY <1>5, AppendProperties
  <2>3. \A k \in 1 .. n + 1 : k \in 1 .. n \/ k = n + 1
    BY <1>2
  <2>4. Readable(longer) = Append(Readable(bytes), c)
    BY <1>2, <1>4, <1>5, <1>6, <1>8, <2>1, <2>2, <2>3, SeqEqual
  <2>5. QED
    BY <1>8, <2>4 DEF longer
<1>9. QED
  BY <1>7, <1>8

LEMMA ReadableEmpty == Readable(<<>>) = <<>>
<1>1. <<>> \in Seq(Bytes) /\ Visible(<<>>) = {}
  BY EmptySeq DEF Visible
<1>2. Len(Readable(<<>>)) = 0 /\ Readable(<<>>) \in Seq(Bytes)
  BY <1>1, ReadableAt, FS_EmptySet
<1>3. QED
  BY <1>2, EmptySeq

(* What the scanner still holds back, and what ended the call *)
HeldBack == IF oFound THEN <<"O">> ELSE <<>>
Ending == IF result = "text" THEN <<"K">> ELSE <<>>

(* TextIsWhatCame holds in all places: before the first byte both sides are
   empty. *)
TextInv ==
  /\ pc \in {"flush", "println", "spin"} => oss = <<>>
  /\ pc # "done" => result = "none"
  /\ Readable(Consumed) = Readable(oss) \o HeldBack \o Ending

(* A byte that is read is the next of those consumed. *)
LEMMA ConsumedGrows ==
  ASSUME TypeOK, Buffer, Received
  PROVE  /\ Consumed \in Seq(Bytes) /\ Head(rx) \in Bytes
         /\ Consumed' = Append(Consumed, Head(rx))
<1>1. /\ rx # <<>> /\ rx' = Tail(rx) /\ Head(rx) = rx[1] /\ Head(rx) \in Bytes
      /\ Len(rx) \in Nat \ {0} /\ Len(Tail(rx)) = Len(rx) - 1
      /\ UNCHANGED arrived
  BY TailBytes DEF Received, Available
<1>2. Read \in Nat /\ Read + Len(rx) = Len(arrived) /\ Len(arrived) \in Nat
      /\ arrived \in Seq(Bytes)
  BY ReadFacts
<1>3. Consumed = SubSeq(arrived, 1, Read) /\ Consumed' = SubSeq(arrived, 1, Read + 1)
  <2>1. Len(arrived) - (Len(rx) - 1) = Read + 1
    BY <1>1, <1>2
  <2>2. QED
    BY <1>1, <2>1 DEF Consumed, Read
<1>4. rx[1] = arrived[Read + 1]
  BY <1>1 DEF Buffer
<1>5. /\ SubSeq(arrived, 1, Read) \in Seq(Bytes) /\ Len(SubSeq(arrived, 1, Read)) = Read
      /\ \A i \in 1 .. Read : SubSeq(arrived, 1, Read)[i] = arrived[i]
      /\ SubSeq(arrived, 1, Read + 1) \in Seq(Bytes)
      /\ Len(SubSeq(arrived, 1, Read + 1)) = Read + 1
      /\ \A i \in 1 .. Read + 1 : SubSeq(arrived, 1, Read + 1)[i] = arrived[i]
  BY <1>1, <1>2, SubSeqProperties
<1>6. SubSeq(arrived, 1, Read + 1) = Append(SubSeq(arrived, 1, Read), rx[1])
  <2> DEFINE longer == Append(SubSeq(arrived, 1, Read), rx[1])
  <2>1. /\ longer \in Seq(Bytes) /\ Len(longer) = Read + 1
        /\ \A i \in 1 .. Read : longer[i] = SubSeq(arrived, 1, Read)[i]
        /\ longer[Read + 1] = rx[1]
    BY <1>1, <1>5, AppendProperties
  <2>2. \A i \in 1 .. Read + 1 : i \in 1 .. Read \/ i = Read + 1
    BY <1>2
  <2> HIDE DEF longer
  <2>3. \A i \in 1 .. Read + 1 : longer[i] = SubSeq(arrived, 1, Read + 1)[i]
    BY <1>2, <1>4, <1>5, <2>1, <2>2
  <2>4. longer = SubSeq(arrived, 1, Read + 1)
    BY <1>5, <2>1, <2>3, SeqEqual
  <2>5. QED
    BY <2>4 DEF longer
<1>7. QED
  BY <1>1, <1>3, <1>5, <1>6

LEMMA HeldType == HeldBack \in Seq(Bytes) /\ Ending \in Seq(Bytes)
<1>1. <<>> \in Seq(Bytes) /\ <<"O">> \in Seq(Bytes) /\ <<"K">> \in Seq(Bytes)
  BY EmptySeq DEF Bytes
<1>2. QED
  BY <1>1 DEF HeldBack, Ending

LEMMA HeldTypeNext == HeldBack' \in Seq(Bytes)
<1>1. <<>> \in Seq(Bytes) /\ <<"O">> \in Seq(Bytes)
  BY EmptySeq DEF Bytes
<1>2. QED
  BY <1>1 DEF HeldBack

(* Each way of the scanner to deal with a byte *)
LEMMA ScannerStep ==
  ASSUME TypeOK, Buffer, TextInv, pc # "done", Received
  PROVE  Readable(Consumed') = IF Unseen(Head(rx)) THEN Readable(oss) \o HeldBack
                               ELSE Append(Readable(oss) \o HeldBack, Head(rx))
<1>1. Readable(Consumed) = Readable(oss) \o HeldBack
  <2>1. Readable(oss) \in Seq(Bytes) /\ HeldBack \in Seq(Bytes) /\ Ending = <<>>
    BY ReadableAt, HeldType DEF TypeOK, Ending, TextInv
  <2>2. Readable(oss) \o HeldBack \in Seq(Bytes)
    BY <2>1, ConcatProperties
  <2>3. (Readable(oss) \o HeldBack) \o <<>> = Readable(oss) \o HeldBack
    BY <2>2, ConcatEmptySeq
  <2>4. QED
    BY <2>1, <2>3 DEF TextInv
<1>2. QED
  BY <1>1, ConsumedGrows, ReadableAppend

LEMMA AppendTwo ==
  ASSUME NEW s \in Seq(Bytes), NEW a \in Bytes, NEW b \in Bytes
  PROVE  /\ s \o <<a>> = Append(s, a)
         /\ s \o <<a, b>> = Append(Append(s, a), b)
<1>1. <<a>> \in Seq(Bytes) /\ <<a, b>> \in Seq(Bytes)
  OBVIOUS
<1>2. /\ Append(s, a) \in Seq(Bytes) /\ Len(Append(s, a)) = Len(s) + 1 /\ Len(s) \in Nat
      /\ \A i \in 1 .. Len(s) : Append(s, a)[i] = s[i]
      /\ Append(s, a)[Len(s) + 1] = a
  BY AppendProperties, LenProperties
<1>3. s \o <<a>> = Append(s, a)
  BY AppendIsConcat
<1>4. s \o <<a, b>> = Append(Append(s, a), b)
  <2>1. /\ s \o <<a, b>> \in Seq(Bytes) /\ Len(s \o <<a, b>>) = Len(s) + 2
        /\ \A i \in 1 .. Len(s) : (s \o <<a, b>>)[i] = s[i]
        /\ (s \o <<a, b>>)[Len(s) + 1] = a /\ (s \o <<a, b>>)[Len(s) + 2] = b
    BY <1>1, <1>2, ConcatProperties
  <2>2. /\ Append(Append(s, a), b) \in Seq(Bytes)
        /\ Len(Append(Append(s, a), b)) = Len(s) + 2
        /\ \A i \in 1 .. Len(s) + 1 : Append(Append(s, a), b)[i] = Append(s, a)[i]
        /\ Append(Append(s, a), b)[Len(s) + 2] = b
    BY <1>2, AppendProperties
  <2>3. \A i \in 1 .. Len(s) + 2 : (s \o <<a, b>>)[i] = Append(Append(s, a), b)[i]
    BY <1>2, <2>1, <2>2
  <2>4. QED
    BY <2>1, <2>2, <2>3, SeqEqual
<1>5. QED
  BY <1>3, <1>4

(* With nothing after it *)
LEMMA NothingMore ==
  ASSUME NEW s \in Seq(Bytes)
  PROVE  s \o <<>> = s
  BY ConcatEmptySeq

LEMMA TextStep == TypeOK /\ Buffer /\ TextInv /\ [Next]_vars => TextInv'
<1> SUFFICES ASSUME TypeOK, Buffer, TextInv, [Next]_vars
             PROVE  TextInv'
  OBVIOUS
<1> USE DEF Step, textVars
<1>1. Readable(oss) \in Seq(Bytes) /\ Readable(oss') \in Seq(Bytes)
  <2>1. oss \in Seq(Bytes) /\ oss' \in Seq(Bytes)
    BY TypeStep DEF TypeOK
  <2>2. QED
    BY <2>1, ReadableAt
<1>2. CASE Flush
  <2>1. /\ rx' = <<>> /\ arrived' = <<>> /\ pc' = "println" /\ oss' = <<>>
        /\ ~ oFound' /\ result' = "none"
    BY <1>2 DEF Flush, TextInv, Buffer
  <2>2. Len(<<>>) = 0 /\ SubSeq(<<>>, 1, 0) = <<>>
    BY EmptySeq, SubSeqEmpty
  <2>3. Consumed' = <<>>
    BY <2>1, <2>2 DEF Consumed
  <2>4. <<>> \o <<>> = <<>>
    BY EmptySeq, ConcatEmptySeq
  <2>5. (Readable(Consumed) = Readable(oss) \o HeldBack \o Ending)'
    BY <2>1, <2>3, <2>4, ReadableEmpty DEF HeldBack, Ending
  <2>6. QED
    BY <2>1, <2>5 DEF TextInv
<1>3. CASE Println \/ Spin \/ Check \/ ReceiveTimeout \/ ReceiveError \/ Tick \/ UNCHANGED vars
  <2>1. /\ UNCHANGED <<rx, arrived, oss, oFound>>
        /\ pc' \in {"flush", "println", "spin"} => pc \in {"flush", "println", "spin"}
        /\ result' = "text" <=> result = "text"
        /\ pc' # "done" => result' = "none"
    BY <1>3 DEF Println, Spin, Check, ReceiveTimeout, ReceiveError, Tick, vars, TextInv
  <2>2. (Readable(Consumed) = Readable(oss) \o HeldBack \o Ending)'
    BY <2>1 DEF TextInv, Consumed, HeldBack, Ending
  <2>3. QED
    BY <2>1, <2>2 DEF TextInv
<1>4. CASE ReceiveByte
  <2> DEFINE c == Head(rx)
  <2>1. /\ pc = "poll" /\ pc' = "check" /\ Received /\ (c = "K" => ~ oFound)
        /\ oss' = Collected(c) /\ oFound' = (~ oFound /\ c = "O")
        /\ result' = "none" /\ c \in Bytes /\ ~ Quits(c)
    BY <1>4, ConsumedGrows DEF ReceiveByte, TextInv
  <2>2. Readable(Consumed') = IF c = "CR" THEN Readable(oss) \o HeldBack
                              ELSE Append(Readable(oss) \o HeldBack, c)
    <3>1. pc # "done" /\ Received
      BY <2>1
    <3>2. Unseen(c) <=> c = "CR"
      BY <2>1 DEF Unseen
    <3>3. QED
      BY <3>1, <3>2, ScannerStep
  <2> HIDE DEF c
  <2>3. Ending' = <<>> /\ "O" \in Bytes /\ oss \in Seq(Bytes)
    BY <2>1 DEF Ending, Bytes, TypeOK
  <2>4. Readable(Consumed') = Readable(oss') \o HeldBack'
    <3>1. CASE oFound
      <4>1. HeldBack = <<"O">> /\ HeldBack' = <<>> /\ oss' = oss \o <<"O", c>>
        BY <2>1, <3>1 DEF HeldBack, Collected
      <4>2. oss' = Append(Append(oss, "O"), c) /\ Append(oss, "O") \in Seq(Bytes)
        BY <2>1, <2>3, <4>1, AppendTwo, AppendProperties
      <4>3. Readable(Append(oss, "O")) = Append(Readable(oss), "O")
        <5>1. ~ Unseen("O")
          BY DEF Unseen, Quits
        <5>2. QED
          BY <2>3, <5>1, ReadableAppend
      <4>4. Readable(oss') = IF c = "CR" THEN Append(Readable(oss), "O")
                             ELSE Append(Append(Readable(oss), "O"), c)
        <5>1. Unseen(c) <=> c = "CR"
          BY <2>1 DEF Unseen
        <5>2. QED
          BY <2>1, <4>2, <4>3, <5>1, ReadableAppend
      <4>5. Readable(oss) \o HeldBack = Append(Readable(oss), "O")
        BY <1>1, <2>3, <4>1, AppendTwo
      <4>6. Readable(Consumed') = Readable(oss')
        BY <2>2, <4>4, <4>5
      <4>7. Readable(oss') \o <<>> = Readable(oss')
        <5>1. Readable(oss') \in Seq(Bytes)
          BY <1>1
        <5>2. QED
          BY <5>1, NothingMore
      <4>8. QED
        BY <4>1, <4>6, <4>7
    <3>2. CASE ~ oFound
      <4>1. Readable(oss) \o HeldBack = Readable(oss)
        BY <1>1, <3>2, NothingMore DEF HeldBack
      <4>2. CASE c = "O"
        <5>1. oss' = oss /\ HeldBack' = <<"O">>
          BY <2>1, <3>2, <4>2 DEF HeldBack, Collected
        <5>2. Readable(Consumed') = Append(Readable(oss), "O")
          BY <2>2, <4>1, <4>2
        <5>3. QED
          BY <1>1, <2>3, <5>1, <5>2, AppendTwo
      <4>3. CASE c # "O"
        <5>1. HeldBack' = <<>> /\ oss' = IF c = "CR" THEN oss ELSE Append(oss, c)
          BY <2>1, <3>2, <4>3 DEF HeldBack, Collected
        <5>2. Readable(oss') = IF c = "CR" THEN Readable(oss) ELSE Append(Readable(oss), c)
          <6>1. Unseen(c) <=> c = "CR"
            BY <2>1 DEF Unseen
          <6>2. QED
            BY <2>1, <2>3, <5>1, <6>1, ReadableAppend
        <5>3. Readable(Consumed') = Readable(oss')
          BY <2>2, <4>1, <5>2
        <5>4. Readable(oss') \o <<>> = Readable(oss')
          BY <1>1, NothingMore
        <5>5. QED
          BY <5>1, <5>3, <5>4
      <4>4. QED
        BY <4>2, <4>3
    <3>3. QED
      BY <3>1, <3>2
  <2>5. (Readable(Consumed) = Readable(oss) \o HeldBack \o Ending)'
    <3>1. Readable(oss') \o HeldBack' \in Seq(Bytes)
      BY <1>1, HeldTypeNext, ConcatProperties
    <3>2. (Readable(oss') \o HeldBack') \o <<>> = Readable(oss') \o HeldBack'
      BY <3>1, NothingMore
    <3>3. QED
      BY <2>3, <2>4, <3>2
  <2>6. QED
    BY <2>1, <2>5 DEF TextInv
<1>5. CASE ReceiveOk
  <2>1. /\ pc = "poll" /\ pc' = "done" /\ Received /\ oFound /\ Head(rx) = "K"
        /\ result' = "text" /\ UNCHANGED <<oss, oFound>>
    BY <1>5 DEF ReceiveOk
  <2>2. Readable(Consumed') = Append(Readable(oss) \o HeldBack, "K")
    <3>1. pc # "done" /\ Received
      BY <2>1
    <3>2. ~ Unseen(Head(rx))
      BY <2>1 DEF Unseen, Quits
    <3>3. QED
      BY <2>1, <3>1, <3>2, ScannerStep
  <2>3. /\ HeldBack' = HeldBack /\ Ending' = <<"K">> /\ "K" \in Bytes
        /\ Readable(oss) \o HeldBack \in Seq(Bytes)
    BY <1>1, <2>1, HeldType, ConcatProperties DEF HeldBack, Ending, Bytes
  <2>4. (Readable(oss) \o HeldBack) \o <<"K">> = Append(Readable(oss) \o HeldBack, "K")
    BY <2>3, AppendTwo
  <2>5. (Readable(Consumed) = Readable(oss) \o HeldBack \o Ending)'
    BY <2>1, <2>2, <2>3, <2>4
  <2>6. QED
    BY <2>1, <2>5 DEF TextInv
<1>6. ASSUME NEW byte \in Bytes, Arrive(byte)
      PROVE  TextInv'
  <2>1. /\ arrived \in Seq(Bytes) /\ rx \in Seq(Bytes)
        /\ arrived' = Append(arrived, byte) /\ rx' = Append(rx, byte)
        /\ UNCHANGED <<pc, oss, oFound, result>>
    BY <1>6 DEF TypeOK, Arrive
  <2>2. /\ Len(arrived') = Len(arrived) + 1 /\ Len(rx') = Len(rx) + 1
        /\ \A i \in 1 .. Len(arrived) : arrived'[i] = arrived[i]
        /\ arrived' \in Seq(Bytes)
    BY <2>1, AppendProperties
  <2>3. Read \in Nat /\ Read + Len(rx) = Len(arrived) /\ Len(rx) \in Nat
    BY ReadFacts
  <2>4. Consumed = SubSeq(arrived, 1, Read) /\ Consumed' = SubSeq(arrived', 1, Read)
    <3>1. Len(arrived') - Len(rx') = Read
      BY <2>2, <2>3 DEF Read
    <3>2. QED
      BY <3>1 DEF Consumed, Read
  <2>5. \A i \in 1 .. Read : arrived[i] \in Bytes /\ arrived'[i] = arrived[i]
    BY <2>1, <2>2, <2>3, ElementOfSeq
  <2>6. /\ SubSeq(arrived, 1, Read) \in Seq(Bytes) /\ Len(SubSeq(arrived, 1, Read)) = Read
        /\ \A i \in 1 .. Read : SubSeq(arrived, 1, Read)[i] = arrived[i]
        /\ SubSeq(arrived', 1, Read) \in Seq(Bytes) /\ Len(SubSeq(arrived', 1, Read)) = Read
        /\ \A i \in 1 .. Read : SubSeq(arrived', 1, Read)[i] = arrived'[i]
    BY <2>3, <2>5, SubSeqProperties
  <2>7. SubSeq(arrived', 1, Read) = SubSeq(arrived, 1, Read)
    BY <2>5, <2>6, SeqEqual
  <2>8. (Readable(Consumed) = Readable(oss) \o HeldBack \o Ending)'
    BY <2>1, <2>4, <2>7 DEF TextInv, HeldBack, Ending
  <2>9. QED
    BY <2>1, <2>8 DEF TextInv
<1>7. CASE ReceiveQuit
  <2>1. /\ pc # "done" /\ pc' = "done" /\ Received /\ result' # "text"
        /\ UNCHANGED <<oss, oFound>> /\ Unseen(Head(rx))
    BY <1>7 DEF ReceiveQuit, Unseen
  <2>2. Readable(Consumed') = Readable(oss) \o HeldBack
    BY <2>1, ScannerStep
  <2>3. HeldBack' = HeldBack /\ Ending' = <<>> /\ Readable(oss) \o HeldBack \in Seq(Bytes)
    BY <1>1, <2>1, HeldType, ConcatProperties DEF HeldBack, Ending
  <2>4. (Readable(oss) \o HeldBack) \o <<>> = Readable(oss) \o HeldBack
    BY <2>3, NothingMore
  <2>5. (Readable(Consumed) = Readable(oss) \o HeldBack \o Ending)'
    BY <2>1, <2>2, <2>3, <2>4
  <2>6. QED
    BY <2>1, <2>5 DEF TextInv
<1>8. QED
  BY <1>2, <1>3, <1>4, <1>5, <1>6, <1>7 DEF Next, Call

LEMMA TextInit == Init => TextInv
<1> SUFFICES ASSUME Init
             PROVE  TextInv
  OBVIOUS
<1>1. Consumed = <<>> /\ oss = <<>> /\ HeldBack = <<>> /\ Ending = <<>>
  BY EmptySeq, SubSeqEmpty DEF Init, Consumed, HeldBack, Ending
<1>2. <<>> \o <<>> = <<>>
  BY EmptySeq, ConcatEmptySeq
<1>3. Readable(Consumed) = Readable(oss) \o HeldBack \o Ending
  BY <1>1, <1>2, ReadableEmpty
<1>4. QED
  BY <1>1, <1>3 DEF Init, TextInv

(* Whatever bytes come, and whenever: the text of a call is exactly what was
   read since its flush (service.cpp:203-227), carriage returns and the byte
   that made it give up aside.  The O
   that the scanner holds back is neither lost nor doubled when the byte after
   it is no K. *)
THEOREM TextComplete == Spec => []TextIsWhatCame
<1>1. TextInv => TextIsWhatCame
  BY DEF TextInv, TextIsWhatCame, HeldBack, Ending
<1>2. OkInv => Buffer
  BY DEF OkInv
<1>3. QED
  BY <1>1, <1>2, TextInit, TextStep, OkInit, OkStep, TypeCorrect, PTL DEF Spec

-----------------------------------------------------------------------------
(* Time *)

(* poll waits until the time limit at least. *)
LateEnough ==
  /\ pc = "poll" => deadline >= timeout
  /\ result # "none" => pc = "done"
  /\ NeverEarly

LEMMA TimeStep == TypeOK /\ Buffer /\ LateEnough /\ [Next]_vars => LateEnough'
<1> SUFFICES ASSUME TypeOK, Buffer, LateEnough, [Next]_vars
             PROVE  LateEnough'
  OBVIOUS
<1> USE DEF Step, LateEnough, NeverEarly
<1>1. now \in Nat /\ timeout \in Nat /\ deadline \in Nat
  BY ResponseAssumption DEF TypeOK
<1>2. CASE Flush \/ Println \/ Spin \/ ReceiveByte \/ ReceiveOk \/ ReceiveError
  BY <1>2 DEF Flush, Println, Spin, ReceiveByte, ReceiveOk, ReceiveError
<1>9. CASE ReceiveQuit
  <2>1. /\ Received /\ pc' = "done"
        /\ result' = IF Head(rx) = "SUB" THEN "timeout" ELSE "error"
    BY <1>9 DEF ReceiveQuit
  <2>2. /\ Consumed \in Seq(Bytes) /\ Head(rx) \in Bytes
        /\ Consumed' = Append(Consumed, Head(rx))
    BY <2>1, ConsumedGrows
  <2>3. Len(Consumed') \in Nat \ {0} /\ Consumed'[Len(Consumed')] = Head(rx)
    <3>1. PICK longer : longer = Append(Consumed, Head(rx))
      OBVIOUS
    <3>2. Len(longer) \in Nat \ {0} /\ longer[Len(longer)] = Head(rx)
      BY <2>2, <3>1, AppendProperties, LenProperties
    <3>3. QED
      BY <2>2, <3>1, <3>2
  <2>4. Consumed' # <<>>
    BY <2>3, EmptySeq
  <2>5. result' = "timeout" => Consumed'[Len(Consumed')] = "SUB"
    BY <2>1, <2>3
  <2>6. QED
    BY <2>1, <2>4, <2>5
<1>3. CASE Check
  <2>1. Wait \in Nat /\ (now <= timeout => now + Wait >= timeout)
    BY WaitType
  <2>2. now + Wait >= timeout
    BY <1>1, <2>1
  <2>3. CASE pc' = "poll"
    <3>1. deadline' = now + Wait /\ result' = result /\ pc = "check" /\ timeout' = timeout
      BY <1>3, <2>3 DEF Check
    <3>2. QED
      BY <2>2, <2>3, <3>1
  <2>4. CASE pc' = "done"
    BY <1>1, <1>3, <2>4 DEF Check, InTime
  <2>5. QED
    BY <1>3, <2>3, <2>4 DEF Check
<1>4. CASE ReceiveTimeout
  BY <1>1, <1>4 DEF ReceiveTimeout
<1>5. CASE Tick
  BY <1>1, <1>5 DEF Tick, Waiting
<1>6. ASSUME NEW byte \in Bytes, Arrive(byte)
      PROVE  LateEnough'
  BY <1>6 DEF Arrive
<1>7. CASE UNCHANGED vars
  BY <1>7 DEF vars, Consumed
<1>8. QED
  BY <1>2, <1>3, <1>4, <1>5, <1>6, <1>7, <1>9 DEF Next, Call

(* Whenever the bytes come, the call reports a time-out only when its time
   limit has passed or the last byte it read was a 26 (service.cpp:203): the
   narrowing to int does not shorten a limit of the service. *)
THEOREM GivesUpLate == Spec => []NeverEarly
<1>1. Init => LateEnough
  BY DEF Init, LateEnough, NeverEarly
<1>2. LateEnough => NeverEarly
  BY DEF LateEnough
<1>3. OkInv => Buffer
  BY DEF OkInv
<1>4. QED
  BY <1>1, <1>2, <1>3, TimeStep, OkInit, OkStep, TypeCorrect, PTL DEF Spec

-----------------------------------------------------------------------------
(* The call is the call that ModemCall promises. *)

Stage ==
  CASE pc = "flush"   -> "flush"
    [] pc = "println" -> "print"
    [] pc = "done"    -> "idle"
    [] OTHER          -> "read"

Heard == IF pc \in {"spin", "check", "poll"} THEN Consumed ELSE <<>>

Response == IF result = "text" THEN <<Readable(oss)>> ELSE <<>>

LEMMA CallIs ==
  /\ C!vars = <<Stage, rx, Heard, Response>>
  /\ C!vars' = <<Stage', rx', Heard', Response'>>
  BY DEF C!vars, Stage, Heard, Response

(* The first bytes of a sequence *)
LEMMA FirstBytes ==
  ASSUME NEW bytes \in Seq(Bytes), NEW n \in 0 .. Len(bytes)
  PROVE  /\ SubSeq(bytes, 1, n) \in Seq(Bytes) /\ Len(SubSeq(bytes, 1, n)) = n
         /\ \A i \in 1 .. n : SubSeq(bytes, 1, n)[i] = bytes[i]
<1>1. n \in Nat /\ Len(bytes) \in Nat
  BY LenProperties
<1>2. \A i \in 1 .. n : bytes[i] \in Bytes
  BY <1>1, ElementOfSeq
<1>3. QED
  BY <1>1, <1>2, SubSeqProperties

(* An OK among the first bytes *)
LEMMA OkAmongFirst ==
  ASSUME NEW bytes \in Seq(Bytes), NEW n \in 0 .. Len(bytes),
         HasOk(SubSeq(bytes, 1, n))
  PROVE  \E i \in 1 .. n - 1 : OkAt(bytes, i)
<1> DEFINE first == SubSeq(bytes, 1, n)
<1>1. /\ Len(first) = n /\ n \in Nat
      /\ \A i \in 1 .. n : first[i] = bytes[i]
  BY FirstBytes, LenProperties
<1> HIDE DEF first
<1>2. PICK i \in 1 .. n - 1 : OkAt(first, i)
  BY <1>1 DEF HasOk, OkAt, first
<1>3. PICK j \in 1 .. i : /\ (i - j) % 2 = 0
                          /\ \A k \in j .. i : first[k] = "O"
                          /\ j = 1 \/ first[j - 1] # "O"
  BY <1>2 DEF OkAt
<1>4. first[i] = "O" /\ first[i + 1] = "K"
  BY <1>2 DEF OkAt
<1>5. i \in 1 .. n /\ i + 1 \in 1 .. n /\ j .. i \subseteq 1 .. n
      /\ (j # 1 => j - 1 \in 1 .. n)
  BY <1>1
<1>6. /\ \A k \in j .. i : bytes[k] = "O"
      /\ j = 1 \/ bytes[j - 1] # "O"
      /\ bytes[i] = "O" /\ bytes[i + 1] = "K"
  BY <1>1, <1>3, <1>4, <1>5
<1>7. OkAt(bytes, i)
  BY <1>3, <1>6 DEF OkAt
<1>8. QED
  BY <1>7

(* What has been read and holds no OK does not end the call. *)
LEMMA NotEndedNext ==
  ASSUME TypeOK', Buffer', Scanned', pc' # "done"
  PROVE  ~ HasOk(Consumed')
<1>1. ASSUME NEW bytes \in Seq(Bytes), NEW n \in 0 .. Len(bytes),
             \A i \in 1 .. n - 1 : ~ OkAt(bytes, i)
      PROVE  ~ HasOk(SubSeq(bytes, 1, n))
  BY <1>1, OkAmongFirst
<1>2. arrived' \in Seq(Bytes) /\ Read' \in 0 .. Len(arrived')
  <2>1. /\ Len(arrived') \in Nat /\ Len(rx') \in Nat /\ Len(rx') <= Len(arrived')
        /\ Read' = Len(arrived') - Len(rx')
    BY LenProperties DEF TypeOK, Buffer, Read
  <2>2. QED
    BY <2>1 DEF TypeOK
<1>3. \A i \in 1 .. Read' - 1 : ~ OkAt(arrived', i)
  BY DEF Scanned
<1>4. Consumed' = SubSeq(arrived', 1, Read')
  BY DEF Consumed, Read
<1>5. QED
  BY <1>1, <1>2, <1>3, <1>4

(* A K after an odd number of Os *)
LEMMA EndedByK ==
  ASSUME TypeOK, Buffer, Scanned, pc # "done", oFound
  PROVE  /\ HasOk(Append(Consumed, "K"))
         /\ Consumed \in Seq(Bytes) /\ Len(Consumed) \in Nat \ {0}
         /\ Consumed[Len(Consumed)] = "O"
<1>1. arrived \in Seq(Bytes) /\ Read \in 0 .. Len(arrived) /\ Read \in Nat
  BY ReadFacts
<1>2. PICK s \in 1 .. Read + 1 : RunFrom(arrived, s, Read) /\ (Read + 1 - s) % 2 = 1
  BY DEF Scanned
<1>3. s \in 1 .. Read
  <2>1. CASE s = Read + 1
    <3>1. Read + 1 - s = 0
      BY <1>1, <2>1
    <3>2. QED
      BY <1>2, <3>1, Parity
  <2>2. QED
    BY <1>1, <2>1
<1>4. (Read - s) % 2 = 0
  <2>1. Read - s \in Nat /\ Read + 1 - s = (Read - s) + 1
    BY <1>1, <1>3
  <2>2. QED
    BY <1>2, <2>1, Parity
<1> DEFINE ended == Append(Consumed, "K")
<1>5. Consumed = SubSeq(arrived, 1, Read)
  BY DEF Consumed, Read
<1>6. /\ Consumed \in Seq(Bytes) /\ Len(Consumed) = Read
      /\ \A i \in 1 .. Read : Consumed[i] = arrived[i]
  BY <1>1, <1>5, FirstBytes
<1>7. /\ Len(ended) = Read + 1 /\ ended[Read + 1] = "K"
      /\ \A i \in 1 .. Read : ended[i] = arrived[i]
  BY <1>6, AppendProperties DEF Bytes
<1> HIDE DEF ended
<1>8. s .. Read \subseteq 1 .. Read /\ Read \in 1 .. Read /\ Read \in s .. Read
      /\ (s # 1 => s - 1 \in 1 .. Read)
  BY <1>1, <1>3
<1>9. /\ \A k \in s .. Read : ended[k] = "O"
      /\ s = 1 \/ ended[s - 1] # "O"
      /\ arrived[Read] = "O" /\ ended[Read] = "O"
  BY <1>2, <1>7, <1>8 DEF RunFrom
<1>10. Read \in 1 .. Len(ended) - 1
  BY <1>1, <1>7, <1>8
<1>11. HasOk(ended)
  <2>1. OkAt(ended, Read)
    BY <1>3, <1>4, <1>7, <1>9 DEF OkAt
  <2>2. QED
    BY <1>10, <2>1 DEF HasOk
<1>12. QED
  BY <1>1, <1>6, <1>8, <1>9, <1>11 DEF ended

(* Sequences that are one byte longer *)
LEMMA AppendEqual ==
  ASSUME NEW s \in Seq(Bytes), NEW t \in Seq(Bytes), NEW c \in Bytes,
         Append(s, c) = Append(t, c)
  PROVE  s = t
<1>1. /\ Len(Append(s, c)) = Len(s) + 1 /\ Len(s) \in Nat
      /\ Len(Append(t, c)) = Len(t) + 1 /\ Len(t) \in Nat
      /\ \A i \in 1 .. Len(s) : Append(s, c)[i] = s[i]
      /\ \A i \in 1 .. Len(t) : Append(t, c)[i] = t[i]
  BY AppendProperties, LenProperties
<1>2. Len(s) = Len(t)
  BY <1>1
<1>3. \A i \in 1 .. Len(s) : s[i] = t[i]
  BY <1>1, <1>2
<1>4. QED
  BY <1>2, <1>3, SeqEqual

(* What comes before the OK is the text collected. *)
LEMMA TextBeforeOk ==
  ASSUME TypeOK, Buffer, Scanned, TextInv, pc # "done", oFound
  PROVE  BeforeOk(Append(Consumed, "K")) = Readable(oss)
<1> DEFINE n == Len(Consumed)
           ended == Append(Consumed, "K")
           front == SubSeq(ended, 1, n - 1)
<1>1. Consumed \in Seq(Bytes) /\ n \in Nat \ {0} /\ Consumed[n] = "O"
  BY EndedByK
<1>2. /\ ended \in Seq(Bytes) /\ Len(ended) = n + 1
      /\ \A i \in 1 .. n : ended[i] = Consumed[i]
  BY <1>1, AppendProperties DEF Bytes
<1>3. BeforeOk(ended) = Readable(front)
  <2>1. Len(ended) - 2 = n - 1
    BY <1>1, <1>2
  <2>2. QED
    BY <2>1 DEF BeforeOk
<1> HIDE DEF n, ended
<1>4. /\ front \in Seq(Bytes) /\ Len(front) = n - 1
      /\ \A i \in 1 .. n - 1 : front[i] = ended[i]
  <2>1. n - 1 \in 0 .. Len(ended)
    BY <1>1, <1>2
  <2>2. QED
    BY <1>2, <2>1, FirstBytes
<1> HIDE DEF front
<1>5. Append(front, "O") = Consumed
  <2>1. /\ Append(front, "O") \in Seq(Bytes) /\ Len(Append(front, "O")) = n
        /\ \A i \in 1 .. n - 1 : Append(front, "O")[i] = front[i]
        /\ Append(front, "O")[n] = "O"
    <3>1. "O" \in Bytes /\ Len(front) + 1 = n
      BY <1>1, <1>4 DEF Bytes
    <3>2. QED
      BY <1>4, <3>1, AppendProperties
  <2>2. \A i \in 1 .. n : i \in 1 .. n - 1 \/ i = n
    BY <1>1
  <2>3. \A i \in 1 .. n - 1 : front[i] = Consumed[i]
    BY <1>1, <1>2, <1>4
  <2>4. \A i \in 1 .. n : Append(front, "O")[i] = Consumed[i]
    BY <1>1, <2>1, <2>2, <2>3
  <2>5. Len(Append(front, "O")) = Len(Consumed)
    BY <2>1 DEF n
  <2>6. \A i \in 1 .. Len(Consumed) : Append(front, "O")[i] = Consumed[i]
    BY <2>4 DEF n
  <2>7. QED
    BY <1>1, <2>1, <2>5, <2>6, SeqEqual
<1>6. Readable(oss) \in Seq(Bytes) /\ Readable(front) \in Seq(Bytes) /\ "O" \in Bytes
  BY <1>4, ReadableAt DEF TypeOK, Bytes
<1>7. Readable(Consumed) = Append(Readable(front), "O")
  <2>1. ~ Unseen("O")
    BY DEF Unseen, Quits
  <2>2. QED
    BY <1>4, <1>5, <1>6, <2>1, ReadableAppend
<1>8. Readable(Consumed) = Append(Readable(oss), "O")
  <2>1. HeldBack = <<"O">> /\ Ending = <<>>
    BY DEF HeldBack, Ending, TextInv
  <2>2. Append(Readable(oss), "O") \in Seq(Bytes)
    BY <1>6, AppendProperties
  <2>3. Readable(oss) \o <<"O">> = Append(Readable(oss), "O")
    BY <1>6, AppendTwo
  <2>4. Readable(Consumed) = (Readable(oss) \o HeldBack) \o Ending
    BY DEF TextInv
  <2>5. QED
    BY <2>1, <2>2, <2>3, <2>4, NothingMore
<1>9. Readable(front) = Readable(oss)
  BY <1>6, <1>7, <1>8, AppendEqual
<1>10. QED
  BY <1>3, <1>9 DEF ended

LEMMA CallInit == Init => C!Init
<1> SUFFICES ASSUME Init
             PROVE  C!Init
  OBVIOUS
<1>1. Stage = "flush" /\ Heard = <<>> /\ Response = <<>> /\ rx = <<>>
  BY DEF Init, Stage, Heard, Response
<1>2. QED
  BY <1>1 DEF C!Init, Stage, Heard, Response

(* What neither reads nor returns is a stutter. *)
LEMMA CallStutters ==
  ASSUME UNCHANGED <<rx, arrived, oss, result>>,
         pc' = pc \/ {pc, pc'} \subseteq {"spin", "check", "poll"}
  PROVE  UNCHANGED C!vars
<1>1. UNCHANGED Consumed
  BY DEF Consumed
<1>2. UNCHANGED <<Stage, Heard, Response>>
  BY <1>1 DEF Stage, Heard, Response
<1>3. QED
  BY <1>2, CallIs

LEMMA CallGivesUp ==
  ASSUME TextInv, pc \in {"check", "poll"}, ~ Available,
         pc' = "done", result' \in {"timeout", "error"}, UNCHANGED rx
  PROVE  C!Next
<1>1. result = "none"
  BY DEF TextInv
<1>2. /\ Stage = "read" /\ Stage' = "idle" /\ Heard' = <<>>
      /\ Response = <<>> /\ Response' = <<>> /\ rx = <<>>
  BY <1>1 DEF Stage, Heard, Response, Available
<1>3. C!GiveUp
  BY <1>2 DEF C!GiveUp, C!Return, Stage, Heard, Response
<1>4. QED
  BY <1>3 DEF C!Next

(* Nothing has been read before the first loop. *)
LEMMA NothingConsumed ==
  ASSUME TypeOK, Buffer, pc \in {"flush", "println", "spin"}
  PROVE  Consumed = <<>>
<1>1. Len(arrived) - Len(rx) = 0
  BY DEF Buffer, Read
<1>2. QED
  BY <1>1, SubSeqEmpty DEF Consumed

(* Bytes that arrive are not heard yet. *)
LEMMA CallArrives ==
  ASSUME TypeOK, Buffer, NEW byte \in Bytes, Arrive(byte)
  PROVE  C!Next
<1>1. /\ arrived \in Seq(Bytes) /\ rx \in Seq(Bytes)
      /\ arrived' = Append(arrived, byte) /\ rx' = Append(rx, byte)
      /\ UNCHANGED <<pc, oss, result>>
  BY DEF TypeOK, Arrive, textVars
<1>2. /\ arrived' \in Seq(Bytes) /\ Len(arrived') = Len(arrived) + 1
      /\ \A i \in 1 .. Len(arrived) : arrived'[i] = arrived[i]
      /\ rx' \in Seq(Bytes) /\ Len(rx') = Len(rx) + 1
      /\ \A i \in 1 .. Len(rx) : rx'[i] = rx[i]
  BY <1>1, AppendProperties
<1>3. Read \in Nat /\ Read + Len(rx) = Len(arrived) /\ Len(rx) \in Nat /\ Len(arrived) \in Nat
  BY ReadFacts
<1>4. Consumed' = Consumed
  <2>1. Consumed = SubSeq(arrived, 1, Read) /\ Consumed' = SubSeq(arrived', 1, Read)
    <3>1. Len(arrived') - Len(rx') = Read
      BY <1>2, <1>3 DEF Read
    <3>2. QED
      BY <3>1 DEF Consumed, Read
  <2>2. Read \in 0 .. Len(arrived) /\ Read \in 0 .. Len(arrived')
    BY <1>2, <1>3
  <2>3. /\ SubSeq(arrived, 1, Read) \in Seq(Bytes) /\ Len(SubSeq(arrived, 1, Read)) = Read
        /\ \A i \in 1 .. Read : SubSeq(arrived, 1, Read)[i] = arrived[i]
    BY <1>1, <2>2, FirstBytes
  <2>4. /\ SubSeq(arrived', 1, Read) \in Seq(Bytes) /\ Len(SubSeq(arrived', 1, Read)) = Read
        /\ \A i \in 1 .. Read : SubSeq(arrived', 1, Read)[i] = arrived'[i]
    <3>1. PICK more : more = arrived'
      OBVIOUS
    <3>2. more \in Seq(Bytes) /\ Read \in 0 .. Len(more)
      BY <1>2, <2>2, <3>1
    <3>3. /\ SubSeq(more, 1, Read) \in Seq(Bytes) /\ Len(SubSeq(more, 1, Read)) = Read
          /\ \A i \in 1 .. Read : SubSeq(more, 1, Read)[i] = more[i]
      BY <3>2, FirstBytes
    <3>4. QED
      BY <3>1, <3>3
  <2>5. \A i \in 1 .. Read : arrived'[i] = arrived[i]
    BY <1>2, <1>3
  <2>6. SubSeq(arrived', 1, Read) = SubSeq(arrived, 1, Read)
    BY <2>3, <2>4, <2>5, SeqEqual
  <2>7. QED
    BY <2>1, <2>6
<1>5. SubSeq(rx', 1, Len(rx)) = rx
  <2>1. PICK more : more = rx'
    OBVIOUS
  <2>2. /\ more \in Seq(Bytes) /\ Len(rx) \in 0 .. Len(more)
        /\ \A i \in 1 .. Len(rx) : more[i] = rx[i]
    BY <1>2, <1>3, <2>1
  <2>3. /\ SubSeq(more, 1, Len(rx)) \in Seq(Bytes) /\ Len(SubSeq(more, 1, Len(rx))) = Len(rx)
        /\ \A i \in 1 .. Len(rx) : SubSeq(more, 1, Len(rx))[i] = more[i]
    BY <2>2, FirstBytes
  <2>4. SubSeq(more, 1, Len(rx)) = rx
    BY <1>1, <2>2, <2>3, SeqEqual
  <2>5. QED
    BY <2>1, <2>4
<1>6. Len(rx) < Len(rx')
  BY <1>2, <1>3
<1>7. UNCHANGED <<Stage, Heard, Response>>
  BY <1>1, <1>4 DEF Stage, Heard, Response
<1>8. C!Arrive
  BY <1>5, <1>6, <1>7 DEF C!Arrive, Stage, Heard, Response
<1>9. QED
  BY <1>8 DEF C!Next

LEMMA CallStep == TypeOK /\ OkInv /\ TextInv /\ [Next]_vars => [C!Next]_C!vars
<1> SUFFICES ASSUME TypeOK, OkInv, TextInv, [Next]_vars
             PROVE  C!Next \/ UNCHANGED C!vars
  OBVIOUS
<1> USE DEF Step, textVars
<1>1. Buffer /\ Scanned /\ TypeOK' /\ OkInv'
  BY TypeStep, OkStep DEF OkInv
<1>2. CASE Flush
  <2>1. /\ Stage = "flush" /\ Stage' = "print" /\ rx' = <<>> /\ UNCHANGED <<Heard, Response>>
    BY <1>2 DEF Flush, Stage, Heard, Response
  <2>2. C!Flush
    BY <2>1 DEF C!Flush, Stage, Heard, Response
  <2>3. QED
    BY <2>2 DEF C!Next
<1>3. CASE Println
  <2>1. pc = "println" /\ pc' = "spin" /\ UNCHANGED <<rx, arrived, oss, result>>
    BY <1>3 DEF Println
  <2>2. Consumed = <<>> /\ Consumed' = Consumed
    BY <1>1, <2>1, NothingConsumed DEF Consumed
  <2>3. /\ Stage = "print" /\ Stage' = "read" /\ UNCHANGED <<rx, Heard, Response>>
    BY <2>1, <2>2 DEF Stage, Heard, Response
  <2>4. C!Write
    BY <2>3 DEF C!Write, Stage, Heard, Response
  <2>5. QED
    BY <2>4 DEF C!Next
<1>4. CASE Spin \/ (Check /\ pc' = "poll") \/ Tick \/ UNCHANGED vars
  <2>1. /\ UNCHANGED <<rx, arrived, oss, result>>
        /\ pc' = pc \/ {pc, pc'} \subseteq {"spin", "check", "poll"}
    BY <1>4 DEF Spin, Check, Tick, vars
  <2>2. QED
    BY <2>1, CallStutters
<1>5. CASE (Check /\ pc' = "done") \/ ReceiveTimeout \/ ReceiveError
  <2>1. /\ pc \in {"check", "poll"} /\ ~ Available
        /\ pc' = "done" /\ result' \in {"timeout", "error"} /\ UNCHANGED rx
    BY <1>5 DEF Check, ReceiveTimeout, ReceiveError
  <2>2. QED
    BY <2>1, CallGivesUp
<1>6. CASE ReceiveByte
  <2>1. /\ pc = "poll" /\ pc' = "check" /\ Received /\ UNCHANGED result
        /\ rx # <<>> /\ rx' = Tail(rx) /\ result = "none"
    BY <1>6 DEF ReceiveByte, Received, Available, TextInv
  <2>2. Consumed' = Append(Consumed, Head(rx))
    BY <1>1, <2>1, ConsumedGrows
  <2>3. ~ HasOk(Consumed')
    BY <1>1, <2>1, NotEndedNext DEF OkInv
  <2>4. /\ Stage = "read" /\ Stage' = "read" /\ Heard = Consumed /\ Heard' = Consumed'
        /\ UNCHANGED Response
    BY <2>1 DEF Stage, Heard, Response
  <2>5. Heard' = Append(Heard, Head(rx)) /\ ~ HasOk(Append(Heard, Head(rx)))
    BY <2>2, <2>3, <2>4
  <2>8. ~ Quits(Head(rx))
    BY <1>6 DEF ReceiveByte
  <2>6. C!Hear
    BY <2>1, <2>4, <2>5, <2>8 DEF C!Hear, C!Hears, Stage, Heard, Response
  <2>7. QED
    BY <2>6 DEF C!Next
<1>7. CASE ReceiveOk
  <2>1. /\ pc = "poll" /\ pc' = "done" /\ oFound /\ Head(rx) = "K"
        /\ result' = "text" /\ UNCHANGED oss /\ rx # <<>> /\ rx' = Tail(rx)
    BY <1>7 DEF ReceiveOk, Received, Available
  <2>2. HasOk(Append(Consumed, "K")) /\ BeforeOk(Append(Consumed, "K")) = Readable(oss)
    BY <1>1, <2>1, EndedByK, TextBeforeOk
  <2>3. /\ Stage = "read" /\ Stage' = "idle" /\ Heard = Consumed /\ Heard' = <<>>
        /\ Response' = <<Readable(oss)>>
    BY <2>1 DEF Stage, Heard, Response
  <2>4. /\ HasOk(Append(Heard, Head(rx))) /\ ~ Quits(Head(rx))
        /\ Response' = <<BeforeOk(Append(Heard, Head(rx)))>>
    BY <2>1, <2>2, <2>3 DEF Quits
  <2>5. C!Return(<<BeforeOk(C!Hears)>>)
    BY <2>3, <2>4 DEF C!Return, C!Hears, Stage, Heard, Response
  <2>6. C!Answered
    BY <2>1, <2>3, <2>4, <2>5 DEF C!Answered, C!Hears, Stage, Heard
  <2>7. QED
    BY <2>6 DEF C!Next
<1>8. ASSUME NEW byte \in Bytes, Arrive(byte)
      PROVE  C!Next
  BY <1>1, <1>8, CallArrives
<1>10. CASE ReceiveQuit
  <2>1. /\ pc = "poll" /\ pc' = "done" /\ Quits(Head(rx)) /\ rx # <<>> /\ rx' = Tail(rx)
        /\ result' \in {"timeout", "error"} /\ result = "none"
    BY <1>10 DEF ReceiveQuit, Received, Available, TextInv
  <2>2. /\ Stage = "read" /\ Stage' = "idle" /\ Heard' = <<>>
        /\ Response = <<>> /\ Response' = <<>>
    BY <2>1 DEF Stage, Heard, Response
  <2>3. C!Quit
    BY <2>1, <2>2 DEF C!Quit, C!Return, Stage, Heard, Response
  <2>4. QED
    BY <2>3 DEF C!Next
<1>9. QED
  BY <1>2, <1>3, <1>4, <1>5, <1>6, <1>7, <1>8, <1>10 DEF Next, Call, Check

(* Byte by byte and with a clock, for any limit and whenever bytes come, a call
   is one of ModemCall: it hears every byte after its flush, ends with the
   first OK and with no other byte but 26, 0 and 4, and otherwise gives up with
   an empty buffer only (ImplementsCall). *)
THEOREM ResponseMakesCalls == Spec => ImplementsCall
<1>1. OkInv => Buffer
  BY DEF OkInv
<1>2. QED
  BY <1>1, CallInit, CallStep, TextInit, TextStep, OkInit, OkStep, TypeCorrect, PTL
  DEF Spec, ImplementsCall, C!Spec
=============================================================================
