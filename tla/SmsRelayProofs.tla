--------------------------- MODULE SmsRelayProofs ---------------------------
(***************************************************************************)
(* Proofs about SmsRelay: type correctness, and the invariant behind the   *)
(* counter of a group.                                                     *)
(***************************************************************************)
EXTENDS SmsRelay, FiniteSetTheorems, SequenceTheorems, TLAPS

(* The references groups can be filed under *)
GroupRefs == {p.ref : p \in Pdus}

-----------------------------------------------------------------------------
(* Type correctness *)

(* What a PDU that passes the checks looks like. *)
LEMMA PduFacts ==
  ASSUME NEW p \in Pdus
  PROVE  /\ p.udhi \in BOOLEAN
         /\ p.ref \in References
         /\ p.count \in Nat
         /\ p.number \in Nat
         /\ p.body \in Bodies
         /\ p.udhi => p.number \in 1 .. p.count
  BY SmsAssumption DEF PduType

(* Filing a segment yields a group: the slots stay a sequence of texts. *)
LEMMA FiledType ==
  ASSUME TypeOK, NEW p \in Pdus, p.udhi, ~ Mismatch(p)
  PROVE  /\ Filed(p) \in SegmentCountAndContents
         /\ Len(Filed(p).contents) = p.count
<1> USE PduFacts, SmsAssumption
<1>1. CASE p.ref \in DOMAIN refToSegments
  <2> DEFINE old == refToSegments[p.ref]
  <2>1. old \in SegmentCountAndContents
    BY <1>1 DEF TypeOK
  <2>2. Len(old.contents) = p.count
    BY <1>1 DEF Mismatch
  <2>3. old.contents \in Seq(Bodies) /\ old.received \in Nat
    BY <2>1 DEF SegmentCountAndContents
  <2>4. p.number \in 1 .. Len(old.contents)
    BY <2>2
  <2>5. /\ [old.contents EXCEPT ![p.number] = p.body] \in Seq(Bodies)
        /\ Len([old.contents EXCEPT ![p.number] = p.body]) = p.count
    BY <2>2, <2>3, <2>4, ExceptSeq
  <2>6. QED
    BY <1>1, <2>3, <2>5 DEF Filed, SegmentCountAndContents
<1>2. CASE p.ref \notin DOMAIN refToSegments
  <2> DEFINE new == [i \in 1 .. p.count |->
                       IF i = p.number THEN p.body ELSE NoText]
  <2>1. new \in [1 .. p.count -> Bodies]
    OBVIOUS
  <2>2. new \in Seq(Bodies) /\ Len(new) = p.count
    BY <2>1
  <2>3. QED
    BY <1>2, <2>2 DEF Filed, SegmentCountAndContents
<1>3. QED
  BY <1>1, <1>2

(* Removing a group keeps the map well typed. *)
LEMMA ExtractType ==
  ASSUME TypeOK, NEW m \in MessageType
  PROVE  \E S \in SUBSET GroupRefs :
            Extract(m) \in [S -> SegmentCountAndContents]
<1>1. PICK S \in SUBSET GroupRefs :
         refToSegments \in [S -> SegmentCountAndContents]
  BY DEF TypeOK, GroupRefs
<1>2. CASE m.isSegment
  <2>1. Extract(m) \in [S \ {m.reference} -> SegmentCountAndContents]
    BY <1>1, <1>2 DEF Extract
  <2>2. QED
    BY <2>1
<1>3. CASE ~ m.isSegment
  BY <1>1, <1>3 DEF Extract
<1>4. QED
  BY <1>2, <1>3

(* What leaves is well typed. *)
LEMMA OutgoingIsTyped ==
  ASSUME TypeOK, NEW m \in MessageType, Relayable(m), NEW via \in {"mail", "log"}
  PROVE  Outgoing(m, via) \in OutgoingType
<1>1. /\ m.isSegment \in BOOLEAN
      /\ m.reference \in References
      /\ m.content \in Bodies
  BY DEF MessageType
<1>2. CASE m.isSegment
  <2>1. m.reference \in DOMAIN refToSegments
    BY <1>2 DEF Relayable
  <2>2. refToSegments[m.reference] \in SegmentCountAndContents
    BY <2>1 DEF TypeOK
  <2>3. refToSegments[m.reference].contents \in Seq(Bodies)
    BY <2>2 DEF SegmentCountAndContents
  <2>4. QED
    BY <1>1, <1>2, <2>3 DEF Outgoing, OutgoingType
<1>3. CASE ~ m.isSegment
  <2>1. <<m.content>> \in Seq(Bodies)
    BY <1>1
  <2>2. QED
    BY <1>1, <1>3, <2>1 DEF Outgoing, OutgoingType
<1>4. QED
  BY <1>1, <1>2, <1>3

(* One step per action.  Every action leaves most variables alone; the ones
   it changes are covered by the lemmas above. *)
LEMMA TypeStep == TypeOK /\ [Next]_vars => TypeOK'
<1> SUFFICES ASSUME TypeOK, [Next]_vars
             PROVE  TypeOK'
  OBVIOUS
<1> DEFINE GroupsTyped == \E S \in SUBSET GroupRefs :
                             refToSegments \in [S -> SegmentCountAndContents]
<1>1. GroupsTyped
  BY DEF TypeOK, GroupRefs
<1>2. /\ emailConfig \in {"unset", "valid", "invalid"}
      /\ message \in MessageType \cup {NoMessage}
      /\ outbox \in Seq(OutgoingType)
      /\ arrivals \in Nat
      /\ accepted \in [Pdus -> Nat]
  BY DEF TypeOK
<1> SUFFICES /\ GroupsTyped'
             /\ emailConfig' \in {"unset", "valid", "invalid"}
             /\ message' \in MessageType \cup {NoMessage}
             /\ outbox' \in Seq(OutgoingType)
             /\ arrivals' \in Nat
             /\ accepted' \in [Pdus -> Nat]
  BY DEF TypeOK, GroupRefs
<1> HIDE DEF GroupsTyped
<1>3. ASSUME NEW p \in Pdus, RejectPdu(p)
      PROVE  /\ UNCHANGED <<refToSegments, emailConfig, message, outbox, accepted>>
             /\ arrivals' \in Nat
  BY <1>2, <1>3 DEF RejectPdu, Arrive
<1>4. ASSUME NEW p \in Pdus, ParseSingle(p)
      PROVE  /\ UNCHANGED <<refToSegments, emailConfig, outbox>>
             /\ message' \in MessageType
             /\ arrivals' \in Nat
             /\ accepted' \in [Pdus -> Nat]
  <2>1. PICK flag \in BOOLEAN :
           message' = [isSegment |-> flag, reference |-> 0, content |-> p.body]
    BY <1>4, Zenon DEF ParseSingle
  <2>2. message' \in MessageType
    <3>1. p.body \in Bodies
      BY PduFacts
    <3>2. 0 \in References
      BY DEF References
    <3>3. QED
      BY <2>1, <3>1, <3>2 DEF MessageType
  <2>3. QED
    BY <1>2, <1>4, <2>2 DEF ParseSingle, Arrive
<1>5. ASSUME NEW p \in Pdus, FileSegment(p)
      PROVE  /\ UNCHANGED <<emailConfig, outbox>>
             /\ GroupsTyped'
             /\ message' \in MessageType
             /\ arrivals' \in Nat
             /\ accepted' \in [Pdus -> Nat]
  <2>1. p.udhi /\ ~ Mismatch(p)
    BY <1>5, PduFacts DEF FileSegment, IsFiled
  <2>2. Filed(p) \in SegmentCountAndContents
    BY <2>1, FiledType
  <2>3. PICK S \in SUBSET GroupRefs :
           refToSegments \in [S -> SegmentCountAndContents]
    BY <1>1 DEF GroupsTyped
  <2>4. /\ S \cup {p.ref} \in SUBSET GroupRefs
        /\ refToSegments' \in [S \cup {p.ref} -> SegmentCountAndContents]
    BY <1>5, <2>2, <2>3 DEF FileSegment, GroupRefs
  <2>5. GroupsTyped'
    BY <2>4 DEF GroupsTyped
  <2>6. message' \in MessageType
    BY <1>5, PduFacts DEF FileSegment, MessageType
  <2>7. QED
    BY <1>2, <1>5, <2>5, <2>6 DEF FileSegment, Arrive
<1>6. ASSUME HandlerReturns
      PROVE  /\ message \in MessageType
             /\ message' = NoMessage
             /\ UNCHANGED <<arrivals, accepted>>
  BY <1>2, <1>6 DEF HandlerReturns
<1>7. ASSUME NEW cfg \in {"valid", "invalid"}, LoadConfig(cfg)
      PROVE  emailConfig' \in {"unset", "valid", "invalid"}
  BY <1>7 DEF LoadConfig
<1>8. ASSUME NEW m \in MessageType, Relayable(m),
             refToSegments' = Extract(m)
      PROVE  GroupsTyped'
  <2>1. PICK S \in SUBSET GroupRefs :
           Extract(m) \in [S -> SegmentCountAndContents]
    BY ExtractType
  <2>2. QED
    BY <1>8, <2>1 DEF GroupsTyped
<1>9. ASSUME NEW m \in MessageType, Relayable(m), NEW via \in {"mail", "log"},
             outbox' = Append(outbox, Outgoing(m, via))
      PROVE  outbox' \in Seq(OutgoingType)
  <2>1. Outgoing(m, via) \in OutgoingType
    BY <1>9, OutgoingIsTyped
  <2>2. QED
    BY <1>2, <1>9, <2>1, AppendProperties
<1>10. CASE ConfigThrows
  BY <1>1, <1>2, <1>6, <1>10 DEF ConfigThrows, GroupsTyped
<1>11. ASSUME NEW cfg \in {"valid", "invalid"}, SkipIncomplete(cfg)
       PROVE  /\ GroupsTyped'
              /\ emailConfig' \in {"unset", "valid", "invalid"}
              /\ message' = NoMessage
              /\ outbox' = outbox
              /\ UNCHANGED <<arrivals, accepted>>
  BY <1>1, <1>6, <1>7, <1>11 DEF SkipIncomplete, GroupsTyped
<1>12. ASSUME NEW cfg \in {"valid", "invalid"}, CurlInitFails(cfg)
       PROVE  /\ GroupsTyped'
              /\ emailConfig' \in {"unset", "valid", "invalid"}
              /\ message' = NoMessage
              /\ outbox' = outbox
              /\ UNCHANGED <<arrivals, accepted>>
  BY <1>1, <1>6, <1>7, <1>12 DEF CurlInitFails, GroupsTyped
<1>13. CASE LogOnly
  BY <1>2, <1>6, <1>7, <1>8, <1>9, <1>13 DEF LogOnly
<1>14. CASE MailSent
  BY <1>2, <1>6, <1>7, <1>8, <1>9, <1>14 DEF MailSent
<1>15. CASE MailFails
  BY <1>2, <1>6, <1>7, <1>8, <1>15 DEF MailFails
<1>16. CASE Restart
  <2>1. NoSegments \in [{} -> SegmentCountAndContents]
    BY DEF NoSegments
  <2>2. GroupsTyped'
    BY <1>16, <2>1 DEF Restart, GroupsTyped
  <2>3. QED
    BY <1>2, <1>16, <2>2 DEF Restart
<1>17. CASE UNCHANGED vars
  BY <1>1, <1>2, <1>17 DEF vars, GroupsTyped
<1>18. CASE \E p \in Pdus : ParsePdu(p)
  BY <1>1, <1>2, <1>3, <1>4, <1>5, <1>18 DEF ParsePdu, GroupsTyped
<1>19. CASE SendEmail
  BY <1>2, <1>10, <1>11, <1>12, <1>13, <1>14, <1>15, <1>19 DEF SendEmail
<1>20. QED
  BY <1>16, <1>17, <1>18, <1>19 DEF Next

LEMMA TypeInit == Init => TypeOK
<1> SUFFICES ASSUME Init PROVE TypeOK
  OBVIOUS
<1>1. refToSegments \in [{} -> SegmentCountAndContents]
  BY DEF Init, NoSegments
<1>2. \E S \in SUBSET {p.ref : p \in Pdus} :
         refToSegments \in [S -> SegmentCountAndContents]
  BY <1>1
<1>3. accepted \in [Pdus -> Nat] /\ outbox \in Seq(OutgoingType)
  BY DEF Init
<1>4. QED
  BY <1>2, <1>3 DEF Init, TypeOK

(* The map of groups, the SMS object alive and what left stay well typed,
   whatever PDUs arrive, however send_email ends (sms.cpp:125-435). *)
THEOREM TypeCorrect == Spec => []TypeOK
  BY TypeInit, TypeStep, PTL DEF Spec

-----------------------------------------------------------------------------
(* The inductive invariant behind the counter of a group.  ReceivedIsFilled
   and PartsWereReceived are not inductive: that a relayed part was received
   follows from what the groups hold before they are extracted, and that
   extracting needs no missing part from the counter. *)

(* The network sends no segment without text.  Without this the counter may
   count one segment twice, see the run that violates PartsWereReceived. *)
NonEmptySegments == \A p \in Pdus : p.udhi => p.body # NoText

(* A segment of the group (r, n) with this number and text was accepted. *)
WasReceived(r, n, i, body) ==
  \E p \in Pdus : /\ accepted[p] > 0
                  /\ p.ref = r
                  /\ p.number = i
                  /\ p.count = n
                  /\ p.body = body

GroupOK(r) ==
  LET g == refToSegments[r]
  IN  /\ g.received = Cardinality(FilledSlots(g.contents))
      /\ \A i \in FilledSlots(g.contents) :
            WasReceived(r, Len(g.contents), i, g.contents[i])

(* Only a segment keeps a reference in its SMS object. *)
SingleHasNoReference ==
  message # NoMessage /\ ~ message.isSegment => message.reference = 0

IInv ==
  /\ TypeOK
  /\ \A r \in DOMAIN refToSegments : GroupOK(r)
  /\ SingleHasNoReference
  /\ PartsWereReceived

LEMMA IntervalSize ==
  ASSUME NEW n \in Nat
  PROVE  IsFiniteSet(1 .. n) /\ Cardinality(1 .. n) = n
<1>1. 1 \in Int /\ n \in Int
  OBVIOUS
<1>2. /\ IsFiniteSet(1 .. n)
      /\ Cardinality(1 .. n) = IF 1 > n THEN 0 ELSE n - 1 + 1
  BY <1>1, FS_Interval
<1>3. QED
  BY <1>2

(* A group whose counter equals its size has no empty slot. *)
LEMMA CompleteIsFilled ==
  ASSUME NEW c \in Seq(Bodies), Cardinality(FilledSlots(c)) = Len(c)
  PROVE  FilledSlots(c) = 1 .. Len(c)
<1>1. Len(c) \in Nat /\ DOMAIN c = 1 .. Len(c)
  OBVIOUS
<1>2. FilledSlots(c) \in SUBSET (1 .. Len(c))
  BY <1>1 DEF FilledSlots
<1>3. IsFiniteSet(1 .. Len(c)) /\ Cardinality(1 .. Len(c)) = Len(c)
  BY <1>1, IntervalSize
<1>4. QED
  BY <1>2, <1>3, FS_Subset

(* Overwriting a slot with a text fills it and leaves the others alone. *)
LEMMA FillSlot ==
  ASSUME NEW c \in Seq(Bodies), NEW i \in 1 .. Len(c),
         NEW b \in Bodies, b # NoText
  PROVE  LET d == [c EXCEPT ![i] = b]
         IN  /\ FilledSlots(d) = FilledSlots(c) \cup {i}
             /\ Cardinality(FilledSlots(d))
                  = IF c[i] = NoText THEN Cardinality(FilledSlots(c)) + 1
                                     ELSE Cardinality(FilledSlots(c))
<1> DEFINE d == [c EXCEPT ![i] = b]
<1>1. DOMAIN c = 1 .. Len(c) /\ DOMAIN d = DOMAIN c
  OBVIOUS
<1>2. FilledSlots(d) = FilledSlots(c) \cup {i}
  BY <1>1 DEF FilledSlots
<1>3. i \in FilledSlots(c) <=> c[i] # NoText
  BY <1>1 DEF FilledSlots
<1>4. IsFiniteSet(FilledSlots(c))
  <2>1. IsFiniteSet(1 .. Len(c))
    BY FS_Interval
  <2>2. FilledSlots(c) \in SUBSET (1 .. Len(c))
    BY <1>1 DEF FilledSlots
  <2>3. QED
    BY <2>1, <2>2, FS_Subset
<1>5. Cardinality(FilledSlots(c) \cup {i})
        = IF i \in FilledSlots(c) THEN Cardinality(FilledSlots(c))
                                  ELSE Cardinality(FilledSlots(c)) + 1
  BY <1>4, FS_AddElement
<1>6. QED
  BY <1>2, <1>3, <1>5

(* Filing a segment keeps the counter equal to the number of filled slots,
   and fills no slot but the segment's own. *)
LEMMA FiledGroup ==
  ASSUME TypeOK, \A r \in DOMAIN refToSegments : GroupOK(r),
         NEW p \in Pdus, p.udhi, ~ Mismatch(p), p.body # NoText
  PROVE  LET c == Filed(p).contents
         IN  /\ Filed(p).received = Cardinality(FilledSlots(c))
             /\ c[p.number] = p.body
             /\ \A i \in FilledSlots(c) \ {p.number} :
                   /\ p.ref \in DOMAIN refToSegments
                   /\ Len(refToSegments[p.ref].contents) = Len(c)
                   /\ i \in FilledSlots(refToSegments[p.ref].contents)
                   /\ refToSegments[p.ref].contents[i] = c[i]
<1> DEFINE c == Filed(p).contents
<1>0. /\ p.number \in 1 .. p.count
      /\ p.body \in Bodies
      /\ p.count \in Nat
      /\ Len(c) = p.count
  BY PduFacts, FiledType
<1>1. CASE p.ref \in DOMAIN refToSegments
  <2> DEFINE old == refToSegments[p.ref]
  <2>1. old.contents \in Seq(Bodies)
    BY <1>1 DEF TypeOK, SegmentCountAndContents
  <2>2. Len(old.contents) = p.count
    BY <1>1 DEF Mismatch
  <2>3. old.received = Cardinality(FilledSlots(old.contents))
    BY <1>1 DEF GroupOK
  <2>4. /\ c = [old.contents EXCEPT ![p.number] = p.body]
        /\ Filed(p).received = IF old.contents[p.number] = NoText
                               THEN old.received + 1 ELSE old.received
    BY <1>1 DEF Filed
  <2>5. /\ FilledSlots(c) = FilledSlots(old.contents) \cup {p.number}
        /\ Filed(p).received = Cardinality(FilledSlots(c))
    BY <1>0, <2>1, <2>2, <2>3, <2>4, FillSlot
  <2>6. /\ c[p.number] = p.body
        /\ \A i \in 1 .. p.count : i # p.number => c[i] = old.contents[i]
    BY <1>0, <2>1, <2>2, <2>4
  <2>7. \A i \in FilledSlots(old.contents) : i \in 1 .. p.count
    BY <2>1, <2>2 DEF FilledSlots
  <2>8. QED
    BY <1>0, <1>1, <2>2, <2>5, <2>6, <2>7
<1>2. CASE p.ref \notin DOMAIN refToSegments
  <2>1. /\ Filed(p).received = 1
        /\ c = [i \in 1 .. p.count |-> IF i = p.number THEN p.body ELSE NoText]
    BY <1>2 DEF Filed
  <2>2. FilledSlots(c) = {p.number} /\ c[p.number] = p.body
    BY <1>0, <2>1 DEF FilledSlots
  <2>3. Cardinality({p.number}) = 1
    BY FS_Singleton
  <2>4. QED
    BY <2>1, <2>2, <2>3
<1>3. QED
  BY <1>1, <1>2

(* What was received stays received. *)
LEMMA AcceptedGrows ==
  ASSUME TypeOK, NEW q \in Pdus,
         accepted' = accepted \/ accepted' = [accepted EXCEPT ![q] = @ + 1]
  PROVE  \A p \in Pdus : accepted[p] > 0 => accepted'[p] > 0
  BY DEF TypeOK

(* A group that a step leaves alone stays right. *)
LEMMA KeepGroup ==
  ASSUME NEW r \in DOMAIN refToSegments, GroupOK(r),
         refToSegments'[r] = refToSegments[r],
         \A p \in Pdus : accepted[p] > 0 => accepted'[p] > 0
  PROVE  GroupOK(r)'
<1>1. \A i \in FilledSlots(refToSegments[r].contents) :
        \E p \in Pdus : /\ accepted'[p] > 0
                        /\ p.ref = r
                        /\ p.number = i
                        /\ p.count = Len(refToSegments[r].contents)
                        /\ p.body = refToSegments[r].contents[i]
  BY DEF GroupOK, WasReceived
<1>2. refToSegments[r].received = Cardinality(FilledSlots(refToSegments[r].contents))
  BY DEF GroupOK
<1>3. QED
  BY <1>1, <1>2 DEF GroupOK, WasReceived, FilledSlots

(* What was relayed stays backed by what was received. *)
LEMMA KeepOutbox ==
  ASSUME PartsWereReceived, outbox' = outbox,
         \A p \in Pdus : accepted[p] > 0 => accepted'[p] > 0
  PROVE  PartsWereReceived'
  BY DEF PartsWereReceived

(* A group that leaves is whole, so each of its parts was received. *)
LEMMA RelayedWasReceived ==
  ASSUME IInv, NEW m \in MessageType, Relayable(m), NEW via \in {"mail", "log"},
         outbox' = Append(outbox, Outgoing(m, via)),
         accepted' = accepted
  PROVE  PartsWereReceived'
<1> DEFINE new == Outgoing(m, via)
           n == Len(outbox)
<1>1. /\ outbox \in Seq(OutgoingType)
      /\ new \in OutgoingType
  BY OutgoingIsTyped DEF IInv, TypeOK
<1>2. /\ DOMAIN outbox' = 1 .. n + 1
      /\ DOMAIN outbox = 1 .. n
      /\ n \in Nat
      /\ outbox'[n + 1] = new
      /\ \A k \in 1 .. n : outbox'[k] = outbox[k]
  BY <1>1, AppendProperties
<1>3. ASSUME m.isSegment
      PROVE  \A i \in DOMAIN new.parts :
               WasReceived(new.reference, Len(new.parts), i, new.parts[i])
  <2> DEFINE r == m.reference
             c == refToSegments[r].contents
  <2>1. /\ r \in DOMAIN refToSegments
        /\ refToSegments[r].received = Len(c)
    BY <1>3 DEF Relayable
  <2>2. /\ Cardinality(FilledSlots(c)) = Len(c)
        /\ \A i \in FilledSlots(c) : WasReceived(r, Len(c), i, c[i])
    BY <2>1 DEF IInv, GroupOK
  <2>3. c \in Seq(Bodies)
    BY <2>1 DEF IInv, TypeOK, SegmentCountAndContents
  <2>4. FilledSlots(c) = DOMAIN c
    BY <2>2, <2>3, CompleteIsFilled
  <2>5. new.parts = c /\ new.reference = r
    BY <1>3 DEF Outgoing
  <2>6. QED
    BY <2>2, <2>4, <2>5
<1>4. new.isSegment = m.isSegment
  BY DEF Outgoing
<1> HIDE DEF new, n
<1> SUFFICES ASSUME NEW k \in DOMAIN outbox', outbox'[k].isSegment,
                    NEW i \in DOMAIN outbox'[k].parts
             PROVE  WasReceived(outbox'[k].reference, Len(outbox'[k].parts), i,
                                outbox'[k].parts[i])
  BY DEF PartsWereReceived, WasReceived
<1>5. CASE k \in 1 .. n
  <2>1. k \in DOMAIN outbox /\ outbox'[k] = outbox[k]
    BY <1>2, <1>5
  <2>2. QED
    BY <2>1 DEF IInv, PartsWereReceived, WasReceived
<1>6. CASE k = n + 1
  BY <1>2, <1>3, <1>4, <1>6
<1>7. QED
  BY <1>2, <1>5, <1>6

(* Filing a segment that has a text keeps every group right. *)
LEMMA FileKeepsGroups ==
  ASSUME IInv, NonEmptySegments, NEW p \in Pdus, FileSegment(p)
  PROVE  \A r \in DOMAIN refToSegments' : GroupOK(r)'
<1> USE DEF IInv
<1>1. p.udhi /\ ~ Mismatch(p) /\ p.body # NoText
  BY PduFacts DEF FileSegment, IsFiled, NonEmptySegments
<1>2. /\ accepted' = [accepted EXCEPT ![p] = @ + 1]
      /\ DOMAIN refToSegments' = DOMAIN refToSegments \cup {p.ref}
      /\ refToSegments'[p.ref] = Filed(p)
      /\ \A r \in DOMAIN refToSegments \ {p.ref} :
            refToSegments'[r] = refToSegments[r]
  BY DEF FileSegment
<1>3. \A q \in Pdus : accepted[q] > 0 => accepted'[q] > 0
  BY <1>2, AcceptedGrows
<1>4. accepted'[p] > 0
  BY <1>2 DEF TypeOK
<1> SUFFICES ASSUME NEW r \in DOMAIN refToSegments'
             PROVE  GroupOK(r)'
  OBVIOUS
<1>5. CASE r # p.ref
  BY <1>2, <1>3, <1>5, KeepGroup
<1>6. CASE r = p.ref
  <2> DEFINE c == Filed(p).contents
  <2>1. /\ Filed(p).received = Cardinality(FilledSlots(c))
        /\ c[p.number] = p.body
        /\ \A i \in FilledSlots(c) \ {p.number} :
              /\ p.ref \in DOMAIN refToSegments
              /\ Len(refToSegments[p.ref].contents) = Len(c)
              /\ i \in FilledSlots(refToSegments[p.ref].contents)
              /\ refToSegments[p.ref].contents[i] = c[i]
    BY <1>1, FiledGroup
  <2>2. Len(c) = p.count
    BY <1>1, FiledType
  <2>3. \A i \in FilledSlots(c) :
          \E q \in Pdus : /\ accepted'[q] > 0
                          /\ q.ref = r
                          /\ q.number = i
                          /\ q.count = Len(c)
                          /\ q.body = c[i]
    <3> SUFFICES ASSUME NEW i \in FilledSlots(c)
                 PROVE  \E q \in Pdus : /\ accepted'[q] > 0
                                        /\ q.ref = r
                                        /\ q.number = i
                                        /\ q.count = Len(c)
                                        /\ q.body = c[i]
      OBVIOUS
    <3> HIDE DEF c
    <3>1. CASE i = p.number
      BY <1>4, <1>6, <2>1, <2>2, <3>1
    <3>2. CASE i # p.number
      <4>1. WasReceived(r, Len(c), i, c[i])
        BY <1>6, <2>1, <3>2 DEF GroupOK
      <4>2. QED
        BY <1>3, <4>1 DEF WasReceived
    <3>3. QED
      BY <3>1, <3>2
  <2>4. refToSegments'[r].contents = c /\ refToSegments'[r].received = Filed(p).received
    BY <1>2, <1>6
  <2> HIDE DEF c
  <2>5. QED
    BY <2>1, <2>3, <2>4 DEF GroupOK, WasReceived, FilledSlots
<1>7. QED
  BY <1>5, <1>6

LEMMA SingleStep ==
  ASSUME SingleHasNoReference, [Next]_vars
  PROVE  SingleHasNoReference'
<1> USE DEF SingleHasNoReference
<1>1. ASSUME NEW p \in Pdus, ParsePdu(p)
      PROVE  SingleHasNoReference'
  <2>1. CASE RejectPdu(p)
    BY <2>1 DEF RejectPdu
  <2>2. CASE ParseSingle(p)
    <3>1. message'.reference = 0
      BY <2>2 DEF ParseSingle
    <3>2. QED
      BY <3>1
  <2>3. CASE FileSegment(p)
    <3>1. message'.isSegment
      BY <2>3 DEF FileSegment
    <3>2. QED
      BY <3>1
  <2>4. QED
    BY <1>1, <2>1, <2>2, <2>3 DEF ParsePdu
<1>2. CASE SendEmail
  BY <1>2 DEF SendEmail, ConfigThrows, SkipIncomplete, CurlInitFails,
              LogOnly, MailSent, MailFails, HandlerReturns
<1>3. CASE Restart
  BY <1>3 DEF Restart
<1>4. CASE UNCHANGED vars
  BY <1>4 DEF vars
<1>5. QED
  BY <1>1, <1>2, <1>3, <1>4 DEF Next

LEMMA InvStep ==
  ASSUME NonEmptySegments
  PROVE  IInv /\ [Next]_vars => IInv'
<1> SUFFICES ASSUME IInv, [Next]_vars
             PROVE  IInv'
  OBVIOUS
<1>1. TypeOK /\ TypeOK'
  BY TypeStep DEF IInv
<1>0. SingleHasNoReference'
  BY SingleStep DEF IInv
<1> SUFFICES /\ \A r \in DOMAIN refToSegments' : GroupOK(r)'
             /\ PartsWereReceived'
  BY <1>0, <1>1 DEF IInv
<1> DEFINE Grows == \A p \in Pdus : accepted[p] > 0 => accepted'[p] > 0
           Kept  == /\ DOMAIN refToSegments' \subseteq DOMAIN refToSegments
                    /\ \A r \in DOMAIN refToSegments' :
                          refToSegments'[r] = refToSegments[r]
           GroupsOK == \A r \in DOMAIN refToSegments : GroupOK(r)
<1>2. ASSUME Kept, Grows
      PROVE  GroupsOK'
  BY <1>2, KeepGroup DEF IInv
<1>3. ASSUME outbox' = outbox, Grows
      PROVE  PartsWereReceived'
  BY <1>3, KeepOutbox DEF IInv
<1>4. ASSUME NEW m \in MessageType, refToSegments' = Extract(m)
      PROVE  Kept
  BY <1>4 DEF Extract
<1>5. ASSUME UNCHANGED accepted
      PROVE  Grows
  BY <1>5
<1>6. ASSUME HandlerReturns
      PROVE  message \in MessageType /\ UNCHANGED accepted
  BY <1>1, <1>6 DEF HandlerReturns, TypeOK
<1>7. ASSUME UNCHANGED refToSegments
      PROVE  Kept
  BY <1>7
<1> HIDE DEF Grows, Kept, GroupsOK
<1> SUFFICES GroupsOK' /\ PartsWereReceived'
  BY DEF GroupsOK
<1>8. ASSUME NEW p \in Pdus, RejectPdu(p)
      PROVE  GroupsOK' /\ PartsWereReceived'
  BY <1>2, <1>3, <1>5, <1>7, <1>8 DEF RejectPdu
<1>9. ASSUME NEW p \in Pdus, ParseSingle(p)
      PROVE  GroupsOK' /\ PartsWereReceived'
  <2>1. Grows
    BY <1>1, <1>9, AcceptedGrows DEF ParseSingle, Grows
  <2>2. QED
    BY <1>2, <1>3, <1>7, <1>9, <2>1 DEF ParseSingle
<1>10. ASSUME NEW p \in Pdus, FileSegment(p)
       PROVE  GroupsOK' /\ PartsWereReceived'
  <2>1. Grows
    BY <1>1, <1>10, AcceptedGrows DEF FileSegment, Grows
  <2>2. GroupsOK'
    BY <1>10, FileKeepsGroups DEF GroupsOK
  <2>3. QED
    BY <1>3, <1>10, <2>1, <2>2 DEF FileSegment
<1>11. CASE ConfigThrows
  BY <1>2, <1>3, <1>5, <1>6, <1>7, <1>11 DEF ConfigThrows
<1>12. ASSUME NEW cfg \in {"valid", "invalid"},
              SkipIncomplete(cfg) \/ CurlInitFails(cfg)
       PROVE  GroupsOK' /\ PartsWereReceived'
  BY <1>2, <1>3, <1>5, <1>6, <1>7, <1>12 DEF SkipIncomplete, CurlInitFails
<1>13. CASE LogOnly
  <2>1. Kept /\ Grows
    BY <1>4, <1>5, <1>6, <1>13 DEF LogOnly
  <2>2. PartsWereReceived'
    BY <1>6, <1>13, RelayedWasReceived DEF LogOnly
  <2>3. QED
    BY <1>2, <2>1, <2>2
<1>14. CASE MailSent
  <2>1. Kept /\ Grows
    BY <1>4, <1>5, <1>6, <1>14 DEF MailSent
  <2>2. PartsWereReceived'
    BY <1>6, <1>14, RelayedWasReceived DEF MailSent
  <2>3. QED
    BY <1>2, <2>1, <2>2
<1>15. CASE MailFails
  <2>1. Kept /\ Grows
    BY <1>4, <1>5, <1>6, <1>15 DEF MailFails
  <2>2. QED
    BY <1>2, <1>3, <1>15, <2>1 DEF MailFails
<1>16. CASE Restart
  <2>1. Kept /\ Grows
    BY <1>5, <1>16 DEF Restart, NoSegments, Kept
  <2>2. QED
    BY <1>2, <1>3, <1>16, <2>1 DEF Restart
<1>17. CASE UNCHANGED vars
  BY <1>2, <1>3, <1>5, <1>7, <1>17 DEF vars
<1>18. QED
  BY <1>8, <1>9, <1>10, <1>11, <1>12, <1>13, <1>14, <1>15, <1>16, <1>17
     DEF Next, ParsePdu, SendEmail

LEMMA InvInit == Init => IInv
<1> SUFFICES ASSUME Init PROVE IInv
  OBVIOUS
<1>1. TypeOK
  BY TypeInit
<1>2. DOMAIN refToSegments = {}
  BY DEF Init, NoSegments
<1>3. DOMAIN outbox = {}
  BY DEF Init
<1>4. message = NoMessage
  BY DEF Init
<1>5. QED
  BY <1>1, <1>2, <1>3, <1>4 DEF IInv, PartsWereReceived, SingleHasNoReference

(* Without segments that have no text, the counter of a group
   (sms.cpp:413-424, 428-431) is the number of its filled slots, so
   comparing it with the size (sms.cpp:130-139) is the right test. *)
THEOREM CounterCorrect ==
  ASSUME NonEmptySegments
  PROVE  Spec => []ReceivedIsFilled
<1>1. Init => IInv
  BY InvInit
<1>2. IInv /\ [Next]_vars => IInv'
  BY InvStep
<1>3. IInv => ReceivedIsFilled
  BY DEF IInv, GroupOK, ReceivedIsFilled
<1>4. QED
  BY <1>1, <1>2, <1>3, PTL DEF Spec

(* Without segments that have no text, no mail has a hole or a segment of a
   group of another size: each part was received (sms.cpp:149-164). *)
THEOREM NoHoles ==
  ASSUME NonEmptySegments
  PROVE  Spec => []PartsWereReceived
<1>1. Init => IInv
  BY InvInit
<1>2. IInv /\ [Next]_vars => IInv'
  BY InvStep
<1>3. IInv => PartsWereReceived
  BY DEF IInv
<1>4. QED
  BY <1>1, <1>2, <1>3, PTL DEF Spec

-----------------------------------------------------------------------------
(* SmsRelay implements Reassembly *)

LEMMA GroupsIs ==
  /\ DOMAIN Groups = DOMAIN refToSegments
  /\ \A r \in DOMAIN refToSegments :
       LET c == refToSegments[r].contents
       IN  Groups[r] = [ count |-> Len(c),
                         parts |-> [i \in FilledSlots(c) |-> c[i]] ]
  BY DEF Groups

(* A segment that is filed joins its group. *)
LEMMA FileIsJoin ==
  ASSUME IInv, NonEmptySegments, NEW p \in Pdus, FileSegment(p)
  PROVE  R!Join(p)
<1> DEFINE c == Filed(p).contents
<1>1. p.udhi /\ ~ Mismatch(p) /\ p.body # NoText
  BY PduFacts DEF FileSegment, IsFiled, NonEmptySegments
<1>2. /\ Len(c) = p.count
      /\ p.number \in 1 .. p.count
      /\ Filed(p) \in SegmentCountAndContents
  BY <1>1, FiledType, PduFacts DEF IInv
<1>3. [i \in FilledSlots(c) |-> c[i]] = R!Joined(p)
  <2>1. CASE p.ref \in DOMAIN refToSegments
    <3> DEFINE old == refToSegments[p.ref].contents
    <3>1. old \in Seq(Bodies) /\ Len(old) = p.count /\ p.body \in Bodies
      BY <1>1, <2>1, PduFacts DEF IInv, TypeOK, SegmentCountAndContents, Mismatch
    <3>2. c = [old EXCEPT ![p.number] = p.body]
      BY <2>1 DEF Filed
    <3>3. FilledSlots(c) = FilledSlots(old) \cup {p.number}
      BY <1>1, <1>2, <3>1, <3>2, FillSlot
    <3>4. /\ c[p.number] = p.body
          /\ \A i \in FilledSlots(old) : i # p.number => c[i] = old[i]
      BY <1>2, <3>1, <3>2 DEF FilledSlots
    <3>5. /\ p.ref \in DOMAIN Groups
          /\ Groups[p.ref].parts = [i \in FilledSlots(old) |-> old[i]]
      BY <2>1 DEF Groups
    <3> HIDE DEF old, c
    <3>6. R!Joined(p) = [i \in FilledSlots(old) \cup {p.number} |->
                           IF i = p.number THEN p.body ELSE old[i]]
      BY <3>5 DEF R!Joined
    <3>7. QED
      BY <3>3, <3>4, <3>6
  <2>2. CASE p.ref \notin DOMAIN refToSegments
    <3>1. c = [i \in 1 .. p.count |-> IF i = p.number THEN p.body ELSE NoText]
      BY <2>2 DEF Filed
    <3>2. FilledSlots(c) = {p.number} /\ c[p.number] = p.body
      BY <1>1, <1>2, <3>1 DEF FilledSlots
    <3>3. R!Joined(p) = [i \in {p.number} |-> p.body]
      BY <2>2, GroupsIs DEF R!Joined
    <3> HIDE DEF c
    <3>4. QED
      BY <3>2, <3>3
  <2>3. QED
    BY <2>1, <2>2
<1>4. /\ DOMAIN refToSegments' = DOMAIN refToSegments \cup {p.ref}
      /\ refToSegments'[p.ref] = Filed(p)
      /\ \A r \in DOMAIN refToSegments \ {p.ref} :
            refToSegments'[r] = refToSegments[r]
      /\ UNCHANGED outbox
  BY DEF FileSegment
<1>5. p.ref \in DOMAIN Groups => Groups[p.ref].count = p.count
  BY <1>1, GroupsIs DEF Mismatch
<1>6. /\ DOMAIN Groups' = DOMAIN Groups \cup {p.ref}
      /\ Groups' = [r \in DOMAIN Groups' |-> Groups'[r]]
  BY <1>4 DEF Groups
<1>7. Groups'[p.ref] = [count |-> p.count, parts |-> R!Joined(p)]
  <2>1. Groups'[p.ref] = [ count |-> Len(c),
                           parts |-> [i \in FilledSlots(c) |-> c[i]] ]
    BY <1>4 DEF Groups, FilledSlots
  <2>2. QED
    BY <1>2, <1>3, <2>1
<1>8. \A r \in DOMAIN Groups \ {p.ref} : Groups'[r] = Groups[r]
  BY <1>4 DEF Groups, FilledSlots
<1>9. Groups' = [r \in DOMAIN Groups \cup {p.ref} |->
                   IF r = p.ref THEN [count |-> p.count, parts |-> R!Joined(p)]
                                ELSE Groups[r]]
  BY <1>6, <1>7, <1>8
<1>10. QED
  BY <1>4, <1>5, <1>9 DEF R!Join

(* Extracting a complete group, which then leaves. *)
LEMMA ExtractIsRelease ==
  ASSUME IInv, NEW m \in MessageType, m.isSegment, Relayable(m),
         refToSegments' = Extract(m)
  PROVE  /\ m.reference \in DOMAIN Groups
         /\ R!Whole(m.reference)
         /\ Groups' = R!Without(m.reference)
         /\ \A via : Outgoing(m, via) =
              [ via |-> via, isSegment |-> TRUE, reference |-> m.reference,
                parts |-> Groups[m.reference].parts ]
<1> DEFINE r == m.reference
           c == refToSegments[r].contents
<1>1. r \in DOMAIN refToSegments /\ refToSegments[r].received = Len(c)
  BY DEF Relayable
<1>2. c \in Seq(Bodies)
  BY <1>1 DEF IInv, TypeOK, SegmentCountAndContents
<1>3. FilledSlots(c) = 1 .. Len(c)
  BY <1>1, <1>2, CompleteIsFilled DEF IInv, GroupOK
<1>4. Groups[r] = [count |-> Len(c), parts |-> [i \in 1 .. Len(c) |-> c[i]]]
  BY <1>1, <1>3, GroupsIs
<1>5. c = [i \in 1 .. Len(c) |-> c[i]]
  BY <1>2
<1>6. R!Whole(r)
  BY <1>4 DEF R!Whole
<1>7. Groups' = R!Without(r)
  <2>1. /\ DOMAIN refToSegments' = DOMAIN refToSegments \ {r}
        /\ \A q \in DOMAIN refToSegments \ {r} :
              refToSegments'[q] = refToSegments[q]
    BY DEF Extract
  <2>2. /\ DOMAIN Groups' = DOMAIN Groups \ {r}
        /\ Groups' = [q \in DOMAIN Groups' |-> Groups'[q]]
    BY <2>1 DEF Groups
  <2>3. \A q \in DOMAIN Groups \ {r} : Groups'[q] = Groups[q]
    BY <2>1 DEF Groups, FilledSlots
  <2>4. QED
    BY <2>2, <2>3 DEF R!Without
<1>8. \A via : Outgoing(m, via) =
        [via |-> via, isSegment |-> TRUE, reference |-> r, parts |-> c]
  BY DEF Outgoing
<1>9. QED
  BY <1>1, <1>4, <1>5, <1>6, <1>7, <1>8, GroupsIs

(* What send_email does when it relays, or fails to, maps to one step. *)
LEMMA RelayMaps ==
  ASSUME IInv, HandlerReturns, Relayable(message),
         refToSegments' = Extract(message),
         \/ UNCHANGED outbox
         \/ \E via \in {"mail", "log"} :
               outbox' = Append(outbox, Outgoing(message, via))
  PROVE  R!Next \/ UNCHANGED <<Groups, outbox>>
<1>1. message \in MessageType
  BY DEF IInv, TypeOK, HandlerReturns
<1>2. CASE message.isSegment
  <2> DEFINE r == message.reference
  <2>1. /\ r \in DOMAIN Groups
        /\ R!Whole(r)
        /\ Groups' = R!Without(r)
        /\ \A via : Outgoing(message, via) =
             [ via |-> via, isSegment |-> TRUE, reference |-> r,
               parts |-> Groups[r].parts ]
    BY <1>1, <1>2, ExtractIsRelease
  <2>2. CASE UNCHANGED outbox
    <3>1. R!Lose(r)
      BY <2>1, <2>2 DEF R!Lose
    <3>2. QED
      BY <2>1, <3>1 DEF R!Next
  <2>3. CASE \E via \in {"mail", "log"} :
               outbox' = Append(outbox, Outgoing(message, via))
    <3>1. PICK via \in {"mail", "log"} :
            outbox' = Append(outbox, Outgoing(message, via))
      BY <2>3
    <3>2. R!Release(r, via)
      BY <2>1, <3>1 DEF R!Release
    <3>3. QED
      BY <2>1, <3>2 DEF R!Next
  <2>4. QED
    BY <2>2, <2>3
<1>3. CASE ~ message.isSegment
  <2>1. UNCHANGED Groups
    BY <1>3 DEF Extract, Groups, FilledSlots
  <2>2. CASE UNCHANGED outbox
    BY <2>1, <2>2
  <2>3. CASE \E via \in {"mail", "log"} :
               outbox' = Append(outbox, Outgoing(message, via))
    <3>1. PICK via \in {"mail", "log"} :
            outbox' = Append(outbox, Outgoing(message, via))
      BY <2>3
    <3>2. message.reference = 0
      BY <1>3 DEF IInv, SingleHasNoReference, HandlerReturns
    <3>3. Outgoing(message, via) =
            [ via |-> via, isSegment |-> FALSE, reference |-> 0,
              parts |-> <<message.content>> ]
      BY <1>1, <1>3, <3>2 DEF Outgoing, MessageType
    <3>4. R!Single(message.content, via)
      BY <2>1, <3>1, <3>3 DEF R!Single
    <3>5. message.content \in Bodies
      BY <1>1 DEF MessageType
    <3>6. QED
      BY <3>4, <3>5 DEF R!Next
  <2>4. QED
    BY <2>2, <2>3
<1>4. QED
  BY <1>2, <1>3

LEMMA StepMaps ==
  ASSUME NonEmptySegments
  PROVE  IInv /\ [Next]_vars => [R!Next]_<<Groups, outbox>>
<1> SUFFICES ASSUME IInv, [Next]_vars
             PROVE  R!Next \/ UNCHANGED <<Groups, outbox>>
  OBVIOUS
<1>1. ASSUME UNCHANGED <<refToSegments, outbox>>
      PROVE  UNCHANGED <<Groups, outbox>>
  BY <1>1 DEF Groups, FilledSlots
<1>2. ASSUME NEW p \in Pdus, RejectPdu(p) \/ ParseSingle(p)
      PROVE  UNCHANGED <<Groups, outbox>>
  BY <1>1, <1>2 DEF RejectPdu, ParseSingle
<1>3. ASSUME NEW p \in Pdus, FileSegment(p)
      PROVE  R!Next
  <2>1. R!Join(p)
    BY <1>3, FileIsJoin
  <2>2. QED
    BY <2>1 DEF R!Next
<1>4. CASE ConfigThrows
  BY <1>1, <1>4 DEF ConfigThrows
<1>5. ASSUME NEW cfg \in {"valid", "invalid"},
             SkipIncomplete(cfg) \/ CurlInitFails(cfg)
      PROVE  UNCHANGED <<Groups, outbox>>
  BY <1>1, <1>5 DEF SkipIncomplete, CurlInitFails
<1>6. CASE LogOnly \/ MailSent \/ MailFails
  BY <1>6, RelayMaps DEF LogOnly, MailSent, MailFails
<1>7. CASE Restart
  <2>1. Groups' = R!NoGroups /\ UNCHANGED outbox
    BY <1>7 DEF Restart, NoSegments, Groups, R!NoGroups
  <2>2. QED
    BY <2>1 DEF R!Next, R!Reset
<1>8. CASE UNCHANGED vars
  BY <1>1, <1>8 DEF vars
<1>9. QED
  BY <1>2, <1>3, <1>4, <1>5, <1>6, <1>7, <1>8 DEF Next, ParsePdu, SendEmail

(* The counters and vectors of ref_to_segments implement the abstract
   reassembly, if no segment lacks a text: a group leaves whole, in order,
   once, and nothing else makes it smaller (sms.cpp:125-164, 402-433). *)
THEOREM RelayImplementsReassembly ==
  ASSUME NonEmptySegments
  PROVE  Spec => ImplementsReassembly
<1>1. Init => IInv
  BY InvInit
<1>2. IInv /\ [Next]_vars => IInv'
  BY InvStep
<1>3. Init => R!Init
  BY DEF Init, NoSegments, Groups, R!Init, R!NoGroups
<1>4. IInv /\ [Next]_vars => [R!Next]_<<Groups, outbox>>
  BY StepMaps
<1>5. QED
  BY <1>1, <1>2, <1>3, <1>4, PTL DEF Spec, ImplementsReassembly, R!Spec
-----------------------------------------------------------------------------
(* No text leaves more often than it came.  RelayedNoMoreThanReceived is not
   inductive: a text that is in the map, or in the SMS object alive, has still
   to leave.  So the invariant counts the places where a text is: the mails it
   is in, the groups that hold it, and the SMS object that is no segment. *)

(* Different PDUs have different texts. *)
DistinctTexts ==
  \A p, q \in Pdus : p.body = q.body /\ p.body # NoText => p = q

SentIn(b) ==
  {k \in DOMAIN outbox : \E i \in DOMAIN outbox[k].parts : outbox[k].parts[i] = b}

HeldIn(b) ==
  {r \in DOMAIN refToSegments :
     \E i \in DOMAIN refToSegments[r].contents : refToSegments[r].contents[i] = b}

Alive(b) == message # NoMessage /\ ~ message.isSegment /\ message.content = b

Copies(b) ==
  Cardinality(SentIn(b)) + Cardinality(HeldIn(b)) + (IF Alive(b) THEN 1 ELSE 0)

CopiesInv ==
  \A p \in Pdus : p.body # NoText => Copies(p.body) <= accepted[p]

(* There are finitely many references and mails. *)
LEMMA CopiesFinite ==
  ASSUME TypeOK, NEW b
  PROVE  /\ IsFiniteSet(SentIn(b)) /\ IsFiniteSet(HeldIn(b))
         /\ Cardinality(SentIn(b)) \in Nat /\ Cardinality(HeldIn(b)) \in Nat
         /\ Copies(b) \in Nat
<1>1. IsFiniteSet(1 .. Len(outbox)) /\ DOMAIN outbox = 1 .. Len(outbox)
  BY IntervalSize DEF TypeOK
<1>2. SentIn(b) \subseteq 1 .. Len(outbox)
  BY <1>1 DEF SentIn
<1>3. IsFiniteSet(SentIn(b)) /\ Cardinality(SentIn(b)) \in Nat
  BY <1>1, <1>2, FS_Subset, FS_CardinalityType
<1>4. IsFiniteSet(References)
  <2> DEFINE max == 65535
  <2>1. 0 \in Int /\ max \in Int
    OBVIOUS
  <2> HIDE DEF max
  <2>2. IsFiniteSet(0 .. max)
    BY <2>1, FS_Interval
  <2>3. References = 0 .. max
    BY DEF References, max
  <2>4. QED
    BY <2>2, <2>3, Zenon
<1>5. HeldIn(b) \subseteq References
  <2>1. DOMAIN refToSegments \subseteq {p.ref : p \in Pdus}
    BY DEF TypeOK
  <2>2. {p.ref : p \in Pdus} \subseteq References
    BY PduFacts
  <2>3. HeldIn(b) \subseteq DOMAIN refToSegments
    BY DEF HeldIn
  <2>4. QED
    BY <2>1, <2>2, <2>3
<1>6. IsFiniteSet(HeldIn(b)) /\ Cardinality(HeldIn(b)) \in Nat
  BY <1>4, <1>5, FS_Subset, FS_CardinalityType
<1>7. QED
  BY <1>3, <1>6 DEF Copies

(* A step that fills no slot and mails nothing makes no copy. *)
LEMMA CopiesShrink ==
  ASSUME TypeOK, NEW b,
         UNCHANGED outbox,
         DOMAIN refToSegments' \subseteq DOMAIN refToSegments,
         \A r \in DOMAIN refToSegments' : refToSegments'[r] = refToSegments[r],
         message' \in {message, NoMessage}
  PROVE  Copies(b)' <= Copies(b) /\ Copies(b)' \in Nat
<1>1. SentIn(b)' = SentIn(b)
  BY DEF SentIn
<1>2. HeldIn(b)' \subseteq HeldIn(b)
  BY DEF HeldIn
<1>3. Cardinality(HeldIn(b)') <= Cardinality(HeldIn(b))
  BY <1>2, CopiesFinite, FS_Subset
<1>4. Alive(b)' => Alive(b)
  BY DEF Alive
<1>5. /\ Cardinality(SentIn(b)) \in Nat /\ Cardinality(HeldIn(b)) \in Nat
      /\ Cardinality(HeldIn(b)') \in Nat
  <2>1. IsFiniteSet(HeldIn(b)')
    BY <1>2, CopiesFinite, FS_Subset
  <2>2. QED
    BY <2>1, CopiesFinite, FS_CardinalityType
<1>6. /\ Copies(b) = Cardinality(SentIn(b)) + Cardinality(HeldIn(b))
                       + (IF Alive(b) THEN 1 ELSE 0)
      /\ Copies(b)' = Cardinality(SentIn(b)') + Cardinality(HeldIn(b)')
                       + (IF Alive(b)' THEN 1 ELSE 0)
  BY DEF Copies
<1>7. QED
  BY <1>1, <1>3, <1>4, <1>5, <1>6

(* A PDU that is accepted makes one copy of its own text at most, and none of
   another. *)
LEMMA CopiesAccepted ==
  ASSUME TypeOK, NEW p \in Pdus, ParseSingle(p) \/ FileSegment(p), NEW b
  PROVE  /\ Copies(b)' <= Copies(b) + 1 /\ Copies(b)' \in Nat
         /\ b # NoText /\ b # p.body => Copies(b)' <= Copies(b)
<1>1. /\ SentIn(b)' = SentIn(b)
      /\ ~ Alive(b)
  <2>1. UNCHANGED outbox /\ message = NoMessage
    BY DEF ParseSingle, FileSegment, Arrive
  <2>2. QED
    BY <2>1 DEF SentIn, Alive
<1>2. /\ Cardinality(SentIn(b)) \in Nat
      /\ IsFiniteSet(HeldIn(b)) /\ Cardinality(HeldIn(b)) \in Nat
  BY CopiesFinite
<1>3. /\ Copies(b) = Cardinality(SentIn(b)) + Cardinality(HeldIn(b))
      /\ Copies(b)' = Cardinality(SentIn(b)) + Cardinality(HeldIn(b)')
                       + (IF Alive(b)' THEN 1 ELSE 0)
  BY <1>1, <1>2 DEF Copies
<1>4. CASE ParseSingle(p)
  <2>1. HeldIn(b)' = HeldIn(b)
    BY <1>4 DEF ParseSingle, HeldIn
  <2>2. Alive(b)' => b = p.body
    <3>1. message'.content = p.body
      BY <1>4 DEF ParseSingle
    <3>2. QED
      BY <3>1 DEF Alive
  <2>3. QED
    BY <1>2, <1>3, <2>1, <2>2
<1>5. CASE FileSegment(p)
  <2>1. ~ Alive(b)'
    <3>1. message'.isSegment
      BY <1>5 DEF FileSegment
    <3>2. QED
      BY <3>1 DEF Alive
  <2>2. /\ DOMAIN refToSegments' = DOMAIN refToSegments \cup {p.ref}
        /\ refToSegments'[p.ref] = Filed(p)
        /\ \A r \in DOMAIN refToSegments \ {p.ref} :
              refToSegments'[r] = refToSegments[r]
    BY <1>5 DEF FileSegment
  <2>3. HeldIn(b)' \subseteq HeldIn(b) \cup {p.ref}
    BY <2>2 DEF HeldIn
  <2>4. IsFiniteSet(HeldIn(b)')
    BY <1>2, <2>3, FS_Subset, FS_AddElement
  <2>5. Cardinality(HeldIn(b)') <= Cardinality(HeldIn(b)) + 1
    <3>1. /\ IsFiniteSet(HeldIn(b) \cup {p.ref})
          /\ Cardinality(HeldIn(b) \cup {p.ref}) <= Cardinality(HeldIn(b)) + 1
      <4>1. /\ IsFiniteSet(HeldIn(b) \cup {p.ref})
            /\ Cardinality(HeldIn(b) \cup {p.ref})
                 = IF p.ref \in HeldIn(b) THEN Cardinality(HeldIn(b))
                                          ELSE Cardinality(HeldIn(b)) + 1
        BY <1>2, FS_AddElement
      <4>2. QED
        BY <1>2, <4>1
    <3>2. /\ Cardinality(HeldIn(b)') <= Cardinality(HeldIn(b) \cup {p.ref})
          /\ Cardinality(HeldIn(b) \cup {p.ref}) \in Nat
          /\ Cardinality(HeldIn(b)') \in Nat
      BY <2>3, <2>4, <3>1, FS_Subset, FS_CardinalityType
    <3>3. QED
      BY <1>2, <3>1, <3>2
  <2>6. ASSUME b # NoText, b # p.body
        PROVE  HeldIn(b)' \subseteq HeldIn(b)
    <3>1. ASSUME NEW i \in DOMAIN Filed(p).contents, Filed(p).contents[i] = b
          PROVE  p.ref \in HeldIn(b)
      <4>0. p.udhi /\ ~ Mismatch(p)
        BY <1>5, PduFacts DEF FileSegment, IsFiled
      <4>1. CASE p.ref \in DOMAIN refToSegments
        <5> DEFINE old == refToSegments[p.ref].contents
        <5>1. old \in Seq(Bodies) /\ Len(old) = p.count
          BY <4>0, <4>1 DEF TypeOK, SegmentCountAndContents, Mismatch
        <5>2. Filed(p).contents = [old EXCEPT ![p.number] = p.body]
          BY <4>1 DEF Filed
        <5>3. i \in DOMAIN old /\ old[i] = b
          BY <2>6, <3>1, <5>1, <5>2
        <5>4. QED
          BY <4>1, <5>3 DEF HeldIn
      <4>2. CASE p.ref \notin DOMAIN refToSegments
        <5>1. Filed(p).contents
                = [j \in 1 .. p.count |-> IF j = p.number THEN p.body ELSE NoText]
          BY <4>2 DEF Filed
        <5>2. QED
          BY <2>6, <3>1, <5>1
      <4>3. QED
        BY <4>1, <4>2
    <3>2. p.ref \in HeldIn(b)' => p.ref \in HeldIn(b)
      BY <2>2, <3>1 DEF HeldIn
    <3>3. QED
      BY <2>3, <3>2
  <2>7. b # NoText /\ b # p.body => Cardinality(HeldIn(b)') <= Cardinality(HeldIn(b))
    BY <1>2, <2>6, FS_Subset
  <2>8. Cardinality(HeldIn(b)') \in Nat
    BY <2>4, FS_CardinalityType
  <2>9. QED
    BY <1>2, <1>3, <2>1, <2>5, <2>7, <2>8
<1>6. QED
  BY <1>4, <1>5

(* What leaves moves its texts from the map, or the SMS object, to a mail. *)
LEMMA CopiesRelayed ==
  ASSUME TypeOK, NEW b, NEW via \in {"mail", "log"},
         HandlerReturns, Relayable(message), refToSegments' = Extract(message),
         outbox' = Append(outbox, Outgoing(message, via))
  PROVE  Copies(b)' <= Copies(b) /\ Copies(b)' \in Nat
<1> DEFINE m == message
           new == Outgoing(m, via)
           n == Len(outbox)
<1>1. m \in MessageType /\ m # NoMessage /\ ~ Alive(b)'
  BY DEF HandlerReturns, TypeOK, Alive
<1>2. outbox \in Seq(OutgoingType) /\ new \in OutgoingType
  BY <1>1, OutgoingIsTyped DEF TypeOK
<1>3. /\ DOMAIN outbox' = 1 .. n + 1
      /\ DOMAIN outbox = 1 .. n
      /\ n \in Nat
      /\ outbox'[n + 1] = new
      /\ \A k \in 1 .. n : outbox'[k] = outbox[k]
  BY <1>2, AppendProperties
<1> DEFINE InNew == \E i \in DOMAIN new.parts : new.parts[i] = b
<1>4. \A k \in SentIn(b)' : k \in SentIn(b) \/ (k = n + 1 /\ InNew)
  <2> SUFFICES ASSUME NEW k \in DOMAIN outbox',
                      \E i \in DOMAIN outbox'[k].parts : outbox'[k].parts[i] = b
               PROVE  k \in SentIn(b) \/ (k = n + 1 /\ InNew)
    BY DEF SentIn
  <2>1. CASE k \in 1 .. n
    BY <1>3, <2>1 DEF SentIn
  <2>2. CASE k = n + 1
    BY <1>3, <2>2
  <2>3. QED
    BY <1>3, <2>1, <2>2
<1>5. /\ IsFiniteSet(SentIn(b)) /\ Cardinality(SentIn(b)) \in Nat
      /\ IsFiniteSet(HeldIn(b)) /\ Cardinality(HeldIn(b)) \in Nat
  BY CopiesFinite
<1>6. /\ Cardinality(SentIn(b)') \in Nat
      /\ Cardinality(SentIn(b)') <= Cardinality(SentIn(b)) + (IF InNew THEN 1 ELSE 0)
  <2>1. /\ IsFiniteSet(SentIn(b) \cup {n + 1})
        /\ Cardinality(SentIn(b) \cup {n + 1})
             = IF n + 1 \in SentIn(b) THEN Cardinality(SentIn(b))
                                      ELSE Cardinality(SentIn(b)) + 1
    BY <1>5, FS_AddElement
  <2> HIDE DEF InNew, n
  <2>2. CASE InNew
    <3>1. SentIn(b)' \subseteq SentIn(b) \cup {n + 1}
      BY <1>4
    <3>2. /\ IsFiniteSet(SentIn(b)')
          /\ Cardinality(SentIn(b)') <= Cardinality(SentIn(b) \cup {n + 1})
      BY <2>1, <3>1, FS_Subset
    <3>3. Cardinality(SentIn(b)') \in Nat
      BY <3>2, FS_CardinalityType
    <3>4. QED
      BY <1>5, <2>1, <2>2, <3>2, <3>3
  <2>3. CASE ~ InNew
    <3>1. SentIn(b)' \subseteq SentIn(b)
      BY <1>4, <2>3
    <3>2. /\ IsFiniteSet(SentIn(b)')
          /\ Cardinality(SentIn(b)') <= Cardinality(SentIn(b))
      BY <1>5, <3>1, FS_Subset
    <3>3. Cardinality(SentIn(b)') \in Nat
      BY <3>2, FS_CardinalityType
    <3>4. QED
      BY <1>5, <2>3, <3>2, <3>3
  <2>4. QED
    BY <2>2, <2>3
<1>7. /\ Copies(b) = Cardinality(SentIn(b)) + Cardinality(HeldIn(b))
                       + (IF Alive(b) THEN 1 ELSE 0)
      /\ Copies(b)' = Cardinality(SentIn(b)') + Cardinality(HeldIn(b)')
                       + (IF Alive(b)' THEN 1 ELSE 0)
  BY DEF Copies
<1>8. CASE ~ m.isSegment
  <2>1. HeldIn(b)' = HeldIn(b)
    BY <1>8 DEF Extract, HeldIn
  <2>2. new.parts = <<m.content>>
    BY <1>8 DEF Outgoing
  <2>3. InNew => Alive(b)
    BY <1>1, <1>8, <2>2 DEF Alive
  <2> HIDE DEF InNew, n, new, m
  <2>4. QED
    BY <1>1, <1>5, <1>6, <1>7, <2>1, <2>3
<1>9. CASE m.isSegment
  <2>1. /\ m.reference \in DOMAIN refToSegments
        /\ new.parts = refToSegments[m.reference].contents
    BY <1>9 DEF Outgoing, Relayable
  <2>2. HeldIn(b)' = HeldIn(b) \ {m.reference}
    BY <1>9 DEF Extract, HeldIn
  <2>3. InNew => m.reference \in HeldIn(b)
    BY <2>1 DEF HeldIn
  <2>4. /\ InNew => Cardinality(HeldIn(b)') = Cardinality(HeldIn(b)) - 1
        /\ Cardinality(HeldIn(b)') <= Cardinality(HeldIn(b))
        /\ Cardinality(HeldIn(b)') \in Nat
    <3> DEFINE r == m.reference
    <3>0. HeldIn(b)' = HeldIn(b) \ {r}
      BY <2>2
    <3> HIDE DEF r
    <3>1. /\ IsFiniteSet(HeldIn(b) \ {r})
          /\ Cardinality(HeldIn(b) \ {r})
               = IF r \in HeldIn(b) THEN Cardinality(HeldIn(b)) - 1
                                    ELSE Cardinality(HeldIn(b))
      BY <1>5, FS_RemoveElement
    <3>2. Cardinality(HeldIn(b)') \in Nat
      BY <3>0, <3>1, FS_CardinalityType
    <3>3. InNew => r \in HeldIn(b)
      BY <2>3 DEF r
    <3> HIDE DEF InNew, m
    <3>4. QED
      BY <1>5, <3>0, <3>1, <3>2, <3>3
  <2> HIDE DEF InNew, n, new, m
  <2>5. QED
    BY <1>1, <1>5, <1>6, <1>7, <2>4
<1>10. QED
  BY <1>8, <1>9

(* The other steps make no copies. *)
LEMMA CopiesKept ==
  ASSUME TypeOK, NEW b,
         SendEmail \/ Restart \/ (\E p \in Pdus : RejectPdu(p)) \/ UNCHANGED vars
  PROVE  Copies(b)' <= Copies(b) /\ Copies(b)' \in Nat
<1>1. ASSUME HandlerReturns, UNCHANGED outbox,
             UNCHANGED refToSegments \/ refToSegments' = Extract(message)
      PROVE  Copies(b)' <= Copies(b) /\ Copies(b)' \in Nat
  <2>1. /\ DOMAIN refToSegments' \subseteq DOMAIN refToSegments
        /\ \A r \in DOMAIN refToSegments' : refToSegments'[r] = refToSegments[r]
    BY <1>1 DEF Extract
  <2>2. message' = NoMessage
    BY <1>1 DEF HandlerReturns
  <2>3. QED
    BY <1>1, <2>1, <2>2, CopiesShrink
<1>2. CASE ConfigThrows
  BY <1>1, <1>2 DEF ConfigThrows
<1>3. ASSUME NEW cfg \in {"valid", "invalid"},
             SkipIncomplete(cfg) \/ CurlInitFails(cfg)
      PROVE  Copies(b)' <= Copies(b) /\ Copies(b)' \in Nat
  BY <1>1, <1>3 DEF SkipIncomplete, CurlInitFails
<1>4. CASE LogOnly \/ MailSent
  BY <1>4, CopiesRelayed DEF LogOnly, MailSent
<1>5. CASE MailFails
  BY <1>1, <1>5 DEF MailFails
<1>6. CASE Restart
  <2>1. DOMAIN refToSegments' = {}
    BY <1>6 DEF Restart, NoSegments
  <2>2. QED
    BY <1>6, <2>1, CopiesShrink DEF Restart
<1>7. CASE (\E p \in Pdus : RejectPdu(p)) \/ UNCHANGED vars
  BY <1>7, CopiesShrink DEF RejectPdu, vars
<1>8. QED
  BY <1>2, <1>3, <1>4, <1>5, <1>6, <1>7 DEF SendEmail

LEMMA CopiesStep ==
  ASSUME DistinctTexts
  PROVE  TypeOK /\ CopiesInv /\ [Next]_vars => CopiesInv'
<1> SUFFICES ASSUME TypeOK, CopiesInv, [Next]_vars
             PROVE  CopiesInv'
  OBVIOUS
<1>2. accepted \in [Pdus -> Nat]
  BY DEF TypeOK
<1> SUFFICES ASSUME NEW q \in Pdus, NEW b, b = q.body, b # NoText
             PROVE  Copies(b)' <= accepted'[q]
  BY DEF CopiesInv
<1>3. Copies(b) <= accepted[q] /\ Copies(b) \in Nat
  BY CopiesFinite DEF CopiesInv
<1>4. ASSUME NEW p \in Pdus, ParseSingle(p) \/ FileSegment(p)
      PROVE  Copies(b)' <= accepted'[q]
  <2>1. accepted' = [accepted EXCEPT ![p] = @ + 1]
    BY <1>4 DEF ParseSingle, FileSegment
  <2>2. CASE p = q
    <3>1. accepted'[q] = accepted[q] + 1
      BY <1>2, <2>1, <2>2
    <3>2. Copies(b)' <= Copies(b) + 1 /\ Copies(b)' \in Nat
      BY <1>4, CopiesAccepted
    <3>3. QED
      BY <1>2, <1>3, <3>1, <3>2
  <2>3. CASE p # q
    <3>1. accepted'[q] = accepted[q]
      BY <1>2, <2>1, <2>3
    <3>2. b # p.body
      BY <2>3 DEF DistinctTexts
    <3>3. Copies(b)' <= Copies(b) /\ Copies(b)' \in Nat
      BY <1>4, <3>2, CopiesAccepted
    <3>4. QED
      BY <1>2, <1>3, <3>1, <3>3
  <2>4. QED
    BY <2>2, <2>3
<1>5. CASE SendEmail \/ Restart \/ (\E p \in Pdus : RejectPdu(p)) \/ UNCHANGED vars
  <2>1. UNCHANGED accepted
    BY <1>5 DEF SendEmail, Restart, RejectPdu, vars, ConfigThrows, SkipIncomplete,
                CurlInitFails, LogOnly, MailSent, MailFails, HandlerReturns
  <2>2. Copies(b)' <= Copies(b) /\ Copies(b)' \in Nat
    BY <1>5, CopiesKept
  <2>3. QED
    BY <1>2, <1>3, <2>1, <2>2
<1>6. CASE \E p \in Pdus : ParsePdu(p)
  BY <1>4, <1>5, <1>6 DEF ParsePdu
<1>7. QED
  BY <1>5, <1>6 DEF Next

LEMMA CopiesInit == Init => CopiesInv
<1> SUFFICES ASSUME Init, NEW p \in Pdus PROVE Copies(p.body) <= accepted[p]
  BY DEF CopiesInv
<1>1. SentIn(p.body) = {} /\ HeldIn(p.body) = {} /\ ~ Alive(p.body)
  BY DEF Init, SentIn, HeldIn, Alive, NoSegments
<1>2. accepted[p] = 0
  BY DEF Init
<1>3. QED
  BY <1>1, <1>2, FS_EmptySet DEF Copies

(* A text leaves at most as often as a PDU with it was accepted, with empty
   segments, reused references, failing mails and restarts: extracting the
   group (sms.cpp:149-164) is what keeps a late duplicate, or a failure after
   it, from sending it again. *)
THEOREM NoTextTwice ==
  ASSUME DistinctTexts
  PROVE  Spec => []RelayedNoMoreThanReceived
<1>1. Init => TypeOK /\ CopiesInv
  BY TypeInit, CopiesInit
<1>2. TypeOK /\ CopiesInv /\ [Next]_vars => TypeOK' /\ CopiesInv'
  BY TypeStep, CopiesStep
<1>3. TypeOK /\ CopiesInv => RelayedNoMoreThanReceived
  <2> SUFFICES ASSUME TypeOK, CopiesInv, NEW p \in Pdus, p.body # NoText
               PROVE  Cardinality(SentIn(p.body)) <= accepted[p]
    BY DEF RelayedNoMoreThanReceived, SentIn
  <2>1. Copies(p.body) <= accepted[p] /\ accepted[p] \in Nat
    BY DEF CopiesInv, TypeOK
  <2>2. /\ Cardinality(SentIn(p.body)) \in Nat
        /\ Cardinality(HeldIn(p.body)) \in Nat
    BY CopiesFinite
  <2>3. QED
    BY <2>1, <2>2 DEF Copies
<1>4. QED
  BY <1>1, <1>2, <1>3, PTL DEF Spec
=============================================================================
