------------------------------ MODULE SmsRelay ------------------------------
(***************************************************************************)
(* The SMS class of uart_service/src/sms.cpp: the constructor that decodes *)
(* one SMS-DELIVER PDU and files the segments of a long SMS in the static  *)
(* map ref_to_segments, and send_email, which relays a single SMS or a     *)
(* complete group of segments.  sms_handler (service.cpp) runs the two in  *)
(* sequence on one thread, so at most one SMS object exists; the only      *)
(* thing that comes between them is the end of the process.                *)
(*                                                                         *)
(* A PDU is a record of the fields the control flow reads.  A decoded text *)
(* is an element of Bodies; a concatenation of texts is the sequence of    *)
(* its pieces.                                                             *)
(***************************************************************************)
EXTENDS Naturals, Sequences, FiniteSets

CONSTANTS
  Bodies,      \* decoded texts
  NoText,      \* the empty string, which vector::resize fills new slots with
  NoMessage,   \* no SMS object is alive
  Pdus,        \* the PDUs the network delivers, any number of times each
  Faults,      \* the faults that may happen, a subset of FaultKinds
  MaxArrivals  \* bound: number of PDUs handed to the constructor

FaultKinds == {"config", "curlInit", "smtp", "restart"}

References == 0 .. 65535  \* unsigned short

PduType ==
  [ udhi   : BOOLEAN,     \* the first octet announces a user data header
    udSize : Nat,         \* octets of user data
    udhl   : Nat,         \* ud[0], length of the header
    iei    : Nat,         \* ud[1], information element identifier
    iedl   : Nat,         \* ud[2], its length
    ref    : References,  \* ud[3], or ud[3] and ud[4]
    count  : Nat,         \* number of segments
    number : Nat,         \* this segment's number, from 1 (index + 1)
    dcs    : Nat,         \* dcs & 0x0C
    body   : Bodies ]

(* What the network guarantees of a PDU with a header: the segment's number
   lies in 1..count.  The constructor relies on it: it stores the first
   segment of a group without comparing its index with the vector's size. *)
ASSUME SmsAssumption ==
  /\ NoText \in Bodies
  /\ Pdus \subseteq PduType
  /\ \A p \in Pdus : p.udhi => p.number \in 1 .. p.count
  /\ Faults \subseteq FaultKinds
  /\ MaxArrivals \in Nat

VARIABLES
  refToSegments, \* ref_to_segments: reference -> <<received, contents>>
  emailConfig,   \* email_config: "unset" until call_once has run
  message,       \* the SMS object alive in sms_handler, or NoMessage
  outbox,        \* history: what was mailed or, for want of a valid config, logged
  arrivals,      \* history: PDUs handed to the constructor so far
  accepted       \* history: how often the constructor returned for each PDU

vars == <<refToSegments, emailConfig, message, outbox, arrivals, accepted>>

SegmentCountAndContents ==
  [received : Nat, contents : Seq(Bodies)]

MessageType ==
  [isSegment : BOOLEAN, reference : References, content : Bodies]

OutgoingType ==
  [ via : {"mail", "log"}, isSegment : BOOLEAN,
    reference : References, parts : Seq(Bodies) ]

TypeOK ==
  /\ \E S \in SUBSET {p.ref : p \in Pdus} :
        refToSegments \in [S -> SegmentCountAndContents]
  /\ emailConfig \in {"unset", "valid", "invalid"}
  /\ message \in MessageType \cup {NoMessage}
  /\ outbox \in Seq(OutgoingType)
  /\ arrivals \in Nat
  /\ accepted \in [Pdus -> Nat]

NoSegments == [r \in {} |-> NoText]

Init ==
  /\ refToSegments = NoSegments
  /\ emailConfig = "unset"
  /\ message = NoMessage
  /\ outbox = <<>>
  /\ arrivals = 0
  /\ accepted = [p \in Pdus |-> 0]

-----------------------------------------------------------------------------
(* The constructor SMS(pdu) *)

(* The header checks, in the order of the code.  Only a concatenation
   header (8-bit or 16-bit reference) that is alone in its header passes. *)
HeaderRejected(p) ==
  \/ p.udhl = 0
  \/ p.udSize < p.udhl + 1
  \/ p.iei \notin {0, 8}
  \/ p.udhl < 2
  \/ p.udhl # 2 + p.iedl
  \/ p.iedl \notin {3, 4}

(* dcs & 0x0C selects UCS2 (8) or the GSM 7-bit alphabet (0). *)
Unparsable(p) ==
  \/ p.udhi /\ HeaderRejected(p)
  \/ p.dcs \notin {0, 8}

(* Filed under its reference, unless the reference is 0. *)
IsFiled(p) == p.udhi /\ p.ref # 0

(* Mutant of Mismatch: only the index is checked. *)
MismatchNumberOnly(p) ==
  /\ p.ref \in DOMAIN refToSegments
  /\ Len(refToSegments[p.ref].contents) < p.number

(* The group already open under this reference has another size. *)
Mismatch(p) ==
  /\ p.ref \in DOMAIN refToSegments
  /\ \/ Len(refToSegments[p.ref].contents) < p.number
     \/ Len(refToSegments[p.ref].contents) # p.count

(* Mutant of Filed: every segment counts, filled slot or not. *)
FiledCountsDuplicates(p) ==
  IF p.ref \in DOMAIN refToSegments
  THEN [ received |-> refToSegments[p.ref].received + 1,
         contents |-> [refToSegments[p.ref].contents EXCEPT ![p.number] = p.body] ]
  ELSE [ received |-> 1,
         contents |-> [i \in 1 .. p.count |->
                         IF i = p.number THEN p.body ELSE NoText] ]

(* The group after segment p: an existing one counts p when the slot was
   the empty string; a new one has p alone and counts it. *)
Filed(p) ==
  IF p.ref \in DOMAIN refToSegments
  THEN LET old == refToSegments[p.ref]
       IN  [ received |-> IF old.contents[p.number] = NoText
                          THEN old.received + 1 ELSE old.received,
             contents |-> [old.contents EXCEPT ![p.number] = p.body] ]
  ELSE [ received |-> 1,
         contents |-> [i \in 1 .. p.count |->
                         IF i = p.number THEN p.body ELSE NoText] ]

Arrive(p) ==
  /\ message = NoMessage
  /\ arrivals < MaxArrivals
  /\ arrivals' = arrivals + 1

(* SMSParseError: sms_handler logs it and returns. *)
RejectPdu(p) ==
  /\ Arrive(p)
  /\ Unparsable(p) \/ (IsFiled(p) /\ Mismatch(p))
  /\ UNCHANGED <<refToSegments, emailConfig, message, outbox, accepted>>

(* No segment, or a segment whose reference is 0: nothing is filed.  The
   member is_segment is assigned only in the header branch, so without a
   header it has whatever value its storage held. *)
ParseSingle(p) ==
  /\ Arrive(p)
  /\ ~ Unparsable(p)
  /\ ~ IsFiled(p)
  /\ \E flag \in IF p.udhi THEN {TRUE} ELSE BOOLEAN :
        message' = [ isSegment |-> flag,
                     reference |-> 0,
                     content   |-> p.body ]
  /\ accepted' = [accepted EXCEPT ![p] = @ + 1]
  /\ UNCHANGED <<refToSegments, emailConfig, outbox>>

(* Mutant of FileSegment: only the low octet of the reference is kept. *)
FileSegmentLowOctet(p) ==
  LET low == p.ref % 256
  IN  /\ Arrive(p)
      /\ ~ Unparsable(p)
      /\ IsFiled(p)
      /\ ~ Mismatch(p)
      /\ refToSegments' = [r \in DOMAIN refToSegments \cup {low} |->
                             IF r = low THEN Filed(p) ELSE refToSegments[r]]
      /\ message' = [isSegment |-> TRUE, reference |-> low, content |-> p.body]
      /\ accepted' = [accepted EXCEPT ![p] = @ + 1]
      /\ UNCHANGED <<emailConfig, outbox>>

(* A segment with a reference is filed in ref_to_segments. *)
FileSegment(p) ==
  /\ Arrive(p)
  /\ ~ Unparsable(p)
  /\ IsFiled(p)
  /\ ~ Mismatch(p)
  /\ refToSegments' = [r \in DOMAIN refToSegments \cup {p.ref} |->
                         IF r = p.ref THEN Filed(p) ELSE refToSegments[r]]
  /\ message' = [ isSegment |-> TRUE,
                  reference |-> p.ref,
                  content   |-> p.body ]
  /\ accepted' = [accepted EXCEPT ![p] = @ + 1]
  /\ UNCHANGED <<emailConfig, outbox>>

-----------------------------------------------------------------------------
(* send_email *)

(* call_once(config_init): the first call fixes the configuration. *)
LoadConfig(cfg) ==
  /\ cfg \in {"valid", "invalid"}
  /\ emailConfig \in {"unset", cfg}
  /\ emailConfig' = cfg

(* Mutant of Relayable: complete one segment too early. *)
RelayableOneShort(m) ==
  \/ ~ m.isSegment
  \/ /\ m.reference \in DOMAIN refToSegments
     /\ refToSegments[m.reference].received + 1
          >= Len(refToSegments[m.reference].contents)

(* Mutant of Relayable: complete one segment too late. *)
RelayableOneOver(m) ==
  \/ ~ m.isSegment
  \/ /\ m.reference \in DOMAIN refToSegments
     /\ refToSegments[m.reference].received
          > Len(refToSegments[m.reference].contents)

(* The guard of send_email: a single SMS, or every segment was counted. *)
Relayable(m) ==
  \/ ~ m.isSegment
  \/ /\ m.reference \in DOMAIN refToSegments
     /\ refToSegments[m.reference].received
          = Len(refToSegments[m.reference].contents)

(* Mutant of Extract: the group is read, not extracted. *)
ExtractKeeps(m) == refToSegments

(* ref_to_segments.extract(reference), only for a segment *)
Extract(m) ==
  IF m.isSegment
  THEN [r \in DOMAIN refToSegments \ {m.reference} |-> refToSegments[r]]
  ELSE refToSegments

(* content_selector: the concatenated group, or the content *)
Outgoing(m, via) ==
  [ via       |-> via,
    isSegment |-> m.isSegment,
    reference |-> m.reference,
    parts     |-> IF m.isSegment THEN refToSegments[m.reference].contents
                  ELSE <<m.content>> ]

HandlerReturns ==
  /\ message # NoMessage
  /\ message' = NoMessage
  /\ UNCHANGED <<arrivals, accepted>>

(* Reading the configuration throws (the YAML does not parse); call_once
   then leaves its flag unset and the next call reads the file again. *)
ConfigThrows ==
  /\ "config" \in Faults
  /\ HandlerReturns
  /\ emailConfig = "unset"
  /\ UNCHANGED <<refToSegments, emailConfig, outbox>>

(* Mutant of SkipIncomplete: the incomplete group is extracted as well. *)
SkipIncompleteExtracts(cfg) ==
  /\ HandlerReturns
  /\ LoadConfig(cfg)
  /\ ~ Relayable(message)
  /\ refToSegments' = Extract(message)
  /\ UNCHANGED outbox

(* "the segments is missing or not completed": logged, returns. *)
SkipIncomplete(cfg) ==
  /\ HandlerReturns
  /\ LoadConfig(cfg)
  /\ ~ Relayable(message)
  /\ UNCHANGED <<refToSegments, outbox>>

(* curl_easy_init gives nullptr: EmailError before anything is extracted. *)
CurlInitFails(cfg) ==
  /\ "curlInit" \in Faults
  /\ HandlerReturns
  /\ LoadConfig(cfg)
  /\ Relayable(message)
  /\ UNCHANGED <<refToSegments, outbox>>

(* No valid configuration: the group is extracted, its text only logged. *)
LogOnly ==
  /\ HandlerReturns
  /\ LoadConfig("invalid")
  /\ Relayable(message)
  /\ refToSegments' = Extract(message)
  /\ outbox' = Append(outbox, Outgoing(message, "log"))

(* curl_easy_perform delivers the mail. *)
MailSent ==
  /\ HandlerReturns
  /\ LoadConfig("valid")
  /\ Relayable(message)
  /\ refToSegments' = Extract(message)
  /\ outbox' = Append(outbox, Outgoing(message, "mail"))

(* curl_easy_perform fails: EmailError, and the group is already extracted. *)
MailFails ==
  /\ "smtp" \in Faults
  /\ HandlerReturns
  /\ LoadConfig("valid")
  /\ Relayable(message)
  /\ refToSegments' = Extract(message)
  /\ UNCHANGED outbox

-----------------------------------------------------------------------------
(* The process ends and systemd starts it again: statics are rebuilt. *)
Restart ==
  /\ "restart" \in Faults
  /\ refToSegments' = NoSegments
  /\ emailConfig' = "unset"
  /\ message' = NoMessage
  /\ UNCHANGED <<outbox, arrivals, accepted>>

ParsePdu(p) == RejectPdu(p) \/ ParseSingle(p) \/ FileSegment(p)

SendEmail ==
  \/ ConfigThrows
  \/ \E cfg \in {"valid", "invalid"} : SkipIncomplete(cfg) \/ CurlInitFails(cfg)
  \/ LogOnly
  \/ MailSent
  \/ MailFails

Next ==
  \/ \E p \in Pdus : ParsePdu(p)
  \/ SendEmail
  \/ Restart

Spec == Init /\ [][Next]_vars

-----------------------------------------------------------------------------
(* Properties *)

FilledSlots(contents) == {i \in DOMAIN contents : contents[i] # NoText}

(* The refinement mapping: a group is its size and its non-empty slots. *)
Groups ==
  [r \in DOMAIN refToSegments |->
     LET contents == refToSegments[r].contents
     IN  [ count |-> Len(contents),
           parts |-> [i \in FilledSlots(contents) |-> contents[i]] ]]

R == INSTANCE Reassembly WITH groups <- Groups

(* The counter and the vector of slots implement the set of segments held:
   what send_email extracts and relays is always a whole group, and between
   relays a group only grows. *)
ImplementsReassembly == R!Spec

(* send_email decides "complete" by comparing a counter with the vector's
   size.  The counter equals the number of slots that hold a text, whatever
   duplicates and mismatching segments arrived in between. *)
ReceivedIsFilled ==
  \A r \in DOMAIN refToSegments :
    refToSegments[r].received
      = Cardinality(FilledSlots(refToSegments[r].contents))

(* Every piece of a relayed group is the text of a segment the constructor
   accepted, with that reference, that number and that group size: no mail
   has a hole where resize() put an empty string. *)
PartsWereReceived ==
  \A k \in DOMAIN outbox :
    outbox[k].isSegment =>
      \A i \in DOMAIN outbox[k].parts :
        \E p \in Pdus : /\ accepted[p] > 0
                        /\ p.ref = outbox[k].reference
                        /\ p.number = i
                        /\ p.count = Len(outbox[k].parts)
                        /\ p.body = outbox[k].parts[i]

(* A received segment or SMS is relayed at most as often as it was received:
   extracting the group keeps a late duplicate from sending it again.  (The
   PDUs checked have pairwise different non-empty texts.) *)
RelayedNoMoreThanReceived ==
  \A p \in Pdus :
    p.body # NoText =>
      Cardinality({k \in DOMAIN outbox :
                     \E i \in DOMAIN outbox[k].parts :
                       outbox[k].parts[i] = p.body}) <= accepted[p]

(* README.md:9: an SMS that is not part of a long one is relayed. *)
PlainRelayed ==
  message = NoMessage =>
    \A p \in Pdus :
      (~ p.udhi /\ accepted[p] > 0) =>
        \E k \in DOMAIN outbox : outbox[k].parts = <<p.body>>

(* README.md:9 for a long SMS: once all its segments were accepted it is
   relayed, whatever its reference. *)
LongRelayed ==
  message = NoMessage =>
    \A p \in Pdus :
      (/\ p.udhi
       /\ \A i \in 1 .. p.count :
            \E q \in Pdus : /\ accepted[q] > 0
                            /\ q.ref = p.ref
                            /\ q.count = p.count
                            /\ q.number = i)
      => \E k \in DOMAIN outbox :
           \E i \in DOMAIN outbox[k].parts : outbox[k].parts[i] = p.body
=============================================================================
