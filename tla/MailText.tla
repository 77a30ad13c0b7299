------------------------------ MODULE MailText ------------------------------
(***************************************************************************)
(* The text of a mail (sms.cpp): the line ends send_email gives it, and    *)
(* payload_reader, which libcurl calls for one buffer after the other.     *)
(***************************************************************************)
EXTENDS Naturals, Sequences, SequencesExt

(* Mutant of Normalised: last_char is not kept. *)
NormalisedBlindly(text) ==
  FlattenSeq([i \in DOMAIN text |->
    IF text[i] = "LF" THEN <<"CR", "LF">> ELSE <<text[i]>>])

(* A line feed gets a carriage return unless it has one. *)
Normalised(text) ==
  FlattenSeq([i \in DOMAIN text |->
    IF text[i] = "LF" /\ (i = 1 \/ text[i - 1] # "CR")
    THEN <<"CR", "LF">> ELSE <<text[i]>>])

(* Mutant of CopyLen: the buffer is taken to be full every time. *)
CopyLenFull(size, pos, bufferSize) == IF pos > size THEN 0 ELSE bufferSize

(* size() + 1 characters are copied: the string with its final NUL. *)
CopyLen(size, pos, bufferSize) ==
  IF pos > size THEN 0
  ELSE IF size + 1 - pos <= bufferSize THEN size + 1 - pos ELSE bufferSize

(* The string in memory, and whatever lies behind it *)
Memory(data) == data \o <<"NUL">>

(* One call: what has been copied so far, and the position *)
PayloadReader(data, carrier, bufferSize) ==
  LET copyLen == CopyLen(Len(data), carrier.pos, bufferSize)
  IN  [ pos  |-> carrier.pos + copyLen,
        sent |-> carrier.sent
                   \o [k \in 1 .. copyLen |->
                         IF carrier.pos + k <= Len(data) + 1
                         THEN Memory(data)[carrier.pos + k] ELSE "beyond"] ]

(* curl_easy_perform: the body is read into buffers of these sizes. *)
Uploaded(data, buffers) ==
  FoldLeft(LAMBDA carrier, size : PayloadReader(data, carrier, size),
           [pos |-> 0, sent |-> <<>>], buffers)
=============================================================================
