----------------------------- MODULE PipeMessage ----------------------------
(***************************************************************************)
(* The messages of the command pipe (serial_interface.cpp): operator<< and *)
(* parse.  A text is a sequence of characters; "A" stands for any          *)
(* character that is no digit, semicolon or white space, "NL" for the      *)
(* newline.                                                                *)
(***************************************************************************)
EXTENDS Naturals, Sequences, SequencesExt

Digits == {"1", "2"}

Characters == Digits \cup {"A", ";", "NL"}

(* A message with its type; expected holds the expected respond, if any. *)
Message(type, text, expected) == [type |-> type, text |-> text, expected |-> expected]

(* Mutant of Printed: the expected respond comes first. *)
PrintedSwapped(m) ==
  <<m.type>> \o (IF m.expected = <<>> THEN <<>> ELSE m.expected[1] \o <<";">>) \o m.text

(* The type and the text, without anything that ends it *)
Printed(m) ==
  <<m.type>> \o m.text
    \o (IF m.expected = <<>> THEN <<>> ELSE <<";">> \o m.expected[1])

From(chars, i) == SubSeq(chars, i, Len(chars))

(* What precedes the first character of a set, or everything *)
Before(chars, stop) ==
  LET i == SelectInSeq(chars, LAMBDA c : c \in stop)
  IN  IF i = 0 THEN chars ELSE SubSeq(chars, 1, i - 1)

(* Mutant of After: the character stays in the stream. *)
AfterKept(chars, stop) ==
  LET i == SelectInSeq(chars, LAMBDA c : c \in stop)
  IN  IF i = 0 THEN <<>> ELSE From(chars, i)

After(chars, stop) ==
  LET i == SelectInSeq(chars, LAMBDA c : c \in stop)
  IN  IF i = 0 THEN <<>> ELSE From(chars, i + 1)

(* is >> type skips white space and takes every digit. *)
Number(chars) ==
  LET visible == SelectInSeq(chars, LAMBDA c : c # "NL")
      rest == IF visible = 0 THEN <<>> ELSE From(chars, visible)
  IN  Before(rest, Characters \ Digits)

Body(chars) ==
  LET visible == SelectInSeq(chars, LAMBDA c : c # "NL")
  IN  IF visible = 0 THEN <<>> ELSE From(chars, visible + Len(Number(chars)))

(* get fails at once when nothing follows the type; ch, which nothing has
   written, may then be the semicolon. *)
Commands(body) ==
  LET text == Before(body, {";", "NL"})
      plain == Message("1", text, <<>>)
      expecting == Message("1", text, <<Before(After(body, {";"}), {"NL"})>>)
  IN  CASE body = <<>> -> {plain, expecting}
        [] body # <<>> /\ Len(text) < Len(body) /\ body[Len(text) + 1] = ";"
             -> {expecting}
        [] OTHER -> {plain}

(* What parse may return; nothing when it throws ParserError. *)
Parse(chars) ==
  CASE Number(chars) = <<"1">> -> Commands(Body(chars))
    [] Number(chars) = <<"2">> -> {Message("2", Before(Body(chars), {"NL"}), <<>>)}
    [] OTHER -> {}

(* What it leaves in the stream when it returns *)
Remainder(chars) == After(Body(chars), {"NL"})
=============================================================================
