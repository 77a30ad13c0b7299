----------------------------- MODULE Reassembly -----------------------------
(***************************************************************************)
(* What the SMS class promises, without counters, vectors or SMS objects:  *)
(* a group is the set of the segments held for one reference, it can leave *)
(* only as a whole and in order, and only when no segment is missing.      *)
(***************************************************************************)
EXTENDS Naturals, Sequences

CONSTANTS Pdus, Bodies

VARIABLES
  groups,  \* reference -> [count, parts]; parts maps the numbers held to texts
  outbox   \* what left, in the order it left

NoGroups == [r \in {} |-> {}]

Init ==
  /\ groups = NoGroups
  /\ outbox = <<>>

(* The parts of p's group once p has joined it. *)
Joined(p) ==
  IF p.ref \in DOMAIN groups
  THEN LET parts == groups[p.ref].parts
       IN  [i \in DOMAIN parts \cup {p.number} |->
              IF i = p.number THEN p.body ELSE parts[i]]
  ELSE [i \in {p.number} |-> p.body]

(* A segment joins the group of its reference if it agrees on the size. *)
Join(p) ==
  /\ p.ref \in DOMAIN groups => groups[p.ref].count = p.count
  /\ groups' = [r \in DOMAIN groups \cup {p.ref} |->
                  IF r = p.ref
                  THEN [count |-> p.count, parts |-> Joined(p)]
                  ELSE groups[r]]
  /\ UNCHANGED outbox

Whole(r) ==
  DOMAIN groups[r].parts = 1 .. groups[r].count

Without(r) == [q \in DOMAIN groups \ {r} |-> groups[q]]

(* A whole group leaves, by mail or to the log. *)
Release(r, via) ==
  /\ Whole(r)
  /\ groups' = Without(r)
  /\ outbox' = Append(outbox, [ via |-> via, isSegment |-> TRUE,
                                reference |-> r, parts |-> groups[r].parts ])

(* A whole group is handed to the mail server, which refuses it. *)
Lose(r) ==
  /\ Whole(r)
  /\ groups' = Without(r)
  /\ UNCHANGED outbox

(* An SMS that is no segment, and so has reference 0, leaves at once. *)
Single(body, via) ==
  /\ outbox' = Append(outbox, [ via |-> via, isSegment |-> FALSE,
                                reference |-> 0, parts |-> <<body>> ])
  /\ UNCHANGED groups

(* The process ends; nothing survives it. *)
Reset ==
  /\ groups' = NoGroups
  /\ UNCHANGED outbox

Next ==
  \/ \E p \in Pdus : Join(p)
  \/ \E r \in DOMAIN groups :
        Lose(r) \/ \E via \in {"mail", "log"} : Release(r, via)
  \/ \E b \in Bodies, via \in {"mail", "log"} : Single(b, via)
  \/ Reset

Spec == Init /\ [][Next]_<<groups, outbox>>
=============================================================================
