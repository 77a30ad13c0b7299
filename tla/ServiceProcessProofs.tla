------------------------- MODULE ServiceProcessProofs -------------------------
(***************************************************************************)
(* Proofs about ServiceProcess, for any number of signals, starts and      *)
(* losses: its type invariant, that members of a Service are destroyed     *)
(* twice only when two activations had ptr at the same time, and how a     *)
(* process with a daemon thread can end.                                   *)
(***************************************************************************)
EXTENDS ServiceProcess, SequenceTheorems, TLAPS

(* Where the main thread is once m_frontend_thread has the thread *)
WithLoop == {"loop", "command", "send", "exit"}

WithThread == {"call"} \cup WithLoop

Stage(t, i) == stacks[t][i].stage

Sig(t, i) == stacks[t][i].sig

(* The activations on a thread were started by different signals. *)
Nested ==
  \A t \in Threads : \A i, j \in DOMAIN stacks[t] : i # j => Sig(t, i) # Sig(t, j)

(* The static destructor runs at the end of main. *)
AtExit == \A t \in Threads : \A i \in DOMAIN stacks[t] : Sig(t, i) = "exit" => main = "exit"

(* Before ptr is set there is nothing to destroy. *)
NotYet ==
  main \in Construction =>
    /\ ~ ptr
    /\ destroyed = 0
    /\ \A t \in Threads : \A i \in DOMAIN stacks[t] : Stage(t, i) \notin Owning

(* In loop, ptr is set or somebody is in a destructor, which does not return. *)
Loops ==
  main \in WithLoop =>
    ptr \/ \E t \in Threads : \E i \in DOMAIN stacks[t] : Stage(t, i) \in Destroying

Single ==
  \A t, u \in Threads : \A i \in DOMAIN stacks[t], j \in DOMAIN stacks[u] :
    Stage(t, i) \in Owning /\ Stage(u, j) \in Owning => t = u /\ i = j

Untouched ==
  \A t \in Threads : \A i \in DOMAIN stacks[t] :
    Stage(t, i) \in {"clear", "body", "members"} => destroyed = 0

ResetLate ==
  \A t \in Threads : \A i \in DOMAIN stacks[t] :
    Stage(t, i) \in Destroying /\ ptr => Sig(t, i) = "exit"

(* Who may destroy the members is ptr, or one activation, or nobody any more. *)
OneOwner ==
  ~ overlapped =>
    /\ destroyed <= 1
    /\ Single
    /\ Untouched
    /\ ResetLate
    /\ ptr /\ destroyed > 0 => Taken

IInv ==
  /\ TypeOK
  /\ Nested
  /\ AtExit
  /\ NotYet
  /\ Loops
  /\ OneOwner
  /\ joinable <=> main \in WithThread
  /\ EndsByCrash

(* A process that has just been started *)
Fresh ==
  /\ main = "construct" /\ daemon = "none"
  /\ stacks = [t \in Threads |-> <<>>]
  /\ ptr = FALSE /\ joinable = FALSE /\ destroyed = 0 /\ overlapped = FALSE
  /\ ending = "running"
  /\ port = "closed"
  /\ modem \in {"off", "on", "ready"}
  /\ {signals, starts, losses} \subseteq Nat

LEMMA FreshInv == Fresh => IInv
<1> SUFFICES ASSUME Fresh
             PROVE  IInv
  OBVIOUS
<1>1. /\ stacks \in [Threads -> Seq(Activation)]
      /\ \A t \in Threads : Len(stacks[t]) = 0 /\ DOMAIN stacks[t] = {}
  BY EmptySeq DEF Fresh
<1>2. main \in Construction /\ main \notin WithThread /\ main \notin WithLoop
      /\ main # "exit"
  BY DEF Fresh, Construction, WithThread, WithLoop
<1>3. {ptr, joinable, overlapped} \subseteq BOOLEAN /\ ending \in Endings
  BY DEF Fresh, Endings
<1>4. TypeOK
  BY <1>1, <1>2, <1>3 DEF TypeOK, Fresh
<1>5. Nested /\ AtExit /\ NotYet /\ Loops /\ OneOwner
  BY <1>1, <1>2 DEF Nested, AtExit, NotYet, Loops, OneOwner, Single, Untouched, ResetLate, Fresh
<1>6. QED
  BY <1>2, <1>4, <1>5 DEF IInv, EndsByCrash, Fresh

LEMMA InvInit == Init => IInv
<1>1. Init => Fresh
  BY DEF Init, Fresh
<1>2. QED
  BY <1>1, FreshInv

-----------------------------------------------------------------------------
(* What the steps do to the stacks *)

LEMMA StackType ==
  ASSUME TypeOK, NEW t \in Threads
  PROVE  /\ stacks[t] \in Seq(Activation)
         /\ Len(stacks[t]) \in Nat /\ Len(stacks[t]) <= 3
         /\ DOMAIN stacks[t] = 1 .. Len(stacks[t])
         /\ \A i \in DOMAIN stacks[t] : stacks[t][i] \in Activation
         /\ stacks[t] # <<>> => Len(stacks[t]) \in DOMAIN stacks[t]
<1>1. stacks[t] \in Seq(Activation) /\ Len(stacks[t]) <= 3
  BY DEF TypeOK
<1>2. Len(stacks[t]) \in Nat /\ DOMAIN stacks[t] = 1 .. Len(stacks[t])
  BY <1>1, LenProperties
<1>3. stacks[t] # <<>> => Len(stacks[t]) # 0
  BY <1>1, EmptySeq
<1>4. QED
  BY <1>1, <1>2, <1>3, ElementOfSeq

(* A new activation on top *)
LEMMA PushFacts ==
  ASSUME TypeOK, NEW t \in Threads, NEW a \in Activation,
         stacks' = [stacks EXCEPT ![t] = Append(@, a)]
  PROVE  /\ stacks' \in [Threads -> Seq(Activation)]
         /\ Len(stacks'[t]) = Len(stacks[t]) + 1
         /\ DOMAIN stacks'[t] = 1 .. Len(stacks[t]) + 1
         /\ \A i \in DOMAIN stacks[t] : i \in DOMAIN stacks'[t] /\ stacks'[t][i] = stacks[t][i]
         /\ \A i \in DOMAIN stacks'[t] :
              \/ i \in DOMAIN stacks[t]
              \/ i = Len(stacks[t]) + 1 /\ stacks'[t][i] = a
         /\ \A u \in Threads \ {t} : stacks'[u] = stacks[u]
<1> DEFINE s == stacks[t]
           p == Append(s, a)
<1>1. s \in Seq(Activation) /\ Len(s) \in Nat /\ DOMAIN s = 1 .. Len(s)
  BY StackType
<1>2. /\ p \in Seq(Activation) /\ Len(p) = Len(s) + 1
      /\ \A i \in 1 .. Len(s) : p[i] = s[i]
      /\ p[Len(s) + 1] = a
  BY <1>1, AppendProperties
<1>3. DOMAIN p = 1 .. Len(s) + 1
  BY <1>2, LenProperties
<1> HIDE DEF p
<1>4. stacks' = [stacks EXCEPT ![t] = p] /\ stacks \in [Threads -> Seq(Activation)]
  BY DEF p, TypeOK
<1>5. stacks'[t] = p /\ stacks' \in [Threads -> Seq(Activation)]
      /\ \A u \in Threads \ {t} : stacks'[u] = stacks[u]
  BY <1>2, <1>4
<1>6. QED
  BY <1>1, <1>2, <1>3, <1>5

(* The activation on top goes on. *)
LEMMA StageFacts ==
  ASSUME TypeOK, NEW t \in Threads, NEW from, NEW to \in {"print", "return"} \cup Owning,
         ToStage(t, from, to)
  PROVE  /\ stacks' \in [Threads -> Seq(Activation)]
         /\ \A u \in Threads : /\ Len(stacks'[u]) = Len(stacks[u])
                               /\ DOMAIN stacks'[u] = DOMAIN stacks[u]
         /\ \A u \in Threads : \A i \in DOMAIN stacks[u] :
              /\ stacks'[u][i].sig = stacks[u][i].sig
              /\ stacks'[u][i].stage =
                   IF u = t /\ i = Len(stacks[t]) THEN to ELSE stacks[u][i].stage
         /\ Len(stacks[t]) \in DOMAIN stacks[t]
         /\ stacks[t][Len(stacks[t])].stage = from
<1> DEFINE s == stacks[t]
           n == Len(s)
           top == [s[n] EXCEPT !.stage = to]
           p == [s EXCEPT ![n] = top]
<1>1. /\ s \in Seq(Activation) /\ n \in Nat /\ DOMAIN s = 1 .. n /\ n \in DOMAIN s
      /\ s[n] \in Activation /\ s[n].stage = from
  BY StackType DEF ToStage, At, Top
<1>2. top \in Activation /\ top.sig = s[n].sig /\ top.stage = to
  BY <1>1 DEF Activation
<1>3. stacks' = [stacks EXCEPT ![t] = p] /\ stacks \in [Threads -> Seq(Activation)]
  BY Zenon DEF ToStage, TypeOK
<1> HIDE DEF top
<1>4. /\ p \in Seq(Activation) /\ Len(p) = n /\ DOMAIN p = DOMAIN s
      /\ p[n] = top /\ \A i \in DOMAIN s : i # n => p[i] = s[i]
  <2>1. p \in [1 .. n -> Activation]
    <3>1. s \in [1 .. n -> Activation]
      BY <1>1, LenProperties
    <3>2. QED
      BY <1>2, <3>1
  <2>2. p \in Seq(Activation)
    BY <1>1, <2>1, SeqDef
  <2>3. DOMAIN p = 1 .. Len(p) /\ DOMAIN p = 1 .. n /\ Len(p) \in Nat
    BY <2>1, <2>2, LenProperties
  <2>4. Len(p) = n
    BY <1>1, <2>3
  <2>5. QED
    BY <1>1, <2>2, <2>3, <2>4
<1> HIDE DEF p
<1>5. /\ stacks'[t] = p /\ stacks' \in [Threads -> Seq(Activation)]
      /\ \A u \in Threads : u # t => stacks'[u] = stacks[u]
  BY <1>3, <1>4
<1>6. \A u \in Threads : \A i \in DOMAIN stacks[u] :
        /\ stacks'[u][i].sig = stacks[u][i].sig
        /\ stacks'[u][i].stage = IF u = t /\ i = n THEN to ELSE stacks[u][i].stage
  BY <1>2, <1>4, <1>5
<1>7. QED
  BY <1>1, <1>4, <1>5, <1>6

(* The activation on top is finished. *)
LEMMA PopFacts ==
  ASSUME TypeOK, NEW t \in Threads, stacks[t] # <<>>, Pop(t)
  PROVE  /\ stacks' \in [Threads -> Seq(Activation)]
         /\ \A u \in Threads : Len(stacks'[u]) <= Len(stacks[u])
         /\ \A u \in Threads : \A i \in DOMAIN stacks'[u] :
              i \in DOMAIN stacks[u] /\ stacks'[u][i] = stacks[u][i]
         /\ \A u \in Threads : \A i \in DOMAIN stacks[u] :
              i \in DOMAIN stacks'[u] \/ (u = t /\ i = Len(stacks[t]))
         /\ Len(stacks[t]) \notin DOMAIN stacks'[t]
<1> DEFINE s == stacks[t]
           n == Len(s)
           p == SubSeq(s, 1, n - 1)
<1>1. /\ s \in Seq(Activation) /\ n \in Nat /\ DOMAIN s = 1 .. n /\ n \in DOMAIN s
      /\ \A i \in DOMAIN s : s[i] \in Activation
  BY StackType
<1>2. p = [i \in 1 .. n - 1 |-> s[i]]
  BY <1>1
<1>3. p \in [1 .. n - 1 -> Activation] /\ n - 1 \in Nat
  <2>1. n - 1 \in Nat /\ \A i \in 1 .. n - 1 : s[i] \in Activation
    BY <1>1
  <2> HIDE DEF p
  <2>2. QED
    BY <1>2, <2>1
<1>4. p \in Seq(Activation)
  BY <1>3, SeqDef
<1>5. /\ DOMAIN p = 1 .. n - 1 /\ Len(p) \in Nat /\ DOMAIN p = 1 .. Len(p)
      /\ \A i \in 1 .. n - 1 : p[i] = s[i]
  BY <1>2, <1>4, LenProperties
<1>6. Len(p) = n - 1
  BY <1>3, <1>5
<1>7. stacks' = [stacks EXCEPT ![t] = p] /\ stacks \in [Threads -> Seq(Activation)]
  BY DEF Pop, TypeOK
<1> HIDE DEF p
<1>8. /\ stacks'[t] = p /\ stacks' \in [Threads -> Seq(Activation)]
      /\ \A u \in Threads : u # t => stacks'[u] = stacks[u]
  BY <1>4, <1>7
<1>9. \A u \in Threads : Len(stacks[u]) \in Nat
  BY StackType
<1>10. QED
  BY <1>1, <1>5, <1>6, <1>8, <1>9
-----------------------------------------------------------------------------
(* Steps that leave the stacks alone *)

LEMMA SameStacks ==
  ASSUME UNCHANGED stacks
  PROVE  /\ \A t, i : Sig(t, i)' = Sig(t, i) /\ Stage(t, i)' = Stage(t, i)
         /\ Taken' = Taken
  BY DEF Sig, Stage, Taken

(* Steps that leave ptr, its history and ending alone as well, and keep
   joinable in step with where the main thread is *)
LEMMA QuietStep ==
  ASSUME IInv,
         UNCHANGED <<stacks, objectVars, ending>>,
         main' \in Construction \cup Published,
         main' \in Construction => main \in Construction,
         main' \in WithThread <=> main \in WithThread,
         main' \in WithLoop => main \in WithLoop \/ ptr,
         main = "exit" => main' = "exit",
         daemon' \in {"none", "alive", "over"},
         port' \in {"closed", "open", "lost"},
         modem' \in {"off", "on", "ready"},
         {signals', starts', losses'} \subseteq Nat
  PROVE  IInv'
<1>1. TypeOK'
  BY DEF IInv, TypeOK, objectVars
<1>2. Nested' /\ AtExit' /\ NotYet' /\ OneOwner'
  BY SameStacks DEF IInv, Nested, AtExit, NotYet, OneOwner, Single, Untouched, ResetLate, objectVars
<1>3. Loops'
  BY SameStacks DEF IInv, Loops, objectVars
<1>4. EndsByCrash' /\ (joinable' <=> main' \in WithThread)
  BY DEF IInv, EndsByCrash, objectVars
<1>5. QED
  BY <1>1, <1>2, <1>3, <1>4 DEF IInv

(* The end of the process *)
LEMMA EndStep ==
  ASSUME IInv, NEW how \in Endings, Ends(how),
         how = "zero" => \E i \in DOMAIN stacks["daemon"] : Stage("daemon", i) \in Destroying,
         how # "running", how # "failure" \/ main \in Construction
  PROVE  IInv'
<1>1. UNCHANGED <<main, daemon, stacks, objectVars, worldVars>> /\ ending' = how
  BY DEF Ends
<1>2. TypeOK'
  BY <1>1 DEF IInv, TypeOK, objectVars, worldVars
<1>3. Nested' /\ AtExit' /\ NotYet' /\ OneOwner' /\ Loops'
  BY <1>1, SameStacks DEF IInv, Nested, AtExit, NotYet, OneOwner, Single, Untouched, ResetLate, Loops, objectVars
<1>4. joinable' <=> main' \in WithThread
  BY <1>1 DEF IInv, objectVars
<1>5. EndsByCrash'
  BY <1>1
     DEF IInv, EndsByCrash, objectVars, Stage, Endings, WithThread, WithLoop, Construction
<1>6. QED
  BY <1>2, <1>3, <1>4, <1>5 DEF IInv

LEMMA PublishStep == IInv /\ Publish => IInv'
<1> SUFFICES ASSUME IInv, Publish
             PROVE  IInv'
  OBVIOUS
<1>1. /\ main = "publish" /\ main' = "enter" /\ ending = "running" /\ ending' = "running"
      /\ ptr' = TRUE
      /\ UNCHANGED <<stacks, daemon, joinable, destroyed, overlapped, worldVars>>
  BY DEF Publish, Goto, MainAt, Free, Running
<1>2. /\ destroyed = 0
      /\ \A t \in Threads : \A i \in DOMAIN stacks[t] : Stage(t, i) \notin Owning
  BY <1>1 DEF IInv, NotYet, Construction
<1>3. TypeOK'
  BY <1>1 DEF IInv, TypeOK, worldVars, Published
<1>4. Nested' /\ AtExit' /\ NotYet' /\ Loops'
  BY <1>1, SameStacks
     DEF IInv, Nested, AtExit, NotYet, Loops, Construction, WithLoop
<1>5. OneOwner'
  BY <1>1, <1>2, SameStacks DEF OneOwner, Single, Untouched, ResetLate, Owning, Destroying
<1>6. EndsByCrash' /\ (joinable' <=> main' \in WithThread)
  BY <1>1 DEF IInv, EndsByCrash, WithThread, WithLoop
<1>7. QED
  BY <1>3, <1>4, <1>5, <1>6 DEF IInv

LEMMA KeepStep == IInv /\ KeepThread => IInv'
<1> SUFFICES ASSUME IInv, KeepThread
             PROVE  IInv'
  OBVIOUS
<1>1. /\ main = "keep" /\ main' = "call" /\ ending = "running" /\ ending' = "running"
      /\ joinable' = TRUE
      /\ UNCHANGED <<stacks, daemon, ptr, destroyed, overlapped, worldVars>>
  BY DEF KeepThread, Goto, MainAt, Free, Running
<1>2. TypeOK'
  BY <1>1 DEF IInv, TypeOK, worldVars, Published
<1>3. Nested' /\ AtExit' /\ NotYet' /\ Loops' /\ OneOwner'
  BY <1>1, SameStacks
     DEF IInv, Nested, AtExit, NotYet, Loops, OneOwner, Single, Untouched, ResetLate, Construction, WithLoop
<1>4. EndsByCrash' /\ (joinable' <=> main' \in WithThread)
  BY <1>1 DEF IInv, EndsByCrash, WithThread
<1>5. QED
  BY <1>2, <1>3, <1>4 DEF IInv

-----------------------------------------------------------------------------
(* A handler starts. *)
LEMMA HandleStep ==
  ASSUME IInv, NEW t \in Threads, NEW sig \in Signals, NEW sync \in BOOLEAN,
         ~ Blocks(t, sig), Handle(t, sig, sync), signals' \in Nat
  PROVE  IInv'
<1> DEFINE a == [sig |-> sig, sync |-> sync, stage |-> "print"]
<1>1. a \in Activation /\ a.sig = sig /\ a.stage = "print"
  BY DEF Activation
<1>2. /\ stacks' = [stacks EXCEPT ![t] = Append(@, a)]
      /\ UNCHANGED <<main, daemon, objectVars, ending, port, modem, starts, losses>>
      /\ ending = "running"
  BY DEF Handle, Running
<1> HIDE DEF a
<1>3. TypeOK
  BY DEF IInv
<1> DEFINE n == Len(stacks[t])
<1>4. /\ stacks' \in [Threads -> Seq(Activation)]
      /\ Len(stacks'[t]) = n + 1
      /\ \A i \in DOMAIN stacks[t] : i \in DOMAIN stacks'[t] /\ stacks'[t][i] = stacks[t][i]
      /\ \A i \in DOMAIN stacks'[t] :
           i \in DOMAIN stacks[t] \/ (i = n + 1 /\ stacks'[t][i] = a)
      /\ \A u \in Threads : u # t => stacks'[u] = stacks[u]
  <2>1. stacks' = [stacks EXCEPT ![t] = Append(@, a)] /\ a \in Activation
    BY <1>1, <1>2
  <2>2. /\ stacks' \in [Threads -> Seq(Activation)]
        /\ Len(stacks'[t]) = Len(stacks[t]) + 1
        /\ DOMAIN stacks'[t] = 1 .. Len(stacks[t]) + 1
        /\ \A i \in DOMAIN stacks[t] : i \in DOMAIN stacks'[t] /\ stacks'[t][i] = stacks[t][i]
        /\ \A i \in DOMAIN stacks'[t] :
             \/ i \in DOMAIN stacks[t]
             \/ i = Len(stacks[t]) + 1 /\ stacks'[t][i] = a
        /\ \A u \in Threads \ {t} : stacks'[u] = stacks[u]
    BY <1>3, <2>1, PushFacts, Zenon
  <2>3. QED
    BY <2>2
<1>5. \A i \in DOMAIN stacks[t] : stacks[t][i].sig # sig
  BY DEF Blocks
<1>6. Nested'
  BY <1>1, <1>4, <1>5 DEF IInv, Nested, Sig
<1>7. \A u \in Threads : Len(stacks'[u]) <= 3
  <2>1. n # 3
    <3>1. SUFFICES ASSUME n = 3
                   PROVE  FALSE
      OBVIOUS
    <3>2. 1 \in DOMAIN stacks[t] /\ 2 \in DOMAIN stacks[t] /\ 3 \in DOMAIN stacks[t]
      BY <1>3, <3>1, StackType
    <3>3. /\ stacks[t][1].sig # stacks[t][2].sig
          /\ stacks[t][1].sig # stacks[t][3].sig
          /\ stacks[t][2].sig # stacks[t][3].sig
      BY <3>2 DEF IInv, Nested, Sig
    <3>4. \A i \in {1, 2, 3} : stacks[t][i].sig \in {"SIGINT", "SIGTERM", "exit"} \ {sig}
      BY <1>3, <1>5, <3>2, StackType DEF Activation, Signals
    <3>5. QED
      BY <3>3, <3>4 DEF Signals
  <2>2. \A u \in Threads : Len(stacks[u]) \in Nat /\ Len(stacks[u]) <= 3
    BY <1>3, StackType
  <2>3. n + 1 <= 3
    <3>1. n \in Nat /\ n <= 3
      BY <2>2
    <3>2. \A k \in Nat : k <= 3 /\ k # 3 => k + 1 <= 3
      OBVIOUS
    <3>3. QED
      BY <2>1, <3>1, <3>2, Zenon
  <2>4. QED
    BY <1>4, <2>2, <2>3
<1>8. TypeOK'
  BY <1>2, <1>3, <1>4, <1>7 DEF TypeOK, objectVars
<1>9. \A u \in Threads : \A i \in DOMAIN stacks'[u] :
        \/ i \in DOMAIN stacks[u] /\ stacks'[u][i] = stacks[u][i]
        \/ stacks'[u][i].sig # "exit" /\ stacks'[u][i].stage = "print"
  BY <1>1, <1>4 DEF Signals
<1>10. \A u \in Threads : \A i \in DOMAIN stacks[u] :
         i \in DOMAIN stacks'[u] /\ stacks'[u][i] = stacks[u][i]
  BY <1>4
<1>11. AtExit' /\ NotYet'
  BY <1>2, <1>9 DEF IInv, AtExit, NotYet, Sig, Stage, objectVars, Owning, Destroying
<1>12. Loops'
  BY <1>2, <1>10 DEF IInv, Loops, Stage, objectVars
<1>13. OneOwner'
  <2>1. \A u \in Threads : \A i \in DOMAIN stacks'[u] :
          stacks'[u][i].stage \in Owning => i \in DOMAIN stacks[u] /\ stacks'[u][i] = stacks[u][i]
    BY <1>9 DEF Owning, Destroying
  <2>2. Taken => Taken'
    BY <1>10 DEF Taken
  <2>3. QED
    BY <1>2, <2>1, <2>2 DEF IInv, OneOwner, Single, Untouched, ResetLate, Sig, Stage, objectVars, Owning, Destroying
<1>14. EndsByCrash' /\ (joinable' <=> main' \in WithThread)
  BY <1>2 DEF IInv, EndsByCrash, objectVars
<1>15. QED
  BY <1>6, <1>8, <1>11, <1>12, <1>13, <1>14 DEF IInv

(* The static destructor takes ptr. *)
LEMMA StaticStep == IInv /\ StaticDestructors => IInv'
<1> SUFFICES ASSUME IInv, StaticDestructors
             PROVE  IInv'
  OBVIOUS
<1> DEFINE a == [sig |-> "exit", sync |-> TRUE, stage |-> "body"]
<1>1. a \in Activation /\ a.sig = "exit" /\ a.stage = "body"
  BY DEF Activation, Owning, Destroying
<1>2. /\ main = "exit" /\ stacks["main"] = <<>> /\ ptr /\ ending = "running"
      /\ stacks' = [stacks EXCEPT !["main"] = <<a>>]
      /\ overlapped' = (overlapped \/ Taken)
      /\ UNCHANGED <<main, daemon, ptr, joinable, destroyed, ending, worldVars>>
  BY DEF StaticDestructors, MainAt, Free, Running
<1>3. TypeOK /\ "main" \in Threads
  BY DEF IInv, Threads
<1> HIDE DEF a
<1>4. /\ <<a>> \in Seq(Activation) /\ Len(<<a>>) = 1 /\ <<a>>[1] = a
      /\ DOMAIN <<a>> = {1}
  BY <1>1
<1>5. /\ stacks' \in [Threads -> Seq(Activation)]
      /\ Len(stacks'["main"]) = 1
      /\ DOMAIN stacks'["main"] = {1}
      /\ stacks'["main"][1] = a
      /\ \A u \in Threads : u # "main" => stacks'[u] = stacks[u]
  <2> DEFINE q == <<a>>
  <2> HIDE DEF q
  <2>1. q \in Seq(Activation) /\ Len(q) = 1 /\ q[1] = a /\ DOMAIN q = {1}
    BY <1>4 DEF q
  <2>2. stacks' = [stacks EXCEPT !["main"] = q] /\ stacks \in [Threads -> Seq(Activation)]
    BY <1>2, <1>3 DEF q, TypeOK
  <2>3. QED
    BY <1>3, <2>1, <2>2
<1>6. TypeOK'
  BY <1>2, <1>3, <1>5 DEF TypeOK, worldVars
<1>7. Nested' /\ AtExit'
  BY <1>2, <1>5 DEF IInv, Nested, AtExit, Sig
<1>8. NotYet' /\ Loops'
  <2>1. Stage("main", 1)' \in Destroying
    BY <1>1, <1>5 DEF Stage, Destroying
  <2>2. QED
    BY <1>2, <1>3, <1>5, <2>1 DEF NotYet, Loops, Construction
<1>9. OneOwner'
  <2>1. SUFFICES ASSUME ~ overlapped, ~ Taken
                 PROVE  OneOwner'
    BY <1>2 DEF OneOwner, Single, Untouched, ResetLate
  <2>2. \A t \in Threads : \A i \in DOMAIN stacks[t] : Stage(t, i) \notin Owning
    BY <2>1 DEF Taken, Stage
  <2>3. destroyed = 0
    BY <1>2, <1>3, <2>1 DEF IInv, OneOwner, Single, Untouched, ResetLate, TypeOK
  <2>4. \A t \in Threads : \A i \in DOMAIN stacks'[t] :
          \/ t = "main" /\ i = 1 /\ stacks'[t][i] = a
          \/ stacks'[t][i].stage \notin Owning
    BY <1>5, <2>2 DEF Stage
  <2>5. QED
    BY <1>1, <1>2, <2>3, <2>4 DEF OneOwner, Single, Untouched, ResetLate, Sig, Stage, Owning, Destroying
<1>10. EndsByCrash' /\ (joinable' <=> main' \in WithThread)
  BY <1>2 DEF IInv, EndsByCrash
<1>11. QED
  BY <1>6, <1>7, <1>8, <1>9, <1>10 DEF IInv

-----------------------------------------------------------------------------
(* The activation on top goes on: what does not depend on its stages *)
LEMMA StageKeeps ==
  ASSUME IInv, NEW t \in Threads, NEW from, NEW to \in {"print", "return"} \cup Owning,
         ToStage(t, from, to),
         {ptr', joinable', overlapped'} \subseteq BOOLEAN, destroyed' \in Nat,
         port' \in {"closed", "open", "lost"},
         UNCHANGED <<joinable, modem, signals, starts, losses>>
  PROVE  /\ TypeOK' /\ Nested' /\ AtExit' /\ EndsByCrash'
         /\ joinable' <=> main' \in WithThread
<1>1. TypeOK
  BY DEF IInv
<1>2. UNCHANGED <<main, daemon, ending>> /\ ending = "running"
  BY DEF ToStage, At, Running
<1>3. TypeOK'
  BY <1>1, <1>2, StageFacts DEF TypeOK
<1>4. Nested' /\ AtExit'
  BY <1>1, <1>2, StageFacts DEF IInv, Nested, AtExit, Sig
<1>5. QED
  BY <1>2, <1>3, <1>4 DEF IInv, EndsByCrash

(* The other conjuncts for each stage; the activation on top is number n. *)
LEMMA StageLoops ==
  ASSUME IInv, NEW t \in Threads, NEW from, NEW to \in {"print", "return"} \cup Owning,
         ToStage(t, from, to),
         from \in Destroying => to \in Destroying,
         ptr' = ptr \/ to \in Destroying
  PROVE  Loops'
<1>1. TypeOK /\ UNCHANGED main
  BY DEF IInv, ToStage
<1>2. Len(stacks[t]) \in DOMAIN stacks'[t] /\ stacks'[t][Len(stacks[t])].stage = to
  BY <1>1, StageFacts
<1>3. CASE to \in Destroying
  BY <1>2, <1>3 DEF Loops, Stage
<1>4. CASE to \notin Destroying
  <2>1. \A u \in Threads : \A i \in DOMAIN stacks[u] :
          stacks[u][i].stage \in Destroying
            => i \in DOMAIN stacks'[u] /\ stacks'[u][i].stage = stacks[u][i].stage
    BY <1>1, <1>4, StageFacts
  <2>2. QED
    BY <1>1, <1>4, <2>1 DEF IInv, Loops, Stage
<1>5. QED
  BY <1>3, <1>4

LEMMA ReadStep ==
  ASSUME IInv, NEW t \in Threads, Read(t)
  PROVE  IInv'
<1> DEFINE to == IF ptr THEN "clear" ELSE "return"
           n == Len(stacks[t])
<1>1. /\ ToStage(t, "print", to) /\ to \in {"print", "return"} \cup Owning
      /\ overlapped' = (overlapped \/ (ptr /\ Taken))
      /\ UNCHANGED <<main, ptr, joinable, destroyed, worldVars>>
  BY DEF Read, ToStage, Owning
<1>2. TypeOK /\ {ptr, joinable, overlapped'} \subseteq BOOLEAN
  BY <1>1 DEF IInv, TypeOK
<1>3. TypeOK' /\ Nested' /\ AtExit' /\ EndsByCrash' /\ (joinable' <=> main' \in WithThread)
  BY <1>1, <1>2, StageKeeps DEF TypeOK, worldVars
<1>4. Loops'
  BY <1>1, StageLoops DEF Destroying
<1> HIDE DEF to
<1>5. /\ \A u \in Threads : DOMAIN stacks'[u] = DOMAIN stacks[u]
      /\ \A u \in Threads : \A i \in DOMAIN stacks[u] :
           /\ stacks'[u][i].sig = stacks[u][i].sig
           /\ stacks'[u][i].stage = IF u = t /\ i = n THEN to ELSE stacks[u][i].stage
      /\ n \in DOMAIN stacks[t] /\ stacks[t][n].stage = "print"
  BY <1>1, <1>2, StageFacts
<1>6. (to = "clear" /\ ptr) \/ (to = "return" /\ ~ ptr)
  BY DEF to
<1>7. NotYet'
  BY <1>1, <1>5, <1>6 DEF IInv, NotYet, Stage, Owning, Destroying
<1>8. CASE ptr
  <2>1. SUFFICES ASSUME ~ overlapped, ~ Taken
                 PROVE  OneOwner'
    BY <1>1, <1>3, <1>4, <1>7, <1>8 DEF IInv, OneOwner, Single, Untouched, ResetLate
  <2>2. \A u \in Threads : \A i \in DOMAIN stacks[u] : stacks[u][i].stage \notin Owning
    BY <2>1 DEF Taken
  <2>3. destroyed = 0
    BY <1>2, <1>8, <2>1 DEF IInv, OneOwner, Single, Untouched, ResetLate, TypeOK
  <2>4. \A u \in Threads : \A i \in DOMAIN stacks'[u] :
          (u = t /\ i = n /\ stacks'[u][i].stage = "clear") \/ stacks'[u][i].stage \notin Owning
    BY <1>5, <1>6, <1>8, <2>2
  <2>5. QED
    BY <1>1, <2>3, <2>4 DEF OneOwner, Single, Untouched, ResetLate, Stage, Owning, Destroying
<1>9. CASE ~ ptr
  <2>1. \A u \in Threads : \A i \in DOMAIN stacks'[u] :
          stacks'[u][i].stage \in Owning
            => i \in DOMAIN stacks[u] /\ stacks'[u][i].stage = stacks[u][i].stage
               /\ stacks'[u][i].sig = stacks[u][i].sig
    BY <1>5, <1>6, <1>9 DEF Owning, Destroying
  <2>2. ~ overlapped /\ Single => Single'
    BY <2>1 DEF Single, Stage
  <2>3. Untouched => Untouched'
    BY <1>1, <2>1 DEF Untouched, Stage, Owning, Destroying
  <2>4. ResetLate' /\ ~ ptr'
    BY <1>1, <1>9 DEF ResetLate
  <2>5. overlapped' <=> overlapped
    BY <1>1, <1>9, Zenon
  <2>6. OneOwner'
    BY <1>1, <2>2, <2>3, <2>4, <2>5 DEF IInv, OneOwner
  <2>7. QED
    BY <1>3, <1>4, <1>7, <2>6 DEF IInv
<1>10. QED
  BY <1>8, <1>9

(* The owner goes on: it is the same activation before and after. *)
LEMMA OwnerStep ==
  ASSUME IInv, NEW t \in Threads, NEW from \in Owning, NEW to \in Destroying,
         ToStage(t, from, to),
         ptr' \in BOOLEAN, ptr' => ptr,
         ptr' /\ from = "clear" => FALSE,
         destroyed' \in Nat,
         IF from = "members" /\ to = "thread" THEN destroyed' = destroyed + 1
                                              ELSE destroyed' = destroyed,
         to \in {"body", "members"} => from \in {"clear", "body"},
         from = "thread" => to = "hung",
         port' \in {"closed", "open", "lost"},
         UNCHANGED <<joinable, overlapped, modem, signals, starts, losses>>
  PROVE  IInv'
<1> DEFINE n == Len(stacks[t])
<1>1. TypeOK /\ {ptr', joinable', overlapped'} \subseteq BOOLEAN
      /\ to \in {"print", "return"} \cup Owning /\ UNCHANGED main
  BY DEF IInv, TypeOK, Owning, ToStage
<1>2. TypeOK' /\ Nested' /\ AtExit' /\ EndsByCrash' /\ (joinable' <=> main' \in WithThread)
  BY <1>1, StageKeeps
<1>3. Loops'
  BY <1>1, StageLoops
<1>4. /\ \A u \in Threads : DOMAIN stacks'[u] = DOMAIN stacks[u]
      /\ \A u \in Threads : \A i \in DOMAIN stacks[u] :
           /\ stacks'[u][i].sig = stacks[u][i].sig
           /\ stacks'[u][i].stage = IF u = t /\ i = n THEN to ELSE stacks[u][i].stage
      /\ n \in DOMAIN stacks[t] /\ stacks[t][n].stage = from
  BY <1>1, StageFacts
<1>5. NotYet'
  BY <1>1, <1>4 DEF IInv, NotYet, Stage
<1>6. OneOwner'
  <2>1. SUFFICES ASSUME ~ overlapped
                 PROVE  OneOwner'
    BY DEF OneOwner, Single, Untouched, ResetLate
  <2>2. \A u \in Threads : \A i \in DOMAIN stacks[u] :
          stacks[u][i].stage \in Owning => u = t /\ i = n
    BY <1>4, <2>1 DEF IInv, OneOwner, Single, Untouched, ResetLate, Stage
  <2>3. \A u \in Threads : \A i \in DOMAIN stacks'[u] :
          stacks'[u][i].stage \in Owning => u = t /\ i = n
    BY <1>4, <2>2
  <2>4. /\ from \in {"clear", "body", "members"} => destroyed = 0
        /\ from \in Destroying /\ ptr => stacks[t][n].sig = "exit"
        /\ destroyed <= 1
    BY <1>4, <2>1 DEF IInv, OneOwner, Single, Untouched, ResetLate, Stage, Sig
  <2>5. destroyed' <= 1 /\ (to \in {"clear", "body", "members"} => destroyed' = 0)
    BY <2>4 DEF Destroying
  <2>6. ptr' => stacks'[t][n].sig = "exit"
    BY <1>4, <2>4 DEF Owning
  <2>7. Taken'
    BY <1>1, <1>4 DEF Taken, Owning
  <2>8. stacks'[t][n].stage = to
    BY <1>4
  <2>9. Single'
    BY <2>3 DEF Single, Stage
  <2>10. Untouched'
    BY <2>3, <2>5, <2>8 DEF Untouched, Stage, Owning, Destroying
  <2>11. ResetLate'
    BY <2>3, <2>6 DEF ResetLate, Stage, Sig, Owning
  <2>12. QED
    BY <2>5, <2>7, <2>9, <2>10, <2>11 DEF OneOwner
<1>7. QED
  BY <1>2, <1>3, <1>5, <1>6 DEF IInv

(* A finished activation leaves its thread. *)
LEMMA PopStep ==
  ASSUME IInv, NEW t \in Threads, stacks[t] # <<>>, Pop(t), Running,
         \/ stacks[t][Len(stacks[t])].stage = "return"
         \/ stacks[t][Len(stacks[t])].stage = "thread" /\ ~ joinable
  PROVE  IInv'
<1> DEFINE n == Len(stacks[t])
<1>1. TypeOK /\ UNCHANGED <<main, daemon, objectVars, ending, worldVars>>
      /\ ending = "running"
  BY DEF IInv, Pop, Running
<1>2. /\ stacks' \in [Threads -> Seq(Activation)]
      /\ \A u \in Threads : Len(stacks'[u]) <= Len(stacks[u])
      /\ \A u \in Threads : \A i \in DOMAIN stacks'[u] :
           i \in DOMAIN stacks[u] /\ stacks'[u][i] = stacks[u][i]
      /\ \A u \in Threads : \A i \in DOMAIN stacks[u] :
           i \in DOMAIN stacks'[u] \/ (u = t /\ i = n)
      /\ n \in DOMAIN stacks[t]
  BY <1>1, PopFacts, StackType
<1>3. TypeOK'
  <2>1. \A u \in Threads : Len(stacks'[u]) <= 3
    <3>1. \A u \in Threads : Len(stacks'[u]) \in Nat
      BY <1>2, LenProperties
    <3>2. \A u \in Threads : Len(stacks[u]) \in Nat /\ Len(stacks[u]) <= 3
      BY <1>1, StackType
    <3>3. QED
      BY <1>2, <3>1, <3>2
  <2>2. QED
    BY <1>1, <1>2, <2>1 DEF TypeOK, objectVars, worldVars
<1>4. Nested' /\ AtExit' /\ NotYet'
  BY <1>1, <1>2 DEF IInv, Nested, AtExit, NotYet, Sig, Stage, objectVars
<1>5. Loops'
  <2>1. SUFFICES ASSUME main \in WithLoop, ~ ptr
                 PROVE  \E u \in Threads : \E i \in DOMAIN stacks'[u] :
                          stacks'[u][i].stage \in Destroying
    BY <1>1 DEF Loops, Stage, objectVars
  <2>2. PICK u \in Threads : \E i \in DOMAIN stacks[u] : stacks[u][i].stage \in Destroying
    BY <2>1 DEF IInv, Loops, Stage
  <2> PICK i \in DOMAIN stacks[u] : stacks[u][i].stage \in Destroying
    BY <2>2
  <2>3. stacks[t][n].stage = "return"
    BY <2>1 DEF IInv, WithThread
  <2>4. i \in DOMAIN stacks'[u] /\ stacks'[u][i] = stacks[u][i]
    BY <1>2, <2>2, <2>3 DEF Destroying
  <2>5. QED
    BY <2>2, <2>4
<1>6. OneOwner'
  <2>1. SUFFICES ASSUME ~ overlapped
                 PROVE  OneOwner'
    BY <1>1 DEF OneOwner, Single, Untouched, ResetLate, objectVars
  <2>2. ASSUME ptr, destroyed > 0
        PROVE  Taken'
    <3>0. PICK u \in Threads : \E i \in DOMAIN stacks[u] : stacks[u][i].stage \in Owning
      BY <2>1, <2>2 DEF IInv, OneOwner, Single, Untouched, ResetLate, Taken
    <3>1. PICK i \in DOMAIN stacks[u] : stacks[u][i].stage \in Owning
      BY <3>0
    <3>2. CASE i \in DOMAIN stacks'[u]
      BY <1>2, <3>1, <3>2 DEF Taken
    <3>3. CASE i \notin DOMAIN stacks'[u]
      <4>1. u = t /\ i = n /\ stacks[t][n].stage = "thread" /\ ~ joinable
        BY <1>2, <3>1, <3>3 DEF Owning, Destroying
      <4>2. stacks[t][n].sig = "exit"
        BY <1>2, <2>1, <2>2, <4>1 DEF IInv, OneOwner, Single, Untouched, ResetLate, Stage, Sig, Destroying
      <4>3. main = "exit"
        BY <1>2, <4>2 DEF IInv, AtExit, Sig
      <4>4. QED
        BY <4>1, <4>3 DEF IInv, WithThread, WithLoop
    <3>4. QED
      BY <3>2, <3>3
  <2>3. /\ destroyed <= 1 /\ Single /\ Untouched /\ ResetLate
        /\ UNCHANGED <<ptr, destroyed, overlapped>>
    BY <1>1, <2>1 DEF IInv, OneOwner, objectVars
  <2>4. Single' /\ Untouched' /\ ResetLate'
    BY <1>2, <2>3 DEF Single, Untouched, ResetLate, Stage, Sig
  <2>5. QED
    BY <2>2, <2>3, <2>4 DEF OneOwner
<1>7. EndsByCrash' /\ (joinable' <=> main' \in WithThread)
  BY <1>1 DEF IInv, EndsByCrash, objectVars
<1>8. QED
  BY <1>3, <1>4, <1>5, <1>6, <1>7 DEF IInv

-----------------------------------------------------------------------------
(* The steps of a handler, and of the static destructor *)
LEMMA HandlerStep ==
  ASSUME IInv, NEW t \in Threads, Handler(t)
  PROVE  IInv'
<1>1. TypeOK /\ destroyed \in Nat /\ ptr \in BOOLEAN /\ port \in {"closed", "open", "lost"}
  BY DEF IInv, TypeOK
<1> USE DEF Owning, Destroying, objectVars, worldVars
<1>2. CASE Read(t)
  BY <1>2, ReadStep
<1>3. CASE Clear(t)
  BY <1>1, <1>3, OwnerStep DEF Clear
<1>4. CASE Body(t)
  BY <1>1, <1>4, OwnerStep DEF Body
<1>5. CASE Members(t)
  BY <1>1, <1>5, OwnerStep DEF Members
<1>6. CASE DoubleFree(t) \/ ThreadTerminates(t)
  BY <1>6, EndStep DEF DoubleFree, ThreadTerminates, Terminate, Endings
<1>7. CASE Freed(t)
  <2>1. /\ Running /\ stacks[t] # <<>> /\ stacks[t][Len(stacks[t])].stage = "thread"
        /\ ~ joinable
    BY <1>7 DEF Freed, At, Top, IsJoinable
  <2>2. stacks[t][Len(stacks[t])].sig # "exit"
    BY <1>1, <2>1, StackType DEF IInv, AtExit, Sig, WithThread, WithLoop
  <2>3. Pop(t)
    BY <1>7, <2>2 DEF Freed, Top
  <2>4. QED
    BY <2>1, <2>3, PopStep
<1>8. CASE Hang(t)
  <2>1. PICK from \in {"members", "thread"} : ToStage(t, from, "hung")
    BY <1>8 DEF Hang
  <2>2. QED
    BY <1>1, <1>8, <2>1, OwnerStep DEF Hang
<1>9. CASE HandlerReturns(t)
  BY <1>9, PopStep DEF HandlerReturns, At, Top
<1>10. QED
  BY <1>2, <1>3, <1>4, <1>5, <1>6, <1>7, <1>8, <1>9 DEF Handler

LEMMA ExitsStep == IInv /\ Exits => IInv'
<1> SUFFICES ASSUME IInv, Exits
             PROVE  IInv'
  OBVIOUS
<1>1. main = "exit" /\ stacks["main"] = <<>> /\ ~ ptr /\ Ends("zero")
  BY DEF Exits, MainAt, Free
<1>2. PICK t \in Threads : \E i \in DOMAIN stacks[t] : Stage(t, i) \in Destroying
  BY <1>1 DEF IInv, Loops, WithLoop
<1>3. t = "daemon"
  BY <1>1, <1>2, EmptySeq DEF Threads
<1>4. QED
  BY <1>1, <1>2, <1>3, EndStep DEF Endings

LEMMA StartStep == IInv /\ Start => IInv'
<1> SUFFICES ASSUME IInv, Start
             PROVE  IInv'
  OBVIOUS
<1>1. Fresh'
  BY DEF IInv, TypeOK, Start, Fresh
<1>2. QED
  BY <1>1, FreshInv, PTL

LEMMA MainStep == IInv /\ MainThread => IInv'
<1> SUFFICES ASSUME IInv, MainThread
             PROVE  IInv'
  OBVIOUS
<1> USE DEF Command, Goto, MainAt, Free, Running, objectVars, worldVars, Construction,
            Published, WithThread, WithLoop
<1>1. CASE Construct
  BY <1>1, QuietStep DEF IInv, TypeOK, Construct
<1>2. CASE ConstructFails
  BY <1>2, EndStep DEF IInv, ConstructFails, Terminate, Endings
<1>3. CASE AtAnswered \/ SimReady \/ Setup
  BY <1>3, QuietStep DEF IInv, TypeOK, AtAnswered, SimReady, Setup
<1>4. CASE Publish
  BY <1>4, PublishStep
<1>5. CASE Enter \/ CallLoop
  BY <1>5, QuietStep DEF IInv, TypeOK, Enter, CallLoop
<1>6. CASE CreateThread
  BY <1>6, QuietStep DEF IInv, TypeOK, CreateThread
<1>7. CASE KeepThread
  BY <1>7, KeepStep
<1>8. CASE NullPointer
  BY <1>8, EndStep DEF NullPointer, Endings
<1>9. CASE CommandsReturn \/ LoopEnds
  BY <1>9, QuietStep DEF IInv, TypeOK, CommandsReturn, LoopEnds
<1>10. CASE StaticDestructors
  BY <1>10, StaticStep
<1>11. CASE Exits
  BY <1>11, ExitsStep
<1>12. CASE RaiseInterrupt
  <2>1. Handle("main", "SIGINT", TRUE) /\ stacks["main"] = <<>> /\ UNCHANGED signals
    BY <1>12 DEF RaiseInterrupt
  <2>2. /\ ~ Blocks("main", "SIGINT") /\ "SIGINT" \in Signals /\ signals' \in Nat
        /\ "main" \in Threads
    BY <2>1, EmptySeq DEF Blocks, Signals, Threads, IInv, TypeOK
  <2>3. QED
    BY <2>1, <2>2, HandleStep
<1>13. QED
  BY <1>1, <1>2, <1>3, <1>4, <1>5, <1>6, <1>7, <1>8, <1>9, <1>10, <1>11, <1>12
     DEF MainThread

(* One step per action *)
LEMMA InvStep == IInv /\ [Next]_vars => IInv'
<1> SUFFICES ASSUME IInv, [Next]_vars
             PROVE  IInv'
  OBVIOUS
<1>1. CASE MainThread
  BY <1>1, MainStep
<1>2. CASE LoopLine \/ SendReturns
  BY <1>2, QuietStep
     DEF IInv, TypeOK, LoopLine, SendReturns, Command, Goto, MainAt, objectVars,
         worldVars, Construction, Published, WithThread, WithLoop
<1>3. ASSUME NEW t \in Threads, Handler(t)
      PROVE  IInv'
  BY <1>3, HandlerStep
<1>4. ASSUME NEW t \in Threads, NEW sig \in Signals, Signal(t, sig)
      PROVE  IInv'
  <2>1. ~ Blocks(t, sig) /\ Handle(t, sig, FALSE) /\ signals' = signals + 1
    BY <1>4, Zenon DEF Signal
  <2>2. signals' \in Nat
    BY <2>1 DEF IInv, TypeOK
  <2>3. QED
    BY <2>1, <2>2, HandleStep
<1>5. CASE DaemonThrows
  BY <1>5, EndStep DEF DaemonThrows, Terminate, Endings
<1>6. CASE UsesDestroyed
  BY <1>6, EndStep DEF UsesDestroyed, Endings
<1>7. CASE DaemonReturns
  BY <1>7, QuietStep DEF IInv, TypeOK, DaemonReturns, worldVars
<1>8. CASE ModemComesUp \/ Lose
  BY <1>8, QuietStep, ProcessAssumption DEF IInv, TypeOK, ModemComesUp, Lose
<1>9. CASE Start
  BY <1>9, StartStep
<1>10. CASE UNCHANGED vars
  BY <1>10, QuietStep DEF IInv, TypeOK, vars, worldVars
<1>11. QED
  BY <1>1, <1>2, <1>3, <1>4, <1>5, <1>6, <1>7, <1>8, <1>9, <1>10 DEF Next

LEMMA InvAlways == Spec => []IInv
  BY InvInit, InvStep, PTL DEF Spec

(* A thread has at most two handlers on top of it, and the static destructor
   below them, whatever signals come (TypeOK). *)
THEOREM TypeCorrect == Spec => []TypeOK
<1>1. IInv => TypeOK
  BY DEF IInv
<1>2. QED
  BY <1>1, InvAlways, PTL

(* However signals, threads and the end of main interleave, the members of a
   Service are destroyed twice only if ptr was read while an earlier reader
   had not finished (DestroyedOnce): a handler that clears ptr, and is not
   overtaken between its read and its reset, is the only one to destroy. *)
THEOREM TwiceOnlyByOverlap == Spec => []DestroyedOnce
<1>1. IInv => DestroyedOnce
  BY DEF IInv, OneOwner, DestroyedOnce
<1>2. QED
  BY <1>1, InvAlways, PTL

(* Once m_frontend_thread holds the thread the process ends by a crash, or
   while a handler on the daemon thread is in ~Service (EndsByCrash). *)
THEOREM ThreadEndsByCrash == Spec => []EndsByCrash
<1>1. IInv => EndsByCrash
  BY DEF IInv
<1>2. QED
  BY <1>1, InvAlways, PTL
=============================================================================
