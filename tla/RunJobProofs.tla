----------------------------- MODULE RunJobProofs -----------------------------
(***************************************************************************)
(* Theorems about RunJob, for every value of its constants: any devices,   *)
(* pipes of any size, children that write any number of lines, any number  *)
(* of backups and crashes, and error logs of any length.                   *)
(***************************************************************************)
EXTENDS RunJob, SequenceTheorems, TLAPS

------------------------------------------------------------------------------
(* Types *)

Line == Outputs \X Nat
Entry == Nat \X {"none", "ok", "failed", "torn"}
Environment == [1..Len(Names) -> Device \cup {Nobody}]
ChildRecord == [state: {"none", "running", "quiet", "exited", "killed"},
                code: 0..1, env: Environment]

\* What a step relies on of the shape of each variable.
Shape ==
    /\ pc \in [Device -> {"idle", "setenv", "start", "read", "wait", "save", "status",
                          "truncate", "push"}]
    /\ jobs \in [Device -> 0..MaxJobs]
    /\ env \in Environment
    /\ named \in [Device -> 0..Len(Names)]
    /\ ctx \in [Device -> {"live", "expired", "cancelled"}]
    /\ child \in [Device -> ChildRecord]
    /\ heirs \in [Device -> SUBSET Outputs]
    /\ pipe \in [Device -> [Outputs -> Seq(Line)]]
    /\ wrote \in [Device -> [Outputs -> Nat]]
    /\ reading \in [Device -> Outputs]
    /\ capture \in [Device -> Seq(Line)]
    /\ result \in [Device -> {"none", "ok", "failed"}]
    /\ errlog \in [Device -> Seq(Entry)]
    /\ loaded \in [Device -> Seq(Entry)]
    /\ recorded \in [Device -> Seq(Nat)]
    /\ sure \in [Device -> Nat]

\* A log is kept within its bound because one line less is loaded.
Fitting == \A d \in Device : /\ Len(errlog[d]) <= LogBound
                             /\ Len(loaded[d]) < LogBound

TypeInv == Shape /\ Fitting

LEMMA FirstOfType ==
    ASSUME NEW S, NEW s \in Seq(S), NEW n \in Int
    PROVE  /\ FirstOf(s, n) \in Seq(S)
           /\ n >= 0 => Len(FirstOf(s, n)) <= n
           /\ n < 0 => Len(FirstOf(s, n)) = 0
           /\ Len(FirstOf(s, n)) >= n \/ Len(FirstOf(s, n)) = Len(s)
           /\ Len(FirstOf(s, n)) <= Len(s)
           /\ \A i \in 1..Len(FirstOf(s, n)) : FirstOf(s, n)[i] = s[i]
<1> DEFINE m == IF n < Len(s) THEN n ELSE Len(s)
<1>1. m \in Int /\ m <= Len(s) /\ FirstOf(s, n) = SubSeq(s, 1, m)
  BY DEF FirstOf
<1>2. /\ SubSeq(s, 1, m) \in Seq(S)
      /\ Len(SubSeq(s, 1, m)) = IF 1 <= m THEN m ELSE 0
  BY <1>1, SubSeqProperties, ElementOfSeq
<1>3. /\ \A i \in 1..Len(SubSeq(s, 1, m)) : SubSeq(s, 1, m)[i] = s[i]
      /\ Len(s) \in Nat
  BY <1>1, <1>2, SubSeqProperties
<1>4. \/ m = n /\ m < Len(s)
      \/ m = Len(s) /\ m <= n
  BY <1>1
<1> HIDE DEF m
<1> QED BY <1>1, <1>2, <1>3, <1>4

\* What a failed write leaves of a log that is not empty.
LEMMA PartlyIs ==
    ASSUME NEW s \in Seq(Entry), NEW n \in Nat, n + 1 <= Len(s), NEW torn \in BOOLEAN
    PROVE  /\ Partly(s, n, torn) \in Seq(Entry)
           /\ Len(Partly(s, n, torn)) = IF torn THEN n + 1 ELSE n
           /\ Len(Partly(s, n, torn)) <= Len(s)
           /\ \A i \in 1..Len(Partly(s, n, torn)) : Partly(s, n, torn)[i][1] = s[i][1]
<1> DEFINE first == SubSeq(s, 1, n)
           rest == IF torn THEN <<<<s[n + 1][1], "torn">>>> ELSE <<>>
<1>1. /\ first \in Seq(Entry) /\ Len(first) = n
      /\ \A i \in 1..n : first[i] = s[i]
  <2>1. 1 <= 1 /\ n <= Len(s) /\ \A i \in 1..n : i \in 1..Len(s)
    OBVIOUS
  <2> QED BY <2>1, SubSeqProperties, ElementOfSeq
<1>2. <<s[n + 1][1], "torn">> \in Entry
  <2>1. n + 1 \in 1..Len(s)
    OBVIOUS
  <2>2. s[n + 1] \in Entry
    BY <2>1, ElementOfSeq
  <2> QED BY <2>2 DEF Entry
<1>3. /\ rest \in Seq(Entry)
      /\ Len(rest) = IF torn THEN 1 ELSE 0
      /\ torn => rest[1][1] = s[n + 1][1]
  BY <1>2
<1> HIDE DEF first, rest
<1>4. /\ first \o rest \in Seq(Entry)
      /\ Len(first \o rest) = Len(first) + Len(rest)
      /\ \A i \in 1..(Len(first) + Len(rest)) :
            (first \o rest)[i] = IF i <= Len(first) THEN first[i] ELSE rest[i - Len(first)]
  BY <1>1, <1>3, ConcatProperties
<1>5. Partly(s, n, torn) = first \o rest
  BY DEF Partly, first, rest
<1>6. Len(first \o rest) = IF torn THEN n + 1 ELSE n
  BY ONLY <1>1, <1>3, <1>4, n \in Nat, torn \in BOOLEAN
<1>7. ASSUME NEW i \in 1..Len(first \o rest) PROVE (first \o rest)[i][1] = s[i][1]
  <2>1. CASE i <= n
    BY <1>1, <1>3, <1>4, <1>6, <2>1
  <2>2. CASE ~ (i <= n)
    <3>1. torn /\ i = n + 1 /\ i - Len(first) = 1
      BY ONLY <1>1, <1>6, <2>2, n \in Nat, i \in 1..Len(first \o rest), torn \in BOOLEAN
    <3>2. (first \o rest)[i] = rest[1]
      <4>1. i \in 1..(Len(first) + Len(rest)) /\ ~ (i <= Len(first))
        BY ONLY <1>1, <1>3, <2>2, <3>1, n \in Nat
      <4> QED BY ONLY <1>4, <3>1, <4>1
    <3> QED BY ONLY <1>3, <3>1, <3>2
  <2> QED BY <2>1, <2>2
<1>8. Len(s) \in Nat
  OBVIOUS
<1> QED BY ONLY <1>4, <1>5, <1>6, <1>7, <1>8, n \in Nat, n + 1 <= Len(s), torn \in BOOLEAN

LEMMA InitType == Init => TypeInv
<1> SUFFICES ASSUME Init PROVE TypeInv
  OBVIOUS
<1>1. NoChild.env \in Environment /\ NoChild \in ChildRecord
  BY DEF NoChild, Names, Environment, ChildRecord
<1>2. <<>> \in Seq(Line) /\ <<>> \in Seq(Entry) /\ <<>> \in Seq(Nat) /\ Len(<<>>) = 0
  OBVIOUS
<1>3. Both(<<>>) \in [Outputs -> Seq(Line)] /\ Both(0) \in [Outputs -> Nat]
  BY DEF Both
<1>4. Shape
  BY <1>1, <1>2, <1>3, RunAssumption DEF Init, Shape, Outputs, Names
<1>5. Fitting
  BY <1>2, RunAssumption DEF Init, Fitting, LogBound
<1> QED BY <1>4, <1>5 DEF TypeInv

\* fetch's return keeps the types.
LEMMA ReturnType ==
    ASSUME Shape, NEW d \in Device, NEW outcome \in {"ok", "failed"},
           Return(d, outcome)
    PROVE  /\ pc' \in [Device -> {"idle", "setenv", "start", "read", "wait", "save",
                                  "status", "truncate", "push"}]
           /\ result' \in [Device -> {"none", "ok", "failed"}]
           /\ ctx' \in [Device -> {"live", "expired", "cancelled"}]
           /\ pc'[d] = "status" /\ result'[d] = outcome
           /\ \A x \in Device \ {d} : pc'[x] = pc[x] /\ result'[x] = result[x]
BY DEF Shape, Return, Goto

LEMMA TypeStep ==
    ASSUME TypeInv, [Next]_vars
    PROVE  TypeInv'
<1> USE RunAssumption DEF TypeInv, Shape, Fitting, Goto
<1>0. /\ Len(Names) = 4
      /\ \A d \in Device : child[d] \in ChildRecord
  BY DEF Names
<1>1. ASSUME NEW d \in Device, Begin(d) PROVE TypeInv'
  <2>1. jobs[d] + 1 \in 0..MaxJobs /\ "out" \in Outputs
    <3>1. jobs[d] \in 0..MaxJobs /\ jobs[d] < MaxJobs /\ MaxJobs \in Nat
      BY <1>1 DEF Begin
    <3> QED BY ONLY <3>1 DEF Outputs
  <2>2. /\ jobs' \in [Device -> 0..MaxJobs] /\ reading' \in [Device -> Outputs]
        /\ capture' \in [Device -> Seq(Line)] /\ <<>> \in Seq(Line)
    <3>1. /\ jobs' = [jobs EXCEPT ![d] = jobs[d] + 1]
          /\ reading' = [reading EXCEPT ![d] = "out"]
          /\ capture' = [capture EXCEPT ![d] = <<>>]
      BY <1>1 DEF Begin
    <3>2. /\ jobs \in [Device -> 0..MaxJobs] /\ reading \in [Device -> Outputs]
          /\ capture \in [Device -> Seq(Line)] /\ <<>> \in Seq(Line)
      OBVIOUS
    <3> QED BY ONLY <2>1, <3>1, <3>2
  <2>3. /\ pc' = [pc EXCEPT ![d] = "setenv"] /\ named' = [named EXCEPT ![d] = 0]
        /\ ctx' = [ctx EXCEPT ![d] = "live"]
        /\ UNCHANGED <<env, result, childVars, logVars>>
    BY <1>1 DEF Begin
  <2>4. named' \in [Device -> 0..Len(Names)]
    <3>1. named \in [Device -> 0..Len(Names)]
      OBVIOUS
    <3> QED BY ONLY <1>0, <2>3, <3>1
  <2> QED BY <2>2, <2>3, <2>4 DEF childVars, logVars
<1>2. ASSUME NEW d \in Device, Setenv(d) PROVE TypeInv'
  <2>2. CASE named[d] = Len(Names)
    BY <1>2, <2>2 DEF Setenv, childVars, logVars
  <2>3. CASE named[d] # Len(Names)
    <3>1. named[d] + 1 \in 0..Len(Names) /\ named[d] + 1 \in 1..Len(Names)
      <4>1. named[d] \in 0..4
        BY <1>0
      <4> QED BY ONLY <1>0, <2>3, <4>1
    <3>2. /\ named' = [named EXCEPT ![d] = named[d] + 1]
          /\ env' = [env EXCEPT ![named'[d]] = d]
      BY <1>2, <2>3 DEF Setenv
    <3>3. env' \in Environment
      BY <3>1, <3>2 DEF Environment
    <3> QED BY <1>2, <2>3, <3>1, <3>2, <3>3 DEF Setenv, childVars, logVars
  <2> QED BY <2>2, <2>3
<1>3. ASSUME NEW d \in Device, Start(d) PROVE TypeInv'
  <2>1. [state |-> "running", code |-> 0, env |-> env] \in ChildRecord
    BY DEF ChildRecord
  <2>2. Both(<<>>) \in [Outputs -> Seq(Line)] /\ Both(0) \in [Outputs -> Nat]
    BY DEF Both
  <2> QED BY <1>3, <2>1, <2>2 DEF Start, jobVars, logVars
<1>4. ASSUME NEW d \in Device, StartFails(d) PROVE TypeInv'
  BY <1>4, ReturnType DEF StartFails, childVars, logVars
<1>5. ASSUME NEW d \in Device, NEW o \in Outputs, ChildWrites(d, o) PROVE TypeInv'
  <2>1. wrote[d][o] + 1 \in Nat /\ <<o, wrote[d][o] + 1>> \in Line
    <3>1. wrote[d][o] \in Nat
      OBVIOUS
    <3> QED BY ONLY <3>1, o \in Outputs DEF Line
  <2>2. wrote' \in [Device -> [Outputs -> Nat]] /\ wrote'[d][o] = wrote[d][o] + 1
    BY <1>5, <2>1 DEF ChildWrites
  <2>3. Append(pipe[d][o], <<o, wrote[d][o] + 1>>) \in Seq(Line)
    BY <2>1
  <2>4. pipe' \in [Device -> [Outputs -> Seq(Line)]]
    BY <1>5, <2>2, <2>3 DEF ChildWrites
  <2> QED BY <1>5, <2>2, <2>4 DEF ChildWrites, jobVars, logVars
<1>22. ASSUME NEW d \in Device, NEW o \in Outputs, ChildForks(d, o) \/ HeirsClose(d, o)
       PROVE  TypeInv'
  <2>1. heirs[d] \cup {o} \in SUBSET Outputs /\ heirs[d] \ {o} \in SUBSET Outputs
    OBVIOUS
  <2>2. \/ heirs' = [heirs EXCEPT ![d] = heirs[d] \cup {o}]
        \/ heirs' = [heirs EXCEPT ![d] = heirs[d] \ {o}]
    BY <1>22 DEF ChildForks, HeirsClose
  <2>3. heirs' \in [Device -> SUBSET Outputs]
    BY <2>1, <2>2
  <2> QED BY <1>22, <2>3 DEF ChildForks, HeirsClose, jobVars, logVars
<1>6. ASSUME NEW d \in Device, ChildCloses(d) PROVE TypeInv'
  <2>1. [child[d] EXCEPT !.state = "quiet"] \in ChildRecord
    BY ONLY <1>0, d \in Device DEF ChildRecord
  <2> QED BY <1>6, <2>1 DEF ChildCloses, jobVars, logVars
<1>7. ASSUME NEW d \in Device, NEW code \in 0..1, ChildExits(d, code) PROVE TypeInv'
  <2>1. [child[d] EXCEPT !.state = "exited", !.code = code] \in ChildRecord
    BY ONLY <1>0, d \in Device, code \in 0..1 DEF ChildRecord
  <2> QED BY <1>7, <2>1 DEF ChildExits, jobVars, logVars
<1>8. ASSUME NEW d \in Device, Expires(d) PROVE TypeInv'
  BY <1>8 DEF Expires, childVars, logVars
<1>9. ASSUME NEW d \in Device, Kill(d) PROVE TypeInv'
  <2>1. [child[d] EXCEPT !.state = "killed"] \in ChildRecord
    BY ONLY <1>0, d \in Device DEF ChildRecord
  <2> QED BY <1>9, <2>1 DEF Kill, jobVars, logVars
<1>10. ASSUME NEW d \in Device, ReadLine(d) PROVE TypeInv'
  <2>1. /\ Head(pipe[d][reading[d]]) \in Line
        /\ Tail(pipe[d][reading[d]]) \in Seq(Line)
    BY <1>10, HeadTailProperties DEF ReadLine
  <2>2. pipe' \in [Device -> [Outputs -> Seq(Line)]]
    BY <1>10, <2>1 DEF ReadLine
  <2>3. capture' \in [Device -> Seq(Line)]
    BY <1>10, <2>1 DEF ReadLine
  <2>4. CASE ctx[d] = "live"
    BY <1>10, <2>2, <2>3, <2>4 DEF ReadLine, logVars
  <2>5. CASE ctx[d] # "live"
    BY <1>10, <2>2, <2>3, <2>5, ReturnType DEF ReadLine, logVars
  <2> QED BY <2>4, <2>5
<1>11. ASSUME NEW d \in Device, MatchTimesOut(d) PROVE TypeInv'
  BY <1>11, ReturnType DEF MatchTimesOut, childVars, logVars
<1>12. ASSUME NEW d \in Device, NextOutput(d) PROVE TypeInv'
  BY <1>12 DEF NextOutput, childVars, logVars, Outputs
<1>13. ASSUME NEW d \in Device, ReadEOF(d) PROVE TypeInv'
  BY <1>13 DEF ReadEOF, jobVars, childVars, logVars
<1>14. ASSUME NEW d \in Device, Wait(d) PROVE TypeInv'
  BY <1>14, ReturnType DEF Wait, childVars, logVars
<1>15. ASSUME NEW d \in Device, SaveCommit(d) PROVE TypeInv'
  BY <1>15, ReturnType DEF SaveCommit, childVars, logVars
<1>16. ASSUME NEW d \in Device, LoadLines(d) PROVE TypeInv'
  <2> DEFINE s == FirstOf(errlog[d], ErrlogHistSize - 1)
  <2>1. errlog[d] \in Seq(Entry) /\ ErrlogHistSize \in Nat
    OBVIOUS
  <2>2. s \in Seq(Entry) /\ Len(s) < LogBound
    <3>1. ErrlogHistSize - 1 \in Int
      BY ONLY <2>1
    <3>2. /\ s \in Seq(Entry)
          /\ ErrlogHistSize - 1 >= 0 => Len(s) <= ErrlogHistSize - 1
          /\ ErrlogHistSize - 1 < 0 => Len(s) = 0
      BY ONLY <2>1, <3>1, FirstOfType
    <3> HIDE DEF s
    <3> QED BY ONLY <2>1, <3>2 DEF LogBound
  <2> QED BY <1>16, <2>2 DEF LoadLines, jobVars, childVars
<1>17. ASSUME NEW d \in Device, Truncate(d) PROVE TypeInv'
  <2>1. <<>> \in Seq(Entry) /\ Len(<<>>) <= LogBound
    BY DEF LogBound
  <2> QED BY <1>17, <2>1 DEF Truncate, jobVars, childVars
<1>18. ASSUME NEW d \in Device, Push(d) PROVE TypeInv'
  <2>1. Message(d) \in Entry
    BY DEF Message, Entry
  <2>2. /\ <<Message(d)>> \in Seq(Entry) /\ Len(<<Message(d)>>) = 1
    BY <2>1
  <2>3. /\ <<Message(d)>> \o loaded[d] \in Seq(Entry)
        /\ Len(<<Message(d)>> \o loaded[d]) = 1 + Len(loaded[d])
        /\ <<jobs[d]>> \o recorded[d] \in Seq(Nat)
        /\ sure[d] + 1 \in Nat
    BY <2>2, ConcatProperties
  <2>4. Len(<<Message(d)>> \o loaded[d]) <= LogBound
    BY <2>3 DEF LogBound
  <2> QED BY <1>18, <2>3, <2>4 DEF Push, jobVars, childVars
<1>19. ASSUME NEW d \in Device, ErrlogFails(d) PROVE TypeInv'
  BY <1>19 DEF ErrlogFails, jobVars, childVars, logVars
<1>23. ASSUME NEW d \in Device, PushFails(d) PROVE TypeInv'
  <2> DEFINE s == <<Message(d)>> \o loaded[d]
  <2>1. s \in Seq(Entry) /\ Len(s) = 1 + Len(loaded[d]) /\ Len(loaded[d]) \in Nat
    <3>1. <<Message(d)>> \in Seq(Entry) /\ Len(<<Message(d)>>) = 1
      BY DEF Message, Entry
    <3> QED BY <3>1, ConcatProperties
  <2>2. <<jobs[d]>> \o recorded[d] \in Seq(Nat)
    BY ConcatProperties
  <2>3. PICK n \in 0..Len(loaded[d]), torn \in BOOLEAN :
           errlog' = [errlog EXCEPT ![d] = Partly(s, n, torn)]
    BY <1>23 DEF PushFails
  <2>4. /\ Partly(s, n, torn) \in Seq(Entry)
        /\ Len(Partly(s, n, torn)) <= Len(s)
    <3>1. n \in Nat /\ n + 1 <= Len(s)
      BY ONLY <2>1, n \in 0..Len(loaded[d])
    <3> HIDE DEF s
    <3> QED BY ONLY <2>1, <3>1, torn \in BOOLEAN, PartlyIs
  <2>5. Len(errlog'[d]) <= LogBound /\ errlog'[d] \in Seq(Entry)
    BY <2>1, <2>3, <2>4 DEF LogBound
  <2>6. /\ errlog' \in [Device -> Seq(Entry)]
        /\ \A x \in Device \ {d} : errlog'[x] = errlog[x]
    BY <2>3, <2>4
  <2>7. sure' \in [Device -> Nat] /\ recorded' \in [Device -> Seq(Nat)]
    <3>1. Len(errlog'[d]) \in Nat
      BY <2>5
    <3> QED BY <1>23, <2>2, <3>1 DEF PushFails
  <2> QED BY <1>23, <2>5, <2>6, <2>7 DEF PushFails, jobVars, childVars
<1>20. CASE Crash
  <2>1. NoChild.env \in Environment /\ NoChild \in ChildRecord
    BY DEF NoChild, Names, Environment, ChildRecord
  <2> QED BY <1>20, <2>1 DEF Crash
<1>21. CASE UNCHANGED vars
  BY <1>21 DEF vars, jobVars, childVars, logVars
<1> QED
  BY <1>1, <1>2, <1>3, <1>4, <1>5, <1>6, <1>7, <1>8, <1>9, <1>10, <1>11, <1>12, <1>13,
     <1>14, <1>15, <1>16, <1>17, <1>18, <1>19, <1>20, <1>21, <1>22, <1>23
  DEF Next, Job, Child

THEOREM TypeCorrect == Spec => []TypeOK
<1>1. TypeInv => TypeOK
  BY RunAssumption DEF TypeInv, Shape, Fitting, LogBound, TypeOK, ChildRecord
<1> QED BY <1>1, InitType, TypeStep, PTL DEF Spec

------------------------------------------------------------------------------
(* What is saved *)

\* What a child that has written n lines to output o has written there.
LinesOf(o, n) == [i \in 1..n |-> <<o, i>>]

LEMMA OneMoreLine ==
    ASSUME NEW o \in Outputs, NEW n \in Nat
    PROVE  /\ LinesOf(o, n) \in Seq(Line)
           /\ LinesOf(o, 0) = <<>>
           /\ LinesOf(o, n + 1) = Append(LinesOf(o, n), <<o, n + 1>>)
<1>1. LinesOf(o, n) \in Seq(Line) /\ LinesOf(o, n + 1) \in Seq(Line)
  BY DEF LinesOf, Line
<1>2. Len(LinesOf(o, n)) = n /\ Len(LinesOf(o, n + 1)) = n + 1
  BY DEF LinesOf
<1>3. LinesOf(o, 0) = <<>>
  BY DEF LinesOf
<1>4. LinesOf(o, n + 1) = Append(LinesOf(o, n), <<o, n + 1>>)
  <2> DEFINE t == Append(LinesOf(o, n), <<o, n + 1>>)
  <2>1. <<o, n + 1>> \in Line
    BY DEF Line
  <2>2. /\ t \in Seq(Line) /\ Len(t) = n + 1
        /\ \A i \in 1..n : t[i] = LinesOf(o, n)[i]
        /\ t[n + 1] = <<o, n + 1>>
    BY <1>1, <1>2, <2>1, AppendProperties
  <2>3. \A i \in 1..(n + 1) : LinesOf(o, n + 1)[i] = t[i]
    BY <2>2 DEF LinesOf
  <2> HIDE DEF t
  <2> QED BY <1>1, <1>2, <2>2, <2>3, SeqEqual
<1> QED BY <1>1, <1>3, <1>4

\* While one output is read, what has been captured and what its pipe holds are what
\* the child wrote, after the whole of the output before; the other pipe waits.  From
\* the end of both on nothing can be added: nobody has their writing ends.
Closed(d) == \A o \in Outputs : ~Held(d, o)

Reading(d) ==
    /\ pc[d] \in {"setenv", "start"} => capture[d] = <<>> /\ reading[d] = "out"
    /\ pc[d] = "read" /\ reading[d] = "out" =>
         /\ capture[d] \o pipe[d]["out"] = LinesOf("out", wrote[d]["out"])
         /\ pipe[d]["err"] = LinesOf("err", wrote[d]["err"])
    /\ pc[d] = "read" /\ reading[d] = "err" =>
         /\ capture[d] \o pipe[d]["err"] = Written(d)
         /\ ~Held(d, "out")

Done(d) ==
    /\ pc[d] \in {"wait", "save"} =>
         capture[d] = Written(d) /\ Closed(d)
    /\ pc[d] = "save" => child[d].state = "exited" /\ child[d].code = 0
    /\ pc[d] = "status" /\ result[d] = "ok" =>
         /\ capture[d] = Written(d) /\ Closed(d)
         /\ child[d].state = "exited" /\ child[d].code = 0

CaptureInv == \A d \in Device : Reading(d) /\ Done(d)

\* All that CaptureInv says of a device.
About(d) == <<pc[d], child[d], heirs[d], pipe[d], wrote[d], reading[d], capture[d], result[d]>>

LEMMA CaptureFrame ==
    ASSUME NEW d \in Device, Reading(d), Done(d), UNCHANGED About(d)
    PROVE  Reading(d)' /\ Done(d)'
BY DEF About, Reading, Done, Closed, Held, Written

\* Nothing is said of a backup that failed, or after it.
Quiet(d) == \/ pc[d] \in {"idle", "truncate", "push"}
            \/ pc[d] = "status" /\ result[d] = "failed"

LEMMA QuietCapture ==
    ASSUME NEW d \in Device, Quiet(d)'
    PROVE  Reading(d)' /\ Done(d)'
BY DEF Quiet, Reading, Done

LEMMA WrittenIs ==
    ASSUME NEW d \in Device
    PROVE  Written(d) = LinesOf("out", wrote[d]["out"]) \o LinesOf("err", wrote[d]["err"])
BY DEF Written, LinesOf

LEMMA ConcatAppend ==
    ASSUME NEW S, NEW s \in Seq(S), NEW t \in Seq(S), NEW e \in S
    PROVE  s \o Append(t, e) = Append(s \o t, e)
<1>1. /\ s \o t \in Seq(S) /\ Append(t, e) = t \o <<e>>
      /\ Append(s \o t, e) = (s \o t) \o <<e>> /\ <<e>> \in Seq(S)
  BY ConcatProperties, AppendIsConcat
<1>2. s \o (t \o <<e>>) = (s \o t) \o <<e>>
  BY <1>1, ConcatAssociative
<1> QED BY <1>1, <1>2

LEMMA HeadMoves ==
    ASSUME NEW S, NEW s \in Seq(S), NEW t \in Seq(S), t # <<>>
    PROVE  Append(s, Head(t)) \o Tail(t) = s \o t
<1>1. /\ Head(t) \in S /\ Tail(t) \in Seq(S) /\ <<Head(t)>> \in Seq(S)
      /\ <<Head(t)>> \o Tail(t) = t
  BY HeadTailProperties
<1>2. Append(s, Head(t)) = s \o <<Head(t)>>
  BY <1>1, AppendIsConcat
<1>3. (s \o <<Head(t)>>) \o Tail(t) = s \o (<<Head(t)>> \o Tail(t))
  BY <1>1, ConcatAssociative
<1> QED BY <1>1, <1>2, <1>3

LEMMA CaptureStep ==
    ASSUME TypeInv, CaptureInv, [Next]_vars
    PROVE  CaptureInv'
<1> USE DEF TypeInv, Shape
<1> SUFFICES ASSUME NEW x \in Device PROVE Reading(x)' /\ Done(x)'
  BY DEF CaptureInv
<1>0. Reading(x) /\ Done(x)
  BY DEF CaptureInv
<1>1. ASSUME NEW d \in Device,
             StartFails(d) \/ MatchTimesOut(d)
             \/ LoadLines(d) \/ Truncate(d) \/ Push(d) \/ PushFails(d) \/ ErrlogFails(d)
      PROVE  Reading(x)' /\ Done(x)'
  <2>1. Quiet(d)'
    BY <1>1 DEF StartFails, MatchTimesOut, LoadLines, Truncate, Push, PushFails, ErrlogFails,
                Return, Goto, Quiet
  <2>2. ASSUME x # d PROVE UNCHANGED About(x)
    BY <1>1, <2>2 DEF StartFails, MatchTimesOut, LoadLines, Truncate, Push, PushFails, ErrlogFails,
                Return, Goto, About, jobVars, childVars, logVars
  <2> QED BY <1>0, <2>1, <2>2, CaptureFrame, QuietCapture
<1>2. ASSUME NEW d \in Device, Begin(d) \/ Setenv(d) PROVE Reading(x)' /\ Done(x)'
  <2>1. CASE x # d
    <3>1. UNCHANGED About(x)
      BY <1>2, <2>1 DEF Begin, Setenv, Goto, About, childVars, logVars
    <3> QED BY <1>0, <3>1, CaptureFrame
  <2>2. CASE x = d
    <3>1. /\ pc'[d] \in {"setenv", "start"}
          /\ capture'[d] = <<>> /\ reading'[d] = "out"
      BY <1>0, <1>2 , <2>2 DEF Begin, Setenv, Goto, Reading
    <3> QED BY <2>2, <3>1 DEF Reading, Done
  <2> QED BY <2>1, <2>2
<1>3. ASSUME NEW d \in Device, Start(d) PROVE Reading(x)' /\ Done(x)'
  <2>1. CASE x # d
    <3>1. UNCHANGED About(x)
      BY <1>3, <2>1 DEF Start, Goto, About, jobVars
    <3> QED BY <1>0, <3>1, CaptureFrame
  <2>2. CASE x = d
    <3>1. /\ pc'[d] = "read"
          /\ wrote'[d]["out"] = 0 /\ wrote'[d]["err"] = 0
          /\ pipe'[d]["out"] = <<>> /\ pipe'[d]["err"] = <<>>
      BY <1>3 DEF Start, Goto, Both, Outputs
    <3>2. capture'[d] = <<>> /\ reading'[d] = "out"
      BY <1>0, <1>3, <2>2 DEF Start, jobVars, Reading
    <3>3. <<>> \o <<>> = <<>>
      OBVIOUS
    <3> QED BY <2>2, <3>1, <3>2, <3>3, OneMoreLine DEF Reading, Done, Outputs
  <2> QED BY <2>1, <2>2
<1>4. ASSUME NEW d \in Device, NEW o \in Outputs, ChildWrites(d, o)
      PROVE  Reading(x)' /\ Done(x)'
  <2>1. CASE x # d
    <3>1. UNCHANGED About(x)
      BY <1>4, <2>1 DEF ChildWrites, About, jobVars
    <3> QED BY <1>0, <3>1, CaptureFrame
  <2>2. CASE x = d
    <3> DEFINE n == wrote[d][o]
    <3>1. /\ wrote'[d][o] = n + 1 /\ n \in Nat
          /\ \A a \in Outputs \ {o} : wrote'[d][a] = wrote[d][a]
      BY <1>4 DEF ChildWrites
    <3>2. /\ pipe'[d][o] = Append(pipe[d][o], <<o, n + 1>>)
          /\ \A a \in Outputs \ {o} : pipe'[d][a] = pipe[d][a]
      BY <1>4, <3>1 DEF ChildWrites
    <3>3. /\ UNCHANGED <<pc, child, heirs, reading, capture, result>>
          /\ Held(d, o)
      BY <1>4 DEF ChildWrites, jobVars
    <3>4. <<o, n + 1>> \in Line
      BY ONLY <3>1, o \in Outputs DEF Line
    <3>5. LinesOf(o, n + 1) = Append(LinesOf(o, n), <<o, n + 1>>)
      BY <3>1, OneMoreLine
    <3>6. CASE pc[d] = "read" /\ reading[d] = "out" /\ o = "out"
      <4>1. capture[d] \o Append(pipe[d][o], <<o, n + 1>>)
              = Append(capture[d] \o pipe[d][o], <<o, n + 1>>)
        <5>1. capture[d] \in Seq(Line) /\ pipe[d][o] \in Seq(Line)
          OBVIOUS
        <5>2. \A s, t \in Seq(Line), e \in Line :
                 s \o Append(t, e) = Append(s \o t, e)
          BY ONLY ConcatAppend
        <5> HIDE DEF n
        <5> QED BY ONLY <3>4, <5>1, <5>2
      <4>2. /\ capture[d] \o pipe[d]["out"] = LinesOf("out", n)
            /\ pipe[d]["err"] = LinesOf("err", wrote[d]["err"])
        BY <1>0, <2>2, <3>6 DEF Reading
      <4>3. capture'[d] \o pipe'[d]["out"] = LinesOf("out", wrote'[d]["out"])
        BY ONLY <3>1, <3>2, <3>3, <3>5, <3>6, <4>1, <4>2
      <4>4. pipe'[d]["err"] = LinesOf("err", wrote'[d]["err"])
        BY ONLY <3>1, <3>2, <3>6, <4>2 DEF Outputs
      <4>5. pc'[d] = "read" /\ reading'[d] = "out"
        BY ONLY <3>3, <3>6
      <4> QED BY ONLY <2>2, <4>3, <4>4, <4>5 DEF Reading, Done
    <3>7. CASE pc[d] = "read" /\ reading[d] = "out" /\ o = "err"
      <4>1. /\ capture[d] \o pipe[d]["out"] = LinesOf("out", wrote[d]["out"])
            /\ pipe[d]["err"] = LinesOf("err", n)
        BY <1>0, <2>2, <3>7 DEF Reading
      <4>2. capture'[d] \o pipe'[d]["out"] = LinesOf("out", wrote'[d]["out"])
        BY ONLY <3>1, <3>2, <3>3, <3>7, <4>1 DEF Outputs
      <4>3. pipe'[d]["err"] = LinesOf("err", wrote'[d]["err"])
        BY ONLY <3>1, <3>2, <3>5, <3>7, <4>1
      <4>4. pc'[d] = "read" /\ reading'[d] = "out"
        BY ONLY <3>3, <3>7
      <4> QED BY ONLY <2>2, <4>2, <4>3, <4>4 DEF Reading, Done
    <3>8. CASE ~ (pc[d] = "read" /\ reading[d] = "out")
      <4>1. pc[d] = "read" /\ reading[d] = "err" => o = "err"
        BY <1>0, <2>2, <3>3 DEF Reading, Outputs
      <4>2. pc[d] \notin {"wait", "save"} /\ ~ (pc[d] = "status" /\ result[d] = "ok")
        BY <1>0, <2>2, <3>3 DEF Done, Closed
      <4>3. CASE pc[d] = "read" /\ reading[d] = "err"
        <5>1. o = "err" /\ capture[d] \o pipe[d]["err"] = Written(d) /\ ~Held(d, "out")
          BY <1>0, <2>2, <4>1, <4>3 DEF Reading
        <5>2. Written(d)' = Append(Written(d), <<"err", n + 1>>)
          <6>1. /\ wrote'[d]["err"] = n + 1 /\ wrote'[d]["out"] = wrote[d]["out"]
                /\ LinesOf("err", n + 1) = Append(LinesOf("err", n), <<"err", n + 1>>)
                /\ n = wrote[d]["err"]
            BY <3>1, <3>5, <5>1 DEF Outputs
          <6>2. LinesOf("out", wrote[d]["out"]) \in Seq(Line) /\ LinesOf("err", n) \in Seq(Line)
            <7>1. wrote[d]["out"] \in Nat /\ "out" \in Outputs /\ "err" \in Outputs
              BY DEF Outputs
            <7> HIDE DEF n
            <7> QED BY ONLY <3>1, <7>1, OneMoreLine
          <6>3. <<"err", n + 1>> \in Line
            BY <3>4, <5>1
          <6>4. Written(d)' = LinesOf("out", wrote'[d]["out"]) \o LinesOf("err", wrote'[d]["err"])
            BY DEF Written, LinesOf
          <6>5. \A s, t \in Seq(Line), e \in Line : s \o Append(t, e) = Append(s \o t, e)
            BY ONLY ConcatAppend
          <6>6. Written(d) = LinesOf("out", wrote[d]["out"]) \o LinesOf("err", wrote[d]["err"])
            BY WrittenIs
          <6>7. LinesOf("out", wrote[d]["out"]) \o Append(LinesOf("err", n), <<"err", n + 1>>)
                  = Append(LinesOf("out", wrote[d]["out"]) \o LinesOf("err", n), <<"err", n + 1>>)
            <7> HIDE DEF n
            <7> QED BY ONLY <6>2, <6>3, <6>5
          <6> HIDE DEF n
          <6> QED BY ONLY <6>1, <6>4, <6>6, <6>7
        <5>3. capture[d] \o Append(pipe[d]["err"], <<"err", n + 1>>)
                = Append(capture[d] \o pipe[d]["err"], <<"err", n + 1>>)
          <6>1. capture[d] \in Seq(Line) /\ pipe[d]["err"] \in Seq(Line)
            BY DEF Outputs
          <6>2. <<"err", n + 1>> \in Line
            BY <3>4, <5>1
          <6>3. \A s, t \in Seq(Line), e \in Line : s \o Append(t, e) = Append(s \o t, e)
            BY ONLY ConcatAppend
          <6> HIDE DEF n
          <6> QED BY ONLY <6>1, <6>2, <6>3
        <5>4. capture'[d] \o pipe'[d]["err"] = Written(d)'
          BY ONLY <3>2, <3>3, <5>1, <5>2, <5>3
        <5>5. pc'[d] = "read" /\ reading'[d] = "err" /\ ~Held(d, "out")'
          BY ONLY <3>3, <4>3, <5>1 DEF Held
        <5> QED BY ONLY <2>2, <5>4, <5>5 DEF Reading, Done
      <4>4. CASE pc[d] # "read"
        <5>1. pc[d] \notin {"read", "wait", "save"} /\ ~ (pc[d] = "status" /\ result[d] = "ok")
          BY <4>2, <4>4
        <5>2. pc[d] \in {"setenv", "start"} => capture[d] = <<>> /\ reading[d] = "out"
          BY <1>0, <2>2 DEF Reading
        <5> QED BY ONLY <2>2, <3>3, <5>1, <5>2 DEF Reading, Done
      <4>5. reading[d] \in {"out", "err"}
        BY DEF Outputs
      <4> QED BY <3>8, <4>3, <4>4, <4>5
    <3> QED BY <3>6, <3>7, <3>8 DEF Outputs
  <2> QED BY <2>1, <2>2
<1>5. ASSUME NEW d \in Device,
             \/ ChildCloses(d) \/ (\E code \in 0..1 : ChildExits(d, code)) \/ Kill(d)
             \/ \E o \in Outputs : ChildForks(d, o) \/ HeirsClose(d, o)
      PROVE  Reading(x)' /\ Done(x)'
  <2>1. CASE x # d
    <3>1. UNCHANGED About(x)
      BY <1>5, <2>1 DEF ChildCloses, ChildExits, Kill, ChildForks, HeirsClose, About, jobVars
    <3> QED BY <1>0, <3>1, CaptureFrame
  <2>2. CASE x = d
    <3>1. /\ UNCHANGED <<pc, pipe, wrote, reading, capture, result>>
          /\ child[d].state # "exited" \/ UNCHANGED child
          /\ \A o \in Outputs : ~Held(d, o) => ~Held(d, o)'
      <4>1. child \in [Device -> ChildRecord]
        OBVIOUS
      <4>2. ASSUME \/ ChildCloses(d) \/ Kill(d)
                   \/ \E code \in 0..1 : ChildExits(d, code)
            PROVE  /\ child[d].state # "exited" /\ child'[d].state # "running"
                   /\ UNCHANGED heirs
        <5>1. ASSUME ChildCloses(d)
              PROVE  /\ child[d].state # "exited" /\ child'[d].state # "running"
                     /\ UNCHANGED heirs
          BY ONLY <4>1, <5>1, d \in Device DEF ChildCloses, ChildRecord
        <5>2. ASSUME Kill(d)
              PROVE  /\ child[d].state # "exited" /\ child'[d].state # "running"
                     /\ UNCHANGED heirs
          BY ONLY <4>1, <5>2, d \in Device DEF Kill, ChildRecord
        <5>3. ASSUME NEW code \in 0..1, ChildExits(d, code)
              PROVE  /\ child[d].state # "exited" /\ child'[d].state # "running"
                     /\ UNCHANGED heirs
          BY ONLY <4>1, <5>3, d \in Device DEF ChildExits, ChildRecord
        <5> QED BY <4>2, <5>1, <5>2, <5>3
      <4>3. ASSUME NEW o \in Outputs, ChildForks(d, o) \/ HeirsClose(d, o)
            PROVE  /\ UNCHANGED child
                   /\ child[d].state = "running" \/ heirs'[d] \subseteq heirs[d]
        BY <4>3 DEF ChildForks, HeirsClose
      <4>4. UNCHANGED <<pc, pipe, wrote, reading, capture, result>>
        BY <1>5 DEF ChildCloses, ChildExits, Kill, ChildForks, HeirsClose, jobVars
      <4> QED BY ONLY <1>5, <4>2, <4>3, <4>4 DEF Held
    <3> QED BY <1>0, <2>2, <3>1 DEF Reading, Done, Closed, Written, Outputs
  <2> QED BY <2>1, <2>2
<1>6. ASSUME NEW d \in Device, ReadLine(d) PROVE Reading(x)' /\ Done(x)'
  <2>1. CASE x # d
    <3>1. UNCHANGED About(x)
      <4>1. /\ pipe'[x] = pipe[x] /\ capture'[x] = capture[x]
            /\ UNCHANGED <<child, heirs, wrote, reading>>
        BY <1>6, <2>1 DEF ReadLine
      <4>2. pc'[x] = pc[x] /\ result'[x] = result[x]
        <5>1. CASE ctx[d] = "live"
          BY <1>6, <2>1, <5>1 DEF ReadLine
        <5>2. CASE ctx[d] # "live"
          <6>1. Return(d, "failed")
            BY <1>6, <5>2 DEF ReadLine
          <6> QED BY <2>1, <6>1 DEF Return, Goto
        <5> QED BY <5>1, <5>2
      <4> QED BY ONLY <4>1, <4>2 DEF About
    <3> QED BY <1>0, <3>1, CaptureFrame
  <2>2. CASE x = d /\ ctx[d] = "live"
    <3> DEFINE o == reading[d]
               p == pipe[d][o]
    <3>1. p \in Seq(Line) /\ p # <<>> /\ o \in Outputs
      <4>1. o \in Outputs
        OBVIOUS
      <4>2. p \in Seq(Line)
        BY <4>1
      <4> QED BY <1>6, <4>1, <4>2 DEF ReadLine
    <3>3. Append(capture[d], Head(p)) \o Tail(p) = capture[d] \o p
      <4>1. capture[d] \in Seq(Line)
        OBVIOUS
      <4> QED BY ONLY <3>1, <4>1, HeadMoves
    <3>2. /\ pipe'[d][o] = Tail(p) /\ capture'[d] = Append(capture[d], Head(p))
          /\ \A a \in Outputs \ {o} : pipe'[d][a] = pipe[d][a]
          /\ UNCHANGED <<pc, child, heirs, wrote, reading, result>>
          /\ pc[d] = "read"
      BY <1>6, <2>2 DEF ReadLine
    <3>4. pc'[d] = "read" /\ reading'[d] = o /\ Written(d)' = Written(d)
      BY ONLY <3>2 DEF Written
    <3>5. CASE o = "out"
      <4>1. /\ capture[d] \o p = LinesOf("out", wrote[d]["out"])
            /\ pipe[d]["err"] = LinesOf("err", wrote[d]["err"])
        BY <1>0, <2>2, <3>2, <3>5 DEF Reading
      <4>2. /\ capture'[d] \o pipe'[d]["out"] = LinesOf("out", wrote'[d]["out"])
            /\ pipe'[d]["err"] = LinesOf("err", wrote'[d]["err"])
        BY ONLY <3>2, <3>3, <3>5, <4>1 DEF Outputs
      <4> QED BY ONLY <2>2, <3>4, <3>5, <4>2 DEF Reading, Done
    <3>6. CASE o = "err"
      <4>1. capture[d] \o p = Written(d) /\ ~Held(d, "out")
        BY <1>0, <2>2, <3>2, <3>6 DEF Reading
      <4>2. capture'[d] \o pipe'[d]["err"] = Written(d)' /\ ~Held(d, "out")'
        BY ONLY <3>2, <3>3, <3>4, <3>6, <4>1 DEF Held
      <4> QED BY ONLY <2>2, <3>4, <3>6, <4>2 DEF Reading, Done
    <3> QED BY ONLY <3>1, <3>5, <3>6 DEF Outputs
  <2>3. CASE x = d /\ ctx[d] # "live"
    <3>1. Quiet(d)'
      BY <1>6, <2>3 DEF ReadLine, Return, Goto, Quiet
    <3> QED BY <2>3, <3>1, QuietCapture
  <2> QED BY <2>1, <2>2, <2>3
<1>7. ASSUME NEW d \in Device, NextOutput(d) PROVE Reading(x)' /\ Done(x)'
  <2>1. CASE x # d
    <3>1. UNCHANGED About(x)
      BY <1>7, <2>1 DEF NextOutput, About, childVars, logVars
    <3> QED BY <1>0, <3>1, CaptureFrame
  <2>2. CASE x = d
    <3>1. /\ UNCHANGED <<pc, child, heirs, pipe, wrote, capture, result>>
          /\ pc[d] = "read" /\ reading[d] = "out" /\ reading'[d] = "err"
          /\ pipe[d]["out"] = <<>> /\ ~Held(d, "out")
      BY <1>7 DEF NextOutput, AtEOF, childVars, logVars
    <3>2. capture[d] = LinesOf("out", wrote[d]["out"])
      <4>1. capture[d] \o <<>> = capture[d]
        OBVIOUS
      <4> QED BY <1>0, <2>2, <3>1, <4>1 DEF Reading
    <3>3. capture[d] \o pipe[d]["err"] = Written(d)
      BY <1>0, <2>2, <3>1, <3>2, WrittenIs DEF Reading
    <3> QED BY <2>2, <3>1, <3>3 DEF Reading, Done, Held, Written
  <2> QED BY <2>1, <2>2
<1>8. ASSUME NEW d \in Device, ReadEOF(d) PROVE Reading(x)' /\ Done(x)'
  <2>1. CASE x # d
    <3>1. UNCHANGED About(x)
      BY <1>8, <2>1 DEF ReadEOF, Goto, About, jobVars, childVars, logVars
    <3> QED BY <1>0, <3>1, CaptureFrame
  <2>2. CASE x = d
    <3>1. /\ UNCHANGED <<child, heirs, pipe, wrote, capture, result, reading>>
          /\ pc[d] = "read" /\ reading[d] = "err" /\ pc'[d] = "wait"
          /\ pipe[d]["err"] = <<>> /\ ~Held(d, "err")
      BY <1>8 DEF ReadEOF, Goto, AtEOF, jobVars, childVars, logVars
    <3>2. capture[d] = Written(d)
      <4>1. capture[d] \o <<>> = capture[d]
        OBVIOUS
      <4> QED BY <1>0, <2>2, <3>1, <4>1 DEF Reading
    <3>3. Closed(d)
      BY <1>0, <2>2, <3>1 DEF Reading, Closed, Outputs
    <3> QED BY <2>2, <3>1, <3>2, <3>3 DEF Reading, Done, Closed, Held, Written
  <2> QED BY <2>1, <2>2
<1>9. ASSUME NEW d \in Device, Wait(d) \/ SaveCommit(d)
      PROVE  Reading(x)' /\ Done(x)'
  <2>1. CASE x # d
    <3>1. UNCHANGED About(x)
      BY <1>9, <2>1 DEF Wait, SaveCommit, Return, Goto, About, childVars, logVars
    <3> QED BY <1>0, <3>1, CaptureFrame
  <2>2. CASE x = d
    <3>1. /\ UNCHANGED <<child, heirs, pipe, wrote, capture, reading>>
          /\ pc[d] \in {"wait", "save"}
          /\ \/ Quiet(d)'
             \/ /\ pc'[d] = "save"
                /\ child[d].state = "exited" /\ child[d].code = 0
             \/ pc[d] = "save" /\ pc'[d] = "status"
      BY <1>9 DEF Wait, SaveCommit, Return, Goto, Quiet, childVars, logVars
    <3> QED BY <1>0, <2>2, <3>1, QuietCapture DEF Reading, Done, Closed, Held, Written
  <2> QED BY <2>1, <2>2
<1>10. CASE (\E d \in Device : Expires(d)) \/ UNCHANGED vars
  <2>1. UNCHANGED About(x)
    BY <1>10 DEF Expires, About, vars, jobVars, childVars, logVars
  <2> QED BY <1>0, <2>1, CaptureFrame
<1>11. CASE Crash
  <2>1. Quiet(x)'
    BY <1>11 DEF Crash, Quiet
  <2> QED BY <2>1, QuietCapture
<1> QED
  BY <1>1, <1>2, <1>3, <1>4, <1>5, <1>6, <1>7, <1>8, <1>9, <1>10, <1>11
  DEF Next, Job, Child

\* Only the complete output of a child that ended well is saved.
THEOREM GoodOutputOnly == Spec => []OnlyGoodOutput
<1>1. Init => CaptureInv
  BY DEF Init, CaptureInv, Reading, Done
<1>2. CaptureInv => OnlyGoodOutput
  BY DEF CaptureInv, Done, OnlyGoodOutput
<1> QED BY <1>1, <1>2, InitType, TypeStep, CaptureStep, PTL DEF Spec

------------------------------------------------------------------------------
(* The error log *)

\* The log on disk is good but between its truncation and the write, when it is empty;
\* the lines in memory are from the time they are loaded, when room was made for one more.
LogInv == \A d \in Device :
             /\ pc[d] # "push" => HasNewest(errlog[d], d) /\ AtLeast(errlog[d], sure[d], LogBound)
             /\ pc[d] = "push" => errlog[d] = <<>>
             /\ pc[d] \in {"truncate", "push"} =>
                  HasNewest(loaded[d], d) /\ AtLeast(loaded[d], sure[d], LogBound - 1)

\* Lines that agree with the newest results still do with the result of this backup
\* before both.
LEMMA OneMoreResult ==
    ASSUME NEW log \in Seq(Entry), NEW rec \in Seq(Nat), NEW e \in Entry,
           Len(log) <= Len(rec), \A i \in 1..Len(log) : log[i][1] = rec[i]
    PROVE  /\ Len(<<e>> \o log) = 1 + Len(log)
           /\ Len(<<e>> \o log) <= Len(<<e[1]>> \o rec)
           /\ \A i \in 1..Len(<<e>> \o log) : (<<e>> \o log)[i][1] = (<<e[1]>> \o rec)[i]
<1>1. e[1] \in Nat /\ <<e>> \in Seq(Entry) /\ <<e[1]>> \in Seq(Nat)
  BY DEF Entry
<1> DEFINE ll == <<e>> \o log
           rr == <<e[1]>> \o rec
<1>2. /\ ll \in Seq(Entry) /\ Len(ll) = 1 + Len(log)
      /\ \A i \in 1..(1 + Len(log)) : ll[i] = IF i <= 1 THEN <<e>>[i] ELSE log[i - 1]
  BY <1>1, ConcatProperties
<1>3. /\ rr \in Seq(Nat) /\ Len(rr) = 1 + Len(rec)
      /\ \A i \in 1..(1 + Len(rec)) : rr[i] = IF i <= 1 THEN <<e[1]>>[i] ELSE rec[i - 1]
  BY <1>1, ConcatProperties
<1> HIDE DEF ll, rr
<1>4. Len(log) \in Nat /\ Len(rec) \in Nat
  OBVIOUS
<1>5. ASSUME NEW i \in 1..Len(ll) PROVE ll[i][1] = rr[i]
  <2>1. i \in 1..(1 + Len(log)) /\ i \in 1..(1 + Len(rec))
    BY ONLY <1>2, <1>4, i \in 1..Len(ll), Len(log) <= Len(rec)
  <2>2. CASE i <= 1
    <3>1. i = 1
      BY <2>1, <2>2
    <3>2. <<e>>[1] = e /\ <<e[1]>>[1] = e[1]
      OBVIOUS
    <3> QED BY ONLY <1>2, <1>3, <2>1, <2>2, <3>1, <3>2
  <2>3. CASE ~ (i <= 1)
    <3>1. i - 1 \in 1..Len(log)
      BY ONLY <1>4, <2>1, <2>3
    <3>2. ll[i] = log[i - 1] /\ rr[i] = rec[i - 1]
      BY ONLY <1>2, <1>3, <2>1, <2>3
    <3> QED BY <3>1, <3>2
  <2> QED BY <2>2, <2>3
<1> QED BY ONLY <1>2, <1>3, <1>4, <1>5, Len(log) <= Len(rec) DEF ll, rr

LEMMA LogStep ==
    ASSUME TypeInv, LogInv, [Next]_vars
    PROVE  LogInv'
<1> USE DEF TypeInv, Shape
<1>0. LogBound \in Nat /\ LogBound - 1 \in Nat
      /\ (ErrlogHistSize - 1 >= 0 => LogBound - 1 = ErrlogHistSize - 1)
      /\ (ErrlogHistSize - 1 < 0 => LogBound - 1 = 0)
  BY RunAssumption DEF LogBound
<1>1. ASSUME NEW d \in Device,
             \/ Begin(d) \/ Setenv(d) \/ Start(d) \/ StartFails(d) \/ ReadLine(d)
             \/ MatchTimesOut(d) \/ ReadEOF(d) \/ Wait(d) \/ SaveCommit(d)
             \/ ErrlogFails(d)
      PROVE  LogInv'
  <2>1. UNCHANGED <<errlog, loaded, recorded, sure>>
    BY <1>1 DEF Begin, Setenv, Start, StartFails, ReadLine, MatchTimesOut, ReadEOF,
                Wait, SaveCommit, ErrlogFails, logVars
  <2>2. \/ pc[d] # "push" /\ pc'[d] \notin {"truncate", "push"}
        \/ UNCHANGED pc
    BY <1>1 DEF Begin, Setenv, Start, StartFails, ReadLine, MatchTimesOut, ReadEOF,
                Wait, SaveCommit, ErrlogFails, Return, Goto
  <2>3. \A x \in Device \ {d} : pc'[x] = pc[x]
    BY <1>1 DEF Begin, Setenv, Start, StartFails, ReadLine, MatchTimesOut, ReadEOF,
                Wait, SaveCommit, ErrlogFails, Return, Goto
  <2> QED BY ONLY LogInv, <2>1, <2>2, <2>3, d \in Device DEF LogInv, HasNewest
<1>2. ASSUME NEW d \in Device, LoadLines(d) PROVE LogInv'
  <2> DEFINE s == FirstOf(errlog[d], ErrlogHistSize - 1)
             e == errlog[d]
  <2>1. /\ pc' = [pc EXCEPT ![d] = "truncate"] /\ pc[d] = "status"
        /\ UNCHANGED <<errlog, recorded, sure>>
        /\ loaded' = [loaded EXCEPT ![d] = s]
    BY <1>2 DEF LoadLines, Goto
  <2>2. HasNewest(e, d) /\ AtLeast(e, sure[d], LogBound)
    BY <2>1 DEF LogInv
  <2>3. e \in Seq(Entry) /\ ErrlogHistSize - 1 \in Int
    BY RunAssumption
  <2>4. /\ s \in Seq(Entry) /\ Len(s) <= Len(e)
        /\ \A i \in 1..Len(s) : s[i] = e[i]
        /\ ErrlogHistSize - 1 >= 0 => Len(s) <= ErrlogHistSize - 1
        /\ Len(s) >= ErrlogHistSize - 1 \/ Len(s) = Len(e)
    BY ONLY <2>3, FirstOfType
  <2> HIDE DEF s, e
  <2>5. Len(s) \in Nat /\ Len(e) \in Nat /\ Len(recorded[d]) \in Nat /\ sure[d] \in Nat
    BY <2>3, <2>4
  <2>6. HasNewest(s, d)
    <3>1. Len(s) <= Len(recorded[d])
      BY ONLY <2>2, <2>4, <2>5 DEF HasNewest
    <3>2. ASSUME NEW i \in 1..Len(s) PROVE s[i][1] = recorded[d][i]
      <4>1. i \in 1..Len(e)
        BY ONLY <2>4, <2>5, i \in 1..Len(s)
      <4> QED BY ONLY <2>2, <2>4, <4>1, i \in 1..Len(s) DEF HasNewest
    <3> QED BY ONLY <3>1, <3>2 DEF HasNewest
  <2>7. AtLeast(s, sure[d], LogBound - 1)
    <3>1. Len(s) >= LogBound - 1 \/ Len(s) = Len(e)
      BY ONLY <1>0, <2>3, <2>4, <2>5
    <3>2. Len(e) >= sure[d] \/ Len(e) >= LogBound
      BY ONLY <2>2 DEF AtLeast
    <3> QED BY ONLY <1>0, <2>5, <3>1, <3>2 DEF AtLeast
  <2>8. ASSUME NEW x \in Device \ {d}
        PROVE  pc'[x] = pc[x] /\ loaded'[x] = loaded[x]
    BY <2>1
  <2>9. pc'[d] = "truncate" /\ loaded'[d] = s /\ errlog'[d] = e
    BY <2>1 DEF e
  <2> QED BY ONLY LogInv, d \in Device, <2>1, <2>2, <2>6, <2>7, <2>8, <2>9
          DEF LogInv, HasNewest, AtLeast, e
<1>3. ASSUME NEW d \in Device, Truncate(d) PROVE LogInv'
  <2>1. /\ pc[d] = "truncate" /\ pc'[d] = "push" /\ errlog'[d] = <<>>
        /\ UNCHANGED <<loaded, recorded, sure>>
        /\ \A x \in Device \ {d} : pc'[x] = pc[x] /\ errlog'[x] = errlog[x]
    BY <1>3 DEF Truncate, Goto
  <2> QED BY ONLY LogInv, d \in Device, <2>1 DEF LogInv, HasNewest
<1>4. ASSUME NEW d \in Device, Push(d) PROVE LogInv'
  <2> DEFINE s == <<Message(d)>> \o loaded[d]
  <2>1. /\ pc[d] = "push" /\ pc'[d] = "idle"
        /\ UNCHANGED loaded
        /\ errlog'[d] = s /\ recorded'[d] = <<jobs[d]>> \o recorded[d]
        /\ sure'[d] = sure[d] + 1
        /\ \A x \in Device \ {d} : /\ pc'[x] = pc[x] /\ errlog'[x] = errlog[x]
                                    /\ recorded'[x] = recorded[x] /\ sure'[x] = sure[x]
    BY <1>4 DEF Push, Goto
  <2>2. HasNewest(loaded[d], d) /\ AtLeast(loaded[d], sure[d], LogBound - 1)
    BY <2>1 DEF LogInv
  <2>3. Message(d) \in Entry /\ Message(d)[1] = jobs[d]
    BY DEF Message, Entry
  <2>4. /\ Len(s) = 1 + Len(loaded[d])
        /\ Len(s) <= Len(<<jobs[d]>> \o recorded[d])
        /\ \A i \in 1..Len(s) : s[i][1] = (<<jobs[d]>> \o recorded[d])[i]
    <3>1. /\ loaded[d] \in Seq(Entry) /\ recorded[d] \in Seq(Nat)
          /\ Len(loaded[d]) <= Len(recorded[d])
          /\ \A i \in 1..Len(loaded[d]) : loaded[d][i][1] = recorded[d][i]
      BY <2>2 DEF HasNewest
    <3> QED BY ONLY <2>3, <3>1, OneMoreResult
  <2>5. Len(loaded[d]) \in Nat /\ sure[d] \in Nat
    OBVIOUS
  <2> HIDE DEF s
  <2>6. Len(s) >= sure[d] + 1 \/ Len(s) >= LogBound
    BY ONLY <1>0, <2>2, <2>4, <2>5 DEF AtLeast
  <2>7. HasNewest(errlog[d], d)' /\ AtLeast(errlog[d], sure[d], LogBound)'
    BY ONLY <2>1, <2>4, <2>6 DEF HasNewest, AtLeast
  <2>8. ASSUME NEW x \in Device
        PROVE  /\ pc'[x] # "push" => /\ HasNewest(errlog[x], x)'
                                     /\ AtLeast(errlog[x], sure[x], LogBound)'
               /\ pc'[x] = "push" => errlog'[x] = <<>>
               /\ pc'[x] \in {"truncate", "push"} =>
                    /\ HasNewest(loaded[x], x)'
                    /\ AtLeast(loaded[x], sure[x], LogBound - 1)'
    <3>1. CASE x = d
      BY ONLY <2>1, <2>7, <3>1
    <3>2. CASE x # d
      <4>1. /\ pc'[x] = pc[x] /\ errlog'[x] = errlog[x] /\ loaded'[x] = loaded[x]
            /\ recorded'[x] = recorded[x] /\ sure'[x] = sure[x]
        BY ONLY <2>1, <3>2, x \in Device
      <4> QED BY ONLY LogInv, x \in Device, <4>1 DEF LogInv, HasNewest, AtLeast
    <3> QED BY <3>1, <3>2
  <2> QED BY ONLY <2>8 DEF LogInv
<1>7. ASSUME NEW d \in Device, PushFails(d) PROVE LogInv'
  <2> DEFINE s == <<Message(d)>> \o loaded[d]
             r == <<jobs[d]>> \o recorded[d]
  <2>1. PICK n \in 0..Len(loaded[d]), torn \in BOOLEAN :
           errlog' = [errlog EXCEPT ![d] = Partly(s, n, torn)]
    BY <1>7 DEF PushFails
  <2> DEFINE left == Partly(s, n, torn)
  <2>2. /\ pc[d] = "push" /\ pc'[d] = "idle"
        /\ UNCHANGED loaded
        /\ errlog'[d] = left
        /\ recorded'[d] = IF left = <<>> THEN recorded[d] ELSE r
        /\ sure'[d] = Len(left)
        /\ \A x \in Device \ {d} : /\ pc'[x] = pc[x] /\ errlog'[x] = errlog[x]
                                    /\ recorded'[x] = recorded[x] /\ sure'[x] = sure[x]
    BY <1>7, <2>1 DEF PushFails, Goto
  <2>3. HasNewest(loaded[d], d)
    BY <2>2 DEF LogInv
  <2>4. Message(d) \in Entry /\ Message(d)[1] = jobs[d]
    BY DEF Message, Entry
  <2>5. /\ Len(s) = 1 + Len(loaded[d])
        /\ Len(s) <= Len(r)
        /\ \A i \in 1..Len(s) : s[i][1] = r[i]
    <3>1. /\ loaded[d] \in Seq(Entry) /\ recorded[d] \in Seq(Nat)
          /\ Len(loaded[d]) <= Len(recorded[d])
          /\ \A i \in 1..Len(loaded[d]) : loaded[d][i][1] = recorded[d][i]
      BY <2>3 DEF HasNewest
    <3>2. /\ Len(<<Message(d)>> \o loaded[d]) = 1 + Len(loaded[d])
          /\ Len(<<Message(d)>> \o loaded[d]) <= Len(<<Message(d)[1]>> \o recorded[d])
          /\ \A i \in 1..Len(<<Message(d)>> \o loaded[d]) :
                (<<Message(d)>> \o loaded[d])[i][1] = (<<Message(d)[1]>> \o recorded[d])[i]
      BY ONLY <2>4, <3>1, OneMoreResult
    <3> QED BY ONLY <2>4, <3>2
  <2>6. s \in Seq(Entry) /\ r \in Seq(Nat) /\ Len(loaded[d]) \in Nat
    <3>1. <<Message(d)>> \in Seq(Entry) /\ <<jobs[d]>> \in Seq(Nat)
      BY <2>4
    <3> QED BY <3>1, ConcatProperties
  <2> HIDE DEF s, r
  <2>7. /\ left \in Seq(Entry) /\ Len(left) <= Len(s)
        /\ \A i \in 1..Len(left) : left[i][1] = s[i][1]
    <3>1. n \in Nat /\ n + 1 <= Len(s)
      BY ONLY <2>5, <2>6, n \in 0..Len(loaded[d])
    <3> QED BY ONLY <2>6, <3>1, torn \in BOOLEAN, PartlyIs
  <2> HIDE DEF left
  <2>8. Len(left) \in Nat /\ Len(s) \in Nat /\ Len(r) \in Nat /\ Len(recorded[d]) \in Nat
    BY <2>6, <2>7
  <2>9. HasNewest(errlog[d], d)'
    <3>1. CASE left = <<>>
      <4>1. Len(left) = 0 /\ 1..0 = {}
        BY <3>1
      <4> QED BY ONLY <2>2, <2>8, <3>1, <4>1 DEF HasNewest
    <3>2. CASE left # <<>>
      <4>1. Len(left) <= Len(r)
        BY ONLY <2>5, <2>7, <2>8
      <4>2. ASSUME NEW i \in 1..Len(left) PROVE left[i][1] = r[i]
        <5>1. i \in 1..Len(s)
          BY ONLY <2>7, <2>8, i \in 1..Len(left)
        <5> QED BY ONLY <2>5, <2>7, <5>1, i \in 1..Len(left)
      <4> QED BY ONLY <2>2, <3>2, <4>1, <4>2 DEF HasNewest
    <3> QED BY <3>1, <3>2
  <2>10. AtLeast(errlog[d], sure[d], LogBound)'
    BY ONLY <2>2, <2>8 DEF AtLeast
  <2> QED BY ONLY LogInv, d \in Device, <2>2, <2>9, <2>10 DEF LogInv, HasNewest, AtLeast
<1>5. CASE Crash
  <2>1. ASSUME NEW d \in Device
        PROVE  HasNewest(errlog[d], d)' /\ AtLeast(errlog[d], sure[d], LogBound)'
    <3>1. /\ errlog'[d] = errlog[d] /\ recorded'[d] = recorded[d]
          /\ sure'[d] = IF pc[d] = "push" THEN 0 ELSE sure[d]
      BY <1>5 DEF Crash
    <3>2. CASE pc[d] = "push"
      <4>1. errlog[d] = <<>> /\ Len(<<>>) = 0 /\ 1..0 = {} /\ Len(recorded[d]) \in Nat
        BY <3>2 DEF LogInv
      <4> QED BY ONLY <3>1, <3>2, <4>1 DEF HasNewest, AtLeast
    <3>3. CASE pc[d] # "push"
      BY ONLY LogInv, d \in Device, <3>1, <3>3 DEF LogInv, HasNewest, AtLeast
    <3> QED BY <3>2, <3>3
  <2>2. \A d \in Device : pc'[d] = "idle"
    BY <1>5 DEF Crash
  <2> QED BY ONLY <2>1, <2>2 DEF LogInv
<1>6. CASE (\E d \in Device : Child(d) \/ Expires(d) \/ Kill(d) \/ NextOutput(d))
           \/ UNCHANGED vars
  <2>1. UNCHANGED <<pc, errlog, loaded, recorded, sure>>
    BY <1>6 DEF Child, ChildWrites, ChildForks, HeirsClose, ChildCloses, ChildExits,
                Expires, Kill, NextOutput, vars, logVars
  <2> QED BY ONLY LogInv, <2>1 DEF LogInv, HasNewest
<1> QED BY <1>1, <1>2, <1>3, <1>4, <1>5, <1>6, <1>7 DEF Next, Job

\* Whatever crashes and whichever write fails, the error log of a device between backups
\* is made of its newest results, newest first; all since the last write that was lost,
\* or as many as it may hold.
THEOREM LogHoldsNewest == Spec => []NewestFirst
<1>1. Init => LogInv
  <2>1. Len(<<>>) = 0 /\ 1..0 = {}
    OBVIOUS
  <2> QED BY <2>1 DEF Init, LogInv, HasNewest, AtLeast
<1>2. LogInv => NewestFirst
  BY DEF LogInv, NewestFirst
<1> QED BY <1>1, <1>2, InitType, TypeStep, LogStep, PTL DEF Spec
==============================================================================
