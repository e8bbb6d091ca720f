-------------------------------- MODULE RunJob --------------------------------
(***************************************************************************)
(* Backups of devices of the model `run': a program is started            *)
(* (openPipe of src/dev/transport.go), its output captured up to its end,  *)
(* saved if it ended well, and the result written into the device's error *)
(* log (src/dev/errlog.go).                                                *)
(*                                                                         *)
(* Here the backups of one device follow each other: two at once, which    *)
(* would share its error log, are not modelled.  The child process is the  *)
(* environment: it writes to its two outputs, which hold `PipeSize' lines, *)
(* closes them and exits when it likes, or never.  So are the processes it *)
(* starts, as the shell of the default program does: they inherit its      *)
(* outputs, outlive it, and the deadline kills the child alone.  What a    *)
(* failed backup leaves behind no longer concerns it.                      *)
(***************************************************************************)
EXTENDS Integers, SequencesExt

CONSTANTS Device,      \* devices of the model run
          PipeSize,    \* lines a pipe holds
          MaxLines,    \* lines a child writes to each output
          MaxJobs,     \* backups of each device
          ErrlogHistSize,
          Nobody

ASSUME RunAssumption ==
    /\ {PipeSize, MaxLines, MaxJobs, ErrlogHistSize} \subseteq Nat
    /\ Nobody \notin Device

VARIABLES pc,       \* where each device's backup is
          jobs,     \* backups begun
          env,      \* the program's environment: whose value each variable has
          named,    \* how many variables this backup has set
          ctx,      \* "live", or why the child is to be killed
          child,    \* [state, code, env]
          heirs,    \* outputs that processes started by the child hold open
          pipe,     \* [out, err]: lines written and not read
          wrote,    \* [out, err]: number of lines written
          reading,  \* the output being read
          capture,  \* lines read
          result,   \* of the last backup
          errlog,   \* lines of the error log, newest first
          loaded,   \* lines loadLines has returned
          recorded, \* backups whose result ever got into the log, newest first
          sure      \* how many of the newest are not lost to a crash or a failed write

jobVars == <<jobs, named, ctx, reading, capture, result>>
childVars == <<child, heirs, pipe, wrote>>
logVars == <<errlog, loaded, recorded, sure>>
vars == <<pc, env, jobVars, childVars, logVars>>

Names == <<"ID", "HOSTPORT", "USER", "PASS">>
Outputs == {"out", "err"}
Both(x) == [o \in Outputs |-> x]
NoChild == [state |-> "none", code |-> 0, env |-> [n \in 1..Len(Names) |-> Nobody]]

Goto(d, place) == pc' = [pc EXCEPT ![d] = place]

------------------------------------------------------------------------------
(* openPipe *)

\* Stands for the beginning of a Fetch; the deadline runs from here.
Begin(d) ==
    /\ pc[d] = "idle" /\ jobs[d] < MaxJobs
    /\ Goto(d, "setenv")
    /\ jobs' = [jobs EXCEPT ![d] = @ + 1]
    /\ named' = [named EXCEPT ![d] = 0]
    /\ ctx' = [ctx EXCEPT ![d] = "live"]
    /\ capture' = [capture EXCEPT ![d] = <<>>]
    /\ reading' = [reading EXCEPT ![d] = "out"]
    /\ UNCHANGED <<env, result, childVars, logVars>>

Setenv(d) ==
    /\ pc[d] = "setenv"
    /\ IF named[d] = Len(Names)
       THEN Goto(d, "start") /\ UNCHANGED <<env, named>>
       ELSE /\ named' = [named EXCEPT ![d] = @ + 1]
            /\ env' = [env EXCEPT ![named'[d]] = d]
            /\ UNCHANGED pc
    /\ UNCHANGED <<jobs, ctx, reading, capture, result, childVars, logVars>>

\* The child gets the environment as it is now.
Start(d) ==
    /\ pc[d] = "start" /\ ctx[d] = "live"
    /\ Goto(d, "read")
    /\ child' = [child EXCEPT ![d] = [state |-> "running", code |-> 0, env |-> env]]
    /\ heirs' = [heirs EXCEPT ![d] = {}]
    /\ pipe' = [pipe EXCEPT ![d] = Both(<<>>)]
    /\ wrote' = [wrote EXCEPT ![d] = Both(0)]
    /\ UNCHANGED <<env, jobVars, logVars>>

\* fetch returns: its deferred Close cancels the context.
Return(d, outcome) ==
    /\ Goto(d, "status")
    /\ result' = [result EXCEPT ![d] = outcome]
    /\ ctx' = [ctx EXCEPT ![d] = IF @ = "live" THEN "cancelled" ELSE @]

\* There is no such program, or the deadline has passed.
StartFails(d) ==
    /\ pc[d] = "start"
    /\ Return(d, "failed")
    /\ UNCHANGED <<env, jobs, named, reading, capture, childVars, logVars>>

------------------------------------------------------------------------------
(* The child and its heirs, the deadline and the goroutine that kills *)

\* Some process has the writing end of the output.
Held(d, o) == child[d].state = "running" \/ o \in heirs[d]

\* By the child or an heir.
ChildWrites(d, o) ==
    /\ Held(d, o)
    /\ wrote[d][o] < MaxLines /\ Len(pipe[d][o]) < PipeSize
    /\ wrote' = [wrote EXCEPT ![d][o] = @ + 1]
    /\ pipe' = [pipe EXCEPT ![d][o] = Append(@, <<o, wrote'[d][o]>>)]
    /\ UNCHANGED <<pc, env, jobVars, child, heirs, logVars>>

\* It starts a process that keeps the output.
ChildForks(d, o) ==
    /\ child[d].state = "running" /\ o \notin heirs[d]
    /\ heirs' = [heirs EXCEPT ![d] = @ \cup {o}]
    /\ UNCHANGED <<pc, env, jobVars, child, pipe, wrote, logVars>>

\* The last process it started that has the output closes it, or ends.
HeirsClose(d, o) ==
    /\ o \in heirs[d]
    /\ heirs' = [heirs EXCEPT ![d] = @ \ {o}]
    /\ UNCHANGED <<pc, env, jobVars, child, pipe, wrote, logVars>>

\* It closes its outputs and goes on running.
ChildCloses(d) ==
    /\ child[d].state = "running"
    /\ child' = [child EXCEPT ![d].state = "quiet"]
    /\ UNCHANGED <<pc, env, jobVars, heirs, pipe, wrote, logVars>>

ChildExits(d, code) ==
    /\ child[d].state \in {"running", "quiet"}
    /\ child' = [child EXCEPT ![d].state = "exited", ![d].code = code]
    /\ UNCHANGED <<pc, env, jobVars, heirs, pipe, wrote, logVars>>

Expires(d) ==
    /\ pc[d] # "idle" /\ ctx[d] = "live"
    /\ ctx' = [ctx EXCEPT ![d] = "expired"]
    /\ UNCHANGED <<pc, env, jobs, named, reading, capture, result, childVars, logVars>>

\* Variant: the context does not reach the child.
KillNever(d) == FALSE

\* The child, and nothing it started.
Kill(d) ==
    /\ ctx[d] # "live" /\ child[d].state \in {"running", "quiet"}
    /\ child' = [child EXCEPT ![d].state = "killed"]
    /\ UNCHANGED <<pc, env, jobVars, heirs, pipe, wrote, logVars>>

------------------------------------------------------------------------------
(* match over a pipe: transpPipe.Read and result *)

\* Read waits until the last holder has closed: the deadlines match sets are no-ops on
\* a pipe (SetDeadline, 85-88).
AtEOF(d) == pipe[d][reading[d]] = <<>> /\ ~Held(d, reading[d])

\* Lines have come; when the deadline has passed they are not used.
ReadLine(d) ==
    /\ pc[d] = "read" /\ pipe[d][reading[d]] # <<>>
    /\ pipe' = [pipe EXCEPT ![d][reading[d]] = Tail(@)]
    /\ capture' = [capture EXCEPT ![d] = Append(@, Head(pipe[d][reading[d]]))]
    /\ IF ctx[d] = "live" THEN UNCHANGED <<pc, result, ctx>> ELSE Return(d, "failed")
    /\ UNCHANGED <<env, jobs, named, reading, child, heirs, wrote, logVars>>

\* MatchTimeout has passed since the first read.
MatchTimesOut(d) ==
    /\ pc[d] = "read" /\ capture[d] # <<>>
    /\ Return(d, "failed")
    /\ UNCHANGED <<env, jobs, named, reading, capture, childVars, logVars>>

\* The MultiReader goes on with the other output.
NextOutput(d) ==
    /\ pc[d] = "read" /\ reading[d] = "out" /\ AtEOF(d)
    /\ reading' = [reading EXCEPT ![d] = "err"]
    /\ UNCHANGED <<pc, env, jobs, named, ctx, capture, result, childVars, logVars>>

ReadEOF(d) ==
    /\ pc[d] = "read" /\ reading[d] = "err" /\ AtEOF(d)
    /\ Goto(d, "wait")
    /\ UNCHANGED <<env, jobVars, childVars, logVars>>

Ended(d) == child[d].state \in {"exited", "killed"}

\* Variant: how the child ended does not matter.
WaitUnchecked(d) ==
    /\ pc[d] = "wait" /\ Ended(d)
    /\ Goto(d, "save") /\ UNCHANGED <<result, ctx>>
    /\ UNCHANGED <<env, jobs, named, reading, capture, childVars, logVars>>

\* Wait, then result: anything but a good end of child and context is an error.
Wait(d) ==
    /\ pc[d] = "wait" /\ Ended(d)
    /\ IF child[d].state = "exited" /\ child[d].code = 0 /\ ctx[d] = "live"
       THEN Goto(d, "save") /\ UNCHANGED <<result, ctx>>
       ELSE Return(d, "failed")
    /\ UNCHANGED <<env, jobs, named, reading, capture, childVars, logVars>>

SaveCommit(d) ==
    /\ pc[d] = "save"
    /\ \E outcome \in {"ok", "failed"} : Return(d, outcome)
    /\ UNCHANGED <<env, jobs, named, reading, capture, childVars, logVars>>

------------------------------------------------------------------------------
(* errlog *)

\* The first n elements, or all.
FirstOf(s, n) == SubSeq(s, 1, IF n < Len(s) THEN n ELSE Len(s))

\* Variant: room for the new line is forgotten.
LoadLinesAll(d) ==
    /\ pc[d] = "status"
    /\ loaded' = [loaded EXCEPT ![d] = FirstOf(errlog[d], ErrlogHistSize)]
    /\ Goto(d, "truncate")
    /\ UNCHANGED <<env, jobVars, childVars, errlog, recorded, sure>>

LoadLines(d) ==
    /\ pc[d] = "status"
    /\ loaded' = [loaded EXCEPT ![d] = FirstOf(errlog[d], ErrlogHistSize - 1)]
    /\ Goto(d, "truncate")
    /\ UNCHANGED <<env, jobVars, childVars, errlog, recorded, sure>>

Truncate(d) ==
    /\ pc[d] = "truncate"
    /\ errlog' = [errlog EXCEPT ![d] = <<>>]
    /\ Goto(d, "push")
    /\ UNCHANGED <<env, jobVars, childVars, loaded, recorded, sure>>

Message(d) == <<jobs[d], result[d]>>

\* Variant: the new line goes last.
PushLast(d) ==
    /\ pc[d] = "push"
    /\ errlog' = [errlog EXCEPT ![d] = loaded[d] \o <<Message(d)>>]
    /\ recorded' = [recorded EXCEPT ![d] = <<jobs[d]>> \o @]
    /\ sure' = [sure EXCEPT ![d] = @ + 1]
    /\ Goto(d, "idle")
    /\ UNCHANGED <<env, jobVars, childVars, loaded>>

\* The result, then the lines loaded; one flush.
Push(d) ==
    /\ pc[d] = "push"
    /\ errlog' = [errlog EXCEPT ![d] = <<Message(d)>> \o loaded[d]]
    /\ recorded' = [recorded EXCEPT ![d] = <<jobs[d]>> \o @]
    /\ sure' = [sure EXCEPT ![d] = @ + 1]
    /\ Goto(d, "idle")
    /\ UNCHANGED <<env, jobVars, childVars, loaded>>

\* The first n lines and, if it is torn, the beginning of the next.
Partly(s, n, torn) == SubSeq(s, 1, n) \o IF torn THEN <<<<s[n + 1][1], "torn">>>> ELSE <<>>

\* After the truncation the seek fails, or a write or the flush does, wherever it was:
\* the log is left empty or short.  A failed Sync changes nothing.
PushFails(d) ==
    /\ pc[d] = "push"
    /\ \E n \in 0..Len(loaded[d]), torn \in BOOLEAN :
          errlog' = [errlog EXCEPT ![d] = Partly(<<Message(d)>> \o loaded[d], n, torn)]
    /\ recorded' = [recorded EXCEPT ![d] = IF errlog'[d] = <<>> THEN @ ELSE <<jobs[d]>> \o @]
    /\ sure' = [sure EXCEPT ![d] = Len(errlog'[d])]
    /\ Goto(d, "idle")
    /\ UNCHANGED <<env, jobVars, childVars, loaded>>

\* The log cannot be opened, read or truncated: it stays as it is.
ErrlogFails(d) ==
    /\ pc[d] \in {"status", "truncate"}
    /\ Goto(d, "idle")
    /\ UNCHANGED <<env, jobVars, childVars, logVars>>

\* The program ends and is started again; what is in the logs stays.  A write it cuts
\* off leaves what PushFails does.
Crash ==
    /\ \E d \in Device : pc[d] # "idle"
    /\ pc' = [d \in Device |-> "idle"]
    /\ env' = NoChild.env
    /\ ctx' = [d \in Device |-> "cancelled"]
    /\ child' = [d \in Device |-> NoChild]
    /\ sure' = [d \in Device |-> IF pc[d] = "push" THEN 0 ELSE sure[d]]
    /\ UNCHANGED <<jobs, named, reading, capture, result, heirs, pipe, wrote, errlog,
                   loaded, recorded>>

------------------------------------------------------------------------------
Init ==
    /\ pc = [d \in Device |-> "idle"] /\ jobs = [d \in Device |-> 0]
    /\ env = NoChild.env /\ named = [d \in Device |-> 0]
    /\ ctx = [d \in Device |-> "cancelled"]
    /\ child = [d \in Device |-> NoChild] /\ heirs = [d \in Device |-> {}]
    /\ pipe = [d \in Device |-> Both(<<>>)] /\ wrote = [d \in Device |-> Both(0)]
    /\ reading = [d \in Device |-> "out"] /\ capture = [d \in Device |-> <<>>]
    /\ result = [d \in Device |-> "none"]
    /\ errlog = [d \in Device |-> <<>>] /\ loaded = errlog /\ recorded = errlog
    /\ sure = [d \in Device |-> 0]

Job(d) == \/ Setenv(d) \/ Start(d) \/ StartFails(d)
          \/ ReadLine(d) \/ MatchTimesOut(d) \/ NextOutput(d) \/ ReadEOF(d)
          \/ Wait(d) \/ SaveCommit(d)
          \/ LoadLines(d) \/ Truncate(d) \/ Push(d) \/ PushFails(d) \/ ErrlogFails(d)

Child(d) == \/ \E o \in Outputs : ChildWrites(d, o) \/ ChildForks(d, o) \/ HeirsClose(d, o)
            \/ ChildCloses(d)
            \/ \E code \in 0..1 : ChildExits(d, code)

Next == \/ \E d \in Device : Begin(d) \/ Job(d) \/ Child(d) \/ Expires(d) \/ Kill(d)
        \/ Crash

\* Goroutines and timers run; a child and its heirs need not do anything.
Fairness == \A d \in Device : WF_vars(Job(d)) /\ WF_vars(Expires(d)) /\ WF_vars(Kill(d))
Spec == Init /\ [][Next]_vars /\ Fairness

------------------------------------------------------------------------------
(* Properties *)

LogBound == IF ErrlogHistSize = 0 THEN 1 ELSE ErrlogHistSize

\* Every variable keeps its shape, and a log has at most ErrlogHistSize lines, or the
\* one that is always written.
TypeOK ==
    /\ pc \in [Device -> {"idle", "setenv", "start", "read", "wait", "save", "status",
                          "truncate", "push"}]
    /\ \A d \in Device :
         /\ jobs[d] \in 0..MaxJobs /\ named[d] \in 0..Len(Names)
         /\ ctx[d] \in {"live", "expired", "cancelled"}
         /\ child[d].state \in {"none", "running", "quiet", "exited", "killed"}
         /\ heirs[d] \subseteq Outputs /\ reading[d] \in Outputs
         /\ Len(errlog[d]) <= LogBound

Written(d) == [i \in 1..wrote[d].out |-> <<"out", i>>] \o
              [i \in 1..wrote[d].err |-> <<"err", i>>]

\* A backup that succeeds has saved all that was written, first to the output and then
\* to the errors, by the child and what it started; the child was not killed and says
\* itself that it did well.
OnlyGoodOutput ==
    \A d \in Device :
        pc[d] = "status" /\ result[d] = "ok" =>
            /\ capture[d] = Written(d)
            /\ child[d].state = "exited" /\ child[d].code = 0

\* Log s has one line for each of the newest results that were ever logged.
HasNewest(s, d) == /\ Len(s) <= Len(recorded[d])
                   /\ \A i \in 1..Len(s) : s[i][1] = recorded[d][i]

AtLeast(s, n, bound) == Len(s) >= n \/ Len(s) >= bound

\* Between backups the lines of the error log are the newest results, newest
\* first and none passed over, whatever failed or crashed before.  How far back they go
\* depends on that: to the last write that failed or was cut off by a crash, which may
\* lose any of the older ones, or to the log's size.  (Backups of one device one after
\* the other.)
NewestFirst ==
    \A d \in Device :
        pc[d] = "idle" => HasNewest(errlog[d], d) /\ AtLeast(errlog[d], sure[d], LogBound)

\* A backup comes to its end although the child may hang, or wait for a reader of its
\* second output while the first is being read, unless a process the child has started
\* keeps an output open for ever: that the deadline does not end.
JobEnds ==
    \A d \in Device :
        []<>(heirs[d] = {}) => (pc[d] # "idle" ~> pc[d] = "idle")

\* The child is told the id and the password of the device it is run for.
OwnEnvironment ==
    \A d \in Device :
        child[d].state = "running" => child[d].env = [n \in 1..Len(Names) |-> d]
==============================================================================
