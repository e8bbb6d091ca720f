--------------------------- MODULE SchedulerProofs ---------------------------
(***************************************************************************)
(* Theorems about Scheduler, for every value of its constants: any number  *)
(* of devices, Run buttons, sessions and settings, and devices purged at   *)
(* any moment.                                                             *)
(***************************************************************************)
EXTENDS Scheduler, FiniteSetTheorems, TLAPS

------------------------------------------------------------------------------
(* Types *)

\* The clone a session is about to store is one of the settings in use.
CloneOK == \A e \in Editor : ui[e].pc = "mark" => ui[e].opt \in OptionSet
\* Scan waits for a reply only with a request pending: its count stays a natural.
AwaitOK == scanPc = "recv" => wait > 0
TypeInv == TypeOK /\ CloneOK /\ AwaitOK

\* The copy a method of the table returns or stores is an entry, and the table
\* stays a table.
LEMMA UpdateDeviceType ==
    ASSUME NEW t, IsTable(t), NEW d, NEW en \in Entry
    PROVE  IsTable(UpdateDevice(t, d, en))
BY DEF IsTable, UpdateDevice, Found

LEMMA SetDeviceType ==
    ASSUME NEW t, IsTable(t), NEW d \in Device, NEW en \in Entry
    PROVE  IsTable(SetDevice(t, d, en))
BY DEF IsTable, SetDevice, Found

LEMMA RestrictType ==
    ASSUME NEW t, IsTable(t), NEW d
    PROVE  IsTable(Restrict(t, DOMAIN t \ {d}))
BY DEF IsTable, Restrict

LEMMA BlankType == /\ Blank \in Entry
                   /\ IdleJob \in JobRecord
                   /\ IdleUi \in UiRecord
BY DEF Blank, Entry, Rev, Never, IdleJob, IdleUi, JobPc, Options, JobRecord,
       UiRecord

LEMMA InitType == Init => TypeInv
<1> SUFFICES ASSUME Init PROVE TypeInv
  OBVIOUS
<1>1. IsTable(table)
  BY DEF Init, IsTable, InitEntry, Entry, Rev
<1>2. IsTable(pending)
  BY DEF Init, IsTable, NoTable
<1>3. savedAt \in [Device -> Nat \cup {Never}]
  <2>1. \A d \in Device : Found(table, d) => table[d].lastSuccess \in Nat \cup {Never}
    BY <1>1 DEF IsTable, Found, Entry
  <2> QED BY <2>1 DEF Init
<1>4. /\ once \in RunOnce /\ opt \in OptionSet /\ now \in 0..MaxTime /\ scanPc \in ScanPc
      /\ scanOpt \in OptionSet /\ wait \in Nat /\ spawner \in {"recv", "busy", "exit"}
  BY BoundAssumption DEF Init, ScanPc
<1>5. job \in [Job -> JobRecord]
  BY BlankType DEF Init
<1>6. ui \in [Editor -> UiRecord]
  BY BlankType DEF Init
<1>7. CloneOK /\ AwaitOK
  BY DEF Init, CloneOK, AwaitOK, IdleUi
<1> QED BY <1>1, <1>2, <1>3, <1>4, <1>5, <1>6, <1>7 DEF TypeInv, TypeOK
\* Every action keeps the types; the cases that write the table use the lemmas
\* above.
LEMMA TypeStep == TypeInv /\ [Next]_vars => TypeInv'
<1> SUFFICES ASSUME TypeInv, [Next]_vars PROVE TypeInv'
  OBVIOUS
<1> USE DEF TypeInv, TypeOK, CloneOK, AwaitOK, scanVars
<1>1. CASE ScanOptions \/ ScanList
  BY <1>1 DEF ScanOptions, ScanList, ScanPc
<1>2. CASE ScanAwait
  BY <1>2 DEF ScanAwait, ScanPc
<1>3. CASE ScanFinish
  BY <1>3 DEF ScanFinish, ScanPc
<1>4. CASE ScanAgain
  BY <1>4 DEF ScanAgain, ScanPc
<1>5. ASSUME NEW d \in Device, ScanSkip(d) PROVE TypeInv'
  BY <1>5, RestrictType DEF ScanSkip, LookAt
<1>6. ASSUME NEW d \in Device, ScanOffer(d) PROVE TypeInv'
  <2>1. IsTable(pending)'
    BY <1>6, RestrictType DEF ScanOffer, LookAt
  <2>2. [IdleJob EXCEPT !.pc = "send", !.dev = d] \in
          JobRecord
    BY BlankType DEF JobRecord, JobPc
  <2> QED BY <1>6, <2>1, <2>2 DEF ScanOffer, ScanPc, Job
<1>7. ASSUME NEW d \in Device, ScanRecv(d) PROVE TypeInv'
  BY <1>7, BlankType DEF ScanRecv, ScanPc, Job
<1>8. CASE SpawnerExit
  BY <1>8 DEF SpawnerExit
<1>9. ASSUME NEW j \in Job, SpawnerGo(j) PROVE TypeInv'
  BY <1>9 DEF SpawnerGo, JobPc, JobRecord
<1>10. ASSUME NEW j \in Job, SpawnerMiss(j) PROVE TypeInv'
  BY <1>10, BlankType DEF SpawnerMiss, JobPc, JobRecord
<1>11. ASSUME NEW j \in Job, SpawnerRecv(j) PROVE TypeInv'
  BY <1>11 DEF SpawnerRecv, JobPc, JobRecord, ScanPc
<1>12. ASSUME NEW j \in Job, NEW good \in BOOLEAN, FetchEnd(j, good)
       PROVE TypeInv'
  <2>1. now \in Nat
    BY BoundAssumption
  <2>2. savedAt' \in [Device -> Nat \cup {Never}]
    BY <1>12, <2>1 DEF FetchEnd
  <2>3. [job[j] EXCEPT !.pc = "status", !.good = good, !.end = now] \in JobRecord
    BY <2>1 DEF JobRecord, JobPc
  <2> QED BY <1>12, <2>2, <2>3 DEF FetchEnd
<1>13. ASSUME NEW j \in Job, StatusGet(j) PROVE TypeInv'
  <2>1. CASE Found(table, job[j].dev)
    <3>1. table[job[j].dev] \in Entry
      BY <2>1 DEF IsTable, Found
    <3>2. [job[j] EXCEPT !.pc = "update", !.copy = table[job[j].dev]] \in JobRecord
      BY <3>1 DEF JobRecord, JobPc
    <3> QED BY <1>13, <2>1, <3>2 DEF StatusGet
  <2>2. CASE ~ Found(table, job[j].dev)
    BY <1>13, <2>2, BlankType DEF StatusGet, Over, JobPc, JobRecord
  <2> QED BY <2>1, <2>2
<1>14. ASSUME NEW j \in Job, StatusPut(j) PROVE TypeInv'
  <2>1. NewStatus(j) \in Entry
    BY DEF NewStatus, Entry, JobRecord
  <2>2. IsTable(table)'
    BY <1>14, <2>1, UpdateDeviceType DEF StatusPut
  <2> QED BY <1>14, <2>2, BlankType DEF StatusPut, Over, JobPc, JobRecord
<1>15. ASSUME NEW c \in Click, ClickPut(c) PROVE TypeInv'
  <2>1. [job[c].copy EXCEPT !.lastSuccess = Never] \in Entry
    BY DEF Entry, Job, JobRecord
  <2>2. IsTable(table)'
    BY <1>15, <2>1, UpdateDeviceType DEF ClickPut
  <2> QED BY <1>15, <2>2 DEF ClickPut, JobPc, JobRecord, Job
<1>16. ASSUME NEW c \in Click, NEW d \in Device, ClickGet(c, d)
       PROVE TypeInv'
  BY <1>16, BlankType DEF ClickGet, JobPc, JobRecord, Job, IsTable, Found
<1>17. ASSUME NEW e \in Editor, UiStep(e) PROVE TypeInv'
  <2>1. ASSUME NEW d \in Device, NEW id \in Device, NEW deleted \in BOOLEAN,
               EditGet(e, d, id, deleted)
        PROVE TypeInv'
    <3>1. [table[d] EXCEPT !.deleted = deleted, !.rev = e] \in Entry
      <4>1. table[d] \in Entry
        BY <2>1 DEF EditGet, Found, IsTable
      <4> QED BY <4>1 DEF Entry, Rev
    <3>2. [ui[e] EXCEPT !.pc = "put", !.id = id,
                        !.copy = [table[d] EXCEPT !.deleted = deleted, !.rev = e]]
            \in UiRecord
      BY <3>1 DEF UiRecord
    <3> QED BY <2>1, <3>2 DEF EditGet, UiRecord
  <2>2. ASSUME NEW d \in Device, Create(e, d) PROVE TypeInv'
    <3>1. [Blank EXCEPT !.rev = e] \in Entry
      BY DEF Blank, Entry, Rev
    <3>2. IsTable(table)'
      BY <2>2, <3>1, SetDeviceType DEF Create
    <3> QED BY <2>2, <3>2 DEF Create, UiRecord
  <2>3. ASSUME NEW o \in OptionSet, SetOptions(e, o) PROVE TypeInv'
    BY <2>3 DEF SetOptions, UiRecord
  <2>4. CASE EditPut(e)
    <3>1. IsTable(table)'
      BY <2>4, UpdateDeviceType DEF EditPut, UiRecord
    <3> QED BY <2>4, <3>1, BlankType DEF EditPut, IdleUi, UiRecord
  <2>5. CASE SaveGet(e)
    <3>1. [ui[e] EXCEPT !.pc = "mark", !.opt = opt] \in UiRecord /\ opt \in OptionSet
      BY OptionAssumption DEF Options, UiRecord
    <3> QED BY <2>5, <3>1 DEF SaveGet
  <2>6. CASE SaveSet(e)
    BY <2>6, BlankType DEF SaveSet, IdleUi, UiRecord
  <2> QED BY <1>17, <2>1, <2>2, <2>3, <2>4, <2>5, <2>6 DEF UiStep
<1>18. ASSUME NEW d \in Device, Purge(d) PROVE TypeInv'
  BY <1>18, RestrictType DEF Purge, PurgeDevice
<1>19. CASE Tick
  BY <1>19, BoundAssumption DEF Tick
<1>20. CASE UNCHANGED vars
  BY <1>20 DEF vars
<1> QED
  BY <1>1, <1>2, <1>3, <1>4, <1>5, <1>6, <1>7, <1>8, <1>9, <1>10, <1>11, <1>12,
     <1>13, <1>14, <1>15, <1>16, <1>17, <1>18, <1>19, <1>20
     DEF Next, ScanStep, SpawnerStep, FetchStep

\* Type correctness.
THEOREM TypeCorrect == Safety => []TypeOK
<1>1. Safety => []TypeInv
  BY InitType, TypeStep, PTL DEF Safety
<1>2. TypeInv => TypeOK
  BY DEF TypeInv
<1> QED BY <1>1, <1>2, PTL

------------------------------------------------------------------------------
(* Scan's count and its limit *)

LEMMA OutstandingFinite == /\ Outstanding \subseteq Device
                           /\ IsFiniteSet(Outstanding)
                           /\ Cardinality(Outstanding) \in Nat
BY DeviceAssumption, FS_Subset, FS_CardinalityType DEF Outstanding

\* A step that moves no device between the list, the offer and the outstanding
\* jobs, and no variable of Scan, keeps the invariant.
LEMMA Aside ==
    ASSUME ScanInv, UNCHANGED scanVars,
           Outstanding' = Outstanding, Offered' = Offered,
           \A d \in Device : job'[d].pc # "clear"
    PROVE  ScanInv'
BY DEF ScanInv, WaitCountsOutstanding, ScanConcurrency, AtLimit, scanVars

LEMMA InitScan == Init => ScanInv
<1> SUFFICES ASSUME Init PROVE ScanInv
  OBVIOUS
<1>1. Outstanding = {} /\ Offered = {}
  BY DEF Init, Outstanding, Offered, Job, IdleJob
<1>2. DOMAIN pending = {}
  BY DEF Init, NoTable
<1>3. \A d \in Device : job[d].pc # "clear"
  BY DEF Init, Job, IdleJob
<1>4. scanOpt.max \in Nat
  BY OptionAssumption DEF Init
<1> QED
  BY <1>1, <1>2, <1>3, <1>4, FS_EmptySet
     DEF Init, ScanInv, WaitCountsOutstanding, ScanConcurrency, AtLimit

LEMMA ScanStepInv ==
    ASSUME TypeInv, ScanInv, ScanStep
    PROVE  ScanInv'
<1> USE DEF TypeInv, TypeOK, AwaitOK
<1>0. scanOpt.max \in Nat /\ opt.max \in Nat
  BY OptionAssumption
<1>1. CASE ScanOptions \/ ScanList
  <2>1. Outstanding' = Outstanding /\ Offered' = Offered
    BY <1>1 DEF ScanOptions, ScanList, Outstanding, Offered
  <2>2. Outstanding = {} /\ Offered = {}
    BY <1>1, OutstandingFinite, FS_EmptySet
       DEF ScanOptions, ScanList, ScanInv, WaitCountsOutstanding
  <2>3. table = NoTable => DOMAIN table = {}
    BY DEF NoTable
  <2> QED BY <1>0, <1>1, <2>1, <2>2, <2>3
          DEF ScanOptions, ScanList, ScanInv, WaitCountsOutstanding, ScanConcurrency, AtLimit
<1>2. ASSUME NEW d \in Device, ScanSkip(d) PROVE ScanInv'
  <2>1. Outstanding' = Outstanding /\ Offered' = Offered
    BY <1>2 DEF ScanSkip, Outstanding, Offered
  <2>2. DOMAIN pending' \subseteq DOMAIN pending
    BY <1>2 DEF ScanSkip, LookAt, Restrict
  <2> QED BY <1>2, <2>1, <2>2
          DEF ScanSkip, LookAt, ScanInv, WaitCountsOutstanding, ScanConcurrency,
              AtLimit
<1>3. ASSUME NEW d \in Device, ScanOffer(d) PROVE ScanInv'
  <2>1. job' = [job EXCEPT ![d] = [IdleJob EXCEPT !.pc = "send", !.dev = d]]
        /\ [IdleJob EXCEPT !.pc = "send", !.dev = d].pc = "send"
    BY <1>3 DEF ScanOffer, IdleJob
  <2>2. Offered = {} /\ d \notin Outstanding
    BY <1>3 DEF ScanOffer, LookAt, ScanInv
  <2>3. Outstanding' = Outstanding /\ Offered' = {d}
    BY <2>1, <2>2 DEF Outstanding, Offered, Job
  <2>4. DOMAIN pending' = DOMAIN pending \ {d}
    BY <1>3 DEF ScanOffer, LookAt, Restrict
  <2>5. \A x \in Device : job'[x].pc # "clear"
    BY <2>1 DEF ScanInv, Job
  <2> QED BY <1>3, <2>3, <2>4, <2>5
          DEF ScanOffer, LookAt, ScanInv, WaitCountsOutstanding, ScanConcurrency,
              AtLimit
<1>4. CASE ScanAwait \/ ScanFinish \/ ScanAgain
  <2>1. Outstanding' = Outstanding /\ Offered' = Offered
    BY <1>4 DEF ScanAwait, ScanFinish, ScanAgain, Outstanding, Offered
  <2> QED BY <1>4, <2>1
          DEF ScanAwait, ScanFinish, ScanAgain, ScanInv, WaitCountsOutstanding,
              ScanConcurrency, AtLimit
<1>5. ASSUME NEW d \in Device, ScanRecv(d) PROVE ScanInv'
  <2>1. d \in Outstanding /\ Offered = {}
    BY <1>5 DEF ScanRecv, Outstanding, ScanInv
  <2>2. Outstanding' = Outstanding \ {d} /\ Offered' = Offered
    BY <1>5, <2>1 DEF ScanRecv, Outstanding, Offered, IdleJob, Job
  <2>3. Cardinality(Outstanding') = Cardinality(Outstanding) - 1
    BY <2>1, <2>2, OutstandingFinite, FS_RemoveElement
  <2>4. \A x \in Device : job'[x].pc # "clear"
    BY <1>5 DEF ScanRecv, ScanInv, IdleJob, Job
  <2> QED BY <1>0, <1>5, <2>1, <2>2, <2>3, <2>4, OutstandingFinite
          DEF ScanRecv, ScanInv, WaitCountsOutstanding, ScanConcurrency, AtLimit
<1> QED BY <1>1, <1>2, <1>3, <1>4, <1>5 DEF ScanStep

LEMMA SpawnerRecvInv ==
    ASSUME TypeInv, ScanInv, NEW j \in Job, SpawnerRecv(j)
    PROVE  ScanInv'
<1> USE DEF TypeInv, TypeOK
<1>0. scanOpt.max \in Nat
  BY OptionAssumption
<1>1. CASE j \in Device
  <2>1. Offered = {j} /\ j \notin Outstanding /\ scanPc = "send"
    BY <1>1 DEF SpawnerRecv, Offered, Outstanding, ScanInv
  <2>2. Outstanding' = Outstanding \cup {j} /\ Offered' = {}
    BY <1>1, <2>1 DEF SpawnerRecv, Outstanding, Offered, JobRecord
  <2>3. Cardinality(Outstanding') = Cardinality(Outstanding) + 1
    BY <2>1, <2>2, OutstandingFinite, FS_AddElement
  <2>4. \A x \in Device : job'[x].pc # "clear"
    BY <1>1 DEF SpawnerRecv, ScanInv, JobRecord, Job
  <2> QED BY <1>0, <1>1, <2>1, <2>2, <2>3, <2>4, OutstandingFinite
          DEF SpawnerRecv, ScanInv, WaitCountsOutstanding, ScanConcurrency, AtLimit
<1>2. CASE j \in Click
  <2>1. \A d \in Device : job'[d] = job[d]
    BY <1>2, DeviceAssumption DEF SpawnerRecv, Job
  <2> QED BY <1>2, <2>1, DeviceAssumption, Aside
          DEF SpawnerRecv, Outstanding, Offered, ScanInv, scanVars
<1> QED BY <1>1, <1>2 DEF Job

\* What the Spawner and a Fetch goroutine do with an outstanding request leaves
\* it outstanding; what is done for a Run button concerns no device of the scan.
LEMMA JobAside ==
    ASSUME TypeInv, NEW j \in Job,
           SpawnerGo(j) \/ SpawnerMiss(j) \/ FetchStep(j)
    PROVE  /\ UNCHANGED scanVars
           /\ Outstanding' = Outstanding /\ Offered' = Offered
           /\ \A d \in Device : job[d].pc # "clear" => job'[d].pc # "clear"
<1> USE DEF TypeInv, TypeOK
<1>1. UNCHANGED scanVars
  BY DEF SpawnerGo, SpawnerMiss, FetchStep, FetchEnd, StatusGet, StatusPut
<1>2. /\ \A d \in Device \ {j} : job'[d] = job[d]
      /\ j \in Device => j \in Outstanding /\ j \in Outstanding'
  <2>1. CASE SpawnerGo(j)
    BY <2>1 DEF SpawnerGo, Outstanding, Job, JobRecord
  <2>2. CASE SpawnerMiss(j)
    BY <2>2 DEF SpawnerMiss, Outstanding, Job, JobRecord
  <2>3. ASSUME NEW good \in BOOLEAN, FetchEnd(j, good)
        PROVE  /\ \A d \in Device \ {j} : job'[d] = job[d]
               /\ j \in Device => j \in Outstanding /\ j \in Outstanding'
    BY <2>3 DEF FetchEnd, Outstanding, Job, JobRecord
  <2>4. CASE StatusGet(j)
    BY <2>4 DEF StatusGet, Over, Outstanding, Job, JobRecord
  <2>5. CASE StatusPut(j)
    BY <2>5 DEF StatusPut, Over, Outstanding, Job, JobRecord
  <2> QED BY <2>1, <2>2, <2>3, <2>4, <2>5 DEF FetchStep
<1> QED BY <1>1, <1>2 DEF Outstanding, Offered

\* Run buttons, sessions and the environment leave Scan and its jobs alone.
LEMMA OtherAside ==
    ASSUME TypeInv,
           \/ \E c \in Click : ClickPut(c) \/ \E d \in Device : ClickGet(c, d)
           \/ \E e \in Editor : UiStep(e)
           \/ \E d \in Device : Purge(d)
           \/ Tick
           \/ UNCHANGED vars
    PROVE  UNCHANGED scanVars /\ \A d \in Device : job'[d] = job[d]
<1>1. UNCHANGED scanVars
  BY ZenonT(30) DEF ClickPut, ClickGet, UiStep, EditGet, EditPut, Create,
         SetOptions, SaveGet, SaveSet, Purge, Tick, vars, scanVars
<1>2. \A d \in Device : job'[d] = job[d]
  <2>1. CASE \E c \in Click : ClickPut(c) \/ \E d \in Device : ClickGet(c, d)
    BY <2>1, DeviceAssumption DEF ClickPut, ClickGet, Job, TypeInv, TypeOK
  <2> QED BY <2>1 DEF UiStep, EditGet, EditPut, Create, SetOptions,
                      SaveGet, SaveSet, Purge, Tick, vars
<1> QED BY ONLY <1>1, <1>2

LEMMA ScanInvStep == TypeInv /\ ScanInv /\ [Next]_vars => ScanInv'
<1> SUFFICES ASSUME TypeInv, ScanInv, [Next]_vars PROVE ScanInv'
  OBVIOUS
<1>1. ASSUME NEW j \in Job, SpawnerGo(j) \/ SpawnerMiss(j) \/ FetchStep(j)
      PROVE  ScanInv'
  BY <1>1, JobAside, Aside DEF ScanInv
<1>2. CASE SpawnerExit
  BY <1>2, Aside DEF SpawnerExit, scanVars, ScanInv, Outstanding, Offered
<1>3. CASE \/ \E c \in Click : ClickPut(c) \/ \E d \in Device : ClickGet(c, d)
           \/ \E e \in Editor : UiStep(e)
           \/ \E d \in Device : Purge(d)
           \/ Tick
           \/ UNCHANGED vars
  BY <1>3, OtherAside, Aside DEF ScanInv, Outstanding, Offered
<1> QED BY <1>1, <1>2, <1>3, ScanStepInv, SpawnerRecvInv DEF Next, SpawnerStep

LEMMA Inductive == Safety => [](TypeInv /\ ScanInv)
BY InitType, InitScan, TypeStep, ScanInvStep, PTL DEF Safety

\* The number Scan compares with maxconcurrency is the number of its backups in
\* progress, whatever the goroutines' interleaving.
THEOREM CountCorrect == Safety => []WaitCountsOutstanding
<1>1. ScanInv => WaitCountsOutstanding
  BY DEF ScanInv
<1> QED BY <1>1, Inductive, PTL

\* Scan never has more than maxconcurrency backups of its own in progress.
THEOREM LimitRespected == Safety => []ScanConcurrency
<1>1. ScanInv => ScanConcurrency
  BY DEF ScanInv
<1> QED BY <1>1, Inductive, PTL

\* No goroutine replies to a scan that is over.
THEOREM RepliesReceived == Safety => []ReplyAwaited
<1>1. TypeInv /\ ScanInv => ReplyAwaited
  <2> SUFFICES ASSUME TypeInv, ScanInv,
                      NEW d \in Device, job[d].pc \in {"reply", "miss"}
               PROVE  wait > 0 /\ scanPc \in {"launch", "send", "recv"}
    BY DEF ReplyAwaited
  <2>1. d \in Outstanding
    BY DEF Outstanding
  <2>2. wait # 0
    BY <2>1, OutstandingFinite, FS_EmptySet DEF ScanInv, WaitCountsOutstanding
  <2> QED BY <2>2 DEF TypeInv, TypeOK, ScanPc, ScanInv
<1> QED BY <1>1, Inductive, PTL

\* With -runOnce the channel is closed with no request anywhere.
THEOREM NothingLeft == Safety => []OnceComplete
<1>1. TypeInv /\ ScanInv => OnceComplete
  <2> SUFFICES ASSUME TypeInv, ScanInv, scanPc = "closed", NEW j \in Job
               PROVE  job[j].pc = "idle"
    BY DEF OnceComplete
  <2>1. j \in Device
    BY RunOnceAssumption DEF ScanInv, Job, TypeInv, TypeOK
  <2>2. j \notin Outstanding /\ j \notin Offered
    BY OutstandingFinite, FS_EmptySet DEF ScanInv, WaitCountsOutstanding
  <2> QED BY <2>1, <2>2
          DEF ScanInv, Outstanding, Offered, TypeInv, TypeOK, JobRecord, JobPc
<1> QED BY <1>1, Inductive, PTL

------------------------------------------------------------------------------
(* Holdtime *)

\* Nobody but Scan asks for backups and nobody edits devices.  Neither can be dropped:
\* a Run button clears the status, and a session that saves properties writes back
\* the status it read, which may be older than a backup.
ScanAlone == Click = {} /\ Editor = {}

\* This backup of d is saved and the table does not say so yet.
Unrecorded(d) == job[d].pc \in {"status", "update"} /\ job[d].good

\* What Scan decides by, for each device, is when a backup of it was last saved: on
\* its list for the devices it has not looked at, in the table unless the goroutine
\* that saved the backup still has to record it, and in that goroutine's copy.
HoldInv ==
    /\ \A d \in DOMAIN pending : pending[d].lastSuccess = savedAt[d]
    /\ \A d \in Device :
         /\ job[d].pc # "idle" => job[d].dev = d
         /\ Unrecorded(d) => job[d].end = savedAt[d]
         /\ d \in DOMAIN table /\ ~ Unrecorded(d) => table[d].lastSuccess = savedAt[d]
         /\ job[d].pc = "update" /\ ~ job[d].good => job[d].copy.lastSuccess = savedAt[d]

LEMMA InitHold == Init => HoldInv
<1> SUFFICES ASSUME Init PROVE HoldInv
  OBVIOUS
<1>1. \A d \in Device : job[d].pc = "idle"
  BY DEF Init, IdleJob, Job
<1>2. \A d \in Device : Found(table, d) => table[d].lastSuccess = savedAt[d]
  BY DEF Init
<1>3. DOMAIN pending = {}
  BY DEF Init, NoTable
<1> QED BY <1>1, <1>2, <1>3 DEF HoldInv, Unrecorded, Found

\* Nothing but the jobs before "status" or after "update" may change.
LEMMA HoldAside ==
    ASSUME HoldInv, UNCHANGED <<table, savedAt>>,
           \A d \in DOMAIN pending' : d \in DOMAIN pending /\ pending'[d] = pending[d],
           \A d \in Device :
               \/ job'[d] = job[d]
               \/ /\ ~ Unrecorded(d) /\ job'[d].pc \notin {"status", "update"}
                  /\ job'[d].pc # "idle" => job'[d].dev = d
    PROVE  HoldInv'
BY DEF HoldInv, Unrecorded

LEMMA HoldStep ==
    ASSUME TypeInv, ScanInv, ScanAlone, HoldInv, [Next]_vars
    PROVE  HoldInv'
<1> USE DEF TypeInv, TypeOK
<1>0. Job = Device
  BY DEF ScanAlone, Job
<1>1. CASE ScanList
  <2>1. \A d \in Device : job[d].pc \notin {"status", "update"}
    <3>1. Outstanding = {}
      BY <1>1, OutstandingFinite, FS_EmptySet
         DEF ScanList, ScanInv, WaitCountsOutstanding
    <3> QED BY <3>1 DEF Outstanding
  <2>2. \A d \in DOMAIN table : d \in Device /\ table[d].lastSuccess = savedAt[d]
    BY <2>1 DEF HoldInv, Unrecorded, IsTable
  <2> QED BY <1>1, <2>2 DEF ScanList, HoldInv, Unrecorded
<1>2. ASSUME NEW d \in Device, ScanSkip(d) PROVE HoldInv'
  BY <1>2, HoldAside DEF ScanSkip, LookAt, Restrict
<1>3. ASSUME NEW d \in Device, ScanOffer(d) PROVE HoldInv'
  <2>1. /\ \A x \in Device \ {d} : job'[x] = job[x]
        /\ job'[d].dev = d /\ job'[d].pc = "send"
    BY <1>0, <1>3 DEF ScanOffer, IdleJob
  <2>2. d \notin Outstanding
    BY <1>3 DEF ScanOffer, LookAt, ScanInv
  <2>3. ~ Unrecorded(d)
    BY <2>2 DEF Outstanding, Unrecorded
  <2>4. /\ UNCHANGED <<table, savedAt>>
        /\ \A x \in DOMAIN pending' : x \in DOMAIN pending /\ pending'[x] = pending[x]
    BY <1>3 DEF ScanOffer, LookAt, Restrict
  <2> QED BY <2>1, <2>3, <2>4, HoldAside
<1>4. ASSUME NEW d \in Device, ScanRecv(d) PROVE HoldInv'
  <2>1. (\A x \in Device \ {d} : job'[x] = job[x]) /\ job'[d].pc = "idle"
    BY <1>0, <1>4 DEF ScanRecv, IdleJob
  <2> QED BY <1>4, <2>1, HoldAside DEF ScanRecv, Unrecorded
<1>5. CASE \/ ScanOptions \/ ScanAwait \/ ScanFinish \/ ScanAgain \/ SpawnerExit \/ Tick
           \/ UNCHANGED vars
  BY <1>5, HoldAside
     DEF ScanOptions, ScanAwait, ScanFinish, ScanAgain, SpawnerExit, Tick, vars, scanVars
<1>6. ASSUME NEW d \in Device, SpawnerRecv(d) \/ SpawnerGo(d) \/ SpawnerMiss(d)
      PROVE  HoldInv'
  <2>1. /\ UNCHANGED <<table, savedAt, pending>> /\ ~ Unrecorded(d)
        /\ \A x \in Device \ {d} : job'[x] = job[x]
        /\ job'[d].pc \in {"spawn", "fetch", "miss"} /\ job'[d].dev = job[d].dev
        /\ job[d].pc # "idle"
    BY <1>0, <1>6
       DEF SpawnerRecv, SpawnerGo, SpawnerMiss, JobRecord, Unrecorded, scanVars
  <2> QED BY <2>1, HoldAside DEF HoldInv
<1>7. ASSUME NEW d \in Device, NEW good \in BOOLEAN, FetchEnd(d, good) PROVE HoldInv'
  <2>1. /\ \A x \in Device \ {d} : job'[x] = job[x]
        /\ job'[d].pc = "status" /\ job'[d].dev = job[d].dev
        /\ job'[d].good = good /\ job'[d].end = now
        /\ job[d].pc = "fetch" /\ job[d].dev = d
    BY <1>0, <1>7 DEF FetchEnd, JobRecord, HoldInv
  <2>2. /\ UNCHANGED <<table, pending>>
        /\ \A x \in Device \ {d} : savedAt'[x] = savedAt[x]
        /\ savedAt'[d] = IF good THEN now ELSE savedAt[d]
    BY <1>7, <2>1 DEF FetchEnd, scanVars
  <2>3. d \notin DOMAIN pending
    BY <2>1 DEF ScanInv, Outstanding
  <2>4. DOMAIN pending \subseteq Device
    BY DEF IsTable
  <2> QED BY <2>1, <2>2, <2>3, <2>4 DEF HoldInv, Unrecorded
<1>8. ASSUME NEW d \in Device, StatusGet(d) PROVE HoldInv'
  <2>1. /\ UNCHANGED <<table, savedAt, pending>>
        /\ \A x \in Device \ {d} : job'[x] = job[x]
        /\ job[d].pc = "status" /\ job[d].dev = d
    BY <1>0, <1>8 DEF StatusGet, Over, JobRecord, HoldInv, scanVars
  <2>2. CASE d \in DOMAIN table
    <3>1. /\ job'[d].pc = "update" /\ job'[d].good = job[d].good
          /\ job'[d].end = job[d].end /\ job'[d].dev = d
          /\ job'[d].copy = table[d]
      BY <1>0, <1>8, <2>1, <2>2 DEF StatusGet, Found, JobRecord
    <3> QED BY <2>1, <2>2, <3>1 DEF HoldInv, Unrecorded
  <2>3. CASE d \notin DOMAIN table
    <3>1. job'[d].pc = "reply" /\ job'[d].dev = d
      BY <1>0, <1>8, <2>1, <2>3 DEF StatusGet, Over, Found, JobRecord
    <3> QED BY <2>1, <2>3, <3>1 DEF HoldInv, Unrecorded
  <2> QED BY <2>2, <2>3
<1>9. ASSUME NEW d \in Device, StatusPut(d) PROVE HoldInv'
  <2>1. /\ UNCHANGED <<savedAt, pending>>
        /\ \A x \in Device \ {d} : job'[x] = job[x]
        /\ job[d].pc = "update" /\ job[d].dev = d
        /\ job'[d].pc = "reply" /\ job'[d].dev = d
        /\ table' = UpdateDevice(table, d, NewStatus(d))
    BY <1>0, <1>9 DEF StatusPut, Over, JobRecord, HoldInv, scanVars
  <2>2. NewStatus(d).lastSuccess = savedAt[d]
    <3>1. job[d].copy \in Entry
      BY <1>0 DEF JobRecord
    <3> QED BY <2>1, <3>1 DEF NewStatus, HoldInv, Unrecorded, Entry
  <2>3. /\ DOMAIN table' = DOMAIN table
        /\ \A x \in DOMAIN table : x # d => table'[x] = table[x]
        /\ d \in DOMAIN table => table'[d] = NewStatus(d)
    BY <2>1 DEF UpdateDevice, Found
  <2> QED BY <2>1, <2>2, <2>3 DEF HoldInv, Unrecorded
<1>10. ASSUME NEW d \in Device, Purge(d) PROVE HoldInv'
  <2>1. /\ UNCHANGED <<savedAt, pending, job>>
        /\ \A x \in DOMAIN table' : x \in DOMAIN table /\ table'[x] = table[x]
    BY <1>10 DEF Purge, PurgeDevice, Restrict, scanVars
  <2> QED BY <2>1 DEF HoldInv, Unrecorded
<1> QED
  BY <1>0, <1>1, <1>2, <1>3, <1>4, <1>5, <1>6, <1>7, <1>8, <1>9, <1>10
     DEF Next, ScanStep, SpawnerStep, FetchStep, ScanAlone

\* A step that moves a device to its send is Scan's, and Scan has found it free.
LEMMA OfferedFree ==
    ASSUME TypeInv, ScanAlone, HoldInv, [Next]_vars, NEW d \in Device, Offers(d)
    PROVE  savedAt[d] = Never \/ now - savedAt[d] >= scanOpt.hold
<1> USE DEF TypeInv, TypeOK
<1>0. Job = Device
  BY DEF ScanAlone, Job
<1>1. ScanOffer(d)
  <2>1. ASSUME NEW x \in Device, ScanOffer(x) PROVE x = d
    BY <1>0, <2>1 DEF ScanOffer, Offers
  <2>2. ASSUME NEW x \in Device, ScanSkip(x) \/ ScanRecv(x) PROVE FALSE
    BY <1>0, <2>2 DEF ScanSkip, ScanRecv, Offers, IdleJob
  <2>3. ASSUME NEW x \in Device, SpawnerRecv(x) \/ SpawnerGo(x) \/ SpawnerMiss(x)
        PROVE FALSE
    BY <1>0, <2>3 DEF SpawnerRecv, SpawnerGo, SpawnerMiss, Offers, JobRecord
  <2>4. ASSUME NEW x \in Device, FetchStep(x) PROVE FALSE
    BY <1>0, <2>4 DEF FetchStep, FetchEnd, StatusGet, StatusPut, Over, Offers, JobRecord
  <2>5. ASSUME job' = job PROVE FALSE
    BY <2>5 DEF Offers
  <2>6. CASE \/ ScanOptions \/ ScanList \/ ScanAwait \/ ScanFinish \/ ScanAgain \/ SpawnerExit \/ Tick
             \/ UNCHANGED vars \/ \E x \in Device : Purge(x)
    BY <2>5, <2>6 DEF ScanOptions, ScanList, ScanAwait, ScanFinish, ScanAgain, SpawnerExit, Tick,
                      vars, scanVars, Purge
  <2> QED BY <1>0, <2>1, <2>2, <2>3, <2>4, <2>6
          DEF Next, ScanStep, SpawnerStep, ScanAlone
<1>2. d \in DOMAIN pending /\ ~ Held(pending[d], now, scanOpt.hold)
  BY <1>1 DEF ScanOffer, LookAt, Skipped
<1>3. pending[d].lastSuccess = savedAt[d]
  BY <1>2 DEF HoldInv
<1>4. now \in Nat /\ scanOpt.hold \in Nat /\ savedAt[d] \in Nat \cup {Never}
  BY OptionAssumption, BoundAssumption
<1> QED BY <1>2, <1>3, <1>4 DEF Held, Never

\* With nobody at the buttons, a device is not contacted within holdtime of its last
\* saved backup, however the goroutines interleave and whatever is purged meanwhile
\* (scan.go:76-81, 123-144).
THEOREM HoldtimeKept == ScanAlone => (Safety => HoldtimeRespected)
<1>1. CASE ScanAlone
  <2>1. TypeInv /\ ScanInv /\ HoldInv /\ [Next]_vars => HoldInv'
    BY <1>1, HoldStep
  <2>2. TypeInv /\ HoldInv /\ [Next]_vars
          => [\A d \in Device : Offers(d) => \/ savedAt[d] = Never
                                             \/ now - savedAt[d] >= scanOpt.hold]_vars
    BY <1>1, OfferedFree
  <2> QED BY <2>1, <2>2, InitHold, Inductive, PTL DEF Safety, HoldtimeRespected
<1> QED BY <1>1

------------------------------------------------------------------------------
(* Scan implements a pass *)

LEMMA InitPass == Init => Pass!Init
<1> SUFFICES ASSUME Init PROVE Pass!Init
  OBVIOUS
<1>1. Outstanding = {} /\ Offered = {}
  BY DEF Init, Outstanding, Offered, Job, IdleJob
<1> QED BY <1>1 DEF Init, NoTable, Pass!Init

\* The instance's Cardinality is the one used here.
LEMMA SameCardinality == \A S : Pass!Cardinality(S) = Cardinality(S)
BY DEF Pass!Cardinality, Cardinality

\* Any step that is none of Scan's and no rendezvous with it.
LEMMA AsidePass ==
    ASSUME UNCHANGED <<pending, scanOpt>>, Outstanding' = Outstanding,
           Offered' = Offered
    PROVE  UNCHANGED Pass!vars
BY DEF Pass!vars

LEMMA StepPass ==
    ASSUME TypeInv, ScanInv, TypeInv', ScanInv', [Next]_vars
    PROVE  [Pass!Next]_(Pass!vars)
<1> USE DEF TypeInv, TypeOK
<1>1. CASE ScanOptions \/ ScanList
  <2>1. Outstanding' = Outstanding /\ Offered' = Offered
    BY <1>1 DEF ScanOptions, ScanList, Outstanding, Offered
  <2>2. Outstanding = {} /\ Offered = {} /\ DOMAIN pending = {}
    BY <1>1, OutstandingFinite, FS_EmptySet
       DEF ScanOptions, ScanList, ScanInv, WaitCountsOutstanding
  <2>3. DOMAIN pending' \subseteq Device
    BY DEF IsTable
  <2> QED BY <1>1, <2>1, <2>2, <2>3 DEF ScanOptions, ScanList, Pass!Next, Pass!Begin
<1>2. ASSUME NEW d \in Device, ScanSkip(d) PROVE Pass!PassOver(d)
  <2>1. Outstanding' = Outstanding /\ Offered' = Offered
    BY <1>2 DEF ScanSkip, Outstanding, Offered
  <2>2. Offered = {} /\ d \in DOMAIN pending
    BY <1>2 DEF ScanSkip, LookAt, ScanInv
  <2>3. DOMAIN pending' = DOMAIN pending \ {d}
    BY <1>2 DEF ScanSkip, LookAt, Restrict
  <2> QED BY <1>2, <2>1, <2>2, <2>3 DEF ScanSkip, Pass!PassOver
<1>3. ASSUME NEW d \in Device, ScanOffer(d) PROVE UNCHANGED Pass!vars
  <2>1. job' = [job EXCEPT ![d] = [IdleJob EXCEPT !.pc = "send", !.dev = d]]
        /\ [IdleJob EXCEPT !.pc = "send", !.dev = d].pc = "send"
    BY <1>3 DEF ScanOffer, IdleJob
  <2>2. Offered = {} /\ d \in DOMAIN pending /\ d \notin Outstanding
    BY <1>3 DEF ScanOffer, LookAt, ScanInv
  <2>3. Outstanding' = Outstanding /\ Offered' = {d}
    BY <2>1, <2>2 DEF Outstanding, Offered, Job
  <2>4. DOMAIN pending' = DOMAIN pending \ {d}
    BY <1>3 DEF ScanOffer, LookAt, Restrict
  <2> QED BY <1>3, <2>2, <2>3, <2>4 DEF ScanOffer, Pass!vars
<1>4. ASSUME NEW d \in Device, ScanRecv(d) PROVE Pass!Finish(d)
  <2>1. d \in Outstanding /\ d \notin Offered
    BY <1>4 DEF ScanRecv, Outstanding, Offered
  <2>2. Outstanding' = Outstanding \ {d} /\ Offered' = Offered
    BY <1>4, <2>1 DEF ScanRecv, Outstanding, Offered, IdleJob, Job
  <2> QED BY <1>4, <2>1, <2>2 DEF ScanRecv, Pass!Finish
<1>5. CASE ScanAwait \/ ScanFinish \/ ScanAgain \/ SpawnerExit
  BY <1>5, AsidePass
     DEF ScanAwait, ScanFinish, ScanAgain, SpawnerExit, scanVars, Outstanding,
         Offered
<1>6. ASSUME NEW j \in Device, SpawnerRecv(j) PROVE Pass!Start(j)
  <2>1. Offered = {j} /\ j \notin Outstanding /\ scanPc = "send"
        /\ j \notin DOMAIN pending
    BY <1>6 DEF SpawnerRecv, Offered, Outstanding, ScanInv
  <2>2. Outstanding' = Outstanding \cup {j} /\ Offered' = {}
    BY <1>6, <2>1 DEF SpawnerRecv, Outstanding, Offered, JobRecord, Job
  <2>3. scanOpt.max > 0 => Cardinality(Outstanding) < scanOpt.max
    BY <2>1, OptionAssumption DEF ScanInv, WaitCountsOutstanding, AtLimit
  <2> QED BY <1>6, <2>1, <2>2, <2>3, SameCardinality
          DEF SpawnerRecv, Pass!Start, Pass!BelowLimit
<1>7. ASSUME NEW c \in Click, SpawnerRecv(c) PROVE UNCHANGED Pass!vars
  BY <1>7, DeviceAssumption, AsidePass DEF SpawnerRecv, Outstanding, Offered, Job
<1>8. ASSUME NEW j \in Job, SpawnerGo(j) \/ SpawnerMiss(j) \/ FetchStep(j)
      PROVE  UNCHANGED Pass!vars
  BY <1>8, JobAside, AsidePass DEF scanVars
<1>9. CASE \/ \E c \in Click : ClickPut(c) \/ \E d \in Device : ClickGet(c, d)
           \/ \E e \in Editor : UiStep(e)
           \/ \E d \in Device : Purge(d)
           \/ Tick
           \/ UNCHANGED vars
  BY <1>9, OtherAside, AsidePass DEF scanVars, Outstanding, Offered
<1> QED
  BY <1>1, <1>2, <1>3, <1>4, <1>5, <1>6, <1>7, <1>8, <1>9
     DEF Next, ScanStep, SpawnerStep, Job, Pass!Next

\* The safety part of the refinement: however goroutines interleave, what
\* reaches the devices is a sequence of passes as ScanPass describes them.
THEOREM ScanImplementsPass == Safety => Pass!Safety
<1>1. Init => Pass!Init
  BY InitPass
<1>2. TypeInv /\ ScanInv /\ TypeInv' /\ ScanInv' /\ [Next]_vars
        => [Pass!Next]_(Pass!vars)
  BY StepPass
<1> QED BY <1>1, <1>2, Inductive, PTL DEF Safety, Pass!Safety
==============================================================================
