------------------------------ MODULE Scheduler ------------------------------
(***************************************************************************)
(* The goroutines that decide when a device is contacted:                  *)
(*                                                                         *)
(*   scanLoop/Scan  lists the device table, sends one request per eligible *)
(*                  device to the Spawner, at most maxconcurrency at a     *)
(*                  time, and counts the replies;                          *)
(*   Spawner        receives requests and starts one Fetch goroutine each; *)
(*   Fetch          runs the backup, then writes the device's status into  *)
(*                  the table by GetDevice ... UpdateDevice, then replies  *)
(*                  to Scan;                                               *)
(*   Run buttons    (`Click') clear the device's status, by GetDevice ...  *)
(*                  UpdateDevice, and send a request without reply channel;*)
(*   web sessions   (`Editor') save device properties or global settings,  *)
(*                  or create a device.                                    *)
(*                                                                         *)
(* Both channels are unbuffered: a send and its receive are one step.      *)
(* Table and option accesses are atomic (they hold the lock), but nothing  *)
(* is atomic across two of them.                                           *)
(***************************************************************************)
EXTENDS Integers, FiniteSets, Functions

CONSTANTS Device,      \* device identifiers
          Click,       \* goroutines of Run buttons that may live at a time
          Editor,      \* sessions of the web interface
          Original,    \* the revision of properties nobody edited
          NoDevice,    \* no device
          OptionSet,   \* the settings in use: maxconcurrency and holdtime
          Purgeable,   \* devices PurgeDevice may remove while scanning
          RunOnce,     \* the values the -runOnce flag may have
          MaxTime      \* bound of the clock

ASSUME DeviceAssumption == IsFiniteSet(Device) /\ Device \cap Click = {}
ASSUME OptionAssumption == OptionSet \subseteq [max: Nat, hold: Nat]
ASSUME NoDeviceAssumption == NoDevice \notin Device
ASSUME BoundAssumption == MaxTime \in Nat /\ Purgeable \subseteq Device
\* With -runOnce the web server is never started.
ASSUME RunOnceAssumption == RunOnce \subseteq BOOLEAN
                            /\ (TRUE \in RunOnce => Click = {} /\ Editor = {})

Rev == Editor \cup {Original}
INSTANCE DeviceTable

Job == Device \cup Click

VARIABLES
    once,      \* the -runOnce flag
    table,     \* the device table
    opt,       \* the current options
    now,       \* the clock
    savedAt,   \* history: when a backup of each device was last saved
    scanPc,    \* where Scan is
    pending,   \* its copied list: device -> entry, of those not looked at yet
    scanOpt,   \* its copy of the options
    wait,      \* requests pending
    spawner,   \* the Spawner: "recv", "busy" with a request, or "exit"
    job,       \* one record per backup job, by who asked for it
    ui         \* one record per web session

vars == <<once, table, opt, now, savedAt, scanPc, pending, scanOpt, wait,
          spawner, job, ui>>
scanVars == <<once, scanPc, pending, scanOpt, wait>>

Blank == [deleted |-> FALSE, rev |-> Original, lastSuccess |-> Never]
IdleJob == [pc |-> "idle", dev |-> NoDevice, good |-> FALSE, end |-> 0,
            copy |-> Blank]
IdleUi == [pc |-> "idle", id |-> NoDevice, copy |-> Blank,
           opt |-> [max |-> 0, hold |-> 0]]

\* The devices whose request Scan has sent and whose reply it has not received.
Outstanding ==
    {d \in Device : job[d].pc \in
        {"spawn", "miss", "fetch", "status", "update", "reply"}}
\* The device Scan is blocked on, sending its request.
Offered == {d \in Device : job[d].pc = "send"}

\* Variant: the limit is noticed one request late.
AtLimitLate == scanOpt.max > 0 /\ wait > scanOpt.max

AtLimit == scanOpt.max > 0 /\ wait >= scanOpt.max

NoTable == [d \in {} |-> Blank]

------------------------------------------------------------------------------
(* Scan and scanLoop *)

\* scanLoop copies the options.
ScanOptions ==
    /\ scanPc = "options"
    /\ scanOpt' = opt
    /\ scanPc' = "list"
    /\ UNCHANGED <<once, table, opt, now, savedAt, pending, wait, spawner, job, ui>>

\* ListDevices, then the check for an empty list.  With -runOnce it comes before the
\* options are copied; there is nobody then to change either in between.
ScanList ==
    /\ scanPc = "list"
    /\ pending' = table
    /\ scanPc' = IF table = NoTable THEN "done" ELSE "launch"
    /\ UNCHANGED <<once, table, opt, now, savedAt, scanOpt, wait, spawner, job, ui>>

\* Variant: the device stays on the list.
LookAtAgain(d) ==
    /\ scanPc = "launch"
    /\ ~ AtLimit
    /\ d \in DOMAIN pending
    /\ UNCHANGED pending

LookAt(d) ==
    /\ scanPc = "launch"
    /\ ~ AtLimit
    /\ d \in DOMAIN pending
    /\ pending' = Restrict(pending, DOMAIN pending \ {d})

\* A device marked deleted, or backed up within the holdtime, in the copied list.
Skipped(d) == pending[d].deleted \/ Held(pending[d], now, scanOpt.hold)

ScanSkip(d) ==
    /\ LookAt(d)
    /\ Skipped(d)
    /\ UNCHANGED <<once, table, opt, now, savedAt, scanPc, scanOpt, wait, spawner,
                   job, ui>>

ScanOffer(d) ==
    /\ LookAt(d)
    /\ ~ Skipped(d)
    /\ scanPc' = "send"
    /\ job' = [job EXCEPT ![d] = [IdleJob EXCEPT !.pc = "send", !.dev = d]]
    /\ UNCHANGED <<once, table, opt, now, savedAt, scanOpt, wait, spawner, ui>>

\* The launch loop is over, by the list's end or by the limit.
ScanAwait ==
    /\ scanPc = "launch"
    /\ DOMAIN pending = {} \/ AtLimit
    /\ wait > 0
    /\ scanPc' = "recv"
    /\ UNCHANGED <<once, table, opt, now, savedAt, pending, scanOpt, wait, spawner,
                   job, ui>>

\* Variant: the reply is not counted.
ScanRecvUncounted(d) ==
    /\ scanPc = "recv"
    /\ job[d].pc \in {"reply", "miss"}
    /\ job' = [job EXCEPT ![d] = IdleJob]
    /\ spawner' = IF job[d].pc = "miss" THEN "recv" ELSE spawner
    /\ scanPc' = "launch"
    /\ UNCHANGED <<once, table, opt, now, savedAt, pending, scanOpt, wait, ui>>

\* Scan receives from Fetch, or from the Spawner when it missed the device.
ScanRecv(d) ==
    /\ scanPc = "recv"
    /\ job[d].pc \in {"reply", "miss"}
    /\ job' = [job EXCEPT ![d] = IdleJob]
    /\ spawner' = IF job[d].pc = "miss" THEN "recv" ELSE spawner
    /\ wait' = wait - 1
    /\ scanPc' = "launch"
    /\ UNCHANGED <<once, table, opt, now, savedAt, pending, scanOpt, ui>>

\* Variant: the end of the list ends the scan, with replies still to come.
ScanFinishEarly ==
    /\ scanPc = "launch"
    /\ DOMAIN pending = {}
    /\ scanPc' = "done"
    /\ UNCHANGED <<once, table, opt, now, savedAt, pending, scanOpt, wait, spawner,
                   job, ui>>

ScanFinish ==
    /\ scanPc = "launch"
    /\ DOMAIN pending = {} /\ wait = 0
    /\ scanPc' = "done"
    /\ UNCHANGED <<once, table, opt, now, savedAt, pending, scanOpt, wait, spawner,
                   job, ui>>

\* scanLoop sleeps for some time and scans again; runOnce closes the channel.
ScanAgain ==
    /\ scanPc = "done"
    /\ scanPc' = IF once THEN "closed" ELSE "options"
    /\ UNCHANGED <<once, table, opt, now, savedAt, pending, scanOpt, wait, spawner,
                   job, ui>>

------------------------------------------------------------------------------
(* Spawner *)

\* `reqChan <- req' by Scan or by a Run button meets `<-reqChan'.
SpawnerRecv(j) ==
    /\ spawner = "recv"
    /\ job[j].pc = "send"
    /\ spawner' = "busy"
    /\ job' = [job EXCEPT ![j].pc = "spawn"]
    /\ IF j \in Device THEN wait' = wait + 1 /\ scanPc' = "launch"
                       ELSE UNCHANGED <<wait, scanPc>>
    /\ UNCHANGED <<once, table, opt, now, savedAt, pending, scanOpt, ui>>

\* GetDevice finds the device: a Fetch goroutine is started.
SpawnerGo(j) ==
    /\ job[j].pc = "spawn"
    /\ Found(table, job[j].dev)
    /\ job' = [job EXCEPT ![j].pc = "fetch"]
    /\ spawner' = "recv"
    /\ UNCHANGED <<table, opt, now, savedAt, scanVars, ui>>

\* It does not: a request with a reply channel is answered by the Spawner
\* itself, which blocks until Scan receives; another is dropped.
SpawnerMiss(j) ==
    /\ job[j].pc = "spawn"
    /\ ~ Found(table, job[j].dev)
    /\ IF j \in Device
       THEN job' = [job EXCEPT ![j].pc = "miss"] /\ UNCHANGED spawner
       ELSE job' = [job EXCEPT ![j] = IdleJob] /\ spawner' = "recv"
    /\ UNCHANGED <<table, opt, now, savedAt, scanVars, ui>>

SpawnerExit ==
    /\ spawner = "recv" /\ scanPc = "closed"
    /\ spawner' = "exit"
    /\ UNCHANGED <<table, opt, now, savedAt, scanVars, job, ui>>

------------------------------------------------------------------------------
(* Fetch *)

\* Variant: no reply.
OverSilent(j) == [job EXCEPT ![j] = IdleJob]

\* Reply to Scan, if it asked; end the goroutine otherwise.
Over(j) == IF j \in Device THEN [job EXCEPT ![j].pc = "reply"]
                           ELSE [job EXCEPT ![j] = IdleJob]

\* d.fetch returns: the backup was saved, or some step of it failed.
FetchEnd(j, good) ==
    /\ job[j].pc = "fetch"
    /\ job' = [job EXCEPT ![j] = [@ EXCEPT !.pc = "status", !.good = good,
                                                 !.end = now]]
    /\ savedAt' = IF good THEN [savedAt EXCEPT ![job[j].dev] = now] ELSE savedAt
    /\ UNCHANGED <<table, opt, now, scanVars, spawner, ui>>

\* updateDeviceStatus, up to GetDevice.
StatusGet(j) ==
    /\ job[j].pc = "status"
    /\ job' = IF Found(table, job[j].dev)
              THEN [job EXCEPT ![j] = [@ EXCEPT !.pc = "update",
                                        !.copy = table[job[j].dev]]]
              ELSE Over(j)
    /\ UNCHANGED <<table, opt, now, savedAt, scanVars, spawner, ui>>

NewStatus(j) == IF job[j].good
                THEN [job[j].copy EXCEPT !.lastSuccess = job[j].end]
                ELSE job[j].copy

\* updateDeviceStatus, UpdateDevice on the copy.
StatusPut(j) ==
    /\ job[j].pc = "update"
    /\ table' = UpdateDevice(table, job[j].dev, NewStatus(j))
    /\ job' = Over(j)
    /\ UNCHANGED <<opt, now, savedAt, scanVars, spawner, ui>>

------------------------------------------------------------------------------
(* Run button *)

\* The button's goroutine reads the device; ClearDeviceStatus fails, and the
\* goroutine ends, when there is none.
ClickGet(c, d) ==
    /\ job[c].pc = "idle"
    /\ Found(table, d)
    /\ job' = [job EXCEPT ![c] = [IdleJob EXCEPT !.pc = "clear", !.dev = d,
                                                 !.copy = table[d]]]
    /\ UNCHANGED <<table, opt, now, savedAt, scanVars, spawner, ui>>

\* Variant: the status is cleared but no request is sent.
ClickPutSilent(c) ==
    /\ job[c].pc = "clear"
    /\ table' = UpdateDevice(table, job[c].dev,
                             [job[c].copy EXCEPT !.lastSuccess = Never])
    /\ job' = [job EXCEPT ![c] = IdleJob]
    /\ UNCHANGED <<opt, now, savedAt, scanVars, spawner, ui>>

\* ClearDeviceStatus writes its copy back, then the request is sent.
ClickPut(c) ==
    /\ job[c].pc = "clear"
    /\ table' = UpdateDevice(table, job[c].dev,
                             [job[c].copy EXCEPT !.lastSuccess = Never])
    /\ job' = [job EXCEPT ![c].pc = "send"]
    /\ UNCHANGED <<opt, now, savedAt, scanVars, spawner, ui>>

------------------------------------------------------------------------------
(* Web sessions *)

\* The Save button of a device's window, with any properties in the text box:
\* the text names an id of its own, which need not be the window's device d.
EditGet(e, d, id, deleted) ==
    /\ ui[e].pc = "idle"
    /\ Found(table, d)
    /\ ui' = [ui EXCEPT ![e] =
                  [@ EXCEPT !.pc = "put", !.id = id,
                            !.copy = [table[d] EXCEPT !.deleted = deleted,
                                                      !.rev = e]]]
    /\ UNCHANGED <<table, opt, now, savedAt, scanVars, spawner, job>>

\* UpdateDevice under the id of the text; an error when there is none.
EditPut(e) ==
    /\ ui[e].pc = "put"
    /\ table' = UpdateDevice(table, ui[e].id, ui[e].copy)
    /\ ui' = [ui EXCEPT ![e] = IF Found(table, @.id)
                               THEN [IdleUi EXCEPT !.pc = "save"] ELSE IdleUi]
    /\ UNCHANGED <<opt, now, savedAt, scanVars, spawner, job>>

\* The form that creates a device; an existing id is an error.
Create(e, d) ==
    /\ ui[e].pc = "idle"
    /\ ~ Found(table, d)
    /\ table' = SetDevice(table, d, [Blank EXCEPT !.rev = e])
    /\ ui' = [ui EXCEPT ![e].pc = "save"]
    /\ UNCHANGED <<opt, now, savedAt, scanVars, spawner, job>>

\* The Save button of the settings window.
SetOptions(e, o) ==
    /\ ui[e].pc = "idle"
    /\ opt' = o
    /\ ui' = [ui EXCEPT ![e].pc = "save"]
    /\ UNCHANGED <<table, now, savedAt, scanVars, spawner, job>>

\* saveConfig clones the options ...
SaveGet(e) ==
    /\ ui[e].pc = "save"
    /\ ui' = [ui EXCEPT ![e] = [@ EXCEPT !.pc = "mark", !.opt = opt]]
    /\ UNCHANGED <<table, opt, now, savedAt, scanVars, spawner, job>>

\* Variant: the clone is dropped before it is used.
SaveSetCleared(e) ==
    /\ ui[e].pc = "mark"
    /\ opt' = IdleUi.opt
    /\ ui' = [ui EXCEPT ![e] = IdleUi]
    /\ UNCHANGED <<table, now, savedAt, scanVars, spawner, job>>

\* ... and sets them again with the change recorded.
SaveSet(e) ==
    /\ ui[e].pc = "mark"
    /\ opt' = ui[e].opt
    /\ ui' = [ui EXCEPT ![e] = IdleUi]
    /\ UNCHANGED <<table, now, savedAt, scanVars, spawner, job>>

------------------------------------------------------------------------------
(* Environment *)

Purge(d) ==
    /\ d \in Purgeable
    /\ Found(table, d)
    /\ table' = PurgeDevice(table, d)
    /\ UNCHANGED <<opt, now, savedAt, scanVars, spawner, job, ui>>

Tick ==
    /\ now < MaxTime
    /\ now' = now + 1
    /\ UNCHANGED <<table, opt, savedAt, scanVars, spawner, job, ui>>

------------------------------------------------------------------------------
\* UpdateLastSuccess has loaded the time of each device's last backup.
InitEntry == [deleted: BOOLEAN, rev: {Original}, lastSuccess: {Never, 0}]

Init ==
    /\ once \in RunOnce
    /\ table \in UNION {[S -> InitEntry] : S \in SUBSET Device}
    /\ opt \in OptionSet
    /\ now = 0
    /\ savedAt = [d \in Device |->
                    IF Found(table, d) THEN table[d].lastSuccess ELSE Never]
    /\ scanPc = "options"
    /\ pending = NoTable
    /\ scanOpt = opt
    /\ wait = 0
    /\ spawner = "recv"
    /\ job = [j \in Job |-> IdleJob]
    /\ ui = [e \in Editor |-> IdleUi]

ScanStep == \/ ScanOptions \/ ScanList \/ ScanAwait \/ ScanFinish \/ ScanAgain
            \/ \E d \in Device : ScanSkip(d) \/ ScanOffer(d) \/ ScanRecv(d)

SpawnerStep == SpawnerExit \/ \E j \in Job : SpawnerGo(j) \/ SpawnerMiss(j)

FetchStep(j) == \/ \E good \in BOOLEAN : FetchEnd(j, good)
                \/ StatusGet(j) \/ StatusPut(j)

UiStep(e) == \/ \E d, id \in Device, deleted \in BOOLEAN :
                    EditGet(e, d, id, deleted)
             \/ \E d \in Device : Create(e, d)
             \/ \E o \in OptionSet : SetOptions(e, o)
             \/ EditPut(e) \/ SaveGet(e) \/ SaveSet(e)

Next == \/ ScanStep
        \/ SpawnerStep
        \/ \E j \in Job : SpawnerRecv(j) \/ FetchStep(j)
        \/ \E c \in Click : ClickPut(c) \/ \E d \in Device : ClickGet(c, d)
        \/ \E e \in Editor : UiStep(e)
        \/ \E d \in Device : Purge(d)
        \/ Tick

(***************************************************************************)
(* Fairness.  The Go scheduler runs every goroutine that can run.  That    *)
(* every backup ends is an assumption: the reads of its transport have     *)
(* deadlines, but not an ssh handshake, nor a process that the child of    *)
(* a `run' model leaves behind (Dialog.tla and RunJob.tla say when it      *)
(* ends).  Goroutines blocked on a channel are queued in order of arrival, *)
(* so a sender the Spawner could serve again and again is served: strong   *)
(* fairness.  Nothing makes a person press a button, nor the clock reach   *)
(* its bound.                                                              *)
(***************************************************************************)
Fairness == /\ WF_vars(ScanStep)
            /\ WF_vars(SpawnerStep)
            /\ \A j \in Job : SF_vars(SpawnerRecv(j)) /\ WF_vars(FetchStep(j))
            /\ \A c \in Click : WF_vars(ClickPut(c))

Safety == Init /\ [][Next]_vars
Spec == Safety /\ Fairness

------------------------------------------------------------------------------
(* Properties *)

JobPc == {"idle", "clear", "send", "spawn", "miss", "fetch", "status",
          "update", "reply"}
ScanPc == {"options", "list", "launch", "send", "recv", "done", "closed"}
Options == [max: Nat, hold: Nat]
JobRecord == [pc: JobPc, dev: Device \cup {NoDevice}, good: BOOLEAN, end: Nat,
              copy: Entry]
UiRecord == [pc: {"idle", "put", "save", "mark"}, id: Device \cup {NoDevice},
             copy: Entry, opt: Options]
IsTable(t) == DOMAIN t \subseteq Device /\ t \in [DOMAIN t -> Entry]

\* Every variable keeps its shape; in particular Scan's count never goes below
\* zero and no job record is left without a device.
TypeOK ==
    /\ once \in RunOnce
    /\ IsTable(table)
    /\ opt \in OptionSet
    /\ now \in 0..MaxTime
    /\ savedAt \in [Device -> Nat \cup {Never}]
    /\ scanPc \in ScanPc
    /\ IsTable(pending)
    /\ scanOpt \in OptionSet
    /\ wait \in Nat
    /\ spawner \in {"recv", "busy", "exit"}
    /\ job \in [Job -> JobRecord]
    /\ ui \in [Editor -> UiRecord]

\* The count that enforces the limit is right: `wait' is the number of requests
\* the Spawner took from this scan and whose reply Scan has not received, with
\* Scan, the Spawner and the Fetch goroutines running in any order.
WaitCountsOutstanding == wait = Cardinality(Outstanding)

\* Scan itself never has more than maxconcurrency backups in progress.
ScanConcurrency == scanOpt.max > 0 => Cardinality(Outstanding) <= scanOpt.max

\* A Fetch goroutine (or the Spawner) that sends a reply has a Scan that is
\* still going to receive it: the reply channel of a scan that has returned is
\* never used, so no goroutine is left blocked forever.
ReplyAwaited ==
    \A d \in Device : job[d].pc \in {"reply", "miss"} =>
        /\ wait > 0
        /\ scanPc \in {"launch", "send", "recv"}

\* With -runOnce, when the request channel is closed no request is in the
\* channel, in the Spawner or in a Fetch goroutine: nobody sends on the closed
\* channel and main does not exit while a backup is being taken.
OnceComplete ==
    scanPc = "closed" => \A j \in Job : job[j].pc = "idle"

\* How the count and the sets it stands for move together: the strengthening
\* that makes the three properties above inductive.  A device is in one place
\* only (on the list, offered, or outstanding); Scan is blocked on the one device
\* it offers, below its limit; between scans nothing is left.
ScanInv ==
    /\ WaitCountsOutstanding
    /\ ScanConcurrency
    /\ DOMAIN pending \cap (Outstanding \cup Offered) = {}
    /\ \A d, x \in Offered : d = x
    /\ Offered # {} => scanPc = "send"
    /\ scanPc = "send" => ~ AtLimit
    /\ scanPc \in {"options", "list", "done", "closed"} => wait = 0 /\ DOMAIN pending = {}
    /\ scanPc = "closed" => once
    /\ \A d \in Device : job[d].pc # "clear"

\* Scan offers d in this step.
Offers(d) == job[d].pc # "send" /\ job'[d].pc = "send"

\* Scan never contacts a device within holdtime of the last time a backup of it
\* was saved, however long the goroutine that saved it took to record that in
\* the table.
HoldtimeRespected ==
    [][\A d \in Device : Offers(d) =>
          \/ savedAt[d] = Never
          \/ now - savedAt[d] >= scanOpt.hold]_vars

\* A pressed Run button leads to a backup attempt of its device, whatever Scan does,
\* if backups end and unless the device is gone from the table.
ClickServed ==
    \A c \in Click, d \in Device :
        job[c].pc = "clear" /\ job[c].dev = d
            ~> (job[c].pc = "fetch" /\ job[c].dev = d) \/ ~ Found(table, d)

\* With -runOnce the program comes to its end, if backups do.
OnceExits == once => <>(spawner = "exit")

\* The scanner implements a pass: each listed device is looked at once, started
\* below the limit or passed over, and every pass ends.
Pass == INSTANCE ScanPass WITH
            Limit   <- {o.max : o \in OptionSet},
            todo    <- DOMAIN pending \cup Offered,
            running <- Outstanding,
            limit   <- scanOpt.max
ScanPassRefined == Pass!Spec
==============================================================================
