------------------------------ MODULE AppConfig ------------------------------
(***************************************************************************)
(* The program's own configuration: the device table and the options of a  *)
(* running program, and the file that outlives it (src/jazigo/main.go,     *)
(* src/jazigo/web_ui.go, src/dev/table.go).  A program takes three lock    *)
(* files, loads the last configuration and either changes the device list  *)
(* as stdin says and exits, or serves sessions, each of which changes a    *)
(* device or the options and then calls saveConfig.  Programs are started, *)
(* refused, killed and started again.                                      *)
(*                                                                         *)
(* saveConfig is a step per access to the table, the options and the tmp   *)
(* file; what happens inside SaveNewConfig is the subject of ConfigStore.  *)
(* Devices are named auto<N> and stand for N.                              *)
(***************************************************************************)
EXTENDS Integers, Sequences, FiniteSets, FiniteSetsExt, Functions

CONSTANTS Proc,       \* programs started with the same repository
          Session,    \* sessions of the web interface
          LockFile,   \* names of lock files
          LockPath,   \* p -> the locks of its configuration, repository, log
          OnS3,       \* in LockPath: the path is on S3, no lock is taken
          Free,       \* no lock file
          Stale,      \* a lock file whose owner is dead
          Setting,    \* values of the options
          Default,    \* the one a new program has
          MaxId,      \* bound of the device numbers
          MaxEdits,   \* bound of the changes to devices and options
          Faults      \* what may go wrong, see AllFaults

AllFaults == {"lock", "find", "load", "model", "save", "kill"}

ASSUME LockAssumption == /\ LockPath \in [Proc -> [1..3 -> LockFile \cup {OnS3}]]
                         /\ OnS3 \notin LockFile
                         /\ Free # Stale /\ {Free, Stale} \cap Proc = {}
\* All programs share a lock file.
ASSUME SharedAssumption ==
    \E i \in 1..3, f \in LockFile : \A p \in Proc : LockPath[p][i] = f
ASSUME ValueAssumption == /\ Default \in Setting /\ Proc \cap Session = {}
                          /\ MaxId \in Nat /\ MaxEdits \in Nat
                          /\ Faults \subseteq AllFaults

VARIABLES lock,   \* lock file -> its owner, Free or Stale
          proc,   \* one record per program
          actor,  \* who calls saveConfig: a session, or a program for its list
          disk,   \* the last saved configuration
          tmp,    \* who has the tmp file: "none", an actor, or "left"
          edits,  \* number of changes so far, bounded
          lost    \* history: a change may not have reached the disk

vars == <<lock, proc, actor, disk, tmp, edits, lost>>

Actor == Session \cup Proc
\* The properties of a device: as created, edited, or marked deleted.
Device == {"new", "edited", "deleted"}
NoTable == [d \in {} |-> "new"]
\* conf.New
New == [table |-> NoTable, opt |-> Default]

\* History: asked has the options last loaded or saved by a user, raced whether a call
\* of saveConfig held older ones when they were saved.
Off == [pc |-> "off", locks |-> {}, table |-> NoTable, opt |-> Default,
        value |-> 0, named |-> {}, gone |-> {}, asked |-> Default, raced |-> FALSE]
\* p is the program of a session at work.
Rest == [pc |-> "idle", p |-> "none", table |-> NoTable, opt |-> Default,
         id |-> 0, alone |-> TRUE]

Fault(f) == f \in Faults

------------------------------------------------------------------------------
(* exclusiveLock, exclusiveUnlock.  The lock library gives a lock whose      *)
(* owner is dead to the next program, and unlocks only what the caller owns. *)

Start(p) ==
    /\ proc[p].pc = "off"
    /\ proc' = [proc EXCEPT ![p] = [Off EXCEPT !.pc = "lock"]]
    /\ UNCHANGED <<lock, actor, disk, tmp, edits, lost>>

\* The lock whose turn it is.
Turn(p) == Cardinality(proc[p].locks) + 1

\* Variant: the rollback forgets the repository's lock.
LockRefusedPartly(p) ==
    /\ proc[p].pc = "lock"
    /\ LET path == LockPath[p][Turn(p)] IN
       path # OnS3 /\ (lock[path] \in Proc \/ Fault("lock"))
    /\ proc' = [proc EXCEPT ![p].pc = "unlock", ![p].locks = @ \cap {1}]
    /\ UNCHANGED <<lock, actor, disk, tmp, edits, lost>>

\* Somebody has it, or the library fails: the locks taken so far are given back,
\* and main panics.
LockRefused(p) ==
    /\ proc[p].pc = "lock"
    /\ LET path == LockPath[p][Turn(p)] IN
       path # OnS3 /\ (lock[path] \in Proc \/ Fault("lock"))
    /\ proc' = [proc EXCEPT ![p].pc = "unlock"]
    /\ UNCHANGED <<lock, actor, disk, tmp, edits, lost>>

\* Variant: a lock somebody has is taken as well.
LockTakenAnyway(p) ==
    /\ proc[p].pc = "lock"
    /\ LET path == LockPath[p][Turn(p)] IN
       lock' = IF path = OnS3 THEN lock ELSE [lock EXCEPT ![path] = p]
    /\ proc' = [proc EXCEPT ![p].locks = @ \cup {Turn(p)},
                            ![p].pc = IF Turn(p) = 3 THEN "load" ELSE "lock"]
    /\ UNCHANGED <<actor, disk, tmp, edits, lost>>

LockTaken(p) ==
    /\ proc[p].pc = "lock"
    /\ LET path == LockPath[p][Turn(p)] IN
       \/ path = OnS3 /\ UNCHANGED lock
       \/ path # OnS3 /\ lock[path] \in {Free, Stale} /\ lock' = [lock EXCEPT ![path] = p]
    /\ proc' = [proc EXCEPT ![p].locks = @ \cup {Turn(p)},
                            ![p].pc = IF Turn(p) = 3 THEN "load" ELSE "lock"]
    /\ UNCHANGED <<actor, disk, tmp, edits, lost>>

\* Configuration first, log last; then the program is gone.
Unlock(p) ==
    /\ proc[p].pc = "unlock"
    /\ IF proc[p].locks = {} THEN proc' = [proc EXCEPT ![p] = Off] /\ UNCHANGED lock
       ELSE LET i == Min(proc[p].locks) IN
            /\ proc' = [proc EXCEPT ![p].locks = @ \ {i}]
            /\ lock' = [f \in LockFile |->
                          IF f = LockPath[p][i] /\ lock[f] = p THEN Free ELSE lock[f]]
    /\ UNCHANGED <<actor, disk, tmp, edits, lost>>

\* The program dies at any point, with its sessions; its files stay.
Kill(p) ==
    /\ Fault("kill") /\ proc[p].pc # "off"
    /\ proc' = [proc EXCEPT ![p] = Off]
    /\ lock' = [f \in LockFile |-> IF lock[f] = p THEN Stale ELSE lock[f]]
    /\ actor' = [a \in Actor |-> IF actor[a].p = p THEN Rest ELSE actor[a]]
    /\ tmp' = IF tmp \in Actor /\ actor[tmp].p = p THEN "left" ELSE tmp
    /\ UNCHANGED <<disk, edits, lost>>

------------------------------------------------------------------------------
(* loadConfig *)

\* The devices whose model is known; the others are skipped.
Load(p) ==
    /\ proc[p].pc = "load"
    /\ \E cfg \in {disk} \cup IF Fault("find") THEN {New} ELSE {},
         gone \in IF Fault("model") THEN SUBSET DOMAIN disk.table ELSE {{}} :
         LET table == Restrict(cfg.table, DOMAIN cfg.table \ gone) IN
         /\ proc' = [proc EXCEPT ![p] =
                       [@ EXCEPT !.pc = "manage", !.table = table, !.opt = cfg.opt,
                                 !.gone = DOMAIN disk.table \ DOMAIN table,
                                 !.asked = cfg.opt]]
         /\ lost' = (table # disk.table \/ cfg.opt # disk.opt)
    /\ UNCHANGED <<lock, actor, disk, tmp, edits>>

\* The file cannot be read: main panics, with its deferred exclusiveUnlock.
LoadFails(p) ==
    /\ proc[p].pc = "load" /\ Fault("load")
    /\ proc' = [proc EXCEPT ![p].pc = "unlock"]
    /\ UNCHANGED <<lock, actor, disk, tmp, edits, lost>>

------------------------------------------------------------------------------
(* manageDeviceList *)

\* Variant: the number of devices, not the highest number, is counted from.
FreeIdByCount(table) == Cardinality(DOMAIN table) + 1

\* Variant: the highest number itself.
FreeIdHighest(table) == Max(DOMAIN table \cup {0})

FindDeviceFreeID(table) == Max(DOMAIN table \cup {0}) + 1

\* The command line asks for one of the lists, for the service, or for something
\* that ends without a change: -deviceList, -runOnce, flags that exclude each other.
Manage(p) ==
    /\ proc[p].pc = "manage"
    /\ \E mode \in {"serve", "delete", "purge", "import", "unlock"} :
         proc' = [proc EXCEPT ![p].pc = mode,
                              ![p].value = IF mode = "import"
                                           THEN FindDeviceFreeID(proc[p].table) ELSE 0]
    /\ UNCHANGED <<lock, actor, disk, tmp, edits, lost>>

\* Variant: deleting removes the device.
DeleteLinePurges(p, d) ==
    /\ proc[p].pc = "delete" /\ d \in DOMAIN proc[p].table /\ edits < MaxEdits
    /\ edits' = edits + 1
    /\ proc' = [proc EXCEPT ![p].table = Restrict(@, DOMAIN @ \ {d})]
    /\ UNCHANGED <<lock, actor, disk, tmp, lost>>

DeleteLine(p, d) ==
    /\ proc[p].pc = "delete" /\ d \in DOMAIN proc[p].table /\ edits < MaxEdits
    /\ edits' = edits + 1
    /\ proc' = [proc EXCEPT ![p].table[d] = "deleted"]
    /\ UNCHANGED <<lock, actor, disk, tmp, lost>>

PurgeLine(p, d) ==
    /\ proc[p].pc = "purge" /\ d \in DOMAIN proc[p].table /\ edits < MaxEdits
    /\ edits' = edits + 1
    /\ proc' = [proc EXCEPT ![p].table = Restrict(@, DOMAIN @ \ {d}),
                            ![p].gone = @ \cup {d}]
    /\ UNCHANGED <<lock, actor, disk, tmp, lost>>

\* CreateDevice, NewDevice and SetDevice: an id in use is an error.
CreateDevice(table, d) ==
    [x \in DOMAIN table \cup {d} |-> IF x \in DOMAIN table THEN table[x] ELSE "new"]

\* A line names its device, or says "auto"; CreateDevice may refuse it, as its model
\* is unknown.
ImportLine(p, d) ==
    /\ proc[p].pc = "import" /\ edits < MaxEdits
    /\ edits' = edits + 1
    /\ \E known \in {TRUE} \cup IF Fault("model") THEN {FALSE} ELSE {} :
         proc' = [proc EXCEPT ![p].table = IF known THEN CreateDevice(@, d) ELSE @,
                              ![p].named = @ \cup {d}]
    /\ UNCHANGED <<lock, actor, disk, tmp, lost>>

ImportAuto(p) ==
    /\ proc[p].pc = "import" /\ edits < MaxEdits /\ proc[p].value <= MaxId
    /\ edits' = edits + 1
    /\ \E known \in {TRUE} \cup IF Fault("model") THEN {FALSE} ELSE {} :
         proc' = [proc EXCEPT ![p].table = IF known
                                           THEN CreateDevice(@, proc[p].value) ELSE @,
                              ![p].value = @ + 1]
    /\ UNCHANGED <<lock, actor, disk, tmp, lost>>

\* A line with missing fields, or an error of stdin: nothing is saved.
ListRefused(p) ==
    /\ proc[p].pc \in {"import", "delete", "purge"}
    /\ proc' = [proc EXCEPT ![p].pc = "unlock"]
    /\ UNCHANGED <<lock, actor, disk, tmp, edits, lost>>

\* The end of the list: the program calls saveConfig ...
ListEnd(p) ==
    /\ proc[p].pc \in {"import", "delete", "purge"}
    /\ proc' = [proc EXCEPT ![p].pc = "saving"]
    /\ actor' = [actor EXCEPT ![p] = [Rest EXCEPT !.pc = "list", !.p = p]]
    /\ UNCHANGED <<lock, disk, tmp, edits, lost>>

\* ... and exits.
ListDone(p) ==
    /\ proc[p].pc = "saving" /\ actor[p].pc = "idle"
    /\ proc' = [proc EXCEPT ![p].pc = "unlock"]
    /\ UNCHANGED <<lock, actor, disk, tmp, edits, lost>>

------------------------------------------------------------------------------
(* Sessions *)

\* Session s of program p makes a change and goes on at pc.
Change(s, p, pc) ==
    /\ s \in Session
    /\ proc[p].pc = "serve" /\ actor[s].pc = "idle" /\ edits < MaxEdits
    /\ edits' = edits + 1
    /\ actor' = [actor EXCEPT ![s] = [Rest EXCEPT !.pc = pc, !.p = p]]

\* Variant: the handler returns after UpdateDevice.
EditUnsaved(s, p, d, v) ==
    /\ Change(s, p, "idle")
    /\ d \in DOMAIN proc[p].table
    /\ proc' = [proc EXCEPT ![p].table[d] = v]
    /\ UNCHANGED <<lock, disk, tmp, lost>>

\* Save in a device's window: UpdateDevice.
Edit(s, p, d, v) ==
    /\ Change(s, p, "list")
    /\ d \in DOMAIN proc[p].table
    /\ proc' = [proc EXCEPT ![p].table[d] = v]
    /\ UNCHANGED <<lock, disk, tmp, lost>>

\* saveConfig has taken the options of program p and not set them again.
Copying(a, p) == actor[a].pc = "set" /\ actor[a].p = p

\* Save in the settings window: options.Set.
SaveSettings(s, p, o) ==
    /\ Change(s, p, "list")
    /\ proc' = [proc EXCEPT ![p].opt = o, ![p].asked = o,
                            ![p].raced = \E a \in Actor : Copying(a, p)]
    /\ UNCHANGED <<lock, disk, tmp, lost>>

\* The form that creates a device looks for a free id ...
CreateId(s, p) ==
    LET id == FindDeviceFreeID(proc[p].table) IN
    /\ id <= MaxId
    /\ s \in Session
    /\ proc[p].pc = "serve" /\ actor[s].pc = "idle" /\ edits < MaxEdits
    /\ edits' = edits + 1
    /\ actor' = [actor EXCEPT ![s] = [Rest EXCEPT !.pc = "create", !.p = p,
                                                   !.id = id]]
    /\ UNCHANGED <<lock, proc, disk, tmp, lost>>

\* ... and adds the device, unless somebody took the id in between.
Create(s) ==
    /\ actor[s].pc = "create"
    /\ LET p == actor[s].p IN
       IF actor[s].id \in DOMAIN proc[p].table
       THEN actor' = [actor EXCEPT ![s] = Rest] /\ UNCHANGED proc
       ELSE /\ actor' = [actor EXCEPT ![s].pc = "list"]
            /\ proc' = [proc EXCEPT ![p].table = CreateDevice(@, actor[s].id)]
    /\ UNCHANGED <<lock, disk, tmp, edits, lost>>

------------------------------------------------------------------------------
(* saveConfig *)

Saving(a) == actor[a].pc \in {"get", "set", "begin", "commit"}

\* ListDevices.  History: alone tells whether no other call is in progress.
List(a) ==
    /\ actor[a].pc = "list"
    /\ LET alone == \A b \in Actor : ~ Saving(b) IN
       actor' = [b \in Actor |->
                  IF b = a THEN [actor[a] EXCEPT !.pc = "get", !.alone = alone,
                                         !.table = proc[actor[a].p].table]
                  ELSE [actor[b] EXCEPT !.alone = @ /\ ~ Saving(b)]]
    /\ UNCHANGED <<lock, proc, disk, tmp, edits, lost>>

\* options.Get, and Set of the clone with the change recorded.
GetOptions(a) ==
    /\ actor[a].pc = "get"
    /\ actor' = [actor EXCEPT ![a].pc = "set", ![a].opt = proc[actor[a].p].opt]
    /\ UNCHANGED <<lock, proc, disk, tmp, edits, lost>>

\* Variant: the configuration is built from the default options.
SetOptionsDefault(a) ==
    /\ actor[a].pc = "set"
    /\ actor' = [actor EXCEPT ![a].pc = "begin"]
    /\ proc' = [proc EXCEPT ![actor[a].p].opt = Default]
    /\ UNCHANGED <<lock, disk, tmp, edits, lost>>

SetOptions(a) ==
    /\ actor[a].pc = "set"
    /\ actor' = [actor EXCEPT ![a].pc = "begin"]
    /\ proc' = [proc EXCEPT ![actor[a].p].opt = actor[a].opt]
    /\ UNCHANGED <<lock, disk, tmp, edits, lost>>

\* SaveNewConfig refuses to run when there is a tmp file; the error is only logged.
SaveBegin(a) ==
    /\ actor[a].pc = "begin"
    /\ IF tmp = "none"
       THEN /\ tmp' = a /\ actor' = [actor EXCEPT ![a].pc = "commit"]
            /\ UNCHANGED lost
       ELSE /\ actor' = [actor EXCEPT ![a] = Rest] /\ lost' = TRUE
            /\ UNCHANGED tmp
    /\ UNCHANGED <<lock, proc, disk, edits>>

SaveCommit(a) ==
    /\ actor[a].pc = "commit"
    /\ disk' = [table |-> actor[a].table, opt |-> actor[a].opt]
    /\ tmp' = "none"
    /\ actor' = [actor EXCEPT ![a] = Rest]
    /\ lost' = ~ actor[a].alone
    /\ UNCHANGED <<lock, proc, edits>>

\* It fails; a failed write leaves the tmp file.
SaveFails(a) ==
    /\ actor[a].pc = "commit" /\ Fault("save")
    /\ tmp' \in {"none", "left"}
    /\ actor' = [actor EXCEPT ![a] = Rest]
    /\ lost' = TRUE
    /\ UNCHANGED <<lock, proc, disk, edits>>

------------------------------------------------------------------------------
\* An earlier program has saved some devices, or none.
Init ==
    /\ lock = [f \in LockFile |-> Free]
    /\ proc = [p \in Proc |-> Off]
    /\ actor = [a \in Actor |-> Rest]
    /\ disk \in [table: UNION {[S -> {"new"}] : S \in SUBSET (1..MaxId)},
                 opt: {Default}]
    /\ tmp = "none"
    /\ edits = 0
    /\ lost = FALSE

ProcStep(p) ==
    \/ Start(p) \/ LockTaken(p) \/ LockRefused(p) \/ Unlock(p) \/ Kill(p)
    \/ Load(p) \/ LoadFails(p) \/ Manage(p)
    \/ \E d \in 1..MaxId : DeleteLine(p, d) \/ PurgeLine(p, d) \/ ImportLine(p, d)
    \/ ImportAuto(p) \/ ListRefused(p) \/ ListEnd(p) \/ ListDone(p)

SessionStep(s) ==
    \/ \E p \in Proc : \/ \E d \in 1..MaxId, v \in {"edited", "deleted"} : Edit(s, p, d, v)
                       \/ \E o \in Setting : SaveSettings(s, p, o)
                       \/ CreateId(s, p)
    \/ Create(s)

SaveStep(a) == \/ List(a) \/ GetOptions(a) \/ SetOptions(a)
               \/ SaveBegin(a) \/ SaveCommit(a) \/ SaveFails(a)

Next == \/ \E p \in Proc : ProcStep(p)
        \/ \E s \in Session : SessionStep(s)
        \/ \E a \in Actor : SaveStep(a)

Spec == Init /\ [][Next]_vars

------------------------------------------------------------------------------
(* Properties *)

ProcPc == {"off", "lock", "load", "manage", "serve", "delete", "purge", "import",
           "saving", "unlock"}
ActorPc == {"idle", "create", "list", "get", "set", "begin", "commit"}
IsTable(t) == DOMAIN t \subseteq 1..MaxId /\ t \in [DOMAIN t -> Device]

\* Every variable keeps its shape.
TypeOK ==
    /\ lock \in [LockFile -> Proc \cup {Free, Stale}]
    /\ \A p \in Proc : LET r == proc[p] IN
         /\ r.pc \in ProcPc /\ r.locks \subseteq 1..3 /\ IsTable(r.table)
         /\ r.opt \in Setting /\ r.value \in Nat
         /\ r.asked \in Setting /\ r.raced \in BOOLEAN
         /\ r.named \subseteq 1..MaxId /\ r.gone \subseteq 1..MaxId
    /\ \A a \in Actor : LET r == actor[a] IN
         /\ r.pc \in ActorPc /\ IsTable(r.table) /\ r.opt \in Setting
         /\ r.pc = "idle" \/ r.p \in Proc
    /\ IsTable(disk.table) /\ disk.opt \in Setting
    /\ tmp \in Actor \cup {"none", "left"}

\* Past exclusiveLock, before exclusiveUnlock.
Running(p) == proc[p].pc \notin {"off", "lock", "unlock"}

\* No two programs work on one repository, whatever locks their other paths name,
\* although both may be starting, be refused half-way and roll back, or be killed.
Exclusive == \A p, q \in Proc : Running(p) /\ Running(q) => p = q

\* A program that is gone, refused or killed leaves no lock that refuses the next.
LocksReturned == \A f \in LockFile : lock[f] \in Proc => proc[lock[f]].pc # "off"

\* When the sessions are at rest, the file has what the program has in memory, unless
\* the last call of saveConfig failed or overlapped with another.  What is in memory
\* is not always what was accepted: see SettingKept.
SavedAtRest ==
    \A p \in Proc : /\ proc[p].pc = "serve" /\ ~ lost
                    /\ \A a \in Actor : actor[a].pc = "idle"
                    => disk = [table |-> proc[p].table, opt |-> proc[p].opt]

\* The options in memory are those last saved in a settings window, or those loaded:
\* the calls of saveConfig, each of which takes the options and sets them again, undo
\* none, in whatever order they run; but for settings saved while such a call is
\* between its Get and its Set, which it may undo.
SettingKept == \A p \in Proc : proc[p].raced \/ proc[p].opt = proc[p].asked

\* A device leaves the file only when somebody purges it, or when loadConfig could
\* not find or create it, or in a call of saveConfig that overlapped another:
\* deleting and editing never remove it.
VanishesOnlyByPurge ==
    [][\A d \in DOMAIN disk.table \ DOMAIN disk'.table :
          \E a \in Actor : /\ actor[a].pc = "commit" /\ actor'[a].pc = "idle"
                           /\ ~ actor[a].alone \/ d \in proc[actor[a].p].gone]_vars

\* The ids an import gives to "auto" lines are not in use, except by lines of the same
\* list that name such an id themselves.
AutoIdsFree ==
    \A p \in Proc : proc[p].pc = "import" =>
        \A d \in DOMAIN proc[p].table : d >= proc[p].value => d \in proc[p].named
==============================================================================
