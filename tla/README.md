# TLA+ models of jazigo

jazigo backs up the configurations of network devices: it contacts every device
of a table periodically, logs in, captures the output of a few commands, and keeps
the last few versions in numbered files or S3 objects. These modules model its
control: the goroutines that decide when a device is contacted, the dialogue with
the device, the file operations and requests that store what was captured, and the
program's own configuration with its locks. TLC checks the models on small instances
(`tlc -config X.cfg M`), TLAPS proves the theorems of the `...Proofs` modules for all
values of the constants (`tlapm M.tla`). `PROJECT.json` lists components, runs, the
source lines of each definition, and, for each checked property, a plausible bug of
the code that violates it.

## Inventory

| component | state | operations | interacts by |
|---|---|---|---|
| Scanner `dev/scan.go`, `jazigo/main.go` (`scanLoop`, `runOnce`) | the copied device list, its position, the count `wait` | `Scan`, `Spawner`, `updateDeviceStatus` | request channel, reply channel (both unbuffered), device table |
| Device table `dev/table.go` | map id -> device, RW lock | Get, Set, Update, Delete, Purge, List, FindDeviceFreeID | copies in, copies out |
| Backup job `dev/model.go` (`Fetch`) | one goroutine per request | open transport, dialogue, `saveCommit`, status, error log, reply | table, store, reply channel |
| Global options `conf/options.go` | one struct, RW lock | Get, Set | copies |
| Store, local `store/store.go` | `<prefix>N`, `<prefix>tmp`, `<prefix>last` | `SaveNewConfig`, `FindLastConfig`, `eraseOldFiles` | files; used for backups, the program's own configuration, and log files |
| Store on S3 `store/s3.go` | objects, a map of clients | the same by HEAD, GET, PUT, copy, delete, list | network |
| Web interface `jazigo/web_ui.go` | sessions, windows | Run, property Save, create, settings Save, login | table, options, request channel, `saveConfig` |
| Own configuration `jazigo/main.go` (`saveConfig`, `loadConfig`), `conf/conf.go` | the last saved configuration | dump and load of table and options | table, options, store |
| Device list management `main.go:304` | none | delete, purge, import, list; then the program exits | table, `saveConfig` |
| Exclusive locks `main.go:470` | three lock files | lock in order, roll back on failure | files |
| Dialogue `dev/model.go` (login ... sendCommands, match) | read buffer, captured text | wait for a prompt, send | transport |
| Device models `dev/model_*.go` | none | attributes that steer the dialogue | |
| Transports `dev/transport.go` | connection, child process, environment | open, read, write, close | network, processes |
| Telnet `dev/telnet.go`, control characters `dev/control.go`, filters `dev/filter.go` | none | functions of one read, or one block | |
| Error log `dev/errlog.go` | one file per device | load lines, truncate, write | files |
| Log file `jazigo/logg.go` | open file | write, rotate | store |

What is hard here, and what makes each part correct:

- *Scanner.* Requests, replies and Run buttons interleave; a hand-kept count
  enforces the limit and decides when a scan ends. Correct: the count is the number
  of unanswered requests, the limit holds, each device is dealt with once per pass,
  every pass ends, nobody is left sending to a scan that has returned, and no device
  is contacted within its holdtime.
- *Table, options, own configuration.* Every access is atomic, but a change is a read
  and a write, and a save is a snapshot and a file. Correct: what is in memory reaches
  the disk; saves do not undo settings; a device leaves the file only when purged; one
  program at a time works on a repository.
- *Store.* Eight or more file operations or requests per save, each may fail, the
  program may stop between any two, two backups of a device may run at once. Correct:
  the files are a history: complete configurations, numbers that only grow, nothing
  lost but the oldest.
- *Dialogue.* Input arrives in arbitrary pieces, prompts are ambiguous, devices hang
  up. Correct: a backup that reports success has the whole output of each command
  under that command, and a secret is typed only when asked for.
- *Telnet and control characters.* They work on one read and reach back into what was
  kept before. Correct: the result is the text the device shows.
- *The model `run`.* A child process that may hang, fill a pipe, fail, be killed, leave
  processes behind. Correct: only the complete output of a good end is saved, every backup
  ends, and the error log stays in order whatever fails.

`PROJECT.json` ("hazards") has each at its line.

## Modules

| module | what it is |
|---|---|
| `DeviceTable` | the table's methods as functions of its value |
| `Scheduler` | scanner, Spawner, Fetch, Run buttons, web sessions, one action per step between two channel, table or option accesses |
| `ScanPass` | abstract: what a pass of the scanner promises |
| `ConfigStore` | `SaveNewConfig` as a sequence of file operations |
| `S3Store` | the same save as requests to S3; extends `ConfigStore` |
| `BackupHistory` | abstract: what the store promises |
| `AppConfig` | locks, `loadConfig`, device lists, sessions and `saveConfig` of programs that share a repository |
| `Dialog` | `fetch` against a device, from the transport to the saved capture |
| `DeviceModels` | the attributes of each device model that steer `Dialog` |
| `Reading` | telnet negotiation, control characters and line filters, read by read |
| `RunJob` | the pipe transport of the model `run`, with its child, and the error log |
| `SchedulerProofs`, `AppConfigProofs`, `DialogProofs`, `ReadingProofs`, `RunJobProofs` | theorems about the module they are named after |
| `ConfigStoreProofs`, `SaveOutcomeProofs` | theorems about `ConfigStore`: the history; what a save leaves behind |
| `S3StoreProofs` | theorems about `S3Store` |
| `MC...` | values of the constants for TLC |

How they fit together: `Scheduler` takes a backup as one step with either outcome.
`Dialog` is the inside of that step for a network device, `RunJob` for a child
process; `Reading` is what `Dialog` calls a Read, character by character; both end in
a save, which is `ConfigStore` or `S3Store`. `AppConfig` takes that save as two steps
around the `tmp` file. `Scheduler` uses `DeviceTable` and implements `ScanPass`
(`ScanPassRefined`); `ConfigStore` and `S3Store` implement `BackupHistory`
(`HistoryImplemented`, `HistoryImplementedS3`). Definitions that begin "Variant:" are
not part of a model: they are the bugs the properties are tried against.

### Scheduler

Goroutines and their places in the code:

| variable | code |
|---|---|
| `table`, `opt` | `jaz.table`, `jaz.options` |
| `scanPc`, `pending`, `scanOpt`, `wait` | `Scan`: the place, the rest of the list, `opt`, `wait` |
| `spawner` | `Spawner`: at `<-reqChan`, busy with a request, returned |
| `job` | one record per request: a device's (sent by Scan, answered) or a Run button's (not answered): `send` at `reqChan <-`, `spawn` in Spawner, `miss` Spawner's own reply, `fetch` in `d.fetch`, `status` before and `update` after `GetDevice` in `updateDeviceStatus`, `reply` at `resultCh <-`, `clear` in `ClearDeviceStatus` |
| `ui` | one record per session: `put` between GetDevice and UpdateDevice, `save` and `mark` before and inside `saveConfig` |
| `now`, `savedAt` | the clock; when each device was last saved (history, only properties read it) |

A send and a receive on an unbuffered channel are one step of both sides. A table
or option access is one step, since it holds the lock throughout. `Scan` looks at
the devices in the order of a Go map, which is any order, so the model takes any
device of `pending`. A device's entry keeps its deletion mark, its properties as a
revision (who saved them last) and `lastSuccess`. Of the settings, `maxconcurrency`
and `holdtime` are kept. The zero time is `Never`. Left out: `errlog` (in `RunJob`),
the Spawner's `options.Get` (read only by the store), the sleep of `scanLoop` (any
time may pass anywhere), `lastTry` and the other status fields. A property window may
save text that names another device's id, as the code lets it.

`PurgeDevice` runs today only from the command line, in a program that then
exits. `Spawner` and `updateDeviceStatus` nevertheless have branches for a device
that is gone, so `Purge` (for the devices of `Purgeable`) exercises those branches;
only `Scheduler_ui` uses it. `once` is the `-runOnce` flag, which no step changes.

### ConfigStore

One prefix. `files` maps the numbers in use to contents, `tmp` and `last` are the
two other files, `save` has each saver's place in `SaveNewConfig` and its local
variables. Each action is one file operation: create, write and close, find the
previous file, compare, test for the new name, rename, truncate and write the
shortcut, remove it, list, remove an old file, remove `tmp`. `Faults` says which of
them may fail and whether the program may crash. A configuration is one of
`Content`; `Short` is a file not completely written and `Mixed` one two savers
wrote into. The file descriptor of a writer is followed through a rename or removal
of its file (`Moved`), as two savers of one prefix share `tmp`. Left out: a
loss of written data by a crash of the machine (the code does not call fsync), and
the steps inside `FindLastConfig`, which is one atomic read.

`Begin` is bounded (`Room`): no save starts when the numbers up to `MaxId` might
not suffice, so no saver is ever stuck at the bound.

### S3Store

The variables of `ConfigStore`. The steps that differ on S3 are replaced: a PUT
stores an object whole; `s3fileRename` is `Copy`, `DeleteTmp`, and `Undo` of the copy
if the deletion failed; a HEAD error reads as "does not exist". A request that fails
may have been carried out (`AnswerLost`). The lost answer of a deletion is the
interesting case: the code then deletes the copy too, and the save is reported failed
with nothing but the configuration of that save gone.

### AppConfig

`proc[p]` is a program: where it is, which of the three locks it holds, its table and
options. `actor[a]` is a caller of `saveConfig`, a session or a program for its
device list, with its snapshot. `disk` is the newest configuration file, `tmp` who has
the `tmp` file. Each lock, each list line, each table or option access, and the
beginning and end of `SaveNewConfig` is one action; a program may be killed anywhere
and started again. Devices are numbers, as ids other than `auto<N>` do not take part
in `FindDeviceFreeID`; their properties are only "new", "edited" or "deleted".
History: `lost` says that memory and disk may differ (a save failed, was refused for a
`tmp` file, or overlapped another), `gone` which devices a program has purged or could
not load, `named` which ids a list named itself, `asked` the options a program has loaded
or a session has saved last, `raced` that a call of `saveConfig` was between its Get and
its Set of the options at that moment.

The lock library is modelled by its use: a lock whose owner is dead goes to the next
program, and one can unlock only what one owns. That is why a rollback that also
unlocks what it never took (`main.go:486`, when a path is on S3) does no harm. Two
things limit what `Exclusive` says of the program. `SharedAssumption`: the programs
share at least one lock file, as a rule that of the repository. And `main.go:167` takes
the locks before line 189 adds the final dot to the configuration's prefix: the same
prefix written with and without it names two lock files, so that lock alone would not
exclude.

### Dialog, DeviceModels

`fetch` as one action per line sent and per match found, with `case` (the model's
attributes as a record of `Model`, the transports still to try, what kind of device answers), `pc` (login,
password, ..., command), `buf` and `capture`; the device has `dev` and `mode`, and
`wire` and `typed` are the two directions. A question or prompt is two tokens and a
Read returns any prefix of `wire`, so a prompt may be cut in two, which `match`
misses: it searches only the lines of one read. The device may trust a name, refuse
a password, ask for a key, be enabled at once, echo, or hang up at any point. Output
lines carry the command they answer and never look like prompts: the patterns are the operator's, and the code cannot
tell the difference either.

`DeviceModels` has the eleven models of `src/dev/model_*.go` that have a dialogue of
their own as records; the model `run` is `RunJob`.

### Reading

A telnet device sends items: text, ends of lines, escape sequences, corrections,
telnet commands (`Send`). The network keeps `stream`, and `Read` returns any part of
what is left of it. `telnetNegotiation` and `removeControlChars` are loops over a buffer
that shrinks under them, and one iteration is a step: `Negotiate` answers a command at
the head of `suffix`, and each action from `Ordinary` to `Control` is a case of the code's
`switch` on the byte at place `at` (the code's `i + 1`). `Cleaned` is the end of the loop,
where `match` appends what is left to `buf`. `Save` applies a line filter.

The reference `ref` is computed item by item, as the device sends: each item, where it
ends in the stream, and what is to be kept and answered up to there. It is compared as
long as no cut fell inside an item, or where nobody could tell what is what (`torn`,
`Ambiguous`: a sole CR before LF or NUL, a command after text).

The reference says what a screen shows, and there are two items with which the code does
something else (`Mistaken`). Of the sequence of a key, `ESC [ 1 ~`, it cuts three characters
and not the four its comment names (`control.go:110`), so the tilde stays. A sole CR takes
back the end of the line before along with its own line (`control.go:45` in what was kept,
`control.go:65` in the read at hand, and only there the CR of a CR LF too), so two lines
become one. `AlwaysAsShown` is the property without exception, and the run
`Reading_keys` violates it (one with a CR would, too, but there the code means to do
what it does, `control.go:48`); `KeptAsShown` and `VolatileDropped`
leave out outputs with such an item (`Mastered`): a key's sequence anywhere, a CR on any
line but the first. A volatile IOS XR line drawn after a key's sequence is saved with a
tilde before it, so `VolatileDropped` could not promise more.

What the model shows where a cut does fall inside an item, and no property can exclude:
a CR LF cut between its two characters deletes the line before it, since the CR is then a sole
one; a telnet command that is cut, or that follows text in its read, is taken for text.

### RunJob

A device's backup by a child: the four `Setenv` calls, `Start`, reading stdout and then
stderr through bounded pipes, `Wait`, the save, and the error log's load, truncation
and rewrite. The child writes, closes its outputs without ending, exits well or badly,
or hangs; a deadline cancels the context, and the `exec` package kills it. `env` is the
environment of the whole process, from which a child copies.

The child may start processes, as the model's default program `bash -c "env | egrep ..."`
does (`model_run.go:12`). `heirs` has the outputs that one of them holds open; the kill does
not reach them, and a pipe ends only when the last of its holders has closed it (`AtEOF`).
The deadlines that `match` sets are no-ops on a pipe (`transport.go:85`), so such a process can
keep a backup in Read for ever.

After the truncation of the error log the seek, a write or the flush may fail; that leaves
the log empty or short, perhaps with a line cut off (`PushFails`). History: `recorded` has
the results of which anything was logged, newest first, `sure` how many of them no lost
write can have taken.

## Runs

Scheduler (device d, Run button c, session e):

| run | instance | what holds |
|---|---|---|
| `Scheduler_scan` | 3 d, limit 2, holdtime 1, time 2, with and without `-runOnce` | `WaitCountsOutstanding`, `ScanConcurrency`, `HoldtimeRespected`, `OnceComplete`, `OnceExits`; `ScanPass` is implemented, with its liveness |
| `Scheduler_ui` | 1 d, which may vanish, 1 c, 1 e | `TypeOK`, `ReplyAwaited`, `ClickServed`; all actions of sessions fire |

Three devices and a limit of two are the least with which a device waits while
others are in progress and a reply makes room; two clock ticks let a holdtime of
one expire during a scan and between two. With `-runOnce` the flag is chosen at the start,
the program ends, and `OnceExits` and `OnceComplete` are about that half of the run.

`ScanConcurrency` and `HoldtimeRespected` are properties of the scanner alone. The
model also has what breaks them in the whole program: a Run button's backup is not
counted (`web_ui.go:670`), so that more than `maxconcurrency` run at once, and it backs
a device up during a scan that listed it before; a property window writes back the
`lastSuccess` it read before a backup ended, and `updateDeviceStatus` writes back the
properties it read before a session saved others (`scan.go:140`); `saveConfig` undoes
settings saved between its Get and its Set (`main.go:541`). Add a button or a session to
`Scheduler_scan.cfg` to see them.

With a limit of two or more, a device that vanishes during a scan could make Scan and
Spawner wait for each other (the Spawner sends "could not find device" while Scan sends
its next request). Today's program never purges while scanning, so this is no hazard of it
and no property is about it; `Scheduler_ui` has a limit of one.

Store (two contents, `MaxFiles` 2):

| run | instance | what holds |
|---|---|---|
| `ConfigStore_faults` | one saver, numbers to 4, every change may fail, crashes | `TypeOK`, `SavedIsKept`, `ChangesRecorded`, `ShortcutInv`, `HistoryImplemented` |
| `ConfigStore_two` | two savers, numbers to 3, failures the code cleans up after | `NoLeftover`, `Bounded`, `SaveEnds` |
| `S3Store_requests` | one saver, numbers to 4, failed and unanswered requests, crashes | `TypeOKS3`, `HistoryImplementedS3`, `SaveEndsS3` |

Numbers above two make old files go, so that a removed, a kept and a new file are
present together; two contents tell equal from different. The bounds of the faults are
where the properties end in the code:

- A directory that cannot be read looks empty (`store.go:359`): a new configuration may
  get number 0 and be erased at once.
- After a crash between the rename and the shortcut (`store.go:406`) the shortcut stays one
  behind (`ShortcutInv`: never more), and a later save finds its number taken and
  fails. `SavedIsKept` is about saves that report success.
- A crash or a failed write leaves `tmp`, and every later save is refused until somebody
  removes it; `ConfigStore_two` is about the failures that do not.
- Two savers of one prefix write one `tmp`; what is committed may be a mixture.
- On S3 an error of the HEAD for the new number would let the copy overwrite a
  configuration, and one of the shortcut's GET lets the shortcut go stale by more than
  one; the run has HEAD errors on `tmp` only.

The other components:

| run | instance | what holds |
|---|---|---|
| `AppConfig_life` | two programs, two sessions, two edits, two ids, two settings, every fault | `TypeOK`, `Exclusive`, `LocksReturned`, `SavedAtRest`, `SettingKept`, `AutoIdsFree`, `VanishesOnlyByPurge` |
| `Dialog_turns` | ten cases of model and transports, two lines per command | `TypeOK`, `CaptureComplete`, `SecretsOnlyWhenAsked`, `InStep`, `FetchEnds` |
| `Reading_cuts` | three items of every kind, cut anywhere | `TypeOK`, `KeptAsShown`, `Answered`, `VolatileDropped` |
| `RunJob_child` | one device, three backups, two lines per output, a pipe of one, a log of two, processes the child leaves | `TypeOK`, `OnlyGoodOutput`, `NewestFirst`, `JobEnds` |

`AppConfig_life`: two programs contend for locks and follow each other; two sessions
overlap in `saveConfig`; two edits are an accepted change and one that races it.
`SavedAtRest` says that memory and file agree, not that either is what a session was told:
settings saved while a call of `saveConfig` is between its Get and its Set
(`main.go:541-543`) are undone in both. `SettingKept` says that nothing else undoes them. The
programs are interchangeable, and so are the sessions (symmetry, no liveness is checked
there). `Dialog_turns` covers each model over telnet where it has a login chat and
`linux` over both: every prompt wait of every model is reached; commands are few but
each has an output of its own. `Reading_cuts` needs three items for a correction to
reach back over an end of line into the read before; characters are sent whole items at a
time, between reads, as what arrives while a read is at work waits for the next. `RunJob_child`: a pipe of one and
two lines per output make the child wait for its reader; a log of two with three
backups drops a line.

Three runs find a violation, of what the documentation or a comment says of the program:

| run | what it shows |
|---|---|
| `Dialog_ssh` | over ssh the login chat is skipped, and with it the wait for the first prompt: `junos`, `cisco-apic` and `cisco-nga` file each answer under the next command, the last is missing, and the backup is reported good |
| `Reading_keys` | of `ESC [ 1 ~`, where `control.go:110` says "remove 4 control chars", the tilde stays in the capture |
| `RunJob_env` | two backups of the model `run` share the process environment between `Setenv` and `Start`: a child gets the other device's credentials |

Only `Scheduler_ui` is checked for deadlock. Elsewhere the system may stop: `-runOnce`
ends the program (a scanner stuck before that would violate `ScanPassRefined` or
`OnceExits`), nobody has to start a save, a program or a backup, a backup ends, and the
bounds on numbers and edits end a run.

## Fairness

- `Scheduler`: the Go scheduler runs every goroutine that can run (weak fairness of
  Scan, Spawner, Fetch and of a pressed button). Goroutines blocked on a channel are
  queued, so a sender is not passed over for ever: strong fairness of the
  rendezvous with the Spawner. A backup ends, which `Dialog` and `RunJob` show but for two
  cases, an ssh handshake and a process left by a child of the model `run`; what
  `ClickServed`, `OnceExits` and the liveness of `ScanPass` promise does not hold then.
  Nothing makes a person press a button or the clock reach its bound.
- `ConfigStore`, `S3Store`: a save that has begun goes on; the S3 library gives a
  request up after some retries. Nobody has to start one.
- `Dialog`: the goroutine of a backup runs and its deadlines pass, but nothing is assumed
  of it while it opens an ssh session (`OpeningSSH`): `net.DialTimeout` ends, the handshake
  and the requests after it have no deadline (`transport.go:292`). `FetchEnds` says
  that this is the only place where a backup can stay. The device need not do anything.
- `RunJob`: the goroutine, the deadline's timer and the killer run; the child and the
  processes it leaves need not do anything. `JobEnds` is about backups that no such process
  keeps waiting for ever.
- `AppConfig`, `Reading`: none, only safety is stated.

## Proofs

Each theorem holds for every value of the constants that meets the ASSUMEs of its
module and the hypotheses given here. An invariant that a run checks is seldom
inductive; the one proved instead, and why it takes more, is said in each case.

Only liveness under fairness, which is out of the prover's reach, stays with TLC: the end
of `ScanPass`'s passes, `ClickServed`, `OnceExits`, `SaveEnds`, `SaveEndsS3`, `FetchEnds`,
`JobEnds`. Every other property of a passing run is a theorem, some of them under
hypotheses.

### SchedulerProofs

For every finite set of devices, any buttons, sessions and options.

| theorem | property | hypothesis |
|---|---|---|
| `TypeCorrect` | `TypeOK` | |
| `CountCorrect` | `WaitCountsOutstanding` | |
| `LimitRespected` | `ScanConcurrency` | |
| `RepliesReceived` | `ReplyAwaited` | |
| `NothingLeft` | `OnceComplete` | |
| `HoldtimeKept` | `HoldtimeRespected` | `ScanAlone`: no buttons, no sessions |
| `ScanImplementsPass` | the safety part of `ScanPassRefined` | |

The invariant of the first five is `TypeInv /\ ScanInv`. The count alone is not
inductive: one has to know that a device is in one place only (listed, offered,
outstanding), that Scan is at its send when a device is offered, that it got there
below the limit, and that nothing is left between scans. `TypeInv` adds to `TypeOK`
that a reply is only sent for a device. Counting needs that adding or removing one
device changes the cardinality by one, from `FiniteSetTheorems`.

`HoldtimeKept` needs to know that what Scan decides by is true (`HoldInv`): on Scan's
list, in the table and in the copy that `updateDeviceStatus` holds between its two
accesses stands when the last backup was saved; only a backup saved and not yet
recorded is excepted, and its device is not looked at before the reply. Neither half of
the hypothesis can be dropped: a Run button clears the status, and a session writes
back an older one.

### AppConfigProofs

For any programs, sessions, devices, settings and faults, and any lock paths of which
all programs share one. None has a further hypothesis.

| theorem | property | invariant |
|---|---|---|
| `LocksInOrder` | | `LockInv` |
| `MutualExclusion` | `Exclusive` | `LockInv` |
| `NoLockLeft` | `LocksReturned` | `LockInv` |
| `TypeCorrect` | `TypeOK` | `TypeInv`: `Types`, `Counts`, `AtWork` |
| `FreshNumbers` | `AutoIdsFree` | itself, with `FreeIsAbove` |
| `OnlyPurgeRemoves` | `VanishesOnlyByPurge` | `AloneInv`, `GoneInv` |
| `AcceptedIsSaved` | `SavedAtRest` | `AloneInv`, `SyncInv` |
| `SettingsSurvive` | `SettingKept` | `KeptInv` |

`Exclusive` is not inductive: that two programs are both running is excluded only
because each owns the shared lock file. `LockInv` says so: how many locks a program has
taken goes with where it is, and a running one has all three (`InOrder`); a lock taken is
owned until the program starts to give its locks back (`Owned`), from which
`MutualExclusion` follows by the shared file; and a program owns no file it does not
remember (`Remembered`), from which `NoLockLeft` follows, as a program that is gone
remembers none. The last needs the case of one path named twice by one
program: the second attempt is modelled as refused, as the file has a living owner.

The others are about the file and build on it: that one program only is at work is
what makes its memory the file's only source (`WorkOfOne`). A call of `saveConfig` that
found nobody else in there is alone until it ends or another begins (`AloneInv`).
`GoneInv` says that every device of the file is in the program's memory, or noted as
gone, also in the snapshot of a session that is about to write. `SyncInv` says that if
nothing was lost, memory and file agree, or a session that changed something has not saved yet,
or one is in `saveConfig`; and that the snapshot of a session alone there is what is in memory,
unless somebody is still to save. `KeptInv` adds to `SettingKept` that a call of `saveConfig`
about to set the options has those asked for, or there was a race. `FreeIsAbove` is what `FindDeviceFreeID` returns: a
number above all in use.

### ConfigStoreProofs, SaveOutcomeProofs

| theorem | property | hypothesis |
|---|---|---|
| `TypeCorrect` | `TypeOK` | |
| `StoreImplementsHistory` | `HistoryImplemented` | `OneSaver`, `Readable` |
| `ShortcutNotFarBehind` | `ShortcutInv` | `OneSaver`, `Readable` |
| `SuccessMeansKept` | `SavedIsKept` | `OneSaver`, `Readable` |
| `OnlyChangesRecorded` | `ChangesRecorded` | `OneSaver`, `Readable`, comparisons do not fail |
| `NothingLeft` | `NoLeftover` | `CleanedUp`: no failed write or removal, no crash |
| `FilesAreBounded` | `Bounded` | `Erasable`: no failed list or removal, no crash |

`OneSaver` is one save of the prefix at a time, `Readable` a directory that can be
read; all other faults and crashes are there. Two savers may commit a mixture, and a
directory that looks empty makes a save take a low number. The last two hold for any
number of savers.

The invariant of the history is `StoreInv`: the shortcut may be one behind, not more
(`ShortcutInv`), so that a save that trusts it meets an occupied number rather than
overwrite (`IdInv`); a file is a whole configuration (`ContentInv`), as `tmp` is from
the end of the write to the rename (`TmpInv`); every file still to be erased has
`MaxFiles` above it, which erasing the oldest first keeps true (`DoomedInv`). Only
`Rename` and `RemoveOld` change the files, and they are the two steps of
`BackupHistory`.

`SavedIsKept` needs that what is renamed is what the caller gave, and that it stays the
newest, or equal to the newest, to the end (`KeptInv`); `ChangesRecorded` that what is about to be
renamed differs from its predecessor (`ChangeInv`), and that the predecessor found is
the newest. `NoLeftover` needs that a `tmp` file always has a save that will remove it
(`LeftoverInv`). `Bounded` is not an invariant of a save in progress: `BoundInv` says
that when there are more than `MaxFiles` files, some save is on its way to
`eraseOldFiles` or has the list of what to remove; `OldLeavesEnough` counts what it keeps.

### S3StoreProofs

| theorem | property | hypothesis |
|---|---|---|
| `TypeCorrectS3` | `TypeOKS3` | |
| `ObjectsImplementHistory` | `HistoryImplementedS3` | `OneSaver`, `Readable`, `Heads`: HEAD errors on `tmp` only |

The same argument along `StoreInvS3`, with the copy of an unfinished rename: it is the
newest object from the copy to its undoing or the deletion of `tmp`, and the mapping hides
it until then. Requests that fail, or are carried out without an answer, and crashes are
all there; why HEAD errors elsewhere are not is said under "Runs".

### DialogProofs

For any device models and transports that meet `CaseAssumption`, any number of lines
in an answer and any device.

| theorem | property | hypothesis |
|---|---|---|
| `TypeCorrect` | `TypeOK` | |
| `TakesTurns` | `InStep` | `StartsInStep` |
| `SecretsKept` | `SecretsOnlyWhenAsked` | `StartsInStep` |
| `CapturesWhole` | `CaptureComplete` | `StartsInStep` |

`StartsInStep`: each model logs in itself, over transports that do not; or waits for
the first prompt before it sends anything; or knows no prompt and has at most one
command. The ten cases of `Dialog_turns` satisfy it. The three of `Dialog_ssh` do not,
and that run shows what happens then, so it is the condition on which the dialogue of
a new model works.

`InStep` is an action property; its invariant is `TurnInv`. While one answer is due, either a
line is typed and nothing is on the wire, or what is on the wire ends with the prompt that answers
it (`OneAtATime`). The lines that stop the pager go out at once, so for them the count
of lines and prompts still to come is kept (`PagerCount`). A prompt nobody asked for is
waited for by the first command (`Greeting`). `SecretsKept` adds that the device waits for
the answer to the last question it asked (`AskedInv`), `CapturesWhole` that what has been
read since a command was due is the beginning of its answer and of no other
(`Answering`). That `match` finds the first line that matches needs the least element
of a set of positions (`LeastOf`).

### ReadingProofs

For any items of the given forms, with texts, numbers and titles of any length, any
number of them, any reads and filters. What is assumed of devices is `ReadAssumption`.

| theorem | property | invariant |
|---|---|---|
| `TypeCorrect` | `TypeOK` | `TypeInv` |
| `KeepsWhatIsShown` | `KeptAsShown`, so without the items of `Mistaken` | `ReadInv` |
| `AnswersOnce` | `Answered` | `AnswerInv`, `ReadInv` |
| `VolatileLinesDropped` | `VolatileDropped`, likewise | `PlaceInv`, `ReadInv` |

The properties speak of the time between two reads; none is inductive over a loop that
rewrites its own buffer. Two numbers stand for the loop wherever it is: `Pos`, the place
in the stream of the last character done with, and `Kept`, what is left of the characters
up to there (`buf` and what is before `at`). One lemma for each `switch` case says what it
does to them (`OrdinaryDoes` to `EscapeDoes`). A CR on the first line empties `Kept`; one
that finds an end of line in `suffix` is not on the first line, so it is a mistaken item and
nothing is claimed of `Kept` after it.

`StreamInv` says what `ref` and `stream` say of each other: every character is of one
item (`Covered`, `Ascending`), and follows from the item before (`Made`). `ReadInv` is the
heart: while nothing is torn, the loop is just after an item `k` with the rest of the read
unchanged (`AtItem`), or before the last character of one, a LF or `~` that stays
(`InItem`), and `Kept` is the text of `k` unless an item up to `k` was mistaken. `CleanItem` shows that an iteration at the head of an item leads
to one of the two for the next item, by cases on the first character (`Kinds`); that the
first character says which item it is needs the forms of items to exclude each other,
and for CR that the read is not `Ambiguous`. `EscapeSizeIs` is that an escape sequence of
any length is recognised with its exact length, whatever follows it. With
`KeepControlChars` there is no loop, and the rest of a read is kept at once
(`ReadWhole`, from `KeptWhole`).

`AnswerInv` does not need whole items: a command that is answered is one that was sent,
since IAC begins commands only, and those answered lie before what is still to be
negotiated, in order. That no command is missed or left in the text is `NoneLeft`.

### RunJobProofs

For any devices, pipes, numbers of lines, log sizes, backups and crashes. Nothing but
`RunAssumption` is assumed.

| theorem | property | invariant |
|---|---|---|
| `TypeCorrect` | `TypeOK` | `TypeInv` |
| `GoodOutputOnly` | `OnlyGoodOutput` | `CaptureInv` |
| `LogHoldsNewest` | `NewestFirst` | `LogInv` |

`CaptureInv`: while the outputs are read, the capture followed by what is in the pipes
is what the child and its heirs wrote (`Reading`), and from the end of the second output on it is all
of it, by a child that ends well if `Wait` says so (`Done`). `LogInv`: the log on disk is made
of the newest results, except between its truncation and its rewriting, when the lines in
memory are; and it has as many as `sure` says, or as fit.

## Not modelled

- *Log file* (`jazigo/logg.go`): one open file, replaced inside `Write` under the mutex of
  `log.Logger`; the new one comes from `SaveNewConfig`, which is `ConfigStore`. When no
  new file can be made, messages are lost until one can.
- *Two backups of one device on one error log* (a scan and a Run button): each truncates what
  the other wrote. `RunJob` has backups of a device follow each other.
- *Inside of dialling*: TCP and SSH libraries; the table of S3 clients, a Go map that
  backups share without a lock (`s3.go:50`), whose fault is a crash.
- *Presentation*: windows and layout, YAML, wording of messages, texts and times of the
  device models.
- *Build scripts, styles and samples*: no behaviour at run time.
- *Store functions without a state*: `FileRead`, `FileInfo`, `MkDir`, `s3dirClean` (tests only).

Met on the way, below what the models distinguish: `s3fileRead` does not apply its limit
(it reads the body, not the limited reader), `s3fileFirstLine` does not close the body; a
failed read of a pipe whose context has ended never calls `Wait`, which leaves a zombie;
with `ErrlogHistSize` 0 the log still gets one line.

## Plan

Left to do: two backups of one device on one error log (a scan and a Run button), which
needs a second job in `RunJob` and a weaker `NewestFirst`.
