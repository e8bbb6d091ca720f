----------------------------- MODULE ConfigStore -----------------------------
(***************************************************************************)
(* SaveNewConfig of src/store/store.go on a local file system, for the     *)
(* files of one path prefix: <prefix>0, <prefix>1, ... (committed          *)
(* configurations), <prefix>tmp (being written) and <prefix>last (the      *)
(* shortcut: the id of the newest).  A save is a sequence of file          *)
(* operations; each is a step, so that the program may crash between any   *)
(* two, any may fail, and saves of the same prefix by several goroutines   *)
(* (two backup jobs of one device, two sessions saving the program's own   *)
(* configuration) may interleave.                                          *)
(***************************************************************************)
EXTENDS Integers, FiniteSets, Functions

CONSTANTS Saver,       \* goroutines that may save under this prefix
          Content,     \* configurations
          Short,       \* content of a file not (completely) written
          Mixed,       \* content written by several savers, bytes of each
          Absent,      \* no file
          MaxFiles,    \* maxconfigfiles; less than 1 keeps all files
          ChangesOnly, \* refuse to save a copy of the last configuration
          Faults,      \* what can go wrong, see AllFaults
          MaxId        \* bound of the ids

AllFaults == {"crash", "create", "write", "list", "compare", "rename", "last",
              "removeLast", "remove"}

ASSUME ContentAssumption == Cardinality({Short, Mixed, Absent}) = 3
                            /\ {Short, Mixed, Absent} \cap Content = {}
ASSUME ParameterAssumption == /\ MaxFiles \in Nat /\ ChangesOnly \in BOOLEAN
                              /\ Faults \subseteq AllFaults /\ MaxId \in Nat

VARIABLES
    files,     \* committed files: id -> content
    tmp,       \* content of the tmp file, or Absent
    last,      \* the id in the shortcut file, NoId without one, or Blank
    save       \* one record per saver

vars == <<files, tmp, last, save>>

NoId  == -1    \* no id; also what SaveNewConfig uses without previous file
Blank == -2    \* a shortcut file that was truncated and not written

\* File descriptors of a saver: closed, open on the file that is now `tmp', on a
\* file without a name, or on the committed file of that id.
Closed == -1
OnTmp == -2
OnNothing == -3

IdleSave == [pc |-> "idle", arg |-> Short, fd |-> Closed, prev |-> NoId,
             doomed |-> {}, ok |-> FALSE]

Fault(f) == f \in Faults

\* Step s to pc.
Goto(s, pc) == save' = [save EXCEPT ![s].pc = pc]
\* The deferred removal of tmp is next, then the return, with or without error.
Return(s, ok) == save' = [save EXCEPT ![s] = [@ EXCEPT !.pc = "cleanup",
                                                      !.ok = ok]]

\* Descriptors open on the file `from' name are now on `to'.
Moved(saves, from, to) ==
    [s \in Saver |-> IF saves[s].fd = from THEN [saves[s] EXCEPT !.fd = to]
                                           ELSE saves[s]]

Newest == CHOOSE i \in DOMAIN files : \A k \in DOMAIN files : k <= i

\* Variant: the shortcut is followed without looking whether the file exists.
FindLastConfigBlindly == IF last # NoId THEN last
                         ELSE IF DOMAIN files = {} THEN NoId ELSE Newest

\* Variant: a save looks at the directory only, and not at the shortcut.
FindLastConfigByList == IF DOMAIN files = {} THEN NoId ELSE Newest

\* FindLastConfig: the shortcut when it names a file, else the highest id.
FindLastConfig == IF last \in DOMAIN files THEN last
                  ELSE IF DOMAIN files = {} THEN NoId ELSE Newest

------------------------------------------------------------------------------
(* SaveNewConfig *)

\* The bound of the ids: room for one more file of every saver.
Room == LET busy == {t \in Saver : save[t].pc # "idle"} IN
        \A i \in DOMAIN files : i + Cardinality(busy) < MaxId

\* Variant: an existing tmp file is not an error.
BeginAnyway(s, c) ==
    /\ save[s].pc = "idle"
    /\ Room
    /\ save' = [save EXCEPT ![s] = [IdleSave EXCEPT !.pc = "create", !.arg = c]]
    /\ UNCHANGED <<files, tmp, last>>

\* A caller has a configuration to save; a tmp file is an error.
Begin(s, c) ==
    /\ save[s].pc = "idle"
    /\ Room
    /\ tmp = Absent
    /\ save' = [save EXCEPT ![s] = [IdleSave EXCEPT !.pc = "create", !.arg = c]]
    /\ UNCHANGED <<files, tmp, last>>

\* writeFile opens tmp without O_TRUNC or O_EXCL: a file that appeared after the
\* check is shared.
Create(s) ==
    /\ save[s].pc = "create"
    /\ \/ /\ tmp' = IF tmp = Absent THEN Short ELSE tmp
          /\ save' = [save EXCEPT ![s] = [@ EXCEPT !.pc = "write", !.fd = OnTmp]]
       \/ /\ Fault("create")
          /\ save' = [save EXCEPT ![s] = IdleSave]
          /\ UNCHANGED tmp
    /\ UNCHANGED <<files, last>>

\* The content of a file s has open, once s has written to it: another saver t
\* that has it open may have written some of its own configuration into it.
Written(s, old) ==
    {save[s].arg} \cup
    IF old # Short \/ \E t \in Saver \ {s} : save[t].fd = save[s].fd
    THEN {Mixed} ELSE {}

\* writeFile writes and closes.
Write(s) ==
    /\ save[s].pc = "write"
    /\ \/ /\ save[s].fd = OnTmp
          /\ tmp' \in Written(s, tmp)
          /\ UNCHANGED files
       \/ /\ save[s].fd \in DOMAIN files
          /\ \E c \in Written(s, files[save[s].fd]) :
                files' = [files EXCEPT ![save[s].fd] = c]
          /\ UNCHANGED tmp
       \/ save[s].fd = OnNothing /\ UNCHANGED <<files, tmp>>
    /\ save' = [save EXCEPT ![s] = [@ EXCEPT !.pc = "find", !.fd = Closed]]
    /\ UNCHANGED last

\* Or it fails: SaveNewConfig returns before it defers the removal of tmp.
WriteFails(s) ==
    /\ save[s].pc = "write" /\ Fault("write")
    /\ save' = [save EXCEPT ![s] = IdleSave]
    /\ UNCHANGED <<files, tmp, last>>

\* Look for the previous file; an unreadable directory is like an empty one.
Find(s) ==
    /\ save[s].pc = "find"
    /\ \E p \in {FindLastConfig} \cup IF Fault("list") THEN {NoId} ELSE {} :
          save' = [save EXCEPT ![s] =
                     [@ EXCEPT !.prev = p,
                               !.pc = IF ChangesOnly /\ p # NoId
                                      THEN "compare" ELSE "check"]]
    /\ UNCHANGED <<files, tmp, last>>

Comparable(s) == save[s].prev \in DOMAIN files /\ tmp # Absent

\* The new configuration is the previous one: tmp is removed, or an error logged,
\* and nothing is saved.
CompareEqual(s) ==
    /\ save[s].pc = "compare"
    /\ Comparable(s) /\ files[save[s].prev] = tmp
    /\ \/ /\ tmp' = Absent
          /\ save' = Moved([save EXCEPT ![s] = [@ EXCEPT !.pc = "cleanup",
                                                        !.ok = TRUE]],
                           OnTmp, OnNothing)
       \/ Fault("remove") /\ UNCHANGED tmp /\ Return(s, TRUE)
    /\ UNCHANGED <<files, last>>

\* Variant: the outcome of the comparison is not used.
CompareIgnored(s) ==
    /\ save[s].pc = "compare"
    /\ Goto(s, "check")
    /\ UNCHANGED <<files, tmp, last>>

\* It is not, or they cannot be compared.
CompareUnequal(s) ==
    /\ save[s].pc = "compare"
    /\ Comparable(s) => files[save[s].prev] # tmp \/ Fault("compare")
    /\ Goto(s, "check")
    /\ UNCHANGED <<files, tmp, last>>

NewId(s) == save[s].prev + 1

\* Variant: a save waits for its id to become free.
CheckNewWaits(s) ==
    /\ save[s].pc = "check"
    /\ NewId(s) \notin DOMAIN files
    /\ Goto(s, "rename")
    /\ UNCHANGED <<files, tmp, last>>

\* The new id must be free.
CheckNew(s) ==
    /\ save[s].pc = "check"
    /\ IF NewId(s) \in DOMAIN files THEN Return(s, FALSE) ELSE Goto(s, "rename")
    /\ UNCHANGED <<files, tmp, last>>

\* rename(2) replaces a file that appeared under the new name.
Rename(s) ==
    /\ save[s].pc = "rename"
    /\ tmp # Absent /\ NewId(s) <= MaxId
    /\ files' = [i \in DOMAIN files \cup {NewId(s)} |->
                    IF i = NewId(s) THEN tmp ELSE files[i]]
    /\ tmp' = Absent
    /\ save' = Moved(Moved([save EXCEPT ![s].pc = "last"],
                           NewId(s), OnNothing),
                     OnTmp, NewId(s))
    /\ UNCHANGED last

\* Variant: the return after a failed rename has no deferred removal.
RenameFailsDirty(s) ==
    /\ save[s].pc = "rename"
    /\ tmp = Absent \/ Fault("rename")
    /\ save' = [save EXCEPT ![s] = IdleSave]
    /\ UNCHANGED <<files, tmp, last>>

RenameFails(s) ==
    /\ save[s].pc = "rename"
    /\ tmp = Absent \/ Fault("rename")
    /\ Return(s, FALSE)
    /\ UNCHANGED <<files, tmp, last>>

\* ioutil.WriteFile truncates the shortcut, then writes it; each may fail.
TruncateLast(s) ==
    /\ save[s].pc = "last"
    /\ \/ last' = Blank /\ Goto(s, "fill")
       \/ Fault("last") /\ UNCHANGED last /\ Goto(s, "drop")
    /\ UNCHANGED <<files, tmp>>

FillLast(s) ==
    /\ save[s].pc = "fill"
    /\ \/ last' = NewId(s) /\ Goto(s, "erase")
       \/ Fault("last") /\ UNCHANGED last /\ Goto(s, "drop")
    /\ UNCHANGED <<files, tmp>>

\* Variant: the shortcut is written again, until that succeeds.
DropLastRetried(s) ==
    /\ save[s].pc = "drop"
    /\ last' = NoId
    /\ Goto(s, "last")
    /\ UNCHANGED <<files, tmp>>

\* A shortcut that could not be written is removed; an error is ignored.
DropLast(s) ==
    /\ save[s].pc = "drop"
    /\ last' = NoId \/ (Fault("removeLast") /\ UNCHANGED last)
    /\ Goto(s, "erase")
    /\ UNCHANGED <<files, tmp>>

\* Variants: sorted the wrong way round; one file too many is kept.
OldReversed == {i \in DOMAIN files :
                  Cardinality({k \in DOMAIN files : k < i}) >= MaxFiles}
OldFewer == {i \in DOMAIN files :
               Cardinality({k \in DOMAIN files : k > i}) > MaxFiles}

\* What eraseOldFiles deletes: all but the MaxFiles highest ids.
Old == {i \in DOMAIN files :
          Cardinality({k \in DOMAIN files : k > i}) >= MaxFiles}

\* eraseOldFiles lists the files; a limit below 1, or an unreadable directory,
\* ends it.
ListOld(s) ==
    /\ save[s].pc = "erase"
    /\ \/ /\ MaxFiles > 0
          /\ save' = [save EXCEPT ![s] = [@ EXCEPT !.pc = "remove",
                                                  !.doomed = Old]]
       \/ (MaxFiles = 0 \/ Fault("list")) /\ Return(s, TRUE)
    /\ UNCHANGED <<files, tmp, last>>

\* It removes them one by one, oldest first, and goes on after an error.
RemoveOld(s, i) ==
    /\ save[s].pc = "remove"
    /\ i \in save[s].doomed /\ \A k \in save[s].doomed : i <= k
    /\ LET next == [save EXCEPT ![s].doomed = @ \ {i}] IN
       \/ /\ files' = Restrict(files, DOMAIN files \ {i})
          /\ save' = Moved(next, i, OnNothing)
       \/ /\ Fault("remove")
          /\ save' = next /\ UNCHANGED files
    /\ UNCHANGED <<tmp, last>>

RemoveDone(s) ==
    /\ save[s].pc = "remove" /\ save[s].doomed = {}
    /\ Return(s, TRUE)
    /\ UNCHANGED <<files, tmp, last>>

\* The deferred fileRemove(tmpPath): whatever is under that name now.
Cleanup(s) ==
    /\ save[s].pc = "cleanup"
    /\ \/ /\ tmp' = Absent
          /\ save' = Moved([save EXCEPT ![s] = IdleSave], OnTmp, OnNothing)
       \/ /\ Fault("remove")
          /\ save' = [save EXCEPT ![s] = IdleSave] /\ UNCHANGED tmp
    /\ UNCHANGED <<files, last>>

\* The program dies at any point and is started again: the files stay.
Crash ==
    /\ Fault("crash")
    /\ save' = [s \in Saver |-> IdleSave]
    /\ UNCHANGED <<files, tmp, last>>

------------------------------------------------------------------------------
Init ==
    /\ files = [i \in {} |-> Short]
    /\ tmp = Absent
    /\ last = NoId
    /\ save = [s \in Saver |-> IdleSave]

SaveStep(s) ==
    \/ Create(s) \/ Write(s) \/ WriteFails(s) \/ Find(s)
    \/ CompareEqual(s) \/ CompareUnequal(s) \/ CheckNew(s)
    \/ Rename(s) \/ RenameFails(s)
    \/ TruncateLast(s) \/ FillLast(s) \/ DropLast(s)
    \/ ListOld(s) \/ (\E i \in save[s].doomed : RemoveOld(s, i)) \/ RemoveDone(s)
    \/ Cleanup(s)

Next == \/ \E s \in Saver : SaveStep(s) \/ \E c \in Content : Begin(s, c)
        \/ Crash

\* A goroutine in the middle of a save is scheduled; nobody has to start one.
Safety == Init /\ [][Next]_vars
Spec == Safety /\ \A s \in Saver : WF_vars(SaveStep(s))

------------------------------------------------------------------------------
(* Properties *)

SavePc == {"idle", "create", "write", "find", "compare", "check", "rename",
           "last", "fill", "drop", "erase", "remove", "cleanup"}
FileContent == Content \cup {Short, Mixed}
SaveRecord == [pc: SavePc, arg: Content \cup {Short},
               fd: {Closed, OnTmp, OnNothing} \cup 0..MaxId,
               prev: {NoId} \cup 0..MaxId, doomed: SUBSET (0..MaxId),
               ok: BOOLEAN]

\* Every variable keeps its shape.
TypeOK == /\ DOMAIN files \subseteq 0..MaxId
          /\ files \in [DOMAIN files -> FileContent]
          /\ tmp \in FileContent \cup {Absent}
          /\ last \in {NoId, Blank} \cup 0..MaxId
          /\ save \in [Saver -> SaveRecord]

Idle == \A s \in Saver : save[s].pc = "idle"

\* The files implement the history: a save commits a complete configuration under
\* an id above all others and disturbs no committed file, and eraseOldFiles
\* deletes a file only when MaxFiles newer ones exist, at every point between two
\* file operations.
Hist == INSTANCE BackupHistory WITH hist <- files
HistoryImplemented == Hist!Spec

\* What makes the history inductive with one saver and a readable directory.

\* However often the program crashes and the shortcut's updates fail, FindLastConfig
\* is at most one configuration behind: the shortcut names no file, or the newest,
\* or the one before it, the saves after a crash included.
ShortcutInv == last \in DOMAIN files => \A k \in DOMAIN files : k <= last + 1

ContentInv == \A i \in DOMAIN files : files[i] \in Content

\* Where a save is, what tmp holds.
TmpInv(s) ==
    LET r == save[s] IN
    /\ r.fd # Closed => r.pc = "write" /\ r.fd = OnTmp
    /\ r.pc # "idle" => r.arg \in Content
    /\ r.pc = "create" => tmp = Absent
    /\ r.pc = "write" => tmp = Short /\ r.fd = OnTmp
    /\ r.pc \in {"find", "compare", "check", "rename"} => tmp \in Content

\* A save that has found its previous file either meets an occupied id or has one
\* above all others.
IdInv(s) ==
    /\ save[s].pc \in {"compare", "check", "rename"} =>
          /\ last \in DOMAIN files => save[s].prev = last
          /\ \/ NewId(s) \in DOMAIN files
             \/ \A k \in DOMAIN files : k < NewId(s)
    /\ save[s].pc = "rename" => NewId(s) \notin DOMAIN files
    /\ save[s].pc \in {"last", "fill"} => \A k \in DOMAIN files : k <= NewId(s)

\* What eraseOldFiles is still to delete has enough newer files.
DoomedInv(s) ==
    save[s].pc = "remove" =>
        /\ MaxFiles > 0 /\ save[s].doomed \subseteq DOMAIN files
        /\ \A i \in save[s].doomed :
              Cardinality({k \in DOMAIN files : k > i}) >= MaxFiles

StoreInv == /\ ShortcutInv /\ ContentInv
            /\ \A s \in Saver : TmpInv(s) /\ IdInv(s) /\ DoomedInv(s)

\* When SaveNewConfig returns without error, the configuration the caller saved is
\* the newest, or else the one the save took for the newest, not to be repeated.
SavedIsKept ==
    \A s \in Saver : save[s].pc = "cleanup" /\ save[s].ok =>
        \E i \in {save[s].prev, NewId(s)} \cap DOMAIN files :
            files[i] = save[s].arg /\ (i = NewId(s) => i = Newest)

\* With changesOnly, no two consecutive configurations are the same.
ChangesRecorded ==
    ChangesOnly => \A i \in DOMAIN files :
                       i + 1 \in DOMAIN files => files[i] # files[i + 1]

\* No save leaves a tmp file behind, which would make every later one fail.
NoLeftover == Idle => tmp = Absent

\* Between saves there are at most MaxFiles files.
Bounded == Idle /\ MaxFiles > 0 => Cardinality(DOMAIN files) <= MaxFiles

\* A save comes to an end, whatever fails.
SaveEnds == \A s \in Saver : save[s].pc # "idle" ~> save[s].pc = "idle"
==============================================================================
