--------------------------- MODULE SaveOutcomeProofs ---------------------------
(***************************************************************************)
(* What callers of SaveNewConfig rely on, from the model ConfigStore.      *)
(* With one save at a time and readable directories: the shortcut is at    *)
(* most one behind, a save that ends well has kept its configuration, and  *)
(* with changesOnly no two neighbours are the same, crashes included.      *)
(* With any number of savers at a time, and failures the code cleans up    *)
(* after: no tmp file is left and the number of files is bounded.          *)
(***************************************************************************)
EXTENDS ConfigStoreProofs, FiniteSetTheorems

------------------------------------------------------------------------------
(* One saver *)

\* FindLastConfig is at most one configuration behind.
THEOREM ShortcutNotFarBehind ==
    ASSUME OneSaver, Readable
    PROVE  Safety => []ShortcutInv
<1>1. Inv => ShortcutInv
  BY DEF Inv, StoreInv
<1> QED BY <1>1, Inductive, PTL

\* The configuration of s is the newest of the files.
NewestIsMine(s) ==
    /\ NewId(s) \in DOMAIN files /\ files[NewId(s)] = save[s].arg
    /\ \A k \in DOMAIN files : k <= NewId(s)

\* What is renamed is what the caller gave, and it stays until the save ends.
KeptInv(s) ==
    /\ save[s].pc \in {"find", "compare", "check", "rename"} => tmp = save[s].arg
    /\ save[s].pc \in {"last", "fill", "drop", "erase", "remove"} => NewestIsMine(s)
    /\ save[s].pc = "cleanup" /\ save[s].ok =>
         \/ NewestIsMine(s)
         \/ save[s].prev \in DOMAIN files /\ files[save[s].prev] = save[s].arg

\* What is to be renamed differs from its predecessor.
ChangeInv(s) ==
    save[s].pc \in {"check", "rename"} /\ save[s].prev \in DOMAIN files =>
        files[save[s].prev] # tmp

\* What a save is about; a step of the save that leaves this alone changes its place.
About(s) == <<files, tmp, save[s].arg, save[s].prev>>

LEMMA SameAbout ==
    ASSUME NEW s \in Saver, UNCHANGED About(s)
    PROVE  /\ NewestIsMine(s)' <=> NewestIsMine(s)
           /\ NewId(s)' = NewId(s)
BY DEF About, NewestIsMine, NewId

\* A rename or removal of a file moves descriptors and nothing else.
LEMMA MovedKeeps ==
    ASSUME NEW saves, SaveOK(saves), NEW s \in Saver, NEW from,
           NEW to
    PROVE  /\ Moved(saves, from, to)[s].pc = saves[s].pc
           /\ Moved(saves, from, to)[s].arg = saves[s].arg
           /\ Moved(saves, from, to)[s].prev = saves[s].prev
           /\ Moved(saves, from, to)[s].doomed = saves[s].doomed
           /\ Moved(saves, from, to)[s].ok = saves[s].ok
BY DEF Moved, SaveOK, RecordOK, SaveRecord

\* The outcome that a return reports.
LEMMA ReturnIs ==
    ASSUME SaveOK(save), NEW s \in Saver, NEW ok, Return(s, ok)
    PROVE  /\ save'[s].pc = "cleanup" /\ save'[s].ok = ok
           /\ save'[s].arg = save[s].arg /\ save'[s].prev = save[s].prev
BY DEF SaveOK, RecordOK, SaveRecord, Return

\* Steps of a save that leave files and tmp alone.
LEMMA MoveStep ==
    ASSUME TypeInv, NEW s \in Saver,
           \/ CompareUnequal(s) \/ CheckNew(s) \/ RenameFails(s)
           \/ TruncateLast(s) \/ FillLast(s) \/ DropLast(s)
           \/ ListOld(s) \/ RemoveDone(s)
    PROVE  /\ UNCHANGED About(s)
           /\ \/ /\ save[s].pc = "compare" /\ save'[s].pc = "check"
                 /\ Comparable(s) => files[save[s].prev] # tmp \/ Fault("compare")
              \/ save[s].pc = "check" /\ save'[s].pc = "rename"
              \/ save'[s].pc = "cleanup" /\ ~ save'[s].ok
              \/ /\ save[s].pc \in {"last", "fill", "drop", "erase", "remove"}
                 /\ save'[s].pc \in {"last", "fill", "drop", "erase", "remove", "cleanup"}
<1>0. SaveOK(save)
  BY DEF TypeInv
<1>1. CASE CompareUnequal(s)
  BY <1>0, <1>1, GotoMoves DEF CompareUnequal, Moves, About
<1>2. CASE CheckNew(s)
  BY <1>0, <1>2, GotoMoves, ReturnIs DEF CheckNew, Moves, About
<1>3. CASE RenameFails(s)
  BY <1>0, <1>3, ReturnIs DEF RenameFails, About
<1>4. CASE TruncateLast(s)
  BY <1>0, <1>4, GotoMoves DEF TruncateLast, Moves, About
<1>5. CASE FillLast(s)
  BY <1>0, <1>5, GotoMoves DEF FillLast, Moves, About
<1>6. CASE DropLast(s)
  BY <1>0, <1>6, GotoMoves DEF DropLast, Moves, About
<1>7. CASE ListOld(s)
  <2>1. save'[s] = [save[s] EXCEPT !.pc = "remove", !.doomed = Old] \/ Return(s, TRUE)
    BY <1>0, <1>7 DEF ListOld, SaveOK
  <2>2. save[s] \in SaveRecord
    BY <1>0 DEF SaveOK, RecordOK
  <2>3. CASE save'[s] = [save[s] EXCEPT !.pc = "remove", !.doomed = Old]
    <3>1. /\ save'[s].pc = "remove" /\ save'[s].arg = save[s].arg
          /\ save'[s].prev = save[s].prev
      BY ONLY <2>2, <2>3 DEF SaveRecord
    <3> QED BY <1>7, <3>1 DEF ListOld, About
  <2>4. CASE Return(s, TRUE)
    BY <1>0, <1>7, <2>4, ReturnIs DEF ListOld, About
  <2> QED BY <2>1, <2>3, <2>4
<1>8. CASE RemoveDone(s)
  BY <1>0, <1>8, ReturnIs DEF RemoveDone, About
<1> QED BY <1>1, <1>2, <1>3, <1>4, <1>5, <1>6, <1>7, <1>8

\* Steps that begin a save or end it.
LEMMA RestStep ==
    ASSUME TypeInv, NEW s \in Saver,
           \/ \E c \in Content : Begin(s, c)
           \/ Create(s) \/ WriteFails(s) \/ Cleanup(s) \/ Crash
    PROVE  save'[s].pc \in {"create", "write", "idle"} /\ UNCHANGED files
<1>0. SaveOK(save)
  BY DEF TypeInv
<1>1. CASE \E c \in Content : Begin(s, c)
  BY <1>0, <1>1 DEF Begin, SaveOK, IdleSave
<1>2. CASE Create(s)
  <2>1. save[s] \in SaveRecord
    BY <1>0 DEF SaveOK, RecordOK
  <2>2. /\ [save[s] EXCEPT !.pc = "write", !.fd = OnTmp].pc = "write"
        /\ IdleSave.pc = "idle"
    BY ONLY <2>1 DEF SaveRecord, IdleSave
  <2>3. save'[s] = [save[s] EXCEPT !.pc = "write", !.fd = OnTmp] \/ save'[s] = IdleSave
    BY <1>0, <1>2 DEF Create, SaveOK
  <2> QED BY <1>2, <2>2, <2>3 DEF Create
<1>3. CASE WriteFails(s) \/ Crash
  BY <1>0, <1>3 DEF WriteFails, Crash, SaveOK, IdleSave
<1>4. CASE Cleanup(s)
  <2>1. SaveOK([save EXCEPT ![s] = IdleSave]) /\ IdleSave.pc = "idle"
    BY <1>0, IdleRecord, SaveChange DEF IdleSave
  <2>2. [save EXCEPT ![s] = IdleSave][s] = IdleSave
    BY <1>0 DEF SaveOK
  <2> QED BY <1>4, <2>1, <2>2, MovedKeeps DEF Cleanup
<1> QED BY <1>1, <1>2, <1>3, <1>4

\* What a rename and a removal leave.
RenamedIs(s) ==
    /\ save'[s].pc = "last" /\ save'[s].arg = save[s].arg
    /\ save'[s].prev = save[s].prev
    /\ DOMAIN files' = DOMAIN files \cup {NewId(s)}
    /\ files'[NewId(s)] = tmp
    /\ \A i \in DOMAIN files \ {NewId(s)} : files'[i] = files[i]

RemovedIs(s, i) ==
    /\ save'[s].pc = save[s].pc /\ save'[s].arg = save[s].arg
    /\ save'[s].prev = save[s].prev
    /\ save'[s].doomed = save[s].doomed \ {i}
    /\ DOMAIN files' \subseteq DOMAIN files /\ DOMAIN files \ {i} \subseteq DOMAIN files'
    /\ \A k \in DOMAIN files' : files'[k] = files[k]

LEMMA RenameIs ==
    ASSUME TypeInv, NEW s \in Saver, Rename(s)
    PROVE  RenamedIs(s)
<1> DEFINE r == [save[s] EXCEPT !.pc = "last"]
           next == [save EXCEPT ![s] = r]
           moved == Moved(next, NewId(s), OnNothing)
<1>0. SaveOK(save) /\ save[s] \in SaveRecord
  BY DEF TypeInv, SaveOK, RecordOK
<1>1. r.pc = "last" /\ r.arg = save[s].arg /\ r.prev = save[s].prev
  BY <1>0 DEF SaveRecord
<1>2. NewId(s) \in 0..MaxId
  BY <1>0, ParameterAssumption DEF Rename, NewId, SaveRecord, NoId
<1>3. save' = Moved(moved, OnTmp, NewId(s))
  BY DEF Rename
<1>4. RecordOK(r)
  BY <1>0, <1>2, RecordGoto DEF SavePc, NewId
<1> HIDE DEF r
<1>5. SaveOK(next) /\ next[s] = r
  BY <1>0, <1>4, SaveChange DEF SaveOK
<1> HIDE DEF next
<1>6. SaveOK(moved)
  BY <1>5, SaveMoved
<1>7. moved[s].pc = r.pc /\ moved[s].arg = r.arg /\ moved[s].prev = r.prev
  BY <1>5, MovedKeeps
<1> HIDE DEF moved
<1>8. save'[s].pc = r.pc /\ save'[s].arg = r.arg /\ save'[s].prev = r.prev
  BY <1>3, <1>6, <1>7, MovedKeeps
<1> QED BY <1>1, <1>8 DEF Rename, RenamedIs

LEMMA RemoveIs ==
    ASSUME TypeInv, NEW s \in Saver, NEW i \in save[s].doomed, RemoveOld(s, i)
    PROVE  RemovedIs(s, i)
<1> DEFINE r == [save[s] EXCEPT !.doomed = save[s].doomed \ {i}]
           next == [save EXCEPT ![s] = r]
<1>0. SaveOK(save) /\ save[s] \in SaveRecord /\ RecordOK(save[s])
  BY DEF TypeInv, SaveOK, RecordOK
<1>1. /\ r.pc = save[s].pc /\ r.arg = save[s].arg /\ r.prev = save[s].prev
      /\ r.doomed = save[s].doomed \ {i}
  BY <1>0 DEF SaveRecord
<1>2. /\ save' = Moved(next, i, OnNothing) \/ save' = next
      /\ files' = Restrict(files, DOMAIN files \ {i}) \/ files' = files
  BY DEF RemoveOld
<1>3. RecordOK(r)
  BY <1>0 DEF RecordOK, SaveRecord
<1> HIDE DEF r
<1>4. SaveOK(next) /\ next[s] = r
  BY <1>0, <1>3, SaveChange DEF SaveOK
<1> HIDE DEF next
<1>5. /\ save'[s].pc = r.pc /\ save'[s].arg = r.arg /\ save'[s].prev = r.prev
      /\ save'[s].doomed = r.doomed
  BY <1>2, <1>4, MovedKeeps
<1>6. /\ DOMAIN files' \subseteq DOMAIN files /\ DOMAIN files \ {i} \subseteq DOMAIN files'
      /\ \A k \in DOMAIN files' : files'[k] = files[k]
  BY <1>2 DEF Restrict
<1> QED BY <1>1, <1>5, <1>6 DEF RemovedIs

LEMMA CompareEqualIs ==
    ASSUME TypeInv, NEW s \in Saver, CompareEqual(s)
    PROVE  /\ save'[s].pc = "cleanup" /\ save'[s].arg = save[s].arg
           /\ save'[s].prev = save[s].prev
<1> DEFINE r == [save[s] EXCEPT !.pc = "cleanup", !.ok = TRUE]
           next == [save EXCEPT ![s] = r]
<1>0. SaveOK(save) /\ save[s] \in SaveRecord
  BY DEF TypeInv, SaveOK, RecordOK
<1>1. r.pc = "cleanup" /\ r.arg = save[s].arg /\ r.prev = save[s].prev
  BY <1>0 DEF SaveRecord
<1>2. save' = Moved(next, OnTmp, OnNothing) \/ save' = next
  BY DEF CompareEqual, Return
<1>3. RecordOK(r)
  BY <1>0, RecordGoto DEF SavePc
<1> HIDE DEF r
<1>4. SaveOK(next) /\ next[s] = r
  BY <1>0, <1>3, SaveChange DEF SaveOK
<1> HIDE DEF next
<1> QED BY <1>1, <1>2, <1>4, MovedKeeps

LEMMA InitOutcome ==
    ASSUME Init
    PROVE  /\ \A s \in Saver : KeptInv(s) /\ ChangeInv(s)
           /\ ChangesRecorded
BY DEF Init, IdleSave, KeptInv, ChangeInv, ChangesRecorded

LEMMA KeptStep ==
    ASSUME OneSaver, Readable, TypeInv, StoreInv, \A s \in Saver : KeptInv(s),
           [Next]_vars
    PROVE  \A s \in Saver : KeptInv(s)'
<1> SUFFICES ASSUME NEW s \in Saver PROVE KeptInv(s)'
  OBVIOUS
<1>0. /\ TypeOK /\ SaveOK(save) /\ save[s] \in SaveRecord
      /\ TmpInv(s) /\ IdInv(s) /\ DoomedInv(s) /\ KeptInv(s)
  BY TypeInvTypes DEF TypeInv, StoreInv, SaveOK, RecordOK
<1>1. CASE (\E c \in Content : Begin(s, c))
           \/ Create(s) \/ WriteFails(s) \/ Cleanup(s) \/ Crash
  BY <1>1, RestStep DEF KeptInv
<1>2. CASE CompareUnequal(s) \/ CheckNew(s) \/ RenameFails(s)
           \/ TruncateLast(s) \/ FillLast(s) \/ DropLast(s)
           \/ ListOld(s) \/ RemoveDone(s)
  <2>1. /\ UNCHANGED About(s)
        /\ \/ save[s].pc = "compare" /\ save'[s].pc = "check"
           \/ save[s].pc = "check" /\ save'[s].pc = "rename"
           \/ save'[s].pc = "cleanup" /\ ~ save'[s].ok
           \/ /\ save[s].pc \in {"last", "fill", "drop", "erase", "remove"}
              /\ save'[s].pc \in {"last", "fill", "drop", "erase", "remove", "cleanup"}
    BY <1>2, MoveStep
  <2>2. NewestIsMine(s)' <=> NewestIsMine(s)
    BY <2>1, SameAbout
  <2> QED BY <1>0, <2>1, <2>2 DEF KeptInv, About
<1>3. CASE Write(s)
  <2>1. save'[s] = [save[s] EXCEPT !.pc = "find", !.fd = Closed]
        /\ save[s].fd = OnTmp /\ save[s].pc = "write" /\ tmp = Short
    BY <1>0, <1>3 DEF Write, SaveOK, TmpInv
  <2>2. tmp' = save[s].arg
    BY <1>0, <1>3, <2>1, ParameterAssumption
       DEF Write, Written, OnTmp, OnNothing, OneSaver, TypeOK
  <2>3. save'[s].pc = "find" /\ save'[s].arg = save[s].arg
    BY <1>0, <2>1 DEF SaveRecord
  <2> QED BY <2>2, <2>3 DEF KeptInv
<1>4. CASE Find(s)
  <2>1. PICK pc \in {"compare", "check"}, p \in {FindLastConfig, NoId} :
           save'[s] = [save[s] EXCEPT !.prev = p, !.pc = pc]
    BY <1>0, <1>4 DEF Find, SaveOK
  <2>2. save'[s].pc = pc /\ save'[s].arg = save[s].arg
    BY <1>0, <2>1 DEF SaveRecord
  <2> QED BY <1>0, <1>4, <2>2 DEF Find, KeptInv
<1>5. CASE CompareEqual(s)
  <2>1. save[s].prev \in DOMAIN files /\ files[save[s].prev] = save[s].arg
    BY <1>0, <1>5 DEF CompareEqual, Comparable, KeptInv
  <2>2. /\ save'[s].pc = "cleanup" /\ save'[s].arg = save[s].arg
        /\ save'[s].prev = save[s].prev
    BY <1>5, CompareEqualIs
  <2> QED BY <1>5, <2>1, <2>2 DEF CompareEqual, KeptInv
<1>6. CASE Rename(s)
  <2>1. RenamedIs(s)
    BY <1>0, <1>6, RenameIs
  <2>2. NewId(s)' = NewId(s) /\ tmp = save[s].arg
    BY <1>0, <1>6, <2>1 DEF RenamedIs, NewId, Rename, KeptInv
  <2>3. NewId(s) \in Int /\ \A k \in DOMAIN files : k \in Int /\ k < NewId(s)
    BY <1>0, <1>6, ParameterAssumption
       DEF Rename, IdInv, TypeOK, NewId, SaveRecord, NoId
  <2>4. NewestIsMine(s)'
    BY ONLY <2>1, <2>2, <2>3 DEF RenamedIs, NewestIsMine
  <2> QED BY <2>1, <2>4 DEF RenamedIs, KeptInv
<1>7. ASSUME NEW i \in save[s].doomed, RemoveOld(s, i) PROVE KeptInv(s)'
  <2>1. RemovedIs(s, i)
    BY <1>0, <1>7, RemoveIs
  <2>2. NewestIsMine(s) /\ save[s].pc = "remove"
    BY <1>0, <1>7 DEF RemoveOld, KeptInv
  <2>3. i # NewId(s)
    <3>1. SUFFICES ASSUME i = NewId(s) PROVE FALSE
      OBVIOUS
    <3>2. {k \in DOMAIN files : k > i} = {}
      BY <1>0, <2>2, <3>1, ParameterAssumption DEF NewestIsMine, TypeOK
    <3> QED BY <1>0, <2>2, <3>2, FS_EmptySet, ParameterAssumption DEF DoomedInv
  <2>4. NewestIsMine(s)'
    BY <2>1, <2>2, <2>3 DEF RemovedIs, NewestIsMine, NewId
  <2> QED BY <2>1, <2>2, <2>4 DEF RemovedIs, KeptInv
<1>8. CASE UNCHANGED vars
  BY <1>0, <1>8 DEF vars, KeptInv, NewestIsMine, NewId
<1> QED
  BY <1>1, <1>2, <1>3, <1>4, <1>5, <1>6, <1>7, <1>8 DEF Next, SaveStep, OneSaver

LEMMA ChangeStep ==
    ASSUME OneSaver, Readable, ~ Fault("compare"), ChangesOnly, TypeInv, StoreInv,
           \A s \in Saver : ChangeInv(s), ChangesRecorded, [Next]_vars
    PROVE  (\A s \in Saver : ChangeInv(s)') /\ ChangesRecorded'
<1>1. ASSUME NEW s \in Saver,
             \/ (\E c \in Content : Begin(s, c))
             \/ Create(s) \/ WriteFails(s) \/ Cleanup(s)
      PROVE  ChangeInv(s)' /\ ChangesRecorded'
  BY <1>1, RestStep DEF ChangeInv, ChangesRecorded
<1>2. ASSUME NEW s \in Saver, SaveStep(s) PROVE ChangeInv(s)' /\ ChangesRecorded'
  <2>0. /\ TypeOK /\ SaveOK(save) /\ save[s] \in SaveRecord
        /\ TmpInv(s) /\ IdInv(s) /\ ChangeInv(s)
    BY TypeInvTypes DEF TypeInv, StoreInv, SaveOK, RecordOK
  <2>1. CASE Create(s) \/ WriteFails(s) \/ Cleanup(s)
    BY <1>1, <2>1
  <2>2. CASE CompareUnequal(s) \/ CheckNew(s) \/ RenameFails(s)
             \/ TruncateLast(s) \/ FillLast(s) \/ DropLast(s)
             \/ ListOld(s) \/ RemoveDone(s)
    <3>1. /\ UNCHANGED About(s)
          /\ \/ /\ save[s].pc = "compare" /\ save'[s].pc = "check"
                /\ Comparable(s) => files[save[s].prev] # tmp \/ Fault("compare")
             \/ save[s].pc = "check" /\ save'[s].pc = "rename"
             \/ save'[s].pc \notin {"check", "rename"}
      BY <2>2, MoveStep
    <3>2. save[s].pc = "compare" => tmp # Absent
      BY <2>0, ContentAssumption DEF TmpInv
    <3> QED BY <2>0, <3>1, <3>2 DEF ChangeInv, ChangesRecorded, About, Comparable
  <2>3. CASE Write(s)
    <3>1. save'[s] = [save[s] EXCEPT !.pc = "find", !.fd = Closed] /\ files' = files
      <4>1. save'[s] = [save[s] EXCEPT !.pc = "find", !.fd = Closed]
        BY <2>0, <2>3 DEF Write, SaveOK
      <4>2. save[s].fd = OnTmp
        BY <2>0, <2>3 DEF Write, TmpInv
      <4>3. OnTmp \notin DOMAIN files
        BY <2>0, ParameterAssumption DEF TypeOK, OnTmp
      <4>4. files' = files
        BY ONLY <2>3, <4>2, <4>3 DEF Write
      <4> QED BY <4>1, <4>4
    <3>2. save'[s].pc = "find"
      BY <2>0, <3>1 DEF SaveRecord
    <3> QED BY <3>1, <3>2 DEF ChangeInv, ChangesRecorded
  <2>4. CASE Find(s)
    <3> DEFINE next(p) ==
                 [save[s] EXCEPT !.prev = p,
                    !.pc = IF ChangesOnly /\ p # NoId THEN "compare" ELSE "check"]
    <3>1. PICK p : save'[s] = next(p)
      <4>1. PICK p : save' = [save EXCEPT ![s] = next(p)]
        BY <2>4 DEF Find
      <4> HIDE DEF next
      <4> QED BY <2>0, <4>1 DEF SaveOK
    <3>2. /\ save'[s].prev = p
          /\ save'[s].pc = IF ChangesOnly /\ p # NoId THEN "compare" ELSE "check"
      BY <2>0, <3>1 DEF SaveRecord
    <3>3. NoId \notin DOMAIN files
      BY <2>0, ParameterAssumption DEF TypeOK, NoId
    <3> QED BY <2>4, <3>2, <3>3 DEF Find, ChangeInv, ChangesRecorded
  <2>5. CASE CompareEqual(s)
    <3>1. save'[s].pc = "cleanup"
      BY <2>5, CompareEqualIs
    <3> QED BY <2>5, <3>1 DEF CompareEqual, ChangeInv, ChangesRecorded
  <2>6. CASE Rename(s)
    <3>1. RenamedIs(s)
      BY <2>0, <2>6, RenameIs
    <3>2. \A k \in DOMAIN files : k \in Int /\ k < NewId(s)
      BY <2>0, <2>6, ParameterAssumption DEF Rename, IdInv, TypeOK
    <3>3. save[s].prev \in Int /\ NewId(s) = save[s].prev + 1
      BY <2>0, ParameterAssumption DEF SaveRecord, NewId, NoId
    <3>4. save[s].prev \in DOMAIN files => files[save[s].prev] # tmp
      BY <2>0, <2>6 DEF Rename, ChangeInv
    <3>5. ASSUME NEW i \in DOMAIN files', i + 1 \in DOMAIN files'
          PROVE  files'[i] # files'[i + 1]
      <4>1. i \in DOMAIN files /\ i \in Int
        BY <3>1, <3>2, <3>3, <3>5 DEF RenamedIs
      <4>2. CASE i + 1 = NewId(s)
        BY <3>1, <3>2, <3>3, <3>4, <4>1, <4>2 DEF RenamedIs
      <4>3. CASE i + 1 # NewId(s)
        BY <3>1, <3>2, <3>5, <4>1, <4>3 DEF RenamedIs, ChangesRecorded
      <4> QED BY <4>2, <4>3
    <3> QED BY <3>1, <3>5 DEF RenamedIs, ChangeInv, ChangesRecorded
  <2>7. ASSUME NEW i \in save[s].doomed, RemoveOld(s, i)
        PROVE  ChangeInv(s)' /\ ChangesRecorded'
    <3>1. RemovedIs(s, i) /\ save[s].pc = "remove"
      BY <2>0, <2>7, RemoveIs DEF RemoveOld
    <3> QED BY <3>1 DEF RemovedIs, ChangeInv, ChangesRecorded
  <2> QED BY <1>2, <2>1, <2>2, <2>3, <2>4, <2>5, <2>6, <2>7 DEF SaveStep
<1>3. CASE Crash \/ UNCHANGED vars
  <2>1. /\ UNCHANGED files
        /\ \A s \in Saver : save'[s] = IdleSave \/ UNCHANGED <<tmp, save>>
    BY <1>3 DEF Crash, vars
  <2> QED BY <2>1 DEF IdleSave, ChangeInv, ChangesRecorded
<1> QED BY <1>1, <1>2, <1>3 DEF Next, OneSaver

\* With one save at a time, a save that reports success has kept the configuration it
\* was given, as the newest or as a copy of its predecessor, whatever fails meanwhile.
THEOREM SuccessMeansKept ==
    ASSUME OneSaver, Readable
    PROVE  Safety => []SavedIsKept
<1>1. Init => \A s \in Saver : KeptInv(s)
  BY InitOutcome
<1>2. Inv /\ (\A s \in Saver : KeptInv(s)) /\ [Next]_vars => (\A s \in Saver : KeptInv(s))'
  BY KeptStep DEF Inv
<1>3. Inv /\ (\A s \in Saver : KeptInv(s)) => SavedIsKept
  <2> SUFFICES ASSUME Inv, \A s \in Saver : KeptInv(s), NEW s \in Saver,
                      save[s].pc = "cleanup", save[s].ok
               PROVE  \E i \in {save[s].prev, NewId(s)} \cap DOMAIN files :
                         files[i] = save[s].arg /\ (i = NewId(s) => i = Newest)
    BY DEF SavedIsKept
  <2>0. TypeOK /\ FilesOK /\ save[s] \in SaveRecord
    BY TypeInvTypes DEF Inv, TypeInv, SaveOK, RecordOK
  <2>1. CASE NewestIsMine(s)
    <3>1. NewId(s) \in DOMAIN files /\ \A k \in DOMAIN files : k \in Int /\ k <= NewId(s)
      BY <2>0, <2>1, ParameterAssumption DEF NewestIsMine, TypeOK
    <3>2. Newest \in DOMAIN files /\ NewId(s) <= Newest
      BY ONLY <2>0, <3>1, NewestIsGreatest
    <3>3. Newest = NewId(s)
      BY ONLY <3>1, <3>2
    <3> QED BY <2>1, <3>1, <3>3 DEF NewestIsMine
  <2>2. CASE save[s].prev \in DOMAIN files /\ files[save[s].prev] = save[s].arg
    <3>1. save[s].prev # NewId(s)
      BY <2>0, ParameterAssumption DEF SaveRecord, NewId, NoId
    <3> QED BY <2>2, <3>1
  <2> QED BY <2>1, <2>2 DEF KeptInv
<1> QED BY <1>1, <1>2, <1>3, Inductive, PTL DEF Safety

\* With changesOnly and one save at a time, no configuration equals the one before it,
\* as long as two files that exist can be compared.
THEOREM OnlyChangesRecorded ==
    ASSUME OneSaver, Readable, ~ Fault("compare")
    PROVE  Safety => []ChangesRecorded
<1> DEFINE Changes == (\A s \in Saver : ChangeInv(s)) /\ ChangesRecorded
<1>1. Init => Changes
  BY InitOutcome
<1>2. ASSUME ChangesOnly PROVE Inv /\ Changes /\ [Next]_vars => Changes'
  BY <1>2, ChangeStep DEF Inv
<1>3. ASSUME ~ ChangesOnly PROVE ChangesRecorded
  BY <1>3 DEF ChangesRecorded
<1>4. CASE ChangesOnly
  <2>1. Inv /\ Changes /\ [Next]_vars => Changes'
    BY <1>2, <1>4
  <2>2. Changes => ChangesRecorded
    OBVIOUS
  <2> HIDE DEF Changes
  <2> QED BY <1>1, <2>1, <2>2, Inductive, PTL DEF Safety
<1>5. CASE ~ ChangesOnly
  <2>1. ChangesRecorded
    BY <1>3, <1>5
  <2> QED BY <1>5, PTL DEF Safety, ChangesRecorded
<1> QED BY <1>4, <1>5

------------------------------------------------------------------------------
(* Any number of savers *)

\* A removal, and the writes, fail with these faults, and a crash ends all saves.
CleanedUp == Faults \cap {"write", "remove", "crash"} = {}

\* A step of one save changes nothing of another but what its descriptor is on.
Untouched(t) == save'[t].pc = save[t].pc /\ save'[t].doomed = save[t].doomed

LEMMA MovedOther ==
    ASSUME TypeInv, NEW s \in Saver, NEW t \in Saver \ {s}, NEW r, NEW from, NEW to
    PROVE  LET saves == Moved([save EXCEPT ![s] = r], from, to) IN
           saves[t].pc = save[t].pc /\ saves[t].doomed = save[t].doomed
BY DEF TypeInv, SaveOK, RecordOK, SaveRecord, Moved

LEMMA OtherSavers ==
    ASSUME TypeInv, NEW s \in Saver, NEW t \in Saver \ {s},
           SaveStep(s) \/ \E c \in Content : Begin(s, c)
    PROVE  Untouched(t)
<1>0. save = [x \in Saver |-> save[x]] /\ save[t] \in SaveRecord
  BY DEF TypeInv, SaveOK, RecordOK
<1>1. CASE \/ \E c \in Content : Begin(s, c)
           \/ Create(s) \/ Write(s) \/ WriteFails(s) \/ Find(s) \/ CompareUnequal(s)
           \/ CheckNew(s) \/ RenameFails(s) \/ TruncateLast(s) \/ FillLast(s)
           \/ DropLast(s) \/ ListOld(s) \/ RemoveDone(s)
  <2>1. \E r : save' = [save EXCEPT ![s] = r]
    BY <1>0, <1>1 DEF Begin, Create, Write, WriteFails, Find, CompareUnequal, CheckNew,
         RenameFails, TruncateLast, FillLast, DropLast, ListOld, RemoveDone, Goto, Return
  <2> QED BY <1>0, <2>1 DEF Untouched
<1>2. CASE CompareEqual(s)
  BY <1>0, <1>2, MovedOther DEF CompareEqual, Return, Untouched
<1>3. CASE Rename(s)
  <2> DEFINE next == [save EXCEPT ![s].pc = "last"]
             moved == Moved(next, NewId(s), OnNothing)
  <2>1. next[t] = save[t]
    BY <1>0
  <2> HIDE DEF next
  <2>2. moved[t] = save[t] \/ moved[t] = [save[t] EXCEPT !.fd = OnNothing]
    BY <2>1 DEF Moved
  <2>3. Moved(moved, OnTmp, NewId(s))[t]
           \in {moved[t], [moved[t] EXCEPT !.fd = NewId(s)]}
    BY DEF Moved
  <2>4. save' = Moved(moved, OnTmp, NewId(s))
    BY <1>3 DEF Rename, next
  <2> HIDE DEF moved
  <2> QED BY <1>0, <2>2, <2>3, <2>4 DEF Untouched, SaveRecord
<1>4. CASE \E i \in save[s].doomed : RemoveOld(s, i)
  BY <1>0, <1>4, MovedOther DEF RemoveOld, Untouched
<1>5. CASE Cleanup(s)
  BY <1>0, <1>5, MovedOther DEF Cleanup, Untouched
<1> QED BY <1>1, <1>2, <1>3, <1>4, <1>5 DEF SaveStep

\* A tmp file has a save that goes on to its deferred removal.
LeftoverInv == tmp # Absent => \E s \in Saver : save[s].pc \notin {"idle", "create"}

LEMMA LeftoverStep ==
    ASSUME CleanedUp, TypeInv, LeftoverInv, [Next]_vars
    PROVE  LeftoverInv'
<1>0. SaveOK(save) /\ ~ Fault("write") /\ ~ Fault("remove") /\ ~ Fault("crash")
  BY DEF TypeInv, CleanedUp, Fault
<1>1. ASSUME NEW s \in Saver, SaveStep(s) \/ \E c \in Content : Begin(s, c)
      PROVE  LeftoverInv'
  <2>0. save[s] \in SaveRecord
    BY <1>0 DEF SaveOK, RecordOK
  <2>1. \A t \in Saver \ {s} : save'[t].pc = save[t].pc
    BY <1>1, OtherSavers DEF Untouched
  <2>2. \/ tmp' = Absent
        \/ save'[s].pc \notin {"idle", "create"}
        \/ tmp' = tmp /\ save[s].pc \in {"idle", "create"}
    <3>1. CASE CompareUnequal(s) \/ CheckNew(s) \/ RenameFails(s)
               \/ TruncateLast(s) \/ FillLast(s) \/ DropLast(s)
               \/ ListOld(s) \/ RemoveDone(s)
      BY <3>1, MoveStep
    <3>2. CASE CompareEqual(s)
      BY <3>2, CompareEqualIs
    <3>3. CASE Rename(s) \/ Cleanup(s)
      BY <1>0, <3>3 DEF Rename, Cleanup
    <3>4. ASSUME NEW i \in save[s].doomed, RemoveOld(s, i)
          PROVE  save'[s].pc \notin {"idle", "create"}
      BY <3>4, RemoveIs DEF RemovedIs, RemoveOld
    <3>5. CASE \E c \in Content : Begin(s, c)
      BY <3>5 DEF Begin
    <3>6. CASE Create(s)
      <4>1. CASE save' = [save EXCEPT ![s] = [save[s] EXCEPT !.pc = "write", !.fd = OnTmp]]
        <5>1. save'[s] = [save[s] EXCEPT !.pc = "write", !.fd = OnTmp]
          BY <1>0, <4>1 DEF SaveOK
        <5> QED BY <2>0, <5>1 DEF SaveRecord
      <4>2. CASE UNCHANGED tmp
        BY <3>6, <4>2 DEF Create
      <4> QED BY <3>6, <4>1, <4>2 DEF Create
    <3>7. CASE Write(s)
      <4>1. save'[s] = [save[s] EXCEPT !.pc = "find", !.fd = Closed]
        BY <1>0, <3>7 DEF Write, SaveOK
      <4> QED BY <2>0, <4>1 DEF SaveRecord
    <3>8. CASE Find(s)
      <4>1. \E p : \E pc \in {"compare", "check"} :
               save'[s] = [save[s] EXCEPT !.prev = p, !.pc = pc]
        BY <1>0, <3>8 DEF Find, SaveOK
      <4> QED BY <2>0, <4>1 DEF SaveRecord
    <3>9. ~ WriteFails(s)
      BY <1>0 DEF WriteFails
    <3> QED BY <1>1, <3>1, <3>2, <3>3, <3>4, <3>5, <3>6, <3>7, <3>8, <3>9 DEF SaveStep
  <2> QED BY <2>1, <2>2 DEF LeftoverInv
<1>2. CASE UNCHANGED vars
  BY <1>2 DEF vars, LeftoverInv
<1>3. ~ Crash
  BY <1>0 DEF Crash
<1> QED BY <1>1, <1>2, <1>3 DEF Next

\* However many save at a time, no tmp file is left when all have returned, if writing
\* it and removing files do not fail and the program does not crash.
THEOREM NothingLeft ==
    ASSUME CleanedUp
    PROVE  Safety => []NoLeftover
<1>1. Init => LeftoverInv
  BY DEF Init, LeftoverInv
<1>2. TypeInv /\ LeftoverInv /\ [Next]_vars => LeftoverInv'
  BY LeftoverStep
<1>3. LeftoverInv => NoLeftover
  BY DEF LeftoverInv, NoLeftover, Idle
<1> QED BY <1>1, <1>2, <1>3, InitType, TypeStep, PTL DEF Safety

LEMMA Least ==
    ASSUME NEW n \in Nat, NEW S \in SUBSET (0..n), S # {}
    PROVE  \E i \in S : \A k \in S : i <= k
<1> DEFINE T == {n - i : i \in S}
<1>1. T \in SUBSET (0..n) /\ T # {}
  <2>1. \A i \in S : n - i \in 0..n
    OBVIOUS
  <2> QED BY <2>1
<1>2. PICK j \in T : \A k \in T : k <= j
  <2> HIDE DEF T
  <2> QED BY <1>1, Greatest
<1>3. PICK i \in S : j = n - i
  OBVIOUS
<1>4. ASSUME NEW k \in S PROVE i <= k
  <2>1. n - k \in T
    OBVIOUS
  <2>2. n - k <= n - i /\ k \in Int /\ i \in Int
    BY <1>2, <1>3, <2>1
  <2> QED BY <2>2
<1> QED BY <1>4

LEMMA Fewer ==
    ASSUME TypeOK, NEW S \in SUBSET DOMAIN files, NEW T \in SUBSET S,
           Cardinality(S) <= MaxFiles
    PROVE  Cardinality(T) <= MaxFiles
<1>1. MaxId \in Int /\ MaxFiles \in Nat /\ S \in SUBSET (0..MaxId)
  BY ParameterAssumption DEF TypeOK
<1>2. IsFiniteSet(0..MaxId)
  BY ONLY <1>1, FS_Interval, 0 \in Int
<1>3. IsFiniteSet(S)
  BY ONLY <1>1, <1>2, FS_Subset
<1>4. IsFiniteSet(T) /\ Cardinality(T) <= Cardinality(S)
  BY ONLY <1>3, T \in SUBSET S, FS_Subset
<1>5. Cardinality(T) \in Nat /\ Cardinality(S) \in Nat
  BY ONLY <1>3, <1>4, FS_CardinalityType
<1> QED BY <1>1, <1>4, <1>5

\* What eraseOldFiles keeps.
LEMMA OldLeavesEnough ==
    ASSUME TypeOK, MaxFiles > 0
    PROVE  Cardinality(DOMAIN files \ Old) <= MaxFiles
<1> DEFINE kept == DOMAIN files \ Old
           above(i) == {k \in DOMAIN files : k > i}
<1>1. /\ DOMAIN files \subseteq 0..MaxId /\ MaxId \in Nat /\ MaxFiles \in Nat
      /\ DOMAIN files \in SUBSET (0..MaxId) /\ IsFiniteSet(0..MaxId)
  <2>1. MaxId \in Nat /\ MaxFiles \in Nat /\ DOMAIN files \subseteq 0..MaxId
    BY ParameterAssumption DEF TypeOK
  <2>2. 0 \in Int /\ MaxId \in Int
    BY ONLY <2>1
  <2>3. IsFiniteSet(0..MaxId)
    BY ONLY <2>2, FS_Interval
  <2> QED BY ONLY <2>1, <2>3
<1>2. /\ IsFiniteSet(kept) /\ kept \in SUBSET (0..MaxId)
      /\ \A i : IsFiniteSet(above(i)) /\ Cardinality(above(i)) \in Nat
  <2>1. kept \in SUBSET (0..MaxId) /\ \A i : above(i) \in SUBSET (0..MaxId)
    BY ONLY <1>1
  <2> HIDE DEF kept, above
  <2>2. IsFiniteSet(kept)
    BY ONLY <1>1, <2>1, FS_Subset
  <2>3. ASSUME NEW i PROVE IsFiniteSet(above(i)) /\ Cardinality(above(i)) \in Nat
    <3>1. IsFiniteSet(above(i))
      BY ONLY <1>1, <2>1, FS_Subset
    <3> QED BY ONLY <3>1, FS_CardinalityType
  <2> QED BY <2>1, <2>2, <2>3
<1>3. CASE kept = {}
  <2>1. Cardinality(kept) = 0
    BY ONLY <1>3, FS_EmptySet
  <2> QED BY ONLY <1>1, <2>1
<1>4. CASE kept # {}
  <2>1. PICK m \in kept : \A k \in kept : m <= k
    <3>1. MaxId \in Nat /\ kept \in SUBSET (0..MaxId) /\ kept # {}
      BY <1>1, <1>2, <1>4
    <3> HIDE DEF kept
    <3> QED BY ONLY <3>1, Least
  <2>2. Cardinality(above(m)) < MaxFiles
    <3>1. m \notin Old /\ m \in DOMAIN files
      OBVIOUS
    <3>2. m \in DOMAIN files /\ Cardinality(above(m)) >= MaxFiles => m \in Old
      BY ZenonT(30) DEF Old
    <3> HIDE DEF above
    <3> QED BY ONLY <1>1, <1>2, <3>1, <3>2
  <2>3. kept \ {m} \in SUBSET above(m)
    BY <1>1, <2>1
  <2>4. Cardinality(kept \ {m}) <= Cardinality(above(m))
    BY ONLY <1>2, <2>3, FS_Subset
  <2>5. Cardinality(kept \ {m}) = Cardinality(kept) - 1 /\ Cardinality(kept) \in Nat
    BY ONLY <1>2, <2>1, FS_RemoveElement, FS_CardinalityType
  <2> HIDE DEF kept, above
  <2>6. Cardinality(kept) <= MaxFiles
    BY ONLY <1>1, <1>2, <2>2, <2>4, <2>5
  <2> QED BY <2>6 DEF kept
<1> QED BY <1>3, <1>4

\* A save has committed and not yet looked for old files; or one is removing enough.
ToErase == \E s \in Saver : save[s].pc \in {"last", "fill", "drop", "erase"}
Erasing == \E s \in Saver :
              /\ save[s].pc = "remove"
              /\ Cardinality(DOMAIN files \ save[s].doomed) <= MaxFiles

BoundInv == MaxFiles > 0 => \/ ToErase \/ Erasing
                            \/ Cardinality(DOMAIN files) <= MaxFiles

\* Nothing keeps eraseOldFiles from its work.
Erasable == Faults \cap {"list", "remove", "crash"} = {}

LEMMA BoundStep ==
    ASSUME Erasable, TypeInv, BoundInv, [Next]_vars
    PROVE  BoundInv'
<1> SUFFICES ASSUME MaxFiles > 0
             PROVE  ToErase' \/ Erasing' \/ (Cardinality(DOMAIN files) <= MaxFiles)'
  BY DEF BoundInv
<1>0. /\ TypeOK /\ SaveOK(save)
      /\ ~ Fault("list") /\ ~ Fault("remove") /\ ~ Fault("crash")
  BY TypeInvTypes DEF TypeInv, Erasable, Fault
<1>1. ToErase \/ Erasing \/ Cardinality(DOMAIN files) <= MaxFiles
  BY DEF BoundInv
<1>2. ASSUME NEW s \in Saver, SaveStep(s) \/ \E c \in Content : Begin(s, c)
      PROVE  ToErase' \/ Erasing' \/ (Cardinality(DOMAIN files) <= MaxFiles)'
  <2>0. save[s] \in SaveRecord
    BY <1>0 DEF SaveOK, RecordOK
  <2>1. \A t \in Saver \ {s} : save'[t].pc = save[t].pc /\ save'[t].doomed = save[t].doomed
    BY <1>2, OtherSavers DEF Untouched
  <2>2. CASE Rename(s)
    BY <2>2, RenameIs DEF RenamedIs, ToErase
  <2>3. CASE TruncateLast(s) \/ FillLast(s) \/ DropLast(s)
    <3>1. save'[s].pc \in {"fill", "drop", "erase"}
      BY <1>0, <2>3, GotoMoves DEF TruncateLast, FillLast, DropLast, Moves
    <3> QED BY <3>1 DEF ToErase
  <2>4. CASE ListOld(s)
    <3>1. /\ save'[s] = [save[s] EXCEPT !.pc = "remove", !.doomed = Old]
          /\ UNCHANGED files
      <4>1. ~ (MaxFiles = 0 \/ Fault("list"))
        BY <1>0, ParameterAssumption
      <4>2. save' = [save EXCEPT ![s] = [@ EXCEPT !.pc = "remove", !.doomed = Old]]
            /\ UNCHANGED files
        BY <2>4, <4>1 DEF ListOld
      <4> QED BY <1>0, <4>2 DEF SaveOK
    <3>2. save'[s].pc = "remove" /\ save'[s].doomed = Old
      BY <2>0, <3>1 DEF SaveRecord
    <3>3. Cardinality(DOMAIN files \ Old) <= MaxFiles
      BY <1>0, OldLeavesEnough
    <3> QED BY <3>1, <3>2, <3>3 DEF Erasing
  <2>5. ASSUME NEW i \in save[s].doomed, RemoveOld(s, i)
        PROVE  ToErase' \/ Erasing' \/ (Cardinality(DOMAIN files) <= MaxFiles)'
    <3>1. /\ save[s].pc = "remove" /\ save'[s].pc = "remove"
          /\ save'[s].doomed = save[s].doomed \ {i}
      BY <2>5, RemoveIs DEF RemovedIs, RemoveOld
    <3>2. DOMAIN files' = DOMAIN files \ {i}
      BY <1>0, <2>5 DEF RemoveOld, Restrict
    <3>3. CASE ToErase
      BY <2>1, <3>1, <3>3 DEF ToErase
    <3>4. CASE Erasing
      <4>1. PICK t \in Saver : /\ save[t].pc = "remove"
                               /\ Cardinality(DOMAIN files \ save[t].doomed) <= MaxFiles
        BY <3>4 DEF Erasing
      <4>2. DOMAIN files' \ save'[t].doomed \in SUBSET (DOMAIN files \ save[t].doomed)
        BY <2>1, <3>1, <3>2
      <4>3. Cardinality(DOMAIN files' \ save'[t].doomed) <= MaxFiles
        BY <1>0, <4>1, <4>2, Fewer
      <4> QED BY <2>1, <3>1, <4>1, <4>3 DEF Erasing
    <3>5. CASE Cardinality(DOMAIN files) <= MaxFiles
      BY <1>0, <3>2, <3>5, Fewer
    <3> QED BY <1>1, <3>3, <3>4, <3>5
  <2>6. CASE RemoveDone(s)
    <3>1. /\ save[s].pc = "remove" /\ save[s].doomed = {} /\ UNCHANGED files
      BY <2>6 DEF RemoveDone
    <3>2. DOMAIN files \ {} = DOMAIN files
      OBVIOUS
    <3>3. Erasing => \/ Cardinality(DOMAIN files) <= MaxFiles
                     \/ \E t \in Saver \ {s} :
                           /\ save[t].pc = "remove"
                           /\ Cardinality(DOMAIN files \ save[t].doomed) <= MaxFiles
      BY <3>1, <3>2 DEF Erasing
    <3> QED BY <1>1, <2>1, <3>1, <3>3 DEF ToErase, Erasing
  <2>7. CASE \/ \E c \in Content : Begin(s, c)
             \/ Create(s) \/ Write(s) \/ WriteFails(s) \/ Find(s) \/ CompareEqual(s)
             \/ CompareUnequal(s) \/ CheckNew(s) \/ RenameFails(s) \/ Cleanup(s)
    <3>1. save[s].pc \notin {"last", "fill", "drop", "erase", "remove"}
      BY <2>7 DEF Begin, Create, Write, WriteFails, Find, CompareEqual, CompareUnequal,
                  CheckNew, RenameFails, Cleanup
    <3>2. DOMAIN files' = DOMAIN files
      BY <2>7 DEF Begin, Create, Write, WriteFails, Find, CompareEqual, CompareUnequal,
                  CheckNew, RenameFails, Cleanup
    <3> QED BY <1>1, <2>1, <3>1, <3>2 DEF ToErase, Erasing
  <2> QED BY <1>2, <2>2, <2>3, <2>4, <2>5, <2>6, <2>7 DEF SaveStep
<1>3. CASE UNCHANGED vars
  BY <1>1, <1>3 DEF vars, ToErase, Erasing
<1>4. ~ Crash
  BY <1>0 DEF Crash
<1> QED BY <1>2, <1>3, <1>4 DEF Next

\* However many save at a time, at most MaxFiles files are left when all have returned,
\* if directories can be listed, files removed, and the program does not crash.
THEOREM FilesAreBounded ==
    ASSUME Erasable
    PROVE  Safety => []Bounded
<1>1. Init => BoundInv
  <2> SUFFICES ASSUME Init PROVE Cardinality(DOMAIN files) <= MaxFiles
    BY DEF BoundInv
  <2>1. DOMAIN files = {}
    BY DEF Init
  <2> QED BY <2>1, FS_EmptySet, ParameterAssumption
<1>2. TypeInv /\ BoundInv /\ [Next]_vars => BoundInv'
  BY BoundStep
<1>3. BoundInv => Bounded
  BY DEF BoundInv, ToErase, Erasing, Bounded, Idle
<1> QED BY <1>1, <1>2, <1>3, InitType, TypeStep, PTL DEF Safety
==============================================================================
