-------------------------- MODULE ConfigStoreProofs --------------------------
(***************************************************************************)
(* Theorems about ConfigStore: types for any savers and any failures; the  *)
(* history for one saver at a time and any failure but that of reading an  *)
(* existing directory, crashes included.  Both conditions are needed: two  *)
(* savers may commit a mixture, and a directory that cannot be read looks  *)
(* empty, so that a save may take a low id.                                *)
(***************************************************************************)
EXTENDS ConfigStore, WellFoundedInduction, TLAPS

------------------------------------------------------------------------------
(* The highest id *)

FilesOK == /\ DOMAIN files \subseteq 0..MaxId
           /\ files \in [DOMAIN files -> FileContent]
           /\ tmp \in FileContent \cup {Absent}
           /\ last \in {NoId, Blank} \cup 0..MaxId

\* A nonempty set of ids has a greatest element, so Newest is one of the files.
LEMMA Greatest ==
    ASSUME NEW n \in Nat, NEW S \in SUBSET (0..n), S # {}
    PROVE  \E i \in S : \A k \in S : k <= i
<1> DEFINE T == {m \in Nat : \A k \in S : k <= m}
<1>1. PICK m \in T : \A x \in T : ~ (<<x, m>> \in OpToRel(<, Nat))
  <2>1. T \subseteq Nat /\ n \in T
    OBVIOUS
  <2> QED BY <2>1, NatLessThanWellFounded, WFMin
<1>2. \A x \in T : m <= x
  <2> SUFFICES ASSUME NEW x \in T, ~ (m <= x) PROVE FALSE
    OBVIOUS
  <2>1. <<x, m>> \in Nat \X Nat /\ <<x, m>>[1] < <<x, m>>[2]
    OBVIOUS
  <2>2. <<x, m>> \in OpToRel(<, Nat)
    BY ONLY <2>1 DEF OpToRel
  <2> QED BY <1>1, <2>2
<1>3. m \in S
  <2> SUFFICES ASSUME m \notin S PROVE FALSE
    OBVIOUS
  <2>1. PICK k \in S : TRUE
    OBVIOUS
  <2>2. m > 0 /\ m - 1 \in T
    BY <2>1
  <2> QED BY <1>2, <2>2
<1> QED BY <1>3

LEMMA NewestIsGreatest ==
    ASSUME FilesOK, DOMAIN files # {}
    PROVE  Newest \in DOMAIN files /\ \A k \in DOMAIN files : k <= Newest
<1>1. \E i \in DOMAIN files : \A k \in DOMAIN files : k <= i
  BY Greatest, ParameterAssumption DEF FilesOK
<1> QED BY <1>1 DEF Newest

\* FindLastConfig finds a file, or there is none.
LEMMA FindLastType ==
    ASSUME FilesOK
    PROVE  /\ FindLastConfig \in {NoId} \cup 0..MaxId
           /\ DOMAIN files # {} => FindLastConfig \in DOMAIN files
<1>1. CASE last \in DOMAIN files
  <2>1. FindLastConfig = last
    BY <1>1 DEF FindLastConfig
  <2>2. FindLastConfig \in DOMAIN files
    BY ONLY <1>1, <2>1
  <2>3. FindLastConfig \in 0..MaxId
    BY <2>2 DEF FilesOK
  <2> QED BY <2>2, <2>3
<1>2. CASE last \notin DOMAIN files /\ DOMAIN files = {}
  BY <1>2 DEF FindLastConfig
<1>3. CASE last \notin DOMAIN files /\ DOMAIN files # {}
  <2>1. FindLastConfig = Newest
    BY <1>3 DEF FindLastConfig
  <2>2. Newest \in DOMAIN files
    BY ONLY FilesOK, <1>3, NewestIsGreatest
  <2>3. FindLastConfig \in DOMAIN files
    BY <2>1, <2>2
  <2>4. FindLastConfig \in 0..MaxId
    BY <2>3 DEF FilesOK
  <2> QED BY <2>3, <2>4
<1> QED BY <1>1, <1>2, <1>3

------------------------------------------------------------------------------
(* Types *)

\* A saver that writes the shortcut writes an id within bounds.
RecordOK(r) == /\ r \in SaveRecord
               /\ r.pc \in {"last", "fill"} => r.prev + 1 \in 0..MaxId

SaveOK(saves) == /\ saves = [s \in Saver |-> saves[s]]
                 /\ \A s \in Saver : RecordOK(saves[s])

TypeInv == FilesOK /\ SaveOK(save)

LEMMA TypeInvTypes == TypeInv => TypeOK
<1> SUFFICES ASSUME TypeInv PROVE TypeOK
  OBVIOUS
<1>1. save \in [Saver -> SaveRecord]
  BY Zenon DEF TypeInv, SaveOK, RecordOK
<1> QED BY <1>1 DEF TypeInv, FilesOK, TypeOK

\* Changes of one record ...
LEMMA SaveChange ==
    ASSUME NEW saves, SaveOK(saves), NEW s \in Saver, NEW r, RecordOK(r)
    PROVE  SaveOK([saves EXCEPT ![s] = r])
BY DEF SaveOK

\* ... of the descriptors of all ...
LEMMA SaveMoved ==
    ASSUME NEW saves, SaveOK(saves), NEW from,
           NEW to \in {Closed, OnTmp, OnNothing} \cup 0..MaxId
    PROVE  SaveOK(Moved(saves, from, to))
<1>1. ASSUME NEW s \in Saver PROVE RecordOK([saves[s] EXCEPT !.fd = to])
  BY DEF SaveOK, RecordOK, SaveRecord
<1> QED BY <1>1 DEF SaveOK, Moved

\* ... and the records themselves.
LEMMA IdleRecord == RecordOK(IdleSave)
BY DEF RecordOK, SaveRecord, SavePc, IdleSave

LEMMA RecordGoto ==
    ASSUME NEW r \in SaveRecord, NEW pc \in SavePc, NEW ok \in BOOLEAN,
           pc \in {"last", "fill"} => r.prev + 1 \in 0..MaxId
    PROVE  RecordOK([r EXCEPT !.pc = pc]) /\ RecordOK([r EXCEPT !.pc = pc, !.ok = ok])
BY DEF RecordOK, SaveRecord

LEMMA InitType == Init => TypeInv
<1> SUFFICES ASSUME Init PROVE TypeInv
  OBVIOUS
<1>1. FilesOK
  BY DEF Init, FilesOK
<1>2. SaveOK(save)
  BY IdleRecord DEF Init, SaveOK
<1> QED BY <1>1, <1>2 DEF TypeInv

LEMMA TypeStep == TypeInv /\ [Next]_vars => TypeInv'
<1> SUFFICES ASSUME FilesOK, SaveOK(save), [Next]_vars
             PROVE  FilesOK' /\ SaveOK(save')
  BY DEF TypeInv, FilesOK, SaveOK
<1>0. ASSUME NEW s \in Saver
      PROVE  save[s] \in SaveRecord /\ RecordOK(save[s])
  BY DEF SaveOK, RecordOK
<1>1. ASSUME NEW s \in Saver, NEW c \in Content, Begin(s, c)
      PROVE  FilesOK' /\ SaveOK(save')
  <2>1. RecordOK([IdleSave EXCEPT !.pc = "create", !.arg = c])
    BY DEF RecordOK, SaveRecord, SavePc, IdleSave
  <2>2. SaveOK([save EXCEPT ![s] = [IdleSave EXCEPT !.pc = "create", !.arg = c]])
    BY <2>1, SaveChange
  <2> QED BY <1>1, <2>2 DEF Begin, FilesOK
<1>2. ASSUME NEW s \in Saver, SaveStep(s) PROVE FilesOK' /\ SaveOK(save')
  <2>0. save[s] \in SaveRecord /\ RecordOK(save[s])
    BY <1>0
  <2>1. ASSUME NEW pc \in SavePc, NEW ok \in BOOLEAN,
               pc \in {"last", "fill"} => save[s].prev + 1 \in 0..MaxId
        PROVE  /\ SaveOK([save EXCEPT ![s] = [@ EXCEPT !.pc = pc]])
               /\ SaveOK([save EXCEPT ![s] = [@ EXCEPT !.pc = pc, !.ok = ok]])
    BY <2>0, <2>1, RecordGoto, SaveChange
  <2>2. SaveOK([save EXCEPT ![s] = IdleSave])
    BY IdleRecord, SaveChange
  <2>3. CASE Create(s)
    <3>1. RecordOK([save[s] EXCEPT !.pc = "write", !.fd = OnTmp])
      BY <2>0 DEF RecordOK, SaveRecord, SavePc
    <3>2. SaveOK([save EXCEPT ![s] = [@ EXCEPT !.pc = "write", !.fd = OnTmp]])
      BY <3>1, SaveChange
    <3>3. SaveOK(save')
      BY <2>2, <2>3, <3>2 DEF Create
    <3> QED BY <2>3, <3>3 DEF Create, FilesOK, FileContent
  <2>4. CASE Write(s)
    <3>1. RecordOK([save[s] EXCEPT !.pc = "find", !.fd = Closed])
      BY <2>0 DEF RecordOK, SaveRecord, SavePc
    <3>2. SaveOK([save EXCEPT ![s] = [@ EXCEPT !.pc = "find", !.fd = Closed]])
      BY <3>1, SaveChange
    <3>3. \A old : Written(s, old) \subseteq FileContent
      BY <2>0 DEF Written, SaveRecord, FileContent
    <3>4. /\ DOMAIN files' = DOMAIN files
          /\ files' \in [DOMAIN files -> FileContent]
          /\ tmp' \in FileContent \cup {Absent}
      BY <2>4, <3>3 DEF Write, FilesOK
    <3> QED BY <2>4, <3>2, <3>4 DEF Write, FilesOK
  <2>5. CASE WriteFails(s)
    BY <2>2, <2>5 DEF WriteFails, FilesOK
  <2>6. CASE Find(s)
    <3>1. \A p \in {NoId} \cup 0..MaxId, pc \in {"compare", "check"} :
             RecordOK([save[s] EXCEPT !.prev = p, !.pc = pc])
      BY <2>0 DEF RecordOK, SaveRecord, SavePc
    <3>2. FindLastConfig \in {NoId} \cup 0..MaxId
      BY FindLastType
    <3>3. PICK p \in {NoId} \cup 0..MaxId, pc \in {"compare", "check"} :
             save' = [save EXCEPT ![s] = [save[s] EXCEPT !.prev = p, !.pc = pc]]
      BY <2>6, <3>2 DEF Find
    <3> DEFINE r == [save[s] EXCEPT !.prev = p, !.pc = pc]
    <3>4. RecordOK(r)
      BY <3>1
    <3> HIDE DEF r
    <3>5. SaveOK([save EXCEPT ![s] = r])
      BY <3>4, SaveChange
    <3>6. SaveOK(save')
      BY <3>3, <3>5 DEF r
    <3> QED BY <2>6, <3>6 DEF Find, FilesOK
  <2>7. CASE CompareEqual(s)
    <3>1. SaveOK([save EXCEPT ![s] = [@ EXCEPT !.pc = "cleanup", !.ok = TRUE]])
      BY <2>1 DEF SavePc
    <3>2. SaveOK(save')
      BY <2>7, <3>1, SaveMoved DEF CompareEqual, Return
    <3> QED BY <2>7, <3>2 DEF CompareEqual, FilesOK
  <2>8. CASE CompareUnequal(s)
    BY <2>1, <2>8 DEF CompareUnequal, Goto, FilesOK, SavePc
  <2>9. CASE CheckNew(s)
    BY <2>1, <2>9 DEF CheckNew, Goto, Return, FilesOK, SavePc
  <2>10. CASE Rename(s)
    <3>1. NewId(s) \in 0..MaxId /\ NewId(s) = save[s].prev + 1
      BY <2>0, <2>10, ParameterAssumption DEF Rename, NewId, SaveRecord, NoId
    <3>2. SaveOK([save EXCEPT ![s] = [@ EXCEPT !.pc = "last"]])
      BY <2>1, <3>1 DEF SavePc
    <3>3. SaveOK([save EXCEPT ![s].pc = "last"])
      BY <3>2
    <3>4. SaveOK(Moved([save EXCEPT ![s].pc = "last"], NewId(s), OnNothing))
      BY <3>3, SaveMoved
    <3>5. SaveOK(save')
      BY <2>10, <3>1, <3>4, SaveMoved DEF Rename
    <3>6. /\ DOMAIN files' = DOMAIN files \cup {NewId(s)}
          /\ files' \in [DOMAIN files' -> FileContent]
      BY <2>10 DEF Rename, FilesOK
    <3>7. DOMAIN files' \subseteq 0..MaxId
      BY <3>1, <3>6 DEF FilesOK
    <3> QED BY <2>10, <3>5, <3>6, <3>7 DEF Rename, FilesOK
  <2>11. CASE RenameFails(s)
    BY <2>1, <2>11 DEF RenameFails, Return, FilesOK, SavePc
  <2>12. CASE TruncateLast(s)
    <3>1. save[s].prev + 1 \in 0..MaxId
      BY <2>0, <2>12 DEF TruncateLast, RecordOK
    <3> QED BY <2>1, <2>12, <3>1 DEF TruncateLast, Goto, FilesOK, SavePc
  <2>13. CASE FillLast(s)
    <3>1. NewId(s) \in 0..MaxId
      BY <2>0, <2>13 DEF FillLast, RecordOK, NewId
    <3> QED BY <2>1, <2>13, <3>1 DEF FillLast, Goto, FilesOK, SavePc
  <2>14. CASE DropLast(s)
    BY <2>1, <2>14 DEF DropLast, Goto, FilesOK, SavePc
  <2>15. CASE ListOld(s)
    <3>1. Old \subseteq 0..MaxId
      BY DEF Old, FilesOK
    <3>2. RecordOK([save[s] EXCEPT !.pc = "remove", !.doomed = Old])
      BY <2>0, <3>1 DEF RecordOK, SaveRecord, SavePc
    <3>3. SaveOK([save EXCEPT ![s] = [@ EXCEPT !.pc = "remove", !.doomed = Old]])
      BY <3>2, SaveChange
    <3> QED BY <2>1, <2>15, <3>3 DEF ListOld, Return, FilesOK, SavePc
  <2>16. ASSUME NEW i \in save[s].doomed, RemoveOld(s, i)
         PROVE  FilesOK' /\ SaveOK(save')
    <3> DEFINE r == [save[s] EXCEPT !.doomed = save[s].doomed \ {i}]
    <3>1. RecordOK(r)
      BY <2>0 DEF RecordOK, SaveRecord
    <3> HIDE DEF r
    <3>2. SaveOK([save EXCEPT ![s] = r])
      BY <3>1, SaveChange
    <3>3. SaveOK([save EXCEPT ![s].doomed = @ \ {i}])
      BY <3>2 DEF r
    <3>4. SaveOK(save')
      BY <2>16, <3>3, SaveMoved DEF RemoveOld
    <3>5. /\ DOMAIN files' \subseteq DOMAIN files
          /\ files' \in [DOMAIN files' -> FileContent]
      BY <2>16 DEF RemoveOld, Restrict, FilesOK
    <3> QED BY <2>16, <3>4, <3>5 DEF RemoveOld, FilesOK
  <2>17. CASE RemoveDone(s)
    BY <2>1, <2>17 DEF RemoveDone, Return, FilesOK, SavePc
  <2>18. CASE Cleanup(s)
    <3>1. SaveOK(save')
      BY <2>2, <2>18, SaveMoved DEF Cleanup
    <3> QED BY <2>18, <3>1 DEF Cleanup, FilesOK
  <2> QED BY <1>2, <2>3, <2>4, <2>5, <2>6, <2>7, <2>8, <2>9, <2>10, <2>11,
             <2>12, <2>13, <2>14, <2>15, <2>16, <2>17, <2>18 DEF SaveStep
<1>3. CASE Crash
  <2>1. SaveOK([s \in Saver |-> IdleSave])
    BY IdleRecord DEF SaveOK
  <2> QED BY <1>3, <2>1 DEF Crash, FilesOK
<1>4. CASE UNCHANGED vars
  BY <1>4 DEF vars, FilesOK
<1> QED BY <1>1, <1>2, <1>3, <1>4 DEF Next

\* Whatever the savers do to each other and whatever fails, every variable keeps
\* its shape.
THEOREM TypeCorrect == Safety => []TypeOK
<1>1. TypeInv => TypeOK
  BY TypeInvTypes
<1> QED BY <1>1, InitType, TypeStep, PTL DEF Safety

------------------------------------------------------------------------------
(* The history *)

OneSaver == \A s, t \in Saver : s = t
Readable == ~ Fault("list")

Inv == TypeInv /\ StoreInv

\* A saver with a closed descriptor does not notice a rename or a removal.
LEMMA MovedClosed ==
    ASSUME SaveOK(save), OneSaver, NEW s \in Saver, NEW r, r.fd = Closed,
           NEW from, from # Closed, NEW to
    PROVE  Moved([save EXCEPT ![s] = r], from, to) = [save EXCEPT ![s] = r]
BY DEF Moved, SaveOK, OneSaver

LEMMA InitStore == Init => StoreInv
BY DEF Init, StoreInv, ShortcutInv, ContentInv, TmpInv, IdInv, DoomedInv,
       IdleSave

\* The id FindLastConfig returns is that of a file whose successor, if it is
\* taken, is the highest.
LEMMA FoundId ==
    ASSUME FilesOK, ShortcutInv
    PROVE  \/ FindLastConfig + 1 \in DOMAIN files
           \/ \A k \in DOMAIN files : k < FindLastConfig + 1
<1>0. DOMAIN files \subseteq Int
  BY ParameterAssumption DEF FilesOK
<1>1. CASE last \in DOMAIN files
  <2>1. FindLastConfig = last
    BY <1>1 DEF FindLastConfig
  <2> QED BY <1>0, <1>1, <2>1 DEF ShortcutInv
<1>2. CASE last \notin DOMAIN files /\ DOMAIN files # {}
  <2>1. FindLastConfig = Newest
    BY <1>2 DEF FindLastConfig
  <2>2. Newest \in DOMAIN files /\ \A k \in DOMAIN files : k <= Newest
    BY ONLY FilesOK, <1>2, NewestIsGreatest
  <2> QED BY <1>0, <2>1, <2>2
<1> QED BY <1>1, <1>2

\* Only the place of a save has changed, to pc.
Moves(s, pc) == /\ save'[s].pc = pc /\ save'[s].fd = save[s].fd
                /\ save'[s].arg = save[s].arg /\ save'[s].prev = save[s].prev
                /\ save'[s].doomed = save[s].doomed

LEMMA GotoMoves ==
    ASSUME SaveOK(save), NEW s \in Saver, NEW pc
    PROVE  /\ Goto(s, pc) => Moves(s, pc)
           /\ pc = "cleanup" => \A ok : Return(s, ok) => Moves(s, pc)
<1>1. Goto(s, pc) => Moves(s, pc)
  BY DEF SaveOK, RecordOK, SaveRecord, Goto, Moves
<1>2. ASSUME pc = "cleanup", NEW ok, Return(s, ok) PROVE Moves(s, pc)
  BY <1>2 DEF SaveOK, RecordOK, SaveRecord, Return, Moves
<1> QED BY <1>1, <1>2

LEMMA StoreStep ==
    ASSUME OneSaver, Readable, TypeInv, StoreInv, [Next]_vars
    PROVE  StoreInv'
<1> USE DEF StoreInv
<1>0. TypeOK /\ FilesOK /\ SaveOK(save)
  BY TypeInvTypes DEF TypeInv
<1>1. ASSUME NEW s \in Saver, NEW c \in Content, Begin(s, c) PROVE StoreInv'
  <2>1. \A t \in Saver : save'[t] = [IdleSave EXCEPT !.pc = "create", !.arg = c]
    BY <1>0, <1>1 DEF Begin, SaveOK, OneSaver
  <2>2. \A t \in Saver : /\ save'[t].pc = "create" /\ save'[t].fd = Closed
                         /\ save'[t].arg = c
    BY <2>1 DEF IdleSave
  <2> QED BY <1>1, <2>2 DEF Begin, ShortcutInv, ContentInv, TmpInv, IdInv,
                            DoomedInv
<1>2. ASSUME NEW s \in Saver, SaveStep(s) PROVE StoreInv'
  <2> SUFFICES /\ ShortcutInv' /\ ContentInv'
               /\ TmpInv(s)' /\ IdInv(s)' /\ DoomedInv(s)'
    BY DEF OneSaver
  <2>0. /\ ShortcutInv /\ ContentInv /\ TmpInv(s) /\ IdInv(s) /\ DoomedInv(s)
        /\ save[s] \in SaveRecord
    BY <1>0 DEF SaveOK, RecordOK
  <2>1. CASE Create(s)
    <3>1. \/ save'[s] = [save[s] EXCEPT !.pc = "write", !.fd = OnTmp]
             /\ tmp' = Short
          \/ save'[s] = IdleSave /\ tmp' = tmp
      BY <1>0, <2>0, <2>1 DEF Create, SaveOK, TmpInv
    <3>2. CASE save'[s] = [save[s] EXCEPT !.pc = "write", !.fd = OnTmp]
               /\ tmp' = Short
      <4>1. /\ save'[s].pc = "write" /\ save'[s].fd = OnTmp
            /\ save'[s].arg = save[s].arg
        BY <2>0, <3>2 DEF SaveRecord
      <4> QED BY <2>0, <2>1, <3>2, <4>1
              DEF Create, ShortcutInv, ContentInv, TmpInv, IdInv, DoomedInv
    <3>3. CASE save'[s] = IdleSave /\ tmp' = tmp
      BY <2>0, <2>1, <3>3 DEF Create, IdleSave, ShortcutInv, ContentInv, TmpInv,
                              IdInv, DoomedInv
    <3> QED BY <3>1, <3>2, <3>3
  <2>2. CASE Write(s)
    <3>1. save'[s] = [save[s] EXCEPT !.pc = "find", !.fd = Closed]
          /\ save[s].fd = OnTmp /\ save[s].pc = "write" /\ tmp = Short
      BY <1>0, <2>0, <2>2 DEF Write, SaveOK, TmpInv
    <3>2. tmp' = save[s].arg /\ UNCHANGED <<files, last>>
      BY <2>0, <2>2, <3>1, ParameterAssumption
         DEF Write, Written, OnTmp, OnNothing, OneSaver, TypeInv, FilesOK
    <3>3. /\ save'[s].pc = "find" /\ save'[s].fd = Closed
          /\ save'[s].arg = save[s].arg
      BY <2>0, <3>1 DEF SaveRecord
    <3> QED BY <2>0, <3>1, <3>2, <3>3 DEF ShortcutInv, ContentInv, TmpInv, IdInv,
                                        DoomedInv
  <2>3. CASE WriteFails(s)
    <3>1. save'[s].pc = "idle" /\ save'[s].fd = Closed
      BY <1>0, <2>3 DEF WriteFails, SaveOK, IdleSave
    <3> QED BY <2>0, <2>3, <3>1 DEF WriteFails, ShortcutInv, ContentInv, TmpInv,
                                    IdInv, DoomedInv
  <2>4. CASE Find(s)
    <3>1. PICK pc \in {"compare", "check"} :
             save' = [save EXCEPT ![s] = [save[s] EXCEPT !.prev = FindLastConfig,
                                                        !.pc = pc]]
      BY <2>4 DEF Find, Readable
    <3>2. /\ save'[s].prev = FindLastConfig /\ save'[s].pc = pc
          /\ save'[s].fd = save[s].fd /\ save'[s].arg = save[s].arg
      BY <1>0, <2>0, <3>1 DEF SaveOK, SaveRecord
    <3>3. last \in DOMAIN files => FindLastConfig = last
      BY DEF FindLastConfig
    <3> QED BY <1>0, <2>0, <2>4, <3>2, <3>3, FoundId
            DEF Find, ShortcutInv, ContentInv, TmpInv, IdInv, DoomedInv, NewId
  <2>5. CASE CompareEqual(s)
    <3> DEFINE r == [save[s] EXCEPT !.pc = "cleanup", !.ok = TRUE]
    <3>1. r.fd = Closed /\ r.pc = "cleanup" /\ r.arg = save[s].arg
      BY <2>0, <2>5 DEF CompareEqual, TmpInv, SaveRecord
    <3>2. \/ save' = Moved([save EXCEPT ![s] = r], OnTmp, OnNothing)
          \/ save' = [save EXCEPT ![s] = r]
      BY <2>5 DEF CompareEqual, Return
    <3> HIDE DEF r
    <3>3. save' = [save EXCEPT ![s] = r]
      BY <1>0, <3>1, <3>2, MovedClosed DEF OnTmp, Closed
    <3>4. save'[s] = r
      BY <1>0, <3>3 DEF SaveOK
    <3> QED BY <2>0, <2>5, <3>1, <3>4
            DEF CompareEqual, ShortcutInv, ContentInv, TmpInv, IdInv, DoomedInv
  <2>6. CASE CompareUnequal(s)
    <3>1. Moves(s, "check")
      BY <1>0, <2>6, GotoMoves DEF CompareUnequal
    <3> QED BY <2>0, <2>6, <3>1 DEF CompareUnequal, Moves, ShortcutInv, ContentInv,
                                    TmpInv, IdInv, DoomedInv, NewId
  <2>7. CASE CheckNew(s)
    <3>1. \/ Moves(s, "cleanup")
          \/ Moves(s, "rename") /\ NewId(s) \notin DOMAIN files
      BY <1>0, <2>7, GotoMoves DEF CheckNew
    <3> QED BY <2>0, <2>7, <3>1 DEF CheckNew, Moves, ShortcutInv, ContentInv,
                                    TmpInv, IdInv, DoomedInv, NewId
  <2>8. CASE Rename(s)
    <3> DEFINE r == [save[s] EXCEPT !.pc = "last"]
    <3>1. /\ r.fd = Closed /\ r.pc = "last" /\ r.arg = save[s].arg
          /\ r.prev = save[s].prev
      BY <2>0, <2>8 DEF Rename, TmpInv, SaveRecord
    <3>2. save' = Moved(Moved([save EXCEPT ![s] = r], NewId(s), OnNothing),
                        OnTmp, NewId(s))
      BY <2>8 DEF Rename
    <3> HIDE DEF r
    <3>3. NewId(s) \in 0..MaxId
      BY <2>0, <2>8, ParameterAssumption DEF Rename, NewId, SaveRecord, NoId
    <3>4. Moved([save EXCEPT ![s] = r], NewId(s), OnNothing)
            = [save EXCEPT ![s] = r]
      BY <1>0, <3>1, <3>3, MovedClosed DEF Closed
    <3>5. save' = [save EXCEPT ![s] = r]
      BY <1>0, <3>1, <3>2, <3>4, MovedClosed DEF OnTmp, Closed
    <3>6. save'[s] = r /\ NewId(s)' = NewId(s)
      BY <1>0, <3>1, <3>5 DEF SaveOK, NewId
    <3>7. /\ DOMAIN files' = DOMAIN files \cup {NewId(s)}
          /\ files'[NewId(s)] = tmp
          /\ \A i \in DOMAIN files : i # NewId(s) => files'[i] = files[i]
      BY <2>8 DEF Rename
    <3>8. \A k \in DOMAIN files : k \in Int /\ k < NewId(s)
      BY <1>0, <2>0, <2>8, ParameterAssumption DEF Rename, IdInv, TypeOK
    <3>9. ContentInv'
      BY <2>0, <2>8, <3>7 DEF Rename, ContentInv, TmpInv
    <3>10. ShortcutInv'
      BY <2>0, <2>8, <3>3, <3>7, <3>8 DEF Rename, ShortcutInv, IdInv, NewId
    <3>11. IdInv(s)'
      BY <3>1, <3>3, <3>6, <3>7, <3>8 DEF IdInv
    <3> QED BY <2>0, <2>8, <3>1, <3>6, <3>9, <3>10, <3>11
            DEF Rename, TmpInv, DoomedInv
  <2>9. CASE RenameFails(s)
    <3>1. Moves(s, "cleanup")
      BY <1>0, <2>9, GotoMoves DEF RenameFails
    <3> QED BY <2>0, <2>9, <3>1 DEF RenameFails, Moves, ShortcutInv, ContentInv,
                                    TmpInv, IdInv, DoomedInv
  <2>10. CASE TruncateLast(s)
    <3>1. \/ Moves(s, "fill") /\ last' = Blank
          \/ Moves(s, "drop") /\ last' = last
      BY <1>0, <2>10, GotoMoves DEF TruncateLast
    <3>2. Blank \notin DOMAIN files
      BY <1>0, ParameterAssumption DEF TypeOK, Blank
    <3> QED BY <2>0, <2>10, <3>1, <3>2
            DEF TruncateLast, Moves, ShortcutInv, ContentInv, TmpInv, IdInv,
                DoomedInv, NewId
  <2>11. CASE FillLast(s)
    <3>1. \/ Moves(s, "erase") /\ last' = NewId(s)
          \/ Moves(s, "drop") /\ last' = last
      BY <1>0, <2>11, GotoMoves DEF FillLast
    <3>2. /\ \A k \in DOMAIN files : k \in Int /\ k <= NewId(s)
          /\ NewId(s) \in Int
      BY <1>0, <2>0, <2>11, ParameterAssumption
         DEF FillLast, IdInv, TypeOK, NewId, SaveRecord, NoId
    <3>3. ShortcutInv'
      BY <2>0, <2>11, <3>1, <3>2 DEF FillLast, ShortcutInv
    <3> QED BY <2>0, <2>11, <3>1, <3>3
            DEF FillLast, Moves, ContentInv, TmpInv, IdInv, DoomedInv
  <2>12. CASE DropLast(s)
    <3>1. Moves(s, "erase") /\ (last' = NoId \/ last' = last)
      BY <1>0, <2>12, GotoMoves DEF DropLast
    <3>2. NoId \notin DOMAIN files
      BY <1>0, ParameterAssumption DEF TypeOK, NoId
    <3> QED BY <2>0, <2>12, <3>1, <3>2
            DEF DropLast, Moves, ShortcutInv, ContentInv, TmpInv, IdInv, DoomedInv
  <2>13. CASE ListOld(s)
    <3>1. CASE save' = [save EXCEPT ![s] = [@ EXCEPT !.pc = "remove",
                                                    !.doomed = Old]]
               /\ MaxFiles > 0
      <4>1. /\ save'[s].pc = "remove" /\ save'[s].doomed = Old
            /\ save'[s].fd = save[s].fd /\ save'[s].arg = save[s].arg
        BY <1>0, <2>0, <3>1 DEF SaveOK, SaveRecord
      <4>2. DoomedInv(s)'
        BY <2>13, <3>1, <4>1 DEF ListOld, DoomedInv, Old
      <4> QED BY <2>0, <2>13, <4>1, <4>2 DEF ListOld, ShortcutInv, ContentInv,
                                             TmpInv, IdInv
    <3>2. CASE Moves(s, "cleanup")
      BY <2>0, <2>13, <3>2 DEF ListOld, Moves, ShortcutInv, ContentInv, TmpInv,
                               IdInv, DoomedInv
    <3> QED BY <1>0, <2>13, <3>1, <3>2, GotoMoves DEF ListOld
  <2>14. ASSUME NEW i \in save[s].doomed, RemoveOld(s, i)
         PROVE  /\ ShortcutInv' /\ ContentInv'
                /\ TmpInv(s)' /\ IdInv(s)' /\ DoomedInv(s)'
    <3> DEFINE r == [save[s] EXCEPT !.doomed = save[s].doomed \ {i}]
    <3>1. /\ r.fd = Closed /\ r.pc = "remove" /\ r.arg = save[s].arg
          /\ r.doomed = save[s].doomed \ {i}
      BY <2>0, <2>14 DEF RemoveOld, TmpInv, SaveRecord
    <3>2. \/ /\ save' = Moved([save EXCEPT ![s] = r], i, OnNothing)
             /\ files' = Restrict(files, DOMAIN files \ {i})
          \/ save' = [save EXCEPT ![s] = r] /\ files' = files
      BY <2>14 DEF RemoveOld
    <3> HIDE DEF r
    <3>3. i # Closed /\ i \in Int
      BY <2>0, ParameterAssumption DEF SaveRecord, Closed
    <3>4. save'[s] = r
      BY <1>0, <3>1, <3>2, <3>3, MovedClosed DEF SaveOK
    <3>5. /\ DOMAIN files' \subseteq DOMAIN files
          /\ DOMAIN files \ {i} \subseteq DOMAIN files'
          /\ \A k \in DOMAIN files' : files'[k] = files[k]
      BY <3>2 DEF Restrict
    <3>6. ASSUME NEW j \in r.doomed
          PROVE  /\ j \in DOMAIN files'
                 /\ {k \in DOMAIN files' : k > j} = {k \in DOMAIN files : k > j}
      <4>1. j \in save[s].doomed /\ j # i /\ j \in DOMAIN files /\ j \in Int /\ i < j
        BY <1>0, <2>0, <2>14, <3>1, <3>3, ParameterAssumption
           DEF RemoveOld, DoomedInv, TypeOK
      <4> QED BY <3>3, <3>5, <4>1
    <3>7. DoomedInv(s)'
      BY <2>0, <2>14, <3>1, <3>4, <3>6 DEF RemoveOld, DoomedInv
    <3> QED BY <2>0, <2>14, <3>1, <3>4, <3>5, <3>7
            DEF RemoveOld, ShortcutInv, ContentInv, TmpInv, IdInv
  <2>15. CASE RemoveDone(s)
    <3>1. Moves(s, "cleanup")
      BY <1>0, <2>15, GotoMoves DEF RemoveDone
    <3> QED BY <2>0, <2>15, <3>1 DEF RemoveDone, Moves, ShortcutInv, ContentInv,
                                     TmpInv, IdInv, DoomedInv
  <2>16. CASE Cleanup(s)
    <3>1. IdleSave.fd = Closed
      BY DEF IdleSave
    <3>2. save' = [save EXCEPT ![s] = IdleSave]
      BY <1>0, <2>16, <3>1, MovedClosed DEF Cleanup, OnTmp, Closed
    <3>3. save'[s].pc = "idle" /\ save'[s].fd = Closed
      BY <1>0, <3>2 DEF SaveOK, IdleSave
    <3> QED BY <2>0, <2>16, <3>3 DEF Cleanup, ShortcutInv, ContentInv, TmpInv,
                                     IdInv, DoomedInv
  <2> QED BY <1>2, <2>1, <2>2, <2>3, <2>4, <2>5, <2>6, <2>7, <2>8, <2>9, <2>10,
             <2>11, <2>12, <2>13, <2>14, <2>15, <2>16 DEF SaveStep
<1>3. CASE Crash
  BY <1>3 DEF Crash, IdleSave, ShortcutInv, ContentInv, TmpInv, IdInv, DoomedInv
<1>4. CASE UNCHANGED vars
  BY <1>4 DEF vars, ShortcutInv, ContentInv, TmpInv, IdInv, DoomedInv, NewId
<1> QED BY <1>1, <1>2, <1>3, <1>4 DEF Next

LEMMA Inductive ==
    ASSUME OneSaver, Readable
    PROVE  Safety => []Inv
<1>1. Init => Inv
  BY InitType, InitStore DEF Inv
<1>2. Inv /\ [Next]_vars => Inv'
  BY TypeStep, StoreStep DEF Inv
<1> QED BY <1>1, <1>2, PTL DEF Safety

LEMMA SameCardinality == \A S : Hist!Cardinality(S) = Cardinality(S)
BY DEF Hist!Cardinality, Cardinality

LEMMA StepHistory ==
    ASSUME OneSaver, Readable, Inv, [Next]_vars
    PROVE  [Hist!Next]_files
<1> SUFFICES ASSUME files' # files PROVE Hist!Next
  OBVIOUS
<1>0. TypeOK /\ SaveOK(save)
  BY TypeInvTypes DEF Inv, TypeInv
<1>1. PICK s \in Saver : Write(s) \/ Rename(s)
                         \/ \E i \in save[s].doomed : RemoveOld(s, i)
  BY DEF Next, SaveStep, vars, Begin, Create, WriteFails, Find, CompareEqual,
         CompareUnequal, CheckNew, RenameFails, TruncateLast, FillLast, DropLast,
         ListOld, RemoveDone, Cleanup, Crash
<1>2. /\ TmpInv(s) /\ IdInv(s) /\ DoomedInv(s)
      /\ save[s] \in SaveRecord
  BY <1>0 DEF Inv, StoreInv, SaveOK, RecordOK
<1>3. ~ Write(s)
  BY <1>0, <1>2, ParameterAssumption DEF Write, TmpInv, OnTmp, OnNothing, TypeOK
<1>4. CASE Rename(s)
  <2> DEFINE i == NewId(s)
  <2>1. i \in Nat
    BY <1>2, ParameterAssumption DEF NewId, SaveRecord, NoId
  <2>2. i \notin DOMAIN files /\ \A k \in DOMAIN files : k \in Int /\ k < i
    BY <1>0, <1>2, <1>4, ParameterAssumption DEF Rename, IdInv, TypeOK
  <2>3. /\ DOMAIN files' = DOMAIN files \cup {i}
        /\ files'[i] \in Content
        /\ \A k \in DOMAIN files : files'[k] = files[k]
    BY <1>2, <1>4, <2>2 DEF Rename, TmpInv
  <2> HIDE DEF i
  <2>4. Hist!Newer(i) = {}
    BY <2>1, <2>2 DEF Hist!Newer
  <2>5. Hist!Restrict(files', DOMAIN files) = files
    BY <1>0, <2>3 DEF Hist!Restrict, TypeOK
  <2> QED BY <2>1, <2>2, <2>3, <2>4, <2>5 DEF Hist!Next, Hist!Commit
<1>5. ASSUME NEW i \in save[s].doomed, RemoveOld(s, i) PROVE Hist!Next
  <2>1. /\ i \in DOMAIN files /\ MaxFiles > 0
        /\ Cardinality(Hist!Newer(i)) >= MaxFiles
    BY <1>2, <1>5 DEF RemoveOld, DoomedInv, Hist!Newer
  <2>2. files' = Hist!Restrict(files, DOMAIN files \ {i})
    BY <1>5 DEF RemoveOld, Restrict, Hist!Restrict
  <2> QED BY <2>1, <2>2, SameCardinality DEF Hist!Next, Hist!Discard
<1> QED BY <1>1, <1>3, <1>4, <1>5

\* With one save at a time and a directory that can be read, the files are a
\* history at every moment, whatever else fails and wherever the program crashes:
\* no committed configuration is overwritten or lost, none is incomplete, ids only
\* grow, and nothing is deleted without MaxFiles newer ones.
THEOREM StoreImplementsHistory ==
    ASSUME OneSaver, Readable
    PROVE  Safety => HistoryImplemented
<1>1. Init => Hist!Init
  BY DEF Init, Hist!Init
<1>2. Inv /\ [Next]_vars => [Hist!Next]_files
  BY StepHistory
<1> QED BY <1>1, <1>2, Inductive, PTL DEF Safety, HistoryImplemented, Hist!Spec
==============================================================================
