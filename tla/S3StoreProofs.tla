----------------------------- MODULE S3StoreProofs -----------------------------
(***************************************************************************)
(* Theorems about S3Store: types for any savers and any failing requests;  *)
(* the history for one saver at a time and any request that fails, or      *)
(* loses its answer, but the lists and the HEADs for the shortcut's object *)
(* and the new id, which make a save take an id that is taken or low.      *)
(***************************************************************************)
EXTENDS S3Store, ConfigStoreProofs

------------------------------------------------------------------------------
(* Types *)

PcS3 == SavePc \cup {"put", "copy", "unlink", "undo"}
SaveRecordS3 == [pc: PcS3, arg: Content \cup {Short}, fd: {Closed},
                 prev: {NoId} \cup 0..MaxId, doomed: SUBSET (0..MaxId), ok: BOOLEAN]

ObjectsOK == /\ DOMAIN files \subseteq 0..MaxId
             /\ files \in [DOMAIN files -> Content]
             /\ tmp \in Content \cup {Absent}
             /\ last \in {NoId} \cup 0..MaxId

\* A saver stores a configuration, and an id within bounds.
RecordOKS3(r) == /\ r \in SaveRecordS3
                 /\ r.pc = "put" => r.arg \in Content
                 /\ r.pc \in {"unlink", "undo", "last"} => r.prev + 1 \in 0..MaxId

SaveOKS3(saves) == /\ saves = [s \in Saver |-> saves[s]]
                   /\ \A s \in Saver : RecordOKS3(saves[s])

TypeInvS3 == ObjectsOK /\ SaveOKS3(save)

LEMMA TypeInvTypesS3 == TypeInvS3 => TypeOKS3 /\ FilesOK
BY DEF TypeInvS3, ObjectsOK, SaveOKS3, RecordOKS3, SaveRecordS3, PcS3, TypeOKS3, FilesOK,
       FileContent

LEMMA SaveChangeS3 ==
    ASSUME NEW saves, SaveOKS3(saves), NEW s \in Saver, NEW r, RecordOKS3(r)
    PROVE  SaveOKS3([saves EXCEPT ![s] = r]) /\ [saves EXCEPT ![s] = r][s] = r
BY DEF SaveOKS3

\* No descriptor is open on an object.
LEMMA MovedNone ==
    ASSUME NEW saves, SaveOKS3(saves), NEW from, from # Closed, NEW to
    PROVE  Moved(saves, from, to) = saves
BY DEF Moved, SaveOKS3, RecordOKS3, SaveRecordS3

LEMMA IdleRecordS3 == RecordOKS3(IdleSave)
BY DEF RecordOKS3, SaveRecordS3, PcS3, SavePc, IdleSave

\* Only the place of a save has changed, to pc, and what it is going to return.
MovesS3(s, pc) == /\ SaveOKS3(save')
                  /\ save'[s].pc = pc
                  /\ save'[s].arg = save[s].arg /\ save'[s].prev = save[s].prev
                  /\ save'[s].doomed = save[s].doomed

LEMMA GotoMovesS3 ==
    ASSUME SaveOKS3(save), NEW s \in Saver, NEW pc \in PcS3,
           pc = "put" => save[s].arg \in Content,
           pc \in {"unlink", "undo", "last"} => save[s].prev + 1 \in 0..MaxId
    PROVE  Goto(s, pc) => MovesS3(s, pc)
<1> DEFINE r == [save[s] EXCEPT !.pc = pc]
<1>1. save[s] \in SaveRecordS3
  BY DEF SaveOKS3, RecordOKS3
<1>2. /\ RecordOKS3(r) /\ r.pc = pc /\ r.arg = save[s].arg
      /\ r.prev = save[s].prev /\ r.doomed = save[s].doomed
  BY <1>1 DEF RecordOKS3, SaveRecordS3
<1>3. Goto(s, pc) => save' = [save EXCEPT ![s] = r]
  BY DEF Goto
<1> HIDE DEF r
<1> QED BY <1>2, <1>3, SaveChangeS3 DEF MovesS3

LEMMA ReturnMovesS3 ==
    ASSUME SaveOKS3(save), NEW s \in Saver, NEW ok \in BOOLEAN
    PROVE  Return(s, ok) => MovesS3(s, "cleanup")
<1> DEFINE r == [save[s] EXCEPT !.pc = "cleanup", !.ok = ok]
<1>1. save[s] \in SaveRecordS3
  BY DEF SaveOKS3, RecordOKS3
<1>2. /\ RecordOKS3(r) /\ r.pc = "cleanup" /\ r.arg = save[s].arg
      /\ r.prev = save[s].prev /\ r.doomed = save[s].doomed
  BY <1>1 DEF RecordOKS3, SaveRecordS3, PcS3, SavePc
<1>3. Return(s, ok) => save' = [save EXCEPT ![s] = r]
  BY DEF Return
<1> HIDE DEF r
<1> QED BY <1>2, <1>3, SaveChangeS3 DEF MovesS3

\* A save is over.
LEMMA EndS3 ==
    ASSUME SaveOKS3(save), NEW s \in Saver, save' = [save EXCEPT ![s] = IdleSave]
    PROVE  SaveOKS3(save') /\ save'[s].pc = "idle"
<1>1. IdleSave.pc = "idle"
  BY DEF IdleSave
<1>2. SaveOKS3([save EXCEPT ![s] = IdleSave]) /\ [save EXCEPT ![s] = IdleSave][s] = IdleSave
  BY IdleRecordS3, SaveChangeS3
<1> QED BY ONLY <1>1, <1>2, save' = [save EXCEPT ![s] = IdleSave]

\* Steps of a save that store no object and delete none, but tmp.
LEMMA MoveStepS3 ==
    ASSUME TypeInvS3, NEW s \in Saver
    PROVE  /\ CompareEqual(s) => MovesS3(s, "cleanup") /\ tmp' \in {tmp, Absent}
           /\ CompareUnequal(s) => MovesS3(s, "check") /\ tmp' = tmp
           /\ CheckNewS3(s) => MovesS3(s, "cleanup") \/ MovesS3(s, "copy")
           /\ DropLast(s) => MovesS3(s, "erase")
           /\ RemoveDone(s) => MovesS3(s, "cleanup")
<1>0. SaveOKS3(save) /\ {"check", "copy", "erase"} \subseteq PcS3
  BY DEF TypeInvS3, PcS3, SavePc
<1>1. ASSUME CompareEqual(s) PROVE MovesS3(s, "cleanup") /\ tmp' \in {tmp, Absent}
  <2>1. Return(s, TRUE)
    <3> DEFINE next == [save EXCEPT ![s] = [@ EXCEPT !.pc = "cleanup", !.ok = TRUE]]
    <3>1. save' = Moved(next, OnTmp, OnNothing) \/ save' = next
      BY <1>1 DEF CompareEqual, Return
    <3>2. SaveOKS3(next)
      <4>1. save[s] \in SaveRecordS3
        BY <1>0 DEF SaveOKS3, RecordOKS3
      <4>2. RecordOKS3([save[s] EXCEPT !.pc = "cleanup", !.ok = TRUE])
        BY <4>1 DEF RecordOKS3, SaveRecordS3, PcS3, SavePc
      <4> QED BY <1>0, <4>2, SaveChangeS3
    <3> HIDE DEF next
    <3>3. save' = next
      BY <3>1, <3>2, MovedNone DEF OnTmp, Closed
    <3> QED BY <3>3 DEF next, Return
  <2> QED BY <1>0, <1>1, <2>1, ReturnMovesS3 DEF CompareEqual
<1>2. CompareUnequal(s) => MovesS3(s, "check") /\ tmp' = tmp
  BY <1>0, GotoMovesS3 DEF CompareUnequal
<1>3. CheckNewS3(s) => MovesS3(s, "cleanup") \/ MovesS3(s, "copy")
  BY <1>0, GotoMovesS3, ReturnMovesS3 DEF CheckNewS3
<1>4. DropLast(s) => MovesS3(s, "erase")
  BY <1>0, GotoMovesS3 DEF DropLast
<1>5. RemoveDone(s) => MovesS3(s, "cleanup")
  BY <1>0, ReturnMovesS3 DEF RemoveDone
<1> QED BY <1>1, <1>2, <1>3, <1>4, <1>5

\* A rename in its steps.
LEMMA RenameStepS3 ==
    ASSUME TypeInvS3, NEW s \in Saver
    PROVE  /\ Copy(s) => \/ MovesS3(s, "unlink") /\ tmp # Absent /\ files' = Committed(s)
                         \/ MovesS3(s, "cleanup") /\ files' = files
                         \/ MovesS3(s, "cleanup") /\ tmp # Absent /\ files' = Committed(s)
           /\ DeleteTmp(s) => MovesS3(s, "last") \/ MovesS3(s, "undo")
           /\ Undo(s) => MovesS3(s, "cleanup")
           /\ PutLast(s) => \/ MovesS3(s, "erase") /\ last' = NewId(s)
                            \/ MovesS3(s, "drop") /\ last' \in {last, NewId(s)}
<1>0. /\ SaveOKS3(save) /\ {"unlink", "undo", "last", "erase", "drop"} \subseteq PcS3
      /\ save[s] \in SaveRecordS3 /\ RecordOKS3(save[s])
  BY DEF TypeInvS3, SaveOKS3, RecordOKS3, PcS3, SavePc
<1>1. ASSUME Copy(s)
      PROVE  \/ MovesS3(s, "unlink") /\ tmp # Absent /\ files' = Committed(s)
             \/ MovesS3(s, "cleanup") /\ files' = files
             \/ MovesS3(s, "cleanup") /\ tmp # Absent /\ files' = Committed(s)
  <2>1. save[s].prev + 1 \in 0..MaxId
    BY <1>0, <1>1, ParameterAssumption DEF Copy, NewId, SaveRecordS3, NoId
  <2>2. Goto(s, "unlink") => MovesS3(s, "unlink")
    BY <1>0, <2>1, GotoMovesS3
  <2>3. Return(s, FALSE) => MovesS3(s, "cleanup")
    BY <1>0, ReturnMovesS3
  <2> QED BY ONLY <1>1, <2>2, <2>3 DEF Copy, Unanswered
<1>2. ASSUME DeleteTmp(s) PROVE MovesS3(s, "last") \/ MovesS3(s, "undo")
  <2>1. save[s].prev + 1 \in 0..MaxId
    BY <1>0, <1>2 DEF DeleteTmp, RecordOKS3
  <2> QED BY <1>0, <1>2, <2>1, GotoMovesS3 DEF DeleteTmp
<1>3. Undo(s) => MovesS3(s, "cleanup")
  BY <1>0, ReturnMovesS3 DEF Undo
<1>4. ASSUME PutLast(s)
      PROVE  \/ MovesS3(s, "erase") /\ last' = NewId(s)
             \/ MovesS3(s, "drop") /\ last' \in {last, NewId(s)}
  <2>1. /\ Goto(s, "erase") => MovesS3(s, "erase")
        /\ Goto(s, "drop") => MovesS3(s, "drop")
    BY <1>0, GotoMovesS3
  <2> QED BY ONLY <1>4, <2>1 DEF PutLast, Unanswered
<1> QED BY <1>1, <1>2, <1>3, <1>4

\* Finding, listing and deleting objects.
LEMMA FindStepS3 ==
    ASSUME TypeInvS3, NEW s \in Saver, FindS3(s)
    PROVE  /\ SaveOKS3(save') /\ save'[s].pc \in {"compare", "check"}
           /\ save'[s].arg = save[s].arg /\ save'[s].prev \in {NoId} \cup 0..MaxId
           /\ "shortcut" \notin HeadFails /\ Readable => save'[s].prev = FindLastConfig
<1>0. SaveOKS3(save) /\ save[s] \in SaveRecordS3 /\ FilesOK
  BY TypeInvTypesS3 DEF TypeInvS3, SaveOKS3, RecordOKS3
<1>1. FindLastConfig \in {NoId} \cup 0..MaxId
  BY <1>0, FindLastType
<1>2. DOMAIN files # {} => Newest \in 0..MaxId
  BY <1>0, NewestIsGreatest DEF FilesOK
<1> DEFINE r(p, pc) == [save[s] EXCEPT !.prev = p, !.pc = pc]
<1>3. PICK p \in {NoId} \cup 0..MaxId, pc \in {"compare", "check"} :
         /\ save' = [save EXCEPT ![s] = r(p, pc)]
         /\ "shortcut" \notin HeadFails /\ Readable => p = FindLastConfig
  BY <1>1, <1>2 DEF FindS3, Readable
<1>4. /\ RecordOKS3(r(p, pc)) /\ r(p, pc).pc = pc /\ r(p, pc).prev = p
      /\ r(p, pc).arg = save[s].arg
  BY <1>0 DEF RecordOKS3, SaveRecordS3, PcS3, SavePc
<1> DEFINE found == r(p, pc)
<1>5. /\ save' = [save EXCEPT ![s] = found] /\ RecordOKS3(found) /\ found.pc = pc
      /\ found.prev = p /\ found.arg = save[s].arg
  BY <1>3, <1>4
<1> HIDE DEF found
<1>6. SaveOKS3(save') /\ save'[s] = found
  <2>1. SaveOKS3(save) /\ RecordOKS3(found)
    BY <1>0, <1>5
  <2>2. SaveOKS3([save EXCEPT ![s] = found]) /\ [save EXCEPT ![s] = found][s] = found
    BY ONLY <2>1, SaveChangeS3, s \in Saver
  <2> QED BY ONLY <1>5, <2>2
<1>7. /\ p \in {NoId} \cup 0..MaxId /\ pc \in {"compare", "check"}
      /\ "shortcut" \notin HeadFails /\ Readable => p = FindLastConfig
  BY ONLY <1>3, p \in {NoId} \cup 0..MaxId, pc \in {"compare", "check"}
<1> QED BY ONLY <1>5, <1>6, <1>7

LEMMA ListStepS3 ==
    ASSUME TypeInvS3, NEW s \in Saver, ListOld(s)
    PROVE  \/ MovesS3(s, "cleanup")
           \/ /\ SaveOKS3(save') /\ save'[s].pc = "remove" /\ MaxFiles > 0
              /\ save'[s].doomed = Old /\ save'[s].prev = save[s].prev
<1>0. SaveOKS3(save) /\ save[s] \in SaveRecordS3 /\ Old \subseteq 0..MaxId
  BY DEF TypeInvS3, ObjectsOK, SaveOKS3, RecordOKS3, Old
<1> DEFINE r == [save[s] EXCEPT !.pc = "remove", !.doomed = Old]
<1>1. RecordOKS3(r) /\ r.pc = "remove" /\ r.doomed = Old /\ r.prev = save[s].prev
  BY <1>0 DEF RecordOKS3, SaveRecordS3, PcS3, SavePc
<1>2. \/ MaxFiles > 0 /\ save' = [save EXCEPT ![s] = r]
      \/ Return(s, TRUE)
  BY DEF ListOld
<1> HIDE DEF r
<1>3. CASE MaxFiles > 0 /\ save' = [save EXCEPT ![s] = r]
  <2>1. SaveOKS3([save EXCEPT ![s] = r]) /\ [save EXCEPT ![s] = r][s] = r
    BY <1>0, <1>1, SaveChangeS3
  <2> QED BY ONLY <1>1, <1>3, <2>1
<1>4. CASE Return(s, TRUE)
  BY <1>0, <1>4, ReturnMovesS3
<1> QED BY <1>2, <1>3, <1>4

LEMMA RemoveStepS3 ==
    ASSUME TypeInvS3, NEW s \in Saver, NEW i \in save[s].doomed, RemoveOld(s, i)
    PROVE  /\ SaveOKS3(save') /\ save'[s].pc = "remove"
           /\ save'[s].doomed = save[s].doomed \ {i} /\ save'[s].prev = save[s].prev
           /\ files' \in {files, Restrict(files, DOMAIN files \ {i})}
<1>0. SaveOKS3(save) /\ save[s] \in SaveRecordS3 /\ save[s].pc = "remove"
  BY DEF TypeInvS3, SaveOKS3, RecordOKS3, RemoveOld
<1> DEFINE r == [save[s] EXCEPT !.doomed = save[s].doomed \ {i}]
           next == [save EXCEPT ![s] = r]
<1>1. /\ RecordOKS3(r) /\ r.pc = "remove" /\ r.doomed = save[s].doomed \ {i}
      /\ r.prev = save[s].prev
  BY <1>0 DEF RecordOKS3, SaveRecordS3
<1>2. /\ save' = Moved(next, i, OnNothing) \/ save' = next
      /\ files' \in {files, Restrict(files, DOMAIN files \ {i})}
  BY DEF RemoveOld
<1> HIDE DEF r
<1>3. SaveOKS3(next) /\ next[s] = r
  BY <1>0, <1>1, SaveChangeS3
<1> HIDE DEF next
<1>4. i # Closed
  BY <1>0, ParameterAssumption DEF SaveRecordS3, Closed
<1>5. save' = next
  BY <1>2, <1>3, <1>4, MovedNone
<1> QED BY <1>1, <1>2, <1>3, <1>5

\* A save stores tmp, or gives up; another ends.
LEMMA PutStepS3 ==
    ASSUME TypeInvS3, NEW s \in Saver, Put(s) \/ Cleanup(s)
    PROVE  /\ SaveOKS3(save') /\ save'[s].pc \in {"find", "idle"}
           /\ tmp' \in Content \cup {Absent} /\ UNCHANGED <<files, last>>
<1>0. SaveOKS3(save) /\ tmp \in Content \cup {Absent}
  BY DEF TypeInvS3, ObjectsOK
<1>1. CASE Put(s)
  <2>1. save[s].arg \in Content
    BY <1>0, <1>1 DEF Put, SaveOKS3, RecordOKS3
  <2>2. tmp' \in Content \cup {Absent} /\ UNCHANGED <<files, last>>
    BY <1>0, <1>1, <2>1 DEF Put, Unanswered
  <2>3. Goto(s, "find") \/ save' = [save EXCEPT ![s] = IdleSave]
    BY <1>1 DEF Put
  <2>4. "find" \in PcS3
    BY DEF PcS3, SavePc
  <2> QED BY <1>0, <2>2, <2>3, <2>4, GotoMovesS3, EndS3 DEF MovesS3
<1>2. CASE Cleanup(s)
  <2> DEFINE next == [save EXCEPT ![s] = IdleSave]
  <2>1. SaveOKS3(next)
    BY <1>0, IdleRecordS3, SaveChangeS3
  <2>2. save' = Moved(next, OnTmp, OnNothing) \/ save' = next
    BY <1>2 DEF Cleanup
  <2> HIDE DEF next
  <2>3. save' = next
    BY <2>1, <2>2, MovedNone DEF OnTmp, Closed
  <2> QED BY <1>0, <1>2, <2>3, EndS3 DEF next, Cleanup
<1> QED BY <1>1, <1>2

LEMMA BeginStepS3 ==
    ASSUME TypeInvS3, NEW s \in Saver, NEW c \in Content, BeginS3(s, c)
    PROVE  /\ SaveOKS3(save') /\ save'[s].pc = "put"
           /\ UNCHANGED <<files, tmp, last>>
<1> DEFINE r == [IdleSave EXCEPT !.pc = "put", !.arg = c]
<1>1. RecordOKS3(r) /\ r.pc = "put"
  BY DEF RecordOKS3, SaveRecordS3, PcS3, SavePc, IdleSave
<1> HIDE DEF r
<1>2. SaveOKS3([save EXCEPT ![s] = r]) /\ [save EXCEPT ![s] = r][s] = r
  BY <1>1, SaveChangeS3 DEF TypeInvS3
<1> QED BY <1>1, <1>2 DEF BeginS3, r

LEMMA InitTypeS3 == Init => TypeInvS3
BY IdleRecordS3 DEF Init, TypeInvS3, ObjectsOK, SaveOKS3

LEMMA CommittedType ==
    ASSUME ObjectsOK, NEW s \in Saver, tmp # Absent, NewId(s) \in 0..MaxId
    PROVE  /\ DOMAIN Committed(s) = DOMAIN files \cup {NewId(s)}
           /\ DOMAIN Committed(s) \subseteq 0..MaxId
           /\ Committed(s) \in [DOMAIN Committed(s) -> Content]
           /\ Committed(s)[NewId(s)] = tmp
           /\ \A i \in DOMAIN files \ {NewId(s)} : Committed(s)[i] = files[i]
BY DEF ObjectsOK, Committed

LEMMA TypeStepS3 == TypeInvS3 /\ [NextS3]_vars => TypeInvS3'
<1> SUFFICES ASSUME TypeInvS3, [NextS3]_vars PROVE ObjectsOK' /\ SaveOKS3(save')
  BY DEF TypeInvS3, SaveOKS3
<1>0. ObjectsOK
  BY DEF TypeInvS3
<1>1. ASSUME NEW s \in Saver, NEW c \in Content, BeginS3(s, c)
      PROVE  ObjectsOK' /\ SaveOKS3(save')
  BY <1>0, <1>1, BeginStepS3 DEF ObjectsOK
<1>2. ASSUME NEW s \in Saver, SaveStepS3(s) PROVE ObjectsOK' /\ SaveOKS3(save')
  <2>0. save[s] \in SaveRecordS3 /\ RecordOKS3(save[s])
    BY DEF TypeInvS3, SaveOKS3, RecordOKS3
  <2>1. CASE Put(s) \/ Cleanup(s)
    BY <1>0, <2>1, PutStepS3 DEF ObjectsOK
  <2>2. CASE FindS3(s)
    BY <1>0, <2>2, FindStepS3 DEF FindS3, ObjectsOK
  <2>3. CASE CompareEqual(s) \/ CompareUnequal(s) \/ CheckNewS3(s) \/ RemoveDone(s)
    <3>1. tmp' \in {tmp, Absent} /\ UNCHANGED <<files, last>>
      BY <2>3 DEF CompareEqual, CompareUnequal, CheckNewS3, RemoveDone
    <3> QED BY <1>0, <2>3, <3>1, MoveStepS3 DEF MovesS3, ObjectsOK
  <2>4. CASE DropLast(s)
    BY <1>0, <2>4, MoveStepS3 DEF DropLast, MovesS3, ObjectsOK
  <2>5. CASE Copy(s)
    <3>1. NewId(s) \in 0..MaxId
      BY <2>0, <2>5, ParameterAssumption DEF Copy, NewId, SaveRecordS3, NoId
    <3>2. /\ SaveOKS3(save')
          /\ \/ files' = files
             \/ tmp # Absent /\ files' = Committed(s)
      BY <2>5, RenameStepS3 DEF MovesS3
    <3>3. DOMAIN files' \subseteq 0..MaxId /\ files' \in [DOMAIN files' -> Content]
      BY ONLY <1>0, <3>1, <3>2, CommittedType, s \in Saver DEF ObjectsOK
    <3> QED BY <1>0, <2>5, <3>2, <3>3 DEF Copy, ObjectsOK
  <2>6. CASE DeleteTmp(s)
    BY <1>0, <2>6, RenameStepS3 DEF DeleteTmp, Unanswered, MovesS3, ObjectsOK
  <2>7. CASE Undo(s)
    BY <1>0, <2>7, RenameStepS3 DEF Undo, Restrict, MovesS3, ObjectsOK
  <2>8. CASE PutLast(s)
    <3>1. NewId(s) \in 0..MaxId
      BY <2>0, <2>8 DEF PutLast, NewId, RecordOKS3
    <3>2. SaveOKS3(save') /\ last' \in {last, NewId(s)}
      BY <2>8, RenameStepS3 DEF MovesS3
    <3> QED BY <1>0, <2>8, <3>1, <3>2 DEF PutLast, ObjectsOK
  <2>9. CASE ListOld(s)
    BY <1>0, <2>9, ListStepS3 DEF ListOld, MovesS3, ObjectsOK
  <2>10. ASSUME NEW i \in save[s].doomed, RemoveOld(s, i)
         PROVE  ObjectsOK' /\ SaveOKS3(save')
    BY <1>0, <2>10, RemoveStepS3 DEF RemoveOld, Restrict, ObjectsOK
  <2> QED BY <1>2, <2>1, <2>2, <2>3, <2>4, <2>5, <2>6, <2>7, <2>8, <2>9, <2>10
          DEF SaveStepS3
<1>3. CASE Crash
  BY <1>0, <1>3, IdleRecordS3 DEF Crash, ObjectsOK, SaveOKS3
<1>4. CASE UNCHANGED vars
  BY <1>0, <1>4 DEF TypeInvS3, vars, ObjectsOK
<1> QED BY <1>1, <1>2, <1>3, <1>4 DEF NextS3

\* Whatever the savers do to each other and whichever requests fail or lose their
\* answers, every variable keeps its shape and no object is stored in part.
THEOREM TypeCorrectS3 == SpecS3 => []TypeOKS3
<1>1. TypeInvS3 => TypeOKS3
  BY TypeInvTypesS3
<1> QED BY <1>1, InitTypeS3, TypeStepS3, PTL DEF SpecS3

------------------------------------------------------------------------------
(* The history *)

\* Errors of a HEAD hide tmp only.
Heads == HeadFails \subseteq {"tmp"}

\* A save that has found its previous object either meets an occupied id or has one
\* above all others; the copy of an unfinished rename is the newest object.
IdInvS3(s) ==
    /\ save[s].pc \in {"compare", "check", "copy"} =>
          /\ last \in DOMAIN files => save[s].prev = last
          /\ NewId(s) \in DOMAIN files \/ \A k \in DOMAIN files : k < NewId(s)
    /\ save[s].pc = "copy" => NewId(s) \notin DOMAIN files
    /\ save[s].pc \in {"unlink", "undo"} => NewId(s) \in DOMAIN files
    /\ save[s].pc \in {"unlink", "undo", "last"} => \A k \in DOMAIN files : k <= NewId(s)

StoreInvS3 == ShortcutInv /\ \A s \in Saver : IdInvS3(s) /\ DoomedInv(s)

\* A step of s to a place where nothing is said of the ids.
LEMMA RestInvS3 ==
    ASSUME NEW s \in Saver, ShortcutInv, UNCHANGED <<files, last>>,
           save'[s].pc \in {"idle", "put", "find", "drop", "erase", "cleanup"}
    PROVE  ShortcutInv' /\ IdInvS3(s)' /\ DoomedInv(s)'
BY DEF ShortcutInv, IdInvS3, DoomedInv

LEMMA StoreStepS3 ==
    ASSUME OneSaver, Readable, Heads, TypeInvS3, StoreInvS3, [NextS3]_vars
    PROVE  StoreInvS3'
<1>0. /\ ObjectsOK /\ FilesOK /\ ShortcutInv
      /\ \A k \in DOMAIN files : k \in Int /\ k \in 0..MaxId
  BY TypeInvTypesS3, ParameterAssumption DEF TypeInvS3, ObjectsOK, StoreInvS3
<1>1. ASSUME NEW s \in Saver, NEW c \in Content, BeginS3(s, c) PROVE StoreInvS3'
  <2>1. ShortcutInv' /\ IdInvS3(s)' /\ DoomedInv(s)'
    BY <1>0, <1>1, BeginStepS3, RestInvS3
  <2> QED BY <2>1 DEF StoreInvS3, OneSaver
<1>2. ASSUME NEW s \in Saver, SaveStepS3(s) PROVE StoreInvS3'
  <2> SUFFICES ShortcutInv' /\ IdInvS3(s)' /\ DoomedInv(s)'
    BY DEF StoreInvS3, OneSaver
  <2>0. /\ IdInvS3(s) /\ DoomedInv(s) /\ save[s] \in SaveRecordS3
        /\ NewId(s) \in Int /\ NewId(s) = save[s].prev + 1
    BY ParameterAssumption
       DEF StoreInvS3, TypeInvS3, SaveOKS3, RecordOKS3, SaveRecordS3, NewId, NoId
  <2>1. CASE Put(s) \/ Cleanup(s)
    BY <1>0, <2>1, PutStepS3, RestInvS3
  <2>2. CASE FindS3(s)
    <3>1. /\ save'[s].prev = FindLastConfig /\ save'[s].pc \in {"compare", "check"}
          /\ UNCHANGED <<files, last>>
      BY <2>2, FindStepS3 DEF FindS3, Heads
    <3>2. last \in DOMAIN files => FindLastConfig = last
      BY DEF FindLastConfig
    <3>3. \/ FindLastConfig + 1 \in DOMAIN files
          \/ \A k \in DOMAIN files : k < FindLastConfig + 1
      BY <1>0, FoundId
    <3> QED BY ONLY <1>0, <3>1, <3>2, <3>3 DEF ShortcutInv, IdInvS3, DoomedInv, NewId
  <2>3. CASE CompareEqual(s) \/ RemoveDone(s)
    BY <1>0, <2>3, MoveStepS3, RestInvS3 DEF CompareEqual, RemoveDone, MovesS3
  <2>4. CASE CompareUnequal(s)
    BY <1>0, <2>0, <2>4, MoveStepS3
       DEF CompareUnequal, MovesS3, ShortcutInv, IdInvS3, DoomedInv, NewId
  <2>5. CASE CheckNewS3(s)
    <3>1. /\ UNCHANGED <<files, last>> /\ save[s].pc = "check"
          /\ \/ save'[s].pc = "cleanup"
             \/ MovesS3(s, "copy") /\ NewId(s) \notin DOMAIN files
      <4>1. /\ Return(s, FALSE) => MovesS3(s, "cleanup")
            /\ Goto(s, "copy") => MovesS3(s, "copy")
        BY GotoMovesS3, ReturnMovesS3 DEF TypeInvS3, PcS3
      <4> QED BY <2>5, <4>1 DEF CheckNewS3, Heads, MovesS3
    <3> QED BY <1>0, <2>0, <3>1 DEF MovesS3, ShortcutInv, IdInvS3, DoomedInv, NewId
  <2>6. CASE Copy(s)
    <3>1. /\ NewId(s) \in 0..MaxId /\ save[s].pc = "copy" /\ last' = last
          /\ NewId(s) \notin DOMAIN files /\ \A k \in DOMAIN files : k < NewId(s)
          /\ last \in DOMAIN files => save[s].prev = last
      BY <2>0, <2>6, ParameterAssumption DEF Copy, NewId, SaveRecordS3, NoId, IdInvS3
    <3>2. \/ MovesS3(s, "unlink") /\ tmp # Absent /\ files' = Committed(s)
          \/ MovesS3(s, "cleanup") /\ files' = files
          \/ MovesS3(s, "cleanup") /\ tmp # Absent /\ files' = Committed(s)
      BY <2>6, RenameStepS3
    <3>3. CASE files' = files /\ MovesS3(s, "cleanup")
      BY <1>0, <3>1, <3>3, RestInvS3 DEF MovesS3
    <3>4. CASE tmp # Absent /\ files' = Committed(s)
      <4>1. DOMAIN files' = DOMAIN files \cup {NewId(s)}
        BY <1>0, <3>1, <3>4, CommittedType
      <4>2. NewId(s)' = NewId(s) /\ save'[s].pc \in {"unlink", "cleanup"}
        BY <3>2 DEF MovesS3, NewId
      <4>3. ShortcutInv'
        BY <1>0, <2>0, <3>1, <4>1 DEF ShortcutInv
      <4>4. IdInvS3(s)' /\ DoomedInv(s)'
        BY <1>0, <3>1, <4>1, <4>2 DEF IdInvS3, DoomedInv
      <4> QED BY <4>3, <4>4
    <3> QED BY <3>2, <3>3, <3>4
  <2>7. CASE DeleteTmp(s)
    <3>1. /\ save[s].pc = "unlink" /\ UNCHANGED <<files, last>>
          /\ save'[s].pc \in {"last", "undo"} /\ NewId(s)' = NewId(s)
      BY <2>7, RenameStepS3 DEF DeleteTmp, MovesS3, NewId
    <3> QED BY <1>0, <2>0, <3>1 DEF ShortcutInv, IdInvS3, DoomedInv
  <2>8. CASE Undo(s)
    <3>1. /\ save'[s].pc = "cleanup" /\ last' = last
          /\ DOMAIN files' \subseteq DOMAIN files
      BY <2>8, RenameStepS3 DEF Undo, Restrict, MovesS3
    <3> QED BY <1>0, <3>1 DEF ShortcutInv, IdInvS3, DoomedInv
  <2>9. CASE PutLast(s)
    <3>1. /\ save[s].pc = "last" /\ files' = files /\ last' \in {last, NewId(s)}
          /\ save'[s].pc \in {"erase", "drop"}
      BY <2>9, RenameStepS3 DEF PutLast, MovesS3
    <3>2. ShortcutInv'
      BY <1>0, <2>0, <3>1 DEF ShortcutInv, IdInvS3
    <3> QED BY <3>1, <3>2 DEF IdInvS3, DoomedInv
  <2>10. CASE DropLast(s)
    <3>1. save'[s].pc = "erase" /\ files' = files /\ last' \in {last, NoId}
      BY <2>10, MoveStepS3 DEF DropLast, MovesS3
    <3>2. NoId \notin DOMAIN files
      BY <1>0, ParameterAssumption DEF NoId
    <3> QED BY <1>0, <3>1, <3>2 DEF ShortcutInv, IdInvS3, DoomedInv
  <2>11. CASE ListOld(s)
    <3>1. /\ UNCHANGED <<files, last>>
          /\ \/ save'[s].pc = "cleanup"
             \/ save'[s].pc = "remove" /\ MaxFiles > 0 /\ save'[s].doomed = Old
      BY <2>11, ListStepS3 DEF ListOld, MovesS3
    <3> QED BY <1>0, <3>1 DEF ShortcutInv, IdInvS3, DoomedInv, Old
  <2>12. ASSUME NEW i \in save[s].doomed, RemoveOld(s, i)
         PROVE  ShortcutInv' /\ IdInvS3(s)' /\ DoomedInv(s)'
    <3>1. /\ save[s].pc = "remove" /\ save'[s].pc = "remove" /\ last' = last
          /\ save'[s].doomed = save[s].doomed \ {i}
          /\ \A k \in save[s].doomed : i <= k
      BY <2>12, RemoveStepS3 DEF RemoveOld
    <3>2. /\ DOMAIN files' \subseteq DOMAIN files
          /\ DOMAIN files \ {i} \subseteq DOMAIN files'
      <4>1. files' \in {files, Restrict(files, DOMAIN files \ {i})}
        BY <2>12, RemoveStepS3
      <4> QED BY ONLY <4>1 DEF Restrict
    <3>3. ASSUME NEW j \in save[s].doomed \ {i}
          PROVE  /\ j \in DOMAIN files'
                 /\ {k \in DOMAIN files' : k > j} = {k \in DOMAIN files : k > j}
      <4>1. j \in DOMAIN files /\ i \in DOMAIN files /\ j \in Int /\ i \in Int /\ i < j
        BY <1>0, <2>0, <3>1 DEF DoomedInv
      <4> QED BY ONLY <1>0, <3>2, <4>1
    <3>4. DoomedInv(s)'
      BY <2>0, <3>1, <3>3 DEF DoomedInv
    <3> QED BY <1>0, <3>1, <3>2, <3>4 DEF ShortcutInv, IdInvS3
  <2> QED BY <1>2, <2>1, <2>2, <2>3, <2>4, <2>5, <2>6, <2>7, <2>8, <2>9, <2>10, <2>11,
             <2>12 DEF SaveStepS3
<1>3. CASE Crash
  BY <1>0, <1>3 DEF Crash, IdleSave, StoreInvS3, ShortcutInv, IdInvS3, DoomedInv
<1>4. CASE UNCHANGED vars
  BY <1>4 DEF vars, StoreInvS3, ShortcutInv, IdInvS3, DoomedInv, NewId
<1> QED BY <1>1, <1>2, <1>3, <1>4 DEF NextS3

InvS3 == TypeInvS3 /\ StoreInvS3

LEMMA InductiveS3 ==
    ASSUME OneSaver, Readable, Heads
    PROVE  Init /\ [][NextS3]_vars => []InvS3
<1>1. Init => InvS3
  BY InitTypeS3 DEF Init, IdleSave, InvS3, StoreInvS3, ShortcutInv, IdInvS3, DoomedInv
<1>2. InvS3 /\ [NextS3]_vars => InvS3'
  BY TypeStepS3, StoreStepS3 DEF InvS3
<1> QED BY <1>1, <1>2, PTL

\* The history that the objects stand for.
Visible == Restrict(files, DOMAIN files \ Pending)

\* With one saver only its own copy may be hidden.
LEMMA VisibleIs ==
    ASSUME OneSaver, InvS3, NEW s \in Saver
    PROVE  IF save[s].pc \in {"unlink", "undo"}
           THEN /\ NewId(s) \in DOMAIN files /\ \A k \in DOMAIN files : k <= NewId(s)
                /\ Visible = Restrict(files, DOMAIN files \ {NewId(s)})
           ELSE Visible = files
<1>1. Pending = IF save[s].pc \in {"unlink", "undo"} THEN {NewId(s)} ELSE {}
  BY DEF OneSaver, Pending
<1>2. files = [i \in DOMAIN files |-> files[i]] /\ IdInvS3(s)
  BY DEF InvS3, TypeInvS3, ObjectsOK, StoreInvS3
<1>3. CASE save[s].pc \in {"unlink", "undo"}
  BY <1>1, <1>2, <1>3 DEF IdInvS3, Visible
<1>4. CASE save[s].pc \notin {"unlink", "undo"}
  BY <1>1, <1>2, <1>4 DEF Visible, Restrict
<1> QED BY <1>3, <1>4

LEMMA VisibleNext ==
    ASSUME OneSaver, InvS3', NEW s \in Saver
    PROVE  Visible' = IF save'[s].pc \in {"unlink", "undo"}
                      THEN Restrict(files', DOMAIN files' \ {NewId(s)'})
                      ELSE files'
<1>1. Pending' = IF save'[s].pc \in {"unlink", "undo"} THEN {NewId(s)'} ELSE {}
  BY DEF OneSaver, Pending
<1>2. files' = [i \in DOMAIN files' |-> files'[i]]
  BY DEF InvS3, TypeInvS3, ObjectsOK
<1> QED BY <1>1, <1>2 DEF Visible, Restrict

\* The newest object comes into sight.
LEMMA CommitsNewest ==
    ASSUME NEW f, DOMAIN f \subseteq 0..MaxId, f \in [DOMAIN f -> Content],
           NEW i \in DOMAIN f, \A k \in DOMAIN f : k <= i,
           Visible = Restrict(f, DOMAIN f \ {i}), Visible' = f
    PROVE  HistS3!Next
<1>1. i \in Nat /\ \A k \in DOMAIN f : k \in Int
  BY ParameterAssumption
<1>2. /\ DOMAIN Visible = DOMAIN f \ {i}
      /\ \A k \in DOMAIN Visible : Visible[k] = f[k]
      /\ Visible = [k \in DOMAIN Visible |-> Visible[k]]
  <2> DEFINE g == Restrict(f, DOMAIN f \ {i})
  <2>1. /\ DOMAIN g = DOMAIN f \ {i} /\ \A k \in DOMAIN g : g[k] = f[k]
        /\ g = [k \in DOMAIN g |-> g[k]]
    BY DEF Restrict
  <2> QED BY <2>1
<1>3. /\ i \in DOMAIN Visible' \ DOMAIN Visible
      /\ {k \in DOMAIN Visible : k > i} = {}
      /\ Visible'[i] \in Content
      /\ DOMAIN Visible' = DOMAIN Visible \cup {i}
      /\ [k \in DOMAIN Visible |-> Visible'[k]] = Visible
  <2>1. ASSUME NEW k \in DOMAIN Visible PROVE ~ (k > i) /\ Visible'[k] = Visible[k]
    BY ONLY <1>1, <1>2, <2>1, Visible' = f, \A k_1 \in DOMAIN f : k_1 <= i
  <2>2. [k \in DOMAIN Visible |-> Visible'[k]] = [k \in DOMAIN Visible |-> Visible[k]]
    BY ONLY <2>1
  <2>3. {k \in DOMAIN Visible : k > i} = {}
    BY ONLY <2>1
  <2>4. /\ i \in DOMAIN Visible' \ DOMAIN Visible
        /\ Visible'[i] \in Content
        /\ DOMAIN Visible' = DOMAIN Visible \cup {i}
    BY ONLY <1>2, Visible' = f, f \in [DOMAIN f -> Content], i \in DOMAIN f
  <2> QED BY ONLY <1>2, <2>2, <2>3, <2>4
<1>4. HistS3!Commit
  BY ONLY <1>1, <1>3 DEF HistS3!Commit, HistS3!Newer, HistS3!Restrict, Visible
<1> QED BY <1>4 DEF HistS3!Next

LEMMA SameCardinalityS3 == \A S : HistS3!Cardinality(S) = Cardinality(S)
BY DEF HistS3!Cardinality, Cardinality

LEMMA StepHistoryS3 ==
    ASSUME OneSaver, Readable, Heads, InvS3, InvS3', [NextS3]_vars
    PROVE  [HistS3!Next]_Visible
<1> SUFFICES ASSUME Visible' # Visible PROVE HistS3!Next
  OBVIOUS
<1>0. /\ ObjectsOK /\ TypeInvS3 /\ \A s \in Saver : IdInvS3(s) /\ DoomedInv(s)
      /\ DOMAIN files \subseteq 0..MaxId /\ files \in [DOMAIN files -> Content]
      /\ DOMAIN files' \subseteq 0..MaxId /\ files' \in [DOMAIN files' -> Content]
      /\ files = [i \in DOMAIN files |-> files[i]]
  BY DEF InvS3, TypeInvS3, ObjectsOK, StoreInvS3
<1>1. ASSUME NEW s \in Saver, files' = files,
             save[s].pc \notin {"unlink", "undo"}, save'[s].pc \notin {"unlink", "undo"}
      PROVE  HistS3!Next
  BY <1>1, VisibleIs, VisibleNext
<1>2. ASSUME NEW s \in Saver, files' = files,
             save[s].pc \in {"unlink", "undo"}, save'[s].pc \notin {"unlink", "undo"}
      PROVE  HistS3!Next
  <2>1. /\ NewId(s) \in DOMAIN files /\ \A k \in DOMAIN files : k <= NewId(s)
        /\ Visible = Restrict(files, DOMAIN files \ {NewId(s)})
    BY <1>2, VisibleIs
  <2>2. Visible' = files
    BY <1>2, VisibleNext
  <2> QED BY <1>0, <2>1, <2>2, CommitsNewest
<1>3. ASSUME NEW s \in Saver,
             \/ Put(s) \/ Cleanup(s) \/ FindS3(s) \/ (\E c \in Content : BeginS3(s, c))
      PROVE  HistS3!Next
  <2>1. files' = files /\ save[s].pc \notin {"unlink", "undo"}
    BY <1>3 DEF BeginS3, Put, Cleanup, FindS3
  <2>2. save'[s].pc \notin {"unlink", "undo"}
    BY <1>0, <1>3, BeginStepS3, PutStepS3, FindStepS3
  <2> QED BY <1>1, <2>1, <2>2
<1>4. ASSUME NEW s \in Saver,
             \/ CompareEqual(s) \/ CompareUnequal(s) \/ CheckNewS3(s) \/ PutLast(s)
             \/ DropLast(s) \/ ListOld(s) \/ RemoveDone(s)
      PROVE  HistS3!Next
  <2>1. files' = files /\ save[s].pc \notin {"unlink", "undo"}
    BY <1>4 DEF CompareEqual, CompareUnequal, CheckNewS3, PutLast, DropLast, ListOld,
                RemoveDone
  <2>2. save'[s].pc \notin {"unlink", "undo"}
    BY <1>0, <1>4, MoveStepS3, RenameStepS3, ListStepS3 DEF MovesS3
  <2> QED BY <1>1, <2>1, <2>2
<1>5. ASSUME NEW s \in Saver, Copy(s) PROVE HistS3!Next
  <2>1. /\ save[s].pc = "copy" /\ NewId(s) \in 0..MaxId
        /\ NewId(s) \notin DOMAIN files /\ \A k \in DOMAIN files : k < NewId(s)
    <3>1. save[s] \in SaveRecordS3
      BY <1>0 DEF TypeInvS3, SaveOKS3, RecordOKS3
    <3>2. \A k \in DOMAIN files : k \in Int
      BY <1>0
    <3> QED BY <1>0, <1>5, <3>1, <3>2, ParameterAssumption
            DEF Copy, NewId, SaveRecordS3, NoId, IdInvS3
  <2>2. Visible = files
    BY <2>1, VisibleIs
  <2>3. \/ MovesS3(s, "unlink") /\ tmp # Absent /\ files' = Committed(s)
        \/ MovesS3(s, "cleanup") /\ files' = files
        \/ MovesS3(s, "cleanup") /\ tmp # Absent /\ files' = Committed(s)
    BY <1>0, <1>5, RenameStepS3
  <2>4. CASE MovesS3(s, "cleanup") /\ files' = files
    BY <1>1, <2>1, <2>4 DEF MovesS3
  <2>5. CASE tmp # Absent /\ files' = Committed(s)
    <3>1. /\ DOMAIN files' = DOMAIN files \cup {NewId(s)}
          /\ \A i \in DOMAIN files \ {NewId(s)} : files'[i] = files[i]
      BY <1>0, <2>1, <2>5, CommittedType
    <3>2. Restrict(files', DOMAIN files' \ {NewId(s)}) = files
      <4>1. DOMAIN files' \ {NewId(s)} = DOMAIN files
        BY ONLY <2>1, <3>1
      <4> QED BY ONLY <1>0, <2>1, <3>1, <4>1 DEF Restrict
    <3>3. CASE MovesS3(s, "unlink")
      <4>1. save'[s].pc = "unlink" /\ NewId(s)' = NewId(s)
        BY <3>3 DEF MovesS3, NewId
      <4> QED BY <2>2, <3>2, <4>1, VisibleNext
    <3>4. CASE MovesS3(s, "cleanup")
      <4>1. Visible' = files'
        BY <3>4, VisibleNext DEF MovesS3
      <4>2. NewId(s) \in DOMAIN files' /\ \A k \in DOMAIN files' : k <= NewId(s)
        BY <1>0, <2>1, <3>1
      <4> QED BY <1>0, <2>2, <3>2, <4>1, <4>2, CommitsNewest
    <3> QED BY <2>3, <2>4, <3>3, <3>4
  <2> QED BY <2>3, <2>4, <2>5
<1>6. ASSUME NEW s \in Saver, DeleteTmp(s) PROVE HistS3!Next
  <2>1. save[s].pc = "unlink" /\ files' = files
    BY <1>6 DEF DeleteTmp
  <2>2. CASE MovesS3(s, "last")
    BY <1>2, <2>1, <2>2 DEF MovesS3
  <2>3. CASE MovesS3(s, "undo")
    <3>1. save'[s].pc = "undo" /\ NewId(s)' = NewId(s)
      BY <2>3 DEF MovesS3, NewId
    <3> QED BY <2>1, <3>1, VisibleIs, VisibleNext
  <2> QED BY <1>0, <1>6, <2>2, <2>3, RenameStepS3
<1>7. ASSUME NEW s \in Saver, Undo(s) PROVE HistS3!Next
  <2>1. save[s].pc = "undo" /\ save'[s].pc = "cleanup"
    BY <1>0, <1>7, RenameStepS3 DEF Undo, MovesS3
  <2>2. files' = files \/ files' = Restrict(files, DOMAIN files \ {NewId(s)})
    BY <1>7 DEF Undo
  <2> QED BY <1>2, <2>1, <2>2, VisibleIs, VisibleNext
<1>8. ASSUME NEW s \in Saver, NEW i \in save[s].doomed, RemoveOld(s, i)
      PROVE  HistS3!Next
  <2>1. /\ save[s].pc = "remove" /\ save'[s].pc = "remove"
        /\ files' \in {files, Restrict(files, DOMAIN files \ {i})}
    BY <1>0, <1>8, RemoveStepS3 DEF RemoveOld
  <2>2. /\ Visible = files /\ Visible' = files'
    BY <2>1, VisibleIs, VisibleNext
  <2>3. /\ i \in DOMAIN files /\ MaxFiles > 0
        /\ Cardinality({k \in DOMAIN files : k > i}) >= MaxFiles
    BY <1>0, <2>1 DEF DoomedInv
  <2>4. files' = HistS3!Restrict(files, DOMAIN files \ {i})
    BY <2>1, <2>2 DEF Restrict, HistS3!Restrict
  <2>5. HistS3!Cardinality({k \in DOMAIN files : k > i}) >= MaxFiles
    BY <2>3, SameCardinalityS3
  <2>6. HistS3!Discard
    BY ONLY <2>2, <2>3, <2>4, <2>5 DEF HistS3!Discard, HistS3!Newer, Visible
  <2> QED BY <2>6 DEF HistS3!Next
<1>9. CASE Crash
  <2>1. files' = files /\ \A s \in Saver : save'[s].pc = "idle"
    BY <1>9 DEF Crash, IdleSave
  <2>2. CASE Saver = {}
    BY <2>1, <2>2 DEF Visible, Pending
  <2>3. CASE Saver # {}
    BY <1>1, <1>2, <2>1, <2>3
  <2> QED BY <2>2, <2>3
<1>10. NextS3
  <2>1. ~ UNCHANGED vars
    BY DEF vars, Visible, Pending, NewId
  <2> QED BY <2>1
<1>11. ASSUME NEW s \in Saver, SaveStepS3(s) \/ \E c \in Content : BeginS3(s, c)
       PROVE  HistS3!Next
  BY ONLY <1>3, <1>4, <1>5, <1>6, <1>7, <1>8, <1>11 DEF SaveStepS3
<1> QED BY ONLY <1>9, <1>10, <1>11 DEF NextS3

\* With one save at a time and objects that can be listed and looked up, the objects are
\* a history at every moment, but for the copy of a rename that may still be undone:
\* whichever requests fail, whichever answers are lost, wherever the program crashes.
THEOREM ObjectsImplementHistory ==
    ASSUME OneSaver, Readable, Heads
    PROVE  SpecS3 => HistoryImplementedS3
<1>1. Init => HistS3!Init
  BY DEF Init, HistS3!Init, Restrict
<1>2. InvS3 /\ InvS3' /\ [NextS3]_vars
        => [HistS3!Next]_(Restrict(files, DOMAIN files \ Pending))
  BY StepHistoryS3 DEF Visible
<1> QED BY <1>1, <1>2, InductiveS3, PTL DEF SpecS3, HistoryImplementedS3, HistS3!Spec
==============================================================================
