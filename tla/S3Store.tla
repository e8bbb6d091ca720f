-------------------------------- MODULE S3Store --------------------------------
(***************************************************************************)
(* SaveNewConfig on Amazon S3 (src/store/s3.go), where the files of        *)
(* ConfigStore are objects.  A PUT stores an object whole or not at all,   *)
(* and closes and reopens nothing; there is no rename: s3fileRename copies *)
(* tmp, deletes it, and deletes the copy if that fails; any HEAD error     *)
(* means that the object does not exist.  A request may fail, or be        *)
(* carried out and its answer lost, which the caller takes for failure.    *)
(* The file steps that are the same on both are those of ConfigStore.      *)
(***************************************************************************)
EXTENDS ConfigStore

CONSTANTS AnswerLost,  \* may a request be carried out and its answer lost?
          HeadFails    \* where a HEAD may fail: "tmp", "shortcut", "new"

ASSUME S3Assumption == /\ AnswerLost \in BOOLEAN
                       /\ HeadFails \subseteq {"tmp", "shortcut", "new"}

\* s3fileput fails with this fault, and has stored the object or not.
Unanswered(old, new) == {old} \cup IF AnswerLost THEN {new} ELSE {}

------------------------------------------------------------------------------
(* Requests in the place of ConfigStore's file operations *)

\* A HEAD error hides a tmp object.
BeginS3(s, c) ==
    /\ save[s].pc = "idle" /\ Room
    /\ tmp = Absent \/ "tmp" \in HeadFails
    /\ save' = [save EXCEPT ![s] = [IdleSave EXCEPT !.pc = "put", !.arg = c]]
    /\ UNCHANGED <<files, tmp, last>>

\* Variant: the object is stored piece by piece.
PutInPieces(s) ==
    /\ save[s].pc = "put"
    /\ \/ tmp' = save[s].arg /\ Goto(s, "find")
       \/ tmp' = Short /\ UNCHANGED save
    /\ UNCHANGED <<files, last>>

\* writeFile: the configuration is put together in memory and stored in one request.
Put(s) ==
    /\ save[s].pc = "put"
    /\ \/ tmp' = save[s].arg /\ Goto(s, "find")
       \/ /\ Fault("write")
          /\ tmp' \in Unanswered(tmp, save[s].arg)
          /\ save' = [save EXCEPT ![s] = IdleSave]
    /\ UNCHANGED <<files, last>>

\* An error of the shortcut's GET or of the HEAD for its object leads to the list; an
\* error there counts as an empty one.
FindS3(s) ==
    /\ save[s].pc = "find"
    /\ \E p \in {FindLastConfig}
             \cup (IF "shortcut" \in HeadFails /\ DOMAIN files # {} THEN {Newest} ELSE {})
             \cup (IF Fault("list") THEN {NoId} ELSE {}) :
          save' = [save EXCEPT ![s] =
                     [@ EXCEPT !.prev = p,
                               !.pc = IF ChangesOnly /\ p # NoId
                                      THEN "compare" ELSE "check"]]
    /\ UNCHANGED <<files, tmp, last>>

\* Variant: the new id is not looked up.
CheckSkipped(s) ==
    /\ save[s].pc = "check"
    /\ Goto(s, "copy")
    /\ UNCHANGED <<files, tmp, last>>

\* A HEAD error hides an object under the new id.
CheckNewS3(s) ==
    /\ save[s].pc = "check"
    /\ \/ NewId(s) \in DOMAIN files /\ Return(s, FALSE)
       \/ (NewId(s) \notin DOMAIN files \/ "new" \in HeadFails) /\ Goto(s, "copy")
    /\ UNCHANGED <<files, tmp, last>>

Committed(s) == [i \in DOMAIN files \cup {NewId(s)} |->
                    IF i = NewId(s) THEN tmp ELSE files[i]]

\* CopyObject.
Copy(s) ==
    /\ save[s].pc = "copy" /\ NewId(s) <= MaxId
    /\ \/ tmp # Absent /\ files' = Committed(s) /\ Goto(s, "unlink")
       \/ /\ tmp = Absent \/ Fault("rename")
          /\ files' \in Unanswered(files, IF tmp = Absent THEN files ELSE Committed(s))
          /\ Return(s, FALSE)
    /\ UNCHANGED <<tmp, last>>

\* The second half of a rename.
DeleteTmp(s) ==
    /\ save[s].pc = "unlink"
    /\ \/ tmp' = Absent /\ Goto(s, "last")
       \/ Fault("remove") /\ tmp' \in Unanswered(tmp, Absent) /\ Goto(s, "undo")
    /\ UNCHANGED <<files, last>>

\* The copy goes; an error is ignored.
Undo(s) ==
    /\ save[s].pc = "undo"
    /\ \/ files' = Restrict(files, DOMAIN files \ {NewId(s)})
       \/ Fault("remove") /\ UNCHANGED files
    /\ Return(s, FALSE)
    /\ UNCHANGED <<tmp, last>>

\* writeFileBuf stores the shortcut in one request.
PutLast(s) ==
    /\ save[s].pc = "last"
    /\ \/ last' = NewId(s) /\ Goto(s, "erase")
       \/ Fault("last") /\ last' \in Unanswered(last, NewId(s)) /\ Goto(s, "drop")
    /\ UNCHANGED <<files, tmp>>

SaveStepS3(s) ==
    \/ Put(s) \/ FindS3(s)
    \/ CompareEqual(s) \/ CompareUnequal(s) \/ CheckNewS3(s)
    \/ Copy(s) \/ DeleteTmp(s) \/ Undo(s) \/ PutLast(s) \/ DropLast(s)
    \/ ListOld(s) \/ (\E i \in save[s].doomed : RemoveOld(s, i)) \/ RemoveDone(s)
    \/ Cleanup(s)

NextS3 == \/ \E s \in Saver : SaveStepS3(s) \/ \E c \in Content : BeginS3(s, c)
          \/ Crash

\* As in ConfigStore; the library gives a request up after some retries.
SpecS3 == /\ Init /\ [][NextS3]_vars
          /\ \A s \in Saver : WF_vars(SaveStepS3(s))

------------------------------------------------------------------------------
(* Properties *)

\* Every variable keeps its shape; no object is stored in part.
TypeOKS3 == /\ DOMAIN files \subseteq 0..MaxId
            /\ files \in [DOMAIN files -> Content]
            /\ tmp \in Content \cup {Absent}
            /\ last \in {NoId} \cup 0..MaxId
            /\ \A s \in Saver : save[s].pc \in SavePc \cup {"put", "copy", "unlink", "undo"}

\* The ids of renames that may still be undone.
Pending == {NewId(s) : s \in {t \in Saver : save[t].pc \in {"unlink", "undo"}}}

\* The objects, but for the copy of an unfinished rename, implement the history: also
\* when requests fail half way through a rename, answers are lost, or the program dies
\* between the copy and the deletion.
HistS3 == INSTANCE BackupHistory WITH hist <- Restrict(files, DOMAIN files \ Pending)
HistoryImplementedS3 == HistS3!Spec

\* A save comes to an end, whatever fails.
SaveEndsS3 == \A s \in Saver : save[s].pc # "idle" ~> save[s].pc = "idle"
==============================================================================
