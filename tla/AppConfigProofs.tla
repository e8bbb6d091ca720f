--------------------------- MODULE AppConfigProofs ---------------------------
(***************************************************************************)
(* Theorems about AppConfig, for every value of its constants: any number  *)
(* of programs, sessions, devices, settings and lock files, paths that     *)
(* differ or coincide or are on S3, programs that are refused half-way or  *)
(* killed at any moment, and saves that fail or overlap.                   *)
(***************************************************************************)
EXTENDS AppConfig, FiniteSetTheorems, WellFoundedInduction, TLAPS

------------------------------------------------------------------------------
(* Locks *)

\* The parts of a program's record that an update must find.
Shape == /\ DOMAIN proc = Proc /\ DOMAIN lock = LockFile
         /\ \A p \in Proc : {"pc", "locks"} \subseteq DOMAIN proc[p]

\* How many locks a program has taken goes with where it is: they are taken in
\* order, and a program past exclusiveLock has taken all three.
InOrder ==
    \A p \in Proc :
        /\ proc[p].locks \subseteq 1..3
        /\ proc[p].pc = "off" => proc[p].locks = {}
        /\ proc[p].pc = "lock" => proc[p].locks \in {{}, {1}, {1, 2}}
        /\ Running(p) => proc[p].locks = 1..3

\* A lock a program has taken is its own until it starts to give its locks back ...
Owned ==
    \A p \in Proc, i \in 1..3 :
        i \in proc[p].locks /\ proc[p].pc # "unlock" /\ LockPath[p][i] # OnS3
            => lock[LockPath[p][i]] = p

\* ... and it keeps no lock file it has forgotten.
Remembered ==
    \A f \in LockFile, p \in Proc :
        lock[f] = p => \E i \in proc[p].locks : LockPath[p][i] = f

LockInv == Shape /\ InOrder /\ Owned /\ Remembered

\* A step that takes no lock and gives none back; a program that is on may come to
\* its end.
Calm ==
    /\ lock' = lock
    /\ DOMAIN proc' = DOMAIN proc
    /\ \A p \in Proc :
         /\ DOMAIN proc'[p] = DOMAIN proc[p]
         /\ proc'[p].locks = proc[p].locks
         /\ \/ proc'[p].pc = proc[p].pc
            \/ Running(p) /\ Running(p)'
            \/ proc[p].pc # "off" /\ proc'[p].pc = "unlock"

------------------------------------------------------------------------------
\* The number of locks taken tells whose turn it is.
LEMMA TurnIs ==
    ASSUME NEW p \in Proc, proc[p].locks \in {{}, {1}, {1, 2}}
    PROVE  \/ proc[p].locks = {} /\ Turn(p) = 1
           \/ proc[p].locks = {1} /\ Turn(p) = 2
           \/ proc[p].locks = {1, 2} /\ Turn(p) = 3
<1>1. CASE proc[p].locks = {}
  <2>1. Cardinality({}) = 0
    BY FS_EmptySet, Zenon
  <2>2. Turn(p) = 0 + 1
    BY <1>1, <2>1, Zenon DEF Turn
  <2> QED BY <1>1, <2>2
<1>2. CASE proc[p].locks = {1}
  <2>1. Cardinality({1}) = 1
    BY FS_Singleton
  <2> QED BY <1>2, <2>1 DEF Turn
<1>3. CASE proc[p].locks = {1, 2}
  <2>1. IsFiniteSet({1}) /\ Cardinality({1}) = 1
    BY FS_Singleton
  <2>2. {1, 2} = {1} \cup {2} /\ 2 \notin {1}
    OBVIOUS
  <2>3. Cardinality({1} \cup {2}) = Cardinality({1}) + 1
    BY <2>1, <2>2, FS_AddElement
  <2> QED BY <1>3, <2>1, <2>2, <2>3 DEF Turn
<1> QED BY <1>1, <1>2, <1>3

\* At the start no program is on and no lock file exists.
LEMMA InitLocks == ASSUME Init PROVE LockInv
BY LockAssumption
   DEF Init, LockInv, Shape, InOrder, Owned, Remembered, Off, Running

LEMMA CalmKeeps == ASSUME LockInv, Calm PROVE LockInv'
<1> USE DEF LockInv
<1>1. Shape' BY DEF Calm, Shape
<1>2. InOrder' BY DEF Calm, InOrder, Running
<1>3. Owned' BY DEF Calm, Owned, InOrder, Running
<1>4. Remembered' BY DEF Calm, Remembered
<1> QED BY <1>1, <1>2, <1>3, <1>4

LEMMA TakenKeeps ==
    ASSUME LockInv, NEW p \in Proc, LockTaken(p)
    PROVE  LockInv'
<1> DEFINE n == Turn(p)
           path == LockPath[p][n]
<1>1. /\ proc[p].pc = "lock" /\ proc[p].locks \in {{}, {1}, {1, 2}}
      /\ n \in 1..3 /\ n \notin proc[p].locks
      /\ n = 3 <=> proc[p].locks \cup {n} = 1..3
      /\ n # 3 => proc[p].locks \cup {n} \in {{1}, {1, 2}}
  BY TurnIs, SMTT(30) DEF LockInv, InOrder, LockTaken
<1>2. /\ DOMAIN proc' = Proc
      /\ \A q \in Proc : DOMAIN proc'[q] = DOMAIN proc[q]
      /\ \A q \in Proc \ {p} : proc'[q] = proc[q]
      /\ proc'[p].locks = proc[p].locks \cup {n}
      /\ proc'[p].pc = IF n = 3 THEN "load" ELSE "lock"
  BY DEF LockInv, Shape, LockTaken
<1>3. \/ path = OnS3 /\ lock' = lock
      \/ path \in LockFile /\ lock[path] \notin Proc
         /\ lock' = [lock EXCEPT ![path] = p]
  BY <1>1, LockAssumption DEF LockTaken
<1>4. Shape'
  BY <1>2, <1>3 DEF LockInv, Shape
<1>5. InOrder'
  BY <1>1, <1>2 DEF LockInv, InOrder, Running
<1>6. \A f \in LockFile : lock'[f] = lock[f] \/ (f = path /\ lock'[f] = p
                                                 /\ lock[f] \notin Proc)
  BY <1>3 DEF LockInv, Shape
<1>7. path # OnS3 => lock'[path] = p
  BY <1>3 DEF LockInv, Shape
<1>8. Owned'
  <2> SUFFICES ASSUME NEW q \in Proc, NEW i \in 1..3,
                      i \in proc'[q].locks, proc'[q].pc # "unlock",
                      LockPath[q][i] # OnS3
               PROVE  lock'[LockPath[q][i]] = q
    BY DEF Owned
  <2>1. LockPath[q][i] \in LockFile
    BY LockAssumption
  <2>2. CASE q = p /\ i = n
    BY <2>2, <1>7
  <2>3. CASE ~ (q = p /\ i = n)
    <3>1. i \in proc[q].locks /\ proc[q].pc # "unlock"
      BY <2>3, <1>1, <1>2
    <3>2. lock[LockPath[q][i]] = q
      BY <3>1 DEF LockInv, Owned
    <3> QED BY <3>2, <2>1, <1>6
  <2> QED BY <2>2, <2>3
<1>9. Remembered'
  <2> SUFFICES ASSUME NEW f \in LockFile, NEW q \in Proc, lock'[f] = q
               PROVE  \E i \in proc'[q].locks : LockPath[q][i] = f
    BY DEF Remembered
  <2>1. CASE lock[f] = q
    <3>1. PICK i \in proc[q].locks : LockPath[q][i] = f
      BY <2>1 DEF LockInv, Remembered
    <3> QED BY <3>1, <1>2
  <2>2. CASE f = path /\ q = p
    BY <2>2, <1>2
  <2> QED BY <2>1, <2>2, <1>6
<1> QED BY <1>4, <1>5, <1>8, <1>9 DEF LockInv

\* A program gives back one of its locks, or is gone.
LEMMA UnlockKeeps ==
    ASSUME LockInv, NEW p \in Proc, Unlock(p)
    PROVE  LockInv'
<1>1. CASE proc[p].locks = {}
  <2>1. /\ lock' = lock /\ DOMAIN proc' = Proc
        /\ \A q \in Proc \ {p} : proc'[q] = proc[q]
        /\ proc'[p] = Off
    BY <1>1 DEF LockInv, Shape, Unlock
  <2>2. Shape'
    BY <2>1 DEF LockInv, Shape, Off
  <2>3. InOrder'
    BY <2>1 DEF LockInv, InOrder, Running, Off
  <2>4. Owned'
    BY <2>1 DEF LockInv, Owned, Off
  <2>5. Remembered'
    BY <1>1, <2>1 DEF LockInv, Remembered
  <2> QED BY <2>2, <2>3, <2>4, <2>5 DEF LockInv
<1>2. CASE proc[p].locks # {}
  <2> DEFINE i == Min(proc[p].locks)
  <2>1. /\ DOMAIN proc' = Proc /\ DOMAIN lock' = LockFile
        /\ \A q \in Proc : DOMAIN proc'[q] = DOMAIN proc[q]
        /\ \A q \in Proc \ {p} : proc'[q] = proc[q]
        /\ proc'[p].locks = proc[p].locks \ {i}
        /\ proc[p].pc = "unlock" /\ proc'[p].pc = "unlock"
    BY <1>2 DEF LockInv, Shape, Unlock
  <2>2. \A f \in LockFile :
            \/ lock'[f] = lock[f] /\ ~ (f = LockPath[p][i] /\ lock[f] = p)
            \/ f = LockPath[p][i] /\ lock[f] = p /\ lock'[f] = Free
    BY <1>2 DEF Unlock
  <2>3. Shape'
    BY <2>1 DEF LockInv, Shape
  <2>4. InOrder'
    BY <2>1 DEF LockInv, InOrder, Running
  <2>5. Owned'
    <3> SUFFICES ASSUME NEW q \in Proc, NEW k \in 1..3,
                        k \in proc'[q].locks, proc'[q].pc # "unlock",
                        LockPath[q][k] # OnS3
                 PROVE  lock'[LockPath[q][k]] = q
      BY DEF Owned
    <3>1. q # p /\ LockPath[q][k] \in LockFile
      BY <2>1, LockAssumption
    <3>2. lock[LockPath[q][k]] = q
      BY <2>1, <3>1 DEF LockInv, Owned
    <3> QED BY <2>2, <3>1, <3>2
  <2>6. Remembered'
    <3> SUFFICES ASSUME NEW f \in LockFile, NEW q \in Proc, lock'[f] = q
                 PROVE  \E k \in proc'[q].locks : LockPath[q][k] = f
      BY DEF Remembered
    <3>1. lock[f] = q /\ ~ (f = LockPath[p][i] /\ lock[f] = p)
      BY <2>2, LockAssumption
    <3>2. PICK k \in proc[q].locks : LockPath[q][k] = f
      BY <3>1 DEF LockInv, Remembered
    <3> QED BY <2>1, <3>1, <3>2
  <2> QED BY <2>3, <2>4, <2>5, <2>6 DEF LockInv
<1> QED BY <1>1, <1>2

\* A killed program leaves its lock files, which nobody owns then.
LEMMA KillKeeps ==
    ASSUME LockInv, NEW p \in Proc, Kill(p)
    PROVE  LockInv'
<1>1. /\ DOMAIN proc' = Proc /\ DOMAIN lock' = LockFile
      /\ \A q \in Proc \ {p} : proc'[q] = proc[q]
      /\ proc'[p] = Off
      /\ \A f \in LockFile : lock'[f] = IF lock[f] = p THEN Stale ELSE lock[f]
  BY DEF LockInv, Shape, Kill
<1>2. Shape'
  BY <1>1 DEF LockInv, Shape, Off
<1>3. InOrder'
  BY <1>1 DEF LockInv, InOrder, Running, Off
<1>4. Owned'
  <2> SUFFICES ASSUME NEW q \in Proc, NEW k \in 1..3,
                      k \in proc'[q].locks, proc'[q].pc # "unlock",
                      LockPath[q][k] # OnS3
               PROVE  lock'[LockPath[q][k]] = q
    BY DEF Owned
  <2>1. q # p /\ LockPath[q][k] \in LockFile
    BY <1>1, LockAssumption DEF Off
  <2>2. lock[LockPath[q][k]] = q
    BY <1>1, <2>1 DEF LockInv, Owned
  <2> QED BY <1>1, <2>1, <2>2
<1>5. Remembered'
  <2> SUFFICES ASSUME NEW f \in LockFile, NEW q \in Proc, lock'[f] = q
               PROVE  \E k \in proc'[q].locks : LockPath[q][k] = f
    BY DEF Remembered
  <2>1. lock[f] = q /\ q # p
    BY <1>1, LockAssumption
  <2> QED BY <1>1, <2>1 DEF LockInv, Remembered
<1> QED BY <1>2, <1>3, <1>4, <1>5 DEF LockInv

\* A program that is started has no lock yet.
LEMMA StartKeeps ==
    ASSUME LockInv, NEW p \in Proc, Start(p)
    PROVE  LockInv'
<1>1. /\ DOMAIN proc' = Proc /\ lock' = lock
      /\ \A q \in Proc \ {p} : proc'[q] = proc[q]
      /\ proc[p].locks = {} /\ proc'[p].locks = {} /\ proc'[p].pc = "lock"
      /\ {"pc", "locks"} \subseteq DOMAIN proc'[p]
  BY DEF LockInv, Shape, InOrder, Start, Off
<1>2. Shape'
  BY <1>1 DEF LockInv, Shape
<1>3. InOrder'
  BY <1>1 DEF LockInv, InOrder, Running
<1>4. Owned'
  BY <1>1 DEF LockInv, Owned
<1>5. Remembered'
  BY <1>1 DEF LockInv, Remembered
<1> QED BY <1>2, <1>3, <1>4, <1>5 DEF LockInv

\* What a running program and its sessions do does not touch the locks.
LEMMA ProgramCalm ==
    ASSUME LockInv, NEW p \in Proc,
           \/ LockRefused(p) \/ Load(p) \/ LoadFails(p) \/ Manage(p)
           \/ \E d \in 1..MaxId : DeleteLine(p, d) \/ PurgeLine(p, d)
                                  \/ ImportLine(p, d)
           \/ ImportAuto(p) \/ ListRefused(p) \/ ListEnd(p) \/ ListDone(p)
    PROVE  Calm
<1> USE DEF LockInv, Shape, Calm, Running
<1>1. CASE LockRefused(p)
  BY <1>1 DEF LockRefused
<1>2. CASE Load(p)
  <2> DEFINE Kept(cfg, gone) == Restrict(cfg.table, DOMAIN cfg.table \ gone)
  <2>1. PICK cfg, gone :
          proc' = [proc EXCEPT ![p] =
                     [@ EXCEPT !.pc = "manage", !.table = Kept(cfg, gone),
                               !.opt = cfg.opt,
                               !.gone = DOMAIN disk.table \ DOMAIN Kept(cfg, gone),
                               !.asked = cfg.opt]]
    BY <1>2, Zenon DEF Load
  <2> HIDE DEF Kept
  <2>2. /\ DOMAIN proc' = Proc /\ lock' = lock
        /\ \A q \in Proc \ {p} : proc'[q] = proc[q]
    BY <1>2, <2>1 DEF Load
  <2>3. /\ DOMAIN proc'[p] = DOMAIN proc[p]
        /\ proc'[p].locks = proc[p].locks
        /\ proc[p].pc = "load" /\ proc'[p].pc = "manage"
    BY <1>2, <2>1 DEF Load
  <2> QED BY <2>2, <2>3
<1>3. CASE LoadFails(p)
  BY <1>3 DEF LoadFails
<1>4. CASE Manage(p)
  BY <1>4 DEF Manage
<1>5. CASE \E d \in 1..MaxId : DeleteLine(p, d)
  BY <1>5 DEF DeleteLine
<1>6. CASE \E d \in 1..MaxId : PurgeLine(p, d)
  <2>1. PICK table, gone :
          proc' = [proc EXCEPT ![p].table = table, ![p].gone = gone]
    BY <1>6, Zenon DEF PurgeLine
  <2>2. /\ DOMAIN proc' = Proc /\ lock' = lock
        /\ \A q \in Proc \ {p} : proc'[q] = proc[q]
    BY <1>6, <2>1 DEF PurgeLine
  <2>3. /\ DOMAIN proc'[p] = DOMAIN proc[p]
        /\ proc'[p].locks = proc[p].locks
        /\ proc'[p].pc = proc[p].pc
    BY <1>6, <2>1 DEF PurgeLine
  <2> QED BY <2>2, <2>3
<1>7. CASE \E d \in 1..MaxId : ImportLine(p, d)
  <2>1. PICK table, named :
          proc' = [proc EXCEPT ![p].table = table, ![p].named = named]
    BY <1>7, Zenon DEF ImportLine
  <2>2. /\ DOMAIN proc' = Proc /\ lock' = lock
        /\ \A q \in Proc \ {p} : proc'[q] = proc[q]
    BY <1>7, <2>1 DEF ImportLine
  <2>3. /\ DOMAIN proc'[p] = DOMAIN proc[p]
        /\ proc'[p].locks = proc[p].locks
        /\ proc'[p].pc = proc[p].pc
    BY <1>7, <2>1 DEF ImportLine
  <2> QED BY <2>2, <2>3
<1>8. CASE ImportAuto(p)
  <2>1. PICK table, value :
          proc' = [proc EXCEPT ![p].table = table, ![p].value = value]
    BY <1>8, Zenon DEF ImportAuto
  <2>2. /\ DOMAIN proc' = Proc /\ lock' = lock
        /\ \A q \in Proc \ {p} : proc'[q] = proc[q]
    BY <1>8, <2>1 DEF ImportAuto
  <2>3. /\ DOMAIN proc'[p] = DOMAIN proc[p]
        /\ proc'[p].locks = proc[p].locks
        /\ proc'[p].pc = proc[p].pc
    BY <1>8, <2>1 DEF ImportAuto
  <2> QED BY <2>2, <2>3
<1>9. CASE ListRefused(p)
  BY <1>9 DEF ListRefused
<1>10. CASE ListEnd(p)
  BY <1>10 DEF ListEnd
<1>11. CASE ListDone(p)
  BY <1>11 DEF ListDone
<1> QED BY <1>1, <1>2, <1>3, <1>4, <1>5, <1>6, <1>7, <1>8, <1>9, <1>10, <1>11

LEMMA SessionCalm ==
    ASSUME LockInv, NEW s \in Session, SessionStep(s)
    PROVE  Calm
<1> USE DEF LockInv, Shape, Calm
<1>1. CASE \E p \in Proc, d \in 1..MaxId, v \in {"edited", "deleted"} :
              Edit(s, p, d, v)
  BY <1>1 DEF Edit
<1>2. CASE \E p \in Proc, o \in Setting : SaveSettings(s, p, o)
  BY <1>2 DEF SaveSettings
<1>3. CASE \E p \in Proc : CreateId(s, p)
  BY <1>3 DEF CreateId
<1>4. CASE Create(s)
  BY <1>4 DEF Create
<1> QED BY <1>1, <1>2, <1>3, <1>4 DEF SessionStep

LEMMA SaveCalm ==
    ASSUME LockInv, NEW a \in Actor, SaveStep(a)
    PROVE  Calm
<1> USE DEF LockInv, Shape, Calm
<1>1. CASE SetOptions(a)
  BY <1>1, SMTT(30) DEF SetOptions
<1>2. CASE ~ SetOptions(a)
  BY <1>2 DEF SaveStep, List, GetOptions, SaveBegin, SaveCommit, SaveFails
<1> QED BY <1>1, <1>2

------------------------------------------------------------------------------
\* The locks are kept in order by every step of every program.
THEOREM LocksInOrder == Spec => []LockInv
<1>1. Init => LockInv
  BY InitLocks
<1>2. LockInv /\ [Next]_vars => LockInv'
  <2> SUFFICES ASSUME LockInv, [Next]_vars PROVE LockInv'
    OBVIOUS
  <2>1. ASSUME NEW p \in Proc, ProcStep(p) PROVE LockInv'
    BY <2>1, TakenKeeps, UnlockKeeps, KillKeeps, StartKeeps, ProgramCalm,
       CalmKeeps DEF ProcStep
  <2>2. ASSUME NEW s \in Session, SessionStep(s) PROVE LockInv'
    BY <2>2, SessionCalm, CalmKeeps
  <2>3. ASSUME NEW a \in Actor, SaveStep(a) PROVE LockInv'
    BY <2>3, SaveCalm, CalmKeeps
  <2>4. CASE UNCHANGED vars
    <3>1. Calm
      BY <2>4 DEF vars, Calm
    <3> QED BY <3>1, CalmKeeps
  <2> QED BY <2>1, <2>2, <2>3, <2>4 DEF Next
<1> QED BY <1>1, <1>2, PTL DEF Spec

\* Two programs that run both own the file they share.
LEMMA OneRuns == LockInv => Exclusive
<1> SUFFICES ASSUME LockInv, NEW p \in Proc, NEW q \in Proc, Running(p), Running(q)
             PROVE  p = q
  BY DEF Exclusive
<1>1. PICK i \in 1..3, f \in LockFile : \A r \in Proc : LockPath[r][i] = f
  BY SharedAssumption
<1>2. f # OnS3
  BY LockAssumption
<1>3. /\ i \in proc[p].locks /\ proc[p].pc # "unlock"
      /\ i \in proc[q].locks /\ proc[q].pc # "unlock"
  BY DEF LockInv, InOrder, Running
<1>4. lock[LockPath[p][i]] = p /\ lock[LockPath[q][i]] = q
  BY <1>1, <1>2, <1>3 DEF LockInv, Owned
<1> QED BY <1>1, <1>4

\* No two programs are past exclusiveLock at a time if all name one lock file,
\* whatever their other paths are, on S3 or not (main.go:470-534).
THEOREM MutualExclusion == Spec => []Exclusive
BY OneRuns, LocksInOrder, PTL

\* A program that is gone, refused or killed leaves no lock that refuses another.
THEOREM NoLockLeft == Spec => []LocksReturned
<1>1. LockInv => LocksReturned
  BY DEF LockInv, LocksReturned, Remembered, InOrder
<1> QED BY <1>1, LocksInOrder, PTL

------------------------------------------------------------------------------
(* Free numbers *)

Tables == UNION {[S -> Device] : S \in SUBSET (1..MaxId)}

LEMMA TableIs ==
    ASSUME NEW t
    PROVE  t \in Tables <=> IsTable(t)
<1>1. ASSUME t \in Tables PROVE IsTable(t)
  BY <1>1 DEF Tables, IsTable
<1>2. ASSUME IsTable(t) PROVE t \in Tables
  BY <1>2 DEF Tables, IsTable
<1> QED BY <1>1, <1>2

LEMMA EmptyTable == NoTable \in Tables
BY DEF Tables, NoTable

\* A nonempty set of numbers up to n has a greatest.
LEMMA Greatest ==
    ASSUME NEW n \in Nat, NEW S \in SUBSET (0..n), S # {}
    PROVE  \E i \in S : \A k \in S : i >= k
<1> DEFINE T == {m \in Nat : \A k \in S : k <= m}
<1>1. PICK m \in T : \A x \in T : ~ (<<x, m>> \in OpToRel(<, Nat))
  <2>1. T \subseteq Nat /\ n \in T
    OBVIOUS
  <2> QED BY <2>1, NatLessThanWellFounded, WFMin
<1>2. \A x \in T : m <= x
  <2> SUFFICES ASSUME NEW x \in T, ~ (m <= x) PROVE FALSE
    OBVIOUS
  <2>1. <<x, m>> \in Nat \X Nat /\ <<x, m>>[1] < <<x, m>>[2]
    OBVIOUS
  <2>2. <<x, m>> \in OpToRel(<, Nat)
    BY ONLY <2>1 DEF OpToRel
  <2> QED BY <1>1, <2>2
<1>3. m \in S
  <2> SUFFICES ASSUME m \notin S PROVE FALSE
    OBVIOUS
  <2>1. PICK k \in S : TRUE
    OBVIOUS
  <2>2. m > 0 /\ m - 1 \in T
    BY <2>1
  <2> QED BY <1>2, <2>2
<1> QED BY <1>3

\* The number FindDeviceFreeID returns is above all in use.
LEMMA FreeIsAbove ==
    ASSUME NEW t \in Tables
    PROVE  /\ FindDeviceFreeID(t) \in Nat /\ FindDeviceFreeID(t) >= 1
           /\ \A d \in DOMAIN t : d < FindDeviceFreeID(t)
<1> DEFINE S == DOMAIN t \cup {0}
           m == Max(S)
<1>1. S \in SUBSET (0..MaxId) /\ 0 \in S
  BY TableIs, ValueAssumption DEF IsTable
<1>2. \E i \in S : \A k \in S : i >= k
  BY <1>1, Greatest, ValueAssumption
<1>3. m \in S /\ \A k \in S : m >= k
  BY ONLY <1>2 DEF Max
<1>4. m \in Nat /\ S \subseteq Nat
  BY <1>1, <1>3, ValueAssumption
<1>5. FindDeviceFreeID(t) = m + 1
  BY DEF FindDeviceFreeID
<1> HIDE DEF m
<1> QED BY <1>3, <1>4, <1>5

------------------------------------------------------------------------------
(* Types *)

\* What the operations make of a table is a table.
LEMMA RestrictTable ==
    ASSUME NEW t \in Tables, NEW S \in SUBSET DOMAIN t
    PROVE  Restrict(t, S) \in Tables /\ DOMAIN Restrict(t, S) = S
<1>1. IsTable(t)
  BY TableIs
<1>2. IsTable(Restrict(t, S)) /\ DOMAIN Restrict(t, S) = S
  BY <1>1 DEF IsTable, Restrict
<1> QED BY <1>2, TableIs

LEMMA CreateTable ==
    ASSUME NEW t \in Tables, NEW d \in 1..MaxId
    PROVE  CreateDevice(t, d) \in Tables /\ DOMAIN CreateDevice(t, d) = DOMAIN t \cup {d}
<1>1. IsTable(t)
  BY TableIs
<1>2. /\ IsTable(CreateDevice(t, d))
      /\ DOMAIN CreateDevice(t, d) = DOMAIN t \cup {d}
  BY <1>1 DEF IsTable, CreateDevice, Device
<1> QED BY <1>2, TableIs

LEMMA ChangeTable ==
    ASSUME NEW t \in Tables, NEW d, NEW v \in Device
    PROVE  [t EXCEPT ![d] = v] \in Tables /\ DOMAIN [t EXCEPT ![d] = v] = DOMAIN t
<1>1. IsTable(t)
  BY TableIs
<1>2. IsTable([t EXCEPT ![d] = v]) /\ DOMAIN [t EXCEPT ![d] = v] = DOMAIN t
  BY <1>1 DEF IsTable
<1> QED BY <1>2, TableIs

ProcRecord == [pc: ProcPc, locks: SUBSET (1..3), table: Tables, opt: Setting,
               value: Nat, named: SUBSET (1..MaxId), gone: SUBSET (1..MaxId),
               asked: Setting, raced: BOOLEAN]
ActorRecord == [pc: ActorPc, p: Proc \cup {"none"}, table: Tables, opt: Setting,
                id: 0..MaxId, alone: BOOLEAN]

\* An import counts from one, and so does a form that creates a device.
Counts == /\ \A p \in Proc : proc[p].pc = "import" => proc[p].value >= 1
          /\ \A a \in Actor : actor[a].pc = "create" => actor[a].id \in 1..MaxId

\* Sessions are at work in a program that serves, and a program saves its own list.
AtWork ==
    \A a \in Actor : actor[a].pc # "idle" =>
        /\ actor[a].p \in Proc
        /\ IF a \in Session THEN proc[actor[a].p].pc = "serve"
           ELSE a = actor[a].p /\ proc[a].pc = "saving"

Types == /\ lock \in [LockFile -> Proc \cup {Free, Stale}]
         /\ proc \in [Proc -> ProcRecord]
         /\ actor \in [Actor -> ActorRecord]
         /\ disk \in [table: Tables, opt: Setting]
         /\ tmp \in Actor \cup {"none", "left"}
         /\ lost \in BOOLEAN
TypeInv == Types /\ Counts /\ AtWork

LEMMA Blanks == Off \in ProcRecord /\ Rest \in ActorRecord
BY EmptyTable, ValueAssumption
   DEF Off, Rest, ProcRecord, ActorRecord, ProcPc, ActorPc

LEMMA InitType == Init => TypeInv
<1> SUFFICES ASSUME Init PROVE TypeInv
  OBVIOUS
<1>1. disk \in [table: Tables, opt: Setting]
  <2>1. disk.table \in UNION {[S -> {"new"}] : S \in SUBSET (1..MaxId)}
    BY DEF Init
  <2>2. IsTable(disk.table)
    BY <2>1 DEF IsTable, Device
  <2> QED BY <2>2, TableIs, ValueAssumption DEF Init
<1>2. Types
  BY <1>1, Blanks DEF Init, Types
<1>3. Counts /\ AtWork
  BY DEF Init, Counts, AtWork, Off, Rest, Actor
<1> QED BY <1>2, <1>3 DEF TypeInv

\* A program's record changes; its sessions and what they save do not.
OnlyProgram(p) == /\ proc' \in [Proc -> ProcRecord]
                  /\ \A q \in Proc \ {p} : proc'[q] = proc[q]
                  /\ lock' \in [LockFile -> Proc \cup {Free, Stale}]
                  /\ UNCHANGED <<actor, disk, tmp>>

\* The four kinds of such steps: a program comes or goes ...
Turns(p) == /\ proc[p].pc \notin {"manage", "serve", "saving"}
            /\ proc'[p].pc \in {"off", "lock", "load", "unlock"}
            /\ lost' = lost
\* ... loads its configuration ...
Loads(p) == /\ proc[p].pc = "load" /\ proc'[p].pc = "manage"
            /\ proc'[p].gone = DOMAIN disk.table \ DOMAIN proc'[p].table
            /\ lost' = (proc'[p].table # disk.table \/ proc'[p].opt # disk.opt)
\* ... chooses what to do with it ...
Chooses(p) == /\ proc[p].pc = "manage"
              /\ proc'[p].pc \in {"serve", "delete", "purge", "import", "unlock"}
              /\ proc'[p].table = proc[p].table /\ proc'[p].opt = proc[p].opt
              /\ proc'[p].gone = proc[p].gone
              /\ proc'[p].pc = "import" =>
                   /\ proc'[p].value >= 1
                   /\ \A d \in DOMAIN proc[p].table : d < proc'[p].value
              /\ lost' = lost
\* ... or goes through a list: whatever leaves the table is noted in gone, and what an
\* import adds is named by its line or below the next free number.
Lists(p) == /\ proc[p].pc \in {"delete", "purge", "import"}
            /\ proc'[p].pc = proc[p].pc
            /\ proc[p].gone \subseteq proc'[p].gone
            /\ DOMAIN proc[p].table \subseteq DOMAIN proc'[p].table \cup proc'[p].gone
            /\ proc[p].named \subseteq proc'[p].named
            /\ proc[p].value <= proc'[p].value
            /\ \A d \in DOMAIN proc'[p].table :
                 d \in DOMAIN proc[p].table \cup proc'[p].named \/ d < proc'[p].value
            /\ lost' = lost

LEMMA ComesOrGoes ==
    ASSUME TypeInv, LockInv, NEW p \in Proc,
           \/ Start(p) \/ LockTaken(p) \/ LockRefused(p) \/ Unlock(p) \/ LoadFails(p)
           \/ ListRefused(p)
    PROVE  OnlyProgram(p) /\ Turns(p)
<1> USE DEF TypeInv, Types, OnlyProgram, Turns
<1>1. CASE Start(p)
  BY <1>1, Blanks DEF Start, ProcRecord, ProcPc, Off
<1>2. CASE LockTaken(p)
  <2>1. Turn(p) \in 1..3
    BY <1>2, TurnIs DEF LockTaken, LockInv, InOrder
  <2> DEFINE locks == proc[p].locks \cup {Turn(p)}
             pc == IF Turn(p) = 3 THEN "load" ELSE "lock"
             r == [proc[p] EXCEPT !.locks = locks, !.pc = pc]
  <2>2. locks \in SUBSET (1..3) /\ pc \in {"load", "lock"}
    BY <2>1 DEF ProcRecord
  <2>3. proc' = [proc EXCEPT ![p].locks = locks, ![p].pc = pc]
    BY <1>2 DEF LockTaken
  <2> HIDE DEF locks, pc
  <2>4. proc' = [proc EXCEPT ![p] = r]
    BY <2>3
  <2>5. r \in ProcRecord /\ r.pc = pc
    BY <2>2, ZenonT(30) DEF ProcRecord, ProcPc
  <2> HIDE DEF r
  <2>6. /\ proc[p].pc = "lock" /\ UNCHANGED <<actor, disk, tmp, lost>>
        /\ lock' \in [LockFile -> Proc \cup {Free, Stale}]
    BY <1>2 DEF LockTaken
  <2> QED BY <2>2, <2>4, <2>5, <2>6
<1>3. CASE LockRefused(p) \/ LoadFails(p) \/ ListRefused(p)
  BY <1>3 DEF LockRefused, LoadFails, ListRefused, ProcRecord, ProcPc
<1>4. CASE Unlock(p)
  <2>1. proc[p].pc = "unlock" /\ UNCHANGED <<actor, disk, tmp, lost>>
    BY <1>4 DEF Unlock
  <2>2. CASE proc[p].locks = {}
    <3>1. proc' = [proc EXCEPT ![p] = Off] /\ lock' = lock
      BY <1>4, <2>2 DEF Unlock
    <3>2. /\ proc' \in [Proc -> ProcRecord] /\ proc'[p].pc = "off"
          /\ \A q \in Proc \ {p} : proc'[q] = proc[q]
      BY <3>1, Blanks DEF Off
    <3> QED BY <2>1, <3>1, <3>2
  <2>3. CASE proc[p].locks # {}
    <3>1. lock' \in [LockFile -> Proc \cup {Free, Stale}]
      BY <1>4, <2>3 DEF Unlock
    <3>2. /\ proc' \in [Proc -> ProcRecord] /\ proc'[p].pc = "unlock"
          /\ \A q \in Proc \ {p} : proc'[q] = proc[q]
      BY <1>4, <2>3 DEF Unlock, ProcRecord
    <3> QED BY <2>1, <3>1, <3>2
  <2> QED BY <2>2, <2>3
<1> QED BY <1>1, <1>2, <1>3, <1>4

LEMMA LoadIs ==
    ASSUME TypeInv, NEW p \in Proc, Load(p)
    PROVE  /\ OnlyProgram(p) /\ Loads(p)
           /\ proc'[p].opt = proc'[p].asked
<1> USE DEF TypeInv, Types
<1>1. PICK cfg \in {disk} \cup IF Fault("find") THEN {New} ELSE {},
           gone \in IF Fault("model") THEN SUBSET DOMAIN disk.table ELSE {{}} :
        LET table == Restrict(cfg.table, DOMAIN cfg.table \ gone) IN
        /\ proc' = [proc EXCEPT ![p] =
                      [@ EXCEPT !.pc = "manage", !.table = table, !.opt = cfg.opt,
                                !.gone = DOMAIN disk.table \ DOMAIN table,
                                !.asked = cfg.opt]]
        /\ lost' = (table # disk.table \/ cfg.opt # disk.opt)
  BY DEF Load
<1> DEFINE table == Restrict(cfg.table, DOMAIN cfg.table \ gone)
           lack == DOMAIN disk.table \ DOMAIN table
           opt == cfg.opt
           r == [proc[p] EXCEPT !.pc = "manage", !.table = table, !.opt = opt,
                                !.gone = lack, !.asked = opt]
<1>2. cfg.table \in Tables /\ opt \in Setting
  BY EmptyTable, ValueAssumption DEF New
<1>3. table \in Tables
  BY <1>2, RestrictTable
<1>4. lack \in SUBSET (1..MaxId)
  BY TableIs DEF IsTable
<1>5. proc' = [proc EXCEPT ![p] = r] /\ lost' = (table # disk.table \/ opt # disk.opt)
  BY <1>1
<1> HIDE DEF table, opt
<1>6. /\ r \in ProcRecord /\ r.pc = "manage" /\ r.table = table /\ r.opt = opt
      /\ r.gone = DOMAIN disk.table \ DOMAIN table /\ r.asked = opt
  <2> HIDE DEF lack
  <2>1. proc[p] \in ProcRecord
    OBVIOUS
  <2>2. r \in ProcRecord /\ r.pc = "manage" /\ r.table = table /\ r.opt = opt /\ r.gone = lack
         /\ r.asked = opt
    BY <1>2, <1>3, <1>4, <2>1 DEF ProcRecord, ProcPc
  <2> QED BY <2>2 DEF lack
<1> HIDE DEF r
<1>7. proc[p].pc = "load" /\ UNCHANGED <<lock, actor, disk, tmp>>
  BY DEF Load
<1> QED BY <1>5, <1>6, <1>7 DEF OnlyProgram, Loads

LEMMA ManageIs ==
    ASSUME TypeInv, NEW p \in Proc, Manage(p)
    PROVE  OnlyProgram(p) /\ Chooses(p)
<1> USE DEF TypeInv, Types
<1> DEFINE free == FindDeviceFreeID(proc[p].table)
<1>0. proc[p] \in ProcRecord /\ proc[p].table \in Tables
  BY DEF ProcRecord
<1>1. free \in Nat /\ free >= 1 /\ \A d \in DOMAIN proc[p].table : d < free
  BY <1>0, FreeIsAbove
<1>2. PICK mode \in {"serve", "delete", "purge", "import", "unlock"} :
        proc' = [proc EXCEPT ![p].pc = mode,
                             ![p].value = IF mode = "import" THEN free ELSE 0]
  BY DEF Manage
<1> HIDE DEF free
<1> DEFINE value == IF mode = "import" THEN free ELSE 0
           r == [proc[p] EXCEPT !.pc = mode, !.value = value]
<1>3. value \in Nat /\ (mode = "import" => value = free)
  BY <1>1
<1>4. proc' = [proc EXCEPT ![p].pc = mode, ![p].value = value]
  BY <1>2
<1> HIDE DEF value
<1>5. proc' = [proc EXCEPT ![p] = r]
  BY <1>4
<1>6. /\ r \in ProcRecord /\ r.pc = mode /\ r.value = value
      /\ r.table = proc[p].table /\ r.opt = proc[p].opt /\ r.gone = proc[p].gone
  BY <1>0, <1>3 DEF ProcRecord, ProcPc
<1> HIDE DEF r
<1>7. proc[p].pc = "manage" /\ UNCHANGED <<lock, actor, disk, tmp, lost>>
  BY DEF Manage
<1> QED BY <1>1, <1>3, <1>5, <1>6, <1>7 DEF OnlyProgram, Chooses

\* What a line leaves of a program's record: table, value, named and gone.
Line(p, t, v, n, g) ==
    [proc[p] EXCEPT !.table = t, !.value = v, !.named = n, !.gone = g]

LEMMA LineIs ==
    ASSUME TypeInv, NEW p \in Proc, proc[p].pc \in {"delete", "purge", "import"},
           UNCHANGED <<lock, actor, disk, tmp, lost>>,
           NEW t \in Tables, NEW v \in Nat, NEW n \in SUBSET (1..MaxId),
           NEW g \in SUBSET (1..MaxId),
           proc' = [proc EXCEPT ![p] = Line(p, t, v, n, g)],
           proc[p].gone \subseteq g, DOMAIN proc[p].table \subseteq DOMAIN t \cup g,
           proc[p].named \subseteq n, proc[p].value <= v,
           \A d \in DOMAIN t : d \in DOMAIN proc[p].table \cup n \/ d < v
    PROVE  OnlyProgram(p) /\ Lists(p)
<1> DEFINE r == Line(p, t, v, n, g)
<1>1. /\ r \in ProcRecord /\ r.pc = proc[p].pc /\ r.table = t /\ r.value = v
      /\ r.named = n /\ r.gone = g
  BY DEF TypeInv, Types, ProcRecord, Line
<1>2. proc' = [proc EXCEPT ![p] = r]
  OBVIOUS
<1> HIDE DEF r
<1>3. proc'[p] = r /\ OnlyProgram(p)
  BY <1>1, <1>2 DEF OnlyProgram, TypeInv, Types
<1> QED BY <1>1, <1>3 DEF Lists

LEMMA ListIs ==
    ASSUME TypeInv, NEW p \in Proc,
           \/ \E d \in 1..MaxId : DeleteLine(p, d) \/ PurgeLine(p, d) \/ ImportLine(p, d)
           \/ ImportAuto(p)
    PROVE  OnlyProgram(p) /\ Lists(p)
<1>0. /\ proc[p] \in ProcRecord /\ proc[p].table \in Tables /\ proc[p].value \in Nat
      /\ proc[p].named \in SUBSET (1..MaxId) /\ proc[p].gone \in SUBSET (1..MaxId)
      /\ proc[p].value <= proc[p].value
  BY DEF TypeInv, Types, ProcRecord
<1>1. proc \in [Proc -> ProcRecord]
  BY DEF TypeInv, Types
<1>3. ASSUME NEW d \in 1..MaxId, DeleteLine(p, d) PROVE OnlyProgram(p) /\ Lists(p)
  <2> DEFINE t == [proc[p].table EXCEPT ![d] = "deleted"]
  <2>1. t \in Tables /\ DOMAIN t = DOMAIN proc[p].table
    BY <1>0, ChangeTable DEF Device
  <2> HIDE DEF t
  <2>2. proc' = [proc EXCEPT ![p].table = t]
    BY <1>3 DEF DeleteLine, t
  <2>3. proc' = [proc EXCEPT ![p] = Line(p, t, proc[p].value, proc[p].named, proc[p].gone)]
    BY <1>0, <1>1, <2>2 DEF ProcRecord, Line
  <2>4. proc[p].pc = "delete" /\ UNCHANGED <<lock, actor, disk, tmp, lost>>
    BY <1>3 DEF DeleteLine
  <2> QED BY <1>0, LineIs, <2>1, <2>3, <2>4
<1>4. ASSUME NEW d \in 1..MaxId, PurgeLine(p, d) PROVE OnlyProgram(p) /\ Lists(p)
  <2> DEFINE t == Restrict(proc[p].table, DOMAIN proc[p].table \ {d})
             g == proc[p].gone \cup {d}
  <2>1. t \in Tables /\ DOMAIN t = DOMAIN proc[p].table \ {d} /\ g \in SUBSET (1..MaxId)
    BY <1>0, RestrictTable
  <2>2. proc[p].gone \subseteq g /\ d \in g
    OBVIOUS
  <2> HIDE DEF t, g
  <2>3. proc' = [proc EXCEPT ![p].table = t, ![p].gone = g]
    BY <1>4 DEF PurgeLine, t, g
  <2>4. proc' = [proc EXCEPT ![p] = Line(p, t, proc[p].value, proc[p].named, g)]
    BY <1>0, <1>1, <2>3 DEF ProcRecord, Line
  <2>5. proc[p].pc = "purge" /\ UNCHANGED <<lock, actor, disk, tmp, lost>>
    BY <1>4 DEF PurgeLine
  <2> QED BY <1>0, LineIs, <2>1, <2>2, <2>4, <2>5
<1>5. ASSUME NEW d \in 1..MaxId, ImportLine(p, d) PROVE OnlyProgram(p) /\ Lists(p)
  <2> DEFINE made == CreateDevice(proc[p].table, d)
             n == proc[p].named \cup {d}
  <2>1. made \in Tables /\ DOMAIN made = DOMAIN proc[p].table \cup {d}
    BY <1>0, CreateTable
  <2>2. n \in SUBSET (1..MaxId) /\ proc[p].named \subseteq n /\ d \in n
    BY <1>0
  <2> HIDE DEF made
  <2>3. PICK known \in BOOLEAN :
          proc' = [proc EXCEPT ![p].table = IF known THEN made ELSE @,
                               ![p].named = @ \cup {d}]
    BY <1>5 DEF ImportLine, made
  <2> DEFINE t == IF known THEN made ELSE proc[p].table
  <2>4. /\ t \in Tables /\ DOMAIN proc[p].table \subseteq DOMAIN t
        /\ DOMAIN t \subseteq DOMAIN proc[p].table \cup {d}
    BY <1>0, <2>1
  <2>5. proc' = [proc EXCEPT ![p].table = t, ![p].named = n]
    BY <2>3
  <2> HIDE DEF t, n
  <2>6. proc' = [proc EXCEPT ![p] = Line(p, t, proc[p].value, n, proc[p].gone)]
    BY <1>0, <1>1, <2>5 DEF ProcRecord, Line
  <2>7. proc[p].pc = "import" /\ UNCHANGED <<lock, actor, disk, tmp, lost>>
    BY <1>5 DEF ImportLine
  <2> QED BY <1>0, LineIs, <2>2, <2>4, <2>6, <2>7
<1>6. CASE ImportAuto(p)
  <2> DEFINE made == CreateDevice(proc[p].table, proc[p].value)
             v == proc[p].value + 1
  <2>1. proc[p].pc = "import" /\ proc[p].value <= MaxId
        /\ UNCHANGED <<lock, actor, disk, tmp, lost>>
    BY <1>6 DEF ImportAuto
  <2>2. proc[p].value \in 1..MaxId
    BY <1>0, <2>1, ValueAssumption DEF Counts, TypeInv
  <2>3. made \in Tables /\ DOMAIN made = DOMAIN proc[p].table \cup {proc[p].value}
    BY <1>0, <2>2, CreateTable
  <2>4. v \in Nat /\ proc[p].value < v /\ proc[p].value <= v
    BY <1>0
  <2> HIDE DEF made
  <2>5. PICK known \in BOOLEAN :
          proc' = [proc EXCEPT ![p].table = IF known THEN made ELSE @,
                               ![p].value = @ + 1]
    BY <1>6 DEF ImportAuto, made
  <2> DEFINE t == IF known THEN made ELSE proc[p].table
  <2>6. /\ t \in Tables /\ DOMAIN proc[p].table \subseteq DOMAIN t
        /\ DOMAIN t \subseteq DOMAIN proc[p].table \cup {proc[p].value}
    BY <1>0, <2>3
  <2>7. proc' = [proc EXCEPT ![p].table = t, ![p].value = v]
    BY <2>5
  <2> HIDE DEF t, v
  <2>8. proc' = [proc EXCEPT ![p] = Line(p, t, v, proc[p].named, proc[p].gone)]
    BY <1>0, <1>1, <2>7 DEF ProcRecord, Line
  <2>9. \A d \in DOMAIN t : d \in DOMAIN proc[p].table \cup proc[p].named \/ d < v
    BY <2>4, <2>6
  <2>10. DOMAIN proc[p].table \subseteq DOMAIN t \cup proc[p].gone
    BY <2>6
  <2> QED BY <1>0, LineIs, <2>1, <2>4, <2>6, <2>8, <2>9, <2>10
<1> QED BY <1>3, <1>4, <1>5, <1>6

\* Every step of a program that leaves the sessions alone.
LEMMA ProgramIs ==
    ASSUME TypeInv, LockInv, NEW p \in Proc, ProcStep(p),
           ~ (Kill(p) \/ ListEnd(p) \/ ListDone(p))
    PROVE  OnlyProgram(p) /\ (Turns(p) \/ Loads(p) \/ Chooses(p) \/ Lists(p))
BY ComesOrGoes, LoadIs, ManageIs, ListIs DEF ProcStep

\* A program that is killed takes its sessions along.
Dies(p) == /\ proc' \in [Proc -> ProcRecord] /\ proc'[p].pc = "off"
           /\ \A q \in Proc \ {p} : proc'[q] = proc[q]
           /\ lock' \in [LockFile -> Proc \cup {Free, Stale}]
           /\ actor' \in [Actor -> ActorRecord]
           /\ \A a \in Actor : IF actor[a].p = p THEN actor'[a].pc = "idle"
                                                 ELSE actor'[a] = actor[a]
           /\ tmp' \in Actor \cup {"none", "left"}
           /\ UNCHANGED <<disk, lost>>

LEMMA KillIs ==
    ASSUME TypeInv, NEW p \in Proc, Kill(p)
    PROVE  Dies(p)
<1> USE DEF TypeInv, Types
<1>1. /\ proc' = [proc EXCEPT ![p] = Off]
      /\ lock' = [f \in LockFile |-> IF lock[f] = p THEN Stale ELSE lock[f]]
      /\ actor' = [a \in Actor |-> IF actor[a].p = p THEN Rest ELSE actor[a]]
      /\ tmp' \in {"left", tmp} /\ UNCHANGED <<disk, lost>>
  BY DEF Kill
<1>2. proc' \in [Proc -> ProcRecord] /\ proc'[p].pc = "off"
      /\ \A q \in Proc \ {p} : proc'[q] = proc[q]
  BY <1>1, Blanks DEF Off
<1>3. lock' \in [LockFile -> Proc \cup {Free, Stale}]
  BY <1>1
<1>4. /\ actor' \in [Actor -> ActorRecord]
      /\ \A a \in Actor : IF actor[a].p = p THEN actor'[a].pc = "idle"
                                            ELSE actor'[a] = actor[a]
  BY <1>1, Blanks DEF Rest
<1> QED BY <1>1, <1>2, <1>3, <1>4 DEF Dies

\* The other steps change one actor, and of a program at most its table or options.
OnlyActor(a) == /\ actor' \in [Actor -> ActorRecord] /\ proc' \in [Proc -> ProcRecord]
                /\ \A b \in Actor \ {a} : actor'[b] = actor[b]
                /\ \A p \in Proc : proc'[p].gone = proc[p].gone
                /\ UNCHANGED lock

\* The end of a list: the program starts to save it, and is done when that is over.
LEMMA ListEndIs ==
    ASSUME TypeInv, NEW p \in Proc, ListEnd(p)
    PROVE  /\ OnlyActor(p) /\ actor'[p].pc = "list" /\ actor'[p].p = p
           /\ \A q \in Proc \ {p} : proc'[q] = proc[q]
           /\ proc[p].pc \in {"import", "delete", "purge"} /\ proc'[p].pc = "saving"
           /\ proc'[p].table = proc[p].table /\ proc'[p].opt = proc[p].opt
           /\ UNCHANGED <<disk, tmp, lost>>
<1>1. [Rest EXCEPT !.pc = "list", !.p = p] \in ActorRecord
  BY Blanks DEF ActorRecord, ActorPc
<1> QED BY <1>1 DEF TypeInv, Types, ListEnd, OnlyActor, Actor, ProcRecord, ProcPc, Rest

LEMMA ListDoneIs ==
    ASSUME TypeInv, NEW p \in Proc, ListDone(p)
    PROVE  OnlyProgram(p) /\ proc[p].pc = "saving" /\ proc'[p].pc = "unlock"
           /\ actor[p].pc = "idle" /\ lost' = lost
BY DEF TypeInv, Types, ListDone, OnlyProgram, ProcRecord, ProcPc

\* A session changes the table or the options of its program and is going to save that;
\* or it looks for a number, or finds it taken.
SessionWorks(s, p) ==
    /\ OnlyActor(s) /\ UNCHANGED <<disk, tmp, lost>>
    /\ \A q \in Proc \ {p} : proc'[q] = proc[q]
    /\ proc[p].pc = "serve" /\ proc'[p].pc = "serve"
    /\ DOMAIN proc[p].table \subseteq DOMAIN proc'[p].table
    /\ actor[s].pc \in {"idle", "create"}
    /\ \/ actor'[s].pc = "list" /\ actor'[s].p = p
       \/ proc' = proc /\ actor'[s].pc = "idle"
       \/ proc' = proc /\ actor'[s].pc = "create" /\ actor'[s].p = p
                       /\ actor'[s].id \in 1..MaxId

LEMMA SessionIs ==
    ASSUME TypeInv, NEW s \in Session, SessionStep(s)
    PROVE  \E p \in Proc : SessionWorks(s, p)
<1> USE DEF TypeInv, Types
<1>0. s \in Actor /\ Actor = Session \cup Proc
  BY DEF Actor
<1>2. ASSUME NEW p \in Proc, NEW d \in 1..MaxId, NEW v \in {"edited", "deleted"},
             Edit(s, p, d, v)
      PROVE  SessionWorks(s, p)
  <2> DEFINE t == [proc[p].table EXCEPT ![d] = v]
             r == [Rest EXCEPT !.pc = "list", !.p = p]
  <2>1. t \in Tables /\ DOMAIN t = DOMAIN proc[p].table
    BY ChangeTable DEF ProcRecord, Device
  <2>2. /\ proc' = [proc EXCEPT ![p].table = t]
        /\ actor' = [actor EXCEPT ![s] = r]
        /\ proc[p].pc = "serve" /\ actor[s].pc = "idle"
        /\ UNCHANGED <<lock, disk, tmp, lost>>
    BY <1>2 DEF Edit, Change
  <2>3. r \in ActorRecord /\ r.pc = "list" /\ r.p = p
    BY Blanks DEF ActorRecord, ActorPc, Rest
  <2> HIDE DEF t, r
  <2>4. /\ proc' \in [Proc -> ProcRecord] /\ \A q \in Proc \ {p} : proc'[q] = proc[q]
        /\ proc'[p].pc = "serve" /\ proc'[p].table = t /\ proc'[p].gone = proc[p].gone
    BY <2>1, <2>2 DEF ProcRecord
  <2>5. /\ actor' \in [Actor -> ActorRecord] /\ actor'[s] = r
        /\ \A b \in Actor \ {s} : actor'[b] = actor[b]
    BY <1>0, <2>2, <2>3
  <2> QED BY <2>1, <2>2, <2>3, <2>4, <2>5 DEF SessionWorks, OnlyActor
<1>3. ASSUME NEW p \in Proc, NEW o \in Setting, SaveSettings(s, p, o)
      PROVE  SessionWorks(s, p)
  <2> DEFINE r == [Rest EXCEPT !.pc = "list", !.p = p]
             raced == \E a \in Actor : Copying(a, p)
             u == [proc[p] EXCEPT !.opt = o, !.asked = o, !.raced = raced]
  <2>0. raced \in BOOLEAN
    OBVIOUS
  <2> HIDE DEF raced
  <2>1. /\ proc' = [proc EXCEPT ![p].opt = o, ![p].asked = o, ![p].raced = raced]
        /\ actor' = [actor EXCEPT ![s] = r]
        /\ proc[p].pc = "serve" /\ actor[s].pc = "idle"
        /\ UNCHANGED <<lock, disk, tmp, lost>>
    BY <1>3 DEF SaveSettings, Change, raced
  <2>2. r \in ActorRecord /\ r.pc = "list" /\ r.p = p
    BY Blanks DEF ActorRecord, ActorPc, Rest
  <2> HIDE DEF r
  <2>3. /\ proc' \in [Proc -> ProcRecord] /\ \A q \in Proc \ {p} : proc'[q] = proc[q]
        /\ proc'[p].pc = "serve" /\ proc'[p].table = proc[p].table
        /\ proc'[p].gone = proc[p].gone
    <3>1. /\ u \in ProcRecord /\ u.pc = proc[p].pc /\ u.table = proc[p].table
          /\ u.gone = proc[p].gone
      BY <2>0 DEF ProcRecord
    <3>2. proc' = [proc EXCEPT ![p] = u]
      BY <2>1
    <3> HIDE DEF u
    <3> QED BY <2>1, <3>1, <3>2
  <2>4. /\ actor' \in [Actor -> ActorRecord] /\ actor'[s] = r
        /\ \A b \in Actor \ {s} : actor'[b] = actor[b]
    BY <1>0, <2>1, <2>2
  <2> QED BY <2>1, <2>2, <2>3, <2>4 DEF SessionWorks, OnlyActor
<1>4. ASSUME NEW p \in Proc, CreateId(s, p) PROVE SessionWorks(s, p)
  <2> DEFINE id == FindDeviceFreeID(proc[p].table)
             r == [Rest EXCEPT !.pc = "create", !.p = p, !.id = id]
  <2>1. id \in Nat /\ id >= 1
    BY FreeIsAbove DEF ProcRecord
  <2>2. /\ id <= MaxId
        /\ actor' = [actor EXCEPT ![s] = r]
        /\ proc[p].pc = "serve" /\ actor[s].pc = "idle"
        /\ UNCHANGED <<lock, proc, disk, tmp, lost>>
    BY <1>4 DEF CreateId
  <2>3. id \in 1..MaxId
    BY <2>1, <2>2, ValueAssumption
  <2> HIDE DEF id
  <2>4. r \in ActorRecord /\ r.pc = "create" /\ r.p = p /\ r.id = id
    <3>1. id \in 0..MaxId
      BY <2>1, <2>2, ValueAssumption
    <3> QED BY <3>1, Blanks DEF ActorRecord, ActorPc, Rest
  <2> HIDE DEF r
  <2>5. /\ actor' \in [Actor -> ActorRecord] /\ actor'[s] = r
        /\ \A b \in Actor \ {s} : actor'[b] = actor[b]
    BY <1>0, <2>2, <2>4
  <2> QED BY <2>2, <2>3, <2>4, <2>5 DEF SessionWorks, OnlyActor
<1>5. ASSUME Create(s) PROVE SessionWorks(s, actor[s].p) /\ actor[s].p \in Proc
  <2> DEFINE p == actor[s].p
             t == CreateDevice(proc[p].table, actor[s].id)
  <2>1. actor[s].pc = "create" /\ UNCHANGED <<lock, disk, tmp, lost>>
    BY <1>5 DEF Create
  <2>2. p \in Proc /\ proc[p].pc = "serve" /\ actor[s].id \in 1..MaxId
    BY <1>0, <2>1 DEF AtWork, Counts
  <2>3. t \in Tables /\ DOMAIN proc[p].table \subseteq DOMAIN t
    <3>1. proc[p].table \in Tables
      BY <2>2 DEF ProcRecord
    <3>2. DOMAIN t = DOMAIN proc[p].table \cup {actor[s].id} /\ t \in Tables
      BY ONLY <2>2, <3>1, CreateTable
    <3> QED BY ONLY <3>2
  <2>4. CASE actor[s].id \in DOMAIN proc[p].table
    <3>1. actor' = [actor EXCEPT ![s] = Rest] /\ proc' = proc
      BY <1>5, <2>4 DEF Create
    <3>2. /\ actor' \in [Actor -> ActorRecord] /\ actor'[s].pc = "idle"
          /\ \A b \in Actor \ {s} : actor'[b] = actor[b]
      BY <1>0, <3>1, Blanks DEF Rest
    <3> QED BY <2>1, <2>2, <3>1, <3>2 DEF SessionWorks, OnlyActor
  <2>5. CASE actor[s].id \notin DOMAIN proc[p].table
    <3>1. /\ actor' = [actor EXCEPT ![s].pc = "list"]
          /\ proc' = [proc EXCEPT ![p].table = t]
      BY <1>5, <2>5 DEF Create
    <3>2. /\ actor' \in [Actor -> ActorRecord] /\ actor'[s].pc = "list"
          /\ actor'[s].p = p /\ \A b \in Actor \ {s} : actor'[b] = actor[b]
      BY <1>0, <3>1 DEF ActorRecord, ActorPc
    <3> HIDE DEF t
    <3>3. /\ proc' \in [Proc -> ProcRecord] /\ \A q \in Proc \ {p} : proc'[q] = proc[q]
          /\ proc'[p].pc = "serve" /\ proc'[p].table = t
          /\ proc'[p].gone = proc[p].gone
      BY <2>2, <2>3, <3>1 DEF ProcRecord
    <3> QED BY <2>1, <2>2, <2>3, <3>1, <3>2, <3>3 DEF SessionWorks, OnlyActor
  <2> QED BY <2>2, <2>4, <2>5
<1> QED BY <1>2, <1>3, <1>4, <1>5 DEF SessionStep

\* saveConfig takes its copy of the table; calls that overlap are not alone.
Takes(a) == /\ actor' \in [Actor -> ActorRecord]
            /\ actor[a].pc = "list" /\ actor'[a].pc = "get" /\ actor'[a].p = actor[a].p
            /\ actor'[a].table = proc[actor[a].p].table
            /\ actor'[a].alone => \A b \in Actor : ~ Saving(b)
            /\ \A b \in Actor \ {a} :
                 /\ actor'[b].pc = actor[b].pc /\ actor'[b].p = actor[b].p
                 /\ actor'[b].table = actor[b].table /\ actor'[b].opt = actor[b].opt
                 /\ actor'[b].id = actor[b].id
                 /\ actor'[b].alone => actor[b].alone /\ ~ Saving(b)
            /\ UNCHANGED <<lock, proc, disk, tmp, lost>>

LEMMA ListTakes ==
    ASSUME TypeInv, NEW a \in Actor, List(a)
    PROVE  Takes(a)
<1> USE DEF TypeInv, Types
<1> DEFINE alone == \A b \in Actor : ~ Saving(b)
           r == [actor[a] EXCEPT !.pc = "get", !.alone = alone,
                                 !.table = proc[actor[a].p].table]
           o(b) == [actor[b] EXCEPT !.alone = @ /\ ~ Saving(b)]
<1>1. actor[a].pc = "list" /\ UNCHANGED <<lock, proc, disk, tmp, lost>>
  BY DEF List
<1>2. actor' = [b \in Actor |-> IF b = a THEN r ELSE o(b)]
  BY DEF List
<1>3. alone \in BOOLEAN /\ proc[actor[a].p].table \in Tables
  BY <1>1 DEF AtWork, ProcRecord
<1> HIDE DEF alone
<1>4. /\ r \in ActorRecord /\ r.pc = "get" /\ r.p = actor[a].p /\ r.alone = alone
      /\ r.table = proc[actor[a].p].table
  BY <1>3 DEF ActorRecord, ActorPc
<1>5. ASSUME NEW b \in Actor
      PROVE  /\ o(b) \in ActorRecord /\ o(b).pc = actor[b].pc /\ o(b).p = actor[b].p
             /\ o(b).table = actor[b].table /\ o(b).opt = actor[b].opt
             /\ o(b).id = actor[b].id /\ o(b).alone = (actor[b].alone /\ ~ Saving(b))
  <2>1. Saving(b) \in BOOLEAN /\ actor[b] \in ActorRecord
    BY DEF Saving
  <2> HIDE DEF Saving
  <2> QED BY <2>1 DEF ActorRecord
<1> HIDE DEF r, o
<1> QED BY <1>1, <1>2, <1>4, <1>5 DEF Takes, alone

\* The rest of saveConfig: it takes the options and sets them again ...
Copies(a) == /\ OnlyActor(a) /\ UNCHANGED <<disk, tmp, lost>>
             /\ actor'[a].p = actor[a].p /\ actor'[a].table = actor[a].table
             /\ actor'[a].alone = actor[a].alone
             /\ \A p \in Proc : proc'[p].pc = proc[p].pc /\ proc'[p].table = proc[p].table
                                /\ proc'[p].named = proc[p].named
                                /\ proc'[p].value = proc[p].value
             /\ \/ /\ actor[a].pc = "get" /\ actor'[a].pc = "set" /\ proc' = proc
                   /\ actor'[a].opt = proc[actor[a].p].opt
                \/ /\ actor[a].pc = "set" /\ actor'[a].pc = "begin"
                   /\ actor'[a].opt = actor[a].opt
                   /\ \A p \in Proc : proc'[p].opt = IF p = actor[a].p THEN actor[a].opt
                                                                       ELSE proc[p].opt
\* ... and writes both to the file, which may fail.
Writes(a) == /\ OnlyActor(a) /\ UNCHANGED proc
             /\ tmp' \in Actor \cup {"none", "left"} /\ lost' \in BOOLEAN
             /\ \/ /\ actor[a].pc = "begin" /\ actor'[a].pc = "commit"
                   /\ actor'[a].p = actor[a].p
                   /\ actor'[a].table = actor[a].table /\ actor'[a].opt = actor[a].opt
                   /\ actor'[a].alone = actor[a].alone
                   /\ UNCHANGED <<disk, lost>>
                \/ /\ actor[a].pc \in {"begin", "commit"} /\ actor'[a].pc = "idle"
                   /\ lost' = TRUE /\ UNCHANGED disk
                \/ /\ actor[a].pc = "commit" /\ actor'[a].pc = "idle"
                   /\ disk' = [table |-> actor[a].table, opt |-> actor[a].opt]
                   /\ lost' = ~ actor[a].alone

LEMMA CopyIs ==
    ASSUME TypeInv, NEW a \in Actor, GetOptions(a) \/ SetOptions(a)
    PROVE  Copies(a)
<1> USE DEF TypeInv, Types
<1>1. CASE GetOptions(a)
  <2> DEFINE o == proc[actor[a].p].opt
             r == [actor[a] EXCEPT !.pc = "set", !.opt = o]
  <2>1. /\ actor[a].pc = "get" /\ UNCHANGED <<lock, proc, disk, tmp, lost>>
        /\ actor' = [actor EXCEPT ![a].pc = "set", ![a].opt = o]
    BY <1>1 DEF GetOptions
  <2>2. o \in Setting
    BY <2>1 DEF AtWork, ProcRecord
  <2> HIDE DEF o
  <2>3. actor' = [actor EXCEPT ![a] = r]
    BY <2>1
  <2>4. /\ r \in ActorRecord /\ r.pc = "set" /\ r.opt = o /\ r.p = actor[a].p
        /\ r.table = actor[a].table /\ r.alone = actor[a].alone
    BY <2>2 DEF ActorRecord, ActorPc
  <2> HIDE DEF r
  <2>5. /\ actor' \in [Actor -> ActorRecord] /\ actor'[a] = r
        /\ \A b \in Actor \ {a} : actor'[b] = actor[b]
    BY <2>3, <2>4
  <2> QED BY <2>1, <2>4, <2>5 DEF Copies, OnlyActor, o
<1>2. CASE SetOptions(a)
  <2> DEFINE p == actor[a].p
             r == [proc[p] EXCEPT !.opt = actor[a].opt]
  <2>1. /\ actor[a].pc = "set" /\ UNCHANGED <<lock, disk, tmp, lost>>
        /\ actor' = [actor EXCEPT ![a].pc = "begin"]
        /\ proc' = [proc EXCEPT ![p].opt = actor[a].opt]
    BY <1>2 DEF SetOptions
  <2>2. p \in Proc /\ actor[a].opt \in Setting
    BY <2>1 DEF AtWork, ActorRecord
  <2>3. /\ actor' \in [Actor -> ActorRecord] /\ actor'[a].pc = "begin"
        /\ actor'[a].p = actor[a].p /\ actor'[a].table = actor[a].table
        /\ actor'[a].opt = actor[a].opt /\ actor'[a].alone = actor[a].alone
        /\ \A b \in Actor \ {a} : actor'[b] = actor[b]
    BY <2>1 DEF ActorRecord, ActorPc
  <2>4. /\ r \in ProcRecord /\ r.opt = actor[a].opt /\ r.pc = proc[p].pc
        /\ r.table = proc[p].table /\ r.gone = proc[p].gone
        /\ r.named = proc[p].named /\ r.value = proc[p].value
    BY <2>2 DEF ProcRecord
  <2>5. proc' = [proc EXCEPT ![p] = r]
    BY <2>1
  <2> HIDE DEF r, p
  <2>6. /\ proc' \in [Proc -> ProcRecord] /\ proc'[p] = r
        /\ \A q \in Proc \ {p} : proc'[q] = proc[q]
    BY <2>2, <2>4, <2>5
  <2>7. \A q \in Proc : /\ proc'[q].pc = proc[q].pc /\ proc'[q].table = proc[q].table
                        /\ proc'[q].gone = proc[q].gone /\ proc'[q].named = proc[q].named
                        /\ proc'[q].value = proc[q].value
                        /\ proc'[q].opt = IF q = p THEN actor[a].opt ELSE proc[q].opt
    BY <2>4, <2>6
  <2> QED BY <2>1, <2>3, <2>6, <2>7 DEF Copies, OnlyActor, p
<1> QED BY <1>1, <1>2

LEMMA WriteIs ==
    ASSUME TypeInv, NEW a \in Actor, SaveBegin(a) \/ SaveCommit(a) \/ SaveFails(a)
    PROVE  Writes(a)
<1> USE DEF TypeInv, Types
<1>1. ASSUME actor' = [actor EXCEPT ![a] = Rest]
      PROVE  /\ actor' \in [Actor -> ActorRecord] /\ actor'[a].pc = "idle"
             /\ \A b \in Actor \ {a} : actor'[b] = actor[b]
  BY <1>1, Blanks DEF Rest
<1>2. CASE SaveBegin(a)
  <2>1. actor[a].pc = "begin" /\ UNCHANGED <<lock, proc, disk>>
    BY <1>2 DEF SaveBegin
  <2>2. CASE tmp = "none"
    <3>1. tmp' = a /\ actor' = [actor EXCEPT ![a].pc = "commit"] /\ lost' = lost
      BY <1>2, <2>2 DEF SaveBegin
    <3>2. /\ actor' \in [Actor -> ActorRecord] /\ actor'[a].pc = "commit"
          /\ actor'[a].p = actor[a].p /\ actor'[a].table = actor[a].table
          /\ actor'[a].opt = actor[a].opt /\ actor'[a].alone = actor[a].alone
          /\ \A b \in Actor \ {a} : actor'[b] = actor[b]
      BY <3>1 DEF ActorRecord, ActorPc
    <3> QED BY <2>1, <3>1, <3>2 DEF Writes, OnlyActor
  <2>3. CASE tmp # "none"
    <3>1. tmp' = tmp /\ actor' = [actor EXCEPT ![a] = Rest] /\ lost' = TRUE
      BY <1>2, <2>3 DEF SaveBegin
    <3> QED BY <1>1, <2>1, <3>1 DEF Writes, OnlyActor
  <2> QED BY <2>2, <2>3
<1>3. CASE SaveCommit(a)
  <2>1. /\ actor[a].pc = "commit" /\ tmp' = "none" /\ UNCHANGED <<lock, proc>>
        /\ disk' = [table |-> actor[a].table, opt |-> actor[a].opt]
        /\ actor' = [actor EXCEPT ![a] = Rest]
        /\ lost' = ~ actor[a].alone
    BY <1>3 DEF SaveCommit
  <2>2. lost' \in BOOLEAN
    BY <2>1
  <2> QED BY <1>1, <2>1, <2>2 DEF Writes, OnlyActor
<1>4. CASE SaveFails(a)
  <2>1. /\ actor[a].pc = "commit" /\ tmp' \in {"none", "left"}
        /\ UNCHANGED <<lock, proc, disk>>
        /\ actor' = [actor EXCEPT ![a] = Rest] /\ lost' = TRUE
    BY <1>4 DEF SaveFails
  <2> QED BY <1>1, <2>1 DEF Writes, OnlyActor
<1> QED BY <1>2, <1>3, <1>4

LEMMA TypeStep ==
    ASSUME TypeInv, LockInv, [Next]_vars
    PROVE  TypeInv'
<1> USE DEF TypeInv
<1>1. ASSUME NEW p \in Proc, OnlyProgram(p), Turns(p) \/ Loads(p) \/ Chooses(p) \/ Lists(p)
      PROVE  TypeInv'
  <2>1. lost' \in BOOLEAN
    BY <1>1 DEF Turns, Loads, Chooses, Lists, Types
  <2>2. Types'
    BY <1>1, <2>1 DEF OnlyProgram, Types
  <2>3. proc'[p].pc = "import" => proc'[p].value >= 1
    <3>1. proc[p].value \in Nat /\ proc'[p].value \in Nat
      BY <1>1 DEF OnlyProgram, Types, ProcRecord
    <3> QED BY <1>1, <3>1 DEF Turns, Loads, Chooses, Lists, Counts
  <2>4. Counts'
    BY <1>1, <2>3 DEF OnlyProgram, Counts
  <2>5. proc[p].pc \notin {"serve", "saving"}
    BY <1>1 DEF Turns, Loads, Chooses, Lists
  <2>6. AtWork'
    BY <1>1, <2>5 DEF OnlyProgram, AtWork
  <2> QED BY <2>2, <2>4, <2>6
<1>2. ASSUME NEW p \in Proc, Dies(p) PROVE TypeInv'
  <2>1. Types'
    BY <1>2 DEF Dies, Types
  <2>2. Counts'
    BY <1>2 DEF Dies, Counts
  <2>3. AtWork'
    BY <1>2 DEF Dies, AtWork
  <2> QED BY <2>1, <2>2, <2>3
<1>3. ASSUME NEW p \in Proc, ListEnd(p) PROVE TypeInv'
  <2>1. Types'
    BY <1>3, ListEndIs DEF OnlyActor, Types
  <2>2. Counts'
    BY <1>3, ListEndIs DEF OnlyActor, Counts
  <2>3. p \notin Session
    BY ValueAssumption
  <2>4. AtWork'
    BY <1>3, <2>3, ListEndIs DEF OnlyActor, AtWork
  <2> QED BY <2>1, <2>2, <2>4
<1>4. ASSUME NEW p \in Proc, ListDone(p) PROVE TypeInv'
  <2>1. Types'
    BY <1>4, ListDoneIs DEF OnlyProgram, Types
  <2>2. Counts'
    BY <1>4, ListDoneIs DEF OnlyProgram, Counts
  <2>3. AtWork'
    BY <1>4, ListDoneIs DEF OnlyProgram, AtWork
  <2> QED BY <2>1, <2>2, <2>3
<1>5. ASSUME NEW s \in Session, SessionStep(s) PROVE TypeInv'
  <2>1. PICK p \in Proc : SessionWorks(s, p)
    BY <1>5, SessionIs
  <2>2. s \in Actor /\ s \notin Proc
    BY ValueAssumption DEF Actor
  <2>3. Types'
    BY <2>1 DEF SessionWorks, OnlyActor, Types
  <2>4. Counts'
    BY <2>1, <2>2 DEF SessionWorks, OnlyActor, Counts
  <2>5. AtWork'
    BY <2>1, <2>2 DEF SessionWorks, OnlyActor, AtWork
  <2> QED BY <2>3, <2>4, <2>5
<1>6. ASSUME NEW a \in Actor, Takes(a) PROVE TypeInv'
  <2>1. Types'
    BY <1>6 DEF Takes, Types
  <2>2. Counts'
    BY <1>6 DEF Takes, Counts
  <2>3. AtWork'
    BY <1>6 DEF Takes, AtWork
  <2> QED BY <2>1, <2>2, <2>3
<1>7. ASSUME NEW a \in Actor, Copies(a) PROVE TypeInv'
  <2>1. Types'
    BY <1>7 DEF Copies, OnlyActor, Types
  <2>2. Counts'
    BY <1>7 DEF Copies, OnlyActor, Counts
  <2>3. AtWork'
    BY <1>7 DEF Copies, OnlyActor, AtWork, Actor
  <2> QED BY <2>1, <2>2, <2>3
<1>8. ASSUME NEW a \in Actor, Writes(a) PROVE TypeInv'
  <2>1. disk' \in [table: Tables, opt: Setting]
    BY <1>8 DEF Writes, Types, ActorRecord
  <2>2. Types'
    BY <1>8, <2>1 DEF Writes, OnlyActor, Types
  <2>3. Counts'
    BY <1>8 DEF Writes, OnlyActor, Counts
  <2>4. AtWork'
    BY <1>8 DEF Writes, OnlyActor, AtWork
  <2> QED BY <2>2, <2>3, <2>4
<1>9. CASE UNCHANGED vars
  BY <1>9 DEF vars, Types, Counts, AtWork
<1> QED
  BY <1>1, <1>2, <1>3, <1>4, <1>5, <1>6, <1>7, <1>8, <1>9, ProgramIs, KillIs, ListTakes,
     CopyIs, WriteIs DEF Next, ProcStep, SaveStep

\* Every variable keeps its shape; in particular numbers stay within bounds, and only
\* programs that run have sessions at work.
THEOREM TypeCorrect == Spec => []TypeOK
<1>1. LockInv /\ TypeInv /\ [Next]_vars => TypeInv'
  BY TypeStep
<1>2. TypeInv => TypeOK
  BY TableIs DEF TypeInv, Types, TypeOK, AtWork, ProcRecord, ActorRecord
<1> QED BY <1>1, <1>2, InitType, LocksInOrder, PTL DEF Spec

------------------------------------------------------------------------------
(* Numbers of an import *)

\* The kinds of steps, in one place.
LEMMA Kinds ==
    ASSUME TypeInv, LockInv, Next
    PROVE  \/ \E p \in Proc : \/ OnlyProgram(p) /\ Turns(p)
                              \/ OnlyProgram(p) /\ Loads(p)
                              \/ OnlyProgram(p) /\ Chooses(p)
                              \/ OnlyProgram(p) /\ Lists(p)
                              \/ Dies(p) \/ ListEnd(p) \/ ListDone(p)
           \/ \E s \in Session, p \in Proc : SessionWorks(s, p)
           \/ \E a \in Actor : Takes(a) \/ Copies(a) \/ Writes(a)
BY ProgramIs, KillIs, SessionIs, ListTakes, CopyIs, WriteIs DEF Next, ProcStep, SaveStep

LEMMA AutoStep ==
    ASSUME TypeInv, LockInv, AutoIdsFree, [Next]_vars
    PROVE  AutoIdsFree'
<1> USE DEF AutoIdsFree
<1>1. ASSUME NEW p \in Proc, OnlyProgram(p), Turns(p) \/ Loads(p) PROVE AutoIdsFree'
  BY <1>1 DEF OnlyProgram, Turns, Loads
<1>2. ASSUME NEW p \in Proc, OnlyProgram(p), Chooses(p) PROVE AutoIdsFree'
  <2>1. /\ \A d \in DOMAIN proc[p].table : d \in Nat
        /\ proc'[p].value \in Nat
    BY <1>2, TableIs, ValueAssumption
       DEF OnlyProgram, TypeInv, Types, ProcRecord, IsTable
  <2> QED BY <1>2, <2>1 DEF OnlyProgram, Chooses
<1>3. ASSUME NEW p \in Proc, OnlyProgram(p), Lists(p) PROVE AutoIdsFree'
  <2>1. /\ \A d \in DOMAIN proc'[p].table : d \in Nat
        /\ proc[p].value \in Nat /\ proc'[p].value \in Nat
    BY <1>3, TableIs, ValueAssumption
       DEF OnlyProgram, TypeInv, Types, ProcRecord, IsTable
  <2> QED BY <1>3, <2>1 DEF OnlyProgram, Lists
<1>4. ASSUME NEW p \in Proc, Dies(p) PROVE AutoIdsFree'
  BY <1>4 DEF Dies
<1>5. ASSUME NEW p \in Proc, ListEnd(p) PROVE AutoIdsFree'
  BY <1>5, ListEndIs
<1>6. ASSUME NEW p \in Proc, ListDone(p) PROVE AutoIdsFree'
  BY <1>6, ListDoneIs DEF OnlyProgram
<1>7. ASSUME NEW s \in Session, NEW p \in Proc, SessionWorks(s, p) PROVE AutoIdsFree'
  BY <1>7 DEF SessionWorks
<1>8. ASSUME NEW a \in Actor, Takes(a) \/ Copies(a) \/ Writes(a) PROVE AutoIdsFree'
  BY <1>8 DEF Takes, Copies, Writes
<1>9. CASE UNCHANGED vars
  BY <1>9 DEF vars
<1> QED BY <1>1, <1>2, <1>3, <1>4, <1>5, <1>6, <1>7, <1>8, <1>9, Kinds

LEMMA Inductive == Spec => [](LockInv /\ TypeInv)
<1>1. LockInv /\ TypeInv /\ [Next]_vars => TypeInv'
  BY TypeStep
<1> QED BY <1>1, InitType, LocksInOrder, PTL DEF Spec

\* The numbers an import gives to the devices of "auto" lines are not in use by any
\* device that was there before the list nor by another such line, whatever lines the
\* list has and whichever are refused; only a line of the same list that names the
\* number itself may have taken it (main.go:391-440).
THEOREM FreshNumbers == Spec => []AutoIdsFree
<1>1. Init => AutoIdsFree
  BY DEF Init, AutoIdsFree, Off
<1>2. LockInv /\ TypeInv /\ AutoIdsFree /\ [Next]_vars => AutoIdsFree'
  BY AutoStep
<1> QED BY <1>1, <1>2, Inductive, PTL DEF Spec

------------------------------------------------------------------------------
(* What leaves the file *)

\* A call of saveConfig that believes itself alone is.
AloneInv == \A a, b \in Actor : Saving(a) /\ Saving(b) /\ actor[a].alone => a = b

\* A program has, in memory or noted as gone, what the file has and what its sessions
\* are about to save; a session alone in saveConfig is going to save all the rest.
GoneInv ==
    /\ \A p \in Proc : proc[p].pc \notin {"off", "lock", "load", "unlock"} =>
         DOMAIN disk.table \subseteq DOMAIN proc[p].table \cup proc[p].gone
    /\ \A a \in Actor : Saving(a) =>
         /\ DOMAIN actor[a].table \subseteq
              DOMAIN proc[actor[a].p].table \cup proc[actor[a].p].gone
         /\ actor[a].alone => DOMAIN disk.table \subseteq
              DOMAIN actor[a].table \cup proc[actor[a].p].gone

\* One program only has sessions at work, or a list to save.
LEMMA WorkOfOne ==
    ASSUME TypeInv, LockInv, NEW a \in Actor, actor[a].pc # "idle",
           NEW p \in Proc, Running(p)
    PROVE  actor[a].p = p
<1>1. actor[a].p \in Proc /\ Running(actor[a].p)
  BY DEF TypeInv, AtWork, Running, Actor
<1> QED BY <1>1, OneRuns DEF Exclusive

LEMMA AloneStep ==
    ASSUME TypeInv, LockInv, AloneInv, [Next]_vars
    PROVE  AloneInv'
<1> USE DEF AloneInv, Saving
<1>1. ASSUME NEW p \in Proc, OnlyProgram(p) PROVE AloneInv'
  BY <1>1 DEF OnlyProgram
<1>2. ASSUME NEW p \in Proc, Dies(p) PROVE AloneInv'
  BY <1>2 DEF Dies
<1>3. ASSUME NEW p \in Proc, ListEnd(p) PROVE AloneInv'
  BY <1>3, ListEndIs DEF OnlyActor
<1>4. ASSUME NEW s \in Session, NEW p \in Proc, SessionWorks(s, p) PROVE AloneInv'
  BY <1>4 DEF SessionWorks, OnlyActor
<1>5. ASSUME NEW a \in Actor, Takes(a) PROVE AloneInv'
  BY <1>5 DEF Takes
<1>6. ASSUME NEW a \in Actor, Copies(a) PROVE AloneInv'
  BY <1>6 DEF Copies, OnlyActor
<1>7. ASSUME NEW a \in Actor, Writes(a) PROVE AloneInv'
  BY <1>7 DEF Writes, OnlyActor
<1>8. CASE UNCHANGED vars
  BY <1>8 DEF vars
<1> QED BY <1>1, <1>2, <1>3, <1>4, <1>5, <1>6, <1>7, <1>8, Kinds, ListDoneIs

LEMMA GoneStep ==
    ASSUME TypeInv, LockInv, AloneInv, GoneInv, [Next]_vars
    PROVE  GoneInv'
<1> USE DEF GoneInv, Saving
<1>1. ASSUME NEW p \in Proc, OnlyProgram(p), Turns(p) \/ Loads(p) \/ Chooses(p) \/ Lists(p)
      PROVE  GoneInv'
  <2>1. \A a \in Actor : actor[a].pc # "idle" => actor[a].p # p /\ actor[a].p \in Proc
    BY <1>1 DEF TypeInv, AtWork, Turns, Loads, Chooses, Lists, Actor
  <2>2. \A a \in Actor : Saving(a) => proc'[actor[a].p] = proc[actor[a].p]
    BY <1>1, <2>1 DEF OnlyProgram
  <2>3. proc'[p].pc \notin {"off", "lock", "load", "unlock"} =>
          DOMAIN disk.table \subseteq DOMAIN proc'[p].table \cup proc'[p].gone
    BY <1>1 DEF Turns, Loads, Chooses, Lists
  <2> QED BY <1>1, <2>2, <2>3 DEF OnlyProgram
<1>2. ASSUME NEW p \in Proc, Dies(p) PROVE GoneInv'
  <2>1. ASSUME NEW a \in Actor, Saving(a)'
        PROVE  Saving(a) /\ actor'[a] = actor[a] /\ proc'[actor[a].p] = proc[actor[a].p]
    BY <1>2, <2>1 DEF Dies, TypeInv, AtWork
  <2> QED BY <1>2, <2>1 DEF Dies
<1>3. ASSUME NEW p \in Proc, ListEnd(p) PROVE GoneInv'
  <2>1. ASSUME NEW a \in Actor, Saving(a)'
        PROVE  Saving(a) /\ actor'[a] = actor[a] /\ actor[a].p \in Proc
    BY <1>3, <2>1, ListEndIs DEF OnlyActor, TypeInv, AtWork
  <2>2. \A q \in Proc : proc'[q].table = proc[q].table /\ proc'[q].gone = proc[q].gone
    BY <1>3, ListEndIs DEF OnlyActor
  <2> QED BY <1>3, <2>1, <2>2, ListEndIs
<1>4. ASSUME NEW p \in Proc, ListDone(p) PROVE GoneInv'
  <2>1. \A a \in Actor : actor[a].pc # "idle" => actor[a].p # p /\ actor[a].p \in Proc
    BY <1>4, ListDoneIs DEF TypeInv, AtWork, Actor
  <2> QED BY <1>4, <2>1, ListDoneIs DEF OnlyProgram
<1>5. ASSUME NEW s \in Session, NEW p \in Proc, SessionWorks(s, p) PROVE GoneInv'
  <2>1. ASSUME NEW a \in Actor, Saving(a)'
        PROVE  Saving(a) /\ actor'[a] = actor[a] /\ actor[a].p \in Proc
    BY <1>5, <2>1 DEF SessionWorks, OnlyActor, TypeInv, AtWork
  <2>2. \A q \in Proc : DOMAIN proc[q].table \subseteq DOMAIN proc'[q].table
                        /\ proc'[q].gone = proc[q].gone
    BY <1>5 DEF SessionWorks, OnlyActor
  <2>3. \A q \in Proc : proc'[q].pc = proc[q].pc /\ disk' = disk
    BY <1>5 DEF SessionWorks
  <2> QED BY <2>1, <2>2, <2>3
<1>6. ASSUME NEW a \in Actor, Takes(a) PROVE GoneInv'
  <2>1. /\ actor[a].p \in Proc
        /\ proc[actor[a].p].pc \notin {"off", "lock", "load", "unlock"}
    BY <1>6 DEF Takes, TypeInv, AtWork, Actor
  <2> QED BY <1>6, <2>1 DEF Takes
<1>7. ASSUME NEW a \in Actor, Copies(a) PROVE GoneInv'
  <2>1. \A b \in Actor : Saving(b)' => Saving(b) /\ actor[b].p \in Proc
                           /\ actor'[b].p = actor[b].p /\ actor'[b].table = actor[b].table
                           /\ actor'[b].alone = actor[b].alone
    BY <1>7 DEF Copies, OnlyActor, TypeInv, AtWork
  <2>2. \A q \in Proc : proc'[q].table = proc[q].table /\ proc'[q].gone = proc[q].gone
                        /\ proc'[q].pc = proc[q].pc
    BY <1>7 DEF Copies, OnlyActor
  <2>3. disk' = disk
    BY <1>7 DEF Copies
  <2> QED BY <2>1, <2>2, <2>3
<1>8. ASSUME NEW a \in Actor, Writes(a) PROVE GoneInv'
  <2>1. \A b \in Actor : Saving(b)' => Saving(b)
                           /\ actor'[b].p = actor[b].p /\ actor'[b].table = actor[b].table
                           /\ actor'[b].alone = actor[b].alone
    BY <1>8 DEF Writes, OnlyActor
  <2>2. proc' = proc /\ Saving(a)
    BY <1>8 DEF Writes
  <2>3. CASE disk' = disk
    BY <2>1, <2>2, <2>3
  <2>4. CASE actor[a].pc = "commit" /\ actor'[a].pc = "idle" /\ disk'.table = actor[a].table
    <3>1. \A q \in Proc : proc[q].pc \notin {"off", "lock", "load", "unlock"}
                            => q = actor[a].p
      BY <2>4, WorkOfOne DEF Running
    <3>2. \A b \in Actor : Saving(b)' => ~ actor[b].alone
      BY <2>1, <2>2, <2>4 DEF AloneInv
    <3> QED BY <2>1, <2>2, <2>4, <3>1, <3>2
  <2> QED BY <1>8, <2>3, <2>4 DEF Writes
<1>9. CASE UNCHANGED vars
  BY <1>9 DEF vars
<1> QED BY <1>1, <1>2, <1>3, <1>4, <1>5, <1>6, <1>7, <1>8, <1>9, Kinds

\* Devices leave the file by a purge, by a configuration that could not be read in
\* full, or in calls of saveConfig that overlap, and in no other way: not when devices
\* are edited or marked deleted, when a save fails, or when a program is killed
\* (main.go:351-382, 536-571).
THEOREM OnlyPurgeRemoves == Spec => VanishesOnlyByPurge
<1>1. Init => AloneInv /\ GoneInv
  BY DEF Init, AloneInv, GoneInv, Saving, Off, Rest
<1>2. LockInv /\ TypeInv /\ AloneInv /\ [Next]_vars => AloneInv'
  BY AloneStep
<1>3. LockInv /\ TypeInv /\ AloneInv /\ GoneInv /\ [Next]_vars => GoneInv'
  BY GoneStep
<1>4. LockInv /\ TypeInv /\ GoneInv /\ [Next]_vars =>
        [\A d \in DOMAIN disk.table \ DOMAIN disk'.table :
            \E a \in Actor : /\ actor[a].pc = "commit" /\ actor'[a].pc = "idle"
                             /\ ~ actor[a].alone \/ d \in proc[actor[a].p].gone]_vars
  <2> SUFFICES ASSUME LockInv, TypeInv, GoneInv, Next,
                      NEW d \in DOMAIN disk.table \ DOMAIN disk'.table
               PROVE  \E a \in Actor :
                        /\ actor[a].pc = "commit" /\ actor'[a].pc = "idle"
                        /\ ~ actor[a].alone \/ d \in proc[actor[a].p].gone
    OBVIOUS
  <2>1. disk' # disk
    OBVIOUS
  <2>2. PICK a \in Actor : Writes(a)
    BY <2>1, Kinds, ListEndIs
       DEF OnlyProgram, Dies, SessionWorks, Takes, Copies, ListDone
  <2>3. /\ actor[a].pc = "commit" /\ actor'[a].pc = "idle"
        /\ disk'.table = actor[a].table
    BY <2>1, <2>2 DEF Writes
  <2>4. actor[a].alone => d \in proc[actor[a].p].gone
    BY <2>3 DEF GoneInv, Saving
  <2> QED BY <2>3, <2>4
<1> QED BY <1>1, <1>2, <1>3, <1>4, Inductive, PTL DEF Spec, VanishesOnlyByPurge

------------------------------------------------------------------------------
(* What the file has *)

Memory(p) == [table |-> proc[p].table, opt |-> proc[p].opt]

\* Somebody has changed something and not taken a copy of it yet.
Due == \E a \in Actor : actor[a].pc = "list"

\* As long as nothing was lost, a program that chooses what to do has what the file has,
\* and one that serves has it, or a session is on its way to save the difference.  A
\* call of saveConfig that is alone has copied what is in memory, or somebody changed
\* that since and is going to save it in turn.
SyncInv ==
    /\ \A p \in Proc : proc[p].pc = "manage" /\ ~ lost => disk = Memory(p)
    /\ \A p \in Proc : proc[p].pc = "serve" /\ ~ lost =>
         disk = Memory(p) \/ Due \/ \E a \in Actor : Saving(a)
    /\ \A a \in Actor : Saving(a) /\ actor[a].alone =>
         \/ Due
         \/ /\ actor[a].table = proc[actor[a].p].table
            /\ actor[a].pc # "get" => actor[a].opt = proc[actor[a].p].opt

LEMMA SyncStep ==
    ASSUME TypeInv, LockInv, AloneInv, SyncInv, [Next]_vars
    PROVE  SyncInv'
<1> USE DEF SyncInv, Memory, Due, Saving
<1>1. ASSUME NEW p \in Proc, OnlyProgram(p), Turns(p) \/ Loads(p) \/ Chooses(p) \/ Lists(p)
      PROVE  SyncInv'
  <2>1. \A a \in Actor : actor[a].pc # "idle" => actor[a].p # p /\ actor[a].p \in Proc
    BY <1>1 DEF TypeInv, AtWork, Turns, Loads, Chooses, Lists, Actor
  <2>2. \A a \in Actor : Saving(a) => proc'[actor[a].p] = proc[actor[a].p]
    BY <1>1, <2>1 DEF OnlyProgram
  <2>3. proc'[p].pc = "manage" /\ ~ lost' => disk = Memory(p)'
    <3>1. disk = [table |-> disk.table, opt |-> disk.opt]
      BY DEF TypeInv, Types
    <3> QED BY <1>1, <3>1 DEF OnlyProgram, Turns, Loads, Chooses, Lists
  <2>4. proc'[p].pc = "serve" /\ ~ lost' => disk = Memory(p)'
    BY <1>1 DEF OnlyProgram, Turns, Loads, Chooses, Lists
  <2>5. ASSUME NEW q \in Proc \ {p}, proc[q].pc \in {"manage", "serve"}
        PROVE  lost' = lost
    <3>1. ~ Loads(p)
      BY <2>5, OneRuns DEF Exclusive, Running, Loads
    <3> QED BY <1>1, <3>1 DEF Turns, Chooses, Lists
  <2> QED BY <1>1, <2>2, <2>3, <2>4, <2>5 DEF OnlyProgram
<1>2. ASSUME NEW p \in Proc, Dies(p) PROVE SyncInv'
  <2>1. ASSUME NEW q \in Proc \ {p}, Running(q), NEW a \in Actor, actor[a].pc # "idle"
        PROVE  actor'[a] = actor[a]
    <3>1. actor[a].p = q
      BY <2>1, WorkOfOne
    <3> QED BY <1>2, <3>1 DEF Dies
  <2>2. ASSUME NEW q \in Proc, proc'[q].pc \in {"manage", "serve"}
        PROVE  q # p /\ Running(q) /\ proc'[q] = proc[q]
    BY <1>2, <2>2 DEF Dies, Running
  <2>3. ASSUME NEW a \in Actor, Saving(a)'
        PROVE  /\ Saving(a) /\ actor'[a] = actor[a] /\ actor[a].p \in Proc \ {p}
               /\ proc'[actor[a].p] = proc[actor[a].p] /\ Running(actor[a].p)
    BY <1>2, <2>3 DEF Dies, TypeInv, AtWork, Running, Actor
  <2>4. ASSUME NEW q \in Proc, proc'[q].pc \in {"manage", "serve"}, ~ lost'
        PROVE  \/ disk' = Memory(q)'
               \/ proc'[q].pc = "serve" /\ (Due' \/ \E a \in Actor : Saving(a)')
    <3>1. q # p /\ Running(q) /\ proc'[q] = proc[q] /\ UNCHANGED <<disk, lost>>
      BY <1>2, <2>2, <2>4 DEF Dies
    <3> QED BY <2>1, <2>4, <3>1
  <2>5. ASSUME NEW a \in Actor, Saving(a)', Due PROVE Due'
    BY <2>1, <2>3, <2>5
  <2> QED BY <2>3, <2>4, <2>5
<1>3. ASSUME NEW p \in Proc, ListEnd(p) PROVE SyncInv'
  <2>1. /\ Due' /\ UNCHANGED <<disk, lost>>
        /\ \A q \in Proc \ {p} : proc'[q] = proc[q]
        /\ proc'[p].pc = "saving"
    BY <1>3, ListEndIs DEF Actor
  <2> QED BY <2>1
<1>4. ASSUME NEW p \in Proc, ListDone(p) PROVE SyncInv'
  <2>1. \A a \in Actor : actor[a].pc # "idle" => actor[a].p # p /\ actor[a].p \in Proc
    BY <1>4, ListDoneIs DEF TypeInv, AtWork, Actor
  <2> QED BY <1>4, <2>1, ListDoneIs DEF OnlyProgram
<1>5. ASSUME NEW s \in Session, NEW p \in Proc, SessionWorks(s, p) PROVE SyncInv'
  <2>1. \A q \in Proc : proc'[q].pc = proc[q].pc /\ UNCHANGED <<disk, lost>>
    BY <1>5 DEF SessionWorks
  <2>2. s \in Actor
    BY DEF Actor
  <2>3. CASE actor'[s].pc = "list"
    <3>1. Due' /\ \A q \in Proc : proc[q].pc = "manage" => proc'[q] = proc[q]
      BY <1>5, <2>2, <2>3 DEF SessionWorks
    <3> QED BY <2>1, <3>1
  <2>4. CASE proc' = proc /\ actor'[s].pc \in {"idle", "create"}
    <3>1. \A a \in Actor : \/ actor'[a] = actor[a]
                           \/ actor[a].pc \in {"idle", "create"}
                              /\ actor'[a].pc \in {"idle", "create"}
      BY <1>5, <2>4 DEF SessionWorks, OnlyActor
    <3> QED BY <2>1, <2>4, <3>1
  <2> QED BY <1>5, <2>3, <2>4 DEF SessionWorks
<1>6. ASSUME NEW a \in Actor, Takes(a) PROVE SyncInv'
  <2>1. \A b \in Actor \ {a} : Saving(b)' => ~ actor'[b].alone
    BY <1>6 DEF Takes
  <2> QED BY <1>6, <2>1 DEF Takes
<1>7. ASSUME NEW a \in Actor, Copies(a) PROVE SyncInv'
  <2>1. Saving(a) /\ Saving(a)' /\ (Due => Due')
    BY <1>7 DEF Copies, OnlyActor
  <2>2. \A b \in Actor \ {a} : Saving(b)' => ~ actor'[b].alone
    BY <1>7, <2>1 DEF Copies, OnlyActor, AloneInv
  <2>3. actor[a].p \in Proc
    BY <2>1 DEF TypeInv, AtWork
  <2>4. \A q \in Proc : proc[q].pc # "manage"
    BY <2>1, WorkOfOne DEF Running, TypeInv, AtWork, Actor
  <2>5. actor'[a].alone => Due' \/ /\ actor'[a].table = proc'[actor[a].p].table
                                   /\ actor'[a].opt = proc'[actor[a].p].opt
    <3>1. /\ actor'[a].alone = actor[a].alone /\ actor'[a].table = actor[a].table
          /\ proc'[actor[a].p].table = proc[actor[a].p].table
      BY <1>7, <2>3 DEF Copies
    <3>2. actor'[a].opt = proc'[actor[a].p].opt
      BY <1>7, <2>3 DEF Copies
    <3> QED BY <2>1, <3>1, <3>2
  <2>6. actor'[a].p = actor[a].p /\ \A q \in Proc : proc'[q].pc = proc[q].pc
    BY <1>7 DEF Copies
  <2> QED BY <2>1, <2>2, <2>4, <2>5, <2>6
<1>8. ASSUME NEW a \in Actor, Writes(a) PROVE SyncInv'
  <2>1. proc' = proc /\ Saving(a) /\ (Due => Due')
    BY <1>8 DEF Writes, OnlyActor
  <2>2. \A b \in Actor \ {a} : Saving(b)' => ~ actor'[b].alone
    BY <1>8, <2>1 DEF Writes, OnlyActor, AloneInv
  <2>3. CASE actor'[a].pc = "commit"
    BY <1>8, <2>1, <2>2, <2>3 DEF Writes
  <2>4. CASE actor'[a].pc = "idle" /\ lost'
    BY <2>1, <2>2, <2>4
  <2>5. CASE actor'[a].pc = "idle" /\ ~ lost'
    <3>1. /\ disk' = [table |-> actor[a].table, opt |-> actor[a].opt]
          /\ actor[a].pc = "commit" /\ actor[a].alone
      BY <1>8, <2>5 DEF Writes, TypeInv, Types, ActorRecord
    <3>2. \A q \in Proc : Running(q) => q = actor[a].p
      BY <3>1, WorkOfOne
    <3>3. \A q \in Proc : proc[q].pc # "manage"
      BY <3>1, WorkOfOne DEF Running, TypeInv, AtWork, Actor
    <3>4. Due \/ disk' = Memory(actor[a].p)
      BY <2>1, <3>1
    <3>5. \A q \in Proc : proc[q].pc = "serve" => Due' \/ disk' = Memory(q)'
      BY <2>1, <3>2, <3>4 DEF Running
    <3> QED BY <2>1, <2>2, <2>5, <3>3, <3>5
  <2>6. lost' \in BOOLEAN
    BY <1>8 DEF Writes
  <2> QED BY <1>8, <2>3, <2>4, <2>5, <2>6 DEF Writes
<1>9. CASE UNCHANGED vars
  BY <1>9 DEF vars
<1> QED BY <1>1, <1>2, <1>3, <1>4, <1>5, <1>6, <1>7, <1>8, <1>9, Kinds

\* Whenever no session is at work, the file has what the program has in memory, unless
\* a save failed or overlapped with another since the last that did not (main.go:536-571).
\* Whether what is in memory is what the sessions were told is SettingsSurvive's subject.
THEOREM AcceptedIsSaved == Spec => []SavedAtRest
<1>1. Init => AloneInv /\ SyncInv
  BY DEF Init, AloneInv, SyncInv, Saving, Off, Rest
<1>2. LockInv /\ TypeInv /\ AloneInv /\ [Next]_vars => AloneInv'
  BY AloneStep
<1>3. LockInv /\ TypeInv /\ AloneInv /\ SyncInv /\ [Next]_vars => SyncInv'
  BY SyncStep
<1>4. SyncInv => SavedAtRest
  BY DEF SyncInv, SavedAtRest, Memory, Due, Saving
<1> QED BY <1>1, <1>2, <1>3, <1>4, Inductive, PTL DEF Spec
------------------------------------------------------------------------------
(* The options *)

\* The options in memory are those asked for, and so are those that calls of
\* saveConfig are about to set; or there was a race.
KeptInv ==
    \A p \in Proc : \/ proc[p].raced
                    \/ /\ proc[p].opt = proc[p].asked
                       /\ \A a \in Actor : Copying(a, p) => actor[a].opt = proc[p].asked

\* A step that leaves the options of program p alone, and begins no copy of them.
Steady(p) ==
    /\ proc'[p].opt = proc[p].opt /\ proc'[p].asked = proc[p].asked
    /\ proc'[p].raced = proc[p].raced
    /\ \A a \in Actor : Copying(a, p)' => Copying(a, p) /\ actor'[a].opt = actor[a].opt

\* A step that gives it those of a new program, or of the file.
Fresh(p) == proc'[p].opt = proc'[p].asked /\ \A a \in Actor : ~ Copying(a, p)'

LEMMA SteadyKeeps ==
    ASSUME KeptInv, \A p \in Proc : Steady(p) \/ Fresh(p)
    PROVE  KeptInv'
BY DEF KeptInv, Steady, Fresh

LEMMA ProgramSteady ==
    ASSUME TypeInv, NEW p \in Proc, ProcStep(p)
    PROVE  \A q \in Proc : Steady(q) \/ Fresh(q)
<1> USE DEF Copying
<1>1. proc \in [Proc -> ProcRecord] /\ actor \in [Actor -> ActorRecord]
  BY DEF TypeInv, Types
<1>2. ASSUME actor' = actor, NEW q \in Proc \ {p}, proc'[q] = proc[q] PROVE Steady(q)
  BY <1>2 DEF Steady
<1>3. ASSUME proc[p].pc \notin {"serve", "saving"}, actor' = actor,
             proc'[p].opt = proc'[p].asked
      PROVE  Fresh(p)
  BY <1>3 DEF Fresh, TypeInv, AtWork, Actor
<1>4. CASE Start(p)
  <2>1. /\ proc[p].pc = "off" /\ actor' = actor
        /\ \A q \in Proc \ {p} : proc'[q] = proc[q]
        /\ proc'[p].opt = proc'[p].asked
    BY <1>1, <1>4 DEF Start, Off
  <2> QED BY <1>2, <1>3, <2>1
<1>5. CASE Load(p)
  <2>1. OnlyProgram(p) /\ proc[p].pc = "load" /\ proc'[p].opt = proc'[p].asked
    BY <1>5, LoadIs DEF Load
  <2> QED BY <1>2, <1>3, <2>1 DEF OnlyProgram
<1>6. CASE Unlock(p)
  <2>1. proc[p].pc = "unlock" /\ actor' = actor
    BY <1>6 DEF Unlock
  <2>2. CASE proc[p].locks = {}
    <3>1. (\A q \in Proc \ {p} : proc'[q] = proc[q]) /\ proc'[p].opt = proc'[p].asked
      BY <1>1, <1>6, <2>2 DEF Unlock, Off
    <3> QED BY <1>2, <1>3, <2>1, <3>1
  <2>3. CASE proc[p].locks # {}
    BY <1>1, <1>6, <2>1, <2>3 DEF Unlock, ProcRecord, Steady
  <2> QED BY <2>2, <2>3
<1>7. CASE Kill(p)
  <2>1. /\ \A q \in Proc \ {p} : proc'[q] = proc[q]
        /\ proc'[p].opt = proc'[p].asked
        /\ \A a \in Actor : actor'[a] = IF actor[a].p = p THEN Rest ELSE actor[a]
    BY <1>1, <1>7 DEF Kill, Off
  <2>2. Fresh(p)
    BY <2>1 DEF Fresh, Rest
  <2>3. \A q \in Proc \ {p} : Steady(q)
    BY <2>1 DEF Steady, Rest
  <2> QED BY <2>2, <2>3
<1>8. CASE LockTaken(p) \/ LockRefused(p) \/ LoadFails(p) \/ Manage(p)
           \/ ListRefused(p) \/ ListDone(p)
  BY <1>1, <1>8 DEF LockTaken, LockRefused, LoadFails, Manage, ListRefused, ListDone,
                    ProcRecord, Steady
<1>9. ASSUME NEW d \in 1..MaxId, DeleteLine(p, d) PROVE \A q \in Proc : Steady(q)
  BY <1>1, <1>9 DEF DeleteLine, ProcRecord, Steady
<1>10. ASSUME NEW d \in 1..MaxId, PurgeLine(p, d) PROVE \A q \in Proc : Steady(q)
  <2>1. PICK t, g : proc' = [proc EXCEPT ![p].table = t, ![p].gone = g]
    BY <1>10, Zenon DEF PurgeLine
  <2> QED BY <1>1, <1>10, <2>1 DEF PurgeLine, ProcRecord, Steady
<1>11. ASSUME NEW d \in 1..MaxId, ImportLine(p, d) PROVE \A q \in Proc : Steady(q)
  <2>1. PICK t, n : proc' = [proc EXCEPT ![p].table = t, ![p].named = n]
    BY <1>11, Zenon DEF ImportLine
  <2> QED BY <1>1, <1>11, <2>1 DEF ImportLine, ProcRecord, Steady
<1>12. CASE ImportAuto(p)
  <2>1. PICK t, v : proc' = [proc EXCEPT ![p].table = t, ![p].value = v]
    BY <1>12, Zenon DEF ImportAuto
  <2> QED BY <1>1, <1>12, <2>1 DEF ImportAuto, ProcRecord, Steady
<1>13. CASE ListEnd(p)
  <2>1. /\ actor'[p].pc = "list" /\ \A a \in Actor \ {p} : actor'[a] = actor[a]
        /\ proc' = [proc EXCEPT ![p].pc = "saving"]
    BY <1>13, ListEndIs DEF OnlyActor, ListEnd
  <2> QED BY <1>1, <2>1 DEF ProcRecord, Steady
<1> QED BY <1>4, <1>5, <1>6, <1>7, <1>8, <1>9, <1>10, <1>11, <1>12, <1>13 DEF ProcStep

\* Settings saved: a race, or nobody holds older ones.
LEMMA SettingsKept ==
    ASSUME TypeInv, KeptInv, NEW s \in Session, NEW p \in Proc, NEW o \in Setting,
           SaveSettings(s, p, o)
    PROVE  KeptInv'
<1> DEFINE raced == \E a \in Actor : Copying(a, p)
<1>1. proc \in [Proc -> ProcRecord] /\ actor \in [Actor -> ActorRecord] /\ s \in Actor
  BY DEF TypeInv, Types, Actor
<1>2. raced \in BOOLEAN
  OBVIOUS
<1>3. /\ actor' = [actor EXCEPT ![s] = [Rest EXCEPT !.pc = "list", !.p = p]]
      /\ proc' = [proc EXCEPT ![p].opt = o, ![p].asked = o, ![p].raced = raced]
  BY DEF SaveSettings, Change
<1> HIDE DEF raced
<1>4. /\ proc'[p].opt = o /\ proc'[p].asked = o /\ proc'[p].raced = raced
      /\ \A q \in Proc \ {p} : proc'[q] = proc[q]
  BY <1>1, <1>2, <1>3 DEF ProcRecord
<1>5. actor'[s].pc = "list" /\ \A a \in Actor \ {s} : actor'[a] = actor[a]
  BY <1>1, <1>3 DEF Rest
<1>6. \A a \in Actor, q \in Proc : Copying(a, q)' => Copying(a, q) /\ actor'[a] = actor[a]
  BY <1>5 DEF Copying
<1>7. ~ raced => \A a \in Actor : ~ Copying(a, p)
  BY DEF raced
<1> QED BY <1>4, <1>6, <1>7 DEF KeptInv

\* A call of saveConfig takes the options of its program, or sets those it took.
LEMMA CopyKept ==
    ASSUME TypeInv, KeptInv, NEW a \in Actor, GetOptions(a) \/ SetOptions(a)
    PROVE  KeptInv'
<1> DEFINE p == actor[a].p
<1>1. /\ proc \in [Proc -> ProcRecord] /\ actor \in [Actor -> ActorRecord]
      /\ p \in Proc
  BY DEF TypeInv, Types, AtWork, GetOptions, SetOptions
<1>2. /\ actor'[a].p = p /\ \A b \in Actor \ {a} : actor'[b] = actor[b]
  BY <1>1, CopyIs DEF Copies, OnlyActor
<1>3. CASE GetOptions(a)
  <2>1. proc' = proc /\ actor'[a].opt = proc[p].opt
    BY <1>1, <1>3 DEF GetOptions, ActorRecord
  <2> QED BY <1>1, <1>2, <2>1 DEF KeptInv, Copying
<1>4. CASE SetOptions(a)
  <2>1. /\ actor[a].pc = "set" /\ actor' = [actor EXCEPT ![a].pc = "begin"]
        /\ proc' = [proc EXCEPT ![p].opt = actor[a].opt]
    BY <1>4 DEF SetOptions
  <2>2. actor'[a].pc = "begin"
    BY <1>1, <2>1 DEF ActorRecord
  <2>3. /\ proc'[p].opt = actor[a].opt /\ proc'[p].asked = proc[p].asked
        /\ proc'[p].raced = proc[p].raced
        /\ \A q \in Proc \ {p} : proc'[q] = proc[q]
    BY <1>1, <2>1 DEF ProcRecord
  <2>4. proc[p].raced \/ actor[a].opt = proc[p].asked
    BY <1>1, <2>1 DEF KeptInv, Copying
  <2> QED BY <1>1, <1>2, <2>2, <2>3, <2>4 DEF KeptInv, Copying
<1> QED BY <1>3, <1>4

\* The other steps of sessions and of saveConfig leave the options alone.
LEMMA SessionSteady ==
    ASSUME TypeInv, NEW s \in Session, SessionStep(s),
           ~ \E p \in Proc, o \in Setting : SaveSettings(s, p, o)
    PROVE  \A q \in Proc : Steady(q)
<1>1. proc \in [Proc -> ProcRecord] /\ actor \in [Actor -> ActorRecord] /\ s \in Actor
  BY DEF TypeInv, Types, Actor
<1>2. PICK p \in Proc : SessionWorks(s, p)
  BY SessionIs
<1>3. \A a \in Actor, q \in Proc : Copying(a, q)' => Copying(a, q) /\ actor'[a] = actor[a]
  BY <1>2 DEF SessionWorks, OnlyActor, Copying
<1>4. \/ proc' = proc
      \/ \E q, t : proc' = [proc EXCEPT ![q].table = t]
  <2>1. CASE \E q \in Proc, d \in 1..MaxId, v \in {"edited", "deleted"} : Edit(s, q, d, v)
    <3>1. PICK q \in Proc, d \in 1..MaxId, v \in {"edited", "deleted"} :
            proc' = [proc EXCEPT ![q].table[d] = v]
      BY <2>1 DEF Edit
    <3>2. proc' = [proc EXCEPT ![q].table = [proc[q].table EXCEPT ![d] = v]]
      BY <3>1
    <3> QED BY <3>2
  <2>2. CASE \E q \in Proc : CreateId(s, q)
    BY <2>2 DEF CreateId
  <2>3. CASE Create(s)
    BY <2>3, Zenon DEF Create
  <2> QED BY <2>1, <2>2, <2>3 DEF SessionStep
<1>5. \A q \in Proc : /\ proc'[q].opt = proc[q].opt /\ proc'[q].asked = proc[q].asked
                      /\ proc'[q].raced = proc[q].raced
  BY <1>1, <1>4 DEF ProcRecord
<1> QED BY <1>3, <1>5 DEF Steady

LEMMA SaveSteady ==
    ASSUME TypeInv, NEW a \in Actor, SaveStep(a), ~ (GetOptions(a) \/ SetOptions(a))
    PROVE  \A q \in Proc : Steady(q)
<1>1. CASE List(a)
  BY <1>1, ListTakes DEF Takes, Steady, Copying
<1>2. CASE SaveBegin(a) \/ SaveCommit(a) \/ SaveFails(a)
  <2>1. actor'[a].pc # "set"
    BY <1>2, WriteIs DEF Writes
  <2> QED BY <1>2, <2>1, WriteIs DEF Writes, OnlyActor, Steady, Copying
<1> QED BY <1>1, <1>2 DEF SaveStep

\* The options of a program are those last saved in a settings window, or loaded,
\* however many calls of saveConfig take them and set them again, in any order and with
\* any failures; but for those saved while such a call is between its Get and its Set
\* (main.go:541-543, web_ui.go:1154).
THEOREM SettingsSurvive == Spec => []SettingKept
<1>1. Init => KeptInv
  BY DEF Init, KeptInv, Copying, Off, Rest
<1>2. LockInv /\ TypeInv /\ KeptInv /\ [Next]_vars => KeptInv'
  <2> SUFFICES ASSUME TypeInv, KeptInv, [Next]_vars PROVE KeptInv'
    OBVIOUS
  <2>1. ASSUME NEW p \in Proc, ProcStep(p) PROVE KeptInv'
    BY <2>1, ProgramSteady, SteadyKeeps
  <2>2. ASSUME NEW s \in Session, SessionStep(s) PROVE KeptInv'
    BY <2>2, SettingsKept, SessionSteady, SteadyKeeps
  <2>3. ASSUME NEW a \in Actor, SaveStep(a) PROVE KeptInv'
    BY <2>3, CopyKept, SaveSteady, SteadyKeeps
  <2>4. CASE UNCHANGED vars
    BY <2>4 DEF vars, KeptInv, Copying
  <2> QED BY <2>1, <2>2, <2>3, <2>4 DEF Next
<1>3. KeptInv => SettingKept
  BY DEF KeptInv, SettingKept
<1> QED BY <1>1, <1>2, <1>3, Inductive, PTL DEF Spec
==============================================================================
