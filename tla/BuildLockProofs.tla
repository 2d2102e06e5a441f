--------------------------- MODULE BuildLockProofs ---------------------------
(* Theorems about BuildLock, for any number of processes and entries and    *)
(* any thresholds.                                                          *)
EXTENDS BuildLock, TLAPS

USE NoFileAssumption, OldAssumption, EntriesAssumption, TimeAssumption, IoErrorsAssumption

(* The actions of one process, with the disjuncts of Next named.            *)
LEMMA StepCases ==
  ASSUME Next
  PROVE  \/ \E p \in Proc :
              \/ Start(p) \/ Stat(p) \/ Judge(p) \/ CheckDeadline(p) \/ CheckTmp(p)
              \/ RemoveOldTmp(p, "rmOld", "rename") \/ RenameTmp(p) \/ RemoveTmp(p)
              \/ RemoveOldTmp(p, "rmOldAgain", "create") \/ CreateTmp(p)
              \/ Heartbeat(p) \/ CreatePkgDir(p)
              \/ (\E n \in Name : WriteEntry(p, n)) \/ BuildFails(p)
              \/ BeginFinish(p) \/ JoinHeartbeat(p) \/ ReadDir(p)
              \/ (\E n \in Name : ClearDest(p, n)) \/ MoveEntry(p) \/ RemoveTmpDir(p)
              \/ Crash(p)
         \/ Tick
BY DEF Next, Acquire, RunBuild, Finish

-----------------------------------------------------------------------------
(* Type correctness, in two halves: the control points and the rest.        *)
ControlOK == pc \in [Proc -> Control]

DataOK ==
  /\ tmp \in BOOLEAN
  /\ tmpAge \in 0..Stale
  /\ staged \in [Name -> Proc \cup {NoFile, Old}]
  /\ oldtmp \in BOOLEAN
  /\ published \in [Name -> Proc \cup {NoFile, Old}]
  /\ waited \in [Proc -> 0..MaxWait]
  /\ seen \in [Proc -> 0..Stale]
  /\ todo \in [Proc -> SUBSET Name]
  /\ cur \in [Proc -> Name \cup {NoFile}]
  /\ hb \in [Proc -> {"off", "awake", "asleep"}]
  /\ hazards \subseteq {"overlap", "staleRead", "lateBeat", "slowFinish"}

LEMMA TypeSplit == TypeOK <=> ControlOK /\ DataOK
BY DEF TypeOK, ControlOK, DataOK

LEMMA TypeInit == Init => TypeOK
<1> SUFFICES ASSUME Init PROVE TypeOK
  OBVIOUS
<1>1. staged \in [Name -> Proc \cup {NoFile, Old}]
  BY DEF Init
<1>2. published \in [Name -> Proc \cup {NoFile, Old}]
  BY DEF Init
<1>. QED
  BY <1>1, <1>2 DEF Init, TypeOK, Control

LEMMA ControlStep == ControlOK /\ [Next]_vars => ControlOK'
<1> SUFFICES ASSUME ControlOK, [Next]_vars PROVE ControlOK'
  OBVIOUS
<1>0. {"idle", "stat", "judge", "deadline", "clean", "rmOld", "rename", "rmTmp", "rmOldAgain",
       "create", "compile", "build", "stopping", "readdir", "publish", "move",
       "dropping", "done", "failed", "crashed"} = Control
  BY DEF Control, Waiting, Takeover, Holding, Building, Finishing, Over
<1>1. ASSUME NEW p \in Proc, Start(p) PROVE ControlOK'
  BY <1>1, <1>0 DEF ControlOK, Goto, disk, local, Start
<1>2. ASSUME NEW p \in Proc, Stat(p) PROVE ControlOK'
  BY <1>2, <1>0 DEF ControlOK, Goto, disk, local, Stat, PassWait
<1>3. ASSUME NEW p \in Proc, Judge(p) PROVE ControlOK'
  BY <1>3, <1>0 DEF ControlOK, Goto, disk, local, Judge, PassWait
<1>4. ASSUME NEW p \in Proc, CheckTmp(p) PROVE ControlOK'
  BY <1>4, <1>0 DEF ControlOK, Goto, disk, local, CheckTmp
<1>5. ASSUME NEW p \in Proc, RemoveOldTmp(p, "rmOld", "rename") PROVE ControlOK'
  BY <1>5, <1>0 DEF ControlOK, Goto, disk, local, RemoveOldTmp
<1>6. ASSUME NEW p \in Proc, RenameTmp(p) PROVE ControlOK'
  BY <1>6, <1>0 DEF ControlOK, Goto, disk, local, RenameTmp, EmptyTmp
<1>7. ASSUME NEW p \in Proc, RemoveTmp(p) PROVE ControlOK'
  BY <1>7, <1>0 DEF ControlOK, Goto, disk, local, RemoveTmp, EmptyTmp
<1>8. ASSUME NEW p \in Proc, RemoveOldTmp(p, "rmOldAgain", "create") PROVE ControlOK'
  BY <1>8, <1>0 DEF ControlOK, Goto, disk, local, RemoveOldTmp
<1>9. ASSUME NEW p \in Proc, CreateTmp(p) PROVE ControlOK'
  BY <1>9, <1>0 DEF ControlOK, Goto, disk, local, CreateTmp, MakeTmp, EmptyTmp
<1>10. ASSUME NEW p \in Proc, Heartbeat(p) PROVE ControlOK'
  BY <1>10, <1>0 DEF ControlOK, Goto, disk, local, Heartbeat
<1>11. ASSUME NEW p \in Proc, CreatePkgDir(p) PROVE ControlOK'
  BY <1>11, <1>0 DEF ControlOK, Goto, disk, local, CreatePkgDir, MakeTmp, EmptyTmp
<1>12. ASSUME NEW p \in Proc, NEW n \in Name, WriteEntry(p, n) PROVE ControlOK'
  BY <1>12, <1>0 DEF ControlOK, Goto, disk, local, WriteEntry
<1>13. ASSUME NEW p \in Proc, BuildFails(p) PROVE ControlOK'
  BY <1>13, <1>0 DEF ControlOK, Goto, disk, local, BuildFails
<1>14. ASSUME NEW p \in Proc, BeginFinish(p) PROVE ControlOK'
  BY <1>14, <1>0 DEF ControlOK, Goto, disk, local, BeginFinish
<1>15. ASSUME NEW p \in Proc, JoinHeartbeat(p) PROVE ControlOK'
  BY <1>15, <1>0 DEF ControlOK, Goto, disk, local, JoinHeartbeat
<1>16. ASSUME NEW p \in Proc, ReadDir(p) PROVE ControlOK'
  BY <1>16, <1>0 DEF ControlOK, Goto, disk, local, ReadDir
<1>17. ASSUME NEW p \in Proc, NEW n \in Name, ClearDest(p, n) PROVE ControlOK'
  BY <1>17, <1>0 DEF ControlOK, Goto, disk, local, ClearDest
<1>18. ASSUME NEW p \in Proc, MoveEntry(p) PROVE ControlOK'
  BY <1>18, <1>0 DEF ControlOK, Goto, disk, local, MoveEntry
<1>19. ASSUME NEW p \in Proc, RemoveTmpDir(p) PROVE ControlOK'
  BY <1>19, <1>0 DEF ControlOK, Goto, disk, local, RemoveTmpDir
<1>20. ASSUME NEW p \in Proc, Crash(p) PROVE ControlOK'
  BY <1>20, <1>0 DEF ControlOK, Goto, disk, local, Crash
<1>21. CASE Tick
  BY <1>21, <1>0 DEF ControlOK, Goto, disk, local, Tick, Older
<1>23. ASSUME NEW p \in Proc, CheckDeadline(p) PROVE ControlOK'
  BY <1>23, <1>0 DEF ControlOK, Goto, disk, local, CheckDeadline
<1>22. CASE UNCHANGED vars
  BY <1>22, <1>0 DEF ControlOK, Goto, disk, local, vars
<1>. QED
  <2>1. CASE Next
    BY <1>1, <1>2, <1>3, <1>4, <1>5, <1>6, <1>7, <1>8, <1>9, <1>10, <1>11,
       <1>12, <1>13, <1>14, <1>15, <1>16, <1>17, <1>18, <1>19, <1>20, <1>21, <1>23,
       <2>1, StepCases
  <2>. QED
    BY <2>1, <1>22

LEMMA DataStep == DataOK /\ [Next]_vars => DataOK'
<1> SUFFICES ASSUME DataOK, [Next]_vars PROVE DataOK'
  OBVIOUS
<1>1. ASSUME NEW p \in Proc, Start(p) PROVE DataOK'
  BY <1>1 DEF DataOK, disk, local, Start
<1>2. ASSUME NEW p \in Proc, Stat(p) PROVE DataOK'
  <2>1. seen' \in [Proc -> 0..Stale]
    BY <1>2 DEF DataOK, disk, local, Stat, PassWait
  <2>2. waited' \in [Proc -> 0..MaxWait]
    BY <1>2 DEF DataOK, disk, local, Stat, PassWait
  <2>3. UNCHANGED <<tmp, tmpAge, staged, oldtmp, published, todo, cur, hb>>
    BY <1>2 DEF disk, local, Stat, PassWait
  <2>4. hazards' \subseteq {"overlap", "staleRead", "lateBeat", "slowFinish"}
    BY <1>2 DEF DataOK, Stat, PassWait
  <2>. QED
    BY <2>1, <2>2, <2>3, <2>4 DEF DataOK
<1>3. ASSUME NEW p \in Proc, Judge(p) PROVE DataOK'
  <2>1. seen' \in [Proc -> 0..Stale]
    BY <1>3 DEF DataOK, disk, local, Judge, PassWait
  <2>2. waited' \in [Proc -> 0..MaxWait]
    BY <1>3 DEF DataOK, disk, local, Judge, PassWait
  <2>3. UNCHANGED <<tmp, tmpAge, staged, oldtmp, published, todo, cur, hb>>
    BY <1>3 DEF disk, local, Judge, PassWait
  <2>4. hazards' \subseteq {"overlap", "staleRead", "lateBeat", "slowFinish"}
    BY <1>3 DEF DataOK, Judge, PassWait
  <2>. QED
    BY <2>1, <2>2, <2>3, <2>4 DEF DataOK
<1>4. ASSUME NEW p \in Proc, CheckTmp(p) PROVE DataOK'
  BY <1>4 DEF DataOK, disk, local, CheckTmp
<1>5. ASSUME NEW p \in Proc, RemoveOldTmp(p, "rmOld", "rename") PROVE DataOK'
  BY <1>5 DEF DataOK, disk, local, RemoveOldTmp
<1>6. ASSUME NEW p \in Proc, RenameTmp(p) PROVE DataOK'
  BY <1>6 DEF DataOK, disk, local, RenameTmp, EmptyTmp
<1>7. ASSUME NEW p \in Proc, RemoveTmp(p) PROVE DataOK'
  BY <1>7 DEF DataOK, disk, local, RemoveTmp, EmptyTmp
<1>8. ASSUME NEW p \in Proc, RemoveOldTmp(p, "rmOldAgain", "create") PROVE DataOK'
  BY <1>8 DEF DataOK, disk, local, RemoveOldTmp
<1>9. ASSUME NEW p \in Proc, CreateTmp(p) PROVE DataOK'
  <2>1. hb' \in [Proc -> {"off", "awake", "asleep"}]
    BY <1>9 DEF DataOK, disk, local, CreateTmp, MakeTmp, EmptyTmp
  <2>2. staged' \in [Name -> Proc \cup {NoFile, Old}]
    BY <1>9 DEF DataOK, disk, local, CreateTmp, MakeTmp, EmptyTmp
  <2>3. tmpAge' \in 0..Stale
    BY <1>9 DEF DataOK, disk, local, CreateTmp, MakeTmp, EmptyTmp
  <2>4. tmp' \in BOOLEAN
    BY <1>9 DEF DataOK, disk, local, CreateTmp, MakeTmp, EmptyTmp
  <2>5. UNCHANGED <<oldtmp, published, waited, seen, todo, cur>>
    BY <1>9 DEF disk, local, CreateTmp, MakeTmp, EmptyTmp
  <2>6. hazards' \subseteq {"overlap", "staleRead", "lateBeat", "slowFinish"}
    BY <1>9 DEF DataOK, CreateTmp, MakeTmp, EmptyTmp
  <2>. QED
    BY <2>1, <2>2, <2>3, <2>4, <2>5, <2>6 DEF DataOK
<1>10. ASSUME NEW p \in Proc, Heartbeat(p) PROVE DataOK'
  BY <1>10 DEF DataOK, disk, local, Heartbeat
<1>11. ASSUME NEW p \in Proc, CreatePkgDir(p) PROVE DataOK'
  BY <1>11 DEF DataOK, disk, local, CreatePkgDir, MakeTmp, EmptyTmp
<1>12. ASSUME NEW p \in Proc, NEW n \in Name, WriteEntry(p, n) PROVE DataOK'
  BY <1>12 DEF DataOK, disk, local, WriteEntry
<1>13. ASSUME NEW p \in Proc, BuildFails(p) PROVE DataOK'
  BY <1>13 DEF DataOK, disk, local, BuildFails
<1>14. ASSUME NEW p \in Proc, BeginFinish(p) PROVE DataOK'
  BY <1>14 DEF DataOK, disk, local, BeginFinish
<1>15. ASSUME NEW p \in Proc, JoinHeartbeat(p) PROVE DataOK'
  BY <1>15 DEF DataOK, disk, local, JoinHeartbeat
<1>16. ASSUME NEW p \in Proc, ReadDir(p) PROVE DataOK'
  <2>1. todo' \in [Proc -> SUBSET Name]
    BY <1>16 DEF DataOK, disk, local, ReadDir
  <2>2. UNCHANGED <<tmp, tmpAge, staged, oldtmp, published, waited, seen, cur, hb>>
    BY <1>16 DEF disk, local, ReadDir
  <2>3. hazards' \subseteq {"overlap", "staleRead", "lateBeat", "slowFinish"}
    BY <1>16 DEF DataOK, ReadDir
  <2>. QED
    BY <2>1, <2>2, <2>3 DEF DataOK
<1>17. ASSUME NEW p \in Proc, NEW n \in Name, ClearDest(p, n) PROVE DataOK'
  BY <1>17 DEF DataOK, disk, local, ClearDest
<1>18. ASSUME NEW p \in Proc, MoveEntry(p) PROVE DataOK'
  BY <1>18 DEF DataOK, disk, local, MoveEntry
<1>19. ASSUME NEW p \in Proc, RemoveTmpDir(p) PROVE DataOK'
  BY <1>19 DEF DataOK, disk, local, RemoveTmpDir
<1>20. ASSUME NEW p \in Proc, Crash(p) PROVE DataOK'
  BY <1>20 DEF DataOK, disk, local, Crash
<1>21. CASE Tick
  BY <1>21 DEF DataOK, disk, local, Tick, Older
<1>23. ASSUME NEW p \in Proc, CheckDeadline(p) PROVE DataOK'
  BY <1>23 DEF DataOK, disk, local, CheckDeadline
<1>22. CASE UNCHANGED vars
  BY <1>22 DEF DataOK, disk, local, vars
<1>. QED
  <2>1. CASE Next
    BY <1>1, <1>2, <1>3, <1>4, <1>5, <1>6, <1>7, <1>8, <1>9, <1>10, <1>11,
       <1>12, <1>13, <1>14, <1>15, <1>16, <1>17, <1>18, <1>19, <1>20, <1>21, <1>23,
       <2>1, StepCases
  <2>. QED
    BY <2>1, <1>22

(* Type correctness: every variable keeps its type in every behaviour.      *)
THEOREM TypeCorrect == Spec => []TypeOK
<1>1. TypeOK /\ [Next]_vars => TypeOK'
  <2>1. (TypeOK <=> ControlOK /\ DataOK)'
    BY DEF TypeOK, ControlOK, DataOK
  <2>. QED
    BY <2>1, TypeSplit, ControlStep, DataStep
<1>. QED
  BY TypeInit, <1>1, PTL DEF Spec

-----------------------------------------------------------------------------
(* The inductive invariant behind the exclusion of the lock.  Exclusive is  *)
(* not inductive: that a newcomer finds the lease of the holder alive needs *)
(* .tmp to stay in place while a build runs, and that finish publishes a    *)
(* whole build needs to know what is still staged and what has moved, and   *)
(* that an entry is only ever the work of a build whose mode produces it.   *)
Engaged == Takeover \cup Holding

Alone ==
  \A p, q \in Proc : pc[p] \in Engaged /\ pc[q] \in Engaged => p = q

Authored ==
  /\ \A n \in Name, p \in Proc : staged[n] = p \/ published[n] = p => n \in Entries[p]
  /\ \A p \in Proc : pc[p] = "build" => todo[p] \subseteq Entries[p]

Progress(p) ==
  /\ pc[p] \in {"rmOldAgain", "create"} => ~tmp
  /\ pc[p] \in Holding =>
       tmp /\ tmpAge < Stale /\ \A n \in Name : staged[n] \in {NoFile, p}
  /\ pc[p] = "build" => \A n \in Entries[p] \ todo[p] : staged[n] = p
  /\ pc[p] \in {"stopping", "readdir"} => \A n \in Entries[p] : staged[n] = p
  /\ pc[p] \in {"publish", "move"} =>
       /\ \A n \in todo[p] : staged[n] = p
       /\ \A n \in Name \ todo[p] : staged[n] = NoFile
       /\ \A n \in Entries[p] \ todo[p] : published[n] = p
  /\ pc[p] = "move" => cur[p] \in todo[p]

Good == Alone /\ \A p \in Proc : Progress(p)

IInv == TypeOK /\ Authored /\ (hazards = {} => Good)

LEMMA GoodInit == Init => IInv
<1> SUFFICES ASSUME Init PROVE Authored /\ Good
  BY TypeInit DEF IInv
<1>1. Authored
  BY DEF Init, Authored
<1>2. Good
  BY DEF Init, Good, Alone, Progress, Engaged, Takeover, Holding, Building, Finishing
<1>. QED
  BY <1>1, <1>2

(* Authorship survives every step, hazards or not: only WriteEntry signs an *)
(* entry, in a build that still has it to do, and renames only move it.     *)
LEMMA AuthoredStep ==
  ASSUME TypeOK, Authored, Next
  PROVE  Authored'
<1> USE DEF Goto, disk, local, EmptyTmp
<1>1. ASSUME NEW p \in Proc, Acquire(p) PROVE Authored'
  <2>1. /\ UNCHANGED <<published, todo>>
        /\ staged' = staged \/ staged' = EmptyTmp
        /\ \A q \in Proc : pc'[q] = "build" => pc[q] = "build"
    BY <1>1 DEF Acquire, Start, Stat, Judge, PassWait, CheckDeadline, CheckTmp, RemoveOldTmp,
       RenameTmp, RemoveTmp, CreateTmp, MakeTmp, TypeOK
  <2>. QED
    BY <2>1 DEF Authored
<1>2. ASSUME NEW p \in Proc, Heartbeat(p) PROVE Authored'
  BY <1>2 DEF Heartbeat, Authored
<1>3. ASSUME NEW p \in Proc, CreatePkgDir(p) PROVE Authored'
  <2>1. published' = published /\ (staged' = staged \/ staged' = EmptyTmp)
    BY <1>3 DEF CreatePkgDir, MakeTmp
  <2>2. /\ todo'[p] = Entries[p]
        /\ \A q \in Proc \ {p} : pc'[q] = pc[q] /\ todo'[q] = todo[q]
    BY <1>3 DEF CreatePkgDir, TypeOK
  <2>. QED
    BY <2>1, <2>2 DEF Authored
<1>4. ASSUME NEW p \in Proc, NEW n \in Name, WriteEntry(p, n) PROVE Authored'
  <2>1. n \in Entries[p]
    BY <1>4 DEF WriteEntry, Authored
  <2>. QED
    BY <1>4, <2>1 DEF WriteEntry, Authored, TypeOK
<1>5. ASSUME NEW p \in Proc, BuildFails(p) PROVE Authored'
  BY <1>5 DEF BuildFails, Authored, TypeOK
<1>6. ASSUME NEW p \in Proc, Finish(p) PROVE Authored'
  <2>1. ASSUME NEW n \in Name, NEW q \in Proc, staged'[n] = q \/ published'[n] = q
        PROVE  n \in Entries[q]
    <3>1. staged'[n] \in {staged[n], NoFile}
      BY <1>6 DEF Finish, BeginFinish, JoinHeartbeat, ReadDir, ClearDest, MoveEntry,
         RemoveTmpDir, TypeOK
    <3>2. published'[n] \in {published[n], staged[n], NoFile}
      <4>1. CASE UNCHANGED published
        BY <4>1
      <4>2. ASSUME NEW m \in Name, ClearDest(p, m)
            PROVE  published'[n] \in {published[n], staged[n], NoFile}
        BY <4>2 DEF ClearDest, TypeOK
      <4>3. CASE MoveEntry(p)
        BY <4>3 DEF MoveEntry, TypeOK
      <4>. QED
        BY <1>6, <4>1, <4>2, <4>3 DEF Finish, BeginFinish, JoinHeartbeat, ReadDir,
           RemoveTmpDir
    <3>. QED
      BY <2>1, <3>1, <3>2 DEF Authored
  <2>2. \A q \in Proc : pc'[q] = "build" => pc[q] = "build" /\ todo'[q] = todo[q]
    BY <1>6 DEF Finish, BeginFinish, JoinHeartbeat, ReadDir, ClearDest, MoveEntry,
       RemoveTmpDir, TypeOK
  <2>. QED
    BY <2>1, <2>2 DEF Authored
<1>7. ASSUME NEW p \in Proc, Crash(p) PROVE Authored'
  BY <1>7 DEF Crash, Authored, TypeOK
<1>8. CASE Tick
  BY <1>8 DEF Tick, Authored
<1>9. ASSUME NEW p \in Proc, RunBuild(p) PROVE Authored'
  BY <1>3, <1>4, <1>5, <1>9 DEF RunBuild
<1>. QED
  BY <1>1, <1>2, <1>6, <1>7, <1>8, <1>9 DEF Next

(* A process that is engaged is the only one: a step of its own cannot      *)
(* break what the others rely on.                                           *)
LEMMA OthersIdle ==
  ASSUME TypeOK, Alone, NEW p \in Proc, pc[p] \in Engaged, NEW to,
         pc' = [pc EXCEPT ![p] = to]
  PROVE  Alone' /\ \A q \in Proc \ {p} : Progress(q)'
<1>1. pc' \in [Proc -> Control \cup {to}] /\ \A q \in Proc \ {p} : pc'[q] = pc[q]
  BY DEF TypeOK
<1>2. \A q \in Proc \ {p} : pc'[q] \notin Engaged
  BY <1>1 DEF Alone
<1>3. Alone'
  BY <1>2 DEF Alone
<1>4. ASSUME NEW q \in Proc \ {p} PROVE Progress(q)'
  BY <1>2 DEF Progress, Engaged, Takeover, Holding, Building, Finishing
<1>. QED
  BY <1>3, <1>4

(* A step that engages nobody and leaves the disk alone changes nothing     *)
(* that matters.                                                            *)
LEMMA LeavesAlone ==
  ASSUME TypeOK, Good, NEW p \in Proc, NEW to, to \notin Engaged,
         pc' = [pc EXCEPT ![p] = to], UNCHANGED disk,
         \A q \in Proc \ {p} : todo'[q] = todo[q] /\ cur'[q] = cur[q]
  PROVE  Good'
<1>1. \A q \in Proc \ {p} : pc'[q] = pc[q]
  BY DEF TypeOK
<1>2. pc'[p] = to
  BY DEF TypeOK
<1>3. Alone'
  BY <1>1, <1>2 DEF Good, Alone
<1>4. Progress(p)'
  BY <1>2 DEF Progress, Engaged, Takeover, Holding, Building, Finishing
<1>5. ASSUME NEW q \in Proc \ {p} PROVE Progress(q)'
  BY <1>1, <1>5 DEF Good, Progress, disk
<1>. QED
  BY <1>3, <1>4, <1>5 DEF Good

(* Passing wait_for_stale, if no hazard is recorded, finds nobody engaged.  *)
LEMMA PassAlone ==
  ASSUME TypeOK, Good, hazards' = {}, NEW p \in Proc, NEW from \in Waiting,
         PassWait(p, from), ~tmp \/ seen[p] >= Stale
  PROVE  Good'
<1>1. \A q \in Proc \ {p} : pc[q] \notin Takeover
  BY DEF PassWait
<1>2. ~(tmp /\ tmpAge < seen[p])
  BY DEF PassWait
<1>3. \A q \in Proc : pc[q] \notin Holding
  BY <1>2, TimeAssumption DEF Good, Progress, TypeOK
<1>4. pc' = [pc EXCEPT ![p] = "clean"]
  BY DEF PassWait, Goto
<1>5. pc'[p] = "clean" /\ \A q \in Proc \ {p} : pc'[q] \notin Engaged
  BY <1>1, <1>3, <1>4 DEF TypeOK, Engaged
<1>6. Alone'
  BY <1>5 DEF Alone
<1>7. ASSUME NEW q \in Proc PROVE Progress(q)'
  BY <1>5 DEF Progress, Engaged, Takeover, Holding, Building, Finishing
<1>. QED
  BY <1>6, <1>7 DEF Good

LEMMA GoodStep ==
  ASSUME TypeOK, Authored, Good, hazards = {}, hazards' = {}, Next
  PROVE  Good'
<1> USE TimeAssumption
<1>1. ASSUME NEW p \in Proc, CheckTmp(p) PROVE Good'
  <2>1. PICK to : pc' = [pc EXCEPT ![p] = to]
    BY <1>1 DEF CheckTmp, Goto
  <2>2. pc[p] \in Engaged
    BY <1>1 DEF CheckTmp, Goto, Engaged, Takeover, Holding, Building, Finishing
  <2>3. Progress(p)'
    BY <1>1 DEF CheckTmp, Goto, TypeOK, Good, disk, local,
       Progress, Engaged, Takeover, Holding, Building, Finishing
  <2>. QED
    BY <2>1, <2>2, <2>3, OthersIdle DEF Good
<1>2. ASSUME NEW p \in Proc, RemoveOldTmp(p, "rmOld", "rename") PROVE Good'
  <2>1. PICK to : pc' = [pc EXCEPT ![p] = to]
    BY <1>2 DEF RemoveOldTmp, Goto
  <2>2. pc[p] \in Engaged
    BY <1>2 DEF RemoveOldTmp, Goto, Engaged, Takeover, Holding, Building, Finishing
  <2>3. Progress(p)'
    BY <1>2 DEF RemoveOldTmp, Goto, TypeOK, Good, disk, local,
       Progress, Engaged, Takeover, Holding, Building, Finishing
  <2>. QED
    BY <2>1, <2>2, <2>3, OthersIdle DEF Good
<1>3. ASSUME NEW p \in Proc, RenameTmp(p) PROVE Good'
  <2>1. PICK to : pc' = [pc EXCEPT ![p] = to]
    BY <1>3 DEF RenameTmp, Goto
  <2>2. pc[p] \in Engaged
    BY <1>3 DEF RenameTmp, Goto, Engaged, Takeover, Holding, Building, Finishing
  <2>3. Progress(p)'
    BY <1>3 DEF RenameTmp, Goto, TypeOK, Good, disk, local,
       Progress, Engaged, Takeover, Holding, Building, Finishing
  <2>. QED
    BY <2>1, <2>2, <2>3, OthersIdle DEF Good
<1>4. ASSUME NEW p \in Proc, RemoveTmp(p) PROVE Good'
  <2>1. PICK to : pc' = [pc EXCEPT ![p] = to]
    BY <1>4 DEF RemoveTmp, Goto
  <2>2. pc[p] \in Engaged
    BY <1>4 DEF RemoveTmp, Goto, Engaged, Takeover, Holding, Building, Finishing
  <2>3. Progress(p)'
    BY <1>4 DEF RemoveTmp, Goto, TypeOK, Good, disk, local,
       Progress, Engaged, Takeover, Holding, Building, Finishing
  <2>. QED
    BY <2>1, <2>2, <2>3, OthersIdle DEF Good
<1>5. ASSUME NEW p \in Proc, RemoveOldTmp(p, "rmOldAgain", "create") PROVE Good'
  <2>1. PICK to : pc' = [pc EXCEPT ![p] = to]
    BY <1>5 DEF RemoveOldTmp, Goto
  <2>2. pc[p] \in Engaged
    BY <1>5 DEF RemoveOldTmp, Goto, Engaged, Takeover, Holding, Building, Finishing
  <2>3. Progress(p)'
    BY <1>5 DEF RemoveOldTmp, Goto, TypeOK, Good, disk, local,
       Progress, Engaged, Takeover, Holding, Building, Finishing
  <2>. QED
    BY <2>1, <2>2, <2>3, OthersIdle DEF Good
<1>6. ASSUME NEW p \in Proc, CreateTmp(p) PROVE Good'
  <2>1. PICK to : pc' = [pc EXCEPT ![p] = to]
    BY <1>6 DEF CreateTmp, MakeTmp, EmptyTmp, Goto
  <2>2. pc[p] \in Engaged
    BY <1>6 DEF CreateTmp, MakeTmp, EmptyTmp, Goto, Engaged, Takeover, Holding, Building, Finishing
  <2>3. Progress(p)'
    BY <1>6 DEF CreateTmp, MakeTmp, EmptyTmp, Goto, TypeOK, Good, disk, local,
       Progress, Engaged, Takeover, Holding, Building, Finishing
  <2>. QED
    BY <2>1, <2>2, <2>3, OthersIdle DEF Good
<1>7. ASSUME NEW p \in Proc, CreatePkgDir(p) PROVE Good'
  <2>1. PICK to : pc' = [pc EXCEPT ![p] = to]
    BY <1>7 DEF CreatePkgDir, MakeTmp, Goto
  <2>2. pc[p] \in Engaged
    BY <1>7 DEF CreatePkgDir, MakeTmp, Goto, Engaged, Takeover, Holding, Building, Finishing
  <2>3. Progress(p)'
    BY <1>7 DEF CreatePkgDir, MakeTmp, Goto, TypeOK, Good, disk, local,
       Progress, Engaged, Takeover, Holding, Building, Finishing
  <2>. QED
    BY <2>1, <2>2, <2>3, OthersIdle DEF Good
<1>8. ASSUME NEW p \in Proc, BuildFails(p) PROVE Good'
  <2>1. PICK to : pc' = [pc EXCEPT ![p] = to]
    BY <1>8 DEF BuildFails, Goto
  <2>2. pc[p] \in Engaged
    BY <1>8 DEF BuildFails, Goto, Engaged, Takeover, Holding, Building, Finishing
  <2>3. Progress(p)'
    BY <1>8 DEF BuildFails, Goto, TypeOK, Good, disk, local,
       Progress, Engaged, Takeover, Holding, Building, Finishing
  <2>. QED
    BY <2>1, <2>2, <2>3, OthersIdle DEF Good
<1>9. ASSUME NEW p \in Proc, BeginFinish(p) PROVE Good'
  <2>1. PICK to : pc' = [pc EXCEPT ![p] = to]
    BY <1>9 DEF BeginFinish, Goto
  <2>2. pc[p] \in Engaged
    BY <1>9 DEF BeginFinish, Goto, Engaged, Takeover, Holding, Building, Finishing
  <2>3. Progress(p)'
    BY <1>9 DEF BeginFinish, Goto, TypeOK, Good, disk, local,
       Progress, Engaged, Takeover, Holding, Building, Finishing
  <2>. QED
    BY <2>1, <2>2, <2>3, OthersIdle DEF Good
<1>10. ASSUME NEW p \in Proc, ReadDir(p) PROVE Good'
  <2>1. PICK to : pc' = [pc EXCEPT ![p] = to]
    BY <1>10 DEF ReadDir, Goto
  <2>2. pc[p] \in Engaged
    BY <1>10 DEF ReadDir, Goto, Engaged, Takeover, Holding, Building, Finishing
  <2>3. Progress(p)'
    BY <1>10 DEF ReadDir, Goto, TypeOK, Good, disk, local,
       Progress, Engaged, Takeover, Holding, Building, Finishing
  <2>. QED
    BY <2>1, <2>2, <2>3, OthersIdle DEF Good
<1>11. ASSUME NEW p \in Proc, NEW n \in Name, ClearDest(p, n) PROVE Good'
  <2>1. PICK to : pc' = [pc EXCEPT ![p] = to]
    BY <1>11 DEF ClearDest, Goto
  <2>2. pc[p] \in Engaged
    BY <1>11 DEF ClearDest, Goto, Engaged, Takeover, Holding, Building, Finishing
  <2>3. Progress(p)'
    BY <1>11 DEF ClearDest, Goto, TypeOK, Good, disk, local,
       Progress, Engaged, Takeover, Holding, Building, Finishing
  <2>. QED
    BY <2>1, <2>2, <2>3, OthersIdle DEF Good
<1>12. ASSUME NEW p \in Proc, MoveEntry(p) PROVE Good'
  <2>1. PICK to : pc' = [pc EXCEPT ![p] = to]
    BY <1>12 DEF MoveEntry, Goto
  <2>2. pc[p] \in Engaged
    BY <1>12 DEF MoveEntry, Goto, Engaged, Takeover, Holding, Building, Finishing
  <2>3. Progress(p)'
    BY <1>12 DEF MoveEntry, Goto, TypeOK, Good, disk, local,
       Progress, Engaged, Takeover, Holding, Building, Finishing
  <2>. QED
    BY <2>1, <2>2, <2>3, OthersIdle DEF Good
<1>13. ASSUME NEW p \in Proc, RemoveTmpDir(p) PROVE Good'
  <2>1. PICK to : pc' = [pc EXCEPT ![p] = to]
    BY <1>13 DEF RemoveTmpDir, Goto
  <2>2. pc[p] \in Engaged
    BY <1>13 DEF RemoveTmpDir, Goto, Engaged, Takeover, Holding, Building, Finishing
  <2>3. Progress(p)'
    BY <1>13 DEF RemoveTmpDir, Goto, TypeOK, Good, disk, local,
       Progress, Engaged, Takeover, Holding, Building, Finishing
  <2>. QED
    BY <2>1, <2>2, <2>3, OthersIdle DEF Good
<1>14. ASSUME NEW p \in Proc, Start(p) PROVE Good'
  <2>1. PICK to : to \notin Engaged /\ pc' = [pc EXCEPT ![p] = to] /\ pc[p] \notin Engaged
    BY <1>14 DEF Start, Goto, Engaged, Takeover, Holding, Building, Finishing
  <2>. QED
    BY <1>14, <2>1, LeavesAlone DEF Start, local
<1>15. ASSUME NEW p \in Proc, Stat(p) PROVE Good'
  <2>1. CASE PassWait(p, "stat")
    <3>1. ~tmp
      BY <1>15, <2>1 DEF Stat, PassWait, Goto, TypeOK
    <3>. QED
      BY <2>1, <3>1, PassAlone DEF Waiting
  <2>2. CASE ~PassWait(p, "stat")
    <3>1. pc' = [pc EXCEPT ![p] = "judge"] /\ UNCHANGED <<disk, todo, cur>>
      BY <1>15, <2>2 DEF Stat, Goto
    <3>2. "judge" \notin Engaged
      BY DEF Engaged, Takeover, Holding, Building, Finishing
    <3>. QED
      BY <3>1, <3>2, LeavesAlone
  <2>. QED
    BY <2>1, <2>2
<1>16. ASSUME NEW p \in Proc, Judge(p) PROVE Good'
  <2>1. CASE seen[p] >= Stale /\ PassWait(p, "judge")
    BY <2>1, PassAlone DEF Waiting
  <2>2. CASE ~(seen[p] >= Stale /\ PassWait(p, "judge"))
    <3>1. pc' = [pc EXCEPT ![p] = "deadline"] /\ UNCHANGED <<disk, todo, cur>>
      BY <1>16, <2>2 DEF Judge, Goto, local
    <3>2. "deadline" \notin Engaged
      BY DEF Engaged, Takeover, Holding, Building, Finishing
    <3>. QED
      BY <3>1, <3>2, LeavesAlone
  <2>. QED
    BY <2>1, <2>2
<1>22. ASSUME NEW p \in Proc, CheckDeadline(p) PROVE Good'
  <2>1. PICK to \in {"failed", "stat"} : pc' = [pc EXCEPT ![p] = to]
    BY <1>22 DEF CheckDeadline, Goto
  <2>2. UNCHANGED <<disk, todo, cur>>
    BY <1>22 DEF CheckDeadline, local
  <2>3. to \notin Engaged
    BY DEF Engaged, Takeover, Holding, Building, Finishing
  <2>. QED
    BY <2>1, <2>2, <2>3, LeavesAlone
<1>17. ASSUME NEW p \in Proc, Heartbeat(p) PROVE Good'
  <2>1. UNCHANGED <<tmp, staged, published, pc, todo, cur>>
    BY <1>17 DEF Heartbeat, local
  <2>2. tmpAge < Stale => tmpAge' < Stale
    BY <1>17 DEF Heartbeat
  <2>3. ASSUME NEW q \in Proc PROVE Progress(q)'
    BY <2>1, <2>2 DEF Good, Progress
  <2>. QED
    BY <2>1, <2>3 DEF Good, Alone
<1>18. ASSUME NEW p \in Proc, NEW n \in Name, WriteEntry(p, n) PROVE Good'
  <2>1. pc' = [pc EXCEPT ![p] = "build"] /\ pc[p] = "build"
    BY <1>18 DEF WriteEntry, TypeOK
  <2>2. pc[p] \in Engaged
    BY <2>1 DEF Engaged, Holding, Building
  <2>3. Progress(p)'
    BY <1>18, <2>1 DEF WriteEntry, TypeOK, Good, Progress, Holding, Building, Finishing
  <2>. QED
    BY <2>1, <2>2, <2>3, OthersIdle DEF Good
<1>19. ASSUME NEW p \in Proc, JoinHeartbeat(p) PROVE Good'
  <2>1. CASE Goto(p, "stopping", "readdir")
    <3>1. pc[p] \in Engaged
      BY <2>1 DEF Goto, Engaged, Holding, Finishing
    <3>2. Progress(p)'
      BY <1>19, <2>1 DEF JoinHeartbeat, Goto, TypeOK, Good, Progress, Holding, Building,
         Finishing, disk, local
    <3>. QED
      BY <2>1, <3>1, <3>2, OthersIdle DEF Good, Goto
  <2>2. CASE Goto(p, "dropping", "failed")
    <3>1. "failed" \notin Engaged
      BY DEF Engaged, Takeover, Holding, Building, Finishing
    <3>. QED
      BY <1>19, <2>2, <3>1, LeavesAlone DEF JoinHeartbeat, Goto, local
  <2>. QED
    BY <1>19, <2>1, <2>2 DEF JoinHeartbeat
<1>20. ASSUME NEW p \in Proc, Crash(p) PROVE Good'
  <2>1. pc' = [pc EXCEPT ![p] = "crashed"] /\ UNCHANGED disk
    BY <1>20 DEF Crash
  <2>2. \A q \in Proc \ {p} : todo'[q] = todo[q] /\ cur'[q] = cur[q]
    BY <1>20 DEF Crash, TypeOK
  <2>3. "crashed" \notin Engaged
    BY DEF Engaged, Takeover, Holding, Building, Finishing
  <2>. QED
    BY <2>1, <2>2, <2>3, LeavesAlone
<1>21. CASE Tick
  <2>1. UNCHANGED <<tmp, staged, published, pc, todo, cur>>
    BY <1>21 DEF Tick
  <2>2. ASSUME NEW q \in Proc, pc[q] \in Holding PROVE tmpAge' < Stale
    <3>1. tmpAge' # Stale
      BY <1>21, <2>2 DEF Tick, Holding
    <3>2. tmpAge' \in 0..Stale
      BY <1>21 DEF Tick, Older, TypeOK
    <3>. QED
      BY <3>1, <3>2
  <2>3. ASSUME NEW q \in Proc PROVE Progress(q)'
    BY <2>1, <2>2 DEF Good, Progress
  <2>. QED
    BY <2>1, <2>3 DEF Good, Alone
<1>. QED
  BY <1>1, <1>2, <1>3, <1>4, <1>5, <1>6, <1>7, <1>8, <1>9, <1>10, <1>11, <1>12, <1>13,
     <1>14, <1>15, <1>16, <1>17, <1>18, <1>19, <1>20, <1>21, <1>22, StepCases

(* Which steps record a hazard: the lock's own only the first two kinds,    *)
(* the other steps of a process none at all.                                *)
LEMMA AcquireHazards ==
  ASSUME NEW p \in Proc, Acquire(p)
  PROVE  hazards \subseteq hazards' /\ hazards' \subseteq hazards \cup {"overlap", "staleRead"}
<1>1. ASSUME NEW from, PassWait(p, from)
      PROVE  hazards \subseteq hazards' /\ hazards' \subseteq hazards \cup {"overlap", "staleRead"}
  BY <1>1 DEF PassWait
<1>2. CASE ~\E from : PassWait(p, from)
  <2>1. hazards' = hazards
    BY <1>2 DEF Acquire, Start, Stat, Judge, CheckDeadline, CheckTmp, RemoveOldTmp, RenameTmp, RemoveTmp,
       CreateTmp
  <2>. QED
    BY <2>1
<1>. QED
  BY <1>1, <1>2

LEMMA NoHazard ==
  ASSUME NEW p \in Proc, Heartbeat(p) \/ RunBuild(p) \/ Finish(p) \/ Crash(p)
  PROVE  hazards' = hazards
BY DEF Heartbeat, RunBuild, CreatePkgDir, WriteEntry, BuildFails, Finish, BeginFinish,
   JoinHeartbeat, ReadDir, ClearDest, MoveEntry, RemoveTmpDir, Crash, disk, local

(* Recorded hazards are never forgotten.                                    *)
LEMMA HazardsGrow == Next => hazards \subseteq hazards'
<1>1. Tick => hazards \subseteq hazards'
  BY DEF Tick
<1>. QED
  BY <1>1, AcquireHazards, NoHazard DEF Next

LEMMA IInvStep == IInv /\ [Next]_vars => IInv'
<1> SUFFICES ASSUME IInv, [Next]_vars PROVE IInv'
  OBVIOUS
<1>1. TypeOK'
  BY TypeSplit, ControlStep, DataStep DEF IInv, TypeOK, ControlOK, DataOK
<1>3. Authored'
  <2>1. CASE Next
    BY <2>1, AuthoredStep DEF IInv
  <2>2. CASE UNCHANGED vars
    BY <2>2 DEF IInv, Authored, vars, disk, local
  <2>. QED
    BY <2>1, <2>2
<1>2. ASSUME hazards' = {} PROVE Good'
  <2>1. CASE Next
    BY <1>2, <2>1, HazardsGrow, GoodStep DEF IInv
  <2>2. CASE UNCHANGED vars
    BY <1>2, <2>2 DEF IInv, Good, Alone, Progress, vars, disk, local
  <2>. QED
    BY <2>1, <2>2
<1>. QED
  BY <1>1, <1>2, <1>3 DEF IInv

THEOREM LockInvariant == Spec => []IInv
BY GoodInit, IInvStep, PTL DEF Spec

(* The lock excludes: while no timing hazard has happened, no two processes *)
(* are past wait_for_stale at once, crashes and I/O errors notwithstanding. *)
THEOREM LockExcludes == Spec => []Exclusive
<1>1. IInv => Exclusive
  BY DEF IInv, Good, Alone, Engaged, Exclusive
<1>. QED
  BY <1>1, LockInvariant, PTL

(* While no timing hazard has happened, a build works in a staging          *)
(* directory with a live lease and with no other build's entries.           *)
THEOREM StagingIsOwn == Spec => []OwnStaging
<1>1. IInv => OwnStaging
  BY DEF IInv, Good, Progress, OwnStaging
<1>. QED
  BY <1>1, LockInvariant, PTL

(* Only the last step of finish reports success.                            *)
LEMMA SuccessStep ==
  ASSUME TypeOK, Next, NEW p \in Proc, pc[p] = "publish", pc'[p] = "done"
  PROVE  RemoveTmpDir(p)
<1> USE DEF Goto, TypeOK
<1>1. CASE Tick
  BY <1>1 DEF Tick
<1>2. ASSUME NEW q \in Proc, Acquire(q) PROVE FALSE
  BY <1>2 DEF Acquire, Start, Stat, Judge, PassWait, CheckDeadline, CheckTmp, RemoveOldTmp, RenameTmp,
     RemoveTmp, CreateTmp
<1>3. ASSUME NEW q \in Proc, Heartbeat(q) \/ RunBuild(q) \/ Crash(q) PROVE FALSE
  BY <1>3 DEF Heartbeat, RunBuild, CreatePkgDir, WriteEntry, BuildFails, Crash
<1>4. ASSUME NEW q \in Proc, Finish(q) PROVE RemoveTmpDir(p)
  <2>1. CASE RemoveTmpDir(q)
    BY <2>1 DEF RemoveTmpDir
  <2>2. CASE ~RemoveTmpDir(q)
    BY <1>4, <2>2 DEF Finish, BeginFinish, JoinHeartbeat, ReadDir, ClearDest, MoveEntry
  <2>. QED
    BY <2>1, <2>2
<1>. QED
  BY <1>1, <1>2, <1>3, <1>4 DEF Next

(* A finish that succeeds without a timing hazard leaves every entry of its *)
(* mode in build/, whichever entries the modes of the processes produce.    *)
THEOREM PublishesWholeBuild == Spec => WholeBuild
<1>1. ASSUME IInv, [Next]_vars
      PROVE  [\A p \in Proc : pc[p] = "publish" /\ pc'[p] = "done" /\ hazards = {}
                => {n \in Name : published'[n] = p} = Entries[p]]_vars
  <2> SUFFICES ASSUME Next, NEW p \in Proc, pc[p] = "publish", pc'[p] = "done",
                      hazards = {}
               PROVE  {n \in Name : published'[n] = p} = Entries[p]
    BY <1>1
  <2>1. todo[p] = {} /\ UNCHANGED published
    BY <1>1, SuccessStep DEF IInv, RemoveTmpDir
  <2>2. \A n \in Entries[p] : published[n] = p
    BY <1>1, <2>1 DEF IInv, Good, Progress
  <2>3. \A n \in Name : published[n] = p => n \in Entries[p]
    BY <1>1 DEF IInv, Authored
  <2>. QED
    BY <2>1, <2>2, <2>3
<1>. QED
  BY <1>1, LockInvariant, PTL DEF Spec, WholeBuild

-----------------------------------------------------------------------------
(* The refinement.  The owner is the one process in Holding, if any.        *)
LEMMA OwnerIs ==
  ASSUME NEW p \in Proc
  PROVE  /\ Alone /\ pc[p] \in Holding => Owner = p
         /\ Alone' /\ pc'[p] \in Holding => Owner' = p
<1>1. Alone /\ pc[p] \in Holding => Owner = p
  BY DEF Alone, Engaged, Owner
<1>2. Alone' /\ pc'[p] \in Holding => Owner' = p
  BY DEF Alone, Engaged, Owner
<1>. QED
  BY <1>1, <1>2

LEMMA OwnerIsNone ==
  /\ (\A p \in Proc : pc[p] \notin Holding) => Owner = NoFile
  /\ (\A p \in Proc : pc'[p] \notin Holding) => Owner' = NoFile
BY DEF Owner

(* A step is quiet if it moves nobody into or out of Holding or "done" and  *)
(* leaves build/ alone; such a step is invisible.                           *)
Quiet ==
  /\ UNCHANGED published
  /\ \A p \in Proc : (pc'[p] \in Holding) <=> (pc[p] \in Holding)
  /\ \A p \in Proc : (pc'[p] = "done") <=> (pc[p] = "done")

LEMMA Invisible ==
  ASSUME Alone, Alone', Quiet
  PROVE  UNCHANGED Publish!vars
<1>1. Owner' = Owner
  <2>1. CASE \E p \in Proc : pc[p] \in Holding
    BY <2>1, OwnerIs DEF Quiet
  <2>2. CASE \A p \in Proc : pc[p] \notin Holding
    BY <2>2, OwnerIsNone DEF Quiet
  <2>. QED
    BY <2>1, <2>2
<1>2. {p \in Proc : pc'[p] = "done"} = {p \in Proc : pc[p] = "done"}
  BY DEF Quiet
<1>. QED
  BY <1>1, <1>2 DEF Publish!vars, Quiet

(* Moves before the lock is held, within it, and after it.                  *)
Outside == {"idle", "dropping", "failed", "crashed"} \cup Waiting \cup Takeover

LEMMA QuietMove ==
  ASSUME TypeOK, NEW p \in Proc, NEW from, NEW to, Goto(p, from, to),
         \/ from \in Outside /\ to \in Outside
         \/ from \in Holding /\ to \in Holding,
         UNCHANGED published
  PROVE  Quiet
<1>1. pc[p] = from /\ pc'[p] = to /\ \A q \in Proc \ {p} : pc'[q] = pc[q]
  BY DEF Goto, TypeOK
<1>2. Outside \cap (Holding \cup {"done"}) = {} /\ "done" \notin Holding
  BY DEF Outside, Waiting, Takeover, Holding, Building, Finishing
<1>. QED
  BY <1>1, <1>2 DEF Quiet

(* A holder that leaves Holding without success gives up.                   *)
LEMMA GivesUp ==
  ASSUME TypeOK, Alone, NEW p \in Proc, pc[p] \in Holding,
         NEW to \in {"dropping", "failed", "crashed"}, pc' = [pc EXCEPT ![p] = to],
         UNCHANGED published
  PROVE  Publish!GiveUp(p)
<1>1. pc'[p] = to /\ \A q \in Proc \ {p} : pc'[q] = pc[q]
  BY DEF TypeOK
<1>2. \A q \in Proc : pc'[q] \notin Holding
  BY <1>1 DEF Alone, Engaged, Holding, Building, Finishing
<1>3. {q \in Proc : pc'[q] = "done"} = {q \in Proc : pc[q] = "done"}
  BY <1>1 DEF Holding, Building, Finishing
<1>. QED
  BY <1>2, <1>3, OwnerIs, OwnerIsNone DEF Publish!GiveUp

LEMMA RefinesInit == Init => Publish!Init
<1> SUFFICES ASSUME Init PROVE Publish!Init
  OBVIOUS
<1>1. Owner = NoFile /\ {p \in Proc : pc[p] = "done"} = {}
  BY OwnerIsNone DEF Init, Holding, Building, Finishing
<1>. QED
  BY <1>1 DEF Init, Publish!Init

LEMMA RefinesStep ==
  ASSUME TypeOK, Authored, Good, Good', Next
  PROVE  [Publish!Next]_(Publish!vars)
<1>a. Alone /\ Alone'
  BY DEF Good
<1>b. Quiet => UNCHANGED Publish!vars
  BY <1>a, Invisible
<1>c. ASSUME NEW p \in Proc, Publish!GiveUp(p) PROVE Publish!Next
  BY <1>c DEF Publish!Next
<1>1. ASSUME NEW p \in Proc,
             Start(p) \/ Stat(p) \/ Judge(p) \/ CheckDeadline(p) \/ CheckTmp(p)
             \/ RenameTmp(p) \/ RemoveTmp(p)
      PROVE  Quiet
  <2>1. UNCHANGED published
    BY <1>1 DEF Start, Stat, Judge, PassWait, CheckDeadline, CheckTmp, RenameTmp, RemoveTmp, disk
  <2>2. PICK from \in Outside, to \in Outside : Goto(p, from, to)
    BY <1>1 DEF Start, Stat, Judge, PassWait, CheckDeadline, CheckTmp, RenameTmp, RemoveTmp, Outside,
       Waiting, Takeover
  <2>. QED
    BY <2>1, <2>2, QuietMove
<1>2. ASSUME NEW p \in Proc,
             RemoveOldTmp(p, "rmOld", "rename") \/ RemoveOldTmp(p, "rmOldAgain", "create")
      PROVE  Quiet
  BY <1>2, QuietMove DEF RemoveOldTmp, Outside, Takeover
<1>3. ASSUME NEW p \in Proc, CreateTmp(p) PROVE [Publish!Next]_(Publish!vars)
  <2>1. CASE Goto(p, "create", "compile")
    <3>1. \A q \in Proc : pc[q] \notin Holding
      BY <2>1, <1>a DEF Goto, Alone, Engaged, Takeover, Holding, Building, Finishing
    <3>2. /\ pc'[p] \in Holding
          /\ {q \in Proc : pc'[q] = "done"} = {q \in Proc : pc[q] = "done"}
      BY <2>1 DEF Goto, TypeOK, Holding, Building
    <3>3. UNCHANGED published
      BY <1>3 DEF CreateTmp, MakeTmp, disk
    <3>4. Publish!Take(p)
      BY <1>a, <3>1, <3>2, <3>3, OwnerIs, OwnerIsNone DEF Publish!Take
    <3>. QED
      BY <3>4 DEF Publish!Next
  <2>2. CASE Goto(p, "create", "failed")
    <3>1. Quiet
      <4>1. UNCHANGED published
        BY <1>3 DEF CreateTmp, MakeTmp, disk
      <4>. QED
        BY <2>2, <4>1, QuietMove DEF Outside, Takeover
    <3>. QED
      BY <3>1, <1>b
  <2>. QED
    BY <1>3, <2>1, <2>2 DEF CreateTmp
<1>4. ASSUME NEW p \in Proc, Heartbeat(p) PROVE Quiet
  BY <1>4 DEF Quiet, Heartbeat
<1>5. ASSUME NEW p \in Proc, CreatePkgDir(p) \/ BeginFinish(p) PROVE Quiet
  BY <1>5, QuietMove DEF CreatePkgDir, MakeTmp, BeginFinish, disk, Holding, Building, Finishing
<1>6. ASSUME NEW p \in Proc, NEW n \in Name, WriteEntry(p, n) PROVE Quiet
  BY <1>6 DEF Quiet, WriteEntry
<1>7. ASSUME NEW p \in Proc, BuildFails(p) PROVE Publish!GiveUp(p)
  BY <1>7, <1>a, GivesUp DEF BuildFails, Holding, disk
<1>8. ASSUME NEW p \in Proc, JoinHeartbeat(p) PROVE Quiet
  BY <1>8, QuietMove DEF JoinHeartbeat, disk, Outside, Holding, Finishing
<1>9. ASSUME NEW p \in Proc, ReadDir(p) PROVE Quiet \/ Publish!GiveUp(p)
  <2>1. CASE Goto(p, "readdir", "publish")
    BY <1>9, <2>1, QuietMove DEF ReadDir, disk, Holding, Finishing
  <2>2. CASE Goto(p, "readdir", "failed")
    BY <1>9, <2>2, <1>a, GivesUp DEF ReadDir, Goto, disk, Holding, Finishing
  <2>. QED
    BY <1>9, <2>1, <2>2 DEF ReadDir
<1>10. ASSUME NEW p \in Proc, NEW n \in Name, ClearDest(p, n)
       PROVE  [Publish!Next]_(Publish!vars)
  <2>1. /\ pc[p] \in Holding /\ pc'[p] \in Holding
        /\ Goto(p, "publish", "move")
    BY <1>10 DEF ClearDest, Goto, TypeOK, Holding, Finishing
  <2>2. Owner = p /\ Owner' = p
    BY <2>1, <1>a, OwnerIs
  <2>3. {q \in Proc : pc'[q] = "done"} = {q \in Proc : pc[q] = "done"}
    BY <2>1 DEF Goto, TypeOK
  <2>6. n \in Entries[p]
    BY <1>10, <2>1 DEF ClearDest, Goto, Good, Progress, Authored
  <2>4. CASE published' = [published EXCEPT ![n] = NoFile]
    BY <2>2, <2>3, <2>4, <2>6 DEF Publish!Next, Publish!Put
  <2>5. CASE published' = [published EXCEPT ![n] = published[n]]
    <3>1. UNCHANGED published
      BY <2>5 DEF TypeOK
    <3>. QED
      BY <2>1, <3>1, <1>b, QuietMove DEF Holding, Finishing
  <2>. QED
    BY <1>10, <2>4, <2>5 DEF ClearDest
<1>11. ASSUME NEW p \in Proc, MoveEntry(p) PROVE [Publish!Next]_(Publish!vars)
  <2>1. CASE Goto(p, "move", "publish")
    <3>1. pc[p] \in Holding /\ pc'[p] \in Holding
      BY <2>1 DEF Goto, TypeOK, Holding, Finishing
    <3>2. Owner = p /\ Owner' = p
      BY <3>1, <1>a, OwnerIs
    <3>3. {q \in Proc : pc'[q] = "done"} = {q \in Proc : pc[q] = "done"}
      BY <2>1 DEF Goto, TypeOK
    <3>4. cur[p] \in Entries[p] /\ cur[p] \in Name /\ staged[cur[p]] = p
      BY <2>1 DEF Goto, TypeOK, Good, Progress, Authored
    <3>5. published' = [published EXCEPT ![cur[p]] = p]
      BY <1>11, <2>1, <3>4 DEF MoveEntry, Goto, TypeOK
    <3>. QED
      BY <3>2, <3>3, <3>4, <3>5 DEF Publish!Next, Publish!Put
  <2>2. CASE Goto(p, "move", "failed")
    <3>1. Publish!GiveUp(p)
      <4>1. UNCHANGED published
        BY <1>11, <2>2 DEF MoveEntry, Goto, TypeOK, disk
      <4>. QED
        BY <2>2, <4>1, <1>a, GivesUp DEF Goto, Holding, Finishing
    <3>. QED
      BY <3>1, <1>c
  <2>. QED
    BY <1>11, <2>1, <2>2 DEF MoveEntry
<1>12. ASSUME NEW p \in Proc, RemoveTmpDir(p) PROVE Publish!Succeed(p)
  <2>1. pc[p] = "publish" /\ pc'[p] = "done" /\ UNCHANGED published
    BY <1>12 DEF RemoveTmpDir, Goto, TypeOK
  <2>2. \A q \in Proc \ {p} : pc'[q] = pc[q] /\ pc[q] \notin Holding
    BY <1>12, <1>a, <2>1 DEF RemoveTmpDir, Goto, Alone, Engaged, Holding, Finishing, TypeOK
  <2>3. Owner = p /\ Owner' = NoFile
    BY <2>1, <2>2, <1>a, OwnerIs, OwnerIsNone DEF Holding, Building, Finishing
  <2>4. {q \in Proc : pc'[q] = "done"} = {q \in Proc : pc[q] = "done"} \cup {p}
    BY <2>1, <2>2
  <2>5. {n \in Name : published[n] = p} = Entries[p]
    BY <1>12, <2>1 DEF RemoveTmpDir, Good, Progress, Authored, TypeOK
  <2>. QED
    BY <2>1, <2>3, <2>4, <2>5 DEF Publish!Succeed
<1>13. ASSUME NEW p \in Proc, Crash(p) PROVE Quiet \/ Publish!GiveUp(p)
  <2>1. pc' = [pc EXCEPT ![p] = "crashed"] /\ UNCHANGED published /\ pc[p] # "done"
    BY <1>13 DEF Crash, disk, Over
  <2>2. CASE pc[p] \in Holding
    BY <2>1, <2>2, <1>a, GivesUp
  <2>3. CASE pc[p] \notin Holding
    <3>1. pc[p] \in Outside
      BY <1>13, <2>3 DEF Crash, Over, TypeOK, Control, Outside
    <3>2. Goto(p, pc[p], "crashed") /\ "crashed" \in Outside
      BY <2>1 DEF Goto, Outside
    <3>. QED
      BY <2>1, <3>1, <3>2, QuietMove
  <2>. QED
    BY <2>2, <2>3
<1>14. CASE Tick
  BY <1>14, <1>b DEF Quiet, Tick
<1>. QED
  <2>1. ASSUME NEW p \in Proc, Publish!Succeed(p) PROVE Publish!Next
    BY <2>1 DEF Publish!Next
  <2>. QED
    BY <1>b, <1>c, <1>1, <1>2, <1>3, <1>4, <1>5, <1>6, <1>7, <1>8, <1>9, <1>10, <1>11,
       <1>12, <1>13, <1>14, <2>1, StepCases

(* Refinement: with no timing hazard, the lock implements one owner at a    *)
(* time publishing whole builds.                                            *)
THEOREM LockRefinesPublish == PromptSpec => PublishSpec
<1> DEFINE Sound == IInv /\ hazards = {}
<1>1. Init => Sound
  BY GoodInit DEF Init
<1>2. Sound /\ [Next /\ hazards' = {}]_vars => Sound'
  BY IInvStep DEF vars
<1>3. Sound /\ Sound' /\ [Next /\ hazards' = {}]_vars => [Publish!Next]_(Publish!vars)
  <2> SUFFICES ASSUME Sound, Sound', [Next /\ hazards' = {}]_vars
               PROVE  [Publish!Next]_(Publish!vars)
    OBVIOUS
  <2>1. CASE Next
    BY <2>1, RefinesStep DEF IInv
  <2>2. CASE UNCHANGED vars
    <3>1. Quiet
      BY <2>2 DEF Quiet, vars, disk
    <3>. QED
      BY <3>1, Invisible DEF IInv, Good
  <2>. QED
    BY <2>1, <2>2
<1> HIDE DEF Sound
<1>. QED
  BY RefinesInit, <1>1, <1>2, <1>3, PTL DEF PromptSpec, PublishSpec, Publish!Spec

-----------------------------------------------------------------------------
(* Why heartbeats keep the lease: the heartbeat thread of a build runs, and *)
(* while it sleeps no time has passed since it touched .tmp.                *)
Beats ==
  \A p \in Proc : pc[p] \in Building => hb[p] # "off" /\ (hb[p] = "asleep" => tmpAge = 0)

LEMMA BeatsStep ==
  ASSUME IoErrors = FALSE, TypeOK, Good, Beats, Next
  PROVE  Beats'
<1> USE DEF Goto
<1>1. ASSUME NEW p \in Proc, UNCHANGED hb, tmpAge' \in {tmpAge, 0},
             NEW from, NEW to, Goto(p, from, to), to \in Building => from \in Building
      PROVE  Beats'
  BY <1>1 DEF Beats, TypeOK
<1>2. ASSUME NEW p \in Proc, Acquire(p), ~CreateTmp(p) PROVE Beats'
  <2>1. UNCHANGED <<hb, tmpAge>>
    BY <1>2 DEF Acquire, Start, Stat, Judge, PassWait, CheckDeadline, CheckTmp, RemoveOldTmp, RenameTmp,
       RemoveTmp, disk
  <2>2. PICK from, to : Goto(p, from, to) /\ to \notin Building
    BY <1>2 DEF Acquire, Start, Stat, Judge, PassWait, CheckDeadline, CheckTmp, RemoveOldTmp, RenameTmp,
       RemoveTmp, Building
  <2>. QED
    BY <2>1, <2>2, <1>1
<1>3. ASSUME NEW p \in Proc, CreateTmp(p) PROVE Beats'
  <2>1. \A q \in Proc \ {p} : pc'[q] = pc[q] /\ pc[q] \notin Building
    BY <1>3 DEF CreateTmp, Good, Alone, Engaged, Takeover, Holding, TypeOK
  <2>2. pc'[p] \in Building => hb'[p] = "awake"
    BY <1>3 DEF CreateTmp, TypeOK, Building
  <2>. QED
    BY <2>1, <2>2 DEF Beats
<1>4. ASSUME NEW p \in Proc, Heartbeat(p) PROVE Beats'
  <2>1. UNCHANGED pc /\ \A q \in Proc \ {p} : hb'[q] = hb[q]
    BY <1>4 DEF Heartbeat, TypeOK
  <2>2. tmpAge' \in {tmpAge, 0}
    BY <1>4 DEF Heartbeat
  <2>3. pc[p] \in Building => hb'[p] = "asleep" /\ tmpAge' = 0
    BY <1>4 DEF Heartbeat, Good, Progress, Holding, Building, TypeOK
  <2>. QED
    BY <2>1, <2>2, <2>3 DEF Beats
<1>5. ASSUME NEW p \in Proc, CreatePkgDir(p) PROVE Beats'
  BY <1>1, <1>5 DEF CreatePkgDir, MakeTmp, Building
<1>6. ASSUME NEW p \in Proc, NEW n \in Name, WriteEntry(p, n) PROVE Beats'
  BY <1>6 DEF WriteEntry, Beats
<1>7. ASSUME NEW p \in Proc, BuildFails(p) PROVE Beats'
  BY <1>1, <1>7 DEF BuildFails, Building, disk, Beats, TypeOK
<1>8. ASSUME NEW p \in Proc, BeginFinish(p) \/ JoinHeartbeat(p) \/ ReadDir(p) PROVE Beats'
  BY <1>1, <1>8 DEF BeginFinish, JoinHeartbeat, ReadDir, Building, disk
<1>9. ASSUME NEW p \in Proc, NEW n \in Name, ClearDest(p, n) PROVE Beats'
  <2>1. UNCHANGED <<hb, tmpAge>> /\ Goto(p, "publish", "move") /\ "move" \notin Building
    BY <1>9 DEF ClearDest, Building
  <2>. QED
    BY <1>1, <2>1
<1>10. ASSUME NEW p \in Proc, MoveEntry(p) PROVE Beats'
  <2>1. UNCHANGED hb /\ tmpAge' \in {tmpAge, 0}
    BY <1>10 DEF MoveEntry, disk
  <2>2. PICK to : Goto(p, "move", to) /\ to \notin Building
    BY <1>10 DEF MoveEntry, Building
  <2>. QED
    BY <1>1, <2>1, <2>2
<1>11. ASSUME NEW p \in Proc, RemoveTmpDir(p) PROVE Beats'
  BY <1>1, <1>11 DEF RemoveTmpDir, Building
<1>12. ASSUME NEW p \in Proc, Crash(p) PROVE Beats'
  BY <1>12 DEF Crash, Beats, TypeOK, Building, disk
<1>13. CASE Tick
  BY <1>13 DEF Tick, Beats
<1>. QED
  BY <1>2, <1>3, <1>4, <1>5, <1>6, <1>7, <1>8, <1>9, <1>10, <1>11, <1>12, <1>13
     DEF Next, RunBuild, Finish

(* With an error-free file system and heartbeat threads that run once per   *)
(* interval, a lease that expires under a build is never the first hazard.  *)
THEOREM HeartbeatSuffices ==
  ASSUME IoErrors = FALSE
  PROVE  TimelySpec => HeartbeatKeepsLease
<1> DEFINE Timely == Next /\ (Tick => \A p \in Proc : hb[p] # "awake")
<1> DEFINE Kept == IInv /\ (hazards = {} => Beats)
<1>1. Init => Kept
  BY GoodInit DEF Init, Beats, Building
<1>2. Kept /\ [Timely]_vars => Kept'
  <2> SUFFICES ASSUME Kept, [Timely]_vars PROVE Kept'
    OBVIOUS
  <2>1. IInv'
    BY IInvStep
  <2>2. ASSUME hazards' = {} PROVE Beats'
    <3>1. CASE Next
      BY <2>2, <3>1, HazardsGrow, BeatsStep DEF IInv
    <3>2. CASE UNCHANGED vars
      BY <2>2, <3>2 DEF vars, disk, Beats
    <3>. QED
      BY <3>1, <3>2
  <2>. QED
    BY <2>1, <2>2
<1>3. Kept /\ [Timely]_vars => [hazards = {} => "lateBeat" \notin hazards']_vars
  <2> SUFFICES ASSUME Kept, Timely, hazards = {}, "lateBeat" \in hazards' PROVE FALSE
    OBVIOUS
  <2>1. CASE Tick
    <3>1. PICK p \in Proc : pc[p] \in Building /\ tmpAge' = Stale
      BY <2>1 DEF Tick
    <3>2. hb[p] = "asleep" /\ tmpAge = 0
      BY <2>1, <3>1 DEF Beats, IInv, TypeOK
    <3>. QED
      BY <2>1, <3>1, <3>2 DEF Tick, Older
  <2>2. ASSUME NEW p \in Proc, Acquire(p) PROVE FALSE
    BY <2>2, AcquireHazards
  <2>3. ASSUME NEW p \in Proc, Heartbeat(p) \/ RunBuild(p) \/ Finish(p) \/ Crash(p)
        PROVE  FALSE
    BY <2>3, NoHazard
  <2>. QED
    BY <2>1, <2>2, <2>3 DEF Next
<1> HIDE DEF Kept
<1>. QED
  BY <1>1, <1>2, <1>3, PTL DEF TimelySpec, HeartbeatKeepsLease
=============================================================================
