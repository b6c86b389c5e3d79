-------------------------- MODULE CargoTasksProofs --------------------------
(***************************************************************************)
(* Proofs about CargoTasks, for every task graph, every number of cargos,  *)
(* dry runs among them, and every number of starts and kills.  CargoInv is *)
(* the inductive invariant; all the safety properties that the runs check, *)
(* and the refinement of ResultCache, follow from it.                      *)
(***************************************************************************)
EXTENDS CargoTasks, FiniteSetTheorems, TLAPS

-----------------------------------------------------------------------------
(* The inductive invariant.                                                *)

Locked == {"recheck", "clean", "clear", "open", "stage", "act", "acting",
           "store", "finish", "close", "closeErr"}

\* From the open of the lock file to its Close a goroutine has the flock.
LockInv == \A p \in Proc, t \in Task : pc[p][t] \in Locked => lock[t] = p

\* Goroutines run in `run` only, after the scan of every task; the first
\* error stops the launches; a dry run neither looks at the cache nor stores.
RunInv ==
  \A p \in Proc :
    /\ \A t \in Task : pc[p][t] \notin Idle => phase[p] = "run"
    /\ phase[p] = "scan" => \A t \in Task : pc[p][t] = "wait"
    /\ phase[p] = "run" => scanned[p] = Task
    /\ phase[p] = "ok" => \A t \in Task : pc[p][t] = "done"
    /\ starts[p] = 0 => phase[p] = "off"
    /\ \A t \in Task : pc[p][t] = "failed" => failed[p]
    /\ p \in Dry => \A t \in Task : pc[p][t] \notin {"recheck", "acting", "store"}

\* The scan goes along the dependencies, so what it has covered has no cycle.
OrderInv ==
  \A p \in Proc :
    /\ \A t \in scanned[p] : Deps[t] \subseteq scanned[p]
    /\ \A S \in SUBSET scanned[p] : S # {} => \E t \in S : Deps[t] \cap S = {}

\* The dependencies of t that p has not completed.
Missing(p, t) == {d \in Deps[t] : pc[p][d] # "done"}

\* `pending` counts them, and what was launched has none.
CountInv ==
  \A p \in Proc, t \in Task :
    /\ phase[p] # "off" => pending[p][t] = Cardinality(Missing(p, t))
    /\ pc[p][t] # "wait" => Missing(p, t) = {}

\* task.state is what the cache holds, and a task that succeeded has one.
StateInv ==
  \A p \in Proc, t \in Task :
    /\ state[p][t] # Absent =>
         state[p][t] = IF p \in Dry THEN {} ELSE manifest[t]
    /\ pc[p][t] \in {"finish", "close", "sent", "done"} => state[p][t] # Absent

\* From the second look at the cache to the store there is no manifest: only a
\* holder of the flock writes one.
MissInv ==
  \A p \in Proc \ Dry, t \in Task :
    pc[p][t] \in {"clean", "clear", "open", "stage", "act", "acting", "store"}
      => manifest[t] = Absent

\* What the outputs of t hold, at each step of p's goroutine, comes from the
\* run in progress.
OutAt(p, t) ==
  /\ pc[p][t] \in {"clear", "open", "stage", "act"} => out[t] = {}
  /\ pc[p][t] \in {"open", "stage", "act"} /\ t \in Stable => tree[t] \in {Absent, {}}
  /\ pc[p][t] \in {"open", "stage", "act", "acting"} => linked[p][t] = {}
  /\ pc[p][t] = "acting" => goal[t] \in Products[t] /\ Output(t) \subseteq goal[t]
  /\ pc[p][t] = "store" =>
       /\ goal[t] \in Products[t] /\ Output(t) = goal[t]
       /\ linked[p][t] \subseteq goal[t] /\ linked[p][t] \subseteq cas
       /\ t \in Stable => tree[t] # Absent
OutInv == \A p \in Proc \ Dry, t \in Task : OutAt(p, t)

\* The trees still to be opened.
TodoInv ==
  \A p \in Proc, t \in Task :
    /\ pc[p][t] \in {"open", "stage"} => todo[p][t] \subseteq Opens(t)
    /\ pc[p][t] \in {"act", "acting"} => todo[p][t] = {}

\* Without dry runs: the tree of a stored script is as stored, or was removed
\* before every cargo that is active was started, so that their scans found the
\* script in the cache ...
StoredTree(d) ==
  \/ tree[d] = manifest[d]
  \/ /\ tree[d] = Absent
     /\ \A p \in Proc : Active(p) /\ d \in scanned[p] => state[p][d] = manifest[d]

\* ... and a tree that was opened stays.
OpenedTrees(p, t) ==
  pc[p][t] \in {"open", "stage", "act", "acting"} =>
    \A d \in Reads[t] \ todo[p][t] : tree[d] # Absent /\ tree[d] = state[p][d]

TreeInv ==
  NoDryRun =>
    /\ \A d \in Stable : manifest[d] # Absent => StoredTree(d)
    /\ \A p \in Proc, t \in Task : OpenedTrees(p, t)

CargoInv ==
  /\ TypeOK /\ StoredIsComplete
  /\ LockInv /\ RunInv /\ OrderInv /\ CountInv
  /\ StateInv /\ MissInv /\ OutInv /\ TodoInv /\ TreeInv

-----------------------------------------------------------------------------
(* What each step preserves.                                               *)

\* A lock changes hands only when its holder closes it or is killed.
LEMMA LockStep == CargoInv /\ [Next]_vars => LockInv'
<1> SUFFICES ASSUME CargoInv, [Next]_vars PROVE LockInv'
  OBVIOUS
<1> USE TaskAssumption, CargoAssumption
<1> USE DEF CargoInv, TypeOK, LockInv, Locked, Idle, disk, files, loop, Goto
<1>1. CASE UNCHANGED vars
  BY <1>1 DEF vars
<1>2. ASSUME NEW p \in Proc, Start(p) PROVE LockInv'
  BY <1>2 DEF Start
<1>3. ASSUME NEW p \in Proc, ScanDone(p) PROVE LockInv'
  BY <1>3 DEF ScanDone
<1>4. ASSUME NEW p \in Proc, Finish(p) PROVE LockInv'
  BY <1>4 DEF Finish, Dropped, Running
<1>5. ASSUME NEW p \in Proc, Crash(p) PROVE LockInv'
  BY <1>5 DEF Crash, Dropped
<1>6. ASSUME NEW p \in Proc, NEW t \in Task, Scan(p, t) PROVE LockInv'
  BY <1>6 DEF Scan
<1>7. ASSUME NEW p \in Proc, NEW t \in Task, Launch(p, t) PROVE LockInv'
  BY <1>7 DEF Launch
<1>8. ASSUME NEW p \in Proc, NEW t \in Task, Result(p, t) PROVE LockInv'
  BY <1>8 DEF Result
<1>9. ASSUME NEW p \in Proc, NEW t \in Task, ResultErr(p, t) PROVE LockInv'
  BY <1>9 DEF ResultErr
<1>10. ASSUME NEW p \in Proc, NEW t \in Task, Fresh(p, t) PROVE LockInv'
  BY <1>10 DEF Fresh
<1>11. ASSUME NEW p \in Proc, NEW t \in Task, Lock(p, t) PROVE LockInv'
  BY <1>11 DEF Lock
<1>12. ASSUME NEW p \in Proc, NEW t \in Task, RecheckHit(p, t) PROVE LockInv'
  BY <1>12 DEF RecheckHit
<1>13. ASSUME NEW p \in Proc, NEW t \in Task, RecheckMiss(p, t) PROVE LockInv'
  BY <1>13 DEF RecheckMiss
<1>14. ASSUME NEW p \in Proc, NEW t \in Task, Clean(p, t) PROVE LockInv'
  BY <1>14 DEF Clean
<1>15. ASSUME NEW p \in Proc, NEW t \in Task, ClearTree(p, t) PROVE LockInv'
  BY <1>15 DEF ClearTree
<1>16. ASSUME NEW p \in Proc, NEW t \in Task, OpenDone(p, t) PROVE LockInv'
  BY <1>16 DEF OpenDone
<1>17. ASSUME NEW p \in Proc, NEW t \in Task, Act(p, t) PROVE LockInv'
  BY <1>17 DEF Act
<1>18. ASSUME NEW p \in Proc, NEW t \in Task, ActOk(p, t) PROVE LockInv'
  BY <1>18 DEF ActOk
<1>19. ASSUME NEW p \in Proc, NEW t \in Task, ActFail(p, t) PROVE LockInv'
  BY <1>19 DEF ActFail
<1>20. ASSUME NEW p \in Proc, NEW t \in Task, ActDry(p, t) PROVE LockInv'
  BY <1>20 DEF ActDry
<1>21. ASSUME NEW p \in Proc, NEW t \in Task,
              WriteManifest(p, t)
       PROVE LockInv'
  BY <1>21 DEF WriteManifest
<1>22. ASSUME NEW p \in Proc, NEW t \in Task, RemoveTmp(p, t) PROVE LockInv'
  BY <1>22 DEF RemoveTmp
<1>23. ASSUME NEW p \in Proc, NEW t \in Task, Close(p, t) PROVE LockInv'
  BY <1>23 DEF Close
<1>24. ASSUME NEW p \in Proc, NEW t \in Task, NEW d \in todo[p][t],
              OpenTree(p, t, d)
       PROVE LockInv'
  <2>1. /\ pc[p][t] = "open"
        /\ pc' = pc \/ pc' = [pc EXCEPT ![p][t] = "stage"]
        /\ UNCHANGED <<disk, lock, phase, state, scanned, loop, linked, starts>>
    BY <1>24 DEF OpenTree
  <2>2. CASE pc' = pc
    BY <2>1, <2>2
  <2>3. CASE pc' = [pc EXCEPT ![p][t] = "stage"]
    BY <2>1, <2>3
  <2> QED
    BY <2>1, <2>2, <2>3
<1>25. ASSUME NEW p \in Proc, NEW t \in Task, NEW d \in todo[p][t],
              StageTree(p, t, d)
       PROVE LockInv'
  BY <1>25 DEF StageTree
<1>26. ASSUME NEW p \in Proc, NEW t \in Task, NEW b \in Blob,
              StoreFile(p, t, b)
       PROVE LockInv'
  BY <1>26 DEF StoreFile
<1>27. CASE RemoveTrees
  BY <1>27 DEF RemoveTrees
<1> HIDE DEF CargoInv, TypeOK, LockInv, Locked, Idle, disk, files, loop, Goto
<1> QED
  BY <1>1, <1>2, <1>3, <1>4, <1>5, <1>6, <1>7, <1>8, <1>9, <1>10, <1>11,
     <1>12, <1>13, <1>14, <1>15, <1>16, <1>17, <1>18, <1>19, <1>20, <1>21,
     <1>22, <1>23, <1>24, <1>25, <1>26, <1>27
     DEF Next, LoopStep, TaskStep

\* The phases of TaskExecutor.run.
LEMMA RunStep == CargoInv /\ [Next]_vars => RunInv'
<1> SUFFICES ASSUME CargoInv, [Next]_vars PROVE RunInv'
  OBVIOUS
<1> USE TaskAssumption, CargoAssumption
<1> USE DEF CargoInv, TypeOK, RunInv, Idle, Running, Active, Completed, disk,
      files, loop, Goto
<1>1. CASE UNCHANGED vars
  BY <1>1 DEF vars
<1>2. ASSUME NEW p \in Proc, Start(p) PROVE RunInv'
  BY <1>2 DEF Start
<1>3. ASSUME NEW p \in Proc, ScanDone(p) PROVE RunInv'
  BY <1>3 DEF ScanDone
<1>4. ASSUME NEW p \in Proc, Finish(p) PROVE RunInv'
  BY <1>4 DEF Finish
<1>5. ASSUME NEW p \in Proc, Crash(p) PROVE RunInv'
  BY <1>5 DEF Crash
<1>6. ASSUME NEW p \in Proc, NEW t \in Task, Scan(p, t) PROVE RunInv'
  BY <1>6 DEF Scan
<1>7. ASSUME NEW p \in Proc, NEW t \in Task, Launch(p, t) PROVE RunInv'
  BY <1>7 DEF Launch, CanLaunch
<1>8. ASSUME NEW p \in Proc, NEW t \in Task, Result(p, t) PROVE RunInv'
  BY <1>8 DEF Result
<1>9. ASSUME NEW p \in Proc, NEW t \in Task, ResultErr(p, t) PROVE RunInv'
  BY <1>9 DEF ResultErr
<1>10. ASSUME NEW p \in Proc, NEW t \in Task, Fresh(p, t) PROVE RunInv'
  BY <1>10 DEF Fresh
<1>11. ASSUME NEW p \in Proc, NEW t \in Task, Lock(p, t) PROVE RunInv'
  BY <1>11 DEF Lock
<1>12. ASSUME NEW p \in Proc, NEW t \in Task, RecheckHit(p, t) PROVE RunInv'
  BY <1>12 DEF RecheckHit
<1>13. ASSUME NEW p \in Proc, NEW t \in Task, RecheckMiss(p, t) PROVE RunInv'
  BY <1>13 DEF RecheckMiss
<1>14. ASSUME NEW p \in Proc, NEW t \in Task, Clean(p, t) PROVE RunInv'
  BY <1>14 DEF Clean
<1>15. ASSUME NEW p \in Proc, NEW t \in Task, ClearTree(p, t) PROVE RunInv'
  BY <1>15 DEF ClearTree
<1>16. ASSUME NEW p \in Proc, NEW t \in Task, OpenDone(p, t) PROVE RunInv'
  BY <1>16 DEF OpenDone
<1>17. ASSUME NEW p \in Proc, NEW t \in Task, Act(p, t) PROVE RunInv'
  BY <1>17 DEF Act
<1>18. ASSUME NEW p \in Proc, NEW t \in Task, ActOk(p, t) PROVE RunInv'
  BY <1>18 DEF ActOk
<1>19. ASSUME NEW p \in Proc, NEW t \in Task, ActFail(p, t) PROVE RunInv'
  BY <1>19 DEF ActFail
<1>20. ASSUME NEW p \in Proc, NEW t \in Task, ActDry(p, t) PROVE RunInv'
  BY <1>20 DEF ActDry
<1>21. ASSUME NEW p \in Proc, NEW t \in Task, WriteManifest(p, t) PROVE RunInv'
  BY <1>21 DEF WriteManifest
<1>22. ASSUME NEW p \in Proc, NEW t \in Task, RemoveTmp(p, t) PROVE RunInv'
  BY <1>22 DEF RemoveTmp
<1>23. ASSUME NEW p \in Proc, NEW t \in Task, Close(p, t) PROVE RunInv'
  BY <1>23 DEF Close
<1>24. ASSUME NEW p \in Proc, NEW t \in Task, NEW d \in todo[p][t],
              OpenTree(p, t, d)
       PROVE RunInv'
  <2>1. /\ pc[p][t] = "open"
        /\ pc' = pc \/ pc' = [pc EXCEPT ![p][t] = "stage"]
        /\ UNCHANGED <<disk, lock, phase, state, scanned, loop, linked, starts>>
    BY <1>24 DEF OpenTree
  <2>2. CASE pc' = pc
    BY <2>1, <2>2
  <2>3. CASE pc' = [pc EXCEPT ![p][t] = "stage"]
    BY <2>1, <2>3
  <2> QED
    BY <2>1, <2>2, <2>3
<1>25. ASSUME NEW p \in Proc, NEW t \in Task, NEW d \in todo[p][t],
              StageTree(p, t, d)
       PROVE RunInv'
  BY <1>25 DEF StageTree
<1>26. ASSUME NEW p \in Proc, NEW t \in Task, NEW b \in Blob,
              StoreFile(p, t, b)
       PROVE RunInv'
  BY <1>26 DEF StoreFile
<1>27. CASE RemoveTrees
  BY <1>27 DEF RemoveTrees
<1> HIDE DEF CargoInv, TypeOK, RunInv, Idle, Running, Active, Completed, disk,
      files, loop, Goto
<1> QED
  BY <1>1, <1>2, <1>3, <1>4, <1>5, <1>6, <1>7, <1>8, <1>9, <1>10, <1>11,
     <1>12, <1>13, <1>14, <1>15, <1>16, <1>17, <1>18, <1>19, <1>20, <1>21,
     <1>22, <1>23, <1>24, <1>25, <1>26, <1>27
     DEF Next, LoopStep, TaskStep

\* task.state is set from the cache, or with the manifest that is written.
LEMMA StateStep == CargoInv /\ [Next]_vars => StateInv'
<1> SUFFICES ASSUME CargoInv, [Next]_vars PROVE StateInv'
  OBVIOUS
<1> USE TaskAssumption, CargoAssumption
<1> USE DEF CargoInv, TypeOK, StateInv, disk, files, loop, Goto
<1>1. CASE UNCHANGED vars
  BY <1>1 DEF vars
<1>2. ASSUME NEW p \in Proc, Start(p) PROVE StateInv'
  BY <1>2 DEF Start
<1>3. ASSUME NEW p \in Proc, ScanDone(p) PROVE StateInv'
  BY <1>3 DEF ScanDone
<1>4. ASSUME NEW p \in Proc, Finish(p) PROVE StateInv'
  BY <1>4 DEF Finish
<1>5. ASSUME NEW p \in Proc, Crash(p) PROVE StateInv'
  BY <1>5 DEF Crash
<1>6. ASSUME NEW p \in Proc, NEW t \in Task, Scan(p, t) PROVE StateInv'
  BY <1>6 DEF Scan, RunInv, Valid
<1>7. ASSUME NEW p \in Proc, NEW t \in Task, Launch(p, t) PROVE StateInv'
  BY <1>7 DEF Launch
<1>8. ASSUME NEW p \in Proc, NEW t \in Task, Result(p, t) PROVE StateInv'
  BY <1>8 DEF Result
<1>9. ASSUME NEW p \in Proc, NEW t \in Task, ResultErr(p, t) PROVE StateInv'
  BY <1>9 DEF ResultErr
<1>10. ASSUME NEW p \in Proc, NEW t \in Task, Fresh(p, t) PROVE StateInv'
  BY <1>10 DEF Fresh
<1>11. ASSUME NEW p \in Proc, NEW t \in Task, Lock(p, t) PROVE StateInv'
  BY <1>11 DEF Lock
<1>12. ASSUME NEW p \in Proc, NEW t \in Task, RecheckHit(p, t) PROVE StateInv'
  BY <1>12 DEF RecheckHit, RunInv, Valid
<1>13. ASSUME NEW p \in Proc, NEW t \in Task, RecheckMiss(p, t) PROVE StateInv'
  BY <1>13 DEF RecheckMiss
<1>14. ASSUME NEW p \in Proc, NEW t \in Task, Clean(p, t) PROVE StateInv'
  BY <1>14 DEF Clean
<1>15. ASSUME NEW p \in Proc, NEW t \in Task, ClearTree(p, t) PROVE StateInv'
  BY <1>15 DEF ClearTree
<1>16. ASSUME NEW p \in Proc, NEW t \in Task, OpenDone(p, t) PROVE StateInv'
  BY <1>16 DEF OpenDone
<1>17. ASSUME NEW p \in Proc, NEW t \in Task, Act(p, t) PROVE StateInv'
  BY <1>17 DEF Act
<1>18. ASSUME NEW p \in Proc, NEW t \in Task, ActOk(p, t) PROVE StateInv'
  BY <1>18 DEF ActOk
<1>19. ASSUME NEW p \in Proc, NEW t \in Task, ActFail(p, t) PROVE StateInv'
  BY <1>19 DEF ActFail
<1>20. ASSUME NEW p \in Proc, NEW t \in Task, ActDry(p, t) PROVE StateInv'
  BY <1>20 DEF ActDry
<1>21. ASSUME NEW p \in Proc, NEW t \in Task,
              WriteManifest(p, t)
       PROVE StateInv'
  <2>1. p \notin Dry /\ manifest[t] = Absent
    BY <1>21 DEF WriteManifest, RunInv, MissInv
  <2> QED
    BY <1>21, <2>1 DEF WriteManifest
<1>22. ASSUME NEW p \in Proc, NEW t \in Task, RemoveTmp(p, t) PROVE StateInv'
  BY <1>22 DEF RemoveTmp
<1>23. ASSUME NEW p \in Proc, NEW t \in Task, Close(p, t) PROVE StateInv'
  BY <1>23 DEF Close
<1>24. ASSUME NEW p \in Proc, NEW t \in Task, NEW d \in todo[p][t],
              OpenTree(p, t, d)
       PROVE StateInv'
  <2>1. /\ pc[p][t] = "open"
        /\ pc' = pc \/ pc' = [pc EXCEPT ![p][t] = "stage"]
        /\ UNCHANGED <<disk, lock, phase, state, scanned, loop, linked, starts>>
    BY <1>24 DEF OpenTree
  <2>2. CASE pc' = pc
    BY <2>1, <2>2
  <2>3. CASE pc' = [pc EXCEPT ![p][t] = "stage"]
    BY <2>1, <2>3
  <2> QED
    BY <2>1, <2>2, <2>3
<1>25. ASSUME NEW p \in Proc, NEW t \in Task, NEW d \in todo[p][t],
              StageTree(p, t, d)
       PROVE StateInv'
  BY <1>25 DEF StageTree
<1>26. ASSUME NEW p \in Proc, NEW t \in Task, NEW b \in Blob,
              StoreFile(p, t, b)
       PROVE StateInv'
  BY <1>26 DEF StoreFile
<1>27. CASE RemoveTrees
  BY <1>27 DEF RemoveTrees
<1> HIDE DEF CargoInv, TypeOK, StateInv, disk, files, loop, Goto
<1> QED
  BY <1>1, <1>2, <1>3, <1>4, <1>5, <1>6, <1>7, <1>8, <1>9, <1>10, <1>11,
     <1>12, <1>13, <1>14, <1>15, <1>16, <1>17, <1>18, <1>19, <1>20, <1>21,
     <1>22, <1>23, <1>24, <1>25, <1>26, <1>27
     DEF Next, LoopStep, TaskStep

\* Who is past the second look at the cache without a hit keeps the flock, and
\* only the holder writes the manifest.
LEMMA MissStep == CargoInv /\ [Next]_vars => MissInv'
<1> SUFFICES ASSUME CargoInv, [Next]_vars PROVE MissInv'
  OBVIOUS
<1> USE TaskAssumption, CargoAssumption
<1> USE DEF CargoInv, TypeOK, MissInv, LockInv, Locked, RunInv,
      StoredIsComplete, Valid, disk, files, loop, Goto
<1>1. CASE UNCHANGED vars
  BY <1>1 DEF vars
<1>2. ASSUME NEW p \in Proc, Start(p) PROVE MissInv'
  BY <1>2 DEF Start
<1>3. ASSUME NEW p \in Proc, ScanDone(p) PROVE MissInv'
  BY <1>3 DEF ScanDone
<1>4. ASSUME NEW p \in Proc, Finish(p) PROVE MissInv'
  BY <1>4 DEF Finish
<1>5. ASSUME NEW p \in Proc, Crash(p) PROVE MissInv'
  BY <1>5 DEF Crash
<1>6. ASSUME NEW p \in Proc, NEW t \in Task, Scan(p, t) PROVE MissInv'
  BY <1>6 DEF Scan
<1>7. ASSUME NEW p \in Proc, NEW t \in Task, Launch(p, t) PROVE MissInv'
  BY <1>7 DEF Launch
<1>8. ASSUME NEW p \in Proc, NEW t \in Task, Result(p, t) PROVE MissInv'
  BY <1>8 DEF Result
<1>9. ASSUME NEW p \in Proc, NEW t \in Task, ResultErr(p, t) PROVE MissInv'
  BY <1>9 DEF ResultErr
<1>10. ASSUME NEW p \in Proc, NEW t \in Task, Fresh(p, t) PROVE MissInv'
  BY <1>10 DEF Fresh
<1>11. ASSUME NEW p \in Proc, NEW t \in Task, Lock(p, t) PROVE MissInv'
  BY <1>11 DEF Lock
<1>12. ASSUME NEW p \in Proc, NEW t \in Task, RecheckHit(p, t) PROVE MissInv'
  BY <1>12 DEF RecheckHit
<1>13. ASSUME NEW p \in Proc, NEW t \in Task, RecheckMiss(p, t) PROVE MissInv'
  BY <1>13 DEF RecheckMiss
<1>14. ASSUME NEW p \in Proc, NEW t \in Task, Clean(p, t) PROVE MissInv'
  BY <1>14 DEF Clean
<1>15. ASSUME NEW p \in Proc, NEW t \in Task, ClearTree(p, t) PROVE MissInv'
  BY <1>15 DEF ClearTree
<1>16. ASSUME NEW p \in Proc, NEW t \in Task, OpenDone(p, t) PROVE MissInv'
  BY <1>16 DEF OpenDone
<1>17. ASSUME NEW p \in Proc, NEW t \in Task, Act(p, t) PROVE MissInv'
  BY <1>17 DEF Act
<1>18. ASSUME NEW p \in Proc, NEW t \in Task, ActOk(p, t) PROVE MissInv'
  BY <1>18 DEF ActOk
<1>19. ASSUME NEW p \in Proc, NEW t \in Task, ActFail(p, t) PROVE MissInv'
  BY <1>19 DEF ActFail
<1>20. ASSUME NEW p \in Proc, NEW t \in Task, ActDry(p, t) PROVE MissInv'
  BY <1>20 DEF ActDry
<1>21. ASSUME NEW p \in Proc, NEW t \in Task,
              WriteManifest(p, t)
       PROVE MissInv'
  BY <1>21 DEF WriteManifest
<1>22. ASSUME NEW p \in Proc, NEW t \in Task, RemoveTmp(p, t) PROVE MissInv'
  BY <1>22 DEF RemoveTmp
<1>23. ASSUME NEW p \in Proc, NEW t \in Task, Close(p, t) PROVE MissInv'
  BY <1>23 DEF Close
<1>24. ASSUME NEW p \in Proc, NEW t \in Task, NEW d \in todo[p][t],
              OpenTree(p, t, d)
       PROVE MissInv'
  <2>1. /\ pc[p][t] = "open"
        /\ pc' = pc \/ pc' = [pc EXCEPT ![p][t] = "stage"]
        /\ UNCHANGED <<disk, lock, phase, state, scanned, loop, linked, starts>>
    BY <1>24 DEF OpenTree
  <2>2. CASE pc' = pc
    BY <2>1, <2>2
  <2>3. CASE pc' = [pc EXCEPT ![p][t] = "stage"]
    BY <2>1, <2>3
  <2> QED
    BY <2>1, <2>2, <2>3
<1>25. ASSUME NEW p \in Proc, NEW t \in Task, NEW d \in todo[p][t],
              StageTree(p, t, d)
       PROVE MissInv'
  BY <1>25 DEF StageTree
<1>26. ASSUME NEW p \in Proc, NEW t \in Task, NEW b \in Blob,
              StoreFile(p, t, b)
       PROVE MissInv'
  BY <1>26 DEF StoreFile
<1>27. CASE RemoveTrees
  BY <1>27 DEF RemoveTrees
<1> HIDE DEF CargoInv, TypeOK, MissInv, LockInv, Locked, RunInv,
      StoredIsComplete, Valid, disk, files, loop, Goto
<1> QED
  BY <1>1, <1>2, <1>3, <1>4, <1>5, <1>6, <1>7, <1>8, <1>9, <1>10, <1>11,
     <1>12, <1>13, <1>14, <1>15, <1>16, <1>17, <1>18, <1>19, <1>20, <1>21,
     <1>22, <1>23, <1>24, <1>25, <1>26, <1>27
     DEF Next, LoopStep, TaskStep

\* What an action writes are blobs.
LEMMA WritesType ==
  ASSUME TypeOK, NEW t \in Task, NEW part \in SUBSET Blob, Writes(t, part)
  PROVE  /\ tree' \in [Task -> {Absent} \cup SUBSET Blob]
         /\ out' \in [Task -> SUBSET Blob]
<1>1. /\ tree \in [Task -> {Absent} \cup SUBSET Blob]
      /\ out \in [Task -> SUBSET Blob]
  BY DEF TypeOK
<1>2. Held(tree[t]) \cup part \in SUBSET Blob /\ out[t] \cup part \in SUBSET Blob
  BY <1>1 DEF Held
<1>3. CASE t \in Stable
  <2>1. tree' = [tree EXCEPT ![t] = Held(tree[t]) \cup part] /\ out' = out
    BY <1>3 DEF Writes
  <2> QED
    BY <1>1, <1>2, <2>1
<1>4. CASE t \notin Stable
  <2>1. out' = [out EXCEPT ![t] = out[t] \cup part] /\ tree' = tree
    BY <1>4 DEF Writes
  <2> QED
    BY <1>1, <1>2, <2>1
<1> QED
  BY <1>3, <1>4

\* Every step keeps the types.
LEMMA TypeStep == CargoInv /\ [Next]_vars => TypeOK'
<1> SUFFICES ASSUME CargoInv, [Next]_vars PROVE TypeOK'
  OBVIOUS
<1> USE TaskAssumption, CargoAssumption
<1> USE DEF CargoInv, TypeOK, Idle, Pcs, Opens, disk, files, loop, Goto
<1>1. CASE UNCHANGED vars
  BY <1>1 DEF vars
<1>2. ASSUME NEW p \in Proc, Start(p) PROVE TypeOK'
  <2>1. \A t \in Task : Cardinality(Deps[t]) \in Nat
    BY FS_Subset, FS_CardinalityType
  <2>2. /\ pending' \in [Proc -> [Task -> Nat]]
        /\ state' \in [Proc -> [Task -> {Absent} \cup SUBSET Blob]]
        /\ pc' \in [Proc -> [Task -> Pcs]]
        /\ todo' \in [Proc -> [Task -> SUBSET Task]]
        /\ linked' \in [Proc -> [Task -> SUBSET Blob]]
    BY <1>2, <2>1 DEF Start
  <2>3. /\ phase' \in [Proc -> {"off", "scan", "run", "ok", "failed"}]
        /\ scanned' \in [Proc -> SUBSET Task]
        /\ failed' \in [Proc -> BOOLEAN]
        /\ starts' \in [Proc -> Nat]
    BY <1>2 DEF Start
  <2> QED
    BY <1>2, <2>2, <2>3 DEF Start
<1>3. ASSUME NEW p \in Proc, ScanDone(p) PROVE TypeOK'
  BY <1>3 DEF ScanDone
<1>4. ASSUME NEW p \in Proc, Finish(p) PROVE TypeOK'
  BY <1>4 DEF Finish, Dropped
<1>5. ASSUME NEW p \in Proc, Crash(p) PROVE TypeOK'
  BY <1>5 DEF Crash, Dropped
<1>6. ASSUME NEW p \in Proc, NEW t \in Task, Scan(p, t) PROVE TypeOK'
  BY <1>6 DEF Scan
<1>7. ASSUME NEW p \in Proc, NEW t \in Task, Launch(p, t) PROVE TypeOK'
  BY <1>7 DEF Launch
<1>8. ASSUME NEW p \in Proc, NEW t \in Task, Result(p, t) PROVE TypeOK'
  <2>1. ASSUME NEW u \in Dependents(t) PROVE pending[p][u] - 1 \in Nat
    <3>1. u \in Task /\ t \in Deps[u] /\ t \in Missing(p, u)
      BY <1>8 DEF Result, Dependents, Missing
    <3>2. pending[p][u] = Cardinality(Missing(p, u))
      BY <1>8, <3>1 DEF Result, CountInv
    <3>3. IsFiniteSet(Missing(p, u))
      BY <3>1, FS_Subset DEF Missing
    <3>4. Cardinality(Missing(p, u)) \in Nat /\ Cardinality(Missing(p, u)) # 0
      BY <3>1, <3>3, FS_CardinalityType, FS_EmptySet
    <3> QED
      BY <3>2, <3>4
  <2> QED
    BY <1>8, <2>1 DEF Result
<1>9. ASSUME NEW p \in Proc, NEW t \in Task, ResultErr(p, t) PROVE TypeOK'
  BY <1>9 DEF ResultErr
<1>10. ASSUME NEW p \in Proc, NEW t \in Task, Fresh(p, t) PROVE TypeOK'
  BY <1>10 DEF Fresh
<1>11. ASSUME NEW p \in Proc, NEW t \in Task, Lock(p, t) PROVE TypeOK'
  BY <1>11 DEF Lock
<1>12. ASSUME NEW p \in Proc, NEW t \in Task, RecheckHit(p, t) PROVE TypeOK'
  BY <1>12 DEF RecheckHit
<1>13. ASSUME NEW p \in Proc, NEW t \in Task, RecheckMiss(p, t) PROVE TypeOK'
  BY <1>13 DEF RecheckMiss
<1>14. ASSUME NEW p \in Proc, NEW t \in Task, Clean(p, t) PROVE TypeOK'
  BY <1>14 DEF Clean
<1>15. ASSUME NEW p \in Proc, NEW t \in Task, ClearTree(p, t) PROVE TypeOK'
  BY <1>15 DEF ClearTree
<1>16. ASSUME NEW p \in Proc, NEW t \in Task, OpenDone(p, t) PROVE TypeOK'
  BY <1>16 DEF OpenDone
<1>17. ASSUME NEW p \in Proc, NEW t \in Task, Act(p, t) PROVE TypeOK'
  <2>1. PICK product \in Products[t] : \E part \in SUBSET product :
                 goal' = [goal EXCEPT ![t] = product] /\ Writes(t, part)
    BY <1>17 DEF Act
  <2>2. product \in SUBSET Blob
    OBVIOUS
  <2>3. /\ tree' \in [Task -> {Absent} \cup SUBSET Blob]
        /\ out' \in [Task -> SUBSET Blob]
    BY <2>1, <2>2, WritesType
  <2>4. goal' \in [Task -> SUBSET Blob]
    BY <2>1, <2>2
  <2> QED
    BY <1>17, <2>3, <2>4 DEF Act
<1>18. ASSUME NEW p \in Proc, NEW t \in Task, ActOk(p, t) PROVE TypeOK'
  <2>1. /\ tree' \in [Task -> {Absent} \cup SUBSET Blob]
        /\ out' \in [Task -> SUBSET Blob]
    BY <1>18, WritesType DEF ActOk
  <2> QED
    BY <1>18, <2>1 DEF ActOk
<1>19. ASSUME NEW p \in Proc, NEW t \in Task, ActFail(p, t) PROVE TypeOK'
  BY <1>19 DEF ActFail
<1>20. ASSUME NEW p \in Proc, NEW t \in Task, ActDry(p, t) PROVE TypeOK'
  <2>1. /\ tree' \in [Task -> {Absent} \cup SUBSET Blob]
        /\ out' \in [Task -> SUBSET Blob]
    BY <1>20, WritesType DEF ActDry
  <2> QED
    BY <1>20, <2>1 DEF ActDry
<1>21. ASSUME NEW p \in Proc, NEW t \in Task, WriteManifest(p, t) PROVE TypeOK'
  BY <1>21 DEF WriteManifest
<1>22. ASSUME NEW p \in Proc, NEW t \in Task, RemoveTmp(p, t) PROVE TypeOK'
  BY <1>22 DEF RemoveTmp
<1>23. ASSUME NEW p \in Proc, NEW t \in Task, Close(p, t) PROVE TypeOK'
  BY <1>23 DEF Close
<1>24. ASSUME NEW p \in Proc, NEW t \in Task, NEW d \in todo[p][t],
              OpenTree(p, t, d)
       PROVE TypeOK'
  <2>1. /\ pc[p][t] = "open"
        /\ \/ pc' = pc /\ todo' = [todo EXCEPT ![p][t] = @ \ {d}]
           \/ pc' = [pc EXCEPT ![p][t] = "stage"] /\ todo' = todo
        /\ UNCHANGED <<disk, lock, phase, state, scanned, loop, linked, starts>>
    BY <1>24 DEF OpenTree
  <2>2. CASE pc' = pc /\ todo' = [todo EXCEPT ![p][t] = @ \ {d}]
    BY <2>1, <2>2
  <2>3. CASE pc' = [pc EXCEPT ![p][t] = "stage"] /\ todo' = todo
    BY <2>1, <2>3
  <2> QED
    BY <2>1, <2>2, <2>3
<1>25. ASSUME NEW p \in Proc, NEW t \in Task, NEW d \in todo[p][t],
              StageTree(p, t, d)
       PROVE TypeOK'
  <2>1. d \in Task /\ Held(state[p][d]) \in SUBSET Blob
    BY DEF Held
  <2>2. tree' \in [Task -> {Absent} \cup SUBSET Blob]
    BY <1>25, <2>1 DEF StageTree
  <2> QED
    BY <1>25, <2>2 DEF StageTree
<1>26. ASSUME NEW p \in Proc, NEW t \in Task, NEW b \in Blob,
              StoreFile(p, t, b)
       PROVE TypeOK'
  BY <1>26 DEF StoreFile
<1>27. CASE RemoveTrees
  BY <1>27 DEF RemoveTrees
<1> HIDE DEF CargoInv, TypeOK, Idle, Pcs, Opens, disk, files, loop, Goto
<1> QED
  BY <1>1, <1>2, <1>3, <1>4, <1>5, <1>6, <1>7, <1>8, <1>9, <1>10, <1>11,
     <1>12, <1>13, <1>14, <1>15, <1>16, <1>17, <1>18, <1>19, <1>20, <1>21,
     <1>22, <1>23, <1>24, <1>25, <1>26, <1>27
     DEF Next, LoopStep, TaskStep

\* A manifest is written when all the outputs of one run are in the CAS, and
\* nothing is ever taken out of it.
LEMMA StoredStep == CargoInv /\ [Next]_vars => StoredIsComplete'
<1> SUFFICES ASSUME CargoInv, [Next]_vars PROVE StoredIsComplete'
  OBVIOUS
<1> USE DEF CargoInv
<1>1. CASE manifest' = manifest /\ cas \subseteq cas'
  BY <1>1 DEF StoredIsComplete
<1>2. ASSUME NEW p \in Proc, NEW t \in Task, WriteManifest(p, t)
      PROVE StoredIsComplete'
  <2>1. p \notin Dry
    BY <1>2 DEF WriteManifest, RunInv
  <2>2. /\ goal[t] \in Products[t] /\ Output(t) = goal[t]
        /\ linked[p][t] \subseteq goal[t] /\ linked[p][t] \subseteq cas
        /\ Output(t) \subseteq linked[p][t]
    BY <1>2, <2>1 DEF WriteManifest, OutInv, OutAt
  <2>3. linked[p][t] = goal[t]
    BY <2>2
  <2>4. manifest' = [manifest EXCEPT ![t] = goal[t]] /\ cas' = cas
    BY <1>2, <2>3 DEF WriteManifest
  <2> QED
    BY <2>2, <2>3, <2>4 DEF StoredIsComplete, TypeOK
<1> QED
  BY <1>1, <1>2 DEF Next, LoopStep, TaskStep, Start, ScanDone, Finish, Crash,
     Scan, Launch, Result, ResultErr, Fresh, Lock, RecheckHit, RecheckMiss,
     Clean, ClearTree, OpenDone, Act, ActOk, ActFail, ActDry, RemoveTmp, Close,
     OpenTree, StageTree, StoreFile, RemoveTrees, vars, disk, files, loop

\* A task is scanned after its dependencies, so it closes no cycle.
LEMMA OrderStep == CargoInv /\ [Next]_vars => OrderInv'
<1> SUFFICES ASSUME CargoInv, [Next]_vars PROVE OrderInv'
  OBVIOUS
<1> USE TaskAssumption DEF CargoInv
<1>1. CASE scanned' = scanned
  BY <1>1 DEF OrderInv
<1>2. ASSUME NEW p \in Proc, Start(p) PROVE OrderInv'
  <2>1. scanned'[p] = {} /\ \A q \in Proc \ {p} : scanned'[q] = scanned[q]
    BY <1>2 DEF Start, TypeOK
  <2> QED
    BY <2>1 DEF OrderInv
<1>3. ASSUME NEW p \in Proc, NEW t \in Task, Scan(p, t) PROVE OrderInv'
  <2>1. /\ scanned'[p] = scanned[p] \cup {t}
        /\ \A q \in Proc \ {p} : scanned'[q] = scanned[q]
        /\ t \notin scanned[p] /\ Deps[t] \subseteq scanned[p]
    BY <1>3 DEF Scan, TypeOK
  <2>2. \A s \in scanned'[p] : Deps[s] \subseteq scanned'[p] /\ t \notin Deps[s]
    BY <2>1 DEF OrderInv
  <2>3. ASSUME NEW S \in SUBSET scanned'[p], S # {}
        PROVE  \E s \in S : Deps[s] \cap S = {}
    <3>1. CASE S \subseteq {t}
      BY <2>2, <2>3, <3>1
    <3>2. CASE ~(S \subseteq {t})
      <4>1. S \ {t} \in SUBSET scanned[p] /\ S \ {t} # {}
        BY <2>1, <3>2
      <4>2. PICK s \in S \ {t} : Deps[s] \cap (S \ {t}) = {}
        BY <4>1 DEF OrderInv
      <4> QED
        BY <2>2, <4>2
    <3> QED
      BY <3>1, <3>2
  <2> QED
    BY <2>1, <2>2, <2>3 DEF OrderInv
<1> QED
  BY <1>1, <1>2, <1>3 DEF Next, LoopStep, TaskStep, Start, ScanDone, Finish,
     Crash, Scan, Launch, Result, ResultErr, Fresh, Lock, RecheckHit,
     RecheckMiss, Clean, ClearTree, OpenDone, Act, ActOk, ActFail, ActDry,
     WriteManifest, RemoveTmp, Close, OpenTree, StageTree, StoreFile,
     RemoveTrees, vars, disk, files, loop

\* The trees left to open are among those of the action, and none is left when
\* it starts.
LEMMA TodoStep == CargoInv /\ [Next]_vars => TodoInv'
<1> SUFFICES ASSUME CargoInv, [Next]_vars PROVE TodoInv'
  OBVIOUS
<1> USE TaskAssumption, CargoAssumption
<1> USE DEF CargoInv, TypeOK, TodoInv, disk, files, loop, Goto
<1>1. CASE UNCHANGED vars
  BY <1>1 DEF vars
<1>2. ASSUME NEW p \in Proc, Start(p) PROVE TodoInv'
  BY <1>2 DEF Start
<1>3. ASSUME NEW p \in Proc, ScanDone(p) PROVE TodoInv'
  BY <1>3 DEF ScanDone
<1>4. ASSUME NEW p \in Proc, Finish(p) PROVE TodoInv'
  BY <1>4 DEF Finish
<1>5. ASSUME NEW p \in Proc, Crash(p) PROVE TodoInv'
  BY <1>5 DEF Crash
<1>6. ASSUME NEW p \in Proc, NEW t \in Task, Scan(p, t) PROVE TodoInv'
  BY <1>6 DEF Scan
<1>7. ASSUME NEW p \in Proc, NEW t \in Task, Launch(p, t) PROVE TodoInv'
  BY <1>7 DEF Launch
<1>8. ASSUME NEW p \in Proc, NEW t \in Task, Result(p, t) PROVE TodoInv'
  BY <1>8 DEF Result
<1>9. ASSUME NEW p \in Proc, NEW t \in Task, ResultErr(p, t) PROVE TodoInv'
  BY <1>9 DEF ResultErr
<1>10. ASSUME NEW p \in Proc, NEW t \in Task, Fresh(p, t) PROVE TodoInv'
  BY <1>10 DEF Fresh
<1>11. ASSUME NEW p \in Proc, NEW t \in Task, Lock(p, t) PROVE TodoInv'
  BY <1>11 DEF Lock
<1>12. ASSUME NEW p \in Proc, NEW t \in Task, RecheckHit(p, t) PROVE TodoInv'
  BY <1>12 DEF RecheckHit
<1>13. ASSUME NEW p \in Proc, NEW t \in Task, RecheckMiss(p, t) PROVE TodoInv'
  BY <1>13 DEF RecheckMiss
<1>14. ASSUME NEW p \in Proc, NEW t \in Task, Clean(p, t) PROVE TodoInv'
  BY <1>14 DEF Clean
<1>15. ASSUME NEW p \in Proc, NEW t \in Task, ClearTree(p, t) PROVE TodoInv'
  BY <1>15 DEF ClearTree
<1>16. ASSUME NEW p \in Proc, NEW t \in Task, OpenDone(p, t) PROVE TodoInv'
  BY <1>16 DEF OpenDone
<1>17. ASSUME NEW p \in Proc, NEW t \in Task, Act(p, t) PROVE TodoInv'
  BY <1>17 DEF Act
<1>18. ASSUME NEW p \in Proc, NEW t \in Task, ActOk(p, t) PROVE TodoInv'
  BY <1>18 DEF ActOk
<1>19. ASSUME NEW p \in Proc, NEW t \in Task, ActFail(p, t) PROVE TodoInv'
  BY <1>19 DEF ActFail
<1>20. ASSUME NEW p \in Proc, NEW t \in Task, ActDry(p, t) PROVE TodoInv'
  BY <1>20 DEF ActDry
<1>21. ASSUME NEW p \in Proc, NEW t \in Task,
              WriteManifest(p, t)
       PROVE TodoInv'
  BY <1>21 DEF WriteManifest
<1>22. ASSUME NEW p \in Proc, NEW t \in Task, RemoveTmp(p, t) PROVE TodoInv'
  BY <1>22 DEF RemoveTmp
<1>23. ASSUME NEW p \in Proc, NEW t \in Task, Close(p, t) PROVE TodoInv'
  BY <1>23 DEF Close
<1>24. ASSUME NEW p \in Proc, NEW t \in Task, NEW d \in todo[p][t],
              OpenTree(p, t, d)
       PROVE TodoInv'
  <2>1. /\ pc[p][t] = "open"
        /\ \/ pc' = pc /\ todo' = [todo EXCEPT ![p][t] = @ \ {d}]
           \/ pc' = [pc EXCEPT ![p][t] = "stage"] /\ todo' = todo
        /\ UNCHANGED <<disk, lock, phase, state, scanned, loop, linked, starts>>
    BY <1>24 DEF OpenTree
  <2>2. CASE pc' = pc /\ todo' = [todo EXCEPT ![p][t] = @ \ {d}]
    BY <2>1, <2>2
  <2>3. CASE pc' = [pc EXCEPT ![p][t] = "stage"] /\ todo' = todo
    BY <2>1, <2>3
  <2> QED
    BY <2>1, <2>2, <2>3
<1>25. ASSUME NEW p \in Proc, NEW t \in Task, NEW d \in todo[p][t],
              StageTree(p, t, d)
       PROVE TodoInv'
  BY <1>25 DEF StageTree
<1>26. ASSUME NEW p \in Proc, NEW t \in Task, NEW b \in Blob,
              StoreFile(p, t, b)
       PROVE TodoInv'
  BY <1>26 DEF StoreFile
<1>27. CASE RemoveTrees
  BY <1>27 DEF RemoveTrees
<1> HIDE DEF CargoInv, TypeOK, TodoInv, disk, files, loop, Goto
<1> QED
  BY <1>1, <1>2, <1>3, <1>4, <1>5, <1>6, <1>7, <1>8, <1>9, <1>10, <1>11,
     <1>12, <1>13, <1>14, <1>15, <1>16, <1>17, <1>18, <1>19, <1>20, <1>21,
     <1>22, <1>23, <1>24, <1>25, <1>26, <1>27
     DEF Next, LoopStep, TaskStep

\* Sets of tasks are finite.
LEMMA TasksFinite ==
  \A S \in SUBSET Task : IsFiniteSet(S) /\ Cardinality(S) \in Nat
  BY TaskAssumption, FS_Subset, FS_CardinalityType

\* p's goroutine of t moves on, and neither starts nor ends.
Moves(p, t) ==
  \E to \in Pcs \ {"wait", "done"} :
    /\ pc[p][t] \notin {"wait", "done"}
    /\ pc' = [pc EXCEPT ![p][t] = to]
    /\ UNCHANGED <<phase, pending>>

\* The steps of a goroutine, and the failure of a task, change no count.
LEMMA StepMoves ==
  ASSUME TypeOK, NEW p \in Proc, NEW t \in Task, TaskStep(p, t) \/ ResultErr(p, t)
  PROVE  Moves(p, t) \/ UNCHANGED <<pc, phase, pending>>
<1> USE DEF Moves, Pcs, Idle, Goto, loop
<1>1. CASE ResultErr(p, t) \/ Fresh(p, t) \/ Lock(p, t)
  BY <1>1 DEF ResultErr, Fresh, Lock
<1>2. CASE RecheckHit(p, t) \/ RecheckMiss(p, t) \/ Clean(p, t) \/ ClearTree(p, t)
  BY <1>2 DEF RecheckHit, RecheckMiss, Clean, ClearTree
<1>3. ASSUME NEW d \in todo[p][t], OpenTree(p, t, d) \/ StageTree(p, t, d)
      PROVE  Moves(p, t) \/ UNCHANGED <<pc, phase, pending>>
  BY <1>3 DEF OpenTree, StageTree
<1>4. CASE OpenDone(p, t) \/ Act(p, t) \/ ActOk(p, t) \/ ActFail(p, t) \/ ActDry(p, t)
  BY <1>4 DEF OpenDone, Act, ActOk, ActFail, ActDry
<1>5. CASE WriteManifest(p, t) \/ RemoveTmp(p, t) \/ Close(p, t)
  BY <1>5 DEF WriteManifest, RemoveTmp, Close
<1>6. ASSUME NEW b \in Blob, StoreFile(p, t, b)
      PROVE  UNCHANGED <<pc, phase, pending>>
  BY <1>6 DEF StoreFile
<1> QED
  BY <1>1, <1>2, <1>3, <1>4, <1>5, <1>6 DEF TaskStep

\* `pending` counts what is not done, from the head of run to the last result.
LEMMA CountStep == CargoInv /\ [Next]_vars => CountInv'
<1> SUFFICES ASSUME CargoInv, [Next]_vars PROVE CountInv'
  OBVIOUS
<1> USE TaskAssumption DEF CargoInv
<1>1. CASE pc' = pc /\ pending' = pending /\ phase' = phase
  BY <1>1 DEF CountInv, Missing
<1>2. ASSUME NEW p \in Proc, ScanDone(p) \/ Finish(p) PROVE CountInv'
  <2>1. /\ pc' = pc /\ pending' = pending
        /\ \A q \in Proc : phase'[q] # "off" => phase[q] # "off"
    BY <1>2 DEF ScanDone, Finish, loop, TypeOK
  <2> QED
    BY <2>1 DEF CountInv, Missing
<1>3. ASSUME NEW p \in Proc, NEW t \in Task, Moves(p, t) PROVE CountInv'
  <2>1. /\ pending' = pending /\ phase' = phase
        /\ \A q \in Proc, u \in Task :
             /\ pc'[q][u] = "done" <=> pc[q][u] = "done"
             /\ pc'[q][u] = "wait" <=> pc[q][u] = "wait"
    BY <1>3 DEF Moves, TypeOK
  <2>2. \A q \in Proc, u \in Task : Missing(q, u)' = Missing(q, u)
    BY <2>1 DEF Missing
  <2> QED
    BY <2>1, <2>2 DEF CountInv
<1>4. ASSUME NEW p \in Proc, NEW t \in Task, Launch(p, t) PROVE CountInv'
  <2>1. /\ pc' = [pc EXCEPT ![p][t] = "start"] /\ pc[p][t] = "wait"
        /\ UNCHANGED <<phase, pending>> /\ pending[p][t] = 0 /\ phase[p] = "run"
    BY <1>4 DEF Launch, CanLaunch, Ready, Goto, loop
  <2>2. \A q \in Proc, u \in Task : pc'[q][u] = "done" <=> pc[q][u] = "done"
    BY <2>1 DEF TypeOK
  <2>3. \A q \in Proc, u \in Task : Missing(q, u)' = Missing(q, u)
    BY <2>2 DEF Missing
  <2>4. Missing(p, t) \in SUBSET Task /\ Cardinality(Missing(p, t)) = 0
    BY <2>1 DEF CountInv, Missing
  <2>5. Missing(p, t) = {}
    BY <2>4, TasksFinite, FS_EmptySet
  <2>6. \A q \in Proc, u \in Task : <<q, u>> = <<p, t>> \/ pc'[q][u] = pc[q][u]
    BY <2>1 DEF TypeOK
  <2> QED
    BY <2>1, <2>3, <2>5, <2>6 DEF CountInv
<1>5. ASSUME NEW p \in Proc, NEW t \in Task, Result(p, t) PROVE CountInv'
  <2>1. /\ pc[p][t] = "sent" /\ phase' = phase /\ phase[p] # "off"
        /\ pc' = [pc EXCEPT ![p][t] = "done"]
        /\ pending' = [pending EXCEPT ![p] = [u \in Task |->
              IF u \in Dependents(t) THEN pending[p][u] - 1 ELSE pending[p][u]]]
    BY <1>5 DEF Result, Goto
  <2>2. ASSUME NEW q \in Proc \ {p}, NEW u \in Task
        PROVE  /\ phase'[q] # "off" => pending'[q][u] = Cardinality(Missing(q, u)')
               /\ pc'[q][u] # "wait" => Missing(q, u)' = {}
    <3>1. pc'[q] = pc[q] /\ pending'[q] = pending[q]
      BY <2>1 DEF TypeOK
    <3>2. Missing(q, u)' = Missing(q, u)
      BY <3>1 DEF Missing
    <3> QED
      BY <2>1, <3>1, <3>2 DEF CountInv
  <2>3. ASSUME NEW u \in Task
        PROVE  /\ pending'[p][u] = Cardinality(Missing(p, u)')
               /\ pc'[p][u] # "wait" => Missing(p, u)' = {}
    <3>1. Missing(p, u)' = Missing(p, u) \ {t}
      BY <2>1 DEF Missing, TypeOK
    <3>2. /\ Missing(p, u) \in SUBSET Task
          /\ t \in Missing(p, u) <=> u \in Dependents(t)
      BY <2>1 DEF Missing, Dependents
    <3>3. /\ pending'[p][u] = IF t \in Missing(p, u) THEN pending[p][u] - 1
                                                    ELSE pending[p][u]
          /\ pending[p][u] = Cardinality(Missing(p, u))
      BY <2>1, <3>2 DEF TypeOK, CountInv
    <3>4. Cardinality(Missing(p, u) \ {t}) =
            IF t \in Missing(p, u) THEN Cardinality(Missing(p, u)) - 1
                                   ELSE Cardinality(Missing(p, u))
      BY <3>2, TasksFinite, FS_RemoveElement
    <3>5. pc'[p][u] # "wait" => pc[p][u] # "wait"
      BY <2>1 DEF TypeOK
    <3> QED
      BY <3>1, <3>3, <3>4, <3>5 DEF CountInv
  <2> QED
    BY <2>2, <2>3 DEF CountInv
<1>6. ASSUME NEW p \in Proc, Start(p) PROVE CountInv'
  <2>1. /\ \A u \in Task : /\ pc'[p][u] = "wait"
                           /\ pending'[p][u] = Cardinality(Deps[u])
        /\ \A q \in Proc \ {p} : /\ pc'[q] = pc[q] /\ pending'[q] = pending[q]
                                 /\ phase'[q] = phase[q]
    BY <1>6 DEF Start, TypeOK
  <2>2. \A u \in Task : Missing(p, u)' = Deps[u]
    BY <2>1 DEF Missing
  <2>3. \A q \in Proc \ {p}, u \in Task : Missing(q, u)' = Missing(q, u)
    BY <2>1 DEF Missing
  <2> QED
    BY <2>1, <2>2, <2>3 DEF CountInv
<1>7. ASSUME NEW p \in Proc, Crash(p) PROVE CountInv'
  <2>1. /\ phase'[p] = "off" /\ \A u \in Task : pc'[p][u] = "wait"
        /\ pending' = pending
        /\ \A q \in Proc \ {p} : pc'[q] = pc[q] /\ phase'[q] = phase[q]
    BY <1>7 DEF Crash, loop, TypeOK
  <2>2. \A q \in Proc \ {p}, u \in Task : Missing(q, u)' = Missing(q, u)
    BY <2>1 DEF Missing
  <2> QED
    BY <2>1, <2>2 DEF CountInv
<1>8. ASSUME NEW p \in Proc, NEW t \in Task, Scan(p, t) PROVE CountInv'
  BY <1>1, <1>8 DEF Scan, loop
<1>9. CASE RemoveTrees
  BY <1>1, <1>9 DEF RemoveTrees, loop
<1>10. CASE UNCHANGED vars
  BY <1>1, <1>10 DEF vars, loop
<1> QED
  BY <1>1, <1>2, <1>3, <1>4, <1>5, <1>6, <1>7, <1>8, <1>9, <1>10, StepMoves
     DEF Next, LoopStep

\* Of two goroutines of one task only one is past the flock.
LEMMA Exclusive ==
  ASSUME LockInv, NEW p \in Proc, NEW t \in Task, pc[p][t] \in Locked,
         NEW q \in Proc, q # p
  PROVE  pc[q][t] \notin Locked
  BY DEF LockInv

\* An action writes to the outputs of its own task only, and adds to them.
LEMMA WritesOutput ==
  ASSUME TypeOK, NEW t \in Task, NEW part \in SUBSET Blob, Writes(t, part)
  PROVE  /\ Output(t)' = Output(t) \cup part
         /\ t \in Stable => tree'[t] # Absent
         /\ \A u \in Task \ {t} : /\ tree'[u] = tree[u] /\ out'[u] = out[u]
                                 /\ Output(u)' = Output(u)
<1>1. CASE t \in Stable
  <2>1. tree' = [tree EXCEPT ![t] = Held(tree[t]) \cup part] /\ out' = out
    BY <1>1 DEF Writes
  <2>2. Held(tree[t]) \cup part \in SUBSET Blob
    BY DEF Held, TypeOK
  <2>3. tree'[t] = Held(tree[t]) \cup part /\ tree'[t] # Absent
    BY <2>1, <2>2, CargoAssumption DEF TypeOK
  <2>4. \A u \in Task \ {t} : tree'[u] = tree[u]
    BY <2>1 DEF TypeOK
  <2> QED
    BY <1>1, <2>1, <2>3, <2>4 DEF Output, Held
<1>2. CASE t \notin Stable
  <2>1. out' = [out EXCEPT ![t] = out[t] \cup part] /\ tree' = tree
    BY <1>2 DEF Writes
  <2> QED
    BY <1>2, <2>1 DEF Output, TypeOK
<1> QED
  BY <1>1, <1>2

\* A step of the holder of t's flock that changes the outputs of t alone
\* disturbs nobody else.
LEMMA OutElsewhere ==
  ASSUME CargoInv, NEW p \in Proc, NEW t \in Task, pc[p][t] \in Locked,
         NEW q \in Proc \ Dry, NEW u \in Task, q # p \/ u # t,
         UNCHANGED <<cas, linked>>, pc'[q][u] = pc[q][u],
         u # t => /\ tree'[u] = tree[u] /\ out'[u] = out[u]
                  /\ goal'[u] = goal[u] /\ Output(u)' = Output(u)
  PROVE  OutAt(q, u)'
<1>1. CASE u = t
  BY <1>1, Exclusive DEF CargoInv, OutAt, Locked
<1>2. CASE u # t
  BY <1>2 DEF CargoInv, OutInv, OutAt
<1> QED
  BY <1>1, <1>2

\* What a killed run left is removed before the next one writes; from there on
\* the flock keeps the outputs of t for one goroutine.
LEMMA OutStep == CargoInv /\ [Next]_vars => OutInv'
<1> SUFFICES ASSUME CargoInv, [Next]_vars PROVE OutInv'
  OBVIOUS
<1> USE TaskAssumption, CargoAssumption
<1> USE DEF CargoInv, TypeOK
<1>1. CASE UNCHANGED vars
  BY <1>1 DEF vars, OutInv, OutAt, LockInv, Locked, Output, Goto, disk, files,
     loop
<1>2. ASSUME NEW p \in Proc, Start(p) PROVE OutInv'
  BY <1>2 DEF Start, OutInv, OutAt, LockInv, Locked, Output, Goto, disk, files,
     loop
<1>3. ASSUME NEW p \in Proc, ScanDone(p) PROVE OutInv'
  BY <1>3 DEF ScanDone, OutInv, OutAt, LockInv, Locked, Output, Goto, disk,
     files, loop
<1>4. ASSUME NEW p \in Proc, Finish(p) PROVE OutInv'
  BY <1>4 DEF Finish, OutInv, OutAt, LockInv, Locked, Output, Goto, disk,
     files, loop
<1>5. ASSUME NEW p \in Proc, Crash(p) PROVE OutInv'
  BY <1>5 DEF Crash, OutInv, OutAt, LockInv, Locked, Output, Goto, disk, files,
     loop
<1>6. ASSUME NEW p \in Proc, NEW t \in Task, Scan(p, t) PROVE OutInv'
  BY <1>6 DEF Scan, OutInv, OutAt, LockInv, Locked, Output, Goto, disk, files,
     loop
<1>7. ASSUME NEW p \in Proc, NEW t \in Task, Launch(p, t) PROVE OutInv'
  BY <1>7 DEF Launch, OutInv, OutAt, LockInv, Locked, Output, Goto, disk,
     files, loop
<1>8. ASSUME NEW p \in Proc, NEW t \in Task, Result(p, t) PROVE OutInv'
  BY <1>8 DEF Result, OutInv, OutAt, LockInv, Locked, Output, Goto, disk,
     files, loop
<1>9. ASSUME NEW p \in Proc, NEW t \in Task, ResultErr(p, t) PROVE OutInv'
  BY <1>9 DEF ResultErr, OutInv, OutAt, LockInv, Locked, Output, Goto, disk,
     files, loop
<1>10. ASSUME NEW p \in Proc, NEW t \in Task, Fresh(p, t) PROVE OutInv'
  BY <1>10 DEF Fresh, OutInv, OutAt, LockInv, Locked, Output, Goto, disk,
     files, loop
<1>11. ASSUME NEW p \in Proc, NEW t \in Task, Lock(p, t) PROVE OutInv'
  BY <1>11 DEF Lock, OutInv, OutAt, LockInv, Locked, Output, Goto, disk, files,
     loop
<1>12. ASSUME NEW p \in Proc, NEW t \in Task, RecheckHit(p, t) PROVE OutInv'
  BY <1>12 DEF RecheckHit, OutInv, OutAt, LockInv, Locked, Output, Goto, disk,
     files, loop
<1>13. ASSUME NEW p \in Proc, NEW t \in Task, RecheckMiss(p, t) PROVE OutInv'
  BY <1>13 DEF RecheckMiss, OutInv, OutAt, LockInv, Locked, Output, Goto, disk,
     files, loop
<1>14. ASSUME NEW p \in Proc, NEW t \in Task, Clean(p, t) PROVE OutInv'
  BY <1>14 DEF Clean, OutInv, OutAt, LockInv, Locked, Output, Goto, disk,
     files, loop
<1>15. ASSUME NEW p \in Proc, NEW t \in Task, ClearTree(p, t) PROVE OutInv'
  BY <1>15 DEF ClearTree, OutInv, OutAt, LockInv, Locked, Output, Goto, disk,
     files, loop
<1>16. ASSUME NEW p \in Proc, NEW t \in Task, OpenDone(p, t) PROVE OutInv'
  BY <1>16 DEF OpenDone, OutInv, OutAt, LockInv, Locked, Output, Goto, disk,
     files, loop
<1>17. ASSUME NEW p \in Proc, NEW t \in Task, Act(p, t) PROVE OutInv'
  <2>1. PICK product \in Products[t] : \E part \in SUBSET product :
                 goal' = [goal EXCEPT ![t] = product] /\ Writes(t, part)
    BY <1>17 DEF Act
  <2>2. PICK part \in SUBSET product :
          goal' = [goal EXCEPT ![t] = product] /\ Writes(t, part)
    BY <2>1
  <2>3. /\ pc[p][t] = "act" /\ p \in Proc \ Dry
        /\ pc' = [pc EXCEPT ![p][t] = "acting"] /\ UNCHANGED <<cas, linked>>
    BY <1>17 DEF Act, Goto
  <2>4. part \in SUBSET Blob
    OBVIOUS
  <2>5. /\ Output(t)' = Output(t) \cup part
        /\ \A u \in Task \ {t} : /\ tree'[u] = tree[u] /\ out'[u] = out[u]
                                /\ Output(u)' = Output(u)
    BY <2>2, <2>4, WritesOutput
  <2>6. goal'[t] = product /\ \A u \in Task \ {t} : goal'[u] = goal[u]
    BY <2>2 DEF TypeOK
  <2>7. Output(t) = {} /\ linked[p][t] = {}
    BY <2>3 DEF OutInv, OutAt, Output, Held
  <2>8. OutAt(p, t)'
    BY <2>2, <2>3, <2>5, <2>6, <2>7 DEF OutAt, TypeOK
  <2>9. ASSUME NEW q \in Proc \ Dry, NEW u \in Task, q # p \/ u # t
        PROVE  OutAt(q, u)'
    <3>1. pc[p][t] \in Locked /\ pc'[q][u] = pc[q][u] /\ (q # p \/ u # t)
      BY <2>3, <2>5, <2>6, <2>9 DEF Locked
    <3> QED
      BY <2>3, <2>5, <2>6, <2>9, <3>1, OutElsewhere
  <2> QED
    BY <2>3, <2>8, <2>9 DEF OutInv
<1>18. ASSUME NEW p \in Proc, NEW t \in Task, ActOk(p, t) PROVE OutInv'
  <2>1. /\ pc[p][t] = "acting" /\ p \in Proc \ Dry
        /\ pc' = [pc EXCEPT ![p][t] = "store"] /\ UNCHANGED <<cas, linked, goal>>
        /\ Writes(t, goal[t])
    BY <1>18 DEF ActOk, Goto, RunInv
  <2>2. /\ Output(t)' = Output(t) \cup goal[t] 
        /\ t \in Stable => tree'[t] # Absent
        /\ \A u \in Task \ {t} : /\ tree'[u] = tree[u] /\ out'[u] = out[u]
                                /\ Output(u)' = Output(u)
    <3>1. goal[t] \in SUBSET Blob
      BY DEF TypeOK
    <3> QED
      BY <2>1, <3>1, WritesOutput
  <2>3. goal[t] \in Products[t] /\ Output(t) \subseteq goal[t] /\ linked[p][t] = {}
    BY <2>1 DEF OutInv, OutAt
  <2>4. OutAt(p, t)'
    <3>1. t \in Stable => tree'[t] # Absent
      BY <2>2
    <3> QED
      BY <2>1, <2>2, <2>3, <3>1 DEF OutAt, TypeOK
  <2>5. ASSUME NEW q \in Proc \ Dry, NEW u \in Task, q # p \/ u # t
        PROVE  OutAt(q, u)'
    <3>1. pc[p][t] \in Locked /\ pc'[q][u] = pc[q][u] /\ (q # p \/ u # t)
      BY <2>1, <2>2, <2>5 DEF Locked
    <3> QED
      BY <2>1, <2>2, <2>5, <3>1, OutElsewhere
  <2> QED
    BY <2>1, <2>4, <2>5 DEF OutInv
<1>19. ASSUME NEW p \in Proc, NEW t \in Task, ActFail(p, t) PROVE OutInv'
  BY <1>19 DEF ActFail, OutInv, OutAt, LockInv, Locked, Output, Goto, disk,
     files, loop
<1>20. ASSUME NEW p \in Proc, NEW t \in Task, ActDry(p, t) PROVE OutInv'
  <2>1. /\ pc[p][t] = "act" /\ p \in Dry /\ Writes(t, {})
        /\ pc' = [pc EXCEPT ![p][t] = "finish"] /\ UNCHANGED <<cas, linked, goal>>
    BY <1>20 DEF ActDry, Goto
  <2>2. \A u \in Task \ {t} : /\ tree'[u] = tree[u] /\ out'[u] = out[u]
                            /\ Output(u)' = Output(u)
    BY <2>1, WritesOutput
  <2>3. ASSUME NEW q \in Proc \ Dry, NEW u \in Task PROVE OutAt(q, u)'
    <3>1. pc[p][t] \in Locked /\ pc'[q][u] = pc[q][u] /\ (q # p \/ u # t)
      BY <2>1 DEF Locked
    <3> QED
      BY <2>1, <2>2, <3>1, OutElsewhere
  <2> QED
    BY <2>3 DEF OutInv
<1>21. ASSUME NEW p \in Proc, NEW t \in Task, WriteManifest(p, t) PROVE OutInv'
  BY <1>21 DEF WriteManifest, OutInv, OutAt, LockInv, Locked, Output, Goto,
     disk, files, loop
<1>22. ASSUME NEW p \in Proc, NEW t \in Task, RemoveTmp(p, t) PROVE OutInv'
  BY <1>22 DEF RemoveTmp, OutInv, OutAt, LockInv, Locked, Output, Goto, disk,
     files, loop
<1>23. ASSUME NEW p \in Proc, NEW t \in Task, Close(p, t) PROVE OutInv'
  BY <1>23 DEF Close, OutInv, OutAt, LockInv, Locked, Output, Goto, disk,
     files, loop
<1>24. ASSUME NEW p \in Proc, NEW t \in Task, NEW d \in todo[p][t],
              OpenTree(p, t, d)
       PROVE OutInv'
  <2>1. /\ pc[p][t] = "open"
        /\ \/ pc' = pc /\ todo' = [todo EXCEPT ![p][t] = @ \ {d}]
           \/ pc' = [pc EXCEPT ![p][t] = "stage"] /\ todo' = todo
        /\ UNCHANGED <<disk, lock, phase, state, scanned, loop, linked, starts>>
    BY <1>24 DEF OpenTree, Goto, disk, files, loop
  <2>2. CASE pc' = pc /\ todo' = [todo EXCEPT ![p][t] = @ \ {d}]
    BY <2>1, <2>2 DEF OutInv, OutAt, Output, Held, disk, files
  <2>3. CASE pc' = [pc EXCEPT ![p][t] = "stage"] /\ todo' = todo
    BY <2>1, <2>3 DEF OutInv, OutAt, Output, Held, disk, files
  <2> QED
    BY <2>1, <2>2, <2>3
<1>25. ASSUME NEW p \in Proc, NEW t \in Task, NEW d \in todo[p][t],
              StageTree(p, t, d)
       PROVE OutInv'
  <2>1. /\ pc[p][t] = "stage" /\ pc' = [pc EXCEPT ![p][t] = "open"]
        /\ UNCHANGED <<cas, linked, goal, out>>
        /\ d \in Task
        /\ tree' = [tree EXCEPT ![d] = IF tree[d] \in {Absent, {}}
                                      THEN Held(state[p][d]) ELSE tree[d]]
    BY <1>25 DEF StageTree, Goto
  <2> SUFFICES ASSUME NEW q \in Proc \ Dry, NEW u \in Task PROVE OutAt(q, u)'
    BY DEF OutInv
  <2>2. CASE pc[q][u] \in {"open", "stage", "act", "acting", "store"}
    <3>1. u = d => state[p][d] \in {Absent, {}}
      BY <2>1, <2>2 DEF MissInv, StateInv
    <3>2. \/ tree'[u] = tree[u]
          \/ tree[u] \in {Absent, {}} /\ tree'[u] = {}
      BY <2>1, <3>1 DEF Held, TypeOK
    <3>3. Output(u)' = Output(u)
      BY <2>1, <3>2 DEF Output, Held
    <3>4. tree[u] # Absent => tree'[u] # Absent
      BY <3>2, CargoAssumption
    <3>5. \/ pc'[q][u] = pc[q][u]
          \/ pc[q][u] = "stage" /\ pc'[q][u] = "open"
      BY <2>1 DEF TypeOK
    <3> QED
      BY <2>1, <3>2, <3>3, <3>4, <3>5 DEF OutInv, OutAt
  <2>3. CASE pc[q][u] \notin {"open", "stage", "act", "acting", "store"}
    <3>1. pc'[q][u] = pc[q][u]
      BY <2>1, <2>3 DEF TypeOK
    <3> QED
      BY <2>1, <2>3, <3>1 DEF OutInv, OutAt
  <2> QED
    BY <2>2, <2>3
<1>26. ASSUME NEW p \in Proc, NEW t \in Task, NEW b \in Blob,
              StoreFile(p, t, b)
       PROVE OutInv'
  BY <1>26 DEF StoreFile, OutInv, OutAt, LockInv, Locked, Output, Goto, disk,
     files, loop
<1>27. CASE RemoveTrees
  <2>1. pc' = pc /\ \A q \in Proc, u \in Task : pc[q][u] \in Idle
    BY <1>27 DEF RemoveTrees, RunInv, Active
  <2> QED
    BY <2>1 DEF OutInv, OutAt, Idle
<1> HIDE DEF CargoInv, TypeOK
<1> QED
  BY <1>1, <1>2, <1>3, <1>4, <1>5, <1>6, <1>7, <1>8, <1>9, <1>10, <1>11,
     <1>12, <1>13, <1>14, <1>15, <1>16, <1>17, <1>18, <1>19, <1>20, <1>21,
     <1>22, <1>23, <1>24, <1>25, <1>26, <1>27
     DEF Next, LoopStep, TaskStep

\* Without dry runs, who runs tasks is no dry run, and every state recorded is
\* a manifest.
LEMMA NoDryFacts ==
  ASSUME CargoInv, NoDryRun, NEW p \in Proc
  PROVE  /\ phase[p] # "off" => p \notin Dry
         /\ \A t \in Task : state[p][t] # Absent /\ phase[p] # "off" =>
              state[p][t] = manifest[t]
  BY DEF CargoInv, NoDryRun, RunInv, StateInv

\* Without dry runs, a goroutine belongs to a cargo that builds.
LEMMA RunsTask ==
  ASSUME CargoInv, NoDryRun, NEW p \in Proc, NEW t \in Task,
         pc[p][t] \notin {"wait", "done", "failed"}
  PROVE  phase[p] = "run" /\ p \in Proc \ Dry
<1>1. phase[p] = "run"
  BY DEF CargoInv, RunInv, Idle
<1> QED
  BY <1>1, NoDryFacts

\* A step that changes no tree but that of a task without manifest keeps the
\* trees of the others.
LEMMA TreesKept ==
  ASSUME CargoInv, NoDryRun, NEW p \in Proc, NEW t \in Task,
         phase[p] = "run", manifest[t] = Absent,
         \A u \in Task \ {t} : tree'[u] = tree[u],
         \A q \in Proc, u \in Task : q # p \/ u # t =>
           pc'[q][u] = pc[q][u] /\ todo'[q][u] = todo[q][u],
         \/ Reads[t] \subseteq todo'[p][t]
         \/ /\ pc[p][t] \in {"act", "acting"}
            /\ todo'[p][t] = todo[p][t],
         UNCHANGED <<manifest, phase, state, scanned, starts>>
  PROVE  TreeInv'
<1>1. \A d \in Stable : manifest'[d] # Absent => StoredTree(d)'
  BY TaskAssumption DEF CargoInv, TreeInv, StoredTree, Active
<1>2. ASSUME NEW q \in Proc, NEW u \in Task PROVE OpenedTrees(q, u)'
  <2>1. ASSUME NEW d \in Reads[u] \ todo[q][u],
               pc[q][u] \in {"open", "stage", "act", "acting"}
        PROVE  tree'[d] # Absent /\ tree'[d] = state'[q][d]
    <3>1. tree[d] # Absent /\ tree[d] = state[q][d]
      BY <2>1 DEF CargoInv, TreeInv, OpenedTrees
    <3>2. phase[q] # "off" /\ d \in Task
      BY <2>1, TaskAssumption DEF CargoInv, RunInv, Idle
    <3>3. manifest[d] # Absent
      BY <3>1, <3>2, NoDryFacts
    <3> QED
      BY <3>1, <3>2, <3>3
  <2>2. CASE q = p /\ u = t
    BY <2>1, <2>2 DEF OpenedTrees, CargoInv, TypeOK
  <2>3. CASE q # p \/ u # t
    BY <2>1, <2>3 DEF OpenedTrees
  <2> QED
    BY <2>2, <2>3
<1> QED
  BY <1>1, <1>2 DEF TreeInv

\* Without dry runs: a tree is rewritten only while its script has no manifest,
\* or filled from the manifest.
LEMMA TreeStep == CargoInv /\ NoDryRun /\ [Next]_vars => TreeInv'
<1> SUFFICES ASSUME CargoInv, NoDryRun, [Next]_vars PROVE TreeInv'
  OBVIOUS
<1> USE TaskAssumption, CargoAssumption
<1> USE DEF CargoInv, TypeOK
<1>1. CASE UNCHANGED vars
  BY <1>1 DEF vars, TreeInv, StateInv, RunInv, Idle, Active, StoredTree,
     OpenedTrees, Goto, disk, files, loop
<1>2. ASSUME NEW p \in Proc, Start(p) PROVE TreeInv'
  BY <1>2 DEF Start, TreeInv, StateInv, RunInv, Idle, Active, StoredTree,
     OpenedTrees, Goto, disk, files, loop
<1>3. ASSUME NEW p \in Proc, ScanDone(p) PROVE TreeInv'
  BY <1>3 DEF ScanDone, TreeInv, StateInv, RunInv, Idle, Active, StoredTree,
     OpenedTrees, Goto, disk, files, loop
<1>4. ASSUME NEW p \in Proc, Finish(p) PROVE TreeInv'
  BY <1>4 DEF Finish, TreeInv, StateInv, RunInv, Idle, Active, StoredTree,
     OpenedTrees, Goto, disk, files, loop
<1>5. ASSUME NEW p \in Proc, Crash(p) PROVE TreeInv'
  BY <1>5 DEF Crash, TreeInv, StateInv, RunInv, Idle, Active, StoredTree,
     OpenedTrees, Goto, disk, files, loop
<1>6. ASSUME NEW p \in Proc, NEW t \in Task, Scan(p, t) PROVE TreeInv'
  <2>1. /\ phase[p] = "scan" /\ p \notin Dry /\ t \notin scanned[p]
        /\ manifest[t] # Absent => Valid(t)
    BY <1>6, NoDryFacts DEF Scan, StoredIsComplete, Valid
  <2>2. /\ state'[p][t] = manifest[t]
        /\ \A q \in Proc, u \in Task : q # p \/ u # t => state'[q][u] = state[q][u]
        /\ \A q \in Proc : scanned'[q] \subseteq scanned[q] \cup (IF q = p THEN {t} ELSE {})
        /\ UNCHANGED <<manifest, tree, phase, pc, todo>>
    BY <1>6, <2>1 DEF Scan, Valid, disk, files
  <2>3. \A u \in Task : pc[p][u] = "wait"
    BY <2>1 DEF RunInv
  <2>4. ASSUME NEW d \in Stable, manifest'[d] # Absent PROVE StoredTree(d)'
    <3>1. StoredTree(d) /\ d \in Task
      BY <2>2, <2>4 DEF TreeInv
    <3>2. ASSUME NEW q \in Proc, Active(q)', d \in scanned'[q], tree[d] # manifest[d]
          PROVE  state'[q][d] = manifest[d]
      <4>1. CASE q = p /\ d = t
        BY <2>2, <4>1
      <4>2. CASE q # p \/ d # t
        BY <2>2, <3>1, <3>2, <4>2 DEF StoredTree, Active
      <4> QED
        BY <4>1, <4>2
    <3> QED
      BY <2>2, <3>1, <3>2 DEF StoredTree
  <2>5. \A q \in Proc, u \in Task : OpenedTrees(q, u)'
    BY <2>2, <2>3 DEF TreeInv, OpenedTrees
  <2> QED
    BY <2>4, <2>5 DEF TreeInv
<1>7. ASSUME NEW p \in Proc, NEW t \in Task, Launch(p, t) PROVE TreeInv'
  BY <1>7 DEF Launch, TreeInv, StateInv, RunInv, Idle, Active, StoredTree,
     OpenedTrees, Goto, disk, files, loop
<1>8. ASSUME NEW p \in Proc, NEW t \in Task, Result(p, t) PROVE TreeInv'
  BY <1>8 DEF Result, TreeInv, StateInv, RunInv, Idle, Active, StoredTree,
     OpenedTrees, Goto, disk, files, loop
<1>9. ASSUME NEW p \in Proc, NEW t \in Task, ResultErr(p, t) PROVE TreeInv'
  BY <1>9 DEF ResultErr, TreeInv, StateInv, RunInv, Idle, Active, StoredTree,
     OpenedTrees, Goto, disk, files, loop
<1>10. ASSUME NEW p \in Proc, NEW t \in Task, Fresh(p, t) PROVE TreeInv'
  BY <1>10 DEF Fresh, TreeInv, StateInv, RunInv, Idle, Active, StoredTree,
     OpenedTrees, Goto, disk, files, loop
<1>11. ASSUME NEW p \in Proc, NEW t \in Task, Lock(p, t) PROVE TreeInv'
  BY <1>11 DEF Lock, TreeInv, StateInv, RunInv, Idle, Active, StoredTree,
     OpenedTrees, Goto, disk, files, loop
<1>12. ASSUME NEW p \in Proc, NEW t \in Task, RecheckHit(p, t) PROVE TreeInv'
  BY <1>12 DEF RecheckHit, TreeInv, StateInv, RunInv, Idle, Active, StoredTree,
     OpenedTrees, Goto, disk, files, loop
<1>13. ASSUME NEW p \in Proc, NEW t \in Task, RecheckMiss(p, t) PROVE TreeInv'
  BY <1>13 DEF RecheckMiss, TreeInv, StateInv, RunInv, Idle, Active,
     StoredTree, OpenedTrees, Goto, disk, files, loop
<1>14. ASSUME NEW p \in Proc, NEW t \in Task, Clean(p, t) PROVE TreeInv'
  BY <1>14 DEF Clean, TreeInv, StateInv, RunInv, Idle, Active, StoredTree,
     OpenedTrees, Goto, disk, files, loop
<1>15. ASSUME NEW p \in Proc, NEW t \in Task, ClearTree(p, t) PROVE TreeInv'
  <2>0. pc[p][t] = "clear"
    BY <1>15 DEF ClearTree
  <2>1. /\ pc[p][t] = "clear" /\ phase[p] = "run" /\ manifest[t] = Absent
    BY <2>0, RunsTask DEF MissInv
  <2>2. /\ \A u \in Task \ {t} : tree'[u] = tree[u]
        /\ pc' = [pc EXCEPT ![p][t] = "open"]
        /\ UNCHANGED <<manifest, phase, state, scanned, starts>>
        /\ todo' = [todo EXCEPT ![p][t] = Opens(t)]
    BY <1>15 DEF ClearTree, Goto
  <2>3. Reads[t] \subseteq todo'[p][t]
    BY <2>2 DEF Opens
  <2>4. \A q \in Proc, u \in Task : q # p \/ u # t =>
          pc'[q][u] = pc[q][u] /\ todo'[q][u] = todo[q][u]
    BY <2>2
  <2>5. \/ Reads[t] \subseteq todo'[p][t]
        \/ /\ pc[p][t] \in {"act", "acting"}
           /\ todo'[p][t] = todo[p][t]
    BY <2>1, <2>2, <2>3
  <2> HIDE DEF CargoInv, TypeOK
  <2> QED
    BY <2>1, <2>2, <2>4, <2>5, TreesKept
<1>16. ASSUME NEW p \in Proc, NEW t \in Task, OpenDone(p, t) PROVE TreeInv'
  BY <1>16 DEF OpenDone, TreeInv, StateInv, RunInv, Idle, Active, StoredTree,
     OpenedTrees, Goto, disk, files, loop
<1>17. ASSUME NEW p \in Proc, NEW t \in Task, Act(p, t) PROVE TreeInv'
  <2>0. pc[p][t] = "act"
    BY <1>17 DEF Act
  <2>1. /\ pc[p][t] = "act" /\ phase[p] = "run" /\ manifest[t] = Absent
    BY <2>0, RunsTask DEF MissInv
  <2>2. /\ \A u \in Task \ {t} : tree'[u] = tree[u]
        /\ pc' = [pc EXCEPT ![p][t] = "acting"]
        /\ UNCHANGED <<manifest, phase, state, scanned, starts>>
        /\ todo' = todo
    BY <1>17 DEF Act, Writes, Goto
  <2>4. \A q \in Proc, u \in Task : q # p \/ u # t =>
          pc'[q][u] = pc[q][u] /\ todo'[q][u] = todo[q][u]
    BY <2>2
  <2>5. \/ Reads[t] \subseteq todo'[p][t]
        \/ /\ pc[p][t] \in {"act", "acting"}
           /\ todo'[p][t] = todo[p][t]
    BY <2>1, <2>2
  <2> HIDE DEF CargoInv, TypeOK
  <2> QED
    BY <2>1, <2>2, <2>4, <2>5, TreesKept
<1>18. ASSUME NEW p \in Proc, NEW t \in Task, ActOk(p, t) PROVE TreeInv'
  <2>0. pc[p][t] = "acting"
    BY <1>18 DEF ActOk
  <2>1. /\ pc[p][t] = "acting" /\ phase[p] = "run" /\ manifest[t] = Absent
    BY <2>0, RunsTask DEF MissInv
  <2>2. /\ \A u \in Task \ {t} : tree'[u] = tree[u]
        /\ pc' = [pc EXCEPT ![p][t] = "store"]
        /\ UNCHANGED <<manifest, phase, state, scanned, starts>>
        /\ todo' = todo
    BY <1>18 DEF ActOk, Writes, Goto
  <2>4. \A q \in Proc, u \in Task : q # p \/ u # t =>
          pc'[q][u] = pc[q][u] /\ todo'[q][u] = todo[q][u]
    BY <2>2
  <2>5. \/ Reads[t] \subseteq todo'[p][t]
        \/ /\ pc[p][t] \in {"act", "acting"}
           /\ todo'[p][t] = todo[p][t]
    BY <2>1, <2>2
  <2> HIDE DEF CargoInv, TypeOK
  <2> QED
    BY <2>1, <2>2, <2>4, <2>5, TreesKept
<1>19. ASSUME NEW p \in Proc, NEW t \in Task, ActFail(p, t) PROVE TreeInv'
  BY <1>19 DEF ActFail, TreeInv, StateInv, RunInv, Idle, Active, StoredTree,
     OpenedTrees, Goto, disk, files, loop
<1>20. ASSUME NEW p \in Proc, NEW t \in Task, ActDry(p, t) PROVE TreeInv'
  <2>1. pc[p][t] = "act" /\ p \in Dry
    BY <1>20 DEF ActDry
  <2> QED
    BY <2>1, RunsTask
<1>21. ASSUME NEW p \in Proc, NEW t \in Task,
              WriteManifest(p, t)
       PROVE TreeInv'
  <2>1. /\ pc[p][t] = "store" /\ phase[p] = "run" /\ p \in Proc \ Dry
        /\ manifest[t] = Absent /\ Output(t) \subseteq linked[p][t]
        /\ manifest' = [manifest EXCEPT ![t] = linked[p][t]]
        /\ state' = [state EXCEPT ![p][t] = linked[p][t]]
        /\ pc' = [pc EXCEPT ![p][t] = "finish"]
        /\ UNCHANGED <<tree, phase, scanned, todo>>
    <3>1. pc[p][t] = "store"
      BY <1>21 DEF WriteManifest
    <3>2. phase[p] = "run" /\ p \in Proc \ Dry /\ manifest[t] = Absent
      BY <3>1, RunsTask DEF MissInv
    <3> QED
      BY <1>21, <3>1, <3>2 DEF WriteManifest, Goto, files
  <2>2. t \in Stable => tree[t] = linked[p][t]
    <3>1. OutAt(p, t)
      BY <2>1 DEF OutInv
    <3>2. /\ Output(t) = goal[t] /\ linked[p][t] \subseteq goal[t]
          /\ t \in Stable => tree[t] # Absent
      BY <2>1, <3>1 DEF OutAt
    <3>3. Output(t) = linked[p][t]
      <4> HIDE DEF CargoInv, TypeOK
      <4>1. Output(t) \subseteq linked[p][t] /\ linked[p][t] \subseteq Output(t)
        BY <2>1, <3>2
      <4> QED
        BY <4>1
    <3> QED
      BY <3>2, <3>3 DEF Output, Held
  <2>3. \A d \in Stable : manifest'[d] # Absent => StoredTree(d)'
    BY <2>1, <2>2 DEF TreeInv, StoredTree, Active
  <2>4. ASSUME NEW q \in Proc, NEW u \in Task PROVE OpenedTrees(q, u)'
    <3>1. ASSUME NEW d \in Reads[u] \ todo[q][u],
                 pc[q][u] \in {"open", "stage", "act", "acting"}
          PROVE  tree'[d] # Absent /\ tree'[d] = state'[q][d]
      <4>1. tree[d] # Absent /\ tree[d] = state[q][d]
        BY <3>1 DEF TreeInv, OpenedTrees
      <4>2. phase[q] # "off" /\ d \in Task
        BY <3>1, RunsTask
      <4>3. d # t
        BY <2>1, <4>1, <4>2, NoDryFacts
      <4> QED
        BY <2>1, <4>1, <4>3
    <3>2. pc'[q][u] \in {"open", "stage", "act", "acting"} => pc'[q][u] = pc[q][u]
      BY <2>1
    <3> QED
      BY <2>1, <3>1, <3>2 DEF OpenedTrees
  <2> QED
    BY <2>3, <2>4 DEF TreeInv
<1>22. ASSUME NEW p \in Proc, NEW t \in Task, RemoveTmp(p, t) PROVE TreeInv'
  BY <1>22 DEF RemoveTmp, TreeInv, StateInv, RunInv, Idle, Active, StoredTree,
     OpenedTrees, Goto, disk, files, loop
<1>23. ASSUME NEW p \in Proc, NEW t \in Task, Close(p, t) PROVE TreeInv'
  BY <1>23 DEF Close, TreeInv, StateInv, RunInv, Idle, Active, StoredTree,
     OpenedTrees, Goto, disk, files, loop
<1>24. ASSUME NEW p \in Proc, NEW t \in Task, NEW d \in todo[p][t],
              OpenTree(p, t, d)
       PROVE TreeInv'
  <2>1. /\ pc[p][t] = "open" /\ phase[p] = "run"
        /\ \/ /\ tree[d] # Absent /\ pc' = pc
              /\ todo' = [todo EXCEPT ![p][t] = @ \ {d}]
           \/ pc' = [pc EXCEPT ![p][t] = "stage"] /\ todo' = todo
        /\ UNCHANGED <<manifest, tree, phase, state, scanned, starts>>
    BY <1>24 DEF OpenTree, RunInv, Idle, Goto, disk, files
  <2>2. \A e \in Stable : manifest'[e] # Absent => StoredTree(e)'
    BY <2>1 DEF TreeInv, StoredTree, Active
  <2>3. CASE pc' = [pc EXCEPT ![p][t] = "stage"] /\ todo' = todo
    <3>1. \A q \in Proc, u \in Task : OpenedTrees(q, u)'
      BY <2>1, <2>3 DEF TreeInv, OpenedTrees
    <3> QED
      BY <2>2, <3>1 DEF TreeInv
  <2>4. CASE /\ tree[d] # Absent /\ pc' = pc
             /\ todo' = [todo EXCEPT ![p][t] = @ \ {d}]
    <3>1. d \in Reads[t] => tree[d] = state[p][d]
      <4>1. SUFFICES ASSUME d \in Reads[t] PROVE tree[d] = state[p][d]
        OBVIOUS
      <4>2. d \in Stable /\ d \in Task /\ pc[p][d] = "done"
        BY <2>1, <4>1 DEF CountInv, Missing
      <4>3. state[p][d] # Absent
        BY <4>2 DEF StateInv
      <4>4. state[p][d] = manifest[d]
        BY <2>1, <4>2, <4>3, NoDryFacts
      <4> QED
        BY <2>4, <4>2, <4>3, <4>4 DEF TreeInv, StoredTree
    <3>2. \A q \in Proc, u \in Task : OpenedTrees(q, u)'
      BY <2>1, <2>4, <3>1 DEF TreeInv, OpenedTrees
    <3> QED
      BY <2>2, <3>2 DEF TreeInv
  <2> QED
    BY <2>1, <2>3, <2>4
<1>25. ASSUME NEW p \in Proc, NEW t \in Task, NEW d \in todo[p][t],
              StageTree(p, t, d)
       PROVE TreeInv'
  <2>1. /\ pc[p][t] = "stage" /\ phase[p] = "run" /\ d \in Stable /\ d \in Task
        /\ tree' = [tree EXCEPT ![d] = IF tree[d] \in {Absent, {}}
                                      THEN Held(state[p][d]) ELSE tree[d]]
        /\ pc' = [pc EXCEPT ![p][t] = "open"]
        /\ todo' = [todo EXCEPT ![p][t] = @ \ {d}]
        /\ UNCHANGED <<manifest, phase, state, scanned, starts>>
    <3>1. pc[p][t] = "stage"
      BY <1>25 DEF StageTree
    <3>2. d \in Opens(t) /\ phase[p] = "run"
      BY <3>1, RunsTask DEF TodoInv
    <3> QED
      BY <1>25, <3>1, <3>2 DEF StageTree, Opens, Goto
  <2>2. state[p][d] \in {Absent, manifest[d]}
    BY <2>1, NoDryFacts
  <2>3. manifest[d] # Absent => tree'[d] = manifest[d]
    <3> SUFFICES ASSUME manifest[d] # Absent PROVE tree'[d] = manifest[d]
      OBVIOUS
    <3>1. CASE tree[d] = manifest[d]
      BY <2>1, <2>2, <3>1 DEF Held
    <3>2. CASE tree[d] = Absent
      <4>1. state[p][d] = manifest[d] \/ tree[d] = manifest[d]
        BY <2>1 DEF TreeInv, StoredTree, RunInv, Active
      <4> QED
        BY <2>1, <3>2, <4>1 DEF Held
    <3> QED
      BY <2>1, <3>1, <3>2 DEF TreeInv, StoredTree
  <2>4. \A e \in Task \ {d} : tree'[e] = tree[e]
    BY <2>1
  <2>5. \A e \in Stable : manifest'[e] # Absent => StoredTree(e)'
    BY <2>1, <2>3, <2>4 DEF TreeInv, StoredTree, Active
  <2>6. d \in Reads[t] => state[p][d] # Absent
    <3> SUFFICES ASSUME d \in Reads[t] PROVE state[p][d] # Absent
      OBVIOUS
    <3>1. pc[p][d] = "done"
      BY <2>1 DEF CountInv, Missing
    <3> QED
      BY <2>1, <3>1 DEF StateInv
  <2>7. ASSUME NEW q \in Proc, NEW u \in Task, NEW e \in Reads[u] \ todo'[q][u],
               pc'[q][u] \in {"open", "stage", "act", "acting"}
        PROVE  tree'[e] # Absent /\ tree'[e] = state'[q][e]
    <3>1. e \in Task /\ phase[q] # "off"
      <4>1. pc[q][u] \in {"open", "stage", "act", "acting"}
        BY <2>1, <2>7
      <4> QED
        BY <4>1, RunsTask
    <3>2. CASE e \in todo[q][u]
      <4>1. q = p /\ u = t /\ e = d
        BY <2>1, <2>7, <3>2
      <4>2. state[p][d] = manifest[d] /\ manifest[d] # Absent
        BY <2>2, <2>6, <2>7, <4>1
      <4> QED
        BY <2>1, <2>3, <4>1, <4>2
    <3>3. CASE e \notin todo[q][u]
      <4>1. pc[q][u] \in {"open", "stage", "act", "acting"}
        BY <2>1, <2>7
      <4>2. tree[e] # Absent /\ tree[e] = state[q][e]
        BY <2>7, <3>3, <4>1 DEF TreeInv, OpenedTrees
      <4>3. manifest[e] = tree[e]
        BY <3>1, <4>2, NoDryFacts
      <4> QED
        BY <2>1, <2>3, <2>4, <3>1, <4>2, <4>3
    <3> QED
      BY <3>2, <3>3
  <2>8. \A q \in Proc, u \in Task : OpenedTrees(q, u)'
    BY <2>7 DEF OpenedTrees
  <2> QED
    BY <2>5, <2>8 DEF TreeInv
<1>26. ASSUME NEW p \in Proc, NEW t \in Task, NEW b \in Blob,
              StoreFile(p, t, b)
       PROVE TreeInv'
  BY <1>26 DEF StoreFile, TreeInv, StateInv, RunInv, Idle, Active, StoredTree,
     OpenedTrees, Goto, disk, files, loop
<1>27. CASE RemoveTrees
  <2>1. /\ \A q \in Proc : ~Active(q)
        /\ UNCHANGED <<pc, phase>>
        /\ tree' = [u \in Task |-> Absent]
    BY <1>27 DEF RemoveTrees
  <2>2. \A q \in Proc, u \in Task : pc[q][u] \in Idle
    BY <2>1 DEF RunInv, Active
  <2>3. \A d \in Stable : StoredTree(d)'
    BY <2>1 DEF StoredTree, Active
  <2>4. \A q \in Proc, u \in Task : OpenedTrees(q, u)'
    BY <2>1, <2>2 DEF OpenedTrees, Idle
  <2> QED
    BY <2>3, <2>4 DEF TreeInv
<1> HIDE DEF CargoInv, TypeOK
<1> QED
  BY <1>1, <1>2, <1>3, <1>4, <1>5, <1>6, <1>7, <1>8, <1>9, <1>10, <1>11,
     <1>12, <1>13, <1>14, <1>15, <1>16, <1>17, <1>18, <1>19, <1>20, <1>21,
     <1>22, <1>23, <1>24, <1>25, <1>26, <1>27
     DEF Next, LoopStep, TaskStep

\* A dry run, once started, stays started.
LEMMA DryRunsStay == CargoInv /\ [Next]_vars /\ NoDryRun' => NoDryRun
<1> SUFFICES ASSUME CargoInv, [Next]_vars, NoDryRun' PROVE NoDryRun
  OBVIOUS
<1>1. CASE UNCHANGED starts
  BY <1>1 DEF NoDryRun
<1>2. ASSUME NEW p \in Proc, Start(p) PROVE NoDryRun
  <2>1. starts[p] \in Nat /\ starts'[p] = starts[p] + 1
    BY <1>2 DEF Start, CargoInv, TypeOK
  <2>2. \A q \in Proc \ {p} : starts'[q] = starts[q]
    BY <1>2 DEF Start, CargoInv, TypeOK
  <2> QED
    BY <2>1, <2>2, CargoAssumption DEF NoDryRun
<1> QED
  BY <1>1, <1>2
     DEF Next, LoopStep, TaskStep, vars, ScanDone, Finish, Crash, Scan, Launch,
         Result, ResultErr, Fresh, Lock, RecheckHit, RecheckMiss, Clean,
         ClearTree, OpenDone, Act, ActOk, ActFail, ActDry, WriteManifest,
         RemoveTmp, Close, OpenTree, StageTree, StoreFile, RemoveTrees

-----------------------------------------------------------------------------
(* The invariant.                                                          *)

\* An empty target directory satisfies the invariant.
LEMMA CargoInit == Init => CargoInv
<1> SUFFICES ASSUME Init PROVE CargoInv
  OBVIOUS
<1> USE TaskAssumption, CargoAssumption DEF Init
<1>1. TypeOK
  BY DEF TypeOK, Pcs, Idle
<1>2. StoredIsComplete /\ LockInv /\ RunInv
  BY DEF StoredIsComplete, LockInv, Locked, RunInv, Idle
<1>3. OrderInv /\ CountInv
  BY DEF OrderInv, CountInv, Missing
<1>4. StateInv /\ MissInv /\ OutInv /\ TodoInv
  BY DEF StateInv, MissInv, OutInv, OutAt, TodoInv
<1>5. TreeInv
  BY DEF TreeInv, OpenedTrees
<1> QED
  BY <1>1, <1>2, <1>3, <1>4, <1>5 DEF CargoInv

\* No step of any cargo, and no kill, breaks it.
LEMMA CargoStep == CargoInv /\ [Next]_vars => CargoInv'
<1> SUFFICES ASSUME CargoInv, [Next]_vars PROVE CargoInv'
  OBVIOUS
<1>1. TypeOK' /\ StoredIsComplete' /\ LockInv' /\ RunInv'
  BY TypeStep, StoredStep, LockStep, RunStep
<1>2. OrderInv' /\ CountInv' /\ StateInv' /\ MissInv' /\ OutInv' /\ TodoInv'
  BY OrderStep, CountStep, StateStep, MissStep, OutStep, TodoStep
<1>3. TreeInv'
  <2>1. CASE NoDryRun'
    BY <2>1, DryRunsStay, TreeStep
  <2>2. CASE ~NoDryRun'
    BY <2>2 DEF TreeInv
  <2> QED
    BY <2>1, <2>2
<1> QED
  BY <1>1, <1>2, <1>3 DEF CargoInv

\* CargoInv holds of every target directory that cargos share, for every task
\* graph, dry runs, restarts and kills included.
THEOREM CargoInvariant == Spec => []CargoInv
  BY CargoInit, CargoStep, PTL DEF Spec

\* The target directory and the locals of run and execute stay in their types.
THEOREM CargoTypeCorrect == Spec => []TypeOK
<1>1. CargoInv => TypeOK
  BY DEF CargoInv
<1> QED
  BY <1>1, CargoInvariant, PTL

\* Nothing of a killed or failed run gets into a manifest, and no manifest names
\* a blob that is not there (execute, storeOutputs).
THEOREM ManifestsAreComplete == Spec => []StoredIsComplete
<1>1. CargoInv => StoredIsComplete
  BY DEF CargoInv
<1> QED
  BY <1>1, CargoInvariant, PTL

\* While a task's action runs, the OUT_DIRs it reads hold what their scripts
\* left, although nobody holds the scripts' locks (stableTree).
THEOREM TreesAreAsStored == Spec => []TreeAsStored
<1>1. CargoInv => TreeAsStored
  BY DEF CargoInv, TreeInv, OpenedTrees, TodoInv, TreeAsStored
<1> QED
  BY <1>1, CargoInvariant, PTL

\* A cargo that ends without error has left every task in the cache.
THEOREM SuccessLeavesResults == Spec => []SuccessIsCached
<1>1. ASSUME CargoInv, NEW p \in Proc \ Dry, phase[p] = "ok", NEW t \in Task
      PROVE  Valid(t)
  <2>1. pc[p][t] = "done"
    BY <1>1 DEF CargoInv, RunInv
  <2>2. manifest[t] # Absent
    BY <1>1, <2>1 DEF CargoInv, StateInv
  <2> QED
    BY <2>2, <1>1 DEF CargoInv, StoredIsComplete, Valid
<1>2. CargoInv => SuccessIsCached
  BY <1>1 DEF SuccessIsCached
<1> QED
  BY <1>2, CargoInvariant, PTL

\* The executor never throws "build graph deadlock": the scan has shown that the
\* graph has no cycle, so among the tasks left one waits for nothing.
THEOREM GraphNeverDeadlocks == Spec => []NoGraphDeadlock
<1>1. ASSUME CargoInv, NEW p \in Proc, phase[p] = "run", ~failed[p],
             Running(p) = {}, Completed(p) # Task
      PROVE  CanLaunch(p)
  <2> DEFINE W == {t \in Task : pc[p][t] = "wait"}
  <2>1. \A t \in Task : pc[p][t] \in {"wait", "done"}
    BY <1>1 DEF CargoInv, RunInv, Running, Idle
  <2>2. W # {} /\ W \in SUBSET scanned[p]
    BY <1>1, <2>1 DEF CargoInv, RunInv, Completed
  <2>3. PICK t \in W : Deps[t] \cap W = {}
    <3> HIDE DEF W
    <3> QED
      BY <2>2, <1>1 DEF CargoInv, OrderInv
  <2>4. Missing(p, t) = {}
    BY <2>1, <2>3, TaskAssumption DEF Missing
  <2>5. pending[p][t] = 0
    BY <1>1, <2>3, <2>4, FS_EmptySet DEF CargoInv, CountInv
  <2>6. Cardinality(Running(p)) < Jobs
    BY <1>1, FS_EmptySet, CargoAssumption
  <2> QED
    BY <1>1, <2>3, <2>5, <2>6 DEF CanLaunch, Ready
<1>2. CargoInv => NoGraphDeadlock
  BY <1>1 DEF NoGraphDeadlock
<1> QED
  BY <1>2, CargoInvariant, PTL

-----------------------------------------------------------------------------
(* The refinement of ResultCache.                                          *)

\* An empty target directory is an empty cache.
LEMMA ResultsInit == Init => Results!Init
  BY DEF Init, Results!Init, Found, Valid

\* Whatever is in the cache is found in it.
LEMMA FoundManifests ==
  ASSUME CargoInv PROVE Found = manifest
<1>1. \A t \in Task : Found[t] = manifest[t]
  BY DEF Found, Valid, CargoInv, StoredIsComplete
<1> QED
  BY <1>1 DEF Found, CargoInv, TypeOK

\* Only WriteManifest changes what is stored, and it stores the whole product of
\* a task without manifest after those of its dependencies.
LEMMA ResultsStep ==
  CargoInv /\ CargoInv' /\ [Next]_vars => [Results!Next]_Found
<1> SUFFICES ASSUME CargoInv, CargoInv', [Next]_vars
             PROVE  [Results!Next]_Found
  OBVIOUS
<1>1. Found = manifest
  BY FoundManifests
<1>2. Found' = manifest'
  <2>1. \A t \in Task : Found'[t] = manifest'[t]
    BY DEF Found, Valid, CargoInv, StoredIsComplete
  <2> QED
    BY <2>1 DEF Found, CargoInv, TypeOK
<1>3. CASE UNCHANGED manifest
  BY <1>1, <1>2, <1>3
<1>4. ASSUME NEW p \in Proc, NEW t \in Task, WriteManifest(p, t)
      PROVE  Results!Store(t)
  <2>1. pc[p][t] = "store" /\ p \in Proc \ Dry
    BY <1>4 DEF WriteManifest, CargoInv, RunInv
  <2>2. manifest[t] = Absent /\ OutAt(p, t)
    BY <2>1 DEF CargoInv, MissInv, OutInv
  <2>3. /\ Output(t) \subseteq linked[p][t]
        /\ linked[p][t] \subseteq Output(t) /\ Output(t) \in Products[t]
    BY <1>4, <2>1, <2>2 DEF WriteManifest, OutAt
  <2>4. linked[p][t] \in Products[t]
    <3>1. linked[p][t] = Output(t)
      BY <2>3
    <3> QED
      BY <2>3, <3>1
  <2>5. manifest' = [manifest EXCEPT ![t] = linked[p][t]]
    BY <1>4 DEF WriteManifest
  <2>6. ASSUME NEW d \in Deps[t] PROVE manifest[d] # Absent
    <3>1. d \in Task /\ pc[p][d] = "done"
      BY <2>1, TaskAssumption DEF CargoInv, CountInv, Missing
    <3> QED
      BY <2>1, <3>1 DEF CargoInv, StateInv
  <2> QED
    BY <1>1, <1>2, <2>2, <2>4, <2>5, <2>6 DEF Results!Store
<1> QED
  BY <1>3, <1>4
     DEF Results!Next, Next, LoopStep, TaskStep, vars, Start, ScanDone, Finish,
         Crash, Scan, Launch, Result, ResultErr, Fresh, Lock, RecheckHit,
         RecheckMiss, Clean, ClearTree, OpenDone, Act, ActOk, ActFail, ActDry,
         RemoveTmp, Close, OpenTree, StageTree, StoreFile, RemoveTrees, disk

\* The target directory of any number of cargos is a cache of whole results that
\* only grows: each task is stored in one step, once, after its dependencies.
THEOREM CargoImplementsResultCache == Spec => ImplementsResultCache
  BY ResultsInit, ResultsStep, CargoInvariant, PTL
     DEF Spec, ImplementsResultCache, Results!Spec

=============================================================================
