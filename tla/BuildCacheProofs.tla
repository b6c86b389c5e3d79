-------------------------- MODULE BuildCacheProofs --------------------------
(***************************************************************************)
(* Proofs about BuildCache, for every graph, every number of invocations   *)
(* and every bound on restarts: type correctness, the inductive invariant  *)
(* CacheInv from which StoredIsComplete, InputsComplete and ManifestSound  *)
(* follow, and LoneInv, from which SuccessIsCached and LoneFailureHasCause *)
(* follow.                                                                 *)
(***************************************************************************)
EXTENDS BuildCache, TLAPS

-----------------------------------------------------------------------------

\* Each step of class Executor keeps every variable within its type.
LEMMA TypeStep == TypeOK /\ [Next]_vars => TypeOK'
<1> SUFFICES ASSUME TypeOK, [Next]_vars PROVE TypeOK'
  OBVIOUS
<1> USE GraphAssumption, ModeAssumption, NullAssumption
<1> USE DEF TypeOK, NoInputs, Phases, Pcs, Busy, Locked, disk, dir, local,
            Goto, Enter, Unlink
<1>1. CASE UNCHANGED vars
  BY <1>1 DEF vars
<1>2. ASSUME NEW p \in Proc, Start(p) PROVE TypeOK'
  <2>1. phase' \in [Proc -> Phases]
    BY <1>2 DEF Start
  <2>2. broken' \in [Proc -> BOOLEAN]
    BY <1>2 DEF Start
  <2>3. /\ pc' \in [Proc -> [Node -> Pcs]]
        /\ todo' \in [Proc -> [Node -> SUBSET Node]]
        /\ linked' \in [Proc -> [Node -> SUBSET Blob]]
    BY <1>2 DEF Start
  <2>4. /\ scanned' \in [Proc -> SUBSET Node]
        /\ uncached' \in [Proc -> SUBSET Node]
        /\ published' \in [Proc -> SUBSET Node]
        /\ starts' \in [Proc -> Nat]
    BY <1>2 DEF Start
  <2> QED
    BY <1>2, <2>1, <2>2, <2>3, <2>4 DEF Start
<1>3. ASSUME NEW p \in Proc, ClearCas(p) PROVE TypeOK'
  BY <1>3 DEF ClearCas
<1>4. ASSUME NEW p \in Proc, ClearUid(p) PROVE TypeOK'
  BY <1>4 DEF ClearUid
<1>5. ASSUME NEW p \in Proc, ClearTmp(p) PROVE TypeOK'
  BY <1>5 DEF ClearTmp
<1>6. ASSUME NEW p \in Proc, ScanDone(p) PROVE TypeOK'
  BY <1>6 DEF ScanDone
<1>7. ASSUME NEW p \in Proc, RunDone(p) PROVE TypeOK'
  BY <1>7 DEF RunDone
<1>8. ASSUME NEW p \in Proc, RunFailed(p) PROVE TypeOK'
  BY <1>8 DEF RunFailed
<1>9. ASSUME NEW p \in Proc, Drained(p) PROVE TypeOK'
  BY <1>9 DEF Drained
<1>10. ASSUME NEW p \in Proc, PublishDone(p) PROVE TypeOK'
  BY <1>10 DEF PublishDone
<1>11. ASSUME NEW p \in Proc, NEW u \in Node, ScanHit(p, u) PROVE TypeOK'
  BY <1>11 DEF ScanHit, Scans
<1>12. ASSUME NEW p \in Proc, NEW u \in Node, ScanMiss(p, u) PROVE TypeOK'
  BY <1>12 DEF ScanMiss, Scans
<1>13. ASSUME NEW p \in Proc, NEW u \in Node, ScanUnlink(p, u) PROVE TypeOK'
  BY <1>13 DEF ScanUnlink
<1>14. ASSUME NEW p \in Proc, NEW u \in Node, Submit(p, u) PROVE TypeOK'
  BY <1>14 DEF Submit
<1>15. ASSUME NEW p \in Proc, NEW u \in Node,
             PublishRoot(p, u)
      PROVE TypeOK'
  BY <1>15 DEF PublishRoot, Publishes
<1>16. ASSUME NEW p \in Proc, NEW u \in Node,
             PublishMiss(p, u)
      PROVE TypeOK'
  BY <1>16 DEF PublishMiss, Publishes
<1>17. ASSUME NEW p \in Proc, NEW u \in Node,
             PublishUnlink(p, u)
      PROVE TypeOK'
  BY <1>17 DEF PublishUnlink
<1>18. ASSUME NEW p \in Proc, NEW u \in Node, ProbeHit(p, u) PROVE TypeOK'
  BY <1>18 DEF ProbeHit
<1>19. ASSUME NEW p \in Proc, NEW u \in Node, ProbeMiss(p, u) PROVE TypeOK'
  BY <1>19 DEF ProbeMiss
<1>20. ASSUME NEW p \in Proc, NEW u \in Node,
             ProbeUnlink(p, u)
      PROVE TypeOK'
  BY <1>20 DEF ProbeUnlink
<1>21. ASSUME NEW p \in Proc, NEW u \in Node, Lock(p, u) PROVE TypeOK'
  BY <1>21 DEF Lock
<1>22. ASSUME NEW p \in Proc, NEW u \in Node, RecheckHit(p, u) PROVE TypeOK'
  BY <1>22 DEF RecheckHit
<1>23. ASSUME NEW p \in Proc, NEW u \in Node,
             RecheckMiss(p, u)
      PROVE TypeOK'
  BY <1>23 DEF RecheckMiss
<1>24. ASSUME NEW p \in Proc, NEW u \in Node,
             RecheckUnlink(p, u)
      PROVE TypeOK'
  BY <1>24 DEF RecheckUnlink
<1>25. ASSUME NEW p \in Proc, NEW u \in Node, Clean(p, u) PROVE TypeOK'
  BY <1>25 DEF Clean
<1>26. ASSUME NEW p \in Proc, NEW u \in Node,
             RestoreDone(p, u)
      PROVE TypeOK'
  BY <1>26 DEF RestoreDone
<1>27. ASSUME NEW p \in Proc, NEW u \in Node, Command(p, u) PROVE TypeOK'
  BY <1>27 DEF Command
<1>28. ASSUME NEW p \in Proc, NEW u \in Node,
             CommandExit(p, u)
      PROVE TypeOK'
  BY <1>28 DEF CommandExit
<1>29. ASSUME NEW p \in Proc, NEW u \in Node,
             CommandFail(p, u)
      PROVE TypeOK'
  BY <1>29 DEF CommandFail
<1>30. ASSUME NEW p \in Proc, NEW u \in Node,
             WriteManifest(p, u)
      PROVE TypeOK'
  BY <1>30 DEF WriteManifest
<1>31. ASSUME NEW p \in Proc, NEW u \in Node, Discard(p, u) PROVE TypeOK'
  BY <1>31 DEF Discard
<1>32. ASSUME NEW p \in Proc, NEW u \in Node, Close(p, u) PROVE TypeOK'
  BY <1>32 DEF Close
<1>33. ASSUME NEW p \in Proc, NEW u \in Node, NEW d \in Node,
             RestoreDep(p, u, d)
      PROVE TypeOK'
  BY <1>33 DEF RestoreDep
<1>34. ASSUME NEW p \in Proc, NEW u \in Node, NEW d \in Node,
             RestoreMiss(p, u, d)
      PROVE TypeOK'
  BY <1>34 DEF RestoreMiss
<1>35. ASSUME NEW p \in Proc, NEW u \in Node, NEW d \in Node,
             RestoreUnlink(p, u, d)
      PROVE TypeOK'
  BY <1>35 DEF RestoreUnlink
<1>36. ASSUME NEW p \in Proc, NEW u \in Node, NEW b \in Blob,
             StorePath(p, u, b)
      PROVE TypeOK'
  BY <1>36 DEF StorePath
<1>37. ASSUME NEW p \in Proc, Crash(p) PROVE TypeOK'
  BY <1>37 DEF Crash
<1> QED
  BY <1>1, <1>2, <1>3, <1>4, <1>5, <1>6, <1>7, <1>8, <1>9, <1>10, <1>11,
     <1>12, <1>13, <1>14, <1>15, <1>16, <1>17, <1>18, <1>19, <1>20, <1>21,
     <1>22, <1>23, <1>24, <1>25, <1>26, <1>27, <1>28, <1>29, <1>30, <1>31,
     <1>32, <1>33, <1>34, <1>35, <1>36, <1>37 DEF Next, MainStep, NodeStep

\* TypeOK holds throughout every behaviour of the cache.
THEOREM TypeCorrect == Spec => []TypeOK
<1>1. Init => TypeOK
  BY GraphAssumption, ModeAssumption, NullAssumption
     DEF Init, TypeOK, NoInputs, Phases, Pcs, Busy, Locked
<1> QED
  BY <1>1, TypeStep, PTL DEF Spec

-----------------------------------------------------------------------------
(* The inductive invariant.                                                *)

\* An empty cache root and no invocation: CacheInv holds.
LEMMA CacheInit == Init => CacheInv
<1> SUFFICES ASSUME Init PROVE CacheInv
  OBVIOUS
<1>1. TypeOK
  BY GraphAssumption, ModeAssumption, NullAssumption
     DEF Init, TypeOK, NoInputs, Phases, Pcs, Busy, Locked
<1>2. LockInv /\ PhaseInv /\ ScanInv
  BY DEF Init, LockInv, PhaseInv, ScanInv, Busy, Locked, ClearPhases
<1>3. OutInv /\ InpInv /\ StoredIsComplete
  BY DEF Init, OutInv, InpInv, StoredIsComplete
<1> QED
  BY <1>1, <1>2, <1>3 DEF CacheInv

\* Every step of every invocation, a kill included, preserves CacheInv.
LEMMA CacheStep == CacheInv /\ [Next]_vars => CacheInv'
<1> SUFFICES ASSUME CacheInv, [Next]_vars PROVE CacheInv'
  OBVIOUS
<1> TypeOK'
  BY TypeStep DEF CacheInv
<1> DEFINE Rest == /\ LockInv /\ PhaseInv /\ ScanInv
                   /\ OutInv /\ InpInv /\ StoredIsComplete
<1> SUFFICES Rest'
  BY DEF CacheInv
<1> USE GraphAssumption, ModeAssumption, NullAssumption
<1> USE DEF CacheInv, TypeOK, LockInv, PhaseInv, ScanInv, OutInv, InpInv,
            StoredIsComplete, NoInputs, Phases, ClearPhases, Active, Pcs,
            Busy, Locked, disk, dir, local, Goto, Enter, Unlink
<1>1. CASE UNCHANGED vars
  BY <1>1 DEF vars
<1>2. ASSUME NEW p \in Proc, Start(p) PROVE Rest'
  BY <1>2 DEF Start
<1>3. ASSUME NEW p \in Proc, ClearCas(p) PROVE Rest'
  <2>1. \A q \in Proc \ {p} : ~Active(q)
    BY <1>3 DEF ClearCas
  <2>2. \A q \in Proc, v \in Node : pc[q][v] \notin Busy
    BY <2>1, <1>3 DEF ClearCas
  <2>3. LockInv'
    BY <2>1, <2>2, <1>3 DEF ClearCas
  <2>4. PhaseInv'
    BY <2>1, <2>2, <1>3 DEF ClearCas
  <2>5. ScanInv'
    <3>1. \A q \in Proc \ {p} : ~Active(q)'
      BY <2>1, <1>3 DEF ClearCas
    <3>2. phase'[p] = "clearUid"
      BY <1>3 DEF ClearCas
    <3> QED
      BY <3>1, <3>2
  <2>6. OutInv'
    BY <2>1, <2>2, <1>3 DEF ClearCas
  <2>7. InpInv'
    BY <2>1, <2>2, <1>3 DEF ClearCas
  <2>8. StoredIsComplete'
    BY <2>1, <2>2, <1>3 DEF ClearCas
  <2> QED
    BY <2>3, <2>4, <2>5, <2>6, <2>7, <2>8
<1>4. ASSUME NEW p \in Proc, ClearUid(p) PROVE Rest'
  BY <1>4 DEF ClearUid
<1>5. ASSUME NEW p \in Proc, ClearTmp(p) PROVE Rest'
  <2>1. \A q \in Proc \ {p} : ~Active(q)
    BY <1>5 DEF ClearTmp
  <2>2. \A q \in Proc, v \in Node : pc[q][v] \notin Busy
    BY <2>1, <1>5 DEF ClearTmp
  <2>3. LockInv'
    BY <2>1, <2>2, <1>5 DEF ClearTmp
  <2>4. PhaseInv'
    BY <2>1, <2>2, <1>5 DEF ClearTmp
  <2>5. ScanInv'
    BY <2>1, <2>2, <1>5 DEF ClearTmp
  <2>6. OutInv'
    BY <2>1, <2>2, <1>5 DEF ClearTmp
  <2>7. InpInv'
    BY <2>1, <2>2, <1>5 DEF ClearTmp
  <2>8. StoredIsComplete'
    BY <2>1, <2>2, <1>5 DEF ClearTmp
  <2> QED
    BY <2>3, <2>4, <2>5, <2>6, <2>7, <2>8
<1>6. ASSUME NEW p \in Proc, ScanDone(p) PROVE Rest'
  BY <1>6 DEF ScanDone
<1>7. ASSUME NEW p \in Proc, RunDone(p) PROVE Rest'
  BY <1>7 DEF RunDone
<1>8. ASSUME NEW p \in Proc, RunFailed(p) PROVE Rest'
  BY <1>8 DEF RunFailed
<1>9. ASSUME NEW p \in Proc, Drained(p) PROVE Rest'
  <2>1. \A v \in Node : pc[p][v] \notin Busy
    BY <1>9 DEF Drained
  <2>2. \A q \in Proc : Active(q)' => Active(q)
    BY <1>9 DEF Drained
  <2>3. LockInv'
    BY <2>1, <2>2, <1>9 DEF Drained
  <2>4. PhaseInv'
    BY <2>1, <2>2, <1>9 DEF Drained
  <2>5. ScanInv'
    BY <2>1, <2>2, <1>9 DEF Drained
  <2>6. OutInv'
    BY <2>1, <2>2, <1>9 DEF Drained
  <2>7. InpInv'
    BY <2>1, <2>2, <1>9 DEF Drained
  <2>8. StoredIsComplete'
    BY <2>1, <2>2, <1>9 DEF Drained
  <2> QED
    BY <2>3, <2>4, <2>5, <2>6, <2>7, <2>8
<1>10. ASSUME NEW p \in Proc, PublishDone(p) PROVE Rest'
  BY <1>10 DEF PublishDone
<1>11. ASSUME NEW p \in Proc, NEW u \in Node, ScanHit(p, u) PROVE Rest'
  BY <1>11 DEF ScanHit, Scans, Valid
<1>12. ASSUME NEW p \in Proc, NEW u \in Node, ScanMiss(p, u) PROVE Rest'
  BY <1>12 DEF ScanMiss, Scans, Valid
<1>13. ASSUME NEW p \in Proc, NEW u \in Node, ScanUnlink(p, u) PROVE Rest'
  <2>1. LockInv'
    BY <1>13 DEF ScanUnlink
  <2>2. PhaseInv'
    BY <1>13 DEF ScanUnlink
  <2>3. ScanInv'
    BY <1>13 DEF ScanUnlink
  <2>4. OutInv'
    BY <1>13 DEF ScanUnlink
  <2>5. InpInv'
    BY <1>13 DEF ScanUnlink
  <2>6. StoredIsComplete'
    BY <1>13 DEF ScanUnlink
  <2> QED
    BY <2>1, <2>2, <2>3, <2>4, <2>5, <2>6
<1>14. ASSUME NEW p \in Proc, NEW u \in Node, Submit(p, u) PROVE Rest'
  BY <1>14 DEF Submit
<1>15. ASSUME NEW p \in Proc, NEW u \in Node, PublishRoot(p, u) PROVE Rest'
  BY <1>15 DEF PublishRoot, Publishes
<1>16. ASSUME NEW p \in Proc, NEW u \in Node, PublishMiss(p, u) PROVE Rest'
  BY <1>16 DEF PublishMiss, Publishes
<1>17. ASSUME NEW p \in Proc, NEW u \in Node,
             PublishUnlink(p, u)
      PROVE Rest'
  BY <1>17 DEF PublishUnlink
<1>18. ASSUME NEW p \in Proc, NEW u \in Node, ProbeHit(p, u) PROVE Rest'
  BY <1>18 DEF ProbeHit, Valid
<1>19. ASSUME NEW p \in Proc, NEW u \in Node, ProbeMiss(p, u) PROVE Rest'
  BY <1>19 DEF ProbeMiss, Valid
<1>20. ASSUME NEW p \in Proc, NEW u \in Node, ProbeUnlink(p, u) PROVE Rest'
  BY <1>20 DEF ProbeUnlink
<1>21. ASSUME NEW p \in Proc, NEW u \in Node, Lock(p, u) PROVE Rest'
  BY <1>21 DEF Lock
<1>22. ASSUME NEW p \in Proc, NEW u \in Node, RecheckHit(p, u) PROVE Rest'
  BY <1>22 DEF RecheckHit, Valid
<1>23. ASSUME NEW p \in Proc, NEW u \in Node, RecheckMiss(p, u) PROVE Rest'
  BY <1>23 DEF RecheckMiss, Valid
<1>24. ASSUME NEW p \in Proc, NEW u \in Node,
             RecheckUnlink(p, u)
      PROVE Rest'
  BY <1>24 DEF RecheckUnlink
<1>25. ASSUME NEW p \in Proc, NEW u \in Node, Clean(p, u) PROVE Rest'
  BY <1>25 DEF Clean
<1>26. ASSUME NEW p \in Proc, NEW u \in Node, RestoreDone(p, u) PROVE Rest'
  BY <1>26 DEF RestoreDone
<1>27. ASSUME NEW p \in Proc, NEW u \in Node, Command(p, u) PROVE Rest'
  BY <1>27 DEF Command
<1>28. ASSUME NEW p \in Proc, NEW u \in Node, CommandExit(p, u) PROVE Rest'
  <2>1. /\ goal[u] \in Products[u]
        /\ out[u] \subseteq goal[u]
        /\ linked[p][u] = {}
    BY <1>28 DEF CommandExit
  <2>2. out'[u] = goal[u]
    <3>1. out[u] \cup goal[u] = goal[u]
      BY ONLY <2>1
    <3> QED
      BY <3>1, <1>28 DEF CommandExit
  <2>3. LockInv'
    BY <2>1, <2>2, <1>28 DEF CommandExit
  <2>4. PhaseInv'
    BY <2>1, <2>2, <1>28 DEF CommandExit
  <2>5. ScanInv'
    BY <2>1, <2>2, <1>28 DEF CommandExit
  <2>6. OutInv'
    <3> SUFFICES ASSUME NEW q \in Proc, NEW v \in Node PROVE OutInv!(q, v)'
      BY DEF OutInv
    <3>1. CASE v = u /\ q = p
      BY <3>1, <2>1, <2>2, <1>28 DEF CommandExit
    <3>2. CASE v = u /\ q # p
      BY <3>2, <1>28 DEF CommandExit
    <3>3. CASE v # u
      BY <3>3, <1>28 DEF CommandExit
    <3> QED
      BY <3>1, <3>2, <3>3
  <2>7. InpInv'
    BY <2>1, <2>2, <1>28 DEF CommandExit
  <2>8. StoredIsComplete'
    BY <2>1, <2>2, <1>28 DEF CommandExit
  <2> QED
    BY <2>3, <2>4, <2>5, <2>6, <2>7, <2>8
<1>29. ASSUME NEW p \in Proc, NEW u \in Node, CommandFail(p, u) PROVE Rest'
  BY <1>29 DEF CommandFail
<1>30. ASSUME NEW p \in Proc, NEW u \in Node,
             WriteManifest(p, u)
      PROVE Rest'
  <2>1. linked[p][u] \subseteq out[u] /\ out[u] \in Products[u]
    BY <1>30 DEF WriteManifest
  <2>2. linked[p][u] = out[u]
    <3>1. out[u] \subseteq linked[p][u]
      BY <1>30 DEF WriteManifest
    <3> QED
      BY ONLY <2>1, <3>1
  <2>3. LockInv'
    BY <2>1, <2>2, <1>30 DEF WriteManifest
  <2>4. PhaseInv'
    BY <2>1, <2>2, <1>30 DEF WriteManifest
  <2>5. ScanInv'
    BY <2>1, <2>2, <1>30 DEF WriteManifest
  <2>6. OutInv'
    BY <2>1, <2>2, <1>30 DEF WriteManifest
  <2>7. InpInv'
    BY <2>1, <2>2, <1>30 DEF WriteManifest
  <2>8. StoredIsComplete'
    BY <2>1, <2>2, <1>30 DEF WriteManifest
  <2> QED
    BY <2>3, <2>4, <2>5, <2>6, <2>7, <2>8
<1>31. ASSUME NEW p \in Proc, NEW u \in Node, Discard(p, u) PROVE Rest'
  BY <1>31 DEF Discard
<1>32. ASSUME NEW p \in Proc, NEW u \in Node, Close(p, u) PROVE Rest'
  BY <1>32 DEF Close
<1>33. ASSUME NEW p \in Proc, NEW u \in Node, NEW d \in Node,
             RestoreDep(p, u, d)
      PROVE Rest'
  <2>1. LockInv'
    BY <1>33 DEF RestoreDep
  <2>2. PhaseInv'
    BY <1>33 DEF RestoreDep
  <2>3. ScanInv'
    BY <1>33 DEF RestoreDep
  <2>4. OutInv'
    BY <1>33 DEF RestoreDep
  <2>5. InpInv'
    <3>1. manifest[d] \in Products[d] /\ manifest[d] \subseteq cas
      <4>1. phase[p] \in {"run", "abort"} /\ manifest[d] # Absent
        BY <1>33 DEF RestoreDep
      <4>2. scanned[p] = Node
        BY <4>1
      <4>3. manifest[d] \subseteq cas
        BY <4>1, <4>2
      <4>4. manifest[d] \in Products[d]
        BY <4>1
      <4> QED
        BY <4>3, <4>4
    <3>2. \A q \in Proc \ {p} : pc[q][u] \notin Locked
      BY <1>33 DEF RestoreDep
    <3> SUFFICES ASSUME NEW q \in Proc, NEW v \in Node PROVE InpInv!(q, v)'
      BY DEF InpInv
    <3>3. CASE v = u /\ q = p
      BY <3>1, <3>3, <1>33 DEF RestoreDep
    <3>4. CASE v = u /\ q # p
      BY <3>2, <3>4, <1>33 DEF RestoreDep
    <3>5. CASE v # u
      BY <3>5, <1>33 DEF RestoreDep
    <3> QED
      BY <3>3, <3>4, <3>5
  <2>6. StoredIsComplete'
    BY <1>33 DEF RestoreDep
  <2> QED
    BY <2>1, <2>2, <2>3, <2>4, <2>5, <2>6
<1>34. ASSUME NEW p \in Proc, NEW u \in Node, NEW d \in Node,
             RestoreMiss(p, u, d)
      PROVE Rest'
  BY <1>34 DEF RestoreMiss
<1>35. ASSUME NEW p \in Proc, NEW u \in Node, NEW d \in Node,
             RestoreUnlink(p, u, d)
      PROVE Rest'
  BY <1>35 DEF RestoreUnlink
<1>36. ASSUME NEW p \in Proc, NEW u \in Node, NEW b \in Blob,
             StorePath(p, u, b)
      PROVE Rest'
  BY <1>36 DEF StorePath
<1>37. ASSUME NEW p \in Proc, Crash(p) PROVE Rest'
  BY <1>37 DEF Crash
<1> HIDE DEF Rest, CacheInv, TypeOK, disk, dir, local, Goto, Enter, Unlink
<1> QED
  BY <1>1, <1>2, <1>3, <1>4, <1>5, <1>6, <1>7, <1>8, <1>9, <1>10, <1>11,
     <1>12, <1>13, <1>14, <1>15, <1>16, <1>17, <1>18, <1>19, <1>20, <1>21,
     <1>22, <1>23, <1>24, <1>25, <1>26, <1>27, <1>28, <1>29, <1>30, <1>31,
     <1>32, <1>33, <1>34, <1>35, <1>36, <1>37 DEF Next, MainStep, NodeStep

\* CacheInv is an invariant of the cache.
THEOREM CacheInvariant == Spec => []CacheInv
  BY CacheInit, CacheStep, PTL DEF Spec

-----------------------------------------------------------------------------
(* What follows from it.                                                   *)

\* Whatever is killed or interleaved, a manifest is the product of one
\* complete run of its node's commands.
THEOREM ManifestsComplete == Spec => []StoredIsComplete
  BY CacheInvariant, PTL DEF CacheInv

\* Commands only ever run on complete inputs that exist.
THEOREM CommandInputs == Spec => []InputsComplete
<1>1. CacheInv => InputsComplete
  BY DEF CacheInv, InpInv, InputsComplete
<1> QED
  BY <1>1, CacheInvariant, PTL

\* Past its scan, an invocation meets no manifest with a missing blob.
THEOREM ManifestsSound == Spec => []ManifestSound
<1>1. CacheInv => ManifestSound
  BY DEF CacheInv, ScanInv, ManifestSound
<1> QED
  BY <1>1, CacheInvariant, PTL

-----------------------------------------------------------------------------
(* An invocation that is alone.  What it has found or built is still there *)
(* when it ends, and it fails for no reason but a failed command.  None of *)
(* this holds beside another invocation, whose late unlink may take away a *)
(* manifest that was stored since it looked.                               *)

\* An invocation that was never started has no thread, and the threads of the
\* others do not run before the scan is over.
IdleInv ==
  \A p \in Proc :
    /\ starts[p] = 0 => phase[p] = "off" /\ \A u \in Node : pc[p][u] = "wait"
    /\ phase[p] \in ClearPhases => \A u \in Node : pc[p][u] = "wait"
    /\ phase[p] = "scan" => \A u \in Node : pc[p][u] \in {"wait", "scanMiss"}

\* A node is only executed, and only restores, after its dependencies.
DepsInv ==
  \A p \in Proc, u \in Node :
    /\ pc[p][u] \in Busy => \A d \in Deps[u] : pc[p][d] = "done"
    /\ pc[p][u] \in {"restore", "restoreMiss"} => todo[p][u] \subseteq Deps[u]

\* What p found, built or is about to report built is valid; a manifest it is
\* about to unlink is not there anyway; no restore and no publishing misses;
\* and whatever failed has a failed command behind it.
LoneAt(p) ==
  /\ phase[p] \in {"scan", "run", "abort", "publish"} =>
       \A u \in scanned[p] \ uncached[p] : Valid(u)
  /\ \A u \in Node :
       /\ pc[p][u] \in {"done", "discard", "close"} => Valid(u)
       /\ pc[p][u] \in {"probeMiss", "recheckMiss"} => manifest[u] = Absent
       /\ pc[p][u] \notin {"restoreMiss", "publishMiss"}
       /\ pc[p][u] \in {"discardFail", "closeFail", "failed"} => broken[p]
  /\ phase[p] \in {"abort", "failed"} => broken[p]
  /\ phase[p] \in {"publish", "ok"} => \A u \in Node : pc[p][u] = "done"

LoneInv ==
  IdleInv /\ DepsInv /\ \A p \in Proc : Alone(p) => LoneAt(p)

\* Threads start after the scan, and a kill ends them all: IdleInv is kept.
LEMMA IdleStep == CacheInv /\ IdleInv /\ [Next]_vars => IdleInv'
<1> SUFFICES ASSUME CacheInv, IdleInv, [Next]_vars PROVE IdleInv'
  OBVIOUS
<1>0. TypeOK /\ PhaseInv
  BY DEF CacheInv
<1> USE <1>0
<1> USE DEF TypeOK, PhaseInv, IdleInv, Phases, ClearPhases, Active, Pcs, Busy,
            Locked, disk, dir, local, Goto, Enter, Unlink
<1>1. CASE UNCHANGED vars
  BY <1>1 DEF vars
<1>2. ASSUME NEW p \in Proc, Start(p) PROVE IdleInv'
  BY <1>2 DEF Start
<1>3. ASSUME NEW p \in Proc, ClearCas(p) PROVE IdleInv'
  BY <1>3 DEF ClearCas
<1>4. ASSUME NEW p \in Proc, ClearUid(p) PROVE IdleInv'
  BY <1>4 DEF ClearUid
<1>5. ASSUME NEW p \in Proc, ClearTmp(p) PROVE IdleInv'
  BY <1>5 DEF ClearTmp
<1>6. ASSUME NEW p \in Proc, ScanDone(p) PROVE IdleInv'
  BY <1>6 DEF ScanDone
<1>7. ASSUME NEW p \in Proc, RunDone(p) PROVE IdleInv'
  BY <1>7 DEF RunDone
<1>8. ASSUME NEW p \in Proc, RunFailed(p) PROVE IdleInv'
  BY <1>8 DEF RunFailed
<1>9. ASSUME NEW p \in Proc, Drained(p) PROVE IdleInv'
  BY <1>9 DEF Drained
<1>10. ASSUME NEW p \in Proc, PublishDone(p) PROVE IdleInv'
  BY <1>10 DEF PublishDone
<1>11. ASSUME NEW p \in Proc, NEW u \in Node, ScanHit(p, u) PROVE IdleInv'
  BY <1>11 DEF ScanHit, Scans
<1>12. ASSUME NEW p \in Proc, NEW u \in Node, ScanMiss(p, u) PROVE IdleInv'
  BY <1>12 DEF ScanMiss, Scans
<1>13. ASSUME NEW p \in Proc, NEW u \in Node, ScanUnlink(p, u) PROVE IdleInv'
  BY <1>13 DEF ScanUnlink
<1>14. ASSUME NEW p \in Proc, NEW u \in Node, Submit(p, u) PROVE IdleInv'
  BY <1>14 DEF Submit
<1>15. ASSUME NEW p \in Proc, NEW u \in Node, PublishRoot(p, u) PROVE IdleInv'
  BY <1>15 DEF PublishRoot, Publishes
<1>16. ASSUME NEW p \in Proc, NEW u \in Node, PublishMiss(p, u) PROVE IdleInv'
  BY <1>16 DEF PublishMiss, Publishes
<1>17. ASSUME NEW p \in Proc, NEW u \in Node,
              PublishUnlink(p, u)
       PROVE  IdleInv'
  BY <1>17 DEF PublishUnlink
<1>18. ASSUME NEW p \in Proc, NEW u \in Node, ProbeHit(p, u) PROVE IdleInv'
  BY <1>18 DEF ProbeHit
<1>19. ASSUME NEW p \in Proc, NEW u \in Node, ProbeMiss(p, u) PROVE IdleInv'
  BY <1>19 DEF ProbeMiss
<1>20. ASSUME NEW p \in Proc, NEW u \in Node, ProbeUnlink(p, u) PROVE IdleInv'
  BY <1>20 DEF ProbeUnlink
<1>21. ASSUME NEW p \in Proc, NEW u \in Node, Lock(p, u) PROVE IdleInv'
  BY <1>21 DEF Lock
<1>22. ASSUME NEW p \in Proc, NEW u \in Node, RecheckHit(p, u) PROVE IdleInv'
  BY <1>22 DEF RecheckHit
<1>23. ASSUME NEW p \in Proc, NEW u \in Node, RecheckMiss(p, u) PROVE IdleInv'
  BY <1>23 DEF RecheckMiss
<1>24. ASSUME NEW p \in Proc, NEW u \in Node,
              RecheckUnlink(p, u)
       PROVE  IdleInv'
  BY <1>24 DEF RecheckUnlink
<1>25. ASSUME NEW p \in Proc, NEW u \in Node, Clean(p, u) PROVE IdleInv'
  BY <1>25 DEF Clean
<1>26. ASSUME NEW p \in Proc, NEW u \in Node, RestoreDone(p, u) PROVE IdleInv'
  BY <1>26 DEF RestoreDone
<1>27. ASSUME NEW p \in Proc, NEW u \in Node, Command(p, u) PROVE IdleInv'
  BY <1>27 DEF Command
<1>28. ASSUME NEW p \in Proc, NEW u \in Node, CommandExit(p, u) PROVE IdleInv'
  BY <1>28 DEF CommandExit
<1>29. ASSUME NEW p \in Proc, NEW u \in Node, CommandFail(p, u) PROVE IdleInv'
  BY <1>29 DEF CommandFail
<1>30. ASSUME NEW p \in Proc, NEW u \in Node,
              WriteManifest(p, u)
       PROVE  IdleInv'
  BY <1>30 DEF WriteManifest
<1>31. ASSUME NEW p \in Proc, NEW u \in Node, Discard(p, u) PROVE IdleInv'
  BY <1>31 DEF Discard
<1>32. ASSUME NEW p \in Proc, NEW u \in Node, Close(p, u) PROVE IdleInv'
  BY <1>32 DEF Close
<1>33. ASSUME NEW p \in Proc, NEW u \in Node, NEW d \in Node,
              RestoreDep(p, u, d)
       PROVE  IdleInv'
  BY <1>33 DEF RestoreDep
<1>34. ASSUME NEW p \in Proc, NEW u \in Node, NEW d \in Node,
              RestoreMiss(p, u, d)
       PROVE  IdleInv'
  BY <1>34 DEF RestoreMiss
<1>35. ASSUME NEW p \in Proc, NEW u \in Node, NEW d \in Node,
              RestoreUnlink(p, u, d)
       PROVE  IdleInv'
  BY <1>35 DEF RestoreUnlink
<1>36. ASSUME NEW p \in Proc, NEW u \in Node, NEW b \in Blob,
              StorePath(p, u, b)
       PROVE  IdleInv'
  BY <1>36 DEF StorePath
<1>37. ASSUME NEW p \in Proc, Crash(p) PROVE IdleInv'
  BY <1>37 DEF Crash
<1> HIDE DEF IdleInv, TypeOK, disk, dir, local, Goto, Enter, Unlink
<1> QED
  BY <1>1, <1>2, <1>3, <1>4, <1>5, <1>6, <1>7, <1>8, <1>9, <1>10, <1>11, <1>12,
     <1>13, <1>14, <1>15, <1>16, <1>17, <1>18, <1>19, <1>20, <1>21, <1>22,
     <1>23, <1>24, <1>25, <1>26, <1>27, <1>28, <1>29, <1>30, <1>31, <1>32,
     <1>33, <1>34, <1>35, <1>36, <1>37 DEF Next, MainStep, NodeStep

\* Submit waits for the dependencies, which then stay done: DepsInv is kept.
LEMMA DepsStep == CacheInv /\ IdleInv /\ DepsInv /\ [Next]_vars => DepsInv'
<1> SUFFICES ASSUME CacheInv, IdleInv, DepsInv, [Next]_vars PROVE DepsInv'
  OBVIOUS
<1>0. TypeOK /\ PhaseInv
  BY DEF CacheInv
<1> USE <1>0, GraphAssumption
<1> USE DEF TypeOK, PhaseInv, IdleInv, DepsInv, Phases, ClearPhases, Active,
            Pcs, Busy, Locked, disk, dir, local, Goto, Enter, Unlink
<1>1. CASE UNCHANGED vars
  BY <1>1 DEF vars
<1>2. ASSUME NEW p \in Proc, Start(p) PROVE DepsInv'
  BY <1>2 DEF Start
<1>3. ASSUME NEW p \in Proc, ClearCas(p) PROVE DepsInv'
  BY <1>3 DEF ClearCas
<1>4. ASSUME NEW p \in Proc, ClearUid(p) PROVE DepsInv'
  BY <1>4 DEF ClearUid
<1>5. ASSUME NEW p \in Proc, ClearTmp(p) PROVE DepsInv'
  BY <1>5 DEF ClearTmp
<1>6. ASSUME NEW p \in Proc, ScanDone(p) PROVE DepsInv'
  BY <1>6 DEF ScanDone
<1>7. ASSUME NEW p \in Proc, RunDone(p) PROVE DepsInv'
  BY <1>7 DEF RunDone
<1>8. ASSUME NEW p \in Proc, RunFailed(p) PROVE DepsInv'
  BY <1>8 DEF RunFailed
<1>9. ASSUME NEW p \in Proc, Drained(p) PROVE DepsInv'
  BY <1>9 DEF Drained
<1>10. ASSUME NEW p \in Proc, PublishDone(p) PROVE DepsInv'
  BY <1>10 DEF PublishDone
<1>11. ASSUME NEW p \in Proc, NEW u \in Node, ScanHit(p, u) PROVE DepsInv'
  BY <1>11 DEF ScanHit, Scans
<1>12. ASSUME NEW p \in Proc, NEW u \in Node, ScanMiss(p, u) PROVE DepsInv'
  BY <1>12 DEF ScanMiss, Scans
<1>13. ASSUME NEW p \in Proc, NEW u \in Node, ScanUnlink(p, u) PROVE DepsInv'
  BY <1>13 DEF ScanUnlink
<1>14. ASSUME NEW p \in Proc, NEW u \in Node, Submit(p, u) PROVE DepsInv'
  BY <1>14 DEF Submit
<1>15. ASSUME NEW p \in Proc, NEW u \in Node, PublishRoot(p, u) PROVE DepsInv'
  BY <1>15 DEF PublishRoot, Publishes
<1>16. ASSUME NEW p \in Proc, NEW u \in Node, PublishMiss(p, u) PROVE DepsInv'
  BY <1>16 DEF PublishMiss, Publishes
<1>17. ASSUME NEW p \in Proc, NEW u \in Node,
              PublishUnlink(p, u)
       PROVE  DepsInv'
  BY <1>17 DEF PublishUnlink
<1>18. ASSUME NEW p \in Proc, NEW u \in Node, ProbeHit(p, u) PROVE DepsInv'
  BY <1>18 DEF ProbeHit
<1>19. ASSUME NEW p \in Proc, NEW u \in Node, ProbeMiss(p, u) PROVE DepsInv'
  BY <1>19 DEF ProbeMiss
<1>20. ASSUME NEW p \in Proc, NEW u \in Node, ProbeUnlink(p, u) PROVE DepsInv'
  BY <1>20 DEF ProbeUnlink
<1>21. ASSUME NEW p \in Proc, NEW u \in Node, Lock(p, u) PROVE DepsInv'
  BY <1>21 DEF Lock
<1>22. ASSUME NEW p \in Proc, NEW u \in Node, RecheckHit(p, u) PROVE DepsInv'
  BY <1>22 DEF RecheckHit
<1>23. ASSUME NEW p \in Proc, NEW u \in Node, RecheckMiss(p, u) PROVE DepsInv'
  BY <1>23 DEF RecheckMiss
<1>24. ASSUME NEW p \in Proc, NEW u \in Node,
              RecheckUnlink(p, u)
       PROVE  DepsInv'
  BY <1>24 DEF RecheckUnlink
<1>25. ASSUME NEW p \in Proc, NEW u \in Node, Clean(p, u) PROVE DepsInv'
  BY <1>25 DEF Clean
<1>26. ASSUME NEW p \in Proc, NEW u \in Node, RestoreDone(p, u) PROVE DepsInv'
  BY <1>26 DEF RestoreDone
<1>27. ASSUME NEW p \in Proc, NEW u \in Node, Command(p, u) PROVE DepsInv'
  BY <1>27 DEF Command
<1>28. ASSUME NEW p \in Proc, NEW u \in Node, CommandExit(p, u) PROVE DepsInv'
  BY <1>28 DEF CommandExit
<1>29. ASSUME NEW p \in Proc, NEW u \in Node, CommandFail(p, u) PROVE DepsInv'
  BY <1>29 DEF CommandFail
<1>30. ASSUME NEW p \in Proc, NEW u \in Node,
              WriteManifest(p, u)
       PROVE  DepsInv'
  BY <1>30 DEF WriteManifest
<1>31. ASSUME NEW p \in Proc, NEW u \in Node, Discard(p, u) PROVE DepsInv'
  BY <1>31 DEF Discard
<1>32. ASSUME NEW p \in Proc, NEW u \in Node, Close(p, u) PROVE DepsInv'
  BY <1>32 DEF Close
<1>33. ASSUME NEW p \in Proc, NEW u \in Node, NEW d \in Node,
              RestoreDep(p, u, d)
       PROVE  DepsInv'
  BY <1>33 DEF RestoreDep
<1>34. ASSUME NEW p \in Proc, NEW u \in Node, NEW d \in Node,
              RestoreMiss(p, u, d)
       PROVE  DepsInv'
  BY <1>34 DEF RestoreMiss
<1>35. ASSUME NEW p \in Proc, NEW u \in Node, NEW d \in Node,
              RestoreUnlink(p, u, d)
       PROVE  DepsInv'
  BY <1>35 DEF RestoreUnlink
<1>36. ASSUME NEW p \in Proc, NEW u \in Node, NEW b \in Blob,
              StorePath(p, u, b)
       PROVE  DepsInv'
  BY <1>36 DEF StorePath
<1>37. ASSUME NEW p \in Proc, Crash(p) PROVE DepsInv'
  BY <1>37 DEF Crash
<1> HIDE DEF IdleInv, DepsInv, TypeOK, disk, dir, local, Goto, Enter, Unlink
<1> QED
  BY <1>1, <1>2, <1>3, <1>4, <1>5, <1>6, <1>7, <1>8, <1>9, <1>10, <1>11, <1>12,
     <1>13, <1>14, <1>15, <1>16, <1>17, <1>18, <1>19, <1>20, <1>21, <1>22,
     <1>23, <1>24, <1>25, <1>26, <1>27, <1>28, <1>29, <1>30, <1>31, <1>32,
     <1>33, <1>34, <1>35, <1>36, <1>37 DEF Next, MainStep, NodeStep

\* Only an invocation that was started takes a step.
LEMMA MoverStarted ==
  ASSUME TypeOK, IdleInv, NEW p \in Proc,
         \/ Start(p) \/ MainStep(p) \/ Crash(p)
         \/ \E u \in Node : NodeStep(p, u)
  PROVE  starts'[p] # 0
<1>1. CASE Start(p)
  BY <1>1 DEF Start, TypeOK
<1>2. CASE MainStep(p)
  <2>1. phase[p] # "off" /\ starts' = starts
    BY <1>2 DEF MainStep, ClearCas, ClearUid, ClearTmp, ScanDone, RunDone,
       RunFailed, Drained, PublishDone, ScanHit, ScanMiss, ScanUnlink, Scans,
       Submit, PublishRoot, PublishMiss, PublishUnlink, Publishes, local
  <2> QED
    BY <2>1 DEF IdleInv
<1>3. CASE Crash(p)
  BY <1>3 DEF Crash, Active, IdleInv, local
<1>4. ASSUME NEW u \in Node, NodeStep(p, u) PROVE starts'[p] # 0
  <2>1. pc[p][u] # "wait" /\ starts' = starts
    BY <1>4 DEF NodeStep, ProbeHit, ProbeMiss, ProbeUnlink, Lock, RecheckHit,
       RecheckMiss, RecheckUnlink, Clean, RestoreDep, RestoreMiss,
       RestoreUnlink, RestoreDone, Command, CommandExit, CommandFail,
       StorePath, WriteManifest, Discard, Close, local
  <2> QED
    BY <2>1 DEF IdleInv
<1> QED
  BY <1>1, <1>2, <1>3, <1>4

\* Its own steps keep what LoneAt says of an invocation.
LEMMA LoneAtStep ==
  ASSUME CacheInv, IdleInv, DepsInv, NEW p \in Proc, LoneAt(p),
         \/ Start(p) \/ MainStep(p) \/ Crash(p)
         \/ \E u \in Node : NodeStep(p, u)
  PROVE  LoneAt(p)'
<1>0. TypeOK /\ PhaseInv /\ ScanInv /\ OutInv
  BY DEF CacheInv
<1> USE <1>0, GraphAssumption
<1> USE DEF TypeOK, PhaseInv, ScanInv, OutInv, IdleInv, DepsInv, LoneAt, Valid,
      Phases, ClearPhases, Active, Pcs, Busy, Locked, disk, dir, local, Goto,
      Enter, Unlink
<1>1. ASSUME Start(p) PROVE LoneAt(p)'
  BY <1>1 DEF Start
<1>2. ASSUME ClearCas(p) PROVE LoneAt(p)'
  BY <1>2 DEF ClearCas
<1>3. ASSUME ClearUid(p) PROVE LoneAt(p)'
  BY <1>3 DEF ClearUid
<1>4. ASSUME ClearTmp(p) PROVE LoneAt(p)'
  BY <1>4 DEF ClearTmp
<1>5. ASSUME ScanDone(p) PROVE LoneAt(p)'
  BY <1>5 DEF ScanDone
<1>6. ASSUME RunDone(p) PROVE LoneAt(p)'
  BY <1>6 DEF RunDone
<1>7. ASSUME RunFailed(p) PROVE LoneAt(p)'
  BY <1>7 DEF RunFailed
<1>8. ASSUME Drained(p) PROVE LoneAt(p)'
  BY <1>8 DEF Drained
<1>9. ASSUME PublishDone(p) PROVE LoneAt(p)'
  BY <1>9 DEF PublishDone
<1>10. ASSUME NEW u \in Node, ScanHit(p, u) PROVE LoneAt(p)'
  BY <1>10 DEF ScanHit, Scans
<1>11. ASSUME NEW u \in Node, ScanMiss(p, u) PROVE LoneAt(p)'
  BY <1>11 DEF ScanMiss, Scans
<1>12. ASSUME NEW u \in Node, ScanUnlink(p, u) PROVE LoneAt(p)'
  BY <1>12 DEF ScanUnlink
<1>13. ASSUME NEW u \in Node, Submit(p, u) PROVE LoneAt(p)'
  BY <1>13 DEF Submit
<1>14. ASSUME NEW u \in Node, PublishRoot(p, u) PROVE LoneAt(p)'
  BY <1>14 DEF PublishRoot, Publishes
<1>15. ASSUME NEW u \in Node, PublishMiss(p, u) PROVE LoneAt(p)'
  BY <1>15 DEF PublishMiss, Publishes
<1>16. ASSUME NEW u \in Node, PublishUnlink(p, u) PROVE LoneAt(p)'
  BY <1>16 DEF PublishUnlink
<1>17. ASSUME NEW u \in Node, ProbeHit(p, u) PROVE LoneAt(p)'
  BY <1>17 DEF ProbeHit
<1>18. ASSUME NEW u \in Node, ProbeMiss(p, u) PROVE LoneAt(p)'
  BY <1>18 DEF ProbeMiss
<1>19. ASSUME NEW u \in Node, ProbeUnlink(p, u) PROVE LoneAt(p)'
  <2>1. manifest[u] = Absent
    BY <1>19 DEF ProbeUnlink
  <2>2. manifest' = manifest
    BY <2>1, <1>19 DEF ProbeUnlink
  <2> QED
    BY <2>2, <1>19 DEF ProbeUnlink
<1>20. ASSUME NEW u \in Node, Lock(p, u) PROVE LoneAt(p)'
  BY <1>20 DEF Lock
<1>21. ASSUME NEW u \in Node, RecheckHit(p, u) PROVE LoneAt(p)'
  BY <1>21 DEF RecheckHit
<1>22. ASSUME NEW u \in Node, RecheckMiss(p, u) PROVE LoneAt(p)'
  BY <1>22 DEF RecheckMiss
<1>23. ASSUME NEW u \in Node, RecheckUnlink(p, u) PROVE LoneAt(p)'
  <2>1. manifest[u] = Absent
    BY <1>23 DEF RecheckUnlink
  <2>2. manifest' = manifest
    BY <2>1, <1>23 DEF RecheckUnlink
  <2> QED
    BY <2>2, <1>23 DEF RecheckUnlink
<1>24. ASSUME NEW u \in Node, Clean(p, u) PROVE LoneAt(p)'
  BY <1>24 DEF Clean
<1>25. ASSUME NEW u \in Node, RestoreDone(p, u) PROVE LoneAt(p)'
  BY <1>25 DEF RestoreDone
<1>26. ASSUME NEW u \in Node, Command(p, u) PROVE LoneAt(p)'
  BY <1>26 DEF Command
<1>27. ASSUME NEW u \in Node, CommandExit(p, u) PROVE LoneAt(p)'
  BY <1>27 DEF CommandExit
<1>28. ASSUME NEW u \in Node, CommandFail(p, u) PROVE LoneAt(p)'
  BY <1>28 DEF CommandFail
<1>29. ASSUME NEW u \in Node, WriteManifest(p, u) PROVE LoneAt(p)'
  <2>1. linked[p][u] \subseteq cas /\ linked[p][u] \in SUBSET Blob
    BY <1>29 DEF WriteManifest
  <2>2. linked[p][u] # Absent
    BY <2>1, NullAssumption
  <2>3. manifest'[u] = linked[p][u] /\ cas' = cas
    BY <1>29 DEF WriteManifest
  <2>4. Valid(u)'
    BY <2>1, <2>2, <2>3
  <2>5. \A v \in Node : Valid(v) => Valid(v)'
    BY <2>4, <1>29 DEF WriteManifest
  <2>6. \A v \in Node \ {u} : manifest'[v] = manifest[v] /\ pc'[p][v] = pc[p][v]
    BY <1>29 DEF WriteManifest
  <2>7. /\ pc[p][u] = "store" /\ pc'[p][u] = "discard"
        /\ UNCHANGED <<phase, scanned, uncached, broken>>
    BY <1>29 DEF WriteManifest
  <2>8. phase[p] \in {"run", "abort"} /\ (phase[p] = "abort" => broken[p])
    BY <2>7
  <2>9. \A v \in scanned[p] \ uncached[p] : Valid(v) /\ v \in Node
    BY <2>8
  <2> HIDE DEF Valid
  <2>10. \A v \in Node \ {u} : LoneAt(p)!2!(v)'
    BY <2>5, <2>6, <2>7
  <2>11. LoneAt(p)!2!(u)'
    BY <2>4, <2>7
  <2> QED
    BY <2>5, <2>7, <2>8, <2>9, <2>10, <2>11
<1>30. ASSUME NEW u \in Node, Discard(p, u) PROVE LoneAt(p)'
  BY <1>30 DEF Discard
<1>31. ASSUME NEW u \in Node, Close(p, u) PROVE LoneAt(p)'
  BY <1>31 DEF Close
<1>32. ASSUME NEW u \in Node, NEW d \in Node,
              RestoreDep(p, u, d)
       PROVE  LoneAt(p)'
  BY <1>32 DEF RestoreDep
<1>33. ASSUME NEW u \in Node, NEW d \in Node,
              RestoreMiss(p, u, d)
       PROVE  LoneAt(p)'
  <2>1. pc[p][d] = "done" /\ manifest[d] = Absent
    BY <1>33 DEF RestoreMiss
  <2> QED
    BY <2>1
<1>34. ASSUME NEW u \in Node, NEW d \in Node,
              RestoreUnlink(p, u, d)
       PROVE  LoneAt(p)'
  BY <1>34 DEF RestoreUnlink
<1>35. ASSUME NEW u \in Node, NEW b \in Blob,
              StorePath(p, u, b)
       PROVE  LoneAt(p)'
  BY <1>35 DEF StorePath
<1>36. ASSUME Crash(p) PROVE LoneAt(p)'
  BY <1>36 DEF Crash
<1> HIDE DEF IdleInv, DepsInv, LoneAt, TypeOK, PhaseInv, ScanInv, OutInv, disk,
      dir, local, Goto, Enter, Unlink
<1> QED
  BY <1>1, <1>2, <1>3, <1>4, <1>5, <1>6, <1>7, <1>8, <1>9, <1>10, <1>11, <1>12,
     <1>13, <1>14, <1>15, <1>16, <1>17, <1>18, <1>19, <1>20, <1>21, <1>22,
     <1>23, <1>24, <1>25, <1>26, <1>27, <1>28, <1>29, <1>30, <1>31, <1>32,
     <1>33, <1>34, <1>35, <1>36 DEF MainStep, NodeStep

\* An empty cache root and no invocation: LoneInv holds.
LEMMA LoneInit == Init => LoneInv
  BY DEF Init, LoneInv, IdleInv, DepsInv, LoneAt, ClearPhases, Busy, Locked

\* Every step keeps LoneInv: whoever moves was started, so an invocation that
\* is still alone after a step took it itself.
LEMMA LoneStep == CacheInv /\ LoneInv /\ [Next]_vars => LoneInv'
<1> SUFFICES ASSUME CacheInv, LoneInv, [Next]_vars PROVE LoneInv'
  OBVIOUS
<1>1. TypeOK /\ IdleInv /\ DepsInv
  BY DEF CacheInv, LoneInv
<1>2. IdleInv' /\ DepsInv'
  BY <1>1, IdleStep, DepsStep
<1>3. ASSUME NEW q \in Proc, Alone(q)' PROVE LoneAt(q)'
  <2>1. CASE UNCHANGED vars
    <3>1. Alone(q) /\ LoneAt(q)
      BY <1>3, <2>1 DEF LoneInv, Alone, vars, local
    <3> QED
      BY <3>1, <2>1 DEF LoneAt, Valid, vars, disk, local
  <2>2. ASSUME NEW p \in Proc,
               \/ Start(p) \/ MainStep(p) \/ Crash(p)
               \/ \E u \in Node : NodeStep(p, u)
        PROVE  LoneAt(q)'
    <3>1. starts'[p] # 0
      BY <1>1, <2>2, MoverStarted
    <3>2. p = q
      BY <1>3, <3>1 DEF Alone
    <3>3. \A o \in Proc \ {p} : starts'[o] = starts[o]
      BY <2>2, <1>1 DEF Start, Crash, MainStep, ClearCas, ClearUid, ClearTmp,
         ScanDone, RunDone, RunFailed, Drained, PublishDone, ScanHit, ScanMiss,
         ScanUnlink, Submit, PublishRoot, PublishMiss, PublishUnlink, NodeStep,
         ProbeHit, ProbeMiss, ProbeUnlink, Lock, RecheckHit, RecheckMiss,
         RecheckUnlink, Clean, RestoreDep, RestoreMiss, RestoreUnlink,
         RestoreDone, Command, CommandExit, CommandFail, StorePath,
         WriteManifest, Discard, Close, local, TypeOK
    <3>4. LoneAt(p)
      BY <1>3, <3>2, <3>3 DEF LoneInv, Alone
    <3> QED
      BY <1>1, <2>2, <3>2, <3>4, LoneAtStep
  <2> QED
    BY <2>1, <2>2 DEF Next
<1> QED
  BY <1>2, <1>3 DEF LoneInv

\* LoneInv is an invariant of the cache.
THEOREM LoneInvariant == Spec => []LoneInv
  BY LoneInit, LoneStep, CacheInvariant, PTL DEF Spec

\* An invocation that is alone and exits 0 has left its roots in the cache.
THEOREM LoneSuccessIsCached == Spec => []SuccessIsCached
<1>1. LoneInv => SuccessIsCached
  BY GraphAssumption DEF LoneInv, LoneAt, SuccessIsCached, Valid
<1> QED
  BY <1>1, LoneInvariant, PTL

\* An invocation that is alone only fails because a command failed.
THEOREM LoneFailuresHaveCause == Spec => []LoneFailureHasCause
<1>1. LoneInv => LoneFailureHasCause
  BY DEF LoneInv, LoneAt, LoneFailureHasCause
<1> QED
  BY <1>1, LoneInvariant, PTL

=============================================================================
