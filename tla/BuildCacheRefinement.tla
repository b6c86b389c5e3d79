------------------------ MODULE BuildCacheRefinement ------------------------
(***************************************************************************)
(* Proof that BuildCache implements ResultCache, for every graph, every    *)
(* number of invocations, --clear and --strace included.  A store is many  *)
(* steps of one invocation among those of others; to a look-up it is one.  *)
(* That a valid result is only replaced by a traced run, ValidKept, comes  *)
(* from the same invariant.                                                *)
(***************************************************************************)
EXTENDS BuildCacheProofs

-----------------------------------------------------------------------------
(* The extra invariant: what a thread that is about to store knows.        *)

\* Past the second _cached and up to _write_manifest, a plain invocation's node
\* has no manifest, because whoever would write one needs the flock; a traced
\* invocation, which skips that look, stores what its scan did not find.
MissInv ==
  \A u \in Node :
    /\ \A p \in Proc \ Tracing :
         pc[p][u] \in {"clean", "restore", "restoreMiss", "command", "running", "store"} =>
           manifest[u] = Absent
    /\ \A p \in Tracing : pc[p][u] = "store" => u \in uncached[p]

\* A step that only takes manifests away: every action but the stores.
Losing == /\ cas' \in {cas, {}}
          /\ \A u \in Node : manifest'[u] \in {manifest[u], Absent}

\* Of all steps of Next, _store_path and _write_manifest are the only ones that
\* add something to the cache.
LEMMA StepKinds ==
  ASSUME TypeOK, [Next]_vars
  PROVE \/ Losing
        \/ \E p \in Proc, u \in Node, b \in Blob : StorePath(p, u, b)
        \/ \E p \in Proc, u \in Node : WriteManifest(p, u)
<1> USE DEF disk, dir, local, Goto, Enter, Unlink, Losing, TypeOK
<1>1. CASE UNCHANGED vars
  BY <1>1 DEF vars
<1>2. ASSUME NEW p \in Proc, Start(p) \/ Crash(p) PROVE Losing
  BY <1>2 DEF Start, Crash
<1>3. ASSUME NEW p \in Proc, ClearCas(p) \/ ClearUid(p) \/ ClearTmp(p) PROVE Losing
  BY <1>3 DEF ClearCas, ClearUid, ClearTmp
<1>4. ASSUME NEW p \in Proc,
             ScanDone(p) \/ RunDone(p) \/ RunFailed(p) \/ Drained(p) \/ PublishDone(p)
      PROVE Losing
  BY <1>4 DEF ScanDone, RunDone, RunFailed, Drained, PublishDone
<1>5. ASSUME NEW p \in Proc, NEW u \in Node,
             ScanHit(p, u) \/ ScanMiss(p, u) \/ Submit(p, u)
               \/ PublishRoot(p, u) \/ PublishMiss(p, u)
      PROVE Losing
  BY <1>5 DEF ScanHit, ScanMiss, Submit, PublishRoot, PublishMiss
<1>6. ASSUME NEW p \in Proc, NEW u \in Node,
             ScanUnlink(p, u) \/ PublishUnlink(p, u) \/ ProbeUnlink(p, u)
               \/ RecheckUnlink(p, u)
      PROVE Losing
  BY <1>6 DEF ScanUnlink, PublishUnlink, ProbeUnlink, RecheckUnlink
<1>7. ASSUME NEW p \in Proc, NEW u \in Node,
             ProbeHit(p, u) \/ ProbeMiss(p, u) \/ Lock(p, u) \/ RecheckHit(p, u)
               \/ RecheckMiss(p, u) \/ Clean(p, u) \/ RestoreDone(p, u)
      PROVE Losing
  BY <1>7 DEF ProbeHit, ProbeMiss, Lock, RecheckHit, RecheckMiss, Clean, RestoreDone
<1>8. ASSUME NEW p \in Proc, NEW u \in Node,
             Command(p, u) \/ CommandExit(p, u) \/ CommandFail(p, u)
               \/ Discard(p, u) \/ Close(p, u)
      PROVE Losing
  BY <1>8 DEF Command, CommandExit, CommandFail, Discard, Close
<1>9. ASSUME NEW p \in Proc, NEW u \in Node, NEW d \in Node,
             RestoreDep(p, u, d) \/ RestoreMiss(p, u, d) \/ RestoreUnlink(p, u, d)
      PROVE Losing
  BY <1>9 DEF RestoreDep, RestoreMiss, RestoreUnlink
<1> HIDE DEF Losing, TypeOK, disk, dir, local, Goto, Enter, Unlink
<1> QED
  BY <1>1, <1>2, <1>3, <1>4, <1>5, <1>6, <1>7, <1>8, <1>9 DEF Next, MainStep, NodeStep

\* MissInv is preserved: only RecheckUnlink brings a plain invocation there, and
\* nobody else writes the manifest while it holds the flock.
LEMMA MissStep == CacheInv /\ MissInv /\ [Next]_vars => MissInv'
<1> SUFFICES ASSUME CacheInv, MissInv, [Next]_vars PROVE MissInv'
  OBVIOUS
<1> USE ModeAssumption, NullAssumption
<1> USE DEF CacheInv, TypeOK, LockInv, Locked, MissInv, disk, dir, local, Goto, Enter, Unlink
<1>1. CASE UNCHANGED vars
  BY <1>1 DEF vars
<1>2. ASSUME NEW p \in Proc, Start(p) \/ Crash(p) PROVE MissInv'
  <2>1. CASE Start(p)
    BY <2>1 DEF Start
  <2>2. CASE Crash(p)
    BY <2>2 DEF Crash
  <2> QED
    BY <1>2, <2>1, <2>2
<1>3. ASSUME NEW p \in Proc, ClearCas(p) \/ ClearUid(p) \/ ClearTmp(p) PROVE MissInv'
  BY <1>3 DEF ClearCas, ClearUid, ClearTmp
<1>4. ASSUME NEW p \in Proc,
             ScanDone(p) \/ RunDone(p) \/ RunFailed(p) \/ Drained(p) \/ PublishDone(p)
      PROVE MissInv'
  BY <1>4 DEF ScanDone, RunDone, RunFailed, Drained, PublishDone
<1>5. ASSUME NEW p \in Proc, NEW u \in Node,
             ScanHit(p, u) \/ ScanMiss(p, u) \/ Submit(p, u)
               \/ PublishRoot(p, u) \/ PublishMiss(p, u)
      PROVE MissInv'
  <2>1. CASE ScanHit(p, u)
    BY <2>1 DEF ScanHit
  <2>2. CASE ScanMiss(p, u)
    BY <2>2 DEF ScanMiss
  <2>3. CASE Submit(p, u)
    BY <2>3 DEF Submit
  <2>4. CASE PublishRoot(p, u)
    BY <2>4 DEF PublishRoot
  <2>5. CASE PublishMiss(p, u)
    BY <2>5 DEF PublishMiss
  <2> QED
    BY <1>5, <2>1, <2>2, <2>3, <2>4, <2>5
<1>6. ASSUME NEW p \in Proc, NEW u \in Node,
             ScanUnlink(p, u) \/ PublishUnlink(p, u) \/ ProbeUnlink(p, u)
               \/ RecheckUnlink(p, u)
      PROVE MissInv'
  <2>1. CASE ScanUnlink(p, u)
    BY <2>1 DEF ScanUnlink
  <2>2. CASE PublishUnlink(p, u)
    BY <2>2 DEF PublishUnlink
  <2>3. CASE ProbeUnlink(p, u)
    BY <2>3 DEF ProbeUnlink
  <2>4. CASE RecheckUnlink(p, u)
    BY <2>4 DEF RecheckUnlink
  <2> QED
    BY <1>6, <2>1, <2>2, <2>3, <2>4
<1>7. ASSUME NEW p \in Proc, NEW u \in Node,
             ProbeHit(p, u) \/ ProbeMiss(p, u) \/ Lock(p, u) \/ RecheckHit(p, u)
               \/ RecheckMiss(p, u) \/ Clean(p, u) \/ RestoreDone(p, u)
      PROVE MissInv'
  <2>1. CASE ProbeHit(p, u)
    BY <2>1 DEF ProbeHit
  <2>2. CASE ProbeMiss(p, u)
    BY <2>2 DEF ProbeMiss
  <2>3. CASE Lock(p, u)
    BY <2>3 DEF Lock
  <2>4. CASE RecheckHit(p, u)
    BY <2>4 DEF RecheckHit
  <2>5. CASE RecheckMiss(p, u)
    BY <2>5 DEF RecheckMiss
  <2>6. CASE Clean(p, u)
    BY <2>6 DEF Clean
  <2>7. CASE RestoreDone(p, u)
    BY <2>7 DEF RestoreDone
  <2> QED
    BY <1>7, <2>1, <2>2, <2>3, <2>4, <2>5, <2>6, <2>7
<1>8. ASSUME NEW p \in Proc, NEW u \in Node,
             Command(p, u) \/ CommandExit(p, u) \/ CommandFail(p, u)
               \/ Discard(p, u) \/ Close(p, u)
      PROVE MissInv'
  <2>1. CASE Command(p, u)
    BY <2>1 DEF Command
  <2>2. CASE CommandExit(p, u)
    BY <2>2 DEF CommandExit
  <2>3. CASE CommandFail(p, u)
    BY <2>3 DEF CommandFail
  <2>4. CASE Discard(p, u)
    BY <2>4 DEF Discard
  <2>5. CASE Close(p, u)
    BY <2>5 DEF Close
  <2> QED
    BY <1>8, <2>1, <2>2, <2>3, <2>4, <2>5
<1>9. ASSUME NEW p \in Proc, NEW u \in Node, NEW d \in Node,
             RestoreDep(p, u, d) \/ RestoreMiss(p, u, d) \/ RestoreUnlink(p, u, d)
      PROVE MissInv'
  <2>1. CASE RestoreDep(p, u, d)
    BY <2>1 DEF RestoreDep
  <2>2. CASE RestoreMiss(p, u, d)
    BY <2>2 DEF RestoreMiss
  <2>3. CASE RestoreUnlink(p, u, d)
    BY <2>3 DEF RestoreUnlink
  <2> QED
    BY <1>9, <2>1, <2>2, <2>3
<1>10. ASSUME NEW p \in Proc, NEW u \in Node, NEW b \in Blob, StorePath(p, u, b)
       PROVE MissInv'
  BY <1>10 DEF StorePath
<1>11. ASSUME NEW p \in Proc, NEW u \in Node, WriteManifest(p, u) PROVE MissInv'
  <2>1. \A q \in Proc \ {p} : pc[q][u] \notin Locked
    BY <1>11 DEF WriteManifest
  <2> QED
    BY <2>1, <1>11 DEF WriteManifest
<1> HIDE DEF CacheInv, TypeOK, MissInv, disk, dir, local, Goto, Enter, Unlink
<1> QED
  BY <1>1, <1>2, <1>3, <1>4, <1>5, <1>6, <1>7, <1>8, <1>9, <1>10, <1>11
     DEF Next, MainStep, NodeStep

\* Both invariants hold throughout.
LEMMA BothInvariant == Spec => [](CacheInv /\ MissInv)
<1>1. Init => MissInv
  BY ModeAssumption DEF Init, MissInv
<1> QED
  BY <1>1, CacheInit, CacheStep, MissStep, PTL DEF Spec

-----------------------------------------------------------------------------
(* The mapping of steps.                                                   *)

\* The empty cache root is the empty cache.
LEMMA RefinesInit == Init => Results!Init
  BY DEF Init, Results!Init, Found, Valid

\* A step that takes manifests or blobs away forgets the results it breaks.
LEMMA LosingForgets ==
  ASSUME TypeOK, Losing, TypeOK'
  PROVE Results!Next
<1> DEFINE lost == {u \in Node : Found'[u] = Absent}
<1>1. \A u \in Node : Found'[u] \in {Found[u], Absent}
  BY DEF Losing, TypeOK, Found, Valid
<1>2. Found' = [u \in Node |-> IF u \in lost THEN Absent ELSE Found[u]]
  BY <1>1 DEF Found
<1>3. Results!Forget(lost)
  BY <1>2 DEF Results!Forget
<1> QED
  BY <1>3 DEF Results!Next

\* A blob that is linked into the CAS completes nobody's manifest: the scan has
\* left none with a blob missing.
LEMMA StorePathHidden ==
  ASSUME CacheInv, NEW p \in Proc, NEW u \in Node, NEW b \in Blob, StorePath(p, u, b)
  PROVE UNCHANGED Found
<1>1. phase[p] \in {"run", "abort"}
  BY DEF CacheInv, PhaseInv, StorePath, Busy, Locked
<1>2. \A v \in Node : manifest[v] # Absent => manifest[v] \subseteq cas
  BY <1>1 DEF CacheInv, ScanInv
<1>3. manifest' = manifest /\ cas \subseteq cas'
  BY DEF StorePath
<1>4. \A v \in Node : Valid(v)' = Valid(v)
  BY <1>2, <1>3 DEF Valid
<1> QED
  BY <1>3, <1>4 DEF Found

\* The write of the manifest is the store: all of its blobs are in the CAS, and
\* unless somebody traces there was no result before.
LEMMA WriteManifestStores ==
  ASSUME CacheInv, MissInv, NEW p \in Proc, NEW u \in Node, WriteManifest(p, u)
  PROVE Results!Next
<1>1. /\ linked[p][u] \subseteq out[u] /\ out[u] \subseteq linked[p][u]
      /\ out[u] \in Products[u] /\ linked[p][u] \subseteq cas
  BY DEF CacheInv, OutInv, WriteManifest
<1>2. linked[p][u] = out[u]
  BY <1>1
<1>3. out[u] # Absent
  BY NullAssumption DEF CacheInv, TypeOK
<1>4. manifest' = [manifest EXCEPT ![u] = out[u]] /\ cas' = cas
  BY <1>2 DEF WriteManifest
<1>5. Found' = [Found EXCEPT ![u] = out[u]]
  BY <1>1, <1>2, <1>3, <1>4 DEF Found, Valid, CacheInv, TypeOK
<1>6. Tracing # {} \/ Found[u] = Absent
  BY DEF MissInv, WriteManifest, Found, Valid
<1>7. Results!Store(u)
  BY <1>1, <1>5, <1>6 DEF Results!Store
<1> QED
  BY <1>7 DEF Results!Next

\* Every behaviour of the cache root, seen through _cached, is one of a cache in
\* which results are whole, appear in one step, and are not replaced unless an
\* invocation traces (Executor._execute with its flock and second _cached).
THEOREM CacheImplementsResultCache == Spec => ImplementsResultCache
<1>1. CacheInv /\ MissInv /\ [Next]_vars => [Results!Next]_Found
  <2> SUFFICES ASSUME CacheInv, MissInv, [Next]_vars PROVE [Results!Next]_Found
    OBVIOUS
  <2>1. TypeOK /\ TypeOK'
    BY CacheStep DEF CacheInv
  <2> QED
    BY <2>1, StepKinds, LosingForgets, StorePathHidden, WriteManifestStores
<1> QED
  BY <1>1, RefinesInit, BothInvariant, PTL DEF Spec, ImplementsResultCache, Results!Spec

\* A valid manifest is replaced by no run but a traced one of a node that its scan
\* did not find (store_result, and the second _cached under the flock).
THEOREM ValidResultsKept == Spec => ValidKept
<1> DEFINE Kept == \A u \in Node :
                     /\ manifest[u] # Absent /\ manifest[u] \subseteq cas
                     /\ manifest'[u] \notin {manifest[u], Absent}
                     => \E p \in Tracing : lock[u] = p /\ u \in uncached[p]
<1>1. CacheInv /\ MissInv /\ [Next]_vars => [Kept]_vars
  <2> SUFFICES ASSUME CacheInv, MissInv, [Next]_vars PROVE Kept
    OBVIOUS
  <2>1. CASE Losing
    BY <2>1 DEF Losing
  <2>2. ASSUME NEW p \in Proc, NEW u \in Node, NEW b \in Blob, StorePath(p, u, b) PROVE Kept
    BY <2>2 DEF StorePath
  <2>3. ASSUME NEW p \in Proc, NEW u \in Node, WriteManifest(p, u) PROVE Kept
    <3>1. lock[u] = p
      BY <2>3 DEF CacheInv, LockInv, Locked, WriteManifest
    <3>2. \A v \in Node \ {u} : manifest'[v] = manifest[v]
      BY <2>3 DEF WriteManifest, CacheInv, TypeOK
    <3>3. CASE p \in Tracing
      BY <2>3, <3>1, <3>2, <3>3 DEF MissInv, WriteManifest
    <3>4. CASE p \notin Tracing
      BY <2>3, <3>2, <3>4 DEF MissInv, WriteManifest
    <3> QED
      BY <3>3, <3>4
  <2>4. TypeOK
    BY DEF CacheInv
  <2> QED
    BY <2>1, <2>2, <2>3, <2>4, StepKinds
<1> QED
  BY <1>1, BothInvariant, PTL DEF Spec, ValidKept

=============================================================================
