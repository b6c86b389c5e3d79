----------------------------- MODULE BuildCache -----------------------------
(***************************************************************************)
(* The result cache of the build engine (src/build, class Executor): the   *)
(* UID manifests, the content-addressed store and the per-node work        *)
(* directories under one cache root, used by several invocations of        *)
(* `build` at once, each of which may be killed between any two steps.     *)
(*                                                                         *)
(* A thread of an invocation p that executes node u is the pair (p, u);    *)
(* pc[p][u] says where in Executor._execute it stands.  Files are named by *)
(* their digest, so a blob is a digest and its content at once, and a      *)
(* manifest is the set of blobs it names.                                  *)
(***************************************************************************)
EXTENDS Naturals, FiniteSets

CONSTANTS
  Proc,       \* invocations of `build` that share the cache root
  Node,       \* nodes of the graph: the closure of the requested roots
  Blob,       \* CAS blobs
  Deps,       \* Deps[u]: Node.deps
  Roots,      \* the requested nodes
  Products,   \* Products[u]: what one complete run of u's commands may leave
  Clearing,   \* invocations given --clear
  Tracing,    \* invocations given --strace
  MaxStarts,  \* bound: MaxStarts[p]: how often p is started
  Absent,     \* no manifest at the uid path
  Free        \* nobody holds the flock

ASSUME GraphAssumption ==
  /\ Deps \in [Node -> SUBSET Node]
  /\ Roots \subseteq Node
  /\ Products \in [Node -> SUBSET SUBSET Blob]
ASSUME ModeAssumption ==
  /\ Clearing \subseteq Proc
  /\ Tracing \subseteq Proc
  /\ MaxStarts \in [Proc -> Nat]
ASSUME NullAssumption ==
  /\ \A s \in SUBSET Blob : s # Absent
  /\ Free \notin Proc

VARIABLES
  manifest,   \* uid/: the manifest of each node, or Absent
  cas,        \* cas/: the blobs present
  inp,        \* tmp/<uid>: what was restored there from each dependency
  out,        \* tmp/<uid>: the output files present
  goal,       \* the output files the node's commands will have written
  lock,       \* tmp/.locks/<uid>: who holds the flock
  phase,      \* where each invocation stands in main / Executor._run
  pc,         \* where each node's thread stands in Executor._execute
  scanned,    \* nodes probed so far by the scan in _run
  uncached,   \* the local `uncached` of _run
  todo,       \* the dependencies _execute has still to restore
  linked,     \* the local `manifest` of _store: blobs already in the CAS
  published,  \* roots restored into the build root so far
  broken,     \* a command of this invocation failed
  starts      \* how often each invocation was started

dir == <<inp, out, goal>>
disk == <<manifest, cas, dir>>
local == <<scanned, uncached, todo, linked, published, broken, starts>>
vars == <<disk, lock, phase, pc, local>>

-----------------------------------------------------------------------------

Phases == {"off", "clearCas", "clearUid", "clearTmp", "scan", "run",
           "abort", "publish", "ok", "failed"}
ClearPhases == {"clearCas", "clearUid", "clearTmp"}
Locked == {"recheck", "recheckMiss", "clean", "restore", "restoreMiss",
           "command", "running", "store", "discard", "discardFail",
           "close", "closeFail"}
Busy == Locked \cup {"probe", "probeMiss", "flock"}
Pcs == Busy \cup {"wait", "scanMiss", "done", "failed", "publishMiss"}

\* Mutant: _cached does not look for the blobs.
Valid_NoBlobCheck(u) == manifest[u] # Absent

\* Executor._cached: the manifest parses and every blob it names is a file.
Valid(u) == manifest[u] # Absent /\ manifest[u] \subseteq cas

Goto(p, u, to) == pc' = [pc EXCEPT ![p][u] = to]
Enter(p, to) == phase' = [phase EXCEPT ![p] = to]
Unlink(u) == manifest' = [manifest EXCEPT ![u] = Absent]
Active(p) == phase[p] \notin {"off", "ok", "failed"}
NoInputs == [d \in Node |-> Absent]

Init ==
  /\ manifest = [u \in Node |-> Absent]
  /\ cas = {}
  /\ inp = [u \in Node |-> NoInputs]
  /\ out = [u \in Node |-> {}]
  /\ goal = [u \in Node |-> {}]
  /\ lock = [u \in Node |-> Free]
  /\ phase = [p \in Proc |-> "off"]
  /\ pc = [p \in Proc |-> [u \in Node |-> "wait"]]
  /\ scanned = [p \in Proc |-> {}]
  /\ uncached = [p \in Proc |-> {}]
  /\ todo = [p \in Proc |-> [u \in Node |-> {}]]
  /\ linked = [p \in Proc |-> [u \in Node |-> {}]]
  /\ published = [p \in Proc |-> {}]
  /\ broken = [p \in Proc |-> FALSE]
  /\ starts = [p \in Proc |-> 0]

-----------------------------------------------------------------------------
(* An invocation: main, --clear, the scan at the head of _run.             *)

\* Nothing in the code orders `--clear` against other invocations: that the
\* cache root is cleared while nobody else uses it is an assumption.
Start(p) ==
  /\ ~Active(p)
  /\ starts[p] < MaxStarts[p]
  /\ \A q \in Proc : phase[q] \notin ClearPhases
  /\ \/ Enter(p, "scan")
     \/ p \in Clearing /\ (\A q \in Proc : ~Active(q)) /\ Enter(p, "clearCas")
  /\ pc' = [pc EXCEPT ![p] = [u \in Node |-> "wait"]]
  /\ scanned' = [scanned EXCEPT ![p] = {}]
  /\ uncached' = [uncached EXCEPT ![p] = {}]
  /\ todo' = [todo EXCEPT ![p] = [u \in Node |-> {}]]
  /\ linked' = [linked EXCEPT ![p] = [u \in Node |-> {}]]
  /\ published' = [published EXCEPT ![p] = {}]
  /\ broken' = [broken EXCEPT ![p] = FALSE]
  /\ starts' = [starts EXCEPT ![p] = @ + 1]
  /\ UNCHANGED <<disk, lock>>

\* The loop over ("cas", "uid", "tmp", "grb"): one rmtree after the other.
ClearCas(p) ==
  /\ phase[p] = "clearCas"
  /\ cas' = {}
  /\ Enter(p, "clearUid")
  /\ UNCHANGED <<manifest, dir, lock, pc, local>>

ClearUid(p) ==
  /\ phase[p] = "clearUid"
  /\ manifest' = [u \in Node |-> Absent]
  /\ Enter(p, "clearTmp")
  /\ UNCHANGED <<cas, dir, lock, pc, local>>

ClearTmp(p) ==
  /\ phase[p] = "clearTmp"
  /\ inp' = [u \in Node |-> NoInputs]
  /\ out' = [u \in Node |-> {}]
  /\ goal' = [u \in Node |-> {}]
  /\ Enter(p, "scan")
  /\ UNCHANGED <<manifest, cas, lock, pc, local>>

\* `uncached = {node for node in needed if not self._cached(node.uid)}`:
\* _cached first reads, and unlinks the path in a second step on any OSError.
Scans(p, u) ==
  /\ phase[p] = "scan"
  /\ u \notin scanned[p]
  /\ \A v \in Node : pc[p][v] = "wait"

ScanHit(p, u) ==
  /\ Scans(p, u)
  /\ Valid(u)
  /\ scanned' = [scanned EXCEPT ![p] = @ \cup {u}]
  /\ UNCHANGED <<disk, lock, phase, pc, uncached, todo, linked, published,
                 broken, starts>>

ScanMiss(p, u) ==
  /\ Scans(p, u)
  /\ ~Valid(u)
  /\ Goto(p, u, "scanMiss")
  /\ UNCHANGED <<disk, lock, phase, local>>

ScanUnlink(p, u) ==
  /\ phase[p] = "scan"
  /\ pc[p][u] = "scanMiss"
  /\ Unlink(u)
  /\ scanned' = [scanned EXCEPT ![p] = @ \cup {u}]
  /\ uncached' = [uncached EXCEPT ![p] = @ \cup {u}]
  /\ Goto(p, u, "wait")
  /\ UNCHANGED <<cas, dir, lock, phase, todo, linked, published, broken,
                 starts>>

ScanDone(p) ==
  /\ phase[p] = "scan"
  /\ scanned[p] = Node
  /\ Enter(p, "run")
  /\ UNCHANGED <<disk, lock, pc, local>>

-----------------------------------------------------------------------------
(* One node: Executor._execute.                                            *)

\* Mutant: a node is ready before its dependencies are done.
Submit_NoDeps(p, u) ==
  /\ phase[p] = "run"
  /\ pc[p][u] = "wait"
  /\ Goto(p, u, IF p \in Tracing THEN "flock" ELSE "probe")
  /\ UNCHANGED <<disk, lock, phase, local>>

\* The main loop submits a node once its dependencies have completed, until
\* it has seen a failure.  --strace skips both cache probes.
Submit(p, u) ==
  /\ phase[p] = "run"
  /\ pc[p][u] = "wait"
  /\ \A d \in Deps[u] : pc[p][d] = "done"
  /\ Goto(p, u, IF p \in Tracing THEN "flock" ELSE "probe")
  /\ UNCHANGED <<disk, lock, phase, local>>

ProbeHit(p, u) ==
  /\ pc[p][u] = "probe"
  /\ Valid(u)
  /\ Goto(p, u, "done")
  /\ UNCHANGED <<disk, lock, phase, local>>

ProbeMiss(p, u) ==
  /\ pc[p][u] = "probe"
  /\ ~Valid(u)
  /\ Goto(p, u, "probeMiss")
  /\ UNCHANGED <<disk, lock, phase, local>>

ProbeUnlink(p, u) ==
  /\ pc[p][u] = "probeMiss"
  /\ Unlink(u)
  /\ Goto(p, u, "flock")
  /\ UNCHANGED <<cas, dir, lock, phase, local>>

\* flock(LOCK_EX), then the work directory is made.
Lock(p, u) ==
  /\ pc[p][u] = "flock"
  /\ lock[u] = Free
  /\ lock' = [lock EXCEPT ![u] = p]
  /\ Goto(p, u, IF p \in Tracing THEN "clean" ELSE "recheck")
  /\ UNCHANGED <<disk, phase, local>>

RecheckHit(p, u) ==
  /\ pc[p][u] = "recheck"
  /\ Valid(u)
  /\ Goto(p, u, "discard")
  /\ UNCHANGED <<disk, lock, phase, local>>

\* Mutant: the manifest is not looked for again under the flock.
RecheckMiss_Always(p, u) ==
  /\ pc[p][u] = "recheck"
  /\ Goto(p, u, "clean")
  /\ UNCHANGED <<disk, lock, phase, local>>

RecheckMiss(p, u) ==
  /\ pc[p][u] = "recheck"
  /\ ~Valid(u)
  /\ Goto(p, u, "recheckMiss")
  /\ UNCHANGED <<disk, lock, phase, local>>

RecheckUnlink(p, u) ==
  /\ pc[p][u] = "recheckMiss"
  /\ Unlink(u)
  /\ Goto(p, u, "clean")
  /\ UNCHANGED <<cas, dir, lock, phase, local>>

\* Mutant: no _remove_contents before the run.
Clean_KeepsLeftovers(p, u) ==
  /\ pc[p][u] = "clean"
  /\ todo' = [todo EXCEPT ![p][u] = Deps[u]]
  /\ linked' = [linked EXCEPT ![p][u] = {}]
  /\ Goto(p, u, "restore")
  /\ UNCHANGED <<disk, lock, phase, scanned, uncached, published, broken,
                 starts>>

\* _remove_contents(work): what a killed run left there goes first.
Clean(p, u) ==
  /\ pc[p][u] = "clean"
  /\ inp' = [inp EXCEPT ![u] = NoInputs]
  /\ out' = [out EXCEPT ![u] = {}]
  /\ goal' = [goal EXCEPT ![u] = {}]
  /\ todo' = [todo EXCEPT ![p][u] = Deps[u]]
  /\ linked' = [linked EXCEPT ![p][u] = {}]
  /\ Goto(p, u, "restore")
  /\ UNCHANGED <<manifest, cas, lock, phase, scanned, uncached,
                 published, broken, starts>>

\* _restore(dep.uid, work): read the manifest and hard-link each blob.  A
\* blob that is gone is no error here: os.symlink leaves a dangling link.
RestoreDep(p, u, d) ==
  /\ pc[p][u] = "restore"
  /\ d \in todo[p][u]
  /\ manifest[d] # Absent
  /\ inp' = [inp EXCEPT ![u][d] = manifest[d]]
  /\ todo' = [todo EXCEPT ![p][u] = @ \ {d}]
  /\ UNCHANGED <<manifest, cas, out, goal, lock, phase, pc, scanned, uncached,
                 linked, published, broken, starts>>

\* The manifest is gone: the handler unlinks the path and the node fails.
RestoreMiss(p, u, d) ==
  /\ pc[p][u] = "restore"
  /\ d \in todo[p][u]
  /\ manifest[d] = Absent
  /\ todo' = [todo EXCEPT ![p][u] = {d}]
  /\ Goto(p, u, "restoreMiss")
  /\ UNCHANGED <<disk, lock, phase, scanned, uncached, linked, published,
                 broken, starts>>

RestoreUnlink(p, u, d) ==
  /\ pc[p][u] = "restoreMiss"
  /\ d \in todo[p][u]
  /\ Unlink(d)
  /\ Goto(p, u, "discardFail")
  /\ UNCHANGED <<cas, dir, lock, phase, local>>

RestoreDone(p, u) ==
  /\ pc[p][u] = "restore"
  /\ todo[p][u] = {}
  /\ Goto(p, u, "command")
  /\ UNCHANGED <<disk, lock, phase, local>>

\* _run_command: the commands have written some of their output files ...
Command(p, u) ==
  /\ pc[p][u] = "command"
  /\ \E product \in Products[u] : \E part \in SUBSET product :
       /\ goal' = [goal EXCEPT ![u] = product]
       /\ out' = [out EXCEPT ![u] = @ \cup part]
  /\ Goto(p, u, "running")
  /\ UNCHANGED <<manifest, cas, inp, lock, phase, local>>

\* Mutant: store_result ignored, a traced rerun is always stored.
CommandExit_AlwaysStores(p, u) ==
  /\ pc[p][u] = "running"
  /\ out' = [out EXCEPT ![u] = @ \cup goal[u]]
  /\ Goto(p, u, "store")
  /\ UNCHANGED <<manifest, cas, inp, goal, lock, phase, local>>

\* ... and have written them all.  A declared output directory is stored with
\* everything in it, whoever put it there.  A traced rerun of a node that the
\* scan found cached is not stored.
CommandExit(p, u) ==
  /\ pc[p][u] = "running"
  /\ out' = [out EXCEPT ![u] = @ \cup goal[u]]
  /\ Goto(p, u, IF p \in Tracing /\ u \notin uncached[p]
                THEN "discard" ELSE "store")
  /\ UNCHANGED <<manifest, cas, inp, goal, lock, phase, local>>

\* A command exited non-zero, or _store_path misses a declared output.
CommandFail(p, u) ==
  /\ pc[p][u] \in {"running", "store"}
  /\ broken' = [broken EXCEPT ![p] = TRUE]
  /\ Goto(p, u, "discardFail")
  /\ UNCHANGED <<disk, lock, phase, scanned, uncached, todo, linked,
                 published, starts>>

\* Mutant: a directory is stored as one file.
StorePath_Directory(p, u, b) ==
  /\ pc[p][u] = "store"
  /\ b \in out[u] \ linked[p][u]
  /\ cas' = cas \cup {out[u]}
  /\ linked' = [linked EXCEPT ![p][u] = @ \cup {b}]
  /\ UNCHANGED <<manifest, dir, lock, phase, pc, scanned, uncached, todo,
                 published, broken, starts>>

\* _store_path for one file: link it into the CAS unless it is there.
StorePath(p, u, b) ==
  /\ pc[p][u] = "store"
  /\ b \in out[u] \ linked[p][u]
  /\ cas' = cas \cup {b}
  /\ linked' = [linked EXCEPT ![p][u] = @ \cup {b}]
  /\ UNCHANGED <<manifest, dir, lock, phase, pc, scanned, uncached, todo,
                 published, broken, starts>>

\* Mutant: the manifest is written before the blobs are in the CAS.
WriteManifest_First(p, u) ==
  /\ pc[p][u] = "store"
  /\ manifest' = [manifest EXCEPT ![u] = out[u]]
  /\ Goto(p, u, "discard")
  /\ UNCHANGED <<cas, dir, lock, phase, local>>

\* _write_manifest: temporary file, then os.replace.
WriteManifest(p, u) ==
  /\ pc[p][u] = "store"
  /\ out[u] \subseteq linked[p][u]
  /\ manifest' = [manifest EXCEPT ![u] = linked[p][u]]
  /\ Goto(p, u, "discard")
  /\ UNCHANGED <<cas, dir, lock, phase, local>>

\* finally: _discard_contents(work) renames the directory away ...
Discard(p, u) ==
  /\ pc[p][u] \in {"discard", "discardFail"}
  /\ inp' = [inp EXCEPT ![u] = NoInputs]
  /\ out' = [out EXCEPT ![u] = {}]
  /\ goal' = [goal EXCEPT ![u] = {}]
  /\ Goto(p, u, IF pc[p][u] = "discard" THEN "close" ELSE "closeFail")
  /\ UNCHANGED <<manifest, cas, lock, phase, local>>

\* ... and os.close(fd) drops the flock.
Close(p, u) ==
  /\ pc[p][u] \in {"close", "closeFail"}
  /\ lock' = [lock EXCEPT ![u] = Free]
  /\ Goto(p, u, IF pc[p][u] = "close" THEN "done" ELSE "failed")
  /\ UNCHANGED <<disk, phase, local>>

-----------------------------------------------------------------------------
(* The end of an invocation.                                               *)

\* Every node done: the roots are restored into the build root as symlinks.
RunDone(p) ==
  /\ phase[p] = "run"
  /\ \A u \in Node : pc[p][u] = "done"
  /\ Enter(p, "publish")
  /\ UNCHANGED <<disk, lock, pc, local>>

\* The main loop sees a failed future and raises: nothing is submitted any
\* more, and leaving the thread pool waits for the threads still running.
RunFailed(p) ==
  /\ phase[p] = "run"
  /\ \E u \in Node : pc[p][u] = "failed"
  /\ Enter(p, "abort")
  /\ UNCHANGED <<disk, lock, pc, local>>

Drained(p) ==
  /\ phase[p] = "abort"
  /\ \A u \in Node : pc[p][u] \in {"wait", "done", "failed"}
  /\ Enter(p, "failed")
  /\ UNCHANGED <<disk, lock, pc, local>>

\* _restore(root.uid, build_root, symlink=True) reads only the manifest.
Publishes(p, u) ==
  /\ phase[p] = "publish"
  /\ u \in Roots \ published[p]
  /\ \A v \in Node : pc[p][v] = "done"

PublishRoot(p, u) ==
  /\ Publishes(p, u)
  /\ manifest[u] # Absent
  /\ published' = [published EXCEPT ![p] = @ \cup {u}]
  /\ UNCHANGED <<disk, lock, phase, pc, scanned, uncached, todo, linked,
                 broken, starts>>

PublishMiss(p, u) ==
  /\ Publishes(p, u)
  /\ manifest[u] = Absent
  /\ Goto(p, u, "publishMiss")
  /\ UNCHANGED <<disk, lock, phase, local>>

PublishUnlink(p, u) ==
  /\ phase[p] = "publish"
  /\ pc[p][u] = "publishMiss"
  /\ Unlink(u)
  /\ Goto(p, u, "failed")
  /\ Enter(p, "failed")
  /\ UNCHANGED <<cas, dir, lock, local>>

PublishDone(p) ==
  /\ phase[p] = "publish"
  /\ Roots \subseteq published[p]
  /\ Enter(p, "ok")
  /\ UNCHANGED <<disk, lock, pc, local>>

\* Mutant: a lock file in place of flock, left behind by a killed process.
Crash_KeepsLock(p) ==
  /\ Active(p)
  /\ Enter(p, "off")
  /\ pc' = [pc EXCEPT ![p] = [u \in Node |-> "wait"]]
  /\ UNCHANGED <<disk, lock, local>>

\* supervised_main: SIGKILL to the process group; the kernel drops the flocks.
Crash(p) ==
  /\ Active(p)
  /\ Enter(p, "off")
  /\ pc' = [pc EXCEPT ![p] = [u \in Node |-> "wait"]]
  /\ lock' = [u \in Node |-> IF lock[u] = p THEN Free ELSE lock[u]]
  /\ UNCHANGED <<disk, local>>

-----------------------------------------------------------------------------

\* The steps of the main thread, and of the thread that executes u.
MainStep(p) ==
  \/ ClearCas(p) \/ ClearUid(p) \/ ClearTmp(p)
  \/ ScanDone(p) \/ RunDone(p) \/ RunFailed(p) \/ Drained(p) \/ PublishDone(p)
  \/ \E u \in Node : \/ ScanHit(p, u) \/ ScanMiss(p, u) \/ ScanUnlink(p, u)
                     \/ Submit(p, u)
                     \/ PublishRoot(p, u) \/ PublishMiss(p, u)
                     \/ PublishUnlink(p, u)

NodeStep(p, u) ==
  \/ ProbeHit(p, u) \/ ProbeMiss(p, u) \/ ProbeUnlink(p, u)
  \/ Lock(p, u)
  \/ RecheckHit(p, u) \/ RecheckMiss(p, u) \/ RecheckUnlink(p, u)
  \/ Clean(p, u)
  \/ \E d \in Node : \/ RestoreDep(p, u, d) \/ RestoreMiss(p, u, d)
                     \/ RestoreUnlink(p, u, d)
  \/ RestoreDone(p, u)
  \/ Command(p, u) \/ CommandExit(p, u) \/ CommandFail(p, u)
  \/ \E b \in Blob : StorePath(p, u, b)
  \/ WriteManifest(p, u)
  \/ Discard(p, u) \/ Close(p, u)

Next ==
  \E p \in Proc : \/ Start(p)
                  \/ MainStep(p)
                  \/ \E u \in Node : NodeStep(p, u)
                  \/ Crash(p)

Spec == Init /\ [][Next]_vars

\* Threads of a live process are scheduled and commands end; nothing forces
\* an invocation to be started or killed.
FairSpec ==
  /\ Spec
  /\ \A p \in Proc : WF_vars(MainStep(p))
  /\ \A p \in Proc : \A u \in Node : WF_vars(NodeStep(p, u))

-----------------------------------------------------------------------------
(* Properties.                                                             *)

\* Every variable stays within its type (the state of class Executor, the
\* cache root's directories and the locals of _run, _execute and _store).
TypeOK ==
  /\ manifest \in [Node -> {Absent} \cup SUBSET Blob]
  /\ cas \in SUBSET Blob
  /\ inp \in [Node -> [Node -> {Absent} \cup SUBSET Blob]]
  /\ out \in [Node -> SUBSET Blob]
  /\ goal \in [Node -> SUBSET Blob]
  /\ lock \in [Node -> Proc \cup {Free}]
  /\ phase \in [Proc -> Phases]
  /\ pc \in [Proc -> [Node -> Pcs]]
  /\ scanned \in [Proc -> SUBSET Node]
  /\ uncached \in [Proc -> SUBSET Node]
  /\ todo \in [Proc -> [Node -> SUBSET Node]]
  /\ linked \in [Proc -> [Node -> SUBSET Blob]]
  /\ published \in [Proc -> SUBSET Node]
  /\ broken \in [Proc -> BOOLEAN]
  /\ starts \in [Proc -> Nat]

\* A stored manifest is exactly what one complete run of the node's commands
\* leaves: never a part of it, never mixed with what a killed or a concurrent
\* run left in tmp/<uid> (_execute: flock, _remove_contents, _store).
StoredIsComplete ==
  \A u \in Node : manifest[u] # Absent => manifest[u] \in Products[u]

\* When a node's commands run, each dependency lies in the work directory with
\* the files of one complete run, and all of them exist (_restore would leave
\* a dangling symlink for a blob that is gone).
InputsComplete ==
  \A p \in Proc, u \in Node : pc[p][u] \in {"command", "running"} =>
    \A d \in Deps[u] : inp[u][d] \in Products[d] /\ inp[u][d] \subseteq cas

\* From the end of its scan to its end, an invocation meets only manifests all
\* of whose blobs are in the CAS: a manifest is written after its last blob,
\* and what a --clear that was killed half way left behind is unlinked by the
\* scan's _cached.
ManifestSound ==
  \A p \in Proc : phase[p] \in {"run", "abort", "publish"} =>
    \A u \in Node : manifest[u] # Absent => manifest[u] \subseteq cas

\* No other invocation has been started on this cache root.
Alone(p) == \A q \in Proc \ {p} : starts[q] = 0

\* An invocation that is alone and exits 0 leaves its requested roots in the
\* cache, whatever its earlier, killed starts left there.
SuccessIsCached ==
  \A p \in Proc : phase[p] = "ok" /\ Alone(p) =>
    \A r \in Roots : manifest[r] # Absent /\ manifest[r] \subseteq cas

\* An invocation only fails because one of its commands failed: never because
\* a dependency it had already built or found is gone when _restore reads it.
FailureHasCause ==
  \A p \in Proc : phase[p] = "failed" => broken[p]

\* The same for an invocation that is alone: what it fails to restore was not
\* unlinked by itself.
LoneFailureHasCause ==
  \A p \in Proc : phase[p] = "failed" /\ Alone(p) => broken[p]

\* A manifest whose blobs are all there is replaced by no run but one: a traced
\* invocation, which does not look again under the flock, may store a node that
\* another has stored since its scan.  A plain invocation never does, and a
\* traced rerun of what the scan found cached is not stored (store_result).
ValidKept ==
  [][\A u \in Node :
       /\ manifest[u] # Absent /\ manifest[u] \subseteq cas
       /\ manifest'[u] \notin {manifest[u], Absent}
       => \E p \in Tracing : lock[u] = p /\ u \in uncached[p]]_vars

\* Every invocation ends (or is killed): no thread waits for a flock nobody
\* will release, and the main loop never waits for a node it does not run.
BuildEnds == \A p \in Proc : Active(p) ~> ~Active(p)

\* What _cached finds for each node.
Found == [u \in Node |-> IF Valid(u) THEN manifest[u] ELSE Absent]

Results == INSTANCE ResultCache WITH
  result <- Found, Forgetting <- TRUE, Replacing <- Tracing # {}

\* To whoever asks _cached, the cache root is a cache of whole results: one
\* appears in a single step, with the last of its files already there, and is
\* replaced by another only where --strace skips the second look.  That it may
\* be lost is part of the promise: --clear and a late unlink both do it.
ImplementsResultCache == Results!Spec

-----------------------------------------------------------------------------
(* The inductive invariant behind StoredIsComplete, InputsComplete and     *)
(* ManifestSound.                                                          *)

\* Whoever is past flock holds it, so nobody else is in the work directory.
LockInv == \A p \in Proc, u \in Node : pc[p][u] \in Locked => lock[u] = p

\* Work directories and the CAS are only touched while the run lasts, and
\* --clear runs alone.
PhaseInv ==
  \A p \in Proc :
    /\ \A u \in Node : pc[p][u] \in Busy => phase[p] \in {"run", "abort"}
    /\ phase[p] \in ClearPhases =>
         scanned[p] = {} /\ \A q \in Proc \ {p} : ~Active(q)

\* A manifest that an invocation has scanned is sound from then on.
ScanInv ==
  \A p \in Proc :
    /\ phase[p] \in {"run", "abort", "publish"} => scanned[p] = Node
    /\ phase[p] \in {"scan", "run", "abort", "publish"} =>
         \A u \in scanned[p] : manifest[u] # Absent => manifest[u] \subseteq cas

\* The output files in a work directory come from the run in progress.
OutInv ==
  \A p \in Proc, u \in Node :
    /\ pc[p][u] \in {"restore", "command"} => out[u] = {}
    /\ pc[p][u] \in {"restore", "command", "running"} => linked[p][u] = {}
    /\ pc[p][u] = "running" => goal[u] \in Products[u] /\ out[u] \subseteq goal[u]
    /\ pc[p][u] = "store" => /\ out[u] \in Products[u]
                             /\ linked[p][u] \subseteq out[u]
                             /\ linked[p][u] \subseteq cas

\* The dependencies restored so far are complete.
InpInv ==
  \A p \in Proc, u \in Node :
    /\ pc[p][u] = "restore" => \A d \in Deps[u] \ todo[p][u] :
                                 inp[u][d] \in Products[d] /\ inp[u][d] \subseteq cas
    /\ pc[p][u] \in {"command", "running"} => \A d \in Deps[u] :
                                 inp[u][d] \in Products[d] /\ inp[u][d] \subseteq cas

CacheInv ==
  TypeOK /\ LockInv /\ PhaseInv /\ ScanInv /\ OutInv /\ InpInv /\ StoredIsComplete

=============================================================================
