# A formal model of trustme's build engine, cargo and proc macros

trustme is a Rust compiler (`src/bin/rustc`, C++), a cargo (`src/bin/cargo`,
Go) and the build engine that builds and tests both (`src/build`, Python). The
engine is where state is shared: several invocations use one cache root, threads
and remote services use one graph, and any of them may be killed. cargo runs its
tasks on a cache of its own in the same way. The compiler is a sequential program
over one input, but it runs proc macros in processes of their own, whose library
(`src/lib/proc_macro`, Rust) shares token streams by reference counts. These
specifications are about the engine, cargo's task executor, the macro processes
and that library.

## 1. Inventory

| component | state it keeps | operations | interacts with |
|---|---|---|---|
| **result cache and node execution** (`src/build`, `Executor._execute`, `_cached`, `_store`, `_restore`, `main`, `supervised_main`) | `uid/` manifests, `cas/` blobs, `tmp/<uid>` work directories, `tmp/.locks`, `grb/` | scan, probe, lock, restore inputs, run commands, store, discard, publish roots, `--clear`, `--strace` | other invocations through the cache root; the scheduler calls it once per node |
| **scheduler** (`Executor._run`, `_pick`) | `ready`, `running`, `used`, `remaining`, `errors`, `blocked` | submit, wait, handle a result, a failure, a requeue | thread pool; hosts' free slots |
| **distributed execution** (`RemoteHost`, `ExecService`) | the ledger `sent`, `pending` replies, the connection; on the host the session's `cas/` and `tmp/`, jobs, the outbox | connect, execute, read, lose, close; serve a frame, run a job, stop | JSON frames and blob payloads over ssh; the requeue of the scheduler |
| graph construction and UIDs (`src/build`, `src/build.py`) | the node graph | declare nodes, hash UIDs, closure | gives the graph to the scheduler |
| include scanner (`src/build`) | parsed include lists | resolve and close over `#include` | feeds UIDs |
| strace checker (`src/build`) | none | compare what a command opened with what its node declares | wraps commands |
| cargo task runner (`src/bin/cargo/tasks.go`) | `uid/` manifests, `cas/` blobs, `tmp/<uid>`, lock files, stable trees `out/<uid>`, installed artifacts; `pending`, `ready`, `failed` of the loop | scan, launch, execute, open a stable tree, store, install, `-Zdry-run` | other cargos through the target directory; build scripts and compilers through `OUT_DIR` |
| cargo build scripts (`build_script.go`) | what a script printed | parse its directives | their runs are stable tasks of the runner |
| cargo resolver, semver, features, cfg (`resolve.go`, `semver.go`, `manifest.go`, `cfg.go`) | the resolved graph | select versions and features | the task runner |
| cargo commands and files (`build.go`, `lock.go`, `vendor.go`, `metadata.go`, `tree.go`, `messages.go`) | none of their own | read and write files, print | |
| rustc (`src/bin/rustc`) | the crate being compiled | parse, expand, resolve, type-check, lower to MIR, evaluate constants, emit C | one process per crate |
| libstd (`src/ext/libstd`) | channels, wait queues, event loops, containers | | platform library of the C++ code |
| **proc_macro token streams** (`src/lib/proc_macro/src/lib.rs`) | `SLOTS`, `FREE`: the trees of every stream and its handles | allocate, clone, drop, iterate, open a group, collect, extend | the macro's own code, also in the middle of `extend` |
| **proc_macro invocations** (`src/bin/rustc/expand_proc_macro.cpp`; `run`, `main` and `serialisation.rs` of the library) | the hosts, one per macro crate, their pipes, the invocation in progress | start, name a macro, send streams, read the answer, stop; serve a request, report a panic | two pipes per host; everything an invocation leaves in them meets the next one |
| proc_macro lexer, literals, spans, diagnostics | tables that only grow | text to tokens and back | |
| tests and scripts (`src/tst`, `src/dev`) | | | |

What is hard, by component, and the properties that make it correct:

- *Cache.* Kills between any two steps, two invocations on one node, probes made
  without the lock, a `--clear` killed half way. Correct when a manifest is
  always the product of one complete run, commands only see complete inputs,
  success means the result is cached, failure means a command failed, and nobody
  waits for ever.
- *Scheduler.* Counters that decide what may run, failures under `-k`, hosts
  whose slots vanish with jobs in flight, requeued nodes. Correct when every node
  runs at most once and after its dependencies, slots are respected, everything
  buildable is built, what is not is reported, and the loop ends.
- *Distribution.* Two connections alive at once (an old reader, an old service),
  threads that hold an old connection, blobs claimed by one job and needed by
  another, frames cut in the middle. Correct when results follow their blobs, no
  thread waits for an answer that cannot come, blobs cross once, and only a
  command's own failure fails a node.
- *cargo tasks.* As for the cache, and: build scripts write `OUT_DIR` in place and
  others read it without a lock; dry runs go half way through execution;
  installed artifacts are hard links into the CAS. Correct when, besides, readers
  of an `OUT_DIR` see what its script left, a dry run changes nothing a build
  relies on, blobs keep content and mode, and artifacts are installed as stored.
- *Token streams.* Clones share a slot and groups hold further handles, so a write
  must copy, a move must know that it is the last holder, and a drop may free a
  whole tree. Correct when every count is exact and a macro cannot tell streams
  from values.
- *Invocations.* Two bounded pipes, no framing around an invocation, and either
  side may stop in the middle: a panic, a lost process, an unknown macro, a parse
  error. Correct when a macro runs on its own input and all of it, the expansion
  is its own answer and all of it, the reason reported is the reason there is,
  and the compilation ends with its hosts.
- *UIDs, includes, resolver, semver.* Pure functions, to be compared with their
  definitions.

`PROJECT.json` lists each hazard at its line with the properties that cover it.

## 2. Modules

| module | models | composed from |
|---|---|---|
| `ResultCache` | what a cache of results promises (abstract) | |
| `BuildCache` | cache root, invocations, `Executor._execute` | implements `ResultCache` |
| `BuildCacheProofs` | its invariants proved | extends `BuildCache` |
| `BuildCacheRefinement` | its refinement proved | extends `BuildCacheProofs` |
| `BuildScheduler` | `Executor._run`, `_pick` | what a worker does is one step `Finish` |
| `BuildSchedulerProofs` | its invariants proved | extends `BuildScheduler` |
| `DistSession` | `RemoteHost` and `ExecService` | what the scheduler does is `Execute` again after a requeue |
| `DistSessionProofs` | its invariants proved | extends `DistSession` |
| `CargoTasks` | `TaskExecutor.run`, `execute`, stable trees | implements `ResultCache`; files of the CAS are names only |
| `CargoTasksProofs` | its invariants and its refinement proved | extends `CargoTasks` |
| `CargoInstall` | `storeFile` and `install`, inodes and modes | what a task does before its outputs exist is left out |
| `CargoInstallProofs` | its invariants proved | extends `CargoInstall` |
| `TokenValues` | what the library promises of a stream (abstract) | |
| `TokenStreams` | the stream store of `src/lib/proc_macro/src/lib.rs` | implements `TokenValues` |
| `TokenStreamsProofs` | its counts proved | extends `TokenStreams` |
| `MacroBridge` | the compiler's `ProcMacroInv` and hosts, the library's `run` | a stream is its number of tokens |
| `MacroBridgeProofs` | its invariants proved | extends `MacroBridge` |
| `MCBuildCache`, `MCBuildScheduler`, `MCDistSession`, `MCCargoTasks`, `MCCargoInstall`, `MCTokenStreams`, `MCMacroBridge` | the instances TLC checks | extend the seven |

Definitions named `X_<Change>` that a comment introduces with "Mutant" are
`X` with a plausible bug. No specification uses them; they show that a
property notices the bug.

### ResultCache

One variable, `result[u]`: absent, or the product of one complete run. `Store` puts
one in, `Forget` loses some. Two constants say how strong the promise is: whether
results may be lost (`Forgetting`) and whether one may be stored over another
(`Replacing`); where nothing is lost, a node is stored after its dependencies.

`BuildCache` and `CargoTasks` map `result` to what a look-up finds: the manifest if
all its blobs are there. The many steps of a store (link, link, ..., manifest),
restores, probes and kills are stutters; the write of the manifest is `Store`. The
engine's cache is instantiated with `Forgetting`, because `--clear` and the unlink of
`_cached` (finding 1) lose results, and with `Replacing` only when some invocation
traces. cargo's is instantiated with neither: it only grows.

### BuildCache

`manifest`, `cas`, the work directory (`inp`, `out`, `goal`) and `lock` are the
disk and the kernel; they survive a kill. The other variables are an
invocation's own. A blob's name is its content, so a manifest is a set of blobs,
and `Products[u]` is the set of results that a complete run of `u` may leave
(commands need not be deterministic).

- `Start`, `ClearCas`, `ClearUid`, `ClearTmp`: `main` up to the executor.
- `ScanHit`, `ScanMiss`, `ScanUnlink`, `ScanDone`: the set `uncached`. `_cached`
  is two steps, the read and the unlink of a manifest it could not use, because
  the lock is not held; the probe, the second probe, `_restore` and the
  publication are split in the same way.
- `Submit` to `Close`: `_execute` and its callees in program order. `CommandFail`
  stands for a non-zero exit and for a declared output that `_store_path` misses.
  `RestoreDep` copies a manifest without looking at the blobs, as the code does:
  `os.link` of a missing blob falls through to `os.symlink`.
- `RunDone`, `RunFailed`, `Drained`, `Publish*`: the end of `_run`.
- `Crash`: `supervised_main` kills the whole process group; flocks go with it.

Assumed: `--clear` runs alone (the code does not enforce it). Each of its `rmtree`
is one step: a kill inside one leaves a part of the blobs or of the manifests, and the
scan looks at every blob of every manifest it uses, as it does after a kill between
two. Left out: the garbage directory (a rename out of the way), job slots and `-k` (in
`BuildScheduler`), remote nodes (in `DistSession`), a kill of the main process
alone, which would leave orphan commands behind.

### BuildScheduler

The locals of `_run`, one variable each. `ready` keeps how often a node is in the
deque but not the order, so every node `_pick` might reach may be picked. `main`
says whether the main thread is submitting, waiting, handling a batch of
completed futures, or has left the loop. `HostUp` and `HostDown` change `cores`
under the loop; a future may raise `Requeue` only if its host went down while it
was in flight. `time.sleep(0.2)` and the `break` beside it have no action:
`NeverStuck` shows that their condition never holds.

### DistSession

Connections are numbered. Each has its pipes (`c2s`, `s2c`), the reader thread of
the controller and a service process on the host, and each outlives the moment
the controller dials the next. All services share `hostCas` and `work`, because
all use the directory of one session. `thread[u]` is the node's thread in
`RemoteHost.execute`. `Cut` and `Break` are external: when the ssh process
dies a prefix of what was in flight arrives, and the next blob perhaps in part
(`torn`), which takes `ExecService.run` out through `EOFError` instead of `_stop`.
`JobFails` with a work directory that is not the job's own answers `dir` rather
than `exit`, so that a property can tell a command's own failure from one caused
by another service.

Left out: the sweep of stale sessions, dropping privileges, source digests, the
30 s and 60 s limits of `close`, and two jobs of one uid in one service (a job's
answer and the removal of its directory are one step).

### CargoTasks

`manifest`, `cas`, `tree`, `out`, `goal` and `lock` are the target directory and
the kernel; `phase`, `state`, `scanned`, `pending`, `failed` and `pc` are a cargo's
own. `state[p][t]` is `task.state.manifest`.

- `Start`, `Scan`, `ScanDone`: the head of `run`. `Launch`, `Result`, `ResultErr`,
  `Finish`: its loop. The loop launches while it can before it receives a result.
- `Fresh`, `Lock`, `RecheckHit`, `RecheckMiss`, `Clean`, `ClearTree`: `execute` up to
  the action.
- `OpenTree`, `StageTree`, `OpenDone`: `TaskContext.tree` of the stable trees the
  action opens, before its commands run. `Reads` are trees of dependencies. `Peeks`
  are trees that `taskEnv` opens without a dependency: it asks for the script of
  every dependency of the package, while `buildScriptRunTask` only waits for those
  with a `links` key. Such a tree may be empty or half written; nothing in it is
  promised to the script, but opening it may put an empty tree at its path.
- `Act`, `ActOk`, `ActFail`, `ActDry`: the commands write some, then all of their
  files, or fail. `runCommandTo` only prints in a dry run, but `TaskContext.output`
  has already made the tree.
- `StoreFile`, `WriteManifest`, `RemoveTmp`, `Close`: the rest of `execute`.
- `Crash` takes the commands with the cargo. When a cargo ends, killed or not, the
  kernel drops the flocks it has (`Dropped`). `RemoveTrees`: `out/` is removed
  between builds, as `build_test.go` does.

Left out: how a UID is computed (a task is its UID), `after` (messages and the
parsing of what a script printed), trees that are not stable (private copies in
`tmp`), orphan commands of a killed cargo.

### CargoInstall

`data` and `mode` belong to inodes, which are numbered as they are created; `cas` and `dest` are directories that map a
name to an inode, so a link makes two names share both. `storeFile` is three steps,
the look for the blob, the rename of the copy, the chmod; the copy itself has a
private name. `install` is one step per system call, except that the two opens before
the copy are one step; no property depends on the gap, as the first open changes
nothing and a blob's name is not removed. `Again` is the next build of
the same cargo.

### TokenStreams and TokenValues

`slots`, `len` and `free` are `SLOTS` and `FREE`; `var` are the variables of a macro,
`held` the trees of an iterator it has, `ext` the `extend` in progress and `drops`
the handles whose drop is under way. A handle is an index, 0 the empty stream; a
tree is a leaf or a group that holds a handle.

- `From`, `Receive`, `Clone`, `Drop`, `Wrap`, `Iterate`, `Open`, `Discard`,
  `Collect`: what a macro does with streams. The old stream of an assigned variable
  is dropped by `DropHandle`, one handle at a time, before anything else goes on,
  as the nested `Drop` calls do. A token or an empty group has nothing to drop
  (`DropNothing`).
- `ExtendStream`, `ExtendTrees`, then `TreesMut`, `Push`, `PullNext`, `PullEnd`:
  `Extend` calls the macro's iterator between two pushes, so each tree is a step, and
  the iterator may allocate (`Produce`). `stale` says that `SLOTS` has moved under
  the reference that `trees_mut` returned.
- `hidden` and `fragment` are what the compiler noted about a stream and a group it
  sent; a change of the stream and being handed the group take them away.

`TokenValues` has the same operations on values: no handles, slots or counts.
`StreamsAreValues` maps a handle to the tree of values behind it.

Left out: spans, spellings, `Display`, `FREE` as a stack (an index is only a name,
and the lowest free one stands for all).

### MacroBridge

`cc` is the compiler with the invocation in progress, `host[h]` the process of a
macro crate, `stdin` and `stdout` its pipes, which block a writer when full. A frame
is one item of the protocol. `inv`, the invocation a frame belongs to, is not on the
wire; no guard reads it, so that properties can say whose frame was used.

- `Begin`, `Send`, `CheckGood`, `CheckPanicked`, `GetToken`: `ProcMacroInvoke` with
  the members of `ProcMacroInv` it calls. `Abort` is `abort()` by `BUG` or `ERROR`.
- `Stop`, `Waited`, `Exit`: the end of the expansion. `Destroy` is the destructor of
  an invocation whose stream was not read to its end.
- `ReadRequest`, `ReportFound`, `Recv`, `RunMacro`, `SendToken`, `SendPanic`: `main` and
  `run` of the library. A panic while the input is read is caught and answered like
  one of the macro; one while the answer is written ends the host.
- `Die`, `Fault` and `ParseError` are external: a host is killed wherever it is, between
  two invocations too; a system call fails; the parser does not like what the macro
  made.

Assumed: a call is of the kind of its macro (one stream or two), as name resolution
makes it; no macro prints to stdout, which is the pipe; the reader of an expansion
takes it to the end or aborts before the next invocation of that host, as every
caller of `ProcMacroInvoke` does. Left out: bytes of a token, spans, hygiene.

## 3. Runs

| run | instance | states | shows |
|---|---|---|---|
| `cache_shared` | 2 invocations | 101 173 | a result appears whole, in one step, and is not replaced, whoever is killed (refinement of `ResultCache`); everyone ends |
| `cache_traced` | a plain invocation started twice and a traced one, `--clear` at will | 999 626 | nothing a kill leaves behind gets into the cache or a command's inputs; a half-cleared cache is noticed before it is used; exit 0 means cached, and a lone invocation only fails with a command; a valid result is not replaced |
| `cache_unlink_race` | 2 invocations | violation | finding 1 |
| `sched_loop` | diamond of 5, 1 job, 2 hosts, 2 drops, with and without `-k` | 20 172 | slots, order, accounting, completeness, termination |
| `dist_drop` | 2 nodes sharing an input, 2 connections | 232 195 | results after blobs, no lost wakeup, everyone ends; over the first connection also jobs after their blobs, no blob twice, no failure but a command's |
| `cargo_jobs` | 2 cargos with 2 jobs, 3 tasks | 267 788 | neither cargo waits for ever for the other's flocks, whoever fails or is killed; the loop accounts for every task; exit 0 means cached |
| `cargo_shared` | 2 cargos and a dry run, 2 tasks | 391 112 | the target directory only grows, by whole results, one run per task (refinement of `ResultCache`); trees stable under their readers |
| `install_twice` | 2 cargos, 2 builds each, 2 outputs sharing a blob | 1 532 754 | while one cargo is alone: artifacts as stored, the CAS untouched |
| `install_together` | 2 cargos, 1 artifact | violation | finding 2 |
| `stream_values` | 2 variables, 3 slots, 2 tokens, 4 trees | 236 829 | counts are exact, and a macro cannot tell streams from values (refinement of `TokenValues`) |
| `stream_lazy` | the same with 1 token, and an iterator that may make `SLOTS` grow | violation | finding 3 |
| `macro_bridge` | 2 hosts, 3 invocations, streams of 1 and 2 tokens, pipes of 2 frames, hosts that die anywhere | 569 141 | inputs and answers are whole and nobody else's; hosts are started once; the reason given is the cause; compiler and hosts end |

Several properties hold only while an invocation is alone, before a dry run, or
over the first connection (`Alone`, `NoDryRun`, `dialled = 1` in their definitions).
The findings and the interleavings in section 5 show what happens otherwise.

Bounds. *Cache*: two nodes in a chain are a dependency and a consumer, the only
relation `_execute` looks at; node `a` may leave two different results, so that a
mixture of two runs can be told from either; `a` and `b` share a blob, so they
meet in the CAS. Two invocations race on every step; in `cache_traced`
the plain invocation can fill the cache, the traced one die half way through
`--clear`, and the plain one find what is left. *Scheduler*: the diamond has a node with two
dependencies, a dependency with two consumers, a local node and a join two levels
up; one job and one host core make every slot contended. *Distribution*: one shared input
makes the second job depend on the first one's claim; two connections are the old
and the new one. *cargo*: a script whose two runs differ and a crate that reads its
tree are all that the stable trees are about. In `cargo_jobs` a second script, which
needs nothing, runs beside the first and opens its tree, so that a cargo holds one
flock while it waits for another: with `Close` on success only, two cargos that drain
after a failure wait for each other's task for ever, and TLC shows it. Each cargo starts
once there; a restart is the second cargo started after the first, with the same tasks. *Installation*: two outputs of equal content and
different mode share a blob; a second build finds the first one's links; two
cargos on one path take every branch of `install`. *Streams*: two variables share or
do not; three slots hold a stream, the group it is in and a copy; `FewTrees` bounds
what a macro builds, and four trees are a group of a group with a sibling. *Bridge*:
three invocations of two hosts are a first, a second of the same host, and one with
the other host running; two streams make an attribute; a pipe of two frames is full
before a request or a longest answer is written.
`MaxStarts`, `MaxLosses`, `MaxConns` and `Rounds` bound the counters; the
last connection never drops, as liveness needs a link that holds in the end. A
system that has done its work stops, so deadlock is not checked.

Fairness. `BuildCache!FairSpec`: weak fairness of each invocation's main thread
and of each node's thread. The operating system schedules threads; a command is
assumed to end; a blocked `flock` is retried by the kernel, and weak fairness is
enough because each node is locked at most once per start. Nothing is assumed of
`Start` and `Crash`. `BuildScheduler!FairSpec`: the main thread, and the
completion of each future; nothing of the hosts, so the loop ends with hosts that
never come up. `CargoTasks!FairSpec`: the loop and the goroutines of each cargo; not
`Start`, `Crash` or `RemoveTrees`. A cargo that waits for a flock gets it under weak
fairness for the same reason: the others ask for it a bounded number of times. `DistSession!FairSpec`: every thread, reader, service and job; not
`Break`. `MacroBridge!Spec`: the compiler, and each host, which is an ordinary process;
a macro is assumed to return. Nothing is assumed of `Die`, `Fault` and `ParseError`. The
number of invocations is bounded by the program being compiled. `AllEnd` leaves out
one case, a host that refuses its input half way (section 5).

Refinements. `StreamsAreValues` and the two `ImplementsResultCache` are the abstract
specification under a mapping, checked by TLC as a property of the detailed one;
those of `BuildCache` and `CargoTasks` are also proved (section 4).

## 4. Proofs

TLAPS checks the theorems for every value of the constants that satisfies the
assumptions of the modules. They only give the constants their types and keep null
values apart from real ones; sets that the code counts are finite, there is at least
one job slot, and a pipe holds at least one frame. One assumption says more, that the
scheduler's graph is acyclic (`AcyclicAssumption`): `src/build` refuses a "build graph
cycle at" and a "UID dependency cycle at" before `_run`. Graphs of the cache and of
cargo may be cyclic.

Each `...Proofs` module has one inductive invariant, a lemma that `Init` implies it,
lemmas that the steps keep it (one step per action, under it one per conjunct the
action can disturb), the theorem that it holds throughout, and then one short theorem
per property. The invariants, and why they are needed:

**BuildCache.** `StoredIsComplete`, `InputsComplete` and `ManifestSound` are not
inductive. `CacheInv` adds:

- `LockInv`: a thread past `flock` holds it. Two threads of one node are therefore
  never in its work directory together, so a step of one leaves what the others
  say of their directories alone.
- `PhaseInv`: threads past submission belong to an invocation in its run, and a
  clearing invocation is the only active one. This is what rules out a CAS that
  shrinks under a restored input.
- `ScanInv`: once scanned, a manifest is absent or all its blobs exist. Without the
  scan, the manifests a killed `--clear` leaves would make `InputsComplete` false;
  the proof shows that the scan alone is enough.
- `OutInv`: from `_remove_contents` to `_store` the outputs come from the run in
  progress, and what is linked is part of them and in the CAS.
- `InpInv`: the dependencies restored so far are complete.

`SuccessIsCached` and `LoneFailureHasCause` need `LoneInv` besides: threads only run
after the scan (`IdleInv`), a node after its dependencies (`DepsInv`), and for an
invocation that is alone (`LoneAt`) what it found or built is valid and what it is
about to unlink is not there. That last part is the one that finding 1 breaks when
there are two. `MoverStarted` shows that whoever moves was started, so that an
invocation that is still alone after a step took it itself.

`BuildCacheRefinement` proves `ImplementsResultCache` and `ValidKept`. `StepKinds`
sorts the steps: all but two kinds only take manifests or blobs away and map to
`Forget`. `StorePath` is a stutter, because `ScanInv` leaves no manifest that the new
blob could complete. `WriteManifest` is `Store`, with the whole product by `OutInv`.
That nothing was there before needs one more invariant, `MissInv`: from the second
`_cached` to the store a plain invocation's node has no manifest, since only a holder
of its flock writes one.

**BuildScheduler.** `SchedInv` says what the counters stand for: `remaining[u]` is
the number of dependencies that are not accounted for (`CountInv`), where a failed
node counts as accounted for under `-k`; what is settled was settled after its
dependencies (`SettledInv`); every consumer of such a failure is in `blocked`
(`BlockInv`), which is why a counter that reaches 0 lets nobody through; a node
whose dependencies are built is queued, in flight or settled (`QueueInv`).
`AllPossibleBuilt` follows by the least node, in the order of the graph, that is not
built.

**DistSession.** `DistInv` has two halves. The first holds of any number of
connections: what goes over one before its reader runs (`HaveInv`), with which
connection a thread is registered (`ThreadInv`, the heart of `NoLostWakeup`: a lost
connection is dropped and its pending replies answered in one critical section), that
a result is behind its blobs in the pipe (`ResultInv`). The second, `FirstInv`, holds
until a second connection is dialled: the ledger `sent` is what the host has, what is
in flight and what the holder of the write lock has claimed (`LedgerInv`), so a job is
behind its inputs (`JobsInv`), is never answered `missing` and keeps its directory
(`AnswersInv`), and no blob crosses twice (`OnceInv`). Section 5 says what a second
connection does to it.

**CargoTasks.** `CargoInv` has the parts of `CacheInv` and `MissInv` for cargo's
executor, and two of its own. `OrderInv`: the scan goes along the dependencies, so
that every part of what it has covered has a task without dependencies in it. This
takes the place of an assumption that the graph is acyclic, which no line of
`tasks.go` checks: a cargo on a cyclic graph never leaves its scan. With `CountInv` it
gives `NoGraphDeadlock`. `TreeInv`: without dry runs the tree of a stored script is as
stored, or absent and found in the cache by every active cargo's scan, which therefore
puts it back before it reads it. The refinement of `ResultCache` is proved with
neither `Forgetting` nor `Replacing`.

**CargoInstall.** `InstallInv`: for any number of cargos, outputs are stored before
the first artifact is installed and artifacts are installed one at a time (`TurnInv`),
so the descriptors are those of the artifact being copied (`FileInv`). For a cargo that
is alone (`FreshInv`), nothing is at a destination from `os.Remove` to the link or the
create, and a created inode has no second name until it is done; so truncation, copy
and chmod reach no blob. `ArtifactsAreAsStored` has a hypothesis, `OnePerPlace`: two
outputs given one path are alike. The code does not check it (two programs of one name
would be installed over each other); that the CAS stays intact does not depend on it.

**MacroBridge.** `BridgeInv` says, for the host the compiler is talking to, which of
eleven phases the invocation is in and what both pipes hold in each (`Phase`); in three
of them (`Lost`, `Died`, `Sent`) the host may be gone, before the first frame of its
answer, inside it, or after it. Every other host that is open waits for a request or
has died, with both pipes empty (`QuietInv`), which is why what an invocation leaves behind cannot meet the next one. The proof covers any
number of crates and invocations, any stream length and any capacity of the pipes.

**TokenStreams.** The proof is one of counting. `References(h)` is a sum of five
cardinalities: the variables that hold `h`, and the places of `h` in the trees in
hand, in those of `extend`, in the drops under way and in the slots. The lemmas first
say what concatenation, an assignment and a change of one slot do to these numbers,
then what allocating, cloning, writing, releasing and freeing do to a store that is
`Sound` (the slots without handles are empty, and are the free and the unused ones).
For each action it then remains to show that it is `Balanced`: a slot gets as many
counts as handles. `StreamInv` keeps an inequality, `References(h) <=
slots[h].handles`, because a push through a stale reference (finding 3) loses the
handles of what it pushes and not their counts: as far as the store goes (what the
write does to the memory that `SLOTS` left is outside the model) nothing is freed in
use even then, and `StreamTypeCorrect` has no hypothesis. `CountsAreExact` needs that no iterator
makes `SLOTS` grow, as the run `stream_values` does; then `stale` is never true, and
the inequality is an equation.

Only model-checked: the liveness properties (`BuildEnds`, `LoopTerminates`,
`EveryNodeEnds`, `CargoEnds`, `AllEnd`), which are beyond this prover, and
`StreamsAreValues`: it compares values that are unfolded by recursion over the store,
and what they are after a step needs induction over data.

## 5. Findings

1. `src/build:3073`. `_cached` reads a manifest without the node's lock and unlinks
   the path in a second step. Another invocation may store a valid manifest in
   between; it then loses it, and `_restore` of that dependency fails the build
   although every command succeeded. `--cache-dir` offers a "shared CAS/UID root".
2. `src/bin/cargo/tasks.go:636`. Two cargos that install the same path: when the
   link of one is there before that of the other, the other's fallback truncates
   the path, and with it the blob it is a link to. Later builds only check that the
   blob exists.
3. `src/lib/proc_macro/src/lib.rs:307`. `Extend<TokenTree>` holds a reference into the
   elements of `SLOTS` while it runs the macro's iterator. An iterator that builds a
   group allocates a stream; if `SLOTS` grows for it, the next tree is written through
   a reference to freed memory. The comment on these references says they are safe
   because a macro runs on one thread; one thread is enough.

More interleavings came up that have no run of their own. Where a definition is
named, checking it shows them:

- `src/build:2753`. Under `-k` a node broken by a dependency blocks its direct
  consumers only and is never accounted for. A root three consumers above the
  failure is in neither `errors` nor `blocked`, and the report says that 0
  requested targets are broken (`BrokenRootsReported` with `Deps <- Chain`).
- `src/build:2243`. The service of a dropped connection removes the session's
  `tmp` while the service of the next one runs jobs there. Such a node fails
  instead of going "back to the queue" (`FailureIsReal` in the instance of
  `dist_drop`).
- `src/bin/cargo/tasks.go:246`. A dry run removes the `OUT_DIR` of a build script
  that is in the cache and leaves an empty directory in its place. The next build
  does not run the script and uses the empty directory, because `stableTree` only
  asks whether it exists (`TreeOrNothing` in the instance of `cargo_shared`).
- `src/lib/proc_macro/src/protocol.rs:80`. A host that refuses a character literal
  answers at once and takes the rest of the input for requests. If a token of it is
  the name of a macro, that macro runs, and when its answer fills the pipe while the
  compiler is still writing, each waits for the other (`AllEnd` without its
  `"refused"` and with `MaxIn = 2`).
- `src/build:2582`. A thread that holds a dropped connection claims blobs in the
  ledger of the next one and takes the claim back after releasing the write lock.
  A job claimed in between goes over without its blobs (drop `dialled = 1` from
  `JobFollowsItsBlobs`). The `missing` reply repairs it.
- `src/build:2829`. A traced invocation decides at its scan whether to store a
  node and does not look again under the flock, so it may replace a result stored
  since. `ValidKept` states this exception.
- `src/bin/cargo/tasks.go:402`. Two tasks that store the same content, one of them
  as an executable: the rename of the plain copy may replace the blob after its
  chmod, so the stored executable has lost its mode (in `CargoInstall`, `mode` of
  the blob of `bin` once all is stored).

## 6. Not modelled

- rustc itself: its state is the program being compiled, which no small instance
  represents. What it does with other processes is in `MacroBridge`.
- The resolver, semver, features and cfg of cargo, the UIDs and the include scanner
  of the engine: sequential functions of large inputs, tested by examples next to
  them. They share no state; a model would repeat them.
- The cargo commands, the strace checker, the lexer and literals of proc_macro, tests
  and scripts: input and output, character by character.
- libstd: the platform library, kept in `ext/`.
- Hazards that no property covers because the model assumes them away: the stream of an
  expansion dropped unread while the compilation goes on (`expand_proc_macro.cpp:632`).
  Those of section 5 happen, and the properties are stated without them: the service of
  an old connection (`src/build:2243`), the input a host refuses (`protocol.rs:80`).
- `DistSession`: two jobs of one uid in one service, the limits of `close`.
- Hazards that are outside the models: `--clear` beside another invocation
  (`src/build:3411` removes the lock files it holds); the sender thread of a service,
  which ends at any `OSError` (`src/build:2169`); the mode of a file installed earlier
  when its blob is made executable (`tasks.go:411`); a macro that prints to the pipe of
  the protocol (`lib.rs:392`); `put_bytes`, which does not look at how much was written
  (`protocol.rs:275`).

Of the Rust in the repository, nearly 600 000 lines, all but about 3000 are test
programs for the compiler (`src/tst`) and sources of other projects; the 3000
(`src/lib/proc_macro/src`) are the library that `TokenStreams` and `MacroBridge`
model. The engine, cargo and the compiler are Python, Go and C++. The share of the
Rust lines that the models cover is therefore small and will stay so.

## 7. Plan

1. Done: `BuildCache`, `BuildScheduler`, `DistSession`, `CargoTasks`, `CargoInstall`,
   `TokenStreams`, `MacroBridge`; `ResultCache` and `TokenValues` with their
   refinements; proofs of all state properties, of `ValidKept` and of both
   refinements of `ResultCache`.
2. Left to TLC: the liveness properties and the refinement of `TokenValues`
   (section 4).
