----------------------------- MODULE CargoTasks -----------------------------
(***************************************************************************)
(* The task executor of cargo (src/bin/cargo/tasks.go): the loop that      *)
(* launches tasks, TaskExecutor.execute with its cache under the target    *)
(* directory, and the stable trees (a build script's OUT_DIR), which are   *)
(* written in place and read without a lock.  Several cargos share one     *)
(* target directory; each may be killed between any two steps.             *)
(*                                                                         *)
(* A task's UID is fixed by the scan, so tasks stand for their UIDs.  A    *)
(* blob is named by its content, a manifest is the set of blobs it names,  *)
(* and what a stable task leaves is all in its tree.                       *)
(***************************************************************************)
EXTENDS Integers, FiniteSets

CONSTANTS
  Proc,       \* cargos on one target directory
  Task,       \* uniqueTasks(roots)
  Blob,       \* CAS blobs
  Deps,       \* Deps[t]: Task.deps
  Stable,     \* tasks with a stable tree output: build script runs
  Reads,      \* Reads[t]: trees t's action uses, all of them dependencies
  Peeks,      \* Peeks[t]: trees it opens (taskEnv) without depending on them
  Products,   \* Products[t]: what one complete run of t's action may leave
  Jobs,       \* -j
  Dry,        \* cargos given -Zdry-run
  MaxStarts,  \* bound: MaxStarts[p]: how often p is started
  Absent,     \* no manifest, no tree
  Free        \* nobody holds the flock

ASSUME TaskAssumption ==
  /\ IsFiniteSet(Task)
  /\ Deps \in [Task -> SUBSET Task]
  /\ Stable \subseteq Task
  /\ Reads \in [Task -> SUBSET Stable]
  /\ Peeks \in [Task -> SUBSET Stable]
  /\ \A t \in Task : Reads[t] \subseteq Deps[t]
  /\ Products \in [Task -> SUBSET SUBSET Blob]
ASSUME CargoAssumption ==
  /\ Jobs \in Nat \ {0}
  /\ Dry \subseteq Proc
  /\ MaxStarts \in [Proc -> Nat]
  /\ \A s \in SUBSET Blob : s # Absent
  /\ Free \notin Proc

VARIABLES
  manifest,  \* uid/: the manifest of each task, or Absent
  cas,       \* cas/: the blobs present
  tree,      \* out/<uid>: the files in a stable tree, or Absent
  out,       \* tmp/<uid>/out: the output files present
  goal,      \* the files the action will have written
  lock,      \* tmp/<uid>.lock
  phase,     \* where each cargo stands in runTasks
  state,     \* state[p][t]: task.state.manifest
  scanned,   \* tasks whose state the head of run has set
  pending,   \* the local `pending` of run
  failed,    \* the local `failed`
  pc,        \* where each task's goroutine stands in execute
  todo,      \* the trees its action has still to open
  linked,    \* storeOutputs: blobs already in the CAS
  starts     \* how often each cargo was started

files == <<tree, out, goal>>
disk == <<manifest, cas, files>>
loop == <<pending, failed>>
vars == <<disk, lock, phase, state, scanned, loop, pc, todo, linked, starts>>

-----------------------------------------------------------------------------

Dependents(t) == {u \in Task : t \in Deps[u]}

\* taskPriorities: a task and everything that waits for it, directly or not.
Waiting[t \in Task] == UNION {{u} \cup Waiting[u] : u \in Dependents(t)}
Priority(t) == 1 + Cardinality(Waiting[t])

\* loadManifest: it parses and every blob it names is there.
Valid(t) == manifest[t] # Absent /\ manifest[t] \subseteq cas

Opens(t) == Reads[t] \cup Peeks[t]
Held(s) == IF s = Absent THEN {} ELSE s

\* Where task t leaves its files: TaskContext.output.
Output(t) == IF t \in Stable THEN Held(tree[t]) ELSE out[t]

Idle == {"wait", "done", "failed"}
Running(p) == {t \in Task : pc[p][t] \notin Idle}
Ready(p) == {t \in Task : pc[p][t] = "wait" /\ pending[p][t] = 0}
Completed(p) == {t \in Task : pc[p][t] \in {"done", "failed"}}
Active(p) == phase[p] \in {"scan", "run"}
Goto(p, t, to) == pc' = [pc EXCEPT ![p][t] = to]

\* When a process ends the kernel drops the flocks it has.
Dropped(p) == [t \in Task |-> IF lock[t] = p THEN Free ELSE lock[t]]

Init ==
  /\ manifest = [t \in Task |-> Absent]
  /\ cas = {}
  /\ tree = [t \in Task |-> Absent]
  /\ out = [t \in Task |-> {}]
  /\ goal = [t \in Task |-> {}]
  /\ lock = [t \in Task |-> Free]
  /\ phase = [p \in Proc |-> "off"]
  /\ state = [p \in Proc |-> [t \in Task |-> Absent]]
  /\ scanned = [p \in Proc |-> {}]
  /\ pending = [p \in Proc |-> [t \in Task |-> 0]]
  /\ failed = [p \in Proc |-> FALSE]
  /\ pc = [p \in Proc |-> [t \in Task |-> "wait"]]
  /\ todo = [p \in Proc |-> [t \in Task |-> {}]]
  /\ linked = [p \in Proc |-> [t \in Task |-> {}]]
  /\ starts = [p \in Proc |-> 0]

-----------------------------------------------------------------------------
(* TaskExecutor.run.                                                       *)

Start(p) ==
  /\ ~Active(p)
  /\ starts[p] < MaxStarts[p]
  /\ starts' = [starts EXCEPT ![p] = @ + 1]
  /\ phase' = [phase EXCEPT ![p] = "scan"]
  /\ scanned' = [scanned EXCEPT ![p] = {}]
  /\ state' = [state EXCEPT ![p] = [t \in Task |-> Absent]]
  /\ pending' = [pending EXCEPT ![p] = [t \in Task |-> Cardinality(Deps[t])]]
  /\ failed' = [failed EXCEPT ![p] = FALSE]
  /\ pc' = [pc EXCEPT ![p] = [t \in Task |-> "wait"]]
  /\ todo' = [todo EXCEPT ![p] = [t \in Task |-> {}]]
  /\ linked' = [linked EXCEPT ![p] = [t \in Task |-> {}]]
  /\ UNCHANGED <<disk, lock>>

\* The UID needs those of the dependencies, so they come first.  A dry run
\* does not look into the cache.
Scan(p, t) ==
  /\ phase[p] = "scan"
  /\ t \notin scanned[p]
  /\ Deps[t] \subseteq scanned[p]
  /\ scanned' = [scanned EXCEPT ![p] = @ \cup {t}]
  /\ state' = [state EXCEPT ![p][t] = IF p \notin Dry /\ Valid(t)
                                      THEN manifest[t] ELSE Absent]
  /\ UNCHANGED <<disk, lock, phase, loop, pc, todo, linked, starts>>

ScanDone(p) ==
  /\ phase[p] = "scan"
  /\ scanned[p] = Task
  /\ phase' = [phase EXCEPT ![p] = "run"]
  /\ UNCHANGED <<disk, lock, state, scanned, loop, pc, todo, linked, starts>>

CanLaunch(p) ==
  /\ phase[p] = "run"
  /\ ~failed[p]
  /\ Cardinality(Running(p)) < Jobs
  /\ Ready(p) # {}

\* Among the ready tasks, one that most others wait for.
Launch(p, t) ==
  /\ CanLaunch(p)
  /\ t \in Ready(p)
  /\ \A u \in Ready(p) : Priority(u) <= Priority(t)
  /\ Goto(p, t, "start")
  /\ UNCHANGED <<disk, lock, phase, state, scanned, loop, todo, linked, starts>>

\* Mutant: the dependents are counted down twice.
Result_CountsTwice(p, t) ==
  /\ phase[p] = "run"
  /\ ~CanLaunch(p)
  /\ pc[p][t] = "sent"
  /\ Goto(p, t, "done")
  /\ pending' = [pending EXCEPT ![p] = [u \in Task |->
                   IF u \in Dependents(t) THEN @[u] - 2 ELSE @[u]]]
  /\ UNCHANGED <<disk, lock, phase, state, scanned, failed, todo, linked, starts>>

\* result := <-results, without and with an error.
Result(p, t) ==
  /\ phase[p] = "run"
  /\ ~CanLaunch(p)
  /\ pc[p][t] = "sent"
  /\ Goto(p, t, "done")
  /\ pending' = [pending EXCEPT ![p] = [u \in Task |->
                   IF u \in Dependents(t) THEN @[u] - 1 ELSE @[u]]]
  /\ UNCHANGED <<disk, lock, phase, state, scanned, failed, todo, linked, starts>>

\* Mutant: the error is remembered, `failed` is not set.
ResultErr_NotFailed(p, t) ==
  /\ phase[p] = "run"
  /\ ~CanLaunch(p)
  /\ pc[p][t] = "sentErr"
  /\ Goto(p, t, "failed")
  /\ UNCHANGED <<disk, lock, phase, state, scanned, loop, todo, linked, starts>>

ResultErr(p, t) ==
  /\ phase[p] = "run"
  /\ ~CanLaunch(p)
  /\ pc[p][t] = "sentErr"
  /\ Goto(p, t, "failed")
  /\ failed' = [failed EXCEPT ![p] = TRUE]
  /\ UNCHANGED <<disk, lock, phase, state, scanned, pending, todo, linked, starts>>

\* Mutant: the first error is not thrown at the end.
Finish_ForgetsError(p) ==
  /\ phase[p] = "run"
  /\ Running(p) = {}
  /\ Completed(p) = Task \/ failed[p]
  /\ phase' = [phase EXCEPT ![p] = "ok"]
  /\ lock' = Dropped(p)
  /\ UNCHANGED <<disk, state, scanned, loop, pc, todo, linked, starts>>

\* The loop ends with every task completed, or drained after a failure.  (The
\* loop after it, for results still to come, finds none.)  The cargo exits.
Finish(p) ==
  /\ phase[p] = "run"
  /\ Running(p) = {}
  /\ Completed(p) = Task \/ failed[p]
  /\ phase' = [phase EXCEPT ![p] = IF failed[p] THEN "failed" ELSE "ok"]
  /\ lock' = Dropped(p)
  /\ UNCHANGED <<disk, state, scanned, loop, pc, todo, linked, starts>>

-----------------------------------------------------------------------------
(* TaskExecutor.execute.                                                   *)

Fresh(p, t) ==
  /\ pc[p][t] = "start"
  /\ p \notin Dry /\ state[p][t] # Absent
  /\ Goto(p, t, "sent")
  /\ UNCHANGED <<disk, lock, phase, state, scanned, loop, todo, linked, starts>>

Lock(p, t) ==
  /\ pc[p][t] = "start"
  /\ p \in Dry \/ state[p][t] = Absent
  /\ lock[t] = Free
  /\ lock' = [lock EXCEPT ![t] = p]
  /\ Goto(p, t, IF p \in Dry THEN "clean" ELSE "recheck")
  /\ UNCHANGED <<disk, phase, state, scanned, loop, todo, linked, starts>>

\* Mutant: the manifest is not looked for again under the lock.
RecheckMiss_Always(p, t) ==
  /\ pc[p][t] = "recheck"
  /\ Goto(p, t, "clean")
  /\ UNCHANGED <<disk, lock, phase, state, scanned, loop, todo, linked, starts>>

\* Another cargo may have stored the task while this one waited.
RecheckHit(p, t) ==
  /\ pc[p][t] = "recheck"
  /\ Valid(t)
  /\ state' = [state EXCEPT ![p][t] = manifest[t]]
  /\ Goto(p, t, "close")
  /\ UNCHANGED <<disk, lock, phase, scanned, loop, todo, linked, starts>>

RecheckMiss(p, t) ==
  /\ pc[p][t] = "recheck"
  /\ ~Valid(t)
  /\ Goto(p, t, "clean")
  /\ UNCHANGED <<disk, lock, phase, state, scanned, loop, todo, linked, starts>>

\* RemoveAll(tmp), MkdirAll ...
Clean(p, t) ==
  /\ pc[p][t] = "clean"
  /\ out' = [out EXCEPT ![t] = {}]
  /\ goal' = [goal EXCEPT ![t] = {}]
  /\ Goto(p, t, "clear")
  /\ UNCHANGED <<manifest, cas, tree, lock, phase, state, scanned, loop, todo,
                 linked, starts>>

\* ... and the stable trees of the last run go, in a dry run too.
ClearTree(p, t) ==
  /\ pc[p][t] = "clear"
  /\ tree' = [tree EXCEPT ![t] = Absent]
  /\ todo' = [todo EXCEPT ![p][t] = Opens(t)]
  /\ linked' = [linked EXCEPT ![p][t] = {}]
  /\ Goto(p, t, "open")
  /\ UNCHANGED <<manifest, cas, out, goal, lock, phase, state, scanned, loop,
                 starts>>

\* stableTree: a tree that is there is used as it is ...
OpenTree(p, t, d) ==
  /\ pc[p][t] = "open"
  /\ d = CHOOSE e \in todo[p][t] : TRUE
  /\ IF tree[d] # Absent
     THEN /\ todo' = [todo EXCEPT ![p][t] = @ \ {d}]
          /\ UNCHANGED pc
     ELSE /\ Goto(p, t, "stage")
          /\ UNCHANGED todo
  /\ UNCHANGED <<disk, lock, phase, state, scanned, loop, linked, starts>>

\* Mutant: the tree is filled in place, and the fill stops half way.
StageTree_InPlace(p, t, d) ==
  /\ pc[p][t] = "stage"
  /\ d = CHOOSE e \in todo[p][t] : TRUE
  /\ tree' = [tree EXCEPT ![d] = {}]
  /\ todo' = [todo EXCEPT ![p][t] = @ \ {d}]
  /\ Goto(p, t, "open")
  /\ UNCHANGED <<manifest, cas, out, goal, lock, phase, state, scanned, loop,
                 linked, starts>>

\* ... else filled from task.state.manifest in a staging directory, and
\* renamed; a tree that has appeared by now stays, unless it is empty.
StageTree(p, t, d) ==
  /\ pc[p][t] = "stage"
  /\ d = CHOOSE e \in todo[p][t] : TRUE
  /\ tree' = [tree EXCEPT ![d] = IF @ \in {Absent, {}} THEN Held(state[p][d])
                                                       ELSE @]
  /\ todo' = [todo EXCEPT ![p][t] = @ \ {d}]
  /\ Goto(p, t, "open")
  /\ UNCHANGED <<manifest, cas, out, goal, lock, phase, state, scanned, loop,
                 linked, starts>>

OpenDone(p, t) ==
  /\ pc[p][t] = "open"
  /\ todo[p][t] = {}
  /\ Goto(p, t, "act")
  /\ UNCHANGED <<disk, lock, phase, state, scanned, loop, todo, linked, starts>>

\* TaskContext.output makes the tree before anything is written to it.
Writes(t, part) ==
  IF t \in Stable
  THEN tree' = [tree EXCEPT ![t] = Held(@) \cup part] /\ UNCHANGED out
  ELSE out' = [out EXCEPT ![t] = @ \cup part] /\ UNCHANGED tree

\* The action's commands have written some of their files ...
Act(p, t) ==
  /\ pc[p][t] = "act"
  /\ p \notin Dry
  /\ \E product \in Products[t] : \E part \in SUBSET product :
       /\ goal' = [goal EXCEPT ![t] = product]
       /\ Writes(t, part)
  /\ Goto(p, t, "acting")
  /\ UNCHANGED <<manifest, cas, lock, phase, state, scanned, loop, todo,
                 linked, starts>>

\* ... and all of them ...
ActOk(p, t) ==
  /\ pc[p][t] = "acting"
  /\ Writes(t, goal[t])
  /\ Goto(p, t, "store")
  /\ UNCHANGED <<manifest, cas, goal, lock, phase, state, scanned, loop, todo,
                 linked, starts>>

\* ... or one fails.  tmp stays as it is.
ActFail(p, t) ==
  /\ pc[p][t] = "acting"
  /\ Goto(p, t, "closeErr")
  /\ UNCHANGED <<disk, lock, phase, state, scanned, loop, todo, linked, starts>>

\* A dry run only prints the commands; nothing is stored.
ActDry(p, t) ==
  /\ pc[p][t] = "act"
  /\ p \in Dry
  /\ Writes(t, {})
  /\ state' = [state EXCEPT ![p][t] = {}]
  /\ Goto(p, t, "finish")
  /\ UNCHANGED <<manifest, cas, goal, lock, phase, scanned, loop, todo, linked,
                 starts>>

StoreFile(p, t, b) ==
  /\ pc[p][t] = "store"
  /\ b \in Output(t) \ linked[p][t]
  /\ cas' = cas \cup {b}
  /\ linked' = [linked EXCEPT ![p][t] = @ \cup {b}]
  /\ UNCHANGED <<manifest, files, lock, phase, state, scanned, loop, pc, todo,
                 starts>>

\* writeManifest renames a temporary file; then task.state has the result.
WriteManifest(p, t) ==
  /\ pc[p][t] = "store"
  /\ Output(t) \subseteq linked[p][t]
  /\ manifest' = [manifest EXCEPT ![t] = linked[p][t]]
  /\ state' = [state EXCEPT ![p][t] = linked[p][t]]
  /\ Goto(p, t, "finish")
  /\ UNCHANGED <<cas, files, lock, phase, scanned, loop, todo, linked, starts>>

\* RemoveAll(tmp).
RemoveTmp(p, t) ==
  /\ pc[p][t] = "finish"
  /\ out' = [out EXCEPT ![t] = {}]
  /\ goal' = [goal EXCEPT ![t] = {}]
  /\ Goto(p, t, "close")
  /\ UNCHANGED <<manifest, cas, tree, lock, phase, state, scanned, loop, todo,
                 linked, starts>>

\* Mutant: no deferred Close after an exception.
Close_OnSuccess(p, t) ==
  /\ pc[p][t] \in {"close", "closeErr"}
  /\ lock' = IF pc[p][t] = "close" THEN [lock EXCEPT ![t] = Free] ELSE lock
  /\ Goto(p, t, IF pc[p][t] = "close" THEN "sent" ELSE "sentErr")
  /\ UNCHANGED <<disk, phase, state, scanned, loop, todo, linked, starts>>

\* The deferred lock.Close(), and the result goes into the channel.
Close(p, t) ==
  /\ pc[p][t] \in {"close", "closeErr"}
  /\ lock' = [lock EXCEPT ![t] = Free]
  /\ Goto(p, t, IF pc[p][t] = "close" THEN "sent" ELSE "sentErr")
  /\ UNCHANGED <<disk, phase, state, scanned, loop, todo, linked, starts>>

-----------------------------------------------------------------------------
(* The environment.                                                        *)

\* The cargo and its commands are killed.
Crash(p) ==
  /\ Active(p)
  /\ phase' = [phase EXCEPT ![p] = "off"]
  /\ pc' = [pc EXCEPT ![p] = [t \in Task |-> "wait"]]
  /\ lock' = Dropped(p)
  /\ UNCHANGED <<disk, state, scanned, loop, todo, linked, starts>>

\* Somebody removes the stable trees while no cargo runs.
RemoveTrees ==
  /\ \A p \in Proc : ~Active(p)
  /\ tree # [t \in Task |-> Absent]
  /\ tree' = [t \in Task |-> Absent]
  /\ UNCHANGED <<manifest, cas, out, goal, lock, phase, state, scanned, loop,
                 pc, todo, linked, starts>>

LoopStep(p) ==
  \/ ScanDone(p) \/ Finish(p)
  \/ \E t \in Task : Scan(p, t) \/ Launch(p, t) \/ Result(p, t) \/ ResultErr(p, t)

TaskStep(p, t) ==
  \/ Fresh(p, t) \/ Lock(p, t) \/ RecheckHit(p, t) \/ RecheckMiss(p, t)
  \/ Clean(p, t) \/ ClearTree(p, t)
  \/ \E d \in todo[p][t] : OpenTree(p, t, d) \/ StageTree(p, t, d)
  \/ OpenDone(p, t)
  \/ Act(p, t) \/ ActOk(p, t) \/ ActFail(p, t) \/ ActDry(p, t)
  \/ \E b \in Blob : StoreFile(p, t, b)
  \/ WriteManifest(p, t) \/ RemoveTmp(p, t) \/ Close(p, t)

Next ==
  \/ \E p \in Proc : \/ Start(p) \/ LoopStep(p) \/ Crash(p)
                     \/ \E t \in Task : TaskStep(p, t)
  \/ RemoveTrees

Spec == Init /\ [][Next]_vars

\* Goroutines of a live cargo run and commands end; nothing forces a cargo to
\* be started or killed.
FairSpec ==
  /\ Spec
  /\ \A p \in Proc : WF_vars(LoopStep(p))
  /\ \A p \in Proc : \A t \in Task : WF_vars(TaskStep(p, t))

-----------------------------------------------------------------------------
(* Properties.                                                             *)

Pcs == Idle \cup {"start", "recheck", "clean", "clear", "open", "stage", "act",
                  "acting", "store", "finish", "close", "closeErr", "sent",
                  "sentErr"}

\* The target directory and the locals of run and execute stay in their types.
TypeOK ==
  /\ manifest \in [Task -> {Absent} \cup SUBSET Blob]
  /\ cas \subseteq Blob
  /\ tree \in [Task -> {Absent} \cup SUBSET Blob]
  /\ out \in [Task -> SUBSET Blob]
  /\ goal \in [Task -> SUBSET Blob]
  /\ lock \in [Task -> Proc \cup {Free}]
  /\ phase \in [Proc -> {"off", "scan", "run", "ok", "failed"}]
  /\ state \in [Proc -> [Task -> {Absent} \cup SUBSET Blob]]
  /\ scanned \in [Proc -> SUBSET Task]
  /\ pending \in [Proc -> [Task -> Nat]]
  /\ failed \in [Proc -> BOOLEAN]
  /\ pc \in [Proc -> [Task -> Pcs]]
  /\ todo \in [Proc -> [Task -> SUBSET Task]]
  /\ linked \in [Proc -> [Task -> SUBSET Blob]]
  /\ starts \in [Proc -> Nat]

\* A manifest is what one complete run of the task's action leaves, with all
\* its blobs in the CAS: nothing of a killed run gets in through tmp or
\* through a stable tree, which is written in place (execute, storeOutputs).
StoredIsComplete ==
  \A t \in Task : manifest[t] # Absent =>
    manifest[t] \in Products[t] /\ manifest[t] \subseteq cas

\* No dry run has been started on this target directory.
NoDryRun == \A p \in Dry : starts[p] = 0

\* While a task's action runs, every OUT_DIR it reads holds exactly what its
\* build script left, as task.state records it, although the tree is read
\* without the script task's lock ("A stable output lives at the same path for
\* the task that writes it and for every task that reads it").
TreeAsStored ==
  NoDryRun => \A p \in Proc, t \in Task : pc[p][t] \in {"act", "acting"} =>
    \A d \in Reads[t] : tree[d] # Absent /\ tree[d] = state[p][d]

\* Once a stable task is stored and nobody is writing it, its tree is complete
\* or not there: only then may stableTree use what it finds ("put back from the
\* cache first when the task that wrote it did not run in this build").  False
\* after a dry run: see README, section 5.
TreeOrNothing ==
  \A t \in Stable : manifest[t] # Absent /\ lock[t] = Free =>
    tree[t] \in {Absent, manifest[t]}

\* "build graph deadlock" is never thrown: while tasks are left and none has
\* failed, one runs or can be launched.
NoGraphDeadlock ==
  \A p \in Proc : phase[p] = "run" /\ ~failed[p] /\ Running(p) = {} =>
    Completed(p) = Task \/ CanLaunch(p)

\* What loadManifest finds for each task.
Found == [t \in Task |-> IF Valid(t) THEN manifest[t] ELSE Absent]

Results == INSTANCE ResultCache WITH
  Node <- Task, result <- Found, Forgetting <- FALSE, Replacing <- FALSE

\* The target directory is a cache of whole results that only grows: a task is
\* stored in one step, once, after the tasks it was made from, and stays, however
\* many cargos run and wherever they are killed ("task action ran %d times, want
\* one").
ImplementsResultCache == Results!Spec

\* A cargo whose tasks all succeeded leaves each of them in the cache.
SuccessIsCached ==
  \A p \in Proc \ Dry : phase[p] = "ok" => \A t \in Task : Valid(t)

\* Every cargo ends or is killed: one that waits for another's flock gets it,
\* also when the other fails, is killed, or waits for one of its own in turn.
CargoEnds == \A p \in Proc : []<>~Active(p)

=============================================================================
