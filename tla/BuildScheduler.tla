--------------------------- MODULE BuildScheduler ---------------------------
(***************************************************************************)
(* The scheduling loop of the build engine (src/build, Executor._run and   *)
(* _pick): which node is submitted when and to which worker, how results,  *)
(* failures and requeued nodes are accounted for, with and without         *)
(* --keep-going, while remote hosts come and go.                           *)
(*                                                                         *)
(* The order of the deque `ready` is abstracted: any node that _pick could *)
(* reach is picked, but the deque keeps its multiplicities.  What a worker *)
(* does with a node is one step here (see BuildCache and DistSession).     *)
(***************************************************************************)
EXTENDS Integers, FiniteSets

CONSTANTS
  Node,       \* the closure of the requested roots
  Deps,       \* Deps[u]: Node.deps
  Roots,      \* the requested nodes
  LocalOnly,  \* nodes declared with local=True
  Host,       \* --dist hosts
  Cores,      \* Cores[h]: slots of h while it is connected
  Jobs,       \* -j
  Flags,      \* the values -k may have
  MaxLosses,  \* bound: how often a session may drop
  Here,       \* the local machine as a worker (None in the code)
  Nobody      \* the node is not running

Worker == Host \cup {Here}

ASSUME GraphAssumption ==
  /\ IsFiniteSet(Node)
  /\ Deps \in [Node -> SUBSET Node]
  /\ Roots \subseteq Node
  /\ LocalOnly \subseteq Node
\* Cycles are refused before anything runs ("build graph cycle at", "UID
\* dependency cycle at"): every set of nodes has one without dependencies in it.
ASSUME AcyclicAssumption ==
  \A S \in SUBSET Node : S # {} => \E u \in S : Deps[u] \cap S = {}
ASSUME WorkerAssumption ==
  /\ IsFiniteSet(Host)
  /\ Here \notin Host
  /\ Nobody \notin Worker
  /\ Cores \in [Host -> Nat \ {0}]
  /\ Jobs \in Nat \ {0}
  /\ Flags \subseteq BOOLEAN
  /\ MaxLosses \in Nat

VARIABLES
  ready,      \* how often each node is in the deque
  running,    \* the worker each submitted node was given to
  outcome,    \* how its future completed
  used,       \* slots taken on each worker
  remaining,  \* dependencies not accounted for yet
  errors,     \* nodes with an exception, or broken by a dependency
  blocked,    \* nodes below one
  built,      \* nodes whose future returned (part of `completed`)
  batch,      \* `done`, the futures being handled
  main,       \* where the main thread stands
  cores,      \* RemoteHost.cores: 0 while the host is down
  doomed,     \* nodes in flight on a host when its session dropped
  losses,     \* how often a session dropped
  keepGoing   \* -k

vars == <<ready, running, outcome, used, remaining, errors, blocked, built,
          batch, main, cores, doomed, losses, keepGoing>>
threads == <<running, outcome, doomed>>
hosts == <<cores, losses, keepGoing>>
books == <<remaining, errors, blocked, built>>

-----------------------------------------------------------------------------

Consumers(u) == {c \in Node : u \in Deps[c]}
Running == {u \in Node : running[u] # Nobody}

\* The head of _run: every node without dependencies is ready.
Init ==
  /\ ready = [u \in Node |-> IF Deps[u] = {} THEN 1 ELSE 0]
  /\ running = [u \in Node |-> Nobody]
  /\ outcome = [u \in Node |-> "none"]
  /\ used = [w \in Worker |-> 0]
  /\ remaining = [u \in Node |-> Cardinality(Deps[u])]
  /\ errors = {}
  /\ blocked = {}
  /\ built = {}
  /\ batch = {}
  /\ main = "submit"
  /\ cores = [h \in Host |-> 0]
  /\ doomed = {}
  /\ losses = 0
  /\ keepGoing \in Flags

-----------------------------------------------------------------------------
(* _pick.                                                                  *)

LocalFree == Jobs - used[Here]

\* RemoteHost.free_slots: one job per core and as many again queued.
FreeSlots(h) == 2 * cores[h] - used[h]

\* Mutant: with hosts configured only local nodes run here.
PickHere_HostsOnly(u) == LocalFree > 0 /\ (u \in LocalOnly \/ Host = {})

\* Here, unless a host has more free slots; a local node only here.
PickHere(u) ==
  /\ LocalFree > 0
  /\ u \in LocalOnly \/ \A h \in Host : FreeSlots(h) <= LocalFree

\* The host with the most free slots.
PickHost(u, h) ==
  /\ u \notin LocalOnly
  /\ FreeSlots(h) > 0
  /\ FreeSlots(h) > LocalFree
  /\ \A other \in Host : FreeSlots(other) <= FreeSlots(h)

\* A non-local node waits for a slot here even while every host is full.
Picks(u, w) ==
  /\ ready[u] > 0
  /\ IF w = Here THEN PickHere(u) ELSE PickHost(u, w)

CanPick == \E u \in Node, w \in Worker : Picks(u, w)

-----------------------------------------------------------------------------
(* The main thread.                                                        *)

\* Mutant: the node stays in the deque.
Submit_KeepsQueued(u, w) ==
  /\ main = "submit"
  /\ Picks(u, w)
  /\ used' = [used EXCEPT ![w] = @ + 1]
  /\ running' = [running EXCEPT ![u] = w]
  /\ outcome' = [outcome EXCEPT ![u] = "none"]
  /\ UNCHANGED <<ready, books, batch, main, hosts, doomed>>

Submit(u, w) ==
  /\ main = "submit"
  /\ Picks(u, w)
  /\ ready' = [ready EXCEPT ![u] = @ - 1]
  /\ used' = [used EXCEPT ![w] = @ + 1]
  /\ running' = [running EXCEPT ![u] = w]
  /\ outcome' = [outcome EXCEPT ![u] = "none"]
  /\ UNCHANGED <<books, batch, main, hosts, doomed>>

\* _pick returned None, or nothing is ready: the main thread waits.
PickNone ==
  /\ main = "submit"
  /\ ~CanPick
  /\ Running # {}
  /\ main' = "wait"
  /\ UNCHANGED <<ready, threads, used, books, batch, hosts>>

Completed == {u \in Running : outcome[u] # "none"}

\* concurrent.futures.wait returns what has completed ...
Wait ==
  /\ main = "wait"
  /\ Completed # {}
  /\ batch' = Completed
  /\ main' = "handle"
  /\ UNCHANGED <<ready, threads, used, books, hosts>>

\* ... or, with hosts only, nothing after half a second.
WaitTimeout ==
  /\ main = "wait"
  /\ Completed = {}
  /\ Host # {}
  /\ main' = "submit"
  /\ UNCHANGED <<ready, threads, used, books, batch, hosts>>

\* Mutant: a requeued node keeps its slot.
HandleRequeue_KeepsSlot(u) ==
  /\ main = "handle"
  /\ u \in batch
  /\ outcome[u] = "requeue"
  /\ batch' = batch \ {u}
  /\ running' = [running EXCEPT ![u] = Nobody]
  /\ ready' = [ready EXCEPT ![u] = @ + 1]
  /\ UNCHANGED <<outcome, used, doomed, books, main, hosts>>

\* A future that raised Requeue: back to the head of the deque.
HandleRequeue(u) ==
  /\ main = "handle"
  /\ u \in batch
  /\ outcome[u] = "requeue"
  /\ batch' = batch \ {u}
  /\ used' = [used EXCEPT ![running[u]] = @ - 1]
  /\ running' = [running EXCEPT ![u] = Nobody]
  /\ ready' = [ready EXCEPT ![u] = @ + 1]
  /\ UNCHANGED <<outcome, doomed, books, main, hosts>>

\* Mutant: a failure does not block the consumers.
Account_IgnoresFailure(u, failed) ==
  LET cs == Consumers(u)
      last == {c \in cs : remaining[c] = 1}
  IN  /\ remaining' = [c \in Node |-> IF c \in cs THEN remaining[c] - 1
                                                  ELSE remaining[c]]
      /\ blocked' = blocked
      /\ errors' = errors \cup (IF failed THEN {u} ELSE {})
      /\ ready' = [c \in Node |-> IF c \in last THEN ready[c] + 1 ELSE ready[c]]
      /\ built' = IF failed THEN built ELSE built \cup {u}

\* The loop over consumers[node] after a future that returned or raised.  A
\* consumer whose last dependency this is becomes ready, or an error if some
\* dependency failed; then its own consumers are blocked, and no more than
\* that.
Account(u, failed) ==
  LET cs == Consumers(u)
      below == IF failed \/ u \in blocked THEN blocked \cup cs ELSE blocked
      last == {c \in cs : remaining[c] = 1}
      broken == last \cap below
  IN  /\ remaining' = [c \in Node |-> IF c \in cs THEN remaining[c] - 1
                                                  ELSE remaining[c]]
      /\ blocked' = below \cup UNION {Consumers(c) : c \in broken}
      /\ errors' = errors \cup broken \cup (IF failed THEN {u} ELSE {})
      /\ ready' = [c \in Node |-> IF c \in last \ below THEN ready[c] + 1
                                                       ELSE ready[c]]
      /\ built' = IF failed THEN built ELSE built \cup {u}

Handle(u) ==
  /\ main = "handle"
  /\ u \in batch
  /\ outcome[u] = "ok" \/ (outcome[u] = "fail" /\ keepGoing)
  /\ batch' = batch \ {u}
  /\ used' = [used EXCEPT ![running[u]] = @ - 1]
  /\ running' = [running EXCEPT ![u] = Nobody]
  /\ Account(u, outcome[u] = "fail")
  /\ UNCHANGED <<outcome, doomed, main, hosts>>

\* Without -k the first failure raises; leaving the thread pool waits.
HandleRaise(u) ==
  /\ main = "handle"
  /\ u \in batch
  /\ outcome[u] = "fail"
  /\ ~keepGoing
  /\ batch' = {}
  /\ used' = [used EXCEPT ![running[u]] = @ - 1]
  /\ running' = [running EXCEPT ![u] = Nobody]
  /\ errors' = errors \cup {u}
  /\ main' = "raise"
  /\ UNCHANGED <<ready, outcome, doomed, remaining, blocked, built, hosts>>

Handled ==
  /\ main = "handle"
  /\ batch = {}
  /\ main' = "submit"
  /\ UNCHANGED <<ready, threads, used, books, batch, hosts>>

\* Mutant: `while ready` in place of `while ready or running`.
LoopEnds_ReadyOnly ==
  /\ main = "submit"
  /\ \A u \in Node : ready[u] = 0
  /\ main' = "end"
  /\ UNCHANGED <<ready, threads, used, books, batch, hosts>>

\* while ready or running.  (The `break` for ready nodes that no worker takes
\* while nothing runs is dead: see NeverStuck.)
LoopEnds ==
  /\ main = "submit"
  /\ \A u \in Node : ready[u] = 0
  /\ Running = {}
  /\ main' = "end"
  /\ UNCHANGED <<ready, threads, used, books, batch, hosts>>

-----------------------------------------------------------------------------
(* The workers and the hosts.                                              *)

\* A future completes; only a remote one can raise Requeue (HostLost).
Finish(u, how) ==
  /\ running[u] # Nobody
  /\ outcome[u] = "none"
  /\ how = "requeue" => u \in doomed
  /\ outcome' = [outcome EXCEPT ![u] = how]
  /\ doomed' = doomed \ {u}
  /\ UNCHANGED <<ready, running, used, books, batch, main, hosts>>

HostUp(h) ==
  /\ cores[h] = 0
  /\ main # "end"
  /\ cores' = [cores EXCEPT ![h] = Cores[h]]
  /\ UNCHANGED <<ready, threads, used, books, batch, main, losses,
                 keepGoing>>

HostDown(h) ==
  /\ cores[h] # 0
  /\ main # "end"
  /\ losses < MaxLosses
  /\ losses' = losses + 1
  /\ cores' = [cores EXCEPT ![h] = 0]
  /\ doomed' = doomed \cup {u \in Node : running[u] = h /\ outcome[u] = "none"}
  /\ UNCHANGED <<ready, running, outcome, used, books, batch, main, keepGoing>>

Outcomes == {"ok", "fail", "requeue"}

MainStep ==
  \/ \E u \in Node, w \in Worker : Submit(u, w)
  \/ PickNone \/ Wait \/ WaitTimeout
  \/ \E u \in Node : HandleRequeue(u) \/ Handle(u) \/ HandleRaise(u)
  \/ Handled
  \/ LoopEnds

Next ==
  \/ MainStep
  \/ \E u \in Node, how \in Outcomes : Finish(u, how)
  \/ \E h \in Host : HostUp(h) \/ HostDown(h)

Spec == Init /\ [][Next]_vars

\* The main thread runs, and every future completes.
FairSpec ==
  /\ Spec
  /\ WF_vars(MainStep)
  /\ \A u \in Node : WF_vars(\E how \in Outcomes : Finish(u, how))

-----------------------------------------------------------------------------
(* Properties.                                                             *)

\* Every local of _run, and what a host shows of itself, stays in its type.
TypeOK ==
  /\ ready \in [Node -> Nat]
  /\ running \in [Node -> Worker \cup {Nobody}]
  /\ outcome \in [Node -> Outcomes \cup {"none"}]
  /\ used \in [Worker -> Nat]
  /\ remaining \in [Node -> Nat]
  /\ errors \subseteq Node
  /\ blocked \subseteq Node
  /\ built \subseteq Node
  /\ batch \subseteq Node
  /\ main \in {"submit", "wait", "handle", "end", "raise"}
  /\ cores \in [Host -> Nat]
  /\ doomed \subseteq Node
  /\ losses \in Nat
  /\ keepGoing \in BOOLEAN

\* `used` counts exactly the futures in flight on each worker, through every
\* requeue and lost session, so no worker is given more than its slots.
SlotsRespected ==
  /\ \A w \in Worker : used[w] = Cardinality({u \in Node : running[u] = w})
  /\ used[Here] <= Jobs
  /\ \A h \in Host : used[h] <= 2 * Cores[h]

\* A node is in the deque, in flight, or accounted for: never two of these,
\* and never in the deque twice, however often it was requeued.
OncePerNode ==
  \A u \in Node : ready[u] + (IF u \in Running THEN 1 ELSE 0)
                           + (IF u \in built \cup errors THEN 1 ELSE 0) <= 1

\* Nothing is queued or submitted before all its dependencies are built: the
\* counters `remaining` let no consumer of a failed node through under -k.
DepsBuilt ==
  \A u \in Node : ready[u] > 0 \/ u \in Running => Deps[u] \subseteq built

\* A ready node always finds a worker when nothing runs: the main loop never
\* polls (time.sleep(0.2)) for a host to come back.
NeverStuck ==
  main = "submit" /\ Running = {} /\ (\E u \in Node : ready[u] > 0) => CanPick

\* When the loop ends, every node that could be built was: whatever is not
\* built failed itself or waits for something that is not built.  In
\* particular a run without errors has built every node.
AllPossibleBuilt ==
  main = "end" =>
    /\ \A u \in Node \ built : outcome[u] = "fail" \/ ~(Deps[u] \subseteq built)
    /\ errors = {} => built = Node

\* The final report counts every requested target that was not built among
\* the broken ones: root in errors or root in blocked (the message built from
\* roots_failed).  False of a chain of four: see README, section 5.
BrokenRootsReported ==
  main = "end" => \A r \in Roots \ built : r \in errors \cup blocked

\* The loop ends, whatever fails and however often sessions drop.
LoopTerminates == <>(main \in {"end", "raise"})

=============================================================================
