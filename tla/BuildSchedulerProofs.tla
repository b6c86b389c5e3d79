------------------------ MODULE BuildSchedulerProofs ------------------------
(***************************************************************************)
(* Proofs about BuildScheduler, for every acyclic graph, every set of      *)
(* hosts and every number of slots and lost sessions.  SchedInv is the     *)
(* inductive invariant from which all the state properties that sched_loop *)
(* checks follow.                                                          *)
(***************************************************************************)
EXTENDS BuildScheduler, FiniteSetTheorems, WellFoundedInduction, TLAPS

-----------------------------------------------------------------------------
(* The inductive invariant.                                                *)

\* The nodes whose consumers were told: built, or failed under -k.
Accounted ==
  built \cup {u \in Node : keepGoing /\ outcome[u] = "fail" /\ running[u] = Nobody}

\* The batch is a part of the completed futures, and only exists while it is
\* handled; a host shows its cores or none.
BatchInv ==
  /\ \A u \in batch : running[u] # Nobody /\ outcome[u] # "none"
  /\ main # "handle" => batch = {}
  /\ \A h \in Host : cores[h] \in {0, Cores[h]}

\* `remaining` counts the dependencies that are not accounted for.
CountInv == \A u \in Node : remaining[u] = Cardinality(Deps[u] \ Accounted)

\* What is settled was settled after its dependencies.
SettledInv ==
  /\ \A u \in Node : outcome[u] = "fail" /\ running[u] = Nobody => u \in errors
  /\ \A u \in built : Deps[u] \subseteq built
  /\ \A u \in errors : Deps[u] \subseteq Accounted /\ u \notin built

\* A failure blocks all its consumers, and nothing else is blocked than the
\* consumers of an error.
BlockInv ==
  /\ \A u \in Accounted \ built : Consumers(u) \subseteq blocked
  /\ \A c \in blocked : Deps[c] \cap errors # {}

\* A node whose dependencies are built is not forgotten.
QueueInv ==
  /\ \A u \in Node : Deps[u] \subseteq built =>
       ready[u] > 0 \/ u \in Running \/ u \in built \/ outcome[u] = "fail"
  /\ main = "end" => Running = {} /\ \A u \in Node : ready[u] = 0

SchedInv ==
  /\ TypeOK /\ SlotsRespected /\ OncePerNode /\ DepsBuilt
  /\ BatchInv /\ CountInv /\ SettledInv /\ BlockInv /\ QueueInv

-----------------------------------------------------------------------------
(* Counting.                                                               *)

\* Sets of nodes are finite.
LEMMA NodesFinite ==
  \A S \in SUBSET Node : IsFiniteSet(S) /\ Cardinality(S) \in Nat
  BY GraphAssumption, FS_Subset, FS_CardinalityType

\* The nodes that f gives to worker v.
On(f, v) == {n \in Node : f[n] = v}

\* One future more.
LEMMA OneMore ==
  ASSUME NEW S \in SUBSET Node, NEW u \in Node, u \notin S
  PROVE  Cardinality(S) \in Nat /\ Cardinality(S \cup {u}) = Cardinality(S) + 1
  BY NodesFinite, FS_AddElement

\* Accounting for a node takes one from the counters of its consumers.
LEMMA OneAccounted ==
  ASSUME NEW D \in SUBSET Node, NEW A \in SUBSET Node, NEW u \in Node, u \notin A
  PROVE  /\ Cardinality(D \ (A \cup {u})) =
              Cardinality(D \ A) - IF u \in D THEN 1 ELSE 0
         /\ Cardinality(D \ A) \in Nat
         /\ u \in D /\ Cardinality(D \ A) = 1 => D \subseteq A \cup {u}
         /\ u \in D => Cardinality(D \ A) # 0
         /\ u \in D /\ D \subseteq A \cup {u} => Cardinality(D \ A) = 1
<1>1. IsFiniteSet(D \ A) /\ Cardinality(D \ A) \in Nat
  BY NodesFinite
<1>2. D \ (A \cup {u}) = (D \ A) \ {u}
  OBVIOUS
<1>3. Cardinality((D \ A) \ {u}) =
        Cardinality(D \ A) - IF u \in D THEN 1 ELSE 0
  <2> DEFINE S == D \ A
  <2>1. u \in S <=> u \in D
    OBVIOUS
  <2>2. IsFiniteSet(S) /\ Cardinality(S) \in Nat
    BY <1>1
  <2> HIDE DEF S
  <2>3. Cardinality(S \ {u}) =
          IF u \in S THEN Cardinality(S) - 1 ELSE Cardinality(S)
    BY <2>2, FS_RemoveElement
  <2> QED
    BY <2>1, <2>2, <2>3 DEF S
<1>4. Cardinality((D \ A) \ {u}) \in Nat
  BY NodesFinite
<1>5. D \subseteq A \cup {u} <=> (D \ A) \ {u} = {}
  OBVIOUS
<1>6. D \subseteq A \cup {u} <=> Cardinality((D \ A) \ {u}) = 0
  BY <1>5, NodesFinite, FS_EmptySet
<1> QED
  BY <1>1, <1>2, <1>3, <1>4, <1>6

-----------------------------------------------------------------------------
(* The invariant is inductive.                                             *)

\* The head of _run establishes the invariant.
LEMMA SchedInit == Init => SchedInv
<1> SUFFICES ASSUME Init PROVE SchedInv
  OBVIOUS
<1> USE GraphAssumption, WorkerAssumption DEF Init
<1>1. Accounted = {} /\ Running = {}
  BY DEF Accounted, Running
<1>2. \A u \in Node : Cardinality(Deps[u]) \in Nat
  BY NodesFinite
<1>3. TypeOK
  BY <1>2 DEF TypeOK, Outcomes
<1>4. SlotsRespected
  <2>1. \A w \in Worker : {u \in Node : running[u] = w} = {}
    OBVIOUS
  <2>2. \A w \in Worker : used[w] = Cardinality({u \in Node : running[u] = w})
    BY <2>1, FS_EmptySet
  <2>3. \A h \in Host : 0 <= 2 * Cores[h]
    OBVIOUS
  <2>4. Here \in Worker /\ Host \subseteq Worker
    BY DEF Worker
  <2> QED
    BY <2>2, <2>3, <2>4 DEF SlotsRespected
<1>5. OncePerNode /\ DepsBuilt
  BY <1>1 DEF OncePerNode, DepsBuilt
<1>6. CountInv
  <2>1. \A u \in Node : Deps[u] \ {} = Deps[u]
    OBVIOUS
  <2> QED
    BY <1>1, <2>1 DEF CountInv
<1> QED
  BY <1>1, <1>3, <1>4, <1>5, <1>6
     DEF SchedInv, BatchInv, SettledInv, BlockInv, QueueInv

\* Steps of the main thread that only say where it stands: the batch is what
\* completed, and the loop ends with nothing in the deque or in flight.
LEMMA LoopStep ==
  ASSUME SchedInv, PickNone \/ Wait \/ WaitTimeout \/ Handled \/ LoopEnds
  PROVE  SchedInv'
<1> USE DEF SchedInv
<1>1. UNCHANGED <<ready, running, outcome, doomed, used, remaining, errors,
                  blocked, built, cores, losses, keepGoing>>
  BY DEF PickNone, Wait, WaitTimeout, Handled, LoopEnds, threads, books, hosts
<1>2. Accounted' = Accounted /\ Running' = Running
  BY <1>1 DEF Accounted, Running
<1>3. /\ batch' \subseteq Completed
      /\ main' # "handle" => batch' = {}
      /\ main' \in {"submit", "wait", "handle", "end"}
      /\ main' = "end" => Running = {} /\ \A u \in Node : ready[u] = 0
  BY DEF PickNone, Wait, WaitTimeout, Handled, LoopEnds, BatchInv
<1>4. TypeOK'
  BY <1>1, <1>3 DEF TypeOK, Completed, Running
<1>5. BatchInv'
  BY <1>1, <1>3 DEF BatchInv, Completed, Running
<1>6. SlotsRespected' /\ OncePerNode' /\ DepsBuilt' /\ CountInv'
  BY <1>1, <1>2 DEF SlotsRespected, OncePerNode, DepsBuilt, CountInv
<1>7. SettledInv' /\ BlockInv' /\ QueueInv'
  BY <1>1, <1>2, <1>3 DEF SettledInv, BlockInv, QueueInv
<1> QED
  BY <1>4, <1>5, <1>6, <1>7

\* Submitting a node: it was in the deque once, so it neither ran nor was
\* settled, and its worker had a slot.
LEMMA SubmitStep ==
  ASSUME SchedInv, NEW u \in Node, NEW w \in Worker, Submit(u, w)
  PROVE  SchedInv'
<1> USE DEF SchedInv
<1> USE WorkerAssumption
<1>1. /\ ready[u] \in Nat /\ ready[u] > 0
      /\ UNCHANGED <<remaining, errors, blocked, built, batch, main, cores,
                     losses, keepGoing, doomed>>
      /\ batch = {} /\ main = "submit"
  BY DEF Submit, Picks, TypeOK, books, hosts, BatchInv
<1>2. /\ ready[u] = 1 /\ u \notin Running /\ running[u] = Nobody
      /\ u \notin built \cup errors
  BY <1>1 DEF OncePerNode, Running
<1>3. /\ ready' = [ready EXCEPT ![u] = 0]
      /\ running' = [running EXCEPT ![u] = w]
      /\ outcome' = [outcome EXCEPT ![u] = "none"]
      /\ used' = [used EXCEPT ![w] = @ + 1]
  BY <1>2 DEF Submit
<1>4. TypeOK'
  BY <1>1, <1>3 DEF TypeOK
<1>5. Accounted' = Accounted
  BY <1>1, <1>2, <1>3 DEF Accounted, SettledInv, TypeOK
<1>6. Running' = Running \cup {u}
  BY <1>3 DEF Running, TypeOK
<1>7. SlotsRespected'
  <2>1. \A v \in Worker : used'[v] = Cardinality({n \in Node : running'[n] = v})
    <3> SUFFICES ASSUME NEW v \in Worker
                 PROVE  used'[v] = Cardinality({n \in Node : running'[n] = v})
      OBVIOUS
    <3>1. Cardinality(On(running', v)) =
            IF v = w THEN Cardinality(On(running, v)) + 1
                     ELSE Cardinality(On(running, v))
      <4>1. On(running, v) \in SUBSET Node /\ u \notin On(running, v)
        BY <1>2 DEF On
      <4>2. On(running', v) = IF v = w THEN On(running, v) \cup {u}
                                       ELSE On(running, v)
        BY <1>2, <1>3 DEF On, TypeOK
      <4> QED
        BY <4>1, <4>2, OneMore
    <3>2. used[v] = Cardinality(On(running, v)) /\ used[v] \in Nat
      BY DEF SlotsRespected, TypeOK, On
    <3>3. used'[v] = IF v = w THEN used[v] + 1 ELSE used[v]
      BY <1>3 DEF TypeOK
    <3> QED
      BY <3>1, <3>2, <3>3 DEF On
  <2>2. used[w] < IF w = Here THEN Jobs ELSE 2 * Cores[w]
    <3>1. CASE w = Here
      BY <3>1 DEF Submit, Picks, PickHere, LocalFree, TypeOK
    <3>2. CASE w # Here
      <4>1. w \in Host /\ FreeSlots(w) > 0
        BY <3>2 DEF Submit, Picks, PickHost, Worker
      <4>2. cores[w] = Cores[w] \/ cores[w] = 0
        BY <4>1 DEF BatchInv
      <4> QED
        BY <3>2, <4>1, <4>2 DEF FreeSlots, TypeOK
    <3> QED
      BY <3>1, <3>2
  <2>3. Here \in Worker /\ \A h \in Host : h \in Worker /\ h # Here
    BY DEF Worker
  <2> QED
    BY <1>3, <2>1, <2>2, <2>3 DEF SlotsRespected, TypeOK
<1>8. OncePerNode'
  BY <1>1, <1>2, <1>3, <1>6 DEF OncePerNode, TypeOK
<1>9. DepsBuilt'
  BY <1>1, <1>3, <1>6 DEF DepsBuilt, TypeOK
<1>10. BatchInv' /\ CountInv'
  BY <1>1, <1>5 DEF BatchInv, CountInv
<1>11. SettledInv'
  BY <1>1, <1>3, <1>5 DEF SettledInv, TypeOK
<1>12. BlockInv'
  BY <1>1, <1>5 DEF BlockInv
<1>13. QueueInv'
  BY <1>1, <1>2, <1>3, <1>6 DEF QueueInv, TypeOK
<1> QED
  BY <1>4, <1>7, <1>8, <1>9, <1>10, <1>11, <1>12, <1>13

\* A future that completes changes nothing that the loop counts.
LEMMA FinishStep ==
  ASSUME SchedInv, NEW u \in Node, NEW how \in Outcomes, Finish(u, how)
  PROVE  SchedInv'
<1> USE DEF SchedInv
<1>1. /\ UNCHANGED <<ready, running, used, remaining, errors, blocked, built,
                     batch, main, cores, losses, keepGoing>>
      /\ outcome' = [outcome EXCEPT ![u] = how]
      /\ doomed' \subseteq doomed
      /\ running[u] # Nobody /\ u \in Running
  BY DEF Finish, books, hosts, Running
<1>2. Accounted' = Accounted /\ Running' = Running
  BY <1>1 DEF Accounted, Running, TypeOK
<1>3. TypeOK'
  BY <1>1 DEF TypeOK
<1>4. SlotsRespected' /\ OncePerNode' /\ DepsBuilt' /\ CountInv' /\ BlockInv'
  BY <1>1, <1>2 DEF SlotsRespected, OncePerNode, DepsBuilt, CountInv, BlockInv
<1>5. BatchInv'
  BY <1>1 DEF BatchInv, Outcomes, TypeOK
<1>6. SettledInv' /\ QueueInv'
  BY <1>1, <1>2 DEF SettledInv, QueueInv, TypeOK
<1> QED
  BY <1>3, <1>4, <1>5, <1>6

\* Hosts that come and go change nothing that the loop counts.
LEMMA HostStep ==
  ASSUME SchedInv, NEW h \in Host, HostUp(h) \/ HostDown(h)
  PROVE  SchedInv'
<1> USE DEF SchedInv
<1>1. /\ UNCHANGED <<ready, running, outcome, used, remaining, errors, blocked,
                     built, batch, main, keepGoing>>
      /\ doomed' \subseteq Node /\ losses' \in Nat
      /\ cores' \in {[cores EXCEPT ![h] = 0], [cores EXCEPT ![h] = Cores[h]]}
  BY DEF HostUp, HostDown, books, threads, TypeOK
<1>2. Accounted' = Accounted /\ Running' = Running
  BY <1>1 DEF Accounted, Running
<1>3. TypeOK' /\ BatchInv'
  BY <1>1, WorkerAssumption DEF TypeOK, BatchInv
<1>4. SlotsRespected' /\ OncePerNode' /\ DepsBuilt' /\ CountInv' /\ BlockInv'
  BY <1>1, <1>2 DEF SlotsRespected, OncePerNode, DepsBuilt, CountInv, BlockInv
<1>5. SettledInv' /\ QueueInv'
  BY <1>1, <1>2 DEF SettledInv, QueueInv
<1> QED
  BY <1>3, <1>4, <1>5

\* The head of the loop over `done`: the future leaves `running` and gives its
\* slot back, so `used` stays a natural number and counts what is in flight.
LEMMA FutureLeft ==
  ASSUME SchedInv, NEW u \in batch,
         used' = [used EXCEPT ![running[u]] = @ - 1],
         running' = [running EXCEPT ![u] = Nobody]
  PROVE  /\ used' \in [Worker -> Nat]
         /\ running' \in [Node -> Worker \cup {Nobody}]
         /\ Running' = Running \ {u} /\ u \in Running /\ u \in Node
         /\ SlotsRespected'
<1> USE DEF SchedInv
<1> DEFINE w == running[u]
<1>1. u \in Node /\ w \in Worker /\ u \in Running
  BY DEF TypeOK, BatchInv, Running
<1>2. Running' = Running \ {u} /\ running' \in [Node -> Worker \cup {Nobody}]
  BY <1>1 DEF Running, TypeOK
<1>3. /\ running'[u] = Nobody
      /\ \A n \in Node \ {u} : running'[n] = running[n]
  BY <1>1 DEF TypeOK
<1>4. ASSUME NEW v \in Worker
      PROVE  /\ used'[v] = Cardinality(On(running', v))
             /\ used'[v] \in Nat
             /\ used'[v] <= used[v]
  <2>1. /\ Cardinality(On(running', v)) \in Nat
        /\ Cardinality(On(running, v)) = IF v = w
             THEN Cardinality(On(running', v)) + 1
             ELSE Cardinality(On(running', v))
    <3>1. On(running', v) \in SUBSET Node /\ u \notin On(running', v)
      BY <1>1, <1>3, WorkerAssumption DEF On
    <3>2. On(running, v) = IF v = w THEN On(running', v) \cup {u}
                                    ELSE On(running', v)
      BY <1>1, <1>3, WorkerAssumption DEF On
    <3> QED
      BY <1>1, <3>1, <3>2, OneMore
  <2>2. used[v] = Cardinality(On(running, v)) /\ used[v] \in Nat
    BY DEF SlotsRespected, TypeOK, On
  <2>3. used'[v] = IF v = w THEN used[v] - 1 ELSE used[v]
    BY <1>1 DEF TypeOK
  <2> QED
    BY <2>1, <2>2, <2>3
<1>5. used' \in [Worker -> Nat]
  BY <1>4 DEF TypeOK
<1>6. SlotsRespected'
  <2>1. Here \in Worker /\ Host \subseteq Worker
    BY DEF Worker
  <2>2. \A v \in Worker : used'[v] = Cardinality({n \in Node : running'[n] = v})
    BY <1>4 DEF On
  <2>3. used'[Here] <= Jobs
    BY <1>4, <2>1, WorkerAssumption DEF SlotsRespected, TypeOK
  <2>4. ASSUME NEW h \in Host PROVE used'[h] <= 2 * Cores[h]
    <3>1. h \in Worker
      BY <2>1
    <3>2. used[h] <= 2 * Cores[h] /\ 2 * Cores[h] \in Nat /\ used[h] \in Nat
      BY <3>1, WorkerAssumption DEF SlotsRespected, TypeOK
    <3> QED
      BY <1>4, <3>1, <3>2
  <2> QED
    BY <2>2, <2>3, <2>4 DEF SlotsRespected
<1> QED
  BY <1>1, <1>2, <1>5, <1>6

\* A requeued node goes back to the deque it had left.
LEMMA RequeueStep ==
  ASSUME SchedInv, NEW u \in Node, HandleRequeue(u)
  PROVE  SchedInv'
<1> USE DEF SchedInv
<1>1. /\ UNCHANGED <<outcome, doomed, remaining, errors, blocked, built, main,
                     cores, losses, keepGoing>>
      /\ main = "handle" /\ u \in batch /\ batch' = batch \ {u}
      /\ outcome[u] = "requeue"
      /\ ready' = [ready EXCEPT ![u] = @ + 1]
      /\ running' = [running EXCEPT ![u] = Nobody]
  BY DEF HandleRequeue, books, hosts
<1>2. /\ used' \in [Worker -> Nat]
      /\ running' \in [Node -> Worker \cup {Nobody}]
      /\ Running' = Running \ {u} /\ u \in Running
      /\ SlotsRespected'
  BY <1>1, FutureLeft DEF HandleRequeue
<1>3. ready[u] = 0 /\ u \notin built \cup errors
  BY <1>2 DEF OncePerNode, TypeOK
<1>4. Accounted' = Accounted
  BY <1>1 DEF Accounted, TypeOK
<1>5. TypeOK'
  BY <1>1, <1>2 DEF TypeOK
<1>6. OncePerNode' /\ DepsBuilt'
  BY <1>1, <1>2, <1>3 DEF OncePerNode, DepsBuilt, TypeOK
<1>7. BatchInv' /\ CountInv' /\ BlockInv'
  BY <1>1, <1>4 DEF BatchInv, CountInv, BlockInv, TypeOK
<1>8. SettledInv'
  BY <1>1, <1>4 DEF SettledInv, TypeOK
<1>9. QueueInv'
  BY <1>1, <1>2, <1>3 DEF QueueInv, TypeOK
<1> QED
  BY <1>2, <1>5, <1>6, <1>7, <1>8, <1>9

\* Without -k the counters are left as they are: nothing is accounted for
\* after a failure, and the loop is over.
LEMMA RaiseStep ==
  ASSUME SchedInv, NEW u \in Node, HandleRaise(u)
  PROVE  SchedInv'
<1> USE DEF SchedInv
<1>1. /\ UNCHANGED <<ready, outcome, doomed, remaining, blocked, built, cores,
                     losses, keepGoing>>
      /\ u \in batch /\ batch' = {} /\ outcome[u] = "fail" /\ ~keepGoing
      /\ errors' = errors \cup {u} /\ main' = "raise"
      /\ running' = [running EXCEPT ![u] = Nobody]
  BY DEF HandleRaise, hosts
<1>2. /\ used' \in [Worker -> Nat]
      /\ running' \in [Node -> Worker \cup {Nobody}]
      /\ Running' = Running \ {u} /\ u \in Running
      /\ SlotsRespected'
  BY <1>1, FutureLeft DEF HandleRaise
<1>3. ready[u] = 0 /\ u \notin built \cup errors /\ Deps[u] \subseteq built
  BY <1>2 DEF OncePerNode, DepsBuilt, TypeOK
<1>4. Accounted' = Accounted /\ Accounted = built
  BY <1>1 DEF Accounted
<1>5. TypeOK'
  BY <1>1, <1>2 DEF TypeOK
<1>6. OncePerNode' /\ DepsBuilt'
  BY <1>1, <1>2, <1>3 DEF OncePerNode, DepsBuilt, TypeOK
<1>7. BatchInv' /\ CountInv' /\ BlockInv'
  BY <1>1, <1>4 DEF BatchInv, CountInv, BlockInv, TypeOK
<1>8. SettledInv'
  BY <1>1, <1>3, <1>4 DEF SettledInv, TypeOK
<1>9. QueueInv'
  BY <1>1, <1>2 DEF QueueInv, TypeOK
<1> QED
  BY <1>2, <1>5, <1>6, <1>7, <1>8, <1>9

\* Accounting for a future.  Its consumers wait: they are in none of the
\* books.  One becomes ready only if this was its last dependency and nothing
\* blocks it, and then all its dependencies are built.
LEMMA HandleStep ==
  ASSUME SchedInv, NEW u \in Node, Handle(u)
  PROVE  SchedInv'
<1> USE DEF SchedInv
<1> USE GraphAssumption
<1> DEFINE failed == outcome[u] = "fail"
           cs == Consumers(u)
           below == IF failed THEN blocked \cup cs ELSE blocked
           last == {c \in cs : remaining[c] = 1}
           broken == last \cap below
<1>1. /\ UNCHANGED <<outcome, doomed, main, cores, losses, keepGoing>>
      /\ main = "handle" /\ u \in batch /\ batch' = batch \ {u}
      /\ failed => keepGoing
      /\ running' = [running EXCEPT ![u] = Nobody]
  BY DEF Handle, hosts
<1>2. /\ used' \in [Worker -> Nat]
      /\ running' \in [Node -> Worker \cup {Nobody}]
      /\ Running' = Running \ {u} /\ u \in Running
      /\ SlotsRespected'
  BY <1>1, FutureLeft DEF Handle
<1>3. ready[u] = 0 /\ u \notin built \cup errors /\ Deps[u] \subseteq built
  BY <1>2 DEF OncePerNode, DepsBuilt, TypeOK
<1>4. u \notin blocked
  BY <1>3 DEF BlockInv, SettledInv
<1>5. /\ remaining' = [c \in Node |-> IF c \in cs THEN remaining[c] - 1
                                                 ELSE remaining[c]]
      /\ blocked' = below \cup UNION {Consumers(c) : c \in broken}
      /\ errors' = errors \cup broken \cup (IF failed THEN {u} ELSE {})
      /\ ready' = [c \in Node |-> IF c \in last \ below THEN ready[c] + 1
                                                        ELSE ready[c]]
      /\ built' = IF failed THEN built ELSE built \cup {u}
  BY <1>4 DEF Handle, Account
<1>6. /\ Accounted' = Accounted \cup {u} /\ u \notin Accounted
      /\ Accounted \in SUBSET Node /\ built \subseteq Accounted
  <2>1. u \notin Accounted /\ Accounted \in SUBSET Node /\ built \subseteq Accounted
    BY <1>2, <1>3 DEF Accounted, Running, TypeOK
  <2>2. \A n \in Node \ {u} : n \in Accounted' <=> n \in Accounted
    BY <1>1, <1>5 DEF Accounted, TypeOK
  <2>3. u \in Accounted'
    BY <1>1, <1>5 DEF Accounted, TypeOK
  <2>4. Accounted' \subseteq Node
    BY <1>5 DEF Accounted, TypeOK
  <2> QED
    BY <2>1, <2>2, <2>3, <2>4
<1>7. /\ cs \subseteq Node /\ \A c \in Node : c \in cs <=> u \in Deps[c]
      /\ broken \subseteq last /\ last \subseteq cs
  BY DEF Consumers
<1>8. ASSUME NEW c \in cs
      PROVE  /\ ready[c] = 0 /\ c \notin Running /\ c \notin built
             /\ c \notin errors /\ c # u
  BY <1>3, <1>6, <1>7 DEF DepsBuilt, SettledInv, TypeOK
<1>9. ASSUME NEW c \in Node
      PROVE  /\ remaining[c] \in Nat
             /\ remaining'[c] = Cardinality(Deps[c] \ (Accounted \cup {u}))
             /\ remaining'[c] \in Nat
             /\ c \in last <=> u \in Deps[c] /\ Deps[c] \subseteq Accounted \cup {u}
  <2>1. Deps[c] \in SUBSET Node
    OBVIOUS
  <2>2. remaining[c] = Cardinality(Deps[c] \ Accounted)
    BY DEF CountInv
  <2>3. remaining'[c] = IF u \in Deps[c] THEN remaining[c] - 1 ELSE remaining[c]
    BY <1>5, <1>7
  <2>4. c \in last <=> u \in Deps[c] /\ remaining[c] = 1
    BY <1>7
  <2> HIDE DEF last, SchedInv
  <2> DEFINE A == Accounted
             D == Deps[c]
  <2>5. A \in SUBSET Node /\ u \notin A /\ D \in SUBSET Node
    BY <1>6, <2>1
  <2> HIDE DEF A, D
  <2>6. /\ Cardinality(D \ (A \cup {u})) =
              Cardinality(D \ A) - IF u \in D THEN 1 ELSE 0
        /\ Cardinality(D \ A) \in Nat
        /\ u \in D => Cardinality(D \ A) # 0
        /\ u \in D => (Cardinality(D \ A) = 1 <=> D \subseteq A \cup {u})
    BY <2>5, OneAccounted
  <2> QED
    BY <2>2, <2>3, <2>4, <2>6 DEF A, D
<1>10. ASSUME NEW c \in last, c \notin below
       PROVE  Deps[c] \subseteq built'
  <2>1. c \in Node /\ u \in Deps[c] /\ ~failed /\ c \notin blocked
    BY <1>7, <1>10
  <2>2. Deps[c] \subseteq Accounted \cup {u}
    BY <1>9, <2>1
  <2>3. \A n \in Accounted \ built : n \notin Deps[c]
    BY <2>1 DEF BlockInv, Consumers
  <2> QED
    BY <1>5, <2>1, <2>2, <2>3
<1>11. TypeOK'
  <2>1. remaining' \in [Node -> Nat]
    BY <1>5, <1>9
  <2>2. ready' \in [Node -> Nat]
    BY <1>5 DEF TypeOK
  <2>3. errors' \subseteq Node /\ built' \subseteq Node
    BY <1>5, <1>7 DEF TypeOK
  <2>4. blocked' \subseteq Node
    BY <1>5, <1>7 DEF TypeOK, Consumers
  <2> QED
    BY <1>1, <1>2, <2>1, <2>2, <2>3, <2>4 DEF TypeOK
<1> HIDE DEF below, last, cs, broken
<1>12. OncePerNode'
  <2> SUFFICES ASSUME NEW n \in Node
               PROVE  (ready[n] + (IF n \in Running THEN 1 ELSE 0)
                         + (IF n \in built \cup errors THEN 1 ELSE 0) <= 1)'
    BY DEF OncePerNode
  <2>1. ready[n] \in Nat /\ ready[n] + (IF n \in Running THEN 1 ELSE 0)
                         + (IF n \in built \cup errors THEN 1 ELSE 0) <= 1
    BY DEF OncePerNode, TypeOK
  <2>2. CASE n = u
    <3>1. n \notin last
      BY <1>7, <1>8, <2>2
    <3> QED
      BY <1>2, <1>3, <1>5, <2>2, <3>1
  <2>3. CASE n \in last
    <3>1. n \in cs /\ n # u
      BY <1>7, <1>8, <2>3
    <3>2. CASE n \in below
      BY <1>2, <1>5, <1>8, <2>3, <3>1, <3>2 DEF broken
    <3>3. CASE n \notin below
      <4>1. n \notin errors' /\ n \notin built' /\ n \notin Running' /\ ready'[n] = 1
        BY <1>2, <1>5, <1>8, <2>3, <3>1, <3>3 DEF broken
      <4> QED
        BY <4>1
    <3> QED
      BY <3>2, <3>3
  <2>4. CASE n # u /\ n \notin last
    <3>1. /\ ready'[n] = ready[n]
          /\ n \in Running' <=> n \in Running
          /\ n \in built' \cup errors' <=> n \in built \cup errors
      BY <1>2, <1>5, <1>7, <2>4
    <3> QED
      BY <2>1, <3>1
  <2> QED
    BY <2>2, <2>3, <2>4
<1>13. DepsBuilt'
  BY <1>2, <1>5, <1>10 DEF DepsBuilt, TypeOK
<1>14. BatchInv'
  BY <1>1 DEF BatchInv, TypeOK
<1>15. CountInv'
  BY <1>6, <1>9 DEF CountInv
<1>16. SettledInv'
  <2>1. ASSUME NEW n \in Node, outcome'[n] = "fail", running'[n] = Nobody
        PROVE  n \in errors'
    BY <1>1, <1>5, <2>1 DEF SettledInv, TypeOK
  <2>2. \A n \in built' : Deps[n] \subseteq built'
    BY <1>3, <1>5 DEF SettledInv
  <2>3. ASSUME NEW n \in errors'
        PROVE  Deps[n] \subseteq Accounted' /\ n \notin built'
    <3>1. CASE n \in errors
      BY <1>3, <1>5, <1>6, <3>1 DEF SettledInv
    <3>2. CASE n \in broken
      BY <1>5, <1>6, <1>7, <1>8, <1>9, <3>2
    <3>3. CASE failed /\ n = u
      BY <1>3, <1>5, <1>6, <3>3
    <3> QED
      BY <1>5, <2>3, <3>1, <3>2, <3>3
  <2> QED
    BY <2>1, <2>2, <2>3 DEF SettledInv
<1>17. BlockInv'
  <2>1. ASSUME NEW n \in Accounted' \ built'
        PROVE  Consumers(n) \subseteq blocked'
    <3>1. CASE n \in Accounted
      BY <1>5, <2>1, <3>1 DEF BlockInv, below
    <3>2. CASE n = u
      BY <1>5, <2>1, <3>2 DEF below, cs
    <3> QED
      BY <1>6, <3>1, <3>2
  <2>2. ASSUME NEW c \in blocked'
        PROVE  Deps[c] \cap errors' # {}
    <3>1. CASE c \in blocked
      BY <1>5, <3>1 DEF BlockInv
    <3>2. CASE c \in cs /\ failed
      BY <1>5, <1>7, <3>2
    <3>3. ASSUME NEW b \in broken, c \in Consumers(b)
          PROVE  Deps[c] \cap errors' # {}
      BY <1>5, <3>3 DEF Consumers
    <3> QED
      BY <1>5, <2>2, <3>1, <3>2, <3>3 DEF below
  <2> QED
    BY <2>1, <2>2 DEF BlockInv, Consumers
<1>18. QueueInv'
  <2>1. ASSUME NEW n \in Node, Deps[n] \subseteq built'
        PROVE  \/ ready'[n] > 0 \/ n \in Running' \/ n \in built'
               \/ outcome'[n] = "fail"
    <3>1. CASE u \in Deps[n]
      <4>1. ~failed /\ n \in last
        BY <1>3, <1>5, <1>6, <1>9, <2>1, <3>1
      <4>2. n \notin blocked
        BY <1>3, <1>5, <2>1 DEF BlockInv, SettledInv
      <4> QED
        BY <1>5, <1>8, <1>7, <4>1, <4>2 DEF below
    <3>2. CASE u \notin Deps[n]
      <4>1. Deps[n] \subseteq built
        BY <1>5, <2>1, <3>2
      <4>2. n \notin last
        BY <1>7, <3>2
      <4> QED
        BY <1>1, <1>2, <1>5, <4>1, <4>2 DEF QueueInv
    <3> QED
      BY <3>1, <3>2
  <2> QED
    BY <1>1, <2>1 DEF QueueInv
<1> QED
  BY <1>2, <1>11, <1>12, <1>13, <1>14, <1>15, <1>16, <1>17, <1>18

\* Every step of the loop, of a worker and of a host keeps it.
LEMMA SchedStep == SchedInv /\ [Next]_vars => SchedInv'
<1> SUFFICES ASSUME SchedInv, [Next]_vars PROVE SchedInv'
  OBVIOUS
<1>1. CASE UNCHANGED vars
  BY <1>1 DEF vars, SchedInv, TypeOK, SlotsRespected, OncePerNode, DepsBuilt,
       BatchInv, CountInv, SettledInv, BlockInv, QueueInv, Accounted, Running
<1>2. CASE MainStep
  BY <1>2, LoopStep, SubmitStep, RequeueStep, HandleStep, RaiseStep DEF MainStep
<1>3. CASE \E u \in Node, how \in Outcomes : Finish(u, how)
  BY <1>3, FinishStep
<1>4. CASE \E h \in Host : HostUp(h) \/ HostDown(h)
  BY <1>4, HostStep
<1> QED
  BY <1>1, <1>2, <1>3, <1>4 DEF Next

\* The inductive invariant of Executor._run holds throughout.
THEOREM SchedInvariant == Spec => []SchedInv
  BY SchedInit, SchedStep, PTL DEF Spec

\* The locals of _run keep their types; above all `used` and `remaining`,
\* from which one is taken at every result, never go below zero.
THEOREM SchedTypeCorrect == Spec => []TypeOK
<1>1. SchedInv => TypeOK
  BY DEF SchedInv
<1> QED
  BY <1>1, SchedInvariant, PTL

\* No worker is given more than its slots, whatever was requeued or lost.
THEOREM SlotsAreRespected == Spec => []SlotsRespected
<1>1. SchedInv => SlotsRespected
  BY DEF SchedInv
<1> QED
  BY <1>1, SchedInvariant, PTL

\* A node is in one place at a time, and is settled once.
THEOREM EachNodeOnce == Spec => []OncePerNode
<1>1. SchedInv => OncePerNode
  BY DEF SchedInv
<1> QED
  BY <1>1, SchedInvariant, PTL

\* Nothing is queued or runs before all its dependencies are built, -k or not.
THEOREM DependenciesFirst == Spec => []DepsBuilt
<1>1. SchedInv => DepsBuilt
  BY DEF SchedInv
<1> QED
  BY <1>1, SchedInvariant, PTL

\* max(remote, key=...): some host of a set has the most free slots.  By the
\* smallest set of hosts that has no such host.
LEMMA BestHost ==
  ASSUME NEW f \in [Host -> Int], Host # {}
  PROVE  \E h \in Host : \A other \in Host : f[other] <= f[h]
<1> DEFINE Best(S) == \E h \in S : \A other \in S : f[other] <= f[h]
           Bad == {S \in SUBSET Host : S # {} /\ ~Best(S)}
<1> SUFFICES ASSUME Bad # {} PROVE FALSE
  OBVIOUS
<1>1. \E S \in Bad : \A T \in Bad : ~(<<T, S>> \in StrictSubsetOrdering(Host))
  <2>1. /\ IsWellFoundedOn(StrictSubsetOrdering(Host), FiniteSubsetsOf(Host))
        /\ FiniteSubsetsOf(Host) = SUBSET Host
    BY WorkerAssumption, FS_StrictSubsetOrderingWellFounded,
       FS_FiniteSubsetsOfFinite
  <2>2. Bad \subseteq SUBSET Host
    OBVIOUS
  <2> HIDE DEF Bad
  <2> QED
    BY <2>1, <2>2, WFMin
<1>2. PICK S \in Bad : \A T \in Bad : ~(<<T, S>> \in StrictSubsetOrdering(Host))
  BY <1>1
<1>3. PICK x \in S : TRUE
  OBVIOUS
<1> DEFINE T == S \ {x}
<1>4. <<T, S>> \in StrictSubsetOrdering(Host)
  BY DEF StrictSubsetOrdering
<1>5. T \notin Bad
  BY <1>2, <1>4
<1>6. CASE T = {}
  <2>1. \A other \in S : other = x
    BY <1>6
  <2>2. f[x] \in Int
    OBVIOUS
  <2>3. Best(S)
    BY <2>1, <2>2
  <2> QED
    BY <2>3
<1>7. CASE T # {}
  <2>1. PICK y \in T : \A other \in T : f[other] <= f[y]
    BY <1>5, <1>7
  <2>2. \A n \in S : f[n] \in Int
    OBVIOUS
  <2>3. CASE f[x] <= f[y]
    BY <2>1, <2>3
  <2>4. CASE f[y] <= f[x]
    BY <2>1, <2>2, <2>4
  <2> QED
    BY <2>1, <2>2, <2>3, <2>4
<1> QED
  BY <1>6, <1>7

\* The branch that sleeps because no worker takes what is ready is dead: with
\* nothing in flight every slot is free, and there are jobs here.
THEOREM LoopNeverPolls == Spec => []NeverStuck
<1>1. SchedInv => NeverStuck
  <2> SUFFICES ASSUME SchedInv, Running = {}, NEW u \in Node, ready[u] > 0
               PROVE  CanPick
    BY DEF NeverStuck
  <2> USE DEF SchedInv
  <2>1. Here \in Worker /\ Host \subseteq Worker
    BY DEF Worker
  <2>2. \A w \in Worker : used[w] = 0
    <3>1. \A w \in Worker : {n \in Node : running[n] = w} = {}
      BY WorkerAssumption DEF Running, TypeOK
    <3> QED
      BY <3>1, FS_EmptySet DEF SlotsRespected
  <2>3. LocalFree > 0 /\ LocalFree \in Int
    BY <2>1, <2>2, WorkerAssumption DEF LocalFree
  <2>4. CASE u \in LocalOnly \/ \A h \in Host : FreeSlots(h) <= LocalFree
    BY <2>1, <2>3, <2>4 DEF CanPick, Picks, PickHere
  <2>5. CASE u \notin LocalOnly /\ \E h \in Host : ~(FreeSlots(h) <= LocalFree)
    <3> DEFINE f == [h \in Host |-> FreeSlots(h)]
    <3>1. \A h \in Host : FreeSlots(h) \in Int
      BY <2>1 DEF FreeSlots, TypeOK
    <3>2. f \in [Host -> Int] /\ \A h \in Host : f[h] = FreeSlots(h)
      BY <3>1
    <3> HIDE DEF f
    <3>3. PICK h \in Host : \A other \in Host : f[other] <= f[h]
      BY <2>5, <3>2, BestHost
    <3>4. \A other \in Host : FreeSlots(other) <= FreeSlots(h)
      BY <3>2, <3>3
    <3>5. FreeSlots(h) > LocalFree /\ FreeSlots(h) > 0
      BY <2>3, <2>5, <3>1, <3>4
    <3>6. h \in Worker /\ h # Here
      BY <2>1, WorkerAssumption
    <3> QED
      BY <2>5, <3>4, <3>5, <3>6 DEF CanPick, Picks, PickHost
  <2> QED
    BY <2>4, <2>5
<1> QED
  BY <1>1, SchedInvariant, PTL

\* When the loop ends, everything that could be built was, and without errors
\* that is every node: the smallest node that is not built, in the order of
\* the graph, would have been queued.
THEOREM NothingForgotten == Spec => []AllPossibleBuilt
<1>1. SchedInv => AllPossibleBuilt
  <2> SUFFICES ASSUME SchedInv, main = "end"
               PROVE  /\ \A u \in Node \ built :
                           outcome[u] = "fail" \/ ~(Deps[u] \subseteq built)
                      /\ errors = {} => built = Node
    BY DEF AllPossibleBuilt
  <2> USE DEF SchedInv
  <2>1. \A u \in Node \ built :
          outcome[u] = "fail" \/ ~(Deps[u] \subseteq built)
    BY DEF QueueInv
  <2>2. ASSUME errors = {}, built # Node PROVE FALSE
    <3>1. PICK u \in Node \ built : Deps[u] \cap (Node \ built) = {}
      BY <2>2, AcyclicAssumption DEF TypeOK
    <3>2. Deps[u] \subseteq built
      BY <3>1, GraphAssumption
    <3>3. outcome[u] = "fail" /\ running[u] = Nobody
      BY <2>1, <3>2 DEF QueueInv, Running
    <3> QED
      BY <2>2, <3>3 DEF SettledInv
  <2> QED
    BY <2>1, <2>2
<1> QED
  BY <1>1, SchedInvariant, PTL

=============================================================================
