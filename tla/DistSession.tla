---------------------------- MODULE DistSession -----------------------------
(***************************************************************************)
(* Distributed execution (src/build, RemoteHost and ExecService): one      *)
(* controller and one --dist host that talk over an ssh session which may  *)
(* drop and is then dialled again.  Connections are numbered; each one has *)
(* a service process of its own on the host, but all of them share the     *)
(* session directory there: the cache and the per-uid work directories.    *)
(*                                                                         *)
(* The thread of a node u is in RemoteHost.execute; the scheduler runs one *)
(* thread per node at a time and submits it again after HostLost.          *)
(***************************************************************************)
EXTENDS Naturals, Sequences, FiniteSets

CONSTANTS
  Uid,       \* nodes given to this host
  Blob,      \* CAS blobs
  Inputs,    \* Inputs[u]: the blobs a job names
  Outputs,   \* Outputs[u]: the blobs a successful job leaves
  MaxConns,  \* bound: connections dialled; the last one does not drop
  NoUid      \* nobody holds the write lock

Conn == 1..MaxConns

ASSUME JobAssumption ==
  /\ Inputs \in [Uid -> SUBSET Blob]
  /\ Outputs \in [Uid -> SUBSET Blob]
  /\ \A u \in Uid : IsFiniteSet(Outputs[u])
  /\ MaxConns \in Nat \ {0}
  /\ NoUid \notin Uid

VARIABLES
  conn,      \* RemoteHost.process: the current connection, 0 for None
  dialing,   \* the connection _connect is setting up, 0 for none
  dialled,   \* connections dialled so far
  closing,   \* RemoteHost.closing
  sent,      \* RemoteHost.sent, the ledger of what the host holds
  pending,   \* RemoteHost.pending
  reply,     \* each thread's DistReply
  thread,    \* where each thread stands in execute
  via,       \* the connection each thread has captured
  need,      \* the blobs it has claimed
  left,      \* those it has still to write
  writer,    \* who holds write_lock
  localCas,  \* the controller's CAS
  reader,    \* the reader thread of each connection
  up,        \* the ssh process of each connection lives
  torn,      \* the connection broke in the middle of a blob
  c2s, s2c,  \* the frames in flight
  svc,       \* the service process of each connection
  job,       \* its jobs
  hostCas,   \* session/cas on the host
  work,      \* session/tmp/<uid>: which service's job made it, 0 if absent
  crossed    \* how often each blob reached the host over the link

control == <<conn, dialing, dialled, closing>>
exec == <<thread, via, need, left, writer>>
replies == <<pending, reply>>
link == <<up, torn, c2s, s2c>>
host == <<svc, job, hostCas, work, crossed>>
vars == <<control, sent, replies, exec, localCas, reader, link, host>>

None == [t |-> "none"]
Frames(S) == {S[i] : i \in DOMAIN S}
BlobFrame(b) == [t |-> "blob", d |-> b]
JobFrame(u) == [t |-> "job", u |-> u]

Init ==
  /\ conn = 0 /\ dialing = 0 /\ dialled = 0 /\ closing = FALSE
  /\ sent = {}
  /\ pending = {}
  /\ reply = [u \in Uid |-> None]
  /\ thread = [u \in Uid |-> "idle"]
  /\ via = [u \in Uid |-> 0]
  /\ need = [u \in Uid |-> {}]
  /\ left = [u \in Uid |-> {}]
  /\ writer = NoUid
  /\ localCas = {}
  /\ reader = [c \in Conn |-> "off"]
  /\ up = [c \in Conn |-> FALSE]
  /\ torn = [c \in Conn |-> FALSE]
  /\ c2s = [c \in Conn |-> <<>>]
  /\ s2c = [c \in Conn |-> <<>>]
  /\ svc = [c \in Conn |-> "off"]
  /\ job = [c \in Conn |-> [u \in Uid |-> "none"]]
  /\ hostCas = {}
  /\ work = [u \in Uid |-> 0]
  /\ crossed = [b \in Blob |-> 0]

-----------------------------------------------------------------------------
(* The link: writing, and breaking.                                        *)

\* The ssh process dies, by itself or by process.kill(): of the frames in
\* flight a prefix arrives on each side, the last blob perhaps in part.
Cut(c) ==
  IF up[c]
  THEN /\ up' = [up EXCEPT ![c] = FALSE]
       /\ \E k \in 0..Len(c2s[c]), m \in 0..Len(s2c[c]) :
            /\ c2s' = [c2s EXCEPT ![c] = SubSeq(@, 1, k)]
            /\ s2c' = [s2c EXCEPT ![c] = SubSeq(@, 1, m)]
            /\ \/ UNCHANGED torn
               \/ /\ k < Len(c2s[c])
                  /\ c2s[c][k + 1].t = "blob"
                  /\ torn' = [torn EXCEPT ![c] = TRUE]
  ELSE UNCHANGED link

Break(c) ==
  /\ up[c]
  /\ c < MaxConns
  /\ Cut(c)
  /\ UNCHANGED <<control, sent, replies, exec, localCas, reader, host>>

\* What the service sends is lost once the link is down.
Send(c, frames) ==
  s2c' = IF up[c] THEN [s2c EXCEPT ![c] = @ \o frames] ELSE s2c

-----------------------------------------------------------------------------
(* RemoteHost: connecting.                                                 *)

\* _connect: start ssh; the service comes up and says hello; ask it which of
\* the blobs in the ledger it has.
Dial ==
  /\ conn = 0 /\ dialing = 0 /\ ~closing
  /\ dialled < MaxConns
  /\ LET c == dialled + 1
     IN  /\ dialled' = c
         /\ dialing' = c
         /\ up' = [up EXCEPT ![c] = TRUE]
         /\ svc' = [svc EXCEPT ![c] = "serve"]
         /\ c2s' = [c2s EXCEPT ![c] = <<[t |-> "have", ds |-> sent]>>]
  /\ UNCHANGED <<conn, closing, sent, replies, exec, localCas, reader, torn,
                 s2c, job, hostCas, work, crossed>>

Connected ==
  /\ dialing # 0
  /\ s2c[dialing] # <<>>
  /\ conn' = dialing
  /\ sent' = Head(s2c[dialing]).ds
  /\ s2c' = [s2c EXCEPT ![dialing] = Tail(@)]
  /\ reader' = [reader EXCEPT ![dialing] = "on"]
  /\ dialing' = 0
  /\ UNCHANGED <<dialled, closing, replies, exec, localCas, up, torn, c2s, host>>

\* No hello or no reply: process.kill(), and _reconnect_loop tries again.
DialFails ==
  /\ dialing # 0
  /\ s2c[dialing] = <<>>
  /\ ~up[dialing]
  /\ dialing' = 0
  /\ UNCHANGED <<conn, dialled, closing, sent, replies, exec, localCas, reader,
                 link, host>>

\* Mutant: the waiting threads are forgotten instead of woken.
Lost_NoWake(c) ==
  IF conn = c
  THEN conn' = 0 /\ pending' = {} /\ Cut(c) /\ UNCHANGED reply
  ELSE UNCHANGED <<conn, replies, link>>

\* _lost: unless the connection is already another one, forget it, kill the
\* ssh process, and wake every waiting thread.
Lost(c) ==
  IF conn = c
  THEN /\ conn' = 0
       /\ reply' = [u \in Uid |-> IF u \in pending THEN [t |-> "lost"]
                                                   ELSE reply[u]]
       /\ pending' = {}
       /\ Cut(c)
  ELSE UNCHANGED <<conn, replies, link>>

\* _reader: a blob goes into the CAS; an answer goes to whoever waits for
\* that uid, whichever connection it was sent on.
ReadFrame(c) ==
  /\ reader[c] = "on"
  /\ s2c[c] # <<>>
  /\ LET f == Head(s2c[c])
     IN  CASE f.t = "blob" -> /\ localCas' = localCas \cup {f.d}
                              /\ UNCHANGED replies
           [] f.t = "bye" -> UNCHANGED <<localCas, replies>>
           [] OTHER -> /\ pending' = pending \ {f.u}
                       /\ reply' = IF f.u \in pending
                                   THEN [reply EXCEPT ![f.u] = f] ELSE reply
                       /\ UNCHANGED localCas
  /\ s2c' = [s2c EXCEPT ![c] = Tail(@)]
  /\ UNCHANGED <<control, sent, exec, reader, up, torn, c2s, host>>

ReadEof(c) ==
  /\ reader[c] = "on"
  /\ s2c[c] = <<>>
  /\ ~up[c]
  /\ reader' = [reader EXCEPT ![c] = "done"]
  /\ Lost(c)
  /\ UNCHANGED <<dialing, dialled, closing, sent, exec, localCas, host>>

-----------------------------------------------------------------------------
(* RemoteHost.execute.                                                     *)

\* Capture the connection and register the reply under the state lock.
Execute(u) ==
  /\ thread[u] \in {"idle", "requeue", "again"}
  /\ conn # 0
  /\ pending' = pending \cup {u}
  /\ reply' = [reply EXCEPT ![u] = None]
  /\ via' = [via EXCEPT ![u] = conn]
  /\ thread' = [thread EXCEPT ![u] = "lock"]
  /\ UNCHANGED <<control, sent, need, left, writer, localCas, reader, link, host>>

ExecuteDown(u) ==
  /\ thread[u] \in {"idle", "again"}
  /\ conn = 0
  /\ thread' = [thread EXCEPT ![u] = "requeue"]
  /\ UNCHANGED <<control, sent, replies, via, need, left, writer, localCas,
                 reader, link, host>>

\* Mutant: the claim is not made under the write lock.
Claim_NoLock(u) ==
  /\ thread[u] = "lock"
  /\ writer' = u
  /\ need' = [need EXCEPT ![u] = Inputs[u] \ sent]
  /\ left' = [left EXCEPT ![u] = Inputs[u] \ sent]
  /\ sent' = sent \cup Inputs[u]
  /\ thread' = [thread EXCEPT ![u] = "write"]
  /\ UNCHANGED <<control, replies, via, localCas, reader, link, host>>

\* Mutant: the ledger is not updated.
Claim_NoLedger(u) ==
  /\ thread[u] = "lock"
  /\ writer = NoUid
  /\ writer' = u
  /\ need' = [need EXCEPT ![u] = Inputs[u] \ sent]
  /\ left' = [left EXCEPT ![u] = Inputs[u] \ sent]
  /\ thread' = [thread EXCEPT ![u] = "write"]
  /\ UNCHANGED <<control, sent, replies, via, localCas, reader, link, host>>

\* Under the write lock, claim the blobs that the ledger does not have.
Claim(u) ==
  /\ thread[u] = "lock"
  /\ writer = NoUid
  /\ writer' = u
  /\ need' = [need EXCEPT ![u] = Inputs[u] \ sent]
  /\ left' = [left EXCEPT ![u] = Inputs[u] \ sent]
  /\ sent' = sent \cup Inputs[u]
  /\ thread' = [thread EXCEPT ![u] = "write"]
  /\ UNCHANGED <<control, replies, via, localCas, reader, link, host>>

WriteBlob(u, b) ==
  /\ thread[u] = "write"
  /\ b \in left[u]
  /\ up[via[u]]
  /\ c2s' = [c2s EXCEPT ![via[u]] = Append(@, BlobFrame(b))]
  /\ left' = [left EXCEPT ![u] = @ \ {b}]
  /\ UNCHANGED <<control, sent, replies, thread, via, need, writer, localCas,
                 reader, up, torn, s2c, host>>

WriteJob(u) ==
  /\ thread[u] = "write"
  /\ left[u] = {}
  /\ up[via[u]]
  /\ c2s' = [c2s EXCEPT ![via[u]] = Append(@, JobFrame(u))]
  /\ writer' = NoUid
  /\ thread' = [thread EXCEPT ![u] = "wait"]
  /\ UNCHANGED <<control, sent, replies, via, need, left, localCas, reader, up,
                 torn, s2c, host>>

\* OSError: the write lock is released, then the claim is taken back ...
WriteFails(u) ==
  /\ thread[u] = "write"
  /\ ~up[via[u]]
  /\ writer' = NoUid
  /\ thread' = [thread EXCEPT ![u] = "undo"]
  /\ UNCHANGED <<control, sent, replies, via, need, left, localCas, reader,
                 link, host>>

Undo(u) ==
  /\ thread[u] = "undo"
  /\ sent' = sent \ need[u]
  /\ thread' = [thread EXCEPT ![u] = "lose"]
  /\ UNCHANGED <<control, replies, via, need, left, writer, localCas, reader,
                 link, host>>

\* ... and the connection is given up.
Lose(u) ==
  /\ thread[u] = "lose"
  /\ Lost(via[u])
  /\ thread' = [thread EXCEPT ![u] = "requeue"]
  /\ UNCHANGED <<dialing, dialled, closing, sent, via, need, left, writer,
                 localCas, reader, host>>

\* Mutant: a result adds the manifest, not its digests, to the ledger.
Wake_AddsManifest(u) ==
  /\ thread[u] = "wait"
  /\ reply[u].t = "result"
  /\ thread' = [thread EXCEPT ![u] = "done"]
  /\ sent' = sent \cup {Outputs[u]}
  /\ UNCHANGED <<control, replies, via, need, left, writer, localCas, reader,
                 link, host>>

\* reply.event.wait() returns.
Wake(u) ==
  /\ thread[u] = "wait"
  /\ reply[u].t # "none"
  /\ CASE reply[u].t = "lost" ->
            /\ thread' = [thread EXCEPT ![u] = "requeue"]
            /\ UNCHANGED sent
       [] reply[u].t = "missing" ->
            /\ thread' = [thread EXCEPT ![u] = "again"]
            /\ sent' = sent \ reply[u].ds
       [] reply[u].t = "result" /\ reply[u].why = "ok" ->
            /\ thread' = [thread EXCEPT ![u] = "done"]
            /\ sent' = sent \cup Outputs[u]
       [] OTHER ->
            /\ thread' = [thread EXCEPT ![u] = "failed"]
            /\ UNCHANGED sent
  /\ UNCHANGED <<control, replies, via, need, left, writer, localCas, reader,
                 link, host>>

\* close, after the last node: wait for a connect in flight, say bye.
Close ==
  /\ \A u \in Uid : thread[u] \in {"done", "failed"}
  /\ ~closing
  /\ dialing = 0
  /\ closing' = TRUE
  /\ conn' = 0
  /\ c2s' = IF conn # 0 /\ up[conn]
            THEN [c2s EXCEPT ![conn] = Append(@, [t |-> "bye"])] ELSE c2s
  /\ UNCHANGED <<dialing, dialled, sent, replies, exec, localCas, reader, up,
                 torn, s2c, host>>

-----------------------------------------------------------------------------
(* ExecService.                                                            *)

\* run: one frame from stdin.
Serve(c) ==
  /\ svc[c] = "serve"
  /\ c2s[c] # <<>>
  /\ LET f == Head(c2s[c])
     IN  CASE f.t = "blob" ->
                /\ hostCas' = hostCas \cup {f.d}
                /\ crossed' = [crossed EXCEPT ![f.d] = @ + 1]
                /\ UNCHANGED <<svc, job, work, up, s2c>>
           [] f.t = "have" ->
                /\ Send(c, <<[t |-> "have", ds |-> f.ds \cap hostCas]>>)
                /\ UNCHANGED <<svc, job, hostCas, work, crossed, up>>
           [] f.t = "job" ->
                /\ job[c][f.u] = "none"
                /\ job' = [job EXCEPT ![c][f.u] = "queued"]
                /\ UNCHANGED <<svc, hostCas, work, crossed, up, s2c>>
           [] f.t = "bye" ->
                /\ \A u \in Uid : job[c][u] = "none"
                /\ hostCas' = {}
                /\ work' = [u \in Uid |-> 0]
                /\ svc' = [svc EXCEPT ![c] = "gone"]
                /\ Send(c, <<[t |-> "bye"]>>)
                /\ up' = [up EXCEPT ![c] = FALSE]
                /\ UNCHANGED <<job, crossed>>
  /\ c2s' = [c2s EXCEPT ![c] = Tail(@)]
  /\ UNCHANGED <<control, sent, replies, exec, localCas, reader, torn>>

\* End of stdin between frames: _stop drops queued jobs and kills children.
ServeEof(c) ==
  /\ svc[c] = "serve"
  /\ c2s[c] = <<>>
  /\ ~up[c]
  /\ ~torn[c]
  /\ svc' = [svc EXCEPT ![c] = "stop"]
  /\ job' = [job EXCEPT ![c] = [u \in Uid |->
               CASE @[u] = "queued" -> "none"
                 [] @[u] = "run" -> "killed"
                 [] OTHER -> @[u]]]
  /\ UNCHANGED <<control, sent, replies, exec, localCas, reader, link, hostCas,
                 work, crossed>>

\* End of stdin inside a blob: the EOFError leaves run, nothing is stopped.
ServeTorn(c) ==
  /\ svc[c] = "serve"
  /\ c2s[c] = <<>>
  /\ ~up[c]
  /\ torn[c]
  /\ svc' = [svc EXCEPT ![c] = "gone"]
  /\ UNCHANGED <<control, sent, replies, exec, localCas, reader, link, job,
                 hostCas, work, crossed>>

\* The rest of _stop: the pool is empty, session/tmp is removed.
Stopped(c) ==
  /\ svc[c] = "stop"
  /\ \A u \in Uid : job[c][u] = "none"
  /\ work' = [u \in Uid |-> 0]
  /\ svc' = [svc EXCEPT ![c] = "gone"]
  /\ UNCHANGED <<control, sent, replies, exec, localCas, reader, link, job,
                 hostCas, crossed>>

EndJob(c, u) == job' = [job EXCEPT ![c][u] = "none"]
Result(u, why) == <<[t |-> "result", u |-> u, why |-> why]>>

\* _job: make the work directory; without all inputs in the cache answer
\* `missing` (and remove the directory), else link them.
JobStart(c, u) ==
  /\ job[c][u] = "queued"
  /\ IF Inputs[u] \subseteq hostCas
     THEN /\ job' = [job EXCEPT ![c][u] = "linked"]
          /\ work' = [work EXCEPT ![u] = c]
          /\ UNCHANGED s2c
     ELSE /\ EndJob(c, u)
          /\ work' = [work EXCEPT ![u] = 0]
          /\ Send(c, <<[t |-> "missing", u |-> u, ds |-> Inputs[u] \ hostCas]>>)
  /\ UNCHANGED <<control, sent, replies, exec, localCas, reader, up, torn, c2s,
                 svc, hostCas, crossed>>

JobRun(c, u) ==
  /\ job[c][u] = "linked"
  /\ job' = [job EXCEPT ![c][u] = "run"]
  /\ UNCHANGED <<control, sent, replies, exec, localCas, reader, link, svc,
                 hostCas, work, crossed>>

\* Mutant: the result goes before the blobs.
JobOk_ResultFirst(c, u) ==
  /\ job[c][u] = "run"
  /\ work[u] # 0
  /\ \E order \in [1..Cardinality(Outputs[u]) -> Outputs[u]] :
       Send(c, Result(u, "ok") \o [i \in DOMAIN order |-> BlobFrame(order[i])])
  /\ hostCas' = hostCas \cup Outputs[u]
  /\ work' = [work EXCEPT ![u] = 0]
  /\ EndJob(c, u)
  /\ UNCHANGED <<control, sent, replies, exec, localCas, reader, up, torn, c2s,
                 svc, crossed>>

\* Mutant: the whole session/tmp is removed, not the job's directory.
JobOk_RemovesTmp(c, u) ==
  /\ job[c][u] = "run"
  /\ work[u] # 0
  /\ Send(c, Result(u, "ok"))
  /\ hostCas' = hostCas \cup Outputs[u]
  /\ work' = [v \in Uid |-> 0]
  /\ EndJob(c, u)
  /\ UNCHANGED <<control, sent, replies, exec, localCas, reader, up, torn, c2s,
                 svc, crossed>>

\* The commands exit: with status 0 the outputs are in the cache, and one
\* batch carries the blobs and then the result.  `finally` removes the work
\* directory, whosever it is by now.
JobOk(c, u) ==
  /\ job[c][u] = "run"
  /\ work[u] # 0
  /\ \E order \in [1..Cardinality(Outputs[u]) -> Outputs[u]] :
       /\ Frames(order) = Outputs[u]
       /\ Send(c, [i \in DOMAIN order |-> BlobFrame(order[i])] \o Result(u, "ok"))
  /\ hostCas' = hostCas \cup Outputs[u]
  /\ work' = [work EXCEPT ![u] = 0]
  /\ EndJob(c, u)
  /\ UNCHANGED <<control, sent, replies, exec, localCas, reader, up, torn, c2s,
                 svc, crossed>>

\* A command exits non-zero; `dir` when its work directory is no longer the
\* one this job made.
JobFails(c, u) ==
  /\ job[c][u] = "run"
  /\ Send(c, Result(u, IF work[u] = c THEN "exit" ELSE "dir"))
  /\ work' = [work EXCEPT ![u] = 0]
  /\ EndJob(c, u)
  /\ UNCHANGED <<control, sent, replies, exec, localCas, reader, up, torn, c2s,
                 svc, hostCas, crossed>>

\* The killed child is reaped; its result goes nowhere.
JobKilled(c, u) ==
  /\ job[c][u] = "killed"
  /\ work' = [work EXCEPT ![u] = 0]
  /\ EndJob(c, u)
  /\ UNCHANGED <<control, sent, replies, exec, localCas, reader, link, svc,
                 hostCas, crossed>>

-----------------------------------------------------------------------------

ConnectStep == Dial \/ Connected \/ DialFails
ReaderStep(c) == ReadFrame(c) \/ ReadEof(c)
ThreadStep(u) ==
  \/ Execute(u) \/ ExecuteDown(u) \/ Claim(u) \/ WriteJob(u) \/ WriteFails(u)
  \/ Undo(u) \/ Lose(u) \/ Wake(u)
  \/ \E b \in Blob : WriteBlob(u, b)
ServiceStep(c) == Serve(c) \/ ServeEof(c) \/ ServeTorn(c) \/ Stopped(c)
JobStep(c, u) ==
  JobStart(c, u) \/ JobRun(c, u) \/ JobOk(c, u) \/ JobFails(c, u) \/ JobKilled(c, u)

Next ==
  \/ ConnectStep
  \/ Close
  \/ \E u \in Uid : ThreadStep(u)
  \/ \E c \in Conn : \/ ReaderStep(c) \/ ServiceStep(c) \/ Break(c)
                     \/ \E u \in Uid : JobStep(c, u)

Spec == Init /\ [][Next]_vars

\* Every thread and process runs; nothing makes a link break.
FairSpec ==
  /\ Spec
  /\ WF_vars(ConnectStep) /\ WF_vars(Close)
  /\ \A u \in Uid : WF_vars(ThreadStep(u))
  /\ \A c \in Conn : WF_vars(ReaderStep(c)) /\ WF_vars(ServiceStep(c))
  /\ \A c \in Conn : \A u \in Uid : WF_vars(JobStep(c, u))

-----------------------------------------------------------------------------
(* Properties.                                                             *)

Threads == {"idle", "lock", "write", "undo", "lose", "wait", "again",
            "requeue", "done", "failed"}
FrameTypes == {"blob", "job", "have", "missing", "result", "bye"}

\* The fields of RemoteHost and ExecService stay in their types.
TypeOK ==
  /\ conn \in 0..MaxConns /\ dialing \in 0..MaxConns
  /\ dialled \in 0..MaxConns /\ closing \in BOOLEAN
  /\ sent \subseteq Blob /\ localCas \subseteq Blob /\ hostCas \subseteq Blob
  /\ pending \subseteq Uid
  /\ \A u \in Uid : reply[u].t \in {"none", "lost", "missing", "result"}
  /\ thread \in [Uid -> Threads]
  /\ via \in [Uid -> 0..MaxConns]
  /\ need \in [Uid -> SUBSET Blob] /\ left \in [Uid -> SUBSET Blob]
  /\ writer \in Uid \cup {NoUid}
  /\ reader \in [Conn -> {"off", "on", "done"}]
  /\ up \in [Conn -> BOOLEAN] /\ torn \in [Conn -> BOOLEAN]
  /\ \A c \in Conn : \A f \in Frames(c2s[c]) \cup Frames(s2c[c]) :
       f.t \in FrameTypes
  /\ svc \in [Conn -> {"off", "serve", "stop", "gone"}]
  /\ job \in [Conn -> [Uid -> {"none", "queued", "linked", "run", "killed"}]]
  /\ work \in [Uid -> 0..MaxConns]
  /\ crossed \in [Blob -> Nat]

\* When execute returns a successful result, every blob its manifest names is
\* in the controller's CAS, whichever connection the answer came on: "output
\* blob missing after transfer" in _execute_remote never happens.
BlobsBeforeResult ==
  \A u \in Uid : thread[u] = "done" => Outputs[u] \subseteq localCas

\* A thread waiting for an answer has one coming: its reply is registered
\* with the connection it wrote to, or has been set.  (A reply that is in
\* neither place would block the node's thread, and the build, for good.)
NoLostWakeup ==
  \A u \in Uid : thread[u] = "wait" /\ reply[u] = None =>
    u \in pending /\ conn = via[u]

\* As long as only one connection was dialled, a job frame goes over only after
\* the blobs it needs: "a job that finds a
\* digest here writes its frame only after that blob has gone over"
\* (RemoteHost.execute).
JobFollowsItsBlobs ==
  dialled = 1 => \A c \in Conn : \A i \in DOMAIN c2s[c] : c2s[c][i].t = "job" =>
    Inputs[c2s[c][i].u] \subseteq
      hostCas \cup {b \in Blob : \E k \in 1..(i - 1) : c2s[c][k] = BlobFrame(b)}

\* No blob reaches the host twice over one connection: "every blob crosses the
\* link at most once".
CrossesOnce == dialled = 1 => \A b \in Blob : crossed[b] <= 1

\* A node only fails when its own command failed; a node whose session
\* dropped "goes back to the queue".  False once a second connection is
\* dialled: see README, section 5.
FailureIsReal ==
  \A u \in Uid : thread[u] = "failed" => reply[u].why = "exit"

\* So it is as long as only one connection was dialled, dropped or not.
FirstSessionFailureIsReal == dialled = 1 => FailureIsReal

\* Every node gets a result, once the link stops breaking.
EveryNodeEnds == \A u \in Uid : <>(thread[u] \in {"done", "failed"})

=============================================================================
