------------------------- MODULE DistSessionProofs --------------------------
(***************************************************************************)
(* Proofs about DistSession, for every set of nodes and blobs and every    *)
(* number of connections that drop at any point.  DistInv is the inductive *)
(* invariant.  Its first half holds of every connection; FirstInv is about *)
(* the first session, as long as no other was dialled.                     *)
(***************************************************************************)
EXTENDS DistSession, SequenceTheorems, FiniteSetTheorems, TLAPS

-----------------------------------------------------------------------------
(* The inductive invariant.                                                *)

Have == [t : {"have"}, ds : SUBSET Blob]
BlobFrames == [t : {"blob"}, d : Blob]
Answers == [t : {"missing"}, u : Uid, ds : SUBSET Blob]
           \cup [t : {"result"}, u : Uid, why : {"ok", "exit", "dir"}]
ToHost == Have \cup BlobFrames \cup [t : {"job"}, u : Uid] \cup [t : {"bye"}]
ToController == Have \cup BlobFrames \cup Answers \cup [t : {"bye"}]

\* TypeOK, with the frames on the two pipes and the replies in full.
Types ==
  /\ conn \in 0..MaxConns /\ dialing \in 0..MaxConns
  /\ dialled \in 0..MaxConns /\ closing \in BOOLEAN
  /\ sent \subseteq Blob /\ localCas \subseteq Blob /\ hostCas \subseteq Blob
  /\ pending \subseteq Uid
  /\ reply \in [Uid -> {None, [t |-> "lost"]} \cup Answers]
  /\ thread \in [Uid -> Threads]
  /\ via \in [Uid -> 0..MaxConns]
  /\ need \in [Uid -> SUBSET Blob] /\ left \in [Uid -> SUBSET Blob]
  /\ writer \in Uid \cup {NoUid}
  /\ reader \in [Conn -> {"off", "on", "done"}]
  /\ up \in [Conn -> BOOLEAN] /\ torn \in [Conn -> BOOLEAN]
  /\ c2s \in [Conn -> Seq(ToHost)]
  /\ s2c \in [Conn -> Seq(ToController)]
  /\ svc \in [Conn -> {"off", "serve", "stop", "gone"}]
  /\ job \in [Conn -> [Uid -> {"none", "queued", "linked", "run", "killed"}]]
  /\ work \in [Uid -> 0..MaxConns]
  /\ crossed \in [Blob -> Nat]

\* A connection that was not dialled yet is as in Init; the one being dialled is
\* the last; readers read connections that are up or were.
Untouched(c) ==
  /\ ~up[c] /\ svc[c] = "off" /\ Len(c2s[c]) = 0 /\ Len(s2c[c]) = 0
  /\ reader[c] = "off" /\ \A u \in Uid : job[c][u] = "none"
ConnInv ==
  /\ \A c \in Conn : c > dialled => Untouched(c)
  /\ dialing # 0 => conn = 0 /\ dialing = dialled /\ reader[dialing] = "off"
  /\ conn # 0 => reader[conn] # "off"
  /\ closing => dialing = 0 /\ conn = 0

\* Until the reader of c runs, nothing but the question of the ledger goes over
\* c, and its answer; after that neither is ever read.
HaveAt(c) ==
  /\ reader[c] = "off" =>
       /\ \A i \in 1..Len(c2s[c]) : c2s[c][i].t = "have"
       /\ \A i \in 1..Len(s2c[c]) : s2c[c][i].t = "have"
       /\ Len(c2s[c]) <= 1 /\ Len(s2c[c]) <= 1
       /\ Len(c2s[c]) = 0 \/ Len(s2c[c]) = 0
       /\ \A u \in Uid : job[c][u] = "none"
  /\ reader[c] # "off" =>
       /\ \A i \in 1..Len(c2s[c]) : c2s[c][i].t # "have"
       /\ \A i \in 1..Len(s2c[c]) : s2c[c][i].t # "have"
HaveInv == \A c \in Conn : HaveAt(c)

\* From the capture of a connection to the answer a thread is registered with
\* it, or has its reply; the thread that writes has the write lock.
Busy == {"lock", "write", "undo", "lose", "wait"}
ThreadInv ==
  \A u \in Uid :
    /\ thread[u] \in Busy => via[u] \in Conn /\ reader[via[u]] # "off"
    /\ thread[u] \in Busy /\ reply[u] = None => u \in pending /\ conn = via[u]
    /\ u \in pending => thread[u] \in Busy /\ reply[u] = None
    /\ thread[u] \in {"undo", "lose"} => ~up[via[u]]
    /\ thread[u] = "write" <=> writer = u
    /\ thread[u] = "done" => reply[u].t = "result" /\ reply[u].why = "ok"
    /\ thread[u] = "failed" => reply[u].t = "result" /\ reply[u].why # "ok"
    /\ closing => thread[u] \in {"done", "failed"}

\* The blobs among the frames of s before the i-th.
Before(s, i) == {b \in Blob : \E k \in 1..(i - 1) : s[k] = BlobFrame(b)}
Ok(f) == f.t = "result" /\ f.why = "ok"

\* What a result names has arrived, or is in the pipe before it.
ResultInv ==
  /\ \A u \in Uid : Ok(reply[u]) => Outputs[u] \subseteq localCas
  /\ \A c \in Conn : \A i \in 1..Len(s2c[c]) : Ok(s2c[c][i]) =>
       Outputs[s2c[c][i].u] \subseteq localCas \cup Before(s2c[c], i)

\* Nothing is written after the bye.
ByeInv ==
  \A c \in Conn : \A i \in 1..Len(c2s[c]) : c2s[c][i].t = "bye" =>
    closing /\ i = Len(c2s[c])

-----------------------------------------------------------------------------
(* The first session.                                                      *)

InFlight(c) == {b \in Blob : \E k \in 1..Len(c2s[c]) : c2s[c][k] = BlobFrame(b)}
ToWrite == IF writer = NoUid THEN {} ELSE left[writer]

\* Every job, on its way or queued, has its inputs on the host or before it.
JobsInv ==
  \A c \in Conn :
    /\ \A i \in 1..Len(c2s[c]) : c2s[c][i].t = "job" =>
         Inputs[c2s[c][i].u] \subseteq hostCas \cup Before(c2s[c], i)
    /\ \A u \in Uid : job[c][u] = "queued" => Inputs[u] \subseteq hostCas

\* So no job is answered `missing`, and none loses its work directory.
AnswersInv ==
  /\ \A c \in Conn : \A i \in 1..Len(s2c[c]) :
       /\ s2c[c][i].t # "missing"
       /\ s2c[c][i].t = "result" => s2c[c][i].why # "dir"
       /\ s2c[c][i].t = "have" => s2c[c][i].ds \subseteq hostCas
       /\ Ok(s2c[c][i]) => closing \/ Outputs[s2c[c][i].u] \subseteq hostCas
  /\ \A u \in Uid :
       /\ reply[u].t # "missing"
       /\ reply[u].t = "result" => reply[u].why # "dir"
       /\ Ok(reply[u]) => closing \/ Outputs[u] \subseteq hostCas
  /\ \A c \in Conn, u \in Uid : job[c][u] \in {"linked", "run"} => work[u] = c

\* While the link is up, the ledger is what the host has, what is on its way
\* and what the writer has claimed.
LedgerInv ==
  \A c \in Conn : up[c] /\ reader[c] # "off" =>
    /\ ~closing => sent \subseteq hostCas \cup InFlight(c) \cup ToWrite
    /\ \A u \in Uid : writer = u => Inputs[u] \subseteq sent /\ left[u] \subseteq sent
    /\ \A b \in Blob : b \in InFlight(c) \/ crossed[b] # 0 =>
         b \in sent /\ b \notin ToWrite

\* A blob is in flight once, and not after it has crossed.
OnceInv ==
  /\ \A b \in Blob : crossed[b] <= 1
  /\ (\A c \in Conn : reader[c] = "off") => \A b \in Blob : crossed[b] = 0
  /\ \A c \in Conn : \A i \in 1..Len(c2s[c]) : c2s[c][i].t = "blob" =>
       /\ crossed[c2s[c][i].d] = 0
       /\ \A k \in 1..Len(c2s[c]) : c2s[c][k] = c2s[c][i] => k = i

FirstInv == dialled <= 1 => JobsInv /\ AnswersInv /\ LedgerInv /\ OnceInv

DistInv ==
  /\ Types /\ ConnInv /\ HaveInv /\ ThreadInv /\ ResultInv /\ ByeInv
  /\ FirstInv

-----------------------------------------------------------------------------
(* What the steps leave of the pipes, frame by frame.                      *)

\* A cut leaves a prefix.
LEMMA CutPipe ==
  ASSUME NEW S, NEW s \in Seq(S), NEW k \in 0..Len(s)
  PROVE  /\ SubSeq(s, 1, k) \in Seq(S)
         /\ Len(SubSeq(s, 1, k)) = k
         /\ \A i \in 1..k : SubSeq(s, 1, k)[i] = s[i]
<1>1. Len(s) \in Nat /\ \A i \in 1..k : s[i] \in S
  BY LenProperties, ElementOfSeq
<1>2. k \in Int /\ 1 \in Int /\ k >= 0
  BY <1>1
<1>3. /\ SubSeq(s, 1, k) \in Seq(S)
      /\ Len(SubSeq(s, 1, k)) = IF 1 <= k THEN k - 1 + 1 ELSE 0
      /\ \A i \in 1..(k - 1 + 1) : SubSeq(s, 1, k)[i] = s[1 + i - 1]
  BY <1>1, <1>2, SubSeqProperties
<1>4. Len(SubSeq(s, 1, k)) = k
  BY <1>2, <1>3
<1>5. ASSUME NEW i \in 1..k PROVE SubSeq(s, 1, k)[i] = s[i]
  <2>1. 1..(k - 1 + 1) = 1..k /\ 1 + i - 1 = i
    BY <1>2
  <2> QED
    BY <1>3, <2>1
<1> QED
  BY <1>3, <1>4, <1>5

\* Reading takes the first frame.
LEMMA TailPipe ==
  ASSUME NEW S, NEW s \in Seq(S), s # <<>>
  PROVE  /\ Len(s) \in Nat \ {0} /\ Head(s) = s[1] /\ s[1] \in S
         /\ Tail(s) \in Seq(S)
         /\ Len(Tail(s)) = Len(s) - 1
         /\ \A i \in 1..(Len(s) - 1) : Tail(s)[i] = s[i + 1]
  BY EmptySeq, HeadTailProperties, ElementOfSeq, LenProperties

\* Writing adds one.
LEMMA AppendPipe ==
  ASSUME NEW S, NEW s \in Seq(S), NEW e \in S
  PROVE  /\ Append(s, e) \in Seq(S)
         /\ Len(s) \in Nat /\ Len(Append(s, e)) = Len(s) + 1
         /\ Append(s, e)[Len(s) + 1] = e
         /\ \A i \in 1..Len(s) : Append(s, e)[i] = s[i]
  BY AppendProperties, LenProperties

\* Every pipe is cut to a prefix, no link comes up, and one that stays up is whole.
Shrunk ==
  /\ c2s' \in [Conn -> Seq(ToHost)] /\ s2c' \in [Conn -> Seq(ToController)]
  /\ up' \in [Conn -> BOOLEAN] /\ torn' \in [Conn -> BOOLEAN]
  /\ \A d \in Conn :
       /\ up'[d] => up[d] /\ c2s'[d] = c2s[d]
       /\ Len(c2s'[d]) \in Nat /\ Len(c2s'[d]) <= Len(c2s[d])
       /\ \A i \in 1..Len(c2s'[d]) : c2s'[d][i] = c2s[d][i]
       /\ Len(s2c'[d]) \in Nat /\ Len(s2c'[d]) <= Len(s2c[d])
       /\ \A i \in 1..Len(s2c'[d]) : s2c'[d][i] = s2c[d][i]

\* The death of the ssh process.
LEMMA CutEffect ==
  ASSUME Types, NEW c \in Conn, Cut(c)
  PROVE  Shrunk /\ ~up'[c]
<1> USE DEF Types
<1>1. \A d \in Conn : Len(c2s[d]) \in Nat /\ Len(s2c[d]) \in Nat
  BY LenProperties
<1>2. CASE ~up[c]
  BY <1>1, <1>2 DEF Cut, Shrunk, link
<1>3. CASE up[c]
  <2>1. PICK k \in 0..Len(c2s[c]), m \in 0..Len(s2c[c]) :
          /\ c2s' = [c2s EXCEPT ![c] = SubSeq(@, 1, k)]
          /\ s2c' = [s2c EXCEPT ![c] = SubSeq(@, 1, m)]
          /\ torn' = torn \/ torn' = [torn EXCEPT ![c] = TRUE]
    BY <1>3 DEF Cut
  <2>2. up' = [up EXCEPT ![c] = FALSE]
    BY <1>3 DEF Cut
  <2>3. /\ SubSeq(c2s[c], 1, k) \in Seq(ToHost)
        /\ Len(SubSeq(c2s[c], 1, k)) = k
        /\ \A i \in 1..k : SubSeq(c2s[c], 1, k)[i] = c2s[c][i]
    BY CutPipe
  <2>4. /\ SubSeq(s2c[c], 1, m) \in Seq(ToController)
        /\ Len(SubSeq(s2c[c], 1, m)) = m
        /\ \A i \in 1..m : SubSeq(s2c[c], 1, m)[i] = s2c[c][i]
    BY CutPipe
  <2>5. up' \in [Conn -> BOOLEAN] /\ torn' \in [Conn -> BOOLEAN]
    BY <2>1, <2>2
  <2>6. c2s' \in [Conn -> Seq(ToHost)] /\ s2c' \in [Conn -> Seq(ToController)]
    BY <2>1, <2>3, <2>4
  <2>7. ASSUME NEW d \in Conn
        PROVE  /\ up'[d] => up[d] /\ c2s'[d] = c2s[d]
               /\ Len(c2s'[d]) \in Nat /\ Len(c2s'[d]) <= Len(c2s[d])
               /\ \A i \in 1..Len(c2s'[d]) : c2s'[d][i] = c2s[d][i]
               /\ Len(s2c'[d]) \in Nat /\ Len(s2c'[d]) <= Len(s2c[d])
               /\ \A i \in 1..Len(s2c'[d]) : s2c'[d][i] = s2c[d][i]
    <3>1. CASE d = c
      <4>1. c2s'[d] = SubSeq(c2s[c], 1, k) /\ s2c'[d] = SubSeq(s2c[c], 1, m) /\ ~up'[d]
        BY <2>1, <2>2, <3>1
      <4> QED
        BY <1>1, <3>1, <4>1, <2>3, <2>4
    <3>2. CASE d # c
      <4>1. c2s'[d] = c2s[d] /\ s2c'[d] = s2c[d] /\ up'[d] = up[d]
        BY <2>1, <2>2, <3>2
      <4> QED
        BY <1>1, <4>1
    <3> QED
      BY <3>1, <3>2
  <2>8. ~up'[c]
    BY <2>2
  <2> HIDE DEF Types
  <2> QED
    BY <2>5, <2>6, <2>7, <2>8 DEF Shrunk
<1> QED
  BY <1>2, <1>3

\* _lost: every waiting thread has a reply.
LEMMA LostEffect ==
  ASSUME Types, NEW c \in Conn, Lost(c)
  PROVE  /\ Shrunk
         /\ conn' = IF conn = c THEN 0 ELSE conn
         /\ pending' = IF conn = c THEN {} ELSE pending
         /\ reply' = IF conn = c
                     THEN [u \in Uid |-> IF u \in pending THEN [t |-> "lost"] ELSE reply[u]]
                     ELSE reply
         /\ conn = c => ~up'[c]
<1>1. CASE conn = c
  BY <1>1, CutEffect DEF Lost
<1>2. CASE conn # c
  <2>1. UNCHANGED <<conn, pending, reply, up, torn, c2s, s2c>>
    BY <1>2 DEF Lost, replies, link
  <2>2. \A d \in Conn : Len(c2s[d]) \in Nat /\ Len(s2c[d]) \in Nat
    BY LenProperties DEF Types
  <2>3. Shrunk
    BY <2>1, <2>2 DEF Shrunk, Types
  <2> QED
    BY <1>2, <2>1, <2>3
<1> QED
  BY <1>1, <1>2

\* What the service sends is behind what was sent before, or lost.
LEMMA SendEffect ==
  ASSUME Types, NEW c \in Conn, NEW frames \in Seq(ToController), Send(c, frames)
  PROVE  /\ s2c' \in [Conn -> Seq(ToController)]
         /\ \A d \in Conn \ {c} : s2c'[d] = s2c[d]
         /\ ~up[c] => s2c'[c] = s2c[c]
         /\ Len(s2c[c]) \in Nat /\ Len(frames) \in Nat
         /\ up[c] => /\ Len(s2c'[c]) = Len(s2c[c]) + Len(frames)
                     /\ \A i \in 1..Len(s2c[c]) : s2c'[c][i] = s2c[c][i]
                     /\ \A k \in 1..Len(frames) : s2c'[c][Len(s2c[c]) + k] = frames[k]
<1> USE DEF Types
<1>1. Len(s2c[c]) \in Nat /\ Len(frames) \in Nat
  BY LenProperties
<1>2. CASE ~up[c]
  BY <1>1, <1>2 DEF Send
<1>3. CASE up[c]
  <2>1. s2c' = [s2c EXCEPT ![c] = s2c[c] \o frames]
    BY <1>3 DEF Send
  <2>2. /\ s2c[c] \o frames \in Seq(ToController)
        /\ Len(s2c[c] \o frames) = Len(s2c[c]) + Len(frames)
        /\ \A i \in 1..(Len(s2c[c]) + Len(frames)) : (s2c[c] \o frames)[i] =
             IF i <= Len(s2c[c]) THEN s2c[c][i] ELSE frames[i - Len(s2c[c])]
    BY ConcatProperties
  <2>3. s2c'[c] = s2c[c] \o frames
    BY <2>1
  <2>4. \A i \in 1..Len(s2c[c]) : s2c'[c][i] = s2c[c][i]
    BY <1>1, <2>2, <2>3
  <2>5. ASSUME NEW k \in 1..Len(frames)
        PROVE  s2c'[c][Len(s2c[c]) + k] = frames[k]
    <3>1. /\ Len(s2c[c]) + k \in 1..(Len(s2c[c]) + Len(frames))
          /\ ~(Len(s2c[c]) + k <= Len(s2c[c])) /\ Len(s2c[c]) + k - Len(s2c[c]) = k
      BY <1>1
    <3> QED
      BY <2>2, <2>3, <3>1
  <2> QED
    BY <1>1, <1>3, <2>1, <2>2, <2>3, <2>4, <2>5
<1> QED
  BY <1>2, <1>3

\* A single frame.
LEMMA OneFrame ==
  ASSUME NEW f \in ToController
  PROVE  <<f>> \in Seq(ToController) /\ Len(<<f>>) = 1 /\ <<f>>[1] = f
  OBVIOUS

\* The batch of a successful job: its blobs, then the result.
Batch(u, order) == [i \in DOMAIN order |-> BlobFrame(order[i])] \o Result(u, "ok")

\* It carries every output before the result.
LEMMA BatchFrames ==
  ASSUME NEW u \in Uid, NEW order \in [1..Cardinality(Outputs[u]) -> Outputs[u]],
         Frames(order) = Outputs[u]
  PROVE  /\ Cardinality(Outputs[u]) \in Nat
         /\ Batch(u, order) \in Seq(ToController)
         /\ Len(Batch(u, order)) = Cardinality(Outputs[u]) + 1
         /\ \A i \in 1..Cardinality(Outputs[u]) :
              Batch(u, order)[i] = BlobFrame(order[i]) /\ order[i] \in Blob
         /\ Batch(u, order)[Cardinality(Outputs[u]) + 1]
              = [t |-> "result", u |-> u, why |-> "ok"]
         /\ \A b \in Outputs[u] :
              \E i \in 1..Cardinality(Outputs[u]) : order[i] = b
<1> DEFINE n == Cardinality(Outputs[u])
           blobs == [i \in 1..n |-> BlobFrame(order[i])]
           res == [t |-> "result", u |-> u, why |-> "ok"]
<1>1. n \in Nat
  BY JobAssumption, FS_CardinalityType
<1>2. DOMAIN order = 1..n /\ \A i \in 1..n : order[i] \in Blob
  BY JobAssumption
<1>3. \A i \in 1..n : BlobFrame(order[i]) \in ToController
  BY <1>2 DEF BlobFrame, ToController, BlobFrames
<1>4. blobs \in Seq(ToController) /\ Len(blobs) = n
  <2> HIDE DEF n
  <2> QED
    BY <1>1, <1>3
<1>5. res \in ToController
  BY DEF ToController, Answers
<1>6. <<res>> \in Seq(ToController) /\ Len(<<res>>) = 1 /\ <<res>>[1] = res
  BY <1>5, OneFrame
<1>7. Batch(u, order) = blobs \o <<res>>
  BY <1>2 DEF Batch, Result
<1>8. \A b \in Outputs[u] : \E i \in 1..n : order[i] = b
  BY <1>2 DEF Frames
<1>9. \A i \in 1..n : blobs[i] = BlobFrame(order[i])
  OBVIOUS
<1> HIDE DEF n, blobs, res
<1>10. /\ blobs \o <<res>> \in Seq(ToController)
       /\ Len(blobs \o <<res>>) = n + 1
       /\ \A i \in 1..(n + 1) : (blobs \o <<res>>)[i] =
            IF i <= n THEN blobs[i] ELSE <<res>>[i - n]
  BY <1>4, <1>6, ConcatProperties
<1>11. (blobs \o <<res>>)[n + 1] = res
  <2>1. n + 1 \in 1..(n + 1) /\ ~(n + 1 <= n) /\ n + 1 - n = 1
    BY <1>1
  <2> QED
    BY <1>6, <1>10, <2>1
<1>12. \A i \in 1..n : (blobs \o <<res>>)[i] = BlobFrame(order[i])
  BY <1>1, <1>9, <1>10
<1>13. /\ n \in Nat
       /\ Batch(u, order) \in Seq(ToController)
       /\ Len(Batch(u, order)) = n + 1
       /\ \A i \in 1..n : Batch(u, order)[i] = BlobFrame(order[i]) /\ order[i] \in Blob
       /\ Batch(u, order)[n + 1] = res
       /\ \A b \in Outputs[u] : \E i \in 1..n : order[i] = b
  BY <1>1, <1>2, <1>7, <1>8, <1>10, <1>11, <1>12
<1> QED
  BY <1>13 DEF n, res

\* r is s without its first frame, or with one more.
Rest(r, s) ==
  /\ Len(s) \in Nat \ {0} /\ Len(r) = Len(s) - 1
  /\ \A i \in 1..(Len(s) - 1) : r[i] = s[i + 1]
More(r, s, f) ==
  /\ Len(s) \in Nat /\ Len(r) = Len(s) + 1 /\ r[Len(s) + 1] = f
  /\ \A i \in 1..Len(s) : r[i] = s[i]

\* run of ExecService takes the first frame.
LEMMA ServeEffect ==
  ASSUME Types, NEW c \in Conn, Serve(c)
  PROVE  /\ svc[c] = "serve" /\ c2s[c][1] \in ToHost
         /\ c2s' \in [Conn -> Seq(ToHost)]
         /\ \A d \in Conn \ {c} : c2s'[d] = c2s[d]
         /\ Rest(c2s'[c], c2s[c])
         /\ UNCHANGED <<control, sent, replies, exec, localCas, reader, torn>>
<1>1. /\ svc[c] = "serve" /\ c2s[c] # <<>> /\ c2s' = [c2s EXCEPT ![c] = Tail(@)]
      /\ UNCHANGED <<control, sent, replies, exec, localCas, reader, torn>>
  BY DEF Serve
<1>2. c2s[c] \in Seq(ToHost)
  BY DEF Types
<1>3. /\ Len(c2s[c]) \in Nat \ {0} /\ c2s[c][1] \in ToHost
      /\ Tail(c2s[c]) \in Seq(ToHost)
      /\ Len(Tail(c2s[c])) = Len(c2s[c]) - 1
      /\ \A i \in 1..(Len(c2s[c]) - 1) : Tail(c2s[c])[i] = c2s[c][i + 1]
  BY <1>1, <1>2, TailPipe
<1>4. /\ c2s' \in [Conn -> Seq(ToHost)] /\ c2s'[c] = Tail(c2s[c])
      /\ \A d \in Conn \ {c} : c2s'[d] = c2s[d]
  BY <1>1, <1>3 DEF Types
<1> QED
  BY <1>1, <1>3, <1>4 DEF Rest

\* What it does with a blob, a question, a job and a bye.
ServeBlob(c, b) ==
  /\ c2s[c][1] = BlobFrame(b) /\ b \in Blob
  /\ hostCas' = hostCas \cup {b} /\ crossed' = [crossed EXCEPT ![b] = @ + 1]
  /\ UNCHANGED <<svc, job, work, up, s2c>>
ServeHave(c) ==
  /\ c2s[c][1].t = "have" /\ c2s[c][1].ds \in SUBSET Blob
  /\ Send(c, <<[t |-> "have", ds |-> c2s[c][1].ds \cap hostCas]>>)
  /\ UNCHANGED <<svc, job, hostCas, work, crossed, up>>
ServeJob(c, u) ==
  /\ c2s[c][1] = JobFrame(u) /\ u \in Uid /\ job[c][u] = "none"
  /\ job' = [job EXCEPT ![c][u] = "queued"]
  /\ UNCHANGED <<svc, hostCas, work, crossed, up, s2c>>
ServeBye(c) ==
  /\ c2s[c][1].t = "bye" /\ \A u \in Uid : job[c][u] = "none"
  /\ hostCas' = {} /\ work' = [u \in Uid |-> 0]
  /\ svc' = [svc EXCEPT ![c] = "gone"]
  /\ Send(c, <<[t |-> "bye"]>>)
  /\ up' = [up EXCEPT ![c] = FALSE]
  /\ UNCHANGED <<job, crossed>>

\* There is no other frame.
LEMMA ServeKinds ==
  ASSUME Types, NEW c \in Conn, Serve(c)
  PROVE  \/ \E b \in Blob : ServeBlob(c, b)
         \/ ServeHave(c)
         \/ \E u \in Uid : ServeJob(c, u)
         \/ ServeBye(c)
<1> DEFINE f == c2s[c][1]
<1>1. f \in ToHost /\ Head(c2s[c]) = f
  <2>1. c2s[c] \in Seq(ToHost) /\ c2s[c] # <<>>
    BY DEF Types, Serve
  <2> QED
    BY <2>1, TailPipe
<1>2. CASE f \in BlobFrames
  <2>1. f.t = "blob" /\ f.d \in Blob /\ f = BlobFrame(f.d)
    BY <1>2 DEF BlobFrames, BlobFrame
  <2>2. ServeBlob(c, f.d)
    BY <1>1, <2>1 DEF Serve, ServeBlob
  <2> QED
    BY <2>1, <2>2
<1>3. CASE f \in Have
  <2>1. f.t = "have" /\ f.ds \in SUBSET Blob
    BY <1>3 DEF Have
  <2> QED
    BY <1>1, <2>1 DEF Serve, ServeHave
<1>4. CASE f \in [t : {"job"}, u : Uid]
  <2>1. f.t = "job" /\ f.u \in Uid /\ f = JobFrame(f.u)
    BY <1>4 DEF JobFrame
  <2>2. ServeJob(c, f.u)
    BY <1>1, <2>1 DEF Serve, ServeJob
  <2> QED
    BY <2>1, <2>2
<1>5. CASE f \in [t : {"bye"}]
  <2>1. f.t = "bye"
    BY <1>5
  <2> QED
    BY <1>1, <2>1 DEF Serve, ServeBye
<1> QED
  BY <1>1, <1>2, <1>3, <1>4, <1>5 DEF ToHost

\* A write by the controller goes behind the others.
LEMMA WriteEffect ==
  ASSUME Types, NEW c \in Conn, NEW f \in ToHost,
         c2s' = [c2s EXCEPT ![c] = Append(@, f)]
  PROVE  /\ c2s' \in [Conn -> Seq(ToHost)]
         /\ \A d \in Conn \ {c} : c2s'[d] = c2s[d]
         /\ More(c2s'[c], c2s[c], f)
<1>1. c2s[c] \in Seq(ToHost)
  BY DEF Types
<1>2. /\ Append(c2s[c], f) \in Seq(ToHost)
      /\ Len(c2s[c]) \in Nat /\ Len(Append(c2s[c], f)) = Len(c2s[c]) + 1
      /\ Append(c2s[c], f)[Len(c2s[c]) + 1] = f
      /\ \A i \in 1..Len(c2s[c]) : Append(c2s[c], f)[i] = c2s[c][i]
  BY <1>1, AppendPipe
<1>3. /\ c2s' \in [Conn -> Seq(ToHost)] /\ c2s'[c] = Append(c2s[c], f)
      /\ \A d \in Conn \ {c} : c2s'[d] = c2s[d]
  BY <1>2 DEF Types
<1> QED
  BY <1>2, <1>3 DEF More

\* A read by the controller takes the first frame.
LEMMA ReadEffect ==
  ASSUME Types, NEW c \in Conn, s2c[c] # <<>>,
         s2c' = [s2c EXCEPT ![c] = Tail(@)]
  PROVE  /\ s2c' \in [Conn -> Seq(ToController)]
         /\ Head(s2c[c]) = s2c[c][1] /\ s2c[c][1] \in ToController
         /\ \A d \in Conn \ {c} : s2c'[d] = s2c[d]
         /\ Rest(s2c'[c], s2c[c])
<1>1. s2c[c] \in Seq(ToController)
  BY DEF Types
<1>2. /\ Len(s2c[c]) \in Nat \ {0} /\ s2c[c][1] \in ToController
      /\ Head(s2c[c]) = s2c[c][1]
      /\ Tail(s2c[c]) \in Seq(ToController)
      /\ Len(Tail(s2c[c])) = Len(s2c[c]) - 1
      /\ \A i \in 1..(Len(s2c[c]) - 1) : Tail(s2c[c])[i] = s2c[c][i + 1]
  BY <1>1, TailPipe
<1>3. /\ s2c' \in [Conn -> Seq(ToController)] /\ s2c'[c] = Tail(s2c[c])
      /\ \A d \in Conn \ {c} : s2c'[d] = s2c[d]
  BY <1>2 DEF Types
<1> QED
  BY <1>2, <1>3 DEF Rest

\* _reader stores a blob, hands an answer to who waits for it, or sees the bye.
ReadBlob(c, b) ==
  /\ s2c[c][1] = BlobFrame(b) /\ b \in Blob
  /\ localCas' = localCas \cup {b} /\ UNCHANGED replies
ReadAnswer(c, f) ==
  /\ s2c[c][1] = f /\ f \in Answers
  /\ pending' = pending \ {f.u}
  /\ reply' = IF f.u \in pending THEN [reply EXCEPT ![f.u] = f] ELSE reply
  /\ UNCHANGED localCas
ReadBye(c) ==
  /\ s2c[c][1].t = "bye" /\ UNCHANGED <<localCas, replies>>

\* There is no other frame once the reader runs.
LEMMA ReadKinds ==
  ASSUME Types, HaveInv, NEW c \in Conn, ReadFrame(c)
  PROVE  \/ \E b \in Blob : ReadBlob(c, b)
         \/ \E f \in Answers : ReadAnswer(c, f)
         \/ ReadBye(c)
<1> DEFINE f == s2c[c][1]
<1>1. f \in ToController /\ Head(s2c[c]) = f /\ f.t # "have"
  <2>1. s2c[c] \in Seq(ToController) /\ s2c[c] # <<>> /\ reader[c] = "on"
    BY DEF Types, ReadFrame
  <2>2. f \in ToController /\ Head(s2c[c]) = f /\ Len(s2c[c]) \in Nat \ {0}
    BY <2>1, TailPipe
  <2>3. 1 \in 1..Len(s2c[c])
    BY <2>2
  <2>4. \A i \in 1..Len(s2c[c]) : s2c[c][i].t # "have"
    BY <2>1 DEF HaveInv, HaveAt
  <2> QED
    BY <2>2, <2>3, <2>4
<1>2. CASE f \in BlobFrames
  <2>1. f.t = "blob" /\ f.d \in Blob /\ f = BlobFrame(f.d)
    BY <1>2 DEF BlobFrames, BlobFrame
  <2>2. ReadBlob(c, f.d)
    BY <1>1, <2>1 DEF ReadFrame, ReadBlob
  <2> QED
    BY <2>1, <2>2
<1>3. CASE f \in Answers
  <2>1. f.t \notin {"blob", "bye"}
    BY <1>3 DEF Answers
  <2>2. ReadAnswer(c, f)
    BY <1>1, <1>3, <2>1 DEF ReadFrame, ReadAnswer
  <2> QED
    BY <1>3, <2>2
<1>4. CASE f \in [t : {"bye"}]
  <2>1. f.t = "bye"
    BY <1>4
  <2> QED
    BY <1>1, <2>1 DEF ReadFrame, ReadBye
<1> QED
  BY <1>1, <1>2, <1>3, <1>4 DEF ToController, Have

\* reply.event.wait() returns with a lost connection, with blobs that are
\* missing, with a result or with a failure.
LEMMA WakeKinds ==
  ASSUME Types, NEW u \in Uid, Wake(u)
  PROVE  /\ thread[u] = "wait" /\ reply[u] # None
         /\ UNCHANGED <<control, replies, via, need, left, writer, localCas,
                        reader, link, host>>
         /\ \/ /\ reply[u].t = "lost" /\ sent' = sent
               /\ thread' = [thread EXCEPT ![u] = "requeue"]
            \/ /\ reply[u].t = "missing" /\ sent' = sent \ reply[u].ds
               /\ thread' = [thread EXCEPT ![u] = "again"]
            \/ /\ Ok(reply[u]) /\ sent' = sent \cup Outputs[u]
               /\ thread' = [thread EXCEPT ![u] = "done"]
            \/ /\ reply[u].t = "result" /\ reply[u].why # "ok" /\ sent' = sent
               /\ thread' = [thread EXCEPT ![u] = "failed"]
<1>1. /\ thread[u] = "wait" /\ reply[u].t # "none"
      /\ UNCHANGED <<control, replies, via, need, left, writer, localCas,
                     reader, link, host>>
  BY DEF Wake
<1>2. reply[u].t \in {"none", "lost", "missing", "result"}
  <2>1. reply[u] \in {None, [t |-> "lost"]} \cup Answers
    BY DEF Types
  <2> QED
    BY <2>1 DEF None, Answers
<1>3. reply[u] # None
  BY <1>1 DEF None
<1>4. CASE reply[u].t = "lost"
  BY <1>1, <1>3, <1>4 DEF Wake
<1>5. CASE reply[u].t = "missing"
  BY <1>1, <1>3, <1>5 DEF Wake
<1>6. CASE reply[u].t = "result"
  BY <1>1, <1>3, <1>6 DEF Wake, Ok
<1> QED
  BY <1>1, <1>2, <1>4, <1>5, <1>6

\* Every step keeps the types.
LEMMA TypesStep == DistInv /\ [Next]_vars => Types'
<1> SUFFICES ASSUME DistInv, [Next]_vars PROVE Types'
  OBVIOUS
<1> USE JobAssumption
<1> USE DEF DistInv, Types, Threads, control, exec, replies, link, host
<1>1. CASE UNCHANGED vars
  BY <1>1 DEF vars
<1>2. CASE Dial
  <2>1. dialled + 1 \in Conn
    BY <1>2 DEF Dial, Conn
  <2>2. [t |-> "have", ds |-> sent] \in ToHost
    BY DEF ToHost, Have
  <2>3. c2s' \in [Conn -> Seq(ToHost)]
    BY <1>2, <2>1, <2>2 DEF Dial
  <2> QED
    BY <1>2, <2>1, <2>3 DEF Dial, Conn
<1>3. CASE Connected
  <2>1. dialing \in Conn /\ reader[dialing] = "off"
    BY <1>3 DEF Connected, Conn, ConnInv
  <2>2. /\ s2c' \in [Conn -> Seq(ToController)]
        /\ Head(s2c[dialing]) = s2c[dialing][1]
        /\ s2c[dialing][1] \in ToController
        /\ Len(s2c[dialing]) \in Nat \ {0}
    BY <1>3, <2>1, ReadEffect DEF Connected, Rest
  <2>3. s2c[dialing][1].t = "have"
    BY <2>1, <2>2 DEF HaveInv, HaveAt
  <2>4. sent' \subseteq Blob
    BY <1>3, <2>2, <2>3 DEF Connected, ToController, BlobFrames, Answers, Have
  <2>5. conn' \in 0..MaxConns /\ dialing' \in 0..MaxConns
    BY <1>3 DEF Connected
  <2>6. reader' \in [Conn -> {"off", "on", "done"}]
    BY <1>3 DEF Connected
  <2> QED
    BY <1>3, <2>2, <2>4, <2>5, <2>6 DEF Connected
<1>4. CASE DialFails
  BY <1>4 DEF DialFails
<1>5. CASE Close
  <2>1. [t |-> "bye"] \in ToHost
    BY DEF ToHost
  <2>2. c2s' \in [Conn -> Seq(ToHost)]
    <3>1. CASE conn # 0 /\ up[conn]
      BY <1>5, <2>1, <3>1, WriteEffect DEF Close, Conn
    <3>2. CASE ~(conn # 0 /\ up[conn])
      BY <1>5, <3>2 DEF Close
    <3> QED
      BY <3>1, <3>2
  <2> QED
    BY <1>5, <2>2 DEF Close
<1>6. ASSUME NEW u \in Uid, Execute(u) PROVE Types'
  BY <1>6 DEF Execute
<1>7. ASSUME NEW u \in Uid, ExecuteDown(u) PROVE Types'
  BY <1>7 DEF ExecuteDown
<1>8. ASSUME NEW u \in Uid, Claim(u) PROVE Types'
  BY <1>8 DEF Claim
<1>9. ASSUME NEW u \in Uid, WriteJob(u) PROVE Types'
  <2>1. via[u] \in Conn
    BY <1>9 DEF WriteJob, ThreadInv, Busy
  <2>2. JobFrame(u) \in ToHost
    BY DEF JobFrame, ToHost
  <2>3. c2s' \in [Conn -> Seq(ToHost)]
    BY <1>9, <2>1, <2>2, WriteEffect DEF WriteJob
  <2> QED
    BY <1>9, <2>3 DEF WriteJob
<1>10. ASSUME NEW u \in Uid, WriteFails(u) PROVE Types'
  BY <1>10 DEF WriteFails
<1>11. ASSUME NEW u \in Uid, Undo(u) PROVE Types'
  BY <1>11 DEF Undo
<1>12. ASSUME NEW u \in Uid, Lose(u) PROVE Types'
  <2>1. via[u] \in Conn
    BY <1>12 DEF Lose, ThreadInv, Busy
  <2>2. /\ Shrunk
        /\ conn' = IF conn = via[u] THEN 0 ELSE conn
        /\ pending' = IF conn = via[u] THEN {} ELSE pending
        /\ reply' = IF conn = via[u]
                    THEN [v \in Uid |-> IF v \in pending THEN [t |-> "lost"] ELSE reply[v]]
                    ELSE reply
    BY <1>12, <2>1, LostEffect DEF Lose
  <2> QED
    BY <1>12, <2>2 DEF Lose, Shrunk
<1>13. ASSUME NEW u \in Uid, Wake(u) PROVE Types'
  <2>1. UNCHANGED <<control, replies, via, need, left, writer, localCas,
                     reader, link, host>>
    BY <1>13, WakeKinds
  <2>2. /\ sent' \in {sent, sent \ reply[u].ds, sent \cup Outputs[u]}
        /\ \E pc \in {"requeue", "again", "done", "failed"} :
             thread' = [thread EXCEPT ![u] = pc]
    BY <1>13, WakeKinds
  <2>3. sent' \subseteq Blob
    BY <2>2
  <2>4. thread' \in [Uid -> Threads]
    BY <2>2
  <2> QED
    BY <2>1, <2>3, <2>4
<1>14. ASSUME NEW u \in Uid, NEW b \in Blob, WriteBlob(u, b) PROVE Types'
  <2>1. via[u] \in Conn
    BY <1>14 DEF WriteBlob, ThreadInv, Busy
  <2>2. BlobFrame(b) \in ToHost
    BY DEF BlobFrame, ToHost, BlobFrames
  <2>3. c2s' \in [Conn -> Seq(ToHost)]
    BY <1>14, <2>1, <2>2, WriteEffect DEF WriteBlob
  <2> QED
    BY <1>14, <2>3 DEF WriteBlob
<1>15. ASSUME NEW c \in Conn, ReadFrame(c) PROVE Types'
  <2>1. /\ s2c' \in [Conn -> Seq(ToController)]
        /\ UNCHANGED <<control, sent, exec, reader, up, torn, c2s, host>>
    BY <1>15, ReadEffect DEF ReadFrame
  <2>2. ASSUME NEW b \in Blob, ReadBlob(c, b) PROVE Types'
    BY <2>1, <2>2 DEF ReadBlob
  <2>3. ASSUME NEW f \in Answers, ReadAnswer(c, f) PROVE Types'
    BY <2>1, <2>3 DEF ReadAnswer
  <2>4. CASE ReadBye(c)
    BY <2>1, <2>4 DEF ReadBye
  <2> QED
    BY <1>15, <2>2, <2>3, <2>4, ReadKinds
<1>16. ASSUME NEW c \in Conn, ReadEof(c) PROVE Types'
  <2>1. /\ Shrunk
        /\ conn' = IF conn = c THEN 0 ELSE conn
        /\ pending' = IF conn = c THEN {} ELSE pending
        /\ reply' = IF conn = c
                    THEN [v \in Uid |-> IF v \in pending THEN [t |-> "lost"] ELSE reply[v]]
                    ELSE reply
    BY <1>16, LostEffect DEF ReadEof
  <2>2. /\ conn' \in 0..MaxConns /\ pending' \subseteq Uid
        /\ reply' \in [Uid -> {None, [t |-> "lost"]} \cup Answers]
        /\ reader' \in [Conn -> {"off", "on", "done"}]
    BY <1>16, <2>1 DEF ReadEof
  <2> QED
    BY <1>16, <2>1, <2>2 DEF ReadEof, Shrunk
<1>17. ASSUME NEW c \in Conn, Serve(c) PROVE Types'
  <2>1. /\ c2s' \in [Conn -> Seq(ToHost)]
        /\ UNCHANGED <<control, sent, replies, exec, localCas, reader, torn>>
    BY <1>17, ServeEffect
  <2>2. ASSUME NEW b \in Blob, ServeBlob(c, b) PROVE Types'
    BY <2>1, <2>2 DEF ServeBlob
  <2>3. CASE ServeHave(c)
    <3>1. [t |-> "have", ds |-> c2s[c][1].ds \cap hostCas] \in ToController
      BY <2>3 DEF ServeHave, ToController, Have
    <3>2. s2c' \in [Conn -> Seq(ToController)]
      BY <2>3, <3>1, OneFrame, SendEffect DEF ServeHave
    <3> QED
      BY <2>1, <2>3, <3>2 DEF ServeHave
  <2>4. ASSUME NEW u \in Uid, ServeJob(c, u) PROVE Types'
    BY <2>1, <2>4 DEF ServeJob
  <2>5. CASE ServeBye(c)
    <3>1. [t |-> "bye"] \in ToController
      BY DEF ToController
    <3>2. s2c' \in [Conn -> Seq(ToController)]
      BY <2>5, <3>1, OneFrame, SendEffect DEF ServeBye
    <3>3. work' \in [Uid -> 0..MaxConns] /\ svc' \in [Conn -> {"off", "serve", "stop", "gone"}]
      BY <2>5 DEF ServeBye
    <3> QED
      BY <2>1, <2>5, <3>2, <3>3 DEF ServeBye
  <2> QED
    BY <1>17, <2>2, <2>3, <2>4, <2>5, ServeKinds
<1>18. ASSUME NEW c \in Conn, ServeEof(c) PROVE Types'
  BY <1>18 DEF ServeEof
<1>19. ASSUME NEW c \in Conn, ServeTorn(c) PROVE Types'
  BY <1>19 DEF ServeTorn
<1>20. ASSUME NEW c \in Conn, Stopped(c) PROVE Types'
  BY <1>20 DEF Stopped
<1>21. ASSUME NEW c \in Conn, Break(c) PROVE Types'
  <2>1. Shrunk
    BY <1>21, CutEffect DEF Break
  <2> QED
    BY <1>21, <2>1 DEF Break, Shrunk
<1>22. ASSUME NEW c \in Conn, NEW u \in Uid, JobStart(c, u) PROVE Types'
  <2>0. 0 \in 0..MaxConns /\ c \in 0..MaxConns
    BY DEF Conn
  <2>1. CASE Inputs[u] \subseteq hostCas
    <3>1. /\ job' = [job EXCEPT ![c][u] = "linked"]
          /\ work' = [work EXCEPT ![u] = c] /\ UNCHANGED s2c
          /\ UNCHANGED <<control, sent, replies, exec, localCas, reader, up,
                         torn, c2s, svc, hostCas, crossed>>
      BY <1>22, <2>1 DEF JobStart
    <3> QED
      BY <2>0, <3>1
  <2>2. CASE ~(Inputs[u] \subseteq hostCas)
    <3>1. [t |-> "missing", u |-> u, ds |-> Inputs[u] \ hostCas] \in ToController
      BY DEF ToController, Answers
    <3>2. s2c' \in [Conn -> Seq(ToController)]
      BY <1>22, <2>2, <3>1, OneFrame, SendEffect DEF JobStart
    <3>3. /\ job' = [job EXCEPT ![c][u] = "none"] /\ work' = [work EXCEPT ![u] = 0]
          /\ UNCHANGED <<control, sent, replies, exec, localCas, reader, up,
                         torn, c2s, svc, hostCas, crossed>>
      BY <1>22, <2>2 DEF JobStart, EndJob
    <3> QED
      BY <2>0, <3>2, <3>3
  <2> QED
    BY <2>1, <2>2
<1>23. ASSUME NEW c \in Conn, NEW u \in Uid, JobRun(c, u) PROVE Types'
  BY <1>23 DEF JobRun
<1>24. ASSUME NEW c \in Conn, NEW u \in Uid, JobOk(c, u) PROVE Types'
  <2>0. 0 \in 0..MaxConns /\ c \in 0..MaxConns
    BY DEF Conn
  <2>1. s2c' \in [Conn -> Seq(ToController)]
    <3>1. PICK order \in [1..Cardinality(Outputs[u]) -> Outputs[u]] :
            Frames(order) = Outputs[u] /\ Send(c, Batch(u, order))
      BY <1>24 DEF JobOk, Batch
    <3> QED
      BY <3>1, BatchFrames, SendEffect
  <2> QED
    BY <1>24, <2>0, <2>1 DEF JobOk, EndJob
<1>25. ASSUME NEW c \in Conn, NEW u \in Uid, JobFails(c, u) PROVE Types'
  <2>0. 0 \in 0..MaxConns /\ c \in 0..MaxConns
    BY DEF Conn
  <2>1. [t |-> "result", u |-> u, why |-> IF work[u] = c THEN "exit" ELSE "dir"] \in ToController
    BY DEF ToController, Answers
  <2>2. s2c' \in [Conn -> Seq(ToController)]
    BY <1>25, <2>1, OneFrame, SendEffect DEF JobFails, Result
  <2> QED
    BY <1>25, <2>0, <2>2 DEF JobFails, EndJob
<1>26. ASSUME NEW c \in Conn, NEW u \in Uid, JobKilled(c, u) PROVE Types'
  <2>0. 0 \in 0..MaxConns /\ c \in 0..MaxConns
    BY DEF Conn
  <2> QED
    BY <1>26, <2>0 DEF JobKilled, EndJob
<1> HIDE DEF DistInv, Types, Threads, control, exec, replies, link, host
<1> QED
  BY <1>1, <1>2, <1>3, <1>4, <1>5, <1>6, <1>7, <1>8, <1>9, <1>10, <1>11,
     <1>12, <1>13, <1>14, <1>15, <1>16, <1>17, <1>18, <1>19, <1>20, <1>21,
     <1>22, <1>23, <1>24, <1>25, <1>26
     DEF Next, ConnectStep, ReaderStep, ThreadStep, ServiceStep, JobStep

\* A reply is taken out of `pending` when it is set, under the state lock; the
\* write lock has one holder.
LEMMA ThreadInvStep == DistInv /\ [Next]_vars => ThreadInv'
<1> SUFFICES ASSUME DistInv, [Next]_vars PROVE ThreadInv'
  OBVIOUS
<1> USE JobAssumption
<1> USE DEF DistInv, Types, control, exec, replies, link, host
<1>1. CASE UNCHANGED vars
  BY <1>1 DEF vars, ThreadInv, Busy
<1>2. CASE Dial
  <2>1. dialled + 1 \in Conn /\ up' = [up EXCEPT ![dialled + 1] = TRUE]
    BY <1>2 DEF Dial, Conn
  <2>2. reader[dialled + 1] = "off"
    BY <2>1 DEF ConnInv, Untouched
  <2>3. UNCHANGED <<conn, closing, replies, exec, reader>>
    BY <1>2 DEF Dial
  <2> QED
    BY <2>1, <2>2, <2>3 DEF ThreadInv, Busy
<1>3. CASE Connected
  <2>1. dialing \in Conn /\ conn = 0
    BY <1>3 DEF Connected, Conn, ConnInv
  <2>2. \A v \in Uid : thread[v] \in Busy => reply[v] # None
    BY <2>1 DEF ThreadInv, Conn
  <2>3. /\ UNCHANGED <<closing, replies, exec, up>>
        /\ reader' = [reader EXCEPT ![dialing] = "on"]
    BY <1>3 DEF Connected
  <2> QED
    BY <2>1, <2>2, <2>3 DEF ThreadInv, Busy
<1>4. CASE DialFails
  BY <1>4 DEF DialFails, ThreadInv, Busy
<1>5. CASE Close
  BY <1>5 DEF Close, ThreadInv, Busy
<1>6. ASSUME NEW u \in Uid, Execute(u) PROVE ThreadInv'
  <2>1. conn \in Conn /\ reader[conn] # "off" /\ ~closing
    BY <1>6 DEF Execute, Conn, ConnInv
  <2> QED
    BY <1>6, <2>1 DEF Execute, ThreadInv, Busy
<1>7. ASSUME NEW u \in Uid, ExecuteDown(u) PROVE ThreadInv'
  BY <1>7 DEF ExecuteDown, ThreadInv, Busy
<1>8. ASSUME NEW u \in Uid, Claim(u) PROVE ThreadInv'
  BY <1>8 DEF Claim, ThreadInv, Busy
<1>9. ASSUME NEW u \in Uid, WriteJob(u) PROVE ThreadInv'
  BY <1>9 DEF WriteJob, ThreadInv, Busy
<1>10. ASSUME NEW u \in Uid, WriteFails(u) PROVE ThreadInv'
  BY <1>10 DEF WriteFails, ThreadInv, Busy
<1>11. ASSUME NEW u \in Uid, Undo(u) PROVE ThreadInv'
  BY <1>11 DEF Undo, ThreadInv, Busy
<1>12. ASSUME NEW u \in Uid, Lose(u) PROVE ThreadInv'
  <2>1. via[u] \in Conn /\ thread[u] = "lose"
    BY <1>12 DEF Lose, ThreadInv, Busy
  <2>2. /\ \A d \in Conn : up'[d] => up[d]
        /\ conn' = IF conn = via[u] THEN 0 ELSE conn
        /\ pending' = IF conn = via[u] THEN {} ELSE pending
        /\ \A v \in Uid : reply'[v] = IF conn = via[u] /\ v \in pending
                                      THEN [t |-> "lost"] ELSE reply[v]
    BY <1>12, <2>1, LostEffect DEF Lose, Shrunk
  <2>3. [t |-> "lost"] # None
    BY DEF None
  <2>4. u \in pending => conn = via[u]
    BY <2>1 DEF ThreadInv, Busy
  <2> QED
    BY <1>12, <2>1, <2>2, <2>3, <2>4 DEF Lose, ThreadInv, Busy
<1>13. ASSUME NEW u \in Uid, Wake(u) PROVE ThreadInv'
  <2>1. /\ thread[u] = "wait" /\ reply[u] # None
        /\ UNCHANGED <<control, replies, via, need, left, writer, localCas,
                       reader, link, host>>
    BY <1>13, WakeKinds
  <2>2. u \notin pending
    BY <2>1 DEF ThreadInv
  <2>3. \E pc \in {"requeue", "again", "done", "failed"} :
          /\ thread' = [thread EXCEPT ![u] = pc]
          /\ pc = "done" => Ok(reply[u])
          /\ pc = "failed" => reply[u].t = "result" /\ reply[u].why # "ok"
    BY <1>13, WakeKinds
  <2> QED
    BY <2>1, <2>2, <2>3 DEF ThreadInv, Busy, Ok
<1>14. ASSUME NEW u \in Uid, NEW b \in Blob, WriteBlob(u, b) PROVE ThreadInv'
  BY <1>14 DEF WriteBlob, ThreadInv, Busy
<1>15. ASSUME NEW c \in Conn, ReadFrame(c) PROVE ThreadInv'
  <2>1. UNCHANGED <<control, sent, exec, reader, up>>
    BY <1>15 DEF ReadFrame
  <2>2. CASE UNCHANGED replies
    BY <2>1, <2>2 DEF ThreadInv, Busy
  <2>3. ASSUME NEW f \in Answers, ReadAnswer(c, f) PROVE ThreadInv'
    <3>1. f.u \in Uid /\ f # None
      BY DEF Answers, None
    <3>2. /\ pending' = pending \ {f.u}
          /\ \A v \in Uid : reply'[v] = IF v = f.u /\ v \in pending THEN f ELSE reply[v]
      BY <2>3, <3>1 DEF ReadAnswer
    <3> QED
      BY <2>1, <3>1, <3>2 DEF ThreadInv, Busy
  <2> QED
    BY <1>15, <2>2, <2>3, ReadKinds DEF ReadBlob, ReadBye
<1>16. ASSUME NEW c \in Conn, ReadEof(c) PROVE ThreadInv'
  <2>1. c \in Conn
    BY <1>16 DEF ReadEof, ThreadInv, Busy
  <2>2. /\ \A d \in Conn : up'[d] => up[d]
        /\ conn' = IF conn = c THEN 0 ELSE conn
        /\ pending' = IF conn = c THEN {} ELSE pending
        /\ \A v \in Uid : reply'[v] = IF conn = c /\ v \in pending
                                      THEN [t |-> "lost"] ELSE reply[v]
    BY <1>16, <2>1, LostEffect DEF ReadEof, Shrunk
  <2>3. [t |-> "lost"] # None
    BY DEF None
  <2> QED
    BY <1>16, <2>2, <2>3 DEF ReadEof, ThreadInv, Busy
<1>17. ASSUME NEW c \in Conn, Serve(c) PROVE ThreadInv'
  <2>1. UNCHANGED <<control, sent, replies, exec, localCas, reader, torn>>
    BY <1>17, ServeEffect
  <2>2. \A d \in Conn : up'[d] => up[d]
    <3>1. up' = up \/ up' = [up EXCEPT ![c] = FALSE]
      BY <1>17, ServeKinds DEF ServeBlob, ServeHave, ServeJob, ServeBye
    <3>2. CASE up' = up
      BY <3>2
    <3>3. CASE up' = [up EXCEPT ![c] = FALSE]
      BY <3>3
    <3> QED
      BY <3>1, <3>2, <3>3
  <2> QED
    BY <2>1, <2>2 DEF ThreadInv, Busy
<1>18. ASSUME NEW c \in Conn, ServeEof(c) PROVE ThreadInv'
  BY <1>18 DEF ServeEof, ThreadInv, Busy
<1>19. ASSUME NEW c \in Conn, ServeTorn(c) PROVE ThreadInv'
  BY <1>19 DEF ServeTorn, ThreadInv, Busy
<1>20. ASSUME NEW c \in Conn, Stopped(c) PROVE ThreadInv'
  BY <1>20 DEF Stopped, ThreadInv, Busy
<1>21. ASSUME NEW c \in Conn, Break(c) PROVE ThreadInv'
  <2>1. \A d \in Conn : up'[d] => up[d]
    BY <1>21, CutEffect DEF Break, Shrunk
  <2> QED
    BY <1>21, <2>1 DEF Break, ThreadInv, Busy
<1>22. ASSUME NEW c \in Conn, NEW u \in Uid, JobStart(c, u) PROVE ThreadInv'
  BY <1>22 DEF JobStart, ThreadInv, Busy
<1>23. ASSUME NEW c \in Conn, NEW u \in Uid, JobRun(c, u) PROVE ThreadInv'
  BY <1>23 DEF JobRun, ThreadInv, Busy
<1>24. ASSUME NEW c \in Conn, NEW u \in Uid, JobOk(c, u) PROVE ThreadInv'
  BY <1>24 DEF JobOk, ThreadInv, Busy
<1>25. ASSUME NEW c \in Conn, NEW u \in Uid, JobFails(c, u) PROVE ThreadInv'
  BY <1>25 DEF JobFails, ThreadInv, Busy
<1>26. ASSUME NEW c \in Conn, NEW u \in Uid, JobKilled(c, u) PROVE ThreadInv'
  BY <1>26 DEF JobKilled, ThreadInv, Busy
<1> HIDE DEF DistInv, Types, control, exec, replies, link, host
<1> QED
  BY <1>1, <1>2, <1>3, <1>4, <1>5, <1>6, <1>7, <1>8, <1>9, <1>10, <1>11,
     <1>12, <1>13, <1>14, <1>15, <1>16, <1>17, <1>18, <1>19, <1>20, <1>21,
     <1>22, <1>23, <1>24, <1>25, <1>26
     DEF Next, ConnectStep, ReaderStep, ThreadStep, ServiceStep, JobStep

\* One frame more, if the link is up.
LEMMA SendOne ==
  ASSUME Types, NEW c \in Conn, NEW f \in ToController, Send(c, <<f>>)
  PROVE  /\ \A d \in Conn \ {c} : s2c'[d] = s2c[d]
         /\ ~up[c] => s2c'[c] = s2c[c]
         /\ up[c] => More(s2c'[c], s2c[c], f)
<1>1. <<f>> \in Seq(ToController) /\ Len(<<f>>) = 1 /\ <<f>>[1] = f
  BY OneFrame
<1>2. /\ \A d \in Conn \ {c} : s2c'[d] = s2c[d]
      /\ ~up[c] => s2c'[c] = s2c[c]
      /\ Len(s2c[c]) \in Nat
      /\ up[c] => /\ Len(s2c'[c]) = Len(s2c[c]) + Len(<<f>>)
                  /\ \A i \in 1..Len(s2c[c]) : s2c'[c][i] = s2c[c][i]
                  /\ \A k \in 1..Len(<<f>>) : s2c'[c][Len(s2c[c]) + k] = <<f>>[k]
  BY <1>1, SendEffect
<1>3. up[c] => s2c'[c][Len(s2c[c]) + 1] = f
  BY <1>1, <1>2
<1> QED
  BY <1>1, <1>2, <1>3 DEF More

\* The service of c leaves the other connections alone; what it sends is behind
\* the rest, and is an answer about the ledger or its bye.
LEMMA ServeSends ==
  ASSUME Types, NEW c \in Conn, Serve(c)
  PROVE  /\ \A d \in Conn \ {c} :
              /\ c2s'[d] = c2s[d] /\ s2c'[d] = s2c[d] /\ up'[d] = up[d]
              /\ svc'[d] = svc[d] /\ job'[d] = job[d]
         /\ up'[c] => up[c]
         /\ \/ s2c'[c] = s2c[c]
            \/ \E f \in ToController :
                 /\ More(s2c'[c], s2c[c], f)
                 /\ \/ /\ f.t = "have" /\ c2s[c][1].t = "have" /\ up[c]
                       /\ f.ds \subseteq hostCas /\ UNCHANGED job
                    \/ f.t = "bye" /\ c2s[c][1].t = "bye"
<1>1. \A d \in Conn \ {c} : c2s'[d] = c2s[d]
  BY ServeEffect
<1>2. ASSUME NEW b \in Blob, ServeBlob(c, b)
      PROVE  UNCHANGED <<svc, job, up, s2c>>
  BY <1>2 DEF ServeBlob
<1>3. ASSUME NEW u \in Uid, ServeJob(c, u)
      PROVE  /\ UNCHANGED <<svc, up, s2c>>
             /\ \A d \in Conn \ {c} : job'[d] = job[d]
  BY <1>3 DEF ServeJob, Types
<1>4. ASSUME ServeHave(c)
      PROVE  /\ UNCHANGED <<svc, up, job>>
             /\ \A d \in Conn \ {c} : s2c'[d] = s2c[d]
             /\ \/ s2c'[c] = s2c[c]
                \/ \E f \in ToController :
                     /\ More(s2c'[c], s2c[c], f)
                     /\ f.t = "have" /\ c2s[c][1].t = "have" /\ up[c]
                     /\ f.ds \subseteq hostCas
  <2> DEFINE f == [t |-> "have", ds |-> c2s[c][1].ds \cap hostCas]
  <2>1. f \in ToController /\ f.t = "have" /\ f.ds \subseteq hostCas
    BY <1>4 DEF ServeHave, ToController, Have, Types
  <2>2. Send(c, <<f>>) /\ c2s[c][1].t = "have" /\ UNCHANGED <<svc, up, job>>
    BY <1>4 DEF ServeHave
  <2> HIDE DEF f
  <2>3. /\ \A d \in Conn \ {c} : s2c'[d] = s2c[d]
        /\ ~up[c] => s2c'[c] = s2c[c]
        /\ up[c] => More(s2c'[c], s2c[c], f)
    BY <2>1, <2>2, SendOne
  <2> QED
    BY <2>1, <2>2, <2>3 DEF Types
<1>5. ASSUME ServeBye(c)
      PROVE  /\ \A d \in Conn \ {c} : s2c'[d] = s2c[d] /\ svc'[d] = svc[d] /\ up'[d] = up[d]
             /\ ~up'[c] /\ UNCHANGED job
             /\ \/ s2c'[c] = s2c[c]
                \/ \E f \in ToController :
                     More(s2c'[c], s2c[c], f) /\ f.t = "bye" /\ c2s[c][1].t = "bye"
  <2> DEFINE f == [t |-> "bye"]
  <2>1. f \in ToController /\ f.t = "bye"
    BY DEF ToController
  <2>2. /\ Send(c, <<f>>) /\ c2s[c][1].t = "bye" /\ UNCHANGED job
        /\ \A d \in Conn \ {c} : svc'[d] = svc[d] /\ up'[d] = up[d]
        /\ ~up'[c]
    BY <1>5 DEF ServeBye, Types
  <2> HIDE DEF f
  <2>3. /\ \A d \in Conn \ {c} : s2c'[d] = s2c[d]
        /\ ~up[c] => s2c'[c] = s2c[c]
        /\ up[c] => More(s2c'[c], s2c[c], f)
    BY <2>1, <2>2, SendOne
  <2> QED
    BY <2>1, <2>2, <2>3 DEF Types
<1>6. ASSUME NEW b \in Blob, ServeBlob(c, b)
      PROVE /\ \A d \in Conn \ {c} : /\ s2c'[d] = s2c[d] /\ up'[d] = up[d]
                                     /\ svc'[d] = svc[d] /\ job'[d] = job[d]
            /\ up'[c] => up[c]
            /\ s2c'[c] = s2c[c]
  BY <1>2, <1>6
<1>7. ASSUME NEW u \in Uid, ServeJob(c, u)
      PROVE /\ \A d \in Conn \ {c} : /\ s2c'[d] = s2c[d] /\ up'[d] = up[d]
                                     /\ svc'[d] = svc[d] /\ job'[d] = job[d]
            /\ up'[c] => up[c]
            /\ s2c'[c] = s2c[c]
  BY <1>3, <1>7
<1>8. CASE ServeHave(c)
  BY <1>1, <1>4, <1>8
<1>9. CASE ServeBye(c)
  BY <1>1, <1>5, <1>9
<1> QED
  BY <1>1, <1>6, <1>7, <1>8, <1>9, ServeKinds

\* So does a job; what it sends are blobs and an answer.
LEMMA JobSends ==
  ASSUME Types, NEW c \in Conn, NEW u \in Uid, JobStep(c, u)
  PROVE  /\ job[c][u] # "none" /\ UNCHANGED <<up, c2s, svc, reader, control>>
         /\ \A d \in Conn \ {c} : s2c'[d] = s2c[d] /\ job'[d] = job[d]
         /\ \A v \in Uid \ {u} : job'[c][v] = job[c][v]
         /\ Len(s2c[c]) \in Nat /\ Len(s2c'[c]) \in Nat /\ Len(s2c'[c]) >= Len(s2c[c])
         /\ \A i \in 1..Len(s2c[c]) : s2c'[c][i] = s2c[c][i]
         /\ \A i \in (Len(s2c[c]) + 1)..Len(s2c'[c]) : s2c'[c][i].t # "have"
<1> USE DEF EndJob
<1>1. /\ job[c][u] # "none" /\ UNCHANGED <<up, c2s, svc, reader, control>>
      /\ \E to : job' = [job EXCEPT ![c][u] = to]
  BY DEF JobStep, JobStart, JobRun, JobOk, JobFails, JobKilled, link
<1>2. /\ \A d \in Conn \ {c} : job'[d] = job[d]
      /\ \A v \in Uid \ {u} : job'[c][v] = job[c][v]
  BY <1>1 DEF Types
<1>3. Len(s2c[c]) \in Nat
  BY LenProperties DEF Types
<1> DEFINE Goal == /\ \A d \in Conn \ {c} : s2c'[d] = s2c[d]
                   /\ Len(s2c'[c]) \in Nat /\ Len(s2c'[c]) >= Len(s2c[c])
                   /\ \A i \in 1..Len(s2c[c]) : s2c'[c][i] = s2c[c][i]
                   /\ \A i \in (Len(s2c[c]) + 1)..Len(s2c'[c]) : s2c'[c][i].t # "have"
<1>4. ASSUME UNCHANGED s2c PROVE Goal
  BY <1>3, <1>4
<1>5. ASSUME NEW frames \in Seq(ToController), Send(c, frames),
             \A k \in 1..Len(frames) : frames[k].t # "have"
      PROVE  Goal
  <2>1. /\ \A d \in Conn \ {c} : s2c'[d] = s2c[d]
        /\ ~up[c] => s2c'[c] = s2c[c]
        /\ Len(frames) \in Nat
        /\ up[c] => /\ Len(s2c'[c]) = Len(s2c[c]) + Len(frames)
                    /\ \A i \in 1..Len(s2c[c]) : s2c'[c][i] = s2c[c][i]
                    /\ \A k \in 1..Len(frames) : s2c'[c][Len(s2c[c]) + k] = frames[k]
    BY <1>5, SendEffect
  <2>2. CASE ~up[c]
    BY <1>3, <2>1, <2>2
  <2>3. CASE up[c]
    <3>1. ASSUME NEW i \in (Len(s2c[c]) + 1)..Len(s2c'[c]) PROVE s2c'[c][i].t # "have"
      <4>1. i - Len(s2c[c]) \in 1..Len(frames) /\ Len(s2c[c]) + (i - Len(s2c[c])) = i
        BY <1>3, <2>1, <2>3, <3>1
      <4>2. s2c'[c][Len(s2c[c]) + (i - Len(s2c[c]))] = frames[i - Len(s2c[c])]
        BY <2>1, <2>3, <4>1
      <4> QED
        BY <1>5, <4>1, <4>2
    <3> QED
      BY <1>3, <2>1, <2>3, <3>1
  <2> QED
    BY <2>2, <2>3
<1>6. ASSUME NEW f \in ToController, Send(c, <<f>>), f.t # "have" PROVE Goal
  <2> HIDE DEF Goal
  <2>1. <<f>> \in Seq(ToController) /\ Len(<<f>>) = 1 /\ <<f>>[1] = f
    BY OneFrame
  <2>2. \A k \in 1..Len(<<f>>) : <<f>>[k].t # "have"
    BY <1>6, <2>1
  <2> QED
    BY <1>5, <1>6, <2>1, <2>2
<1>7. Goal
  <2> HIDE DEF Goal
  <2>1. CASE JobStart(c, u)
    <3>1. [t |-> "missing", u |-> u, ds |-> Inputs[u] \ hostCas] \in ToController
      BY JobAssumption DEF ToController, Answers
    <3>2. \/ UNCHANGED s2c
          \/ Send(c, <<[t |-> "missing", u |-> u, ds |-> Inputs[u] \ hostCas]>>)
      BY <2>1 DEF JobStart
    <3> QED
      BY <1>4, <1>6, <3>1, <3>2
  <2>2. CASE JobOk(c, u)
    <3>1. PICK order \in [1..Cardinality(Outputs[u]) -> Outputs[u]] :
            Frames(order) = Outputs[u] /\ Send(c, Batch(u, order))
      BY <2>2 DEF JobOk, Batch
    <3> DEFINE n == Cardinality(Outputs[u])
    <3>2. /\ n \in Nat
          /\ Batch(u, order) \in Seq(ToController)
          /\ Len(Batch(u, order)) = n + 1
          /\ \A i \in 1..n : Batch(u, order)[i] = BlobFrame(order[i])
          /\ Batch(u, order)[n + 1] = [t |-> "result", u |-> u, why |-> "ok"]
      BY <3>1, BatchFrames
    <3> HIDE DEF n
    <3>3. \A k \in 1..Len(Batch(u, order)) : Batch(u, order)[k].t # "have"
      <4>1. \A k \in 1..(n + 1) : k \in 1..n \/ k = n + 1
        BY <3>2
      <4>2. \A k \in 1..n : BlobFrame(order[k]).t # "have"
        BY DEF BlobFrame
      <4> QED
        BY <3>2, <4>1, <4>2
    <3> QED
      BY <1>5, <3>1, <3>2, <3>3
  <2>3. CASE JobFails(c, u)
    <3> DEFINE f == [t |-> "result", u |-> u, why |-> IF work[u] = c THEN "exit" ELSE "dir"]
    <3>1. f \in ToController /\ f.t # "have"
      BY DEF ToController, Answers
    <3>2. Send(c, <<f>>)
      BY <2>3 DEF JobFails, Result
    <3> QED
      BY <1>6, <3>1, <3>2
  <2>4. CASE JobRun(c, u) \/ JobKilled(c, u)
    BY <1>4, <2>4 DEF JobRun, JobKilled, link
  <2> QED
    BY <2>1, <2>2, <2>3, <2>4 DEF JobStep
<1> QED
  BY <1>1, <1>2, <1>3, <1>7

\* Connections are dialled one after another, and only one that was dialled has a
\* process at either end.
LEMMA ConnStep == DistInv /\ [Next]_vars => ConnInv'
<1> SUFFICES ASSUME DistInv, [Next]_vars PROVE ConnInv'
  OBVIOUS
<1>0. Types /\ ConnInv /\ ThreadInv
  BY DEF DistInv
<1> DEFINE Same(d) == /\ up'[d] = up[d] /\ svc'[d] = svc[d] /\ c2s'[d] = c2s[d]
                      /\ s2c'[d] = s2c[d] /\ reader'[d] = reader[d]
                      /\ job'[d] = job[d]
\* A step on one connection that is not untouched.
<1>1. ASSUME NEW c \in Conn, ~Untouched(c), UNCHANGED <<control, reader>>,
             \A d \in Conn \ {c} : Same(d)
      PROVE  ConnInv'
  BY <1>0, <1>1 DEF ConnInv, Untouched, control
<1>2. CASE UNCHANGED <<control, reader, up, svc, c2s, s2c, job>>
  BY <1>0, <1>2 DEF ConnInv, Untouched, control
<1>3. ASSUME NEW c \in Conn, Shrunk, UNCHANGED <<dialing, dialled, closing, svc, job>>,
             conn' \in {0, conn}, \A d \in Conn : reader'[d] = "off" <=> reader[d] = "off"
      PROVE  ConnInv'
  <2>1. ASSUME NEW d \in Conn, d > dialled PROVE Untouched(d)'
    <3>1. Untouched(d)
      BY <1>0, <2>1 DEF ConnInv
    <3>2. Len(c2s'[d]) = 0 /\ Len(s2c'[d]) = 0 /\ ~up'[d]
      BY <1>3, <3>1 DEF Shrunk, Untouched
    <3> QED
      BY <1>3, <3>1, <3>2 DEF Untouched
  <2>2. conn' # 0 => reader'[conn'] # "off"
    <3>1. conn' # 0 => conn' = conn /\ conn \in Conn /\ reader[conn] # "off"
      BY <1>0, <1>3 DEF ConnInv, Types, Conn
    <3> QED
      BY <1>3, <3>1
  <2>3. dialing # 0 => dialing \in Conn
    BY <1>0 DEF Types, Conn
  <2> QED
    BY <1>0, <1>3, <2>1, <2>2, <2>3 DEF ConnInv
<1>4. CASE Dial
  <2>1. /\ dialled + 1 \in Conn /\ dialled \in Nat
        /\ dialled' = dialled + 1 /\ dialing' = dialled + 1
        /\ conn = 0 /\ conn' = 0 /\ ~closing /\ ~closing'
        /\ UNCHANGED <<reader, s2c, job>>
        /\ \A d \in Conn \ {dialled + 1} :
             c2s'[d] = c2s[d] /\ up'[d] = up[d] /\ svc'[d] = svc[d]
    BY <1>0, <1>4, JobAssumption DEF Dial, Conn, Types
  <2>2. \A d \in Conn : d > dialled + 1 => d > dialled /\ d # dialled + 1
    BY <2>1 DEF Conn
  <2>3. reader[dialled + 1] = "off"
    BY <1>0, <2>1 DEF ConnInv, Untouched
  <2> QED
    BY <1>0, <2>1, <2>2, <2>3 DEF ConnInv, Untouched
<1>5. CASE Connected
  <2>1. /\ dialing \in Conn /\ ~closing /\ dialing = dialled
        /\ \A d \in Conn : d > dialled => d # dialing
    BY <1>0, <1>5 DEF Connected, Conn, ConnInv, Types
  <2>2. \A d \in Conn \ {dialing} : s2c'[d] = s2c[d]
    BY <1>0, <1>5, <2>1, ReadEffect DEF Connected
  <2>3. /\ conn' = dialing /\ dialing' = 0 /\ reader'[dialing] = "on"
        /\ \A d \in Conn \ {dialing} : reader'[d] = reader[d]
        /\ UNCHANGED <<dialled, closing, up, c2s, svc, job>>
    BY <1>0, <1>5, <2>1 DEF Connected, Types, host
  <2>4. ASSUME NEW d \in Conn, d > dialled PROVE Untouched(d)'
    BY <1>0, <2>1, <2>2, <2>3, <2>4 DEF ConnInv, Untouched
  <2> QED
    BY <1>0, <2>1, <2>3, <2>4 DEF ConnInv
<1>6. CASE DialFails
  BY <1>0, <1>6 DEF DialFails, ConnInv, Untouched, link, host
<1>7. CASE Close
  <2>1. UNCHANGED <<dialled, reader, s2c, up, svc, job, dialing>> /\ conn' = 0 /\ dialing = 0
    BY <1>7 DEF Close, host
  <2>2. \A d \in Conn : d > dialled => c2s'[d] = c2s[d]
    <3>1. CASE conn # 0 /\ up[conn]
      <4>1. conn \in Conn /\ [t |-> "bye"] \in ToHost
        BY <1>0, <3>1 DEF Conn, ToHost, Types
      <4>2. ~(conn > dialled)
        BY <1>0, <3>1, <4>1 DEF ConnInv, Untouched
      <4>3. \A d \in Conn \ {conn} : c2s'[d] = c2s[d]
        BY <1>0, <1>7, <3>1, <4>1, WriteEffect DEF Close
      <4> QED
        BY <4>2, <4>3
    <3>2. CASE ~(conn # 0 /\ up[conn])
      BY <1>7, <3>2 DEF Close
    <3> QED
      BY <3>1, <3>2
  <2> QED
    BY <1>0, <2>1, <2>2 DEF ConnInv, Untouched
<1>8. ASSUME NEW u \in Uid, WriteJob(u) \/ \E b \in Blob : WriteBlob(u, b)
      PROVE  ConnInv'
  <2>1. via[u] \in Conn /\ reader[via[u]] # "off"
    BY <1>0, <1>8 DEF WriteJob, WriteBlob, ThreadInv, Busy
  <2>2. \E f \in ToHost : c2s' = [c2s EXCEPT ![via[u]] = Append(@, f)]
    BY <1>8 DEF WriteJob, WriteBlob, JobFrame, BlobFrame, ToHost, BlobFrames
  <2>3. \A d \in Conn \ {via[u]} : c2s'[d] = c2s[d]
    BY <1>0, <2>1, <2>2, WriteEffect
  <2>4. UNCHANGED <<control, reader, up, svc, s2c, job>>
    BY <1>8 DEF WriteJob, WriteBlob, host
  <2> QED
    BY <1>1, <2>1, <2>3, <2>4 DEF Untouched
<1>9. ASSUME NEW u \in Uid, Lose(u) PROVE ConnInv'
  <2>1. via[u] \in Conn
    BY <1>0, <1>9 DEF Lose, ThreadInv, Busy
  <2>2. Shrunk /\ conn' = IF conn = via[u] THEN 0 ELSE conn
    BY <1>0, <1>9, <2>1, LostEffect DEF Lose
  <2>3. UNCHANGED <<dialing, dialled, closing, reader, svc, job>>
    BY <1>9 DEF Lose, host
  <2> QED
    BY <1>3, <2>1, <2>2, <2>3
<1>10. ASSUME NEW c \in Conn, ReadEof(c) PROVE ConnInv'
  <2>1. Shrunk /\ conn' = IF conn = c THEN 0 ELSE conn
    BY <1>0, <1>10, LostEffect DEF ReadEof
  <2>2. UNCHANGED <<dialing, dialled, closing, svc, job>>
    BY <1>10 DEF ReadEof, host
  <2>3. \A d \in Conn : reader'[d] = "off" <=> reader[d] = "off"
    BY <1>0, <1>10 DEF ReadEof, Types
  <2> QED
    BY <1>3, <2>1, <2>2, <2>3
<1>11. ASSUME NEW c \in Conn, Break(c) PROVE ConnInv'
  <2>1. Shrunk
    BY <1>0, <1>11, CutEffect DEF Break
  <2>2. UNCHANGED <<conn, dialing, dialled, closing, reader, svc, job>>
    BY <1>11 DEF Break, host, control
  <2> QED
    BY <1>3, <2>1, <2>2
<1>12. ASSUME NEW c \in Conn, ReadFrame(c) PROVE ConnInv'
  <2>1. /\ ~Untouched(c) /\ UNCHANGED <<control, reader, up, c2s, svc, job>>
        /\ \A d \in Conn \ {c} : s2c'[d] = s2c[d]
    BY <1>0, <1>12, ReadEffect DEF ReadFrame, host, Untouched
  <2> QED
    BY <1>1, <2>1
<1>13. ASSUME NEW c \in Conn, Serve(c) PROVE ConnInv'
  <2>1. ~Untouched(c) /\ UNCHANGED <<control, reader>>
    BY <1>0, <1>13, ServeEffect DEF Untouched
  <2>2. \A d \in Conn \ {c} : Same(d)
    BY <1>0, <1>13, <2>1, ServeSends
  <2> QED
    BY <1>1, <2>1, <2>2
<1>14. ASSUME NEW c \in Conn, ServeEof(c) \/ ServeTorn(c) \/ Stopped(c)
       PROVE  ConnInv'
  <2>1. /\ ~Untouched(c) /\ UNCHANGED <<control, reader, up, c2s, s2c>>
        /\ \A d \in Conn \ {c} : svc'[d] = svc[d] /\ job'[d] = job[d]
    BY <1>0, <1>14 DEF ServeEof, ServeTorn, Stopped, Untouched, link, Types
  <2> QED
    BY <1>1, <2>1
<1>15. ASSUME NEW c \in Conn, NEW u \in Uid, JobStep(c, u) PROVE ConnInv'
  <2>1. /\ ~Untouched(c) /\ UNCHANGED <<up, c2s, svc, reader, control>>
        /\ \A d \in Conn \ {c} : s2c'[d] = s2c[d] /\ job'[d] = job[d]
    BY <1>0, <1>15, JobSends DEF Untouched
  <2> QED
    BY <1>1, <2>1
<1> QED
  BY <1>2, <1>4, <1>5, <1>6, <1>7, <1>8, <1>9, <1>10, <1>11, <1>12, <1>13,
     <1>14, <1>15
     DEF Next, ConnectStep, ReaderStep, ThreadStep, ServiceStep, vars, Execute,
         ExecuteDown, Claim, WriteFails, Undo, Wake, link, host

\* Arithmetic on lengths.
LEMMA AtMostOne ==
  ASSUME NEW n \in Nat, n # 0, n <= 1 PROVE n = 1
  OBVIOUS

\* The ledger is asked for once, before the reader of the connection starts.
LEMMA HaveStep == DistInv /\ [Next]_vars => HaveInv'
<1> SUFFICES ASSUME DistInv, [Next]_vars PROVE HaveInv'
  OBVIOUS
<1>0. Types /\ ConnInv /\ ThreadInv /\ HaveInv
  BY DEF DistInv
<1>a. \A d \in Conn : Len(c2s[d]) \in Nat /\ Len(s2c[d]) \in Nat
  BY <1>0, LenProperties DEF Types
<1> DEFINE Same(d) == /\ c2s'[d] = c2s[d] /\ s2c'[d] = s2c[d]
                      /\ reader'[d] = reader[d] /\ job'[d] = job[d]
<1>1. ASSUME NEW d \in Conn, Same(d) PROVE HaveAt(d)'
  <2>1. HaveAt(d)
    BY <1>0 DEF HaveInv
  <2> QED
    BY <1>1, <2>1 DEF HaveAt
<1> HIDE DEF Same
\* A step on one connection whose reader has been started.
<1>2. ASSUME NEW c \in Conn, \A d \in Conn \ {c} : Same(d),
             reader[c] # "off", reader'[c] # "off",
             \A i \in 1..Len(c2s'[c]) : c2s'[c][i].t # "have",
             \A i \in 1..Len(s2c'[c]) : s2c'[c][i].t # "have"
      PROVE  HaveInv'
  BY <1>1, <1>2 DEF HaveInv, HaveAt
<1>3. CASE UNCHANGED <<reader, c2s, s2c, job>>
  BY <1>1, <1>3 DEF HaveInv, Same
<1>4. ASSUME Shrunk, UNCHANGED job,
             \A d \in Conn : reader'[d] = "off" <=> reader[d] = "off"
      PROVE  HaveInv'
  <2>1. ASSUME NEW d \in Conn PROVE HaveAt(d)'
    <3>1. /\ Len(c2s'[d]) \in Nat /\ Len(c2s'[d]) <= Len(c2s[d])
          /\ \A i \in 1..Len(c2s'[d]) : c2s'[d][i] = c2s[d][i]
          /\ Len(s2c'[d]) \in Nat /\ Len(s2c'[d]) <= Len(s2c[d])
          /\ \A i \in 1..Len(s2c'[d]) : s2c'[d][i] = s2c[d][i]
      BY <1>4 DEF Shrunk
    <3>2. HaveAt(d)
      BY <1>0 DEF HaveInv
    <3>3. CASE reader[d] = "off"
      <4>1. \A i \in 1..Len(c2s'[d]) : c2s'[d][i].t = "have"
        BY <1>a, <3>1, <3>2, <3>3 DEF HaveAt
      <4>2. \A i \in 1..Len(s2c'[d]) : s2c'[d][i].t = "have"
        BY <1>a, <3>1, <3>2, <3>3 DEF HaveAt
      <4>3. /\ Len(c2s'[d]) <= 1 /\ Len(s2c'[d]) <= 1
            /\ Len(c2s'[d]) = 0 \/ Len(s2c'[d]) = 0
        BY <1>a, <3>1, <3>2, <3>3 DEF HaveAt
      <4>4. \A u \in Uid : job'[d][u] = "none"
        BY <1>4, <3>2, <3>3 DEF HaveAt
      <4> QED
        BY <1>4, <3>3, <4>1, <4>2, <4>3, <4>4 DEF HaveAt
    <3>4. CASE reader[d] # "off"
      <4>1. \A i \in 1..Len(c2s'[d]) : c2s'[d][i].t # "have"
        BY <1>a, <3>1, <3>2, <3>4 DEF HaveAt
      <4>2. \A i \in 1..Len(s2c'[d]) : s2c'[d][i].t # "have"
        BY <1>a, <3>1, <3>2, <3>4 DEF HaveAt
      <4> QED
        BY <1>4, <3>4, <4>1, <4>2 DEF HaveAt
    <3> QED
      BY <3>3, <3>4
  <2> QED
    BY <2>1 DEF HaveInv
<1>5. CASE Dial
  <2> DEFINE f == [t |-> "have", ds |-> sent]
  <2>c. dialled + 1 \in Conn
    BY <1>0, <1>5, JobAssumption DEF Dial, Conn, Types
  <2>p. PICK c \in Conn : c = dialled + 1
    BY <2>c
  <2>1. /\ c > dialled
        /\ UNCHANGED <<reader, s2c, job>>
        /\ c2s'[c] = <<f>>
        /\ \A d \in Conn \ {c} : c2s'[d] = c2s[d]
    BY <1>0, <1>5, <2>p DEF Dial, Conn, Types
  <2>2. Len(<<f>>) = 1 /\ <<f>>[1] = f /\ f.t = "have"
    OBVIOUS
  <2>3. Untouched(c)
    BY <1>0, <2>1 DEF ConnInv
  <2> HIDE DEF f
  <2>4. HaveAt(c)'
    <3>1. reader'[c] = "off" /\ Len(c2s'[c]) = 1 /\ Len(s2c'[c]) = 0
      BY <2>1, <2>2, <2>3 DEF Untouched
    <3>2. c2s'[c][1].t = "have" /\ \A u \in Uid : job'[c][u] = "none"
      BY <2>1, <2>2, <2>3 DEF Untouched
    <3>3. \A i \in 1..1 : i = 1
      OBVIOUS
    <3> QED
      BY <3>1, <3>2, <3>3 DEF HaveAt
  <2>5. \A d \in Conn \ {c} : Same(d)
    BY <2>1 DEF Same
  <2>6. ASSUME NEW d \in Conn PROVE HaveAt(d)'
    <3>1. d = c \/ Same(d)
      BY <2>5
    <3> QED
      BY <1>1, <2>4, <3>1
  <2> QED
    BY <2>6 DEF HaveInv
<1>6. CASE Connected
  <2>0. dialing \in Conn
    BY <1>0, <1>6 DEF Connected, Conn, Types
  <2>p. PICK c \in Conn : c = dialing
    BY <2>0
  <2>1. reader[c] = "off"
    BY <1>0, <1>6, <2>p DEF Connected, ConnInv
  <2>2. /\ \A d \in Conn \ {c} : s2c'[d] = s2c[d]
        /\ Rest(s2c'[c], s2c[c])
    BY <1>0, <1>6, <2>p, ReadEffect DEF Connected
  <2>3. /\ reader'[c] = "on" /\ UNCHANGED <<c2s, job>>
        /\ \A d \in Conn \ {c} : reader'[d] = reader[d]
    BY <1>0, <1>6, <2>p DEF Connected, host, Types
  <2>4. Len(s2c[c]) <= 1 /\ (Len(c2s[c]) = 0 \/ Len(s2c[c]) = 0)
    <3>1. HaveAt(c)
      BY <1>0 DEF HaveInv
    <3> QED
      BY <2>1, <3>1 DEF HaveAt
  <2>5. Len(c2s'[c]) = 0 /\ Len(s2c'[c]) = 0
    <3>1. Len(s2c[c]) \in Nat \ {0} /\ Len(s2c'[c]) = Len(s2c[c]) - 1
      BY <2>2 DEF Rest
    <3>2. Len(s2c[c]) = 1
      BY <2>4, <3>1, AtMostOne
    <3>3. Len(c2s'[c]) = 0
      BY <2>3, <2>4, <3>2
    <3> QED
      BY <3>1, <3>2, <3>3
  <2>6. HaveAt(c)'
    <3>1. \A i \in 1..0 : FALSE
      OBVIOUS
    <3> QED
      BY <2>3, <2>5, <3>1 DEF HaveAt
  <2>7. \A d \in Conn \ {c} : Same(d)
    BY <2>2, <2>3 DEF Same
  <2>8. ASSUME NEW d \in Conn PROVE HaveAt(d)'
    <3>1. d = c \/ Same(d)
      BY <2>7
    <3> QED
      BY <1>1, <2>6, <3>1
  <2> QED
    BY <2>8 DEF HaveInv
<1>7. ASSUME NEW c \in Conn, reader[c] # "off", NEW f \in ToHost, f.t # "have",
             c2s' = [c2s EXCEPT ![c] = Append(@, f)], UNCHANGED <<reader, s2c, job>>
      PROVE  HaveInv'
  <2>1. /\ \A d \in Conn \ {c} : c2s'[d] = c2s[d]
        /\ More(c2s'[c], c2s[c], f)
    BY <1>0, <1>7, WriteEffect
  <2>h. HaveAt(c)
    BY <1>0 DEF HaveInv
  <2>2. \A i \in 1..Len(c2s'[c]) :
          c2s'[c][i] = f \/ (i \in 1..Len(c2s[c]) /\ c2s'[c][i] = c2s[c][i])
    BY <2>1 DEF More
  <2>3. \A i \in 1..Len(c2s'[c]) : c2s'[c][i].t # "have"
    BY <1>7, <2>2, <2>h DEF HaveAt
  <2>4. \A i \in 1..Len(s2c'[c]) : s2c'[c][i].t # "have"
    BY <1>7, <2>h DEF HaveAt
  <2>5. \A d \in Conn \ {c} : Same(d)
    BY <1>7, <2>1 DEF Same
  <2> QED
    BY <1>2, <1>7, <2>3, <2>4, <2>5
<1>8. CASE Close
  <2>1. UNCHANGED <<reader, s2c, job>>
    BY <1>8 DEF Close, host
  <2>2. CASE conn # 0 /\ up[conn]
    <3>1. conn \in Conn /\ reader[conn] # "off" /\ [t |-> "bye"] \in ToHost
      BY <1>0, <2>2 DEF ConnInv, Conn, ToHost, Types
    <3> QED
      BY <1>7, <1>8, <2>1, <2>2, <3>1 DEF Close
  <2>3. CASE ~(conn # 0 /\ up[conn])
    BY <1>3, <1>8, <2>1, <2>3 DEF Close
  <2> QED
    BY <2>2, <2>3
<1>9. ASSUME NEW u \in Uid, WriteJob(u) PROVE HaveInv'
  <2>1. via[u] \in Conn /\ reader[via[u]] # "off" /\ JobFrame(u) \in ToHost
    BY <1>0, <1>9 DEF WriteJob, ThreadInv, Busy, JobFrame, ToHost
  <2>2. JobFrame(u).t # "have"
    BY DEF JobFrame
  <2> QED
    BY <1>7, <1>9, <2>1, <2>2 DEF WriteJob, host
<1>10. ASSUME NEW u \in Uid, NEW b \in Blob, WriteBlob(u, b) PROVE HaveInv'
  <2>1. via[u] \in Conn /\ reader[via[u]] # "off" /\ BlobFrame(b) \in ToHost
    BY <1>0, <1>10 DEF WriteBlob, ThreadInv, Busy, BlobFrame, ToHost, BlobFrames
  <2>2. BlobFrame(b).t # "have"
    BY DEF BlobFrame
  <2> QED
    BY <1>7, <1>10, <2>1, <2>2 DEF WriteBlob, host
<1>11. ASSUME NEW u \in Uid, Lose(u) PROVE HaveInv'
  <2>1. via[u] \in Conn
    BY <1>0, <1>11 DEF Lose, ThreadInv, Busy
  <2>2. Shrunk /\ UNCHANGED <<reader, job>>
    BY <1>0, <1>11, <2>1, LostEffect DEF Lose, host
  <2> QED
    BY <1>4, <2>2
<1>12. ASSUME NEW c \in Conn, ReadEof(c) PROVE HaveInv'
  <2>1. Shrunk /\ UNCHANGED job
    BY <1>0, <1>12, LostEffect DEF ReadEof, host
  <2>2. \A d \in Conn : reader'[d] = "off" <=> reader[d] = "off"
    BY <1>0, <1>12 DEF ReadEof, Types
  <2> QED
    BY <1>4, <2>1, <2>2
<1>13. ASSUME NEW c \in Conn, Break(c) PROVE HaveInv'
  <2>1. Shrunk /\ UNCHANGED <<reader, job>>
    BY <1>0, <1>13, CutEffect DEF Break, host
  <2> QED
    BY <1>4, <2>1
<1>14. ASSUME NEW c \in Conn, ReadFrame(c) PROVE HaveInv'
  <2>1. /\ reader[c] = "on" /\ UNCHANGED <<reader, c2s, job>>
        /\ \A d \in Conn \ {c} : s2c'[d] = s2c[d]
        /\ Rest(s2c'[c], s2c[c])
    BY <1>0, <1>14, ReadEffect DEF ReadFrame, host
  <2>h. HaveAt(c)
    BY <1>0 DEF HaveInv
  <2>2. \A i \in 1..Len(s2c'[c]) : i + 1 \in 1..Len(s2c[c]) /\ s2c'[c][i] = s2c[c][i + 1]
    BY <2>1 DEF Rest
  <2>3. \A i \in 1..Len(s2c'[c]) : s2c'[c][i].t # "have"
    BY <2>1, <2>2, <2>h DEF HaveAt
  <2>4. \A i \in 1..Len(c2s'[c]) : c2s'[c][i].t # "have"
    BY <2>1, <2>h DEF HaveAt
  <2>5. \A d \in Conn \ {c} : Same(d)
    BY <2>1 DEF Same
  <2> QED
    BY <1>2, <2>1, <2>3, <2>4, <2>5
<1>15. ASSUME NEW c \in Conn, Serve(c) PROVE HaveInv'
  <2>1. Rest(c2s'[c], c2s[c]) /\ UNCHANGED reader
    BY <1>0, <1>15, ServeEffect
  <2>2. \A d \in Conn \ {c} : Same(d)
    BY <1>0, <1>15, <2>1, ServeSends DEF Same
  <2>3. \A i \in 1..Len(c2s'[c]) : i + 1 \in 1..Len(c2s[c]) /\ c2s'[c][i] = c2s[c][i + 1]
    BY <2>1 DEF Rest
  <2>4. 1 \in 1..Len(c2s[c]) /\ Len(c2s'[c]) = Len(c2s[c]) - 1
    BY <2>1 DEF Rest
  <2>5. \/ s2c'[c] = s2c[c]
        \/ \E f \in ToController :
             /\ More(s2c'[c], s2c[c], f)
             /\ \/ f.t = "have" /\ c2s[c][1].t = "have"
                \/ f.t = "bye" /\ c2s[c][1].t = "bye"
    BY <1>0, <1>15, ServeSends
  <2>6. HaveAt(c)
    BY <1>0 DEF HaveInv
  <2>7. CASE reader[c] = "off"
    <3>1. c2s[c][1].t = "have"
      BY <2>4, <2>6, <2>7 DEF HaveAt
    <3>2. UNCHANGED job
      <4>1. \A b, u : c2s[c][1] # BlobFrame(b) /\ c2s[c][1] # JobFrame(u)
        BY <3>1 DEF BlobFrame, JobFrame
      <4> QED
        BY <1>0, <1>15, <4>1, ServeKinds DEF ServeBlob, ServeHave, ServeJob,
           ServeBye
    <3>3. \/ s2c'[c] = s2c[c]
          \/ \E f : More(s2c'[c], s2c[c], f) /\ f.t = "have"
      BY <2>5, <3>1
    <3>4. /\ Len(s2c'[c]) <= Len(s2c[c]) + 1
          /\ \A i \in 1..Len(s2c'[c]) : s2c'[c][i].t = "have"
      BY <1>a, <2>6, <2>7, <3>3 DEF HaveAt, More
    <3>5. Len(c2s'[c]) = 0 /\ Len(s2c[c]) = 0 /\ Len(s2c'[c]) \in Nat
      <4>1. Len(c2s[c]) # 0 /\ Len(c2s[c]) <= 1 /\ Len(s2c[c]) = 0
        BY <1>a, <2>4, <2>6, <2>7 DEF HaveAt
      <4>a. Len(c2s[c]) \in Nat
        BY <1>a
      <4>2. Len(c2s[c]) = 1 /\ Len(s2c[c]) = 0
        BY <4>a, <4>1, AtMostOne
      <4>3. Len(s2c'[c]) = Len(s2c[c]) \/ Len(s2c'[c]) = Len(s2c[c]) + 1
        BY <3>3 DEF More
      <4> QED
        BY <2>4, <4>2, <4>3
    <3>6. HaveAt(c)'
      BY <2>1, <2>6, <2>7, <3>2, <3>4, <3>5 DEF HaveAt
    <3> QED
      BY <1>1, <2>2, <3>6 DEF HaveInv
  <2>8. CASE reader[c] # "off"
    <3>1. c2s[c][1].t # "have"
      BY <2>4, <2>6, <2>8 DEF HaveAt
    <3>2. \/ s2c'[c] = s2c[c]
          \/ \E f : More(s2c'[c], s2c[c], f) /\ f.t = "bye"
      BY <2>5, <3>1
    <3>3. \A i \in 1..Len(s2c'[c]) : s2c'[c][i].t # "have"
      <4>1. CASE s2c'[c] = s2c[c]
        BY <2>6, <2>8, <4>1 DEF HaveAt
      <4>2. ASSUME NEW f, More(s2c'[c], s2c[c], f), f.t = "bye"
            PROVE  \A i \in 1..Len(s2c'[c]) : s2c'[c][i].t # "have"
        <5>1. \A i \in 1..Len(s2c'[c]) :
                s2c'[c][i] = f \/ (i \in 1..Len(s2c[c]) /\ s2c'[c][i] = s2c[c][i])
          BY <4>2 DEF More
        <5> QED
          BY <2>6, <2>8, <4>2, <5>1 DEF HaveAt
      <4> QED
        BY <3>2, <4>1, <4>2
    <3>4. \A i \in 1..Len(c2s'[c]) : c2s'[c][i].t # "have"
      BY <2>3, <2>6, <2>8 DEF HaveAt
    <3> QED
      BY <1>2, <2>1, <2>2, <2>8, <3>3, <3>4
  <2> QED
    BY <2>7, <2>8
<1>16. ASSUME NEW c \in Conn, ServeEof(c) PROVE HaveInv'
  <2>1. UNCHANGED <<reader, c2s, s2c>>
    BY <1>16 DEF ServeEof, link
  <2>2. \A d \in Conn, u \in Uid : job[d][u] = "none" => job'[d][u] = "none"
    BY <1>0, <1>16 DEF ServeEof, Types
  <2>3. ASSUME NEW d \in Conn PROVE HaveAt(d)'
    <3>1. HaveAt(d)
      BY <1>0 DEF HaveInv
    <3> QED
      BY <2>1, <2>2, <3>1 DEF HaveAt
  <2> QED
    BY <2>3 DEF HaveInv
<1>17. ASSUME NEW c \in Conn, NEW u \in Uid, JobStep(c, u) PROVE HaveInv'
  <2>1. /\ job[c][u] # "none" /\ UNCHANGED <<c2s, reader>>
        /\ \A d \in Conn \ {c} : s2c'[d] = s2c[d] /\ job'[d] = job[d]
        /\ Len(s2c'[c]) \in Nat
        /\ \A i \in 1..Len(s2c[c]) : s2c'[c][i] = s2c[c][i]
        /\ \A i \in (Len(s2c[c]) + 1)..Len(s2c'[c]) : s2c'[c][i].t # "have"
    BY <1>0, <1>17, JobSends
  <2>2. HaveAt(c)
    BY <1>0 DEF HaveInv
  <2>3. reader[c] # "off"
    BY <2>1, <2>2 DEF HaveAt
  <2>4. \A i \in 1..Len(s2c'[c]) :
          i \in 1..Len(s2c[c]) \/ i \in (Len(s2c[c]) + 1)..Len(s2c'[c])
    BY <1>a, <2>1
  <2>5. \A i \in 1..Len(s2c'[c]) : s2c'[c][i].t # "have"
    BY <2>1, <2>2, <2>3, <2>4 DEF HaveAt
  <2>6. \A i \in 1..Len(c2s'[c]) : c2s'[c][i].t # "have"
    BY <2>1, <2>2, <2>3 DEF HaveAt
  <2>7. \A d \in Conn \ {c} : Same(d)
    BY <2>1 DEF Same
  <2> QED
    BY <1>2, <2>1, <2>3, <2>5, <2>6, <2>7
<1> QED
  BY <1>3, <1>5, <1>6, <1>8, <1>9, <1>10, <1>11, <1>12, <1>13, <1>14, <1>15,
     <1>16, <1>17
     DEF Next, ConnectStep, ReaderStep, ThreadStep, ServiceStep, vars, DialFails,
         Execute, ExecuteDown, Claim, WriteFails, Undo, Wake, ServeTorn, Stopped,
         link, host

\* r is the beginning of s.
Prefix(r, s) ==
  /\ Len(s) \in Nat /\ Len(r) \in Nat /\ Len(r) <= Len(s)
  /\ \A i \in 1..Len(r) : r[i] = s[i]

\* What a step does to the pipe to the host: it is cut, the service reads it, a
\* thread or close writes to it, or _connect sets it up.
LEMMA ToHostStep ==
  ASSUME DistInv, [Next]_vars, NEW c \in Conn
  PROVE  \/ Prefix(c2s'[c], c2s[c]) /\ (up'[c] => up[c] /\ c2s'[c] = c2s[c])
         \/ Serve(c) /\ Rest(c2s'[c], c2s[c])
         \/ \E u \in Uid : WriteJob(u) /\ via[u] = c /\ More(c2s'[c], c2s[c], JobFrame(u))
         \/ \E u \in Uid, b \in Blob :
              WriteBlob(u, b) /\ via[u] = c /\ More(c2s'[c], c2s[c], BlobFrame(b))
         \/ Close /\ conn = c /\ up[c] /\ More(c2s'[c], c2s[c], [t |-> "bye"])
         \/ /\ Dial /\ c = dialled + 1 /\ Len(c2s'[c]) = 1
            /\ c2s'[c][1] = [t |-> "have", ds |-> sent]
<1> DEFINE Goal1 == Prefix(c2s'[c], c2s[c]) /\ (up'[c] => up[c] /\ c2s'[c] = c2s[c])
<1> HIDE DEF Goal1
<1>0. Types /\ ConnInv /\ ThreadInv
  BY DEF DistInv
<1>1. Len(c2s[c]) \in Nat
  BY <1>0, LenProperties DEF Types
<1>2. ASSUME c2s'[c] = c2s[c], up'[c] => up[c] PROVE Goal1
  BY <1>1, <1>2 DEF Prefix, Goal1
<1>3. ASSUME Shrunk PROVE Goal1
  BY <1>1, <1>3 DEF Shrunk, Prefix, Goal1
<1>4. CASE Dial
  <2>1. dialled + 1 \in Conn
    BY <1>0, <1>4, JobAssumption DEF Dial, Conn, Types
  <2>2. CASE c = dialled + 1
    <3> DEFINE f == [t |-> "have", ds |-> sent]
    <3>1. c2s'[c] = <<f>>
      BY <1>0, <1>4, <2>1, <2>2 DEF Dial, Types
    <3>2. Len(<<f>>) = 1 /\ <<f>>[1] = f
      OBVIOUS
    <3> QED
      BY <1>4, <2>2, <3>1, <3>2
  <2>3. CASE c # dialled + 1
    <3>1. c2s'[c] = c2s[c] /\ (up'[c] => up[c])
      BY <1>0, <1>4, <2>1, <2>3 DEF Dial, Types
    <3> QED
      BY <1>2, <3>1 DEF Goal1
  <2> QED
    BY <2>2, <2>3
<1>5. CASE Close
  <2>1. up' = up
    BY <1>5 DEF Close
  <2>2. CASE conn # 0 /\ up[conn]
    <3>1. conn \in Conn /\ [t |-> "bye"] \in ToHost
      BY <1>0, <2>2 DEF Conn, ToHost, Types
    <3>2. /\ \A d \in Conn \ {conn} : c2s'[d] = c2s[d]
          /\ More(c2s'[conn], c2s[conn], [t |-> "bye"])
      BY <1>0, <1>5, <2>2, <3>1, WriteEffect DEF Close
    <3>3. CASE c = conn
      BY <1>5, <2>2, <3>2, <3>3
    <3>4. CASE c # conn
      BY <1>2, <2>1, <3>2, <3>4 DEF Goal1
    <3> QED
      BY <3>3, <3>4
  <2>3. CASE ~(conn # 0 /\ up[conn])
    BY <1>2, <1>5, <2>1, <2>3 DEF Close, Goal1
  <2> QED
    BY <2>2, <2>3
<1>6. ASSUME NEW u \in Uid, WriteJob(u)
      PROVE  Goal1 \/ (via[u] = c /\ More(c2s'[c], c2s[c], JobFrame(u)))
  <2>1. via[u] \in Conn /\ JobFrame(u) \in ToHost /\ up' = up
    BY <1>0, <1>6 DEF WriteJob, ThreadInv, Busy, JobFrame, ToHost
  <2>2. /\ \A d \in Conn \ {via[u]} : c2s'[d] = c2s[d]
        /\ More(c2s'[via[u]], c2s[via[u]], JobFrame(u))
    BY <1>0, <1>6, <2>1, WriteEffect DEF WriteJob
  <2>3. CASE via[u] = c
    BY <2>2, <2>3
  <2>4. CASE via[u] # c
    <3>1. c2s'[c] = c2s[c] /\ (up'[c] => up[c])
      BY <2>1, <2>2, <2>4
    <3> QED
      BY <1>2, <3>1
  <2> QED
    BY <2>3, <2>4
<1>7. ASSUME NEW u \in Uid, NEW b \in Blob, WriteBlob(u, b)
      PROVE  Goal1 \/ (via[u] = c /\ More(c2s'[c], c2s[c], BlobFrame(b)))
  <2>1. via[u] \in Conn /\ BlobFrame(b) \in ToHost /\ up' = up
    BY <1>0, <1>7 DEF WriteBlob, ThreadInv, Busy, BlobFrame, ToHost, BlobFrames
  <2>2. /\ \A d \in Conn \ {via[u]} : c2s'[d] = c2s[d]
        /\ More(c2s'[via[u]], c2s[via[u]], BlobFrame(b))
    BY <1>0, <1>7, <2>1, WriteEffect DEF WriteBlob
  <2>3. CASE via[u] = c
    BY <2>2, <2>3
  <2>4. CASE via[u] # c
    <3>1. c2s'[c] = c2s[c] /\ (up'[c] => up[c])
      BY <2>1, <2>2, <2>4
    <3> QED
      BY <1>2, <3>1
  <2> QED
    BY <2>3, <2>4
<1>8. ASSUME NEW u \in Uid, Lose(u) PROVE Goal1
  <2>1. via[u] \in Conn
    BY <1>0, <1>8 DEF Lose, ThreadInv, Busy
  <2> QED
    BY <1>0, <1>3, <1>8, <2>1, LostEffect DEF Lose
<1>9. ASSUME NEW d \in Conn, ReadEof(d) PROVE Goal1
  BY <1>0, <1>3, <1>9, LostEffect DEF ReadEof
<1>10. ASSUME NEW d \in Conn, Break(d) PROVE Goal1
  BY <1>0, <1>3, <1>10, CutEffect DEF Break
<1>11. ASSUME NEW d \in Conn, Serve(d)
       PROVE  Goal1 \/ (Serve(c) /\ Rest(c2s'[c], c2s[c]))
  <2>1. CASE c = d
    BY <1>0, <1>11, <2>1, ServeEffect
  <2>2. CASE c # d
    <3>1. c2s'[c] = c2s[c] /\ (up'[c] => up[c])
      BY <1>0, <1>11, <2>2, ServeSends
    <3> QED
      BY <1>2, <3>1
  <2> QED
    BY <2>1, <2>2
<1>12. ASSUME NEW d \in Conn, NEW u \in Uid, JobStep(d, u) PROVE Goal1
  BY <1>0, <1>2, <1>12, JobSends
<1>13. ASSUME UNCHANGED <<c2s, up>> PROVE Goal1
  BY <1>2, <1>13
<1>14. ASSUME ~Goal1
       PROVE \/ Dial \/ Close \/ (\E d \in Conn : Serve(d))
             \/ \E u \in Uid : WriteJob(u) \/ \E b \in Blob : WriteBlob(u, b)
  BY <1>8, <1>9, <1>10, <1>12, <1>13, <1>14
     DEF Next, ConnectStep, ReaderStep, ThreadStep, ServiceStep, vars, Connected,
         DialFails, Execute, ExecuteDown, Claim, WriteFails, Undo, Wake, ReadFrame,
         ServeEof, ServeTorn, Stopped, link, host
<1>15. CASE Goal1
  BY <1>15 DEF Goal1
<1>16. CASE ~Goal1
  BY <1>4, <1>5, <1>6, <1>7, <1>11, <1>14, <1>16
<1> QED
  BY <1>15, <1>16

\* close is for good.
LEMMA ClosingStep == [Next]_vars => (closing => closing')
<1> SUFFICES ASSUME [Next]_vars PROVE closing => closing'
  OBVIOUS
<1> USE DEF control
<1>1. ASSUME ConnectStep PROVE closing' = closing
  BY <1>1 DEF ConnectStep, Dial, Connected, DialFails
<1>2. ASSUME NEW u \in Uid, ThreadStep(u) PROVE closing' = closing
  BY <1>2 DEF ThreadStep, Execute, ExecuteDown, Claim, WriteJob, WriteBlob,
              WriteFails, Undo, Lose, Wake
<1>3. ASSUME NEW d \in Conn, ReaderStep(d) \/ ServiceStep(d) \/ Break(d)
      PROVE  closing' = closing
  BY <1>3 DEF ReaderStep, ServiceStep, ReadFrame, ReadEof, Serve, ServeEof,
              ServeTorn, Stopped, Break
<1>4. ASSUME NEW d \in Conn, NEW u \in Uid, JobStep(d, u) PROVE closing' = closing
  BY <1>4 DEF JobStep, JobStart, JobRun, JobOk, JobFails, JobKilled
<1>5. ASSUME UNCHANGED vars PROVE closing' = closing
  BY <1>5 DEF vars
<1>6. ASSUME Close PROVE closing'
  BY <1>6 DEF Close
<1> QED
  BY <1>1, <1>2, <1>3, <1>4, <1>5, <1>6 DEF Next

\* close is the last to write.
LEMMA ByeStep == DistInv /\ [Next]_vars => ByeInv'
<1> SUFFICES ASSUME DistInv, [Next]_vars, NEW c \in Conn
             PROVE  (\A i \in 1..Len(c2s[c]) : c2s[c][i].t = "bye" =>
                       closing /\ i = Len(c2s[c]))'
  BY DEF ByeInv
<1>0. /\ Types /\ ThreadInv
      /\ \A i \in 1..Len(c2s[c]) : c2s[c][i].t = "bye" => closing /\ i = Len(c2s[c])
  BY DEF DistInv, ByeInv
<1>1. closing => closing'
  BY ClosingStep
<1>2. CASE Prefix(c2s'[c], c2s[c])
  <2>1. SUFFICES ASSUME NEW i \in 1..Len(c2s'[c]), c2s'[c][i].t = "bye"
                 PROVE  closing' /\ i = Len(c2s'[c])
    OBVIOUS
  <2>2. i \in 1..Len(c2s[c]) /\ c2s[c][i].t = "bye"
    BY <1>2, <2>1 DEF Prefix
  <2>3. closing /\ i = Len(c2s[c])
    BY <1>0, <2>2
  <2> QED
    BY <1>1, <1>2, <2>1, <2>3 DEF Prefix
<1>3. CASE Rest(c2s'[c], c2s[c])
  <2>1. SUFFICES ASSUME NEW i \in 1..Len(c2s'[c]), c2s'[c][i].t = "bye"
                 PROVE  closing' /\ i = Len(c2s'[c])
    OBVIOUS
  <2>2. i + 1 \in 1..Len(c2s[c]) /\ c2s[c][i + 1].t = "bye"
    BY <1>3, <2>1 DEF Rest
  <2>3. closing /\ i + 1 = Len(c2s[c])
    BY <1>0, <2>2
  <2> QED
    BY <1>1, <1>3, <2>1, <2>3 DEF Rest
<1>4. ASSUME NEW f, More(c2s'[c], c2s[c], f), ~closing, f.t = "bye" => closing'
      PROVE  (\A i \in 1..Len(c2s[c]) : c2s[c][i].t = "bye" =>
                closing /\ i = Len(c2s[c]))'
  <2>1. SUFFICES ASSUME NEW i \in 1..Len(c2s'[c]), c2s'[c][i].t = "bye"
                 PROVE  closing' /\ i = Len(c2s'[c])
    OBVIOUS
  <2>2. i \in 1..Len(c2s[c]) => c2s'[c][i] = c2s[c][i]
    BY <1>4 DEF More
  <2>3. i \notin 1..Len(c2s[c])
    BY <1>0, <1>4, <2>1, <2>2
  <2>4. i = Len(c2s[c]) + 1 /\ i = Len(c2s'[c]) /\ c2s'[c][i] = f
    BY <1>4, <2>1, <2>3 DEF More
  <2> QED
    BY <1>4, <2>1, <2>4
<1>5. ASSUME NEW u \in Uid, thread[u] = "write" PROVE ~closing
  BY <1>0, <1>5 DEF ThreadInv
<1>6. ASSUME NEW u \in Uid, WriteJob(u), More(c2s'[c], c2s[c], JobFrame(u))
      PROVE  (\A i \in 1..Len(c2s[c]) : c2s[c][i].t = "bye" =>
                closing /\ i = Len(c2s[c]))'
  <2>1. JobFrame(u).t # "bye" /\ thread[u] = "write"
    BY <1>6 DEF JobFrame, WriteJob
  <2> QED
    BY <1>4, <1>5, <1>6, <2>1
<1>7. ASSUME NEW u \in Uid, NEW b \in Blob, WriteBlob(u, b),
             More(c2s'[c], c2s[c], BlobFrame(b))
      PROVE  (\A i \in 1..Len(c2s[c]) : c2s[c][i].t = "bye" =>
                closing /\ i = Len(c2s[c]))'
  <2>1. BlobFrame(b).t # "bye" /\ thread[u] = "write"
    BY <1>7 DEF BlobFrame, WriteBlob
  <2> QED
    BY <1>4, <1>5, <1>7, <2>1
<1>8. ASSUME Close, More(c2s'[c], c2s[c], [t |-> "bye"])
      PROVE  (\A i \in 1..Len(c2s[c]) : c2s[c][i].t = "bye" =>
                closing /\ i = Len(c2s[c]))'
  BY <1>4, <1>8 DEF Close
<1>9. ASSUME Len(c2s'[c]) = 1, c2s'[c][1] = [t |-> "have", ds |-> sent]
      PROVE  (\A i \in 1..Len(c2s[c]) : c2s[c][i].t = "bye" =>
                closing /\ i = Len(c2s[c]))'
  <2>1. \A i \in 1..1 : i = 1
    OBVIOUS
  <2>2. c2s'[c][1].t # "bye"
    BY <1>9
  <2> QED
    BY <1>9, <2>1, <2>2
<1> QED
  BY <1>2, <1>3, <1>6, <1>7, <1>8, <1>9, ToHostStep

\* r is s and the batch of a successful job u.
Batched(r, s, u) ==
  /\ Len(s) \in Nat /\ Len(r) \in Nat /\ Len(r) > Len(s)
  /\ \A i \in 1..Len(s) : r[i] = s[i]
  /\ \A i \in (Len(s) + 1)..(Len(r) - 1) : r[i].t = "blob"
  /\ r[Len(r)] = [t |-> "result", u |-> u, why |-> "ok"]
  /\ \A b \in Outputs[u] : \E i \in 1..(Len(r) - 1) : r[i] = BlobFrame(b)

\* A successful job sends its batch, if the link is up.
LEMMA JobOkSends ==
  ASSUME Types, NEW c \in Conn, NEW u \in Uid, JobOk(c, u)
  PROVE  s2c'[c] = s2c[c] \/ Batched(s2c'[c], s2c[c], u)
<1>1. PICK order \in [1..Cardinality(Outputs[u]) -> Outputs[u]] :
        Frames(order) = Outputs[u] /\ Send(c, Batch(u, order))
  BY DEF JobOk, Batch
<1> DEFINE n == Cardinality(Outputs[u])
           s == s2c[c]
           r == s2c'[c]
           B == Batch(u, order)
<1>2. /\ n \in Nat /\ B \in Seq(ToController) /\ Len(B) = n + 1
      /\ \A i \in 1..n : B[i] = BlobFrame(order[i])
      /\ B[n + 1] = [t |-> "result", u |-> u, why |-> "ok"]
      /\ \A b \in Outputs[u] : \E i \in 1..n : order[i] = b
  BY <1>1, BatchFrames
<1> HIDE DEF n, B
<1>3. /\ ~up[c] => r = s
      /\ Len(s) \in Nat
      /\ up[c] => /\ Len(r) = Len(s) + Len(B)
                  /\ \A i \in 1..Len(s) : r[i] = s[i]
                  /\ \A k \in 1..Len(B) : r[Len(s) + k] = B[k]
  BY <1>1, <1>2, SendEffect DEF B
<1> HIDE DEF s, r
<1>4. CASE ~up[c]
  BY <1>3, <1>4 DEF s, r
<1>5. CASE up[c]
  <2>1. Len(r) \in Nat /\ Len(r) > Len(s) /\ Len(r) = Len(s) + (n + 1)
    BY <1>2, <1>3, <1>5
  <2>2. \A k \in 1..n : r[Len(s) + k] = BlobFrame(order[k])
    BY <1>2, <1>3, <1>5
  <2>3. r[Len(r)] = [t |-> "result", u |-> u, why |-> "ok"]
    <3>1. n + 1 \in 1..Len(B)
      BY <1>2
    <3> QED
      BY <1>2, <1>3, <1>5, <2>1, <3>1
  <2>4. ASSUME NEW i \in (Len(s) + 1)..(Len(r) - 1) PROVE r[i].t = "blob"
    <3>1. i - Len(s) \in 1..n /\ Len(s) + (i - Len(s)) = i
      BY <1>2, <1>3, <2>1, <2>4
    <3>2. r[i] = BlobFrame(order[i - Len(s)])
      BY <2>2, <3>1
    <3> QED
      BY <3>2 DEF BlobFrame
  <2>5. ASSUME NEW b \in Outputs[u]
        PROVE  \E i \in 1..(Len(r) - 1) : r[i] = BlobFrame(b)
    <3>1. PICK k \in 1..n : order[k] = b
      BY <1>2
    <3>2. Len(s) + k \in 1..(Len(r) - 1)
      BY <1>2, <1>3, <2>1
    <3> QED
      BY <2>2, <3>1, <3>2
  <2>6. Batched(r, s, u)
    BY <1>3, <1>5, <2>1, <2>3, <2>4, <2>5 DEF Batched
  <2> QED
    BY <2>6 DEF r, s
<1> QED
  BY <1>4, <1>5

\* What a step does to the pipe to the controller: it is cut, _connect or the
\* reader reads it, or the service and its jobs write to it.
LEMMA ToControllerStep ==
  ASSUME DistInv, [Next]_vars, NEW c \in Conn
  PROVE  \/ Prefix(s2c'[c], s2c[c])
         \/ Connected /\ dialing = c /\ Rest(s2c'[c], s2c[c])
         \/ ReadFrame(c) /\ Rest(s2c'[c], s2c[c])
         \/ /\ Serve(c)
            /\ \E f \in ToController :
                 /\ More(s2c'[c], s2c[c], f)
                 /\ \/ f.t = "have" /\ f.ds \subseteq hostCas /\ c2s[c][1].t = "have"
                    \/ f.t = "bye"
         \/ \E u \in Uid :
              /\ JobStart(c, u) /\ ~(Inputs[u] \subseteq hostCas)
              /\ \E f : f.t = "missing" /\ More(s2c'[c], s2c[c], f)
         \/ \E u \in Uid :
              /\ JobFails(c, u)
              /\ More(s2c'[c], s2c[c], [t |-> "result", u |-> u,
                   why |-> IF work[u] = c THEN "exit" ELSE "dir"])
         \/ \E u \in Uid : JobOk(c, u) /\ Batched(s2c'[c], s2c[c], u)
<1> DEFINE Goal == Prefix(s2c'[c], s2c[c])
<1> HIDE DEF Goal
<1>0. Types /\ ConnInv /\ ThreadInv
  BY DEF DistInv
<1>1. Len(s2c[c]) \in Nat
  BY <1>0, LenProperties DEF Types
<1>2. ASSUME s2c'[c] = s2c[c] PROVE Goal
  BY <1>1, <1>2 DEF Prefix, Goal
<1>3. ASSUME Shrunk PROVE Goal
  BY <1>1, <1>3 DEF Shrunk, Prefix, Goal
<1>4. ASSUME Connected PROVE Goal \/ (dialing = c /\ Rest(s2c'[c], s2c[c]))
  <2>1. dialing \in Conn
    BY <1>0, <1>4 DEF Connected, Conn, Types
  <2>2. /\ \A d \in Conn \ {dialing} : s2c'[d] = s2c[d]
        /\ Rest(s2c'[dialing], s2c[dialing])
    BY <1>0, <1>4, <2>1, ReadEffect DEF Connected
  <2>3. CASE dialing = c
    BY <2>2, <2>3
  <2>4. CASE dialing # c
    BY <1>2, <2>2, <2>4
  <2> QED
    BY <2>3, <2>4
<1>5. ASSUME NEW d \in Conn, ReadFrame(d)
      PROVE  Goal \/ (ReadFrame(c) /\ Rest(s2c'[c], s2c[c]))
  <2>1. /\ \A e \in Conn \ {d} : s2c'[e] = s2c[e]
        /\ Rest(s2c'[d], s2c[d])
    BY <1>0, <1>5, ReadEffect DEF ReadFrame
  <2>2. CASE c = d
    BY <1>5, <2>1, <2>2
  <2>3. CASE c # d
    BY <1>2, <2>1, <2>3
  <2> QED
    BY <2>2, <2>3
<1>6. ASSUME NEW d \in Conn, Serve(d)
      PROVE  \/ Goal
             \/ /\ Serve(c)
                /\ \E f \in ToController :
                     /\ More(s2c'[c], s2c[c], f)
                     /\ \/ f.t = "have" /\ f.ds \subseteq hostCas /\ c2s[c][1].t = "have"
                        \/ f.t = "bye"
  <2>1. CASE c = d
    <3>1. CASE s2c'[c] = s2c[c]
      BY <1>2, <3>1
    <3>2. CASE s2c'[c] # s2c[c]
      BY <1>0, <1>6, <2>1, <3>2, ServeSends
    <3> QED
      BY <3>1, <3>2
  <2>2. CASE c # d
    <3>1. s2c'[c] = s2c[c]
      BY <1>0, <1>6, <2>2, ServeSends
    <3> QED
      BY <1>2, <3>1
  <2> QED
    BY <2>1, <2>2
<1>7. ASSUME NEW d \in Conn, NEW u \in Uid, JobStep(d, u), d # c PROVE Goal
  <2>1. s2c'[c] = s2c[c]
    BY <1>0, <1>7, JobSends
  <2> QED
    BY <1>2, <2>1
<1>8. ASSUME NEW u \in Uid, JobStart(c, u)
      PROVE  \/ Goal
             \/ /\ ~(Inputs[u] \subseteq hostCas)
                /\ \E f : f.t = "missing" /\ More(s2c'[c], s2c[c], f)
  <2> DEFINE f == [t |-> "missing", u |-> u, ds |-> Inputs[u] \ hostCas]
  <2>1. CASE Inputs[u] \subseteq hostCas
    <3>1. s2c' = s2c
      BY <1>8, <2>1 DEF JobStart
    <3> QED
      BY <1>2, <3>1
  <2>2. CASE ~(Inputs[u] \subseteq hostCas)
    <3>1. f \in ToController /\ f.t = "missing"
      BY JobAssumption DEF ToController, Answers
    <3>2. Send(c, <<f>>)
      BY <1>8, <2>2 DEF JobStart
    <3> HIDE DEF f
    <3>3. s2c'[c] = s2c[c] \/ More(s2c'[c], s2c[c], f)
      BY <1>0, <3>1, <3>2, SendOne DEF Types
    <3> QED
      BY <1>2, <2>2, <3>1, <3>3
  <2> QED
    BY <2>1, <2>2
<1>9. ASSUME NEW u \in Uid, JobFails(c, u)
      PROVE  \/ Goal
             \/ More(s2c'[c], s2c[c], [t |-> "result", u |-> u,
                   why |-> IF work[u] = c THEN "exit" ELSE "dir"])
  <2> DEFINE f == [t |-> "result", u |-> u, why |-> IF work[u] = c THEN "exit" ELSE "dir"]
  <2>1. f \in ToController
    BY DEF ToController, Answers
  <2>2. Send(c, <<f>>)
    BY <1>9 DEF JobFails, Result
  <2> HIDE DEF f
  <2>3. s2c'[c] = s2c[c] \/ More(s2c'[c], s2c[c], f)
    BY <1>0, <2>1, <2>2, SendOne DEF Types
  <2> QED
    BY <1>2, <2>3 DEF f
<1>10. ASSUME NEW u \in Uid, JobOk(c, u)
       PROVE  Goal \/ Batched(s2c'[c], s2c[c], u)
  BY <1>0, <1>2, <1>10, JobOkSends
<1>11. ASSUME NEW u \in Uid, Lose(u) PROVE Goal
  <2>1. via[u] \in Conn
    BY <1>0, <1>11 DEF Lose, ThreadInv, Busy
  <2> QED
    BY <1>0, <1>3, <1>11, <2>1, LostEffect DEF Lose
<1>12. ASSUME NEW d \in Conn, ReadEof(d) PROVE Goal
  BY <1>0, <1>3, <1>12, LostEffect DEF ReadEof
<1>13. ASSUME NEW d \in Conn, Break(d) PROVE Goal
  BY <1>0, <1>3, <1>13, CutEffect DEF Break
<1>14. ASSUME UNCHANGED s2c PROVE Goal
  BY <1>2, <1>14
<1>15. ASSUME ~Goal
       PROVE  \/ Connected
              \/ \E d \in Conn : \/ ReadFrame(d) \/ Serve(d)
                                 \/ \E u \in Uid : JobStep(d, u)
  BY <1>11, <1>12, <1>13, <1>14, <1>15
     DEF Next, ConnectStep, ReaderStep, ThreadStep, ServiceStep, vars, Dial,
         DialFails, Close, Execute, ExecuteDown, Claim, WriteJob, WriteBlob,
         WriteFails, Undo, Wake, ServeEof, ServeTorn, Stopped, link, host
<1>16. CASE Goal
  BY <1>16 DEF Goal
<1>17. ASSUME ~Goal, NEW u \in Uid, JobStep(c, u)
       PROVE  \/ JobStart(c, u) \/ JobFails(c, u) \/ JobOk(c, u)
  BY <1>14, <1>17 DEF JobStep, JobRun, JobKilled, link
<1>18. CASE ~Goal
  BY <1>4, <1>5, <1>6, <1>7, <1>8, <1>9, <1>10, <1>15, <1>17, <1>18
<1> QED
  BY <1>16, <1>18

\* The blobs before the i-th frame depend on those frames only.
LEMMA BeforeSame ==
  ASSUME NEW r, NEW s, NEW n \in Nat, \A i \in 1..n : r[i] = s[i],
         NEW i \in 1..(n + 1)
  PROVE  Before(r, i) = Before(s, i)
<1>1. \A k \in 1..(i - 1) : r[k] = s[k]
  OBVIOUS
<1> QED
  BY <1>1 DEF Before

\* When the first frame is read, all but its blob stay.
LEMMA BeforeRest ==
  ASSUME NEW r, NEW s, Rest(r, s), NEW i \in 1..Len(r), NEW b \in Before(s, i + 1)
  PROVE  b \in Before(r, i) \/ s[1] = BlobFrame(b)
<1>1. PICK k \in 1..i : s[k] = BlobFrame(b)
  <2>1. i + 1 - 1 = i
    BY DEF Rest
  <2> QED
    BY <2>1 DEF Before
<1>2. CASE k = 1
  BY <1>1, <1>2
<1>3. CASE k # 1
  <2>1. k - 1 \in 1..(i - 1) /\ k - 1 \in 1..(Len(s) - 1) /\ (k - 1) + 1 = k
    BY <1>1, <1>3 DEF Rest
  <2>2. r[k - 1] = s[k]
    BY <2>1 DEF Rest
  <2> QED
    BY <1>1, <2>1, <2>2 DEF Before
<1> QED
  BY <1>2, <1>3

\* The controller's CAS only grows, and a thread gets a reply from its pipe, a
\* `lost`, or a new one.
LEMMA ReplyStep ==
  ASSUME DistInv, [Next]_vars
  PROVE  /\ localCas \subseteq localCas'
         /\ \A u \in Uid :
              \/ reply'[u] = reply[u] \/ reply'[u] = None \/ reply'[u] = [t |-> "lost"]
              \/ \E c \in Conn : /\ reader[c] = "on" /\ reply'[u] = s2c[c][1]
                                 /\ Len(s2c[c]) \in Nat \ {0} /\ reply'[u].u = u
         /\ \A c \in Conn, b \in Blob : ReadFrame(c) /\ s2c[c][1] = BlobFrame(b) =>
              b \in localCas'
<1>0. Types /\ HaveInv /\ ThreadInv
  BY DEF DistInv
<1>1. CASE UNCHANGED <<localCas, reply>> /\ \A c \in Conn : ~ReadFrame(c)
  BY <1>1
<1>2. ASSUME NEW c \in Conn, ReadFrame(c)
      PROVE  /\ localCas \subseteq localCas'
             /\ \A u \in Uid :
                  \/ reply'[u] = reply[u]
                  \/ reply'[u] = s2c[c][1] /\ reply'[u].u = u
             /\ \A b \in Blob : s2c[c][1] = BlobFrame(b) => b \in localCas'
  <2>1. ASSUME NEW b \in Blob, ReadBlob(c, b)
        PROVE  /\ localCas' = localCas \cup {b} /\ reply' = reply
               /\ \A a \in Blob : s2c[c][1] = BlobFrame(a) => a = b
    BY <2>1 DEF ReadBlob, replies, BlobFrame
  <2>2. ASSUME NEW f \in Answers, ReadAnswer(c, f)
        PROVE  /\ localCas' = localCas
               /\ \A u \in Uid :
                    \/ reply'[u] = reply[u]
                    \/ reply'[u] = s2c[c][1] /\ reply'[u].u = u
               /\ \A b \in Blob : s2c[c][1] # BlobFrame(b)
    <3>1. f.u \in Uid /\ f.t # "blob" /\ s2c[c][1] = f /\ localCas' = localCas
      BY <2>2 DEF ReadAnswer, Answers
    <3>2. reply' = IF f.u \in pending THEN [reply EXCEPT ![f.u] = f] ELSE reply
      BY <2>2 DEF ReadAnswer
    <3>3. \A u \in Uid : reply'[u] = reply[u] \/ (reply'[u] = f /\ u = f.u)
      BY <1>0, <3>1, <3>2 DEF Types
    <3>4. \A b : f # BlobFrame(b)
      BY <3>1 DEF BlobFrame
    <3> QED
      BY <3>1, <3>3, <3>4
  <2>3. ASSUME ReadBye(c)
        PROVE  /\ localCas' = localCas /\ reply' = reply
               /\ \A b \in Blob : s2c[c][1] # BlobFrame(b)
    BY <2>3 DEF ReadBye, replies, BlobFrame
  <2> QED
    BY <1>0, <1>2, <2>1, <2>2, <2>3, ReadKinds
<1>3. ASSUME NEW c \in Conn, ReadFrame(c)
      PROVE  reader[c] = "on" /\ Len(s2c[c]) \in Nat \ {0}
  BY <1>0, <1>3, ReadEffect DEF ReadFrame, Rest
<1>4. ASSUME NEW c \in Conn, Lost(c), localCas' = localCas, \A d \in Conn : ~ReadFrame(d)
      PROVE  /\ localCas \subseteq localCas'
             /\ \A u \in Uid : reply'[u] = reply[u] \/ reply'[u] = [t |-> "lost"]
  BY <1>0, <1>4, LostEffect DEF Types
<1>5. ASSUME NEW u \in Uid, Execute(u)
      PROVE  /\ localCas \subseteq localCas'
             /\ \A v \in Uid : reply'[v] = reply[v] \/ reply'[v] = None
  BY <1>0, <1>5 DEF Execute, Types
<1>6. ASSUME NEW u \in Uid, Lose(u) PROVE via[u] \in Conn
  BY <1>0, <1>6 DEF Lose, ThreadInv, Busy
<1>7. CASE \E c \in Conn : ReadFrame(c)
  <2>1. PICK c \in Conn : ReadFrame(c)
    BY <1>7
  <2>2. ASSUME NEW d \in Conn, ReadFrame(d), d # c PROVE FALSE
    <3>1. s2c'[c] = s2c[c]
      BY <1>0, <2>2, ReadEffect DEF ReadFrame
    <3>2. Rest(s2c'[c], s2c[c])
      BY <1>0, <2>1, ReadEffect DEF ReadFrame
    <3> QED
      BY <3>1, <3>2 DEF Rest
  <2> QED
    BY <1>2, <1>3, <2>1, <2>2
<1>8. CASE ~\E c \in Conn : ReadFrame(c)
  <2>1. CASE \E u \in Uid : Execute(u)
    BY <1>5, <1>8, <2>1
  <2>2. CASE \E u \in Uid : Lose(u)
    BY <1>4, <1>6, <1>8, <2>2 DEF Lose
  <2>3. CASE \E c \in Conn : ReadEof(c)
    BY <1>4, <1>8, <2>3 DEF ReadEof
  <2>4. CASE /\ ~\E u \in Uid : Execute(u) \/ Lose(u)
             /\ ~\E c \in Conn : ReadEof(c)
    <3> USE DEF replies
    <3>1. ASSUME ConnectStep PROVE UNCHANGED <<localCas, reply>>
      BY <3>1 DEF ConnectStep, Dial, Connected, DialFails
    <3>2. ASSUME NEW u \in Uid, ThreadStep(u) PROVE UNCHANGED <<localCas, reply>>
      BY <2>4, <3>2 DEF ThreadStep, ExecuteDown, Claim, WriteJob, WriteBlob,
                        WriteFails, Undo, Wake
    <3>3. ASSUME NEW d \in Conn, ReaderStep(d) \/ ServiceStep(d) \/ Break(d)
          PROVE  UNCHANGED <<localCas, reply>>
      BY <1>8, <2>4, <3>3 DEF ReaderStep, ServiceStep, Serve, ServeEof,
         ServeTorn,
                              Stopped, Break
    <3>4. ASSUME NEW d \in Conn, NEW u \in Uid, JobStep(d, u)
          PROVE  UNCHANGED <<localCas, reply>>
      BY <3>4 DEF JobStep, JobStart, JobRun, JobOk, JobFails, JobKilled
    <3>5. ASSUME UNCHANGED vars PROVE UNCHANGED <<localCas, reply>>
      BY <3>5 DEF vars
    <3>6. ASSUME Close PROVE UNCHANGED <<localCas, reply>>
      BY <3>6 DEF Close
    <3>7. UNCHANGED <<localCas, reply>>
      BY <3>1, <3>2, <3>3, <3>4, <3>5, <3>6 DEF Next
    <3> QED
      BY <1>1, <1>8, <3>7
  <2> QED
    BY <2>1, <2>2, <2>3, <2>4
<1> QED
  BY <1>7, <1>8

\* A result follows its blobs through the pipe and into the reply.
LEMMA ResultStep == DistInv /\ [Next]_vars => ResultInv'
<1> SUFFICES ASSUME DistInv, [Next]_vars PROVE ResultInv'
  OBVIOUS
<1>0. Types /\ HaveInv /\ ConnInv /\ ResultInv
  BY DEF DistInv
<1>1. localCas \subseteq localCas'
  BY ReplyStep
<1>2. ASSUME NEW u \in Uid, Ok(reply'[u]) PROVE Outputs[u] \subseteq localCas'
  <2>1. CASE reply'[u] = reply[u]
    BY <1>0, <1>1, <1>2, <2>1 DEF ResultInv
  <2>2. ASSUME NEW c \in Conn, reply'[u] = s2c[c][1],
               Len(s2c[c]) \in Nat \ {0}, reply'[u].u = u
        PROVE  Outputs[u] \subseteq localCas'
    <3>1. 1 \in 1..Len(s2c[c])
      BY <2>2
    <3>2. Outputs[u] \subseteq localCas \cup Before(s2c[c], 1)
      BY <1>0, <1>2, <2>2, <3>1 DEF ResultInv
    <3>3. Before(s2c[c], 1) = {}
      BY DEF Before
    <3> QED
      BY <1>1, <3>2, <3>3
  <2>3. reply'[u] # None /\ reply'[u] # [t |-> "lost"]
    BY <1>2 DEF Ok, None
  <2> QED
    BY <2>1, <2>2, <2>3, ReplyStep
<1>3. ASSUME NEW c \in Conn
      PROVE  \A i \in 1..Len(s2c'[c]) : Ok(s2c'[c][i]) =>
               Outputs[s2c'[c][i].u] \subseteq localCas' \cup Before(s2c'[c], i)
  <2> DEFINE r == s2c'[c]
             s == s2c[c]
             Good(i) == Ok(r[i]) => Outputs[r[i].u] \subseteq localCas' \cup Before(r, i)
  <2>0. \A i \in 1..Len(s) : Ok(s[i]) => Outputs[s[i].u] \subseteq localCas \cup Before(s, i)
    BY <1>0 DEF ResultInv
  <2> SUFFICES \A i \in 1..Len(r) : Good(i)
    OBVIOUS
  <2> HIDE DEF r, s
  <2>1. ASSUME NEW n \in Nat, n <= Len(s), \A i \in 1..n : r[i] = s[i], Len(s) \in Nat,
               NEW i \in 1..n
        PROVE  Good(i)
    <3>1. Before(r, i) = Before(s, i)
      BY <2>1, BeforeSame
    <3>2. i \in 1..Len(s) /\ r[i] = s[i]
      BY <2>1
    <3> QED
      BY <1>1, <2>0, <3>1, <3>2
  <2>2. CASE Prefix(r, s)
    BY <2>1, <2>2 DEF Prefix
  <2>3. ASSUME Rest(r, s), \A b \in Blob : s[1] = BlobFrame(b) => b \in localCas'
        PROVE  \A i \in 1..Len(r) : Good(i)
    <3>1. SUFFICES ASSUME NEW i \in 1..Len(r), Ok(r[i])
                   PROVE  Outputs[r[i].u] \subseteq localCas' \cup Before(r, i)
      OBVIOUS
    <3>2. i + 1 \in 1..Len(s) /\ r[i] = s[i + 1]
      BY <2>3 DEF Rest
    <3>3. Outputs[r[i].u] \subseteq localCas \cup Before(s, i + 1)
      BY <2>0, <3>1, <3>2
    <3>4. \A b \in Before(s, i + 1) : b \in Before(r, i) \/ b \in localCas'
      <4>1. ASSUME NEW b \in Before(s, i + 1) PROVE b \in Before(r, i) \/ b \in localCas'
        <5>1. b \in Before(r, i) \/ s[1] = BlobFrame(b)
          BY <2>3, BeforeRest
        <5>2. b \in Blob
          BY DEF Before
        <5> QED
          BY <2>3, <5>1, <5>2
      <4> QED
        BY <4>1
    <3> QED
      BY <1>1, <3>3, <3>4
  <2>4. ASSUME NEW f, More(r, s, f), ~Ok(f) PROVE \A i \in 1..Len(r) : Good(i)
    <3>1. ASSUME NEW i \in 1..Len(r) PROVE Good(i)
      <4>1. i \in 1..Len(s) \/ r[i] = f
        BY <2>4 DEF More
      <4>2. CASE i \in 1..Len(s)
        <5>1. Len(s) \in Nat /\ Len(s) <= Len(s) /\ \A k \in 1..Len(s) : r[k] = s[k]
          BY <2>4 DEF More
        <5> QED
          BY <2>1, <4>2, <5>1
      <4> QED
        BY <2>4, <4>1, <4>2
    <3> QED
      BY <3>1
  <2>5. ASSUME NEW u \in Uid, Batched(r, s, u) PROVE \A i \in 1..Len(r) : Good(i)
    <3>0. /\ Len(s) \in Nat /\ Len(s) <= Len(s) /\ \A k \in 1..Len(s) : r[k] = s[k]
          /\ Len(r) \in Nat /\ Len(r) > Len(s)
      BY <2>5 DEF Batched
    <3>1. ASSUME NEW i \in 1..Len(r) PROVE Good(i)
      <4>1. i \in 1..Len(s) \/ i \in (Len(s) + 1)..(Len(r) - 1) \/ i = Len(r)
        BY <3>0, <3>1
      <4>2. CASE i \in 1..Len(s)
        BY <2>1, <3>0, <4>2
      <4>3. CASE i \in (Len(s) + 1)..(Len(r) - 1)
        <5>1. ~Ok(r[i])
          BY <2>5, <4>3 DEF Batched, Ok
        <5> QED
          BY <5>1
      <4>4. CASE i = Len(r)
        <5>1. r[i].u = u
          BY <2>5, <4>4 DEF Batched
        <5>2. \A b \in Outputs[u] : \E k \in 1..(i - 1) : r[k] = BlobFrame(b)
          BY <2>5, <4>4 DEF Batched
        <5>3. Outputs[u] \subseteq Before(r, i)
          BY <5>2, JobAssumption DEF Before
        <5> QED
          BY <5>1, <5>3
      <4> QED
        BY <4>1, <4>2, <4>3, <4>4
    <3> QED
      BY <3>1
  <2>6. CASE Connected /\ dialing = c /\ Rest(r, s)
    <3>1. reader[c] = "off"
      BY <1>0, <2>6 DEF Connected, ConnInv
    <3>2. 1 \in 1..Len(s2c[c])
      BY <2>6 DEF Rest, s
    <3>3. s2c[c][1].t = "have"
      BY <1>0, <3>1, <3>2 DEF HaveInv, HaveAt
    <3>4. \A b \in Blob : s[1] # BlobFrame(b)
      BY <3>3 DEF BlobFrame, s
    <3> QED
      BY <2>3, <2>6, <3>4
  <2>7. CASE ReadFrame(c) /\ Rest(r, s)
    <3>1. \A b \in Blob : s[1] = BlobFrame(b) => b \in localCas'
      BY <2>7, ReplyStep DEF s
    <3> QED
      BY <2>3, <2>7, <3>1
  <2>8. ASSUME NEW f, More(r, s, f), f.t # "result" \/ f.why # "ok"
        PROVE  \A i \in 1..Len(r) : Good(i)
    BY <2>4, <2>8 DEF Ok
  <2>9. ASSUME NEW u \in Uid, More(r, s, [t |-> "result", u |-> u,
                   why |-> IF work[u] = c THEN "exit" ELSE "dir"])
        PROVE  \A i \in 1..Len(r) : Good(i)
    <3>1. [t |-> "result", u |-> u,
                   why |-> IF work[u] = c THEN "exit" ELSE "dir"].why # "ok"
      OBVIOUS
    <3> QED
      BY <2>8, <2>9, <3>1
  <2> HIDE DEF Good
  <2>10. ASSUME NEW f, More(r, s, f), f.t \in {"have", "bye", "missing"}
         PROVE  \A i \in 1..Len(r) : Good(i)
    BY <2>8, <2>10
  <2> QED
    BY <2>2, <2>5, <2>6, <2>7, <2>9, <2>10, ToControllerStep DEF r, s
<1> QED
  BY <1>2, <1>3 DEF ResultInv

-----------------------------------------------------------------------------
(* The first session: connection 1 is the only one that was dialled.       *)

\* As long as one connection was dialled, the others are untouched.
LEMMA OnlyFirst ==
  ASSUME DistInv, [Next]_vars, dialled' <= 1
  PROVE  /\ 1 \in Conn
         /\ JobsInv /\ AnswersInv /\ LedgerInv /\ OnceInv
         /\ \A c \in Conn : c # 1 => Untouched(c) /\ Untouched(c)'
<1>0. Types /\ ConnInv /\ FirstInv
  BY DEF DistInv
<1>1. dialled' = dialled \/ dialled' = dialled + 1
  <2> USE DEF control
  <2>1. ASSUME ConnectStep PROVE dialled' = dialled \/ dialled' = dialled + 1
    BY <2>1 DEF ConnectStep, Dial, Connected, DialFails
  <2>2. ASSUME NEW u \in Uid, ThreadStep(u) PROVE dialled' = dialled
    BY <2>2 DEF ThreadStep, Execute, ExecuteDown, Claim, WriteJob, WriteBlob,
                WriteFails, Undo, Lose, Wake
  <2>3. ASSUME NEW d \in Conn, ReaderStep(d) \/ ServiceStep(d) \/ Break(d)
        PROVE  dialled' = dialled
    BY <2>3 DEF ReaderStep, ServiceStep, ReadFrame, ReadEof, Serve, ServeEof,
                ServeTorn, Stopped, Break
  <2>4. ASSUME NEW d \in Conn, NEW u \in Uid, JobStep(d, u) PROVE dialled' = dialled
    BY <2>4 DEF JobStep, JobStart, JobRun, JobOk, JobFails, JobKilled
  <2>5. ASSUME UNCHANGED vars PROVE dialled' = dialled
    BY <2>5 DEF vars
  <2>6. ASSUME Close PROVE dialled' = dialled
    BY <2>6 DEF Close
  <2> QED
    BY <2>1, <2>2, <2>3, <2>4, <2>5, <2>6 DEF Next
<1>2. dialled \in Nat /\ dialled <= 1 /\ dialled' \in Nat
  BY <1>0, <1>1, JobAssumption DEF Types
<1>3. \A c \in Conn : c # 1 => c > dialled /\ c > dialled'
  BY <1>2 DEF Conn
<1>4. ConnInv'
  BY ConnStep
<1>5. ASSUME NEW c \in Conn, c # 1 PROVE Untouched(c) /\ Untouched(c)'
  <2>1. Untouched(c)
    BY <1>0, <1>3, <1>5 DEF ConnInv
  <2>2. Untouched(c)'
    BY <1>3, <1>4, <1>5 DEF ConnInv
  <2> QED
    BY <2>1, <2>2
<1>6. 1 \in Conn
  BY JobAssumption DEF Conn
<1> QED
  BY <1>0, <1>2, <1>5, <1>6 DEF FirstInv

\* The host's cache loses blobs only to a bye, and gets one from the link only
\* when the service reads it.
LEMMA HostStep ==
  ASSUME DistInv, [Next]_vars
  PROVE  \/ hostCas \subseteq hostCas' /\ crossed' = crossed
         \/ \E c \in Conn, b \in Blob : Serve(c) /\ ServeBlob(c, b)
         \/ \E c \in Conn : Serve(c) /\ ServeBye(c)
<1>0. Types
  BY DEF DistInv
<1> USE DEF host
<1>1. ASSUME ConnectStep PROVE UNCHANGED <<hostCas, crossed>>
  BY <1>1 DEF ConnectStep, Dial, Connected, DialFails
<1>2. ASSUME NEW u \in Uid, ThreadStep(u) PROVE UNCHANGED <<hostCas, crossed>>
  BY <1>2 DEF ThreadStep, Execute, ExecuteDown, Claim, WriteJob, WriteBlob,
              WriteFails, Undo, Lose, Wake
<1>3. ASSUME NEW d \in Conn, ReaderStep(d) \/ ServiceStep(d) \/ Break(d), ~Serve(d)
      PROVE  UNCHANGED <<hostCas, crossed>>
  BY <1>3 DEF ReaderStep, ServiceStep, ReadFrame, ReadEof, ServeEof,
              ServeTorn, Stopped, Break
<1>4. ASSUME NEW d \in Conn, NEW u \in Uid, JobStep(d, u)
      PROVE  hostCas \subseteq hostCas' /\ crossed' = crossed
  BY <1>4 DEF JobStep, JobStart, JobRun, JobOk, JobFails, JobKilled
<1>5. ASSUME UNCHANGED vars PROVE UNCHANGED <<hostCas, crossed>>
  BY <1>5 DEF vars
<1>6. ASSUME Close PROVE UNCHANGED <<hostCas, crossed>>
  BY <1>6 DEF Close
<1>7. ASSUME NEW c \in Conn, Serve(c)
      PROVE  \/ hostCas \subseteq hostCas' /\ crossed' = crossed
             \/ \E b \in Blob : ServeBlob(c, b)
             \/ ServeBye(c)
  <2>1. ServeHave(c) => UNCHANGED <<hostCas, crossed>>
    BY DEF ServeHave
  <2>2. ASSUME NEW u \in Uid, ServeJob(c, u) PROVE UNCHANGED <<hostCas, crossed>>
    BY <2>2 DEF ServeJob
  <2> QED
    BY <1>0, <1>7, <2>1, <2>2, ServeKinds
<1> QED
  BY <1>1, <1>2, <1>3, <1>4, <1>5, <1>6, <1>7 DEF Next

\* How jobs and work directories change.
LEMMA JobWorkStep ==
  ASSUME DistInv, [Next]_vars, NEW c \in Conn, NEW u \in Uid
  PROVE  /\ job'[c][u] = "queued" =>
              job[c][u] = "queued" \/ (Serve(c) /\ ServeJob(c, u))
         /\ job'[c][u] \in {"linked", "run"} =>
              \/ job[c][u] \in {"linked", "run"} /\ work'[u] = work[u]
              \/ work'[u] = c
              \/ \E d \in Conn : \/ d # c /\ job[d][u] # "none"
                                 \/ Serve(d) /\ ServeBye(d)
                                 \/ d # c /\ svc[d] = "stop"
<1>0. Types
  BY DEF DistInv
<1>1. ASSUME UNCHANGED <<job, work>>
      PROVE  /\ job'[c][u] = job[c][u] /\ work'[u] = work[u]
  BY <1>1
<1> USE DEF host, EndJob
<1>2. ASSUME ConnectStep PROVE UNCHANGED <<job, work>>
  BY <1>2 DEF ConnectStep, Dial, Connected, DialFails
<1>3. ASSUME NEW v \in Uid, ThreadStep(v) PROVE UNCHANGED <<job, work>>
  BY <1>3 DEF ThreadStep, Execute, ExecuteDown, Claim, WriteJob, WriteBlob,
              WriteFails, Undo, Lose, Wake
<1>4. ASSUME NEW d \in Conn, ReaderStep(d) \/ Break(d) \/ ServeTorn(d)
      PROVE  UNCHANGED <<job, work>>
  BY <1>4 DEF ReaderStep, ReadFrame, ReadEof, ServeTorn, Break
<1>5. ASSUME UNCHANGED vars PROVE UNCHANGED <<job, work>>
  BY <1>5 DEF vars
<1>6. ASSUME Close PROVE UNCHANGED <<job, work>>
  BY <1>6 DEF Close
<1> DEFINE Goal == /\ job'[c][u] = "queued" =>
                        job[c][u] = "queued" \/ (Serve(c) /\ ServeJob(c, u))
                   /\ job'[c][u] \in {"linked", "run"} =>
                        \/ job[c][u] \in {"linked", "run"} /\ work'[u] = work[u]
                        \/ work'[u] = c
                        \/ \E d \in Conn : \/ d # c /\ job[d][u] # "none"
                                           \/ Serve(d) /\ ServeBye(d)
                                           \/ d # c /\ svc[d] = "stop"
<1>7. ASSUME UNCHANGED <<job, work>> PROVE Goal
  BY <1>1, <1>7
<1>8. ASSUME NEW d \in Conn, Serve(d) PROVE Goal
  <2>1. ASSUME NEW b \in Blob, ServeBlob(d, b) PROVE Goal
    BY <1>7, <2>1 DEF ServeBlob
  <2>2. CASE ServeHave(d)
    BY <1>7, <2>2 DEF ServeHave
  <2>3. CASE ServeBye(d)
    <3>1. job' = job
      BY <2>3 DEF ServeBye
    <3> QED
      BY <1>8, <2>3, <3>1
  <2>4. ASSUME NEW v \in Uid, ServeJob(d, v) PROVE Goal
    <3>1. work' = work /\ job' = [job EXCEPT ![d][v] = "queued"]
      BY <2>4 DEF ServeJob
    <3>2. CASE d = c /\ v = u
      <4>1. job'[c][u] = "queued"
        BY <1>0, <3>1, <3>2 DEF Types
      <4> QED
        BY <1>8, <2>4, <3>2, <4>1
    <3>3. CASE ~(d = c /\ v = u)
      <4>1. job'[c][u] = job[c][u]
        BY <1>0, <3>1, <3>3 DEF Types
      <4> QED
        BY <3>1, <4>1
    <3> QED
      BY <3>2, <3>3
  <2> QED
    BY <1>0, <1>8, <2>1, <2>2, <2>3, <2>4, ServeKinds
<1>9. ASSUME NEW d \in Conn, ServeEof(d) PROVE Goal
  <2>1. work' = work
    BY <1>9 DEF ServeEof
  <2>2. CASE d = c
    <3>1. job'[c][u] = CASE job[c][u] = "queued" -> "none"
                         [] job[c][u] = "run" -> "killed"
                         [] OTHER -> job[c][u]
      BY <1>0, <1>9, <2>2 DEF ServeEof, Types
    <3>2. job[c][u] \in {"none", "queued", "linked", "run", "killed"}
      BY <1>0 DEF Types
    <3> QED
      BY <2>1, <3>1, <3>2
  <2>3. CASE d # c
    <3>1. job'[c] = job[c]
      BY <1>0, <1>9, <2>3 DEF ServeEof, Types
    <3> QED
      BY <2>1, <3>1
  <2> QED
    BY <2>2, <2>3
<1>10. ASSUME NEW d \in Conn, Stopped(d) PROVE Goal
  <2>1. job' = job /\ svc[d] = "stop" /\ \A v \in Uid : job[d][v] = "none"
    BY <1>10 DEF Stopped
  <2>2. CASE d = c
    BY <2>1, <2>2
  <2>3. CASE d # c
    BY <2>1, <2>3
  <2> QED
    BY <2>2, <2>3
<1>11. ASSUME NEW d \in Conn, NEW v \in Uid, JobStep(d, v) PROVE Goal
  <2>1. CASE v # u
    <3>1. work'[u] = work[u] /\ job'[c][u] = job[c][u]
      <4>1. work' = work \/ work' = [work EXCEPT ![v] = d] \/ work' = [work EXCEPT ![v] = 0]
        BY <1>11 DEF JobStep, JobStart, JobRun, JobOk, JobFails, JobKilled
      <4>2. work'[u] = work[u]
        BY <1>0, <2>1, <4>1 DEF Types
      <4>3. job'[c][u] = job[c][u]
        <5>1. CASE d = c
          BY <1>0, <1>11, <2>1, <5>1, JobSends
        <5>2. CASE d # c
          BY <1>0, <1>11, <5>2, JobSends
        <5> QED
          BY <5>1, <5>2
      <4> QED
        BY <4>2, <4>3
    <3> QED
      BY <3>1
  <2>2. CASE v = u /\ d # c
    <3>1. job[d][u] # "none" /\ job'[c][u] = job[c][u]
      BY <1>0, <1>11, <2>2, JobSends
    <3> QED
      BY <2>2, <3>1
  <2>3. CASE v = u /\ d = c
    <3>1. CASE JobStart(c, u)
      <4>1. CASE Inputs[u] \subseteq hostCas
        <5>1. job'[c][u] = "linked" /\ work'[u] = c
          BY <1>0, <3>1, <4>1 DEF JobStart, Types
        <5> QED
          BY <5>1
      <4>2. CASE ~(Inputs[u] \subseteq hostCas)
        <5>1. job'[c][u] = "none"
          BY <1>0, <3>1, <4>2 DEF JobStart, Types
        <5> QED
          BY <5>1
      <4> QED
        BY <4>1, <4>2
    <3>2. CASE JobRun(c, u)
      <4>1. job[c][u] = "linked" /\ job'[c][u] = "run" /\ work' = work
        BY <1>0, <3>2 DEF JobRun, Types
      <4> QED
        BY <4>1
    <3>3. CASE JobOk(c, u) \/ JobFails(c, u) \/ JobKilled(c, u)
      <4>1. job' = [job EXCEPT ![c][u] = "none"]
        BY <3>3 DEF JobOk, JobFails, JobKilled
      <4>2. job'[c][u] = "none"
        BY <1>0, <4>1 DEF Types
      <4> QED
        BY <4>2
    <3> QED
      BY <1>11, <2>3, <3>1, <3>2, <3>3 DEF JobStep
  <2> QED
    BY <2>1, <2>2, <2>3
<1> HIDE DEF Goal
<1>12. Goal
  BY <1>2, <1>3, <1>4, <1>5, <1>6, <1>7, <1>8, <1>9, <1>10, <1>11
     DEF Next, ServiceStep
<1> QED
  BY <1>12 DEF Goal

\* A service that reads is that of connection 1, and its bye is the last frame.
LEMMA FirstServes ==
  ASSUME DistInv, [Next]_vars, dialled' <= 1, NEW c \in Conn, Serve(c)
  PROVE  /\ c = 1 /\ 1 \in 1..Len(c2s[1]) /\ Rest(c2s'[1], c2s[1])
         /\ ServeBye(1) => closing /\ Len(c2s'[1]) = 0 /\ reader[1] # "off"
         /\ \A b \in Blob : ServeBlob(1, b) => reader[1] # "off" /\ b \in InFlight(1)
<1>0. Types /\ HaveInv /\ ByeInv
  BY DEF DistInv
<1>1. c = 1
  <2>1. svc[c] # "off"
    BY <1>0, ServeEffect
  <2> QED
    BY <2>1, OnlyFirst DEF Untouched
<1>2. 1 \in Conn /\ Rest(c2s'[1], c2s[1])
  BY <1>0, <1>1, ServeEffect
<1>3. 1 \in 1..Len(c2s[1])
  BY <1>2 DEF Rest
<1>4. c2s[1][1].t # "have" => reader[1] # "off"
  BY <1>0, <1>2, <1>3 DEF HaveInv, HaveAt
<1>5. ASSUME ServeBye(1) PROVE closing /\ Len(c2s'[1]) = 0 /\ reader[1] # "off"
  <2>1. c2s[1][1].t = "bye"
    BY <1>5 DEF ServeBye
  <2>2. closing /\ 1 = Len(c2s[1])
    BY <1>0, <1>2, <1>3, <2>1 DEF ByeInv
  <2> QED
    BY <1>2, <1>4, <2>1, <2>2 DEF Rest
<1>6. ASSUME NEW b \in Blob, ServeBlob(1, b)
      PROVE  reader[1] # "off" /\ b \in InFlight(1)
  <2>1. c2s[1][1] = BlobFrame(b)
    BY <1>6 DEF ServeBlob
  <2>2. c2s[1][1].t = "blob"
    BY <2>1 DEF BlobFrame
  <2> QED
    BY <1>3, <1>4, <2>1, <2>2 DEF InFlight
<1> QED
  BY <1>1, <1>2, <1>3, <1>5, <1>6

\* A thread that has captured a connection has captured connection 1.
LEMMA FirstThreads ==
  ASSUME DistInv, [Next]_vars, dialled' <= 1, NEW u \in Uid, thread[u] \in Busy
  PROVE  via[u] = 1 /\ reader[1] # "off"
<1>1. ThreadInv
  BY DEF DistInv
<1>2. via[u] \in Conn /\ reader[via[u]] # "off"
  BY <1>1 DEF ThreadInv
<1> QED
  BY <1>2, OnlyFirst DEF Untouched

\* A job is written after the blobs it needs, and the service reads in order.
LEMMA JobsStep ==
  ASSUME DistInv, [Next]_vars, dialled' <= 1
  PROVE  JobsInv'
<1>0. /\ Types /\ ThreadInv /\ ByeInv
      /\ 1 \in Conn /\ JobsInv /\ LedgerInv
      /\ \A c \in Conn : c # 1 => Untouched(c) /\ Untouched(c)'
  BY OnlyFirst DEF DistInv
<1> DEFINE r == c2s'[1]
           s == c2s[1]
           Good(i) == r[i].t = "job" => Inputs[r[i].u] \subseteq hostCas' \cup Before(r, i)
<1>1. \A i \in 1..Len(s) : s[i].t = "job" => Inputs[s[i].u] \subseteq hostCas \cup Before(s, i)
  BY <1>0 DEF JobsInv
<1> HIDE DEF r, s
<1>2. ASSUME NEW n \in Nat, n <= Len(s), \A i \in 1..n : r[i] = s[i], Len(s) \in Nat,
             NEW i \in 1..n, hostCas \subseteq hostCas'
      PROVE  Good(i)
  <2>1. Before(r, i) = Before(s, i)
    BY <1>2, BeforeSame
  <2>2. i \in 1..Len(s) /\ r[i] = s[i]
    BY <1>2
  <2> QED
    BY <1>1, <1>2, <2>1, <2>2
<1>3. ASSUME NEW f, More(r, s, f), hostCas \subseteq hostCas',
             f.t = "job" => Inputs[f.u] \subseteq hostCas \cup InFlight(1)
      PROVE  \A i \in 1..Len(r) : Good(i)
  <2>1. ASSUME NEW i \in 1..Len(r) PROVE Good(i)
    <3>0. /\ Len(s) \in Nat /\ Len(s) <= Len(s)
          /\ \A k \in 1..Len(s) : r[k] = s[k]
          /\ i \in 1..Len(s) \/ (r[i] = f /\ i = Len(s) + 1)
      BY <1>3 DEF More
    <3>1. CASE i \in 1..Len(s)
      BY <1>2, <1>3, <3>0, <3>1
    <3>2. CASE r[i] = f /\ i = Len(s) + 1
      <4>1. InFlight(1) \subseteq Before(r, i)
        <5>1. i - 1 = Len(s)
          BY <3>0, <3>2
        <5> QED
          BY <3>0, <5>1 DEF InFlight, Before, s
      <4> QED
        BY <1>3, <3>2, <4>1
    <3> QED
      BY <3>0, <3>1, <3>2
  <2> QED
    BY <2>1
<1>4. ASSUME NEW b \in Blob, ServeBlob(1, b), Rest(r, s)
      PROVE  \A i \in 1..Len(r) : Good(i)
  <2>1. hostCas' = hostCas \cup {b} /\ s[1] = BlobFrame(b)
    BY <1>4 DEF ServeBlob, s
  <2>2. ASSUME NEW i \in 1..Len(r), r[i].t = "job"
        PROVE  Inputs[r[i].u] \subseteq hostCas' \cup Before(r, i)
    <3>1. i + 1 \in 1..Len(s) /\ r[i] = s[i + 1]
      BY <1>4 DEF Rest
    <3>2. Inputs[r[i].u] \subseteq hostCas \cup Before(s, i + 1)
      BY <1>1, <2>2, <3>1
    <3>3. ASSUME NEW a \in Before(s, i + 1) PROVE a \in Before(r, i) \/ a = b
      <4>1. a \in Before(r, i) \/ s[1] = BlobFrame(a)
        BY <1>4, BeforeRest
      <4>2. BlobFrame(a) = BlobFrame(b) => a = b
        BY DEF BlobFrame
      <4> QED
        BY <2>1, <4>1, <4>2
    <3> QED
      BY <2>1, <3>2, <3>3
  <2> QED
    BY <2>2
<1>5. ASSUME Rest(r, s), hostCas \subseteq hostCas', s[1].t # "blob"
      PROVE  \A i \in 1..Len(r) : Good(i)
  <2>1. ASSUME NEW i \in 1..Len(r), r[i].t = "job"
        PROVE  Inputs[r[i].u] \subseteq hostCas' \cup Before(r, i)
    <3>1. i + 1 \in 1..Len(s) /\ r[i] = s[i + 1]
      BY <1>5 DEF Rest
    <3>2. Inputs[r[i].u] \subseteq hostCas \cup Before(s, i + 1)
      BY <1>1, <2>1, <3>1
    <3>3. ASSUME NEW a \in Before(s, i + 1) PROVE a \in Before(r, i)
      <4>1. a \in Before(r, i) \/ s[1] = BlobFrame(a)
        BY <1>5, BeforeRest
      <4>2. BlobFrame(a).t = "blob"
        BY DEF BlobFrame
      <4> QED
        BY <1>5, <4>1, <4>2
    <3> QED
      BY <1>5, <3>2, <3>3
  <2> QED
    BY <2>1
<1>6. ASSUME Serve(1) PROVE \A i \in 1..Len(r) : Good(i)
  <2>1. Rest(r, s)
    BY <1>0, <1>6, FirstServes DEF r, s
  <2>2. ASSUME NEW u \in Uid, ServeJob(1, u)
        PROVE  hostCas \subseteq hostCas' /\ s[1].t # "blob"
    BY <2>2 DEF ServeJob, JobFrame, s
  <2>3. CASE ServeHave(1)
    <3>1. hostCas \subseteq hostCas' /\ s[1].t # "blob"
      BY <2>3 DEF ServeHave, s
    <3> QED
      BY <1>5, <2>1, <3>1
  <2>4. CASE ServeBye(1)
    <3>1. Len(r) = 0
      BY <1>0, <1>6, <2>4, FirstServes DEF r
    <3>2. \A i \in 1..0 : FALSE
      OBVIOUS
    <3> QED
      BY <3>1, <3>2
  <2> QED
    BY <1>0, <1>4, <1>5, <1>6, <2>1, <2>2, <2>3, <2>4, ServeKinds
<1>7. ASSUME ~\E c \in Conn : Serve(c) PROVE hostCas \subseteq hostCas'
  BY <1>7, HostStep
<1>8. ASSUME NEW c \in Conn, Serve(c) PROVE Serve(1)
  BY <1>8, FirstServes
<1>9. ASSUME NEW u \in Uid, WriteJob(u)
      PROVE  Inputs[u] \subseteq hostCas \cup InFlight(1)
  <2>1. thread[u] = "write" /\ up[via[u]] /\ left[u] = {}
    BY <1>9 DEF WriteJob
  <2>2. up[1] /\ reader[1] # "off" /\ writer = u /\ ~closing
    BY <1>0, <2>1, FirstThreads DEF ThreadInv, Busy
  <2>3. ToWrite = {}
    BY <2>1, <2>2 DEF ToWrite
  <2>4. Inputs[u] \subseteq sent /\ sent \subseteq hostCas \cup InFlight(1) \cup ToWrite
    BY <1>0, <2>2 DEF LedgerInv
  <2> QED
    BY <2>3, <2>4
<1>10. \A i \in 1..Len(r) : Good(i)
  <2>1. CASE Prefix(r, s) /\ ~Serve(1)
    <3>1. hostCas \subseteq hostCas'
      BY <1>7, <1>8, <2>1
    <3> QED
      BY <1>2, <2>1, <3>1 DEF Prefix
  <2>2. ASSUME NEW u \in Uid, WriteJob(u), More(r, s, JobFrame(u)), ~Serve(1)
        PROVE  \A i \in 1..Len(r) : Good(i)
    <3>1. JobFrame(u).u = u
      BY DEF JobFrame
    <3> QED
      BY <1>3, <1>7, <1>8, <1>9, <2>2, <3>1
  <2>3. ASSUME NEW f, More(r, s, f), f.t # "job", ~Serve(1)
        PROVE  \A i \in 1..Len(r) : Good(i)
    BY <1>3, <1>7, <1>8, <2>3
  <2>4. ASSUME NEW b, More(r, s, BlobFrame(b)), ~Serve(1)
        PROVE  \A i \in 1..Len(r) : Good(i)
    <3>1. BlobFrame(b).t # "job"
      BY DEF BlobFrame
    <3> QED
      BY <2>3, <2>4, <3>1
  <2>5. ASSUME More(r, s, [t |-> "bye"]), ~Serve(1)
        PROVE  \A i \in 1..Len(r) : Good(i)
    BY <2>3, <2>5
  <2>6. ASSUME Len(r) = 1, r[1] = [t |-> "have", ds |-> sent]
        PROVE  \A i \in 1..Len(r) : Good(i)
    <3>1. r[1].t # "job" /\ \A i \in 1..1 : i = 1
      BY <2>6
    <3> QED
      BY <2>6, <3>1
  <2> HIDE DEF Good
  <2>7. CASE ~Serve(1)
    BY <1>0, <2>1, <2>2, <2>4, <2>5, <2>6, <2>7, ToHostStep DEF r, s
  <2> QED
    BY <1>6, <2>7
<1>11. ASSUME NEW u \in Uid, job'[1][u] = "queued" PROVE Inputs[u] \subseteq hostCas'
  <2>1. CASE job[1][u] = "queued"
    <3>1. Inputs[u] \subseteq hostCas
      BY <1>0, <2>1 DEF JobsInv
    <3>2. ASSUME NEW c \in Conn, Serve(c), ServeBye(c) PROVE FALSE
      BY <2>1, <3>2, FirstServes DEF ServeBye
    <3>3. ASSUME NEW c \in Conn, NEW b \in Blob, ServeBlob(c, b) PROVE hostCas \subseteq hostCas'
      BY <3>3 DEF ServeBlob
    <3>4. hostCas \subseteq hostCas'
      BY <3>2, <3>3, HostStep
    <3> QED
      BY <3>1, <3>4
  <2>2. CASE Serve(1) /\ ServeJob(1, u)
    <3>1. s[1] = JobFrame(u) /\ hostCas' = hostCas
      BY <2>2 DEF ServeJob, s
    <3>2. 1 \in 1..Len(s)
      BY <1>0, <2>2, FirstServes DEF s
    <3>3. s[1].t = "job" /\ s[1].u = u
      BY <3>1 DEF JobFrame
    <3>4. Inputs[u] \subseteq hostCas \cup Before(s, 1)
      BY <1>1, <3>2, <3>3
    <3>5. Before(s, 1) = {}
      BY DEF Before
    <3> QED
      BY <3>1, <3>4, <3>5
  <2> QED
    BY <1>0, <1>11, <2>1, <2>2, JobWorkStep
<1>12. ASSUME NEW c \in Conn
       PROVE  /\ \A i \in 1..Len(c2s'[c]) : c2s'[c][i].t = "job" =>
                   Inputs[c2s'[c][i].u] \subseteq hostCas' \cup Before(c2s'[c], i)
              /\ \A u \in Uid : job'[c][u] = "queued" => Inputs[u] \subseteq hostCas'
  <2>1. CASE c = 1
    BY <1>10, <1>11, <2>1 DEF r
  <2>2. CASE c # 1
    <3>1. Len(c2s'[c]) = 0 /\ \A u \in Uid : job'[c][u] = "none"
      BY <1>0, <2>2 DEF Untouched
    <3>2. \A i \in 1..0 : FALSE
      OBVIOUS
    <3> QED
      BY <3>1, <3>2
  <2> QED
    BY <2>1, <2>2
<1> QED
  BY <1>12 DEF JobsInv

\* An answer as it is in the first session, with host cache h.
Fine(f, h, bye) ==
  /\ f.t # "missing"
  /\ f.t = "result" => f.why # "dir"
  /\ f.t = "have" => f.ds \subseteq h
  /\ Ok(f) => bye \/ Outputs[f.u] \subseteq h

\* No job misses an input or its directory.
LEMMA AnswersStep ==
  ASSUME DistInv, [Next]_vars, dialled' <= 1
  PROVE  AnswersInv'
<1>0. /\ Types /\ HaveInv
      /\ 1 \in Conn /\ JobsInv /\ AnswersInv
      /\ \A c \in Conn : c # 1 => Untouched(c) /\ Untouched(c)'
  BY OnlyFirst DEF DistInv
<1> DEFINE r == s2c'[1]
           s == s2c[1]
<1>1. \A i \in 1..Len(s) : Fine(s[i], hostCas, closing)
  BY <1>0 DEF AnswersInv, Fine
<1> HIDE DEF r, s
<1>c. closing => closing'
  BY ClosingStep
<1>2. \/ hostCas \subseteq hostCas'
      \/ /\ Serve(1) /\ ServeBye(1) /\ closing /\ closing'
         /\ \A i \in 1..Len(s) : s[i].t # "have"
  <2>1. ASSUME NEW c \in Conn, NEW b \in Blob, ServeBlob(c, b)
        PROVE  hostCas \subseteq hostCas'
    BY <2>1 DEF ServeBlob
  <2>2. ASSUME NEW c \in Conn, Serve(c), ServeBye(c)
        PROVE  /\ Serve(1) /\ ServeBye(1) /\ closing /\ closing'
               /\ \A i \in 1..Len(s) : s[i].t # "have"
    <3>1. Serve(1) /\ ServeBye(1) /\ closing /\ reader[1] # "off"
      BY <2>2, FirstServes
    <3>2. \A i \in 1..Len(s2c[1]) : s2c[1][i].t # "have"
      BY <1>0, <3>1 DEF HaveInv, HaveAt
    <3> QED
      BY <1>c, <3>1, <3>2 DEF s
  <2> QED
    BY <2>1, <2>2, HostStep
<1>3. ASSUME NEW i \in 1..Len(s) PROVE Fine(s[i], hostCas', closing')
  BY <1>1, <1>2, <1>c DEF Fine
<1>4. ASSUME NEW f, More(r, s, f), Fine(f, hostCas', closing')
      PROVE  \A i \in 1..Len(r) : Fine(r[i], hostCas', closing')
  <2>1. \A i \in 1..Len(r) : r[i] = f \/ (i \in 1..Len(s) /\ r[i] = s[i])
    BY <1>4 DEF More
  <2> QED
    BY <1>3, <1>4, <2>1
<1>5. ASSUME Prefix(r, s) PROVE \A i \in 1..Len(r) : Fine(r[i], hostCas', closing')
  <2>1. \A i \in 1..Len(r) : i \in 1..Len(s) /\ r[i] = s[i]
    BY <1>5 DEF Prefix
  <2> QED
    BY <1>3, <2>1
<1>6. ASSUME Rest(r, s) PROVE \A i \in 1..Len(r) : Fine(r[i], hostCas', closing')
  <2>1. \A i \in 1..Len(r) : i + 1 \in 1..Len(s) /\ r[i] = s[i + 1]
    BY <1>6 DEF Rest
  <2> QED
    BY <1>3, <2>1
<1>7. ASSUME NEW f, More(r, s, f), f.t = "bye"
      PROVE  \A i \in 1..Len(r) : Fine(r[i], hostCas', closing')
  BY <1>4, <1>7 DEF Fine, Ok
<1>8. ASSUME NEW f, More(r, s, f), f.t = "have", f.ds \subseteq hostCas,
             c2s[1][1].t = "have"
      PROVE  \A i \in 1..Len(r) : Fine(r[i], hostCas', closing')
  <2>1. ~ServeBye(1)
    BY <1>8 DEF ServeBye
  <2>2. hostCas \subseteq hostCas'
    BY <1>2, <2>1
  <2> QED
    BY <1>4, <1>8, <2>2 DEF Fine, Ok
<1>9. ASSUME NEW u \in Uid, JobStart(1, u), ~(Inputs[u] \subseteq hostCas) PROVE FALSE
  BY <1>0, <1>9 DEF JobStart, JobsInv
<1>10. ASSUME NEW u \in Uid, JobFails(1, u),
              More(r, s, [t |-> "result", u |-> u,
                     why |-> IF work[u] = 1 THEN "exit" ELSE "dir"])
       PROVE  \A i \in 1..Len(r) : Fine(r[i], hostCas', closing')
  <2> DEFINE f == [t |-> "result", u |-> u, why |-> IF work[u] = 1 THEN "exit" ELSE "dir"]
  <2>1. work[u] = 1
    BY <1>0, <1>10 DEF JobFails, AnswersInv
  <2>2. f.t = "result" /\ f.why = "exit"
    BY <2>1
  <2>3. Fine(f, hostCas', closing')
    <3> HIDE DEF f
    <3> QED
      BY <2>2 DEF Fine, Ok
  <2> QED
    BY <1>4, <1>10, <2>3
<1>11. ASSUME NEW u \in Uid, JobOk(1, u), Batched(r, s, u)
       PROVE  \A i \in 1..Len(r) : Fine(r[i], hostCas', closing')
  <2>1. /\ Len(s) \in Nat /\ Len(r) \in Nat /\ Len(r) > Len(s)
        /\ \A i \in 1..Len(s) : r[i] = s[i]
        /\ \A i \in (Len(s) + 1)..(Len(r) - 1) : r[i].t = "blob"
        /\ r[Len(r)] = [t |-> "result", u |-> u, why |-> "ok"]
    BY <1>11 DEF Batched
  <2>2. Outputs[u] \subseteq hostCas'
    BY <1>11 DEF JobOk
  <2>3. ASSUME NEW i \in 1..Len(r) PROVE Fine(r[i], hostCas', closing')
    <3>1. i \in 1..Len(s) \/ i \in (Len(s) + 1)..(Len(r) - 1) \/ i = Len(r)
      BY <2>1
    <3>2. CASE i \in 1..Len(s)
      BY <1>3, <2>1, <3>2
    <3>3. CASE i \in (Len(s) + 1)..(Len(r) - 1)
      <4>1. r[i].t = "blob"
        BY <2>1, <3>3
      <4> QED
        BY <4>1 DEF Fine, Ok
    <3>4. CASE i = Len(r)
      <4>1. r[i].t = "result" /\ r[i].u = u /\ r[i].why = "ok"
        BY <2>1, <3>4
      <4> QED
        BY <2>2, <4>1 DEF Fine, Ok
    <3> QED
      BY <3>1, <3>2, <3>3, <3>4
  <2> QED
    BY <2>3
<1>12. \A i \in 1..Len(r) : Fine(r[i], hostCas', closing')
  BY <1>0, <1>5, <1>6, <1>7, <1>8, <1>9, <1>10, <1>11, ToControllerStep DEF r, s
<1>13. ASSUME NEW c \in Conn, NEW i \in 1..Len(s2c'[c])
       PROVE  Fine(s2c'[c][i], hostCas', closing')
  <2>1. CASE c = 1
    BY <1>12, <1>13, <2>1 DEF r
  <2>2. CASE c # 1
    <3>1. Len(s2c'[c]) = 0
      BY <1>0, <2>2 DEF Untouched
    <3> QED
      BY <1>13, <3>1
  <2> QED
    BY <2>1, <2>2
<1>14. ASSUME NEW u \in Uid
       PROVE  /\ reply'[u].t # "missing"
              /\ reply'[u].t = "result" => reply'[u].why # "dir"
              /\ Ok(reply'[u]) => closing' \/ Outputs[u] \subseteq hostCas'
  <2>1. CASE reply'[u] = reply[u]
    <3>1. /\ reply[u].t # "missing"
          /\ reply[u].t = "result" => reply[u].why # "dir"
          /\ Ok(reply[u]) => closing \/ Outputs[u] \subseteq hostCas
      BY <1>0 DEF AnswersInv
    <3> QED
      BY <1>2, <1>c, <2>1, <3>1
  <2>2. CASE reply'[u] = None \/ reply'[u] = [t |-> "lost"]
    BY <2>2 DEF None, Ok
  <2>3. ASSUME NEW c \in Conn, reply'[u] = s2c[c][1], Len(s2c[c]) \in Nat \ {0},
               reply'[u].u = u
        PROVE  /\ reply'[u].t # "missing"
               /\ reply'[u].t = "result" => reply'[u].why # "dir"
               /\ Ok(reply'[u]) => closing' \/ Outputs[u] \subseteq hostCas'
    <3>1. c = 1
      BY <1>0, <2>3 DEF Untouched
    <3>2. 1 \in 1..Len(s) /\ reply'[u] = s[1]
      BY <2>3, <3>1 DEF s
    <3>3. Fine(s[1], hostCas', closing')
      BY <1>3, <3>2
    <3> QED
      BY <2>3, <3>2, <3>3 DEF Fine
  <2> QED
    BY <2>1, <2>2, <2>3, ReplyStep
<1>15. ASSUME NEW c \in Conn, NEW u \in Uid, job'[c][u] \in {"linked", "run"}
       PROVE  work'[u] = c
  <2>1. c = 1
    BY <1>0, <1>15 DEF Untouched
  <2>2. ASSUME job[c][u] \in {"linked", "run"}, work'[u] = work[u] PROVE work'[u] = c
    BY <1>0, <2>2 DEF AnswersInv
  <2>3. ASSUME NEW d \in Conn, Serve(d), ServeBye(d) PROVE FALSE
    <3>1. d = 1
      BY <2>3, FirstServes
    <3>2. \A v \in Uid : job'[1][v] = "none"
      BY <2>3, <3>1 DEF ServeBye
    <3> QED
      BY <1>15, <2>1, <3>2
  <2>4. ASSUME NEW d \in Conn, d # c PROVE job[d][u] = "none" /\ svc[d] # "stop"
    BY <1>0, <2>1, <2>4 DEF Untouched
  <2> QED
    BY <1>15, <2>2, <2>3, <2>4, JobWorkStep
<1> QED
  BY <1>13, <1>14, <1>15 DEF AnswersInv, Fine

\* What is in flight after a read or a write.
LEMMA FlightRest ==
  ASSUME Rest(c2s'[1], c2s[1])
  PROVE  /\ InFlight(1)' \subseteq InFlight(1)
         /\ \A b \in InFlight(1) : b \in InFlight(1)' \/ c2s[1][1] = BlobFrame(b)
<1> DEFINE r == c2s'[1]
           s == c2s[1]
<1>1. InFlight(1)' = {b \in Blob : \E k \in 1..Len(r) : r[k] = BlobFrame(b)}
  BY DEF InFlight, BlobFrame
<1>2. InFlight(1) = {b \in Blob : \E k \in 1..Len(s) : s[k] = BlobFrame(b)}
  BY DEF InFlight
<1> HIDE DEF r, s
<1>0. Rest(r, s)
  BY DEF r, s
<1>3. \A i \in 1..Len(r) : i + 1 \in 1..Len(s) /\ r[i] = s[i + 1]
  BY <1>0 DEF Rest
<1>4. ASSUME NEW b \in InFlight(1) PROVE b \in InFlight(1)' \/ s[1] = BlobFrame(b)
  <2>1. PICK k \in 1..Len(s) : s[k] = BlobFrame(b)
    BY <1>2
  <2>2. CASE k = 1
    BY <2>1, <2>2
  <2>3. CASE k # 1
    <3>1. k - 1 \in 1..Len(r) /\ k - 1 \in 1..(Len(s) - 1) /\ (k - 1) + 1 = k
      BY <1>0, <2>1, <2>3 DEF Rest
    <3>2. r[k - 1] = s[k]
      BY <1>0, <3>1 DEF Rest
    <3> QED
      BY <1>1, <1>2, <2>1, <3>1, <3>2
  <2> QED
    BY <2>2, <2>3
<1> QED
  BY <1>1, <1>2, <1>3, <1>4 DEF s

\* A frame that is no blob adds nothing, a blob adds itself.
LEMMA FlightMore ==
  ASSUME NEW f, More(c2s'[1], c2s[1], f)
  PROVE  InFlight(1)' = InFlight(1) \cup {b \in Blob : f = BlobFrame(b)}
<1> DEFINE r == c2s'[1]
           s == c2s[1]
<1>1. InFlight(1)' = {b \in Blob : \E k \in 1..Len(r) : r[k] = BlobFrame(b)}
  BY DEF InFlight, BlobFrame
<1>2. InFlight(1) = {b \in Blob : \E k \in 1..Len(s) : s[k] = BlobFrame(b)}
  BY DEF InFlight
<1> HIDE DEF r, s
<1>0. More(r, s, f)
  BY DEF r, s
<1>3. \A i \in 1..Len(r) : r[i] = f \/ (i \in 1..Len(s) /\ r[i] = s[i])
  BY <1>0 DEF More
<1>4. Len(s) + 1 \in 1..Len(r) /\ r[Len(s) + 1] = f
  BY <1>0 DEF More
<1>5. \A i \in 1..Len(s) : i \in 1..Len(r) /\ r[i] = s[i]
  BY <1>0 DEF More
<1> QED
  BY <1>1, <1>2, <1>3, <1>4, <1>5

\* The ledger is right while the link is up.
LEMMA LedgerStep ==
  ASSUME DistInv, [Next]_vars, dialled' <= 1
  PROVE  LedgerInv'
<1>0. /\ Types /\ HaveInv /\ ThreadInv /\ ConnInv
      /\ 1 \in Conn /\ AnswersInv /\ LedgerInv /\ OnceInv
      /\ \A c \in Conn : c # 1 => Untouched(c) /\ Untouched(c)'
  BY OnlyFirst DEF DistInv
<1> DEFINE L == /\ ~closing => sent \subseteq hostCas \cup InFlight(1) \cup ToWrite
                /\ \A u \in Uid : writer = u => Inputs[u] \subseteq sent /\ left[u] \subseteq sent
                /\ \A b \in Blob : b \in InFlight(1) \/ crossed[b] # 0 =>
                     b \in sent /\ b \notin ToWrite
<1> HIDE DEF L
<1>1. up[1] /\ reader[1] # "off" => L
  BY <1>0 DEF LedgerInv, L
<1>2. SUFFICES ASSUME up'[1], reader'[1] # "off" PROVE L'
  <2>1. ASSUME NEW c \in Conn, up'[c], c # 1 PROVE FALSE
    BY <1>0, <2>1 DEF Untouched
  <2> QED
    BY <2>1 DEF LedgerInv, L
<1> DEFINE Links == up' = up /\ reader' = reader
<1> HIDE DEF Links
<1>k. ASSUME Links PROVE up[1] /\ reader[1] # "off" /\ L
  BY <1>1, <1>2, <1>k DEF Links
\* Steps that leave the ledger and what is on its way alone.
<1>3. ASSUME UNCHANGED <<sent, c2s, writer, left, crossed, closing, up, reader>>,
             hostCas \subseteq hostCas'
      PROVE  L'
  <2>1. L
    BY <1>3, <1>k DEF Links
  <2>2. InFlight(1)' = InFlight(1) /\ ToWrite' = ToWrite
    BY <1>3 DEF InFlight, ToWrite, BlobFrame
  <2> QED
    BY <1>3, <2>1, <2>2 DEF L
\* Steps of a link that is down.
<1>4. ASSUME Shrunk, UNCHANGED <<sent, writer, left, crossed, closing, hostCas>>,
             reader'[1] # "off" => reader[1] # "off"
      PROVE  L'
  <2>1. up[1] /\ c2s'[1] = c2s[1]
    BY <1>0, <1>2, <1>4 DEF Shrunk
  <2>2. L
    BY <1>1, <1>2, <1>4, <2>1
  <2>3. InFlight(1)' = InFlight(1) /\ ToWrite' = ToWrite
    BY <1>4, <2>1 DEF InFlight, ToWrite, BlobFrame
  <2> QED
    BY <1>4, <2>2, <2>3 DEF L
<1>5. CASE Dial
  <2>1. UNCHANGED reader /\ dialled' = dialled + 1 /\ dialled \in Nat
    BY <1>0, <1>5 DEF Dial, Types
  <2>2. 1 > dialled
    BY <2>1
  <2>3. Untouched(1)
    BY <1>0, <2>2 DEF ConnInv
  <2> QED
    BY <1>2, <2>1, <2>3 DEF Untouched
<1>6. CASE Connected
  <2>1. dialing \in Conn /\ reader[dialing] = "off" /\ s2c[dialing] # <<>>
    BY <1>0, <1>6 DEF Connected, Conn, ConnInv, Types
  <2>2. /\ Len(s2c[dialing]) \in Nat \ {0} /\ Head(s2c[dialing]) = s2c[dialing][1]
    BY <1>0, <1>6, <2>1, ReadEffect DEF Connected, Rest
  <2>3. dialing = 1
    BY <1>0, <2>1, <2>2 DEF Untouched
  <2>4. 1 \in 1..Len(s2c[1])
    BY <2>2, <2>3
  <2>5. s2c[1][1].t = "have" /\ \A i \in 1..Len(c2s[1]) : c2s[1][i].t = "have"
    BY <1>0, <2>1, <2>3, <2>4 DEF HaveInv, HaveAt
  <2>6. sent' \subseteq hostCas /\ UNCHANGED <<hostCas, c2s, writer, left, crossed, closing>>
    <3>1. s2c[1][1].ds \subseteq hostCas
      BY <1>0, <2>4, <2>5 DEF AnswersInv
    <3> QED
      BY <1>6, <2>2, <2>3, <3>1 DEF Connected, host, exec
  <2>7. InFlight(1)' = {}
    <3>1. \A b : BlobFrame(b).t # "have"
      BY DEF BlobFrame
    <3>2. \A b \in Blob, k \in 1..Len(c2s'[1]) : c2s'[1][k] # BlobFrame(b)
      BY <2>5, <2>6, <3>1
    <3>3. InFlight(1)' = {b \in Blob : \E k \in 1..Len(c2s'[1]) : c2s'[1][k] = BlobFrame(b)}
      BY DEF InFlight, BlobFrame
    <3> QED
      BY <3>2, <3>3
  <2>8. \A u \in Uid : thread[u] \notin Busy
    BY <2>1, <2>3, FirstThreads
  <2>9. \A u \in Uid : writer # u
    <3>1. \A u \in Uid : writer = u => thread[u] = "write"
      BY <1>0 DEF ThreadInv
    <3> QED
      BY <2>8, <3>1 DEF Busy
  <2>10. \A b \in Blob : crossed[b] = 0
    <3>1. \A c \in Conn : reader[c] = "off"
      BY <1>0, <2>1, <2>3 DEF Untouched
    <3> QED
      BY <1>0, <3>1 DEF OnceInv
  <2> QED
    BY <2>6, <2>7, <2>9, <2>10 DEF L
<1>7. CASE Close
  <2>1. UNCHANGED <<sent, hostCas, writer, left, crossed, up, reader>> /\ closing'
    BY <1>7 DEF Close, host, exec
  <2>2. L
    BY <1>k, <2>1 DEF Links
  <2>3. InFlight(1)' = InFlight(1)
    <3>1. CASE conn # 0 /\ up[conn]
      <4>0. ASSUME NEW d \in Conn, d # 1 PROVE ~up[d]
        BY <1>0, <4>0 DEF Untouched
      <4>1. conn = 1
        BY <1>0, <3>1, <4>0 DEF Types, Conn
      <4>2. [t |-> "bye"] \in ToHost /\ \A b : [t |-> "bye"] # BlobFrame(b)
        BY DEF ToHost, BlobFrame
      <4>3. More(c2s'[1], c2s[1], [t |-> "bye"])
        BY <1>0, <1>7, <3>1, <4>1, <4>2, WriteEffect DEF Close
      <4> QED
        BY <4>2, <4>3, FlightMore
    <3>2. CASE ~(conn # 0 /\ up[conn])
      BY <1>7, <3>2 DEF Close, InFlight, BlobFrame
    <3> QED
      BY <3>1, <3>2
  <2>4. ToWrite' = ToWrite
    BY <2>1 DEF ToWrite
  <2> QED
    BY <2>1, <2>2, <2>3, <2>4 DEF L
<1>8. ASSUME NEW u \in Uid, Claim(u) PROVE L'
  <2>1. /\ writer = NoUid /\ writer' = u /\ u # NoUid
        /\ sent' = sent \cup Inputs[u] /\ left'[u] = Inputs[u] \ sent
        /\ UNCHANGED <<hostCas, crossed, closing, up, reader, c2s>>
    BY <1>0, <1>8, JobAssumption DEF Claim, Types, host, link, control
  <2>2. L
    BY <1>k, <2>1 DEF Links
  <2>3. InFlight(1)' = InFlight(1) /\ ToWrite = {} /\ ToWrite' = Inputs[u] \ sent
    BY <2>1 DEF InFlight, BlobFrame, ToWrite
  <2>4. /\ ~closing => sent \subseteq hostCas \cup InFlight(1)
        /\ \A b \in Blob : b \in InFlight(1) \/ crossed[b] # 0 => b \in sent
    BY <2>2, <2>3 DEF L
  <2> QED
    BY <2>1, <2>3, <2>4 DEF L
<1>9. ASSUME NEW u \in Uid, NEW b \in Blob, WriteBlob(u, b) PROVE L'
  <2>1. /\ thread[u] = "write" /\ b \in left[u] /\ left'[u] = left[u] \ {b}
        /\ c2s' = [c2s EXCEPT ![via[u]] = Append(@, BlobFrame(b))]
        /\ UNCHANGED <<sent, hostCas, crossed, closing, up, reader, writer>>
    BY <1>0, <1>9, JobAssumption DEF WriteBlob, Types, host, control
  <2>2. via[u] = 1 /\ writer = u
    BY <1>0, <2>1, FirstThreads DEF ThreadInv, Busy
  <2>3. BlobFrame(b) \in ToHost /\ \A a : BlobFrame(b) = BlobFrame(a) <=> a = b
    BY DEF BlobFrame, ToHost, BlobFrames
  <2>4. InFlight(1)' = InFlight(1) \cup {b}
    <3>1. More(c2s'[1], c2s[1], BlobFrame(b))
      BY <1>0, <2>1, <2>2, <2>3, WriteEffect
    <3> QED
      BY <2>3, <3>1, FlightMore
  <2>5. ToWrite = left[u] /\ ToWrite' = left[u] \ {b}
    BY <2>1, <2>2, JobAssumption DEF ToWrite
  <2>6. L
    BY <1>k, <2>1 DEF Links
  <2>7. /\ ~closing => sent \subseteq hostCas \cup InFlight(1) \cup left[u]
        /\ Inputs[u] \subseteq sent /\ left[u] \subseteq sent
        /\ \A a \in Blob : a \in InFlight(1) \/ crossed[a] # 0 => a \in sent /\ a \notin left[u]
    BY <2>2, <2>5, <2>6 DEF L
  <2>8. \A v \in Uid : writer' = v => v = u
    BY <2>1, <2>2
  <2> QED
    BY <2>1, <2>4, <2>5, <2>7, <2>8 DEF L
<1>10. ASSUME NEW u \in Uid, WriteJob(u) PROVE L'
  <2>1. /\ thread[u] = "write" /\ left[u] = {} /\ writer' = NoUid
        /\ c2s' = [c2s EXCEPT ![via[u]] = Append(@, JobFrame(u))]
        /\ UNCHANGED <<sent, hostCas, crossed, closing, up, reader, left>>
    BY <1>10 DEF WriteJob, host, control
  <2>2. via[u] = 1 /\ writer = u
    BY <1>0, <2>1, FirstThreads DEF ThreadInv, Busy
  <2>3. JobFrame(u) \in ToHost /\ \A a : JobFrame(u) # BlobFrame(a)
    BY DEF BlobFrame, JobFrame, ToHost
  <2>4. InFlight(1)' = InFlight(1)
    <3>1. More(c2s'[1], c2s[1], JobFrame(u))
      BY <1>0, <2>1, <2>2, <2>3, WriteEffect
    <3> QED
      BY <2>3, <3>1, FlightMore
  <2>5. ToWrite = {} /\ ToWrite' = {}
    BY <2>1, <2>2 DEF ToWrite
  <2>6. L
    BY <1>k, <2>1 DEF Links
  <2>7. \A v \in Uid : writer' # v
    BY <2>1, JobAssumption
  <2> QED
    BY <2>1, <2>4, <2>5, <2>6, <2>7 DEF L
<1>11. ASSUME NEW u \in Uid, WriteFails(u) PROVE L'
  <2>1. thread[u] = "write" /\ ~up[via[u]] /\ up' = up
    BY <1>11 DEF WriteFails, link
  <2> QED
    BY <1>2, <2>1, FirstThreads DEF Busy
<1>12. ASSUME NEW u \in Uid, Undo(u) PROVE L'
  <2>1. thread[u] = "undo" /\ up' = up
    BY <1>12 DEF Undo, link
  <2>2. ~up[via[u]]
    BY <1>0, <2>1 DEF ThreadInv
  <2> QED
    BY <1>2, <2>1, <2>2, FirstThreads DEF Busy
<1>13. ASSUME NEW u \in Uid, Lose(u) PROVE L'
  <2>1. via[u] \in Conn
    BY <1>0, <1>13 DEF Lose, ThreadInv, Busy
  <2>2. Shrunk /\ UNCHANGED <<sent, writer, left, crossed, closing, hostCas, reader>>
    BY <1>0, <1>13, <2>1, LostEffect DEF Lose, host
  <2> QED
    BY <1>4, <2>2
<1>14. ASSUME NEW u \in Uid, Wake(u) PROVE L'
  <2>1. /\ UNCHANGED <<c2s, hostCas, crossed, closing, up, reader, writer, left>>
        /\ \/ sent' = sent
           \/ reply[u].t = "missing"
           \/ Ok(reply[u]) /\ sent' = sent \cup Outputs[u]
    BY <1>0, <1>14, WakeKinds DEF host, link, control
  <2>2. CASE sent' = sent
    BY <1>3, <2>1, <2>2
  <2>3. CASE Ok(reply[u]) /\ sent' = sent \cup Outputs[u]
    <3>1. closing \/ Outputs[u] \subseteq hostCas
      BY <1>0, <2>3 DEF AnswersInv
    <3>2. L
      BY <1>k, <2>1 DEF Links
    <3>3. InFlight(1)' = InFlight(1) /\ ToWrite' = ToWrite
      BY <2>1 DEF InFlight, BlobFrame, ToWrite
    <3> QED
      BY <2>1, <2>3, <3>1, <3>2, <3>3 DEF L
  <2>4. reply[u].t # "missing"
    BY <1>0 DEF AnswersInv
  <2> QED
    BY <2>1, <2>2, <2>3, <2>4
<1>15. ASSUME NEW c \in Conn, ReadEof(c) PROVE L'
  <2>1. Shrunk /\ UNCHANGED <<sent, writer, left, crossed, closing, hostCas>>
    BY <1>0, <1>15, LostEffect DEF ReadEof, host, exec
  <2>2. reader'[1] # "off" => reader[1] # "off"
    BY <1>0, <1>15 DEF ReadEof, Types
  <2> QED
    BY <1>4, <2>1, <2>2
<1>16. ASSUME NEW c \in Conn, Break(c) PROVE L'
  <2>1. Shrunk /\ UNCHANGED <<sent, writer, left, crossed, closing, hostCas, reader>>
    BY <1>0, <1>16, CutEffect DEF Break, host, exec, control
  <2> QED
    BY <1>4, <2>1
<1>17. ASSUME NEW c \in Conn, Serve(c) PROVE L'
  <2>1. /\ c = 1 /\ Serve(1) /\ Rest(c2s'[1], c2s[1]) /\ 1 \in 1..Len(c2s[1])
    BY <1>17, FirstServes
  <2>2. UNCHANGED <<sent, writer, left, closing, reader>>
    BY <1>0, <2>1, ServeEffect DEF exec, control
  <2>3. up[1] /\ L
    <3>1. up[1]
      BY <1>0, <1>2, <2>1, ServeSends
    <3> QED
      BY <1>1, <1>2, <2>2, <3>1
  <2>4. ToWrite' = ToWrite
    BY <2>2 DEF ToWrite
  <2>5. ASSUME NEW b \in Blob, ServeBlob(1, b) PROVE L'
    <3>1. hostCas' = hostCas \cup {b} /\ c2s[1][1] = BlobFrame(b) /\ b \in InFlight(1)
      BY <2>1, <2>5, FirstServes DEF ServeBlob
    <3>2. \A a \in Blob : crossed'[a] # 0 => a = b \/ crossed[a] # 0
      BY <1>0, <2>5 DEF ServeBlob, Types
    <3>3. /\ InFlight(1)' \subseteq InFlight(1)
          /\ \A a \in InFlight(1) : a \in InFlight(1)' \/ a = b
      <4>1. \A a : BlobFrame(b) = BlobFrame(a) => a = b
        BY DEF BlobFrame
      <4> QED
        BY <2>1, <3>1, <4>1, FlightRest
    <3> QED
      BY <2>2, <2>3, <2>4, <3>1, <3>2, <3>3 DEF L
  <2>6. ASSUME c2s[1][1].t # "blob", UNCHANGED <<hostCas, crossed>> PROVE L'
    <3>1. InFlight(1)' = InFlight(1)
      <4>1. \A a : BlobFrame(a).t = "blob"
        BY DEF BlobFrame
      <4> QED
        BY <2>1, <2>6, <4>1, FlightRest
    <3> QED
      BY <2>2, <2>3, <2>4, <2>6, <3>1 DEF L
  <2>7. CASE ServeHave(1)
    BY <2>6, <2>7 DEF ServeHave
  <2>8. ASSUME NEW u \in Uid, ServeJob(1, u) PROVE L'
    BY <2>6, <2>8 DEF ServeJob, JobFrame
  <2>9. CASE ServeBye(1)
    BY <1>0, <1>2, <2>9 DEF ServeBye, Types
  <2> QED
    BY <1>0, <2>1, <2>5, <2>7, <2>8, <2>9, ServeKinds
<1>18. ASSUME NEW d \in Conn, NEW u \in Uid, JobStep(d, u) PROVE L'
  <2>1. UNCHANGED <<sent, c2s, writer, left, crossed, closing, up, reader>>
    BY <1>18 DEF JobStep, JobStart, JobRun, JobOk, JobFails, JobKilled,
       control, exec,
                 link
  <2>2. hostCas \subseteq hostCas'
    BY <1>18 DEF JobStep, JobStart, JobRun, JobOk, JobFails, JobKilled
  <2> QED
    BY <1>3, <2>1, <2>2
<1>19. ASSUME UNCHANGED <<sent, c2s, writer, left, crossed, closing, up, reader, hostCas>>
       PROVE  L'
  BY <1>3, <1>19
<1>20. ASSUME NEW u \in Uid, ThreadStep(u) PROVE L'
  <2>1. ASSUME Execute(u) \/ ExecuteDown(u) PROVE L'
    BY <1>19, <2>1 DEF Execute, ExecuteDown, control, host, link
  <2> QED
    BY <1>8, <1>9, <1>10, <1>11, <1>12, <1>13, <1>14, <1>20, <2>1 DEF ThreadStep
<1>21. ASSUME NEW c \in Conn, ReadFrame(c) \/ ServeEof(c) \/ ServeTorn(c) \/ Stopped(c)
       PROVE  L'
  BY <1>19, <1>21 DEF ReadFrame, ServeEof, ServeTorn, Stopped, control, host,
     link, exec
<1>22. ASSUME DialFails \/ UNCHANGED vars PROVE L'
  BY <1>19, <1>22 DEF DialFails, vars, control, host, link, exec
<1> QED
  BY <1>5, <1>6, <1>7, <1>15, <1>16, <1>17, <1>18, <1>20, <1>21, <1>22
     DEF Next, ConnectStep, ReaderStep, ServiceStep

\* No blob is written twice, so none crosses twice.
LEMMA OnceStep ==
  ASSUME DistInv, [Next]_vars, dialled' <= 1
  PROVE  OnceInv'
<1>0. /\ Types /\ HaveInv /\ ThreadInv
      /\ 1 \in Conn /\ LedgerInv /\ OnceInv
      /\ \A c \in Conn : c # 1 => Untouched(c) /\ Untouched(c)'
  BY OnlyFirst DEF DistInv
<1> DEFINE r == c2s'[1]
           s == c2s[1]
           Lone(q, x) == \A i \in 1..Len(q) : q[i].t = "blob" =>
                           /\ x[q[i].d] = 0
                           /\ \A k \in 1..Len(q) : q[k] = q[i] => k = i
<1>1. Lone(s, crossed)
  BY <1>0 DEF OnceInv
<1> HIDE DEF r, s
<1>2. \/ crossed' = crossed
      \/ Serve(1) /\ \E b \in Blob : ServeBlob(1, b)
  <2>1. ASSUME NEW c \in Conn, Serve(c), ServeBye(c) PROVE crossed' = crossed
    BY <2>1 DEF ServeBye
  <2>2. ASSUME NEW c \in Conn, Serve(c) PROVE c = 1
    BY <2>2, FirstServes
  <2> QED
    BY <2>1, <2>2, HostStep
<1>3. ASSUME Prefix(r, s), crossed' = crossed PROVE Lone(r, crossed')
  <2>1. \A i \in 1..Len(r) : i \in 1..Len(s) /\ r[i] = s[i]
    BY <1>3 DEF Prefix
  <2> QED
    BY <1>1, <1>3, <2>1
<1>4. ASSUME Rest(r, s), crossed' = crossed PROVE Lone(r, crossed')
  <2>1. \A i \in 1..Len(r) : i \in Int /\ i + 1 \in 1..Len(s) /\ r[i] = s[i + 1]
    BY <1>4 DEF Rest
  <2>2. ASSUME NEW i \in 1..Len(r), r[i].t = "blob"
        PROVE  /\ crossed'[r[i].d] = 0
               /\ \A k \in 1..Len(r) : r[k] = r[i] => k = i
    <3>1. s[i + 1].t = "blob" /\ i + 1 \in 1..Len(s) /\ r[i] = s[i + 1]
      BY <2>1, <2>2
    <3>2. crossed[s[i + 1].d] = 0 /\ \A k \in 1..Len(s) : s[k] = s[i + 1] => k = i + 1
      BY <1>1, <3>1
    <3>3. ASSUME NEW k \in 1..Len(r), r[k] = r[i] PROVE k = i
      <4>1. k + 1 = i + 1
        BY <2>1, <3>1, <3>2, <3>3
      <4> QED
        BY <2>1, <4>1
    <3> QED
      BY <1>4, <3>1, <3>2, <3>3
  <2> QED
    BY <2>2
<1>5. ASSUME NEW b \in Blob, Serve(1), ServeBlob(1, b)
      PROVE  /\ Lone(r, crossed') /\ reader'[1] # "off"
             /\ crossed[b] = 0 /\ \A a \in Blob : crossed'[a] = IF a = b THEN 1 ELSE crossed[a]
  <2>1. Rest(r, s) /\ 1 \in 1..Len(s) /\ reader[1] # "off"
    BY <1>0, <1>5, FirstServes DEF r, s
  <2>2. s[1] = BlobFrame(b) /\ crossed' = [crossed EXCEPT ![b] = @ + 1]
    BY <1>5 DEF ServeBlob, s
  <2>3. s[1].t = "blob" /\ s[1].d = b
    BY <2>2 DEF BlobFrame
  <2>4. crossed[b] = 0 /\ \A k \in 1..Len(s) : s[k] = s[1] => k = 1
    BY <1>1, <2>1, <2>3
  <2>5. \A a \in Blob : crossed'[a] = IF a = b THEN 1 ELSE crossed[a]
    BY <1>0, <2>2, <2>4 DEF Types
  <2>6. \A i \in 1..Len(r) : /\ i \in Int /\ i + 1 \in 1..Len(s) /\ r[i] = s[i + 1]
                             /\ i + 1 # 1
    BY <2>1 DEF Rest
  <2>7. ASSUME NEW i \in 1..Len(r), r[i].t = "blob"
        PROVE  /\ crossed'[r[i].d] = 0
               /\ \A k \in 1..Len(r) : r[k] = r[i] => k = i
    <3>1. s[i + 1].t = "blob" /\ i + 1 \in 1..Len(s) /\ r[i] = s[i + 1]
      BY <2>6, <2>7
    <3>2. crossed[s[i + 1].d] = 0 /\ \A k \in 1..Len(s) : s[k] = s[i + 1] => k = i + 1
      BY <1>1, <3>1
    <3>3. ASSUME NEW k \in 1..Len(r), r[k] = r[i] PROVE k = i
      <4>1. k + 1 = i + 1
        BY <2>6, <3>1, <3>2, <3>3
      <4> QED
        BY <2>6, <4>1
    <3>4. r[i] \in BlobFrames
      <4>1. s \in Seq(ToHost)
        BY <1>0 DEF Types, s
      <4>2. s[i + 1] \in ToHost
        BY <3>1, <4>1, ElementOfSeq
      <4> QED
        BY <3>1, <4>2 DEF ToHost, Have
    <3>5. r[i].d \in Blob /\ r[i] = BlobFrame(r[i].d)
      BY <3>4 DEF BlobFrames, BlobFrame
    <3>6. r[i].d # b
      <4>1. CASE r[i].d = b
        <5>1. s[i + 1] = s[1]
          BY <2>2, <3>1, <3>5, <4>1
        <5> QED
          BY <2>4, <2>6, <3>1, <5>1
      <4> QED
        BY <4>1
    <3> QED
      BY <2>5, <3>1, <3>2, <3>3, <3>5, <3>6
  <2>8. reader' = reader
    BY <1>0, <1>5, ServeEffect
  <2> QED
    BY <2>1, <2>4, <2>5, <2>7, <2>8
<1>6. ASSUME NEW f, More(r, s, f), crossed' = crossed,
             f.t = "blob" => crossed[f.d] = 0 /\ \A k \in 1..Len(s) : s[k] # f
      PROVE  Lone(r, crossed')
  <2>1. /\ Len(s) \in Nat
        /\ \A i \in 1..Len(r) : \/ i = Len(s) + 1 /\ r[i] = f
                                \/ i \in 1..Len(s) /\ r[i] = s[i]
    BY <1>6 DEF More
  <2>2. ASSUME NEW i \in 1..Len(r), r[i].t = "blob"
        PROVE  /\ crossed'[r[i].d] = 0
               /\ \A k \in 1..Len(r) : r[k] = r[i] => k = i
    <3>1. CASE i = Len(s) + 1 /\ r[i] = f
      BY <1>6, <2>1, <2>2, <3>1
    <3>2. CASE i \in 1..Len(s) /\ r[i] = s[i]
      <4>1. /\ crossed[s[i].d] = 0
            /\ \A k \in 1..Len(s) : s[k] = s[i] => k = i
        BY <1>1, <2>2, <3>2
      <4>2. ASSUME r[i] = f PROVE FALSE
        BY <1>6, <2>2, <3>2, <4>2
      <4> QED
        BY <1>6, <2>1, <3>2, <4>1, <4>2
    <3> QED
      BY <2>1, <2>2, <3>1, <3>2
  <2> QED
    BY <2>2
<1>7. ASSUME NEW u \in Uid, NEW b \in Blob, WriteBlob(u, b)
      PROVE  crossed[b] = 0 /\ \A k \in 1..Len(s) : s[k] # BlobFrame(b)
  <2>1. thread[u] = "write" /\ b \in left[u] /\ up[via[u]]
    BY <1>7 DEF WriteBlob
  <2>2. up[1] /\ reader[1] # "off" /\ writer = u
    BY <1>0, <2>1, FirstThreads DEF ThreadInv, Busy
  <2>3. b \in ToWrite
    BY <2>1, <2>2, JobAssumption DEF ToWrite
  <2>4. b \notin InFlight(1) /\ ~(crossed[b] # 0)
    BY <1>0, <2>2, <2>3 DEF LedgerInv
  <2> QED
    BY <2>4 DEF InFlight, s
<1>8. Lone(r, crossed')
  <2>1. CASE Serve(1) /\ \E b \in Blob : ServeBlob(1, b)
    BY <1>5, <2>1
  <2>2. ASSUME crossed' = crossed PROVE Lone(r, crossed')
    <3>1. ASSUME NEW u \in Uid, More(r, s, JobFrame(u)) PROVE Lone(r, crossed')
      <4>1. JobFrame(u).t # "blob"
        BY DEF JobFrame
      <4> QED
        BY <1>6, <2>2, <3>1, <4>1
    <3>2. ASSUME NEW u \in Uid, NEW b \in Blob, WriteBlob(u, b), More(r, s, BlobFrame(b))
          PROVE  Lone(r, crossed')
      <4>1. BlobFrame(b).d = b
        BY DEF BlobFrame
      <4> QED
        BY <1>6, <1>7, <2>2, <3>2, <4>1
    <3>3. ASSUME More(r, s, [t |-> "bye"]) PROVE Lone(r, crossed')
      <4>1. [t |-> "bye"].t # "blob"
        OBVIOUS
      <4> QED
        BY <1>6, <2>2, <3>3, <4>1
    <3>4. ASSUME Len(r) = 1, r[1] = [t |-> "have", ds |-> sent] PROVE Lone(r, crossed')
      <4>1. r[1].t # "blob" /\ \A i \in 1..1 : i = 1
        BY <3>4
      <4> QED
        BY <3>4, <4>1
    <3> HIDE DEF Lone
    <3> QED
      BY <1>0, <1>3, <1>4, <2>2, <3>1, <3>2, <3>3, <3>4, ToHostStep DEF r, s
  <2> QED
    BY <1>2, <2>1, <2>2
<1>9. \A b \in Blob : crossed'[b] <= 1
  <2>1. CASE crossed' = crossed
    BY <1>0, <2>1 DEF OnceInv
  <2>2. ASSUME NEW b \in Blob, Serve(1), ServeBlob(1, b)
        PROVE  \A a \in Blob : crossed'[a] <= 1
    <3>1. \A a \in Blob : crossed[a] <= 1
      BY <1>0 DEF OnceInv
    <3>2. \A a \in Blob : crossed'[a] = IF a = b THEN 1 ELSE crossed[a]
      BY <1>5, <2>2
    <3> QED
      BY <3>1, <3>2
  <2> QED
    BY <1>2, <2>1, <2>2
<1>10. ASSUME \A c \in Conn : reader'[c] = "off" PROVE \A b \in Blob : crossed'[b] = 0
  <2>1. crossed' = crossed
    BY <1>0, <1>2, <1>5, <1>10
  <2>2. \A c \in Conn : reader[c] = "off"
    <3>1. ASSUME NEW c \in Conn, ReadEof(c) PROVE reader'[c] # "off"
      BY <1>0, <3>1 DEF ReadEof, Types
    <3>2. ASSUME Connected PROVE \E c \in Conn : reader'[c] # "off"
      <4>1. dialing \in Conn
        BY <1>0, <3>2 DEF Connected, Conn, Types
      <4> QED
        BY <1>0, <3>2, <4>1 DEF Connected, Types
    <3>3. ~Connected /\ \A c \in Conn : ~ReadEof(c)
      BY <1>10, <3>1, <3>2
    <3>4. reader' = reader
      <4>1. ASSUME ConnectStep PROVE reader' = reader
        BY <3>3, <4>1 DEF ConnectStep, Dial, DialFails
      <4>2. ASSUME NEW u \in Uid, ThreadStep(u) PROVE reader' = reader
        BY <4>2 DEF ThreadStep, Execute, ExecuteDown, Claim, WriteJob,
           WriteBlob,
                    WriteFails, Undo, Lose, Wake
      <4>3. ASSUME NEW d \in Conn, ReaderStep(d) \/ ServiceStep(d) \/ Break(d)
            PROVE  reader' = reader
        BY <3>3, <4>3 DEF ReaderStep, ServiceStep, ReadFrame, Serve, ServeEof,
                          ServeTorn, Stopped, Break
      <4>4. ASSUME NEW d \in Conn, NEW u \in Uid, JobStep(d, u) PROVE reader' = reader
        BY <4>4 DEF JobStep, JobStart, JobRun, JobOk, JobFails, JobKilled
      <4>5. ASSUME UNCHANGED vars PROVE reader' = reader
        BY <4>5 DEF vars
      <4>6. ASSUME Close PROVE reader' = reader
        BY <4>6 DEF Close
      <4> QED
        BY <4>1, <4>2, <4>3, <4>4, <4>5, <4>6 DEF Next
    <3> QED
      BY <1>10, <3>4
  <2> QED
    BY <1>0, <2>1, <2>2 DEF OnceInv
<1>11. ASSUME NEW c \in Conn PROVE Lone(c2s'[c], crossed')
  <2>1. CASE c = 1
    BY <1>8, <2>1 DEF r
  <2>2. CASE c # 1
    <3>1. Len(c2s'[c]) = 0
      BY <1>0, <2>2 DEF Untouched
    <3>2. \A i \in 1..0 : FALSE
      OBVIOUS
    <3> QED
      BY <3>1, <3>2
  <2> QED
    BY <2>1, <2>2
<1> QED
  BY <1>9, <1>10, <1>11 DEF OnceInv

-----------------------------------------------------------------------------
(* The theorems.                                                           *)

\* The controller has dialled nobody and the host has nothing.
LEMMA DistInit == Init => DistInv
<1> SUFFICES ASSUME Init PROVE DistInv
  OBVIOUS
<1>1. <<>> \in Seq(ToHost) /\ <<>> \in Seq(ToController) /\ Len(<<>>) = 0
  OBVIOUS
<1>2. Types
  <2>1. c2s \in [Conn -> Seq(ToHost)] /\ s2c \in [Conn -> Seq(ToController)]
    BY <1>1 DEF Init
  <2>2. reply \in [Uid -> {None, [t |-> "lost"]} \cup Answers]
    BY DEF Init
  <2>3. /\ 0 \in 0..MaxConns
        /\ via \in [Uid -> 0..MaxConns] /\ work \in [Uid -> 0..MaxConns]
    BY JobAssumption DEF Init
  <2>4. /\ thread \in [Uid -> Threads]
        /\ need \in [Uid -> SUBSET Blob] /\ left \in [Uid -> SUBSET Blob]
        /\ reader \in [Conn -> {"off", "on", "done"}]
        /\ svc \in [Conn -> {"off", "serve", "stop", "gone"}]
    BY DEF Init, Threads
  <2>5. up \in [Conn -> BOOLEAN] /\ torn \in [Conn -> BOOLEAN]
    BY DEF Init
  <2>6. /\ job \in [Conn -> [Uid -> {"none", "queued", "linked", "run", "killed"}]]
        /\ crossed \in [Blob -> Nat]
    BY DEF Init
  <2> QED
    BY <2>1, <2>2, <2>3, <2>4, <2>5, <2>6 DEF Init, Types
<1>3. \A c \in Conn : Len(c2s[c]) = 0 /\ Len(s2c[c]) = 0 /\ Untouched(c)
  BY <1>1 DEF Init, Untouched
<1>4. \A i \in 1..0 : FALSE
  OBVIOUS
<1>5. ConnInv
  BY <1>3 DEF Init, ConnInv
<1>6. HaveInv
  BY <1>3, <1>4 DEF HaveInv, HaveAt, Untouched
<1>7. ThreadInv
  BY JobAssumption DEF Init, ThreadInv, Busy
<1>8. \A u \in Uid : ~Ok(reply[u]) /\ reply[u].t = "none"
  BY DEF Init, None, Ok
<1>9. ResultInv /\ ByeInv
  BY <1>3, <1>4, <1>8 DEF ResultInv, ByeInv
<1>10. JobsInv /\ AnswersInv
  BY <1>3, <1>4, <1>8 DEF JobsInv, AnswersInv, Untouched
<1>11. LedgerInv
  BY <1>3 DEF LedgerInv, Untouched
<1>12. \A b \in Blob : crossed[b] = 0 /\ crossed[b] <= 1
  BY DEF Init
<1>13. OnceInv
  BY <1>3, <1>4, <1>12 DEF OnceInv
<1> QED
  BY <1>2, <1>5, <1>6, <1>7, <1>9, <1>10, <1>11, <1>13 DEF DistInv, FirstInv

\* DistInv holds however often the session drops: what each thread of
\* RemoteHost.execute waits for, what the two pipes carry and, for the first
\* session, what the ledger says about the host.
THEOREM DistInvariant == Spec => []DistInv
<1>1. Init => DistInv
  BY DistInit
<1>2. DistInv /\ [Next]_vars => DistInv'
  <2> SUFFICES ASSUME DistInv, [Next]_vars PROVE DistInv'
    OBVIOUS
  <2>1. Types' /\ ConnInv' /\ HaveInv' /\ ThreadInv' /\ ResultInv' /\ ByeInv'
    BY TypesStep, ConnStep, HaveStep, ThreadInvStep, ResultStep, ByeStep
  <2>2. FirstInv'
    BY JobsStep, AnswersStep, LedgerStep, OnceStep DEF FirstInv
  <2> QED
    BY <2>1, <2>2 DEF DistInv
<1> QED
  BY <1>1, <1>2, PTL DEF Spec

\* The fields of RemoteHost and ExecService, and the frames between them, keep
\* their types.
THEOREM DistTypeCorrect == Spec => []TypeOK
<1>1. DistInv => TypeOK
  <2> SUFFICES ASSUME DistInv PROVE TypeOK
    OBVIOUS
  <2>0. Types
    BY DEF DistInv
  <2>1. ASSUME NEW c \in Conn, NEW f \in Frames(c2s[c]) \cup Frames(s2c[c])
        PROVE  f.t \in FrameTypes
    <3>1. c2s[c] \in Seq(ToHost) /\ s2c[c] \in Seq(ToController)
      BY <2>0 DEF Types
    <3>2. f \in ToHost \cup ToController
      BY <2>1, <3>1, ElementOfSeq, LenProperties DEF Frames
    <3> QED
      BY <3>2 DEF ToHost, ToController, Have, BlobFrames, Answers, FrameTypes
  <2>2. ASSUME NEW u \in Uid PROVE reply[u].t \in {"none", "lost", "missing", "result"}
    <3>1. reply[u] \in {None, [t |-> "lost"]} \cup Answers
      BY <2>0 DEF Types
    <3> QED
      BY <3>1 DEF None, Answers
  <2> QED
    BY <2>0, <2>1, <2>2 DEF Types, TypeOK
<1> QED
  BY <1>1, DistInvariant, PTL

\* reply.event.wait() of RemoteHost.execute never waits for a reply that nobody
\* is going to set, on any connection.
THEOREM RepliesAreNotLost == Spec => []NoLostWakeup
<1>1. DistInv => NoLostWakeup
  BY DEF DistInv, ThreadInv, NoLostWakeup, Busy
<1> QED
  BY <1>1, DistInvariant, PTL

\* A result is returned from execute after every blob of its manifest is in the
\* controller's CAS, even one that comes late or on an older connection.
THEOREM ResultsAreComplete == Spec => []BlobsBeforeResult
<1>1. DistInv => BlobsBeforeResult
  BY DEF DistInv, ThreadInv, ResultInv, Ok, BlobsBeforeResult
<1> QED
  BY <1>1, DistInvariant, PTL

\* In the first session the ledger and the write lock put every blob before the
\* first job that needs it.
THEOREM BlobsGoBeforeJobs == Spec => []JobFollowsItsBlobs
<1>1. DistInv => JobFollowsItsBlobs
  <2> SUFFICES ASSUME DistInv, dialled = 1, NEW c \in Conn, NEW i \in DOMAIN c2s[c],
                      c2s[c][i].t = "job"
               PROVE  Inputs[c2s[c][i].u] \subseteq
                        hostCas \cup {b \in Blob : \E k \in 1..(i - 1) : c2s[c][k] = BlobFrame(b)}
    BY DEF JobFollowsItsBlobs
  <2>1. Types /\ JobsInv
    BY DEF DistInv, FirstInv
  <2>2. i \in 1..Len(c2s[c])
    BY <2>1, LenProperties DEF Types
  <2> QED
    BY <2>1, <2>2 DEF JobsInv, Before
<1> QED
  BY <1>1, DistInvariant, PTL

\* In the first session no blob crosses the link twice.
THEOREM BlobsCrossOnce == Spec => []CrossesOnce
<1>1. DistInv => CrossesOnce
  BY DEF DistInv, FirstInv, OnceInv, CrossesOnce
<1> QED
  BY <1>1, DistInvariant, PTL

\* In the first session, dropped or not, a node fails only when its command did:
\* no job is answered `missing` or runs without its directory.
THEOREM FirstFailuresAreReal == Spec => []FirstSessionFailureIsReal
<1>1. DistInv => FirstSessionFailureIsReal
  <2> SUFFICES ASSUME DistInv, dialled = 1, NEW u \in Uid, thread[u] = "failed"
               PROVE  reply[u].why = "exit"
    BY DEF FirstSessionFailureIsReal, FailureIsReal
  <2>1. Types /\ ThreadInv /\ AnswersInv
    BY DEF DistInv, FirstInv
  <2>2. reply[u].t = "result" /\ reply[u].why # "ok" /\ reply[u].why # "dir"
    BY <2>1 DEF ThreadInv, AnswersInv
  <2>3. reply[u] \in {None, [t |-> "lost"]} \cup Answers
    BY <2>1 DEF Types
  <2> QED
    BY <2>2, <2>3 DEF None, Answers
<1> QED
  BY <1>1, DistInvariant, PTL

=============================================================================
