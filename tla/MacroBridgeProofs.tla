------------------------- MODULE MacroBridgeProofs --------------------------
(***************************************************************************)
(* Proofs about MacroBridge, for any number of crates and invocations,     *)
(* streams of any length and pipes of any capacity.  BridgeInv is the      *)
(* inductive invariant; its heart, Phase, says for every moment of an      *)
(* invocation what is in the two pipes between the compiler and the host.  *)
(***************************************************************************)
EXTENDS MacroBridge, SequenceTheorems, TLAPS

-----------------------------------------------------------------------------
(* The inductive invariant.                                                *)

Causes == {"fault", "parse", "unknown", "refused", "panic", "died"}
Reasons == {"none", "panic", "missing", "write", "eof", "fault", "parse", "class"}
Talks == {"name", "check", "input", "header", "tokens"}

\* TypeOK, with the records in full.
CompilerState ==
  [pc : Talks \cup {"idle", "stop", "wait", "done", "aborted"},
   host : Hosts \cup {"none"}, inv : 0..MaxInv, streams : 0..2,
   todo : Seq(Frames), sent : Nat, got : 0..MaxOut, why : Reasons]
HostState ==
  [pc : {"none", "request", "found", "missing", "recv", "run", "send", "panic", "exited"},
   inv : 0..MaxInv, left : Nat, got : Nat, made : 0..MaxOut, born : Nat]
Types ==
  /\ cc \in CompilerState
  /\ host \in [Hosts -> HostState]
  /\ stdin \in Pipe /\ stdout \in Pipe
  /\ open \in [Hosts -> BOOLEAN]
  /\ spawns \in [Hosts -> Nat]
  /\ causes \subseteq Causes

\* What a host needs to go on, whether or not the compiler is still there.
HostAt(h) ==
  /\ Len(stdin[h]) <= Capacity /\ Len(stdout[h]) <= Capacity
  /\ host[h].pc \in {"found", "missing", "recv"} => host[h].left \in 1..2
  /\ host[h].pc \in {"found", "missing", "recv", "run", "send", "panic"} => host[h].inv # 0
  /\ host[h].inv = 0 => Len(stdin[h]) = 0 \/ stdin[h][1].t = "name"
HostInv == \A h \in Hosts : HostAt(h)

\* Nothing of this invocation is under way between the compiler and h.
Quiet(h) ==
  Len(stdin[h]) = 0 /\ Len(stdout[h]) = 0 /\ (host[h].pc = "request" \/ Gone(h))
Talking(h) == cc.host = h /\ cc.pc \in Talks

\* What the compiler has still to write and what the host has still to read.
Rem(h) == stdin[h] \o cc.todo

\* q ends with the last of n streams.
Ends(q, n) ==
  /\ Len(q) > 0 /\ q[Len(q)].t = "end"
  /\ n = 1 => \A i \in 1..Len(q) : q[i].t = "end" => i = Len(q)
  /\ n = 2 => \E j \in 1..Len(q) :
       /\ j # Len(q) /\ q[j].t = "end"
       /\ \A i \in 1..Len(q) : q[i].t = "end" => i = j \/ i = Len(q)
  /\ n \in 1..2

\* The host has not read the request yet.
Asked(h) ==
  /\ cc.pc \in {"name", "check"} /\ host[h].pc = "request" /\ Len(stdout[h]) = 0
  /\ cc.sent = Len(stdin[h])
  /\ Len(Rem(h)) = 2
  /\ Rem(h)[1].t = "name" /\ Rem(h)[1].inv = cc.inv /\ Rem(h)[1].streams = cc.streams
  /\ Rem(h)[2].t = "def"
\* It has, and knows this invocation.
Served(h) == host[h].inv = cc.inv /\ host[h].got + Len(stdin[h]) = cc.sent
Answers(h) ==
  /\ cc.pc \in {"name", "check"} /\ host[h].pc \in {"found", "missing"}
  /\ Len(stdout[h]) = 0 /\ Served(h) /\ host[h].left = cc.streams
  /\ Len(Rem(h)) = 1 /\ Rem(h)[1].t = "def"
  /\ host[h].pc = "missing" => "unknown" \in causes
Missed(h) ==
  /\ cc.pc \in {"name", "check"} /\ host[h].pc = "exited"
  /\ Len(stdout[h]) = 1 /\ stdout[h][1].t = "missing" /\ "unknown" \in causes
Ready(h) ==
  /\ cc.pc \in {"name", "check"} /\ host[h].pc = "recv"
  /\ Len(stdout[h]) = 1 /\ stdout[h][1].t = "found"
  /\ Served(h) /\ host[h].left = cc.streams
  /\ Len(Rem(h)) <= 1 /\ \A i \in 1..Len(Rem(h)) : Rem(h)[i].t = "def"
Receives(h) ==
  /\ cc.pc \in {"input", "header"} /\ host[h].pc = "recv" /\ Len(stdout[h]) = 0
  /\ Served(h) /\ Ends(Rem(h), host[h].left)
Runs(h) ==
  /\ cc.pc = "header" /\ host[h].pc = "run" /\ Len(stdout[h]) = 0 /\ Len(stdin[h]) = 0
  /\ Served(h)
\* stdout[h] holds n tokens.
Tokens(h, n) == \A i \in 1..n : stdout[h][i].t = "token"
Reads(h) == cc.pc = "tokens" \/ (cc.pc = "header" /\ cc.got = 0)
Sends(h) ==
  /\ Reads(h) /\ host[h].pc = "send" /\ Len(stdin[h]) = 0 /\ host[h].inv = cc.inv
  /\ Tokens(h, Len(stdout[h]))
  /\ cc.got + Len(stdout[h]) + host[h].left = host[h].made
Sent(h) ==
  /\ Reads(h) /\ (host[h].pc = "request" \/ Gone(h)) /\ Len(stdin[h]) = 0 /\ host[h].inv = cc.inv
  /\ Len(stdout[h]) > 0 /\ stdout[h][Len(stdout[h])].t = "empty"
  /\ Tokens(h, Len(stdout[h]) - 1)
  /\ cc.got + Len(stdout[h]) = host[h].made + 1
Died(h) ==
  /\ Reads(h) /\ Gone(h)
  /\ Tokens(h, Len(stdout[h]))
  /\ cc.got + Len(stdout[h]) <= host[h].made
\* It has died before the first frame of its answer, at any point.
Lost(h) ==
  /\ Gone(h)
  /\ \/ cc.pc \in {"name", "check", "input", "header"} /\ Len(stdout[h]) = 0
     \/ cc.pc \in {"name", "check"} /\ Len(stdout[h]) = 1 /\ stdout[h][1].t = "found"
Panics(h) ==
  /\ cc.pc \in {"input", "header"} /\ host[h].inv # 0
  /\ \/ "refused" \in causes
     \/ /\ "panic" \in causes /\ cc.pc = "header"
        /\ Len(stdin[h]) = 0 /\ host[h].pc \in {"panic", "request", "exited"}
  /\ \/ host[h].pc = "panic" /\ Len(stdout[h]) = 0
     \/ Len(stdout[h]) > 0 /\ stdout[h][1].t = "panic"

\* An invocation is in one of these phases.
Phase(h) ==
  \/ Asked(h) \/ Answers(h) \/ Missed(h) \/ Ready(h) \/ Receives(h) \/ Runs(h)
  \/ Sends(h) \/ Sent(h) \/ Died(h) \/ Lost(h) \/ Panics(h)

TalkAt(h) ==
  /\ open[h] /\ cc.inv # 0 /\ cc.streams # 0
  /\ cc.pc \in {"name", "input"} <=> Len(cc.todo) # 0
  /\ cc.pc \in {"name", "check", "input", "header"} => cc.got = 0
  /\ Phase(h)
TalkInv == \A h \in Hosts : Talking(h) => TalkAt(h)

\* Every other host the compiler has started waits for a request, or has died.
QuietInv ==
  /\ \A h \in Hosts : open[h] /\ ~Talking(h) => Quiet(h)
  /\ cc.pc = "idle" => \A h \in Hosts : open[h] /\ h = cc.host =>
       host[h].inv = cc.inv /\ cc.got = host[h].made
  /\ cc.pc = "wait" => cc.host \in Hosts /\ ~open[cc.host]
  /\ cc.pc \in {"done", "aborted"} => \A h \in Hosts : ~open[h]
  /\ cc.pc \in Talks => cc.host \in Hosts

\* A host is started when it is not there, and none is stopped before the end.
SpawnInv ==
  \A h \in Hosts : spawns[h] <= 1 /\ (cc.pc \in Talks \cup {"idle"} /\ ~open[h] => spawns[h] = 0)

\* The compiler stops a host, or itself, for a reason.
ReasonInv ==
  /\ cc.pc \in {"wait", "aborted"} \/ cc.why = "none"
  /\ cc.pc = "wait" => cc.why \in {"none", "missing"}
  /\ cc.pc = "wait" /\ cc.why = "missing" => causes \cap {"unknown", "fault", "died"} # {}
  /\ cc.pc = "aborted" => cc.why # "none" /\ ReasonIsCause

BridgeInv == Types /\ HostInv /\ TalkInv /\ QuietInv /\ SpawnInv /\ ReasonInv

-----------------------------------------------------------------------------
(* Sequences.                                                              *)

\* q is a followed by b.
Joins(S, q, a, b) ==
  /\ q \in Seq(S) /\ Len(a) \in Nat /\ Len(b) \in Nat /\ Len(q) = Len(a) + Len(b)
  /\ \A i \in 1..Len(a) : q[i] = a[i]
  /\ \A j \in 1..Len(b) : q[Len(a) + j] = b[j]

\* What a concatenation holds.
LEMMA Concat ==
  ASSUME NEW S, NEW a \in Seq(S), NEW b \in Seq(S)
  PROVE  Joins(S, a \o b, a, b)
<1> DEFINE q == a \o b
<1>1. /\ q \in Seq(S) /\ Len(q) = Len(a) + Len(b)
      /\ \A i \in 1..(Len(a) + Len(b)) : q[i] = IF i <= Len(a) THEN a[i] ELSE b[i - Len(a)]
  BY ConcatProperties
<1>2. Len(a) \in Nat /\ Len(b) \in Nat
  BY LenProperties
<1> HIDE DEF q
<1>3. ASSUME NEW i \in 1..Len(a) PROVE q[i] = a[i]
  <2>1. i \in 1..(Len(a) + Len(b)) /\ i <= Len(a)
    BY <1>2
  <2> QED
    BY <2>1, <1>1
<1>4. ASSUME NEW j \in 1..Len(b) PROVE q[Len(a) + j] = b[j]
  <2>1. Len(a) + j \in 1..(Len(a) + Len(b)) /\ ~(Len(a) + j <= Len(a)) /\ (Len(a) + j) - Len(a) = j
    BY <1>2
  <2>2. q[Len(a) + j] = b[(Len(a) + j) - Len(a)]
    BY <2>1, <1>1
  <2> QED
    BY <2>1, <2>2
<1> QED
  BY <1>1, <1>2, <1>3, <1>4 DEF q, Joins

\* What the tail of a sequence holds.
LEMMA TailIs ==
  ASSUME NEW S, NEW q \in Seq(S), Len(q) # 0
  PROVE  /\ Tail(q) \in Seq(S) /\ Len(q) \in Nat /\ Len(Tail(q)) = Len(q) - 1
         /\ Head(q) = q[1] /\ q[1] \in S
         /\ \A i \in 1..(Len(q) - 1) : Tail(q)[i] = q[i + 1]
         /\ \A i \in 2..Len(q) : Tail(q)[i - 1] = q[i]
<1>1. /\ Tail(q) \in Seq(S) /\ Len(Tail(q)) = Len(q) - 1
      /\ \A i \in 1..Len(Tail(q)) : Tail(q)[i] = q[i + 1]
  BY HeadTailProperties
<1>2. Len(q) \in Nat /\ Head(q) = q[1] /\ q[1] \in S
  OBVIOUS
<1>3. ASSUME NEW i \in 2..Len(q) PROVE Tail(q)[i - 1] = q[i]
  <2>1. i - 1 \in 1..Len(Tail(q)) /\ (i - 1) + 1 = i
    BY <1>1, <1>2
  <2>2. Tail(q)[i - 1] = q[(i - 1) + 1]
    BY <1>1, <2>1
  <2> QED
    BY <2>1, <2>2
<1> QED
  BY <1>1, <1>2, <1>3

\* The first frame of b has moved to the end of a, giving x and y.
Moved(a, b, x, y) ==
  /\ x \o y = a \o b
  /\ Len(x) = Len(a) + 1 /\ Len(y) = Len(b) - 1
  /\ Len(a) = 0 => x[1] = (a \o b)[1]
  /\ Len(a) # 0 => x[1] = a[1]

\* A frame that moves from what is to be written into the pipe (sendBytesRaw)
\* leaves what is still to be read as it was.
LEMMA MoveFrame ==
  ASSUME NEW S, NEW a \in Seq(S), NEW b \in Seq(S), Len(b) # 0
  PROVE  Moved(a, b, Append(a, Head(b)), Tail(b))
<1> DEFINE x == Append(a, Head(b))  y == Tail(b)
<1>1. /\ Head(b) \in S /\ Head(b) = b[1]
      /\ x \in Seq(S) /\ y \in Seq(S) /\ Len(x) = Len(a) + 1 /\ Len(y) = Len(b) - 1
      /\ x[Len(a) + 1] = b[1] /\ \A i \in 1..Len(a) : x[i] = a[i]
      /\ \A i \in 1..Len(y) : y[i] = b[i + 1]
  BY TailIs
<1> HIDE DEF x, y
<1> DEFINE p == x \o y  q == a \o b
<1>2. /\ p \in Seq(S) /\ q \in Seq(S)
      /\ Len(p) = Len(x) + Len(y) /\ Len(q) = Len(a) + Len(b)
      /\ \A i \in 1..Len(x) : p[i] = x[i]
      /\ \A j \in 1..Len(y) : p[Len(x) + j] = y[j]
      /\ \A i \in 1..Len(a) : q[i] = a[i]
      /\ \A j \in 1..Len(b) : q[Len(a) + j] = b[j]
  <2>1. Joins(S, p, x, y) /\ Joins(S, q, a, b)
    BY <1>1, Concat
  <2> HIDE DEF p, q
  <2> QED
    BY <2>1 DEF Joins
<1> HIDE DEF p, q
<1>3. Len(a) \in Nat /\ Len(b) \in Nat /\ Len(b) # 0
  BY <1>1, LenProperties
<1>4. ASSUME NEW i \in 1..Len(p) PROVE p[i] = q[i]
  <2>1. CASE i <= Len(a)
    BY <2>1, <1>1, <1>2, <1>3
  <2>2. CASE i = Len(a) + 1
    <3>1. i \in 1..Len(x) /\ 1 \in 1..Len(b)
      BY <2>2, <1>1, <1>3
    <3> QED
      BY <2>2, <3>1, <1>1, <1>2
  <2>3. CASE i > Len(a) + 1
    <3>1. PICK k \in Nat : i = Len(a) + 1 + k /\ k \in 1..Len(y)
      <4>1. i - (Len(a) + 1) \in 1..Len(y)
        BY <2>3, <1>1, <1>2, <1>3
      <4>2. i = Len(a) + 1 + (i - (Len(a) + 1)) /\ i - (Len(a) + 1) \in Nat
        BY <2>3, <1>3
      <4> QED
        BY <4>1, <4>2
    <3>2. p[Len(x) + k] = y[k] /\ Len(x) + k = i
      BY <3>1, <1>1, <1>2, <1>3
    <3>3. q[Len(a) + (k + 1)] = b[k + 1] /\ Len(a) + (k + 1) = i
      BY <3>1, <1>1, <1>2, <1>3
    <3> QED
      BY <3>1, <3>2, <3>3, <1>1
  <2>4. i \in Nat
    BY <1>1, <1>2, <1>3
  <2>5. i <= Len(a) \/ i = Len(a) + 1 \/ i > Len(a) + 1
    BY <2>4, <1>3
  <2> QED
    BY <2>1, <2>2, <2>3, <2>5
<1>5. Len(p) = Len(q)
  BY <1>1, <1>2, <1>3
<1>6. p = q
  BY <1>2, <1>4, <1>5, SeqEqual
<1>7. Len(a) = 0 => x[1] = q[1]
  <2>1. 1 \in 1..Len(b)
    BY <1>3
  <2> QED
    BY <2>1, <1>1, <1>2
<1>8. Len(a) # 0 => x[1] = a[1]
  BY <1>1, <1>3
<1> QED
  BY <1>1, <1>6, <1>7, <1>8 DEF x, y, p, q, Moved

\* The first frame of a has been read from what a and b hold, which leaves x of a.
Taken(S, a, b, x) ==
  /\ x \o b = Tail(a \o b) /\ (a \o b)[1] = a[1] /\ Head(a) = a[1] /\ a[1] \in S
  /\ Len(x) = Len(a) - 1 /\ Len(a \o b) = Len(a) + Len(b) /\ a \o b \in Seq(S)

\* Reading a frame from a pipe takes it from what is still to be read.
LEMMA ReadFrame ==
  ASSUME NEW S, NEW a \in Seq(S), NEW b \in Seq(S), Len(a) # 0
  PROVE  Taken(S, a, b, Tail(a))
<1> DEFINE x == Tail(a)  q == a \o b  y == Tail(q)  p == x \o b
<1>1. /\ q \in Seq(S) /\ Len(q) = Len(a) + Len(b)
      /\ \A i \in 1..Len(a) : q[i] = a[i]
      /\ \A j \in 1..Len(b) : q[Len(a) + j] = b[j]
      /\ Len(a) \in Nat /\ Len(b) \in Nat /\ Len(a) # 0
  <2>1. Joins(S, q, a, b)
    BY Concat
  <2> HIDE DEF q
  <2> QED
    BY <2>1 DEF Joins
<1>2. /\ x \in Seq(S) /\ Len(x) = Len(a) - 1
      /\ \A i \in 1..(Len(a) - 1) : x[i] = a[i + 1]
      /\ Head(a) = a[1] /\ a[1] \in S
  BY TailIs
<1> HIDE DEF x, q
<1>3. /\ y \in Seq(S) /\ Len(y) = Len(q) - 1
      /\ \A i \in 1..(Len(q) - 1) : y[i] = q[i + 1]
  <2>1. Len(q) # 0
    BY <1>1
  <2> QED
    BY <2>1, <1>1, TailIs
<1> HIDE DEF y
<1>4. /\ p \in Seq(S) /\ Len(p) = Len(x) + Len(b)
      /\ \A i \in 1..Len(x) : p[i] = x[i]
      /\ \A j \in 1..Len(b) : p[Len(x) + j] = b[j]
  <2>1. Joins(S, p, x, b)
    BY <1>2, Concat
  <2> HIDE DEF p
  <2> QED
    BY <2>1 DEF Joins
<1> HIDE DEF p
<1>5. ASSUME NEW i \in 1..Len(p) PROVE p[i] = y[i]
  <2>1. CASE i <= Len(x)
    <3>1. i \in 1..Len(x) /\ i \in 1..(Len(a) - 1) /\ i + 1 \in 1..Len(a) /\ i \in 1..(Len(q) - 1)
      BY <2>1, <1>1, <1>2
    <3> QED
      BY <3>1, <1>1, <1>2, <1>3, <1>4
  <2>2. CASE i > Len(x)
    <3>1. PICK k \in 1..Len(b) : i = Len(x) + k
      <4>1. i - Len(x) \in 1..Len(b) /\ i = Len(x) + (i - Len(x))
        BY <2>2, <1>1, <1>2, <1>4
      <4> QED
        BY <4>1
    <3>2. i + 1 = Len(a) + k /\ i \in 1..(Len(q) - 1)
      BY <3>1, <1>1, <1>2
    <3> QED
      BY <3>1, <3>2, <1>1, <1>3, <1>4
  <2> QED
    BY <2>1, <2>2, <1>1, <1>2, <1>4
<1>6. Len(p) = Len(y)
  BY <1>1, <1>2, <1>3, <1>4
<1>7. p = y
  BY <1>3, <1>4, <1>5, <1>6, SeqEqual
<1>8. q[1] = a[1]
  BY <1>1
<1> QED
  BY <1>1, <1>2, <1>7, <1>8 DEF x, q, y, p, Taken

\* A frame read from the last n streams (recv_token_stream) leaves the last n,
\* or the last n - 1 if it was the end of one; after the last there is nothing.
LEMMA EndsTail ==
  ASSUME NEW q \in Seq(Frames), NEW n \in Nat, Ends(q, n)
  PROVE  /\ n \in 1..2 /\ Len(q) > 0
         /\ q[1].t # "end" => Ends(Tail(q), n)
         /\ q[1].t = "end" /\ n = 2 => Ends(Tail(q), 1)
         /\ q[1].t = "end" /\ n = 1 => Len(q) = 1
<1> DEFINE y == Tail(q)
<1>1. Len(q) > 0 /\ Len(q) \in Nat /\ q[Len(q)].t = "end" /\ n \in 1..2
  BY DEF Ends
<1>2. /\ y \in Seq(Frames) /\ Len(y) = Len(q) - 1
      /\ \A i \in 1..Len(y) : y[i] = q[i + 1]
  BY <1>1
<1> HIDE DEF y
<1>3. ASSUME q[1].t # "end" PROVE Ends(y, n)
  <2>1. Len(y) > 0 /\ y[Len(y)].t = "end"
    BY <1>1, <1>2, <1>3
  <2>2. ASSUME n = 1 PROVE \A i \in 1..Len(y) : y[i].t = "end" => i = Len(y)
    <3>1. \A i \in 1..Len(q) : q[i].t = "end" => i = Len(q)
      BY <2>2 DEF Ends
    <3> SUFFICES ASSUME NEW i \in 1..Len(y), y[i].t = "end" PROVE i = Len(y)
      OBVIOUS
    <3>2. y[i] = q[i + 1] /\ i + 1 \in 1..Len(q)
      BY <1>1, <1>2
    <3> QED
      BY <3>1, <3>2, <1>1, <1>2
  <2>3. ASSUME n = 2
        PROVE  \E j \in 1..Len(y) :
                 /\ j # Len(y) /\ y[j].t = "end"
                 /\ \A i \in 1..Len(y) : y[i].t = "end" => i = j \/ i = Len(y)
    <3>1. PICK j \in 1..Len(q) :
            /\ j # Len(q) /\ q[j].t = "end"
            /\ \A i \in 1..Len(q) : q[i].t = "end" => i = j \/ i = Len(q)
      BY <2>3 DEF Ends
    <3>2. j # 1
      BY <3>1, <1>3
    <3>3. j - 1 \in 1..Len(y) /\ y[j - 1] = q[j] /\ j - 1 # Len(y)
      BY <3>1, <3>2, <1>1, <1>2
    <3>4. \A i \in 1..Len(y) : y[i].t = "end" => i = j - 1 \/ i = Len(y)
      BY <3>1, <1>1, <1>2
    <3> QED
      BY <3>1, <3>3, <3>4
  <2> QED
    BY <2>1, <2>2, <2>3, <1>1 DEF Ends
<1>4. ASSUME q[1].t = "end", n = 2 PROVE Ends(y, 1)
  <2>1. PICK j \in 1..Len(q) :
          /\ j # Len(q) /\ q[j].t = "end"
          /\ \A i \in 1..Len(q) : q[i].t = "end" => i = j \/ i = Len(q)
    BY <1>4 DEF Ends
  <2>2. Len(q) # 1 /\ j = 1
    BY <2>1, <1>1, <1>4
  <2>3. Len(y) > 0 /\ y[Len(y)].t = "end"
    BY <2>2, <1>1, <1>2
  <2>4. \A i \in 1..Len(y) : y[i].t = "end" => i = Len(y)
    BY <2>1, <2>2, <1>1, <1>2
  <2> QED
    BY <2>3, <2>4 DEF Ends
<1>5. ASSUME q[1].t = "end", n = 1 PROVE Len(q) = 1
  BY <1>1, <1>5 DEF Ends
<1> QED
  BY <1>1, <1>3, <1>4, <1>5 DEF y

\* A stream has no end but its last frame.
LEMMA StreamShape ==
  ASSUME NEW n \in Nat, Types, cc.inv # 0
  PROVE  /\ Stream(n) \in Seq(Frames) /\ Len(Stream(n)) = n + 1
         /\ Stream(n)[n + 1].t = "end"
         /\ \A i \in 1..n : Stream(n)[i].t = "token"
<1> DEFINE f(j) == Frame(IF j > n THEN "end" ELSE "token", cc.inv)
<1>1. cc.inv \in 1..MaxInv
  <2>1. cc \in CompilerState
    BY DEF Types
  <2>2. cc.inv \in 0..MaxInv
    BY <2>1 DEF CompilerState
  <2> QED
    BY <2>2, BoundsAssumption
<1>2. \A j \in 1..(n + 1) : f(j) \in Frames
  BY <1>1 DEF Frame, Frames
<1>3. /\ f(n + 1).t = "end"
      /\ \A j \in 1..n : f(j).t = "token"
  BY DEF Frame
<1>4. Stream(n) = [j \in 1..(n + 1) |-> f(j)]
  BY DEF Stream
<1> HIDE DEF f
<1>5. Stream(n) \in Seq(Frames) /\ Len(Stream(n)) = n + 1
  BY <1>2, <1>4
<1>6. \A j \in 1..(n + 1) : Stream(n)[j] = f(j)
  BY <1>4
<1> QED
  BY <1>3, <1>5, <1>6

\* What the compiler writes after the request, behind what is left of the
\* request itself, ends with the last of the macro's streams.
LEMMA InputEnds ==
  ASSUME NEW a \in Seq(Frames), \A i \in 1..Len(a) : a[i].t # "end",
         NEW lengths \in Lengths, Types, cc.inv # 0
  PROVE  /\ Input(lengths) \in Seq(Frames) /\ Len(Input(lengths)) # 0
         /\ Ends(a \o Input(lengths), Len(lengths))
<1>1. /\ Len(lengths) \in 1..2 /\ lengths[1] \in Nat
      /\ Len(lengths) = 2 => lengths[2] \in Nat
  BY BoundsAssumption DEF Lengths
<1>2. CASE Len(lengths) = 1
  <2>0. PICK m \in Nat : m = lengths[1]
    BY <1>1
  <2> DEFINE s == Stream(m)  q == a \o s
  <2>1. /\ s \in Seq(Frames) /\ Len(s) = m + 1 /\ s[m + 1].t = "end"
        /\ \A i \in 1..m : s[i].t = "token"
    BY StreamShape
  <2>2. Input(lengths) = s
    BY <1>2, <2>0 DEF Input
  <2> HIDE DEF s
  <2>3. /\ Len(q) = Len(a) + Len(s) /\ Len(a) \in Nat /\ Len(s) \in Nat
        /\ \A i \in 1..Len(a) : q[i] = a[i]
        /\ \A j \in 1..Len(s) : q[Len(a) + j] = s[j]
    <3>1. Joins(Frames, q, a, s)
      BY <2>1, Concat
    <3> HIDE DEF q
    <3> QED
      BY <3>1 DEF Joins
  <2> HIDE DEF q
  <2>4. q[Len(q)].t = "end" /\ Len(q) > 0
    <3>1. m + 1 \in 1..Len(s) /\ Len(q) = Len(a) + (m + 1)
      BY <2>1, <2>3
    <3> QED
      BY <3>1, <2>1, <2>3
  <2>5. ASSUME NEW i \in 1..Len(q), q[i].t = "end" PROVE i = Len(q)
    <3>1. CASE i <= Len(a)
      BY <3>1, <2>5, <2>3
    <3>2. CASE i > Len(a)
      <4>1. PICK k \in 1..Len(s) : i = Len(a) + k
        <5>1. i - Len(a) \in 1..Len(s) /\ i = Len(a) + (i - Len(a))
          BY <3>2, <2>3
        <5> QED
          BY <5>1
      <4>2. s[k].t = "end"
        BY <4>1, <2>3, <2>5
      <4>3. k = Len(s)
        <5> SUFFICES ASSUME k # Len(s) PROVE FALSE
          OBVIOUS
        <5>1. k \in 1..m
          BY <2>1
        <5> QED
          BY <5>1, <4>2, <2>1
      <4> QED
        BY <4>1, <4>3, <2>3
    <3> QED
      BY <3>1, <3>2, <2>3
  <2>6. Ends(q, 1)
    BY <2>4, <2>5 DEF Ends
  <2> QED
    BY <2>1, <2>2, <2>6, <1>1, <1>2 DEF q
<1>3. CASE Len(lengths) = 2
  <2>0. PICK m \in Nat, n \in Nat : m = lengths[1] /\ n = lengths[2]
    BY <1>1, <1>3
  <2> DEFINE s == Stream(m)  u == Stream(n)  b == s \o u  q == a \o b
  <2>1. /\ s \in Seq(Frames) /\ Len(s) = m + 1 /\ s[m + 1].t = "end"
        /\ \A i \in 1..m : s[i].t = "token"
    BY StreamShape
  <2>2. /\ u \in Seq(Frames) /\ Len(u) = n + 1 /\ u[n + 1].t = "end"
        /\ \A i \in 1..n : u[i].t = "token"
    BY StreamShape
  <2>3. Input(lengths) = b
    BY <1>3, <2>0 DEF Input
  <2> HIDE DEF s, u
  <2>4. /\ b \in Seq(Frames) /\ Len(b) = Len(s) + Len(u) /\ Len(s) \in Nat /\ Len(u) \in Nat
        /\ \A i \in 1..Len(s) : b[i] = s[i]
        /\ \A j \in 1..Len(u) : b[Len(s) + j] = u[j]
    <3>1. Joins(Frames, b, s, u)
      BY <2>1, <2>2, Concat
    <3> HIDE DEF b
    <3> QED
      BY <3>1 DEF Joins
  <2> HIDE DEF b
  <2>5. /\ Len(q) = Len(a) + Len(b) /\ Len(a) \in Nat
        /\ \A i \in 1..Len(a) : q[i] = a[i]
        /\ \A j \in 1..Len(b) : q[Len(a) + j] = b[j]
    <3>1. Joins(Frames, q, a, b)
      BY <2>4, Concat
    <3> HIDE DEF q
    <3> QED
      BY <3>1 DEF Joins
  <2> HIDE DEF q
  <2>6. Len(s) > 0 /\ Len(u) > 0
    BY <2>1, <2>2, <1>1, <1>3
  <2>7. b[Len(s)].t = "end" /\ b[Len(b)].t = "end"
    <3>1. m + 1 \in 1..Len(s) /\ n + 1 \in 1..Len(u) /\ Len(b) = Len(s) + (n + 1)
      BY <2>1, <2>2, <2>4
    <3> QED
      BY <3>1, <2>1, <2>2, <2>4
  <2>8. q[Len(q)].t = "end" /\ Len(q) > 0 /\ q[Len(a) + Len(s)].t = "end"
    <3>1. Len(s) \in 1..Len(b) /\ Len(b) \in 1..Len(b) /\ Len(b) > 0
      BY <2>4, <2>6
    <3>2. q[Len(a) + Len(s)] = b[Len(s)] /\ q[Len(a) + Len(b)] = b[Len(b)]
      BY <3>1, <2>5
    <3> QED
      BY <3>1, <3>2, <2>4, <2>5, <2>7
  <2>9. ASSUME NEW i \in 1..Len(b), b[i].t = "end" PROVE i = Len(s) \/ i = Len(b)
    <3>1. CASE i <= Len(s)
      <4> SUFFICES ASSUME i # Len(s) PROVE FALSE
        OBVIOUS
      <4>1. i \in 1..m /\ i \in 1..Len(s)
        BY <3>1, <2>1, <2>4
      <4> QED
        BY <4>1, <2>9, <2>1, <2>4
    <3>2. CASE i > Len(s)
      <4>1. PICK k \in 1..Len(u) : i = Len(s) + k
        <5>1. i - Len(s) \in 1..Len(u) /\ i = Len(s) + (i - Len(s))
          BY <3>2, <2>4
        <5> QED
          BY <5>1
      <4>2. u[k].t = "end"
        BY <4>1, <2>4, <2>9
      <4>3. k = Len(u)
        <5> SUFFICES ASSUME k # Len(u) PROVE FALSE
          OBVIOUS
        <5>1. k \in 1..n
          BY <2>2
        <5> QED
          BY <5>1, <4>2, <2>2
      <4> QED
        BY <4>1, <4>3, <2>4
    <3> QED
      BY <3>1, <3>2, <2>4
  <2>10. ASSUME NEW i \in 1..Len(q), q[i].t = "end" PROVE i = Len(a) + Len(s) \/ i = Len(q)
    <3>1. CASE i <= Len(a)
      BY <3>1, <2>10, <2>5
    <3>2. CASE i > Len(a)
      <4>1. PICK k \in 1..Len(b) : i = Len(a) + k
        <5>1. i - Len(a) \in 1..Len(b) /\ i = Len(a) + (i - Len(a))
          BY <3>2, <2>4, <2>5
        <5> QED
          BY <5>1
      <4>2. b[k].t = "end"
        BY <4>1, <2>5, <2>10
      <4>3. k = Len(s) \/ k = Len(b)
        BY <4>2, <2>9
      <4> QED
        BY <4>1, <4>3, <2>5
    <3> QED
      BY <3>1, <3>2, <2>5
  <2>11. Len(a) + Len(s) \in 1..Len(q) /\ Len(a) + Len(s) # Len(q)
    BY <2>4, <2>5, <2>6
  <2>12. Ends(q, 2)
    BY <2>8, <2>10, <2>11 DEF Ends
  <2> QED
    BY <2>3, <2>4, <2>6, <2>12, <1>3 DEF q
<1> QED
  BY <1>1, <1>2, <1>3

-----------------------------------------------------------------------------
(* Types.                                                                  *)

\* The fields of the two records, one by one.
LEMMA Fields ==
  ASSUME Types
  PROVE  /\ cc.inv \in 0..MaxInv /\ cc.inv \in Nat /\ cc.streams \in 0..2 /\ cc.sent \in Nat
         /\ cc.got \in 0..MaxOut /\ cc.got \in Nat /\ cc.todo \in Seq(Frames)
         /\ cc.why \in Reasons
         /\ \A h \in Hosts :
              /\ host[h] \in HostState
              /\ host[h].inv \in 0..MaxInv /\ host[h].inv \in Nat /\ host[h].left \in Nat
              /\ host[h].got \in Nat /\ host[h].made \in 0..MaxOut /\ host[h].made \in Nat
              /\ stdin[h] \in Seq(Frames) /\ stdout[h] \in Seq(Frames)
              /\ Len(stdin[h]) \in Nat /\ Len(stdout[h]) \in Nat
         /\ MaxOut \in Nat /\ MaxInv \in Nat
<1>1. MaxOut \in Nat /\ MaxInv \in Nat /\ 0..MaxInv \subseteq Nat /\ 0..MaxOut \subseteq Nat
  BY BoundsAssumption
<1>2. cc \in CompilerState
  BY DEF Types
<1>3. /\ cc.inv \in 0..MaxInv /\ cc.streams \in 0..2 /\ cc.sent \in Nat
      /\ cc.got \in 0..MaxOut /\ cc.todo \in Seq(Frames) /\ cc.why \in Reasons
  BY <1>2 DEF CompilerState
<1>4. ASSUME NEW h \in Hosts
      PROVE  /\ host[h] \in HostState
             /\ stdin[h] \in Seq(Frames) /\ stdout[h] \in Seq(Frames)
  BY DEF Types, Pipe
<1>5. ASSUME NEW h \in Hosts
      PROVE  /\ host[h].inv \in 0..MaxInv /\ host[h].left \in Nat
             /\ host[h].got \in Nat /\ host[h].made \in 0..MaxOut
  BY <1>4 DEF HostState
<1>6. ASSUME NEW h \in Hosts PROVE Len(stdin[h]) \in Nat /\ Len(stdout[h]) \in Nat
  BY <1>4, LenProperties
<1> QED
  BY <1>1, <1>3, <1>4, <1>5, <1>6

\* What the phases bound: a token the compiler reads is one that the macro made.
LEMMA GotBound ==
  ASSUME Types, NEW h \in Hosts, Phase(h), cc.pc = "tokens", Len(stdout[h]) # 0,
         stdout[h][1].t = "token"
  PROVE  cc.got + 1 \in 0..MaxOut
<1>1. Sends(h) \/ Sent(h) \/ Died(h)
  BY DEF Phase, Asked, Answers, Missed, Ready, Receives, Runs, Lost, Panics
<1>2. /\ cc.got \in Nat /\ host[h].left \in Nat /\ host[h].made \in 0..MaxOut /\ MaxOut \in Nat
      /\ Len(stdout[h]) \in Nat
  BY Fields
<1>3. CASE Sends(h)
  BY <1>2, <1>3 DEF Sends
<1>4. CASE Sent(h)
  <2>1. /\ stdout[h][Len(stdout[h])].t = "empty"
        /\ cc.got + Len(stdout[h]) = host[h].made + 1
    BY <1>4 DEF Sent
  <2>2. Len(stdout[h]) > 1
    BY <2>1, <1>2
  <2>3. PICK n \in Nat, got \in Nat, made \in Nat :
          n = Len(stdout[h]) /\ got = cc.got /\ made = host[h].made
    BY <1>2
  <2> QED
    BY <1>2, <2>1, <2>2, <2>3
<1>5. CASE Died(h)
  BY <1>2, <1>5 DEF Died, Lost, Gone
<1> QED
  BY <1>1, <1>3, <1>4, <1>5

\* Every step keeps the types.
LEMMA TypesStep ==
  ASSUME Types, TalkInv, QuietInv, HostInv, [Next]_vars
  PROVE  Types'
<1>0. /\ MaxInv \in Nat /\ MaxIn \in Nat /\ MaxOut \in Nat
      /\ 0 \in 0..MaxInv /\ 0 \in 0..MaxOut
  BY BoundsAssumption
<1>1. /\ cc \in CompilerState /\ host \in [Hosts -> HostState] /\ stdin \in [Hosts -> Seq(Frames)]
      /\ stdout \in [Hosts -> Seq(Frames)] /\ open \in [Hosts -> BOOLEAN]
      /\ spawns \in [Hosts -> Nat] /\ causes \subseteq Causes
  BY DEF Types, Pipe
<1>2. ASSUME cc' \in CompilerState, host' \in [Hosts -> HostState], stdin' \in [Hosts -> Seq(Frames)],
             stdout' \in [Hosts -> Seq(Frames)], open' \in [Hosts -> BOOLEAN],
             spawns' \in [Hosts -> Nat], causes' \subseteq Causes
      PROVE  Types'
  BY <1>2 DEF Types, Pipe
<1>3. ASSUME NEW why \in Reasons, Abort(why)
      PROVE  cc' \in CompilerState /\ open' \in [Hosts -> BOOLEAN]
  BY <1>1, <1>3 DEF Abort, CompilerState
<1>4. ASSUME NEW h \in Hosts, Destroy(h)
      PROVE  cc' \in CompilerState /\ open' \in [Hosts -> BOOLEAN]
  BY <1>1, <1>4 DEF Destroy, Reasons, CompilerState
<1>5. ASSUME NEW h \in Hosts, EndStream(h)
      PROVE  cc' \in CompilerState /\ open' \in [Hosts -> BOOLEAN]
  BY <1>1, <1>5 DEF EndStream, CompilerState
<1>6. cc.pc \in Talks => cc.host \in Hosts
  BY DEF QuietInv
<1>7. ASSUME NEW h \in Hosts, Len(stdin[h]) # 0
      PROVE  [stdin EXCEPT ![h] = Tail(@)] \in [Hosts -> Seq(Frames)] /\ Head(stdin[h]) \in Frames
  BY <1>1, <1>7, TailIs
<1>8. ASSUME NEW h \in Hosts, Len(stdout[h]) # 0
      PROVE  [stdout EXCEPT ![h] = Tail(@)] \in [Hosts -> Seq(Frames)] /\ Head(stdout[h]) = stdout[h][1]
  BY <1>1, <1>8, TailIs
<1>9. \A q : q # <<>> /\ q \in Seq(Frames) => Len(q) # 0
  OBVIOUS
<1>10. Reasons = {"none", "panic", "missing", "write", "eof", "fault", "parse", "class"}
  BY DEF Reasons
<1>30. ASSUME NEW h \in Hosts, NEW r \in HostState
      PROVE  [host EXCEPT ![h] = r] \in [Hosts -> HostState]
  BY <1>1
<1>31. ASSUME NEW h \in Hosts, NEW p \in {"request", "recv", "panic", "exited"}
      PROVE  /\ [host[h] EXCEPT !.pc = p] \in HostState
             /\ HostIs(h, p) => host' \in [Hosts -> HostState]
  <2>1. host[h] \in HostState
    BY <1>1
  <2>2. [host[h] EXCEPT !.pc = p] \in HostState
    BY <2>1 DEF HostState
  <2> QED
    BY <2>2, <1>30 DEF HostIs
<1>11. ASSUME NEW h \in Hosts, NEW n \in 1..2, NEW known \in BOOLEAN, Begin(h, n, known)
       PROVE  Types'
  <2>1. cc.inv + 1 \in 1..MaxInv /\ cc.inv + 1 \in 0..MaxInv /\ cc.inv + 1 \in Nat
    BY <1>0, <1>11, Fields DEF Begin
  <2>2. Name(n, known) \in Frames /\ Frame("def", cc.inv + 1) \in Frames
    BY <2>1 DEF Name, Frame, Frames
  <2>3. <<Name(n, known), Frame("def", cc.inv + 1)>> \in Seq(Frames)
    BY <2>2
  <2>4. cc' \in CompilerState
    <3>1. /\ "name" \in Talks /\ h \in Hosts \cup {"none"} /\ n \in 0..2 /\ 0 \in Nat
          /\ cc \in CompilerState
      BY <1>1 DEF Talks
    <3>2. PICK todo \in Seq(Frames) :
            cc' = [cc EXCEPT !.pc = "name", !.host = h, !.inv = cc.inv + 1, !.streams = n,
                             !.todo = todo, !.sent = 0, !.got = 0]
      BY <2>3, <1>11 DEF Begin
    <3> QED
      BY <3>1, <3>2, <2>1, <1>0 DEF CompilerState
  <2>5. NoHost \in HostState /\ [NoHost EXCEPT !.pc = "request", !.born = cc.inv + 1] \in HostState
    BY <2>1, <1>0 DEF NoHost, HostState
  <2>6. /\ host' \in [Hosts -> HostState] /\ stdin' \in [Hosts -> Seq(Frames)]
        /\ stdout' \in [Hosts -> Seq(Frames)] /\ open' \in [Hosts -> BOOLEAN]
        /\ spawns' \in [Hosts -> Nat] /\ causes' \subseteq Causes
    <3>1. CASE open[h]
      BY <3>1, <1>1, <1>11 DEF Begin
    <3>2. CASE ~open[h]
      <4>1. /\ host' = [host EXCEPT ![h] = [NoHost EXCEPT !.pc = "request", !.born = cc.inv + 1]]
            /\ stdin' = [stdin EXCEPT ![h] = <<>>] /\ stdout' = [stdout EXCEPT ![h] = <<>>]
            /\ open' = [open EXCEPT ![h] = TRUE] /\ spawns' = [spawns EXCEPT ![h] = @ + 1]
            /\ UNCHANGED causes
        BY <3>2, <1>11 DEF Begin
      <4>2. host' \in [Hosts -> HostState]
        BY <4>1, <2>5, <1>30
      <4>3. stdin' \in [Hosts -> Seq(Frames)] /\ stdout' \in [Hosts -> Seq(Frames)]
        BY <4>1, <1>1
      <4>4. open' \in [Hosts -> BOOLEAN] /\ spawns' \in [Hosts -> Nat] /\ causes' \subseteq Causes
        BY <4>1, <1>1
      <4> QED
        BY <4>2, <4>3, <4>4
    <3> QED
      BY <3>1, <3>2
  <2> QED
    BY <2>4, <2>6, <1>2
<1>12. ASSUME NEW h \in Hosts, Stop(h) PROVE Types'
  BY <1>12, <1>1, <1>2 DEF Stop, CompilerState
<1>13. ASSUME NEW lengths \in Lengths, CheckGood(lengths) PROVE Types'
  <2> DEFINE h == cc.host
  <2>1. h \in Hosts /\ Talking(h)
    BY <1>6, <1>13 DEF CheckGood, Talks, Talking
  <2>2. cc.inv # 0
    BY <2>1 DEF TalkInv, TalkAt
  <2>3. Input(lengths) \in Seq(Frames)
    <3>1. <<>> \in Seq(Frames) /\ Len(<<>>) = 0
      OBVIOUS
    <3>2. \A i \in 1..Len(<<>>) : <<>>[i].t # "end"
      OBVIOUS
    <3> QED
      BY <3>1, <3>2, <2>2, InputEnds
  <2>4. cc' \in CompilerState /\ open' \in [Hosts -> BOOLEAN]
    <3>1. CASE Destroy(h)
      BY <3>1, <2>1, <1>4
    <3>2. CASE cc' = [cc EXCEPT !.pc = "input", !.todo = Input(lengths)] /\ UNCHANGED open
      BY <3>2, <2>3, <1>1 DEF Talks, CompilerState
    <3> QED
      BY <3>1, <3>2, <1>13 DEF CheckGood
  <2>5. stdout' \in [Hosts -> Seq(Frames)]
    BY <1>1, <1>8, <1>9, <1>13, <2>1 DEF CheckGood
  <2> QED
    BY <2>4, <2>5, <1>1, <1>2, <1>13 DEF CheckGood
<1>14. ASSUME Send PROVE Types'
  <2> DEFINE h == cc.host
  <2>1. h \in Hosts /\ Talking(h)
    BY <1>6, <1>14 DEF Send, Talks, Talking
  <2>2. cc.todo \in Seq(Frames) /\ Len(cc.todo) # 0
    BY <2>1, <1>14, Fields DEF TalkInv, TalkAt, Send
  <2>3. Head(cc.todo) \in Frames /\ Tail(cc.todo) \in Seq(Frames)
    BY <2>2, TailIs
  <2>4. cc' \in CompilerState /\ open' \in [Hosts -> BOOLEAN]
    <3>1. CASE Abort("write")
      BY <3>1, <1>3, <1>10
    <3>2. CASE /\ cc' = [cc EXCEPT !.todo = Tail(@), !.sent = @ + 1,
                                   !.pc = IF Len(cc.todo) = 1 THEN Afterwards(@) ELSE @]
               /\ UNCHANGED open
      <4>1. PICK pc \in Talks : cc' = [cc EXCEPT !.todo = Tail(cc.todo), !.sent = cc.sent + 1, !.pc = pc]
        <5>1. cc.pc \in Talks /\ Afterwards(cc.pc) \in Talks
          BY <1>14 DEF Send, Talks, Afterwards
        <5> QED
          BY <5>1, <3>2
      <4>2. cc \in CompilerState /\ open \in [Hosts -> BOOLEAN] /\ cc.sent + 1 \in Nat
        BY <1>1, Fields
      <4> QED
        BY <4>1, <4>2, <3>2, <2>3 DEF CompilerState
    <3> QED
      BY <3>1, <3>2, <1>14 DEF Send
  <2>5. stdin' \in [Hosts -> Seq(Frames)]
    <3>1. stdin[h] \in Seq(Frames)
      BY <2>1, <1>1
    <3>2. Append(stdin[h], Head(cc.todo)) \in Seq(Frames)
      BY <3>1, <2>3
    <3>3. [stdin EXCEPT ![h] = Append(stdin[h], Head(cc.todo))] \in [Hosts -> Seq(Frames)]
      BY <3>2, <1>1
    <3> QED
      BY <3>3, <1>1, <1>14 DEF Send
  <2> QED
    BY <2>4, <2>5, <1>1, <1>2, <1>14 DEF Send
<1>15. ASSUME CheckPanicked PROVE Types'
  <2>1. cc' \in CompilerState /\ open' \in [Hosts -> BOOLEAN]
    <3>1. ASSUME Abort("panic") \/ Abort("eof") PROVE cc' \in CompilerState /\ open' \in [Hosts -> BOOLEAN]
      BY <3>1, <1>3, <1>10
    <3>2. ASSUME cc' = [cc EXCEPT !.pc = "tokens"], UNCHANGED open
          PROVE  cc' \in CompilerState /\ open' \in [Hosts -> BOOLEAN]
      BY <3>2, <1>1 DEF Talks, CompilerState
    <3> QED
      BY <3>1, <3>2, <1>15 DEF CheckPanicked
  <2> QED
    BY <2>1, <1>1, <1>2, <1>15 DEF CheckPanicked
<1>16. ASSUME GetToken PROVE Types'
  <2> DEFINE h == cc.host
  <2>1. h \in Hosts /\ Talking(h)
    BY <1>6, <1>16 DEF GetToken, Talks, Talking
  <2>2. Phase(h)
    BY <2>1 DEF TalkInv, TalkAt
  <2>3. stdout' \in [Hosts -> Seq(Frames)]
    BY <1>1, <1>8, <1>9, <1>16, <2>1 DEF GetToken
  <2>4. cc' \in CompilerState /\ open' \in [Hosts -> BOOLEAN]
    <3>1. ASSUME Abort("class") \/ Abort("eof") PROVE cc' \in CompilerState /\ open' \in [Hosts -> BOOLEAN]
      BY <3>1, <1>3, <1>10
    <3>2. ASSUME stdout[h] # <<>>, Head(stdout[h]).t = "token",
                 cc' = [cc EXCEPT !.got = @ + 1], UNCHANGED open
          PROVE  cc' \in CompilerState /\ open' \in [Hosts -> BOOLEAN]
      <4>1. cc.got + 1 \in 0..MaxOut
        <5>1. stdout[h] \in Seq(Frames) /\ Len(stdout[h]) # 0
          BY <3>2, <2>1, <1>1, <1>9
        <5>2. stdout[h][1].t = "token" /\ cc.pc = "tokens"
          BY <3>2, <5>1, <2>1, <1>8, <1>16 DEF GetToken
        <5> QED
          BY <5>1, <5>2, <2>1, <2>2, GotBound
      <4> QED
        BY <4>1, <3>2, <1>1 DEF CompilerState
    <3> QED
      BY <3>1, <3>2, <2>1, <1>5, <1>16 DEF GetToken
  <2> QED
    BY <2>3, <2>4, <1>1, <1>2, <1>16 DEF GetToken
<1>17. ASSUME Waited PROVE Types'
  <2>1. cc' \in CompilerState /\ open' \in [Hosts -> BOOLEAN]
    <3>1. CASE Abort("missing")
      BY <3>1, <1>3, <1>10
    <3>2. CASE cc' = [cc EXCEPT !.pc = "stop"] /\ UNCHANGED open
      BY <3>2, <1>1 DEF CompilerState
    <3> QED
      BY <3>1, <3>2, <1>17 DEF Waited
  <2> QED
    BY <2>1, <1>1, <1>2, <1>17 DEF Waited
<1>18. ASSUME Exit PROVE Types'
  BY <1>18, <1>1, <1>2 DEF Exit, CompilerState
<1>19. ASSUME Fault PROVE Types'
  <2>1. cc' \in CompilerState /\ open' \in [Hosts -> BOOLEAN]
    <3>1. CASE Abort("fault")
      BY <3>1, <1>3, <1>10
    <3>2. CASE cc.pc = "check" /\ Destroy(cc.host)
      BY <3>2, <1>4, <1>6 DEF Talks
    <3> QED
      BY <3>1, <3>2, <1>19 DEF Fault
  <2>2. causes' \subseteq Causes
    BY <1>1, <1>19 DEF Fault, Causes
  <2> QED
    BY <2>1, <2>2, <1>1, <1>2, <1>19 DEF Fault
<1>20. ASSUME ParseError PROVE Types'
  <2>1. cc' \in CompilerState /\ open' \in [Hosts -> BOOLEAN]
    BY <1>3, <1>10, <1>20 DEF ParseError
  <2>2. causes' \subseteq Causes
    BY <1>1, <1>20 DEF ParseError, Causes
  <2> QED
    BY <2>1, <2>2, <1>1, <1>2, <1>20 DEF ParseError
<1>21. ASSUME NEW h \in Hosts, NEW frame \in Frames, NEW after \in HostState, Write(h, frame, after)
       PROVE  stdout' \in [Hosts -> Seq(Frames)] /\ host' \in [Hosts -> HostState]
  <2>1. [host EXCEPT ![h] = after] \in [Hosts -> HostState]
    BY <1>30
  <2>2. HostIs(h, "exited") => host' \in [Hosts -> HostState]
    BY <1>31
  <2>3. [stdout EXCEPT ![h] = Append(@, frame)] \in [Hosts -> Seq(Frames)]
    <3>1. Append(stdout[h], frame) \in Seq(Frames)
      BY <1>1
    <3> QED
      BY <3>1, <1>1
  <2> QED
    BY <2>1, <2>2, <2>3, <1>1, <1>21 DEF Write
<1>22. ASSUME NEW h \in Hosts, ReadRequest(h) PROVE Types'
  <2>1. stdin' \in [Hosts -> Seq(Frames)]
    BY <1>1, <1>7, <1>9, <1>22 DEF ReadRequest
  <2>2. causes' \subseteq Causes
    BY <1>1, <1>22 DEF ReadRequest, Causes
  <2>3. host' \in [Hosts -> HostState]
    <3>1. HostIs(h, "exited") => host' \in [Hosts -> HostState]
      BY <1>31
    <3>2. ASSUME NEW frame \in Frames, frame.t = "name",
                 host' = [host EXCEPT ![h].pc = IF frame.known THEN "found" ELSE "missing",
                                      ![h].inv = frame.inv, ![h].left = frame.streams, ![h].got = 1]
          PROVE  host' \in [Hosts -> HostState]
      <4>1. frame.inv \in 0..MaxInv /\ frame.streams \in Nat
        BY <3>2, <1>0 DEF Frames
      <4>2. PICK p \in {"found", "missing"} :
              host' = [host EXCEPT ![h] = [host[h] EXCEPT !.pc = p, !.inv = frame.inv,
                                                          !.left = frame.streams, !.got = 1]]
        BY <3>2
      <4>3. host[h] \in HostState
        BY <1>1
      <4>4. [host[h] EXCEPT !.pc = p, !.inv = frame.inv, !.left = frame.streams, !.got = 1]
              \in HostState
        BY <4>1, <4>3 DEF HostState
      <4> QED
        BY <4>2, <4>4, <1>30
    <3>3. ASSUME NEW pc \in {"found", "missing"}, NEW n \in 1..2,
                 host' = [host EXCEPT ![h].pc = pc, ![h].left = n, ![h].got = 0]
          PROVE  host' \in [Hosts -> HostState]
      <4>1. host[h] \in HostState
        BY <1>1
      <4>2. [host[h] EXCEPT !.pc = pc, !.left = n, !.got = 0] \in HostState
        <5>1. n \in Nat /\ 0 \in Nat
          OBVIOUS
        <5> QED
          BY <4>1, <5>1 DEF HostState
      <4>3. host' = [host EXCEPT ![h] = [host[h] EXCEPT !.pc = pc, !.left = n, !.got = 0]]
        BY <3>3, <1>1
      <4> QED
        BY <4>2, <4>3, <1>30
    <3>4. stdin[h] # <<>> => Head(stdin[h]) \in Frames
      BY <1>1, <1>7, <1>9
    <3> QED
      BY <3>1, <3>2, <3>3, <3>4, <1>22 DEF ReadRequest
  <2> QED
    BY <2>1, <2>2, <2>3, <1>1, <1>2, <1>22 DEF ReadRequest
<1>23. ASSUME NEW h \in Hosts, host[h].pc \in {"found", "missing", "recv", "run", "send", "panic"},
              NEW t \in {"found", "missing", "panic", "empty", "token"}
       PROVE  Frame(t, host[h].inv) \in Frames
  <2>1. host[h].inv # 0
    BY <1>23 DEF HostInv, HostAt
  <2>2. host[h].inv \in 1..MaxInv
    BY <2>1, Fields
  <2> QED
    BY <2>2 DEF Frame, Frames
<1>24. ASSUME NEW h \in Hosts, ReportFound(h) PROVE Types'
  <2>1. Frame(host[h].pc, host[h].inv) \in Frames
    BY <1>23, <1>24 DEF ReportFound
  <2>2. [host[h] EXCEPT !.pc = IF @ = "found" THEN "recv" ELSE "exited"] \in HostState
    BY <1>31
  <2> QED
    BY <2>1, <2>2, <1>1, <1>2, <1>21, <1>24 DEF ReportFound
<1>25. ASSUME NEW h \in Hosts, Recv(h) PROVE Types'
  <2>1. stdin' \in [Hosts -> Seq(Frames)]
    BY <1>1, <1>7, <1>9, <1>25 DEF Recv
  <2>2. causes' \subseteq Causes
    BY <1>1, <1>25 DEF Recv, Causes
  <2>3. host[h].left \in 1..2
    BY <1>25 DEF Recv, HostInv, HostAt
  <2>4. host' \in [Hosts -> HostState]
    <3>1. HostIs(h, "panic") => host' \in [Hosts -> HostState]
      BY <1>31
    <3>2. ASSUME NEW left \in Nat,
                 host' = [host EXCEPT ![h].left = left, ![h].got = @ + 1,
                                      ![h].pc = IF left = 0 THEN "run" ELSE @]
          PROVE  host' \in [Hosts -> HostState]
      <4>1. host[h] \in HostState /\ host[h].got + 1 \in Nat
        BY <1>1, Fields
      <4>2. PICK p : p \in {"run", host[h].pc} /\
              host' = [host EXCEPT ![h] = [host[h] EXCEPT !.left = left, !.got = host[h].got + 1, !.pc = p]]
        BY <3>2
      <4>3. [host[h] EXCEPT !.left = left, !.got = host[h].got + 1, !.pc = p] \in HostState
        BY <4>1, <4>2 DEF HostState
      <4> QED
        BY <4>2, <4>3, <1>30
    <3>3. host[h].left - (IF Head(stdin[h]).t = "end" THEN 1 ELSE 0) \in Nat
      BY <2>3
    <3> QED
      BY <3>1, <3>2, <3>3, <1>25 DEF Recv
  <2> QED
    BY <2>1, <2>2, <2>4, <1>1, <1>2, <1>25 DEF Recv
<1>26. ASSUME NEW h \in Hosts, RunMacro(h) PROVE Types'
  <2>1. causes' \subseteq Causes
    BY <1>1, <1>26 DEF RunMacro, Causes
  <2>2. host' \in [Hosts -> HostState]
    <3>1. HostIs(h, "panic") \/ HostIs(h, "exited") => host' \in [Hosts -> HostState]
      BY <1>31
    <3>2. ASSUME NEW n \in 0..MaxOut,
                 host' = [host EXCEPT ![h].pc = "send", ![h].made = n, ![h].left = n]
          PROVE  host' \in [Hosts -> HostState]
      <4>1. host[h] \in HostState /\ n \in Nat
        BY <1>0, <1>1
      <4>2. [host[h] EXCEPT !.pc = "send", !.made = n, !.left = n] \in HostState
        BY <4>1 DEF HostState
      <4>3. host' = [host EXCEPT ![h] = [host[h] EXCEPT !.pc = "send", !.made = n, !.left = n]]
        BY <3>2, <1>1
      <4> QED
        BY <4>2, <4>3, <1>30
    <3> QED
      BY <3>1, <3>2, <1>26 DEF RunMacro
  <2> QED
    BY <2>1, <2>2, <1>1, <1>2, <1>26 DEF RunMacro
<1>27. ASSUME NEW h \in Hosts, SendToken(h) PROVE Types'
  <2>1. causes' \subseteq Causes
    BY <1>1, <1>27 DEF SendToken, Causes
  <2>2. Frame("token", host[h].inv) \in Frames /\ Frame("empty", host[h].inv) \in Frames
    BY <1>23, <1>27 DEF SendToken
  <2>3. host[h].left > 0 => [host[h] EXCEPT !.left = @ - 1] \in HostState
    <3>1. host[h] \in HostState /\ host[h].left \in Nat
      BY <1>1, Fields
    <3> QED
      BY <3>1 DEF HostState
  <2>4. [host[h] EXCEPT !.pc = "request"] \in HostState
    BY <1>31
  <2>5. HostIs(h, "exited") => host' \in [Hosts -> HostState]
    BY <1>31
  <2>6. host' \in [Hosts -> HostState] /\ stdout' \in [Hosts -> Seq(Frames)]
    BY <2>2, <2>3, <2>4, <2>5, <1>1, <1>21, <1>27 DEF SendToken
  <2> QED
    BY <2>1, <2>6, <1>1, <1>2, <1>27 DEF SendToken
<1>28. ASSUME NEW h \in Hosts, SendPanic(h) PROVE Types'
  <2>1. Frame("panic", host[h].inv) \in Frames
    BY <1>23, <1>28 DEF SendPanic
  <2>2. [host[h] EXCEPT !.pc = "request"] \in HostState
    BY <1>31
  <2> QED
    BY <2>1, <2>2, <1>1, <1>2, <1>21, <1>28 DEF SendPanic
<1>32. ASSUME NEW h \in Hosts, Die(h) PROVE Types'
  <2>1. causes' \subseteq Causes
    BY <1>1, <1>32 DEF Die, Causes
  <2>2. host' \in [Hosts -> HostState]
    BY <1>31, <1>32 DEF Die
  <2> QED
    BY <2>1, <2>2, <1>1, <1>2, <1>32 DEF Die
<1>29. ASSUME UNCHANGED vars PROVE Types'
  BY <1>1, <1>2, <1>29 DEF vars
<1> QED
  BY <1>11, <1>12, <1>13, <1>14, <1>15, <1>16, <1>17, <1>18, <1>19, <1>20,
     <1>22, <1>24,
     <1>25, <1>26, <1>27, <1>28, <1>29, <1>32 DEF Next, Compile, HostStep

-----------------------------------------------------------------------------
(* Steps between the compiler and one host.                                *)

\* What a host needs does not change while its state and its pipes do not.
LEMMA HostFrame ==
  ASSUME NEW g, HostAt(g), host'[g] = host[g], stdin'[g] = stdin[g], stdout'[g] = stdout[g]
  PROVE  HostAt(g)'
BY DEF HostAt

\* Neither does the phase of an invocation.
LEMMA PhaseFrame ==
  ASSUME NEW g, Phase(g), cc' = cc, causes \subseteq causes',
         host'[g] = host[g], stdin'[g] = stdin[g], stdout'[g] = stdout[g]
  PROVE  Phase(g)'
<1>1. Rem(g)' = Rem(g) /\ Served(g)' = Served(g) /\ Reads(g)' = Reads(g)
  BY DEF Rem, Served, Reads
<1>2. (Asked(g) => Asked(g)') /\ (Answers(g) => Answers(g)') /\ (Missed(g) => Missed(g)')
  BY <1>1 DEF Asked, Answers, Missed
<1>3. (Ready(g) => Ready(g)') /\ (Receives(g) => Receives(g)') /\ (Runs(g) => Runs(g)')
  BY <1>1 DEF Ready, Receives, Runs
<1>4. (Sends(g) => Sends(g)') /\ (Sent(g) => Sent(g)') /\ (Died(g) => Died(g)') /\ (Lost(g) => Lost(g)')
  BY <1>1 DEF Sends, Sent, Died, Lost, Gone, Tokens
<1>5. Panics(g) => Panics(g)'
  BY DEF Panics
<1> QED
  BY <1>2, <1>3, <1>4, <1>5 DEF Phase

\* What has gone wrong stays so.
LEMMA ReasonFrame ==
  ASSUME Types, ReasonInv, cc' = cc, causes \subseteq causes'
  PROVE  ReasonInv'
<1>1. ASSUME NEW A, causes \cap A # {} PROVE causes' \cap A # {}
  BY <1>1
<1>2. cc'.pc = "wait" /\ cc'.why = "missing" => causes' \cap {"unknown", "fault", "died"} # {}
  BY <1>1 DEF ReasonInv
<1>3. ASSUME cc'.pc = "aborted" PROVE cc'.why # "none" /\ ReasonIsCause'
  <2>1. cc.why \in Reasons /\ cc'.why = cc.why /\ cc.pc = "aborted"
    BY <1>3, Fields
  <2>2. cc.why # "none" /\ ReasonIsCause
    BY <2>1 DEF ReasonInv
  <2>3. /\ causes \cap {"panic", "refused"} # {} => causes' \cap {"panic", "refused"} # {}
        /\ causes \cap {"unknown", "fault", "died"} # {} => causes' \cap {"unknown", "fault", "died"} # {}
        /\ causes \cap {"unknown", "refused", "died"} # {} => causes' \cap {"unknown", "refused", "died"} # {}
        /\ "died" \in causes => "died" \in causes'
    BY <1>1
  <2>4. /\ cc.why = "panic" => causes \cap {"panic", "refused"} # {}
        /\ cc.why = "missing" => causes \cap {"unknown", "fault", "died"} # {}
        /\ cc.why = "write" => causes \cap {"unknown", "refused", "died"} # {}
        /\ cc.why = "eof" => "died" \in causes
        /\ cc.why # "class"
    BY <2>1, <2>2 DEF ReasonIsCause
  <2>5. ReasonIsCause'
    BY <2>1, <2>2, <2>3, <2>4 DEF ReasonIsCause, Reasons
  <2> QED
    BY <2>1, <2>2, <2>5
<1> QED
  BY <1>2, <1>3 DEF ReasonInv

\* A step between the compiler and host h, which it talks to, has let go or leaves
\* quiet, disturbs nothing else.
LEMMA FrameStep ==
  ASSUME BridgeInv, Types', NEW h \in Hosts,
         \/ cc' = cc
         \/ Talking(h) /\ cc'.host = h /\ cc'.pc \in Talks /\ cc'.why = cc.why,
         open' = open, spawns' = spawns, causes \subseteq causes',
         \A g \in Hosts \ {h} : host'[g] = host[g] /\ stdin'[g] = stdin[g] /\ stdout'[g] = stdout[g],
         HostAt(h)', Talking(h) => TalkAt(h)',
         open[h] => Talking(h) \/ (Quiet(h)' /\ host'[h].inv = host[h].inv /\ host'[h].made = host[h].made)
  PROVE  BridgeInv'
<1>0. Types /\ HostInv /\ TalkInv /\ QuietInv /\ SpawnInv /\ ReasonInv
  BY DEF BridgeInv
<1>1. HostInv'
  BY <1>0, HostFrame DEF HostInv
<1>2. \A g \in Hosts : Talking(g)' <=> Talking(g)
  BY DEF Talking
<1>3. TalkInv'
  <2> SUFFICES ASSUME NEW g \in Hosts, Talking(g)' PROVE TalkAt(g)'
    BY DEF TalkInv
  <2>1. CASE g = h
    BY <2>1, <1>2
  <2>2. CASE g # h
    <3>1. cc' = cc /\ Talking(g) /\ TalkAt(g)
      BY <2>2, <1>0, <1>2 DEF Talking, TalkInv
    <3>2. ~Talking(h)
      BY <3>1, <2>2 DEF Talking
    <3>3. host'[g] = host[g] /\ stdin'[g] = stdin[g] /\ stdout'[g] = stdout[g]
      BY <2>2
    <3> QED
      BY <3>1, <3>3, PhaseFrame DEF TalkAt
  <2> QED
    BY <2>1, <2>2
<1>4. QuietInv'
  <2>1. ASSUME NEW g \in Hosts, open'[g], ~Talking(g)' PROVE Quiet(g)'
    <3>1. CASE g = h
      BY <2>1, <3>1, <1>2
    <3>2. CASE g # h
      <4>1. Quiet(g)
        BY <2>1, <1>0, <1>2 DEF QuietInv
      <4> QED
        BY <3>2, <4>1 DEF Quiet, Gone
    <3> QED
      BY <3>1, <3>2
  <2>2. CASE cc' = cc
    <3>1. ASSUME cc'.pc = "idle", NEW g \in Hosts, open'[g], g = cc'.host
          PROVE  host'[g].inv = cc'.inv /\ cc'.got = host'[g].made
      <4>1. ~Talking(g)
        BY <2>2, <3>1 DEF Talking, Talks
      <4>2. host'[g].inv = host[g].inv /\ host'[g].made = host[g].made
        BY <4>1, <3>1
      <4> QED
        BY <4>2, <2>2, <3>1, <1>0 DEF QuietInv
    <3>2. /\ cc'.pc = "wait" => cc'.host \in Hosts /\ ~open'[cc'.host]
          /\ cc'.pc \in {"done", "aborted"} => \A g \in Hosts : ~open'[g]
          /\ cc'.pc \in Talks => cc'.host \in Hosts
      BY <2>2, <1>0 DEF QuietInv
    <3> QED
      BY <2>1, <3>1, <3>2 DEF QuietInv
  <2>3. CASE cc'.host = h /\ cc'.pc \in Talks
    BY <2>1, <2>3 DEF QuietInv, Talks
  <2> QED
    BY <2>2, <2>3
<1>5. SpawnInv'
  <2>1. cc'.pc \in Talks \cup {"idle"} => cc.pc \in Talks \cup {"idle"}
    BY DEF Talking
  <2> QED
    BY <2>1, <1>0 DEF SpawnInv
<1>6. ReasonInv'
  <2>1. CASE cc' = cc
    BY <2>1, <1>0, ReasonFrame
  <2>2. CASE Talking(h) /\ cc'.pc \in Talks /\ cc'.why = cc.why
    BY <2>2, <1>0 DEF ReasonInv, Talks, Talking
  <2> QED
    BY <2>1, <2>2
<1> QED
  BY <1>1, <1>3, <1>4, <1>5, <1>6 DEF BridgeInv

\* The compiler gives up for a reason: what it leaves is hosts on their own.
LEMMA AbortStep ==
  ASSUME BridgeInv, Types', NEW why \in Reasons \ {"none", "class"}, Abort(why),
         host' = host, stdin' = stdin, spawns' = spawns, causes \subseteq causes',
         \A g \in Hosts : Len(stdout'[g]) <= Len(stdout[g]),
         why = "panic" => causes' \cap {"panic", "refused"} # {},
         why = "missing" => causes' \cap {"unknown", "fault", "died"} # {},
         why = "write" => causes' \cap {"unknown", "refused", "died"} # {},
         why = "eof" => "died" \in causes'
  PROVE  BridgeInv'
<1>0. HostInv /\ SpawnInv /\ Types
  BY DEF BridgeInv
<1>1. cc'.pc = "aborted" /\ cc'.why = why /\ \A g \in Hosts : ~open'[g]
  <2>1. cc \in CompilerState
    BY <1>0 DEF Types
  <2> QED
    BY <2>1 DEF Abort, CompilerState
<1>2. HostInv'
  <2> SUFFICES ASSUME NEW g \in Hosts PROVE HostAt(g)'
    BY DEF HostInv
  <2>1. HostAt(g) /\ host'[g] = host[g] /\ stdin'[g] = stdin[g]
    BY <1>0 DEF HostInv
  <2>2. Len(stdout'[g]) <= Capacity
    <3>1. Len(stdout'[g]) \in Nat /\ Len(stdout[g]) \in Nat /\ Len(stdout[g]) <= Capacity
      BY <2>1, <1>0, Fields, LenProperties DEF HostAt, Types, Pipe
    <3> QED
      BY <3>1, BoundsAssumption
  <2> QED
    BY <2>1, <2>2 DEF HostAt
<1>3. TalkInv' /\ QuietInv'
  BY <1>1 DEF TalkInv, QuietInv, Talking, Talks
<1>4. SpawnInv'
  BY <1>0, <1>1 DEF SpawnInv, Talks
<1>5. ReasonInv'
  <2>1. ReasonIsCause'
    BY <1>1 DEF ReasonIsCause, Reasons
  <2> QED
    BY <2>1, <1>1 DEF ReasonInv
<1> QED
  BY <1>2, <1>3, <1>4, <1>5 DEF BridgeInv

\* So it is with a host that is stopped because its macro is not there.
LEMMA DestroyStep ==
  ASSUME BridgeInv, Types', NEW h \in Hosts, Talking(h), Destroy(h),
         host' = host, stdin' = stdin, spawns' = spawns, causes \subseteq causes',
         \A g \in Hosts \ {h} : stdout'[g] = stdout[g],
         Len(stdout'[h]) <= Len(stdout[h]),
         causes' \cap {"unknown", "fault", "died"} # {}
  PROVE  BridgeInv'
<1>0. HostInv /\ TalkInv /\ QuietInv /\ SpawnInv /\ Types
  BY DEF BridgeInv
<1>1. /\ cc'.pc = "wait" /\ cc'.why = "missing" /\ cc'.host = h
      /\ ~open'[h] /\ \A g \in Hosts : open'[g] => g # h /\ open[g]
  <2>1. cc \in CompilerState /\ open \in [Hosts -> BOOLEAN]
    BY <1>0 DEF Types
  <2> QED
    BY <2>1 DEF Destroy, CompilerState, Talking
<1>2. HostInv'
  <2> SUFFICES ASSUME NEW g \in Hosts PROVE HostAt(g)'
    BY DEF HostInv
  <2>1. HostAt(g) /\ host'[g] = host[g] /\ stdin'[g] = stdin[g]
    BY <1>0 DEF HostInv
  <2>2. Len(stdout'[g]) <= Capacity
    <3>1. /\ Len(stdout'[g]) \in Nat /\ Len(stdout[g]) \in Nat /\ Len(stdout[g]) <= Capacity
      BY <2>1, <1>0, Fields, LenProperties DEF HostAt, Types, Pipe
    <3>2. Len(stdout'[g]) <= Len(stdout[g])
      BY <3>1
    <3> QED
      BY <3>1, <3>2, BoundsAssumption
  <2> QED
    BY <2>1, <2>2 DEF HostAt
<1>3. TalkInv'
  BY <1>1 DEF TalkInv, Talking, Talks
<1>4. QuietInv'
  <2>1. ASSUME NEW g \in Hosts, open'[g] PROVE Quiet(g)'
    <3>1. g # h /\ open[g] /\ ~Talking(g)
      BY <2>1, <1>1 DEF Talking
    <3>2. Quiet(g)
      BY <3>1, <1>0 DEF QuietInv
    <3> QED
      BY <3>1, <3>2 DEF Quiet, Gone
  <2> QED
    BY <2>1, <1>1 DEF QuietInv, Talks
<1>5. SpawnInv'
  BY <1>0, <1>1 DEF SpawnInv, Talks
<1>6. ReasonInv'
  BY <1>1 DEF ReasonInv
<1> QED
  BY <1>2, <1>3, <1>4, <1>5, <1>6 DEF BridgeInv

-----------------------------------------------------------------------------
(* The compiler's steps.                                                   *)

\* The compiler writes a frame of the request or of the input: it is now in the
\* pipe and no longer to be written, so the phase stays.  If the host is gone,
\* a macro was missing, an input refused, or it has died.
LEMMA SendStep ==
  ASSUME BridgeInv, Types', Send
  PROVE  BridgeInv'
<1>0. Types /\ HostInv /\ TalkInv /\ QuietInv
  BY DEF BridgeInv
<1>1. PICK h \in Hosts : h = cc.host /\ Talking(h)
  BY <1>0 DEF QuietInv, Send, Talking, Talks
<1>2. TalkAt(h) /\ HostAt(h) /\ Phase(h) /\ cc.pc \in {"name", "input"} /\ Len(cc.todo) # 0
  BY <1>0, <1>1 DEF TalkInv, TalkAt, HostInv, Send
<1>3. /\ host' = host /\ stdout' = stdout /\ spawns' = spawns /\ causes' = causes
  BY DEF Send
<1>4. /\ cc.inv \in Nat /\ cc.sent \in Nat /\ cc.todo \in Seq(Frames) /\ stdin[h] \in Seq(Frames)
      /\ Len(stdin[h]) \in Nat /\ cc \in CompilerState /\ stdin \in [Hosts -> Seq(Frames)]
  BY <1>0, Fields DEF Types, Pipe
<1>5. CASE ~Running(h)
  <2>1. Abort("write") /\ stdin' = stdin
    BY <1>1, <1>5 DEF Send
  <2>2. host[h].pc \in {"none", "exited"}
    BY <1>5 DEF Running
  <2>3. Missed(h) \/ Panics(h) \/ Lost(h)
    BY <2>2, <1>2 DEF Phase, Asked, Answers, Ready, Receives, Runs, Sends,
       Sent, Died, Gone, Reads
  <2>4. "unknown" \in causes \/ "refused" \in causes \/ "died" \in causes
    BY <2>3, <2>2, <1>2 DEF Missed, Panics, Lost, Gone
  <2>5. causes' \cap {"unknown", "refused", "died"} # {}
    BY <2>4, <1>3
  <2>6. \A g \in Hosts : Len(stdout'[g]) <= Len(stdout[g])
    BY <1>0, <1>3, Fields
  <2>7. "write" \in Reasons \ {"none", "class"}
    BY DEF Reasons
  <2> QED
    BY <2>1, <2>5, <2>6, <2>7, <1>3, AbortStep
<1>6. CASE Running(h)
  <2>1. /\ Len(stdin[h]) < Capacity /\ open' = open
        /\ stdin' = [stdin EXCEPT ![h] = Append(@, Head(cc.todo))]
        /\ cc' = [cc EXCEPT !.todo = Tail(@), !.sent = @ + 1,
                            !.pc = IF Len(cc.todo) = 1 THEN Afterwards(@) ELSE @]
    BY <1>1, <1>6 DEF Send
  <2>2. /\ cc'.host = h /\ cc'.inv = cc.inv /\ cc'.streams = cc.streams /\ cc'.got = cc.got /\ cc'.why = cc.why
        /\ cc'.sent = cc.sent + 1 /\ cc'.todo = Tail(cc.todo)
        /\ cc'.pc = IF Len(cc.todo) = 1 THEN Afterwards(cc.pc) ELSE cc.pc
    BY <2>1, <1>1, <1>4 DEF CompilerState
  <2>3. /\ stdin'[h] = Append(stdin[h], Head(cc.todo))
        /\ \A g \in Hosts \ {h} : stdin'[g] = stdin[g]
    BY <2>1, <1>4
  <2>4. Moved(stdin[h], cc.todo, stdin'[h], cc'.todo)
    <3>1. Moved(stdin[h], cc.todo, Append(stdin[h], Head(cc.todo)), Tail(cc.todo))
      BY <1>2, <1>4, MoveFrame
    <3> QED
      BY <3>1, <2>2, <2>3
  <2>5. /\ Rem(h)' = Rem(h) /\ Len(stdin'[h]) = Len(stdin[h]) + 1
        /\ Len(cc'.todo) = Len(cc.todo) - 1
        /\ Len(stdin[h]) = 0 => stdin'[h][1] = Rem(h)[1]
        /\ Len(stdin[h]) # 0 => stdin'[h][1] = stdin[h][1]
    BY <2>4 DEF Rem, Moved
  <2>6. /\ cc.pc = "name" => cc'.pc \in {"name", "check"}
        /\ cc.pc = "input" => cc'.pc \in {"input", "header"}
        /\ cc'.pc \in {"name", "input"} <=> Len(cc'.todo) # 0
        /\ cc'.pc \in Talks
    <3>1. Len(cc.todo) \in Nat
      BY <1>4, LenProperties
    <3>2. Afterwards(cc.pc) = IF cc.pc = "name" THEN "check" ELSE "header"
      BY DEF Afterwards
    <3> QED
      BY <3>1, <3>2, <2>2, <2>5, <1>2 DEF Talks
  <2>7. Phase(h)'
    <3>1. ASSUME Asked(h) PROVE Asked(h)'
      BY <3>1, <2>2, <2>5, <2>6, <1>2, <1>3 DEF Asked
    <3>2. ASSUME Served(h) PROVE Served(h)'
      <4>1. host[h].got \in Nat
        BY <1>0, Fields
      <4>2. PICK n \in Nat : n = Len(stdin[h]) /\ Len(stdin'[h]) = n + 1
        BY <1>4, <2>5
      <4>3. host[h].inv = cc.inv /\ host[h].got + n = cc.sent
        BY <3>2, <4>2 DEF Served
      <4>4. PICK got \in Nat, sent \in Nat : got = host[h].got /\ sent = cc.sent
        BY <4>1, <1>4
      <4>5. got + (n + 1) = sent + 1
        BY <4>3, <4>4
      <4>6. host'[h].inv = cc'.inv /\ host'[h].got + Len(stdin'[h]) = cc'.sent
        BY <4>2, <4>3, <4>4, <4>5, <2>2, <1>3
      <4> QED
        BY <4>6 DEF Served
    <3>3. ASSUME Answers(h) PROVE Answers(h)'
      BY <3>2, <3>3, <2>2, <2>5, <2>6, <1>2, <1>3 DEF Answers
    <3>4. ASSUME Ready(h) PROVE Ready(h)'
      BY <3>2, <3>4, <2>2, <2>5, <2>6, <1>2, <1>3 DEF Ready
    <3>5. ASSUME Receives(h) PROVE Receives(h)'
      BY <3>2, <3>5, <2>2, <2>5, <2>6, <1>2, <1>3 DEF Receives
    <3>6. ASSUME Panics(h) PROVE Panics(h)'
      BY <3>6, <2>2, <2>6, <1>2, <1>3 DEF Panics
    <3>7. Asked(h) \/ Answers(h) \/ Ready(h) \/ Receives(h) \/ Panics(h)
      BY <1>2, <1>6 DEF Phase, Missed, Runs, Sends, Sent, Died, Lost, Gone, Reads, Running
    <3> QED
      BY <3>1, <3>3, <3>4, <3>5, <3>6, <3>7 DEF Phase
  <2>8. TalkAt(h)'
    BY <2>1, <2>2, <2>6, <2>7, <1>2 DEF TalkAt
  <2>9. HostAt(h)'
    <3>1. Len(stdin'[h]) <= Capacity
      BY <2>1, <2>5, <1>4, BoundsAssumption
    <3>2. ASSUME host[h].inv = 0 PROVE stdin'[h][1].t = "name"
      <4>1. Asked(h)
        BY <3>2, <1>2, <1>6 DEF Phase, TalkAt, Missed, Runs, Sends, Sent, Died, Lost, Gone,
           Reads, Running,
              Answers, Ready, Receives, Panics, Served
      <4>2. Rem(h)[1].t = "name"
        BY <4>1 DEF Asked
      <4>3. Len(stdin[h]) # 0 => stdin[h][1].t = "name"
        BY <3>2, <1>2 DEF HostAt
      <4> QED
        BY <4>2, <4>3, <2>5
    <3> QED
      BY <3>1, <3>2, <1>2, <1>3 DEF HostAt
  <2> QED
    BY <2>1, <2>2, <2>3, <2>6, <2>8, <2>9, <1>1, <1>3, FrameStep
<1> QED
  BY <1>5, <1>6

\* The compiler reads whether the macro is there.  The byte says what the
\* host decided; if the pipe ends before it, the host has died.
LEMMA CheckGoodStep ==
  ASSUME BridgeInv, Types', NEW lengths \in Lengths, CheckGood(lengths)
  PROVE  BridgeInv'
<1>0. Types /\ HostInv /\ TalkInv /\ QuietInv
  BY DEF BridgeInv
<1>1. PICK h \in Hosts : h = cc.host /\ Talking(h)
  BY <1>0 DEF QuietInv, CheckGood, Talking, Talks
<1>2. TalkAt(h) /\ HostAt(h) /\ Phase(h) /\ cc.pc = "check" /\ Len(cc.todo) = 0
  BY <1>0, <1>1 DEF TalkInv, TalkAt, HostInv, CheckGood
<1>3. /\ host' = host /\ stdin' = stdin /\ spawns' = spawns /\ causes' = causes
      /\ Len(lengths) = cc.streams
  BY DEF CheckGood
<1>4. /\ cc.inv \in Nat /\ cc.todo \in Seq(Frames) /\ stdin[h] \in Seq(Frames)
      /\ stdout[h] \in Seq(Frames) /\ Len(stdout[h]) \in Nat
      /\ cc \in CompilerState /\ stdout \in [Hosts -> Seq(Frames)]
  BY <1>0, Fields DEF Types, Pipe
<1>5. Asked(h) \/ Answers(h) \/ Missed(h) \/ Ready(h) \/ Lost(h)
  BY <1>2 DEF Phase, Receives, Runs, Sends, Sent, Died, Reads, Panics
<1>6. CASE ReadEof(h) /\ Destroy(h) /\ stdout' = stdout
  <2>1. Len(stdout[h]) = 0 /\ host[h].pc \in {"none", "exited"}
    BY <1>4, <1>6 DEF ReadEof, Running
  <2>2. Lost(h)
    BY <2>1, <1>5 DEF Asked, Answers, Missed, Ready
  <2>3. causes' \cap {"unknown", "fault", "died"} # {}
    BY <2>2, <1>3 DEF Lost, Gone
  <2>4. /\ \A g \in Hosts \ {h} : stdout'[g] = stdout[g]
        /\ Len(stdout'[h]) <= Len(stdout[h])
    BY <1>4, <1>6
  <2> QED
    BY <2>3, <2>4, <1>1, <1>3, <1>6, DestroyStep
<1> SUFFICES ASSUME
      /\ stdout[h] # <<>> /\ stdout' = [stdout EXCEPT ![h] = Tail(@)]
      /\ \/ /\ Head(stdout[h]).t = "found"
            /\ cc' = [cc EXCEPT !.pc = "input", !.todo = Input(lengths)] /\ open' = open
         \/ Head(stdout[h]).t # "found" /\ Destroy(h)
             PROVE BridgeInv'
  BY <1>1, <1>6 DEF CheckGood
<1>8. Len(stdout[h]) # 0
  BY <1>4
<1>9. /\ stdout'[h] = Tail(stdout[h]) /\ \A g \in Hosts \ {h} : stdout'[g] = stdout[g]
      /\ Len(stdout'[h]) = Len(stdout[h]) - 1 /\ Head(stdout[h]) = stdout[h][1]
  BY <1>4, <1>8, TailIs
<1>10. Missed(h) \/ Ready(h) \/ Lost(h)
  BY <1>5, <1>8 DEF Asked, Answers
<1>11. CASE Head(stdout[h]).t # "found"
  <2>1. Missed(h) /\ Destroy(h)
    BY <1>8, <1>9, <1>10, <1>11 DEF Ready, Lost
  <2>2. causes' \cap {"unknown", "fault", "died"} # {}
    BY <2>1, <1>3 DEF Missed
  <2>3. Len(stdout'[h]) <= Len(stdout[h])
    BY <1>4, <1>9
  <2> QED
    BY <2>1, <2>2, <2>3, <1>1, <1>3, <1>9, DestroyStep
<1>12. CASE Head(stdout[h]).t = "found"
  <2>1. /\ Ready(h) \/ Lost(h)
        /\ open' = open /\ cc' = [cc EXCEPT !.pc = "input", !.todo = Input(lengths)]
    BY <1>9, <1>10, <1>12 DEF Missed
  <2>2. /\ cc'.pc = "input" /\ cc'.todo = Input(lengths) /\ cc'.host = h /\ cc'.inv = cc.inv
        /\ cc'.streams = cc.streams /\ cc'.sent = cc.sent /\ cc'.got = cc.got /\ cc'.why = cc.why
    BY <2>1, <1>1, <1>4 DEF CompilerState
  <2>3. Rem(h) = stdin[h]
    <3>1. cc.todo = <<>>
      BY <1>2, <1>4
    <3> QED
      BY <3>1, <1>4 DEF Rem
  <2>4. Len(Input(lengths)) # 0
    <3>1. <<>> \in Seq(Frames) /\ \A i \in 1..Len(<<>>) : <<>>[i].t # "end"
      OBVIOUS
    <3> QED
      BY <3>1, <1>0, <1>2, InputEnds DEF TalkAt
  <2>5. ASSUME Ready(h) PROVE Phase(h)'
    <3>1. \A i \in 1..Len(stdin[h]) : stdin[h][i].t # "end"
      BY <2>3, <2>5 DEF Ready
    <3>2. Ends(stdin[h] \o Input(lengths), Len(lengths))
      BY <3>1, <1>0, <1>2, <1>4, InputEnds DEF TalkAt
    <3>3. Ends(Rem(h)', host'[h].left)
      <4>1. Rem(h)' = stdin[h] \o Input(lengths) /\ host'[h].left = Len(lengths)
        BY <2>2, <2>5, <1>3 DEF Rem, Ready
      <4> QED
        BY <4>1, <3>2
    <3>4. host'[h].pc = "recv" /\ Len(stdout'[h]) = 0
      BY <2>5, <1>3, <1>9 DEF Ready
    <3>5. Served(h)'
      BY <2>2, <2>5, <1>3 DEF Served, Ready
    <3>6. Receives(h)'
      BY <3>3, <3>4, <3>5, <2>2 DEF Receives
    <3> QED
      BY <3>6 DEF Phase
  <2>6. ASSUME Lost(h) PROVE Phase(h)'
    <3>1. Len(stdout'[h]) = 0
      BY <2>6, <1>8, <1>9 DEF Lost
    <3>2. Lost(h)'
      BY <3>1, <2>2, <2>6, <1>3 DEF Lost, Gone
    <3> QED
      BY <3>2 DEF Phase
  <2>7. TalkAt(h)'
    BY <2>1, <2>2, <2>4, <2>5, <2>6, <1>2 DEF TalkAt
  <2>8. HostAt(h)'
    <3>1. Len(stdout'[h]) <= Capacity
      BY <1>2, <1>4, <1>9, BoundsAssumption DEF HostAt
    <3> QED
      BY <3>1, <1>2, <1>3 DEF HostAt
  <2>9. cc'.pc \in Talks
    BY <2>2 DEF Talks
  <2> QED
    BY <2>1, <2>2, <2>7, <2>8, <2>9, <1>1, <1>3, <1>9, FrameStep
<1> QED
  BY <1>11, <1>12

\* The compiler looks at the header of the answer: that of a panic only if there
\* was one, and the end of the file only if the host died.
LEMMA CheckPanickedStep ==
  ASSUME BridgeInv, Types', CheckPanicked
  PROVE  BridgeInv'
<1>0. Types /\ HostInv /\ TalkInv /\ QuietInv
  BY DEF BridgeInv
<1>1. PICK h \in Hosts : h = cc.host /\ Talking(h)
  BY <1>0 DEF QuietInv, CheckPanicked, Talking, Talks
<1>2. TalkAt(h) /\ HostAt(h) /\ Phase(h) /\ cc.pc = "header"
  BY <1>0, <1>1 DEF TalkInv, TalkAt, HostInv, CheckPanicked
<1>3. /\ host' = host /\ stdin' = stdin /\ stdout' = stdout /\ spawns' = spawns /\ causes' = causes
  BY DEF CheckPanicked
<1>4. /\ stdout[h] \in Seq(Frames) /\ Len(stdout[h]) \in Nat /\ cc \in CompilerState
      /\ stdout[h] # <<>> <=> Len(stdout[h]) # 0
      /\ Len(stdout[h]) # 0 => Head(stdout[h]) = stdout[h][1]
  BY <1>0, Fields DEF Types
<1>5. Receives(h) \/ Runs(h) \/ Sends(h) \/ Sent(h) \/ Died(h) \/ Lost(h) \/ Panics(h)
  BY <1>2 DEF Phase, Asked, Answers, Missed, Ready
<1>6. \A g \in Hosts : Len(stdout'[g]) <= Len(stdout[g])
  BY <1>0, <1>3, Fields
<1>7. CASE stdout[h] # <<>> /\ Head(stdout[h]).t = "panic" /\ Abort("panic")
  <2>1. stdout[h][1].t = "panic" /\ Len(stdout[h]) # 0
    BY <1>4, <1>7
  <2>2. Panics(h)
    <3>1. ~Receives(h) /\ ~Runs(h) /\ ~Lost(h)
      BY <2>1, <1>2 DEF Receives, Runs, Lost
    <3>2. ~Sends(h) /\ ~Died(h)
      BY <2>1, <1>4 DEF Sends, Died, Lost, Gone, Tokens
    <3>3. ASSUME Sent(h) PROVE FALSE
      <4>1. Len(stdout[h]) # 1
        BY <2>1, <3>3 DEF Sent
      <4>2. 1 \in 1..(Len(stdout[h]) - 1)
        <5>1. PICK n \in Nat : n = Len(stdout[h])
          BY <1>4
        <5>2. n # 0 /\ n # 1
          BY <5>1, <4>1, <2>1
        <5>3. 1 \in 1..(n - 1)
          BY <5>2
        <5> QED
          BY <5>1, <5>3
      <4> QED
        BY <4>2, <2>1, <3>3 DEF Sent, Tokens
    <3> QED
      BY <3>1, <3>2, <3>3, <1>5
  <2>3. causes' \cap {"panic", "refused"} # {}
    BY <2>2, <1>3 DEF Panics
  <2>4. "panic" \in Reasons \ {"none", "class"}
    BY DEF Reasons
  <2> QED
    BY <2>3, <2>4, <1>3, <1>6, <1>7, AbortStep
<1>8. CASE ReadEof(h) /\ Abort("eof")
  <2>1. Len(stdout[h]) = 0 /\ host[h].pc \in {"none", "exited"}
    BY <1>4, <1>8 DEF ReadEof, Running
  <2>2. "died" \in causes
    BY <2>1, <1>5 DEF Receives, Runs, Sends, Sent, Died, Lost, Gone, Panics
  <2>3. "eof" \in Reasons \ {"none", "class"}
    BY DEF Reasons
  <2> QED
    BY <2>2, <2>3, <1>3, <1>6, <1>8, AbortStep
<1>9. CASE /\ stdout[h] # <<>> /\ Head(stdout[h]).t # "panic"
           /\ cc' = [cc EXCEPT !.pc = "tokens"] /\ open' = open
  <2>1. stdout[h][1].t # "panic" /\ Len(stdout[h]) # 0
    BY <1>4, <1>9
  <2>2. Sends(h) \/ Sent(h) \/ Died(h)
    BY <2>1, <1>2, <1>5 DEF Receives, Runs, Lost, Panics
  <2>3. /\ cc'.pc = "tokens" /\ cc'.todo = cc.todo /\ cc'.host = h /\ cc'.inv = cc.inv
        /\ cc'.streams = cc.streams /\ cc'.sent = cc.sent /\ cc'.got = cc.got /\ cc'.why = cc.why
    BY <1>1, <1>4, <1>9 DEF CompilerState
  <2>4. Sends(h)' \/ Sent(h)' \/ Died(h)'
    BY <2>2, <2>3, <1>3 DEF Sends, Sent, Died, Lost, Gone, Tokens, Reads
  <2>5. TalkAt(h)'
    BY <2>3, <2>4, <1>2, <1>9 DEF TalkAt, Phase
  <2>6. HostAt(h)' /\ cc'.pc \in Talks
    BY <2>3, <1>2, <1>3, HostFrame DEF Talks
  <2>7. \A g \in Hosts \ {h} : host'[g] = host[g] /\ stdin'[g] = stdin[g] /\ stdout'[g] = stdout[g]
    BY <1>3
  <2> QED
    BY <2>3, <2>5, <2>6, <2>7, <1>1, <1>3, <1>9, FrameStep
<1> QED
  BY <1>1, <1>7, <1>8, <1>9 DEF CheckPanicked

\* The compiler reads a token of the answer, or its end, which is the last thing
\* in the pipe: the answer was read whole and the host waits for the next request.
LEMMA GetTokenStep ==
  ASSUME BridgeInv, Types', GetToken
  PROVE  BridgeInv'
<1>0. Types /\ HostInv /\ TalkInv /\ QuietInv /\ SpawnInv /\ ReasonInv
  BY DEF BridgeInv
<1>1. PICK h \in Hosts : h = cc.host /\ Talking(h)
  BY <1>0 DEF QuietInv, GetToken, Talking, Talks
<1>2. TalkAt(h) /\ HostAt(h) /\ Phase(h) /\ cc.pc = "tokens"
  BY <1>0, <1>1 DEF TalkInv, TalkAt, HostInv, GetToken
<1>3. host' = host /\ stdin' = stdin /\ spawns' = spawns /\ causes' = causes
  BY DEF GetToken
<1>4. /\ stdout[h] \in Seq(Frames) /\ Len(stdout[h]) \in Nat
      /\ cc \in CompilerState /\ stdout \in [Hosts -> Seq(Frames)]
      /\ cc.got \in Nat /\ host[h].made \in Nat /\ host[h].left \in Nat
  BY <1>0, Fields DEF Types, Pipe
<1>5. Sends(h) \/ Sent(h) \/ Died(h)
  BY <1>2 DEF Phase, Asked, Answers, Missed, Ready, Receives, Runs, Lost, Panics
<1>6. CASE ReadEof(h) /\ Abort("eof") /\ stdout' = stdout
  <2>1. Len(stdout[h]) = 0 /\ host[h].pc \in {"none", "exited"}
    BY <1>4, <1>6 DEF ReadEof, Running
  <2>2. "died" \in causes
    BY <2>1, <1>5 DEF Sends, Sent, Died, Lost, Gone
  <2>3. "eof" \in Reasons \ {"none", "class"}
    BY DEF Reasons
  <2>4. \A g \in Hosts : Len(stdout'[g]) <= Len(stdout[g])
    BY <1>0, <1>6, Fields
  <2> QED
    BY <2>2, <2>3, <2>4, <1>3, <1>6, AbortStep
<1>7. CASE stdout[h] # <<>> /\ stdout' = [stdout EXCEPT ![h] = Tail(@)]
  <2>1. Len(stdout[h]) # 0
    BY <1>4, <1>7
  <2>2. /\ stdout'[h] = Tail(stdout[h]) /\ \A g \in Hosts \ {h} : stdout'[g] = stdout[g]
    BY <1>4, <1>7
  <2>3. PICK n \in Nat : n + 1 = Len(stdout[h])
    <3>1. Len(stdout[h]) - 1 \in Nat /\ (Len(stdout[h]) - 1) + 1 = Len(stdout[h])
      BY <2>1, <1>4
    <3> QED
      BY <3>1
  <2>4. /\ Len(stdout'[h]) = n /\ Head(stdout[h]) = stdout[h][1]
        /\ \A i \in 1..n : stdout'[h][i] = stdout[h][i + 1]
    <3>1. /\ Len(Tail(stdout[h])) = Len(stdout[h]) - 1 /\ Head(stdout[h]) = stdout[h][1]
          /\ \A i \in 1..(Len(stdout[h]) - 1) : Tail(stdout[h])[i] = stdout[h][i + 1]
      BY <2>1, <1>4, TailIs
    <3>2. Len(stdout[h]) - 1 = n
      BY <2>3
    <3> QED
      BY <3>1, <3>2, <2>2
  <2> DEFINE f == stdout[h][1]
  <2>5. \/ f.t = "token" /\ cc' = [cc EXCEPT !.got = @ + 1] /\ open' = open
        \/ f.t = "empty" /\ EndStream(h)
        \/ f.t \notin {"token", "empty"}
    BY <2>1, <2>4, <1>1, <1>7 DEF GetToken, ReadEof
  <2>6. /\ Sends(h) => \A i \in 1..(n + 1) : stdout[h][i].t = "token"
        /\ Died(h) => \A i \in 1..(n + 1) : stdout[h][i].t = "token"
        /\ Sent(h) => stdout[h][n + 1].t = "empty" /\ \A i \in 1..n : stdout[h][i].t = "token"
    <3>1. Len(stdout[h]) - 1 = n
      BY <2>3
    <3> QED
      BY <2>3, <3>1 DEF Sends, Sent, Died, Lost, Gone, Tokens
  <2>7. f.t = "token" \/ (f.t = "empty" /\ n = 0 /\ Sent(h))
    <3>1. 1 \in 1..(n + 1) /\ (n # 0 => 1 \in 1..n)
      OBVIOUS
    <3> QED
      BY <3>1, <2>6, <1>5
  <2>8. CASE f.t = "token"
    <3>1. /\ cc'.host = h /\ cc'.inv = cc.inv /\ cc'.streams = cc.streams /\ cc'.pc = "tokens"
          /\ cc'.todo = cc.todo /\ cc'.got = cc.got + 1 /\ cc'.why = cc.why /\ open' = open
      BY <2>5, <2>8, <1>1, <1>2, <1>4 DEF CompilerState
    <3>2. Sent(h) => n # 0
      BY <2>6, <2>8
    <3>3. ASSUME NEW m \in Nat, m <= n, \A i \in 1..(m + 1) : stdout[h][i].t = "token"
          PROVE  \A i \in 1..m : stdout'[h][i].t = "token"
      <4> SUFFICES ASSUME NEW i \in 1..m PROVE stdout'[h][i].t = "token"
        OBVIOUS
      <4>1. i \in 1..n /\ i + 1 \in 1..(m + 1)
        BY <3>3
      <4> QED
        BY <4>1, <3>3, <2>4
    <3>4. ASSUME Sends(h) PROVE Phase(h)'
      <4>1. Tokens(h, Len(stdout[h]))'
        BY <3>3, <3>4, <2>4, <2>6 DEF Tokens
      <4>2. cc'.got + Len(stdout'[h]) + host[h].left = host[h].made
        <5>1. cc.got + (n + 1) + host[h].left = host[h].made
          BY <3>4, <2>3 DEF Sends
        <5>2. PICK got \in Nat, left \in Nat : got = cc.got /\ left = host[h].left
          BY <1>4
        <5>3. got + (n + 1) + left = (got + 1) + n + left
          OBVIOUS
        <5> QED
          BY <5>1, <5>2, <5>3, <3>1, <2>4
      <4> QED
        BY <4>1, <4>2, <3>1, <3>4, <1>3 DEF Phase, Sends, Reads
    <3>5. ASSUME Died(h) PROVE Phase(h)'
      <4>1. Tokens(h, Len(stdout[h]))'
        BY <3>3, <3>5, <2>4, <2>6 DEF Tokens
      <4>2. cc'.got + Len(stdout'[h]) <= host[h].made
        BY <3>1, <3>5, <2>3, <2>4, <1>4 DEF Died, Lost, Gone
      <4> QED
        BY <4>1, <4>2, <3>1, <3>5, <1>3 DEF Phase, Died, Lost, Gone, Reads
    <3>6. ASSUME Sent(h) PROVE Phase(h)'
      <4>1. PICK m \in Nat : m + 1 = n
        <5>1. n - 1 \in Nat /\ (n - 1) + 1 = n
          BY <3>2, <3>6
        <5> QED
          BY <5>1
      <4>2. \A i \in 1..m : stdout'[h][i].t = "token"
        BY <4>1, <3>3, <3>6, <2>6
      <4>3. stdout'[h][n].t = "empty" /\ Len(stdout'[h]) > 0
        <5>1. n \in 1..n
          BY <4>1
        <5> QED
          BY <5>1, <3>6, <2>4, <2>6
      <4>4. Tokens(h, Len(stdout[h]) - 1)'
        <5>1. Len(stdout'[h]) - 1 = m
          BY <4>1, <2>4
        <5> QED
          BY <4>2, <5>1 DEF Tokens
      <4>5. cc'.got + Len(stdout'[h]) = host[h].made + 1
        BY <3>1, <3>6, <2>3, <2>4, <1>4 DEF Sent
      <4>6. Sent(h)'
        BY <4>3, <4>4, <4>5, <3>1, <3>6, <2>4, <1>3 DEF Sent, Gone, Reads
      <4> QED
        BY <4>6 DEF Phase
    <3>7. TalkAt(h)'
      BY <3>1, <3>4, <3>5, <3>6, <1>2, <1>5 DEF TalkAt
    <3>8. HostAt(h)'
      <4>1. Len(stdout'[h]) <= Capacity
        BY <2>3, <2>4, <1>2, BoundsAssumption DEF HostAt
      <4> QED
        BY <4>1, <1>2, <1>3 DEF HostAt
    <3>9. cc'.pc \in Talks
      BY <3>1 DEF Talks
    <3> QED
      BY <3>1, <3>7, <3>8, <3>9, <2>2, <1>1, <1>3, FrameStep
  <2>9. CASE f.t = "empty" /\ n = 0 /\ Sent(h)
    <3>1. /\ cc'.host = h /\ cc'.inv = cc.inv /\ cc'.pc = "idle" /\ cc'.got = cc.got
          /\ cc'.why = cc.why /\ open' = open
      BY <2>5, <2>9, <1>1, <1>4 DEF CompilerState, EndStream
    <3>2. Quiet(h)'
      BY <2>4, <2>9, <1>3 DEF Quiet, Gone, Sent
    <3>3. HostInv'
      <4>1. Len(stdout'[h]) <= Capacity
        BY <2>4, <2>9, BoundsAssumption
      <4>2. HostAt(h)'
        BY <4>1, <1>2, <1>3 DEF HostAt
      <4> QED
        BY <4>2, <2>2, <1>0, <1>3, HostFrame DEF HostInv
    <3>4. QuietInv'
      <4>1. ASSUME NEW g \in Hosts, open'[g], g # h PROVE Quiet(g)'
        <5>1. Quiet(g)
          BY <4>1, <3>1, <1>0, <1>1 DEF QuietInv, Talking
        <5> QED
          BY <5>1, <4>1, <2>2, <1>3 DEF Quiet, Gone
      <4>2. host'[h].inv = cc'.inv /\ cc'.got = host'[h].made
        <5>1. host[h].inv = cc.inv /\ cc.got + 1 = host[h].made + 1
          BY <2>3, <2>9 DEF Sent
        <5>2. PICK got \in Nat, made \in Nat : got = cc.got /\ made = host[h].made
          BY <1>4
        <5>3. got = made
          BY <5>1, <5>2
        <5> QED
          BY <5>1, <5>2, <5>3, <3>1, <1>3
      <4> QED
        BY <4>1, <4>2, <3>1, <3>2 DEF QuietInv, Talks
    <3>5. TalkInv'
      BY <3>1 DEF TalkInv, Talking, Talks
    <3>6. SpawnInv'
      BY <3>1, <1>0, <1>2, <1>3 DEF SpawnInv, Talks
    <3>7. ReasonInv'
      BY <3>1, <1>0, <1>2 DEF ReasonInv
    <3> QED
      BY <3>3, <3>4, <3>5, <3>6, <3>7 DEF BridgeInv
  <2> QED
    BY <2>7, <2>8, <2>9
<1> QED
  BY <1>1, <1>6, <1>7 DEF GetToken

\* A failed operation of the compiler's, or a parser that rejects the tokens.
LEMMA FaultStep ==
  ASSUME BridgeInv, Types', Fault \/ ParseError
  PROVE  BridgeInv'
<1>0. Types /\ QuietInv
  BY DEF BridgeInv
<1>1. /\ host' = host /\ stdin' = stdin /\ stdout' = stdout /\ spawns' = spawns
      /\ causes \subseteq causes'
  BY DEF Fault, ParseError
<1>2. \A g \in Hosts : Len(stdout'[g]) <= Len(stdout[g])
  BY <1>0, <1>1, Fields
<1>3. CASE Abort("fault") \/ Abort("parse")
  <2>1. "fault" \in Reasons \ {"none", "class"} /\ "parse" \in Reasons \ {"none", "class"}
    BY DEF Reasons
  <2> QED
    BY <2>1, <1>1, <1>2, <1>3, AbortStep
<1>4. CASE cc.pc = "check" /\ Destroy(cc.host) /\ causes' = causes \cup {"fault"}
  <2>1. PICK h \in Hosts : h = cc.host /\ Talking(h)
    BY <1>0, <1>4 DEF QuietInv, Talking, Talks
  <2>2. causes' \cap {"unknown", "fault", "died"} # {}
    BY <1>4
  <2>3. /\ \A g \in Hosts \ {h} : stdout'[g] = stdout[g]
        /\ Len(stdout'[h]) <= Len(stdout[h])
    BY <1>1, <1>2
  <2> QED
    BY <2>1, <2>2, <2>3, <1>1, <1>4, DestroyStep
<1> QED
  BY <1>3, <1>4 DEF Fault, ParseError

\* The end of the compilation: hosts that wait for a request are stopped.
LEMMA StopStep ==
  ASSUME BridgeInv, Types', (\E h \in Hosts : Stop(h)) \/ Waited \/ Exit
  PROVE  BridgeInv'
<1>0. Types /\ HostInv /\ TalkInv /\ QuietInv /\ SpawnInv /\ ReasonInv
  BY DEF BridgeInv
<1>1. host' = host /\ stdin' = stdin /\ stdout' = stdout /\ spawns' = spawns /\ causes' = causes
  BY DEF Stop, Waited, Exit
<1>2. cc \in CompilerState /\ open \in [Hosts -> BOOLEAN]
  BY <1>0 DEF Types
<1>3. HostInv'
  BY <1>0, <1>1, HostFrame DEF HostInv
<1>4. ASSUME NEW h \in Hosts, Stop(h) PROVE BridgeInv'
  <2>1. /\ cc'.pc = "wait" /\ cc'.host = h /\ cc'.why = "none" /\ ~open'[h]
        /\ \A g \in Hosts : open'[g] => open[g]
    <3>1. cc.why = "none"
      BY <1>0, <1>4 DEF ReasonInv, Stop
    <3> QED
      BY <3>1, <1>2, <1>4 DEF Stop, CompilerState
  <2>2. QuietInv'
    <3>1. ASSUME NEW g \in Hosts, open'[g] PROVE Quiet(g)'
      <4>1. Quiet(g)
        BY <3>1, <2>1, <1>0, <1>4 DEF QuietInv, Talking, Stop, Talks
      <4> QED
        BY <4>1, <1>1 DEF Quiet, Gone
    <3> QED
      BY <3>1, <2>1 DEF QuietInv, Talks
  <2>3. TalkInv' /\ SpawnInv' /\ ReasonInv'
    BY <2>1, <1>0, <1>1 DEF TalkInv, Talking, Talks, SpawnInv, ReasonInv
  <2> QED
    BY <2>2, <2>3, <1>3 DEF BridgeInv
<1>5. ASSUME Waited PROVE BridgeInv'
  <2>1. CASE cc.why = "missing"
    <3>1. Abort("missing") /\ causes' \cap {"unknown", "fault", "died"} # {}
      BY <2>1, <1>0, <1>1, <1>5 DEF Waited, ReasonInv
    <3>2. \A g \in Hosts : Len(stdout'[g]) <= Len(stdout[g])
      BY <1>0, <1>1, Fields
    <3>3. "missing" \in Reasons \ {"none", "class"}
      BY DEF Reasons
    <3> QED
      BY <3>1, <3>2, <3>3, <1>1, AbortStep
  <2>2. CASE cc.why # "missing"
    <3>1. cc'.pc = "stop" /\ cc'.why = "none" /\ open' = open /\ cc.pc = "wait"
      BY <2>2, <1>0, <1>2, <1>5 DEF Waited, CompilerState, ReasonInv
    <3>2. QuietInv'
      <4>1. ASSUME NEW g \in Hosts, open'[g] PROVE Quiet(g)'
        <5>1. Quiet(g)
          BY <3>1, <4>1, <1>0 DEF QuietInv, Talking, Talks
        <5> QED
          BY <5>1, <1>1 DEF Quiet, Gone
      <4> QED
        BY <3>1, <4>1 DEF QuietInv, Talks
    <3>3. TalkInv' /\ SpawnInv' /\ ReasonInv'
      BY <3>1, <1>0, <1>1 DEF TalkInv, Talking, Talks, SpawnInv, ReasonInv
    <3> QED
      BY <3>2, <3>3, <1>3 DEF BridgeInv
  <2> QED
    BY <2>1, <2>2
<1>6. ASSUME Exit PROVE BridgeInv'
  <2>1. /\ cc'.pc = "done" /\ cc'.why = "none" /\ \A g \in Hosts : ~open'[g]
    <3>1. cc.why = "none"
      BY <1>0, <1>6 DEF ReasonInv, Exit
    <3> QED
      BY <3>1, <1>2, <1>6 DEF Exit, CompilerState
  <2>2. QuietInv' /\ TalkInv' /\ SpawnInv' /\ ReasonInv'
    BY <2>1, <1>0, <1>1 DEF QuietInv, TalkInv, Talking, Talks, SpawnInv,
       ReasonInv
  <2> QED
    BY <2>2, <1>3 DEF BridgeInv
<1> QED
  BY <1>4, <1>5, <1>6

\* An invocation begins: the host is new or has nothing left of the last one; if
\* it has died, the compiler is yet to find out.
LEMMA BeginStep ==
  ASSUME BridgeInv, Types', NEW h \in Hosts, NEW n \in 1..2, NEW known \in BOOLEAN,
         Begin(h, n, known)
  PROVE  BridgeInv'
<1>0. Types /\ HostInv /\ TalkInv /\ QuietInv /\ SpawnInv /\ ReasonInv
  BY DEF BridgeInv
<1>1. cc \in CompilerState /\ open \in [Hosts -> BOOLEAN] /\ cc.inv \in Nat /\ cc.pc = "idle"
  BY <1>0, Fields DEF Types, Begin
<1>2. /\ cc'.pc = "name" /\ cc'.host = h /\ cc'.inv = cc.inv + 1 /\ cc'.streams = n
      /\ cc'.todo = <<Name(n, known), Frame("def", cc.inv + 1)>>
      /\ cc'.sent = 0 /\ cc'.got = 0 /\ cc'.why = cc.why
      /\ causes' = causes
  BY <1>1 DEF Begin, CompilerState
<1>3. /\ Len(cc'.todo) = 2 /\ cc'.todo \in Seq(Frames)
      /\ cc'.todo[1].t = "name" /\ cc'.todo[1].inv = cc.inv + 1 /\ cc'.todo[1].streams = n
      /\ cc'.todo[2].t = "def"
  <2>1. cc'.todo \in Seq(Frames)
    BY DEF Types, CompilerState
  <2>2. cc'.todo[1] = Name(n, known) /\ cc'.todo[2] = Frame("def", cc.inv + 1) /\ Len(cc'.todo) = 2
    BY <1>2
  <2> QED
    BY <2>1, <2>2 DEF Name, Frame
<1>4. /\ stdin'[h] = <<>> /\ stdout'[h] = <<>> /\ open'[h]
      /\ host'[h].pc = "request" \/ Gone(h)'
      /\ \A g \in Hosts \ {h} : /\ host'[g] = host[g] /\ stdin'[g] = stdin[g]
                                /\ stdout'[g] = stdout[g] /\ open'[g] = open[g]
                                /\ spawns'[g] = spawns[g]
      /\ spawns'[h] <= 1 /\ HostAt(h)'
  <2>1. CASE open[h]
    <3>1. UNCHANGED <<host, stdin, stdout, open, spawns>>
      BY <2>1 DEF Begin
    <3>2. Quiet(h)
      BY <2>1, <1>0, <1>1 DEF QuietInv, Talking, Talks
    <3>3. stdin[h] = <<>> /\ stdout[h] = <<>>
      <4>1. stdin[h] \in Seq(Frames) /\ stdout[h] \in Seq(Frames)
        BY <1>0, Fields
      <4> QED
        BY <3>2, <4>1 DEF Quiet, Gone
    <3>4. HostAt(h)'
      BY <3>1, <1>0, HostFrame DEF HostInv
    <3> QED
      BY <2>1, <3>1, <3>2, <3>3, <3>4, <1>0, <1>2 DEF Quiet, Gone, SpawnInv
  <2>2. CASE ~open[h]
    <3>1. /\ host' = [host EXCEPT ![h] = [NoHost EXCEPT !.pc = "request", !.born = cc.inv + 1]]
          /\ stdin' = [stdin EXCEPT ![h] = <<>>] /\ stdout' = [stdout EXCEPT ![h] = <<>>]
          /\ open' = [open EXCEPT ![h] = TRUE] /\ spawns' = [spawns EXCEPT ![h] = @ + 1]
      BY <2>2 DEF Begin
    <3>2. /\ host \in [Hosts -> HostState] /\ stdin \in [Hosts -> Seq(Frames)]
          /\ stdout \in [Hosts -> Seq(Frames)] /\ spawns \in [Hosts -> Nat]
      BY <1>0 DEF Types, Pipe
    <3>3. spawns[h] = 0
      BY <2>2, <1>0, <1>1 DEF SpawnInv
    <3>4. host'[h].pc = "request" /\ stdin'[h] = <<>> /\ stdout'[h] = <<>> /\ spawns'[h] = 1 /\ open'[h]
      BY <3>1, <3>2, <3>3, <1>1 DEF NoHost
    <3>5. \A g \in Hosts \ {h} : /\ host'[g] = host[g] /\ stdin'[g] = stdin[g]
                                 /\ stdout'[g] = stdout[g] /\ open'[g] = open[g]
                                 /\ spawns'[g] = spawns[g]
      BY <3>1, <3>2, <1>1
    <3>6. Len(stdin'[h]) = 0 /\ Len(stdout'[h]) = 0
      BY <3>4
    <3>7. HostAt(h)'
      BY <3>4, <3>6, BoundsAssumption DEF HostAt
    <3> QED
      BY <3>4, <3>5, <3>7
  <2> QED
    BY <2>1, <2>2
<1>5. Len(stdin'[h]) = 0 /\ Len(stdout'[h]) = 0 /\ Rem(h)' = cc'.todo
  <2>1. Len(stdin'[h]) = 0 /\ Len(stdout'[h]) = 0
    BY <1>4
  <2>2. <<>> \o cc'.todo = cc'.todo
    BY <1>3
  <2> QED
    BY <2>1, <2>2, <1>4 DEF Rem
<1>6. TalkInv'
  <2>1. Asked(h)' \/ Lost(h)'
    BY <1>2, <1>3, <1>4, <1>5 DEF Asked, Lost
  <2>2. TalkAt(h)'
    BY <2>1, <1>1, <1>2, <1>3, <1>4 DEF TalkAt, Phase
  <2> QED
    BY <2>2, <1>2 DEF TalkInv, Talking
<1>7. HostInv'
  BY <1>0, <1>4, HostFrame DEF HostInv
<1>8. QuietInv'
  <2>1. ASSUME NEW g \in Hosts, open'[g], ~Talking(g)' PROVE Quiet(g)'
    <3>1. g # h
      BY <2>1, <1>2 DEF Talking, Talks
    <3>2. Quiet(g)
      BY <2>1, <3>1, <1>0, <1>1, <1>4 DEF QuietInv, Talking, Talks
    <3>3. causes' = causes
      BY DEF Begin
    <3> QED
      BY <3>1, <3>2, <3>3, <1>4 DEF Quiet, Gone
  <2> QED
    BY <2>1, <1>2 DEF QuietInv, Talks
<1>9. SpawnInv'
  BY <1>0, <1>1, <1>4 DEF SpawnInv
<1>10. ReasonInv'
  BY <1>0, <1>1, <1>2 DEF ReasonInv
<1> QED
  BY <1>6, <1>7, <1>8, <1>9, <1>10 DEF BridgeInv

-----------------------------------------------------------------------------
(* The host's steps.                                                       *)

\* A host that the compiler keeps and does not talk to has nothing to do.
LEMMA QuietWaits ==
  ASSUME BridgeInv, NEW h \in Hosts, HostStep(h), open[h]
  PROVE  Talking(h)
<1> SUFFICES ASSUME ~Talking(h) PROVE FALSE
  OBVIOUS
<1>1. Quiet(h) /\ stdin[h] \in Seq(Frames)
  BY Fields DEF BridgeInv, QuietInv
<1>2. stdin[h] = <<>> /\ host[h].pc \in {"request", "exited"}
  BY <1>1 DEF Quiet, Gone
<1> QED
  BY <1>2 DEF HostStep, ReadRequest, ReportFound, Recv, RunMacro, SendToken,
     SendPanic, AtEof

\* A host reads the request the compiler has written, and what it takes from it
\* is the macro's answer to come; after a refused input it may read anything.
LEMMA ReadRequestStep ==
  ASSUME BridgeInv, Types', NEW h \in Hosts, ReadRequest(h)
  PROVE  BridgeInv'
<1>0. Types /\ HostInv /\ TalkInv
  BY DEF BridgeInv
<1>1. /\ cc' = cc /\ stdout' = stdout /\ open' = open /\ spawns' = spawns
      /\ causes \subseteq causes' /\ host[h].pc = "request"
  BY DEF ReadRequest
<1>2. /\ host \in [Hosts -> HostState] /\ stdin \in [Hosts -> Seq(Frames)]
      /\ stdin[h] \in Seq(Frames) /\ Len(stdin[h]) \in Nat /\ host[h].inv \in Nat /\ host[h] \in HostState
      /\ cc.todo \in Seq(Frames)
  BY <1>0, Fields DEF Types, Pipe
<1>3. HostAt(h) /\ (Talking(h) => TalkAt(h) /\ Phase(h))
  BY <1>0 DEF HostInv, TalkInv, TalkAt
<1>4. \A g \in Hosts \ {h} : host'[g] = host[g] /\ stdin'[g] = stdin[g] /\ stdout'[g] = stdout[g]
  BY <1>1, <1>2 DEF ReadRequest, HostIs
<1>5. ~open[h] \/ Talking(h)
  BY QuietWaits DEF HostStep
<1>6. CASE AtEof(h) /\ HostIs(h, "exited") /\ UNCHANGED <<stdin, causes>>
  <2>1. ~open[h] /\ ~Talking(h)
    BY <1>3, <1>6 DEF AtEof, TalkAt
  <2>2. host'[h].pc = "exited" /\ host'[h].inv = host[h].inv
    BY <1>2, <1>6 DEF HostIs, HostState
  <2>3. HostAt(h)'
    BY <2>2, <1>1, <1>3, <1>6 DEF HostAt
  <2> QED
    BY <2>1, <2>3, <1>1, <1>4, FrameStep
<1>7. CASE stdin[h] # <<>> /\ stdin' = [stdin EXCEPT ![h] = Tail(@)]
  <2>1. PICK frame \in Frames : frame = stdin[h][1] /\ frame = Head(stdin[h])
    BY <1>2, <1>7, TailIs
  <2>2. Len(stdin[h]) # 0 /\ stdin'[h] = Tail(stdin[h])
    BY <1>2, <1>7
  <2>3. Taken(Frames, stdin[h], cc.todo, stdin'[h])
    BY <2>2, <1>2, ReadFrame
  <2>4. /\ Rem(h)' = Tail(Rem(h)) /\ Rem(h)[1] = frame /\ Rem(h) \in Seq(Frames)
        /\ Len(Rem(h)) = Len(stdin[h]) + Len(cc.todo)
        /\ Len(stdin'[h]) = Len(stdin[h]) - 1
    BY <2>1, <2>3, <1>1 DEF Rem, Taken
  <2>5. host[h].inv = 0 => frame.t = "name"
    BY <2>1, <2>2, <1>3 DEF HostAt
  <2>6. Len(stdin'[h]) <= Capacity /\ Len(stdout'[h]) <= Capacity
    BY <2>4, <1>1, <1>2, <1>3, BoundsAssumption DEF HostAt
  <2>7. ASSUME Talking(h), ~Asked(h), host'[h].inv # 0 PROVE TalkAt(h)'
    <3>1. Panics(h)
      BY <2>2, <2>7, <1>1, <1>3 DEF Phase, Answers, Missed, Ready, Receives,
         Runs, Sends, Sent, Died, Lost, Gone
    <3>2. Panics(h)'
      BY <3>1, <2>2, <2>7, <1>1 DEF Panics
    <3> QED
      BY <3>2, <2>7, <1>1, <1>3 DEF TalkAt, Phase
  <2>8. CASE /\ frame.t = "name"
             /\ host' = [host EXCEPT ![h].pc = IF frame.known THEN "found" ELSE "missing",
                                     ![h].inv = frame.inv, ![h].left = frame.streams, ![h].got = 1]
             /\ causes' = IF frame.known THEN causes ELSE causes \cup {"unknown"}
    <3>1. /\ host'[h].pc = IF frame.known THEN "found" ELSE "missing"
          /\ host'[h].inv = frame.inv /\ host'[h].left = frame.streams /\ host'[h].got = 1
      BY <2>8, <1>2 DEF HostState
    <3>2. frame.inv \in 1..MaxInv /\ frame.streams \in 1..2 /\ frame.inv # 0
      BY <2>8, BoundsAssumption DEF Frames
    <3>3. HostAt(h)'
      BY <3>1, <3>2, <2>6 DEF HostAt
    <3>4. ASSUME Talking(h), Asked(h) PROVE TalkAt(h)'
      <4>1. /\ cc.sent = Len(stdin[h]) /\ Len(Rem(h)) = 2 /\ Rem(h)[2].t = "def"
            /\ frame.inv = cc.inv /\ frame.streams = cc.streams
            /\ Len(stdout[h]) = 0 /\ cc.pc \in {"name", "check"}
        BY <3>4, <2>4 DEF Asked
      <4>2. Len(Rem(h)') = 1 /\ Rem(h)'[1].t = "def"
        <5>1. PICK q \in Seq(Frames) : q = Rem(h)
          BY <2>4
        <5>2. Len(q) = 2 /\ q[2].t = "def"
          BY <4>1, <5>1
        <5>3. Len(Tail(q)) = 1 /\ Tail(q)[1] = q[2]
          BY <5>2
        <5> QED
          BY <5>1, <5>2, <5>3, <2>4
      <4>3. Served(h)'
        BY <4>1, <3>1, <2>4, <1>1, <1>2 DEF Served
      <4>4. host'[h].pc = "missing" => "unknown" \in causes'
        BY <3>1, <2>8
      <4>5. Answers(h)'
        BY <4>1, <4>2, <4>3, <4>4, <3>1, <1>1 DEF Answers
      <4> QED
        BY <4>5, <3>4, <1>1, <1>3 DEF TalkAt, Phase
    <3>5. Talking(h) => TalkAt(h)'
      BY <3>1, <3>2, <3>4, <2>7
    <3> QED
      BY <3>3, <3>5, <1>1, <1>4, <1>5, FrameStep
  <2>9. CASE frame.t # "name"
    <3>1. \/ host'[h].pc = "exited" /\ host'[h].inv = host[h].inv
          \/ /\ host'[h].pc \in {"found", "missing"} /\ host'[h].inv = host[h].inv
             /\ host'[h].left \in 1..2
      <4>1. \/ HostIs(h, "exited")
            \/ \E pc \in {"found", "missing"}, n \in 1..2 :
                 host' = [host EXCEPT ![h].pc = pc, ![h].left = n, ![h].got = 0]
        BY <2>1, <2>9, <1>7 DEF ReadRequest, AtEof
      <4> QED
        BY <4>1, <1>2 DEF HostIs, HostState
    <3>2. host'[h].inv # 0
      BY <3>1, <2>5, <2>9
    <3>3. HostAt(h)'
      BY <3>1, <3>2, <2>6 DEF HostAt
    <3>4. ~Asked(h)
      BY <2>4, <2>9 DEF Asked
    <3>5. Talking(h) => TalkAt(h)'
      BY <3>2, <3>4, <2>7
    <3> QED
      BY <3>3, <3>5, <1>1, <1>4, <1>5, FrameStep
  <2> QED
    BY <2>1, <2>8, <2>9, <1>7 DEF ReadRequest, AtEof
<1> QED
  BY <1>6, <1>7 DEF ReadRequest

\* A write of host h: the frame is the last in the pipe, or the compiler is gone
\* and so is the host.
LEMMA WriteIs ==
  ASSUME Types, HostInv, NEW h \in Hosts, NEW frame \in Frames, NEW after \in HostState,
         Write(h, frame, after)
  PROVE  /\ \A g \in Hosts \ {h} : host'[g] = host[g] /\ stdout'[g] = stdout[g]
         /\ Len(stdout'[h]) <= Capacity
         /\ open[h] => /\ host'[h] = after /\ Len(stdout'[h]) = Len(stdout[h]) + 1
                       /\ stdout'[h][Len(stdout[h]) + 1] = frame
                       /\ \A i \in 1..Len(stdout[h]) : stdout'[h][i] = stdout[h][i]
         /\ ~open[h] => /\ host'[h].pc = "exited" /\ host'[h].inv = host[h].inv
                        /\ stdout'[h] = stdout[h]
<1>1. /\ host \in [Hosts -> HostState] /\ stdout \in [Hosts -> Seq(Frames)]
      /\ host[h] \in HostState /\ stdout[h] \in Seq(Frames) /\ Len(stdout[h]) \in Nat
  BY Fields DEF Types, Pipe
<1>2. Len(stdout[h]) <= Capacity /\ Capacity \in Nat
  BY BoundsAssumption DEF HostInv, HostAt
<1>3. CASE ~open[h]
  <2>1. host' = [host EXCEPT ![h].pc = "exited"] /\ stdout' = stdout
    BY <1>3 DEF Write, HostIs
  <2> QED
    BY <2>1, <1>1, <1>2, <1>3 DEF HostState
<1>4. CASE open[h]
  <2>1. /\ Len(stdout[h]) < Capacity /\ host' = [host EXCEPT ![h] = after]
        /\ stdout' = [stdout EXCEPT ![h] = Append(@, frame)]
    BY <1>4 DEF Write
  <2>2. /\ host'[h] = after /\ stdout'[h] = Append(stdout[h], frame)
        /\ \A g \in Hosts \ {h} : host'[g] = host[g] /\ stdout'[g] = stdout[g]
    BY <2>1, <1>1
  <2>3. /\ Len(stdout'[h]) = Len(stdout[h]) + 1
        /\ stdout'[h][Len(stdout[h]) + 1] = frame
        /\ \A i \in 1..Len(stdout[h]) : stdout'[h][i] = stdout[h][i]
    BY <2>2, <1>1
  <2>4. Len(stdout'[h]) <= Capacity
    BY <2>1, <2>3, <1>1, <1>2
  <2> QED
    BY <2>2, <2>3, <2>4, <1>4
<1> QED
  BY <1>3, <1>4

\* The frames a host writes are frames.
LEMMA HostFrames ==
  ASSUME Types, HostInv, NEW h \in Hosts,
         host[h].pc \in {"found", "missing", "recv", "run", "send", "panic"},
         NEW t \in {"found", "missing", "panic", "empty", "token"}
  PROVE  Frame(t, host[h].inv) \in Frames /\ Frame(t, host[h].inv).t = t /\ host[h].inv # 0
<1>1. host[h].inv # 0
  BY DEF HostInv, HostAt
<1>2. host[h].inv \in 1..MaxInv
  BY <1>1, Fields
<1> QED
  BY <1>1, <1>2 DEF Frame, Frames

\* A host that panicked on its input has said so first of all.
LEMMA PanicStays ==
  ASSUME NEW h \in Hosts, Panics(h), cc' = cc, causes \subseteq causes', "refused" \in causes,
         host[h].pc # "panic",
         host'[h].inv # 0, Len(stdout[h]) \in Nat, Len(stdout'[h]) \in Nat,
         Len(stdout'[h]) >= Len(stdout[h]), Len(stdout[h]) > 0 => stdout'[h][1] = stdout[h][1]
  PROVE  Phase(h)'
<1>1. Len(stdout[h]) > 0 /\ stdout[h][1].t = "panic"
  BY DEF Panics
<1>2. Len(stdout'[h]) > 0 /\ stdout'[h][1].t = "panic"
  BY <1>1
<1>3. Panics(h)'
  BY <1>2 DEF Panics
<1> QED
  BY <1>3 DEF Phase

\* A host says whether it knows the macro.
LEMMA ReportFoundStep ==
  ASSUME BridgeInv, Types', NEW h \in Hosts, ReportFound(h)
  PROVE  BridgeInv'
<1>0. Types /\ HostInv /\ TalkInv
  BY DEF BridgeInv
<1>1. /\ cc' = cc /\ stdin' = stdin /\ open' = open /\ spawns' = spawns
      /\ causes' = causes /\ host[h].pc \in {"found", "missing"}
  BY DEF ReportFound
<1>2. HostAt(h) /\ (Talking(h) => TalkAt(h) /\ Phase(h) /\ open[h])
  BY <1>0 DEF HostInv, TalkInv, TalkAt
<1>3. ~open[h] \/ Talking(h)
  BY QuietWaits DEF HostStep
<1> DEFINE f == Frame(host[h].pc, host[h].inv)
           a == [host[h] EXCEPT !.pc = IF @ = "found" THEN "recv" ELSE "exited"]
<1>4. f \in Frames /\ f.t = host[h].pc /\ host[h].inv # 0
  BY <1>0, <1>1, HostFrames
<1>5. /\ a \in HostState /\ a.inv = host[h].inv /\ a.left = host[h].left /\ a.got = host[h].got
      /\ a.pc = IF host[h].pc = "found" THEN "recv" ELSE "exited"
  <2>1. host[h] \in HostState
    BY <1>0, Fields
  <2> QED
    BY <2>1 DEF HostState
<1>6. Write(h, f, a)
  BY DEF ReportFound
<1> HIDE DEF f, a
<1>7. /\ \A g \in Hosts \ {h} : host'[g] = host[g] /\ stdout'[g] = stdout[g]
      /\ Len(stdout'[h]) <= Capacity
      /\ open[h] => /\ host'[h] = a /\ Len(stdout'[h]) = Len(stdout[h]) + 1
                    /\ stdout'[h][Len(stdout[h]) + 1] = f
                    /\ \A i \in 1..Len(stdout[h]) : stdout'[h][i] = stdout[h][i]
      /\ ~open[h] => host'[h].pc = "exited" /\ host'[h].inv = host[h].inv
  BY <1>0, <1>4, <1>5, <1>6, WriteIs
<1>8. HostAt(h)'
  BY <1>1, <1>2, <1>4, <1>5, <1>7 DEF HostAt
<1>9. ASSUME Talking(h) PROVE TalkAt(h)'
  <2>1. host'[h] = a /\ Rem(h)' = Rem(h)
    BY <1>1, <1>2, <1>7, <1>9 DEF Rem
  <2>2. CASE Answers(h) /\ host[h].pc = "found"
    <3>1. Len(stdout'[h]) = 1 /\ stdout'[h][1].t = "found"
      BY <2>2, <1>2, <1>4, <1>7, <1>9 DEF Answers
    <3>2. Served(h)' /\ host'[h].pc = "recv" /\ host'[h].left = cc.streams
      BY <2>1, <2>2, <1>1, <1>5 DEF Served, Answers
    <3>3. Ready(h)'
      BY <3>1, <3>2, <2>1, <2>2, <1>1 DEF Ready, Answers
    <3> QED
      BY <3>3, <1>1, <1>2, <1>9 DEF TalkAt, Phase
  <2>3. CASE Answers(h) /\ host[h].pc = "missing"
    <3>1. Len(stdout'[h]) = 1 /\ stdout'[h][1].t = "missing"
      BY <2>3, <1>2, <1>4, <1>7, <1>9 DEF Answers
    <3>2. Missed(h)'
      BY <3>1, <2>1, <2>3, <1>1, <1>5 DEF Missed, Answers
    <3> QED
      BY <3>2, <1>1, <1>2, <1>9 DEF TalkAt, Phase
  <2>4. CASE Panics(h)
    <3>1. Len(stdout[h]) \in Nat /\ Len(stdout'[h]) = Len(stdout[h]) + 1
      BY <1>0, <1>2, <1>7, <1>9, Fields
    <3>2. "refused" \in causes /\ host'[h].inv # 0
      BY <2>1, <2>4, <1>1, <1>4, <1>5 DEF Panics
    <3>3. Len(stdout[h]) > 0 => stdout'[h][1] = stdout[h][1]
      BY <3>1, <1>2, <1>7, <1>9
    <3>4. Phase(h)'
      BY <3>1, <3>2, <3>3, <2>4, <1>1, PanicStays
    <3> QED
      BY <3>4, <1>1, <1>2, <1>9 DEF TalkAt
  <2>5. Answers(h) \/ Panics(h)
    BY <1>1, <1>2, <1>9 DEF Phase, Asked, Missed, Ready, Receives, Runs, Sends,
       Sent, Died, Lost, Gone
  <2> QED
    BY <2>2, <2>3, <2>4, <2>5, <1>1
<1>10. \A g \in Hosts \ {h} : host'[g] = host[g] /\ stdin'[g] = stdin[g] /\ stdout'[g] = stdout[g]
  BY <1>1, <1>7
<1> QED
  BY <1>1, <1>3, <1>8, <1>9, <1>10, FrameStep

\* A host reads a frame of its input.  The frame that ends the last stream is
\* the last the compiler has written for this invocation.
LEMMA RecvStep ==
  ASSUME BridgeInv, Types', NEW h \in Hosts, Recv(h)
  PROVE  BridgeInv'
<1>0. Types /\ HostInv /\ TalkInv
  BY DEF BridgeInv
<1>1. /\ cc' = cc /\ stdout' = stdout /\ open' = open /\ spawns' = spawns
      /\ causes \subseteq causes' /\ host[h].pc = "recv"
  BY DEF Recv
<1>2. /\ host \in [Hosts -> HostState] /\ stdin \in [Hosts -> Seq(Frames)]
      /\ stdin[h] \in Seq(Frames) /\ Len(stdin[h]) \in Nat /\ host[h] \in HostState
      /\ cc.todo \in Seq(Frames) /\ Len(stdout[h]) \in Nat
      /\ host[h].got \in Nat /\ cc.sent \in Nat
  BY <1>0, Fields DEF Types, Pipe
<1>3. HostAt(h) /\ (Talking(h) => TalkAt(h) /\ Phase(h)) /\ host[h].left \in 1..2 /\ host[h].inv # 0
  BY <1>0, <1>1 DEF HostInv, HostAt, TalkInv, TalkAt
<1>4. \A g \in Hosts \ {h} : host'[g] = host[g] /\ stdin'[g] = stdin[g] /\ stdout'[g] = stdout[g]
  BY <1>1, <1>2 DEF Recv, HostIs
<1>5. ~open[h] \/ Talking(h)
  BY QuietWaits DEF HostStep
<1>6. CASE AtEof(h) /\ HostIs(h, "panic") /\ UNCHANGED <<stdin, causes>>
  <2>1. ~open[h] /\ ~Talking(h)
    BY <1>3, <1>6 DEF AtEof, TalkAt
  <2>2. host'[h].pc = "panic" /\ host'[h].inv = host[h].inv
    BY <1>2, <1>6 DEF HostIs, HostState
  <2>3. HostAt(h)'
    BY <2>2, <1>1, <1>3, <1>6 DEF HostAt
  <2> QED
    BY <2>1, <2>3, <1>1, <1>4, FrameStep
<1>7. CASE stdin[h] # <<>> /\ stdin' = [stdin EXCEPT ![h] = Tail(@)]
  <2>1. PICK frame \in Frames : frame = stdin[h][1] /\ frame = Head(stdin[h])
    BY <1>2, <1>7, TailIs
  <2>2. Len(stdin[h]) # 0 /\ stdin'[h] = Tail(stdin[h])
    BY <1>2, <1>7
  <2>3. Taken(Frames, stdin[h], cc.todo, stdin'[h])
    BY <2>2, <1>2, ReadFrame
  <2>4. /\ Rem(h)' = Tail(Rem(h)) /\ Rem(h)[1] = frame /\ Rem(h) \in Seq(Frames)
        /\ Len(Rem(h)) = Len(stdin[h]) + Len(cc.todo)
        /\ Len(stdin'[h]) = Len(stdin[h]) - 1
    BY <2>1, <2>3, <1>1 DEF Rem, Taken
  <2>5. Len(stdin'[h]) <= Capacity /\ Len(stdout'[h]) <= Capacity
    BY <2>4, <1>1, <1>2, <1>3, BoundsAssumption DEF HostAt
  <2>6. Talking(h) => Ready(h) \/ Receives(h) \/ Panics(h)
    BY <1>1, <1>3 DEF Phase, Asked, Answers, Missed, Runs, Sends, Sent, Died, Lost, Gone
  <2>7. ASSUME Talking(h), Panics(h), host'[h].inv # 0 PROVE TalkAt(h)'
    <3>1. "refused" \in causes
      BY <2>7, <1>1 DEF Panics
    <3>2. Phase(h)'
      BY <3>1, <2>7, <1>1, <1>2, PanicStays
    <3> QED
      BY <3>2, <2>7, <1>1, <1>3 DEF TalkAt
  <2>8. ASSUME Ready(h)
        PROVE  frame.t = "def" /\ Len(Tail(Rem(h))) = 0 /\ Len(Rem(h)) = 1
    <3>1. PICK q \in Seq(Frames) : q = Rem(h)
      BY <2>4
    <3>2. PICK n \in Nat, m \in Nat : n = Len(stdin[h]) /\ m = Len(cc.todo)
      BY <1>2, LenProperties
    <3>3. Len(q) = n + m /\ n # 0 /\ Len(q) <= 1
      BY <2>2, <2>4, <2>8, <3>1, <3>2 DEF Ready
    <3>4. Len(q) = 1
      BY <3>3
    <3>5. Len(Tail(q)) = 0
      BY <3>4
    <3>6. frame.t = "def"
      <4>1. (\A i \in 1..Len(q) : q[i].t = "def") /\ frame = q[1]
        BY <2>4, <2>8, <3>1 DEF Ready
      <4>2. 1 \in 1..Len(q)
        BY <3>4
      <4> QED
        BY <4>1, <4>2
    <3> QED
      BY <3>1, <3>4, <3>5, <3>6
  <2>9. CASE /\ frame.t = "token" /\ HostIs(h, "panic") /\ causes' = causes \cup {"refused"}
    <3>1. host'[h].pc = "panic" /\ host'[h].inv = host[h].inv
      BY <2>9, <1>2 DEF HostIs, HostState
    <3>2. HostAt(h)'
      BY <3>1, <2>5, <1>3 DEF HostAt
    <3>3. ~Ready(h)
      BY <2>8, <2>9
    <3>4. ASSUME Talking(h), Receives(h) PROVE TalkAt(h)'
      <4>1. Panics(h)'
        BY <3>1, <3>4, <2>9, <1>1, <1>3 DEF Panics, Receives
      <4> QED
        BY <4>1, <3>4, <1>1, <1>3 DEF TalkAt, Phase
    <3>5. Talking(h) => TalkAt(h)'
      BY <3>1, <3>3, <3>4, <2>6, <2>7, <1>3
    <3> QED
      BY <3>2, <3>5, <1>1, <1>4, <1>5, FrameStep
  <2>10. CASE LET left == host[h].left - (IF frame.t = "end" THEN 1 ELSE 0)
              IN  /\ host' = [host EXCEPT ![h].left = left, ![h].got = @ + 1,
                                          ![h].pc = IF left = 0 THEN "run" ELSE @]
                  /\ causes' = causes
    <3>1. PICK left \in 0..2 :
            /\ left = host[h].left - (IF frame.t = "end" THEN 1 ELSE 0)
            /\ host' = [host EXCEPT ![h].left = left, ![h].got = @ + 1,
                                    ![h].pc = IF left = 0 THEN "run" ELSE @]
      <4>1. host[h].left - (IF frame.t = "end" THEN 1 ELSE 0) \in 0..2
        BY <1>3
      <4> QED
        BY <4>1, <2>10
    <3>2. /\ host'[h].left = left /\ host'[h].got = host[h].got + 1 /\ host'[h].inv = host[h].inv
          /\ host'[h].pc = IF left = 0 THEN "run" ELSE "recv"
      BY <3>1, <1>1, <1>2 DEF HostState
    <3>3. HostAt(h)'
      BY <3>2, <2>5, <1>3 DEF HostAt
    <3>4. ASSUME Served(h) PROVE Served(h)'
      <4>1. PICK n \in Nat, got \in Nat : n = Len(stdin[h]) /\ got = host[h].got /\ n # 0
        BY <2>2, <1>2
      <4>2. got + n = cc.sent /\ Len(stdin'[h]) = n - 1 /\ host'[h].got = got + 1
        BY <3>2, <3>4, <4>1, <2>4 DEF Served
      <4>3. (got + 1) + (n - 1) = got + n
        OBVIOUS
      <4> QED
        BY <4>2, <4>3, <3>2, <3>4, <1>1 DEF Served
    <3>5. ASSUME Talking(h), Ready(h) PROVE TalkAt(h)'
      <4>1. left = host[h].left /\ left # 0
        BY <3>1, <3>5, <2>8, <1>3
      <4>2. Served(h)'
        BY <3>4, <3>5 DEF Ready
      <4>3. Len(Rem(h)') = 0
        BY <3>5, <2>4, <2>8
      <4>4. Ready(h)'
        BY <4>1, <4>2, <4>3, <3>2, <3>5, <1>1 DEF Ready
      <4> QED
        BY <4>4, <3>5, <1>1, <1>3 DEF TalkAt, Phase
    <3>6. ASSUME Talking(h), Receives(h) PROVE TalkAt(h)'
      <4>1. Ends(Rem(h), host[h].left) /\ Served(h)' /\ host[h].left \in Nat
        BY <3>4, <3>6, <1>3 DEF Receives
      <4>2. /\ frame.t # "end" => Ends(Rem(h)', host[h].left)
            /\ frame.t = "end" /\ host[h].left = 2 => Ends(Rem(h)', 1)
            /\ frame.t = "end" /\ host[h].left = 1 => Len(Rem(h)) = 1
        BY <4>1, <2>4, EndsTail
      <4>3. ASSUME left # 0 PROVE Phase(h)'
        <5>1. Ends(Rem(h)', left)
          BY <4>2, <4>3, <3>1, <1>3
        <5>2. Receives(h)'
          BY <5>1, <4>1, <4>3, <3>2, <3>6, <1>1 DEF Receives
        <5> QED
          BY <5>2 DEF Phase
      <4>4. ASSUME left = 0 PROVE Phase(h)'
        <5>1. Len(Rem(h)) = 1
          BY <4>2, <4>4, <3>1, <1>3
        <5>2. Len(cc.todo) = 0 /\ Len(stdin'[h]) = 0
          <6>1. PICK n \in Nat, m \in Nat : n = Len(stdin[h]) /\ m = Len(cc.todo)
            BY <1>2, LenProperties
          <6>2. n + m = 1 /\ n # 0
            BY <5>1, <6>1, <2>2, <2>4
          <6>3. n = 1 /\ m = 0
            BY <6>2
          <6>4. Len(stdin'[h]) = n - 1
            BY <6>1, <2>4
          <6>5. n - 1 = 0
            BY <6>3
          <6> QED
            BY <6>1, <6>3, <6>4, <6>5
        <5>3. cc.pc = "header"
          BY <5>2, <3>6, <1>3 DEF TalkAt, Receives
        <5>4. Runs(h)'
          BY <5>2, <5>3, <4>1, <4>4, <3>2, <3>6, <1>1 DEF Runs, Receives
        <5> QED
          BY <5>4 DEF Phase
      <4> QED
        BY <4>3, <4>4, <3>6, <1>1, <1>3 DEF TalkAt
    <3>7. Talking(h) => TalkAt(h)'
      BY <3>2, <3>5, <3>6, <2>6, <2>7, <1>3
    <3> QED
      BY <3>3, <3>7, <1>1, <1>4, <1>5, FrameStep
  <2> QED
    BY <2>1, <2>9, <2>10, <1>7 DEF Recv, AtEof
<1> QED
  BY <1>6, <1>7 DEF Recv

\* The macro runs: it returns tokens, panics or ends the process.
LEMMA RunMacroStep ==
  ASSUME BridgeInv, Types', NEW h \in Hosts, RunMacro(h)
  PROVE  BridgeInv'
<1>0. Types /\ HostInv /\ TalkInv
  BY DEF BridgeInv
<1>1. /\ cc' = cc /\ stdin' = stdin /\ stdout' = stdout /\ open' = open /\ spawns' = spawns
      /\ causes \subseteq causes' /\ host[h].pc = "run"
  BY DEF RunMacro
<1>2. /\ host \in [Hosts -> HostState] /\ host[h] \in HostState /\ host[h].made \in Nat
      /\ Len(stdout[h]) \in Nat
  BY <1>0, Fields DEF Types
<1>3. HostAt(h) /\ (Talking(h) => TalkAt(h) /\ Phase(h)) /\ host[h].inv # 0
  BY <1>0, <1>1 DEF HostInv, HostAt, TalkInv, TalkAt
<1>4. \A g \in Hosts \ {h} : host'[g] = host[g] /\ stdin'[g] = stdin[g] /\ stdout'[g] = stdout[g]
  BY <1>1, <1>2 DEF RunMacro, HostIs
<1>5. ~open[h] \/ Talking(h)
  BY QuietWaits DEF HostStep
<1>6. /\ host'[h].inv = host[h].inv
      /\ \/ host'[h].pc = "send" /\ host'[h].left \in Nat /\ host'[h].made = host'[h].left
         \/ host'[h].pc = "panic" /\ "panic" \in causes'
         \/ host'[h].pc = "exited" /\ host'[h].made = host[h].made /\ "died" \in causes'
  <2>1. CASE \E n \in 0..MaxOut : host' = [host EXCEPT ![h].pc = "send", ![h].made = n, ![h].left = n]
    <3>1. PICK n \in 0..MaxOut : host' = [host EXCEPT ![h].pc = "send", ![h].made = n, ![h].left = n]
      BY <2>1
    <3>2. n \in Nat
      BY BoundsAssumption
    <3> QED
      BY <3>1, <3>2, <1>2 DEF HostState
  <2>2. CASE HostIs(h, "panic") /\ causes' = causes \cup {"panic"}
    BY <2>2, <1>2 DEF HostIs, HostState
  <2>3. CASE HostIs(h, "exited") /\ causes' = causes \cup {"died"}
    BY <2>3, <1>2 DEF HostIs, HostState
  <2> QED
    BY <2>1, <2>2, <2>3 DEF RunMacro
<1>7. HostAt(h)'
  BY <1>1, <1>3, <1>6 DEF HostAt
<1>8. ASSUME Talking(h), Runs(h) PROVE TalkAt(h)'
  <2>0. /\ cc.pc = "header" /\ cc.got = 0 /\ Len(stdout'[h]) = 0 /\ Len(stdin'[h]) = 0
        /\ host'[h].inv = cc'.inv /\ Reads(h)'
    BY <1>1, <1>3, <1>6, <1>8 DEF Runs, TalkAt, Served, Reads
  <2>1. Tokens(h, Len(stdout[h]))'
    BY <2>0 DEF Tokens
  <2>2. CASE host'[h].pc = "send" /\ host'[h].left \in Nat /\ host'[h].made = host'[h].left
    <3>1. Sends(h)'
      BY <2>0, <2>1, <2>2, <1>1 DEF Sends
    <3> QED
      BY <3>1, <1>1, <1>3, <1>8 DEF TalkAt, Phase
  <2>3. CASE host'[h].pc = "panic" /\ "panic" \in causes'
    <3>1. Panics(h)'
      BY <2>0, <2>3, <1>1, <1>3, <1>6 DEF Panics
    <3> QED
      BY <3>1, <1>1, <1>3, <1>8 DEF TalkAt, Phase
  <2>4. CASE host'[h].pc = "exited" /\ host'[h].made = host[h].made /\ "died" \in causes'
    <3>1. cc'.got + Len(stdout'[h]) <= host'[h].made
      BY <2>0, <2>4, <1>1, <1>2
    <3>2. Died(h)'
      BY <3>1, <2>0, <2>1, <2>4 DEF Died, Lost, Gone
    <3> QED
      BY <3>2, <1>1, <1>3, <1>8 DEF TalkAt, Phase
  <2> QED
    BY <2>2, <2>3, <2>4, <1>6
<1>9. ASSUME Talking(h), Panics(h) PROVE TalkAt(h)'
  <2>1. "refused" \in causes
    BY <1>1, <1>9 DEF Panics
  <2>2. Phase(h)'
    BY <2>1, <1>1, <1>2, <1>3, <1>6, <1>9, PanicStays
  <2> QED
    BY <2>2, <1>1, <1>3, <1>9 DEF TalkAt
<1>10. Talking(h) => Runs(h) \/ Panics(h)
  BY <1>1, <1>3 DEF Phase, Asked, Answers, Missed, Ready, Receives, Sends,
     Sent, Died, Lost, Gone
<1> QED
  BY <1>1, <1>4, <1>5, <1>7, <1>8, <1>9, <1>10, FrameStep

\* The host writes a token of the answer or its end; it may die half way.
LEMMA SendTokenStep ==
  ASSUME BridgeInv, Types', NEW h \in Hosts, SendToken(h)
  PROVE  BridgeInv'
<1>0. Types /\ HostInv /\ TalkInv
  BY DEF BridgeInv
<1>1. /\ cc' = cc /\ stdin' = stdin /\ open' = open /\ spawns' = spawns
      /\ causes \subseteq causes' /\ host[h].pc = "send"
  BY DEF SendToken
<1>2. /\ host \in [Hosts -> HostState] /\ host[h] \in HostState
      /\ host[h].made \in Nat /\ host[h].left \in Nat /\ cc.got \in Nat
      /\ Len(stdout[h]) \in Nat
  BY <1>0, Fields DEF Types
<1>3. HostAt(h) /\ (Talking(h) => TalkAt(h) /\ Phase(h) /\ open[h]) /\ host[h].inv # 0
  BY <1>0, <1>1 DEF HostInv, HostAt, TalkInv, TalkAt
<1>4. ~open[h] \/ Talking(h)
  BY QuietWaits DEF HostStep
<1>5. Talking(h) => Sends(h) \/ Panics(h)
  BY <1>1, <1>3 DEF Phase, Asked, Answers, Missed, Ready, Receives, Runs, Sent,
     Died, Lost, Gone
<1>6. Talking(h) /\ Panics(h) => "refused" \in causes
  BY <1>1 DEF Panics
<1>7. CASE host[h].left > 0 /\ HostIs(h, "exited") /\ causes' = causes \cup {"died"} /\ stdout' = stdout
  <2>1. /\ host'[h].pc = "exited" /\ host'[h].inv = host[h].inv /\ host'[h].made = host[h].made
        /\ \A g \in Hosts \ {h} : host'[g] = host[g] /\ stdin'[g] = stdin[g] /\ stdout'[g] = stdout[g]
    BY <1>1, <1>2, <1>7 DEF HostIs, HostState
  <2>2. HostAt(h)'
    BY <2>1, <1>1, <1>3, <1>7 DEF HostAt
  <2>3. ASSUME Talking(h), Sends(h) PROVE Phase(h)'
    <3>1. cc.got + Len(stdout[h]) <= host[h].made
      BY <2>3, <1>2 DEF Sends
    <3>2. Died(h)'
      BY <3>1, <2>1, <2>3, <1>1, <1>7 DEF Sends, Died, Lost, Gone, Tokens, Reads
    <3> QED
      BY <3>2 DEF Phase
  <2>4. ASSUME Talking(h), Panics(h) PROVE Phase(h)'
    BY <2>1, <2>4, <1>1, <1>2, <1>3, <1>6, <1>7, PanicStays
  <2>5. Talking(h) => TalkAt(h)'
    BY <2>3, <2>4, <1>1, <1>3, <1>5 DEF TalkAt
  <2> QED
    BY <2>1, <2>2, <2>5, <1>1, <1>4, FrameStep
<1>8. ASSUME NEW t \in {"token", "empty"}, NEW a \in HostState, Write(h, Frame(t, host[h].inv), a),
             t = "token" => a.pc = "send" /\ host[h].left > 0 /\ a.left = host[h].left - 1,
             t = "empty" => a.pc = "request" /\ host[h].left = 0,
             a.inv = host[h].inv, a.made = host[h].made
      PROVE  BridgeInv'
  <2> DEFINE f == Frame(t, host[h].inv)
  <2>1. f \in Frames /\ f.t = t
    BY <1>0, <1>1, <1>8, HostFrames
  <2>2. Write(h, f, a)
    BY <1>8
  <2> HIDE DEF f
  <2>3. /\ \A g \in Hosts \ {h} : host'[g] = host[g] /\ stdout'[g] = stdout[g]
        /\ Len(stdout'[h]) <= Capacity
        /\ open[h] => /\ host'[h] = a /\ Len(stdout'[h]) = Len(stdout[h]) + 1
                      /\ stdout'[h][Len(stdout[h]) + 1] = f
                      /\ \A i \in 1..Len(stdout[h]) : stdout'[h][i] = stdout[h][i]
        /\ ~open[h] => host'[h].pc = "exited" /\ host'[h].inv = host[h].inv
    BY <2>1, <2>2, <1>0, WriteIs
  <2>4. HostAt(h)'
    BY <2>3, <1>1, <1>3, <1>8 DEF HostAt
  <2>5. PICK n \in Nat : n = Len(stdout[h])
    BY <1>2
  <2>6. ASSUME Talking(h)
        PROVE  /\ host'[h] = a /\ Len(stdout'[h]) = n + 1 /\ stdout'[h][n + 1].t = t
               /\ \A i \in 1..n : stdout'[h][i] = stdout[h][i]
    BY <2>1, <2>3, <2>5, <2>6, <1>3
  <2>7. ASSUME Talking(h), Sends(h) PROVE Phase(h)'
    <3>1. /\ \A i \in 1..n : stdout'[h][i].t = "token"
          /\ cc.got + n + host[h].left = host[h].made
      BY <2>5, <2>6, <2>7 DEF Sends, Tokens
    <3>2. PICK got \in Nat, left \in Nat : got = cc.got /\ left = host[h].left
      BY <1>2
    <3>3. CASE t = "token"
      <4>1. \A i \in 1..(n + 1) : stdout'[h][i].t = "token"
        <5> SUFFICES ASSUME NEW i \in 1..(n + 1) PROVE stdout'[h][i].t = "token"
          OBVIOUS
        <5>1. i \in 1..n \/ i = n + 1
          OBVIOUS
        <5> QED
          BY <5>1, <3>1, <3>3, <2>6, <2>7
      <4>2. got + (n + 1) + (left - 1) = got + n + left
        OBVIOUS
      <4>3. cc'.got + Len(stdout'[h]) + host'[h].left = host'[h].made
        BY <4>2, <3>1, <3>2, <3>3, <2>6, <2>7, <1>1, <1>8
      <4>4. Sends(h)'
        BY <4>1, <4>3, <3>3, <2>6, <2>7, <1>1, <1>8 DEF Sends, Tokens, Reads
      <4> QED
        BY <4>4 DEF Phase
    <3>4. CASE t = "empty"
      <4>1. got + (n + 1) = got + n + 0 + 1 /\ n + 1 > 0 /\ (n + 1) - 1 = n
        OBVIOUS
      <4>2. got + n + 0 = host[h].made
        BY <3>1, <3>2, <3>4, <1>8
      <4>3. cc'.got + Len(stdout'[h]) = host'[h].made + 1
        BY <4>1, <4>2, <3>2, <2>6, <2>7, <1>1, <1>8
      <4>4. Tokens(h, Len(stdout[h]) - 1)'
        BY <4>1, <3>1, <2>6, <2>7 DEF Tokens
      <4>5. Sent(h)'
        BY <4>1, <4>3, <4>4, <3>4, <2>6, <2>7, <1>1, <1>8 DEF Sends, Sent, Reads
      <4> QED
        BY <4>5 DEF Phase
    <3> QED
      BY <3>3, <3>4
  <2>8. ASSUME Talking(h), Panics(h) PROVE Phase(h)'
    <3>1. Len(stdout'[h]) \in Nat /\ Len(stdout'[h]) >= Len(stdout[h])
      BY <2>5, <2>6, <2>8
    <3>2. Len(stdout[h]) > 0 => stdout'[h][1] = stdout[h][1]
      BY <2>5, <2>6, <2>8
    <3>3. host'[h].inv # 0
      BY <2>6, <2>8, <1>3, <1>8
    <3> QED
      BY <3>1, <3>2, <3>3, <2>8, <1>1, <1>2, <1>6, PanicStays
  <2>9. Talking(h) => TalkAt(h)'
    BY <2>7, <2>8, <1>1, <1>3, <1>5 DEF TalkAt
  <2>10. \A g \in Hosts \ {h} : host'[g] = host[g] /\ stdin'[g] = stdin[g] /\ stdout'[g] = stdout[g]
    BY <2>3, <1>1
  <2> QED
    BY <2>4, <2>9, <2>10, <1>1, <1>4, FrameStep
<1>9. CASE host[h].left > 0 /\ Write(h, Frame("token", host[h].inv), [host[h] EXCEPT !.left = @ - 1])
  <2> DEFINE a == [host[h] EXCEPT !.left = @ - 1]
  <2>1. /\ a \in HostState /\ a.pc = "send" /\ a.left = host[h].left - 1
        /\ a.inv = host[h].inv /\ a.made = host[h].made
    <3>1. PICK n \in Nat : n + 1 = host[h].left /\ n = host[h].left - 1
      <4>1. host[h].left - 1 \in Nat /\ (host[h].left - 1) + 1 = host[h].left
        BY <1>2, <1>9
      <4> QED
        BY <4>1
    <3>2. a = [host[h] EXCEPT !.left = n]
      BY <3>1
    <3> HIDE DEF a
    <3>3. /\ a \in HostState /\ a.pc = host[h].pc /\ a.left = n
          /\ a.inv = host[h].inv /\ a.made = host[h].made
      BY <3>2, <1>2 DEF HostState
    <3> QED
      BY <3>1, <3>3, <1>1
  <2>2. Write(h, Frame("token", host[h].inv), a)
    BY <1>9
  <2> HIDE DEF a
  <2> QED
    BY <2>1, <2>2, <1>8, <1>9
<1>10. CASE host[h].left = 0 /\ Write(h, Frame("empty", host[h].inv), [host[h] EXCEPT !.pc = "request"])
  <2> DEFINE a == [host[h] EXCEPT !.pc = "request"]
  <2>1. /\ a \in HostState /\ a.pc = "request" /\ a.inv = host[h].inv /\ a.made = host[h].made
    BY <1>2 DEF HostState
  <2>2. Write(h, Frame("empty", host[h].inv), a)
    BY <1>10
  <2> HIDE DEF a
  <2> QED
    BY <2>1, <2>2, <1>8, <1>10
<1> QED
  BY <1>7, <1>9, <1>10 DEF SendToken

\* The host reports a panic, which is the answer's first frame.
LEMMA SendPanicStep ==
  ASSUME BridgeInv, Types', NEW h \in Hosts, SendPanic(h)
  PROVE  BridgeInv'
<1>0. Types /\ HostInv /\ TalkInv
  BY DEF BridgeInv
<1>1. /\ cc' = cc /\ stdin' = stdin /\ open' = open /\ spawns' = spawns
      /\ causes' = causes /\ host[h].pc = "panic"
  BY DEF SendPanic
<1>2. HostAt(h) /\ (Talking(h) => TalkAt(h) /\ Phase(h) /\ open[h]) /\ Len(stdout[h]) \in Nat
  BY <1>0, Fields DEF HostInv, TalkInv, TalkAt
<1>3. ~open[h] \/ Talking(h)
  BY QuietWaits DEF HostStep
<1> DEFINE f == Frame("panic", host[h].inv)
           a == [host[h] EXCEPT !.pc = "request"]
<1>4. f \in Frames /\ f.t = "panic" /\ host[h].inv # 0
  BY <1>0, <1>1, HostFrames
<1>5. a \in HostState /\ a.inv = host[h].inv /\ a.pc = "request"
  <2>1. host[h] \in HostState
    BY <1>0, Fields
  <2> QED
    BY <2>1 DEF HostState
<1>6. Write(h, f, a)
  BY DEF SendPanic
<1> HIDE DEF f, a
<1>7. /\ \A g \in Hosts \ {h} : host'[g] = host[g] /\ stdout'[g] = stdout[g]
      /\ Len(stdout'[h]) <= Capacity
      /\ open[h] => /\ host'[h] = a /\ Len(stdout'[h]) = Len(stdout[h]) + 1
                    /\ stdout'[h][Len(stdout[h]) + 1] = f
                    /\ \A i \in 1..Len(stdout[h]) : stdout'[h][i] = stdout[h][i]
      /\ ~open[h] => host'[h].pc = "exited" /\ host'[h].inv = host[h].inv
  BY <1>0, <1>4, <1>5, <1>6, WriteIs
<1>8. HostAt(h)'
  BY <1>1, <1>2, <1>4, <1>5, <1>7 DEF HostAt
<1>9. ASSUME Talking(h) PROVE TalkAt(h)'
  <2>1. Panics(h)
    BY <1>1, <1>2, <1>9 DEF Phase, Asked, Answers, Missed, Ready, Receives,
       Runs, Sends, Sent, Died, Lost, Gone
  <2>2. Len(stdout'[h]) > 0 /\ stdout'[h][1].t = "panic"
    <3>1. CASE Len(stdout[h]) = 0
      BY <3>1, <1>2, <1>4, <1>7, <1>9
    <3>2. CASE Len(stdout[h]) # 0
      <4>1. stdout[h][1].t = "panic"
        BY <3>2, <2>1 DEF Panics
      <4>2. 1 \in 1..Len(stdout[h])
        BY <3>2, <1>2
      <4> QED
        BY <4>1, <4>2, <1>2, <1>7, <1>9
    <3> QED
      BY <3>1, <3>2
  <2>3. Panics(h)'
    BY <2>1, <2>2, <1>1, <1>2, <1>4, <1>5, <1>7, <1>9 DEF Panics
  <2> QED
    BY <2>3, <1>1, <1>2, <1>9 DEF TalkAt, Phase
<1>10. \A g \in Hosts \ {h} : host'[g] = host[g] /\ stdin'[g] = stdin[g] /\ stdout'[g] = stdout[g]
  BY <1>1, <1>7
<1> QED
  BY <1>1, <1>3, <1>8, <1>9, <1>10, FrameStep

\* A host dies.  What it has written stays in the pipe: a part of the answer, all
\* of it, a panic, or nothing after the byte of report_found.
LEMMA DieStep ==
  ASSUME BridgeInv, Types', NEW h \in Hosts, Die(h)
  PROVE  BridgeInv'
<1>0. Types /\ HostInv /\ TalkInv /\ QuietInv
  BY DEF BridgeInv
<1>1. /\ cc' = cc /\ stdin' = stdin /\ stdout' = stdout /\ open' = open /\ spawns' = spawns
      /\ causes \subseteq causes' /\ "died" \in causes' /\ host[h].pc \notin {"none", "exited"}
  BY DEF Die, Running
<1>2. /\ host \in [Hosts -> HostState] /\ host[h] \in HostState
      /\ host[h].made \in Nat /\ host[h].left \in Nat /\ cc.got \in Nat
      /\ Len(stdout[h]) \in Nat
  BY <1>0, Fields DEF Types
<1>3. /\ host'[h].pc = "exited" /\ host'[h].inv = host[h].inv /\ host'[h].made = host[h].made
      /\ \A g \in Hosts \ {h} : host'[g] = host[g] /\ stdin'[g] = stdin[g] /\ stdout'[g] = stdout[g]
  BY <1>1, <1>2 DEF Die, HostIs, HostState
<1>4. Gone(h)'
  BY <1>1, <1>3 DEF Gone
<1>5. HostAt(h)'
  <2>1. HostAt(h)
    BY <1>0 DEF HostInv
  <2> QED
    BY <2>1, <1>1, <1>3 DEF HostAt
<1>6. ASSUME Talking(h) PROVE TalkAt(h)'
  <2>1. TalkAt(h) /\ Phase(h)
    BY <1>0, <1>6 DEF TalkInv, TalkAt
  <2>2. ASSUME Asked(h) \/ Answers(h) \/ Ready(h) \/ Receives(h) \/ Runs(h) PROVE Lost(h)'
    BY <2>2, <1>1, <1>4 DEF Lost, Asked, Answers, Ready, Receives, Runs
  <2>3. ASSUME Sends(h) PROVE Died(h)'
    <3>1. cc.got + Len(stdout[h]) <= host[h].made
      BY <2>3, <1>2 DEF Sends
    <3> QED
      BY <3>1, <2>3, <1>1, <1>3, <1>4 DEF Sends, Died, Tokens, Reads
  <2>4. ASSUME Sent(h) PROVE Sent(h)'
    BY <2>4, <1>1, <1>3, <1>4 DEF Sent, Tokens, Reads
  <2>5. ASSUME Panics(h) PROVE Panics(h)' \/ Lost(h)'
    <3>1. CASE Len(stdout[h]) = 0
      BY <3>1, <2>5, <1>1, <1>4 DEF Panics, Lost
    <3>2. CASE Len(stdout[h]) # 0
      <4>1. /\ Len(stdout[h]) > 0 /\ stdout[h][1].t = "panic"
            /\ cc.pc \in {"input", "header"} /\ host[h].inv # 0
            /\ \/ "refused" \in causes
               \/ "panic" \in causes /\ cc.pc = "header" /\ Len(stdin[h]) = 0
        BY <3>2, <2>5 DEF Panics
      <4> QED
        BY <4>1, <1>1, <1>3 DEF Panics
    <3> QED
      BY <3>1, <3>2
  <2>6. ~Missed(h) /\ ~Died(h) /\ ~Lost(h)
    BY <1>1 DEF Missed, Died, Lost, Gone
  <2>7. Phase(h)'
    BY <2>1, <2>2, <2>3, <2>4, <2>5, <2>6 DEF Phase
  <2> QED
    BY <2>1, <2>7, <1>1 DEF TalkAt
<1>7. ASSUME open[h], ~Talking(h) PROVE Quiet(h)'
  <2>1. Quiet(h)
    BY <1>0, <1>7 DEF QuietInv
  <2> QED
    BY <2>1, <1>1, <1>4 DEF Quiet
<1> QED
  BY <1>1, <1>3, <1>5, <1>6, <1>7, FrameStep

-----------------------------------------------------------------------------
(* Theorems.                                                               *)

\* BridgeInv holds at the start and every step keeps it.
THEOREM BridgeInvariant == Spec => []BridgeInv
<1>1. Init => BridgeInv
  <2> SUFFICES ASSUME Init PROVE BridgeInv
    OBVIOUS
  <2>0. /\ MaxInv \in Nat /\ MaxOut \in Nat /\ 0 \in 0..MaxInv /\ 0 \in 0..MaxOut
        /\ Capacity \in Nat
    BY BoundsAssumption
  <2>1. cc.pc = "idle" /\ cc.host = "none" /\ cc.why = "none" /\ cc \in CompilerState
    <3>1. <<>> \in Seq(Frames)
      OBVIOUS
    <3> QED
      BY <2>0, <3>1 DEF Init, CompilerState, Reasons
  <2>2. NoHost \in HostState /\ NoHost.pc = "none" /\ NoHost.inv = 0
    BY <2>0 DEF NoHost, HostState
  <2>3. Types
    <3>1. stdin \in Pipe /\ stdout \in Pipe
      BY DEF Init, Pipe
    <3>2. host \in [Hosts -> HostState] /\ open \in [Hosts -> BOOLEAN] /\ spawns \in [Hosts -> Nat]
      BY <2>2 DEF Init
    <3>3. causes \subseteq Causes
      BY DEF Init
    <3> QED
      BY <2>1, <3>1, <3>2, <3>3 DEF Types
  <2>4. \A h \in Hosts : Len(stdin[h]) = 0 /\ Len(stdout[h]) = 0 /\ host[h] = NoHost
    BY DEF Init
  <2>5. HostInv
    <3> SUFFICES ASSUME NEW h \in Hosts PROVE HostAt(h)
      BY DEF HostInv
    <3>1. /\ host[h].pc = "none" /\ Len(stdin[h]) = 0 /\ Len(stdin[h]) <= Capacity
          /\ Len(stdout[h]) <= Capacity
      BY <2>0, <2>2, <2>4
    <3> QED
      BY <3>1 DEF HostAt
  <2>6. TalkInv /\ ReasonInv
    BY <2>1 DEF TalkInv, Talking, Talks, ReasonInv
  <2>7. \A h \in Hosts : ~open[h] /\ spawns[h] = 0
    BY DEF Init
  <2>8. QuietInv
    BY <2>1, <2>7 DEF QuietInv, Talks
  <2>9. SpawnInv
    <3> SUFFICES ASSUME NEW h \in Hosts PROVE spawns[h] <= 1 /\ spawns[h] = 0
      BY DEF SpawnInv
    <3> QED
      BY <2>7
  <2> QED
    BY <2>3, <2>5, <2>6, <2>8, <2>9 DEF BridgeInv
<1>2. BridgeInv /\ [Next]_vars => BridgeInv'
  <2> SUFFICES ASSUME BridgeInv, [Next]_vars PROVE BridgeInv'
    OBVIOUS
  <2>1. Types'
    BY TypesStep DEF BridgeInv
  <2>2. CASE UNCHANGED vars
    <3>1. /\ cc' = cc /\ host' = host /\ stdin' = stdin /\ stdout' = stdout /\ open' = open
          /\ spawns' = spawns /\ causes' = causes
      BY <2>2 DEF vars
    <3>2. HostInv'
      BY <3>1, HostFrame DEF BridgeInv, HostInv
    <3>3. TalkInv'
      BY <3>1, PhaseFrame DEF BridgeInv, TalkInv, TalkAt, Talking
    <3>4. QuietInv' /\ SpawnInv'
      BY <3>1 DEF BridgeInv, QuietInv, Quiet, Gone, Talking, SpawnInv
    <3>5. ReasonInv'
      BY <3>1, ReasonFrame DEF BridgeInv
    <3> QED
      BY <2>1, <3>2, <3>3, <3>4, <3>5 DEF BridgeInv
  <2>3. CASE Compile
    BY <2>1, <2>3, BeginStep, StopStep, CheckGoodStep, SendStep,
       CheckPanickedStep, GetTokenStep
       DEF Compile
  <2>4. CASE Fault \/ ParseError
    BY <2>1, <2>4, FaultStep
  <2>6. ASSUME NEW h \in Hosts, Die(h) PROVE BridgeInv'
    BY <2>1, <2>6, DieStep
  <2>5. ASSUME NEW h \in Hosts, HostStep(h) PROVE BridgeInv'
    BY <2>1, <2>5, ReadRequestStep, ReportFoundStep, RecvStep, RunMacroStep,
       SendTokenStep,
       SendPanicStep DEF HostStep
  <2> QED
    BY <2>2, <2>3, <2>4, <2>5, <2>6 DEF Next
<1> QED
  BY <1>1, <1>2, PTL DEF Spec

\* The variables have their types, and no pipe holds more than it can.
THEOREM BridgeTypeCorrect == Spec => []TypeOK
<1>1. BridgeInv => TypeOK
  <2> SUFFICES ASSUME BridgeInv PROVE TypeOK
    OBVIOUS
  <2>1. Types /\ HostInv
    BY DEF BridgeInv
  <2>2. /\ cc.pc \in {"idle", "name", "check", "input", "header", "tokens", "stop", "wait",
                      "done", "aborted"}
        /\ cc.host \in Hosts \cup {"none"}
    <3>1. cc \in CompilerState
      BY <2>1 DEF Types
    <3> QED
      BY <3>1 DEF CompilerState, Talks
  <2>3. ASSUME NEW h \in Hosts
        PROVE  host[h].pc \in {"none", "request", "found", "missing", "recv", "run", "send",
                               "panic", "exited"}
    <3>1. host[h] \in HostState
      BY <2>1 DEF Types
    <3> QED
      BY <3>1 DEF HostState
  <2>4. \A h \in Hosts : Len(stdin[h]) <= Capacity /\ Len(stdout[h]) <= Capacity
    BY <2>1 DEF HostInv, HostAt
  <2>5. /\ stdin \in Pipe /\ stdout \in Pipe /\ open \in [Hosts -> BOOLEAN]
        /\ spawns \in [Hosts -> Nat]
        /\ causes \subseteq {"fault", "parse", "unknown", "refused", "panic", "died"}
    BY <2>1 DEF Types, Causes
  <2> QED
    BY <2>1, <2>2, <2>3, <2>4, <2>5, Fields DEF TypeOK
<1> QED
  BY <1>1, BridgeInvariant, PTL

\* Between "recv_token_stream" and the macro nothing of the input is lost and
\* nothing of another invocation is taken for it, whatever the pipes hold.
THEOREM InputsAreWhole == Spec => []InputIsWhole
<1>1. BridgeInv => InputIsWhole
  <2> SUFFICES ASSUME BridgeInv, NEW h \in Hosts, host[h].pc = "run", open[h],
                      "refused" \notin causes
               PROVE  /\ cc.host = h /\ cc.inv = host[h].inv
                      /\ cc.pc \in {"header", "aborted"} /\ cc.sent = host[h].got
                      /\ stdin[h] = <<>>
    BY DEF InputIsWhole
  <2>1. /\ Types /\ TalkInv /\ QuietInv
    BY DEF BridgeInv
  <2>2. Talking(h)
    BY <2>1 DEF QuietInv, Quiet, Gone
  <2>3. Runs(h)
    BY <2>1, <2>2 DEF TalkInv, TalkAt, Phase, Asked, Answers, Missed, Ready,
       Receives, Sends, Sent,
       Died, Lost, Gone, Panics
  <2>4. stdin[h] = <<>>
    <3>1. stdin[h] \in Seq(Frames) /\ Len(stdin[h]) = 0
      BY <2>1, <2>3, Fields DEF Runs
    <3> QED
      BY <3>1
  <2>5. cc.sent = host[h].got
    <3>1. host[h].got + 0 = cc.sent /\ host[h].got \in Nat
      BY <2>1, <2>3, Fields DEF Runs, Served
    <3> QED
      BY <3>1
  <2> QED
    BY <2>2, <2>3, <2>4, <2>5 DEF Talking, Runs, Served
<1> QED
  BY <1>1, BridgeInvariant, PTL

\* An expansion the compiler goes on with is all the macro returned, and nothing
\* of it is left in a pipe for the next invocation.
THEOREM AnswersAreWhole == Spec => []AnswerIsWhole
<1>1. BridgeInv => AnswerIsWhole
  <2> SUFFICES ASSUME BridgeInv, cc.pc = "idle", NEW h \in Hosts, open[h]
               PROVE  /\ stdin[h] = <<>> /\ stdout[h] = <<>> /\ (host[h].pc = "request" \/ Gone(h))
                      /\ h = cc.host => host[h].inv = cc.inv /\ cc.got = host[h].made
    BY DEF AnswerIsWhole
  <2>1. Types /\ QuietInv
    BY DEF BridgeInv
  <2>2. Quiet(h)
    BY <2>1 DEF QuietInv, Talking, Talks
  <2>3. stdin[h] = <<>> /\ stdout[h] = <<>>
    <3>1. /\ stdin[h] \in Seq(Frames) /\ Len(stdin[h]) = 0
          /\ stdout[h] \in Seq(Frames) /\ Len(stdout[h]) = 0
      BY <2>1, <2>2, Fields DEF Quiet, Gone
    <3> QED
      BY <3>1
  <2> QED
    BY <2>1, <2>2, <2>3 DEF Quiet, Gone, QuietInv
<1> QED
  BY <1>1, BridgeInvariant, PTL

\* A crate's host is started once in a compilation.
THEOREM HostsStartOnce == Spec => []StartedOnce
<1>1. BridgeInv => StartedOnce
  BY DEF BridgeInv, SpawnInv, StartedOnce
<1> QED
  BY <1>1, BridgeInvariant, PTL

\* The compiler aborts for a reason that was there, never at a frame out of place.
THEOREM ReasonsAreCauses == Spec => []ReasonIsCause
<1>1. BridgeInv => ReasonIsCause
  <2> SUFFICES ASSUME BridgeInv PROVE ReasonIsCause
    OBVIOUS
  <2>1. CASE cc.pc = "aborted"
    BY <2>1 DEF BridgeInv, ReasonInv
  <2>2. CASE cc.pc # "aborted"
    BY <2>2 DEF ReasonIsCause
  <2> QED
    BY <2>1, <2>2
<1> QED
  BY <1>1, BridgeInvariant, PTL

=============================================================================
