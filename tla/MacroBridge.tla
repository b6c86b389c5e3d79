----------------------------- MODULE MacroBridge ----------------------------
(***************************************************************************)
(* Macro expansion by processes: the compiler (src/bin/rustc/              *)
(* expand_proc_macro.cpp) starts one host for each proc macro crate and    *)
(* keeps it for the whole compilation; the host (src/lib/proc_macro/src)   *)
(* serves one invocation after another.  They talk over two pipes.         *)
(*                                                                         *)
(* For an invocation the compiler writes the macro's name and a span, reads*)
(* the byte that says whether the host knows the macro, writes one input   *)
(* stream (two for an attribute), and then reads the answer: a panic, or   *)
(* tokens up to the empty symbol.  Every error on the compiler's side      *)
(* aborts it.  A pipe holds a few frames and blocks its writer when full.  *)
(*                                                                         *)
(* A frame is one item of the protocol; inv, the invocation it belongs to, *)
(* is not on the wire and no guard reads it.                               *)
(***************************************************************************)
EXTENDS Naturals, Sequences

CONSTANTS Hosts,      \* the proc macro crates
          MaxInv,     \* bound on the invocations of a compilation
          MaxIn,      \* bound on the tokens of an input stream
          MaxOut,     \* bound on the tokens a macro returns
          Capacity    \* frames a pipe holds

ASSUME BoundsAssumption == MaxInv \in Nat /\ MaxIn \in Nat /\ MaxOut \in Nat /\ Capacity \in Nat \ {0}

VARIABLES cc,         \* the compiler and the invocation in progress
          host,       \* host[h]: the process of crate h
          stdin,      \* stdin[h]: frames from the compiler to h
          stdout,     \* stdout[h]: frames from h to the compiler
          open,       \* open[h]: the compiler has its ends of h's pipes
          spawns,     \* spawns[h]: how often h was started
          causes      \* what has gone wrong that is not this protocol's doing

vars == <<cc, host, stdin, stdout, open, spawns, causes>>

NoHost == [pc |-> "none", inv |-> 0, left |-> 0, got |-> 0, made |-> 0, born |-> 0]
Running(h) == host[h].pc \notin {"none", "exited"}

Init == /\ cc = [pc |-> "idle", host |-> "none", inv |-> 0, streams |-> 0,
                 todo |-> <<>>, sent |-> 0, got |-> 0, why |-> "none"]
        /\ host = [h \in Hosts |-> NoHost]
        /\ stdin = [h \in Hosts |-> <<>>]
        /\ stdout = [h \in Hosts |-> <<>>]
        /\ open = [h \in Hosts |-> FALSE]
        /\ spawns = [h \in Hosts |-> 0]
        /\ causes = {}

(***************************************************************************)
(* The compiler.                                                           *)
(***************************************************************************)

\* BUG and ERROR: abort(), which closes every pipe
Abort(why) ==
    /\ cc' = [cc EXCEPT !.pc = "aborted", !.why = why]
    /\ open' = [h \in Hosts |-> FALSE]

\* Mutant of Inherits: the pipes are made without O_CLOEXEC.
Inherits_NoCloexec(g) == {h \in Hosts : host[h].born > 0 /\ host[h].born < host[g].born}

\* The other hosts whose stdin host g can write to: none, O_CLOEXEC closes
\* the compiler's ends in the child.
Inherits(g) == {}

\* read returns 0 on the stdin of h
AtEof(h) == /\ stdin[h] = <<>>
            /\ ~open[h]
            /\ \A g \in Hosts : Running(g) => h \notin Inherits(g)

Name(n, known) == [t |-> "name", inv |-> cc.inv + 1, streams |-> n, known |-> known]
Frame(t, inv) == [t |-> t, inv |-> inv]

\* ProcMacroInv: the host is started if it is not there; what is written is
\* the name and the span of the call.
Begin(h, n, known) ==
    /\ cc.pc = "idle"
    /\ cc.inv < MaxInv
    /\ cc' = [cc EXCEPT !.pc = "name", !.host = h, !.inv = @ + 1, !.streams = n,
                        !.todo = <<Name(n, known), Frame("def", cc.inv + 1)>>,
                        !.sent = 0, !.got = 0]
    /\ IF open[h]
       THEN UNCHANGED <<host, stdin, stdout, open, spawns>>
       ELSE /\ host' = [host EXCEPT ![h] = [NoHost EXCEPT !.pc = "request", !.born = cc.inv + 1]]
            /\ stdin' = [stdin EXCEPT ![h] = <<>>]
            /\ stdout' = [stdout EXCEPT ![h] = <<>>]
            /\ open' = [open EXCEPT ![h] = TRUE]
            /\ spawns' = [spawns EXCEPT ![h] = @ + 1]
    /\ UNCHANGED causes

\* The state that follows when everything in todo is written.
Afterwards(pc) == IF pc = "name" THEN "check" ELSE "header"

\* sendBytesRaw
Send ==
    /\ cc.pc \in {"name", "input"}
    /\ LET h == cc.host
       IN  \/ /\ Running(h)
              /\ Len(stdin[h]) < Capacity
              /\ stdin' = [stdin EXCEPT ![h] = Append(@, Head(cc.todo))]
              /\ cc' = [cc EXCEPT !.todo = Tail(@), !.sent = @ + 1,
                                  !.pc = IF Len(cc.todo) = 1 THEN Afterwards(@) ELSE @]
              /\ UNCHANGED open
           \/ /\ ~Running(h)
              /\ Abort("write")
              /\ UNCHANGED stdin
    /\ UNCHANGED <<host, stdout, spawns, causes>>

\* The frames of an input stream of n tokens and its sendDone; an attribute
\* macro has two streams.
Stream(n) == [j \in 1..(n + 1) |-> Frame(IF j > n THEN "end" ELSE "token", cc.inv)]
Input(lengths) ==
    IF Len(lengths) = 1 THEN Stream(lengths[1]) ELSE Stream(lengths[1]) \o Stream(lengths[2])

\* read returns 0 on the stdout of h
ReadEof(h) == ~Running(h) /\ stdout[h] = <<>>

\* ~ProcMacroInv when the stream was not read to its end: stopProcMacroServer,
\* up to its waitpid
Destroy(h) ==
    /\ cc' = [cc EXCEPT !.pc = "wait", !.why = "missing"]
    /\ open' = [open EXCEPT ![h] = FALSE]

\* checkGood: the byte says the macro is there, or the host is stopped
CheckGood(lengths) ==
    /\ cc.pc = "check"
    /\ Len(lengths) = cc.streams
    /\ LET h == cc.host
       IN  \/ /\ stdout[h] # <<>>
              /\ stdout' = [stdout EXCEPT ![h] = Tail(@)]
              /\ IF Head(stdout[h]).t = "found"
                 THEN cc' = [cc EXCEPT !.pc = "input", !.todo = Input(lengths)] /\ UNCHANGED open
                 ELSE Destroy(h)
           \/ /\ ReadEof(h)
              /\ Destroy(h)
              /\ UNCHANGED stdout
    /\ UNCHANGED <<host, stdin, spawns, causes>>

\* Mutant of CheckPanicked: every header is taken for that of a token.
CheckPanicked_NoTag ==
    /\ cc.pc = "header"
    /\ LET h == cc.host
       IN  \/ /\ stdout[h] # <<>>
              /\ cc' = [cc EXCEPT !.pc = "tokens"]
              /\ UNCHANGED open
           \/ /\ ReadEof(h)
              /\ Abort("eof")
    /\ UNCHANGED <<host, stdin, stdout, spawns, causes>>

\* checkPanicked: anything but a panic is kept as the header of the first
\* token, here by leaving it in the pipe.
CheckPanicked ==
    /\ cc.pc = "header"
    /\ LET h == cc.host
       IN  \/ /\ stdout[h] # <<>>
              /\ Head(stdout[h]).t = "panic"
              /\ Abort("panic")
           \/ /\ stdout[h] # <<>>
              /\ Head(stdout[h]).t # "panic"
              /\ cc' = [cc EXCEPT !.pc = "tokens"]
              /\ UNCHANGED open
           \/ /\ ReadEof(h)
              /\ Abort("eof")
    /\ UNCHANGED <<host, stdin, stdout, spawns, causes>>

\* Mutant of EndStream: the host is stopped after every invocation.
EndStream_Stops(h) == cc' = [cc EXCEPT !.pc = "idle"] /\ open' = [open EXCEPT ![h] = FALSE]

\* ~ProcMacroInv of a stream read to its end: the host stays
EndStream(h) == cc' = [cc EXCEPT !.pc = "idle"] /\ UNCHANGED open

\* Mutant of GetToken: the end of the pipe is the end of the stream.
GetToken_EofEnds ==
    /\ cc.pc = "tokens"
    /\ LET h == cc.host
       IN  \/ /\ stdout[h] # <<>>
              /\ stdout' = [stdout EXCEPT ![h] = Tail(@)]
              /\ IF Head(stdout[h]).t = "token"
                 THEN cc' = [cc EXCEPT !.got = @ + 1] /\ UNCHANGED open
                 ELSE EndStream(h)
           \/ /\ ReadEof(h)
              /\ EndStream(h)
              /\ UNCHANGED stdout
    /\ UNCHANGED <<host, stdin, spawns, causes>>

\* Mutant of GetToken: an empty symbol is a token like another.
GetToken_NoEnd ==
    /\ cc.pc = "tokens"
    /\ stdout[cc.host] # <<>>
    /\ stdout' = [stdout EXCEPT ![cc.host] = Tail(@)]
    /\ cc' = [cc EXCEPT !.got = @ + 1]
    /\ UNCHANGED <<host, stdin, open, spawns, causes>>

\* realGetToken_, and the destructor after the last token
GetToken ==
    /\ cc.pc = "tokens"
    /\ LET h == cc.host
           frame == Head(stdout[h])
       IN  \/ /\ stdout[h] # <<>>
              /\ stdout' = [stdout EXCEPT ![h] = Tail(@)]
              /\ \/ /\ frame.t = "token"
                    /\ cc' = [cc EXCEPT !.got = @ + 1]
                    /\ UNCHANGED open
                 \/ /\ frame.t = "empty"
                    /\ EndStream(h)
                 \/ /\ frame.t \notin {"token", "empty"}
                    /\ Abort("class")
           \/ /\ ReadEof(h)
              /\ Abort("eof")
              /\ UNCHANGED stdout
    /\ UNCHANGED <<host, stdin, spawns, causes>>

\* pipe2 or posix_spawn fails, a write or a read does; one in checkGood counts
\* as the end of the file
Fault ==
    /\ \/ /\ cc.pc \in {"name", "input", "header", "tokens"}
          /\ Abort("fault")
       \/ /\ cc.pc = "idle" /\ cc.inv < MaxInv /\ \E h \in Hosts : ~open[h]
          /\ Abort("fault")
       \/ /\ cc.pc = "check"
          /\ Destroy(cc.host)
    /\ causes' = causes \cup {"fault"}
    /\ UNCHANGED <<host, stdin, stdout, spawns>>

\* The parser that asks for the tokens rejects them.
ParseError ==
    /\ cc.pc = "tokens"
    /\ Abort("parse")
    /\ causes' = causes \cup {"parse"}
    /\ UNCHANGED <<host, stdin, stdout, spawns>>

\* stopProcMacroServer as ExpandStopProcMacroServers calls it, up to waitpid
Stop(h) ==
    /\ cc.pc \in {"idle", "stop"}
    /\ open[h]
    /\ cc' = [cc EXCEPT !.pc = "wait", !.host = h]
    /\ open' = [open EXCEPT ![h] = FALSE]
    /\ UNCHANGED <<host, stdin, stdout, spawns, causes>>

\* waitpid returns; the caller of a checkGood that failed aborts
Waited ==
    /\ cc.pc = "wait"
    /\ ~Running(cc.host)
    /\ IF cc.why = "missing"
       THEN Abort("missing")
       ELSE cc' = [cc EXCEPT !.pc = "stop"] /\ UNCHANGED open
    /\ UNCHANGED <<host, stdin, stdout, spawns, causes>>

Exit == /\ cc.pc \in {"idle", "stop"}
        /\ \A h \in Hosts : ~open[h]
        /\ cc' = [cc EXCEPT !.pc = "done"]
        /\ UNCHANGED <<host, stdin, stdout, open, spawns, causes>>

(***************************************************************************)
(* The host.                                                               *)
(***************************************************************************)

HostIs(h, pc) == host' = [host EXCEPT ![h].pc = pc]

\* A write to the compiler: it blocks when the pipe is full, and an error when
\* the compiler is gone ends the host.
Write(h, frame, after) ==
    \/ /\ open[h]
       /\ Len(stdout[h]) < Capacity
       /\ stdout' = [stdout EXCEPT ![h] = Append(@, frame)]
       /\ host' = [host EXCEPT ![h] = after]
    \/ /\ ~open[h]
       /\ HostIs(h, "exited")
       /\ UNCHANGED stdout

\* The request `main` waits for.  A token left over from an earlier
\* invocation may be an identifier, and that may be a macro's name.
ReadRequest(h) ==
    /\ host[h].pc = "request"
    /\ \/ /\ stdin[h] # <<>>
          /\ stdin' = [stdin EXCEPT ![h] = Tail(@)]
          /\ LET frame == Head(stdin[h])
             IN  \/ /\ frame.t = "name"
                    /\ host' = [host EXCEPT ![h].pc = IF frame.known THEN "found" ELSE "missing",
                                            ![h].inv = frame.inv,
                                            ![h].left = frame.streams,
                                            ![h].got = 1]
                    /\ causes' = IF frame.known THEN causes ELSE causes \cup {"unknown"}
                 \/ /\ frame.t = "token"
                    /\ \E pc \in {"found", "missing"}, n \in 1..2 :
                          host' = [host EXCEPT ![h].pc = pc, ![h].left = n, ![h].got = 0]
                    /\ UNCHANGED causes
                 \/ /\ frame.t # "name"
                    /\ HostIs(h, "exited")
                    /\ UNCHANGED causes
       \/ /\ AtEof(h)
          /\ HostIs(h, "exited")
          /\ UNCHANGED <<stdin, causes>>
    /\ UNCHANGED <<cc, stdout, open, spawns>>

\* report_found
ReportFound(h) ==
    /\ host[h].pc \in {"found", "missing"}
    /\ Write(h, Frame(host[h].pc, host[h].inv),
             [host[h] EXCEPT !.pc = IF @ = "found" THEN "recv" ELSE "exited"])
    /\ UNCHANGED <<cc, stdin, open, spawns, causes>>

\* Mutant of Recv: an attribute macro runs after its first stream.
Recv_OneStream(h) ==
    /\ host[h].pc = "recv"
    /\ \/ /\ stdin[h] # <<>>
          /\ stdin' = [stdin EXCEPT ![h] = Tail(@)]
          /\ host' = [host EXCEPT ![h].got = @ + 1,
                                  ![h].pc = IF Head(stdin[h]).t = "end" THEN "run" ELSE @]
       \/ /\ AtEof(h)
          /\ HostIs(h, "panic")
          /\ UNCHANGED stdin
    /\ UNCHANGED <<cc, stdout, open, spawns, causes>>

\* recv_token_stream, once or twice; a panic in it (the input ends, or a
\* literal is refused) is caught and answered like one of the macro.
Recv(h) ==
    /\ host[h].pc = "recv"
    /\ \/ /\ stdin[h] # <<>>
          /\ stdin' = [stdin EXCEPT ![h] = Tail(@)]
          /\ LET left == host[h].left - (IF Head(stdin[h]).t = "end" THEN 1 ELSE 0)
             IN  host' = [host EXCEPT ![h].left = left,
                                      ![h].got = @ + 1,
                                      ![h].pc = IF left = 0 THEN "run" ELSE @]
          /\ UNCHANGED causes
       \/ /\ stdin[h] # <<>>
          /\ Head(stdin[h]).t = "token"
          /\ stdin' = [stdin EXCEPT ![h] = Tail(@)]
          /\ HostIs(h, "panic")
          /\ causes' = causes \cup {"refused"}
       \/ /\ AtEof(h)
          /\ HostIs(h, "panic")
          /\ UNCHANGED <<stdin, causes>>
    /\ UNCHANGED <<cc, stdout, open, spawns>>

\* The macro returns a stream, panics, or ends the process.
RunMacro(h) ==
    /\ host[h].pc = "run"
    /\ \/ /\ \E n \in 0..MaxOut : host' = [host EXCEPT ![h].pc = "send", ![h].made = n, ![h].left = n]
          /\ UNCHANGED causes
       \/ HostIs(h, "panic") /\ causes' = causes \cup {"panic"}
       \/ HostIs(h, "exited") /\ causes' = causes \cup {"died"}
    /\ UNCHANGED <<cc, stdin, stdout, open, spawns>>

\* send_token_stream, which may panic at a lone quote; nothing catches that
SendToken(h) ==
    /\ host[h].pc = "send"
    /\ \/ /\ host[h].left > 0
          /\ Write(h, Frame("token", host[h].inv), [host[h] EXCEPT !.left = @ - 1])
          /\ UNCHANGED causes
       \/ /\ host[h].left = 0
          /\ Write(h, Frame("empty", host[h].inv), [host[h] EXCEPT !.pc = "request"])
          /\ UNCHANGED causes
       \/ /\ host[h].left > 0
          /\ HostIs(h, "exited")
          /\ causes' = causes \cup {"died"}
          /\ UNCHANGED stdout
    /\ UNCHANGED <<cc, stdin, open, spawns>>

\* send_panic
SendPanic(h) ==
    /\ host[h].pc = "panic"
    /\ Write(h, Frame("panic", host[h].inv), [host[h] EXCEPT !.pc = "request"])
    /\ UNCHANGED <<cc, stdin, open, spawns, causes>>

\* A host is killed, or a panic outside of the macro ends it, wherever it is;
\* a frame it has begun to write reads like none.
Die(h) ==
    /\ Running(h)
    /\ HostIs(h, "exited")
    /\ causes' = causes \cup {"died"}
    /\ UNCHANGED <<cc, stdin, stdout, open, spawns>>

HostStep(h) == \/ ReadRequest(h) \/ ReportFound(h) \/ Recv(h)
               \/ RunMacro(h) \/ SendToken(h) \/ SendPanic(h)

Lengths == UNION {[1..n -> 0..MaxIn] : n \in 1..2}

Compile == \/ \E h \in Hosts : \/ \E n \in 1..2, known \in BOOLEAN : Begin(h, n, known)
                               \/ Stop(h)
           \/ \E lengths \in Lengths : CheckGood(lengths)
           \/ Send \/ CheckPanicked \/ GetToken \/ Waited \/ Exit

Next == Compile \/ Fault \/ ParseError \/ \E h \in Hosts : HostStep(h) \/ Die(h)

\* The compiler and every host run on as long as they can; a macro returns.
\* Nothing makes an operation fail, a parser refuse or a host die.
Fairness == /\ WF_vars(Compile)
            /\ \A h \in Hosts : WF_vars(HostStep(h))

Spec == Init /\ [][Next]_vars /\ Fairness

(***************************************************************************)
(* Properties.                                                             *)
(***************************************************************************)

Frames == [t : {"name"}, inv : 1..MaxInv, streams : 1..2, known : BOOLEAN]
          \cup [t : {"def", "token", "end", "empty", "found", "missing", "panic"}, inv : 1..MaxInv]
Pipe == [Hosts -> Seq(Frames)]

\* The variables have their types, and no pipe holds more than it can.
TypeOK ==
    /\ cc.pc \in {"idle", "name", "check", "input", "header", "tokens", "stop", "wait", "done", "aborted"}
    /\ cc.host \in Hosts \cup {"none"} /\ cc.inv \in 0..MaxInv /\ cc.streams \in 0..2
    /\ cc.todo \in Seq(Frames) /\ cc.sent \in Nat /\ cc.got \in 0..MaxOut
    /\ \A h \in Hosts :
          /\ host[h].pc \in {"none", "request", "found", "missing", "recv", "run", "send", "panic", "exited"}
          /\ host[h].inv \in 0..MaxInv /\ host[h].left \in Nat /\ host[h].made \in 0..MaxOut
    /\ stdin \in Pipe /\ stdout \in Pipe
    /\ \A h \in Hosts : Len(stdin[h]) <= Capacity /\ Len(stdout[h]) <= Capacity
    /\ open \in [Hosts -> BOOLEAN]
    /\ spawns \in [Hosts -> Nat]
    /\ causes \subseteq {"fault", "parse", "unknown", "refused", "panic", "died"}

\* A macro runs on its own input and all of it: every frame the compiler wrote
\* for this invocation has been read and none of another.
InputIsWhole ==
    \A h \in Hosts : host[h].pc = "run" /\ open[h] /\ "refused" \notin causes =>
        /\ cc.host = h /\ cc.inv = host[h].inv
        /\ cc.pc \in {"header", "aborted"} /\ cc.sent = host[h].got
        /\ stdin[h] = <<>>

\* An expansion the compiler goes on with is what the macro of that invocation
\* returned, to the last token, and it leaves nothing behind for the next one:
\* both pipes are empty and the host waits for a name, or has died since.
Gone(h) == host[h].pc = "exited" /\ "died" \in causes
AnswerIsWhole ==
    cc.pc = "idle" =>
        \A h \in Hosts : open[h] =>
            /\ stdin[h] = <<>> /\ stdout[h] = <<>> /\ (host[h].pc = "request" \/ Gone(h))
            /\ h = cc.host => host[h].inv = cc.inv /\ cc.got = host[h].made

\* "The compiler starts the macro host once per compilation": a macro's statics
\* last from its first invocation to its last.
StartedOnce == \A h \in Hosts : spawns[h] <= 1

\* The compiler gives up for the reason there is: it reports a panic when a macro
\* panicked, a lost host when a host was lost, and never a frame out of place.
ReasonIsCause ==
    cc.pc = "aborted" =>
        CASE cc.why = "panic" -> causes \cap {"panic", "refused"} # {}
          [] cc.why = "missing" -> causes \cap {"unknown", "fault", "died"} # {}
          [] cc.why = "write" -> causes \cap {"unknown", "refused", "died"} # {}
          [] cc.why = "eof" -> "died" \in causes
          [] cc.why \in {"fault", "parse"} -> TRUE
          [] cc.why = "class" -> FALSE

\* A compilation ends, whatever its macros do short of not returning, and so do
\* the hosts it has started, also when it aborts.  The one way out is an input
\* the host refuses half way: it answers at once and takes what is left for
\* requests, so that both sides may come to wait for room in a pipe.
Ended == cc.pc \in {"done", "aborted"} /\ \A h \in Hosts : ~Running(h)
AllEnd == <>[](Ended \/ "refused" \in causes)
=============================================================================
