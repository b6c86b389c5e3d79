---------------------------- MODULE CargoInstall ----------------------------
(***************************************************************************)
(* How cargo puts outputs into the CAS and artifacts into their place      *)
(* (src/bin/cargo/tasks.go, storeFile and TaskExecutor.install), at the    *)
(* level of inodes: install hard-links a blob to its destination, so a     *)
(* write or a chmod through one name is seen through the other.            *)
(*                                                                         *)
(* The outputs of one cargo are stored in parallel by its tasks; its       *)
(* artifacts are installed one after the other when all tasks are done,    *)
(* and again by the next build, which finds its tasks in the cache.        *)
(* Nothing keeps a second cargo on the same target directory away.         *)
(***************************************************************************)
EXTENDS Naturals, Sequences

CONSTANTS
  Proc,     \* cargos on one target directory
  Output,   \* outputs of tasks, all of them artifacts
  Dest,     \* installed paths
  Blob,     \* contents, and the CAS names made of them
  Content,  \* Content[o]: what the task writes
  Exec,     \* Exec[o]: TaskOutput.executable, the mode in the manifest entry
  Place,    \* Place[p][o]: artifact.path of o in cargo p's layout
  Rounds,   \* bound: builds of each cargo
  Empty     \* the content of a truncated file

ASSUME InstallAssumption ==
  /\ Content \in [Output -> Blob]
  /\ Exec \in [Output -> BOOLEAN]
  /\ Place \in [Proc -> [Output -> Dest]]
  /\ Rounds \in Nat \ {0}
  /\ Empty \notin Blob

VARIABLES
  data,   \* data[i]: the content of inode i; inodes are numbered as created
  mode,   \* mode[i]: it is executable (0755 or 0644)
  cas,    \* cas[b]: the inode of blob b's path, 0 if there is none
  dest,   \* dest[d]: the inode of an installed path, 0 if there is none
  pc,     \* where each cargo stands with each output
  src,    \* src[p]: the inode install reads from
  dst,    \* dst[p]: the inode install writes to
  round   \* builds of each cargo so far

vars == <<data, mode, cas, dest, pc, src, dst, round>>
inodes == <<data, mode>>
fds == <<src, dst, round>>

Pcs == {"store", "rename", "mark", "stored", "stat", "link", "open", "copy",
        "chmod", "installed", "error"}

Goto(p, o, to) == pc' = [pc EXCEPT ![p][o] = to]
Blobs(o) == cas[Content[o]]
Target(p, o) == dest[Place[p][o]]

\* A new file with content c and mode x, and its inode.
Create(c, x) == data' = Append(data, c) /\ mode' = Append(mode, x)
NewIno == Len(data) + 1

Init ==
  /\ data = <<>>
  /\ mode = <<>>
  /\ cas = [b \in Blob |-> 0]
  /\ dest = [d \in Dest |-> 0]
  /\ pc = [p \in Proc |-> [o \in Output |-> "store"]]
  /\ src = [p \in Proc |-> 0]
  /\ dst = [p \in Proc |-> 0]
  /\ round = [p \in Proc |-> 1]

-----------------------------------------------------------------------------
(* storeFile.                                                              *)

\* os.Stat(destination): an existing blob is not written again.
StatBlob(p, o) ==
  /\ pc[p][o] = "store"
  /\ Goto(p, o, CASE Blobs(o) = 0 -> "rename"
                  [] Blobs(o) # 0 /\ Exec[o] -> "mark"
                  [] OTHER -> "stored")
  /\ UNCHANGED <<inodes, cas, dest, fds>>

\* The copy under a temporary name gets its mode and replaces whatever is at
\* the blob's path by now.
RenameBlob(p, o) ==
  /\ pc[p][o] = "rename"
  /\ Create(Content[o], Exec[o])
  /\ cas' = [cas EXCEPT ![Content[o]] = NewIno]
  /\ Goto(p, o, IF Exec[o] THEN "mark" ELSE "stored")
  /\ UNCHANGED <<dest, fds>>

\* os.Chmod(destination, 0755).
MarkBlob(p, o) ==
  /\ pc[p][o] = "mark"
  /\ mode' = [mode EXCEPT ![Blobs(o)] = TRUE]
  /\ Goto(p, o, "stored")
  /\ UNCHANGED <<data, cas, dest, fds>>

-----------------------------------------------------------------------------
(* install.                                                                *)

Stored(p) ==
  \A o \in Output : pc[p][o] \notin {"store", "rename", "mark"}

\* Mutant: the old artifact is not removed.
Begin_NoRemove(p, o) ==
  /\ pc[p][o] = "stored"
  /\ Stored(p)
  /\ \A other \in Output : pc[p][other] \in {"stored", "installed"}
  /\ Goto(p, o, "stat")
  /\ UNCHANGED <<inodes, cas, dest, fds>>

\* os.Remove(destination).  One artifact at a time, and none after an error.
Begin(p, o) ==
  /\ pc[p][o] = "stored"
  /\ Stored(p)
  /\ \A other \in Output : pc[p][other] \in {"stored", "installed"}
  /\ dest' = [dest EXCEPT ![Place[p][o]] = 0]
  /\ Goto(p, o, "stat")
  /\ UNCHANGED <<inodes, cas, fds>>

\* Mutant: the mode of the blob is not compared.
StatSource_AlwaysLinks(p, o) ==
  /\ pc[p][o] = "stat"
  /\ Goto(p, o, "link")
  /\ UNCHANGED <<inodes, cas, dest, fds>>

\* A blob with the wrong mode is copied.
StatSource(p, o) ==
  /\ pc[p][o] = "stat"
  /\ Goto(p, o, IF mode[Blobs(o)] = Exec[o] THEN "link" ELSE "open")
  /\ UNCHANGED <<inodes, cas, dest, fds>>

\* os.Link, or a copy if that fails because the destination is there again.
LinkBlob(p, o) ==
  /\ pc[p][o] = "link"
  /\ IF Target(p, o) = 0
     THEN /\ dest' = [dest EXCEPT ![Place[p][o]] = Blobs(o)]
          /\ Goto(p, o, "installed")
     ELSE /\ Goto(p, o, "open")
          /\ UNCHANGED dest
  /\ UNCHANGED <<inodes, cas, fds>>

\* os.Open(source), os.OpenFile(destination, O_CREATE|O_TRUNC|O_WRONLY).
OpenFiles(p, o) ==
  /\ pc[p][o] = "open"
  /\ src' = [src EXCEPT ![p] = Blobs(o)]
  /\ IF Target(p, o) = 0
     THEN /\ Create(Empty, Exec[o])
          /\ dest' = [dest EXCEPT ![Place[p][o]] = NewIno]
          /\ dst' = [dst EXCEPT ![p] = NewIno]
     ELSE /\ data' = [data EXCEPT ![Target(p, o)] = Empty]
          /\ dst' = [dst EXCEPT ![p] = Target(p, o)]
          /\ UNCHANGED <<mode, dest>>
  /\ Goto(p, o, "copy")
  /\ UNCHANGED <<cas, round>>

\* io.Copy: a file copied onto itself stays as the truncation left it.
CopyData(p, o) ==
  /\ pc[p][o] = "copy"
  /\ data' = [data EXCEPT ![dst[p]] = data[src[p]]]
  /\ Goto(p, o, "chmod")
  /\ UNCHANGED <<mode, cas, dest, fds>>

\* os.Chmod(destination, entry.Mode), by name ...
ChmodDest(p, o) ==
  /\ pc[p][o] = "chmod"
  /\ Target(p, o) # 0
  /\ mode' = [mode EXCEPT ![Target(p, o)] = Exec[o]]
  /\ src' = [src EXCEPT ![p] = 0]
  /\ dst' = [dst EXCEPT ![p] = 0]
  /\ Goto(p, o, "installed")
  /\ UNCHANGED <<data, cas, dest, round>>

\* ... which throws if somebody has removed it.
ChmodGone(p, o) ==
  /\ pc[p][o] = "chmod"
  /\ Target(p, o) = 0
  /\ Goto(p, o, "error")
  /\ UNCHANGED <<inodes, cas, dest, fds>>

\* The next build of a cargo: every task is fresh, the artifacts are installed
\* again.
Again(p) ==
  /\ \A o \in Output : pc[p][o] = "installed"
  /\ round[p] < Rounds
  /\ round' = [round EXCEPT ![p] = @ + 1]
  /\ pc' = [pc EXCEPT ![p] = [o \in Output |-> "stored"]]
  /\ UNCHANGED <<inodes, cas, dest, src, dst>>

StoreStep(p, o) == StatBlob(p, o) \/ RenameBlob(p, o) \/ MarkBlob(p, o)
InstallStep(p, o) ==
  \/ Begin(p, o) \/ StatSource(p, o) \/ LinkBlob(p, o) \/ OpenFiles(p, o)
  \/ CopyData(p, o) \/ ChmodDest(p, o) \/ ChmodGone(p, o)

Next ==
  \/ \E p \in Proc, o \in Output : StoreStep(p, o) \/ InstallStep(p, o)
  \/ \E p \in Proc : Again(p)

Spec == Init /\ [][Next]_vars

-----------------------------------------------------------------------------
(* Properties.                                                             *)

\* Inodes, paths and descriptors stay in their types (tasks.go, storeFile and
\* install).
TypeOK ==
  /\ data \in Seq(Blob \cup {Empty})
  /\ mode \in Seq(BOOLEAN)
  /\ Len(mode) = Len(data)
  /\ cas \in [Blob -> 0..Len(data)]
  /\ dest \in [Dest -> 0..Len(data)]
  /\ pc \in [Proc -> [Output -> Pcs]]
  /\ src \in [Proc -> 0..Len(data)]
  /\ dst \in [Proc -> 0..Len(data)]
  /\ round \in [Proc -> 1..Rounds]

\* What lies under a CAS name is the content that the name is the digest of:
\* install never writes through a destination that is a link to a blob ("Task
\* outputs are stored content-addressed").
CasIntact == \A b \in Blob : cas[b] # 0 => data[cas[b]] = b

\* No other cargo has stored or installed anything.
Alone(p) == \A q \in Proc \ {p}, o \in Output : pc[q][o] = "store"

\* That holds for a cargo that is alone, however often it builds.
LoneCasIntact == \A p \in Proc : Alone(p) => CasIntact

\* A cargo that is alone and has installed everything leaves each artifact with
\* the content and the mode of its manifest entry, although artifacts with
\* different modes may share a blob.
InstalledAsStored ==
  \A p \in Proc : Alone(p) /\ (\A o \in Output : pc[p][o] = "installed") =>
    \A o \in Output : /\ Target(p, o) # 0
                      /\ data[Target(p, o)] = Content[o]
                      /\ mode[Target(p, o)] = Exec[o]

=============================================================================
