------------------------ MODULE CargoInstallProofs --------------------------
(***************************************************************************)
(* Proofs about CargoInstall, for any number of cargos, outputs and builds *)
(* and every layout: a cargo that is alone never writes through a link to  *)
(* a blob, and leaves every artifact as its manifest entry says.           *)
(***************************************************************************)
EXTENDS CargoInstall, TLAPS

-----------------------------------------------------------------------------
(* The inductive invariant.                                                *)

\* Where storeFile and install stand.
Storing == {"store", "rename", "mark"}
Working == {"stat", "link", "open", "copy", "chmod", "error"}

\* Of one cargo: a blob is there once its output is stored; outputs are stored
\* before the first artifact is installed, and artifacts are installed one at a
\* time, so that the two descriptors belong to the one being copied.
StoreInv ==
  \A p \in Proc, o \in Output :
    pc[p][o] \notin {"store", "rename"} => Blobs(o) # 0
TurnInv ==
  \A p \in Proc, o \in Output, other \in Output :
    /\ pc[p][o] \in Storing => pc[p][other] \in Storing \cup {"stored"}
    /\ pc[p][o] \in Working /\ o # other =>
         pc[p][other] \in {"stored", "installed"}
FileInv ==
  \A p \in Proc, o \in Output : pc[p][o] = "copy" => src[p] # 0 /\ dst[p] # 0

\* Of a cargo that is alone: nothing is at the destination until it links or
\* creates it, and what it creates has no second name, so that neither the
\* truncation nor the copy nor the chmod reaches a blob.
FreshInv(p) ==
  \A o \in Output :
    /\ pc[p][o] \in {"stat", "link", "open"} => Target(p, o) = 0
    /\ pc[p][o] = "link" => mode[Blobs(o)] = Exec[o]
    /\ pc[p][o] \in {"copy", "chmod"} =>
         /\ dst[p] = Target(p, o) /\ dst[p] # 0
         /\ \A b \in Blob : cas[b] # dst[p]
         /\ \A d \in Dest \ {Place[p][o]} : dest[d] # dst[p]
    /\ pc[p][o] = "copy" => src[p] = Blobs(o)
    /\ pc[p][o] = "chmod" => data[dst[p]] = Content[o]

\* An installed artifact stays as its entry says, unless its path is being
\* installed again.
AsEntry(p, o) ==
  /\ Target(p, o) # 0
  /\ data[Target(p, o)] = Content[o]
  /\ mode[Target(p, o)] = Exec[o]
InstalledInv(p) ==
  \A o \in Output :
    /\ pc[p][o] = "installed"
    /\ \A other \in Output :
         Place[p][other] = Place[p][o] => pc[p][other] \notin Working
    => AsEntry(p, o)

InstallInv ==
  /\ TypeOK /\ StoreInv /\ TurnInv /\ FileInv
  /\ \A p \in Proc : Alone(p) => CasIntact /\ FreshInv(p)

\* No path is given to two outputs that differ.  Nothing in build.go enforces
\* it: artifactName tells apart the units of one build.
OnePerPlace ==
  \A p \in Proc, o \in Output, other \in Output :
    Place[p][o] = Place[p][other] =>
      Content[o] = Content[other] /\ Exec[o] = Exec[other]

-----------------------------------------------------------------------------
(* Sequences of inodes.                                                    *)

\* A new inode is the last one and leaves the others alone.
LEMMA Appended ==
  ASSUME NEW S, NEW s \in Seq(S), NEW c \in S
  PROVE  /\ Append(s, c) \in Seq(S)
         /\ Len(s) \in Nat
         /\ Len(Append(s, c)) = Len(s) + 1
         /\ Append(s, c)[Len(s) + 1] = c
         /\ \A i \in 1..Len(s) : Append(s, c)[i] = s[i]
  OBVIOUS

\* A write to an inode leaves the others alone.
LEMMA Written ==
  ASSUME NEW S, NEW s \in Seq(S), NEW c \in S, NEW i \in 1..Len(s)
  PROVE  /\ [s EXCEPT ![i] = c] \in Seq(S)
         /\ Len([s EXCEPT ![i] = c]) = Len(s)
         /\ [s EXCEPT ![i] = c][i] = c
         /\ \A j \in 1..Len(s) \ {i} : [s EXCEPT ![i] = c][j] = s[j]
  OBVIOUS

-----------------------------------------------------------------------------
(* The invariant is kept.                                                  *)

\* Each step of storeFile and install keeps every variable within its type.
LEMMA TypeStep == TypeOK /\ StoreInv /\ FileInv /\ [Next]_vars => TypeOK'
<1> SUFFICES ASSUME TypeOK, StoreInv, FileInv, [Next]_vars PROVE TypeOK'
  OBVIOUS
<1> USE InstallAssumption
<1> USE DEF TypeOK, Pcs, Goto, Blobs, Target, inodes, fds
<1>1. CASE UNCHANGED vars
  BY <1>1 DEF vars
<1>2. ASSUME NEW p \in Proc, NEW o \in Output, StatBlob(p, o) PROVE TypeOK'
  BY <1>2 DEF StatBlob
<1>3. ASSUME NEW p \in Proc, NEW o \in Output, RenameBlob(p, o) PROVE TypeOK'
  <2>1. /\ Content[o] \in Blob \cup {Empty} /\ Exec[o] \in BOOLEAN
        /\ data' = Append(data, Content[o]) /\ mode' = Append(mode, Exec[o])
        /\ cas' = [cas EXCEPT ![Content[o]] = Len(data) + 1]
        /\ UNCHANGED <<dest, src, dst, round>>
    BY <1>3 DEF RenameBlob, Create, NewIno
  <2>2. data' \in Seq(Blob \cup {Empty}) /\ Len(data') = Len(data) + 1 /\ Len(data) \in Nat
    BY <2>1, Appended
  <2>3. mode' \in Seq(BOOLEAN) /\ Len(mode') = Len(data')
    BY <2>1, <2>2, Appended
  <2>4. pc' \in [Proc -> [Output -> Pcs]]
    BY <1>3 DEF RenameBlob, Pcs
  <2> QED
    BY <2>1, <2>2, <2>3, <2>4
<1>4. ASSUME NEW p \in Proc, NEW o \in Output, MarkBlob(p, o) PROVE TypeOK'
  <2>0. pc[p][o] = "mark" /\ Blobs(o) \in 0..Len(data) /\ Len(mode) = Len(data)
    BY <1>4 DEF MarkBlob
  <2>a. cas[Content[o]] # 0
    BY ONLY <2>0, StoreInv DEF StoreInv, Blobs
  <2>b. Len(data) \in Nat
    BY DEF TypeOK
  <2>1. Blobs(o) \in 1..Len(mode)
    BY <2>0, <2>a, <2>b
  <2>2. mode' \in Seq(BOOLEAN) /\ Len(mode') = Len(mode)
    BY <2>1, Written, <1>4 DEF MarkBlob
  <2> QED
    BY <2>2, <1>4 DEF MarkBlob
<1>5. ASSUME NEW p \in Proc, NEW o \in Output, Begin(p, o) PROVE TypeOK'
  BY <1>5 DEF Begin
<1>6. ASSUME NEW p \in Proc, NEW o \in Output, StatSource(p, o) PROVE TypeOK'
  BY <1>6 DEF StatSource
<1>7. ASSUME NEW p \in Proc, NEW o \in Output, LinkBlob(p, o) PROVE TypeOK'
  <2>1. Blobs(o) \in 0..Len(data)
    OBVIOUS
  <2>a. PICK to \in {"installed", "open"} : pc' = [pc EXCEPT ![p][o] = to]
    BY <1>7 DEF LinkBlob
  <2>2. pc' \in [Proc -> [Output -> Pcs]]
    BY <2>a
  <2>3. dest' \in [Dest -> 0..Len(data)]
    BY <2>1, <1>7 DEF LinkBlob
  <2> QED
    BY <2>2, <2>3, <1>7 DEF LinkBlob
<1>8. ASSUME NEW p \in Proc, NEW o \in Output, OpenFiles(p, o) PROVE TypeOK'
  <2>1. pc' \in [Proc -> [Output -> Pcs]]
    BY <1>8 DEF OpenFiles
  <2>2. Target(p, o) \in 0..Len(data) /\ Blobs(o) \in 0..Len(data)
    BY DEF Target, Blobs
  <2>3. CASE Target(p, o) = 0
    <3>1. /\ data' = Append(data, Empty) /\ mode' = Append(mode, Exec[o])
          /\ dest' = [dest EXCEPT ![Place[p][o]] = Len(data) + 1]
          /\ dst' = [dst EXCEPT ![p] = Len(data) + 1]
          /\ src' = [src EXCEPT ![p] = Blobs(o)]
          /\ UNCHANGED <<cas, round>>
      BY <2>3, <1>8 DEF OpenFiles, Create, NewIno
    <3>2. data' \in Seq(Blob \cup {Empty}) /\ Len(data') = Len(data) + 1 /\ Len(data) \in Nat
      BY <3>1, Appended
    <3>3. mode' \in Seq(BOOLEAN) /\ Len(mode') = Len(data')
      BY <3>1, <3>2, Appended
    <3> QED
      BY <2>1, <2>2, <3>1, <3>2, <3>3
  <2>4. CASE Target(p, o) # 0
    <3>1. /\ data' = [data EXCEPT ![Target(p, o)] = Empty]
          /\ dst' = [dst EXCEPT ![p] = Target(p, o)]
          /\ src' = [src EXCEPT ![p] = Blobs(o)]
          /\ UNCHANGED <<mode, cas, dest, round>>
      BY <2>4, <1>8 DEF OpenFiles
    <3>2. Target(p, o) \in 1..Len(data)
      BY <2>2, <2>4
    <3>3. data' \in Seq(Blob \cup {Empty}) /\ Len(data') = Len(data)
      BY <3>1, <3>2, Written
    <3> QED
      BY <2>1, <2>2, <3>1, <3>3
  <2> QED
    BY <2>3, <2>4
<1>9. ASSUME NEW p \in Proc, NEW o \in Output, CopyData(p, o) PROVE TypeOK'
  <2>1. src[p] \in 1..Len(data) /\ dst[p] \in 1..Len(data)
    BY <1>9 DEF CopyData, FileInv
  <2>2. data[src[p]] \in Blob \cup {Empty}
    BY <2>1
  <2>3. data' \in Seq(Blob \cup {Empty}) /\ Len(data') = Len(data)
    BY <2>1, <2>2, Written, <1>9 DEF CopyData
  <2> QED
    BY <2>3, <1>9 DEF CopyData
<1>10. ASSUME NEW p \in Proc, NEW o \in Output, ChmodDest(p, o) PROVE TypeOK'
  <2>1. Target(p, o) \in 1..Len(mode)
    BY <1>10 DEF ChmodDest
  <2>2. mode' \in Seq(BOOLEAN) /\ Len(mode') = Len(mode)
    BY <2>1, Written, <1>10 DEF ChmodDest
  <2> QED
    BY <2>2, <1>10 DEF ChmodDest
<1>11. ASSUME NEW p \in Proc, NEW o \in Output, ChmodGone(p, o) PROVE TypeOK'
  BY <1>11 DEF ChmodGone
<1>12. ASSUME NEW p \in Proc, Again(p) PROVE TypeOK'
  BY <1>12 DEF Again
<1> HIDE DEF TypeOK
<1> QED
  BY <1>1, <1>2, <1>3, <1>4, <1>5, <1>6, <1>7, <1>8, <1>9, <1>10, <1>11, <1>12
     DEF Next, StoreStep, InstallStep

\* The order of stores, installs and descriptors is kept by every step.
LEMMA OrderStep ==
  TypeOK /\ StoreInv /\ TurnInv /\ FileInv /\ [Next]_vars
  => StoreInv' /\ TurnInv' /\ FileInv'
<1> DEFINE Rest == StoreInv /\ TurnInv /\ FileInv
<1> SUFFICES ASSUME TypeOK, Rest, [Next]_vars PROVE Rest'
  OBVIOUS
<1>0. Len(data) \in Nat
  BY DEF TypeOK
<1> USE <1>0, InstallAssumption
<1> USE DEF TypeOK, Pcs, Goto, Blobs, Target, inodes, fds, StoreInv, TurnInv,
      FileInv, Storing, Working
<1>1. CASE UNCHANGED vars
  BY <1>1 DEF vars
<1>2. ASSUME NEW p \in Proc, NEW o \in Output, StatBlob(p, o) PROVE Rest'
  <2>1. PICK to \in {"rename", "mark", "stored"} :
          pc' = [pc EXCEPT ![p][o] = to] /\ (to # "rename" => Blobs(o) # 0)
    BY <1>2 DEF StatBlob
  <2>2. pc[p][o] = "store" /\ UNCHANGED <<cas, src, dst>>
    BY <1>2 DEF StatBlob
  <2>3. StoreInv'
    BY <2>1, <2>2
  <2>4. TurnInv'
    BY <2>1, <2>2
  <2>5. FileInv'
    BY <2>1, <2>2
  <2> QED
    BY <2>3, <2>4, <2>5
<1>3. ASSUME NEW p \in Proc, NEW o \in Output, RenameBlob(p, o) PROVE Rest'
  <2>1. StoreInv'
    BY <1>3 DEF RenameBlob, NewIno
  <2>2. TurnInv'
    BY <1>3 DEF RenameBlob, NewIno
  <2>3. FileInv'
    BY <1>3 DEF RenameBlob, NewIno
  <2> QED
    BY <2>1, <2>2, <2>3
<1>4. ASSUME NEW p \in Proc, NEW o \in Output, MarkBlob(p, o) PROVE Rest'
  BY <1>4 DEF MarkBlob
<1>5. ASSUME NEW p \in Proc, NEW o \in Output, Begin(p, o) PROVE Rest'
  BY <1>5 DEF Begin, Stored
<1>6. ASSUME NEW p \in Proc, NEW o \in Output, StatSource(p, o) PROVE Rest'
  <2>1. PICK to \in {"link", "open"} : pc' = [pc EXCEPT ![p][o] = to]
    BY <1>6 DEF StatSource
  <2>2. pc[p][o] = "stat" /\ UNCHANGED <<cas, src, dst>>
    BY <1>6 DEF StatSource
  <2>3. StoreInv'
    BY <2>1, <2>2
  <2>4. TurnInv'
    BY <2>1, <2>2
  <2>5. FileInv'
    BY <2>1, <2>2
  <2> QED
    BY <2>3, <2>4, <2>5
<1>7. ASSUME NEW p \in Proc, NEW o \in Output, LinkBlob(p, o) PROVE Rest'
  <2>1. PICK to \in {"installed", "open"} : pc' = [pc EXCEPT ![p][o] = to]
    BY <1>7 DEF LinkBlob
  <2>2. pc[p][o] = "link" /\ UNCHANGED <<cas, src, dst>>
    BY <1>7 DEF LinkBlob
  <2>3. StoreInv'
    BY <2>1, <2>2
  <2>4. TurnInv'
    BY <2>1, <2>2
  <2>5. FileInv'
    BY <2>1, <2>2
  <2> QED
    BY <2>3, <2>4, <2>5
<1>8. ASSUME NEW p \in Proc, NEW o \in Output, OpenFiles(p, o) PROVE Rest'
  <2>1. pc[p][o] = "open" /\ pc' = [pc EXCEPT ![p][o] = "copy"] /\ cas' = cas
    BY <1>8 DEF OpenFiles, NewIno
  <2>2. Blobs(o) # 0 /\ src' = [src EXCEPT ![p] = Blobs(o)]
    BY <2>1, <1>8 DEF OpenFiles, NewIno
  <2>3. src'[p] # 0 /\ \A q \in Proc \ {p} : src'[q] = src[q]
    BY <2>2
  <2>4. PICK i \in Nat \ {0} : dst' = [dst EXCEPT ![p] = i]
    <3>1. Target(p, o) \in Nat
      OBVIOUS
    <3> QED
      BY <3>1, <1>8 DEF OpenFiles, NewIno, NewIno
  <2>5. dst'[p] # 0 /\ \A q \in Proc \ {p} : dst'[q] = dst[q]
    BY <2>4
  <2>6. StoreInv' /\ TurnInv'
    BY <2>1
  <2>7. FileInv'
    BY <2>1, <2>3, <2>5
  <2> QED
    BY <2>6, <2>7
<1>9. ASSUME NEW p \in Proc, NEW o \in Output, CopyData(p, o) PROVE Rest'
  BY <1>9 DEF CopyData
<1>10. ASSUME NEW p \in Proc, NEW o \in Output, ChmodDest(p, o) PROVE Rest'
  <2>1. StoreInv'
    BY <1>10 DEF ChmodDest
  <2>2. TurnInv'
    BY <1>10 DEF ChmodDest
  <2>3. FileInv'
    BY <1>10 DEF ChmodDest
  <2> QED
    BY <2>1, <2>2, <2>3
<1>11. ASSUME NEW p \in Proc, NEW o \in Output, ChmodGone(p, o) PROVE Rest'
  BY <1>11 DEF ChmodGone
<1>12. ASSUME NEW p \in Proc, Again(p) PROVE Rest'
  BY <1>12 DEF Again
<1> HIDE DEF Rest, TypeOK
<1> QED
  BY <1>1, <1>2, <1>3, <1>4, <1>5, <1>6, <1>7, <1>8, <1>9, <1>10, <1>11, <1>12
     DEF Next, StoreStep, InstallStep

\* A cargo that finds nothing at a destination writes into no blob.
LEMMA CasStep ==
  ASSUME TypeOK, NEW p \in Proc, CasIntact, FreshInv(p),
         \/ \E o \in Output : StoreStep(p, o) \/ InstallStep(p, o)
         \/ Again(p)
  PROVE  CasIntact'
<1> USE InstallAssumption
<1>0. Len(data) \in Nat
  BY DEF TypeOK
<1> USE <1>0 DEF TypeOK, CasIntact, Goto, Blobs, Target, inodes, fds
<1>1. ASSUME NEW o \in Output, StatBlob(p, o) PROVE CasIntact'
  BY <1>1 DEF StatBlob
<1>2. ASSUME NEW o \in Output, RenameBlob(p, o) PROVE CasIntact'
  <2>1. /\ Content[o] \in Blob \cup {Empty}
        /\ data' = Append(data, Content[o])
        /\ cas' = [cas EXCEPT ![Content[o]] = Len(data) + 1]
    BY <1>2 DEF RenameBlob, Create, NewIno
  <2>2. data'[Len(data) + 1] = Content[o]
    BY <2>1, Appended
  <2>3. \A i \in 1..Len(data) : data'[i] = data[i]
    BY <2>1, Appended
  <2>4. ASSUME NEW b \in Blob, cas'[b] # 0 PROVE data'[cas'[b]] = b
    <3>1. CASE b = Content[o]
      BY <2>1, <2>2, <3>1
    <3>2. CASE b # Content[o]
      <4>1. cas'[b] = cas[b] /\ cas[b] \in 1..Len(data)
        BY <2>1, <2>4, <3>2
      <4> QED
        BY <4>1, <2>3
    <3> QED
      BY <3>1, <3>2
  <2> QED
    BY <2>4
<1>3. ASSUME NEW o \in Output, MarkBlob(p, o) PROVE CasIntact'
  BY <1>3 DEF MarkBlob
<1>4. ASSUME NEW o \in Output, Begin(p, o) PROVE CasIntact'
  BY <1>4 DEF Begin
<1>5. ASSUME NEW o \in Output, StatSource(p, o) PROVE CasIntact'
  BY <1>5 DEF StatSource
<1>6. ASSUME NEW o \in Output, LinkBlob(p, o) PROVE CasIntact'
  BY <1>6 DEF LinkBlob
<1>7. ASSUME NEW o \in Output, OpenFiles(p, o) PROVE CasIntact'
  <2>1. data' = Append(data, Empty) /\ cas' = cas
    BY <1>7 DEF OpenFiles, Create, FreshInv
  <2>2. \A i \in 1..Len(data) : data'[i] = data[i]
    BY <2>1, Appended
  <2>3. \A b \in Blob : cas[b] # 0 => cas[b] \in 1..Len(data)
    OBVIOUS
  <2> QED
    BY <2>1, <2>2, <2>3
<1>8. ASSUME NEW o \in Output, CopyData(p, o) PROVE CasIntact'
  <2>1. /\ data' = [data EXCEPT ![dst[p]] = data[src[p]]] /\ cas' = cas
        /\ \A b \in Blob : cas[b] # dst[p]
    BY <1>8 DEF CopyData, FreshInv
  <2>2. \A b \in Blob : cas[b] # 0 => cas[b] \in 1..Len(data)
    OBVIOUS
  <2>3. \A i \in 1..Len(data) : i # dst[p] => data'[i] = data[i]
    BY <2>1
  <2> QED
    BY <2>1, <2>2, <2>3
<1>9. ASSUME NEW o \in Output, ChmodDest(p, o) PROVE CasIntact'
  BY <1>9 DEF ChmodDest
<1>10. ASSUME NEW o \in Output, ChmodGone(p, o) PROVE CasIntact'
  BY <1>10 DEF ChmodGone
<1>11. ASSUME Again(p) PROVE CasIntact'
  BY <1>11 DEF Again
<1> HIDE DEF CasIntact
<1> QED
  BY <1>1, <1>2, <1>3, <1>4, <1>5, <1>6, <1>7, <1>8, <1>9, <1>10, <1>11 DEF
     StoreStep, InstallStep

\* While a cargo is alone, what it finds and creates at a destination is its
\* own.
LEMMA FreshStep ==
  ASSUME TypeOK, StoreInv, TurnInv, NEW p \in Proc, CasIntact, FreshInv(p),
         \/ \E o \in Output : StoreStep(p, o) \/ InstallStep(p, o)
         \/ Again(p)
  PROVE  FreshInv(p)'
<1> USE InstallAssumption
<1>0. Len(data) \in Nat
  BY DEF TypeOK
<1> USE <1>0 DEF TypeOK, FreshInv, Goto, Blobs, Target, inodes, fds
<1>1. ASSUME NEW o \in Output, StatBlob(p, o) PROVE FreshInv(p)'
  <2>1. PICK to \in {"rename", "mark", "stored"} : pc' = [pc EXCEPT ![p][o] = to]
    BY <1>1 DEF StatBlob
  <2>2. UNCHANGED <<data, mode, cas, dest, src, dst>>
    BY <1>1 DEF StatBlob
  <2> QED
    BY <2>1, <2>2
<1>2. ASSUME NEW o \in Output, RenameBlob(p, o) PROVE FreshInv(p)'
  <2>1. \A w \in Output : pc[p][w] \in Storing \cup {"stored"}
    BY <1>2 DEF RenameBlob, TurnInv, Storing
  <2>2. PICK to \in {"mark", "stored"} : pc' = [pc EXCEPT ![p][o] = to]
    BY <1>2 DEF RenameBlob
  <2>3. \A w \in Output : pc'[p][w] \in Storing \cup {"stored"}
    BY <2>1, <2>2 DEF Storing
  <2> QED
    BY <2>3 DEF Storing
<1>3. ASSUME NEW o \in Output, MarkBlob(p, o) PROVE FreshInv(p)'
  <2>1. \A w \in Output : pc[p][w] \in Storing \cup {"stored"}
    BY <1>3 DEF MarkBlob, TurnInv, Storing
  <2>2. pc' = [pc EXCEPT ![p][o] = "stored"]
    BY <1>3 DEF MarkBlob
  <2>3. \A w \in Output : pc'[p][w] \in Storing \cup {"stored"}
    BY <2>1, <2>2 DEF Storing
  <2> QED
    BY <2>3 DEF Storing
<1>4. ASSUME NEW o \in Output, Begin(p, o) PROVE FreshInv(p)'
  <2>1. \A w \in Output \ {o} : pc'[p][w] \in {"stored", "installed"}
    BY <1>4 DEF Begin, TurnInv, Working
  <2>2. pc'[p][o] = "stat" /\ Target(p, o)' = 0
    BY <1>4 DEF Begin
  <2> QED
    BY <2>1, <2>2
<1>5. ASSUME NEW o \in Output, StatSource(p, o) PROVE FreshInv(p)'
  <2>1. \A w \in Output \ {o} : pc'[p][w] \in {"stored", "installed"}
    BY <1>5 DEF StatSource, TurnInv, Working
  <2>2. /\ Target(p, o) = 0
        /\ UNCHANGED <<data, mode, cas, dest, src, dst>>
        /\ pc'[p][o] \in {"link", "open"}
        /\ pc'[p][o] = "link" => mode[Blobs(o)] = Exec[o]
    BY <1>5 DEF StatSource
  <2> QED
    BY <2>1, <2>2
<1>6. ASSUME NEW o \in Output, LinkBlob(p, o) PROVE FreshInv(p)'
  <2>1. \A w \in Output \ {o} : pc'[p][w] \in {"stored", "installed"}
    BY <1>6 DEF LinkBlob, TurnInv, Working
  <2>2. pc'[p][o] = "installed"
    BY <1>6 DEF LinkBlob
  <2> QED
    BY <2>1, <2>2
<1>7. ASSUME NEW o \in Output, OpenFiles(p, o) PROVE FreshInv(p)'
  <2>1. \A w \in Output \ {o} : pc'[p][w] \in {"stored", "installed"}
    BY <1>7 DEF OpenFiles, TurnInv, Working
  <2>2. /\ dest' = [dest EXCEPT ![Place[p][o]] = Len(data) + 1]
        /\ dst' = [dst EXCEPT ![p] = Len(data) + 1]
        /\ src' = [src EXCEPT ![p] = Blobs(o)]
        /\ cas' = cas /\ pc'[p][o] = "copy"
    BY <1>7 DEF OpenFiles, NewIno
  <2>3. dst'[p] = Len(data) + 1 /\ src'[p] = Blobs(o)' /\ Target(p, o)' = Len(data) + 1
    BY <2>2
  <2>4. \A b \in Blob : cas'[b] # dst'[p]
    BY <2>2, <2>3
  <2>5. \A d \in Dest \ {Place[p][o]} : dest'[d] # dst'[p]
    BY <2>2, <2>3
  <2>6. dst'[p] # 0
    BY <2>3
  <2>7. FreshInv(p)!(o)'
    BY <2>2, <2>3, <2>4, <2>5, <2>6
  <2>8. \A w \in Output \ {o} : FreshInv(p)!(w)'
    BY <2>1
  <2> QED
    BY <2>7, <2>8
<1>8. ASSUME NEW o \in Output, CopyData(p, o) PROVE FreshInv(p)'
  <2>1. \A w \in Output \ {o} : pc'[p][w] \in {"stored", "installed"}
    BY <1>8 DEF CopyData, TurnInv, Working
  <2>2. /\ data' = [data EXCEPT ![dst[p]] = data[src[p]]]
        /\ UNCHANGED <<cas, dest, dst>> /\ pc'[p][o] = "chmod"
    BY <1>8 DEF CopyData
  <2>3. /\ dst[p] = Target(p, o) /\ dst[p] \in 1..Len(data)
        /\ \A b \in Blob : cas[b] # dst[p]
        /\ \A d \in Dest \ {Place[p][o]} : dest[d] # dst[p]
        /\ src[p] = Blobs(o)
    BY <1>8 DEF CopyData
  <2>4. data[src[p]] = Content[o]
    <3>1. pc[p][o] = "copy" /\ Content[o] \in Blob
      BY <1>8 DEF CopyData
    <3>2. cas[Content[o]] # 0
      BY ONLY <3>1, StoreInv DEF StoreInv, Blobs
    <3> QED
      BY <2>3, <3>1, <3>2 DEF CasIntact
  <2>5. data'[dst[p]] = Content[o]
    BY <2>2, <2>3, <2>4
  <2>6. FreshInv(p)!(o)'
    BY <2>2, <2>3, <2>5
  <2>7. \A w \in Output \ {o} : FreshInv(p)!(w)'
    BY <2>1
  <2> QED
    BY <2>6, <2>7
<1>9. ASSUME NEW o \in Output, ChmodDest(p, o) PROVE FreshInv(p)'
  <2>1. \A w \in Output \ {o} : pc'[p][w] \in {"stored", "installed"}
    BY <1>9 DEF ChmodDest, TurnInv, Working
  <2>2. pc'[p][o] = "installed"
    BY <1>9 DEF ChmodDest
  <2> QED
    BY <2>1, <2>2
<1>10. ASSUME NEW o \in Output, ChmodGone(p, o) PROVE FreshInv(p)'
  <2>1. \A w \in Output \ {o} : pc'[p][w] \in {"stored", "installed"}
    BY <1>10 DEF ChmodGone, TurnInv, Working
  <2>2. pc'[p][o] = "error"
    BY <1>10 DEF ChmodGone
  <2> QED
    BY <2>1, <2>2
<1>11. ASSUME Again(p) PROVE FreshInv(p)'
  BY <1>11 DEF Again
<1> HIDE DEF FreshInv
<1> QED
  BY <1>1, <1>2, <1>3, <1>4, <1>5, <1>6, <1>7, <1>8, <1>9, <1>10, <1>11 DEF
     StoreStep, InstallStep

\* What is installed stays as it was stored, if one path is not given to two
\* different outputs.
LEMMA InstalledStep ==
  ASSUME OnePerPlace, TypeOK, StoreInv, TurnInv, NEW p \in Proc,
         CasIntact, FreshInv(p), InstalledInv(p),
         \/ \E o \in Output : StoreStep(p, o) \/ InstallStep(p, o)
         \/ Again(p)
  PROVE  InstalledInv(p)'
<1> USE InstallAssumption
<1> SUFFICES ASSUME NEW w \in Output, pc'[p][w] = "installed",
                    \A v \in Output : Place[p][v] = Place[p][w] => pc'[p][v] \notin Working
             PROVE  AsEntry(p, w)'
  BY DEF InstalledInv
<1>0. Len(data) \in Nat
  BY DEF TypeOK
<1> USE <1>0 DEF TypeOK, Goto, Blobs, Target, inodes, fds
<1>1. ASSUME NEW o \in Output, StatBlob(p, o) PROVE AsEntry(p, w)'
  <2>1. \A v \in Output : pc'[p][v] \in Storing \cup {"stored"}
    <3>1. \A v \in Output : pc[p][v] \in Storing \cup {"stored"}
      BY <1>1 DEF StatBlob, TurnInv, Storing
    <3>2. PICK to \in {"rename", "mark", "stored"} : pc' = [pc EXCEPT ![p][o] = to]
      BY <1>1 DEF StatBlob
    <3> QED
      BY <3>1, <3>2 DEF Storing
  <2> QED
    BY <2>1 DEF Storing
<1>2. ASSUME NEW o \in Output, RenameBlob(p, o) PROVE AsEntry(p, w)'
  <2>1. \A v \in Output : pc'[p][v] \in Storing \cup {"stored"}
    <3>1. \A v \in Output : pc[p][v] \in Storing \cup {"stored"}
      BY <1>2 DEF RenameBlob, TurnInv, Storing
    <3>2. PICK to \in {"rename", "mark", "stored"} : pc' = [pc EXCEPT ![p][o] = to]
      BY <1>2 DEF RenameBlob
    <3> QED
      BY <3>1, <3>2 DEF Storing
  <2> QED
    BY <2>1 DEF Storing
<1>3. ASSUME NEW o \in Output, MarkBlob(p, o) PROVE AsEntry(p, w)'
  <2>1. \A v \in Output : pc'[p][v] \in Storing \cup {"stored"}
    <3>1. \A v \in Output : pc[p][v] \in Storing \cup {"stored"}
      BY <1>3 DEF MarkBlob, TurnInv, Storing
    <3>2. PICK to \in {"rename", "mark", "stored"} : pc' = [pc EXCEPT ![p][o] = to]
      BY <1>3 DEF MarkBlob
    <3> QED
      BY <3>1, <3>2 DEF Storing
  <2> QED
    BY <2>1 DEF Storing
<1>4. ASSUME NEW o \in Output, Begin(p, o) PROVE AsEntry(p, w)'
  <2>1. pc[p][o] = "stored" /\ \E to \in {"stat"} : pc' = [pc EXCEPT ![p][o] = to]
    BY <1>4 DEF Begin
  <2>2. Place[p][w] # Place[p][o] /\ w # o
    BY <2>1 DEF Working
  <2>3. AsEntry(p, w) /\ dest[Place[p][w]] \in 1..Len(data)
    <3>1. AsEntry(p, w)
      BY <2>1, <2>2 DEF InstalledInv
    <3> QED
      BY <3>1 DEF AsEntry
  <2>4. dest'[Place[p][w]] = dest[Place[p][w]] /\ UNCHANGED <<data, mode>>
    BY <2>2, <1>4 DEF Begin
  <2> QED
    BY <2>3, <2>4 DEF AsEntry
<1>5. ASSUME NEW o \in Output, StatSource(p, o) PROVE AsEntry(p, w)'
  <2>1. pc[p][o] = "stat" /\ \E to \in {"link", "open"} : pc' = [pc EXCEPT ![p][o] = to]
    BY <1>5 DEF StatSource
  <2>2. Place[p][w] # Place[p][o] /\ w # o
    BY <2>1 DEF Working
  <2>3. AsEntry(p, w) /\ dest[Place[p][w]] \in 1..Len(data)
    <3>1. AsEntry(p, w)
      BY <2>1, <2>2 DEF InstalledInv
    <3> QED
      BY <3>1 DEF AsEntry
  <2>4. UNCHANGED <<data, mode, dest>>
    BY <1>5 DEF StatSource
  <2> QED
    BY <2>3, <2>4 DEF AsEntry
<1>6. ASSUME NEW o \in Output, LinkBlob(p, o) PROVE AsEntry(p, w)'
  <2>1. pc[p][o] = "link" /\ \E to \in {"installed", "open"} : pc' = [pc EXCEPT ![p][o] = to]
    BY <1>6 DEF LinkBlob
  <2>2. ASSUME Place[p][w] # Place[p][o]
        PROVE  AsEntry(p, w) /\ dest[Place[p][w]] \in 1..Len(data)
    <3>1. AsEntry(p, w)
      BY <2>1, <2>2 DEF InstalledInv
    <3> QED
      BY <3>1 DEF AsEntry
  <2>3. Place[p][w] = Place[p][o] => Content[w] = Content[o] /\ Exec[w] = Exec[o]
    BY DEF OnePerPlace
  <2>4. /\ dest' = [dest EXCEPT ![Place[p][o]] = cas[Content[o]]]
        /\ UNCHANGED <<data, mode>>
    BY <2>1, <1>6 DEF LinkBlob, FreshInv
  <2>5. CASE Place[p][w] # Place[p][o]
    BY <2>2, <2>4, <2>5 DEF AsEntry
  <2>6. CASE Place[p][w] = Place[p][o]
    <3>1. cas[Content[o]] # 0 /\ Content[o] \in Blob
      BY <2>1 DEF StoreInv
    <3>2. data[cas[Content[o]]] = Content[o]
      BY <3>1 DEF CasIntact
    <3>3. mode[cas[Content[o]]] = Exec[o]
      BY <2>1 DEF FreshInv
    <3>4. dest'[Place[p][w]] = cas[Content[o]]
      BY <2>4, <2>6
    <3> QED
      BY <2>3, <2>4, <2>6, <3>1, <3>2, <3>3, <3>4 DEF AsEntry
  <2> QED
    BY <2>5, <2>6
<1>7. ASSUME NEW o \in Output, OpenFiles(p, o) PROVE AsEntry(p, w)'
  <2>1. pc[p][o] = "open" /\ \E to \in {"copy"} : pc' = [pc EXCEPT ![p][o] = to]
    BY <1>7 DEF OpenFiles
  <2>2. Place[p][w] # Place[p][o] /\ w # o
    BY <2>1 DEF Working
  <2>3. AsEntry(p, w) /\ dest[Place[p][w]] \in 1..Len(data)
    <3>1. AsEntry(p, w)
      BY <2>1, <2>2 DEF InstalledInv
    <3> QED
      BY <3>1 DEF AsEntry
  <2>4. /\ data' = Append(data, Empty) /\ mode' = Append(mode, Exec[o])
        /\ dest'[Place[p][w]] = dest[Place[p][w]]
    BY <2>1, <2>2, <1>7 DEF OpenFiles, Create, FreshInv
  <2>5. \A i \in 1..Len(data) : data'[i] = data[i] /\ mode'[i] = mode[i]
    BY <2>4, Appended
  <2> QED
    BY <2>3, <2>4, <2>5 DEF AsEntry
<1>8. ASSUME NEW o \in Output, CopyData(p, o) PROVE AsEntry(p, w)'
  <2>1. pc[p][o] = "copy" /\ \E to \in {"chmod"} : pc' = [pc EXCEPT ![p][o] = to]
    BY <1>8 DEF CopyData
  <2>2. Place[p][w] # Place[p][o] /\ w # o
    BY <2>1 DEF Working
  <2>3. AsEntry(p, w) /\ dest[Place[p][w]] \in 1..Len(data)
    <3>1. AsEntry(p, w)
      BY <2>1, <2>2 DEF InstalledInv
    <3> QED
      BY <3>1 DEF AsEntry
  <2>4. dst[p] # dest[Place[p][w]]
    BY <2>1, <2>2 DEF FreshInv
  <2>5. data' = [data EXCEPT ![dst[p]] = data[src[p]]] /\ UNCHANGED <<mode, dest>>
    BY <1>8 DEF CopyData
  <2>6. data'[dest[Place[p][w]]] = data[dest[Place[p][w]]]
    BY <2>3, <2>4, <2>5
  <2> QED
    BY <2>3, <2>5, <2>6 DEF AsEntry
<1>9. ASSUME NEW o \in Output, ChmodDest(p, o) PROVE AsEntry(p, w)'
  <2>1. pc[p][o] = "chmod" /\ \E to \in {"installed"} : pc' = [pc EXCEPT ![p][o] = to]
    BY <1>9 DEF ChmodDest
  <2>2. ASSUME Place[p][w] # Place[p][o]
        PROVE  AsEntry(p, w) /\ dest[Place[p][w]] \in 1..Len(data)
    <3>1. AsEntry(p, w)
      BY <2>1, <2>2 DEF InstalledInv
    <3> QED
      BY <3>1 DEF AsEntry
  <2>3. Place[p][w] = Place[p][o] => Content[w] = Content[o] /\ Exec[w] = Exec[o]
    BY DEF OnePerPlace
  <2>4. /\ mode' = [mode EXCEPT ![dest[Place[p][o]]] = Exec[o]]
        /\ dest[Place[p][o]] # 0
        /\ UNCHANGED <<data, dest>>
    BY <1>9 DEF ChmodDest
  <2>5. CASE Place[p][w] # Place[p][o]
    <3>1. dest[Place[p][w]] # dest[Place[p][o]]
      BY <2>1, <2>5 DEF FreshInv
    <3>2. mode'[dest[Place[p][w]]] = mode[dest[Place[p][w]]]
      BY <2>2, <2>4, <2>5, <3>1
    <3> QED
      BY <2>2, <2>4, <2>5, <3>2 DEF AsEntry
  <2>6. CASE Place[p][w] = Place[p][o]
    <3>1. data[dest[Place[p][o]]] = Content[o]
      BY <2>1 DEF FreshInv
    <3>2. mode'[dest[Place[p][o]]] = Exec[o]
      BY <2>4
    <3> QED
      BY <2>3, <2>4, <2>6, <3>1, <3>2 DEF AsEntry
  <2> QED
    BY <2>5, <2>6
<1>10. ASSUME NEW o \in Output, ChmodGone(p, o) PROVE AsEntry(p, w)'
  <2>1. pc[p][o] = "chmod" /\ \E to \in {"error"} : pc' = [pc EXCEPT ![p][o] = to]
    BY <1>10 DEF ChmodGone
  <2>2. Place[p][w] # Place[p][o] /\ w # o
    BY <2>1 DEF Working
  <2>3. AsEntry(p, w) /\ dest[Place[p][w]] \in 1..Len(data)
    <3>1. AsEntry(p, w)
      BY <2>1, <2>2 DEF InstalledInv
    <3> QED
      BY <3>1 DEF AsEntry
  <2>4. UNCHANGED <<data, mode, dest>>
    BY <1>10 DEF ChmodGone
  <2> QED
    BY <2>3, <2>4 DEF AsEntry
<1>11. ASSUME Again(p) PROVE AsEntry(p, w)'
  BY <1>11 DEF Again
<1> QED
  BY <1>1, <1>2, <1>3, <1>4, <1>5, <1>6, <1>7, <1>8, <1>9, <1>10, <1>11 DEF
     StoreStep, InstallStep

-----------------------------------------------------------------------------
(* Alone.                                                                  *)

\* A cargo that does anything is past the start of a store, so another is not
\* alone any more; a cargo without outputs changes nothing.
LEMMA MoverShows ==
  ASSUME TypeOK, NEW p \in Proc, NEW q \in Proc, p # q, Alone(p)',
         \/ \E o \in Output : StoreStep(q, o) \/ InstallStep(q, o)
         \/ Again(q)
  PROVE  Output = {}
<1> USE DEF TypeOK, Alone, Goto, Pcs
<1>1. ASSUME NEW o \in Output, StoreStep(q, o) PROVE FALSE
  BY <1>1 DEF StoreStep, StatBlob, RenameBlob, MarkBlob
<1>2. ASSUME NEW o \in Output, InstallStep(q, o) PROVE FALSE
  BY <1>2 DEF InstallStep, Begin, StatSource, LinkBlob, OpenFiles, CopyData,
     ChmodDest, ChmodGone
<1>3. CASE Again(q)
  BY <1>3 DEF Again
<1> QED
  BY <1>1, <1>2, <1>3

\* What p does is no concern of the others' turns: they were idle before it.
LEMMA AloneBefore ==
  ASSUME TypeOK, NEW p \in Proc, Alone(p)',
         \/ \E o \in Output : StoreStep(p, o) \/ InstallStep(p, o)
         \/ Again(p)
  PROVE  Alone(p)
<1>1. \A q \in Proc \ {p} : pc'[q] = pc[q]
  BY DEF TypeOK, Goto, StoreStep, StatBlob, RenameBlob, MarkBlob, InstallStep,
     Begin, StatSource, LinkBlob, OpenFiles, CopyData, ChmodDest, ChmodGone,
     Again
<1> QED
  BY <1>1 DEF Alone

\* Nothing stored and nothing installed: InstallInv holds.
LEMMA InstallInit == Init => InstallInv /\ \A p \in Proc : InstalledInv(p)
<1> SUFFICES ASSUME Init PROVE InstallInv /\ \A p \in Proc : InstalledInv(p)
  OBVIOUS
<1>1. TypeOK
  BY InstallAssumption DEF Init, TypeOK, Pcs
<1>2. StoreInv /\ TurnInv /\ FileInv /\ CasIntact
  BY DEF Init, StoreInv, TurnInv, FileInv, CasIntact, Storing, Working
<1>3. \A p \in Proc : FreshInv(p) /\ InstalledInv(p)
  BY DEF Init, FreshInv, InstalledInv
<1> QED
  BY <1>1, <1>2, <1>3 DEF InstallInv

\* Every step of every cargo keeps InstallInv.
LEMMA InstallStepInv == InstallInv /\ [Next]_vars => InstallInv'
<1> SUFFICES ASSUME InstallInv, [Next]_vars PROVE InstallInv'
  OBVIOUS
<1>1. TypeOK /\ StoreInv /\ TurnInv /\ FileInv
  BY DEF InstallInv
<1>2. TypeOK' /\ StoreInv' /\ TurnInv' /\ FileInv'
  BY <1>1, TypeStep, OrderStep
<1>3. ASSUME NEW p \in Proc, Alone(p)' PROVE (CasIntact /\ FreshInv(p))'
  <2>1. CASE UNCHANGED vars
    BY <1>3, <2>1 DEF InstallInv, vars, Alone, CasIntact, FreshInv, Blobs,
       Target
  <2>2. ASSUME NEW q \in Proc, q # p,
               \/ \E o \in Output : StoreStep(q, o) \/ InstallStep(q, o)
               \/ Again(q)
        PROVE  (CasIntact /\ FreshInv(p))'
    <3>1. Output = {}
      BY <1>1, <1>3, <2>2, MoverShows
    <3>2. CasIntact
      BY <3>1 DEF InstallInv, Alone
    <3>3. data' = data /\ cas' = cas
      BY <2>2, <3>1 DEF Again, inodes
    <3> QED
      BY <3>1, <3>2, <3>3 DEF CasIntact, FreshInv
  <2>3. CASE \/ \E o \in Output : StoreStep(p, o) \/ InstallStep(p, o)
             \/ Again(p)
    <3>1. CasIntact /\ FreshInv(p)
      BY <1>1, <1>3, <2>3, AloneBefore DEF InstallInv
    <3> QED
      BY <1>1, <2>3, <3>1, CasStep, FreshStep
  <2> QED
    BY <2>1, <2>2, <2>3 DEF Next
<1> QED
  BY <1>2, <1>3 DEF InstallInv

\* InstallInv is an invariant of the cargos.
THEOREM InstallInvariant == Spec => []InstallInv
  BY InstallInit, InstallStepInv, PTL DEF Spec

-----------------------------------------------------------------------------
(* What follows from it.                                                   *)

\* Inodes, paths and descriptors stay in their types: no step of storeFile or
\* install uses a descriptor or a blob that is not there.
THEOREM InstallTypeCorrect == Spec => []TypeOK
  BY InstallInvariant, PTL DEF InstallInv

\* A cargo that is alone, however often it builds, leaves under each CAS name
\* the content that the name is the digest of.
THEOREM LoneCasStaysIntact == Spec => []LoneCasIntact
<1>1. InstallInv => LoneCasIntact
  BY DEF InstallInv, LoneCasIntact
<1> QED
  BY <1>1, InstallInvariant, PTL

\* If no two different outputs are given one path, a cargo that is alone leaves
\* each artifact with the content and the mode of its manifest entry.
THEOREM ArtifactsAreAsStored == OnePerPlace => (Spec => []InstalledAsStored)
<1> SUFFICES ASSUME OnePerPlace PROVE Spec => []InstalledAsStored
  OBVIOUS
<1> DEFINE Inv == \A p \in Proc : Alone(p) => InstalledInv(p)
<1>1. Init => Inv
  BY InstallInit
<1>2. InstallInv /\ Inv /\ [Next]_vars => Inv'
  <2> SUFFICES ASSUME InstallInv, Inv, [Next]_vars, NEW p \in Proc, Alone(p)'
               PROVE  InstalledInv(p)'
    OBVIOUS
  <2>1. TypeOK /\ StoreInv /\ TurnInv
    BY DEF InstallInv
  <2>2. CASE UNCHANGED vars
    BY <2>2 DEF vars, Alone, InstalledInv, AsEntry, Target
  <2>3. ASSUME NEW q \in Proc, q # p,
               \/ \E o \in Output : StoreStep(q, o) \/ InstallStep(q, o)
               \/ Again(q)
        PROVE  InstalledInv(p)'
    <3>1. Output = {}
      BY <2>1, <2>3, MoverShows
    <3> QED
      BY <3>1 DEF InstalledInv
  <2>4. CASE \/ \E o \in Output : StoreStep(p, o) \/ InstallStep(p, o)
             \/ Again(p)
    <3>1. Alone(p)
      BY <2>1, <2>4, AloneBefore
    <3>2. CasIntact /\ FreshInv(p) /\ InstalledInv(p)
      BY <3>1 DEF InstallInv
    <3> HIDE DEF Inv
    <3> QED
      BY <2>1, <2>4, <3>2, InstalledStep
  <2> QED
    BY <2>2, <2>3, <2>4 DEF Next
<1>3. Inv => InstalledAsStored
  BY DEF InstalledInv, AsEntry, InstalledAsStored, Working
<1> HIDE DEF Inv
<1> QED
  BY <1>1, <1>2, <1>3, InstallInvariant, PTL DEF Spec

=============================================================================
