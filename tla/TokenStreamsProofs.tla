------------------------- MODULE TokenStreamsProofs ------------------------
(***************************************************************************)
(* Proofs about the stream store.  The count of a slot is the number of    *)
(* places its handle is in, so the proof is one of counting: how many of a *)
(* handle are in a sequence, in the variables and in the slots, and what   *)
(* each kind of change to the store does to those numbers.                 *)
(***************************************************************************)
EXTENDS TokenStreams, FiniteSetTheorems, FunctionTheorems, SequenceTheorems, TLAPS

Streams == 0..MaxSlots
One(x, h) == IF x = h THEN 1 ELSE 0

\* How many of handle h there are in some trees, in the variables, in the slots.
InTrees(h, ts) == Times(h, Inside(ts))
InVars(f, h) == Cardinality({v \in Vars : f[v] = h})
Within(sl, h) == Cardinality(InSlots(sl, h))

\* Two sets that f relates one to one have as many members.
LEMMA SameSize ==
    ASSUME NEW S, NEW T, IsFiniteSet(S), NEW f \in [S -> T],
           \A x, y \in S : f[x] = f[y] => x = y,
           \A y \in T : \E x \in S : f[x] = y
    PROVE  IsFiniteSet(T) /\ Cardinality(T) = Cardinality(S)
  <1>1. f \in Bijection(S, T)
    BY Fun_IsBij
  <1>2. ExistsBijection(S, T)
    BY <1>1 DEF ExistsBijection
  <1> QED  BY <1>2, FS_Bijection

\* Parts with nothing in common add up.
LEMMA Apart ==
    ASSUME NEW S, NEW T, IsFiniteSet(S), IsFiniteSet(T), S \cap T = {}
    PROVE  Cardinality(S \cup T) = Cardinality(S) + Cardinality(T)
  <1>1. Cardinality(S \cup T) = Cardinality(S) + Cardinality(T) - Cardinality({})
    BY FS_Union
  <1>2. Cardinality({}) = 0
    BY FS_EmptySet
  <1>3. PICK m \in Nat, n \in Nat : m = Cardinality(S) /\ n = Cardinality(T)
    BY FS_CardinalityType
  <1> QED  BY <1>1, <1>2, <1>3

(***************************************************************************)
(* Counting in sequences.                                                  *)
(***************************************************************************)

\* A count is a number.
LEMMA TimesNat ==
    ASSUME NEW S, NEW seq \in Seq(S), NEW h
    PROVE  Times(h, seq) \in Nat /\ IsFiniteSet({k \in DOMAIN seq : seq[k] = h})
  <1>1. IsFiniteSet(1..Len(seq))
    BY FS_Interval
  <1>2. DOMAIN seq = 1..Len(seq)
    OBVIOUS
  <1>3. IsFiniteSet({k \in DOMAIN seq : seq[k] = h})
    BY <1>1, <1>2, FS_Subset
  <1> QED  BY <1>3, FS_CardinalityType DEF Times

\* The empty sequence has no place.
LEMMA TimesNone ==
    ASSUME NEW h
    PROVE  Times(h, <<>>) = 0
  <1>1. {k \in DOMAIN <<>> : <<>>[k] = h} = {}
    OBVIOUS
  <1> QED  BY <1>1, FS_EmptySet DEF Times

\* A sequence of one has one place at most.
LEMMA TimesOne ==
    ASSUME NEW h, NEW x
    PROVE  Times(h, <<x>>) = One(x, h)
  <1> DEFINE P == {k \in DOMAIN <<x>> : <<x>>[k] = h}
  <1>1. CASE x = h
    <2>1. P = {1}
      BY <1>1
    <2> QED  BY <1>1, <2>1, FS_Singleton DEF Times, One
  <1>2. CASE x # h
    <2>1. P = {}
      BY <1>2
    <2> QED  BY <1>2, <2>1, FS_EmptySet DEF Times, One
  <1> QED  BY <1>1, <1>2

\* The places in a concatenation are those of the first part and, moved by its
\* length, those of the second.
LEMMA TimesConcat ==
    ASSUME NEW S, NEW a \in Seq(S), NEW b \in Seq(S), NEW h
    PROVE  Times(h, a \o b) = Times(h, a) + Times(h, b)
  <1> DEFINE A == {k \in DOMAIN a : a[k] = h}
             B == {k \in DOMAIN b : b[k] = h}
             C == {k \in DOMAIN (a \o b) : (a \o b)[k] = h}
             M == {k \in C : k > Len(a)}
             f == [k \in B |-> k + Len(a)]
  <1>1. IsFiniteSet(A) /\ IsFiniteSet(B)
    BY TimesNat
  <1>2. C = A \cup M /\ A \cap M = {}
    OBVIOUS
  <1>3. f \in [B -> M]
    OBVIOUS
  <1>4. \A x, y \in B : f[x] = f[y] => x = y
    OBVIOUS
  <1>5. ASSUME NEW y \in M PROVE \E x \in B : f[x] = y
    <2>1. y - Len(a) \in B /\ f[y - Len(a)] = y
      OBVIOUS
    <2> QED  BY <2>1
  <1> HIDE DEF A, B, C, M, f
  <1>6. IsFiniteSet(M) /\ Cardinality(M) = Cardinality(B)
    BY <1>1, <1>3, <1>4, <1>5, SameSize
  <1>7. Cardinality(C) = Cardinality(A) + Cardinality(M)
    BY <1>1, <1>2, <1>6, Apart
  <1> QED  BY <1>6, <1>7 DEF Times, A, B, C

\* The first of a sequence and the rest.
LEMMA TimesHead ==
    ASSUME NEW S, NEW seq \in Seq(S), seq # <<>>, NEW h
    PROVE  Times(h, seq) = One(Head(seq), h) + Times(h, Tail(seq))
  <1>1. seq = <<Head(seq)>> \o Tail(seq) /\ <<Head(seq)>> \in Seq(S) /\ Tail(seq) \in Seq(S)
    OBVIOUS
  <1>2. Times(h, seq) = Times(h, <<Head(seq)>>) + Times(h, Tail(seq))
    BY <1>1, TimesConcat
  <1> QED  BY <1>2, TimesOne

\* A handle a stream owns: itself, unless it is that of the empty stream.
LEMMA TimesOwn ==
    ASSUME NEW x \in Streams, NEW h \in Handles
    PROVE  Times(h, Own(x)) = One(x, h) /\ Own(x) \in Seq(Streams)
  <1>1. CASE x = 0
    BY <1>1, TimesNone, BoundAssumption DEF Own, One, Handles, Streams
  <1>2. CASE x # 0
    BY <1>2, TimesOne DEF Own
  <1> QED  BY <1>1, <1>2

(***************************************************************************)
(* Counting in trees.                                                      *)
(***************************************************************************)

\* A tree's stream is a handle or the empty stream.
LEMMA StreamType ==
    ASSUME NEW t \in Trees
    PROVE  StreamOf(t) \in Streams
  BY BoundAssumption DEF Trees, StreamOf, Streams

\* So are the streams of a sequence of trees.
LEMMA InsideType ==
    ASSUME NEW ts \in Seq(Trees)
    PROVE  Inside(ts) \in Seq(Streams)
  <1>1. DOMAIN ts = 1..Len(ts) /\ Len(ts) \in Nat
    OBVIOUS
  <1>2. \A k \in 1..Len(ts) : StreamOf(ts[k]) \in Streams
    BY StreamType
  <1>3. Inside(ts) \in [1..Len(ts) -> Streams]
    BY <1>1, <1>2 DEF Inside
  <1> QED  BY <1>1, <1>3

\* The handles in trees are counted as those in sequences.
LEMMA TreesNat ==
    ASSUME NEW ts \in Seq(Trees), NEW h
    PROVE  InTrees(h, ts) \in Nat
  BY InsideType, TimesNat DEF InTrees

\* No trees, no handles.
LEMMA TreesNone ==
    ASSUME NEW h
    PROVE  InTrees(h, <<>>) = 0
  <1>1. Inside(<<>>) = <<>>
    BY DEF Inside
  <1> QED  BY <1>1, TimesNone DEF InTrees

\* One tree, its own.
LEMMA TreesOne ==
    ASSUME NEW h, NEW t
    PROVE  InTrees(h, <<t>>) = One(StreamOf(t), h)
  <1>1. Inside(<<t>>) = <<StreamOf(t)>>
    BY DEF Inside
  <1> QED  BY <1>1, TimesOne DEF InTrees

\* Trees that are put together keep their handles.
LEMMA TreesConcat ==
    ASSUME NEW a \in Seq(Trees), NEW b \in Seq(Trees), NEW h
    PROVE  InTrees(h, a \o b) = InTrees(h, a) + InTrees(h, b)
  <1>1. /\ a \o b \in Seq(Trees) /\ Len(a \o b) = Len(a) + Len(b)
        /\ Len(a) \in Nat /\ Len(b) \in Nat
    OBVIOUS
  <1>2. Inside(a) \in Seq(Streams) /\ Inside(b) \in Seq(Streams) /\ Inside(a \o b) \in Seq(Streams)
    BY <1>1, InsideType
  <1>3. ASSUME NEW ts \in Seq(Trees)
        PROVE  Len(Inside(ts)) = Len(ts) /\ \A k \in 1..Len(ts) : Inside(ts)[k] = StreamOf(ts[k])
    BY DEF Inside
  <1>4. ASSUME NEW k \in 1..Len(a) + Len(b)
        PROVE  Inside(a \o b)[k] = (Inside(a) \o Inside(b))[k]
    <2>1. Inside(a \o b)[k] = StreamOf((a \o b)[k])
      BY <1>1, <1>3
    <2>2. CASE k <= Len(a)
      <3>1. (a \o b)[k] = a[k] /\ k \in 1..Len(a)
        BY <2>2
      <3>2. (Inside(a) \o Inside(b))[k] = Inside(a)[k]
        BY <1>2, <1>3, <2>2, ConcatProperties
      <3> QED  BY <1>3, <2>1, <3>1, <3>2
    <2>3. CASE k > Len(a)
      <3>1. (a \o b)[k] = b[k - Len(a)] /\ k - Len(a) \in 1..Len(b)
        BY <2>3
      <3>2. (Inside(a) \o Inside(b))[k] = Inside(b)[k - Len(a)]
        BY <1>2, <1>3, <2>3, ConcatProperties
      <3> QED  BY <1>3, <2>1, <3>1, <3>2
    <2>4. k <= Len(a) \/ k > Len(a)
      BY <1>1
    <2> QED  BY <2>2, <2>3, <2>4
  <1>5. Inside(a \o b) = Inside(a) \o Inside(b)
    <2>1. Len(Inside(a \o b)) = Len(a) + Len(b)
      BY <1>1, <1>3
    <2>2. Len(Inside(a)) = Len(a) /\ Len(Inside(b)) = Len(b)
      BY <1>3
    <2>3. /\ Inside(a) \o Inside(b) \in Seq(Streams)
          /\ Len(Inside(a) \o Inside(b)) = Len(Inside(a)) + Len(Inside(b))
      BY <1>2, ConcatProperties
    <2>4. Len(Inside(a \o b)) = Len(Inside(a) \o Inside(b))
      BY <2>1, <2>2, <2>3
    <2> QED  BY <1>2, <1>4, <2>1, <2>3, <2>4, SeqEqual
  <1> QED  BY <1>2, <1>5, TimesConcat DEF InTrees

\* The first tree and the rest.
LEMMA TreesHead ==
    ASSUME NEW ts \in Seq(Trees), ts # <<>>, NEW h
    PROVE  InTrees(h, ts) = One(StreamOf(Head(ts)), h) + InTrees(h, Tail(ts))
  <1>1. ts = <<Head(ts)>> \o Tail(ts) /\ <<Head(ts)>> \in Seq(Trees) /\ Tail(ts) \in Seq(Trees)
    OBVIOUS
  <1>2. InTrees(h, <<Head(ts)>> \o Tail(ts)) = InTrees(h, <<Head(ts)>>) + InTrees(h, Tail(ts))
    BY <1>1, TreesConcat
  <1> QED  BY <1>1, <1>2, TreesOne

\* Handing trees on changes no handle.
LEMMA TreesHanded ==
    ASSUME NEW ts \in Seq(Trees), NEW us, us = [k \in DOMAIN ts |-> Handed(ts[k])], NEW h
    PROVE  us \in Seq(Trees) /\ InTrees(h, us) = InTrees(h, ts)
  <1>1. DOMAIN ts = 1..Len(ts) /\ Len(ts) \in Nat
    OBVIOUS
  <1>2. ASSUME NEW t \in Trees PROVE Handed(t) \in Trees /\ StreamOf(Handed(t)) = StreamOf(t)
    BY DEF Handed, Trees, StreamOf
  <1>3. us \in [1..Len(ts) -> Trees]
    BY <1>1, <1>2
  <1>4. us \in Seq(Trees)
    BY <1>1, <1>3
  <1>5. Inside(us) = Inside(ts)
    BY <1>1, <1>2 DEF Inside
  <1> QED  BY <1>4, <1>5 DEF InTrees

(***************************************************************************)
(* Counting in the variables and in the slots.                             *)
(***************************************************************************)

\* The variables that hold a handle are finitely many.
LEMMA VarsNat ==
    ASSUME NEW f, NEW h
    PROVE  InVars(f, h) \in Nat /\ IsFiniteSet({v \in Vars : f[v] = h})
  <1>1. IsFiniteSet({v \in Vars : f[v] = h})
    BY FS_Subset, BoundAssumption
  <1> QED  BY <1>1, FS_CardinalityType DEF InVars

\* The variables other than v, and v.
LEMMA VarsApart ==
    ASSUME NEW f, NEW v \in Vars, NEW h
    PROVE  /\ InVars(f, h) = Cardinality({u \in Vars \ {v} : f[u] = h}) + One(f[v], h)
           /\ Cardinality({u \in Vars \ {v} : f[u] = h}) \in Nat
  <1> DEFINE S == {u \in Vars : f[u] = h}
             T == {u \in Vars \ {v} : f[u] = h}
  <1>1. IsFiniteSet(S) /\ T \in SUBSET S
    BY VarsNat
  <1>2. IsFiniteSet(T)
    BY <1>1, FS_Subset
  <1>3. Cardinality(T) \in Nat
    BY <1>2, FS_CardinalityType
  <1>4. CASE f[v] = h
    <2>1. S = T \cup {v} /\ v \notin T
      BY <1>4
    <2> HIDE DEF S, T
    <2>2. Cardinality(S) = Cardinality(T) + 1
      BY <1>2, <2>1, FS_AddElement
    <2> QED  BY <1>3, <1>4, <2>2 DEF One, InVars, S, T
  <1>5. CASE f[v] # h
    <2>1. S = T
      BY <1>5
    <2> QED  BY <1>3, <1>5, <2>1 DEF One, InVars
  <1> QED  BY <1>4, <1>5

\* A variable is assigned.
LEMMA VarPut ==
    ASSUME NEW f, NEW g, NEW v \in Vars, NEW h, \A u \in Vars \ {v} : g[u] = f[u]
    PROVE  InVars(g, h) + One(f[v], h) = InVars(f, h) + One(g[v], h)
  <1>1. {u \in Vars \ {v} : f[u] = h} = {u \in Vars \ {v} : g[u] = h}
    OBVIOUS
  <1>2. PICK n \in Nat : n = Cardinality({u \in Vars \ {v} : f[u] = h})
    BY VarsApart
  <1>3. InVars(f, h) = n + One(f[v], h)
    BY <1>2, VarsApart
  <1>4. InVars(g, h) = n + One(g[v], h)
    BY <1>1, <1>2, VarsApart
  <1> QED  BY <1>3, <1>4 DEF One

Slots == [trees : Seq(Trees), hidden : BOOLEAN, handles : Nat]

Elsewhere(sl, i, h) == {at \in InSlots(sl, h) : at[1] # i}

\* So are the places in slots.
LEMMA SlotsFinite ==
    ASSUME NEW sl \in [Handles -> Slots], NEW h
    PROVE  IsFiniteSet(InSlots(sl, h))
  <1> DEFINE Row(s) == {s} \X DOMAIN sl[s].trees
             Rows == {Row(s) : s \in Handles}
  <1>1. IsFiniteSet(Handles)
    BY FS_Interval, BoundAssumption DEF Handles
  <1>2. IsFiniteSet(Rows)
    <2> DEFINE f == [s \in Handles |-> Row(s)]
    <2>1. f \in Surjection(Handles, Rows)
      BY DEF Surjection
    <2> HIDE DEF Rows, f
    <2> QED  BY <1>1, <2>1, FS_Surjection
  <1>3. ASSUME NEW s \in Handles PROVE IsFiniteSet(Row(s))
    <2>1. sl[s].trees \in Seq(Trees)
      BY DEF Slots
    <2>2. DOMAIN sl[s].trees = 1..Len(sl[s].trees) /\ Len(sl[s].trees) \in Nat
      BY <2>1
    <2>3. IsFiniteSet(DOMAIN sl[s].trees)
      BY <2>2, FS_Interval
    <2> QED  BY <2>3, FS_Singleton, FS_Product
  <1>4. \A R \in Rows : IsFiniteSet(R)
    BY <1>3
  <1>5. IsFiniteSet(UNION Rows)
    BY <1>2, <1>4, FS_UNION
  <1>6. InSlots(sl, h) \in SUBSET UNION Rows
    BY DEF InSlots
  <1> QED  BY <1>5, <1>6, FS_Subset

\* The slots other than i, and slot i.
LEMMA SlotsApart ==
    ASSUME NEW sl \in [Handles -> Slots], NEW i \in Handles, NEW h
    PROVE  /\ Within(sl, h) = Cardinality(Elsewhere(sl, i, h)) + InTrees(h, sl[i].trees)
           /\ Cardinality(Elsewhere(sl, i, h)) \in Nat
           /\ InTrees(h, sl[i].trees) \in Nat
  <1> DEFINE seq == Inside(sl[i].trees)
             P == {k \in DOMAIN seq : seq[k] = h}
             E == Elsewhere(sl, i, h)
             M == {at \in InSlots(sl, h) : at[1] = i}
             f == [k \in P |-> <<i, k>>]
  <1>1. IsFiniteSet(E) /\ E \in SUBSET InSlots(sl, h)
    BY SlotsFinite, FS_Subset DEF Elsewhere
  <1>2. InSlots(sl, h) = E \cup M /\ E \cap M = {}
    BY DEF Elsewhere
  <1>3. sl[i].trees \in Seq(Trees)
    BY DEF Slots
  <1>4. IsFiniteSet(P)
    BY <1>3, InsideType, TimesNat
  <1>5. DOMAIN seq = DOMAIN sl[i].trees /\ \A k \in DOMAIN seq : seq[k] = StreamOf(sl[i].trees[k])
    BY DEF Inside
  <1>6. f \in [P -> M]
    BY <1>5 DEF InSlots
  <1>7. \A x, y \in P : f[x] = f[y] => x = y
    OBVIOUS
  <1>8. ASSUME NEW at \in M PROVE \E k \in P : f[k] = at
    <2>1. PICK k \in DOMAIN sl[i].trees : at = <<i, k>> /\ StreamOf(sl[i].trees[k]) = h
      BY DEF InSlots
    <2> QED  BY <1>5, <2>1
  <1> HIDE DEF E, M, P, f
  <1>9. IsFiniteSet(M) /\ Cardinality(M) = Cardinality(P)
    BY <1>4, <1>6, <1>7, <1>8, SameSize
  <1>10. Cardinality(InSlots(sl, h)) = Cardinality(E) + Cardinality(M)
    BY <1>1, <1>2, <1>9, Apart
  <1>11. Cardinality(E) \in Nat /\ Cardinality(P) \in Nat
    BY <1>1, <1>4, FS_CardinalityType
  <1> QED  BY <1>9, <1>10, <1>11 DEF Within, InTrees, Times, E, P

\* Their number is a number.
LEMMA WithinNat ==
    ASSUME NEW sl \in [Handles -> Slots], NEW h
    PROVE  Within(sl, h) \in Nat
  BY SlotsFinite, FS_CardinalityType DEF Within

\* One slot changes, and becomes `slot`.
Put(tl, sl, i, slot) == tl[i] = slot /\ \A s \in Handles : s # i => tl[s] = sl[s]

\* An EXCEPT is such a change.
LEMMA SlotExcept ==
    ASSUME NEW sl \in [Handles -> Slots], NEW i \in Handles, NEW slot \in Slots
    PROVE  /\ [sl EXCEPT ![i] = slot] \in [Handles -> Slots]
           /\ Put([sl EXCEPT ![i] = slot], sl, i, slot)
  BY DEF Put

\* What it does to the number of handles in the slots.
LEMMA SlotPut ==
    ASSUME NEW sl \in [Handles -> Slots], NEW i \in Handles, NEW slot \in Slots,
           NEW tl \in [Handles -> Slots], Put(tl, sl, i, slot), NEW h
    PROVE  Within(tl, h) + InTrees(h, sl[i].trees) = Within(sl, h) + InTrees(h, slot.trees)
  <1>1. tl[i] = slot /\ \A s \in Handles : s # i => tl[s] = sl[s]
    BY DEF Put
  <1>2. Elsewhere(tl, i, h) = Elsewhere(sl, i, h)
    BY <1>1 DEF Elsewhere, InSlots
  <1>3. PICK n \in Nat, a \in Nat :
           Cardinality(Elsewhere(sl, i, h)) = n /\ InTrees(h, sl[i].trees) = a /\ Within(sl, h) = n + a
    BY SlotsApart
  <1>4. /\ Within(tl, h) = Cardinality(Elsewhere(tl, i, h)) + InTrees(h, tl[i].trees)
        /\ InTrees(h, tl[i].trees) \in Nat
    BY <1>1, SlotsApart
  <1>5. PICK b \in Nat : InTrees(h, slot.trees) = b /\ Within(tl, h) = n + b
    BY <1>1, <1>2, <1>3, <1>4
  <1> QED  BY <1>1, <1>3, <1>5

(***************************************************************************)
(* What may be done to the store.  In a sound store the slots without a    *)
(* handle are the free ones and those never used, and they are empty.      *)
(***************************************************************************)

Sound(sl, fr, ln) ==
    /\ sl \in [Handles -> Slots]
    /\ ln \in 0..MaxSlots
    /\ fr \subseteq 1..ln
    /\ \A h \in Handles : (sl[h].handles = 0) = (h \in fr \/ h > ln)
    /\ \A h \in Handles : sl[h].handles = 0 => sl[h] = Dead

Unused(i, fr, ln) == i \in Handles /\ IF fr = {} THEN i = ln + 1 ELSE i \in fr

\* A slot is taken, with one handle.
LEMMA StoreTake ==
    ASSUME NEW sl, NEW fr, NEW ln, Sound(sl, fr, ln), NEW i, Unused(i, fr, ln),
           NEW slot \in Slots, slot.handles = 1,
           NEW tl \in [Handles -> Slots], Put(tl, sl, i, slot),
           NEW lm, lm = IF i > ln THEN i ELSE ln
    PROVE  /\ Sound(tl, fr \ {i}, lm)
           /\ \A h \in Handles : /\ tl[h].handles = sl[h].handles + One(i, h)
                                 /\ Within(tl, h) = Within(sl, h) + InTrees(h, slot.trees)
           /\ sl[i].handles = 0
  <1>1. i \in Handles /\ i \in Nat /\ ln \in Nat
    BY BoundAssumption DEF Unused, Handles, Sound
  <1>2. sl \in [Handles -> Slots] /\ tl[i] = slot /\ \A s \in Handles : s # i => tl[s] = sl[s]
    BY DEF Sound, Put
  <1>3. sl[i] = Dead
    BY <1>1 DEF Sound, Unused
  <1>4. sl[i].handles = 0 /\ sl[i].trees = <<>>
    BY <1>3 DEF Dead
  <1>5. lm \in 0..MaxSlots /\ fr \ {i} \subseteq 1..lm
    BY <1>1, BoundAssumption DEF Sound, Handles
  <1>6. ASSUME NEW h \in Handles
        PROVE  /\ (tl[h].handles = 0) = (h \in fr \ {i} \/ h > lm)
               /\ tl[h].handles = 0 => tl[h] = Dead
    <2>1. CASE h = i
      <3>1. tl[h].handles = 1 /\ h \notin fr \ {i} /\ ~(h > lm)
        BY <1>1, <1>2, <2>1
      <3> QED  BY <3>1
    <2>2. CASE h # i
      <3>1. tl[h] = sl[h]
        BY <1>2, <2>2
      <3>2. (h > lm) = (h > ln)
        BY <1>1, <2>2 DEF Sound, Unused, Handles
      <3>3. h \in fr \ {i} <=> h \in fr
        BY <2>2
      <3> QED  BY <3>1, <3>2, <3>3 DEF Sound
    <2> QED  BY <2>1, <2>2
  <1>7. ASSUME NEW h \in Handles
        PROVE  /\ tl[h].handles = sl[h].handles + One(i, h)
               /\ Within(tl, h) = Within(sl, h) + InTrees(h, slot.trees)
    <2>1. tl[h].handles = sl[h].handles + One(i, h)
      <3>1. CASE h = i
        BY <1>2, <1>4, <3>1 DEF One
      <3>2. CASE h # i
        <4>1. tl[h] = sl[h] /\ sl[h].handles \in Nat
          BY <1>2, <3>2 DEF Slots
        <4> QED  BY <3>2, <4>1 DEF One
      <3> QED  BY <3>1, <3>2
    <2>2. Within(tl, h) + InTrees(h, <<>>) = Within(sl, h) + InTrees(h, slot.trees)
      <3>1. Within(tl, h) + InTrees(h, sl[i].trees) = Within(sl, h) + InTrees(h, slot.trees)
        BY <1>1, <1>2, SlotPut
      <3> QED  BY <1>4, <3>1
    <2>3. Within(tl, h) \in Nat
      BY WithinNat
    <2> QED  BY <2>1, <2>2, <2>3, TreesNone
  <1> QED  BY <1>2, <1>4, <1>5, <1>6, <1>7 DEF Sound

\* Handles of slots in use are cloned.
LEMMA StoreClone ==
    ASSUME NEW sl, NEW fr, NEW ln, Sound(sl, fr, ln), NEW hs \in Seq(Streams),
           \A h \in Handles : sl[h].handles = 0 => Times(h, hs) = 0,
           NEW tl, tl = Cloned(sl, hs)
    PROVE  /\ Sound(tl, fr, ln)
           /\ \A h \in Handles : /\ tl[h].handles = sl[h].handles + Times(h, hs)
                                 /\ tl[h].trees = sl[h].trees
                                 /\ Within(tl, h) = Within(sl, h)
  <1>1. sl \in [Handles -> Slots] /\ \A h \in Handles : Times(h, hs) \in Nat
    BY TimesNat DEF Sound
  <1>2. ASSUME NEW h \in Handles
        PROVE  /\ tl[h] \in Slots
               /\ tl[h].handles = sl[h].handles + Times(h, hs)
               /\ tl[h].trees = sl[h].trees
               /\ tl[h].hidden = sl[h].hidden
    BY <1>1 DEF Cloned, Slots
  <1>3. tl \in [Handles -> Slots]
    BY <1>2 DEF Cloned
  <1>4. ASSUME NEW h \in Handles
        PROVE  /\ (tl[h].handles = 0) = (sl[h].handles = 0)
               /\ tl[h].handles = 0 => tl[h] = sl[h]
    <2>1. PICK n \in Nat, t \in Nat : n = sl[h].handles /\ t = Times(h, hs)
      BY <1>1 DEF Slots
    <2>2. tl[h].handles = n + t /\ (n = 0 => t = 0)
      BY <1>2, <2>1
    <2>3. sl[h] \in Slots
      BY <1>1
    <2>4. (tl[h].handles = 0) = (sl[h].handles = 0)
      BY <2>1, <2>2
    <2>5. ASSUME tl[h].handles = 0 PROVE tl[h] = sl[h]
      <3>1. tl[h].handles = sl[h].handles
        BY <2>4, <2>5
      <3> QED  BY <1>2, <2>3, <3>1 DEF Slots
    <2> QED  BY <2>4, <2>5
  <1>5. Sound(tl, fr, ln)
    BY <1>3, <1>4 DEF Sound
  <1>6. ASSUME NEW h \in Handles PROVE Within(tl, h) = Within(sl, h)
    <2>1. InSlots(tl, h) = InSlots(sl, h)
      BY <1>2 DEF InSlots
    <2> QED  BY <2>1 DEF Within
  <1> QED  BY <1>2, <1>5, <1>6

\* The trees of a slot in use, or the note on it, change.
LEMMA StoreWrite ==
    ASSUME NEW sl, NEW fr, NEW ln, Sound(sl, fr, ln), NEW i \in Handles, sl[i].handles # 0,
           NEW slot \in Slots, slot.handles = sl[i].handles,
           NEW tl \in [Handles -> Slots], Put(tl, sl, i, slot)
    PROVE  /\ Sound(tl, fr, ln)
           /\ \A h \in Handles :
                 /\ tl[h].handles = sl[h].handles
                 /\ Within(tl, h) + InTrees(h, sl[i].trees) = Within(sl, h) + InTrees(h, slot.trees)
  <1>1. sl \in [Handles -> Slots]
    BY DEF Sound
  <1>2. tl[i] = slot /\ \A s \in Handles : s # i => tl[s] = sl[s]
    BY DEF Put
  <1>3. Sound(tl, fr, ln)
    BY <1>1, <1>2 DEF Sound
  <1>4. \A h \in Handles : tl[h].handles = sl[h].handles
    BY <1>2
  <1>5. ASSUME NEW h \in Handles
        PROVE  Within(tl, h) + InTrees(h, sl[i].trees) = Within(sl, h) + InTrees(h, slot.trees)
    BY <1>1, SlotPut
  <1> QED  BY <1>3, <1>4, <1>5

\* A slot loses a handle, which is not its last.
LEMMA StoreLess ==
    ASSUME NEW sl, NEW fr, NEW ln, Sound(sl, fr, ln), NEW i \in Handles,
           sl[i].handles # 0, sl[i].handles # 1,
           NEW tl \in [Handles -> Slots],
           Put(tl, sl, i, [sl[i] EXCEPT !.handles = sl[i].handles - 1])
    PROVE  /\ Sound(tl, fr, ln)
           /\ \A h \in Handles : /\ tl[h].handles + One(i, h) = sl[h].handles
                                 /\ Within(tl, h) = Within(sl, h)
  <1>1. sl \in [Handles -> Slots]
    BY DEF Sound
  <1>2. PICK n \in Nat : sl[i].handles = n + 2
    <2>1. sl[i].handles \in Nat
      BY <1>1 DEF Slots
    <2>2. sl[i].handles - 2 \in Nat /\ sl[i].handles = (sl[i].handles - 2) + 2
      BY <2>1
    <2> QED  BY <2>2
  <1>3. tl[i] \in Slots /\ tl[i].handles = n + 1 /\ tl[i].trees = sl[i].trees
    <2>1. tl[i] = [sl[i] EXCEPT !.handles = sl[i].handles - 1] /\ sl[i] \in Slots
      BY <1>1 DEF Put
    <2>2. tl[i] = [sl[i] EXCEPT !.handles = n + 1]
      <3>1. (n + 2) - 1 = n + 1
        OBVIOUS
      <3> QED  BY <1>2, <2>1, <3>1
    <2> QED  BY <2>1, <2>2 DEF Slots
  <1>4. \A h \in Handles : h # i => tl[h] = sl[h]
    BY DEF Put
  <1>5. Sound(tl, fr, ln)
    BY <1>2, <1>3, <1>4 DEF Sound
  <1>6. ASSUME NEW h \in Handles PROVE tl[h].handles + One(i, h) = sl[h].handles
    <2>1. CASE h = i
      BY <1>2, <1>3, <2>1 DEF One
    <2>2. CASE h # i
      <3>1. tl[h] = sl[h] /\ sl[h].handles \in Nat
        BY <1>1, <1>4, <2>2 DEF Slots
      <3> QED  BY <2>2, <3>1 DEF One
    <2> QED  BY <2>1, <2>2
  <1>7. ASSUME NEW h \in Handles PROVE Within(tl, h) = Within(sl, h)
    <2>1. \A s \in Handles : tl[s].trees = sl[s].trees
      BY <1>3, <1>4
    <2>2. InSlots(tl, h) = InSlots(sl, h)
      BY <2>1 DEF InSlots
    <2> QED  BY <2>2 DEF Within
  <1> QED  BY <1>5, <1>6, <1>7

\* A slot loses its last handle, is emptied and freed.
LEMMA StoreFree ==
    ASSUME NEW sl, NEW fr, NEW ln, Sound(sl, fr, ln), NEW i \in Handles, sl[i].handles = 1,
           NEW tl \in [Handles -> Slots], Put(tl, sl, i, Dead)
    PROVE  Sound(tl, fr \cup {i}, ln)
  <1>1. sl \in [Handles -> Slots] /\ Dead.handles = 0
    BY DEF Sound, Dead
  <1>2. tl[i] = Dead /\ \A h \in Handles : h # i => tl[h] = sl[h]
    BY DEF Put
  <1>3. i \in 1..ln
    <2>1. i \notin fr /\ ~(i > ln)
      BY DEF Sound
    <2> QED  BY <2>1, BoundAssumption DEF Handles, Sound
  <1> QED  BY <1>1, <1>2, <1>3 DEF Sound

\* Its handles are one less, and those in its trees leave the slots.
LEMMA FreeCounts ==
    ASSUME NEW sl \in [Handles -> Slots], NEW i \in Handles, sl[i].handles = 1,
           NEW tl \in [Handles -> Slots], Put(tl, sl, i, Dead), NEW h \in Handles
    PROVE  /\ tl[h].handles + One(i, h) = sl[h].handles
           /\ Within(tl, h) + InTrees(h, sl[i].trees) = Within(sl, h)
  <1>1. Dead \in Slots /\ Dead.handles = 0 /\ Dead.trees = <<>>
    BY DEF Dead, Slots
  <1>2. tl[i] = Dead /\ \A s \in Handles : s # i => tl[s] = sl[s]
    BY DEF Put
  <1>3. tl[h].handles + One(i, h) = sl[h].handles
    <2>1. CASE h = i
      BY <1>1, <1>2, <2>1 DEF One
    <2>2. CASE h # i
      <3>1. tl[h] = sl[h] /\ sl[h].handles \in Nat
        BY <1>2, <2>2 DEF Slots
      <3> QED  BY <2>2, <3>1 DEF One
    <2> QED  BY <2>1, <2>2
  <1>4. Within(tl, h) + InTrees(h, sl[i].trees) = Within(sl, h) + InTrees(h, Dead.trees)
    BY <1>1, SlotPut
  <1>5. Within(sl, h) \in Nat /\ InTrees(h, Dead.trees) = 0
    BY <1>1, WithinNat, TreesNone
  <1> QED  BY <1>3, <1>4, <1>5

(***************************************************************************)
(* The invariant.                                                          *)
(***************************************************************************)

Exts == [at : {"none", "change", "push", "pull"}, v : Vars \cup {"none"},
         items : Seq(Trees), more : BOOLEAN]

Typed == /\ var \in [Vars -> Streams]
         /\ held \in Seq(Trees)
         /\ ext \in Exts
         /\ stale \in BOOLEAN
         /\ drops \in Seq(Streams)

\* An `extend` has the variable it is given and, once trees_mut has returned, a
\* slot to write to.  Without lazy groups no reference into SLOTS goes stale.
ExtInv == /\ ext.at = "none" => ext = NoExt
          /\ ext.at # "none" => ext.v \in Vars
          /\ ext.at \in {"push", "pull"} => var[ext.v] # 0
          /\ ext.at = "pull" => ext.items = <<>>
          /\ ~LazyGroups => ~stale

\* No slot has more handles than it counts, and with no stale reference to lose
\* one through it has exactly as many.
CountInv == \A h \in Handles : /\ References(h) <= slots[h].handles
                               /\ ~LazyGroups => slots[h].handles = References(h)

StreamInv == Typed /\ Sound(slots, free, len) /\ ExtInv /\ CountInv

\* A step gives a slot as many counts as it makes handles.
Balanced == \A h \in Handles : slots'[h].handles + References(h) = slots[h].handles + References(h)'

\* All the counts are numbers.
LEMMA Numbers ==
    ASSUME NEW f, NEW hd \in Seq(Trees), NEW it \in Seq(Trees), NEW dr \in Seq(Streams),
           NEW sl \in [Handles -> Slots], NEW h \in Handles
    PROVE  /\ InVars(f, h) \in Nat /\ InTrees(h, hd) \in Nat /\ InTrees(h, it) \in Nat
           /\ Times(h, dr) \in Nat /\ Within(sl, h) \in Nat /\ sl[h].handles \in Nat
  BY VarsNat, TreesNat, TimesNat, WithinNat DEF Slots

\* So is one or none.
LEMMA OneNat ==
    ASSUME NEW x, NEW h
    PROVE  One(x, h) \in Nat
  BY DEF One

\* The references to h, by where they are.
LEMMA ReferencesSum ==
    ASSUME NEW h
    PROVE  References(h) = InVars(var, h) + InTrees(h, held) + InTrees(h, ext.items)
                           + Times(h, drops) + Within(slots, h)
  BY DEF References, InVars, InTrees, Within

\* The same in the next state.
LEMMA ReferencesNext ==
    ASSUME NEW h
    PROVE  References(h)' = InVars(var', h) + InTrees(h, held') + InTrees(h, ext'.items)
                            + Times(h, drops') + Within(slots', h)
  BY DEF References, InVars, InTrees, Within

\* A balanced step keeps the counts right.
LEMMA BalanceKeeps ==
    ASSUME StreamInv, Typed', slots' \in [Handles -> Slots], Balanced
    PROVE  CountInv'
  <1> SUFFICES ASSUME NEW h \in Handles
               PROVE  /\ References(h)' <= slots'[h].handles
                      /\ ~LazyGroups => slots'[h].handles = References(h)'
    BY DEF CountInv
  <1>1. PICK r \in Nat, n \in Nat : r = References(h) /\ n = slots[h].handles
    <2>1. /\ ext.items \in Seq(Trees) /\ held \in Seq(Trees) /\ drops \in Seq(Streams)
          /\ slots \in [Handles -> Slots]
      BY DEF StreamInv, Typed, Exts, Sound
    <2>2. PICK a \in Nat, b \in Nat, c \in Nat, d \in Nat, e \in Nat :
             /\ a = InVars(var, h) /\ b = InTrees(h, held) /\ c = InTrees(h, ext.items)
             /\ d = Times(h, drops) /\ e = Within(slots, h)
      BY <2>1, Numbers
    <2>3. a + b + c + d + e \in Nat
      OBVIOUS
    <2>4. slots[h].handles \in Nat
      BY <2>1, Numbers
    <2> QED  BY <2>2, <2>3, <2>4, ReferencesSum
  <1>2. References(h)' \in Nat /\ slots'[h].handles \in Nat
    <2>1. ext'.items \in Seq(Trees) /\ held' \in Seq(Trees) /\ drops' \in Seq(Streams)
      BY DEF Typed, Exts
    <2>2. PICK a \in Nat, b \in Nat, c \in Nat, d \in Nat, e \in Nat :
             /\ a = InVars(var', h) /\ b = InTrees(h, held') /\ c = InTrees(h, ext'.items)
             /\ d = Times(h, drops') /\ e = Within(slots', h)
      BY <2>1, Numbers
    <2>3. a + b + c + d + e \in Nat
      OBVIOUS
    <2>4. slots'[h].handles \in Nat
      BY <2>1, Numbers
    <2> QED  BY <2>2, <2>3, <2>4, ReferencesNext
  <1>3. PICK rr \in Nat, nn \in Nat : rr = References(h)' /\ nn = slots'[h].handles
    BY <1>2
  <1>4. nn + r = n + rr
    BY <1>1, <1>3 DEF Balanced
  <1>5. r <= n /\ (~LazyGroups => n = r)
    BY <1>1 DEF StreamInv, CountInv
  <1>6. rr <= nn /\ (~LazyGroups => nn = rr)
    BY <1>4, <1>5
  <1> QED  BY <1>3, <1>6

\* Nothing refers to a slot without handles.
LEMMA DeadUnseen ==
    ASSUME StreamInv, NEW h \in Handles, slots[h].handles = 0
    PROVE  /\ InVars(var, h) = 0 /\ InTrees(h, held) = 0 /\ InTrees(h, ext.items) = 0
           /\ Times(h, drops) = 0 /\ Within(slots, h) = 0
  <1>1. /\ ext.items \in Seq(Trees) /\ held \in Seq(Trees) /\ drops \in Seq(Streams)
        /\ slots \in [Handles -> Slots]
    BY DEF StreamInv, Typed, Exts, Sound
  <1>2. PICK a \in Nat, b \in Nat, c \in Nat, d \in Nat, e \in Nat :
           /\ a = InVars(var, h) /\ b = InTrees(h, held) /\ c = InTrees(h, ext.items)
           /\ d = Times(h, drops) /\ e = Within(slots, h)
    BY <1>1, Numbers
  <1>3. a + b + c + d + e <= 0
    BY <1>2, ReferencesSum DEF StreamInv, CountInv
  <1>4. a = 0 /\ b = 0 /\ c = 0 /\ d = 0 /\ e = 0
    BY <1>3
  <1> QED  BY <1>2, <1>4

\* What a variable holds is a slot in use.
LEMMA VarAlive ==
    ASSUME StreamInv, NEW v \in Vars, NEW h \in Handles
    PROVE  /\ slots[h].handles = 0 => One(var[v], h) = 0
           /\ var[v] = h => slots[h].handles # 0
  <1>1. ASSUME slots[h].handles = 0 PROVE One(var[v], h) = 0
    <2>1. InVars(var, h) = 0
      BY <1>1, DeadUnseen
    <2>2. PICK n \in Nat : InVars(var, h) = n + One(var[v], h)
      BY VarsApart
    <2>3. PICK o \in Nat : o = One(var[v], h)
      BY OneNat
    <2> QED  BY <2>1, <2>2, <2>3
  <1> QED  BY <1>1 DEF One

\* So are the streams in the trees of a slot.
LEMMA TreesAlive ==
    ASSUME StreamInv, NEW i \in Handles, NEW h \in Handles, slots[h].handles = 0
    PROVE  InTrees(h, slots[i].trees) = 0
  <1>1. Within(slots, h) = 0
    BY DeadUnseen
  <1>2. slots \in [Handles -> Slots]
    BY DEF StreamInv, Sound
  <1>3. PICK n \in Nat, m \in Nat : m = InTrees(h, slots[i].trees) /\ Within(slots, h) = n + m
    BY <1>2, SlotsApart
  <1>4. m = 0
    BY <1>1, <1>3
  <1> QED  BY <1>3, <1>4

\* What the constructors of trees and slots make.
LEMMA TreeTypes ==
    /\ \A t \in Toks : Leaf(t) \in Trees /\ StreamOf(Leaf(t)) = 0
    /\ \A x \in Streams, b \in BOOLEAN : Group(x, b) \in Trees /\ StreamOf(Group(x, b)) = x
    /\ \A ts \in Seq(Trees), b \in BOOLEAN : /\ Slot(ts, b) \in Slots
                                            /\ Slot(ts, b).handles = 1
                                            /\ Slot(ts, b).trees = ts
    /\ \A h \in Handles : One(0, h) = 0 /\ h \in Streams
  BY BoundAssumption DEF Leaf, Group, Slot, Slots, Trees, StreamOf, One, Handles, Streams

\* The index allocate_spaced takes is one not in use.
LEMMA FreeUnused ==
    ASSUME NEW i \in Handles, Free(i)
    PROVE  Unused(i, free, len)
  BY DEF Free, First, Unused

(***************************************************************************)
(* One lemma per action.                                                   *)
(***************************************************************************)

\* What a step may do to the store and to the variables keeps the invariant when
\* types, the store and `extend` stay in order and the counts balance.
Kept == Typed' /\ Sound(slots', free', len') /\ ExtInv' /\ Balanced

\* The counts before and after a step are numbers.
LEMMA Naturals ==
    ASSUME StreamInv, Typed', slots' \in [Handles -> Slots], NEW h \in Handles
    PROVE  /\ InVars(var, h) \in Nat /\ InVars(var', h) \in Nat
           /\ InTrees(h, held) \in Nat /\ InTrees(h, held') \in Nat
           /\ InTrees(h, ext.items) \in Nat /\ InTrees(h, ext'.items) \in Nat
           /\ Times(h, drops) \in Nat /\ Times(h, drops') \in Nat
           /\ Within(slots, h) \in Nat /\ Within(slots', h) \in Nat
           /\ slots[h].handles \in Nat /\ slots'[h].handles \in Nat
  <1>1. /\ ext.items \in Seq(Trees) /\ held \in Seq(Trees) /\ drops \in Seq(Streams)
        /\ slots \in [Handles -> Slots]
    BY DEF StreamInv, Typed, Exts, Sound
  <1>2. ext'.items \in Seq(Trees) /\ held' \in Seq(Trees) /\ drops' \in Seq(Streams)
    BY DEF Typed, Exts
  <1> QED  BY <1>1, <1>2, Numbers

\* A sequence of one tree.
LEMMA OneTree ==
    ASSUME NEW t \in Trees
    PROVE  <<t>> \in Seq(Trees)
  OBVIOUS

\* The handles of a stream that is dropped or cloned.
LEMMA TimesOwnType ==
    ASSUME NEW x \in Streams
    PROVE  Own(x) \in Seq(Streams)
  BY DEF Own

\* Between operations nothing is being dropped or extended with.
LEMMA IdleNone ==
    ASSUME Idle, NEW h
    PROVE  Times(h, drops) = 0 /\ InTrees(h, ext.items) = 0
  <1>1. drops = <<>> /\ ext.items = <<>>
    BY DEF Idle, NoExt
  <1> QED  BY <1>1, TimesNone, TreesNone

\* The counts of a slot and the handles to it, before and after a step: in the
\* variables, the trees in hand, those of `extend`, the drops and the slots.
Tallied(h, n, a, b, c, d, e, nn, aa, bb, cc, dd, ee) ==
    /\ n = slots[h].handles /\ nn = slots'[h].handles
    /\ a = InVars(var, h) /\ aa = InVars(var', h)
    /\ b = InTrees(h, held) /\ bb = InTrees(h, held')
    /\ c = InTrees(h, ext.items) /\ cc = InTrees(h, ext'.items)
    /\ d = Times(h, drops) /\ dd = Times(h, drops')
    /\ e = Within(slots, h) /\ ee = Within(slots', h)
    /\ References(h) = a + b + c + d + e
    /\ References(h)' = aa + bb + cc + dd + ee

\* There are such numbers in every step that keeps the types.
LEMMA Tally ==
    ASSUME StreamInv, Typed', slots' \in [Handles -> Slots], NEW h \in Handles
    PROVE  \E n, a, b, c, d, e, nn, aa, bb, cc, dd, ee \in Nat :
              Tallied(h, n, a, b, c, d, e, nn, aa, bb, cc, dd, ee)
  <1>1. Tallied(h, slots[h].handles, InVars(var, h), InTrees(h, held), InTrees(h, ext.items),
                Times(h, drops), Within(slots, h),
                slots'[h].handles, InVars(var', h), InTrees(h, held'), InTrees(h, ext'.items),
                Times(h, drops'), Within(slots', h))
    BY ReferencesSum, ReferencesNext DEF Tallied
  <1> QED  BY <1>1, Naturals, Zenon

\* v is assigned a stream.
Assigned(g, f, v, x) == /\ f \in [Vars -> Streams] /\ g \in [Vars -> Streams]
                        /\ g[v] = x /\ \A u \in Vars \ {v} : g[u] = f[u]

\* An EXCEPT is an assignment.
LEMMA AssignExcept ==
    ASSUME NEW f \in [Vars -> Streams], NEW v \in Vars, NEW x \in Streams
    PROVE  Assigned([f EXCEPT ![v] = x], f, v, x)
  BY DEF Assigned

\* What an assignment does to the number of handles in variables.
LEMMA VarAssign ==
    ASSUME NEW f, NEW g, NEW v \in Vars, NEW x, Assigned(g, f, v, x), NEW h
    PROVE  InVars(g, h) + One(f[v], h) = InVars(f, h) + One(x, h)
  BY VarPut DEF Assigned

\* Slot i is written.
Filled(i, slot) == slots' = [slots EXCEPT ![i] = slot]

\* A freed or a new slot is taken for some trees.
LEMMA StoreAllocate ==
    ASSUME Sound(slots, free, len), NEW i \in Handles, Free(i), Taken(i),
           NEW ts \in Seq(Trees), NEW b \in BOOLEAN, Filled(i, Slot(ts, b))
    PROVE  /\ slots' \in [Handles -> Slots] /\ i \in Streams
           /\ Sound(slots', free', len')
           /\ \A h \in Handles : /\ slots'[h].handles = slots[h].handles + One(i, h)
                                 /\ Within(slots', h) = Within(slots, h) + InTrees(h, ts)
  <1> DEFINE slot == Slot(ts, b)
  <1>1. slot \in Slots /\ slot.handles = 1 /\ slot.trees = ts /\ i \in Streams
    BY TreeTypes
  <1> HIDE DEF slot
  <1>2. slots' \in [Handles -> Slots] /\ Put(slots', slots, i, slot)
    BY <1>1, SlotExcept DEF Sound, Filled, slot
  <1>3. Unused(i, free, len) /\ free' = free \ {i} /\ len' = (IF i > len THEN i ELSE len)
    BY FreeUnused DEF Taken
  <1>4. /\ Sound(slots', free', len')
        /\ \A h \in Handles : /\ slots'[h].handles = slots[h].handles + One(i, h)
                              /\ Within(slots', h) = Within(slots, h) + InTrees(h, slot.trees)
    BY <1>1, <1>2, <1>3, StoreTake
  <1> QED  BY <1>1, <1>2, <1>4

\* From<TokenTree>: the new slot's handle goes to v, the old one of v to the drops.
LEMMA FromKeeps ==
    ASSUME StreamInv, NEW v \in Vars, From(v)
    PROVE  Kept
  <1>1. PICK t \in Toks, i \in Handles : Allocate(v, i, Slot(<<Leaf(t)>>, FALSE))
    BY DEF From
  <1>2. Sound(slots, free, len) /\ var \in [Vars -> Streams] /\ <<Leaf(t)>> \in Seq(Trees)
    BY TreeTypes DEF StreamInv, Typed
  <1>3. /\ slots' \in [Handles -> Slots] /\ i \in Streams
        /\ Sound(slots', free', len')
        /\ \A h \in Handles : /\ slots'[h].handles = slots[h].handles + One(i, h)
                              /\ Within(slots', h) = Within(slots, h) + InTrees(h, <<Leaf(t)>>)
    BY <1>1, <1>2, StoreAllocate DEF Allocate, Filled
  <1>4. Assigned(var', var, v, i)
    BY <1>1, <1>2, <1>3, AssignExcept DEF Allocate
  <1>5. held' = held /\ ext' = ext /\ stale' = stale /\ drops' = Own(var[v])
    BY DEF From
  <1>6. Typed'
    <2>1. drops' \in Seq(Streams)
      BY <1>2, <1>5, TimesOwn
    <2> QED  BY <1>4, <1>5, <2>1 DEF StreamInv, Typed, Assigned
  <1>7. ExtInv'
    BY <1>5 DEF StreamInv, ExtInv, From, Idle, NoExt
  <1>8. Balanced
    <2> SUFFICES ASSUME NEW h \in Handles
                 PROVE  slots'[h].handles + References(h) = slots[h].handles + References(h)'
      BY DEF Balanced
    <2>1. Times(h, drops') = One(var[v], h)
      BY <1>2, <1>5, TimesOwn
    <2>2. InTrees(h, <<Leaf(t)>>) = 0
      BY TreesOne, TreeTypes
    <2>3. Times(h, drops) = 0
      BY IdleNone DEF From
    <2>4. InVars(var', h) + One(var[v], h) = InVars(var, h) + One(i, h)
      BY <1>4, VarAssign
    <2>5. PICK n, a, b, c, d, e, nn, aa, bb, cc, dd, ee \in Nat :
             Tallied(h, n, a, b, c, d, e, nn, aa, bb, cc, dd, ee)
      BY <1>3, <1>6, Tally
    <2>6. PICK p, q \in Nat : p = One(var[v], h) /\ q = One(i, h)
      BY OneNat
    <2>7. /\ nn = n + q /\ aa + p = a + q /\ bb = b /\ cc = c
          /\ d = 0 /\ dd = p /\ ee = e + 0
      BY <1>3, <1>5, <2>1, <2>2, <2>3, <2>4, <2>5, <2>6 DEF Tallied
    <2>8. nn + (a + b + c + d + e) = n + (aa + bb + cc + dd + ee)
      BY <2>7
    <2> QED  BY <2>5, <2>8 DEF Tallied
  <1> QED  BY <1>3, <1>6, <1>7, <1>8 DEF Kept

\* FromIterator: the trees in hand move into the new slot.
LEMMA CollectKeeps ==
    ASSUME StreamInv, NEW w \in Vars, Collect(w)
    PROVE  Kept
  <1>1. PICK i \in Handles : Allocate(w, i, Slot(held, FALSE))
    BY DEF Collect
  <1>2. Sound(slots, free, len) /\ var \in [Vars -> Streams] /\ held \in Seq(Trees)
    BY DEF StreamInv, Typed
  <1>3. /\ slots' \in [Handles -> Slots] /\ i \in Streams
        /\ Sound(slots', free', len')
        /\ \A h \in Handles : /\ slots'[h].handles = slots[h].handles + One(i, h)
                              /\ Within(slots', h) = Within(slots, h) + InTrees(h, held)
    BY <1>1, <1>2, StoreAllocate DEF Allocate, Filled
  <1>4. Assigned(var', var, w, i)
    BY <1>1, <1>2, <1>3, AssignExcept DEF Allocate
  <1>5. held' = <<>> /\ ext' = ext /\ stale' = stale /\ drops' = Own(var[w])
    BY DEF Collect
  <1>6. Typed'
    <2>1. drops' \in Seq(Streams)
      BY <1>2, <1>5, TimesOwn
    <2> QED  BY <1>4, <1>5, <2>1 DEF StreamInv, Typed, Assigned
  <1>7. ExtInv'
    BY <1>5 DEF StreamInv, ExtInv, Collect, Idle, NoExt
  <1>8. Balanced
    <2> SUFFICES ASSUME NEW h \in Handles
                 PROVE  slots'[h].handles + References(h) = slots[h].handles + References(h)'
      BY DEF Balanced
    <2>1. Times(h, drops') = One(var[w], h)
      BY <1>2, <1>5, TimesOwn
    <2>2. InTrees(h, held') = 0
      BY <1>5, TreesNone
    <2>3. Times(h, drops) = 0
      BY IdleNone DEF Collect
    <2>4. InVars(var', h) + One(var[w], h) = InVars(var, h) + One(i, h)
      BY <1>4, VarAssign
    <2>5. PICK n, a, b, c, d, e, nn, aa, bb, cc, dd, ee \in Nat :
             Tallied(h, n, a, b, c, d, e, nn, aa, bb, cc, dd, ee)
      BY <1>3, <1>6, Tally
    <2>6. PICK p, q \in Nat : p = One(var[w], h) /\ q = One(i, h)
      BY OneNat
    <2>7. /\ nn = n + q /\ aa + p = a + q /\ bb = 0 /\ cc = c
          /\ d = 0 /\ dd = p /\ ee = e + b
      BY <1>3, <1>5, <2>1, <2>2, <2>3, <2>4, <2>5, <2>6 DEF Tallied
    <2>8. nn + (a + b + c + d + e) = n + (aa + bb + cc + dd + ee)
      BY <2>7
    <2> QED  BY <2>5, <2>8 DEF Tallied
  <1> QED  BY <1>3, <1>6, <1>7, <1>8 DEF Kept

\* Group::new: the handle of v moves from the variable into the new slot's tree.
LEMMA WrapKeeps ==
    ASSUME StreamInv, NEW v \in Vars, NEW w \in Vars, Wrap(v, w)
    PROVE  Kept
  <1>1. PICK i \in Handles : /\ Free(i) /\ Taken(i)
                            /\ slots' = [slots EXCEPT ![i] = Slot(<<Group(var[v], FALSE)>>, FALSE)]
                            /\ var' = [var EXCEPT ![v] = 0, ![w] = i]
    BY DEF Wrap
  <1>2. /\ Sound(slots, free, len) /\ var \in [Vars -> Streams] /\ 0 \in Streams
        /\ var[v] \in Streams /\ <<Group(var[v], FALSE)>> \in Seq(Trees)
    <2>1. 0 \in Streams
      BY BoundAssumption DEF Streams
    <2>2. Sound(slots, free, len) /\ var \in [Vars -> Streams] /\ var[v] \in Streams
      BY DEF StreamInv, Typed
    <2>3. Group(var[v], FALSE) \in Trees
      BY <2>2, TreeTypes
    <2>4. <<Group(var[v], FALSE)>> \in Seq(Trees)
      BY <2>3, OneTree
    <2> QED  BY <2>1, <2>2, <2>4
  <1>3. /\ slots' \in [Handles -> Slots] /\ i \in Streams
        /\ Sound(slots', free', len')
        /\ \A h \in Handles :
              /\ slots'[h].handles = slots[h].handles + One(i, h)
              /\ Within(slots', h) = Within(slots, h) + InTrees(h, <<Group(var[v], FALSE)>>)
    BY <1>1, <1>2, StoreAllocate DEF Filled
  \* v is emptied, then w is assigned.
  <1>4. PICK f : Assigned(f, var, v, 0) /\ f = [var EXCEPT ![v] = 0]
    BY <1>2, AssignExcept
  <1>5. Assigned(var', f, w, i)
    BY <1>1, <1>3, <1>4 DEF Assigned
  <1>6. /\ held' = held /\ ext' = ext /\ stale' = stale
        /\ drops' = Own(f[w]) /\ f[w] \in Streams
    <2>1. f[w] = IF v = w THEN 0 ELSE var[w]
      BY <1>4 DEF Assigned
    <2> QED  BY <1>2, <2>1 DEF Wrap, Own
  <1>7. Typed'
    <2>1. drops' \in Seq(Streams)
      BY <1>6, TimesOwn
    <2> QED  BY <1>5, <1>6, <2>1 DEF StreamInv, Typed, Assigned
  <1>8. ExtInv'
    BY <1>6 DEF StreamInv, ExtInv, Wrap, Idle, NoExt
  <1>9. Balanced
    <2> SUFFICES ASSUME NEW h \in Handles
                 PROVE  slots'[h].handles + References(h) = slots[h].handles + References(h)'
      BY DEF Balanced
    <2>1. Times(h, drops') = One(f[w], h)
      BY <1>6, TimesOwn
    <2>2. InTrees(h, <<Group(var[v], FALSE)>>) = One(var[v], h) /\ One(0, h) = 0
      BY <1>2, TreesOne, TreeTypes
    <2>3. Times(h, drops) = 0
      BY IdleNone DEF Wrap
    <2>4. InVars(f, h) + One(var[v], h) = InVars(var, h) + One(0, h)
      BY <1>4, VarAssign
    <2>5. InVars(var', h) + One(f[w], h) = InVars(f, h) + One(i, h)
      BY <1>5, VarAssign
    <2>6. PICK n, a, b, c, d, e, nn, aa, bb, cc, dd, ee \in Nat :
             Tallied(h, n, a, b, c, d, e, nn, aa, bb, cc, dd, ee)
      BY <1>3, <1>7, Tally
    <2>7. PICK p, q, r, m \in Nat : p = One(var[v], h) /\ q = One(i, h) /\ r = One(f[w], h) /\ m = InVars(f, h)
      BY OneNat, VarsNat
    <2>8. /\ nn = n + q /\ m + p = a + 0 /\ aa + r = m + q /\ bb = b /\ cc = c
          /\ d = 0 /\ dd = r /\ ee = e + p
      BY <1>3, <1>6, <2>1, <2>2, <2>3, <2>4, <2>5, <2>6, <2>7 DEF Tallied
    <2>9. nn + (a + b + c + d + e) = n + (aa + bb + cc + dd + ee)
      BY <2>8
    <2> QED  BY <2>6, <2>9 DEF Tallied
  <1> QED  BY <1>3, <1>7, <1>8, <1>9 DEF Kept

\* Clone: one count and one handle more.
LEMMA CloneKeeps ==
    ASSUME StreamInv, NEW v \in Vars, NEW w \in Vars, Clone(v, w)
    PROVE  Kept
  <1>1. /\ Sound(slots, free, len) /\ var \in [Vars -> Streams]
        /\ var[v] \in Streams /\ var[w] \in Streams /\ Own(var[v]) \in Seq(Streams)
    BY TimesOwnType DEF StreamInv, Typed
  <1>2. /\ slots' = Cloned(slots, Own(var[v]))
        /\ len' = len /\ free' = free /\ held' = held /\ ext' = ext /\ stale' = stale
        /\ drops' = Own(var[w])
    BY DEF Clone
  <1>3. ASSUME NEW h \in Handles
        PROVE  /\ Times(h, Own(var[v])) = One(var[v], h)
               /\ slots[h].handles = 0 => Times(h, Own(var[v])) = 0
    BY <1>1, VarAlive, TimesOwn
  <1>4. /\ Sound(slots', free', len') /\ slots' \in [Handles -> Slots]
        /\ \A h \in Handles : /\ slots'[h].handles = slots[h].handles + Times(h, Own(var[v]))
                              /\ Within(slots', h) = Within(slots, h)
    <2>1. /\ Sound(slots', free', len')
          /\ \A h \in Handles : /\ slots'[h].handles = slots[h].handles + Times(h, Own(var[v]))
                                /\ Within(slots', h) = Within(slots, h)
      BY <1>1, <1>2, <1>3, StoreClone
    <2> QED  BY <2>1 DEF Sound
  <1>5. Assigned(var', var, w, var[v])
    BY <1>1, AssignExcept DEF Clone
  <1>6. Typed'
    <2>1. drops' \in Seq(Streams)
      BY <1>1, <1>2, TimesOwnType
    <2> QED  BY <1>2, <1>5, <2>1 DEF StreamInv, Typed, Assigned
  <1>7. ExtInv'
    BY <1>2 DEF StreamInv, ExtInv, Clone, Idle, NoExt
  <1>8. Balanced
    <2> SUFFICES ASSUME NEW h \in Handles
                 PROVE  slots'[h].handles + References(h) = slots[h].handles + References(h)'
      BY DEF Balanced
    <2>1. Times(h, drops') = One(var[w], h)
      BY <1>1, <1>2, TimesOwn
    <2>2. Times(h, drops) = 0
      BY IdleNone DEF Clone
    <2>3. InVars(var', h) + One(var[w], h) = InVars(var, h) + One(var[v], h)
      BY <1>5, VarAssign
    <2>4. PICK n, a, b, c, d, e, nn, aa, bb, cc, dd, ee \in Nat :
             Tallied(h, n, a, b, c, d, e, nn, aa, bb, cc, dd, ee)
      BY <1>4, <1>6, Tally
    <2>5. PICK p, r \in Nat : p = One(var[v], h) /\ r = One(var[w], h)
      BY OneNat
    <2>6. /\ nn = n + p /\ aa + r = a + p /\ bb = b /\ cc = c
          /\ d = 0 /\ dd = r /\ ee = e
      BY <1>2, <1>3, <1>4, <2>1, <2>2, <2>3, <2>4, <2>5 DEF Tallied
    <2>7. nn + (a + b + c + d + e) = n + (aa + bb + cc + dd + ee)
      BY <2>6
    <2> QED  BY <2>4, <2>7 DEF Tallied
  <1> QED  BY <1>4, <1>6, <1>7, <1>8 DEF Kept

\* Group::stream: the same for the handle of a tree in hand.
LEMMA OpenKeeps ==
    ASSUME StreamInv, NEW w \in Vars, Open(w)
    PROVE  Kept
  <1> DEFINE x == StreamOf(Head(held))
  <1>1. /\ Sound(slots, free, len) /\ var \in [Vars -> Streams] /\ var[w] \in Streams
        /\ held \in Seq(Trees) /\ held # <<>> /\ x \in Streams
    <2>1. held \in Seq(Trees) /\ held # <<>>
      BY DEF StreamInv, Typed, Open
    <2>2. Head(held) \in Trees
      BY <2>1
    <2> QED  BY <2>1, <2>2, StreamType DEF StreamInv, Typed
  <1>2. /\ slots' = Cloned(slots, Own(x)) /\ var' = [var EXCEPT ![w] = x]
        /\ len' = len /\ free' = free /\ held' = held /\ ext' = ext /\ stale' = stale
        /\ drops' = Own(var[w])
    BY DEF Open, StreamOf
  <1> HIDE DEF x
  <1>3. ASSUME NEW h \in Handles
        PROVE  /\ Times(h, Own(x)) = One(x, h)
               /\ slots[h].handles = 0 => Times(h, Own(x)) = 0
    <2>1. Times(h, Own(x)) = One(x, h)
      BY <1>1, TimesOwn
    <2>2. PICK o, t \in Nat : o = One(x, h) /\ t = InTrees(h, Tail(held))
      <3>1. Tail(held) \in Seq(Trees)
        BY <1>1
      <3> QED  BY <3>1, OneNat, TreesNat
    <2>3. InTrees(h, held) = o + t
      BY <1>1, <2>2, TreesHead DEF x
    <2>4. slots[h].handles = 0 => o = 0
      BY <2>3, DeadUnseen
    <2> QED  BY <2>1, <2>2, <2>4
  <1>4. Own(x) \in Seq(Streams)
    BY <1>1, TimesOwnType
  <1>5. /\ Sound(slots', free', len') /\ slots' \in [Handles -> Slots]
        /\ \A h \in Handles : /\ slots'[h].handles = slots[h].handles + Times(h, Own(x))
                              /\ Within(slots', h) = Within(slots, h)
    <2>1. /\ Sound(slots', free', len')
          /\ \A h \in Handles : /\ slots'[h].handles = slots[h].handles + Times(h, Own(x))
                                /\ Within(slots', h) = Within(slots, h)
      BY <1>1, <1>2, <1>3, <1>4, StoreClone
    <2> QED  BY <2>1 DEF Sound
  <1>6. Assigned(var', var, w, x)
    BY <1>1, <1>2, AssignExcept
  <1>7. Typed'
    <2>1. drops' \in Seq(Streams)
      BY <1>1, <1>2, TimesOwnType
    <2> QED  BY <1>2, <1>6, <2>1 DEF StreamInv, Typed, Assigned
  <1>8. ExtInv'
    BY <1>2 DEF StreamInv, ExtInv, Open, Idle, NoExt
  <1>9. Balanced
    <2> SUFFICES ASSUME NEW h \in Handles
                 PROVE  slots'[h].handles + References(h) = slots[h].handles + References(h)'
      BY DEF Balanced
    <2>1. Times(h, drops') = One(var[w], h)
      BY <1>1, <1>2, TimesOwn
    <2>2. Times(h, drops) = 0
      BY IdleNone DEF Open
    <2>3. InVars(var', h) + One(var[w], h) = InVars(var, h) + One(x, h)
      BY <1>6, VarAssign
    <2>4. held' = held /\ ext' = ext
      BY <1>2
    <2>5. PICK n, a, b, c, d, e, nn, aa, bb, cc, dd, ee \in Nat :
             Tallied(h, n, a, b, c, d, e, nn, aa, bb, cc, dd, ee)
      BY <1>5, <1>7, Tally
    <2>6. PICK p, r \in Nat : p = One(x, h) /\ r = One(var[w], h)
      BY OneNat
    <2>7. /\ nn = n + p /\ aa + r = a + p /\ bb = b /\ cc = c
          /\ d = 0 /\ dd = r /\ ee = e
      BY <1>3, <1>5, <2>1, <2>2, <2>3, <2>4, <2>5, <2>6 DEF Tallied
    <2>8. nn + (a + b + c + d + e) = n + (aa + bb + cc + dd + ee)
      BY <2>7
    <2> QED  BY <2>5, <2>8 DEF Tallied
  <1> QED  BY <1>5, <1>7, <1>8, <1>9 DEF Kept

\* A variable is dropped: its handle is in the drops until its count is taken.
LEMMA DropKeeps ==
    ASSUME StreamInv, NEW v \in Vars, Drop(v)
    PROVE  Kept
  <1>1. /\ Sound(slots, free, len) /\ var \in [Vars -> Streams] /\ var[v] \in Streams /\ 0 \in Streams
    BY BoundAssumption DEF StreamInv, Typed, Streams
  <1>2. /\ slots' = slots /\ len' = len /\ free' = free /\ held' = held /\ ext' = ext
        /\ stale' = stale /\ drops' = Own(var[v])
    BY DEF Drop, store
  <1>3. Sound(slots', free', len') /\ slots' \in [Handles -> Slots]
    BY <1>1, <1>2 DEF Sound
  <1>4. Assigned(var', var, v, 0)
    BY <1>1, AssignExcept DEF Drop
  <1>5. Typed'
    <2>1. drops' \in Seq(Streams)
      BY <1>1, <1>2, TimesOwnType
    <2> QED  BY <1>2, <1>4, <2>1 DEF StreamInv, Typed, Assigned
  <1>6. ExtInv'
    BY <1>2 DEF StreamInv, ExtInv, Drop, Idle, NoExt
  <1>7. Balanced
    <2> SUFFICES ASSUME NEW h \in Handles
                 PROVE  slots'[h].handles + References(h) = slots[h].handles + References(h)'
      BY DEF Balanced
    <2>1. Times(h, drops') = One(var[v], h)
      BY <1>1, <1>2, TimesOwn
    <2>2. Times(h, drops) = 0 /\ One(0, h) = 0
      BY IdleNone, TreeTypes DEF Drop
    <2>3. InVars(var', h) + One(var[v], h) = InVars(var, h) + One(0, h)
      BY <1>4, VarAssign
    <2>4. PICK n, a, b, c, d, e, nn, aa, bb, cc, dd, ee \in Nat :
             Tallied(h, n, a, b, c, d, e, nn, aa, bb, cc, dd, ee)
      BY <1>3, <1>5, Tally
    <2>5. PICK p \in Nat : p = One(var[v], h)
      BY OneNat
    <2>6. /\ nn = n /\ aa + p = a + 0 /\ bb = b /\ cc = c
          /\ d = 0 /\ dd = p /\ ee = e
      BY <1>2, <2>1, <2>2, <2>3, <2>4, <2>5 DEF Tallied
    <2>7. nn + (a + b + c + d + e) = n + (aa + bb + cc + dd + ee)
      BY <2>6
    <2> QED  BY <2>4, <2>7 DEF Tallied
  <1> QED  BY <1>3, <1>5, <1>6, <1>7 DEF Kept

\* recv_token_stream: two slots are taken, and the second holds the first.
LEMMA ReceiveKeeps ==
    ASSUME StreamInv, NEW v \in Vars, Receive(v)
    PROVE  Kept
  <1>1. PICK t \in Toks, i \in Handles, j \in Handles :
           /\ Free(i) /\ i # j
           /\ IF free \ {i} = {} THEN j = (IF i > len THEN i ELSE len) + 1 ELSE First(j, free \ {i})
           /\ slots' = [slots EXCEPT ![i] = Slot(<<Leaf(t)>>, TRUE),
                                     ![j] = Slot(<<Group(i, TRUE)>>, TRUE)]
           /\ free' = free \ {i, j}
           /\ len' = IF j > len THEN j ELSE len
           /\ var' = [var EXCEPT ![v] = j]
    BY DEF Receive
  <1> DEFINE inner == Slot(<<Leaf(t)>>, TRUE)
             outer == Slot(<<Group(i, TRUE)>>, TRUE)
             lm == IF i > len THEN i ELSE len
  <1>2. /\ Sound(slots, free, len) /\ slots \in [Handles -> Slots] /\ var \in [Vars -> Streams]
        /\ i \in Streams /\ j \in Streams /\ len \in Nat /\ i \in Nat /\ j \in Nat
    BY TreeTypes, BoundAssumption DEF StreamInv, Typed, Sound, Handles
  <1>3. /\ inner \in Slots /\ inner.handles = 1 /\ inner.trees = <<Leaf(t)>>
        /\ outer \in Slots /\ outer.handles = 1 /\ outer.trees = <<Group(i, TRUE)>>
    <2>1. Leaf(t) \in Trees /\ Group(i, TRUE) \in Trees
      BY <1>2, TreeTypes
    <2>2. <<Leaf(t)>> \in Seq(Trees) /\ <<Group(i, TRUE)>> \in Seq(Trees)
      BY <2>1, OneTree
    <2> QED  BY <2>2, TreeTypes
  <1>4. Unused(i, free, len)
    BY <1>1, FreeUnused
  <1>5. /\ Unused(j, free \ {i}, lm)
        /\ free' = (free \ {i}) \ {j}
        /\ len' = IF j > lm THEN j ELSE lm
    <2>1. Unused(j, free \ {i}, lm)
      BY <1>1 DEF First, Unused
    <2>2. free' = (free \ {i}) \ {j}
      BY <1>1
    <2>3. CASE i > len
      <3>1. free \ {i} = {} /\ j = i + 1
        <4>1. i \notin free
          BY <1>2, <2>3 DEF Sound
        <4>2. free = {}
          BY <1>4, <4>1 DEF Unused
        <4> QED  BY <1>1, <2>3, <4>2
      <3> QED  BY <1>1, <1>2, <2>1, <2>2, <2>3, <3>1
    <2>4. CASE ~(i > len)
      BY <1>1, <2>1, <2>2, <2>4
    <2> QED  BY <2>3, <2>4
  <1>6. PICK sl \in [Handles -> Slots] : Put(sl, slots, i, inner) /\ Put(slots', sl, j, outer)
                                        /\ slots' \in [Handles -> Slots]
    <2> HIDE DEF inner, outer
    <2>1. PICK sl \in [Handles -> Slots] : sl = [slots EXCEPT ![i] = inner]
      BY <1>2, <1>3
    <2>2. Put(sl, slots, i, inner)
      BY <1>2, <1>3, <2>1, SlotExcept
    <2>3. slots' = [sl EXCEPT ![j] = outer]
      BY <1>1, <2>1 DEF inner, outer
    <2>4. slots' \in [Handles -> Slots] /\ Put(slots', sl, j, outer)
      BY <1>3, <2>3, SlotExcept
    <2> QED  BY <2>2, <2>4
  <1> HIDE DEF inner, outer, lm
  <1>7. /\ Sound(sl, free \ {i}, lm)
        /\ \A h \in Handles : /\ sl[h].handles = slots[h].handles + One(i, h)
                              /\ Within(sl, h) = Within(slots, h) + InTrees(h, inner.trees)
    <2>1. lm = IF i > len THEN i ELSE len
      BY DEF lm
    <2> QED  BY <1>2, <1>3, <1>4, <1>6, <2>1, StoreTake
  <1>8. /\ Sound(slots', free', len')
        /\ \A h \in Handles : /\ slots'[h].handles = sl[h].handles + One(j, h)
                              /\ Within(slots', h) = Within(sl, h) + InTrees(h, outer.trees)
    <2>1. PICK fr : /\ Unused(j, fr, lm) /\ Sound(sl, fr, lm)
                    /\ free' = fr \ {j} /\ len' = IF j > lm THEN j ELSE lm
      BY <1>5, <1>7
    <2>2. slots' \in [Handles -> Slots] /\ Put(slots', sl, j, outer) /\ outer \in Slots /\ outer.handles = 1
      BY <1>3, <1>6
    <2> QED  BY <2>1, <2>2, StoreTake
  <1>9. Assigned(var', var, v, j)
    BY <1>1, <1>2, AssignExcept
  <1>10. held' = held /\ ext' = ext /\ stale' = stale /\ drops' = Own(var[v])
    BY DEF Receive
  <1>11. Typed'
    <2>1. drops' \in Seq(Streams)
      BY <1>2, <1>10, TimesOwn
    <2> QED  BY <1>9, <1>10, <2>1 DEF StreamInv, Typed, Assigned
  <1>12. ExtInv'
    BY <1>10 DEF StreamInv, ExtInv, Receive, Idle, NoExt
  <1>13. Balanced
    <2> SUFFICES ASSUME NEW h \in Handles
                 PROVE  slots'[h].handles + References(h) = slots[h].handles + References(h)'
      BY DEF Balanced
    <2>1. Times(h, drops') = One(var[v], h)
      BY <1>2, <1>10, TimesOwn
    <2>2. InTrees(h, inner.trees) = 0 /\ InTrees(h, outer.trees) = One(i, h)
      <3>1. InTrees(h, inner.trees) = One(StreamOf(Leaf(t)), h) /\ One(StreamOf(Leaf(t)), h) = 0
        BY <1>3, TreesOne, TreeTypes
      <3>2. InTrees(h, outer.trees) = One(StreamOf(Group(i, TRUE)), h)
        BY <1>3, TreesOne
      <3> QED  BY <1>2, <3>1, <3>2, TreeTypes
    <2>3. Times(h, drops) = 0
      BY IdleNone DEF Receive
    <2>4. InVars(var', h) + One(var[v], h) = InVars(var, h) + One(j, h)
      BY <1>9, VarAssign
    <2>5. /\ slots'[h].handles = slots[h].handles + One(i, h) + One(j, h)
          /\ Within(slots', h) = Within(slots, h) + 0 + One(i, h)
      BY <1>7, <1>8, <2>2
    <2>6. PICK n, a, b, c, d, e, nn, aa, bb, cc, dd, ee \in Nat :
             Tallied(h, n, a, b, c, d, e, nn, aa, bb, cc, dd, ee)
      BY <1>6, <1>11, Tally
    <2>7. PICK p, q, r \in Nat : p = One(var[v], h) /\ q = One(i, h) /\ r = One(j, h)
      BY OneNat
    <2>8. /\ nn = n + q + r /\ aa + p = a + r /\ bb = b /\ cc = c
          /\ d = 0 /\ dd = p /\ ee = e + 0 + q
      BY <1>10, <2>1, <2>2, <2>3, <2>4, <2>5, <2>6, <2>7 DEF Tallied
    <2>9. nn + (a + b + c + d + e) = n + (aa + bb + cc + dd + ee)
      BY <2>8
    <2> QED  BY <2>6, <2>9 DEF Tallied
  <1> QED  BY <1>8, <1>11, <1>12, <1>13 DEF Kept

\* A stream that is not empty is a slot.
LEMMA StreamHandle ==
    ASSUME NEW x \in Streams, x # 0
    PROVE  x \in Handles
  BY BoundAssumption DEF Streams, Handles

\* into_trees: each handle in the trees that come out was in the slot, or is new.
LEMMA StoreInto ==
    ASSUME StreamInv, NEW v \in Vars, IntoTrees(var[v]), len' = len, free' = free
    PROVE  /\ Sound(slots', free', len') /\ slots' \in [Handles -> Slots]
           /\ trees(var[v]) \in Seq(Trees)
           /\ \A h \in Handles : slots'[h].handles + Within(slots, h)
                                   = slots[h].handles + Within(slots', h) + InTrees(h, trees(var[v]))
  <1>1. /\ Sound(slots, free, len) /\ slots \in [Handles -> Slots] /\ var[v] \in Streams
    BY DEF StreamInv, Typed, Sound
  <1>2. ASSUME NEW h \in Handles PROVE slots[h].handles \in Nat /\ Within(slots, h) \in Nat
    BY <1>1, WithinNat DEF Slots
  <1>3. CASE var[v] = 0
    <2>1. slots' = slots /\ trees(var[v]) = <<>>
      BY <1>3 DEF IntoTrees, trees
    <2>2. ASSUME NEW h \in Handles
          PROVE slots'[h].handles + Within(slots, h)
                   = slots[h].handles + Within(slots', h) + InTrees(h, trees(var[v]))
      <3>1. InTrees(h, trees(var[v])) = 0
        BY <2>1, TreesNone
      <3>2. PICK m, n \in Nat : m = slots[h].handles /\ n = Within(slots, h)
        BY <1>2
      <3>3. m + n = m + n + 0
        OBVIOUS
      <3> QED  BY <2>1, <3>1, <3>2, <3>3
    <2> QED  BY <1>1, <2>1, <2>2
  <1>4. CASE var[v] # 0
    <2>1. PICK i \in Handles : i = var[v]
      BY <1>1, <1>4, StreamHandle
    <2>2. slots[i].handles # 0 /\ i # 0 /\ trees(var[v]) = slots[i].trees /\ slots[i].trees \in Seq(Trees)
      <3>1. slots[i].handles # 0
        BY <2>1, VarAlive
      <3> QED  BY <1>1, <1>4, <2>1, <3>1 DEF trees, Slots
    <2>3. CASE slots[i].handles = 1
      <3> DEFINE slot == [slots[i] EXCEPT !.trees = <<>>]
      <3>1. slots' = [slots EXCEPT ![i] = slot]
        BY <1>1, <1>4, <2>1, <2>3 DEF IntoTrees, Sole
      <3>2. slot \in Slots /\ slot.handles = slots[i].handles /\ slot.trees = <<>>
        <4>1. slots[i] \in Slots /\ <<>> \in Seq(Trees)
          BY <1>1
        <4> QED  BY <4>1 DEF Slots
      <3> HIDE DEF slot
      <3>3. slots' \in [Handles -> Slots] /\ Put(slots', slots, i, slot)
        BY <1>1, <3>1, <3>2, SlotExcept
      <3>4. /\ Sound(slots', free', len')
            /\ \A h \in Handles :
                  /\ slots'[h].handles = slots[h].handles
                  /\ Within(slots', h) + InTrees(h, slots[i].trees) = Within(slots, h) + InTrees(h, slot.trees)
        BY <1>1, <2>2, <3>2, <3>3, StoreWrite
      <3>5. ASSUME NEW h \in Handles
            PROVE slots'[h].handles + Within(slots, h)
                     = slots[h].handles + Within(slots', h) + InTrees(h, trees(var[v]))
        <4>1. PICK m, n, x, nn \in Nat :
                 /\ m = slots[h].handles /\ n = Within(slots, h)
                 /\ x = InTrees(h, slots[i].trees) /\ nn = Within(slots', h)
          BY <1>2, <2>2, <3>3, TreesNat, WithinNat
        <4>2. InTrees(h, slot.trees) = 0
          BY <3>2, TreesNone
        <4>3. nn + x = n + 0 /\ slots'[h].handles = m
          BY <3>4, <4>1, <4>2
        <4>4. m + n = m + nn + x
          BY <4>3
        <4> QED  BY <2>2, <4>1, <4>3, <4>4
      <3> QED  BY <2>2, <3>3, <3>4, <3>5
    <2>4. CASE slots[i].handles # 1
      <3>1. slots' = Cloned(slots, Inside(slots[i].trees))
        BY <1>4, <2>1, <2>4 DEF IntoTrees, Sole
      <3>2. ASSUME NEW h \in Handles, slots[h].handles = 0 PROVE Times(h, Inside(slots[i].trees)) = 0
        BY <3>2, TreesAlive DEF InTrees
      <3>3. Inside(slots[i].trees) \in Seq(Streams)
        BY <2>2, InsideType
      <3>4. /\ Sound(slots', free', len')
            /\ \A h \in Handles : /\ slots'[h].handles = slots[h].handles + Times(h, Inside(slots[i].trees))
                                  /\ Within(slots', h) = Within(slots, h)
        BY <1>1, <3>1, <3>2, <3>3, StoreClone
      <3>5. ASSUME NEW h \in Handles
            PROVE slots'[h].handles + Within(slots, h)
                     = slots[h].handles + Within(slots', h) + InTrees(h, trees(var[v]))
        <4>1. PICK m, n, x \in Nat : /\ m = slots[h].handles /\ n = Within(slots, h)
                                     /\ x = InTrees(h, slots[i].trees)
          BY <1>2, <2>2, TreesNat
        <4>2. slots'[h].handles = m + x /\ Within(slots', h) = n
          BY <3>4, <4>1 DEF InTrees
        <4>3. (m + x) + n = m + n + x
          OBVIOUS
        <4> QED  BY <2>2, <4>1, <4>2, <4>3
      <3> QED  BY <2>2, <3>4, <3>5 DEF Sound
    <2> QED  BY <2>3, <2>4
  <1> QED  BY <1>3, <1>4

\* into_iter: the trees of v are in hand, and v is dropped.
LEMMA IterateKeeps ==
    ASSUME StreamInv, NEW v \in Vars, Iterate(v)
    PROVE  Kept
  <1>1. var \in [Vars -> Streams] /\ var[v] \in Streams /\ 0 \in Streams
    <2>1. 0 \in Streams
      BY BoundAssumption DEF Streams
    <2> QED  BY <2>1 DEF StreamInv, Typed
  <1>2. /\ len' = len /\ free' = free /\ ext' = ext /\ stale' = stale
        /\ drops' = Own(var[v]) /\ held = <<>>
    BY DEF Iterate
  <1>3. /\ Sound(slots', free', len') /\ slots' \in [Handles -> Slots]
        /\ trees(var[v]) \in Seq(Trees)
        /\ \A h \in Handles : slots'[h].handles + Within(slots, h)
                                = slots[h].handles + Within(slots', h) + InTrees(h, trees(var[v]))
    BY <1>2, StoreInto DEF Iterate
  <1>4. held' \in Seq(Trees) /\ \A h : InTrees(h, held') = InTrees(h, trees(var[v]))
    BY <1>3, TreesHanded DEF Iterate
  <1>5. Assigned(var', var, v, 0)
    BY <1>1, AssignExcept DEF Iterate
  <1>6. Typed'
    <2>1. drops' \in Seq(Streams)
      BY <1>1, <1>2, TimesOwnType
    <2> QED  BY <1>2, <1>4, <1>5, <2>1 DEF StreamInv, Typed, Assigned
  <1>7. ExtInv'
    BY <1>2 DEF StreamInv, ExtInv, Iterate, Idle, NoExt
  <1>8. Balanced
    <2> SUFFICES ASSUME NEW h \in Handles
                 PROVE  slots'[h].handles + References(h) = slots[h].handles + References(h)'
      BY DEF Balanced
    <2>1. Times(h, drops') = One(var[v], h)
      BY <1>1, <1>2, TimesOwn
    <2>2. Times(h, drops) = 0 /\ One(0, h) = 0 /\ InTrees(h, held) = 0
      BY <1>2, IdleNone, TreeTypes, TreesNone DEF Iterate
    <2>3. InVars(var', h) + One(var[v], h) = InVars(var, h) + One(0, h)
      BY <1>5, VarAssign
    <2>4. PICK n, a, b, c, d, e, nn, aa, bb, cc, dd, ee \in Nat :
             Tallied(h, n, a, b, c, d, e, nn, aa, bb, cc, dd, ee)
      BY <1>3, <1>6, Tally
    <2>5. PICK p \in Nat : p = One(var[v], h)
      BY OneNat
    <2>6. /\ nn + e = n + ee + bb /\ aa + p = a + 0 /\ b = 0 /\ cc = c
          /\ d = 0 /\ dd = p
      BY <1>2, <1>3, <1>4, <2>1, <2>2, <2>3, <2>4, <2>5 DEF Tallied
    <2>7. nn + (a + b + c + d + e) = n + (aa + bb + cc + dd + ee)
      BY <2>6
    <2> QED  BY <2>4, <2>7 DEF Tallied
  <1> QED  BY <1>3, <1>6, <1>7, <1>8 DEF Kept

\* A tree in hand is dropped.
LEMMA DiscardKeeps ==
    ASSUME StreamInv, Discard
    PROVE  Kept
  <1>1. held \in Seq(Trees) /\ held # <<>> /\ Tail(held) \in Seq(Trees) /\ <<Head(held)>> \in Seq(Trees)
    <2>1. held \in Seq(Trees) /\ held # <<>>
      BY DEF StreamInv, Typed, Discard
    <2> QED  BY <2>1
  <1>2. /\ slots' = slots /\ len' = len /\ free' = free /\ var' = var /\ ext' = ext /\ stale' = stale
        /\ held' = Tail(held) /\ drops' = Inside(<<Head(held)>>)
    BY DEF Discard, store
  <1>3. Sound(slots', free', len') /\ slots' \in [Handles -> Slots]
    BY <1>2 DEF StreamInv, Sound
  <1>4. Typed'
    <2>1. drops' \in Seq(Streams) /\ held' \in Seq(Trees)
      BY <1>1, <1>2, InsideType
    <2> QED  BY <1>2, <2>1 DEF StreamInv, Typed
  <1>5. ExtInv'
    BY <1>2 DEF StreamInv, ExtInv, Discard, Idle, NoExt
  <1>6. Balanced
    <2> SUFFICES ASSUME NEW h \in Handles
                 PROVE  slots'[h].handles + References(h) = slots[h].handles + References(h)'
      BY DEF Balanced
    <2>1. Times(h, drops') = One(StreamOf(Head(held)), h)
      BY <1>2, TreesOne DEF InTrees
    <2>2. InTrees(h, held) = One(StreamOf(Head(held)), h) + InTrees(h, held')
      BY <1>1, <1>2, TreesHead
    <2>3. Times(h, drops) = 0
      BY IdleNone DEF Discard
    <2>4. PICK n, a, b, c, d, e, nn, aa, bb, cc, dd, ee \in Nat :
             Tallied(h, n, a, b, c, d, e, nn, aa, bb, cc, dd, ee)
      BY <1>3, <1>4, Tally
    <2>5. PICK p \in Nat : p = One(StreamOf(Head(held)), h)
      BY OneNat
    <2>6. /\ nn = n /\ aa = a /\ b = p + bb /\ cc = c
          /\ d = 0 /\ dd = p /\ ee = e
      BY <1>2, <2>1, <2>2, <2>3, <2>4, <2>5 DEF Tallied
    <2>7. nn + (a + b + c + d + e) = n + (aa + bb + cc + dd + ee)
      BY <2>6
    <2> QED  BY <2>4, <2>7 DEF Tallied
  <1> QED  BY <1>3, <1>4, <1>5, <1>6 DEF Kept

\* The iterator ends, and what it had left is dropped.
LEMMA PullEndKeeps ==
    ASSUME StreamInv, PullEnd
    PROVE  Kept
  <1>1. /\ held \in Seq(Trees) /\ drops = <<>> /\ ext.items = <<>>
    BY DEF StreamInv, Typed, ExtInv, PullEnd
  <1>2. /\ slots' = slots /\ len' = len /\ free' = free /\ var' = var /\ ext' = NoExt /\ stale' = FALSE
        /\ held' = <<>> /\ drops' = Inside(held)
    BY DEF PullEnd, store
  <1>3. Sound(slots', free', len') /\ slots' \in [Handles -> Slots]
    BY <1>2 DEF StreamInv, Sound
  <1>4. NoExt \in Exts /\ NoExt.items = <<>> /\ NoExt.at = "none"
    BY DEF NoExt, Exts
  <1>5. Typed'
    <2>1. drops' \in Seq(Streams) /\ held' \in Seq(Trees)
      BY <1>1, <1>2, InsideType
    <2> QED  BY <1>2, <1>4, <2>1 DEF StreamInv, Typed
  <1>6. ExtInv'
    BY <1>2, <1>4 DEF ExtInv
  <1>7. Balanced
    <2> SUFFICES ASSUME NEW h \in Handles
                 PROVE  slots'[h].handles + References(h) = slots[h].handles + References(h)'
      BY DEF Balanced
    <2>1. Times(h, drops') = InTrees(h, held)
      BY <1>2 DEF InTrees
    <2>2. InTrees(h, held') = 0 /\ InTrees(h, ext'.items) = 0 /\ InTrees(h, ext.items) = 0
      BY <1>1, <1>2, <1>4, TreesNone
    <2>3. Times(h, drops) = 0
      BY <1>1, TimesNone
    <2>4. PICK n, a, b, c, d, e, nn, aa, bb, cc, dd, ee \in Nat :
             Tallied(h, n, a, b, c, d, e, nn, aa, bb, cc, dd, ee)
      BY <1>3, <1>5, Tally
    <2>5. /\ nn = n /\ aa = a /\ bb = 0 /\ c = 0 /\ cc = 0
          /\ d = 0 /\ dd = b /\ ee = e
      BY <1>2, <2>1, <2>2, <2>3, <2>4 DEF Tallied
    <2>6. nn + (a + b + c + d + e) = n + (aa + bb + cc + dd + ee)
      BY <2>5
    <2> QED  BY <2>4, <2>6 DEF Tallied
  <1> QED  BY <1>3, <1>5, <1>6, <1>7 DEF Kept

\* An empty stream is dropped.
LEMMA DropNothingKeeps ==
    ASSUME StreamInv, DropNothing
    PROVE  Kept
  <1>1. drops \in Seq(Streams) /\ drops # <<>> /\ Head(drops) = 0 /\ Tail(drops) \in Seq(Streams)
    <2>1. drops \in Seq(Streams) /\ drops # <<>> /\ Head(drops) = 0
      BY DEF StreamInv, Typed, DropNothing
    <2> QED  BY <2>1
  <1>2. /\ slots' = slots /\ len' = len /\ free' = free /\ var' = var /\ ext' = ext /\ stale' = stale
        /\ held' = held /\ drops' = Tail(drops)
    BY DEF DropNothing, store
  <1>3. Sound(slots', free', len') /\ slots' \in [Handles -> Slots]
    BY <1>2 DEF StreamInv, Sound
  <1>4. Typed'
    BY <1>1, <1>2 DEF StreamInv, Typed
  <1>5. ExtInv'
    BY <1>2 DEF StreamInv, ExtInv
  <1>6. Balanced
    <2> SUFFICES ASSUME NEW h \in Handles
                 PROVE  slots'[h].handles + References(h) = slots[h].handles + References(h)'
      BY DEF Balanced
    <2>1. Times(h, drops) = One(0, h) + Times(h, drops') /\ One(0, h) = 0
      BY <1>1, <1>2, TimesHead, TreeTypes
    <2>2. PICK n, a, b, c, d, e, nn, aa, bb, cc, dd, ee \in Nat :
             Tallied(h, n, a, b, c, d, e, nn, aa, bb, cc, dd, ee)
      BY <1>3, <1>4, Tally
    <2>3. /\ nn = n /\ aa = a /\ bb = b /\ cc = c
          /\ d = 0 + dd /\ ee = e
      BY <1>2, <2>1, <2>2 DEF Tallied
    <2>4. nn + (a + b + c + d + e) = n + (aa + bb + cc + dd + ee)
      BY <2>3
    <2> QED  BY <2>2, <2>4 DEF Tallied
  <1> QED  BY <1>3, <1>4, <1>5, <1>6 DEF Kept

\* Extend<TokenStream>.
LEMMA ExtendStreamKeeps ==
    ASSUME StreamInv, NEW v \in Vars, NEW w \in Vars, ExtendStream(v, w)
    PROVE  Kept
  <1>1. /\ var \in [Vars -> Streams] /\ var[v] \in Streams /\ var[w] \in Streams /\ 0 \in Streams
        /\ Sound(slots, free, len) /\ slots \in [Handles -> Slots]
    <2>1. 0 \in Streams
      BY BoundAssumption DEF Streams
    <2> QED  BY <2>1 DEF StreamInv, Typed, Sound
  <1>2. len' = len /\ free' = free /\ held' = held /\ stale' = stale /\ v # w /\ Idle
    BY DEF ExtendStream
  <1>3. ASSUME NEW h \in Handles PROVE Times(h, drops) = 0 /\ InTrees(h, ext.items) = 0 /\ One(0, h) = 0
    BY <1>2, IdleNone, TreeTypes
  \* Nothing to add, or nothing to add to.
  <1>4. ASSUME slots' = slots, ext' = ext, NEW x \in Streams, drops' = Own(x), var' \in [Vars -> Streams],
               \A h \in Handles : InVars(var', h) + One(x, h) = InVars(var, h)
        PROVE  Kept
    <2>1. Sound(slots', free', len') /\ slots' \in [Handles -> Slots]
      BY <1>1, <1>2, <1>4
    <2>2. Typed'
      <3>1. drops' \in Seq(Streams)
        BY <1>4, TimesOwnType
      <3> QED  BY <1>2, <1>4, <3>1 DEF StreamInv, Typed
    <2>3. ExtInv'
      BY <1>2, <1>4 DEF StreamInv, ExtInv, Idle, NoExt
    <2>4. Balanced
      <3> SUFFICES ASSUME NEW h \in Handles
                   PROVE  slots'[h].handles + References(h) = slots[h].handles + References(h)'
        BY DEF Balanced
      <3>1. Times(h, drops') = One(x, h)
        BY <1>4, TimesOwn
      <3>2. PICK n, a, b, c, d, e, nn, aa, bb, cc, dd, ee \in Nat :
               Tallied(h, n, a, b, c, d, e, nn, aa, bb, cc, dd, ee)
        BY <2>1, <2>2, Tally
      <3>3. PICK p \in Nat : p = One(x, h)
        BY OneNat
      <3>4. /\ nn = n /\ aa + p = a /\ bb = b /\ cc = c
            /\ d = 0 /\ dd = p /\ ee = e
        BY <1>2, <1>3, <1>4, <3>1, <3>2, <3>3 DEF Tallied
      <3>5. nn + (a + b + c + d + e) = n + (aa + bb + cc + dd + ee)
        BY <3>4
      <3> QED  BY <3>2, <3>5 DEF Tallied
    <2> QED  BY <2>1, <2>2, <2>3, <2>4 DEF Kept
  <1>5. CASE /\ trees(var[w]) = <<>> /\ var' = [var EXCEPT ![w] = 0]
             /\ drops' = Own(var[w]) /\ UNCHANGED <<slots, ext>>
    <2>1. Assigned(var', var, w, 0)
      BY <1>1, <1>5, AssignExcept
    <2>2. ASSUME NEW h \in Handles PROVE InVars(var', h) + One(var[w], h) = InVars(var, h)
      <3>1. InVars(var', h) + One(var[w], h) = InVars(var, h) + One(0, h)
        BY <2>1, VarAssign
      <3>2. InVars(var, h) \in Nat /\ One(0, h) = 0
        BY <1>3, VarsNat
      <3> QED  BY <3>1, <3>2
    <2>3. var' \in [Vars -> Streams]
      BY <2>1 DEF Assigned
    <2> QED  BY <1>1, <1>4, <1>5, <2>2, <2>3
  <1>6. CASE /\ trees(var[w]) # <<>> /\ trees(var[v]) = <<>>
             /\ var' = [var EXCEPT ![v] = var[w], ![w] = 0]
             /\ drops' = Own(var[v]) /\ UNCHANGED <<slots, ext>>
    <2>1. PICK f : Assigned(f, var, v, var[w]) /\ f = [var EXCEPT ![v] = var[w]]
      BY <1>1, AssignExcept
    <2>2. Assigned(var', f, w, 0) /\ f[w] = var[w]
      BY <1>1, <1>2, <1>6, <2>1 DEF Assigned
    <2>3. ASSUME NEW h \in Handles PROVE InVars(var', h) + One(var[v], h) = InVars(var, h)
      <3>1. InVars(f, h) + One(var[v], h) = InVars(var, h) + One(var[w], h)
        BY <2>1, VarAssign
      <3>2. InVars(var', h) + One(f[w], h) = InVars(f, h) + One(0, h)
        BY <2>2, VarAssign
      <3>3. PICK a, b, c, p, q \in Nat : /\ a = InVars(var, h) /\ b = InVars(f, h) /\ c = InVars(var', h)
                                         /\ p = One(var[v], h) /\ q = One(var[w], h)
        BY VarsNat, OneNat
      <3>4. b + p = a + q /\ c + q = b + 0
        BY <1>3, <2>2, <3>1, <3>2, <3>3
      <3>5. c + p = a
        BY <3>4
      <3> QED  BY <3>3, <3>5
    <2>4. var' \in [Vars -> Streams]
      BY <2>2 DEF Assigned
    <2> QED  BY <1>1, <1>4, <1>6, <2>3, <2>4
  <1>7. CASE /\ trees(var[w]) # <<>> /\ trees(var[v]) # <<>>
             /\ IntoTrees(var[w])
             /\ ext' = [at |-> "change", v |-> v, items |-> trees(var[w]), more |-> FALSE]
             /\ var' = [var EXCEPT ![w] = 0]
             /\ drops' = Own(var[w])
    <2>1. /\ Sound(slots', free', len') /\ slots' \in [Handles -> Slots]
          /\ trees(var[w]) \in Seq(Trees)
          /\ \A h \in Handles : slots'[h].handles + Within(slots, h)
                                  = slots[h].handles + Within(slots', h) + InTrees(h, trees(var[w]))
      BY <1>2, <1>7, StoreInto
    <2>2. /\ ext' \in Exts /\ ext'.items = trees(var[w]) /\ ext'.at = "change" /\ ext'.v = v
      BY <1>7, <2>1 DEF Exts
    <2>3. Assigned(var', var, w, 0)
      BY <1>1, <1>7, AssignExcept
    <2>4. Typed'
      <3>1. drops' \in Seq(Streams)
        BY <1>1, <1>7, TimesOwnType
      <3> QED  BY <1>2, <2>2, <2>3, <3>1 DEF StreamInv, Typed, Assigned
    <2>5. ExtInv'
      BY <1>2, <2>2 DEF StreamInv, ExtInv
    <2>6. Balanced
      <3> SUFFICES ASSUME NEW h \in Handles
                   PROVE  slots'[h].handles + References(h) = slots[h].handles + References(h)'
        BY DEF Balanced
      <3>1. Times(h, drops') = One(var[w], h)
        BY <1>1, <1>7, TimesOwn
      <3>2. InVars(var', h) + One(var[w], h) = InVars(var, h) + One(0, h)
        BY <2>3, VarAssign
      <3>3. PICK n, a, b, c, d, e, nn, aa, bb, cc, dd, ee \in Nat :
               Tallied(h, n, a, b, c, d, e, nn, aa, bb, cc, dd, ee)
        BY <2>1, <2>4, Tally
      <3>4. PICK p \in Nat : p = One(var[w], h)
        BY OneNat
      <3>5. /\ nn + e = n + ee + cc /\ aa + p = a + 0 /\ bb = b /\ c = 0
            /\ d = 0 /\ dd = p
        BY <1>2, <1>3, <2>1, <2>2, <3>1, <3>2, <3>3, <3>4 DEF Tallied
      <3>6. nn + (a + b + c + d + e) = n + (aa + bb + cc + dd + ee)
        BY <3>5
      <3> QED  BY <3>3, <3>6 DEF Tallied
    <2> QED  BY <2>1, <2>4, <2>5, <2>6 DEF Kept
  <1> QED  BY <1>5, <1>6, <1>7 DEF ExtendStream

\* The iterator gives a tree, which is one in hand or a group made around it.
LEMMA ProduceKeeps ==
    ASSUME StreamInv, NEW at \in Exts, Produce(at), ext.items = <<>>, var' = var, drops' = drops
    PROVE  /\ Typed' /\ Sound(slots', free', len') /\ Balanced
           /\ ext'.at = at.at /\ ext'.v = at.v
           /\ ~LazyGroups => ~stale'
  <1>1. held \in Seq(Trees) /\ held # <<>> /\ held' = Tail(held)
    BY DEF StreamInv, Typed, Produce
  <1>2. /\ Head(held) \in Trees /\ Tail(held) \in Seq(Trees) /\ <<Head(held)>> \in Seq(Trees)
    BY <1>1
  <1>3. Sound(slots, free, len) /\ slots \in [Handles -> Slots]
    BY DEF StreamInv, Sound
  <1>4. ASSUME NEW h \in Handles
        PROVE  /\ InTrees(h, held) = One(StreamOf(Head(held)), h) + InTrees(h, held')
               /\ InTrees(h, <<Head(held)>>) = One(StreamOf(Head(held)), h)
               /\ InTrees(h, ext.items) = 0
    BY <1>1, TreesHead, TreesOne, TreesNone
  <1>5. ASSUME NEW ts \in Seq(Trees), ext' = [at EXCEPT !.items = ts], stale' \in BOOLEAN
        PROVE  Typed' /\ ext'.at = at.at /\ ext'.v = at.v /\ ext'.items = ts
    <2>1. ext' \in Exts /\ ext'.at = at.at /\ ext'.v = at.v /\ ext'.items = ts
      BY <1>5 DEF Exts
    <2> QED  BY <1>1, <1>2, <1>5, <2>1 DEF StreamInv, Typed
  <1>6. CASE ext' = [at EXCEPT !.items = <<Head(held)>>] /\ UNCHANGED <<store, stale>>
    <2>1. slots' = slots /\ len' = len /\ free' = free /\ stale' = stale
      BY <1>6 DEF store
    <2>2. Typed' /\ ext'.at = at.at /\ ext'.v = at.v /\ ext'.items = <<Head(held)>>
      <3>1. stale' \in BOOLEAN
        BY <2>1 DEF StreamInv, Typed
      <3> QED  BY <1>2, <1>5, <1>6, <3>1
    <2>3. Sound(slots', free', len') /\ slots' \in [Handles -> Slots]
      BY <1>3, <2>1
    <2>4. Balanced
      <3> SUFFICES ASSUME NEW h \in Handles
                   PROVE  slots'[h].handles + References(h) = slots[h].handles + References(h)'
        BY DEF Balanced
      <3>1. PICK n, a, b, c, d, e, nn, aa, bb, cc, dd, ee \in Nat :
               Tallied(h, n, a, b, c, d, e, nn, aa, bb, cc, dd, ee)
        BY <2>2, <2>3, Tally
      <3>2. PICK p \in Nat : p = One(StreamOf(Head(held)), h)
        BY OneNat
      <3>3. nn = n /\ aa = a /\ b = p + bb /\ c = 0 /\ cc = p /\ dd = d /\ ee = e
        BY <1>4, <2>1, <2>2, <3>1, <3>2 DEF Tallied
      <3>4. nn + (a + b + c + d + e) = n + (aa + bb + cc + dd + ee)
        BY <3>3
      <3> QED  BY <3>1, <3>4 DEF Tallied
    <2> QED  BY <2>1, <2>2, <2>3, <2>4 DEF StreamInv, ExtInv
  <1>7. CASE /\ LazyGroups \/ ext.at # "pull" \/ free # {}
             /\ \E i \in Handles :
                   /\ Free(i)
                   /\ Taken(i)
                   /\ slots' = [slots EXCEPT ![i] = Slot(<<Head(held)>>, FALSE)]
                   /\ ext' = [at EXCEPT !.items = <<Group(i, FALSE)>>]
                   /\ stale' \in {stale, stale \/ (ext.at = "pull" /\ i > len)}
    <2>1. PICK i \in Handles :
             /\ Free(i)
             /\ Taken(i)
             /\ slots' = [slots EXCEPT ![i] = Slot(<<Head(held)>>, FALSE)]
             /\ ext' = [at EXCEPT !.items = <<Group(i, FALSE)>>]
             /\ stale' \in {stale, stale \/ (ext.at = "pull" /\ i > len)}
      BY <1>7
    <2>2. /\ slots' \in [Handles -> Slots] /\ i \in Streams
          /\ Sound(slots', free', len')
          /\ \A h \in Handles : /\ slots'[h].handles = slots[h].handles + One(i, h)
                                /\ Within(slots', h) = Within(slots, h) + InTrees(h, <<Head(held)>>)
      BY <1>2, <1>3, <2>1, StoreAllocate DEF Filled
    <2>3. Group(i, FALSE) \in Trees /\ StreamOf(Group(i, FALSE)) = i
      BY <2>2, TreeTypes
    <2>4. Typed' /\ ext'.at = at.at /\ ext'.v = at.v /\ ext'.items = <<Group(i, FALSE)>>
      <3>1. stale' \in BOOLEAN
        BY <2>1 DEF StreamInv, Typed
      <3>2. <<Group(i, FALSE)>> \in Seq(Trees)
        BY <2>3, OneTree
      <3> QED  BY <1>5, <2>1, <3>1, <3>2
    <2>5. Balanced
      <3> SUFFICES ASSUME NEW h \in Handles
                   PROVE  slots'[h].handles + References(h) = slots[h].handles + References(h)'
        BY DEF Balanced
      <3>1. PICK n, a, b, c, d, e, nn, aa, bb, cc, dd, ee \in Nat :
               Tallied(h, n, a, b, c, d, e, nn, aa, bb, cc, dd, ee)
        BY <2>2, <2>4, Tally
      <3>2. PICK p, q \in Nat : p = One(StreamOf(Head(held)), h) /\ q = One(i, h)
        BY OneNat
      <3>3. InTrees(h, ext'.items) = One(i, h)
        BY <2>3, <2>4, TreesOne
      <3>4. nn = n + q /\ aa = a /\ b = p + bb /\ c = 0 /\ cc = q /\ dd = d /\ ee = e + p
        BY <1>4, <2>2, <3>1, <3>2, <3>3 DEF Tallied
      <3>5. (n + q) + (a + (p + bb) + 0 + d + e) = n + (a + bb + q + d + (e + p))
        OBVIOUS
      <3>6. nn + (a + b + c + d + e) = n + (aa + bb + cc + dd + ee)
        BY <3>4, <3>5
      <3> QED  BY <3>1, <3>6 DEF Tallied
    \* An `extend` that pulls may take a freed slot only, unless groups are lazy.
    <2>6. ASSUME ~LazyGroups PROVE ~stale'
      <3>1. ~stale
        BY <2>6 DEF StreamInv, ExtInv
      <3>2. ~(ext.at = "pull" /\ i > len)
        <4>1. ASSUME ext.at = "pull" PROVE ~(i > len)
          <5>1. free # {}
            BY <1>7, <2>6, <4>1
          <5>2. i \in free
            BY <2>1, <5>1 DEF Free, First
          <5> QED  BY <1>3, <5>2 DEF Sound
        <4> QED  BY <4>1
      <3> QED  BY <2>1, <3>1, <3>2
    <2> QED  BY <2>2, <2>4, <2>5, <2>6
  <1> QED  BY <1>6, <1>7 DEF Produce

\* Extend<TokenTree>, its first tree.
LEMMA ExtendTreesKeeps ==
    ASSUME StreamInv, NEW v \in Vars, ExtendTrees(v)
    PROVE  Kept
  <1> DEFINE at == [at |-> "change", v |-> v, items |-> <<>>, more |-> TRUE]
  <1>1. at \in Exts /\ at.at = "change" /\ at.v = v
    BY DEF Exts
  <1>2. Produce(at) /\ ext.items = <<>> /\ var' = var /\ drops' = drops
    BY DEF ExtendTrees, Idle, NoExt
  <1> HIDE DEF at
  <1>3. /\ Typed' /\ Sound(slots', free', len') /\ Balanced
        /\ ext'.at = at.at /\ ext'.v = at.v
        /\ ~LazyGroups => ~stale'
    BY <1>1, <1>2, ProduceKeeps
  <1>4. ExtInv'
    BY <1>1, <1>3 DEF ExtInv
  <1> QED  BY <1>3, <1>4 DEF Kept

\* Extend<TokenTree>, a later tree.
LEMMA PullNextKeeps ==
    ASSUME StreamInv, PullNext
    PROVE  Kept
  <1> DEFINE at == [ext EXCEPT !.at = "push"]
  <1>1. at \in Exts /\ at.at = "push" /\ at.v = ext.v
    BY DEF StreamInv, Typed, Exts
  <1>2. Produce(at) /\ ext.items = <<>> /\ var' = var /\ drops' = drops
    BY DEF PullNext, StreamInv, ExtInv
  <1> HIDE DEF at
  <1>3. /\ Typed' /\ Sound(slots', free', len') /\ Balanced
        /\ ext'.at = at.at /\ ext'.v = at.v
        /\ ~LazyGroups => ~stale'
    BY <1>1, <1>2, ProduceKeeps
  <1>4. ext.v \in Vars /\ var[ext.v] # 0
    BY DEF PullNext, StreamInv, ExtInv
  <1>5. ExtInv'
    BY <1>1, <1>2, <1>3, <1>4 DEF ExtInv
  <1> QED  BY <1>3, <1>5 DEF Kept

\* trees_mut: an only handle stays, a shared slot is copied with its handles.
LEMMA TreesMutKeeps ==
    ASSUME StreamInv, TreesMut
    PROVE  Kept
  <1>1. PICK v \in Vars, x \in Streams : v = ext.v /\ x = var[v]
    BY DEF StreamInv, Typed, ExtInv, TreesMut
  <1>2. /\ Sound(slots, free, len) /\ slots \in [Handles -> Slots] /\ var \in [Vars -> Streams]
        /\ drops = <<>> /\ held' = held /\ stale' = stale
    BY DEF StreamInv, Typed, Sound, TreesMut
  <1>3. /\ ext' \in Exts /\ ext'.at = "push" /\ ext'.v = v /\ ext'.items = ext.items
    BY <1>1 DEF StreamInv, Typed, Exts, TreesMut
  <1>4. ASSUME var'[v] # 0 PROVE ExtInv'
    BY <1>2, <1>3, <1>4 DEF StreamInv, ExtInv
  <1>5. CASE /\ Sole(x) /\ slots' = [slots EXCEPT ![x].hidden = FALSE]
             /\ UNCHANGED <<len, free, var, drops>>
    <2>1. x # 0 /\ x \in Handles /\ slots[x].handles # 0
      <3>1. x # 0
        BY <1>5 DEF Sole
      <3> QED  BY <1>1, <3>1, StreamHandle, VarAlive
    <2> DEFINE slot == [slots[x] EXCEPT !.hidden = FALSE]
    <2>2. slot \in Slots /\ slot.handles = slots[x].handles /\ slot.trees = slots[x].trees
      <3>1. slots[x] \in Slots
        BY <1>2, <2>1
      <3> QED  BY <3>1 DEF Slots
    <2>3. slots' = [slots EXCEPT ![x] = slot]
      BY <1>5
    <2> HIDE DEF slot
    <2>4. slots' \in [Handles -> Slots] /\ Put(slots', slots, x, slot)
      BY <1>2, <2>1, <2>2, <2>3, SlotExcept
    <2>5. len' = len /\ free' = free /\ var' = var /\ drops' = drops
      BY <1>5
    <2>6. /\ Sound(slots', free', len')
          /\ \A h \in Handles :
                /\ slots'[h].handles = slots[h].handles
                /\ Within(slots', h) + InTrees(h, slots[x].trees) = Within(slots, h) + InTrees(h, slot.trees)
      BY <1>2, <2>1, <2>2, <2>4, <2>5, StoreWrite
    <2>7. Typed'
      BY <1>2, <1>3, <2>5 DEF StreamInv, Typed
    <2>8. ExtInv'
      BY <1>1, <1>4, <2>1, <2>5
    <2>9. Balanced
      <3> SUFFICES ASSUME NEW h \in Handles
                   PROVE  slots'[h].handles + References(h) = slots[h].handles + References(h)'
        BY DEF Balanced
      <3>1. PICK n, a, b, c, d, e, nn, aa, bb, cc, dd, ee \in Nat :
               Tallied(h, n, a, b, c, d, e, nn, aa, bb, cc, dd, ee)
        BY <2>4, <2>7, Tally
      <3>2. PICK y \in Nat : y = InTrees(h, slots[x].trees)
        BY <1>2, <2>1, SlotsApart
      <3>3. nn = n /\ aa = a /\ bb = b /\ cc = c /\ dd = d /\ ee + y = e + y
        BY <1>2, <1>3, <2>2, <2>5, <2>6, <3>1, <3>2 DEF Tallied
      <3>4. nn + (a + b + c + d + e) = n + (aa + bb + cc + dd + ee)
        BY <3>3
      <3> QED  BY <3>1, <3>4 DEF Tallied
    <2> QED  BY <2>6, <2>7, <2>8, <2>9 DEF Kept
  <1>6. CASE /\ ~Sole(x)
             /\ \E i \in Handles :
                   /\ Free(i)
                   /\ Taken(i)
                   /\ slots' = [Cloned(slots, Inside(trees(x))) EXCEPT ![i] = Slot(trees(x), FALSE)]
                   /\ var' = [var EXCEPT ![v] = i]
                   /\ drops' = Own(x)
    <2>1. PICK i \in Handles :
             /\ Free(i)
             /\ Taken(i)
             /\ slots' = [Cloned(slots, Inside(trees(x))) EXCEPT ![i] = Slot(trees(x), FALSE)]
             /\ var' = [var EXCEPT ![v] = i]
             /\ drops' = Own(x)
      BY <1>6
    <2>2. /\ trees(x) \in Seq(Trees)
          /\ \A h \in Handles : slots[h].handles = 0 => InTrees(h, trees(x)) = 0
      <3>1. CASE x = 0
        <4>1. trees(x) = <<>>
          BY <3>1 DEF trees
        <4> QED  BY <4>1, TreesNone
      <3>2. CASE x # 0
        <4>1. x \in Handles
          BY <3>2, StreamHandle
        <4>2. trees(x) = slots[x].trees /\ slots[x].trees \in Seq(Trees)
          BY <1>2, <3>2, <4>1 DEF trees, Slots
        <4> QED  BY <4>1, <4>2, TreesAlive
      <3> QED  BY <3>1, <3>2
    <2> DEFINE hs == Inside(trees(x))
               slot == Slot(trees(x), FALSE)
    <2>3. hs \in Seq(Streams) /\ \A h \in Handles : Times(h, hs) = InTrees(h, trees(x))
      BY <2>2, InsideType DEF InTrees
    <2>4. slot \in Slots /\ slot.handles = 1 /\ slot.trees = trees(x)
      BY <2>2, TreeTypes
    <2> HIDE DEF hs, slot
    <2>5. PICK sl : sl = Cloned(slots, hs)
      OBVIOUS
    <2>6. /\ Sound(sl, free, len)
          /\ \A h \in Handles : /\ sl[h].handles = slots[h].handles + Times(h, hs)
                                /\ Within(sl, h) = Within(slots, h)
      BY <1>2, <2>2, <2>3, <2>5, StoreClone
    <2>7. slots' \in [Handles -> Slots] /\ Put(slots', sl, i, slot)
      <3>1. slots' = [sl EXCEPT ![i] = slot]
        BY <2>1, <2>5 DEF hs, slot
      <3>2. sl \in [Handles -> Slots]
        BY <2>6 DEF Sound
      <3> QED  BY <2>4, <3>1, <3>2, SlotExcept
    <2>8. /\ Sound(slots', free', len')
          /\ \A h \in Handles : /\ slots'[h].handles = sl[h].handles + One(i, h)
                                /\ Within(slots', h) = Within(sl, h) + InTrees(h, slot.trees)
      <3>1. Unused(i, free, len) /\ free' = free \ {i} /\ len' = IF i > len THEN i ELSE len
        BY <2>1, FreeUnused DEF Taken
      <3> QED  BY <2>4, <2>6, <2>7, <3>1, StoreTake
    <2>9. Assigned(var', var, v, i) /\ i # 0
      <3>1. i \in Streams /\ i # 0
        BY BoundAssumption, TreeTypes DEF Handles
      <3> QED  BY <1>2, <2>1, <3>1, AssignExcept
    <2>10. Typed'
      <3>1. drops' \in Seq(Streams)
        BY <2>1, TimesOwnType
      <3> QED  BY <1>2, <1>3, <2>9, <3>1 DEF StreamInv, Typed, Assigned
    <2>11. ExtInv'
      BY <1>4, <2>9 DEF Assigned
    <2>12. Balanced
      <3> SUFFICES ASSUME NEW h \in Handles
                   PROVE  slots'[h].handles + References(h) = slots[h].handles + References(h)'
        BY DEF Balanced
      <3>1. PICK n, a, b, c, d, e, nn, aa, bb, cc, dd, ee \in Nat :
               Tallied(h, n, a, b, c, d, e, nn, aa, bb, cc, dd, ee)
        BY <2>7, <2>10, Tally
      <3>2. PICK y, p, q \in Nat : y = InTrees(h, trees(x)) /\ p = One(x, h) /\ q = One(i, h)
        BY <2>2, TreesNat, OneNat
      <3>3. InVars(var', h) + One(x, h) = InVars(var, h) + One(i, h)
        BY <1>1, <2>9, VarAssign
      <3>4. Times(h, drops') = One(x, h) /\ Times(h, drops) = 0
        BY <1>2, <2>1, TimesOwn, TimesNone
      <3>5. nn = (n + y) + q /\ ee = e + y
        BY <2>3, <2>4, <2>6, <2>8, <3>1, <3>2 DEF Tallied
      <3>6. aa + p = a + q /\ bb = b /\ cc = c /\ d = 0 /\ dd = p
        BY <1>2, <1>3, <3>1, <3>2, <3>3, <3>4 DEF Tallied
      <3>7. nn + (a + b + c + d + e) = n + (aa + bb + cc + dd + ee)
        BY <3>5, <3>6
      <3> QED  BY <3>1, <3>7 DEF Tallied
    <2> QED  BY <2>8, <2>10, <2>11, <2>12 DEF Kept
  <1> QED  BY <1>1, <1>5, <1>6 DEF TreesMut

\* A push through a stale reference loses what it pushes, and their counts stay.
LEMMA PushKeeps ==
    ASSUME StreamInv, Push
    PROVE  StreamInv'
  <1>1. PICK v \in Vars, x \in Handles : v = ext.v /\ x = var[v] /\ slots[x].handles # 0
    <2>1. ext.v \in Vars /\ var[ext.v] # 0 /\ var[ext.v] \in Streams
      BY DEF StreamInv, Typed, ExtInv, Push
    <2> QED  BY <2>1, StreamHandle, VarAlive
  <1>2. /\ Sound(slots, free, len) /\ slots \in [Handles -> Slots]
        /\ len' = len /\ free' = free /\ var' = var /\ held' = held /\ stale' = stale /\ drops' = drops
        /\ ext \in Exts /\ ext.items \in Seq(Trees)
    BY DEF StreamInv, Typed, Sound, Exts, Push
  <1>3. /\ ext' \in Exts /\ ext'.items = <<>>
        /\ \/ ext' = NoExt /\ ext'.at = "none"
           \/ ext'.at = "pull" /\ ext'.v = v
    <2>1. CASE ext.more
      <3>1. ext' = [ext EXCEPT !.at = "pull", !.items = <<>>]
        BY <2>1 DEF Push
      <3>2. ext' = [at |-> "pull", v |-> ext.v, items |-> <<>>, more |-> ext.more]
        BY <1>2, <3>1 DEF Exts
      <3>3. ext.v \in Vars /\ ext.more \in BOOLEAN /\ <<>> \in Seq(Trees)
        BY <1>1, <1>2 DEF Exts
      <3> QED  BY <1>1, <3>2, <3>3 DEF Exts
    <2>2. CASE ~ext.more
      <3>1. ext' = NoExt
        BY <2>2 DEF Push
      <3> QED  BY <3>1 DEF Exts, NoExt
    <2> QED  BY <2>1, <2>2
  <1>4. Typed'
    BY <1>2, <1>3 DEF StreamInv, Typed
  <1>5. ExtInv'
    <2>1. x # 0
      BY BoundAssumption DEF Handles
    <2> QED  BY <1>1, <1>2, <1>3, <2>1 DEF StreamInv, ExtInv
  <1>6. ASSUME NEW h \in Handles PROVE InTrees(h, ext'.items) = 0
    BY <1>3, TreesNone
  <1>7. CASE stale
    <2>1. slots' = slots
      BY <1>7 DEF Push
    <2>2. Sound(slots', free', len') /\ slots' \in [Handles -> Slots]
      BY <1>2, <2>1
    <2>3. LazyGroups
      BY <1>7 DEF StreamInv, ExtInv
    <2>4. ASSUME NEW h \in Handles PROVE References(h)' <= slots'[h].handles
      <3>1. PICK n, a, b, c, d, e, nn, aa, bb, cc, dd, ee \in Nat :
               Tallied(h, n, a, b, c, d, e, nn, aa, bb, cc, dd, ee)
        BY <1>4, <2>2, Tally
      <3>2. nn = n /\ aa = a /\ bb = b /\ cc = 0 /\ dd = d /\ ee = e
        BY <1>2, <1>6, <2>1, <3>1 DEF Tallied
      <3>3. a + b + c + d + e <= n
        BY <3>1 DEF Tallied, StreamInv, CountInv
      <3>4. aa + bb + cc + dd + ee <= nn
        BY <3>2, <3>3
      <3> QED  BY <3>1, <3>4 DEF Tallied
    <2>5. CountInv'
      BY <2>3, <2>4 DEF CountInv
    <2> QED  BY <1>4, <1>5, <2>2, <2>5 DEF StreamInv
  <1>8. CASE ~stale
    <2> DEFINE slot == [slots[x] EXCEPT !.trees = slots[x].trees \o ext.items]
    <2>1. slot \in Slots /\ slot.handles = slots[x].handles /\ slot.trees = slots[x].trees \o ext.items
      <3>1. slots[x] \in Slots /\ slots[x].trees \in Seq(Trees)
        BY <1>2 DEF Slots
      <3>2. slots[x].trees \o ext.items \in Seq(Trees)
        BY <1>2, <3>1
      <3> QED  BY <3>1, <3>2 DEF Slots
    <2>2. slots' = [slots EXCEPT ![x] = slot]
      BY <1>1, <1>8 DEF Push
    <2> HIDE DEF slot
    <2>3. slots' \in [Handles -> Slots] /\ Put(slots', slots, x, slot)
      BY <1>2, <2>1, <2>2, SlotExcept
    <2>4. /\ Sound(slots', free', len')
          /\ \A h \in Handles :
                /\ slots'[h].handles = slots[h].handles
                /\ Within(slots', h) + InTrees(h, slots[x].trees) = Within(slots, h) + InTrees(h, slot.trees)
      <3>1. slot \in Slots /\ slot.handles = slots[x].handles
        BY <2>1
      <3>2. slots[x].handles # 0 /\ Sound(slots, free, len) /\ len' = len /\ free' = free
        BY <1>1, <1>2
      <3> QED  BY <2>3, <3>1, <3>2, StoreWrite
    <2>5. Balanced
      <3> SUFFICES ASSUME NEW h \in Handles
                   PROVE  slots'[h].handles + References(h) = slots[h].handles + References(h)'
        BY DEF Balanced
      <3>1. PICK n, a, b, c, d, e, nn, aa, bb, cc, dd, ee \in Nat :
               Tallied(h, n, a, b, c, d, e, nn, aa, bb, cc, dd, ee)
        BY <1>4, <2>3, Tally
      <3>2. slots[x].trees \in Seq(Trees)
        BY <1>2 DEF Slots
      <3>3. PICK y \in Nat : y = InTrees(h, slots[x].trees)
        BY <3>2, TreesNat
      <3>4. InTrees(h, slot.trees) = y + c
        BY <1>2, <2>1, <3>1, <3>2, <3>3, TreesConcat DEF Tallied
      <3>5. ee + y = e + (y + c)
        BY <2>4, <3>1, <3>3, <3>4 DEF Tallied
      <3>6. nn = n /\ aa = a /\ bb = b /\ cc = 0 /\ dd = d
        BY <1>2, <1>6, <2>4, <3>1 DEF Tallied
      <3>7. nn + (a + b + c + d + e) = n + (aa + bb + cc + dd + ee)
        BY <3>5, <3>6
      <3> QED  BY <3>1, <3>7 DEF Tallied
    <2>6. CountInv'
      BY <1>4, <2>3, <2>5, BalanceKeeps
    <2> QED  BY <1>4, <1>5, <2>4, <2>6 DEF StreamInv
  <1> QED  BY <1>7, <1>8

\* Drop for TokenStream: one count less, or the slot freed and its trees to be dropped.
LEMMA DropHandleKeeps ==
    ASSUME StreamInv, DropHandle
    PROVE  Kept
  <1>1. /\ drops \in Seq(Streams) /\ drops # <<>> /\ Tail(drops) \in Seq(Streams)
        /\ Sound(slots, free, len) /\ slots \in [Handles -> Slots]
        /\ len' = len /\ var' = var /\ held' = held /\ ext' = ext /\ stale' = stale
    <2>1. drops \in Seq(Streams) /\ drops # <<>>
      BY DEF StreamInv, Typed, DropHandle
    <2> QED  BY <2>1 DEF StreamInv, Sound, DropHandle
  <1>2. PICK x \in Handles : x = Head(drops) /\ slots[x].handles # 0
    <2>1. Head(drops) \in Streams /\ Head(drops) # 0
      BY <1>1 DEF DropHandle
    <2>2. PICK x \in Handles : x = Head(drops)
      BY <2>1, StreamHandle
    <2>3. Times(x, drops) = One(x, x) + Times(x, Tail(drops))
      BY <1>1, <2>2, TimesHead
    <2>4. PICK t \in Nat : t = Times(x, Tail(drops))
      BY <1>1, TimesNat
    <2>5. Times(x, drops) # 0
      BY <2>3, <2>4 DEF One
    <2> QED  BY <2>2, <2>5, DeadUnseen
  <1>3. ASSUME NEW h \in Handles PROVE Times(h, drops) = One(x, h) + Times(h, Tail(drops))
    BY <1>1, <1>2, TimesHead
  <1>4. ExtInv'
    BY <1>1 DEF StreamInv, ExtInv
  <1>5. CASE slots[x].handles = 1
    <2>1. /\ slots' = [slots EXCEPT ![x] = Dead] /\ free' = free \cup {x}
          /\ drops' = Inside(slots[x].trees) \o Tail(drops)
      BY <1>2, <1>5 DEF DropHandle
    <2>2. slots' \in [Handles -> Slots] /\ Put(slots', slots, x, Dead)
      <3>1. Dead \in Slots
        BY DEF Dead, Slots
      <3> QED  BY <1>1, <2>1, <3>1, SlotExcept
    <2>3. free' = free \cup {x} /\ drops' = Inside(slots[x].trees) \o Tail(drops)
      BY <2>1
    <2>4. /\ Sound(slots', free', len')
          /\ \A h \in Handles : /\ slots'[h].handles + One(x, h) = slots[h].handles
                                /\ Within(slots', h) + InTrees(h, slots[x].trees) = Within(slots, h)
      <3>1. Sound(slots, free, len) /\ len' = len /\ free' = free \cup {x}
        BY <1>1, <2>3
      <3>2. Sound(slots', free \cup {x}, len)
        BY <1>5, <2>2, <3>1, StoreFree
      <3>3. ASSUME NEW h \in Handles
            PROVE  /\ slots'[h].handles + One(x, h) = slots[h].handles
                   /\ Within(slots', h) + InTrees(h, slots[x].trees) = Within(slots, h)
        BY <1>1, <1>5, <2>2, FreeCounts
      <3> QED  BY <3>1, <3>2, <3>3
    <2>5. slots[x].trees \in Seq(Trees) /\ Inside(slots[x].trees) \in Seq(Streams)
      <3>1. slots[x].trees \in Seq(Trees)
        BY <1>1 DEF Slots
      <3> QED  BY <3>1, InsideType
    <2>6. Typed'
      <3>1. drops' \in Seq(Streams)
        BY <1>1, <2>3, <2>5, ConcatProperties
      <3> QED  BY <1>1, <3>1 DEF StreamInv, Typed
    <2>7. Balanced
      <3> SUFFICES ASSUME NEW h \in Handles
                   PROVE  slots'[h].handles + References(h) = slots[h].handles + References(h)'
        BY DEF Balanced
      <3>1. PICK n, a, b, c, d, e, nn, aa, bb, cc, dd, ee \in Nat :
               Tallied(h, n, a, b, c, d, e, nn, aa, bb, cc, dd, ee)
        BY <2>2, <2>6, Tally
      <3>2. PICK y, p, t \in Nat : /\ y = InTrees(h, slots[x].trees) /\ p = One(x, h)
                                   /\ t = Times(h, Tail(drops))
        BY <1>1, <2>5, TreesNat, OneNat, TimesNat
      <3>3. Times(h, drops') = y + t
        BY <1>1, <2>3, <2>5, <3>2, TimesConcat DEF InTrees
      <3>4. nn + p = n /\ ee + y = e
        BY <2>4, <3>1, <3>2 DEF Tallied
      <3>5. aa = a /\ bb = b /\ cc = c /\ d = p + t /\ dd = y + t
        BY <1>1, <1>3, <3>1, <3>2, <3>3 DEF Tallied
      <3>6. nn + (a + b + c + d + e) = n + (aa + bb + cc + dd + ee)
        BY <3>4, <3>5
      <3> QED  BY <3>1, <3>6 DEF Tallied
    <2> QED  BY <1>4, <2>4, <2>6, <2>7 DEF Kept
  <1>6. CASE slots[x].handles # 1
    <2> DEFINE slot == [slots[x] EXCEPT !.handles = slots[x].handles - 1]
    <2>1. slots' = [slots EXCEPT ![x] = slot] /\ free' = free /\ drops' = Tail(drops)
      <3>1. drops' = <<>> \o Tail(drops)
        BY <1>2, <1>6 DEF DropHandle
      <3>2. drops' = Tail(drops)
        BY <1>1, <3>1, ConcatEmptySeq
      <3>3. slots' = [slots EXCEPT ![x] = slot]
        <4>1. slots[Head(drops)].handles # 1
          BY <1>2, <1>6
        <4>2. slots' = [slots EXCEPT ![Head(drops)] =
                          [slots[Head(drops)] EXCEPT !.handles = slots[Head(drops)].handles - 1]]
          BY <1>1, <4>1 DEF DropHandle
        <4> QED  BY <1>2, <4>2
      <3>4. free' = free
        BY <1>2, <1>6 DEF DropHandle
      <3> QED  BY <1>6, <3>2, <3>3, <3>4
    <2>2. slot \in Slots
      <3>1. slots[x] \in Slots /\ slots[x].handles \in Nat
        BY <1>1 DEF Slots
      <3>2. slots[x].handles - 1 \in Nat
        BY <1>2, <3>1
      <3> QED  BY <3>1, <3>2 DEF Slots
    <2>3. slots' \in [Handles -> Slots] /\ Put(slots', slots, x, slot)
      <3> HIDE DEF slot
      <3> QED  BY <1>1, <2>1, <2>2, SlotExcept
    <2>4. free' = free /\ drops' = Tail(drops)
      BY <2>1
    <2>5. /\ Sound(slots', free', len')
          /\ \A h \in Handles : /\ slots'[h].handles + One(x, h) = slots[h].handles
                                /\ Within(slots', h) = Within(slots, h)
      BY <1>1, <1>2, <1>6, <2>3, <2>4, StoreLess
    <2>6. Typed'
      BY <1>1, <2>4 DEF StreamInv, Typed
    <2>7. Balanced
      <3> SUFFICES ASSUME NEW h \in Handles
                   PROVE  slots'[h].handles + References(h) = slots[h].handles + References(h)'
        BY DEF Balanced
      <3>1. PICK n, a, b, c, d, e, nn, aa, bb, cc, dd, ee \in Nat :
               Tallied(h, n, a, b, c, d, e, nn, aa, bb, cc, dd, ee)
        BY <2>3, <2>6, Tally
      <3>2. PICK p \in Nat : p = One(x, h)
        BY OneNat
      <3>3. nn + p = n /\ aa = a /\ bb = b /\ cc = c /\ d = p + dd /\ ee = e
        BY <1>1, <1>3, <2>4, <2>5, <3>1, <3>2 DEF Tallied
      <3>4. nn + (a + b + c + d + e) = n + (aa + bb + cc + dd + ee)
        BY <3>3
      <3> QED  BY <3>1, <3>4 DEF Tallied
    <2> QED  BY <1>4, <2>5, <2>6, <2>7 DEF Kept
  <1> QED  BY <1>5, <1>6

(***************************************************************************)
(* The theorems.                                                           *)
(***************************************************************************)

\* The invariant holds at the start: every slot is dead and unseen.
LEMMA StreamsStart == Init => StreamInv
  <1> SUFFICES ASSUME Init PROVE StreamInv
    OBVIOUS
  <1>1. /\ slots = [h \in Handles |-> Dead] /\ len = 0 /\ free = {} /\ var = [v \in Vars |-> 0]
        /\ held = <<>> /\ ext = NoExt /\ stale = FALSE /\ drops = <<>>
    BY DEF Init
  <1>2. Dead \in Slots /\ Dead.handles = 0 /\ Dead.trees = <<>> /\ 0 \in Streams
    BY BoundAssumption DEF Dead, Slots, Streams
  <1>3. NoExt \in Exts /\ NoExt.items = <<>> /\ NoExt.at = "none"
    BY DEF NoExt, Exts
  <1>4. Typed
    <2>1. <<>> \in Seq(Trees) /\ <<>> \in Seq(Streams) /\ var \in [Vars -> Streams]
      BY <1>1, <1>2
    <2> QED  BY <1>1, <1>3, <2>1 DEF Typed
  <1>5. ExtInv
    BY <1>1, <1>3 DEF ExtInv
  <1>6. slots \in [Handles -> Slots] /\ \A h \in Handles : slots[h] = Dead
    BY <1>1, <1>2
  <1>7. Sound(slots, free, len)
    <2>1. \A h \in Handles : h > 0 /\ h \notin {}
      BY BoundAssumption DEF Handles
    <2>2. 0 \in 0..MaxSlots
      BY BoundAssumption
    <2> QED  BY <1>1, <1>2, <1>6, <2>1, <2>2 DEF Sound
  <1>8. ASSUME NEW h \in Handles PROVE References(h) = 0
    <2>1. {v \in Vars : var[v] = h} = {}
      BY <1>1, BoundAssumption DEF Handles
    <2>2. InVars(var, h) = 0
      BY <2>1, FS_EmptySet DEF InVars
    <2>3. InSlots(slots, h) = {}
      BY <1>2, <1>6 DEF InSlots
    <2>4. Within(slots, h) = 0
      BY <2>3, FS_EmptySet DEF Within
    <2>5. InTrees(h, held) = 0 /\ InTrees(h, ext.items) = 0 /\ Times(h, drops) = 0
      BY <1>1, <1>3, TreesNone, TimesNone
    <2> QED  BY <2>2, <2>4, <2>5, ReferencesSum
  <1>9. CountInv
    BY <1>2, <1>6, <1>8 DEF CountInv
  <1> QED  BY <1>4, <1>5, <1>7, <1>9 DEF StreamInv

\* What is kept is the invariant.
LEMMA KeptInv ==
    ASSUME StreamInv, Kept
    PROVE  StreamInv'
  <1>1. Typed' /\ Sound(slots', free', len') /\ ExtInv' /\ Balanced
    BY DEF Kept
  <1>2. slots' \in [Handles -> Slots]
    BY <1>1 DEF Sound
  <1>3. CountInv'
    BY <1>1, <1>2, BalanceKeeps
  <1> QED  BY <1>1, <1>3 DEF StreamInv

\* Every step keeps the invariant.
LEMMA StreamsStep == StreamInv /\ [Next]_vars => StreamInv'
  <1> SUFFICES ASSUME StreamInv, [Next]_vars PROVE StreamInv'
    OBVIOUS
  <1>1. ASSUME NEW v \in Vars,
               \/ From(v) \/ Receive(v) \/ Drop(v)
               \/ Iterate(v) \/ Open(v) \/ Collect(v) \/ ExtendTrees(v)
        PROVE  StreamInv'
    BY <1>1, FromKeeps, ReceiveKeeps, DropKeeps, IterateKeeps, OpenKeeps, CollectKeeps,
       ExtendTreesKeeps, KeptInv
  <1>2. ASSUME NEW v \in Vars, NEW w \in Vars, Clone(v, w) \/ Wrap(v, w) \/ ExtendStream(v, w)
        PROVE  StreamInv'
    BY <1>2, CloneKeeps, WrapKeeps, ExtendStreamKeeps, KeptInv
  <1>3. CASE Discard \/ TreesMut \/ PullNext \/ PullEnd \/ DropHandle \/ DropNothing
    BY <1>3, DiscardKeeps, TreesMutKeeps, PullNextKeeps, PullEndKeeps, DropHandleKeeps,
       DropNothingKeeps, KeptInv
  <1>4. CASE Push
    BY <1>4, PushKeeps
  <1>5. CASE UNCHANGED vars
    <2>1. /\ slots' = slots /\ len' = len /\ free' = free /\ var' = var /\ held' = held
          /\ ext' = ext /\ stale' = stale /\ drops' = drops
      BY <1>5 DEF vars
    <2>2. ASSUME NEW h \in Handles PROVE References(h)' = References(h)
      BY <2>1 DEF References
    <2>3. CountInv'
      BY <2>1, <2>2 DEF StreamInv, CountInv
    <2> QED  BY <2>1, <2>3 DEF StreamInv, Typed, ExtInv
  <1> QED  BY <1>1, <1>2, <1>3, <1>4, <1>5 DEF Next

\* The invariant of the store, whatever the iterators do: no handle in a variable,
\* a tree or a drop under way is to a slot that `slot` would find freed.
THEOREM StreamInvariant == Spec => []StreamInv
  BY StreamsStart, StreamsStep, PTL DEF Spec

\* The variables of the store have their types, lazy groups or not: in particular
\* no count goes below zero and no slot beyond SLOTS.len() is freed.
THEOREM StreamTypeCorrect == Spec => []TypeOK
  <1>1. StreamInv => TypeOK
    <2> SUFFICES ASSUME StreamInv PROVE TypeOK
      OBVIOUS
    <2>1. /\ slots \in [Handles -> Slots] /\ len \in 0..MaxSlots /\ free \subseteq 1..len
          /\ var \in [Vars -> Streams] /\ held \in Seq(Trees) /\ stale \in BOOLEAN
          /\ drops \in Seq(Streams)
      BY DEF StreamInv, Sound, Typed
    <2>2. ext.items \in Seq(Trees) /\ ext.at \in {"none", "change", "push", "pull"}
      BY DEF StreamInv, Typed, Exts
    <2> QED  BY <2>1, <2>2 DEF TypeOK, Slots, Streams
  <1> QED  BY <1>1, StreamInvariant, PTL

\* As long as no iterator given to `extend` makes SLOTS grow, every slot counts the
\* handles there are to it exactly, and the slots without one are those on FREE and
\* those never used: none is freed while in use, freed twice or leaked.
THEOREM CountsAreExact == ~LazyGroups => (Spec => []CountsExact)
  <1>1. ~LazyGroups /\ StreamInv => CountsExact
    BY DEF StreamInv, CountInv, Sound, CountsExact
  <1> SUFFICES ASSUME ~LazyGroups PROVE Spec => []CountsExact
    OBVIOUS
  <1>2. StreamInv => CountsExact
    BY <1>1
  <1> QED  BY <1>2, StreamInvariant, PTL
=============================================================================
