---------------------------- MODULE TokenStreams ---------------------------
(***************************************************************************)
(* The stream store of the macro process (src/lib/proc_macro/src/lib.rs,   *)
(* `token_stream`).  A TokenStream is a handle: 0 is the empty stream, any *)
(* other number is a slot that holds the trees and counts the handles.  A  *)
(* clone shares the slot and a write to a shared slot copies it first.  A  *)
(* tree is a token or a group, and a group holds the handle of its stream, *)
(* so copying trees clones handles and dropping trees drops them.          *)
(*                                                                         *)
(* A macro runs on one thread.  Dropping a stream may drop others inside   *)
(* it, which is done one handle at a time before anything else goes on.    *)
(* `extend` runs the macro's own iterator while it holds a reference into  *)
(* the store, so each tree it asks for is a step.                          *)
(***************************************************************************)
EXTENDS Naturals, Sequences, FiniteSets

CONSTANTS Vars,         \* the macro's variables of type TokenStream
          Toks,         \* tokens that are not groups
          MaxSlots,     \* bound on SLOTS.len()
          MaxLen,       \* bound on the trees of a stream
          LazyGroups    \* an iterator given to `extend` may make SLOTS grow

ASSUME BoundAssumption ==
    IsFiniteSet(Vars) /\ MaxSlots \in Nat /\ MaxLen \in Nat /\ LazyGroups \in BOOLEAN

VARIABLES slots,    \* SLOTS: the slot of a handle, or Dead
          len,      \* SLOTS.len()
          free,     \* FREE, as a set
          var,      \* var[v]: the handle v holds
          held,     \* the trees of the iterator the macro holds
          ext,      \* the `extend` in progress
          stale,    \* SLOTS moved while `extend` holds a reference into it
          drops     \* handles whose drop is under way

store == <<slots, len, free>>
vars == <<slots, len, free, var, held, ext, stale, drops>>

Dead == [trees |-> <<>>, hidden |-> FALSE, handles |-> 0]
Handles == 1..MaxSlots

Leaf(t) == [kind |-> "leaf", tok |-> t]
Group(h, fragment) == [kind |-> "group", stream |-> h, fragment |-> fragment]
Slot(trees, hidden) == [trees |-> trees, hidden |-> hidden, handles |-> 1]

\* The handles in a sequence of trees; a token has none, as an empty group.
StreamOf(tree) == IF tree.kind = "group" THEN tree.stream ELSE 0
Inside(trees) == [k \in DOMAIN trees |-> StreamOf(trees[k])]
Times(h, seq) == Cardinality({k \in DOMAIN seq : seq[k] = h})

\* Clone for TokenStream, of every handle in hs
Cloned(sl, hs) == [h \in Handles |-> [sl[h] EXCEPT !.handles = @ + Times(h, hs)]]

Own(h) == IF h = 0 THEN <<>> ELSE <<h>>
trees(h) == IF h = 0 THEN <<>> ELSE slots[h].trees
Sole(h) == IF h = 0 THEN FALSE ELSE slots[h].handles = 1

\* allocate_spaced: a freed index, or a new one at the end.  Which freed index
\* comes first is left open by the order of FREE; an index is only a name, so
\* the lowest stands for all.
First(i, indices) == i \in indices /\ \A j \in indices : i <= j
Free(i) == IF free = {} THEN i = len + 1 /\ i <= MaxSlots ELSE First(i, free)

\* Mutant of Taken: an index from the free list stays on it.
Taken_KeepsFree(i) == /\ free' = free
                      /\ len' = IF i > len THEN i ELSE len

Taken(i) == /\ free' = free \ {i}
            /\ len' = IF i > len THEN i ELSE len

\* IntoIter::next: the compiler's fragment becomes a group of the macro's own
Handed(tree) == IF tree.kind = "group" THEN [tree EXCEPT !.fragment = FALSE] ELSE tree

NoExt == [at |-> "none", v |-> "none", items |-> <<>>, more |-> FALSE]
Idle == drops = <<>> /\ ext = NoExt

Init == /\ slots = [h \in Handles |-> Dead]
        /\ len = 0
        /\ free = {}
        /\ var = [v \in Vars |-> 0]
        /\ held = <<>>
        /\ ext = NoExt
        /\ stale = FALSE
        /\ drops = <<>>

(***************************************************************************)
(* Making, copying and dropping streams.                                   *)
(***************************************************************************)

\* v = TokenStream(Some(i)), where slot i is new; the old stream of v is dropped
Allocate(v, i, slot) ==
    /\ Free(i)
    /\ Taken(i)
    /\ slots' = [slots EXCEPT ![i] = slot]
    /\ var' = [var EXCEPT ![v] = i]

\* From<TokenTree>
From(v) ==
    /\ Idle
    /\ \E t \in Toks, i \in Handles : Allocate(v, i, Slot(<<Leaf(t)>>, FALSE))
    /\ drops' = Own(var[v])
    /\ UNCHANGED <<held, ext, stale>>

\* recv_token_stream of an invisible group with one token in it: get_subtree
\* allocates the stream inside first
Receive(v) ==
    /\ Idle
    /\ \E t \in Toks, i, j \in Handles :
          /\ Free(i)
          /\ i # j
          /\ IF free \ {i} = {} THEN j = (IF i > len THEN i ELSE len) + 1 ELSE First(j, free \ {i})
          /\ slots' = [slots EXCEPT ![i] = Slot(<<Leaf(t)>>, TRUE),
                                    ![j] = Slot(<<Group(i, TRUE)>>, TRUE)]
          /\ free' = free \ {i, j}
          /\ len' = IF j > len THEN j ELSE len
          /\ var' = [var EXCEPT ![v] = j]
    /\ drops' = Own(var[v])
    /\ UNCHANGED <<held, ext, stale>>

Clone(v, w) ==
    /\ Idle
    /\ v # w
    /\ slots' = Cloned(slots, Own(var[v]))
    /\ var' = [var EXCEPT ![w] = var[v]]
    /\ drops' = Own(var[w])
    /\ UNCHANGED <<len, free, held, ext, stale>>

\* The macro is done with v, or v is sent back and its trees are used up.
Drop(v) ==
    /\ Idle
    /\ var' = [var EXCEPT ![v] = 0]
    /\ drops' = Own(var[v])
    /\ UNCHANGED <<store, held, ext, stale>>

\* Mutant of DropHandle: the streams inside a freed slot are forgotten.
DropHandle_Shallow ==
    /\ drops # <<>>
    /\ Head(drops) # 0
    /\ LET h == Head(drops)
           last == slots[h].handles = 1
       IN  /\ slots' = [slots EXCEPT ![h] = IF last THEN Dead ELSE [slots[h] EXCEPT !.handles = @ - 1]]
           /\ free' = IF last THEN free \cup {h} ELSE free
           /\ drops' = Tail(drops)
    /\ UNCHANGED <<len, var, held, ext, stale>>

\* Drop for TokenStream, of the first handle of drops; the last handle of a
\* slot frees it and drops the streams in its trees.
DropHandle ==
    /\ drops # <<>>
    /\ Head(drops) # 0
    /\ LET h == Head(drops)
           last == slots[h].handles = 1
       IN  /\ slots' = [slots EXCEPT ![h] = IF last THEN Dead ELSE [slots[h] EXCEPT !.handles = @ - 1]]
           /\ free' = IF last THEN free \cup {h} ELSE free
           /\ drops' = (IF last THEN Inside(slots[h].trees) ELSE <<>>) \o Tail(drops)
    /\ UNCHANGED <<len, var, held, ext, stale>>

\* There is nothing to drop of an empty stream, nor of a token.
DropNothing ==
    /\ drops # <<>>
    /\ Head(drops) = 0
    /\ drops' = Tail(drops)
    /\ UNCHANGED <<store, var, held, ext, stale>>

(***************************************************************************)
(* Groups and iteration.                                                   *)
(***************************************************************************)

\* w = Group::new(_, v).into(): v moves into the group
Wrap(v, w) ==
    /\ Idle
    /\ \E i \in Handles :
          /\ Free(i)
          /\ Taken(i)
          /\ slots' = [slots EXCEPT ![i] = Slot(<<Group(var[v], FALSE)>>, FALSE)]
          /\ var' = [var EXCEPT ![v] = 0, ![w] = i]
    /\ drops' = IF v = w THEN <<>> ELSE Own(var[w])
    /\ UNCHANGED <<held, ext, stale>>

\* into_trees of handle h: the trees of an only handle are moved out of the
\* slot, those of a shared slot are cloned
IntoTrees(h) ==
    slots' = IF h = 0 THEN slots
             ELSE IF Sole(h) THEN [slots EXCEPT ![h].trees = <<>>]
             ELSE Cloned(slots, Inside(slots[h].trees))

\* v.into_iter(), and next() for every tree
Iterate(v) ==
    /\ Idle
    /\ held = <<>>
    /\ IntoTrees(var[v])
    /\ held' = [k \in DOMAIN trees(var[v]) |-> Handed(trees(var[v])[k])]
    /\ var' = [var EXCEPT ![v] = 0]
    /\ drops' = Own(var[v])
    /\ UNCHANGED <<len, free, ext, stale>>

\* w = group.stream()
Open(w) ==
    /\ Idle
    /\ held # <<>>
    /\ Head(held).kind = "group"
    /\ LET h == Head(held).stream
       IN  /\ slots' = Cloned(slots, Own(h))
           /\ var' = [var EXCEPT ![w] = h]
    /\ drops' = Own(var[w])
    /\ UNCHANGED <<len, free, held, ext, stale>>

Discard ==
    /\ Idle
    /\ held # <<>>
    /\ held' = Tail(held)
    /\ drops' = Inside(<<Head(held)>>)
    /\ UNCHANGED <<store, var, ext, stale>>

\* FromIterator<TokenTree>
Collect(w) ==
    /\ Idle
    /\ held # <<>>
    /\ \E i \in Handles : Allocate(w, i, Slot(held, FALSE))
    /\ held' = <<>>
    /\ drops' = Own(var[w])
    /\ UNCHANGED <<ext, stale>>

(***************************************************************************)
(* Extend.                                                                 *)
(***************************************************************************)

\* Extend<TokenStream> with the one stream w
ExtendStream(v, w) ==
    /\ Idle
    /\ v # w
    /\ Len(trees(var[v])) + Len(trees(var[w])) <= MaxLen
    /\ \/ /\ trees(var[w]) = <<>>
          /\ var' = [var EXCEPT ![w] = 0]
          /\ drops' = Own(var[w])
          /\ UNCHANGED <<slots, ext>>
       \/ /\ trees(var[w]) # <<>>
          /\ trees(var[v]) = <<>>
          /\ var' = [var EXCEPT ![v] = var[w], ![w] = 0]
          /\ drops' = Own(var[v])
          /\ UNCHANGED <<slots, ext>>
       \/ /\ trees(var[w]) # <<>>
          /\ trees(var[v]) # <<>>
          /\ IntoTrees(var[w])
          /\ ext' = [at |-> "change", v |-> v, items |-> trees(var[w]), more |-> FALSE]
          /\ var' = [var EXCEPT ![w] = 0]
          /\ drops' = Own(var[w])
    /\ UNCHANGED <<len, free, held, stale>>

\* The next tree of the iterator `extend` was given: one the macro holds, or a
\* group the macro makes around it, for which it allocates a stream.  If that
\* makes SLOTS grow, its elements may move.
Produce(at) ==
    /\ held # <<>>
    /\ held' = Tail(held)
    /\ \/ /\ ext' = [at EXCEPT !.items = <<Head(held)>>]
          /\ UNCHANGED <<store, stale>>
       \/ /\ LazyGroups \/ ext.at # "pull" \/ free # {}
          /\ \E i \in Handles :
                /\ Free(i)
                /\ Taken(i)
                /\ slots' = [slots EXCEPT ![i] = Slot(<<Head(held)>>, FALSE)]
                /\ ext' = [at EXCEPT !.items = <<Group(i, FALSE)>>]
                /\ stale' \in {stale, stale \/ (ext.at = "pull" /\ i > len)}

\* Extend<TokenTree>: peek, before the stream is touched
ExtendTrees(v) ==
    /\ Idle
    /\ Len(trees(var[v])) + Len(held) <= MaxLen
    /\ Produce([at |-> "change", v |-> v, items |-> <<>>, more |-> TRUE])
    /\ UNCHANGED <<var, drops>>

\* Mutant of TreesMut: a shared stream is changed where it is.
TreesMut_InPlace ==
    /\ drops = <<>>
    /\ ext.at = "change"
    /\ var[ext.v] # 0
    /\ slots' = [slots EXCEPT ![var[ext.v]].hidden = FALSE]
    /\ ext' = [ext EXCEPT !.at = "push"]
    /\ UNCHANGED <<len, free, var, held, stale, drops>>

\* trees_mut: the stream of v, which v shares with nobody afterwards
TreesMut ==
    /\ drops = <<>>
    /\ ext.at = "change"
    /\ LET v == ext.v
           h == var[v]
       IN  \/ /\ Sole(h)
              /\ slots' = [slots EXCEPT ![h].hidden = FALSE]
              /\ UNCHANGED <<len, free, var, drops>>
           \/ /\ ~Sole(h)
              /\ \E i \in Handles :
                    /\ Free(i)
                    /\ Taken(i)
                    /\ slots' = [Cloned(slots, Inside(trees(h))) EXCEPT ![i] = Slot(trees(h), FALSE)]
                    /\ var' = [var EXCEPT ![v] = i]
                    /\ drops' = Own(h)
    /\ ext' = [ext EXCEPT !.at = "push"]
    /\ UNCHANGED <<held, stale>>

\* Vec::extend through the reference trees_mut returned; one into memory that
\* SLOTS has left changes nothing in the store
Push ==
    /\ drops = <<>>
    /\ ext.at = "push"
    /\ slots' = IF stale THEN slots ELSE [slots EXCEPT ![var[ext.v]].trees = @ \o ext.items]
    /\ ext' = IF ext.more THEN [ext EXCEPT !.at = "pull", !.items = <<>>] ELSE NoExt
    /\ UNCHANGED <<len, free, var, held, stale, drops>>

PullNext ==
    /\ drops = <<>>
    /\ ext.at = "pull"
    /\ Produce([ext EXCEPT !.at = "push"])
    /\ UNCHANGED <<var, drops>>

\* The iterator ends, or panics with trees left, which the unwinding drops.
PullEnd ==
    /\ drops = <<>>
    /\ ext.at = "pull"
    /\ ext' = NoExt
    /\ stale' = FALSE
    /\ held' = <<>>
    /\ drops' = Inside(held)
    /\ UNCHANGED <<store, var>>

Next == \/ \E v \in Vars : \/ From(v) \/ Receive(v) \/ Drop(v)
                           \/ Iterate(v) \/ Open(v) \/ Collect(v) \/ ExtendTrees(v)
        \/ \E v, w \in Vars : Clone(v, w) \/ Wrap(v, w) \/ ExtendStream(v, w)
        \/ Discard \/ TreesMut \/ Push \/ PullNext \/ PullEnd \/ DropHandle \/ DropNothing

Spec == Init /\ [][Next]_vars
(***************************************************************************)
(* Properties.                                                             *)
(***************************************************************************)

Trees == [kind : {"leaf"}, tok : Toks]
         \cup [kind : {"group"}, stream : 0..MaxSlots, fragment : BOOLEAN]

\* The variables have their types.
TypeOK ==
    /\ slots \in [Handles -> [trees : Seq(Trees), hidden : BOOLEAN, handles : Nat]]
    /\ len \in 0..MaxSlots
    /\ free \subseteq 1..len
    /\ var \in [Vars -> 0..MaxSlots]
    /\ held \in Seq(Trees)
    /\ ext.items \in Seq(Trees)
    /\ ext.at \in {"none", "change", "push", "pull"}
    /\ stale \in BOOLEAN
    /\ drops \in Seq(0..MaxSlots)

\* Every slot's count is the number of handles there are to it: in variables, in
\* trees the macro or the library has in hand, in trees of live slots, and in
\* drops under way.  So no handle is to a dead slot (the expect in `slot`), no
\* slot is freed twice, and a slot with no handle left is on the free list.
InSlots(sl, h) ==
    {at \in UNION {{s} \X DOMAIN sl[s].trees : s \in Handles} :
        StreamOf(sl[at[1]].trees[at[2]]) = h}
References(h) ==
    Cardinality({v \in Vars : var[v] = h})
    + Times(h, Inside(held)) + Times(h, Inside(ext.items)) + Times(h, drops)
    + Cardinality(InSlots(slots, h))
CountsExact ==
    \A h \in Handles : /\ slots[h].handles = References(h)
                       /\ (slots[h].handles = 0) = (h \in free \/ h > len)

\* The reference `extend` writes through is one into the store, as the comment on
\* `slot` says it is safe to hold.  False: the next tree of the iterator may be a
\* group whose stream makes SLOTS grow.
ReferenceLive == ext.at = "push" => ~stale

\* The value behind a handle, unfolded as deep as slots can nest.
ValueTo[d \in 0..MaxSlots] ==
    [h \in 0..MaxSlots |->
        IF h = 0 \/ d = 0 THEN [trees |-> <<>>, joined |-> FALSE]
        ELSE [trees |-> [k \in DOMAIN slots[h].trees |->
                           LET tree == slots[h].trees[k]
                           IN  IF tree.kind = "leaf" THEN tree
                               ELSE [tree EXCEPT !.stream = ValueTo[d - 1][@]]],
              joined |-> slots[h].hidden]]
Value(h) == ValueTo[MaxSlots][h]
TreeValues(ts) ==
    [k \in DOMAIN ts |-> IF ts[k].kind = "leaf" THEN ts[k]
                                               ELSE [ts[k] EXCEPT !.stream = Value(@)]]

\* The store implements streams as values: sharing, copying on write, moving
\* out of an only handle and reusing slots are never seen by the macro.
Values == INSTANCE TokenValues WITH
    val <- [v \in Vars |-> Value(var[v])],
    held <- TreeValues(held),
    ext <- [ext EXCEPT !.items = TreeValues(ext.items)]
StreamsAreValues == Values!Spec
=============================================================================
