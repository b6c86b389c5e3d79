---------------------------- MODULE TokenValues ----------------------------
(***************************************************************************)
(* What the proc_macro library promises of a `TokenStream`: it is a value. *)
(* Cloning copies it, changing one copy leaves the others alone, and what  *)
(* the compiler noted about a stream (the joins no space separates, the    *)
(* fragment an invisible group stands for) stays with it until the macro   *)
(* changes the stream or is handed the group.  There are no handles, no    *)
(* slots and no reference counts here; TokenStreams has them, and is shown *)
(* to implement this.                                                      *)
(***************************************************************************)
EXTENDS Naturals, Sequences

CONSTANTS Vars,     \* the macro's variables of type TokenStream
          Toks      \* tokens that are not groups

VARIABLES val,      \* val[v]: the stream that v holds
          held,     \* trees an iterator has not handed on yet
          ext       \* the `extend` in progress, if any

avars == <<val, held, ext>>

Stream(trees, joined) == [trees |-> trees, joined |-> joined]
Empty == Stream(<<>>, FALSE)
Leaf(t) == [kind |-> "leaf", tok |-> t]
Group(s, fragment) == [kind |-> "group", stream |-> s, fragment |-> fragment]

\* A group the macro is handed is the macro's own.
Handed(tree) == IF tree.kind = "group" THEN [tree EXCEPT !.fragment = FALSE]
                                       ELSE tree

\* What the compiler sends: the token of a fragment, in an invisible group.
Received == {Stream(<<Group(Stream(<<Leaf(t)>>, TRUE), TRUE)>>, TRUE) : t \in Toks}

NoExt == [at |-> "none", v |-> "none", items |-> <<>>, more |-> FALSE]
Idle == ext = NoExt

Init == /\ val = [v \in Vars |-> Empty]
        /\ held = <<>>
        /\ ext = NoExt

Assign(v, s) == /\ Idle
                /\ val' = [val EXCEPT ![v] = s]
                /\ UNCHANGED <<held, ext>>

From(v) == \E t \in Toks : Assign(v, Stream(<<Leaf(t)>>, FALSE))
Receive(v) == \E s \in Received : Assign(v, s)
Clone(v, w) == Assign(w, val[v])
Drop(v) == Assign(v, Empty)

\* `w = Group::new(_, v).into()`: v is moved into the group.
Wrap(v, w) ==
    /\ Idle
    /\ val' = [val EXCEPT ![v] = Empty, ![w] = Stream(<<Group(val[v], FALSE)>>, FALSE)]
    /\ UNCHANGED <<held, ext>>

\* `for tree in v`
Iterate(v) ==
    /\ Idle
    /\ held = <<>>
    /\ held' = [k \in DOMAIN val[v].trees |-> Handed(val[v].trees[k])]
    /\ val' = [val EXCEPT ![v] = Empty]
    /\ UNCHANGED ext

\* `w = group.stream()`
Open(w) == /\ held # <<>>
           /\ Head(held).kind = "group"
           /\ Assign(w, Head(held).stream)

Discard == /\ Idle
           /\ held # <<>>
           /\ held' = Tail(held)
           /\ UNCHANGED <<val, ext>>

\* `w = iterator.collect()`
Collect(w) == /\ Idle
              /\ val' = [val EXCEPT ![w] = Stream(held, FALSE)]
              /\ held' = <<>>
              /\ UNCHANGED ext

\* `v.extend([w])`: nothing to add, the first trees of an empty stream, or
\* trees to append.
ExtendStream(v, w) ==
    /\ Idle
    /\ v # w
    /\ val' = [val EXCEPT ![w] = Empty,
                          ![v] = IF val[w].trees # <<>> /\ @.trees = <<>> THEN val[w] ELSE @]
    /\ ext' = IF val[w].trees # <<>> /\ val[v].trees # <<>>
              THEN [at |-> "change", v |-> v, items |-> val[w].trees, more |-> FALSE]
              ELSE NoExt
    /\ UNCHANGED held

\* `v.extend(iterator)`, where the iterator hands on what it holds or a group
\* around it.
Produced == {Head(held), Group(Stream(<<Head(held)>>, FALSE), FALSE)}

ExtendTrees(v) ==
    /\ Idle
    /\ held # <<>>
    /\ \E tree \in Produced :
          ext' = [at |-> "change", v |-> v, items |-> <<tree>>, more |-> TRUE]
    /\ held' = Tail(held)
    /\ UNCHANGED val

\* The first change of the stream; it is no longer as it arrived.
Change == /\ ext.at = "change"
          /\ val' = [val EXCEPT ![ext.v].joined = FALSE]
          /\ ext' = [ext EXCEPT !.at = "push"]
          /\ UNCHANGED held

Push == /\ ext.at = "push"
        /\ val' = [val EXCEPT ![ext.v].trees = @ \o ext.items]
        /\ ext' = IF ext.more THEN [ext EXCEPT !.at = "pull", !.items = <<>>] ELSE NoExt
        /\ UNCHANGED held

\* The next tree of the iterator, its end, or its panic.
Pull == /\ ext.at = "pull"
        /\ \/ /\ held # <<>>
              /\ \E tree \in Produced : ext' = [ext EXCEPT !.at = "push", !.items = <<tree>>]
              /\ held' = Tail(held)
           \/ /\ held' = <<>>
              /\ ext' = NoExt
        /\ UNCHANGED val

Next == \/ \E v \in Vars : \/ From(v) \/ Receive(v) \/ Drop(v) \/ Iterate(v)
                           \/ Open(v) \/ Collect(v) \/ ExtendTrees(v)
        \/ \E v, w \in Vars : Clone(v, w) \/ Wrap(v, w) \/ ExtendStream(v, w)
        \/ Discard \/ Change \/ Push \/ Pull

Spec == Init /\ [][Next]_avars
=============================================================================
