---------------------------- MODULE ResultCache ----------------------------
(***************************************************************************)
(* What a result cache promises whoever looks a node up in it: there is    *)
(* nothing, or the whole product of one run.  A result appears in one step *)
(* however many files it has and however many processes work on it.  The   *)
(* cache of src/build (BuildCache) and the one of cargo (CargoTasks) both  *)
(* implement it, with different guarantees about what comes next.          *)
(***************************************************************************)

CONSTANTS Node,       \* what can be looked up
          Deps,       \* Deps[u]: the nodes whose results a run of u uses
          Products,   \* Products[u]: what one complete run of u may leave
          Absent,     \* no result
          Forgetting, \* a result may be lost
          Replacing   \* a result may be stored over another

VARIABLE result       \* result[u]: the product a look-up finds, or Absent

Init == result = [u \in Node |-> Absent]

\* Where results stay, a node is stored after those it was made from.
Store(u) ==
    /\ Replacing \/ result[u] = Absent
    /\ Forgetting \/ \A d \in Deps[u] : result[d] # Absent
    /\ \E product \in Products[u] : result' = [result EXCEPT ![u] = product]

Forget(lost) ==
    /\ Forgetting
    /\ result' = [u \in Node |-> IF u \in lost THEN Absent ELSE result[u]]

Next == \/ \E u \in Node : Store(u)
        \/ \E lost \in SUBSET Node : Forget(lost)

Spec == Init /\ [][Next]_result
=============================================================================
