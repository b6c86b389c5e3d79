-------------------------- MODULE MCBuildScheduler --------------------------
(***************************************************************************)
(* Instances of BuildScheduler.  The diamond has two leaves, a consumer of *)
(* both and a consumer of one, and a root above them; the chain is the     *)
(* shortest one in which a root is three consumers away from a failure.    *)
(***************************************************************************)
EXTENDS BuildScheduler

CONSTANTS a, b, c, d, e

Diamond ==
  [u \in Node |-> CASE u = c -> {a}
                    [] u = d -> {a, b}
                    [] u = e -> {c, d}
                    [] OTHER -> {}]
Chain ==
  [u \in Node |-> CASE u = b -> {a}
                    [] u = c -> {b}
                    [] u = d -> {c}
                    [] OTHER -> {}]
OneCore == [h \in Host |-> 1]

=============================================================================
