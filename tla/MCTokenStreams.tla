--------------------------- MODULE MCTokenStreams --------------------------
(* Instances of TokenStreams for TLC. *)
EXTENDS TokenStreams, FiniteSetsExt, TLC

CONSTANTS v1, v2, t1, t2

MCVars == {v1, v2}
OneToken == {t1}
TwoTokens == {t1, t2}

\* The trees in the store and in hand, which bounds what a macro builds.
MaxTrees == 4
FewTrees == MapThenSumSet(LAMBDA h : Len(slots[h].trees), Handles) + Len(held) <= MaxTrees

Symmetry == Permutations(MCVars)
=============================================================================
