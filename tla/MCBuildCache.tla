---------------------------- MODULE MCBuildCache ----------------------------
(***************************************************************************)
(* Instances of BuildCache: a two-node chain b -> a.  The commands of a    *)
(* are not deterministic: a run leaves x or y, so a mixture of two runs is *)
(* no product.  b's product has two files, one of which a may also leave,  *)
(* so the nodes meet in the CAS.                                           *)
(***************************************************************************)
EXTENDS BuildCache

CONSTANTS a, b, x, y, z

MCDeps == [u \in Node |-> IF u = b THEN {a} ELSE {}]
MCProducts == [u \in Node |-> IF u = a THEN {{x}, {y}} ELSE {{x, z}}]

OneStart == [p \in Proc |-> 1]

\* The traced invocation starts once, the other twice.
TracedOnce == [p \in Proc |-> IF p \in Tracing THEN 1 ELSE 2]

=============================================================================
