---------------------------- MODULE MCDistSession ---------------------------
(***************************************************************************)
(* Instances of DistSession: two nodes that share an input blob.           *)
(***************************************************************************)
EXTENDS DistSession

CONSTANTS u1, u2, x, y, z

MCInputs == [u \in Uid |-> {x}]
MCOutputs == [u \in Uid |-> IF u = u1 THEN {y} ELSE {z}]

=============================================================================
