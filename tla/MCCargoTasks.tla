---------------------------- MODULE MCCargoTasks ----------------------------
(***************************************************************************)
(* Instances of CargoTasks: a build script s and a crate c that reads its  *)
(* OUT_DIR; in the larger graph also a script r that leaves no file, needs *)
(* nothing, so that it runs beside s, and opens s's tree without depending *)
(* on it.                                                                  *)
(***************************************************************************)
EXTENDS CargoTasks

CONSTANTS s, c, r, x, y, z

MCDeps == [t \in Task |-> IF t = c THEN {s} ELSE {}]
MCReads == MCDeps
MCPeeks == [t \in Task |-> IF t = r THEN {s} ELSE {}]

\* Two runs of the script may differ ...
MCProducts == [t \in Task |-> IF t = s THEN {{x}, {y}} ELSE {{z}}]

\* ... or not.
SureProducts == [t \in Task |-> CASE t = s -> {{x}}
                                  [] t = c -> {{z}}
                                  [] t = r -> {{}}]

OneStart == [p \in Proc |-> 1]

=============================================================================
