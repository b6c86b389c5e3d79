--------------------------- MODULE MCCargoInstall ---------------------------
(***************************************************************************)
(* Instances of CargoInstall: outputs with the same content, of which bin  *)
(* is executable; every cargo has the same layout.                         *)
(***************************************************************************)
EXTENDS CargoInstall

CONSTANTS lib, bin, x, d1, d2

MCContent == [o \in Output |-> x]
MCExec == [o \in Output |-> o = bin]
MCPlace == [p \in Proc |-> [o \in Output |-> IF o = lib THEN d1 ELSE d2]]

=============================================================================
