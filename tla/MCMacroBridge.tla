---------------------------- MODULE MCMacroBridge ---------------------------
(***************************************************************************)
(* Instances of MacroBridge for TLC: two crates, so that one host can be   *)
(* started while another runs, and three invocations, so that a host that  *)
(* has served one serves another after it.                                 *)
(***************************************************************************)
EXTENDS MacroBridge
=============================================================================
