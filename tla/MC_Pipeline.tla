---------------------------- MODULE MC_Pipeline ----------------------------
(***************************************************************************)
(* An instance of Pipeline for TLC: one slot runs the unlocked commands,   *)
(* the other the locked ones.                                              *)
(***************************************************************************)
EXTENDS Pipeline

MCCmds == [p \in Procs |->
  CASE p = "s" -> {"update", "publish"}
    [] p = "w" -> {"sync", "index", "publish"}]
=============================================================================
