---------------------------- MODULE MC_CorpusPull ----------------------------
(***************************************************************************)
(* Instances of CorpusPull for TLC.                                        *)
(***************************************************************************)
EXTENDS CorpusPull
=============================================================================
