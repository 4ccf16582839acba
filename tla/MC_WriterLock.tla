---------------------------- MODULE MC_WriterLock ----------------------------
(***************************************************************************)
(* Instances of WriterLock for TLC.                                        *)
(***************************************************************************)
EXTENDS WriterLock
=============================================================================
