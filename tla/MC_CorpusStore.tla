--------------------------- MODULE MC_CorpusStore ---------------------------
(***************************************************************************)
(* Instances of CorpusStore for TLC.  Version a is one long chunk; version *)
(* b puts a long chunk of its own before the same text; version c is one   *)
(* chunk too short to be embedded; version r is version a retitled, which  *)
(* is cut into the same text again.                                        *)
(***************************************************************************)
EXTENDS CorpusStore

MCChunksOf == [v \in Versions |->
  CASE v \in {"a", "r"} -> <<"x">>
    [] v = "b" -> <<"y", "x">>
    [] v = "c" -> <<"s">>]

MCKind == [p \in Procs |->
  CASE p = "i" -> "index"
    [] p = "e" -> "embed"
    [] p = "u" -> "update"]
=============================================================================
