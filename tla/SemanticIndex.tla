--------------------------- MODULE SemanticIndex ---------------------------
(***************************************************************************)
(* What the corpus promises to a semantic search, without rowids, handles  *)
(* or transactions: every hit leads to a passage of the document as it is  *)
(* now, and was found by that passage's own text.  Replacing a document    *)
(* makes its passages unfindable until they are embedded again.            *)
(***************************************************************************)
EXTENDS Sequences, Naturals

CONSTANTS Docs, Versions, ChunksOf, LongTexts, None

VARIABLES
  docs,   \* the version of each document, None when it is not in the corpus
  found   \* the passages a vector leads to: <<document, seq, text embedded>>

vars == <<docs, found>>

Passages(d) ==
  IF docs[d] = None THEN {}
  ELSE {<<d, i - 1, ChunksOf[docs[d]][i]>> :
          i \in {j \in DOMAIN ChunksOf[docs[d]] : ChunksOf[docs[d]][j] \in LongTexts}}

(* Any corpus an earlier build can have left. *)
Init ==
  /\ docs \in [Docs -> Versions \cup {None}]
  /\ found \in {{}, UNION {Passages(d) : d \in Docs}}

Replace(d, v) ==
  /\ docs' = [docs EXCEPT ![d] = v]
  /\ found' = {f \in found : f[1] # d}

Learn(S) ==
  /\ S \subseteq UNION {Passages(d) : d \in Docs}
  /\ found' = found \cup S
  /\ UNCHANGED docs

Forget ==
  /\ found' = {}
  /\ UNCHANGED docs

Next ==
  \/ \E d \in Docs, v \in Versions \cup {None} : Replace(d, v)
  \/ \E S \in SUBSET UNION {Passages(d) : d \in Docs} : Learn(S)
  \/ Forget

Spec == Init /\ [][Next]_vars
=============================================================================
