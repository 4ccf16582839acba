----------------------------- MODULE Retrieval ------------------------------
(***************************************************************************)
(* The ranking of documents for a query.                                   *)
(*   wikipethia-core/src/store.rs  search_scoped, hybrid_search_scoped,    *)
(*                                 similar_docs                            *)
(* SQLite answers with chunks, best first: BM25 over the words (lexical),  *)
(* distance over the vectors (near).  Both are any sequence of rows; a row *)
(* is the document its chunk is of, for nothing else of it ranks.          *)
(***************************************************************************)
EXTENDS Orderings, SequencesExt

CONSTANTS
  Docs,         \* documents: a number (the order of ids), source and title
  MaxRows,      \* bound: the rows SQLite answers with, of each kind
  Limits,       \* how many hits a caller may ask for
  THREAD_CAP,   \* documents of one source and title
  CANDIDATES,   \* documents of each arm
  KNN_LIMIT,    \* the most rows sqlite-vec answers with
  RRF_K,
  RRF_WHOLE,    \* the parts that a score of 1 is counted in
  Everywhere    \* no scope

ASSUME RetrievalAssumption ==
  /\ Docs \subseteq [num : Nat, source : STRING, title : STRING]
  /\ \A d, e \in Docs : d.num = e.num => d = e
  /\ Limits \subseteq 0 .. CANDIDATES
  /\ {MaxRows, THREAD_CAP, CANDIDATES, KNN_LIMIT, RRF_K, RRF_WHOLE} \subseteq Nat \ {0}

VARIABLES
  lexical,  \* the rows of the MATCH, best first
  near,     \* the rows of the KNN, nearest first
  scope     \* the source asked for, or Everywhere

retrievalVars == <<lexical, near, scope>>

Scopes == {Everywhere} \cup {d.source : d \in Docs}

RetrievalInit == lexical = <<>> /\ near = <<>> /\ scope \in Scopes

(* SQLite has another row for a query. *)
AnotherMatch ==
  /\ Len(lexical) < MaxRows
  /\ \E d \in Docs : lexical' = Append(lexical, d)
  /\ UNCHANGED <<near, scope>>

AnotherNeighbour ==
  /\ Len(near) < MaxRows
  /\ \E d \in Docs : near' = Append(near, d)
  /\ UNCHANGED <<lexical, scope>>
-----------------------------------------------------------------------------
Least(a, b) == IF a < b THEN a ELSE b

Top(rows, n) == SubSeq(rows, 1, Least(n, Len(rows)))

(* A prefix of the id, of which the source is the first segment. *)
InScope(rows) ==
  Picked(rows, {i \in DOMAIN rows : scope \in {Everywhere, rows[i].source}})

(* The first row of each document. *)
Distinct(rows) ==
  Picked(rows, {i \in DOMAIN rows : \A j \in 1 .. i - 1 : rows[j] # rows[i]})

ThreadOf(d) == <<d.source, d.title>>

(* The first THREAD_CAP of each thread: the loop counts those it keeps,    *)
(* which are all there were until they are that many.  A document over the *)
(* cap is not looked at again at its next row.                             *)
Capped(docs) ==
  LET earlier(i) == {j \in 1 .. i - 1 : ThreadOf(docs[j]) = ThreadOf(docs[i])}
  IN  Picked(docs, {i \in DOMAIN docs : Cardinality(earlier(i)) < THREAD_CAP})

SearchScoped(limit) == Top(Capped(Distinct(InScope(lexical))), limit)

(* The scope narrows after the cut at k, which is why it asks for more.    *)
(* The thread cap is not applied to this arm.                              *)
KnnDocs ==
  LET k == IF scope = Everywhere THEN 2 * CANDIDATES ELSE KNN_LIMIT
  IN  Top(Distinct(InScope(Top(near, k))), CANDIDATES)

(* 1-based, 0 for none. *)
Rank(docs, d) == IF Contains(docs, d) THEN CHOOSE i \in DOMAIN docs : docs[i] = d ELSE 0

(* 1 / (RRF_K + rank)                                                      *)
Share(rank) == IF rank = 0 THEN 0 ELSE RRF_WHOLE \div (RRF_K + rank)

Score(lex, vec, d) == Share(Rank(lex, d)) + Share(Rank(vec, d))

(* Mutant: ties go by the id alone.                                        *)
Before_ById(lex, vec, a, b) ==
  LET x == Score(lex, vec, a)
      y == Score(lex, vec, b)
  IN  x > y \/ (x = y /\ a.num < b.num)

(* Ties go to the better lexical rank, any before none, then by id. *)
Before(lex, vec, a, b) ==
  LET x == Score(lex, vec, a)
      y == Score(lex, vec, b)
      lexFirst == /\ Contains(lex, a)
                  /\ ~ Contains(lex, b) \/ Rank(lex, a) < Rank(lex, b)
  IN  \/ x > y
      \/ x = y /\ lexFirst
      \/ x = y /\ ~ Contains(lex, a) /\ ~ Contains(lex, b) /\ a.num < b.num

HybridSearch(limit) ==
  LET lex == SearchScoped(CANDIDATES)
      vec == KnnDocs
      found == ToSet(lex) \cup ToSet(vec)
  IN  Top(InOrder(found, {p \in found \X found : Before(lex, vec, p[1], p[2])}), limit)

(* similar_docs: of the rows nearest to a document's first vector, its own *)
(* and repeated ones left out.  A long document's own chunks may fill the  *)
(* headroom, and then there are fewer neighbours than asked for, or none.  *)
SimilarDocs(doc, limit) ==
  LET found == Distinct(Top(near, 3 * (limit + 1)))
  IN  Top(Picked(found, {i \in DOMAIN found : found[i] # doc}), limit)

RetrievalSpec == RetrievalInit /\ [][AnotherMatch \/ AnotherNeighbour]_retrievalVars
-----------------------------------------------------------------------------
(* An exact hit is not displaced by what is only near in meaning: a        *)
(* document that no word matched comes after every lexical hit of its rank *)
(* or better, and does not push one out; without vectors the ranking is    *)
(* the lexical one.  A document is there once, in scope, and within the    *)
(* thread cap if words found it.                                           *)
ExactHitsFirst ==
  LET lex == SearchScoped(CANDIDATES)
      vec == KnnDocs
  IN  \A limit \in Limits :
        LET hits == HybridSearch(limit)
        IN  /\ IsInjective(hits)
            /\ Len(hits) = Least(limit, Cardinality(ToSet(lex) \cup ToSet(vec)))
            /\ \A d \in ToSet(hits) : scope \in {Everywhere, d.source}
            /\ near = <<>> => hits = SearchScoped(limit)
            /\ \A d \in ToSet(hits), e \in ToSet(lex) :
                 (~ Contains(lex, d) /\ Rank(lex, e) <= Rank(vec, d))
                   => Contains(hits, e) /\ Rank(hits, e) < Rank(hits, d)
            /\ \A d \in ToSet(hits) :
                 Cardinality({e \in ToSet(hits) : /\ Contains(lex, e)
                                                  /\ ThreadOf(e) = ThreadOf(d)}) <= THREAD_CAP
=============================================================================
