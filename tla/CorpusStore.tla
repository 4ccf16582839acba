---------------------------- MODULE CorpusStore ----------------------------
(***************************************************************************)
(* The corpus database and the writers that share it: the indexer, which   *)
(* replaces documents and their chunks, and the embedder, which reads      *)
(* chunks in batches, computes vectors for a long time outside any         *)
(* transaction, and writes them back.                                      *)
(*   wikipethia-core/src/store.rs  the tables and their transactions       *)
(*   wikipethia/src/main.rs        embed, index_with, pipeline             *)
(*                                                                         *)
(* Each SQLite transaction, and each statement outside one, is a step.     *)
(* What a vector says is the text it was computed from and the model that  *)
(* computed it.  A document is a version: all eight columns, and what      *)
(* chunk() cuts its content into.  The full-text index is left out: its    *)
(* triggers run inside the transaction that changes the chunks.            *)
(***************************************************************************)
EXTENDS Integers, Sequences, FiniteSets

CONSTANTS
  Docs,          \* document ids
  Versions,      \* what a document can hold
  ChunksOf,      \* version -> the texts chunk() cuts it into
  LongTexts,     \* the texts of at least MIN_EMBED_CHARS
  Procs,         \* writer processes
  Kind,          \* process -> "index", "embed" or "update"
  Model, Dim,        \* MODEL_ID and DIM of this build
  OldModel, OldDim,  \* those of the build that left the corpus behind
  Batch,         \* chunks per embedding batch (64 in main.rs)
  MaxRow,        \* bound: the largest rowid
  MaxDone,       \* bound: the vectors one embed writes before it reads no more
  LockHonoured,  \* FALSE: writers the advisory lock does not see
  InitialSpaces, \* the vector tables a run may find: "none", "old", "current"
  AllowForce     \* may the user pass --force?

Texts == UNION {{ChunksOf[v][i] : i \in DOMAIN ChunksOf[v]} : v \in Versions}
Rows == 1 .. MaxRow
None == "none"

ASSUME ConstantsAssumption ==
  /\ ChunksOf \in [Versions -> Seq(Texts)]
  /\ LongTexts \subseteq Texts
  /\ Kind \in [Procs -> {"index", "embed", "update"}]
  /\ Model # OldModel
  /\ None \notin {Model, OldModel, Dim, OldDim}
  /\ None \notin Versions \cup Docs \cup Texts
  /\ Batch \in Nat \ {0}
  /\ MaxRow \in Nat /\ MaxDone \in Nat
  /\ LockHonoured \in BOOLEAN
  /\ AllowForce \in BOOLEAN
  /\ InitialSpaces \subseteq {"none", "old", "current"}

Chunks == [doc : Docs, seq : Nat, text : Texts]
Vectors == [text : Texts, model : {Model, OldModel}]
NoChunk == [doc |-> None]
NoVec == [text |-> None]
NoBatch == [r \in {} |-> None]
Batches == UNION {[S -> LongTexts] : S \in SUBSET Rows}

VARIABLES
  docs,      \* documents: id -> version, None when there is no row
  chunks,    \* chunks: rowid -> chunk
  table,     \* chunks_vec: its dimension, None while it does not exist
  vec,       \* the rows of chunks_vec
  metaModel, \* meta["embedding.model"]
  metaDim,   \* meta["embedding.dim"]
  pc,        \* the stage of each writer; "idle" is outside the lock
  hasVec,    \* Store.has_vec of each writer's open handle
  batch,     \* the chunks each embedder has read: rowid -> text
  stalled,   \* embed's count of batches in a row that wrote nothing
  total,     \* embed's count of missing chunks when it started
  done       \* embed's count of vectors written

corpus == <<docs, chunks, table, vec, metaModel, metaDim>>
tables == <<docs, chunks>>
space  == <<table, vec, metaModel, metaDim>>
loop   == <<batch, stalled, total, done>>
vars   == <<docs, chunks, table, vec, metaModel, metaDim,
            pc, hasVec, batch, stalled, total, done>>

Stages == {"idle", "openIndex", "index", "openEmbed", "ensure", "drop",
           "create", "setModel", "setDim", "count", "read", "write"}

TypeOK ==
  /\ docs \in [Docs -> Versions \cup {None}]
  /\ chunks \in [Rows -> Chunks \cup {NoChunk}]
  /\ table \in {Dim, OldDim, None}
  /\ vec \in [Rows -> Vectors \cup {NoVec}]
  /\ metaModel \in {Model, OldModel, None}
  /\ metaDim \in {Dim, OldDim, None}
  /\ pc \in [Procs -> Stages]
  /\ hasVec \in [Procs -> BOOLEAN]
  /\ batch \in [Procs -> Batches]
  /\ stalled \in [Procs -> 0 .. 1]
  /\ total \in [Procs -> Nat]
  /\ done \in [Procs -> Nat]
-----------------------------------------------------------------------------
(***************************************************************************)
(* The tables.                                                             *)
(***************************************************************************)

RowsOf(d) == {r \in Rows : chunks[r] # NoChunk /\ chunks[r].doc = d}
Others(d) == {r \in Rows : chunks[r] # NoChunk /\ chunks[r].doc # d}

(* Without AUTOINCREMENT SQLite gives an insert one past the largest rowid *)
(* in use, which may have been somebody else's a moment ago.               *)
IsNextRow(n, used) ==
  /\ \A r \in used : r < n
  /\ n = 1 \/ n - 1 \in used

(* Mutant: write_chunks adds to the old rows.                             *)
Rechunked_KeepsOld(d, texts, n) ==
  [r \in Rows |->
     IF r >= n /\ r < n + Len(texts)
       THEN [doc |-> d, seq |-> r - n, text |-> texts[r - n + 1]]
     ELSE chunks[r]]

(* write_chunks: the rows after d's chunks have been deleted and `texts`   *)
(* inserted from rowid n on.                                               *)
Rechunked(d, texts, n) ==
  [r \in Rows |->
     IF r >= n /\ r < n + Len(texts)
       THEN [doc |-> d, seq |-> r - n, text |-> texts[r - n + 1]]
     ELSE IF r \in RowsOf(d) THEN NoChunk ELSE chunks[r]]

(* Mutant: delete_chunks forgets the vectors.                             *)
WithoutVectorsOf_KeepsThem(d, believed) == vec

(* delete_chunks: a handle that believes there is no vector table leaves   *)
(* the vectors alone.                                                      *)
WithoutVectorsOf(d, believed) ==
  [r \in Rows |-> IF believed /\ r \in RowsOf(d) THEN NoVec ELSE vec[r]]

(* The rows with text long enough to be embedded, and those of them that   *)
(* chunks_missing_embedding and missing_embedding_count find without a     *)
(* vector.                                                                 *)
Embeddable == {r \in Rows : chunks[r] # NoChunk /\ chunks[r].text \in LongTexts}
Missing == {r \in Embeddable : vec[r] = NoVec}

(* ORDER BY id LIMIT: the oldest of the missing rows. *)
Oldest(rows) == {r \in rows : Cardinality({s \in rows : s < r}) < Batch}

TableExists == table # None

(* Mutant: a model of the same dimension passes for the same model.       *)
SpaceMatches_DimOnly == metaDim = Dim

SpaceMatches == metaModel = Model /\ metaDim = Dim
-----------------------------------------------------------------------------
(***************************************************************************)
(* The initial corpora: a new file; one with an empty vector table of this *)
(* build; one whose document an earlier build indexed and embedded.        *)
(***************************************************************************)

InitTables(d, v, filled) ==
  /\ docs = [x \in Docs |-> IF filled /\ x = d THEN v ELSE None]
  /\ chunks = [r \in Rows |->
                 IF filled /\ r <= Len(ChunksOf[v])
                   THEN [doc |-> d, seq |-> r - 1, text |-> ChunksOf[v][r]]
                 ELSE NoChunk]

OldVectors ==
  [r \in Rows |-> IF r \in Embeddable
                    THEN [text |-> chunks[r].text, model |-> OldModel]
                  ELSE NoVec]

InitSpace(kind) ==
  \/ /\ kind = "none"
     /\ table = None /\ metaModel = None /\ metaDim = None
     /\ vec = [r \in Rows |-> NoVec]
  \/ /\ kind = "current"
     /\ table = Dim /\ metaModel = Model /\ metaDim = Dim
     /\ vec = [r \in Rows |-> NoVec]
  \/ /\ kind = "old"
     /\ table = OldDim /\ metaModel = OldModel /\ metaDim = OldDim
     /\ vec = OldVectors

Init ==
  /\ \E d \in Docs, v \in Versions, kind \in InitialSpaces :
       /\ Len(ChunksOf[v]) <= MaxRow
       /\ InitTables(d, v, kind = "old")
       /\ InitSpace(kind)
  /\ pc = [p \in Procs |-> "idle"]
  /\ hasVec = [p \in Procs |-> FALSE]
  /\ batch = [p \in Procs |-> NoBatch]
  /\ stalled = [p \in Procs |-> 0]
  /\ total = [p \in Procs |-> 0]
  /\ done = [p \in Procs |-> 0]
-----------------------------------------------------------------------------
(***************************************************************************)
(* A writer's life.                                                        *)
(***************************************************************************)

Goto(p, stage) == pc' = [pc EXCEPT ![p] = stage]

(* Success, an error or a crash: the handle and the lock are gone. *)
Leave(p) ==
  /\ Goto(p, "idle")
  /\ hasVec' = [hasVec EXCEPT ![p] = FALSE]
  /\ batch' = [batch EXCEPT ![p] = NoBatch]
  /\ stalled' = [stalled EXCEPT ![p] = 0]
  /\ total' = [total EXCEPT ![p] = 0]
  /\ done' = [done EXCEPT ![p] = 0]

(* The writer lock (WriterLock.Exclusive): one writer at a time, unless    *)
(* the lock does not cover them: a shared file on two machines, a holder   *)
(* past MAX_HELD.                                                          *)
Begin(p) ==
  /\ pc[p] = "idle"
  /\ LockHonoured => \A q \in Procs : pc[q] = "idle"
  /\ Goto(p, IF Kind[p] = "embed" THEN "openEmbed" ELSE "openIndex")
  /\ UNCHANGED <<corpus, hasVec, loop>>

(* A kill between two statements; SQLite rolls an open transaction back. *)
Crash(p) ==
  /\ pc[p] # "idle"
  /\ Leave(p)
  /\ UNCHANGED corpus
-----------------------------------------------------------------------------
(***************************************************************************)
(* index_with, as the tables see it: any sequence of upserts and deletes.  *)
(***************************************************************************)

(* Store::open reads has_vec once, for the life of the handle. *)
OpenIndex(p) ==
  /\ pc[p] = "openIndex"
  /\ hasVec' = [hasVec EXCEPT ![p] = TableExists]
  /\ Goto(p, "index")
  /\ UNCHANGED <<corpus, loop>>

(* upsert and upsert_forced, one transaction: an unchanged document is     *)
(* skipped unless --force; with has_vec set and the table gone the         *)
(* transaction fails and nothing changes.                                  *)
Upsert(p, d, v) ==
  /\ pc[p] = "index"
  /\ docs[d] # v \/ (AllowForce /\ Kind[p] = "index")
  /\ hasVec[p] => TableExists
  /\ \E n \in 1 .. MaxRow + 1 :
       /\ IsNextRow(n, Others(d))
       /\ n + Len(ChunksOf[v]) <= MaxRow + 1
       /\ chunks' = Rechunked(d, ChunksOf[v], n)
  /\ docs' = [docs EXCEPT ![d] = v]
  /\ vec' = WithoutVectorsOf(d, hasVec[p])
  /\ UNCHANGED <<table, metaModel, metaDim, pc, hasVec, loop>>

(* Mutant: the chunks outlive their document.                             *)
DeleteDocument_KeepsChunks(p, d) ==
  /\ pc[p] = "index"
  /\ docs[d] # None
  /\ docs' = [docs EXCEPT ![d] = None]
  /\ UNCHANGED <<chunks, vec, table, metaModel, metaDim, pc, hasVec, loop>>

(* delete_document, one transaction. *)
DeleteDocument(p, d) ==
  /\ pc[p] = "index"
  /\ docs[d] # None
  /\ hasVec[p] => TableExists
  /\ chunks' = [r \in Rows |-> IF r \in RowsOf(d) THEN NoChunk ELSE chunks[r]]
  /\ docs' = [docs EXCEPT ![d] = None]
  /\ vec' = WithoutVectorsOf(d, hasVec[p])
  /\ UNCHANGED <<table, metaModel, metaDim, pc, hasVec, loop>>

(* The pass ends, cleanly or with errors.  A pipeline embeds in either     *)
(* case, under the same lock, through a handle of its own.                 *)
EndIndex(p) ==
  /\ pc[p] = "index"
  /\ \/ /\ Kind[p] = "update"
        /\ Goto(p, "openEmbed")
        /\ UNCHANGED <<hasVec, loop>>
     \/ Kind[p] = "index" /\ Leave(p)
  /\ UNCHANGED corpus
-----------------------------------------------------------------------------
(***************************************************************************)
(* embed.                                                                  *)
(***************************************************************************)

(* open_existing and the refusal of a corpus without documents. *)
OpenEmbed(p) ==
  /\ pc[p] = "openEmbed"
  /\ IF \A d \in Docs : docs[d] = None
       THEN Leave(p)
       ELSE /\ hasVec' = [hasVec EXCEPT ![p] = TableExists]
            /\ Goto(p, "ensure")
            /\ UNCHANGED loop
  /\ UNCHANGED corpus

(* ensure_embedding_space up to its DDL: keep a table that was made for    *)
(* this model; fail when the handle believes in a table that is gone.      *)
Ensure(p) ==
  /\ pc[p] = "ensure"
  /\ \E force \in IF AllowForce /\ Kind[p] = "embed" THEN BOOLEAN ELSE {FALSE} :
       \/ /\ hasVec[p] /\ SpaceMatches /\ ~ force
          /\ Goto(p, "count") /\ UNCHANGED <<hasVec, loop>>
       \/ /\ ~ (hasVec[p] /\ SpaceMatches /\ ~ force)
          /\ hasVec[p] => TableExists
          /\ Goto(p, "drop") /\ UNCHANGED <<hasVec, loop>>
       \/ /\ ~ (hasVec[p] /\ SpaceMatches /\ ~ force)
          /\ hasVec[p] /\ ~ TableExists
          /\ Leave(p)
  /\ UNCHANGED corpus

DropSpace(p) ==
  /\ pc[p] = "drop"
  /\ table' = None
  /\ vec' = [r \in Rows |-> NoVec]
  /\ Goto(p, "create")
  /\ UNCHANGED <<tables, metaModel, metaDim, hasVec, loop>>

(* CREATE VIRTUAL TABLE has no IF NOT EXISTS. *)
CreateSpace(p) ==
  /\ pc[p] = "create"
  /\ IF TableExists
       THEN Leave(p) /\ UNCHANGED table
       ELSE table' = Dim /\ Goto(p, "setModel") /\ UNCHANGED <<hasVec, loop>>
  /\ UNCHANGED <<tables, vec, metaModel, metaDim>>

SetModel(p) ==
  /\ pc[p] = "setModel"
  /\ metaModel' = Model
  /\ Goto(p, "setDim")
  /\ UNCHANGED <<tables, table, vec, metaDim, hasVec, loop>>

(* Mutant: the model id is written under the key of the dimension.        *)
SetDim_WrongValue(p) ==
  /\ pc[p] = "setDim"
  /\ metaDim' = Model
  /\ hasVec' = [hasVec EXCEPT ![p] = TRUE]
  /\ Goto(p, "count")
  /\ UNCHANGED <<tables, table, vec, metaModel, loop>>

SetDim(p) ==
  /\ pc[p] = "setDim"
  /\ metaDim' = Dim
  /\ hasVec' = [hasVec EXCEPT ![p] = TRUE]
  /\ Goto(p, "count")
  /\ UNCHANGED <<tables, table, vec, metaModel, loop>>

(* Mutant: done starts at what earlier runs embedded.                     *)
CountMissing_CountsOldWork(p) ==
  /\ pc[p] = "count"
  /\ IF ~ TableExists \/ Missing = {}
       THEN Leave(p)
       ELSE /\ total' = [total EXCEPT ![p] = Cardinality(Missing)]
            /\ done' = [done EXCEPT ![p] = Cardinality(Embeddable \ Missing)]
            /\ Goto(p, "read")
            /\ UNCHANGED <<hasVec, batch, stalled>>
  /\ UNCHANGED corpus

(* total = missing_embedding_count; nothing missing is nothing to do. *)
CountMissing(p) ==
  /\ pc[p] = "count"
  /\ IF ~ TableExists \/ Missing = {}
       THEN Leave(p)
       ELSE /\ total' = [total EXCEPT ![p] = Cardinality(Missing)]
            /\ Goto(p, "read")
            /\ UNCHANGED <<hasVec, batch, stalled, done>>
  /\ UNCHANGED corpus

(* chunks_missing_embedding(64): an empty batch ends the loop. *)
ReadBatch(p) ==
  /\ pc[p] = "read"
  /\ done[p] <= MaxDone
  /\ IF ~ TableExists \/ Missing = {}
       THEN Leave(p)
       ELSE /\ batch' = [batch EXCEPT ![p] =
                           [r \in Oldest(Missing) |-> chunks[r].text]]
            /\ Goto(p, "write")
            /\ UNCHANGED <<hasVec, stalled, total, done>>
  /\ UNCHANGED corpus

(* Mutant: the chunk is not read again before the insert.                 *)
Unchanged_Unread(p) == DOMAIN batch[p]

(* The rows of the batch whose chunk still holds the text that was read. *)
Unchanged(p) ==
  {r \in DOMAIN batch[p] : chunks[r] # NoChunk /\ chunks[r].text = batch[p][r]}

(* write_embeddings fails as a whole when the table is gone, has another   *)
(* dimension, or already holds a vector at one of the rows.                *)
Insertable(p) ==
  /\ TableExists
  /\ Unchanged(p) # {} => table = Dim
  /\ \A r \in Unchanged(p) : vec[r] = NoVec

(* Mutant: the transaction is dropped instead of committed.               *)
WriteBatch_NoCommit(p) ==
  /\ pc[p] = "write"
  /\ done' = [done EXCEPT ![p] = @ + Cardinality(Unchanged(p))]
  /\ batch' = [batch EXCEPT ![p] = NoBatch]
  /\ Goto(p, "read")
  /\ UNCHANGED <<corpus, hasVec, stalled, total>>

(* write_embeddings, one IMMEDIATE transaction, and the stall guard: the   *)
(* second batch in a row that writes nothing ends the run.                 *)
WriteBatch(p) ==
  /\ pc[p] = "write"
  /\ \/ /\ Insertable(p)
        /\ Unchanged(p) # {}
        /\ vec' = [r \in Rows |-> IF r \in Unchanged(p)
                                    THEN [text |-> batch[p][r], model |-> Model]
                                  ELSE vec[r]]
        /\ done' = [done EXCEPT ![p] = @ + Cardinality(Unchanged(p))]
        /\ stalled' = [stalled EXCEPT ![p] = 0]
        /\ batch' = [batch EXCEPT ![p] = NoBatch]
        /\ Goto(p, "read")
        /\ UNCHANGED <<hasVec, total>>
     \/ /\ Insertable(p)
        /\ Unchanged(p) = {} /\ stalled[p] = 0
        /\ stalled' = [stalled EXCEPT ![p] = 1]
        /\ batch' = [batch EXCEPT ![p] = NoBatch]
        /\ Goto(p, "read")
        /\ UNCHANGED <<vec, hasVec, total, done>>
     \/ /\ ~ Insertable(p) \/ (Unchanged(p) = {} /\ stalled[p] = 1)
        /\ Leave(p)
        /\ UNCHANGED vec
  /\ UNCHANGED <<tables, table, metaModel, metaDim>>
-----------------------------------------------------------------------------
IndexStep(p) ==
  \/ OpenIndex(p)
  \/ \E d \in Docs, v \in Versions : Upsert(p, d, v)
  \/ \E d \in Docs : DeleteDocument(p, d)
  \/ EndIndex(p)

EmbedStep(p) ==
  \/ OpenEmbed(p) \/ Ensure(p)
  \/ DropSpace(p) \/ CreateSpace(p) \/ SetModel(p) \/ SetDim(p)
  \/ CountMissing(p) \/ ReadBatch(p) \/ WriteBatch(p)

Next == \E p \in Procs : Begin(p) \/ Crash(p) \/ IndexStep(p) \/ EmbedStep(p)

Spec == Init /\ [][Next]_vars

(* A process that is not killed runs on: its embed steps follow one        *)
(* another without waiting for anybody.                                    *)
FairSpec == Spec /\ \A p \in Procs : WF_vars(EmbedStep(p))
-----------------------------------------------------------------------------
(***************************************************************************)
(* Properties.                                                             *)
(***************************************************************************)

(* "No vector can outlive the chunk content it was computed from"          *)
(* (write_embeddings): whatever rowids are reused for, a vector stands at  *)
(* a chunk that holds the very text it was computed from.                  *)
VectorDescribesChunk ==
  \A r \in Rows : vec[r] # NoVec => chunks[r] # NoChunk /\ vec[r].text = chunks[r].text

(* The chunks of a document are those its current version is cut into,     *)
(* each once and in order: none of an earlier version stays behind, none   *)
(* of a neighbour is overwritten (write_chunks, delete_chunks).            *)
ChunksFollowDocument ==
  \A d \in Docs :
    LET texts == IF docs[d] = None THEN <<>> ELSE ChunksOf[docs[d]]
    IN  {<<chunks[r].seq, chunks[r].text>> : r \in RowsOf(d)}
          = {<<i - 1, texts[i]>> : i \in DOMAIN texts}
        /\ Cardinality(RowsOf(d)) = Len(texts)

(* status's READY and publish's preflight, through a handle just opened. *)
Ready ==
  /\ \E d \in Docs : docs[d] # None
  /\ TableExists /\ \E r \in Rows : vec[r] # NoVec
  /\ SpaceMatches
  /\ Missing = {}

(* A corpus that passes the counts of the preflight is one where semantic  *)
(* search is right: every long chunk has the vector this build computes    *)
(* for its text, whatever crashed on the way there (ensure_embedding_space *)
(* is not transactional).                                                  *)
ReadyIsComplete ==
  Ready => \A r \in Embeddable : vec[r] = [text |-> chunks[r].text, model |-> Model]

(* The tables implement SemanticIndex: a passage is findable where a       *)
(* vector stands at the row of its chunk.                                  *)
Index == INSTANCE SemanticIndex WITH
  found <- {<<chunks[r].doc, chunks[r].seq, vec[r].text>> :
              r \in {s \in Rows : vec[s] # NoVec /\ chunks[s] # NoChunk}}
ImplementsIndex == Index!Spec

(* embed never counts more vectors than it set out to write: `total -      *)
(* done`, an unsigned subtraction, stays in range.                         *)
ProgressInRange == \A p \in Procs : pc[p] \in {"read", "write"} => done[p] <= total[p]

(* An embed that reads batches comes to an end. *)
EmbedEnds == \A p \in Procs : pc[p] \in {"read", "write"} ~> pc[p] = "idle"
=============================================================================
