------------------------- MODULE CorpusStore_proofs -------------------------
(***************************************************************************)
(* Proofs about CorpusStore, for any documents, chunkings, writers, batch  *)
(* sizes and bounds: the types, the vectors that describe their chunks,    *)
(* the corpus that is READY only when it is complete, the chunks of a      *)
(* document, what embed counts, and the refinement of SemanticIndex.       *)
(***************************************************************************)
EXTENDS CorpusStore, FiniteSetTheorems, TLAPS

(***************************************************************************)
(* The operators the actions are made of.                                  *)
(***************************************************************************)

(* What a version is cut into is a sequence of texts. *)
LEMMA ChunkTexts ==
  ASSUME NEW v \in Versions
  PROVE  /\ ChunksOf[v] \in Seq(Texts)
         /\ Len(ChunksOf[v]) \in Nat
         /\ \A i \in 1 .. Len(ChunksOf[v]) : ChunksOf[v][i] \in Texts
BY ConstantsAssumption DEF ConstantsAssumption

(* A set of rows has a number of elements. *)
LEMMA CountRows ==
  ASSUME NEW S, S \subseteq Rows
  PROVE  IsFiniteSet(S) /\ Cardinality(S) \in Nat
<1>1. IsFiniteSet(Rows)
  BY FS_Interval, ConstantsAssumption DEF Rows, ConstantsAssumption
<1>2. IsFiniteSet(S)
  BY <1>1, FS_Subset
<1> QED BY <1>2, FS_CardinalityType

LEMMA RechunkedType ==
  ASSUME TypeOK, NEW d \in Docs, NEW v \in Versions, NEW n \in Nat
  PROVE  Rechunked(d, ChunksOf[v], n) \in [Rows -> Chunks \cup {NoChunk}]
<1>1. ASSUME NEW r \in Rows, r >= n, r < n + Len(ChunksOf[v])
      PROVE  [doc |-> d, seq |-> r - n, text |-> ChunksOf[v][r - n + 1]] \in Chunks
  <2>1. r \in Nat /\ r - n \in Nat /\ r - n + 1 \in 1 .. Len(ChunksOf[v])
    BY <1>1, ChunkTexts, ConstantsAssumption DEF Rows, ConstantsAssumption
  <2> QED BY <2>1, ChunkTexts DEF Chunks
<1> QED BY <1>1 DEF Rechunked, TypeOK

LEMMA WithoutVectorsType ==
  ASSUME TypeOK, NEW d \in Docs, NEW b \in BOOLEAN
  PROVE  WithoutVectorsOf(d, b) \in [Rows -> Vectors \cup {NoVec}]
BY DEF TypeOK, WithoutVectorsOf

(* Inserting above every row of the other documents touches none of them.  *)
LEMMA RechunkedKeepsOthers ==
  ASSUME TypeOK, NEW d \in Docs, NEW v \in Versions, NEW n \in Nat,
         IsNextRow(n, Others(d)), NEW r \in Others(d)
  PROVE  Rechunked(d, ChunksOf[v], n)[r] = chunks[r]
<1>1. r \in Rows /\ r < n /\ r \notin RowsOf(d)
  BY DEF IsNextRow, Others, RowsOf
<1> QED BY <1>1, ConstantsAssumption DEF Rechunked, Rows, ConstantsAssumption
-----------------------------------------------------------------------------
(***************************************************************************)
(* Types.                                                                  *)
(***************************************************************************)

LEMMA NoBatchType == NoBatch \in Batches
<1>1. NoBatch \in [{} -> LongTexts]
  BY DEF NoBatch
<1> QED BY <1>1 DEF Batches

LEMMA LeaveType ==
  ASSUME TypeOK, NEW p \in Procs, Leave(p), UNCHANGED corpus
  PROVE  TypeOK'
BY NoBatchType DEF TypeOK, corpus, Leave, Goto, Stages

LEMMA InitType == Init => TypeOK
<1> SUFFICES ASSUME Init PROVE TypeOK
  OBVIOUS
<1>1. PICK d \in Docs, v \in Versions, kind \in InitialSpaces :
        Len(ChunksOf[v]) <= MaxRow /\ InitTables(d, v, kind = "old") /\ InitSpace(kind)
  BY DEF Init
<1>2. docs \in [Docs -> Versions \cup {None}]
  BY <1>1 DEF InitTables
<1>3. chunks \in [Rows -> Chunks \cup {NoChunk}]
  <2>1. ASSUME NEW r \in Rows, r <= Len(ChunksOf[v])
        PROVE  [doc |-> d, seq |-> r - 1, text |-> ChunksOf[v][r]] \in Chunks
    BY <2>1, ChunkTexts, ConstantsAssumption DEF Rows, Chunks, ConstantsAssumption
  <2> QED BY <1>1, <2>1 DEF InitTables
<1>4. vec \in [Rows -> Vectors \cup {NoVec}]
  <2>1. ASSUME NEW r \in Embeddable
        PROVE  [text |-> chunks[r].text, model |-> OldModel] \in Vectors
    BY <1>3, ConstantsAssumption DEF Embeddable, Vectors, ConstantsAssumption
  <2>2. OldVectors \in [Rows -> Vectors \cup {NoVec}]
    BY <2>1 DEF OldVectors
  <2> QED BY <1>1, <2>2 DEF InitSpace
<1>5. table \in {Dim, OldDim, None} /\ metaModel \in {Model, OldModel, None}
      /\ metaDim \in {Dim, OldDim, None}
  BY <1>1 DEF InitSpace
<1> QED BY <1>2, <1>3, <1>4, <1>5, NoBatchType DEF Init, TypeOK, Stages

LEMMA IndexStepType ==
  ASSUME TypeOK, NEW p \in Procs, IndexStep(p)
  PROVE  TypeOK'
<1> USE DEF TypeOK, Goto, Stages
<1>1. CASE OpenIndex(p)
  BY <1>1 DEF OpenIndex, corpus, loop, TableExists
<1>2. ASSUME NEW d \in Docs, NEW v \in Versions, Upsert(p, d, v) PROVE TypeOK'
  <2>1. PICK n \in 1 .. MaxRow + 1 : chunks' = Rechunked(d, ChunksOf[v], n)
    BY <1>2 DEF Upsert
  <2>2. n \in Nat
    BY <2>1, ConstantsAssumption DEF ConstantsAssumption
  <2>3. chunks' \in [Rows -> Chunks \cup {NoChunk}]
    BY <2>1, <2>2, RechunkedType
  <2>4. vec' \in [Rows -> Vectors \cup {NoVec}]
    BY <1>2, WithoutVectorsType DEF Upsert
  <2> QED BY <1>2, <2>3, <2>4 DEF Upsert, loop
<1>3. ASSUME NEW d \in Docs, DeleteDocument(p, d) PROVE TypeOK'
  <2>1. vec' \in [Rows -> Vectors \cup {NoVec}]
    BY <1>3, WithoutVectorsType DEF DeleteDocument
  <2> QED BY <1>3, <2>1 DEF DeleteDocument, loop
<1>4. CASE EndIndex(p)
  <2>1. CASE Leave(p)
    BY <1>4, <2>1, LeaveType DEF EndIndex
  <2>2. CASE ~ Leave(p)
    BY <1>4, <2>2 DEF EndIndex, corpus, loop
  <2> QED BY <2>1, <2>2
<1> QED BY <1>1, <1>2, <1>3, <1>4 DEF IndexStep

LEMMA EmbedStepType ==
  ASSUME TypeOK, NEW p \in Procs, EmbedStep(p)
  PROVE  TypeOK'
<1> USE DEF Goto, Stages
<1>1. ASSUME Leave(p), UNCHANGED corpus PROVE TypeOK'
  BY <1>1, LeaveType
<1>2. CASE OpenEmbed(p)
  BY <1>1, <1>2 DEF OpenEmbed, corpus, loop, TableExists, TypeOK
<1>3. CASE Ensure(p)
  BY <1>1, <1>3 DEF Ensure, corpus, loop, TypeOK
<1>4. CASE DropSpace(p)
  BY <1>4 DEF DropSpace, tables, loop, TypeOK
<1>5. CASE CreateSpace(p)
  BY <1>1, <1>5 DEF CreateSpace, corpus, tables, loop, TypeOK
<1>6. CASE SetModel(p)
  BY <1>6 DEF SetModel, tables, loop, TypeOK
<1>7. CASE SetDim(p)
  BY <1>7 DEF SetDim, tables, loop, TypeOK
<1>8. CASE CountMissing(p)
  <2>1. Cardinality(Missing) \in Nat
    BY CountRows DEF Missing, Embeddable
  <2> QED BY <1>1, <1>8, <2>1 DEF CountMissing, corpus, TypeOK
<1>9. CASE ReadBatch(p)
  <2>1. [r \in Oldest(Missing) |-> chunks[r].text] \in Batches
    <3>1. Oldest(Missing) \in SUBSET Rows /\ \A r \in Oldest(Missing) : chunks[r].text \in LongTexts
      BY DEF Oldest, Missing, Embeddable
    <3> QED BY <3>1 DEF Batches
  <2> QED BY <1>1, <1>9, <2>1 DEF ReadBatch, corpus, TypeOK
<1>10. CASE WriteBatch(p)
  <2>1. batch[p] \in Batches /\ DOMAIN batch[p] \subseteq Rows
        /\ \A r \in DOMAIN batch[p] : batch[p][r] \in LongTexts
    BY DEF TypeOK, Batches
  <2>2. Cardinality(Unchanged(p)) \in Nat
    BY <2>1, CountRows DEF Unchanged
  <2>3. \A r \in Unchanged(p) : [text |-> batch[p][r], model |-> Model] \in Vectors
    BY <2>1, ConstantsAssumption DEF Unchanged, Vectors, ConstantsAssumption
  <2>4. CASE Unchanged(p) # {} /\ ~ Leave(p)
    BY <1>10, <2>2, <2>3, <2>4, NoBatchType DEF WriteBatch, tables, TypeOK
  <2>5. CASE Unchanged(p) = {} /\ ~ Leave(p)
    BY <1>10, <2>5, NoBatchType DEF WriteBatch, tables, TypeOK
  <2>6. CASE Leave(p) /\ UNCHANGED vec
    BY <1>1, <1>10, <2>6 DEF WriteBatch, tables, corpus
  <2>7. CASE Leave(p) /\ ~ UNCHANGED vec
    BY <1>10, <2>7, <2>2, <2>3, NoBatchType DEF WriteBatch, tables, TypeOK
  <2> QED BY <2>4, <2>5, <2>6, <2>7
<1> QED BY <1>2, <1>3, <1>4, <1>5, <1>6, <1>7, <1>8, <1>9, <1>10 DEF EmbedStep

LEMMA NextType == TypeOK /\ [Next]_vars => TypeOK'
<1> SUFFICES ASSUME TypeOK, [Next]_vars PROVE TypeOK'
  OBVIOUS
<1>1. ASSUME NEW p \in Procs, Begin(p) PROVE TypeOK'
  BY <1>1 DEF TypeOK, Begin, Goto, Stages, corpus, loop
<1>2. ASSUME NEW p \in Procs, Crash(p) PROVE TypeOK'
  BY <1>2, LeaveType DEF Crash
<1>3. CASE UNCHANGED vars
  BY <1>3 DEF TypeOK, vars
<1> QED BY <1>1, <1>2, <1>3, IndexStepType, EmbedStepType DEF Next

(* The variables keep their types. *)
THEOREM TypeCorrect == Spec => []TypeOK
BY InitType, NextType, PTL DEF Spec
-----------------------------------------------------------------------------
(***************************************************************************)
(* Vectors and the text of their chunks.                                   *)
(***************************************************************************)

NoVectors == \A r \in Rows : vec[r] = NoVec

(* A handle that does not know of the vector table is harmless only while  *)
(* there is no vector for it to leave behind.                              *)
BlindOnlyWhenEmpty == \A p \in Procs : pc[p] = "index" /\ ~ hasVec[p] => NoVectors

LEMMA UpsertKeepsVectors ==
  ASSUME TypeOK, VectorDescribesChunk, BlindOnlyWhenEmpty,
         NEW p \in Procs, NEW d \in Docs, NEW v \in Versions, Upsert(p, d, v)
  PROVE  VectorDescribesChunk'
<1>1. PICK n \in 1 .. MaxRow + 1 :
        IsNextRow(n, Others(d)) /\ chunks' = Rechunked(d, ChunksOf[v], n)
  BY DEF Upsert
<1>2. n \in Nat
  BY <1>1, ConstantsAssumption DEF ConstantsAssumption
<1> SUFFICES ASSUME NEW r \in Rows, vec'[r] # NoVec
             PROVE  chunks'[r] # NoChunk /\ vec'[r].text = chunks'[r].text
  BY DEF VectorDescribesChunk
<1>3. vec'[r] = vec[r] /\ ~ (hasVec[p] /\ r \in RowsOf(d))
  BY DEF Upsert, WithoutVectorsOf
<1>4. hasVec[p] \in BOOLEAN /\ hasVec[p]
  BY <1>3 DEF Upsert, BlindOnlyWhenEmpty, NoVectors, TypeOK
<1>5. chunks[r] # NoChunk /\ vec[r].text = chunks[r].text
  BY <1>3 DEF VectorDescribesChunk
<1>6. r \in Others(d)
  BY <1>3, <1>4, <1>5 DEF RowsOf, Others
<1>7. chunks'[r] = chunks[r]
  BY <1>1, <1>2, <1>6, RechunkedKeepsOthers
<1> QED BY <1>3, <1>5, <1>7

LEMMA DeleteKeepsVectors ==
  ASSUME TypeOK, VectorDescribesChunk, BlindOnlyWhenEmpty,
         NEW p \in Procs, NEW d \in Docs, DeleteDocument(p, d)
  PROVE  VectorDescribesChunk'
<1> SUFFICES ASSUME NEW r \in Rows, vec'[r] # NoVec
             PROVE  chunks'[r] # NoChunk /\ vec'[r].text = chunks'[r].text
  BY DEF VectorDescribesChunk
<1>1. vec'[r] = vec[r] /\ ~ (hasVec[p] /\ r \in RowsOf(d))
  BY DEF DeleteDocument, WithoutVectorsOf
<1>2. hasVec[p] \in BOOLEAN /\ hasVec[p]
  BY <1>1 DEF DeleteDocument, BlindOnlyWhenEmpty, NoVectors, TypeOK
<1>3. chunks'[r] = chunks[r]
  BY <1>1, <1>2 DEF DeleteDocument
<1> QED BY <1>1, <1>3 DEF VectorDescribesChunk

(* write_embeddings reads the chunk again in the transaction that inserts  *)
(* the vector, which is why the batch may be as old as it likes.           *)
LEMMA WriteKeepsVectors ==
  ASSUME TypeOK, VectorDescribesChunk, NEW p \in Procs, WriteBatch(p)
  PROVE  VectorDescribesChunk'
<1>1. chunks' = chunks
  BY DEF WriteBatch, tables
<1>2. CASE UNCHANGED vec
  BY <1>1, <1>2 DEF VectorDescribesChunk
<1>3. CASE vec' = [r \in Rows |-> IF r \in Unchanged(p)
                                    THEN [text |-> batch[p][r], model |-> Model]
                                  ELSE vec[r]]
  BY <1>1, <1>3 DEF VectorDescribesChunk, Unchanged
<1> QED BY <1>2, <1>3 DEF WriteBatch

LEMMA NextKeepsVectors ==
  TypeOK /\ VectorDescribesChunk /\ BlindOnlyWhenEmpty /\ [Next]_vars
    => VectorDescribesChunk'
<1> SUFFICES ASSUME TypeOK, VectorDescribesChunk, BlindOnlyWhenEmpty, [Next]_vars
             PROVE  VectorDescribesChunk'
  OBVIOUS
<1>1. CASE UNCHANGED <<chunks, vec>>
  BY <1>1 DEF VectorDescribesChunk
<1>2. ASSUME NEW p \in Procs, DropSpace(p) PROVE VectorDescribesChunk'
  BY <1>2 DEF DropSpace, VectorDescribesChunk
<1>3. ASSUME NEW p \in Procs,
             Begin(p) \/ Crash(p) \/ OpenIndex(p) \/ EndIndex(p) \/ OpenEmbed(p)
               \/ Ensure(p) \/ CreateSpace(p) \/ SetModel(p) \/ SetDim(p)
               \/ CountMissing(p) \/ ReadBatch(p)
      PROVE  UNCHANGED <<chunks, vec>>
  BY <1>3 DEF Begin, Crash, OpenIndex, EndIndex, OpenEmbed, Ensure, CreateSpace,
              SetModel, SetDim, CountMissing, ReadBatch, corpus, tables
<1> QED BY <1>1, <1>2, <1>3, UpsertKeepsVectors, DeleteKeepsVectors, WriteKeepsVectors
        DEF Next, IndexStep, EmbedStep, vars

LEMMA InitVectors == Init => VectorDescribesChunk
<1> SUFFICES ASSUME Init PROVE VectorDescribesChunk
  OBVIOUS
<1>1. PICK kind \in InitialSpaces : InitSpace(kind)
  BY DEF Init
<1>2. vec = OldVectors \/ NoVectors
  BY <1>1 DEF InitSpace, NoVectors
<1> QED BY <1>2 DEF NoVectors, OldVectors, Embeddable, VectorDescribesChunk
-----------------------------------------------------------------------------
(***************************************************************************)
(* Under the lock.                                                         *)
(***************************************************************************)

OneWriter == \A p, q \in Procs : pc[p] # "idle" /\ pc[q] # "idle" => p = q

(* Vectors live in the table, and while ensure_embedding_space is between  *)
(* its statements the table is empty.                                      *)
EmptyWhileCreating ==
  /\ table = None => NoVectors
  /\ \A p \in Procs : pc[p] \in {"create", "setModel", "setDim"} => NoVectors

(* A space that is labelled with the model of this build holds no vector   *)
(* of another one: the label is written last, over an empty table.         *)
LabelIsTrue ==
  SpaceMatches => \A r \in Rows : vec[r] # NoVec => vec[r].model = Model

LockInv ==
  /\ TypeOK /\ OneWriter /\ EmptyWhileCreating /\ BlindOnlyWhenEmpty
  /\ VectorDescribesChunk /\ LabelIsTrue

LEMMA NextOneWriter ==
  LockHonoured /\ TypeOK /\ OneWriter /\ [Next]_vars => OneWriter'
<1> SUFFICES ASSUME LockHonoured, TypeOK, OneWriter, [Next]_vars PROVE OneWriter'
  OBVIOUS
<1> USE DEF TypeOK, OneWriter, Goto, Leave
<1>1. ASSUME NEW p \in Procs, Begin(p) PROVE OneWriter'
  BY <1>1 DEF Begin
<1>2. ASSUME NEW p \in Procs, pc[p] # "idle",
             NEW stage, pc' = [pc EXCEPT ![p] = stage]
      PROVE  OneWriter'
  BY <1>2
<1>3. CASE UNCHANGED pc
  BY <1>3
<1>4. ASSUME NEW p \in Procs, Crash(p) \/ IndexStep(p) PROVE OneWriter'
  BY <1>2, <1>3, <1>4 DEF Crash, IndexStep, OpenIndex, Upsert, DeleteDocument, EndIndex
<1>5. ASSUME NEW p \in Procs, EmbedStep(p) PROVE OneWriter'
  BY <1>2, <1>3, <1>5
     DEF EmbedStep, OpenEmbed, Ensure, DropSpace, CreateSpace, SetModel, SetDim,
         CountMissing, ReadBatch, WriteBatch
<1> QED BY <1>1, <1>3, <1>4, <1>5 DEF Next, vars

(* What an upsert or a delete does to the vectors, at most. *)
LEMMA IndexOnlyRemoves ==
  ASSUME TypeOK, NEW p \in Procs, IndexStep(p)
  PROVE  /\ \A r \in Rows : vec'[r] \in {vec[r], NoVec}
         /\ UNCHANGED <<table, metaModel, metaDim>>
<1>1. ASSUME NEW d \in Docs, NEW b \in BOOLEAN, vec' = WithoutVectorsOf(d, b)
      PROVE  \A r \in Rows : vec'[r] \in {vec[r], NoVec}
  BY <1>1 DEF WithoutVectorsOf
<1>2. ASSUME NEW d \in Docs, NEW v \in Versions, Upsert(p, d, v)
      PROVE  \A r \in Rows : vec'[r] \in {vec[r], NoVec}
  BY <1>1, <1>2 DEF Upsert, TypeOK
<1>3. ASSUME NEW d \in Docs, DeleteDocument(p, d)
      PROVE  \A r \in Rows : vec'[r] \in {vec[r], NoVec}
  BY <1>1, <1>3 DEF DeleteDocument, TypeOK
<1>4. UNCHANGED <<table, metaModel, metaDim>>
  BY DEF IndexStep, OpenIndex, Upsert, DeleteDocument, EndIndex, corpus
<1> QED BY <1>2, <1>3, <1>4 DEF IndexStep, OpenIndex, EndIndex, corpus

LEMMA IndexStepLockInv ==
  ASSUME LockInv, OneWriter', NEW p \in Procs, IndexStep(p)
  PROVE  EmptyWhileCreating' /\ BlindOnlyWhenEmpty' /\ LabelIsTrue'
<1> USE DEF LockInv
<1>1. \A r \in Rows : vec'[r] \in {vec[r], NoVec}
  BY IndexOnlyRemoves
<1>2. UNCHANGED <<table, metaModel, metaDim>>
  BY IndexOnlyRemoves
<1>3. NoVectors => NoVectors'
  BY <1>1 DEF NoVectors
<1>4. pc[p] # "idle" /\ pc'[p] \notin {"create", "setModel", "setDim"}
  BY DEF IndexStep, OpenIndex, Upsert, DeleteDocument, EndIndex, Goto, Leave, TypeOK
<1>5. \A q \in Procs \ {p} : pc[q] = "idle" /\ pc'[q] = "idle"
  BY <1>4 DEF OneWriter, TypeOK, IndexStep, OpenIndex, Upsert, DeleteDocument, EndIndex,
              Goto, Leave
<1>6. EmptyWhileCreating'
  BY <1>2, <1>3, <1>4, <1>5 DEF EmptyWhileCreating
<1>7. BlindOnlyWhenEmpty'
  <2>1. CASE OpenIndex(p)
    BY <1>3, <1>5, <2>1 DEF OpenIndex, TypeOK, TableExists, EmptyWhileCreating,
                            BlindOnlyWhenEmpty, corpus
  <2>2. CASE UNCHANGED <<pc, hasVec>>
    BY <1>3, <2>2 DEF BlindOnlyWhenEmpty
  <2>3. CASE EndIndex(p)
    BY <1>5, <2>3 DEF EndIndex, Goto, Leave, TypeOK, BlindOnlyWhenEmpty
  <2> QED BY <2>1, <2>2, <2>3 DEF IndexStep, Upsert, DeleteDocument
<1>8. LabelIsTrue'
  BY <1>1, <1>2 DEF LabelIsTrue, SpaceMatches
<1> QED BY <1>6, <1>7, <1>8

LEMMA EmbedStepLockInv ==
  ASSUME LockInv, NEW p \in Procs, EmbedStep(p)
  PROVE  EmptyWhileCreating' /\ BlindOnlyWhenEmpty' /\ LabelIsTrue'
<1> USE DEF LockInv, Goto, Leave
<1>1. pc[p] \notin {"idle", "index"} /\ pc'[p] # "index"
  BY DEF EmbedStep, OpenEmbed, Ensure, DropSpace, CreateSpace, SetModel, SetDim,
         CountMissing, ReadBatch, WriteBatch, TypeOK
<1>2. \A q \in Procs \ {p} : pc[q] = "idle" /\ pc'[q] = "idle"
  BY <1>1 DEF OneWriter, TypeOK, EmbedStep, OpenEmbed, Ensure, DropSpace, CreateSpace,
              SetModel, SetDim, CountMissing, ReadBatch, WriteBatch
<1>3. BlindOnlyWhenEmpty'
  BY <1>1, <1>2 DEF BlindOnlyWhenEmpty
<1>4. ASSUME UNCHANGED corpus, pc'[p] \notin {"create", "setModel", "setDim"}
      PROVE  EmptyWhileCreating' /\ LabelIsTrue'
  BY <1>2, <1>4 DEF corpus, EmptyWhileCreating, NoVectors, LabelIsTrue, SpaceMatches
<1>5. CASE OpenEmbed(p) \/ Ensure(p) \/ CountMissing(p) \/ ReadBatch(p)
  BY <1>3, <1>4, <1>5 DEF OpenEmbed, Ensure, CountMissing, ReadBatch, TypeOK
<1>6. CASE DropSpace(p)
  <2>1. NoVectors'
    BY <1>6 DEF DropSpace, NoVectors
  <2> QED BY <1>3, <2>1 DEF EmptyWhileCreating, LabelIsTrue, NoVectors
<1>7. CASE CreateSpace(p) \/ SetModel(p) \/ SetDim(p)
  <2>1. NoVectors'
    BY <1>7 DEF CreateSpace, SetModel, SetDim, EmptyWhileCreating, NoVectors, tables
  <2> QED BY <1>3, <2>1 DEF EmptyWhileCreating, LabelIsTrue, NoVectors
<1>8. CASE WriteBatch(p)
  <2>1. pc'[p] \notin {"create", "setModel", "setDim"}
        /\ UNCHANGED <<table, metaModel, metaDim>>
    BY <1>8 DEF WriteBatch, TypeOK
  <2>2. UNCHANGED vec \/ TableExists
    BY <1>8 DEF WriteBatch, Insertable
  <2>3. EmptyWhileCreating'
    BY <1>2, <2>1, <2>2 DEF EmptyWhileCreating, TableExists, NoVectors
  <2>4. \A r \in Rows : vec'[r] = vec[r] \/ vec'[r].model = Model
    BY <1>8 DEF WriteBatch
  <2>5. LabelIsTrue'
    BY <2>1, <2>4 DEF LabelIsTrue, SpaceMatches
  <2> QED BY <1>3, <2>3, <2>5
<1> QED BY <1>5, <1>6, <1>7, <1>8 DEF EmbedStep

LEMMA NextLockInv == LockHonoured /\ LockInv /\ [Next]_vars => LockInv'
<1> SUFFICES ASSUME LockHonoured, LockInv, [Next]_vars PROVE LockInv'
  OBVIOUS
<1>1. TypeOK' /\ OneWriter' /\ VectorDescribesChunk'
  BY NextType, NextOneWriter, NextKeepsVectors DEF LockInv
<1>2. ASSUME NEW p \in Procs, Begin(p) \/ Crash(p)
      PROVE  EmptyWhileCreating' /\ BlindOnlyWhenEmpty' /\ LabelIsTrue'
  <2>1. pc'[p] \notin {"create", "setModel", "setDim", "index"}
        /\ \A q \in Procs \ {p} : pc'[q] = pc[q] /\ hasVec'[q] = hasVec[q]
    BY <1>2 DEF Begin, Crash, Goto, Leave, LockInv, TypeOK
  <2>2. UNCHANGED corpus
    BY <1>2 DEF Begin, Crash
  <2> QED BY <2>1, <2>2 DEF corpus, LockInv, EmptyWhileCreating, BlindOnlyWhenEmpty,
                            LabelIsTrue, NoVectors, SpaceMatches
<1>3. ASSUME UNCHANGED vars
      PROVE  EmptyWhileCreating' /\ BlindOnlyWhenEmpty' /\ LabelIsTrue'
  BY <1>3 DEF vars, LockInv, EmptyWhileCreating, BlindOnlyWhenEmpty, LabelIsTrue,
              NoVectors, SpaceMatches
<1>4. EmptyWhileCreating' /\ BlindOnlyWhenEmpty' /\ LabelIsTrue'
  <2>1. ASSUME NEW p \in Procs, IndexStep(p)
        PROVE  EmptyWhileCreating' /\ BlindOnlyWhenEmpty' /\ LabelIsTrue'
    BY <1>1, <2>1, IndexStepLockInv
  <2>2. ASSUME NEW p \in Procs, EmbedStep(p)
        PROVE  EmptyWhileCreating' /\ BlindOnlyWhenEmpty' /\ LabelIsTrue'
    BY <2>2, EmbedStepLockInv
  <2> QED BY <1>2, <1>3, <2>1, <2>2 DEF Next
<1> QED BY <1>1, <1>4 DEF LockInv

LEMMA InitLockInv == Init => LockInv
<1> SUFFICES ASSUME Init PROVE LockInv
  OBVIOUS
<1>1. PICK kind \in InitialSpaces : InitSpace(kind)
  BY DEF Init
<1>2. NoVectors \/ (table # None /\ metaModel # Model)
  BY <1>1, ConstantsAssumption DEF InitSpace, NoVectors, ConstantsAssumption
<1>3. EmptyWhileCreating /\ LabelIsTrue
  BY <1>2 DEF Init, EmptyWhileCreating, LabelIsTrue, NoVectors, SpaceMatches
<1>4. OneWriter /\ BlindOnlyWhenEmpty
  BY DEF Init, OneWriter, BlindOnlyWhenEmpty
<1> QED BY <1>3, <1>4, InitType, InitVectors DEF LockInv

LEMMA AlwaysLockInv == LockHonoured /\ Spec => []LockInv
<1>1. Init => LockInv
  BY InitLockInv
<1>2. CASE LockHonoured
  <2>1. LockInv /\ [Next]_vars => LockInv'
    BY <1>2, NextLockInv
  <2> QED BY <1>1, <2>1, PTL DEF Spec
<1>3. CASE ~ LockHonoured
  BY <1>3, PTL
<1> QED BY <1>2, <1>3

LEMMA TrueLabelSuffices ==
  TypeOK /\ VectorDescribesChunk /\ LabelIsTrue => ReadyIsComplete
<1> SUFFICES ASSUME TypeOK, VectorDescribesChunk, LabelIsTrue,
                    Ready, NEW r \in Embeddable
             PROVE  vec[r] = [text |-> chunks[r].text, model |-> Model]
  BY DEF ReadyIsComplete
<1>1. r \in Rows /\ vec[r] # NoVec
  BY DEF Ready, Missing, Embeddable
<1>2. vec[r] \in Vectors
  BY <1>1 DEF TypeOK
<1>3. vec[r].text = chunks[r].text /\ vec[r].model = Model
  BY <1>1 DEF VectorDescribesChunk, LabelIsTrue, Ready
<1> QED BY <1>2, <1>3 DEF Vectors

(* One writer at a time: no vector outlives the text it was computed from, *)
(* through any reuse of rowids and any crash, from an empty corpus or one  *)
(* that an earlier build embedded (store.rs, write_embeddings,             *)
(* delete_chunks and ensure_embedding_space).                              *)
THEOREM VectorsAreCurrent == LockHonoured /\ Spec => []VectorDescribesChunk
<1>1. LockInv => VectorDescribesChunk
  BY DEF LockInv
<1> QED BY <1>1, AlwaysLockInv, PTL

(* One writer at a time: a corpus that passes the preflight of publish has *)
(* this build's vector for every long chunk.  ensure_embedding_space is    *)
(* four statements, and a crash between any two of them is never READY     *)
(* with vectors of another model.                                          *)
THEOREM ReadyIsTrue == LockHonoured /\ Spec => []ReadyIsComplete
<1>1. LockInv => ReadyIsComplete
  BY TrueLabelSuffices DEF LockInv
<1> QED BY <1>1, AlwaysLockInv, PTL
-----------------------------------------------------------------------------
(***************************************************************************)
(* Without the lock, over a vector table of this build.                    *)
(***************************************************************************)

SettledSpace == InitialSpaces = {"current"} /\ ~ AllowForce

(* Nobody has a reason to rebuild the table, and every handle knows it. *)
Settled ==
  /\ SpaceMatches /\ table = Dim
  /\ \A p \in Procs :
       /\ pc[p] \notin {"drop", "create", "setModel", "setDim"}
       /\ pc[p] \in {"index", "ensure", "count", "read", "write"} => hasVec[p]

OpenInv == TypeOK /\ Settled /\ VectorDescribesChunk /\ LabelIsTrue

LEMMA NextSettled ==
  ~ AllowForce /\ TypeOK /\ Settled /\ [Next]_vars => Settled'
<1> SUFFICES ASSUME ~ AllowForce, TypeOK, Settled, [Next]_vars PROVE Settled'
  OBVIOUS
<1> USE DEF TypeOK, Settled, SpaceMatches, Goto, Leave
<1>1. TableExists
  BY ConstantsAssumption DEF TableExists, ConstantsAssumption
<1>2. ASSUME NEW p \in Procs, Begin(p) \/ Crash(p) PROVE Settled'
  BY <1>2 DEF Begin, Crash, corpus
<1>3. ASSUME NEW p \in Procs, OpenIndex(p) \/ EndIndex(p) PROVE Settled'
  BY <1>1, <1>3 DEF OpenIndex, EndIndex, corpus
<1>4. ASSUME NEW p \in Procs, NEW d \in Docs, NEW v \in Versions,
             Upsert(p, d, v) \/ DeleteDocument(p, d)
      PROVE  Settled'
  BY <1>4 DEF Upsert, DeleteDocument
<1>5. ASSUME NEW p \in Procs, OpenEmbed(p) \/ Ensure(p) PROVE Settled'
  <2>1. CASE OpenEmbed(p)
    BY <1>1, <2>1 DEF OpenEmbed, corpus
  <2>2. CASE Ensure(p)
    <3>1. pc[p] = "ensure" /\ hasVec[p] /\ UNCHANGED corpus
      BY <2>2 DEF Ensure
    <3>2. pc' = [pc EXCEPT ![p] = "count"] /\ UNCHANGED hasVec
      BY <1>1, <2>2, <3>1 DEF Ensure
    <3> QED BY <3>1, <3>2 DEF corpus
  <2> QED BY <1>5, <2>1, <2>2
<1>6. ASSUME NEW p \in Procs, CountMissing(p) \/ ReadBatch(p) \/ WriteBatch(p)
      PROVE  Settled'
  BY <1>6 DEF CountMissing, ReadBatch, WriteBatch, corpus
<1>7. ASSUME NEW p \in Procs, DropSpace(p) \/ CreateSpace(p) \/ SetModel(p) \/ SetDim(p)
      PROVE  FALSE
  BY <1>7 DEF DropSpace, CreateSpace, SetModel, SetDim
<1>8. CASE UNCHANGED vars
  BY <1>8 DEF vars
<1>9. ASSUME NEW p \in Procs, IndexStep(p) PROVE Settled'
  <2>1. ASSUME NEW d \in Docs, DeleteDocument(p, d) PROVE Settled'
    BY <2>1 DEF DeleteDocument
  <2> QED BY <1>3, <1>4, <1>9, <2>1 DEF IndexStep
<1> QED BY <1>2, <1>5, <1>6, <1>7, <1>8, <1>9 DEF Next, EmbedStep

LEMMA NextOpenInv == ~ AllowForce /\ OpenInv /\ [Next]_vars => OpenInv'
<1> SUFFICES ASSUME ~ AllowForce, OpenInv, [Next]_vars PROVE OpenInv'
  OBVIOUS
<1>1. TypeOK' /\ Settled'
  BY NextType, NextSettled DEF OpenInv
<1>2. BlindOnlyWhenEmpty
  BY DEF OpenInv, Settled, BlindOnlyWhenEmpty
<1>3. VectorDescribesChunk'
  BY <1>2, NextKeepsVectors DEF OpenInv
<1>4. ASSUME NEW r \in Rows PROVE vec'[r] \in {vec[r], NoVec} \/ vec'[r].model = Model
  <2>1. ASSUME NEW p \in Procs, WriteBatch(p)
        PROVE  vec'[r] = vec[r] \/ vec'[r].model = Model
    BY <2>1 DEF WriteBatch
  <2>2. ASSUME NEW p \in Procs, EmbedStep(p), ~ WriteBatch(p)
        PROVE  vec'[r] \in {vec[r], NoVec}
    BY <2>2 DEF EmbedStep, OpenEmbed, Ensure, DropSpace, CreateSpace, SetModel, SetDim,
                CountMissing, ReadBatch, corpus, tables
  <2>3. ASSUME NEW p \in Procs, IndexStep(p) PROVE vec'[r] \in {vec[r], NoVec}
    BY <2>3, IndexOnlyRemoves DEF OpenInv
  <2>4. ASSUME NEW p \in Procs, Begin(p) \/ Crash(p) PROVE vec'[r] = vec[r]
    BY <2>4 DEF Begin, Crash, corpus
  <2> QED BY <2>1, <2>2, <2>3, <2>4 DEF Next, vars
<1>5. LabelIsTrue'
  BY <1>4 DEF OpenInv, Settled, LabelIsTrue
<1> QED BY <1>1, <1>3, <1>5 DEF OpenInv

LEMMA InitOpenInv == SettledSpace /\ Init => OpenInv
<1> SUFFICES ASSUME SettledSpace, Init PROVE OpenInv
  OBVIOUS
<1>1. InitSpace("current")
  BY DEF Init, SettledSpace
<1>2. SpaceMatches /\ table = Dim /\ NoVectors
  BY <1>1 DEF InitSpace, SpaceMatches, NoVectors
<1> QED BY <1>2, InitType, InitVectors
        DEF Init, OpenInv, Settled, LabelIsTrue, NoVectors

(* Writers that the lock does not keep apart: over a vector table that is  *)
(* this build's and is not rebuilt by force, their interleavings leave no  *)
(* vector at a chunk it was not computed from (write_embeddings: "holds    *)
(* even for writers the lock cannot see").  Without the premise this is    *)
(* false: see MC_BlindHandle.                                              *)
THEOREM VectorsAreCurrentUnlocked ==
  SettledSpace /\ Spec => []VectorDescribesChunk
<1>1. OpenInv => VectorDescribesChunk
  BY DEF OpenInv
<1>2. CASE SettledSpace
  <2>1. Init => OpenInv
    BY <1>2, InitOpenInv
  <2>2. OpenInv /\ [Next]_vars => OpenInv'
    BY <1>2, NextOpenInv DEF SettledSpace
  <2> QED BY <1>1, <2>1, <2>2, PTL DEF Spec
<1>3. CASE ~ SettledSpace
  BY <1>3, PTL
<1> QED BY <1>2, <1>3
-----------------------------------------------------------------------------
(***************************************************************************)
(* The chunks of a document.                                               *)
(***************************************************************************)

TextsOf(v) == IF v = None THEN <<>> ELSE ChunksOf[v]

(* Rows of a table that hold these texts, each once and in order.          *)
Hold(held, rows, texts) ==
  /\ {<<held[r].seq, held[r].text>> : r \in rows} = {<<i - 1, texts[i]>> : i \in DOMAIN texts}
  /\ Cardinality(rows) = Len(texts)

LEMMA FollowIsHold ==
  ChunksFollowDocument <=> \A d \in Docs : Hold(chunks, RowsOf(d), TextsOf(docs[d]))
BY Zenon DEF ChunksFollowDocument, Hold, TextsOf

(* The texts of a version, from a row on.                                  *)
LEMMA IntervalHolds ==
  ASSUME NEW held, NEW v \in Versions, NEW n \in Nat,
         \A r \in n .. n + Len(ChunksOf[v]) - 1 :
           held[r].seq = r - n /\ held[r].text = ChunksOf[v][r - n + 1]
  PROVE  Hold(held, n .. n + Len(ChunksOf[v]) - 1, ChunksOf[v])
<1> DEFINE texts == ChunksOf[v]
           k == Len(texts)
           rows == n .. n + k - 1
<1>1. k \in Nat /\ DOMAIN texts = 1 .. k
  BY ChunkTexts
<1>2. Cardinality(rows) = k
  BY <1>1, FS_Interval
<1>3. \A r \in rows : held[r].seq = r - n /\ held[r].text = texts[r - n + 1]
  OBVIOUS
<1> HIDE DEF texts, k
<1>4. ASSUME NEW r \in rows
      PROVE  <<held[r].seq, held[r].text>> \in {<<i - 1, texts[i]>> : i \in 1 .. k}
  <2>1. r - n + 1 \in 1 .. k /\ (r - n + 1) - 1 = r - n
    BY <1>1, <1>4
  <2>2. held[r].seq = r - n /\ held[r].text = texts[r - n + 1]
    BY <1>3, <1>4
  <2> QED BY <2>1, <2>2
<1>5. ASSUME NEW i \in 1 .. k
      PROVE  <<i - 1, texts[i]>> \in {<<held[r].seq, held[r].text>> : r \in rows}
  <2> DEFINE r == n + i - 1
  <2>1. r \in rows /\ r - n = i - 1 /\ r - n + 1 = i
    BY <1>1, <1>5
  <2> HIDE DEF r
  <2>2. held[r].seq = i - 1 /\ held[r].text = texts[i]
    BY <1>3, <2>1
  <2> QED BY <2>1, <2>2
<1>6. {<<held[r].seq, held[r].text>> : r \in rows} = {<<i - 1, texts[i]>> : i \in 1 .. k}
  BY <1>4, <1>5
<1> USE DEF texts, k
<1> QED BY <1>1, <1>2, <1>6 DEF Hold

(* write_chunks leaves the rows of the other documents to them.            *)
LEMMA UpsertFollows ==
  ASSUME TypeOK, ChunksFollowDocument,
         NEW p \in Procs, NEW d \in Docs, NEW v \in Versions, Upsert(p, d, v)
  PROVE  ChunksFollowDocument'
<1> DEFINE k == Len(ChunksOf[v])
<1>1. PICK n \in 1 .. MaxRow + 1 :
        /\ IsNextRow(n, Others(d)) /\ n + k <= MaxRow + 1
        /\ chunks' = Rechunked(d, ChunksOf[v], n)
  BY DEF Upsert
<1>2. n \in Nat /\ k \in Nat /\ n .. n + k - 1 \subseteq Rows
  BY <1>1, ChunkTexts, ConstantsAssumption DEF ConstantsAssumption, Rows
<1>3. /\ docs' = [docs EXCEPT ![d] = v] /\ v # None /\ d # None
  BY ConstantsAssumption DEF Upsert, ConstantsAssumption
<1>4. ASSUME NEW r \in n .. n + k - 1
      PROVE  /\ chunks'[r].doc = d /\ chunks'[r] # NoChunk
             /\ chunks'[r].seq = r - n /\ chunks'[r].text = ChunksOf[v][r - n + 1]
  <2>1. r \in Rows /\ r >= n /\ r < n + k
    BY <1>2, <1>4
  <2>2. chunks'[r] = [doc |-> d, seq |-> r - n, text |-> ChunksOf[v][r - n + 1]]
    BY <1>1, <2>1 DEF Rechunked
  <2>3. NoChunk.doc = None
    BY DEF NoChunk
  <2> QED BY <1>3, <2>2, <2>3
<1>5. ASSUME NEW r \in Rows, r \notin n .. n + k - 1
      PROVE  chunks'[r] = IF r \in RowsOf(d) THEN NoChunk ELSE chunks[r]
  <2>1. ~ (r >= n /\ r < n + k)
    BY <1>2, <1>5, ConstantsAssumption DEF Rows, ConstantsAssumption
  <2> QED BY <1>1, <2>1 DEF Rechunked
<1>6. RowsOf(d)' = n .. n + k - 1
  <2>1. ASSUME NEW r \in Rows
        PROVE  r \in RowsOf(d)' <=> r \in n .. n + k - 1
    <3>1. CASE r \in n .. n + k - 1
      BY <1>4, <3>1 DEF RowsOf
    <3>2. CASE r \notin n .. n + k - 1
      BY <1>5, <3>2 DEF RowsOf
    <3> QED BY <3>1, <3>2
  <2> QED BY <1>2, <2>1 DEF RowsOf
<1>7. Hold(chunks', RowsOf(d)', TextsOf(docs'[d]))
  <2>1. Hold(chunks', n .. n + k - 1, ChunksOf[v])
    BY <1>2, <1>4, IntervalHolds
  <2>2. TextsOf(docs'[d]) = ChunksOf[v]
    BY <1>3 DEF TextsOf, TypeOK
  <2> QED BY <1>6, <2>1, <2>2
<1>8. ASSUME NEW e \in Docs, e # d
      PROVE  Hold(chunks', RowsOf(e)', TextsOf(docs'[e]))
  <2>1. ASSUME NEW r \in RowsOf(e)
        PROVE  r \in Rows /\ chunks'[r] = chunks[r]
    <3>1. r \in Others(d)
      BY <1>8 DEF RowsOf, Others
    <3> QED BY <1>1, <1>2, <3>1, RechunkedKeepsOthers DEF Others
  <2>2. ASSUME NEW r \in RowsOf(e)'
        PROVE  r \in RowsOf(e)
    <3>1. r \in Rows /\ chunks'[r] # NoChunk /\ chunks'[r].doc = e
      BY DEF RowsOf
    <3>2. r \notin n .. n + k - 1
      BY <1>4, <1>8, <3>1
    <3>3. chunks'[r] = chunks[r]
      BY <1>5, <3>1, <3>2
    <3> QED BY <3>1, <3>3 DEF RowsOf
  <2>3. RowsOf(e)' = RowsOf(e)
    BY <2>1, <2>2 DEF RowsOf
  <2>4. Hold(chunks, RowsOf(e), TextsOf(docs[e]))
    BY FollowIsHold
  <2>5. docs'[e] = docs[e]
    BY <1>3, <1>8 DEF TypeOK
  <2>6. {<<chunks'[r].seq, chunks'[r].text>> : r \in RowsOf(e)}
          = {<<chunks[r].seq, chunks[r].text>> : r \in RowsOf(e)}
    BY <2>1
  <2> QED BY <2>3, <2>4, <2>5, <2>6 DEF Hold
<1>9. \A e \in Docs : Hold(chunks', RowsOf(e)', TextsOf(docs'[e]))
  BY <1>7, <1>8
<1> QED BY <1>9, Zenon DEF ChunksFollowDocument, Hold, TextsOf

(* delete_document takes the chunks of its document and no others.         *)
LEMMA DeleteFollows ==
  ASSUME TypeOK, ChunksFollowDocument,
         NEW p \in Procs, NEW d \in Docs, DeleteDocument(p, d)
  PROVE  ChunksFollowDocument'
<1>1. /\ chunks' = [r \in Rows |-> IF r \in RowsOf(d) THEN NoChunk ELSE chunks[r]]
      /\ docs' = [docs EXCEPT ![d] = None]
  BY DEF DeleteDocument
<1>2. RowsOf(d)' = {} /\ docs'[d] = None
  BY <1>1 DEF RowsOf, TypeOK
<1>3. Hold(chunks', RowsOf(d)', TextsOf(docs'[d]))
  <2>1. Cardinality({}) = 0 /\ Len(<<>>) = 0 /\ DOMAIN <<>> = {}
    BY FS_EmptySet
  <2> QED BY <1>2, <2>1 DEF Hold, TextsOf
<1>4. ASSUME NEW e \in Docs, e # d
      PROVE  Hold(chunks', RowsOf(e)', TextsOf(docs'[e]))
  <2>1. RowsOf(e)' = RowsOf(e) /\ docs'[e] = docs[e]
    BY <1>1, <1>4 DEF RowsOf, TypeOK
  <2>2. \A r \in RowsOf(e) : chunks'[r] = chunks[r]
    BY <1>1, <1>4 DEF RowsOf
  <2>3. Hold(chunks, RowsOf(e), TextsOf(docs[e]))
    BY FollowIsHold
  <2>4. {<<chunks'[r].seq, chunks'[r].text>> : r \in RowsOf(e)}
          = {<<chunks[r].seq, chunks[r].text>> : r \in RowsOf(e)}
    BY <2>2
  <2> QED BY <2>1, <2>3, <2>4 DEF Hold
<1>5. \A e \in Docs : Hold(chunks', RowsOf(e)', TextsOf(docs'[e]))
  BY <1>3, <1>4
<1> QED BY <1>5, Zenon DEF ChunksFollowDocument, Hold, TextsOf

LEMMA InitFollows == Init => ChunksFollowDocument
<1> SUFFICES ASSUME Init PROVE ChunksFollowDocument
  OBVIOUS
<1>1. PICK d \in Docs, v \in Versions, filled \in BOOLEAN :
        Len(ChunksOf[v]) <= MaxRow /\ InitTables(d, v, filled)
  BY DEF Init
<1> DEFINE k == Len(ChunksOf[v])
<1>2. k \in Nat /\ 1 .. k \subseteq Rows /\ d # None /\ v # None
  BY <1>1, ChunkTexts, ConstantsAssumption DEF Rows, ConstantsAssumption
<1>3. Cardinality({}) = 0 /\ Len(<<>>) = 0 /\ DOMAIN <<>> = {}
  BY FS_EmptySet
<1>4. ASSUME NEW e \in Docs, ~ (filled /\ e = d)
      PROVE  Hold(chunks, RowsOf(e), TextsOf(docs[e]))
  <2>1. docs[e] = None
    BY <1>1, <1>4 DEF InitTables
  <2>2. RowsOf(e) = {}
    BY <1>1, <1>4 DEF InitTables, RowsOf
  <2> QED BY <1>3, <2>1, <2>2 DEF Hold, TextsOf
<1>5. ASSUME filled
      PROVE  Hold(chunks, RowsOf(d), TextsOf(docs[d]))
  <2>1. docs[d] = v
    BY <1>1, <1>5 DEF InitTables
  <2>2. ASSUME NEW r \in 1 .. 1 + k - 1
        PROVE  /\ chunks[r].doc = d /\ chunks[r] # NoChunk
               /\ chunks[r].seq = r - 1 /\ chunks[r].text = ChunksOf[v][r - 1 + 1]
    <3>1. r \in Rows /\ r <= k /\ r - 1 + 1 = r
      BY <1>2
    <3>2. chunks[r] = [doc |-> d, seq |-> r - 1, text |-> ChunksOf[v][r]]
      BY <1>1, <1>5, <3>1 DEF InitTables
    <3>3. NoChunk.doc = None
      BY DEF NoChunk
    <3> QED BY <1>2, <3>1, <3>2, <3>3
  <2>3. ASSUME NEW r \in Rows, r \notin 1 .. 1 + k - 1
        PROVE  chunks[r] = NoChunk
    <3>1. ~ (r <= k)
      BY <1>2, <2>3, ConstantsAssumption DEF Rows, ConstantsAssumption
    <3> QED BY <1>1, <3>1 DEF InitTables
  <2>4. RowsOf(d) = 1 .. 1 + k - 1
    <3>1. 1 .. 1 + k - 1 \subseteq Rows
      BY <1>2
    <3> QED BY <2>2, <2>3, <3>1 DEF RowsOf
  <2>5. Hold(chunks, 1 .. 1 + k - 1, ChunksOf[v])
    BY <2>2, IntervalHolds
  <2> QED BY <1>2, <2>1, <2>4, <2>5 DEF TextsOf
<1>6. \A e \in Docs : Hold(chunks, RowsOf(e), TextsOf(docs[e]))
  BY <1>4, <1>5
<1> QED BY <1>6, FollowIsHold

LEMMA NextFollows == TypeOK /\ ChunksFollowDocument /\ [Next]_vars => ChunksFollowDocument'
<1> SUFFICES ASSUME TypeOK, ChunksFollowDocument, [Next]_vars PROVE ChunksFollowDocument'
  OBVIOUS
<1>1. ASSUME UNCHANGED tables PROVE ChunksFollowDocument'
  <2>1. docs' = docs /\ chunks' = chunks
    BY <1>1 DEF tables
  <2>2. \A d \in Docs : RowsOf(d)' = RowsOf(d)
    BY <2>1 DEF RowsOf
  <2>3. \A d \in Docs : Hold(chunks', RowsOf(d)', TextsOf(docs'[d]))
    BY <2>1, <2>2, FollowIsHold
  <2> QED BY <2>3, Zenon DEF ChunksFollowDocument, Hold, TextsOf
<1>2. ASSUME NEW p \in Procs, Begin(p) \/ Crash(p) PROVE UNCHANGED tables
  BY <1>2 DEF Begin, Crash, corpus, tables
<1>3. ASSUME NEW p \in Procs, EmbedStep(p) PROVE UNCHANGED tables
  BY <1>3 DEF EmbedStep, OpenEmbed, Ensure, DropSpace, CreateSpace, SetModel, SetDim,
              CountMissing, ReadBatch, WriteBatch, corpus, tables
<1>4. ASSUME NEW p \in Procs, IndexStep(p) PROVE ChunksFollowDocument'
  <2>1. ASSUME OpenIndex(p) \/ EndIndex(p) PROVE UNCHANGED tables
    BY <2>1 DEF OpenIndex, EndIndex, corpus, tables
  <2> QED BY <1>1, <1>4, <2>1, UpsertFollows, DeleteFollows DEF IndexStep
<1>5. CASE UNCHANGED vars
  BY <1>1, <1>5 DEF vars, tables
<1> QED BY <1>1, <1>2, <1>3, <1>4, <1>5 DEF Next

(* Whatever writers interleave, locked or not: a document's chunks are     *)
(* those its current version is cut into, each once and in order; no       *)
(* neighbour is overwritten when a rowid is given out a second time.       *)
THEOREM ChunksFollow == Spec => []ChunksFollowDocument
<1> DEFINE FollowInv == TypeOK /\ ChunksFollowDocument
<1>1. Init => FollowInv
  BY InitType, InitFollows
<1>2. FollowInv /\ [Next]_vars => FollowInv'
  BY NextType, NextFollows
<1> QED BY <1>1, <1>2, PTL DEF Spec
-----------------------------------------------------------------------------
(***************************************************************************)
(* What embed counts.                                                      *)
(***************************************************************************)

(* An embed that reads batches has counted at least what it has written    *)
(* and what is still missing; any other writer has counted nothing.        *)
Counting ==
  \A p \in Procs :
    IF pc[p] \in {"read", "write"} THEN done[p] + Cardinality(Missing) <= total[p]
    ELSE done[p] = 0

(* A batch that is written is missing before and is not missing after.     *)
LEMMA WrittenWasMissing ==
  ASSUME TypeOK, NEW p \in Procs, Insertable(p),
         vec' = [r \in Rows |-> IF r \in Unchanged(p)
                                  THEN [text |-> batch[p][r], model |-> Model]
                                ELSE vec[r]],
         chunks' = chunks
  PROVE  Cardinality(Missing) = Cardinality(Missing') + Cardinality(Unchanged(p))
<1>1. PICK B \in SUBSET Rows : batch[p] \in [B -> LongTexts]
  BY DEF TypeOK, Batches
<1>2. ASSUME NEW r \in Unchanged(p) PROVE r \in Missing /\ r \notin Missing'
  <2>1. r \in Rows /\ chunks[r] # NoChunk /\ chunks[r].text = batch[p][r]
        /\ batch[p][r] \in LongTexts
    BY <1>1, <1>2 DEF Unchanged
  <2>2. vec[r] = NoVec
    BY <1>2 DEF Insertable
  <2>3. vec'[r].text = batch[p][r]
    BY <1>2, <2>1
  <2>4. batch[p][r] # None /\ NoVec.text = None
    BY <2>1, ConstantsAssumption DEF ConstantsAssumption, NoVec
  <2> QED BY <2>1, <2>2, <2>3, <2>4 DEF Missing, Embeddable
<1>3. Missing' = Missing \ Unchanged(p)
  <2>1. ASSUME NEW r \in Rows, r \notin Unchanged(p) PROVE vec'[r] = vec[r]
    BY <2>1
  <2> QED BY <1>2, <2>1 DEF Missing, Embeddable
<1>4. Unchanged(p) \subseteq Missing /\ Missing \subseteq Rows
  BY <1>2 DEF Missing, Embeddable
<1>5. IsFiniteSet(Missing) /\ IsFiniteSet(Unchanged(p))
  BY <1>4, CountRows
<1>6. Cardinality(Missing \ Unchanged(p))
        = Cardinality(Missing) - Cardinality(Missing \cap Unchanged(p))
  BY <1>5, FS_Difference
<1>7. Missing \cap Unchanged(p) = Unchanged(p)
  BY <1>4
<1>8. Cardinality(Missing) \in Nat /\ Cardinality(Unchanged(p)) \in Nat
  BY <1>4, CountRows
<1>9. Cardinality(Missing') = Cardinality(Missing) - Cardinality(Unchanged(p))
  BY <1>3, <1>6, <1>7, Zenon
<1> QED BY <1>8, <1>9

LEMMA NextCounting ==
  LockHonoured /\ LockInv /\ Counting /\ [Next]_vars => Counting'
<1> SUFFICES ASSUME LockHonoured, LockInv, Counting, [Next]_vars PROVE Counting'
  OBVIOUS
<1> USE DEF Goto, Leave
<1>1. TypeOK /\ OneWriter
  BY DEF LockInv
<1>2. CASE UNCHANGED vars
  <2>1. Missing' = Missing /\ UNCHANGED <<pc, done, total>>
    BY <1>2 DEF vars, Missing, Embeddable
  <2> QED BY <2>1, Zenon DEF Counting
<1>3. ASSUME NEW p \in Procs, Begin(p) PROVE Counting'
  <2>1. \A q \in Procs : pc[q] = "idle" /\ done[q] = 0
    BY <1>3 DEF Begin, Counting
  <2>2. \A q \in Procs : pc'[q] \notin {"read", "write"} /\ done'[q] = done[q]
    BY <1>1, <1>3, <2>1 DEF Begin, TypeOK, loop
  <2> QED BY <2>1, <2>2 DEF Counting
<1>4. ASSUME NEW p \in Procs, pc[p] # "idle",
             pc' = [pc EXCEPT ![p] = pc'[p]], done' = [done EXCEPT ![p] = done'[p]],
             IF pc'[p] \in {"read", "write"}
               THEN done'[p] + Cardinality(Missing') <= total'[p]
             ELSE done'[p] = 0
      PROVE  Counting'
  <2>1. \A q \in Procs \ {p} : pc[q] = "idle" /\ done[q] = 0
    BY <1>1, <1>4 DEF OneWriter, Counting
  <2>2. \A q \in Procs \ {p} : pc'[q] = "idle" /\ done'[q] = 0
    BY <1>1, <1>4, <2>1 DEF TypeOK
  <2> QED BY <1>4, <2>2 DEF Counting
<1>5. ASSUME NEW p \in Procs, pc[p] # "idle", Leave(p) PROVE Counting'
  <2>1. pc'[p] = "idle" /\ done'[p] = 0
        /\ pc' = [pc EXCEPT ![p] = pc'[p]] /\ done' = [done EXCEPT ![p] = done'[p]]
    BY <1>1, <1>5 DEF TypeOK
  <2> QED BY <1>4, <1>5, <2>1
<1>6. ASSUME NEW p \in Procs, pc[p] \notin {"idle", "read", "write"},
             NEW stage \in Stages \ {"read", "write"},
             pc' = [pc EXCEPT ![p] = stage], done' = done
      PROVE  Counting'
  <2>1. pc'[p] = stage /\ done'[p] = 0
        /\ pc' = [pc EXCEPT ![p] = pc'[p]] /\ done' = [done EXCEPT ![p] = done'[p]]
    BY <1>1, <1>6 DEF TypeOK, Counting
  <2> QED BY <1>4, <1>6, <2>1
<1>7. ASSUME NEW p \in Procs, Crash(p) PROVE Counting'
  BY <1>5, <1>7 DEF Crash
<1>8. ASSUME NEW p \in Procs, IndexStep(p) PROVE Counting'
  <2>1. pc[p] \in {"openIndex", "index"}
    BY <1>8 DEF IndexStep, OpenIndex, Upsert, DeleteDocument, EndIndex
  <2>2. \/ Leave(p)
        \/ \E stage \in {"openEmbed", "index"} : pc' = [pc EXCEPT ![p] = stage] /\ done' = done
    BY <1>1, <1>8 DEF IndexStep, OpenIndex, Upsert, DeleteDocument, EndIndex, loop, TypeOK
  <2> QED BY <1>5, <1>6, <2>1, <2>2 DEF Stages
<1>9. ASSUME NEW p \in Procs,
             OpenEmbed(p) \/ Ensure(p) \/ DropSpace(p) \/ CreateSpace(p) \/ SetModel(p)
               \/ SetDim(p)
      PROVE  Counting'
  <2>1. pc[p] \in {"openEmbed", "ensure", "drop", "create", "setModel", "setDim"}
    BY <1>9 DEF OpenEmbed, Ensure, DropSpace, CreateSpace, SetModel, SetDim
  <2>2. \/ Leave(p)
        \/ \E stage \in {"ensure", "drop", "create", "setModel", "setDim", "count"} :
             pc' = [pc EXCEPT ![p] = stage] /\ done' = done
    BY <1>9 DEF OpenEmbed, Ensure, DropSpace, CreateSpace, SetModel, SetDim, loop
  <2> QED BY <1>5, <1>6, <2>1, <2>2 DEF Stages
<1>10. ASSUME NEW p \in Procs, CountMissing(p), ~ Leave(p) PROVE Counting'
  <2>1. /\ pc[p] = "count" /\ pc' = [pc EXCEPT ![p] = "read"]
        /\ total' = [total EXCEPT ![p] = Cardinality(Missing)]
        /\ UNCHANGED done /\ UNCHANGED corpus
    BY <1>10 DEF CountMissing
  <2>2. Missing' = Missing
    BY <2>1 DEF corpus, Missing, Embeddable
  <2>3. done'[p] = 0 /\ total'[p] = Cardinality(Missing) /\ pc'[p] = "read"
        /\ done' = [done EXCEPT ![p] = done'[p]]
    BY <1>1, <2>1 DEF TypeOK, Counting
  <2>4. Cardinality(Missing) \in Nat
    BY CountRows DEF Missing, Embeddable
  <2>5. done'[p] + Cardinality(Missing') <= total'[p]
    <3>1. Cardinality(Missing') = Cardinality(Missing)
      BY <2>2, Zenon
    <3> QED BY <2>3, <2>4, <3>1
  <2> QED BY <1>4, <2>1, <2>3, <2>5
<1>11. ASSUME NEW p \in Procs, ReadBatch(p), ~ Leave(p) PROVE Counting'
  <2>1. /\ pc[p] = "read" /\ pc' = [pc EXCEPT ![p] = "write"]
        /\ UNCHANGED <<total, done>> /\ UNCHANGED corpus
    BY <1>11 DEF ReadBatch
  <2>2. Missing' = Missing
    BY <2>1 DEF corpus, Missing, Embeddable
  <2>3. pc'[p] = "write" /\ done' = [done EXCEPT ![p] = done'[p]]
        /\ done[p] + Cardinality(Missing) <= total[p]
    BY <1>1, <2>1 DEF TypeOK, Counting
  <2> QED BY <1>4, <2>1, <2>2, <2>3
<1>12. ASSUME NEW p \in Procs, WriteBatch(p), ~ Leave(p) PROVE Counting'
  <2>1. /\ pc[p] = "write" /\ pc' = [pc EXCEPT ![p] = "read"]
        /\ UNCHANGED <<total, chunks>>
    BY <1>12 DEF WriteBatch, tables
  <2>2. pc'[p] = "read" /\ done[p] + Cardinality(Missing) <= total[p]
        /\ done[p] \in Nat /\ total[p] \in Nat
    BY <1>1, <2>1 DEF TypeOK, Counting
  <2>3. CASE UNCHANGED <<vec, done>>
    <3>1. Missing' = Missing /\ done' = [done EXCEPT ![p] = done'[p]]
      BY <1>1, <2>1, <2>3 DEF Missing, Embeddable, TypeOK
    <3> QED BY <1>4, <2>1, <2>2, <2>3, <3>1
  <2>4. CASE /\ Insertable(p)
             /\ vec' = [r \in Rows |-> IF r \in Unchanged(p)
                                         THEN [text |-> batch[p][r], model |-> Model]
                                       ELSE vec[r]]
             /\ done' = [done EXCEPT ![p] = @ + Cardinality(Unchanged(p))]
    <3>1. Cardinality(Missing) = Cardinality(Missing') + Cardinality(Unchanged(p))
      BY <1>1, <2>1, <2>4, WrittenWasMissing
    <3>2. done'[p] = done[p] + Cardinality(Unchanged(p))
          /\ done' = [done EXCEPT ![p] = done'[p]]
      BY <1>1, <2>4 DEF TypeOK
    <3>3. Cardinality(Missing') \in Nat /\ Cardinality(Unchanged(p)) \in Nat
      <4>1. Missing' \subseteq Rows
        BY DEF Missing, Embeddable
      <4>2. Unchanged(p) \subseteq Rows
        BY <1>1 DEF Unchanged, TypeOK, Batches
      <4> QED BY <4>1, <4>2, CountRows
    <3>4. done'[p] + Cardinality(Missing') <= total'[p]
      BY <2>1, <2>2, <3>1, <3>2, <3>3
    <3> QED BY <1>4, <2>1, <2>2, <3>2, <3>4
  <2> QED BY <1>12, <2>3, <2>4 DEF WriteBatch
<1>13. ASSUME NEW p \in Procs, CountMissing(p) \/ ReadBatch(p) \/ WriteBatch(p)
       PROVE  pc[p] # "idle"
  BY <1>13 DEF CountMissing, ReadBatch, WriteBatch
<1> QED BY <1>2, <1>3, <1>5, <1>7, <1>8, <1>9, <1>10, <1>11, <1>12, <1>13
        DEF Next, EmbedStep

(* One writer at a time: `total - done`, an unsigned subtraction in        *)
(* embed's progress line, never goes below zero, because a batch counts    *)
(* only rows that were missing when total was counted.                     *)
THEOREM ProgressStaysInRange == LockHonoured /\ Spec => []ProgressInRange
<1>1. Init => LockInv /\ Counting
  BY InitLockInv DEF Init, Counting
<1>2. LockInv /\ Counting => ProgressInRange
  <2>1. Cardinality(Missing) \in Nat
    BY CountRows DEF Missing, Embeddable
  <2> QED BY <2>1 DEF LockInv, TypeOK, Counting, ProgressInRange
<1>3. CASE LockHonoured
  <2>1. LockInv /\ Counting /\ [Next]_vars => (LockInv /\ Counting)'
    BY <1>3, NextLockInv, NextCounting
  <2> QED BY <1>1, <1>2, <2>1, PTL DEF Spec
<1>4. CASE ~ LockHonoured
  BY <1>4, PTL
<1> QED BY <1>3, <1>4
-----------------------------------------------------------------------------
(***************************************************************************)
(* The tables implement SemanticIndex.                                     *)
(***************************************************************************)

Vectored == {r \in Rows : vec[r] # NoVec /\ chunks[r] # NoChunk}
Found == {<<chunks[r].doc, chunks[r].seq, vec[r].text>> : r \in Vectored}

(* The value the instance gives to `found`. *)
LEMMA FoundIsFound ==
  /\ Index!vars = <<docs, Found>>
  /\ Index!vars' = <<docs', Found'>>
BY DEF Index!vars, Found, Vectored

(* A step that takes the vectors of one document and no other.             *)
LEMMA RemovalReplaces ==
  ASSUME NEW d, NEW w, docs' = [docs EXCEPT ![d] = w],
         \A r \in Vectored : chunks[r].doc # d =>
           r \in Vectored' /\ chunks'[r] = chunks[r] /\ vec'[r] = vec[r],
         \A r \in Vectored' : r \in Vectored /\ chunks[r].doc # d
  PROVE  Index!Replace(d, w)
<1>1. ASSUME NEW f \in Found, f[1] # d PROVE f \in Found'
  <2>1. PICK r \in Vectored : f = <<chunks[r].doc, chunks[r].seq, vec[r].text>>
    BY <1>1 DEF Found
  <2>2. r \in Vectored' /\ chunks'[r] = chunks[r] /\ vec'[r] = vec[r]
    BY <1>1, <2>1
  <2> QED BY <2>1, <2>2 DEF Found
<1>2. ASSUME NEW f \in Found' PROVE f \in Found /\ f[1] # d
  <2>1. PICK r \in Vectored' : f = <<chunks'[r].doc, chunks'[r].seq, vec'[r].text>>
    BY <1>2 DEF Found
  <2>2. r \in Vectored /\ chunks[r].doc # d /\ chunks'[r] = chunks[r] /\ vec'[r] = vec[r]
    BY <2>1
  <2> QED BY <2>1, <2>2 DEF Found
<1>3. Found' = {f \in Found : f[1] # d}
  BY <1>1, <1>2
<1> QED BY <1>3 DEF Index!Replace, Found, Vectored

LEMMA UpsertReplaces ==
  ASSUME LockInv, NEW p \in Procs, NEW d \in Docs, NEW v \in Versions, Upsert(p, d, v)
  PROVE  Index!Replace(d, v)
<1>1. PICK n \in 1 .. MaxRow + 1 :
        IsNextRow(n, Others(d)) /\ chunks' = Rechunked(d, ChunksOf[v], n)
  BY DEF Upsert
<1>2. n \in Nat /\ TypeOK /\ VectorDescribesChunk
  BY <1>1, ConstantsAssumption DEF ConstantsAssumption, LockInv
<1>3. ASSUME NEW r \in Rows, vec'[r] # NoVec
      PROVE  vec'[r] = vec[r] /\ r \in Vectored /\ chunks[r].doc # d
  <2>1. vec'[r] = vec[r] /\ ~ (hasVec[p] /\ r \in RowsOf(d))
    BY <1>3 DEF Upsert, WithoutVectorsOf
  <2>2. hasVec[p]
    BY <1>2, <1>3, <2>1 DEF Upsert, LockInv, BlindOnlyWhenEmpty, NoVectors, TypeOK
  <2>3. chunks[r] # NoChunk
    BY <1>2, <1>3, <2>1 DEF VectorDescribesChunk
  <2> QED BY <1>3, <2>1, <2>2, <2>3 DEF RowsOf, Vectored
<1>4. ASSUME NEW r \in Vectored, chunks[r].doc # d
      PROVE  chunks'[r] = chunks[r] /\ vec'[r] = vec[r]
  <2>1. r \in Others(d) /\ r \notin RowsOf(d) /\ r \in Rows
    BY <1>4 DEF Others, RowsOf, Vectored
  <2>2. chunks'[r] = chunks[r]
    BY <1>1, <1>2, <2>1, RechunkedKeepsOthers
  <2> QED BY <2>1, <2>2 DEF Upsert, WithoutVectorsOf
<1>5. \A r \in Vectored : chunks[r].doc # d =>
        r \in Vectored' /\ chunks'[r] = chunks[r] /\ vec'[r] = vec[r]
  BY <1>4 DEF Vectored
<1>6. \A r \in Vectored' : r \in Vectored /\ chunks[r].doc # d
  BY <1>3 DEF Vectored
<1>7. docs' = [docs EXCEPT ![d] = v]
  BY DEF Upsert
<1> QED BY <1>5, <1>6, <1>7, RemovalReplaces

LEMMA DeleteReplaces ==
  ASSUME LockInv, NEW p \in Procs, NEW d \in Docs, DeleteDocument(p, d)
  PROVE  Index!Replace(d, None)
<1>1. TypeOK /\ VectorDescribesChunk
  BY DEF LockInv
<1>2. ASSUME NEW r \in Rows, vec'[r] # NoVec
      PROVE  vec'[r] = vec[r] /\ r \in Vectored /\ chunks[r].doc # d
  <2>1. vec'[r] = vec[r] /\ ~ (hasVec[p] /\ r \in RowsOf(d))
    BY <1>2 DEF DeleteDocument, WithoutVectorsOf
  <2>2. hasVec[p]
    BY <1>1, <1>2, <2>1 DEF DeleteDocument, LockInv, BlindOnlyWhenEmpty, NoVectors, TypeOK
  <2>3. chunks[r] # NoChunk
    BY <1>1, <1>2, <2>1 DEF VectorDescribesChunk
  <2> QED BY <1>2, <2>1, <2>2, <2>3 DEF RowsOf, Vectored
<1>3. \A r \in Vectored : chunks[r].doc # d =>
        r \in Vectored' /\ chunks'[r] = chunks[r] /\ vec'[r] = vec[r]
  <2>1. ASSUME NEW r \in Vectored, chunks[r].doc # d
        PROVE  chunks'[r] = chunks[r] /\ vec'[r] = vec[r]
    BY <2>1 DEF DeleteDocument, WithoutVectorsOf, RowsOf, Vectored
  <2> QED BY <2>1 DEF Vectored
<1>4. \A r \in Vectored' : r \in Vectored /\ chunks[r].doc # d
  BY <1>2 DEF Vectored
<1>5. docs' = [docs EXCEPT ![d] = None]
  BY DEF DeleteDocument
<1> QED BY <1>3, <1>4, <1>5, RemovalReplaces

(* A row with a long text is a passage of its document. *)
LEMMA RowIsPassage ==
  ASSUME TypeOK, ChunksFollowDocument, NEW r \in Embeddable
  PROVE  /\ chunks[r].doc \in Docs
         /\ <<chunks[r].doc, chunks[r].seq, chunks[r].text>> \in Index!Passages(chunks[r].doc)
<1> DEFINE d == chunks[r].doc
           texts == ChunksOf[docs[d]]
<1>1. r \in Rows /\ chunks[r] # NoChunk /\ chunks[r].text \in LongTexts
  BY DEF Embeddable
<1>2. d \in Docs
  BY <1>1 DEF TypeOK, Chunks
<1>3. r \in RowsOf(d) /\ Hold(chunks, RowsOf(d), TextsOf(docs[d]))
  BY <1>1, <1>2, FollowIsHold DEF RowsOf
<1>4. PICK i \in DOMAIN TextsOf(docs[d]) :
        <<chunks[r].seq, chunks[r].text>> = <<i - 1, TextsOf(docs[d])[i]>>
  BY <1>3 DEF Hold
<1>5. docs[d] # None
  BY <1>4 DEF TextsOf
<1>6. i \in DOMAIN texts /\ chunks[r].seq = i - 1 /\ chunks[r].text = texts[i]
  BY <1>4, <1>5 DEF TextsOf
<1> QED BY <1>1, <1>2, <1>5, <1>6 DEF Index!Passages

LEMMA WriteLearns ==
  ASSUME TypeOK, ChunksFollowDocument, NEW p \in Procs, WriteBatch(p)
  PROVE  Index!Next \/ UNCHANGED Index!vars
<1> DEFINE S == {<<chunks[r].doc, chunks[r].seq, chunks[r].text>> : r \in Unchanged(p)}
           all == UNION {Index!Passages(d) : d \in Docs}
<1>1. docs' = docs /\ chunks' = chunks
  BY DEF WriteBatch, tables
<1>2. CASE UNCHANGED vec
  <2>1. Found' = Found
    BY <1>1, <1>2 DEF Found, Vectored
  <2> QED BY <1>1, <2>1, FoundIsFound
<1>3. CASE /\ Insertable(p)
           /\ vec' = [r \in Rows |-> IF r \in Unchanged(p)
                                       THEN [text |-> batch[p][r], model |-> Model]
                                     ELSE vec[r]]
  <2>1. PICK B \in SUBSET Rows : batch[p] \in [B -> LongTexts]
    BY DEF TypeOK, Batches
  <2>2. ASSUME NEW r \in Unchanged(p)
        PROVE  /\ r \in Embeddable /\ vec[r] = NoVec
               /\ r \in Vectored' /\ vec'[r].text = chunks[r].text
    <3>1. r \in Rows /\ chunks[r] # NoChunk /\ chunks[r].text = batch[p][r]
          /\ batch[p][r] \in LongTexts
      BY <2>1, <2>2 DEF Unchanged
    <3>2. vec[r] = NoVec
      BY <1>3, <2>2 DEF Insertable
    <3>3. vec'[r].text = batch[p][r]
      BY <1>3, <2>2, <3>1
    <3>4. batch[p][r] # None /\ NoVec.text = None
      BY <3>1, ConstantsAssumption DEF ConstantsAssumption, NoVec
    <3> QED BY <1>1, <3>1, <3>2, <3>3, <3>4 DEF Vectored, Embeddable
  <2>3. ASSUME NEW r \in Rows, r \notin Unchanged(p) PROVE vec'[r] = vec[r]
    BY <1>3, <2>3
  <2>4. S \in SUBSET all
    <3>1. ASSUME NEW r \in Unchanged(p)
          PROVE  <<chunks[r].doc, chunks[r].seq, chunks[r].text>> \in all
      BY <2>2, <3>1, RowIsPassage
    <3> QED BY <3>1
  <2>5. ASSUME NEW f \in Found' PROVE f \in Found \cup S
    <3>1. PICK r \in Vectored' : f = <<chunks'[r].doc, chunks'[r].seq, vec'[r].text>>
      BY <2>5 DEF Found
    <3>2. CASE r \in Unchanged(p)
      BY <1>1, <2>2, <3>1, <3>2
    <3>3. CASE r \notin Unchanged(p)
      <4>1. r \in Vectored /\ vec'[r] = vec[r]
        BY <1>1, <2>3, <3>3 DEF Vectored
      <4> QED BY <1>1, <3>1, <4>1 DEF Found
    <3> QED BY <3>2, <3>3
  <2>6. ASSUME NEW f \in Found PROVE f \in Found'
    <3>1. PICK r \in Vectored : f = <<chunks[r].doc, chunks[r].seq, vec[r].text>>
      BY <2>6 DEF Found
    <3>2. r \notin Unchanged(p)
      BY <2>2 DEF Vectored
    <3>3. r \in Vectored' /\ vec'[r] = vec[r]
      BY <1>1, <2>3, <3>2 DEF Vectored
    <3> QED BY <1>1, <3>1, <3>3 DEF Found
  <2>7. ASSUME NEW f \in S PROVE f \in Found'
    <3>1. PICK r \in Unchanged(p) : f = <<chunks[r].doc, chunks[r].seq, chunks[r].text>>
      BY <2>7
    <3> QED BY <1>1, <2>2, <3>1 DEF Found
  <2>8. Found' = Found \cup S
    BY <2>5, <2>6, <2>7
  <2> HIDE DEF S
  <2>9. \E T \in SUBSET all : T \subseteq all /\ Found' = Found \cup T /\ docs' = docs
    BY <1>1, <2>4, <2>8
  <2> HIDE DEF all
  <2>10. \E T \in SUBSET all : Index!Learn(T)
    <3>1. PICK T \in SUBSET all : T \subseteq all /\ Found' = Found \cup T /\ docs' = docs
      BY <2>9
    <3>2. Index!Learn(T)
      BY <3>1 DEF Index!Learn, Found, Vectored, all
    <3> QED BY <3>1, <3>2
  <2> QED BY <2>10 DEF Index!Next, all
<1> QED BY <1>2, <1>3 DEF WriteBatch

LEMMA StepsOfIndex ==
  LockInv /\ ChunksFollowDocument /\ [Next]_vars => [Index!Next]_(Index!vars)
<1> SUFFICES ASSUME LockInv, ChunksFollowDocument, [Next]_vars
             PROVE  Index!Next \/ UNCHANGED Index!vars
  OBVIOUS
<1>1. TypeOK
  BY DEF LockInv
<1>2. ASSUME UNCHANGED <<docs, chunks, vec>> PROVE UNCHANGED Index!vars
  <2>1. docs' = docs /\ Found' = Found
    BY <1>2 DEF Found, Vectored
  <2> QED BY <2>1, FoundIsFound
<1>3. ASSUME NEW p \in Procs,
             Begin(p) \/ Crash(p) \/ OpenIndex(p) \/ EndIndex(p) \/ OpenEmbed(p)
               \/ Ensure(p) \/ CreateSpace(p) \/ SetModel(p) \/ SetDim(p)
               \/ CountMissing(p) \/ ReadBatch(p)
      PROVE  UNCHANGED <<docs, chunks, vec>>
  BY <1>3 DEF Begin, Crash, OpenIndex, EndIndex, OpenEmbed, Ensure, CreateSpace,
              SetModel, SetDim, CountMissing, ReadBatch, corpus, tables
<1>4. ASSUME NEW p \in Procs, NEW d \in Docs, NEW v \in Versions, Upsert(p, d, v)
      PROVE  Index!Next
  BY <1>4, UpsertReplaces DEF Index!Next
<1>5. ASSUME NEW p \in Procs, NEW d \in Docs, DeleteDocument(p, d)
      PROVE  Index!Next
  BY <1>5, DeleteReplaces DEF Index!Next
<1>6. ASSUME NEW p \in Procs, DropSpace(p) PROVE Index!Next
  <2>1. docs' = docs /\ Vectored' = {}
    BY <1>6 DEF DropSpace, tables, Vectored
  <2>2. Found' = {}
    BY <2>1 DEF Found
  <2>3. Index!Forget
    BY <2>1, <2>2 DEF Index!Forget, Found, Vectored
  <2> QED BY <2>3 DEF Index!Next
<1>7. CASE UNCHANGED vars
  BY <1>2, <1>7 DEF vars
<1>8. ASSUME NEW p \in Procs, WriteBatch(p)
      PROVE  Index!Next \/ UNCHANGED Index!vars
  BY <1>1, <1>8, WriteLearns
<1> QED BY <1>2, <1>3, <1>4, <1>5, <1>6, <1>7, <1>8 DEF Next, IndexStep, EmbedStep

LEMMA InitOfIndex == Init => Index!Init
<1> SUFFICES ASSUME Init PROVE Index!Init
  OBVIOUS
<1>1. PICK d \in Docs, v \in Versions, kind \in InitialSpaces :
        /\ Len(ChunksOf[v]) <= MaxRow
        /\ InitTables(d, v, kind = "old") /\ InitSpace(kind)
  BY DEF Init
<1>2. docs \in [Docs -> Versions \cup {None}]
  BY InitType DEF TypeOK
<1>3. CASE NoVectors
  <2>1. Found = {}
    BY <1>3 DEF NoVectors, Found, Vectored
  <2> QED BY <1>2, <2>1 DEF Index!Init, Found, Vectored
<1>4. CASE kind = "old" /\ vec = OldVectors
  <2> DEFINE all == UNION {Index!Passages(e) : e \in Docs}
  <2>1. TypeOK /\ ChunksFollowDocument
    BY InitType, InitFollows
  <2>2. ASSUME NEW r \in Rows
        PROVE  /\ r \in Vectored <=> r \in Embeddable
               /\ r \in Embeddable => vec[r].text = chunks[r].text
    <3>1. CASE r \in Embeddable
      <4>1. vec[r] = [text |-> chunks[r].text, model |-> OldModel]
        BY <1>4, <3>1 DEF OldVectors
      <4>2. chunks[r].text # None /\ NoVec.text = None /\ chunks[r] # NoChunk
        BY <3>1, ConstantsAssumption DEF Embeddable, ConstantsAssumption, NoVec
      <4> QED BY <3>1, <4>1, <4>2 DEF Vectored
    <3>2. CASE r \notin Embeddable
      BY <1>4, <3>2 DEF OldVectors, Vectored
    <3> QED BY <3>1, <3>2
  <2>3. ASSUME NEW f \in Found PROVE f \in all
    <3>1. PICK r \in Vectored : f = <<chunks[r].doc, chunks[r].seq, vec[r].text>>
      BY <2>3 DEF Found
    <3>2. r \in Embeddable /\ vec[r].text = chunks[r].text
      BY <2>2 DEF Vectored
    <3> QED BY <2>1, <3>1, <3>2, RowIsPassage
  <2>4. ASSUME NEW f \in all PROVE f \in Found
    <3>1. PICK e \in Docs : f \in Index!Passages(e)
      BY <2>4
    <3>2. docs[e] # None
      BY <3>1 DEF Index!Passages
    <3>3. PICK i \in DOMAIN ChunksOf[docs[e]] :
            f = <<e, i - 1, ChunksOf[docs[e]][i]>> /\ ChunksOf[docs[e]][i] \in LongTexts
      BY <3>1, <3>2 DEF Index!Passages
    <3>4. Hold(chunks, RowsOf(e), ChunksOf[docs[e]])
      BY <2>1, <3>2, FollowIsHold DEF TextsOf
    <3>5. PICK r \in RowsOf(e) :
            <<chunks[r].seq, chunks[r].text>> = <<i - 1, ChunksOf[docs[e]][i]>>
      <4>1. <<i - 1, ChunksOf[docs[e]][i]>>
              \in {<<j - 1, ChunksOf[docs[e]][j]>> : j \in DOMAIN ChunksOf[docs[e]]}
        OBVIOUS
      <4> QED BY <3>4, <4>1 DEF Hold
    <3>6. r \in Rows /\ chunks[r] # NoChunk /\ chunks[r].doc = e
          /\ chunks[r].seq = i - 1 /\ chunks[r].text = ChunksOf[docs[e]][i]
      BY <3>5 DEF RowsOf
    <3>7. r \in Vectored /\ vec[r].text = chunks[r].text
      BY <2>2, <3>3, <3>6 DEF Embeddable
    <3> QED BY <3>3, <3>6, <3>7 DEF Found
  <2>5. Found = all
    BY <2>3, <2>4
  <2> QED BY <1>2, <2>5 DEF Index!Init, Found, Vectored
<1> QED BY <1>1, <1>3, <1>4 DEF InitSpace, NoVectors

(* One writer at a time, the tables implement SemanticIndex: whatever is   *)
(* replaced, embedded, rebuilt or killed, each hit leads to a passage of   *)
(* its document as it is now, and only a replacement or a rebuild of the   *)
(* vector table takes a passage from the search.                           *)
THEOREM TablesImplementIndex == LockHonoured /\ Spec => ImplementsIndex
<1>1. CASE LockHonoured
  <2>1. Init => LockInv /\ ChunksFollowDocument /\ Index!Init
    BY InitLockInv, InitFollows, InitOfIndex
  <2>2. LockInv /\ ChunksFollowDocument /\ [Next]_vars => (LockInv /\ ChunksFollowDocument)'
    BY <1>1, NextLockInv, NextFollows DEF LockInv
  <2>3. LockInv /\ ChunksFollowDocument /\ [Next]_vars => [Index!Next]_(Index!vars)
    BY StepsOfIndex
  <2> QED BY <2>1, <2>2, <2>3, PTL DEF Spec, ImplementsIndex, Index!Spec
<1>2. CASE ~ LockHonoured
  BY <1>2, PTL
<1> QED BY <1>1, <1>2
=============================================================================
