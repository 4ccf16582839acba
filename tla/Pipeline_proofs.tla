-------------------------- MODULE Pipeline_proofs --------------------------
(***************************************************************************)
(* Proofs about Pipeline, for any documents, commands, overlaps and kills: *)
(* the types, that index never prunes what is still upstream, that the     *)
(* checkpoint vouches for nothing that is missing, that a release is fit   *)
(* to start from.                                                          *)
(***************************************************************************)
EXTENDS Pipeline, TLAPS

(***************************************************************************)
(* The invariant.                                                          *)
(***************************************************************************)

Mirrored == raw \cup overtaken

(* Where a document that a checkpoint covers must be. *)
Accounted == raw \cup db.docs \cup lost \cup overtaken

(* What checkpoints of this kind of source look like. *)
CheckpointOK(ck) ==
  ck # None =>
    /\ kind # "feed"
    /\ ck.live \subseteq Born
    /\ ck.gone \subseteq IF kind = "repo" THEN Deleted ELSE {}
    /\ ck.live \cap ck.gone = {}

CorpusOK(c) == c.docs \subseteq Born /\ CheckpointOK(c.ck)

(* Nothing is held of a document before it appears upstream. *)
BornInv(p) ==
  /\ run[p].tree \subseteq Born /\ run[p].todo \subseteq Born /\ run[p].seen \subseteq Born
  /\ CheckpointOK(run[p].adv)

(* The locked stages are those of the process the lock row names. *)
LockInv(p) == run[p].pc \in {"files", "prune", "embed", "vacuum"} => db.lock = p

(* Unless the flag says so, no document lacks its raw file.                *)
MirrorInv == ~ db.absent => db.docs \cap Live \subseteq Mirrored

(* A walk that will clear the flag is about to make, or has made, that     *)
(* true.                                                                   *)
RebuildInv(p) ==
  /\ run[p].pc = "fetch" /\ kind = "repo"
       => db.docs \cap Live \subseteq Mirrored \cup run[p].tree
  /\ run[p].pc = "fetch" /\ kind = "forum" /\ run[p].opt = "full"
       => db.docs \cap Live \subseteq Mirrored \cup run[p].todo
  /\ run[p].pc \in {"checkpoint", "flag"} /\ MirrorRebuilt(p)
       => db.docs \cap Live \subseteq Mirrored

(* What an index pass has not on its list is not upstream, or is excused.  *)
ListInv(p) ==
  /\ run[p].pc = "files" =>
       /\ db.docs \cap Live \subseteq run[p].seen \cup run[p].excused
       /\ kind = "forum" => run[p].seen \cap Live \subseteq raw
  /\ run[p].pc = "prune" /\ ~ run[p].errors
       => db.docs \cap Live \subseteq run[p].seen \cup run[p].excused

(* What a walk will claim is there, or it has still to fetch it. *)
ClaimInv(p) ==
  /\ run[p].pc = "fetch" /\ kind = "repo"
       => Covered(run[p].adv) \cap Live \subseteq run[p].tree
  /\ run[p].pc = "fetch" /\ kind # "repo"
       => Covered(run[p].adv) \cap Live \subseteq Accounted \cup run[p].todo
  /\ run[p].pc = "checkpoint"
       => Covered(run[p].adv) \cap Live \subseteq Accounted

SharedInv == raw \subseteq Born /\ CorpusOK(db) /\ MirrorInv /\ CheckpointHonest

Own(p) == BornInv(p) /\ LockInv(p) /\ RebuildInv(p) /\ ListInv(p) /\ ClaimInv(p)

IInv == TypeOK /\ SharedInv /\ \A p \in Procs : Own(p)

(* The stages of a publish, and what it has in hand at each. *)
Publishing(p) == run[p].pc \in {"vacuum", "stamp", "compress", "create"}

Sound(c) ==
  /\ c \in Corpora /\ c.docs # {} /\ c.embedded
  /\ kind = "forum" => c.ck # None
  /\ CorpusOK(c)

PublishInv ==
  /\ \A p \in Procs : run[p].cmd = "publish" => Publishing(p)
  /\ \A p \in Procs : run[p].pc = "vacuum" => Sound(db)
  /\ ~ clash =>
       /\ \A p, q \in Procs : Publishing(p) /\ Publishing(q) => p = q
       /\ \A p \in Procs :
            /\ run[p].pc = "stamp" => snap # None /\ Sound(snap)
            /\ run[p].pc = "compress" => snap \in Downloads
            /\ run[p].pc = "create" => art \in Downloads
       /\ release # None => release \in Downloads

(* What an update owes: removals, and documents.  A checkpoint that knows  *)
(* a file as gone is not taken while the file is there.                    *)
GoneInv == /\ raw # {} => mirror
           /\ db.ck # None => db.ck.gone \cap raw \subseteq overtaken

DebtInv(p) ==
  /\ run[p].pc = "tarball" => kind = "repo"
  /\ run[p].pc = "idle" => run[p].owed = {} /\ run[p].due = {}
  /\ run[p].owed \subseteq Deleted \cup Delisted /\ run[p].due \subseteq Born
  /\ run[p].owed # {} => kind # "feed" /\ ~ db.absent
  /\ run[p].owed # {} \/ run[p].due # {} => run[p].opt = "plain"

(* What stands between a deleted document and the corpus. *)
RemovalInv(p) ==
  /\ kind = "repo" /\ run[p].adv # None =>
       /\ run[p].pc = "fetch" => run[p].tree \cap run[p].adv.gone = {}
       /\ run[p].pc = "checkpoint" => run[p].adv.gone \cap raw \subseteq overtaken
  /\ run[p].pc = "fetch" /\ kind = "repo" => run[p].tree \cap run[p].owed = {}
  /\ run[p].pc = "fetch" /\ kind # "repo"
       => run[p].owed \cap raw \subseteq Delisted \cup overtaken \cup run[p].todo
  /\ run[p].pc \in {"checkpoint", "flag", "lock"} /\ run[p].ok
       => run[p].owed \cap raw \subseteq Delisted \cup overtaken
  /\ run[p].pc \in {"files", "prune"} /\ run[p].ok
       => run[p].owed \cap run[p].seen \subseteq Delisted \cup run[p].behind
  /\ run[p].pc = "embed" /\ run[p].ok
       => run[p].owed \cap db.docs \subseteq Delisted \cup run[p].behind

(* Where a document that was upstream is, on its way to the corpus. *)
DeliveryInv(p) ==
  /\ run[p].pc = "fetch" /\ kind # "repo"
       => mirror /\ run[p].due \cap Live \subseteq Accounted \cup run[p].todo
  /\ run[p].pc = "fetch" /\ kind = "repo" => run[p].due \cap Live \subseteq run[p].tree
  /\ run[p].pc \in {"checkpoint", "flag", "lock"} /\ run[p].ok
       => run[p].due \cap Live \subseteq Accounted
  /\ run[p].pc = "files" /\ run[p].ok
       => run[p].due \cap Live \subseteq run[p].seen \cup db.docs
  /\ run[p].pc = "prune" /\ run[p].ok /\ ~ run[p].errors
       => run[p].due \cap Live \subseteq db.docs
  /\ run[p].pc = "embed" /\ run[p].ok
       => run[p].due \cap Live \subseteq db.docs \cup run[p].excused

Duty(p) == DebtInv(p) /\ RemovalInv(p) /\ DeliveryInv(p)

DutyInv == GoneInv /\ \A p \in Procs : Duty(p)

(***************************************************************************)
(* Types.                                                                  *)
(***************************************************************************)

LEMMA IdleType == Idle \in Runs
BY PipelineAssumption DEF Idle, Runs, Stages, Options, Checkpoints, Heads, PipelineAssumption

LEMMA FieldsOf ==
  ASSUME NEW r \in Runs
  PROVE  /\ r.pc \in Stages /\ r.cmd \in {"sync", "update", "index", "publish"}
         /\ r.opt \in Options /\ r.adv \in Checkpoints
         /\ r.ok \in BOOLEAN /\ r.flag \in BOOLEAN /\ r.errors \in BOOLEAN
         /\ r.tree \subseteq Docs /\ r.todo \subseteq Docs /\ r.seen \subseteq Docs
         /\ r.owed \subseteq Docs /\ r.behind \subseteq Docs /\ r.due \subseteq Docs /\ r.excused \subseteq Docs
BY DEF Runs

(* A process moves to another step, or begins. *)
LEMMA StepType ==
  ASSUME TypeOK, NEW p \in Procs, NEW r \in Runs, Step(p, r),
         ~ At(p, "idle") \/ started < MaxRuns
  PROVE  /\ run' \in [Procs -> Runs] /\ started' \in 0 .. MaxRuns
         /\ run'[p] = r /\ \A q \in Procs \ {p} : run'[q] = run[q]
<1>1. run' = [run EXCEPT ![p] = r] /\ run \in [Procs -> Runs]
  BY DEF TypeOK, Step
<1>2. started' \in 0 .. MaxRuns
  BY PipelineAssumption DEF TypeOK, Step, PipelineAssumption
<1> QED BY <1>1, <1>2

LEMMA CorpusType ==
  ASSUME NEW c \in Corpora
  PROVE  /\ c.docs \subseteq Docs /\ c.embedded \in BOOLEAN /\ c.ck \in Checkpoints
         /\ c.absent \in BOOLEAN /\ c.lock \in Procs \cup {None}
BY DEF Corpora

LEMMA LiveType ==
  Live \subseteq Docs /\ Deleted \subseteq Docs /\ Delisted \subseteq Docs
BY DEF Live, Deleted, Delisted

LEMMA RepoHeadType == RepoHead \in Checkpoints
BY LiveType DEF RepoHead, Checkpoints, Heads

LEMMA HeadType == TypeOK => Head \in Checkpoints
<1> SUFFICES ASSUME TypeOK PROVE Head \in Checkpoints
  OBVIOUS
<1>1. [live |-> Live, gone |-> {}] \in Checkpoints /\ None \in Checkpoints
  BY LiveType DEF Checkpoints, Heads
<1> QED BY <1>1, RepoHeadType, PipelineAssumption DEF Head, ForumHead, TypeOK, PipelineAssumption

LEMMA InitType == Init => TypeOK
<1> SUFFICES ASSUME Init PROVE TypeOK
  OBVIOUS
<1>1. NewCorpus \in Corpora
  BY PipelineAssumption DEF NewCorpus, Corpora, Checkpoints, Heads, PipelineAssumption
<1>2. db \in Corpora
  BY <1>1 DEF Init, Downloads
<1>3. lost \subseteq Docs
  BY <1>2 DEF Init, Covered, Corpora, Checkpoints, Heads
<1>4. run \in [Procs -> Runs] /\ started \in 0 .. MaxRuns
  BY IdleType, PipelineAssumption DEF Init, PipelineAssumption
<1>5. /\ kind \in Sources /\ world \in [Docs -> {"unborn", "live", "deleted", "delisted"}]
      /\ raw \in SUBSET Docs /\ mirror \in BOOLEAN
      /\ snap \in Corpora \cup {None} /\ art \in Corpora \cup {None}
      /\ release \in Corpora \cup {None}
      /\ overtaken \in SUBSET Docs /\ clash \in BOOLEAN
  BY DEF Init
<1> QED BY <1>2, <1>3, <1>4, <1>5 DEF TypeOK

LEMMA UpstreamType ==
  ASSUME TypeOK, NEW d \in Docs, Upstream(d)
  PROVE  TypeOK'
BY DEF TypeOK, Upstream, machine, output, history

LEMMA BeginSyncType ==
  ASSUME TypeOK, NEW p \in Procs, NEW cmd \in {"sync", "update"},
         NEW opt \in OptionsOf(kind), BeginSync(p, cmd, opt)
  PROVE  TypeOK'
<1> DEFINE r == [Idle EXCEPT
                   !.cmd = cmd, !.opt = opt, !.flag = db.absent,
                   !.owed = IF cmd = "update" /\ kind # "feed" /\ ~ db.absent
                              THEN Deleted \cup Delisted ELSE {},
                   !.due = IF cmd = "update" THEN Live ELSE {}]
           todo == IF kind = "forum" THEN ForumTodo(cmd, opt) ELSE Live \ raw
           s == IF Shortcut(opt) THEN [r EXCEPT !.pc = "checkpoint"]
                ELSE IF kind = "repo" THEN [r EXCEPT !.pc = "tarball", !.adv = Head]
                ELSE [r EXCEPT !.pc = "fetch", !.adv = Head, !.todo = todo]
<1>1. opt \in Options
  BY PipelineAssumption DEF TypeOK, Options, OptionsOf, PipelineAssumption
<1>2. r \in Runs
  BY <1>1, IdleType, LiveType, CorpusType DEF Runs, TypeOK
<1>3. todo \subseteq Docs
  BY LiveType DEF ForumTodo, TypeOK
<1> HIDE DEF r, todo
<1>4. s \in Runs
  <2>1. [r EXCEPT !.pc = "checkpoint"] \in Runs
    BY <1>2 DEF Runs, Stages
  <2>2. [r EXCEPT !.pc = "tarball", !.adv = Head] \in Runs
    BY <1>2, HeadType DEF Runs, Stages
  <2>3. [r EXCEPT !.pc = "fetch", !.adv = Head, !.todo = todo] \in Runs
    BY <1>2, <1>3, HeadType DEF Runs, Stages
  <2> QED BY <2>1, <2>2, <2>3
<1> USE DEF r, todo
<1>5. Step(p, s) /\ started < MaxRuns
  BY DEF BeginSync, Starts
<1>6. run' \in [Procs -> Runs] /\ started' \in 0 .. MaxRuns
  BY <1>4, <1>5, StepType
<1>7. mirror' \in BOOLEAN /\ UNCHANGED <<kind, world, raw, db, output, history>>
  BY DEF BeginSync, TypeOK
<1> QED BY <1>6, <1>7 DEF TypeOK, output, history

LEMMA FetchedType ==
  ASSUME TypeOK, NEW p \in Procs, NEW got \in SUBSET Docs, NEW slid \in SUBSET Docs,
         Fetched(p, got, slid)
  PROVE  raw' \subseteq Docs /\ lost' \subseteq Docs /\ overtaken' \subseteq Docs
BY LiveType DEF TypeOK, Fetched

LEMMA AfterSyncType ==
  ASSUME TypeOK, NEW p \in Procs, NEW ok \in BOOLEAN
  PROVE  AfterSync(p, ok) \in Runs
<1>1. run[p].owed \subseteq Docs /\ run[p].due \subseteq Docs
  BY FieldsOf DEF TypeOK
<1> DEFINE next == [Idle EXCEPT !.pc = "lock", !.cmd = "update", !.ok = ok,
                                !.owed = run[p].owed, !.due = run[p].due]
<1>2. next \in Runs
  BY <1>1, IdleType DEF Runs, Stages
<1> HIDE DEF next
<1>3. AfterSync(p, ok) \in {Idle, next}
  BY DEF AfterSync, next
<1> QED BY <1>2, <1>3, IdleType

LEMMA WalkType ==
  ASSUME TypeOK, NEW p \in Procs,
         EndWalk(p) \/ EndRepo(p) \/ EndLimited(p) \/ SyncFails(p)
  PROVE  TypeOK'
<1>1. run[p] \in Runs /\ run[p].todo \subseteq Docs /\ run[p].tree \subseteq Docs
      /\ run[p].adv \in Checkpoints
  BY FieldsOf DEF TypeOK
<1>2. ASSUME NEW r \in Runs, Step(p, r), ~ At(p, "idle"), mirror' \in BOOLEAN,
             raw' \subseteq Docs, lost' \subseteq Docs, overtaken' \subseteq Docs,
             UNCHANGED <<kind, world, db, output, clash>>
      PROVE  TypeOK'
  <2>1. run' \in [Procs -> Runs] /\ started' \in 0 .. MaxRuns
    BY <1>2, StepType
  <2> QED BY <2>1, <1>2 DEF TypeOK, output
<1>3. CASE EndWalk(p)
  <2>1. PICK slid \in IF kind = "forum" THEN SUBSET (run[p].todo \ Delisted) ELSE {{}} :
             /\ Fetched(p, run[p].todo \ slid, slid)
             /\ Step(p, [run[p] EXCEPT !.pc = "checkpoint", !.todo = {},
                                       !.adv = Slid(run[p].adv, slid)])
    BY <1>3 DEF EndWalk
  <2>2. slid \subseteq Docs
    BY <1>1
  <2>3. Slid(run[p].adv, slid) \in Checkpoints
    BY <1>1, PipelineAssumption DEF Slid, Checkpoints, Heads, PipelineAssumption
  <2>4. [run[p] EXCEPT !.pc = "checkpoint", !.todo = {}, !.adv = Slid(run[p].adv, slid)] \in Runs
    BY <1>1, <2>3 DEF Runs, Stages
  <2>5. raw' \subseteq Docs /\ lost' \subseteq Docs /\ overtaken' \subseteq Docs
    BY <1>1, <2>1, <2>2, FetchedType
  <2>6. ~ At(p, "idle") /\ mirror' = mirror /\ UNCHANGED <<kind, world, db, output, clash>>
    BY <1>3 DEF EndWalk, At
  <2> QED BY <2>1, <2>4, <2>5, <2>6, <1>2 DEF TypeOK
<1>4. CASE EndRepo(p)
  <2>1. [run[p] EXCEPT !.pc = "checkpoint", !.todo = {}, !.tree = {}] \in Runs
    BY <1>1 DEF Runs, Stages
  <2>2. raw' \subseteq Docs /\ lost' \subseteq Docs /\ overtaken' \subseteq Docs
    BY <1>1, <1>4, LiveType DEF EndRepo, TypeOK
  <2>3. ~ At(p, "idle") /\ mirror' \in BOOLEAN /\ UNCHANGED <<kind, world, db, output, clash>>
    BY <1>4 DEF EndRepo, At, TypeOK
  <2>4. Step(p, [run[p] EXCEPT !.pc = "checkpoint", !.todo = {}, !.tree = {}])
    BY <1>4 DEF EndRepo
  <2> QED BY <2>1, <2>2, <2>3, <2>4, <1>2
<1>5. CASE EndLimited(p)
  <2>1. PICK got \in SUBSET run[p].todo : Fetched(p, got, {}) /\ mirror' = (mirror \/ got # {})
    BY <1>5 DEF EndLimited
  <2>2. [run[p] EXCEPT !.pc = "checkpoint", !.adv = None, !.todo = {}, !.tree = {}] \in Runs
    BY <1>1 DEF Runs, Stages, Checkpoints, Heads
  <2>3. raw' \subseteq Docs /\ lost' \subseteq Docs /\ overtaken' \subseteq Docs
    BY <1>1, <2>1, FetchedType
  <2>4. ~ At(p, "idle") /\ mirror' \in BOOLEAN /\ UNCHANGED <<kind, world, db, output, clash>>
    BY <1>5, <2>1 DEF EndLimited, At, TypeOK
  <2>5. Step(p, [run[p] EXCEPT !.pc = "checkpoint", !.adv = None, !.todo = {}, !.tree = {}])
    BY <1>5 DEF EndLimited
  <2> QED BY <2>2, <2>3, <2>4, <2>5, <1>2
<1>6. CASE SyncFails(p)
  <2>1. PICK got \in SUBSET run[p].todo : Fetched(p, got, {}) /\ mirror' = (mirror \/ got # {})
    BY <1>6 DEF SyncFails
  <2>2. AfterSync(p, FALSE) \in Runs
    BY AfterSyncType
  <2>3. raw' \subseteq Docs /\ lost' \subseteq Docs /\ overtaken' \subseteq Docs
    BY <1>1, <2>1, FetchedType
  <2>4. ~ At(p, "idle") /\ mirror' \in BOOLEAN /\ UNCHANGED <<kind, world, db, output, clash>>
    BY <1>6, <2>1 DEF SyncFails, At, TypeOK
  <2>5. Step(p, AfterSync(p, FALSE))
    BY <1>6 DEF SyncFails
  <2> QED BY <2>2, <2>3, <2>4, <2>5, <1>2
<1> QED BY <1>3, <1>4, <1>5, <1>6

LEMMA CheckpointType ==
  ASSUME TypeOK, NEW p \in Procs, Tarball(p) \/ RecordCheckpoint(p) \/ ClearFlag(p)
  PROVE  TypeOK'
<1>1. run[p] \in Runs /\ run[p].todo \subseteq Docs /\ run[p].ok \in BOOLEAN
      /\ run[p].adv \in Checkpoints
  BY FieldsOf DEF TypeOK
<1>2. ASSUME NEW r \in Runs, Step(p, r), ~ At(p, "idle"), db' \in Corpora,
             UNCHANGED <<kind, world, raw, mirror, output, history>>
      PROVE  TypeOK'
  <2>1. run' \in [Procs -> Runs] /\ started' \in 0 .. MaxRuns
    BY <1>2, StepType
  <2> QED BY <2>1, <1>2 DEF TypeOK, output, history
<1>3. CASE Tarball(p)
  <2>1. [run[p] EXCEPT !.pc = "fetch", !.tree = Live, !.todo = Live \ raw] \in Runs
    BY <1>1, LiveType DEF Runs, Stages
  <2> QED BY <2>1, <1>3, <1>2 DEF Tarball, At, machine, TypeOK
<1>4. CASE RecordCheckpoint(p)
  <2>1. [run[p] EXCEPT !.pc = "flag"] \in Runs
        /\ [run[p] EXCEPT !.pc = "flag", !.ok = FALSE] \in Runs
    BY <1>1 DEF Runs, Stages
  <2>2. db \in Corpora /\ [db EXCEPT !.ck = run[p].adv] \in Corpora
    BY <1>1 DEF TypeOK, Corpora
  <2>3. ~ At(p, "idle") /\ db' \in Corpora /\ UNCHANGED <<kind, world, raw, mirror, output, history>>
    BY <1>4, <2>2 DEF RecordCheckpoint, At
  <2>4. \/ Step(p, [run[p] EXCEPT !.pc = "flag"])
        \/ Step(p, [run[p] EXCEPT !.pc = "flag", !.ok = FALSE])
    BY <1>4 DEF RecordCheckpoint, Goto
  <2> QED BY <2>1, <2>3, <2>4, <1>2
<1>5. CASE ClearFlag(p)
  <2>1. AfterSync(p, run[p].ok) \in Runs /\ AfterSync(p, FALSE) \in Runs
    BY <1>1, AfterSyncType
  <2>2. db \in Corpora /\ [db EXCEPT !.absent = FALSE] \in Corpora
    BY DEF TypeOK, Corpora
  <2>3. ~ At(p, "idle") /\ db' \in Corpora /\ UNCHANGED <<kind, world, raw, mirror, output, history>>
    BY <1>5, <2>2 DEF ClearFlag, At
  <2>4. Step(p, AfterSync(p, run[p].ok)) \/ Step(p, AfterSync(p, FALSE))
    BY <1>5 DEF ClearFlag
  <2> QED BY <2>1, <2>3, <2>4, <1>2
<1> QED BY <1>3, <1>4, <1>5

LEMMA UnlockedType ==
  ASSUME TypeOK, NEW p \in Procs
  PROVE  /\ Unlocked(p) \in Corpora
         /\ Unlocked(p).docs = db.docs /\ Unlocked(p).embedded = db.embedded
         /\ Unlocked(p).ck = db.ck /\ Unlocked(p).absent = db.absent
         /\ db.lock # p => Unlocked(p).lock = db.lock
BY DEF TypeOK, Unlocked, Corpora

LEMMA IndexType ==
  ASSUME TypeOK, NEW p \in Procs, IndexStep(p)
  PROVE  TypeOK'
<1>1. run[p] \in Runs /\ run[p].seen \subseteq Docs /\ run[p].excused \subseteq Docs
      /\ run[p].owed \subseteq Docs /\ run[p].behind \subseteq Docs
      /\ run[p].due \subseteq Docs /\ run[p].ok \in BOOLEAN
      /\ run[p].errors \in BOOLEAN
  BY FieldsOf DEF TypeOK
<1>2. ASSUME NEW r \in Runs, Step(p, r), ~ At(p, "idle") \/ started < MaxRuns, db' \in Corpora,
             UNCHANGED <<kind, world, raw, mirror, output, history>>
      PROVE  TypeOK'
  <2>1. run' \in [Procs -> Runs] /\ started' \in 0 .. MaxRuns
    BY <1>2, StepType
  <2> QED BY <2>1, <1>2 DEF TypeOK, output, history
<1>3. CASE ListRawFiles(p)
  <2> DEFINE cmd == IF At(p, "lock") THEN "update" ELSE "index"
             behind == IF cmd = "index" THEN {} ELSE IF mirror THEN overtaken ELSE Docs
             r == [run[p] EXCEPT !.cmd = cmd, !.behind = behind,
                                 !.due = run[p].due \ (overtaken \cup lost)]
             listed == [r EXCEPT !.pc = "files", !.seen = raw,
                                 !.excused = IF db.absent THEN Docs ELSE overtaken]
  <2>1. r \in Runs
    <3>1. behind \subseteq Docs
      BY DEF TypeOK
    <3> HIDE DEF behind
    <3> QED BY <1>1, <3>1 DEF Runs
  <2> HIDE DEF r
  <2>2. listed \in Runs
    BY <2>1 DEF Runs, Stages, TypeOK
  <2>3. \A ok \in {r.ok, FALSE} : [r EXCEPT !.pc = "embed", !.ok = ok] \in Runs
    BY <2>1 DEF Runs, Stages
  <2> USE DEF r
  <2>4. db' \in Corpora /\ (~ At(p, "idle") \/ started < MaxRuns)
        /\ UNCHANGED <<kind, world, raw, mirror, output, history>>
    BY <1>3 DEF ListRawFiles, Starts, At, TypeOK, Corpora
  <2>5. \/ Step(p, listed)
        \/ \E ok \in {r.ok, FALSE} : Step(p, [r EXCEPT !.pc = "embed", !.ok = ok])
    BY <1>3, Zenon DEF ListRawFiles
  <2> HIDE DEF r, listed
  <2> QED BY <2>2, <2>3, <2>4, <2>5, <1>2
<1>4. CASE IndexFiles(p)
  <2>1. PICK bad \in SUBSET run[p].seen :
          LET good == (run[p].seen \cap raw) \ bad
          IN  /\ db' = [db EXCEPT !.docs = db.docs \cup good,
                                  !.embedded = db.embedded /\ good \subseteq db.docs]
              /\ Step(p, [run[p] EXCEPT
                            !.pc = "prune", !.seen = good,
                            !.errors = bad # {} \/ (kind # "forum" /\ ~ run[p].seen \subseteq raw)])
    BY <1>4 DEF IndexFiles
  <2> DEFINE good == (run[p].seen \cap raw) \ bad
             errors == bad # {} \/ (kind # "forum" /\ ~ run[p].seen \subseteq raw)
  <2>2. good \subseteq Docs /\ errors \in BOOLEAN
    BY <1>1
  <2> HIDE DEF good, errors
  <2>3. [run[p] EXCEPT !.pc = "prune", !.seen = good, !.errors = errors] \in Runs
    BY <1>1, <2>2 DEF Runs, Stages
  <2>4. [db EXCEPT !.docs = db.docs \cup good, !.embedded = db.embedded /\ good \subseteq db.docs]
          \in Corpora
    BY <2>2 DEF TypeOK, Corpora
  <2>5. ~ At(p, "idle") /\ UNCHANGED <<kind, world, raw, mirror, output, history>>
    BY <1>4 DEF IndexFiles, At
  <2> QED BY <2>1, <2>3, <2>4, <2>5, <1>2 DEF good, errors
<1>5. CASE Prune(p)
  <2> DEFINE corpus == [db EXCEPT !.docs = @ \cap (IF Prunes(p) THEN run[p].seen ELSE Docs)]
             next == [Idle EXCEPT !.pc = "embed", !.cmd = "update",
                        !.ok = run[p].ok /\ ~ run[p].errors,
                        !.owed = run[p].owed, !.behind = run[p].behind,
                        !.due = run[p].due,
                        !.excused = Idle.excused \cup (run[p].excused \cap (db.docs \ corpus.docs))]
  <2>1. corpus \in Corpora
    BY DEF TypeOK, Corpora
  <2>2. [corpus EXCEPT !.lock = None] \in Corpora
    BY <2>1 DEF Corpora
  <2>3. EndIndex(p, corpus)
    BY <1>5, Zenon DEF Prune
  <2>4. ~ At(p, "idle") /\ UNCHANGED <<kind, world, raw, mirror, output, history>>
    BY <1>5 DEF Prune, At
  <2> HIDE DEF corpus
  <2>5. next \in Runs
    BY <1>1, IdleType DEF Runs, Stages
  <2>6. db' \in Corpora /\ (Step(p, next) \/ Step(p, Idle))
    BY <2>1, <2>2, <2>3 DEF EndIndex, Leave
  <2> HIDE DEF next
  <2> QED BY <2>4, <2>5, <2>6, IdleType, <1>2
<1>6. CASE Embed(p)
  <2>1. db' \in Corpora
    BY <1>6, UnlockedType DEF Embed, TypeOK, Corpora
  <2> QED BY <2>1, <1>6, IdleType, <1>2 DEF Embed, Leave, At
<1> QED BY <1>3, <1>4, <1>5, <1>6 DEF IndexStep

LEMMA KillType ==
  ASSUME TypeOK, NEW p \in Procs, LockRefused(p) \/ Kill(p)
  PROVE  TypeOK'
<1>1. Step(p, Idle) /\ ~ At(p, "idle") /\ UNCHANGED <<kind, world, raw, mirror, release, history>>
  BY DEF LockRefused, Kill, Leave, At, machine, output
<1>2. run' \in [Procs -> Runs] /\ started' \in 0 .. MaxRuns
  BY <1>1, IdleType, StepType
<1>3. db' \in Corpora /\ snap' \in Corpora \cup {None} /\ art' \in Corpora \cup {None}
  BY UnlockedType DEF LockRefused, Kill, machine, output, TypeOK
<1> QED BY <1>1, <1>2, <1>3 DEF TypeOK, history

LEMMA StampedType ==
  /\ NewCorpus \in Corpora
  /\ \A c \in Corpora : /\ Stamped(c) \in Corpora
                       /\ Stamped(c).docs = c.docs /\ Stamped(c).embedded = c.embedded
                       /\ Stamped(c).ck = c.ck
                       /\ Stamped(c).absent /\ Stamped(c).lock = None
<1>1. NewCorpus \in Corpora
  BY PipelineAssumption DEF NewCorpus, Corpora, Checkpoints, Heads, PipelineAssumption
<1>2. ASSUME NEW c \in Corpora
      PROVE  /\ Stamped(c) \in Corpora
             /\ Stamped(c).docs = c.docs /\ Stamped(c).embedded = c.embedded
             /\ Stamped(c).ck = c.ck
             /\ Stamped(c).absent /\ Stamped(c).lock = None
  BY DEF Stamped, Corpora
<1> QED BY <1>1, <1>2


LEMMA PublishType ==
  ASSUME TypeOK, NEW p \in Procs, PublishStep(p)
  PROVE  TypeOK'
<1>1. run[p] \in Runs
  BY DEF TypeOK
<1>2. ASSUME NEW r \in Runs, Step(p, r), ~ At(p, "idle") \/ started < MaxRuns, db' \in Corpora,
             snap' \in Corpora \cup {None}, art' \in Corpora \cup {None},
             release' \in Corpora \cup {None}, clash' \in BOOLEAN,
             UNCHANGED <<kind, world, raw, mirror, lost, overtaken>>
      PROVE  TypeOK'
  <2>1. run' \in [Procs -> Runs] /\ started' \in 0 .. MaxRuns
    BY <1>2, StepType
  <2> QED BY <2>1, <1>2 DEF TypeOK
<1>3. \A s \in Stages : [run[p] EXCEPT !.pc = s] \in Runs
  BY <1>1 DEF Runs
<1>4. CASE BeginPublish(p)
  <2>1. [Idle EXCEPT !.pc = "vacuum", !.cmd = "publish"] \in Runs
    BY IdleType DEF Runs, Stages
  <2>2. db' \in Corpora /\ snap' = None /\ art' = None /\ release' = release
    BY <1>4 DEF BeginPublish, TypeOK, Corpora
  <2>3. clash' \in BOOLEAN /\ started < MaxRuns
        /\ UNCHANGED <<kind, world, raw, mirror, lost, overtaken>>
        /\ Step(p, [Idle EXCEPT !.pc = "vacuum", !.cmd = "publish"])
    BY <1>4 DEF BeginPublish, Starts, TypeOK
  <2>4. release' \in Corpora \cup {None}
    BY <2>2 DEF TypeOK
  <2> QED BY <2>1, <2>2, <2>3, <2>4, <1>2
<1>5. CASE Vacuum(p)
  <2>1. Step(p, [run[p] EXCEPT !.pc = "stamp"]) \/ Step(p, Idle)
    BY <1>5 DEF Vacuum, Goto, Leave
  <2>2. db' \in Corpora /\ snap' \in Corpora \cup {None}
    BY <1>5, UnlockedType DEF Vacuum, TypeOK
  <2>3. /\ ~ At(p, "idle") /\ art' \in Corpora \cup {None} /\ release' \in Corpora \cup {None}
        /\ clash' \in BOOLEAN /\ UNCHANGED <<kind, world, raw, mirror, lost, overtaken>>
    BY <1>5 DEF Vacuum, At, TypeOK, history
  <2>4. [run[p] EXCEPT !.pc = "stamp"] \in Runs
    BY <1>3 DEF Stages
  <2> QED BY <2>1, <2>2, <2>3, <2>4, <1>2, IdleType
<1>6. CASE Stamp(p)
  <2>1. Step(p, [run[p] EXCEPT !.pc = "compress"]) /\ [run[p] EXCEPT !.pc = "compress"] \in Runs
    BY <1>6, <1>3 DEF Stamp, Goto, Stages
  <2>2. snap' \in Corpora
    BY <1>6, StampedType DEF Stamp, TypeOK
  <2>3. /\ ~ At(p, "idle") /\ art' \in Corpora \cup {None} /\ release' \in Corpora \cup {None}
        /\ db' \in Corpora
        /\ clash' \in BOOLEAN /\ UNCHANGED <<kind, world, raw, mirror, lost, overtaken>>
    BY <1>6 DEF Stamp, At, TypeOK, history, machine
  <2> QED BY <2>1, <2>2, <2>3, <1>2
<1>7. CASE Compress(p)
  <2>1. Step(p, [run[p] EXCEPT !.pc = "create"]) \/ Step(p, Idle)
    BY <1>7 DEF Compress, Goto, Leave
  <2>2. snap' \in Corpora \cup {None} /\ art' \in Corpora \cup {None}
    BY <1>7 DEF Compress, TypeOK
  <2>3. /\ ~ At(p, "idle") /\ db' \in Corpora /\ release' \in Corpora \cup {None}
        /\ clash' \in BOOLEAN /\ UNCHANGED <<kind, world, raw, mirror, lost, overtaken>>
    BY <1>7 DEF Compress, At, TypeOK, history, machine
  <2>4. [run[p] EXCEPT !.pc = "create"] \in Runs
    BY <1>3 DEF Stages
  <2> QED BY <2>1, <2>2, <2>3, <2>4, <1>2, IdleType
<1>8. CASE CreateRelease(p)
  <2>1. Step(p, Idle)
    BY <1>8 DEF CreateRelease, Leave
  <2>2. snap' \in Corpora \cup {None} /\ art' \in Corpora \cup {None}
        /\ release' \in Corpora \cup {None}
    BY <1>8 DEF CreateRelease, TypeOK
  <2>3. /\ ~ At(p, "idle") /\ db' \in Corpora
        /\ clash' \in BOOLEAN /\ UNCHANGED <<kind, world, raw, mirror, lost, overtaken>>
    BY <1>8 DEF CreateRelease, At, TypeOK, history, machine
  <2> QED BY <2>1, <2>2, <2>3, <1>2, IdleType
<1> QED BY <1>4, <1>5, <1>6, <1>7, <1>8 DEF PublishStep

LEMMA NextType == TypeOK /\ [Next]_vars => TypeOK'
<1> SUFFICES ASSUME TypeOK, [Next]_vars PROVE TypeOK'
  OBVIOUS
<1>1. CASE UNCHANGED vars
  BY <1>1 DEF TypeOK, vars
<1>2. ASSUME NEW d \in Docs, Upstream(d) PROVE TypeOK'
  BY <1>2, UpstreamType
<1>3. ASSUME NEW p \in Procs, SyncStep(p) PROVE TypeOK'
  BY <1>3, BeginSyncType, WalkType, CheckpointType DEF SyncStep
<1>4. ASSUME NEW p \in Procs, LockRefused(p) \/ Kill(p) \/ IndexStep(p) \/ PublishStep(p)
      PROVE  TypeOK'
  BY <1>4, KillType, IndexType, PublishType
<1> QED BY <1>1, <1>2, <1>3, <1>4 DEF Next

(* Every variable stays within its type: no step of any command leaves one *)
(* of its fields undefined (Pipeline's TypeOK).                            *)
THEOREM TypeCorrect == Spec => []TypeOK
<1>1. Init => TypeOK
  BY InitType
<1>2. TypeOK /\ [Next]_vars => TypeOK'
  BY NextType
<1> QED BY <1>1, <1>2, PTL DEF Spec

(***************************************************************************)
(* What every step leaves alone.                                           *)
(***************************************************************************)

(* A step brings no document back, forgets none that is live, adds to the  *)
(* corpus what is in a raw file, and clears the flag or records a          *)
(* checkpoint with reason.                                                 *)
Frame ==
  /\ kind' = kind
  /\ Live' \cap Born \subseteq Live
  /\ Born \subseteq Born' /\ Deleted \subseteq Deleted' /\ Delisted \subseteq Delisted'
  /\ raw' \subseteq Born
  /\ Mirrored \cap Live' \subseteq Mirrored'
  /\ kind = "forum" => raw \cap Live' \subseteq raw'
  /\ Accounted \cap Live' \subseteq Accounted'
  /\ db'.docs \subseteq db.docs \cup raw'
  /\ CheckpointOK(db'.ck) /\ Covered(db'.ck) \cap Live \subseteq Accounted
  /\ db'.absent \/ ~ db.absent \/ db.docs \cap Live \subseteq Mirrored

LEMMA LiveBorn == Live \subseteq Born /\ Deleted \subseteq Born
BY DEF Born, Live, Deleted

(* What a checkpoint covers stays born. *)
LEMMA CheckpointKept ==
  ASSUME Frame, NEW ck, CheckpointOK(ck)
  PROVE  /\ (ck # None => /\ kind' # "feed" /\ ck.live \subseteq Born'
                          /\ ck.gone \subseteq (IF kind' = "repo" THEN Deleted' ELSE {})
                          /\ ck.live \cap ck.gone = {})
         /\ Covered(ck) \subseteq Born
<1>1. kind' = kind /\ Born \subseteq Born' /\ Deleted \subseteq Deleted'
  BY DEF Frame
<1> QED BY <1>1 DEF CheckpointOK, Covered

LEMMA SharedKept ==
  ASSUME IInv, TypeOK', Frame
  PROVE  SharedInv'
<1>1. raw \subseteq Born /\ db.docs \subseteq Born /\ CheckpointOK(db.ck) /\ MirrorInv
  BY DEF IInv, SharedInv, CorpusOK
<1>2. raw' \subseteq Born'
  BY DEF Frame
<1>3. CorpusOK(db)'
  <2>1. db'.docs \subseteq Born'
    BY <1>1, <1>2 DEF Frame
  <2>2. CheckpointOK(db.ck)'
    <3>1. CheckpointOK(db'.ck)
      BY DEF Frame
    <3> QED BY <3>1, CheckpointKept DEF CheckpointOK
  <2> QED BY <2>1, <2>2 DEF CorpusOK
<1>4. MirrorInv'
  <2> SUFFICES ASSUME ~ db'.absent, NEW d \in db'.docs, d \in Live' PROVE d \in Mirrored'
    BY DEF MirrorInv
  <2>1. d \in db.docs \/ d \in raw'
    BY DEF Frame
  <2>2. CASE d \in raw'
    BY <2>2 DEF Mirrored
  <2>3. CASE d \in db.docs
    <3>1. d \in Live
      BY <2>3, <1>1 DEF Frame
    <3>2. db.docs \cap Live \subseteq Mirrored
      BY <1>1 DEF Frame, MirrorInv
    <3> QED BY <2>3, <3>1, <3>2 DEF Frame
  <2> QED BY <2>1, <2>2, <2>3
<1>5. CheckpointHonest'
  <2> SUFFICES ASSUME NEW d \in Covered(db'.ck), d \in Live' PROVE d \in Accounted'
    BY DEF CheckpointHonest, Accounted, Covered
  <2>1. d \in Born
    BY CheckpointKept DEF Frame
  <2>2. d \in Live /\ d \in Accounted
    BY <2>1 DEF Frame
  <2> QED BY <2>2 DEF Frame
<1> QED BY <1>2, <1>3, <1>4, <1>5 DEF SharedInv

(* A process that does not move keeps its part, whatever another one does, *)
(* for its documents are locked while it needs them.                       *)
LEMMA OwnKept ==
  ASSUME IInv, TypeOK', Frame, NEW q \in Procs, run'[q] = run[q],
         db'.docs = db.docs \/ db.lock # q, db'.lock = db.lock \/ db.lock # q
  PROVE  Own(q)'
<1>1. Own(q) /\ raw \subseteq Born /\ db.docs \subseteq Born /\ run[q] \in Runs
  BY DEF IInv, SharedInv, CorpusOK, TypeOK
<1> DEFINE r == run[q]
<1>2. run'[q] = r
  OBVIOUS
<1>3. /\ r.tree \subseteq Born /\ r.todo \subseteq Born /\ r.seen \subseteq Born
      /\ CheckpointOK(r.adv)
      /\ (r.pc \in {"files", "prune", "embed", "vacuum"} => db.lock = q)
  BY <1>1 DEF Own, BornInv, LockInv
<1>4. RebuildInv(q) /\ ListInv(q) /\ ClaimInv(q)
  BY <1>1 DEF Own
<1>5. kind' = kind
  BY DEF Frame
<1>6. BornInv(q)'
  <2>1. CheckpointOK(run[q].adv)'
    BY <1>3, CheckpointKept DEF CheckpointOK
  <2>2. r.tree \subseteq Born' /\ r.todo \subseteq Born' /\ r.seen \subseteq Born'
    BY <1>3 DEF Frame
  <2> QED BY <2>1, <2>2 DEF BornInv
<1>7. LockInv(q)'
  BY <1>3 DEF LockInv
<1>8. RebuildInv(q)'
  <2>1. ASSUME NEW S, S \subseteq Docs, db.docs \cap Live \subseteq Mirrored \cup S
        PROVE  db'.docs \cap Live' \subseteq Mirrored' \cup S
    <3> SUFFICES ASSUME NEW d \in db'.docs, d \in Live', d \notin S PROVE d \in Mirrored'
      OBVIOUS
    <3>1. d \in db.docs \/ d \in raw'
      BY DEF Frame
    <3>2. CASE d \in raw'
      BY <3>2 DEF Mirrored
    <3>3. CASE d \in db.docs
      <4>1. d \in Live
        BY <3>3, <1>1 DEF Frame
      <4>2. d \in Mirrored
        BY <3>3, <4>1, <2>1
      <4> QED BY <4>2 DEF Frame
    <3> QED BY <3>1, <3>2, <3>3
  <2>2. r.tree \subseteq Docs /\ r.todo \subseteq Docs /\ {} \subseteq Docs
    BY <1>1, FieldsOf
  <2>3. MirrorRebuilt(q)' <=> MirrorRebuilt(q)
    BY <1>2, <1>5 DEF MirrorRebuilt
  <2>4. r.pc = "fetch" /\ kind = "repo" => db'.docs \cap Live' \subseteq Mirrored' \cup r.tree
    BY <2>1, <2>2, <1>4 DEF RebuildInv
  <2>5. r.pc = "fetch" /\ kind = "forum" /\ r.opt = "full"
          => db'.docs \cap Live' \subseteq Mirrored' \cup r.todo
    BY <2>1, <2>2, <1>4 DEF RebuildInv
  <2>6. r.pc \in {"checkpoint", "flag"} /\ MirrorRebuilt(q)
          => db'.docs \cap Live' \subseteq Mirrored'
    <3> SUFFICES ASSUME r.pc \in {"checkpoint", "flag"}, MirrorRebuilt(q)
                 PROVE  db'.docs \cap Live' \subseteq Mirrored'
      OBVIOUS
    <3>1. db.docs \cap Live \subseteq Mirrored \cup {}
      BY <1>4 DEF RebuildInv
    <3>2. db'.docs \cap Live' \subseteq Mirrored' \cup {}
      BY <3>1, <2>1, <2>2
    <3> QED BY <3>2
  <2> HIDE DEF r
  <2> QED BY <1>2, <1>5, <2>3, <2>4, <2>5, <2>6 DEF RebuildInv
<1>9. ListInv(q)'
  <2>1. r.pc \in {"files", "prune"} => db'.docs = db.docs
    BY <1>3
  <2>2. \A d \in db.docs \cup r.seen : d \in Live' => d \in Live
    BY <1>1, <1>3 DEF Frame
  <2>3. kind = "forum" => raw \cap Live' \subseteq raw'
    BY DEF Frame
  <2> HIDE DEF r
  <2> QED BY <1>2, <1>4, <1>5, <2>1, <2>2, <2>3 DEF ListInv, r
<1>10. ClaimInv(q)'
  <2>1. \A d \in Covered(r.adv) : d \in Live' => d \in Live
    <3>1. Covered(r.adv) \subseteq Born
      BY <1>3, CheckpointKept
    <3> QED BY <3>1 DEF Frame
  <2>2. Covered(run[q].adv)' = Covered(r.adv)
    BY <1>2 DEF Covered
  <2>3. Accounted \cap Live' \subseteq Accounted'
    BY DEF Frame
  <2> HIDE DEF r
  <2> QED BY <1>2, <1>4, <1>5, <2>1, <2>2, <2>3 DEF ClaimInv, r
<1> QED BY <1>6, <1>7, <1>8, <1>9, <1>10 DEF Own

(* A step of p: what it shares is framed, the others keep their parts. *)
Others(p) ==
  /\ \A q \in Procs \ {p} : run'[q] = run[q]
  /\ db'.docs = db.docs \/ db.lock = p
  /\ db'.lock = db.lock \/ db.lock \in {p, None}

LEMMA Settled ==
  ASSUME IInv, TypeOK', Frame, NEW p \in Procs, Others(p), Own(p)'
  PROVE  Frame /\ Others(p) /\ IInv'
<1>1. \A q \in Procs : Own(q)'
  <2> SUFFICES ASSUME NEW q \in Procs, q # p PROVE Own(q)'
    OBVIOUS
  <2>1. /\ run'[q] = run[q]
        /\ db'.docs = db.docs \/ db.lock # q
        /\ db'.lock = db.lock \/ db.lock # q
    BY PipelineAssumption DEF Others, PipelineAssumption
  <2> QED BY <2>1, OwnKept
<1> QED BY <1>1, SharedKept DEF IInv

(* A step that leaves upstream and the mirror alone. *)
LEMMA QuietFrame ==
  ASSUME IInv, UNCHANGED <<kind, world, raw, lost, overtaken>>,
         db'.docs \subseteq db.docs \cup raw,
         (db.docs \ db'.docs) \cap Live \subseteq Mirrored,
         db'.ck = db.ck
           \/ (CheckpointOK(db'.ck) /\ Covered(db'.ck) \cap Live \subseteq Accounted),
         db'.absent \/ ~ db.absent \/ db.docs \cap Live \subseteq Mirrored
  PROVE  Frame /\ Live' = Live /\ Born' = Born /\ Mirrored' = Mirrored
         /\ Accounted \cap Live \subseteq Accounted'
<1>1. Live' = Live /\ Deleted' = Deleted /\ Delisted' = Delisted
  BY DEF Live, Deleted, Delisted
<1>2. Born' = Born /\ Mirrored' = Mirrored
  BY <1>1 DEF Born, Mirrored
<1>3. Accounted \cap Live \subseteq Accounted'
  BY DEF Accounted, Mirrored
<1>4. raw \subseteq Born /\ CheckpointOK(db.ck) /\ Covered(db.ck) \cap Live \subseteq Accounted
  BY DEF IInv, SharedInv, CorpusOK, CheckpointHonest, Accounted
<1>5. CheckpointOK(db'.ck) /\ Covered(db'.ck) \cap Live \subseteq Accounted
  BY <1>4
<1> QED BY <1>1, <1>2, <1>3, <1>4, <1>5 DEF Frame

(* At these stages a process has nothing to lose. *)
LEMMA OwnPlain ==
  ASSUME NEW p \in Procs,
         run'[p].pc \notin {"fetch", "checkpoint", "flag", "files", "prune"},
         run'[p].pc \in {"embed", "vacuum"} => db'.lock = p,
         BornInv(p)'
  PROVE  Own(p)'
<1>1. RebuildInv(p)' /\ ListInv(p)' /\ ClaimInv(p)'
  BY DEF RebuildInv, ListInv, ClaimInv
<1>2. LockInv(p)'
  BY DEF LockInv
<1> QED BY <1>1, <1>2 DEF Own

LEMMA EmptyBorn ==
  ASSUME NEW p, run'[p].tree = {}, run'[p].todo = {}, run'[p].seen = {}, run'[p].adv = None
  PROVE  BornInv(p)'
BY DEF BornInv, CheckpointOK

(***************************************************************************)
(* The invariant is kept: upstream and the ends of commands.               *)
(***************************************************************************)

LEMMA Moved ==
  ASSUME TypeOK, NEW p \in Procs, NEW r, Step(p, r)
  PROVE  run'[p] = r /\ \A q \in Procs \ {p} : run'[q] = run[q]
BY DEF TypeOK, Step

LEMMA InitInv == Init => IInv
<1> SUFFICES ASSUME Init PROVE IInv
  OBVIOUS
<1>1. TypeOK
  BY InitType
<1>2. CorpusOK(db)
  <2>1. CASE db = NewCorpus
    BY <2>1 DEF CorpusOK, CheckpointOK, NewCorpus
  <2>2. CASE db \in Downloads
    BY <2>2 DEF CorpusOK, CheckpointOK, Downloads, Born
  <2> QED BY <2>1, <2>2 DEF Init
<1>3. MirrorInv
  BY DEF Init, MirrorInv, NewCorpus, Downloads
<1>4. CheckpointHonest
  BY DEF Init, CheckpointHonest
<1>5. ASSUME NEW p \in Procs PROVE Own(p)
  <2>1. run[p] = Idle
    BY DEF Init
  <2>2. BornInv(p) /\ LockInv(p)
    BY <2>1 DEF BornInv, LockInv, CheckpointOK, Idle
  <2>3. RebuildInv(p) /\ ListInv(p) /\ ClaimInv(p)
    BY <2>1 DEF RebuildInv, ListInv, ClaimInv, Idle
  <2> QED BY <2>2, <2>3 DEF Own
<1> QED BY <1>1, <1>2, <1>3, <1>4, <1>5 DEF IInv, SharedInv, Init

LEMMA UpstreamInv ==
  ASSUME IInv, TypeOK', NEW d \in Docs, Upstream(d)
  PROVE  IInv'
<1>1. TypeOK /\ raw \subseteq Born /\ CheckpointOK(db.ck)
      /\ Covered(db.ck) \cap Live \subseteq Accounted
  BY DEF IInv, SharedInv, CorpusOK, CheckpointHonest, Accounted
<1>2. UNCHANGED <<kind, raw, db, lost, overtaken, run>>
  BY DEF Upstream, machine, history
<1>3. Live' \cap Born \subseteq Live /\ Born \subseteq Born' /\ Deleted \subseteq Deleted'
      /\ Delisted \subseteq Delisted'
  BY <1>1 DEF Upstream, Live, Deleted, Delisted, Born, TypeOK
<1>4. Mirrored' = Mirrored /\ Accounted' = Accounted
  BY <1>2 DEF Mirrored, Accounted
<1>5. Frame
  BY <1>1, <1>2, <1>3, <1>4 DEF Frame
<1>6. \A q \in Procs : Own(q)'
  BY <1>2, <1>5, OwnKept
<1> QED BY <1>5, <1>6, SharedKept DEF IInv

LEMMA UnlockedQuiet ==
  ASSUME TypeOK, NEW p \in Procs,
         db' = Unlocked(p) \/ db' = db
  PROVE  db'.docs = db.docs /\ db'.ck = db.ck /\ db'.absent = db.absent
         /\ (db'.lock = db.lock \/ db.lock \in {p, None})
BY UnlockedType DEF Unlocked

(* A command ends here without a word to the corpus. *)
LEMMA EndInv ==
  ASSUME IInv, TypeOK', NEW p \in Procs, Step(p, Idle),
         db'.docs = db.docs, db'.ck = db.ck, db'.absent = db.absent,
         db'.lock = db.lock \/ db.lock \in {p, None},
         UNCHANGED <<kind, world, raw, lost, overtaken>>
  PROVE  Frame /\ Others(p) /\ IInv'
<1>1. Frame
  BY QuietFrame
<1>2. run'[p] = Idle /\ \A q \in Procs \ {p} : run'[q] = run[q]
  BY Moved DEF IInv
<1>3. Own(p)'
  BY <1>2, EmptyBorn, OwnPlain DEF Idle
<1> QED BY <1>1, <1>2, <1>3, Settled DEF Others

LEMMA KillInv ==
  ASSUME IInv, TypeOK', NEW p \in Procs, LockRefused(p) \/ Kill(p)
  PROVE  Frame /\ Others(p) /\ IInv'
<1>1. Step(p, Idle) /\ (db' = Unlocked(p) \/ db' = db)
      /\ UNCHANGED <<kind, world, raw, lost, overtaken>>
  BY DEF LockRefused, Kill, Leave, machine, output, history
<1> QED BY <1>1, UnlockedQuiet, EndInv DEF IInv

(***************************************************************************)
(* The invariant is kept: sync.                                            *)
(***************************************************************************)

LEMMA BeginSyncInv ==
  ASSUME IInv, TypeOK', NEW p \in Procs, NEW cmd \in {"sync", "update"},
         NEW opt \in OptionsOf(kind), BeginSync(p, cmd, opt)
  PROVE  Frame /\ Others(p) /\ IInv'
<1> DEFINE r == [Idle EXCEPT
                   !.cmd = cmd, !.opt = opt, !.flag = db.absent,
                   !.owed = IF cmd = "update" /\ kind # "feed" /\ ~ db.absent
                              THEN Deleted \cup Delisted ELSE {},
                   !.due = IF cmd = "update" THEN Live ELSE {}]
           todo == IF kind = "forum" THEN ForumTodo(cmd, opt) ELSE Live \ raw
           s == IF Shortcut(opt) THEN [r EXCEPT !.pc = "checkpoint"]
                ELSE IF kind = "repo" THEN [r EXCEPT !.pc = "tarball", !.adv = Head]
                ELSE [r EXCEPT !.pc = "fetch", !.adv = Head, !.todo = todo]
<1>1. Step(p, s) /\ UNCHANGED <<kind, world, raw, db, lost, overtaken>>
  BY DEF BeginSync, history
<1>2. Frame /\ Live' = Live /\ Born' = Born /\ Mirrored' = Mirrored
  BY <1>1, QuietFrame
<1>3. run'[p] = s /\ \A q \in Procs \ {p} : run'[q] = run[q]
  BY <1>1, Moved DEF IInv
<1>4. Accounted' = Accounted /\ Deleted' = Deleted /\ Delisted' = Delisted
  BY <1>1 DEF Accounted, Deleted, Delisted
<1>5. r.opt = opt /\ r.tree = {} /\ r.todo = {} /\ r.seen = {} /\ r.adv = None
  BY DEF Idle
<1> HIDE DEF r
<1>6. CASE Shortcut(opt)
  <2>1. s.pc = "checkpoint" /\ s.tree = {} /\ s.todo = {} /\ s.seen = {} /\ s.adv = None
    <3>1. s = [r EXCEPT !.pc = "checkpoint"]
      BY <1>6
    <3> HIDE DEF s
    <3>2. r.tree = {} /\ r.todo = {} /\ r.seen = {} /\ r.adv = None
      BY <1>5
    <3> QED BY <3>1, <3>2, IdleType DEF r, Idle
  <2>2. kind' = "repo"
    BY <1>1, <1>6 DEF Shortcut
  <2> HIDE DEF s
  <2>3. ~ MirrorRebuilt(p)'
    BY <1>3, <2>1, <2>2 DEF MirrorRebuilt
  <2>4. RebuildInv(p)' /\ ListInv(p)' /\ LockInv(p)'
    BY <1>3, <2>1, <2>3 DEF RebuildInv, ListInv, LockInv
  <2>5. ClaimInv(p)'
    BY <1>3, <2>1 DEF ClaimInv, Covered
  <2>6. BornInv(p)'
    BY <1>3, <2>1, EmptyBorn
  <2>7. Own(p)'
    BY <2>4, <2>5, <2>6 DEF Own
  <2> QED BY <1>1, <1>2, <1>3, <2>7, Settled DEF Others
<1>7. CASE ~ Shortcut(opt) /\ kind = "repo"
  <2>1. s.pc = "tarball" /\ s.tree = {} /\ s.todo = {} /\ s.seen = {} /\ s.adv = Head
    BY <1>7 DEF r, Idle
  <2> HIDE DEF s
  <2>2. CheckpointOK(run[p].adv)'
    <3>1. Live \cap Deleted = {}
      BY DEF Live, Deleted, Delisted
    <3>2. run'[p].adv = [live |-> Live, gone |-> Deleted]
      BY <1>3, <1>7, <2>1 DEF Head, RepoHead
    <3> QED BY <3>1, <3>2, <1>1, <1>2, <1>4, <1>7, LiveBorn DEF CheckpointOK
  <2>3. BornInv(p)'
    BY <1>3, <2>1, <2>2 DEF BornInv
  <2>4. Own(p)'
    BY <1>3, <2>1, <2>3, OwnPlain
  <2> QED BY <1>1, <1>2, <1>3, <2>4, Settled DEF Others
<1>8. CASE ~ Shortcut(opt) /\ kind # "repo"
  <2>1. /\ s.pc = "fetch" /\ s.tree = {} /\ s.todo = todo /\ s.seen = {} /\ s.adv = Head
        /\ s.opt = opt
    <3>1. s = [r EXCEPT !.pc = "fetch", !.adv = Head, !.todo = todo]
      BY <1>8
    <3> HIDE DEF s, todo
    <3> QED BY <3>1 DEF r, Idle
  <2> HIDE DEF s
  <2>2. kind = "forum" \/ kind = "feed"
    BY <1>8, PipelineAssumption DEF IInv, TypeOK, PipelineAssumption
  <2>3. todo \subseteq Born
    BY LiveBorn DEF ForumTodo
  <2>4. CheckpointOK(run[p].adv)'
    BY <1>1, <1>2, <1>3, <2>1, <2>2, LiveBorn DEF CheckpointOK, Head, ForumHead
  <2>5. BornInv(p)'
    <3> HIDE DEF todo
    <3> QED BY <1>2, <1>3, <2>1, <2>3, <2>4 DEF BornInv
  <2>6. kind = "forum" /\ opt = "full" => db.docs \cap Live \subseteq Mirrored \cup todo
    BY DEF Mirrored, ForumTodo, Wide
  <2>7. Covered(Head) \cap Live \subseteq Accounted \cup todo
    <3>1. CASE kind = "feed"
      BY <3>1 DEF Head, Covered
    <3>2. CASE kind = "forum"
      <4>1. Live \subseteq Accounted \cup todo
        <5>1. Covered(db.ck) \cap Live \subseteq Accounted
          BY DEF IInv, SharedInv, CheckpointHonest, Accounted
        <5> QED BY <5>1, <3>2 DEF ForumTodo, Accounted, Covered
      <4> QED BY <4>1
    <3> QED BY <2>2, <3>1, <3>2
  <2> HIDE DEF todo
  <2>8. RebuildInv(p)' /\ ListInv(p)' /\ LockInv(p)'
    BY <1>1, <1>2, <1>3, <1>8, <2>1, <2>6 DEF RebuildInv, ListInv, LockInv
  <2>9. ClaimInv(p)'
    <3>1. Covered(run[p].adv)' = Covered(Head)
      BY <1>3, <2>1 DEF Covered
    <3> QED BY <3>1, <1>1, <1>2, <1>3, <1>4, <1>8, <2>1, <2>7 DEF ClaimInv
  <2>10. Own(p)'
    BY <2>5, <2>8, <2>9 DEF Own
  <2> QED BY <1>1, <1>2, <1>3, <2>10, Settled DEF Others
<1> QED BY <1>6, <1>7, <1>8

LEMMA TarballInv ==
  ASSUME IInv, TypeOK', NEW p \in Procs, Tarball(p)
  PROVE  Frame /\ Others(p) /\ IInv'
<1> DEFINE s == [run[p] EXCEPT !.pc = "fetch", !.tree = Live, !.todo = Live \ raw]
<1>1. Step(p, s) /\ UNCHANGED <<kind, world, raw, db, lost, overtaken>>
  BY DEF Tarball, machine, history
<1>2. Frame /\ Live' = Live /\ Born' = Born /\ Mirrored' = Mirrored
  BY <1>1, QuietFrame
<1>3. run'[p] = s /\ \A q \in Procs \ {p} : run'[q] = run[q]
  BY <1>1, Moved DEF IInv
<1>4. Accounted' = Accounted /\ Deleted' = Deleted /\ Delisted' = Delisted
  BY <1>1 DEF Accounted, Deleted, Delisted
<1>5. s.pc = "fetch" /\ s.tree = Live /\ s.todo = Live \ raw /\ s.seen = run[p].seen
      /\ s.adv = run[p].adv
  BY DEF IInv, TypeOK, Runs
<1> HIDE DEF s
<1>6. run[p].seen \subseteq Born /\ CheckpointOK(run[p].adv)
  BY DEF IInv, Own, BornInv
<1>7. BornInv(p)'
  <2>1. CheckpointOK(run[p].adv)'
    BY <1>1, <1>2, <1>3, <1>4, <1>5, <1>6 DEF CheckpointOK
  <2> QED BY <2>1, <1>2, <1>3, <1>5, <1>6, LiveBorn DEF BornInv
<1>8. RebuildInv(p)' /\ ListInv(p)' /\ LockInv(p)'
  BY <1>1, <1>2, <1>3, <1>5 DEF RebuildInv, ListInv, LockInv, Mirrored
<1>9. ClaimInv(p)'
  BY <1>1, <1>2, <1>3, <1>4, <1>5 DEF ClaimInv, Accounted
<1>10. Own(p)'
  BY <1>7, <1>8, <1>9 DEF Own
<1> QED BY <1>1, <1>2, <1>3, <1>10, Settled DEF Others

(* What a walk fetches is there when it is over, and what was there still  *)
(* is.                                                                     *)
LEMMA FetchedFrame ==
  ASSUME IInv, NEW p \in Procs, NEW got \in SUBSET run[p].todo, NEW slid \in SUBSET run[p].todo,
         Fetched(p, got, slid), UNCHANGED <<kind, world, db>>
  PROVE  /\ Frame /\ Live' = Live /\ Deleted' = Deleted /\ Delisted' = Delisted /\ Born' = Born
         /\ (got \cup slid) \cap Live \subseteq Mirrored'
         /\ Mirrored \cap Live \subseteq Mirrored'
         /\ Accounted \cap Live \subseteq Accounted'
<1>1. run[p].todo \subseteq Born /\ raw \subseteq Born
  BY DEF IInv, Own, BornInv, SharedInv
<1>2. CheckpointOK(db.ck) /\ Covered(db.ck) \cap Live \subseteq Accounted
      /\ (~ db.absent => db.docs \cap Live \subseteq Mirrored)
  BY DEF IInv, SharedInv, CorpusOK, CheckpointHonest, MirrorInv, Accounted
<1>3. Live' = Live /\ Deleted' = Deleted /\ Delisted' = Delisted /\ Born' = Born
  BY DEF Live, Deleted, Delisted, Born
<1> DEFINE met == got \ Delisted
           kept == IF kind = "forum" THEN met \cap Live ELSE met
<1>4. /\ raw' = (raw \ met) \cup kept
      /\ lost' = lost \ kept
      /\ overtaken' = (overtaken \ met) \cup slid \cup (kept \ Live)
  BY DEF Fetched
<1>5. got \cap Live \subseteq kept /\ kept \subseteq Born /\ met \cap Live \subseteq kept
  BY <1>1, LiveBorn DEF Live, Delisted
<1> HIDE DEF met, kept
<1>6. raw' \subseteq Born /\ raw \cap Live \subseteq raw'
  BY <1>1, <1>4, <1>5
<1>7. (got \cup slid) \cap Live \subseteq Mirrored' /\ Mirrored \cap Live \subseteq Mirrored'
  BY <1>4, <1>5 DEF Mirrored
<1>8. Accounted \cap Live \subseteq Accounted'
  BY <1>4, <1>5 DEF Accounted
<1> QED BY <1>2, <1>3, <1>6, <1>7, <1>8 DEF Frame

LEMMA AfterSyncOwn ==
  ASSUME TypeOK', NEW p \in Procs, NEW ok, run'[p] = AfterSync(p, ok)
  PROVE  Own(p)'
<1>1. /\ run'[p].tree = {} /\ run'[p].todo = {} /\ run'[p].seen = {} /\ run'[p].adv = None
      /\ run'[p].pc \in {"idle", "lock"}
  BY DEF AfterSync, Idle
<1> QED BY <1>1, EmptyBorn, OwnPlain

LEMMA EndWalkInv ==
  ASSUME IInv, TypeOK', NEW p \in Procs, EndWalk(p)
  PROVE  Frame /\ Others(p) /\ IInv'
<1>1. PICK slid \in IF kind = "forum" THEN SUBSET (run[p].todo \ Delisted) ELSE {{}} :
           /\ Fetched(p, run[p].todo \ slid, slid)
           /\ Step(p, [run[p] EXCEPT !.pc = "checkpoint", !.todo = {},
                                     !.adv = Slid(run[p].adv, slid)])
  BY DEF EndWalk
<1>2. At(p, "fetch") /\ kind # "repo" /\ run[p].opt # "limit"
      /\ UNCHANGED <<kind, world, mirror, db, output, clash>>
  BY DEF EndWalk
<1> DEFINE got == run[p].todo \ slid
           adv == Slid(run[p].adv, slid)
           s == [run[p] EXCEPT !.pc = "checkpoint", !.todo = {}, !.adv = adv]
<1>3. slid \subseteq run[p].todo /\ got \subseteq run[p].todo /\ run[p].todo \subseteq got \cup slid
  OBVIOUS
<1>4. /\ Frame /\ Live' = Live /\ Deleted' = Deleted /\ Delisted' = Delisted /\ Born' = Born
      /\ run[p].todo \cap Live \subseteq Mirrored'
      /\ Mirrored \cap Live \subseteq Mirrored'
      /\ Accounted \cap Live \subseteq Accounted'
  BY <1>1, <1>2, <1>3, FetchedFrame
<1>5. run'[p] = s /\ \A q \in Procs \ {p} : run'[q] = run[q]
  BY <1>1, Moved DEF IInv
<1>6. run[p] \in Runs /\ Own(p) /\ raw \subseteq Born
  BY DEF IInv, TypeOK, SharedInv
<1>7. /\ s.pc = "checkpoint" /\ s.opt = run[p].opt /\ s.adv = adv /\ s.todo = {}
      /\ s.tree = run[p].tree /\ s.seen = run[p].seen
  BY <1>6 DEF Runs
<1>8. adv # None => /\ run[p].adv # None
                    /\ adv.live = run[p].adv.live \ slid /\ adv.gone = run[p].adv.gone
  <2>1. run[p].adv \in Checkpoints
    BY <1>6, FieldsOf
  <2> QED BY <2>1 DEF Slid, Checkpoints, Heads
<1> HIDE DEF s, adv
<1>9. BornInv(p)'
  <2>1. CheckpointOK(run[p].adv) /\ run[p].tree \subseteq Born /\ run[p].seen \subseteq Born
    BY <1>6 DEF Own, BornInv
  <2>2. CheckpointOK(run[p].adv)'
    BY <2>1, <1>2, <1>4, <1>5, <1>7, <1>8 DEF CheckpointOK
  <2> QED BY <2>1, <2>2, <1>4, <1>5, <1>7 DEF BornInv
<1>10. RebuildInv(p)' /\ ListInv(p)' /\ LockInv(p)'
  <2>1. ListInv(p)' /\ LockInv(p)'
    BY <1>5, <1>7 DEF ListInv, LockInv
  <2>2. MirrorRebuilt(p)' => kind = "forum" /\ run[p].opt = "full"
    BY <1>2, <1>5, <1>7, PipelineAssumption DEF MirrorRebuilt, IInv, TypeOK, PipelineAssumption
  <2>3. kind = "forum" /\ run[p].opt = "full"
          => db.docs \cap Live \subseteq Mirrored \cup run[p].todo
    BY <1>2, <1>6 DEF Own, RebuildInv, At
  <2>4. MirrorRebuilt(p)' => (db.docs \cap Live \subseteq Mirrored)'
    BY <1>2, <1>4, <2>2, <2>3
  <2>5. RebuildInv(p)'
    BY <1>5, <1>7, <2>4 DEF RebuildInv
  <2> QED BY <2>1, <2>5
<1>11. ClaimInv(p)'
  <2>1. Covered(run[p].adv) \cap Live \subseteq Accounted \cup run[p].todo
    BY <1>2, <1>6 DEF Own, ClaimInv, At
  <2>2. Covered(adv) \subseteq Covered(run[p].adv)
    BY <1>8 DEF Covered
  <2>3. Covered(adv) \cap Live \subseteq Accounted'
    BY <1>4, <2>1, <2>2 DEF Mirrored, Accounted
  <2>4. Covered(run[p].adv)' = Covered(adv)
    BY <1>5, <1>7 DEF Covered
  <2> QED BY <2>3, <2>4, <1>4, <1>5, <1>7 DEF ClaimInv
<1>12. Own(p)'
  BY <1>9, <1>10, <1>11 DEF Own
<1> QED BY <1>2, <1>4, <1>5, <1>12, Settled DEF Others

LEMMA EndRepoInv ==
  ASSUME IInv, TypeOK', NEW p \in Procs, EndRepo(p)
  PROVE  Frame /\ Others(p) /\ IInv'
<1> DEFINE s == [run[p] EXCEPT !.pc = "checkpoint", !.todo = {}, !.tree = {}]
           tree == run[p].tree
<1>1. /\ At(p, "fetch") /\ kind = "repo" /\ run[p].opt # "limit" /\ Step(p, s)
      /\ UNCHANGED <<kind, world, db, output, clash>>
      /\ raw' = tree /\ lost' = lost \ tree
      /\ overtaken' = ((overtaken \ raw) \ tree)
                        \cup ((raw \ tree) \cap Live) \cup (tree \ Live)
  BY DEF EndRepo
<1>2. run'[p] = s /\ \A q \in Procs \ {p} : run'[q] = run[q]
  BY <1>1, Moved DEF IInv
<1>3. run[p] \in Runs /\ Own(p)
  BY DEF IInv, TypeOK
<1>4. /\ s.pc = "checkpoint" /\ s.opt = run[p].opt /\ s.adv = run[p].adv /\ s.todo = {}
      /\ s.tree = {} /\ s.seen = run[p].seen
  BY <1>3 DEF Runs
<1> HIDE DEF s
<1>5. Live' = Live /\ Deleted' = Deleted /\ Delisted' = Delisted /\ Born' = Born
  BY <1>1 DEF Live, Deleted, Delisted, Born
<1>6. tree \subseteq Born /\ run[p].seen \subseteq Born /\ CheckpointOK(run[p].adv)
  BY <1>3 DEF Own, BornInv
<1>7. tree \subseteq Mirrored' /\ Mirrored \cap Live \subseteq Mirrored'
  BY <1>1 DEF Mirrored
<1>8. tree \subseteq Accounted' /\ Accounted \cap Live \subseteq Accounted'
  BY <1>1 DEF Accounted
<1>9. Frame
  <2>1. CheckpointOK(db.ck) /\ Covered(db.ck) \cap Live \subseteq Accounted
        /\ (~ db.absent => db.docs \cap Live \subseteq Mirrored)
    BY DEF IInv, SharedInv, CorpusOK, CheckpointHonest, MirrorInv, Accounted
  <2> QED BY <2>1, <1>1, <1>5, <1>6, <1>7, <1>8 DEF Frame
<1>10. BornInv(p)'
  <2>1. CheckpointOK(run[p].adv)'
    BY <1>1, <1>2, <1>4, <1>5, <1>6 DEF CheckpointOK
  <2> QED BY <2>1, <1>2, <1>4, <1>5, <1>6 DEF BornInv
<1>11. RebuildInv(p)'
  <2>1. db.docs \cap Live \subseteq Mirrored \cup tree
    BY <1>1, <1>3 DEF Own, RebuildInv, At
  <2>2. (db.docs \cap Live \subseteq Mirrored)'
    BY <1>1, <1>5, <1>7, <2>1
  <2> QED BY <1>2, <1>4, <2>2 DEF RebuildInv
<1>12. ClaimInv(p)'
  <2>1. Covered(run[p].adv) \cap Live \subseteq tree
    BY <1>1, <1>3 DEF Own, ClaimInv, At
  <2>2. Covered(run[p].adv)' = Covered(run[p].adv)
    BY <1>2, <1>4 DEF Covered
  <2> QED BY <1>2, <1>4, <1>5, <1>8, <2>1, <2>2 DEF ClaimInv
<1>13. ListInv(p)' /\ LockInv(p)'
  BY <1>2, <1>4 DEF ListInv, LockInv
<1>14. Own(p)'
  BY <1>10, <1>11, <1>12, <1>13 DEF Own
<1> QED BY <1>1, <1>2, <1>9, <1>14, Settled DEF Others

LEMMA ShortWalkInv ==
  ASSUME IInv, TypeOK', NEW p \in Procs, EndLimited(p) \/ SyncFails(p)
  PROVE  Frame /\ Others(p) /\ IInv'
<1>1. PICK got \in SUBSET run[p].todo : Fetched(p, got, {})
  BY DEF EndLimited, SyncFails
<1>2. UNCHANGED <<kind, world, db>>
  BY DEF EndLimited, SyncFails
<1>3. /\ Frame /\ Live' = Live /\ Deleted' = Deleted /\ Delisted' = Delisted /\ Born' = Born
  BY <1>1, <1>2, FetchedFrame
<1>4. run[p] \in Runs /\ Own(p)
  BY DEF IInv, TypeOK
<1>5. CASE EndLimited(p)
  <2> DEFINE s == [run[p] EXCEPT !.pc = "checkpoint", !.adv = None, !.todo = {}, !.tree = {}]
  <2>1. run'[p] = s /\ \A q \in Procs \ {p} : run'[q] = run[q]
    BY <1>5, Moved DEF EndLimited, IInv
  <2>2. /\ s.pc = "checkpoint" /\ s.opt = "limit" /\ s.adv = None /\ s.todo = {}
        /\ s.tree = {} /\ s.seen = run[p].seen
    BY <1>4, <1>5 DEF EndLimited, Runs
  <2> HIDE DEF s
  <2>3. BornInv(p)'
    BY <1>3, <1>4, <2>1, <2>2 DEF BornInv, Own, CheckpointOK
  <2>4. RebuildInv(p)' /\ ListInv(p)' /\ LockInv(p)'
    BY <2>1, <2>2 DEF RebuildInv, ListInv, LockInv, MirrorRebuilt
  <2>5. ClaimInv(p)'
    BY <2>1, <2>2 DEF ClaimInv, Covered
  <2>6. Own(p)'
    BY <2>3, <2>4, <2>5 DEF Own
  <2> QED BY <1>2, <1>3, <2>1, <2>6, Settled DEF Others
<1>6. CASE SyncFails(p)
  <2>1. run'[p] = AfterSync(p, FALSE) /\ \A q \in Procs \ {p} : run'[q] = run[q]
    BY <1>6, Moved DEF SyncFails, IInv
  <2>2. Own(p)'
    BY <2>1, AfterSyncOwn
  <2> QED BY <1>2, <1>3, <2>1, <2>2, Settled DEF Others
<1> QED BY <1>5, <1>6

LEMMA RecordCheckpointInv ==
  ASSUME IInv, TypeOK', NEW p \in Procs, RecordCheckpoint(p)
  PROVE  Frame /\ Others(p) /\ IInv'
<1>1. PICK ok \in {run[p].ok, FALSE} : Step(p, [run[p] EXCEPT !.pc = "flag", !.ok = ok])
  <2>1. run[p] = [run[p] EXCEPT !.ok = run[p].ok]
    BY DEF IInv, TypeOK, Runs
  <2>2. [run[p] EXCEPT !.pc = "flag"] = [run[p] EXCEPT !.pc = "flag", !.ok = run[p].ok]
    BY DEF IInv, TypeOK, Runs
  <2> QED BY <2>2 DEF RecordCheckpoint, Goto
<1>2. /\ At(p, "checkpoint") /\ UNCHANGED <<kind, world, raw, lost, overtaken>>
      /\ db' = db \/ (run[p].adv # None /\ db' = [db EXCEPT !.ck = run[p].adv])
  BY DEF RecordCheckpoint, history
<1>3. run[p] \in Runs /\ Own(p) /\ db \in Corpora
  BY DEF IInv, TypeOK
<1>4. db'.docs = db.docs /\ db'.lock = db.lock /\ db'.absent = db.absent
      /\ (db'.ck = db.ck \/ db'.ck = run[p].adv)
  BY <1>2, <1>3 DEF Corpora
<1>5. CheckpointOK(run[p].adv) /\ Covered(run[p].adv) \cap Live \subseteq Accounted
  BY <1>2, <1>3 DEF Own, BornInv, ClaimInv, At
<1>6. Frame /\ Live' = Live /\ Born' = Born /\ Mirrored' = Mirrored
      /\ Accounted \cap Live \subseteq Accounted'
  BY <1>2, <1>4, <1>5, QuietFrame
<1> DEFINE s == [run[p] EXCEPT !.pc = "flag", !.ok = ok]
<1>7. run'[p] = s /\ \A q \in Procs \ {p} : run'[q] = run[q]
  BY <1>1, Moved DEF IInv
<1>8. /\ s.pc = "flag" /\ s.opt = run[p].opt /\ s.adv = run[p].adv /\ s.todo = run[p].todo
      /\ s.tree = run[p].tree /\ s.seen = run[p].seen
  BY <1>3 DEF Runs
<1> HIDE DEF s
<1>9. BornInv(p)'
  <2>1. CheckpointOK(run[p].adv)'
    BY <1>5, <1>6, <1>7, <1>8, CheckpointKept DEF CheckpointOK
  <2> QED BY <2>1, <1>3, <1>6, <1>7, <1>8 DEF BornInv, Own
<1>10. RebuildInv(p)'
  <2>1. MirrorRebuilt(p)' => MirrorRebuilt(p)
    BY <1>2, <1>7, <1>8 DEF MirrorRebuilt
  <2>2. MirrorRebuilt(p) => db.docs \cap Live \subseteq Mirrored
    BY <1>2, <1>3 DEF Own, RebuildInv, At
  <2> QED BY <1>4, <1>6, <1>7, <1>8, <2>1, <2>2 DEF RebuildInv
<1>11. ListInv(p)' /\ LockInv(p)' /\ ClaimInv(p)'
  BY <1>7, <1>8 DEF ListInv, LockInv, ClaimInv
<1>12. Own(p)'
  BY <1>9, <1>10, <1>11 DEF Own
<1> QED BY <1>4, <1>6, <1>7, <1>12, Settled DEF Others

LEMMA ClearFlagInv ==
  ASSUME IInv, TypeOK', NEW p \in Procs, ClearFlag(p)
  PROVE  Frame /\ Others(p) /\ IInv'
<1>1. PICK ok \in {run[p].ok, FALSE} : Step(p, AfterSync(p, ok))
  BY DEF ClearFlag
<1>2. /\ At(p, "flag") /\ UNCHANGED <<kind, world, raw, lost, overtaken>>
      /\ db' = db \/ (MirrorRebuilt(p) /\ db' = [db EXCEPT !.absent = FALSE])
  BY DEF ClearFlag, history
<1>3. Own(p) /\ db \in Corpora
  BY DEF IInv, TypeOK
<1>4. db'.docs = db.docs /\ db'.lock = db.lock /\ db'.ck = db.ck
      /\ (db'.absent = db.absent \/ MirrorRebuilt(p))
  BY <1>2, <1>3 DEF Corpora
<1>5. MirrorRebuilt(p) => db.docs \cap Live \subseteq Mirrored
  BY <1>2, <1>3 DEF Own, RebuildInv, At
<1>6. db'.absent \/ ~ db.absent \/ db.docs \cap Live \subseteq Mirrored
  BY <1>4, <1>5
<1>7. Frame
  BY <1>2, <1>4, <1>6, QuietFrame
<1>8. run'[p] = AfterSync(p, ok) /\ \A q \in Procs \ {p} : run'[q] = run[q]
  BY <1>1, Moved DEF IInv
<1>9. Own(p)'
  BY <1>8, AfterSyncOwn
<1> QED BY <1>4, <1>7, <1>8, <1>9, Settled DEF Others

(***************************************************************************)
(* The invariant is kept: index and publish.                               *)
(***************************************************************************)

LEMMA ListRawFilesInv ==
  ASSUME IInv, TypeOK', NEW p \in Procs, ListRawFiles(p)
  PROVE  Frame /\ Others(p) /\ IInv'
<1> DEFINE cmd == IF At(p, "lock") THEN "update" ELSE "index"
           behind == IF cmd = "index" THEN {} ELSE IF mirror THEN overtaken ELSE Docs
           r == [run[p] EXCEPT !.cmd = cmd, !.behind = behind,
                               !.due = run[p].due \ (overtaken \cup lost)]
           listed == [r EXCEPT !.pc = "files", !.seen = raw,
                               !.excused = IF db.absent THEN Docs ELSE overtaken]
<1>1. /\ db.lock = None /\ db' = [db EXCEPT !.lock = p]
      /\ UNCHANGED <<kind, world, raw, lost, overtaken>>
  BY DEF ListRawFiles, history
<1>2. \/ Step(p, listed)
      \/ \E ok \in {r.ok, FALSE} : Step(p, [r EXCEPT !.pc = "embed", !.ok = ok])
  BY Zenon DEF ListRawFiles
<1>3. run[p] \in Runs /\ Own(p) /\ db \in Corpora /\ raw \subseteq Born
      /\ (~ db.absent => db.docs \cap Live \subseteq Mirrored)
      /\ db.docs \subseteq Docs
  BY CorpusType DEF IInv, TypeOK, SharedInv, MirrorInv
<1>4. db'.docs = db.docs /\ db'.lock = p /\ db'.ck = db.ck /\ db'.absent = db.absent
  BY <1>1, <1>3 DEF Corpora
<1>5. Frame /\ Live' = Live /\ Born' = Born /\ Mirrored' = Mirrored
  BY <1>1, <1>4, QuietFrame
<1>6. r \in Runs /\ r.tree = run[p].tree /\ r.todo = run[p].todo /\ r.seen = run[p].seen
      /\ r.adv = run[p].adv
  <2>1. behind \subseteq Docs
    BY DEF IInv, TypeOK
  <2> HIDE DEF behind
  <2> QED BY <1>3, <2>1 DEF Runs
<1>7. r.tree \subseteq Born /\ r.todo \subseteq Born /\ r.seen \subseteq Born /\ CheckpointOK(r.adv)
  BY <1>3, <1>6 DEF Own, BornInv
<1> HIDE DEF r
<1>8. ASSUME NEW s, Step(p, s), s.adv = r.adv, s.tree = r.tree, s.todo = r.todo,
             s.seen = r.seen \/ s.seen = raw
      PROVE  run'[p] = s /\ BornInv(p)' /\ Others(p)
  <2>1. run'[p] = s /\ \A q \in Procs \ {p} : run'[q] = run[q]
    BY <1>8, Moved DEF IInv
  <2>2. CheckpointOK(run[p].adv)'
    BY <1>5, <1>7, <1>8, <2>1, CheckpointKept DEF CheckpointOK
  <2> QED BY <1>1, <1>3, <1>4, <1>5, <1>7, <1>8, <2>1, <2>2 DEF BornInv, Others
<1>9. CASE Step(p, listed)
  <2>1. /\ listed.pc = "files" /\ listed.seen = raw /\ listed.adv = r.adv
        /\ listed.tree = r.tree /\ listed.todo = r.todo
        /\ listed.excused = IF db.absent THEN Docs ELSE overtaken
    BY <1>6 DEF Runs
  <2> HIDE DEF listed
  <2>2. run'[p] = listed /\ BornInv(p)' /\ Others(p)
    BY <1>8, <1>9, <2>1
  <2>3. LockInv(p)'
    BY <1>4 DEF LockInv
  <2>4. RebuildInv(p)' /\ ClaimInv(p)'
    BY <2>1, <2>2 DEF RebuildInv, ClaimInv
  <2>5. db.docs \cap Live \subseteq listed.seen \cup listed.excused
    BY <1>3, <2>1 DEF Mirrored
  <2>6. ListInv(p)'
    BY <1>1, <1>4, <1>5, <2>1, <2>2, <2>5 DEF ListInv
  <2>7. Own(p)'
    BY <2>2, <2>3, <2>4, <2>6 DEF Own
  <2> QED BY <1>5, <2>2, <2>7, Settled
<1>10. ASSUME NEW ok \in {r.ok, FALSE}, Step(p, [r EXCEPT !.pc = "embed", !.ok = ok])
       PROVE  Frame /\ Others(p) /\ IInv'
  <2> DEFINE s == [r EXCEPT !.pc = "embed", !.ok = ok]
  <2>1. s.pc = "embed" /\ s.adv = r.adv /\ s.tree = r.tree /\ s.todo = r.todo /\ s.seen = r.seen
    BY <1>6 DEF Runs
  <2> HIDE DEF s
  <2>2. run'[p] = s /\ BornInv(p)' /\ Others(p)
    BY <1>8, <1>10, <2>1 DEF s
  <2>3. Own(p)'
    BY <1>4, <2>1, <2>2, OwnPlain
  <2> QED BY <1>5, <2>2, <2>3, Settled
<1> QED BY <1>2, <1>9, <1>10

LEMMA IndexFilesInv ==
  ASSUME IInv, TypeOK', NEW p \in Procs, IndexFiles(p)
  PROVE  Frame /\ Others(p) /\ IInv'
<1>1. PICK bad \in SUBSET run[p].seen :
        LET good == (run[p].seen \cap raw) \ bad
        IN  /\ db' = [db EXCEPT !.docs = db.docs \cup good,
                                !.embedded = db.embedded /\ good \subseteq db.docs]
            /\ Step(p, [run[p] EXCEPT
                          !.pc = "prune", !.seen = good,
                          !.errors = bad # {} \/ (kind # "forum" /\ ~ run[p].seen \subseteq raw)])
  BY DEF IndexFiles
<1> DEFINE good == (run[p].seen \cap raw) \ bad
           errors == bad # {} \/ (kind # "forum" /\ ~ run[p].seen \subseteq raw)
           s == [run[p] EXCEPT !.pc = "prune", !.seen = good, !.errors = errors]
<1>2. At(p, "files") /\ UNCHANGED <<kind, world, raw, lost, overtaken>>
  BY DEF IndexFiles, history
<1>3. run[p] \in Runs /\ Own(p) /\ db \in Corpora
  BY DEF IInv, TypeOK
<1>4. db'.docs = db.docs \cup good /\ db'.lock = db.lock /\ db'.ck = db.ck
      /\ db'.absent = db.absent
  BY <1>1, <1>3 DEF Corpora
<1>5. db.lock = p
  BY <1>2, <1>3 DEF Own, LockInv, At
<1>6. good \subseteq raw /\ good \subseteq run[p].seen
      /\ (~ errors => /\ kind # "forum" => good = run[p].seen
                      /\ run[p].seen \cap raw \subseteq good)
  OBVIOUS
<1>7. run'[p] = s /\ \A q \in Procs \ {p} : run'[q] = run[q]
  BY <1>1, Moved DEF IInv
<1>8. /\ s.pc = "prune" /\ s.seen = good /\ s.errors = errors /\ s.excused = run[p].excused
      /\ s.adv = run[p].adv /\ s.tree = run[p].tree /\ s.todo = run[p].todo
  BY <1>3 DEF Runs
<1> HIDE DEF good, errors, s
<1>9. Frame /\ Live' = Live /\ Born' = Born /\ Mirrored' = Mirrored
  BY <1>2, <1>4, <1>6, QuietFrame
<1>10. BornInv(p)'
  <2>1. run[p].tree \subseteq Born /\ run[p].todo \subseteq Born /\ run[p].seen \subseteq Born
        /\ CheckpointOK(run[p].adv)
    BY <1>3 DEF Own, BornInv
  <2>2. CheckpointOK(run[p].adv)'
    BY <1>7, <1>8, <1>9, <2>1, CheckpointKept DEF CheckpointOK
  <2> QED BY <1>6, <1>7, <1>8, <1>9, <2>1, <2>2 DEF BornInv
<1>11. LockInv(p)' /\ RebuildInv(p)' /\ ClaimInv(p)'
  BY <1>4, <1>5, <1>7, <1>8 DEF LockInv, RebuildInv, ClaimInv
<1>12. ListInv(p)'
  <2>1. /\ db.docs \cap Live \subseteq run[p].seen \cup run[p].excused
        /\ kind = "forum" => run[p].seen \cap Live \subseteq raw
    BY <1>2, <1>3 DEF Own, ListInv, At
  <2>2. ~ errors => (db.docs \cup good) \cap Live \subseteq good \cup run[p].excused
    BY <1>6, <2>1
  <2> QED BY <1>4, <1>7, <1>8, <1>9, <2>2 DEF ListInv
<1>13. Own(p)'
  BY <1>10, <1>11, <1>12 DEF Own
<1> QED BY <1>4, <1>5, <1>7, <1>9, <1>13, Settled DEF Others

(* What Prune removes that is live is excused, and its flag was cleared. *)
LEMMA PruneStep ==
  ASSUME IInv, NEW p \in Procs, Prune(p)
  PROVE  /\ db.lock = p /\ db'.docs \subseteq db.docs
         /\ db'.ck = db.ck /\ db'.absent = db.absent
         /\ (db.docs \ db'.docs) \cap Live
               \subseteq IF db.absent THEN {} ELSE run[p].excused \cap Mirrored
         /\ Prunes(p) => db'.docs \subseteq run[p].seen
         /\ \/ /\ db'.lock = p /\ run'[p].pc = "embed"
               /\ run'[p].ok = (run[p].ok /\ ~ run[p].errors)
               /\ run'[p].owed = run[p].owed /\ run'[p].behind = run[p].behind
               /\ run'[p].due = run[p].due
               /\ run'[p].excused = run[p].excused \cap (db.docs \ db'.docs)
               /\ run'[p].opt = "plain"
            \/ db'.lock = None /\ run'[p] = Idle /\ run'[p].pc = "idle"
         /\ run'[p].tree = {} /\ run'[p].todo = {} /\ run'[p].seen = {} /\ run'[p].adv = None
         /\ \A q \in Procs \ {p} : run'[q] = run[q]
<1> DEFINE kept == db.docs \cap (IF Prunes(p) THEN run[p].seen ELSE Docs)
           corpus == [db EXCEPT !.docs = kept]
           next == [Idle EXCEPT !.pc = "embed", !.cmd = "update",
                      !.ok = run[p].ok /\ ~ run[p].errors,
                      !.owed = run[p].owed, !.behind = run[p].behind,
                      !.due = run[p].due,
                      !.excused = Idle.excused \cup (run[p].excused \cap (db.docs \ corpus.docs))]
<1>1. EndIndex(p, corpus) /\ At(p, "prune")
  BY Zenon DEF Prune
<1>2. Own(p) /\ db \in Corpora /\ db.docs \subseteq Docs /\ run[p] \in Runs
      /\ (~ db.absent => db.docs \cap Live \subseteq Mirrored)
  BY CorpusType DEF IInv, TypeOK, SharedInv, MirrorInv
<1>3. db.lock = p /\ (~ run[p].errors => db.docs \cap Live \subseteq run[p].seen \cup run[p].excused)
  BY <1>1, <1>2 DEF Own, LockInv, ListInv, At
<1>4. (db.docs \ kept) \cap Live \subseteq IF db.absent THEN {} ELSE run[p].excused \cap Mirrored
  <2>1. CASE Prunes(p)
    BY <2>1, <1>2, <1>3 DEF Prunes
  <2>2. CASE ~ Prunes(p)
    BY <2>2, <1>2
  <2> QED BY <2>1, <2>2
<1>5. kept \subseteq db.docs /\ (Prunes(p) => kept \subseteq run[p].seen)
  OBVIOUS
<1> HIDE DEF kept
<1>6. /\ corpus.docs = kept /\ corpus.ck = db.ck /\ corpus.absent = db.absent
      /\ corpus.lock = db.lock
      /\ [corpus EXCEPT !.lock = None].docs = kept
      /\ [corpus EXCEPT !.lock = None].ck = db.ck
      /\ [corpus EXCEPT !.lock = None].absent = db.absent
      /\ [corpus EXCEPT !.lock = None].lock = None
  BY <1>2 DEF Corpora
<1> HIDE DEF corpus
<1>7. \/ Step(p, next) /\ db' = corpus
      \/ Step(p, Idle) /\ db' = [corpus EXCEPT !.lock = None]
  BY <1>1 DEF EndIndex, Leave
<1>8. /\ next.pc = "embed" /\ next.tree = {} /\ next.todo = {} /\ next.seen = {} /\ next.adv = None
      /\ next.ok = (run[p].ok /\ ~ run[p].errors) /\ next.owed = run[p].owed
      /\ next.behind = run[p].behind /\ next.due = run[p].due
      /\ next.excused = run[p].excused \cap (db.docs \ corpus.docs) /\ next.opt = "plain"
      /\ Idle.pc = "idle" /\ Idle.tree = {} /\ Idle.todo = {} /\ Idle.seen = {} /\ Idle.adv = None
  BY DEF Idle
<1> HIDE DEF next
<1>9. TypeOK
  BY DEF IInv
<1>10. db'.docs = kept /\ db'.ck = db.ck /\ db'.absent = db.absent
  BY <1>6, <1>7
<1>11. CASE Step(p, next) /\ db' = corpus
  <2>1. run'[p] = next /\ \A q \in Procs \ {p} : run'[q] = run[q]
    BY <1>9, <1>11, Moved
  <2> QED BY <1>3, <1>4, <1>5, <1>6, <1>8, <1>10, <1>11, <2>1
<1>12. CASE Step(p, Idle) /\ db' = [corpus EXCEPT !.lock = None]
  <2>1. run'[p] = Idle /\ \A q \in Procs \ {p} : run'[q] = run[q]
    BY <1>9, <1>12, Moved
  <2> QED BY <1>3, <1>4, <1>5, <1>6, <1>8, <1>10, <1>12, <2>1
<1> QED BY <1>7, <1>11, <1>12

LEMMA PruneInv ==
  ASSUME IInv, TypeOK', NEW p \in Procs, Prune(p)
  PROVE  Frame /\ Others(p) /\ IInv'
<1>1. UNCHANGED <<kind, world, raw, lost, overtaken>>
  BY DEF Prune, history
<1>2. (db.docs \ db'.docs) \cap Live \subseteq Mirrored
  <2>1. (db.docs \ db'.docs) \cap Live
          \subseteq IF db.absent THEN {} ELSE run[p].excused \cap Mirrored
    BY PruneStep
  <2> QED BY <2>1
<1>3. Frame
  BY <1>1, <1>2, PruneStep, QuietFrame
<1>4. Own(p)'
  BY PruneStep, EmptyBorn, OwnPlain
<1> QED BY <1>3, <1>4, PruneStep, Settled DEF Others

LEMMA EmbedInv ==
  ASSUME IInv, TypeOK', NEW p \in Procs, Embed(p)
  PROVE  Frame /\ Others(p) /\ IInv'
<1>1. PICK done \in BOOLEAN :
        db' = [Unlocked(p) EXCEPT !.embedded = @ \/ (done /\ db.docs # {})]
  BY DEF Embed
<1>2. Step(p, Idle) /\ UNCHANGED <<kind, world, raw, lost, overtaken>>
  BY DEF Embed, Leave, history
<1>3. TypeOK /\ Unlocked(p) \in Corpora
  BY UnlockedType DEF IInv
<1>4. db'.docs = Unlocked(p).docs /\ db'.ck = Unlocked(p).ck /\ db'.absent = Unlocked(p).absent
      /\ db'.lock = Unlocked(p).lock
  BY <1>1, <1>3 DEF Corpora
<1>5. db'.docs = db.docs /\ db'.ck = db.ck /\ db'.absent = db.absent
      /\ (db'.lock = db.lock \/ db.lock \in {p, None})
  BY <1>3, <1>4, UnlockedType
<1> QED BY <1>2, <1>5, EndInv

LEMMA PublishKeepsInv ==
  ASSUME IInv, TypeOK', NEW p \in Procs, PublishStep(p)
  PROVE  Frame /\ Others(p) /\ IInv'
<1>1. UNCHANGED <<kind, world, raw, lost, overtaken>>
  BY DEF PublishStep, BeginPublish, Vacuum, Stamp, Compress, CreateRelease, history, machine
<1>2. run[p] \in Runs /\ Own(p) /\ db \in Corpora /\ TypeOK
  BY DEF IInv, TypeOK
<1>3. ASSUME NEW stage, Step(p, [run[p] EXCEPT !.pc = stage]),
             stage \in {"stamp", "compress", "create"},
             db' = Unlocked(p) \/ db' = db
      PROVE  Frame /\ Others(p) /\ IInv'
  <2> DEFINE s == [run[p] EXCEPT !.pc = stage]
  <2>1. s.pc = stage /\ s.tree = run[p].tree /\ s.todo = run[p].todo /\ s.seen = run[p].seen
        /\ s.adv = run[p].adv
    BY <1>2 DEF Runs
  <2>2. run'[p] = s /\ \A q \in Procs \ {p} : run'[q] = run[q]
    BY <1>2, <1>3, Moved
  <2> HIDE DEF s
  <2>3. db'.docs = db.docs /\ db'.ck = db.ck /\ db'.absent = db.absent
        /\ (db'.lock = db.lock \/ db.lock \in {p, None})
    BY <1>2, <1>3, UnlockedQuiet
  <2>4. Frame /\ Born' = Born
    BY <1>1, <2>3, QuietFrame
  <2>5. BornInv(p)'
    <3>1. CheckpointOK(run[p].adv)'
      BY <1>2, <2>1, <2>2, <2>4, CheckpointKept DEF CheckpointOK, Own, BornInv
    <3> QED BY <1>2, <2>1, <2>2, <2>4, <3>1 DEF BornInv, Own
  <2>6. Own(p)'
    BY <1>3, <2>1, <2>2, <2>5, OwnPlain
  <2> QED BY <2>2, <2>3, <2>4, <2>6, Settled DEF Others
<1>4. ASSUME Step(p, Idle), db' = Unlocked(p) \/ db' = db PROVE Frame /\ Others(p) /\ IInv'
  <2>1. db'.docs = db.docs /\ db'.ck = db.ck /\ db'.absent = db.absent
        /\ (db'.lock = db.lock \/ db.lock \in {p, None})
    BY <1>2, <1>4, UnlockedQuiet
  <2> QED BY <1>1, <1>4, <2>1, EndInv
<1>5. CASE BeginPublish(p)
  <2> DEFINE s == [Idle EXCEPT !.pc = "vacuum", !.cmd = "publish"]
  <2>1. Step(p, s) /\ db' = [db EXCEPT !.lock = p] /\ db.lock = None
    BY <1>5 DEF BeginPublish
  <2>2. s.pc = "vacuum" /\ s.tree = {} /\ s.todo = {} /\ s.seen = {} /\ s.adv = None
    BY DEF Idle
  <2> HIDE DEF s
  <2>3. run'[p] = s /\ \A q \in Procs \ {p} : run'[q] = run[q]
    BY <1>2, <2>1, Moved
  <2>4. db'.docs = db.docs /\ db'.ck = db.ck /\ db'.absent = db.absent /\ db'.lock = p
    BY <1>2, <2>1 DEF Corpora
  <2>5. Frame
    BY <1>1, <2>4, QuietFrame
  <2>6. Own(p)'
    BY <2>2, <2>3, <2>4, EmptyBorn, OwnPlain
  <2> QED BY <2>1, <2>3, <2>4, <2>5, <2>6, Settled DEF Others
<1>6. CASE Vacuum(p)
  BY <1>3, <1>4, <1>6 DEF Vacuum, Goto, Leave
<1>7. CASE Stamp(p)
  BY <1>3, <1>7 DEF Stamp, Goto, machine
<1>8. CASE Compress(p)
  BY <1>3, <1>4, <1>8 DEF Compress, Goto, Leave, machine
<1>9. CASE CreateRelease(p)
  BY <1>4, <1>9 DEF CreateRelease, Leave, machine
<1> QED BY <1>5, <1>6, <1>7, <1>8, <1>9 DEF PublishStep

LEMMA NextInv == IInv /\ [Next]_vars => IInv'
<1> SUFFICES ASSUME IInv, [Next]_vars PROVE IInv'
  OBVIOUS
<1>1. TypeOK'
  BY NextType DEF IInv
<1>2. CASE UNCHANGED vars
  <2>1. UNCHANGED <<kind, world, raw, lost, overtaken, db, run>>
    BY <1>2 DEF vars
  <2>2. Frame
    BY <2>1, QuietFrame
  <2>3. \A q \in Procs : Own(q)'
    BY <1>1, <2>1, <2>2, OwnKept
  <2> QED BY <1>1, <2>2, <2>3, SharedKept DEF IInv
<1>3. ASSUME NEW d \in Docs, Upstream(d) PROVE IInv'
  BY <1>1, <1>3, UpstreamInv
<1>4. ASSUME NEW p \in Procs, SyncStep(p) PROVE IInv'
  BY <1>1, <1>4, BeginSyncInv, TarballInv, EndWalkInv, EndRepoInv, ShortWalkInv,
     RecordCheckpointInv, ClearFlagInv DEF SyncStep
<1>5. ASSUME NEW p \in Procs, IndexStep(p) PROVE IInv'
  BY <1>1, <1>5, ListRawFilesInv, IndexFilesInv, PruneInv, EmbedInv DEF IndexStep
<1>6. ASSUME NEW p \in Procs, LockRefused(p) \/ Kill(p) \/ PublishStep(p) PROVE IInv'
  BY <1>1, <1>6, KillInv, PublishKeepsInv
<1> QED BY <1>2, <1>3, <1>4, <1>5, <1>6 DEF Next

(* The invariant holds throughout: an index pass, a walk and a checkpoint  *)
(* at every stage account for what is live upstream (IInv).                *)
THEOREM InvariantHolds == Spec => []IInv
<1> QED BY InitInv, NextInv, PTL DEF Spec

(* A checkpoint, recorded before the documents it covers are indexed,      *)
(* never vouches for what no raw file and no row holds (Pipeline's         *)
(* CheckpointHonest).                                                      *)
THEOREM CheckpointNeverLies == Spec => []CheckpointHonest
<1>1. IInv => CheckpointHonest
  BY DEF IInv, SharedInv
<1> QED BY <1>1, InvariantHolds, PTL

(* No error, kill, limit, overlap or downloaded corpus makes an index pass *)
(* delete what is still upstream, but for the two excuses (Pipeline's      *)
(* PruneSound).                                                            *)
THEOREM PruningIsSound == Spec => PruneSound
<1>1. IInv /\ [Next]_vars
        => [\A p \in Procs :
              Prune(p) => (db.docs \ db'.docs) \cap Live
                            \subseteq IF db.absent THEN {} ELSE run[p].excused]_vars
  <2> SUFFICES ASSUME IInv, NEW p \in Procs, Prune(p)
               PROVE  (db.docs \ db'.docs) \cap Live
                        \subseteq IF db.absent THEN {} ELSE run[p].excused
    OBVIOUS
  <2>1. (db.docs \ db'.docs) \cap Live
          \subseteq IF db.absent THEN {} ELSE run[p].excused \cap Mirrored
    BY PruneStep
  <2> QED BY <2>1
<1> QED BY <1>1, InvariantHolds, PTL DEF PruneSound, Spec

(***************************************************************************)
(* Releases.                                                               *)
(***************************************************************************)

LEMMA UpstreamGoesOn ==
  ASSUME TypeOK, [Next]_vars
  PROVE  kind' = kind /\ Born \subseteq Born' /\ Deleted \subseteq Deleted'
<1>1. CASE UNCHANGED <<kind, world>>
  BY <1>1 DEF Born, Live, Deleted
<1>2. ASSUME NEW d \in Docs, Upstream(d)
      PROVE  kind' = kind /\ Born \subseteq Born' /\ Deleted \subseteq Deleted'
  BY <1>2 DEF Upstream, Live, Deleted, Delisted, Born, TypeOK
<1>3. ASSUME NEW p \in Procs, SyncStep(p) PROVE UNCHANGED <<kind, world>>
  BY <1>3 DEF SyncStep, BeginSync, Tarball, EndWalk, EndRepo, EndLimited, SyncFails,
              RecordCheckpoint, ClearFlag
<1>4. ASSUME NEW p \in Procs, IndexStep(p) PROVE UNCHANGED <<kind, world>>
  BY <1>4 DEF IndexStep, ListRawFiles, IndexFiles, Prune, Embed
<1>5. ASSUME NEW p \in Procs, LockRefused(p) \/ Kill(p) \/ PublishStep(p)
      PROVE  UNCHANGED <<kind, world>>
  BY <1>5 DEF LockRefused, Kill, PublishStep, BeginPublish, Vacuum, Stamp, Compress, CreateRelease
<1> QED BY <1>1, <1>2, <1>3, <1>4, <1>5 DEF Next, vars

(* What may be downloaded today may be downloaded tomorrow. *)
LEMMA DownloadsKept ==
  ASSUME kind' = kind, Born \subseteq Born', Deleted \subseteq Deleted'
  PROVE  /\ Downloads \subseteq Downloads'
         /\ \A c : Sound(c) => (/\ c \in Corpora /\ c.docs # {} /\ c.embedded
                               /\ (kind' = "forum" => c.ck # None)
                               /\ c.docs \subseteq Born'
                               /\ (c.ck # None =>
                                     /\ kind' # "feed" /\ c.ck.live \subseteq Born'
                                     /\ c.ck.gone \subseteq (IF kind' = "repo" THEN Deleted' ELSE {})
                                     /\ c.ck.live \cap c.ck.gone = {}))
<1>1. ASSUME NEW c \in Downloads PROVE c \in Downloads'
  BY DEF Downloads, Born
<1>2. \A c : Sound(c) => c.docs \subseteq Born /\ CheckpointOK(c.ck)
  BY DEF Sound, CorpusOK
<1> QED BY <1>1, <1>2 DEF Sound, CheckpointOK

(* Stamping what the vacuum copied makes it fit to be downloaded. *)
LEMMA StampedDownload ==
  ASSUME NEW c, Sound(c), TypeOK
  PROVE  Stamped(c) \in Downloads
<1>1. c \in Corpora /\ c.docs # {} /\ c.embedded /\ (kind = "forum" => c.ck # None)
      /\ c.docs \subseteq Born /\ CheckpointOK(c.ck)
  BY DEF Sound, CorpusOK
<1>2. /\ Stamped(c) \in Corpora /\ Stamped(c).docs = c.docs
      /\ Stamped(c).embedded = c.embedded /\ Stamped(c).ck = c.ck
      /\ Stamped(c).absent /\ Stamped(c).lock = None
  BY <1>1, StampedType
<1> HIDE DEF Stamped
<1> QED BY <1>1, <1>2 DEF Downloads, CheckpointOK, Born

(* The corpus under a vacuum is out of reach of the others. *)
LEMMA SoundKept ==
  ASSUME IInv, IInv', PublishInv, NEW q \in Procs, run[q].pc = "vacuum", kind' = kind,
         (db'.docs = db.docs /\ db'.embedded = db.embedded) \/ db.lock # q,
         db'.ck = db.ck \/ db'.ck # None
  PROVE  Sound(db)'
<1>1. Sound(db) /\ db.lock = q
  BY DEF PublishInv, IInv, Own, LockInv
<1>2. db' \in Corpora /\ CorpusOK(db)'
  BY DEF IInv, TypeOK, SharedInv
<1> QED BY <1>1, <1>2 DEF Sound

(* A step of a command that is not a publish, or of upstream. *)
LEMMA Bystander ==
  ASSUME IInv, IInv', PublishInv, NEW p, [Next]_vars,
         UNCHANGED <<output, clash>>,
         \A q \in Procs \ {p} : run'[q] = run[q],
         p \in Procs => ~ Publishing(p)' /\ run'[p].cmd # "publish",
         (db'.docs = db.docs /\ db'.embedded = db.embedded) \/ db.lock \in {p, None},
         db'.ck = db.ck \/ db'.ck # None
  PROVE  PublishInv'
<1>1. kind' = kind /\ Born \subseteq Born' /\ Deleted \subseteq Deleted'
  BY UpstreamGoesOn DEF IInv
<1>2. Downloads \subseteq Downloads'
  BY <1>1, DownloadsKept
<1>3. ASSUME NEW q \in Procs, Publishing(q)' PROVE q # p /\ run'[q] = run[q] /\ Publishing(q)
  BY <1>3 DEF Publishing
<1>4. \A q \in Procs : run'[q].cmd = "publish" => Publishing(q)'
  BY DEF PublishInv, Publishing
<1>5. ASSUME NEW q \in Procs, run'[q].pc = "vacuum" PROVE Sound(db)'
  <2>1. q # p /\ run[q].pc = "vacuum"
    BY <1>3, <1>5 DEF Publishing
  <2>2. db.lock = q
    BY <2>1 DEF IInv, Own, LockInv
  <2>3. (db'.docs = db.docs /\ db'.embedded = db.embedded) \/ db.lock # q
    BY <2>1, <2>2, PipelineAssumption DEF PipelineAssumption
  <2> QED BY <2>1, <2>3, <1>1, SoundKept
<1>6. ASSUME ~ clash'
      PROVE  /\ \A q, t \in Procs : Publishing(q)' /\ Publishing(t)' => q = t
             /\ \A q \in Procs :
                  /\ run'[q].pc = "stamp" => snap' # None /\ Sound(snap)'
                  /\ run'[q].pc = "compress" => snap' \in Downloads'
                  /\ run'[q].pc = "create" => art' \in Downloads'
             /\ release' # None => release' \in Downloads'
  <2>1. ~ clash /\ snap' = snap /\ art' = art /\ release' = release
    BY <1>6 DEF output
  <2>2. \A q, t \in Procs : Publishing(q)' /\ Publishing(t)' => q = t
    BY <1>3, <2>1 DEF PublishInv
  <2>3. ASSUME NEW q \in Procs
        PROVE  /\ run'[q].pc = "stamp" => snap' # None /\ Sound(snap)'
               /\ run'[q].pc = "compress" => snap' \in Downloads'
               /\ run'[q].pc = "create" => art' \in Downloads'
    <3>1. run'[q].pc \in {"stamp", "compress", "create"} => run'[q] = run[q]
      BY <1>3 DEF Publishing
    <3>2. /\ run[q].pc = "stamp" => snap # None /\ Sound(snap)
          /\ run[q].pc = "compress" => snap \in Downloads
          /\ run[q].pc = "create" => art \in Downloads
      BY <2>1 DEF PublishInv
    <3>3. Sound(snap) => Sound(snap)'
      BY <1>1, <2>1, DownloadsKept DEF Sound, CorpusOK, CheckpointOK
    <3> QED BY <3>1, <3>2, <3>3, <2>1, <1>2
  <2>4. release' # None => release' \in Downloads'
    BY <1>2, <2>1 DEF PublishInv
  <2> QED BY <2>2, <2>3, <2>4
<1> QED BY <1>4, <1>5, <1>6, Zenon DEF PublishInv

LEMMA SyncBystander ==
  ASSUME IInv, IInv', PublishInv, [Next]_vars, NEW p \in Procs, SyncStep(p)
  PROVE  PublishInv'
<1>1. UNCHANGED <<output, clash>>
  BY DEF SyncStep, BeginSync, Tarball, EndWalk, EndRepo, EndLimited, SyncFails,
         RecordCheckpoint, ClearFlag, history
<1>2. db \in Corpora /\ run[p] \in Runs /\ TypeOK
  BY DEF IInv, TypeOK
<1>3. /\ db'.docs = db.docs /\ db'.embedded = db.embedded
      /\ db'.ck = db.ck \/ db'.ck # None
  <2>1. \/ db' = db
        \/ run[p].adv # None /\ db' = [db EXCEPT !.ck = run[p].adv]
        \/ db' = [db EXCEPT !.absent = FALSE]
    BY DEF SyncStep, BeginSync, Tarball, EndWalk, EndRepo, EndLimited, SyncFails,
           RecordCheckpoint, ClearFlag, machine
  <2> QED BY <2>1, <1>2 DEF Corpora
<1>4. ASSUME NEW r, Step(p, r), r.cmd # "publish",
             r.pc \notin {"vacuum", "stamp", "compress", "create"}
      PROVE  PublishInv'
  <2>1. run'[p] = r /\ \A q \in Procs \ {p} : run'[q] = run[q]
    BY <1>2, <1>4, Moved
  <2> QED BY <1>1, <1>3, <1>4, <2>1, Bystander DEF Publishing
<1>5. \A ok : /\ AfterSync(p, ok).cmd # "publish"
              /\ AfterSync(p, ok).pc \in {"idle", "lock"}
  BY DEF AfterSync, Idle
<1>6. run[p].pc \in {"tarball", "fetch", "checkpoint", "flag"} => run[p].cmd # "publish"
  BY DEF PublishInv, Publishing
<1>7. ASSUME NEW cmd \in {"sync", "update"}, NEW opt \in OptionsOf(kind), BeginSync(p, cmd, opt)
      PROVE  PublishInv'
  <2> DEFINE r == [Idle EXCEPT
                     !.cmd = cmd, !.opt = opt, !.flag = db.absent,
                     !.owed = IF cmd = "update" /\ kind # "feed" /\ ~ db.absent
                                THEN Deleted \cup Delisted ELSE {},
                     !.due = IF cmd = "update" THEN Live ELSE {}]
             todo == IF kind = "forum" THEN ForumTodo(cmd, opt) ELSE Live \ raw
             s == IF Shortcut(opt) THEN [r EXCEPT !.pc = "checkpoint"]
                  ELSE IF kind = "repo" THEN [r EXCEPT !.pc = "tarball", !.adv = Head]
                  ELSE [r EXCEPT !.pc = "fetch", !.adv = Head, !.todo = todo]
  <2>1. Step(p, s)
    BY <1>7 DEF BeginSync
  <2>2. s.cmd = cmd /\ s.pc \in {"checkpoint", "tarball", "fetch"}
    BY DEF Idle
  <2> HIDE DEF s
  <2> QED BY <2>1, <2>2, <1>4
<1>8. CASE Tarball(p)
  <2> DEFINE s == [run[p] EXCEPT !.pc = "fetch", !.tree = Live, !.todo = Live \ raw]
  <2>1. Step(p, s) /\ run[p].cmd # "publish"
    BY <1>6, <1>8 DEF Tarball, At
  <2>2. s.cmd = run[p].cmd /\ s.pc = "fetch"
    BY <1>2 DEF Runs
  <2> HIDE DEF s
  <2> QED BY <2>1, <2>2, <1>4
<1>9. CASE EndWalk(p)
  <2>1. PICK adv : Step(p, [run[p] EXCEPT !.pc = "checkpoint", !.todo = {}, !.adv = adv])
    BY <1>9 DEF EndWalk
  <2> DEFINE s == [run[p] EXCEPT !.pc = "checkpoint", !.todo = {}, !.adv = adv]
  <2>2. s.cmd = run[p].cmd /\ s.pc = "checkpoint"
    BY <1>2 DEF Runs
  <2>3. run[p].cmd # "publish"
    BY <1>6, <1>9 DEF EndWalk, At
  <2> HIDE DEF s
  <2> QED BY <2>1, <2>2, <2>3, <1>4 DEF s
<1>10. CASE EndRepo(p)
  <2> DEFINE s == [run[p] EXCEPT !.pc = "checkpoint", !.todo = {}, !.tree = {}]
  <2>1. Step(p, s) /\ run[p].cmd # "publish"
    BY <1>6, <1>10 DEF EndRepo, At
  <2>2. s.cmd = run[p].cmd /\ s.pc = "checkpoint"
    BY <1>2 DEF Runs
  <2> HIDE DEF s
  <2> QED BY <2>1, <2>2, <1>4
<1>11. CASE EndLimited(p)
  <2> DEFINE s == [run[p] EXCEPT !.pc = "checkpoint", !.adv = None, !.todo = {}, !.tree = {}]
  <2>1. Step(p, s) /\ run[p].cmd # "publish"
    BY <1>6, <1>11 DEF EndLimited, At
  <2>2. s.cmd = run[p].cmd /\ s.pc = "checkpoint"
    BY <1>2 DEF Runs
  <2> HIDE DEF s
  <2> QED BY <2>1, <2>2, <1>4
<1>12. CASE SyncFails(p) \/ ClearFlag(p)
  <2>1. \E ok : Step(p, AfterSync(p, ok))
    BY <1>12 DEF SyncFails, ClearFlag
  <2> QED BY <2>1, <1>5, <1>4
<1>13. CASE RecordCheckpoint(p)
  <2> DEFINE s == [run[p] EXCEPT !.pc = "flag"]
             t == [run[p] EXCEPT !.pc = "flag", !.ok = FALSE]
  <2>1. (Step(p, s) \/ Step(p, t)) /\ run[p].cmd # "publish"
    BY <1>6, <1>13 DEF RecordCheckpoint, Goto, At
  <2>2. s.cmd = run[p].cmd /\ s.pc = "flag" /\ t.cmd = run[p].cmd /\ t.pc = "flag"
    BY <1>2 DEF Runs
  <2> HIDE DEF s, t
  <2> QED BY <2>1, <2>2, <1>4
<1> QED BY <1>7, <1>8, <1>9, <1>10, <1>11, <1>12, <1>13 DEF SyncStep

LEMMA IndexBystander ==
  ASSUME IInv, IInv', PublishInv, [Next]_vars, NEW p \in Procs, IndexStep(p)
  PROVE  PublishInv'
<1>1. UNCHANGED <<output, clash>>
  BY DEF IndexStep, ListRawFiles, IndexFiles, Prune, Embed, history
<1>2. db \in Corpora /\ run[p] \in Runs /\ TypeOK /\ Own(p)
  BY DEF IInv, TypeOK
<1>3. ASSUME NEW r, Step(p, r), r.cmd # "publish", db'.ck = db.ck,
             (db'.docs = db.docs /\ db'.embedded = db.embedded) \/ db.lock = p,
             r.pc \notin {"vacuum", "stamp", "compress", "create"}
      PROVE  PublishInv'
  <2>1. run'[p] = r /\ \A q \in Procs \ {p} : run'[q] = run[q]
    BY <1>2, <1>3, Moved
  <2> QED BY <1>1, <1>3, <2>1, Bystander DEF Publishing
<1>4. run[p].pc \in {"files", "prune", "embed"} => db.lock = p /\ run[p].cmd # "publish"
  BY <1>2 DEF Own, LockInv, PublishInv, Publishing
<1>5. Idle.cmd = "sync" /\ Idle.pc = "idle"
  BY DEF Idle
<1>6. CASE ListRawFiles(p)
  <2>1. db' = [db EXCEPT !.lock = p]
    BY <1>6 DEF ListRawFiles
  <2>2. db'.docs = db.docs /\ db'.embedded = db.embedded /\ db'.ck = db.ck
    BY <2>1, <1>2 DEF Corpora
  <2> DEFINE cmd == IF At(p, "lock") THEN "update" ELSE "index"
             behind == IF cmd = "index" THEN {} ELSE IF mirror THEN overtaken ELSE Docs
             r == [run[p] EXCEPT !.cmd = cmd, !.behind = behind,
                                 !.due = run[p].due \ (overtaken \cup lost)]
             listed == [r EXCEPT !.pc = "files", !.seen = raw,
                                 !.excused = IF db.absent THEN Docs ELSE overtaken]
  <2>3. \/ Step(p, listed)
        \/ \E ok \in {r.ok, FALSE} : Step(p, [r EXCEPT !.pc = "embed", !.ok = ok])
    BY <1>6, Zenon DEF ListRawFiles
  <2>4. r \in Runs /\ r.cmd # "publish"
    <3>1. behind \subseteq Docs
      BY DEF IInv, TypeOK
    <3> HIDE DEF behind
    <3> QED BY <1>2, <3>1 DEF Runs
  <2> HIDE DEF r
  <2>5. /\ listed.cmd = r.cmd /\ listed.pc = "files"
        /\ \A ok : LET e == [r EXCEPT !.pc = "embed", !.ok = ok]
                   IN  e.cmd = r.cmd /\ e.pc = "embed"
    BY <2>4 DEF Runs
  <2> HIDE DEF listed
  <2> QED BY <2>2, <2>3, <2>4, <2>5, <1>3
<1>7. CASE IndexFiles(p)
  <2>1. PICK good, errors, embedded :
          /\ db' = [db EXCEPT !.docs = db.docs \cup good, !.embedded = embedded]
          /\ Step(p, [run[p] EXCEPT !.pc = "prune", !.seen = good, !.errors = errors])
    BY <1>7 DEF IndexFiles
  <2> DEFINE s == [run[p] EXCEPT !.pc = "prune", !.seen = good, !.errors = errors]
  <2>2. s.cmd = run[p].cmd /\ s.pc = "prune" /\ db'.ck = db.ck
    BY <2>1, <1>2 DEF Runs, Corpora
  <2>3. db.lock = p /\ run[p].cmd # "publish"
    BY <1>4, <1>7 DEF IndexFiles, At
  <2> HIDE DEF s
  <2> QED BY <2>1, <2>2, <2>3, <1>3 DEF s
<1>8. CASE Prune(p)
  <2>1. db.lock = p /\ db'.ck = db.ck
    BY <1>8, PruneStep
  <2>2. PICK ok, owed, behind, due, excused :
          \/ Step(p, Idle)
          \/ Step(p, [Idle EXCEPT !.pc = "embed", !.cmd = "update", !.ok = ok,
                                  !.owed = owed, !.behind = behind, !.due = due,
                                  !.excused = excused])
    BY <1>8 DEF Prune, EndIndex, Leave
  <2> DEFINE s == [Idle EXCEPT !.pc = "embed", !.cmd = "update", !.ok = ok,
                               !.owed = owed, !.behind = behind, !.due = due,
                               !.excused = excused]
  <2>3. s.cmd = "update" /\ s.pc = "embed"
    BY DEF Idle
  <2> HIDE DEF s
  <2> QED BY <2>1, <2>2, <2>3, <1>3, <1>5 DEF s
<1>9. CASE Embed(p)
  <2>1. db.lock = p
    BY <1>4, <1>9 DEF Embed, At
  <2>2. db'.ck = db.ck
    BY <1>2, <1>9, UnlockedType DEF Embed, Corpora
  <2>3. Step(p, Idle)
    BY <1>9 DEF Embed, Leave
  <2> QED BY <2>1, <2>2, <2>3, <1>3, <1>5
<1> QED BY <1>6, <1>7, <1>8, <1>9 DEF IndexStep

LEMMA QuietBystander ==
  ASSUME IInv, IInv', PublishInv, [Next]_vars,
         UNCHANGED vars \/ (\E d \in Docs : Upstream(d)) \/ (\E p \in Procs : LockRefused(p))
  PROVE  PublishInv'
<1>1. UNCHANGED <<output, clash, db>>
  BY DEF vars, Upstream, LockRefused, output, machine, history
<1>2. None \notin Procs
  BY PipelineAssumption DEF PipelineAssumption
<1>3. CASE run' = run
  BY <1>1, <1>2, <1>3, Bystander
<1>4. ASSUME NEW p \in Procs, LockRefused(p) PROVE PublishInv'
  <2>1. Step(p, Idle) /\ TypeOK
    BY <1>4 DEF LockRefused, Leave, IInv
  <2>2. run'[p] = Idle /\ \A q \in Procs \ {p} : run'[q] = run[q]
    BY <2>1, Moved
  <2> QED BY <1>1, <2>2, Bystander DEF Publishing, Idle
<1> QED BY <1>3, <1>4 DEF vars, Upstream

(* A step of a publish: nobody else has its files, or there was a clash.   *)
LEMMA Publisher ==
  ASSUME IInv, IInv', PublishInv, [Next]_vars, NEW p \in Procs,
         \A q \in Procs \ {p} : run'[q] = run[q],
         run'[p].cmd = "publish" => Publishing(p)',
         db'.docs = db.docs, db'.embedded = db.embedded, db'.ck = db.ck,
         run'[p].pc = "vacuum" => Sound(db),
         ~ clash' => /\ \A q \in Procs \ {p} : ~ Publishing(q)
                     /\ run'[p].pc = "stamp" => snap' # None /\ Sound(snap)'
                     /\ run'[p].pc = "compress" => snap' \in Downloads'
                     /\ run'[p].pc = "create" => art' \in Downloads'
                     /\ release' # None => release' \in Downloads'
  PROVE  PublishInv'
<1>1. kind' = kind
  BY UpstreamGoesOn DEF IInv
<1>2. Sound(db) => Sound(db)'
  BY <1>1 DEF IInv, TypeOK, SharedInv, Sound
<1>3. \A q \in Procs \ {p} : Publishing(q)' <=> Publishing(q)
  BY DEF Publishing
<1>4. \A q \in Procs : run'[q].cmd = "publish" => Publishing(q)'
  BY <1>3 DEF PublishInv
<1>5. \A q \in Procs : run'[q].pc = "vacuum" => Sound(db)'
  BY <1>2 DEF PublishInv
<1>6. ASSUME ~ clash'
      PROVE  /\ \A q, t \in Procs : Publishing(q)' /\ Publishing(t)' => q = t
             /\ \A q \in Procs :
                  /\ run'[q].pc = "stamp" => snap' # None /\ Sound(snap)'
                  /\ run'[q].pc = "compress" => snap' \in Downloads'
                  /\ run'[q].pc = "create" => art' \in Downloads'
             /\ release' # None => release' \in Downloads'
  <2>1. \A q \in Procs : Publishing(q)' => q = p
    BY <1>3, <1>6
  <2>2. \A q \in Procs : run'[q].pc \in {"stamp", "compress", "create"} => q = p
    BY <2>1 DEF Publishing
  <2> QED BY <1>6, <2>1, <2>2
<1> QED BY <1>4, <1>5, <1>6, Zenon DEF PublishInv

LEMMA PublishStepInv ==
  ASSUME IInv, IInv', PublishInv, [Next]_vars, NEW p \in Procs, PublishStep(p) \/ Kill(p)
  PROVE  PublishInv'
<1>1. db \in Corpora /\ run[p] \in Runs /\ TypeOK /\ Own(p)
  BY DEF IInv, TypeOK
<1>2. kind' = kind /\ Born \subseteq Born' /\ Deleted \subseteq Deleted'
  BY <1>1, UpstreamGoesOn
<1>3. /\ Downloads \subseteq Downloads'
      /\ \A c : Sound(c) => c \in Corpora /\ c.docs # {} /\ c.embedded
  BY <1>2, DownloadsKept DEF Sound
<1>4. \A stage \in {"stamp", "compress", "create"} :
        [run[p] EXCEPT !.pc = stage].pc = stage
  BY <1>1 DEF Runs
<1>5. Idle.pc = "idle" /\ Idle.cmd = "sync"
  BY DEF Idle
<1>6. ~ clash => (release # None => release \in Downloads')
  BY <1>3 DEF PublishInv
<1>7. ~ clash /\ Publishing(p) => \A q \in Procs \ {p} : ~ Publishing(q)
  BY DEF PublishInv
<1>8. CASE BeginPublish(p)
  <2> DEFINE s == [Idle EXCEPT !.pc = "vacuum", !.cmd = "publish"]
  <2>1. s.pc = "vacuum" /\ s.cmd = "publish"
    BY DEF Idle
  <2>2. Step(p, s) /\ db' = [db EXCEPT !.lock = p] /\ db.lock = None /\ Publishable
        /\ release' = release
        /\ clash' = (clash \/ \E q \in Procs : run[q].pc \in {"stamp", "compress", "create"})
    BY <1>8 DEF BeginPublish
  <2> HIDE DEF s
  <2>3. run'[p] = s /\ \A q \in Procs \ {p} : run'[q] = run[q]
    BY <1>1, <2>2, Moved
  <2>4. db'.docs = db.docs /\ db'.embedded = db.embedded /\ db'.ck = db.ck
    BY <1>1, <2>2 DEF Corpora
  <2>5. Sound(db)
    BY <1>1, <2>2 DEF Publishable, Sound, IInv, SharedInv
  <2>6. \A q \in Procs : run[q].pc # "vacuum"
    BY <2>2, PipelineAssumption DEF IInv, Own, LockInv, PipelineAssumption
  <2>7. ~ clash' => \A q \in Procs \ {p} : ~ Publishing(q)
    BY <2>2, <2>6 DEF Publishing
  <2>8. ~ clash' => ~ clash
    BY <2>2
  <2> QED BY <1>6, <2>1, <2>2, <2>3, <2>4, <2>5, <2>7, <2>8, Publisher DEF Publishing
<1>9. CASE Vacuum(p)
  <2>1. /\ run[p].pc = "vacuum" /\ db' = Unlocked(p) /\ release' = release /\ clash' = clash
        /\ \/ snap' = db /\ Step(p, [run[p] EXCEPT !.pc = "stamp"])
           \/ Step(p, Idle)
    BY <1>9 DEF Vacuum, At, Goto, Leave, history
  <2>2. db'.docs = db.docs /\ db'.embedded = db.embedded /\ db'.ck = db.ck
    BY <1>1, <2>1, UnlockedType
  <2>3. Publishing(p) /\ Sound(db)
    BY <2>1 DEF Publishing, PublishInv
  <2>4. CASE Step(p, Idle)
    <3>1. run'[p] = Idle /\ \A q \in Procs \ {p} : run'[q] = run[q]
      BY <1>1, <2>4, Moved
    <3> QED BY <1>5, <1>6, <1>7, <2>1, <2>2, <2>3, <3>1, Publisher
  <2>5. CASE snap' = db /\ Step(p, [run[p] EXCEPT !.pc = "stamp"]) /\ snap = None
    <3>1. /\ run'[p] = [run[p] EXCEPT !.pc = "stamp"]
          /\ \A q \in Procs \ {p} : run'[q] = run[q]
      BY <1>1, <2>5, Moved
    <3>2. run'[p].pc = "stamp"
      BY <1>4, <3>1
    <3>3. Sound(snap)'
      BY <1>2, <2>3, <2>5 DEF Sound, CorpusOK, CheckpointOK
    <3>4. snap' # None
      BY <1>1, <2>5, NoneAssumption DEF NoneAssumption
    <3> QED BY <1>6, <1>7, <2>1, <2>2, <2>3, <2>5, <3>1, <3>2, <3>3, <3>4, Publisher DEF Publishing
  <2> QED BY <2>4, <2>5, <1>9 DEF Vacuum, Goto, Leave
<1>10. CASE Stamp(p)
  <2>1. /\ run[p].pc = "stamp" /\ db' = db /\ release' = release /\ clash' = clash
        /\ snap' = Stamped(IF snap = None THEN NewCorpus ELSE snap)
        /\ Step(p, [run[p] EXCEPT !.pc = "compress"])
    BY <1>10 DEF Stamp, At, Goto, history, machine
  <2>2. /\ run'[p] = [run[p] EXCEPT !.pc = "compress"]
        /\ \A q \in Procs \ {p} : run'[q] = run[q]
    BY <1>1, <2>1, Moved
  <2>3. run'[p].pc = "compress" /\ Publishing(p)
    BY <1>4, <2>1, <2>2 DEF Publishing
  <2>4. ~ clash => snap' \in Downloads'
    <3>1. ~ clash => snap # None /\ Sound(snap)
      BY <2>1 DEF PublishInv
    <3> QED BY <3>1, <2>1, <1>1, <1>3, StampedDownload
  <2> QED BY <1>6, <1>7, <2>1, <2>2, <2>3, <2>4, Publisher DEF Publishing
<1>11. CASE Compress(p)
  <2>1. /\ run[p].pc = "compress" /\ db' = db /\ release' = release /\ clash' = clash
        /\ \/ art' = snap /\ Step(p, [run[p] EXCEPT !.pc = "create"])
           \/ Step(p, Idle)
    BY <1>11 DEF Compress, At, Goto, Leave, history, machine
  <2>2. Publishing(p)
    BY <2>1 DEF Publishing
  <2>3. CASE Step(p, Idle)
    <3>1. run'[p] = Idle /\ \A q \in Procs \ {p} : run'[q] = run[q]
      BY <1>1, <2>3, Moved
    <3> QED BY <1>5, <1>6, <1>7, <2>1, <2>2, <3>1, Publisher
  <2>4. CASE art' = snap /\ Step(p, [run[p] EXCEPT !.pc = "create"])
    <3>1. /\ run'[p] = [run[p] EXCEPT !.pc = "create"]
          /\ \A q \in Procs \ {p} : run'[q] = run[q]
      BY <1>1, <2>4, Moved
    <3>2. run'[p].pc = "create"
      BY <1>4, <3>1
    <3>3. ~ clash => art' \in Downloads'
      BY <1>3, <2>1, <2>4 DEF PublishInv
    <3> QED BY <1>6, <1>7, <2>1, <2>2, <3>1, <3>2, <3>3, Publisher DEF Publishing
  <2> QED BY <2>1, <2>3, <2>4
<1>12. CASE CreateRelease(p)
  <2>1. /\ run[p].pc = "create" /\ db' = db /\ clash' = clash
        /\ release' = art \/ release' = release
        /\ Step(p, Idle)
    BY <1>12 DEF CreateRelease, At, Leave, history, machine
  <2>2. run'[p] = Idle /\ \A q \in Procs \ {p} : run'[q] = run[q]
    BY <1>1, <2>1, Moved
  <2>3. Publishing(p)
    BY <2>1 DEF Publishing
  <2>4. ~ clash => (release' # None => release' \in Downloads')
    BY <1>3, <1>6, <2>1 DEF PublishInv
  <2> QED BY <1>5, <1>7, <2>1, <2>2, <2>3, <2>4, Publisher
<1>13. CASE Kill(p)
  <2>1. /\ Step(p, Idle) /\ db' = Unlocked(p) /\ release' = release /\ clash' = clash
        /\ run[p].cmd # "publish" => snap' = snap /\ art' = art
    BY <1>13 DEF Kill, Leave, history
  <2>2. run'[p] = Idle /\ \A q \in Procs \ {p} : run'[q] = run[q]
    BY <1>1, <2>1, Moved
  <2>3. db'.docs = db.docs /\ db'.embedded = db.embedded /\ db'.ck = db.ck
    BY <1>1, <2>1, UnlockedType
  <2>4. CASE run[p].cmd = "publish"
    <3>1. Publishing(p)
      BY <2>4 DEF PublishInv
    <3> QED BY <1>5, <1>6, <1>7, <2>1, <2>2, <2>3, <3>1, Publisher
  <2>5. CASE run[p].cmd # "publish"
    <3>1. UNCHANGED <<output, clash>>
      BY <2>1, <2>5 DEF output
    <3> QED BY <1>5, <2>2, <2>3, <3>1, Bystander DEF Publishing
  <2> QED BY <2>4, <2>5
<1> QED BY <1>8, <1>9, <1>10, <1>11, <1>12, <1>13 DEF PublishStep

(* Whatever is killed or overlaps, a release a publish makes is a corpus   *)
(* another machine can start from, unless two publishes of one tag have    *)
(* clashed (Pipeline's ReleaseUsable).                                     *)
THEOREM ReleasesAreUsable == Spec => []ReleaseUsable
<1>1. Init => PublishInv
  <2> SUFFICES ASSUME Init PROVE PublishInv
    OBVIOUS
  <2>1. \A p \in Procs : run[p] = Idle
    BY DEF Init
  <2>2. Idle.pc = "idle" /\ Idle.cmd = "sync"
    BY DEF Idle
  <2> QED BY <2>1, <2>2 DEF PublishInv, Publishing, Init
<1>2. PublishInv /\ IInv /\ IInv' /\ [Next]_vars => PublishInv'
  BY SyncBystander, IndexBystander, QuietBystander, PublishStepInv DEF Next
<1>3. PublishInv => ReleaseUsable
  BY DEF PublishInv, ReleaseUsable
<1> QED BY <1>1, <1>2, <1>3, InvariantHolds, PTL DEF Spec

(***************************************************************************)
(* What an update owes.                                                    *)
(***************************************************************************)

(* A deleted document that comes back to the mirror is known to be         *)
(* overtaken; the directory stays, the flag does not return.               *)
DutyFrame ==
  /\ raw' \cap Deleted \subseteq overtaken' \cup (raw \ overtaken)
  /\ raw' # {} \/ mirror => mirror'
  /\ ~ db.absent => ~ db'.absent
  /\ db'.ck # None => db'.ck.gone \cap raw \subseteq overtaken

LEMMA GoneKept ==
  ASSUME Frame, DutyFrame
  PROVE  GoneInv'
<1>1. db'.ck # None => db'.ck.gone \subseteq Deleted
  BY DEF Frame, CheckpointOK
<1> QED BY <1>1 DEF DutyFrame, GoneInv

LEMMA DutyKept ==
  ASSUME IInv, Frame, DutyFrame, NEW q \in Procs, Duty(q), run'[q] = run[q],
         db'.docs = db.docs \/ db.lock # q
  PROVE  Duty(q)'
<1> DEFINE r == run[q]
<1>1. run'[q] = r /\ kind' = kind
  BY DEF Frame
<1>2. DebtInv(q) /\ RemovalInv(q) /\ DeliveryInv(q) /\ BornInv(q)
  BY DEF Duty, IInv, Own
<1>3. r.owed \subseteq Deleted \cup Delisted /\ r.due \subseteq Born
  BY <1>2 DEF DebtInv
<1>4. DebtInv(q)'
  BY <1>1, <1>2 DEF DebtInv, Frame, DutyFrame
<1>5. /\ r.owed \cap raw' \subseteq Delisted' \cup overtaken' \cup (raw \ overtaken)
      /\ Delisted \subseteq Delisted'
      /\ r.due \cap Live' \subseteq Live
      /\ Accounted \cap Live' \subseteq Accounted'
      /\ mirror => mirror'
  BY <1>3 DEF Frame, DutyFrame
<1>6. kind = "repo" /\ r.adv # None => r.adv.gone \cap raw' \subseteq overtaken' \cup (raw \ overtaken)
  <2>1. kind = "repo" /\ r.adv # None => r.adv.gone \subseteq Deleted
    BY <1>2 DEF BornInv, CheckpointOK
  <2> QED BY <2>1 DEF DutyFrame
<1>7. r.pc = "embed" => db'.docs = db.docs
  BY DEF IInv, Own, LockInv
<1>8. r.pc \in {"files", "prune"} => db'.docs = db.docs
  BY DEF IInv, Own, LockInv
<1> HIDE DEF r
<1>9. RemovalInv(q)'
  BY <1>1, <1>2, <1>5, <1>6, <1>7 DEF RemovalInv, r
<1>10. DeliveryInv(q)'
  BY <1>1, <1>2, <1>5, <1>7, <1>8 DEF DeliveryInv, r
<1> QED BY <1>4, <1>9, <1>10 DEF Duty

LEMMA DutySettled ==
  ASSUME IInv, DutyInv, Frame, DutyFrame, NEW p \in Procs, Others(p), Duty(p)'
  PROVE  DutyInv'
<1>1. ASSUME NEW q \in Procs, q # p PROVE Duty(q)'
  <2>1. run'[q] = run[q] /\ (db'.docs = db.docs \/ db.lock # q)
    BY <1>1 DEF Others
  <2> QED BY <2>1, DutyKept DEF DutyInv
<1> QED BY <1>1, GoneKept DEF DutyInv

(* Most steps leave the mirror alone. *)
LEMMA QuietDuty ==
  ASSUME TypeOK, DutyInv, UNCHANGED <<raw, overtaken>>, mirror => mirror',
         db'.ck = db.ck \/ (db'.ck # None => db'.ck.gone \cap raw \subseteq overtaken),
         db'.absent = db.absent \/ ~ db'.absent
  PROVE  DutyFrame
BY DEF DutyFrame, DutyInv, GoneInv

LEMMA IdleDuty ==
  ASSUME NEW p, run'[p].pc \notin {"tarball", "fetch", "checkpoint", "flag", "lock", "files",
                                  "prune", "embed"},
         run'[p].owed = {}, run'[p].due = {}
  PROVE  Duty(p)'
BY DEF Duty, DebtInv, RemovalInv, DeliveryInv

LEMMA AfterSyncDuty ==
  ASSUME NEW p \in Procs, NEW ok, Duty(p), Frame, DutyFrame, run'[p] = AfterSync(p, ok),
         ok => /\ run[p].owed \cap raw' \subseteq Delisted' \cup overtaken'
               /\ run[p].due \cap Live' \subseteq Accounted'
  PROVE  Duty(p)'
<1>1. CASE run[p].cmd = "sync"
  <2>1. run'[p] = Idle
    BY <1>1 DEF AfterSync
  <2> QED BY <2>1, IdleDuty DEF Idle
<1>2. CASE run[p].cmd # "sync"
  <2>1. /\ run'[p].pc = "lock" /\ run'[p].ok = ok /\ run'[p].owed = run[p].owed
        /\ run'[p].due = run[p].due /\ run'[p].opt = "plain" /\ run'[p].adv = None
    BY <1>2 DEF AfterSync, Idle
  <2>2. /\ run[p].owed \subseteq Deleted' \cup Delisted' /\ run[p].due \subseteq Born'
        /\ run[p].owed # {} => kind' # "feed" /\ ~ db'.absent
    BY DEF Duty, DebtInv, Frame, DutyFrame
  <2>3. DebtInv(p)'
    BY <2>1, <2>2 DEF DebtInv
  <2>4. RemovalInv(p)'
    BY <2>1 DEF RemovalInv
  <2>5. DeliveryInv(p)'
    BY <2>1 DEF DeliveryInv
  <2> QED BY <2>3, <2>4, <2>5 DEF Duty
<1> QED BY <1>1, <1>2

LEMMA BeginSyncDuty ==
  ASSUME IInv, DutyInv, Frame, NEW p \in Procs, Others(p), NEW cmd \in {"sync", "update"},
         NEW opt \in OptionsOf(kind), BeginSync(p, cmd, opt)
  PROVE  DutyInv'
<1> DEFINE owed == IF cmd = "update" /\ kind # "feed" /\ ~ db.absent THEN Deleted \cup Delisted ELSE {}
           due == IF cmd = "update" THEN Live ELSE {}
           r == [Idle EXCEPT !.cmd = cmd, !.opt = opt, !.flag = db.absent,
                             !.owed = owed, !.due = due]
           todo == IF kind = "forum" THEN ForumTodo(cmd, opt) ELSE Live \ raw
           s == IF Shortcut(opt) THEN [r EXCEPT !.pc = "checkpoint"]
                ELSE IF kind = "repo" THEN [r EXCEPT !.pc = "tarball", !.adv = Head]
                ELSE [r EXCEPT !.pc = "fetch", !.adv = Head, !.todo = todo]
<1>1. /\ Step(p, s) /\ UNCHANGED <<kind, world, raw, db, lost, overtaken>>
      /\ mirror' = (mirror \/ kind # "repo") /\ (cmd = "update" => opt = "plain")
  BY DEF BeginSync, history
<1>2. TypeOK /\ GoneInv /\ Covered(db.ck) \cap Live \subseteq Accounted
  BY DEF IInv, DutyInv, SharedInv, CheckpointHonest, Accounted
<1>3. run'[p] = s
  BY <1>1, <1>2, Moved
<1>4. Live' = Live /\ Deleted' = Deleted /\ Delisted' = Delisted /\ Born' = Born /\ Accounted' = Accounted
  BY <1>1 DEF Live, Deleted, Delisted, Born, Accounted
<1>5. DutyFrame
  <2>1. mirror => mirror'
    BY <1>1
  <2> QED BY <1>1, <1>2, <2>1, QuietDuty
<1>6. /\ owed \subseteq Deleted \cup Delisted /\ due \subseteq Live
      /\ owed # {} => kind # "feed" /\ ~ db.absent /\ cmd = "update"
      /\ owed # {} \/ due # {} => opt = "plain"
  BY <1>1
<1> HIDE DEF owed, due
<1>7. r.opt = opt /\ r.owed = owed /\ r.due = due /\ r.adv = None
  BY DEF Idle
<1>8. /\ s.opt = opt /\ s.owed = owed /\ s.due = due
      /\ s.pc = IF Shortcut(opt) THEN "checkpoint" ELSE IF kind = "repo" THEN "tarball" ELSE "fetch"
      /\ s.adv = IF Shortcut(opt) THEN None ELSE Head
      /\ s.pc = "fetch" => s.todo = todo
  BY DEF Idle
<1> HIDE DEF r, s, todo
<1>9. DebtInv(p)'
  BY <1>1, <1>3, <1>4, <1>6, <1>8, LiveBorn DEF DebtInv, Shortcut
<1>10. CASE Shortcut(opt)
  <2>1. kind = "repo" /\ db.ck = [live |-> Live, gone |-> Deleted]
    BY <1>10 DEF Shortcut, RepoHead
  <2>2. db.ck # None
    BY <2>1, LiveType, NoneAssumption DEF NoneAssumption, Heads
  <2>3. Deleted \cap raw \subseteq overtaken /\ Live \subseteq Accounted
    BY <1>2, <2>1, <2>2 DEF GoneInv, Covered
  <2>4. RemovalInv(p)' /\ DeliveryInv(p)'
    BY <1>1, <1>3, <1>4, <1>6, <1>8, <1>10, <2>1, <2>3 DEF RemovalInv, DeliveryInv
  <2> QED BY <1>5, <1>9, <2>4, DutySettled DEF Duty
<1>11. CASE ~ Shortcut(opt) /\ kind = "repo"
  <2>1. s.pc = "tarball"
    BY <1>8, <1>11
  <2>2. RemovalInv(p)' /\ DeliveryInv(p)'
    BY <1>3, <2>1 DEF RemovalInv, DeliveryInv
  <2> QED BY <1>5, <1>9, <2>2, DutySettled DEF Duty
<1>12. CASE ~ Shortcut(opt) /\ kind # "repo"
  <2>1. s.pc = "fetch" /\ s.todo = todo /\ mirror'
    BY <1>1, <1>8, <1>12
  <2>2. kind = "forum" \/ kind = "feed"
    BY <1>2, <1>12, PipelineAssumption DEF TypeOK, PipelineAssumption
  <2>3. owed \cap raw \subseteq Delisted \cup todo
    BY <1>6, <2>2 DEF todo, ForumTodo, Wide
  <2>4. Live \subseteq Accounted \cup todo
    BY <1>2, <2>2 DEF todo, ForumTodo, Accounted, Covered
  <2>5. RemovalInv(p)'
    BY <1>1, <1>3, <1>4, <1>8, <1>12, <2>1, <2>3 DEF RemovalInv
  <2>6. DeliveryInv(p)'
    BY <1>1, <1>3, <1>4, <1>6, <1>8, <1>12, <2>1, <2>4 DEF DeliveryInv
  <2> QED BY <1>5, <1>9, <2>5, <2>6, DutySettled DEF Duty
<1> QED BY <1>10, <1>11, <1>12

LEMMA TarballDuty ==
  ASSUME IInv, DutyInv, Frame, NEW p \in Procs, Others(p), Tarball(p)
  PROVE  DutyInv'
<1> DEFINE s == [run[p] EXCEPT !.pc = "fetch", !.tree = Live, !.todo = Live \ raw]
<1>1. /\ At(p, "tarball") /\ Step(p, s)
      /\ UNCHANGED <<kind, world, raw, mirror, db, lost, overtaken>>
  BY DEF Tarball, machine, history
<1>2. TypeOK /\ Duty(p) /\ run[p] \in Runs /\ CheckpointOK(run[p].adv)
  BY DEF IInv, DutyInv, TypeOK, Own, BornInv
<1>3. kind = "repo" /\ run[p].owed \subseteq Deleted \cup Delisted /\ run[p].due \subseteq Born
      /\ DebtInv(p)
  BY <1>1, <1>2 DEF Duty, DebtInv, At
<1>4. run'[p] = s
  BY <1>1, <1>2, Moved
<1>5. /\ s.pc = "fetch" /\ s.tree = Live /\ s.owed = run[p].owed /\ s.due = run[p].due
      /\ s.opt = run[p].opt /\ s.adv = run[p].adv
  BY <1>2 DEF Runs
<1> HIDE DEF s
<1>6. Live' = Live /\ Deleted' = Deleted /\ Delisted' = Delisted /\ Born' = Born
      /\ Live \cap Deleted = {} /\ Live \cap Delisted = {}
  BY <1>1 DEF Live, Deleted, Delisted, Born
<1>7. DutyFrame
  BY <1>1, <1>2, QuietDuty
<1>8. DebtInv(p)'
  BY <1>1, <1>3, <1>4, <1>5, <1>6 DEF DebtInv
<1>9. RemovalInv(p)'
  BY <1>1, <1>2, <1>3, <1>4, <1>5, <1>6 DEF RemovalInv, CheckpointOK
<1>10. DeliveryInv(p)'
  BY <1>1, <1>3, <1>4, <1>5, <1>6 DEF DeliveryInv
<1> QED BY <1>7, <1>8, <1>9, <1>10, DutySettled DEF Duty

(* A walk brings no deleted document to the mirror unnoticed. *)
LEMMA FetchedDuty ==
  ASSUME IInv, DutyInv, NEW p \in Procs, NEW got \in SUBSET run[p].todo,
         NEW slid \in SUBSET run[p].todo, Fetched(p, got, slid), UNCHANGED <<kind, world, db>>,
         mirror' = (mirror \/ got # {}) \/ (mirror /\ mirror' = mirror)
  PROVE  /\ DutyFrame /\ Live' = Live /\ Deleted' = Deleted /\ Delisted' = Delisted
         /\ raw' \cap Deleted \subseteq overtaken' \cup ((raw \ overtaken) \ got)
         /\ slid \subseteq overtaken'
         /\ (got \cup slid) \cap Live \subseteq Accounted'
<1>1. Live' = Live /\ Deleted' = Deleted /\ Delisted' = Delisted /\ Live \cap Deleted = {}
  BY DEF Live, Deleted, Delisted
<1> DEFINE met == got \ Delisted
           kept == IF kind = "forum" THEN met \cap Live ELSE met
<1>2. /\ raw' = (raw \ met) \cup kept
      /\ lost' = lost \ kept
      /\ overtaken' = (overtaken \ met) \cup slid \cup (kept \ Live)
  BY DEF Fetched
<1>3. /\ got \cap Live \subseteq kept /\ kept \subseteq met /\ kept \subseteq got
      /\ got \cap Deleted \subseteq met
  BY DEF Live, Deleted, Delisted
<1> HIDE DEF met, kept
<1>4. raw' \cap Deleted \subseteq overtaken' \cup ((raw \ overtaken) \ got)
  BY <1>1, <1>2, <1>3
<1>5. raw' # {} \/ mirror => mirror'
  BY <1>2, <1>3 DEF DutyInv, GoneInv, IInv, TypeOK
<1>6. (got \cup slid) \cap Live \subseteq Accounted'
  BY <1>2, <1>3 DEF Accounted
<1> QED BY <1>1, <1>2, <1>4, <1>5, <1>6 DEF DutyFrame, DutyInv, GoneInv

LEMMA EndWalkDuty ==
  ASSUME IInv, DutyInv, Frame, NEW p \in Procs, Others(p), EndWalk(p)
  PROVE  DutyInv'
<1>1. PICK slid \in IF kind = "forum" THEN SUBSET (run[p].todo \ Delisted) ELSE {{}} :
           /\ Fetched(p, run[p].todo \ slid, slid)
           /\ Step(p, [run[p] EXCEPT !.pc = "checkpoint", !.todo = {},
                                     !.adv = Slid(run[p].adv, slid)])
  BY DEF EndWalk
<1>2. At(p, "fetch") /\ kind # "repo" /\ UNCHANGED <<kind, world, mirror, db>>
  BY DEF EndWalk
<1> DEFINE got == run[p].todo \ slid
           adv == Slid(run[p].adv, slid)
           s == [run[p] EXCEPT !.pc = "checkpoint", !.todo = {}, !.adv = adv]
<1>3. TypeOK /\ Duty(p) /\ run[p] \in Runs
  BY DEF IInv, DutyInv, TypeOK
<1>4. /\ run[p].owed \cap raw \subseteq Delisted \cup overtaken \cup run[p].todo
      /\ mirror /\ run[p].due \cap Live \subseteq Accounted \cup run[p].todo
      /\ run[p].owed \subseteq Deleted \cup Delisted /\ run[p].due \subseteq Born /\ DebtInv(p)
  BY <1>2, <1>3 DEF Duty, RemovalInv, DeliveryInv, DebtInv, At
<1>5. slid \subseteq run[p].todo /\ run[p].todo \subseteq got \cup slid
  OBVIOUS
<1>6. /\ DutyFrame /\ Live' = Live /\ Deleted' = Deleted /\ Delisted' = Delisted
      /\ raw' \cap Deleted \subseteq overtaken' \cup ((raw \ overtaken) \ got)
      /\ slid \subseteq overtaken'
      /\ (got \cup slid) \cap Live \subseteq Accounted'
  <2>1. Fetched(p, got, slid) /\ got \in SUBSET run[p].todo /\ slid \in SUBSET run[p].todo
    BY <1>1, <1>5
  <2>2. mirror /\ mirror' = mirror /\ UNCHANGED <<kind, world, db>>
    BY <1>2, <1>4
  <2> HIDE DEF got, s, adv
  <2> QED BY <2>1, <2>2, FetchedDuty
<1>7. run'[p] = s
  BY <1>1, <1>3, Moved
<1>8. /\ s.pc = "checkpoint" /\ s.owed = run[p].owed /\ s.due = run[p].due
      /\ s.opt = run[p].opt /\ s.tree = run[p].tree
  BY <1>3 DEF Runs
<1> HIDE DEF s, adv
<1>9. run[p].owed \cap raw' \subseteq Delisted \cup overtaken'
  BY <1>4, <1>5, <1>6
<1>10. run[p].due \cap Live \subseteq Accounted'
  BY <1>4, <1>5, <1>6 DEF Frame
<1>11. DebtInv(p)'
  BY <1>2, <1>4, <1>6, <1>7, <1>8 DEF DebtInv, Frame
<1>12. RemovalInv(p)' /\ DeliveryInv(p)'
  BY <1>2, <1>6, <1>7, <1>8, <1>9, <1>10 DEF RemovalInv, DeliveryInv
<1> QED BY <1>6, <1>11, <1>12, DutySettled DEF Duty

LEMMA EndRepoDuty ==
  ASSUME IInv, DutyInv, Frame, NEW p \in Procs, Others(p), EndRepo(p)
  PROVE  DutyInv'
<1> DEFINE s == [run[p] EXCEPT !.pc = "checkpoint", !.todo = {}, !.tree = {}]
           tree == run[p].tree
<1>1. /\ At(p, "fetch") /\ kind = "repo" /\ Step(p, s) /\ UNCHANGED <<kind, world, db>>
      /\ raw' = tree /\ lost' = lost \ tree /\ mirror' = (mirror \/ tree # {})
      /\ overtaken' = ((overtaken \ raw) \ tree)
                        \cup ((raw \ tree) \cap Live) \cup (tree \ Live)
  BY DEF EndRepo
<1>2. TypeOK /\ Duty(p) /\ run[p] \in Runs /\ GoneInv
  BY DEF IInv, DutyInv, TypeOK
<1>3. /\ tree \cap run[p].owed = {} /\ run[p].due \cap Live \subseteq tree
      /\ run[p].adv # None => tree \cap run[p].adv.gone = {}
      /\ DebtInv(p)
  BY <1>1, <1>2 DEF Duty, RemovalInv, DeliveryInv, At
<1>4. Live' = Live /\ Deleted' = Deleted /\ Delisted' = Delisted /\ Live \cap Deleted = {}
  BY <1>1 DEF Live, Deleted, Delisted
<1>5. DutyFrame
  <2>1. raw' \cap Deleted \subseteq overtaken'
    BY <1>1, <1>4
  <2>2. raw' # {} \/ mirror => mirror'
    BY <1>1
  <2>3. db'.ck # None => db'.ck.gone \cap raw \subseteq overtaken
    BY <1>1, <1>2 DEF GoneInv
  <2> QED BY <1>1, <2>1, <2>2, <2>3 DEF DutyFrame
<1>6. run'[p] = s
  BY <1>1, <1>2, Moved
<1>7. /\ s.pc = "checkpoint" /\ s.owed = run[p].owed /\ s.due = run[p].due
      /\ s.opt = run[p].opt /\ s.adv = run[p].adv
  BY <1>2 DEF Runs
<1> HIDE DEF s
<1>8. DebtInv(p)'
  BY <1>1, <1>3, <1>4, <1>6, <1>7 DEF DebtInv, Frame
<1>9. RemovalInv(p)'
  BY <1>1, <1>3, <1>6, <1>7 DEF RemovalInv
<1>10. DeliveryInv(p)'
  BY <1>1, <1>3, <1>4, <1>6, <1>7 DEF DeliveryInv, Accounted
<1> QED BY <1>5, <1>8, <1>9, <1>10, DutySettled DEF Duty

LEMMA ShortWalkDuty ==
  ASSUME IInv, DutyInv, Frame, NEW p \in Procs, Others(p), EndLimited(p) \/ SyncFails(p)
  PROVE  DutyInv'
<1>1. PICK got \in SUBSET run[p].todo : Fetched(p, got, {}) /\ mirror' = (mirror \/ got # {})
  BY DEF EndLimited, SyncFails
<1>2. UNCHANGED <<kind, world, db>>
  BY DEF EndLimited, SyncFails
<1>3. DutyFrame
  BY <1>1, <1>2, FetchedDuty
<1>4. TypeOK /\ Duty(p) /\ run[p] \in Runs
  BY DEF IInv, DutyInv, TypeOK
<1>5. CASE EndLimited(p)
  <2> DEFINE s == [run[p] EXCEPT !.pc = "checkpoint", !.adv = None, !.todo = {}, !.tree = {}]
  <2>1. run'[p] = s /\ run[p].opt = "limit"
    BY <1>4, <1>5, Moved DEF EndLimited
  <2>2. run[p].owed = {} /\ run[p].due = {}
    BY <1>4, <2>1 DEF Duty, DebtInv
  <2>3. s.pc = "checkpoint" /\ s.owed = {} /\ s.due = {} /\ s.adv = None
    BY <1>4, <2>2 DEF Runs
  <2> HIDE DEF s
  <2>4. Duty(p)'
    BY <2>1, <2>3 DEF Duty, DebtInv, RemovalInv, DeliveryInv
  <2> QED BY <1>3, <2>4, DutySettled
<1>6. CASE SyncFails(p)
  <2>1. run'[p] = AfterSync(p, FALSE)
    BY <1>4, <1>6, Moved DEF SyncFails
  <2>2. Duty(p)'
    BY <1>3, <1>4, <2>1, AfterSyncDuty
  <2> QED BY <1>3, <2>2, DutySettled
<1> QED BY <1>5, <1>6

LEMMA RecordCheckpointDuty ==
  ASSUME IInv, DutyInv, Frame, NEW p \in Procs, Others(p), RecordCheckpoint(p)
  PROVE  DutyInv'
<1>1. TypeOK /\ Duty(p) /\ run[p] \in Runs /\ db \in Corpora /\ CheckpointOK(run[p].adv)
  BY DEF IInv, DutyInv, TypeOK, Own, BornInv
<1>2. /\ At(p, "checkpoint") /\ UNCHANGED <<kind, world, raw, mirror, lost, overtaken>>
      /\ db' = db \/ (run[p].adv # None /\ db' = [db EXCEPT !.ck = run[p].adv])
  BY DEF RecordCheckpoint, history
<1>3. /\ db'.docs = db.docs /\ db'.absent = db.absent
      /\ (db'.ck = db.ck \/ db'.ck = run[p].adv)
  BY <1>1, <1>2 DEF Corpora
<1>4. run[p].adv # None => run[p].adv.gone \cap raw \subseteq overtaken
  <2>1. CASE kind = "repo"
    BY <1>1, <1>2, <2>1 DEF Duty, RemovalInv, At
  <2>2. CASE kind # "repo"
    BY <1>1, <2>2 DEF CheckpointOK
  <2> QED BY <2>1, <2>2
<1>5. DutyFrame
  BY <1>1, <1>2, <1>3, <1>4, QuietDuty
<1>6. PICK ok \in {run[p].ok, FALSE} : run'[p] = [run[p] EXCEPT !.pc = "flag", !.ok = ok]
  <2>1. [run[p] EXCEPT !.pc = "flag"] = [run[p] EXCEPT !.pc = "flag", !.ok = run[p].ok]
    BY <1>1 DEF Runs
  <2> QED BY <1>1, <2>1, Moved DEF RecordCheckpoint, Goto
<1> DEFINE s == [run[p] EXCEPT !.pc = "flag", !.ok = ok]
<1>7. s.pc = "flag" /\ s.ok = ok /\ s.owed = run[p].owed /\ s.due = run[p].due /\ s.opt = run[p].opt
  BY <1>1 DEF Runs
<1>8. run'[p] = s
  BY <1>6
<1> HIDE DEF s
<1>9. run[p].ok => /\ run[p].owed \cap raw \subseteq Delisted \cup overtaken
                  /\ run[p].due \cap Live \subseteq Accounted
  BY <1>1, <1>2 DEF Duty, RemovalInv, DeliveryInv, At
<1>10. Accounted' = Accounted /\ Live' = Live /\ Deleted' = Deleted /\ Delisted' = Delisted
  BY <1>2, <1>3 DEF Accounted, Live, Deleted, Delisted
<1>11. DebtInv(p)'
  BY <1>1, <1>2, <1>3, <1>7, <1>8, <1>10 DEF Duty, DebtInv, Frame
<1>12. RemovalInv(p)' /\ DeliveryInv(p)'
  BY <1>2, <1>7, <1>8, <1>9, <1>10 DEF RemovalInv, DeliveryInv
<1> QED BY <1>5, <1>11, <1>12, DutySettled DEF Duty

LEMMA ClearFlagDuty ==
  ASSUME IInv, DutyInv, Frame, NEW p \in Procs, Others(p), ClearFlag(p)
  PROVE  DutyInv'
<1>1. TypeOK /\ Duty(p) /\ db \in Corpora
  BY DEF IInv, DutyInv, TypeOK
<1>2. PICK ok \in {run[p].ok, FALSE} : run'[p] = AfterSync(p, ok)
  BY <1>1, Moved DEF ClearFlag
<1>3. /\ At(p, "flag") /\ UNCHANGED <<kind, world, raw, mirror, lost, overtaken>>
      /\ db' = db \/ db' = [db EXCEPT !.absent = FALSE]
  BY DEF ClearFlag, history
<1>4. db'.docs = db.docs /\ db'.ck = db.ck /\ (db'.absent = db.absent \/ ~ db'.absent)
  BY <1>1, <1>3 DEF Corpora
<1>5. DutyFrame
  BY <1>1, <1>3, <1>4, QuietDuty
<1>6. Accounted' = Accounted /\ Live' = Live /\ Delisted' = Delisted
  BY <1>3, <1>4 DEF Accounted, Live, Delisted
<1>7. run[p].ok => /\ run[p].owed \cap raw \subseteq Delisted \cup overtaken
                  /\ run[p].due \cap Live \subseteq Accounted
  BY <1>1, <1>3 DEF Duty, RemovalInv, DeliveryInv, At
<1>8. Duty(p)'
  BY <1>1, <1>2, <1>3, <1>5, <1>6, <1>7, AfterSyncDuty
<1> QED BY <1>5, <1>8, DutySettled

LEMMA ListRawFilesDuty ==
  ASSUME IInv, DutyInv, Frame, NEW p \in Procs, Others(p), ListRawFiles(p)
  PROVE  DutyInv'
<1> DEFINE cmd == IF At(p, "lock") THEN "update" ELSE "index"
           behind == IF cmd = "index" THEN {} ELSE IF mirror THEN overtaken ELSE Docs
           r == [run[p] EXCEPT !.cmd = cmd, !.behind = behind,
                               !.due = run[p].due \ (overtaken \cup lost)]
           listed == [r EXCEPT !.pc = "files", !.seen = raw,
                               !.excused = IF db.absent THEN Docs ELSE overtaken]
<1>1. /\ db' = [db EXCEPT !.lock = p] /\ UNCHANGED <<kind, world, raw, mirror, lost, overtaken>>
      /\ run[p].pc \in {"lock", "idle"}
  BY DEF ListRawFiles, Starts, At, history
<1>2. /\ TypeOK /\ Duty(p) /\ run[p] \in Runs /\ db \in Corpora /\ GoneInv
  BY DEF IInv, DutyInv, TypeOK
<1>3. \/ run'[p] = listed
      \/ /\ ~ mirror
         /\ \E ok \in {r.ok, FALSE} : run'[p] = [r EXCEPT !.pc = "embed", !.ok = ok]
  <2>1. \/ Step(p, listed)
        \/ /\ ~ mirror
           /\ \E ok \in {r.ok, FALSE} : Step(p, [r EXCEPT !.pc = "embed", !.ok = ok])
    BY Zenon DEF ListRawFiles
  <2> HIDE DEF r, listed
  <2> QED BY <2>1, <1>2, Moved
<1>4. db'.docs = db.docs /\ db'.ck = db.ck /\ db'.absent = db.absent
  BY <1>1, <1>2 DEF Corpora
<1>5. Live' = Live /\ Deleted' = Deleted /\ Delisted' = Delisted
  BY <1>1 DEF Live, Deleted, Delisted
<1>6. DutyFrame
  BY <1>1, <1>2, <1>4, QuietDuty
<1>7. /\ r.owed = run[p].owed /\ r.due = run[p].due \ (overtaken \cup lost)
      /\ r.opt = run[p].opt /\ r.ok = run[p].ok /\ r.behind = behind /\ r \in Runs
  <2>1. behind \subseteq Docs
    BY <1>2 DEF TypeOK
  <2> HIDE DEF behind
  <2> QED BY <1>2, <2>1 DEF Runs
<1>8. DebtInv(p) /\ r.owed \subseteq Docs
      /\ (run[p].pc = "lock" => behind = IF mirror THEN overtaken ELSE Docs)
  BY <1>2, <1>7, FieldsOf DEF Duty, At
<1>9. run[p].pc = "lock" /\ run[p].ok => /\ r.owed \cap raw \subseteq Delisted \cup overtaken
                                        /\ r.due \cap Live \subseteq raw \cup db.docs
  BY <1>2, <1>7 DEF Duty, RemovalInv, DeliveryInv, Accounted
<1> HIDE DEF r, behind
<1>10. CASE run[p].pc = "lock"
  <2>1. CASE run'[p] = listed
    <3>1. /\ listed.pc = "files" /\ listed.seen = raw /\ listed.owed = r.owed
          /\ listed.behind = r.behind /\ listed.due = r.due /\ listed.opt = r.opt /\ listed.ok = r.ok
      BY <1>7 DEF Runs
    <3> HIDE DEF listed
    <3>2. DebtInv(p)'
      BY <1>1, <1>4, <1>7, <1>8, <2>1, <3>1 DEF DebtInv, Frame
    <3>3. RemovalInv(p)' /\ DeliveryInv(p)'
      BY <1>4, <1>5, <1>7, <1>8, <1>9, <1>10, <2>1, <3>1 DEF RemovalInv, DeliveryInv
    <3> QED BY <3>2, <3>3, <1>6, DutySettled DEF Duty
  <2>2. ASSUME NEW ok \in {r.ok, FALSE}, ~ mirror,
               run'[p] = [r EXCEPT !.pc = "embed", !.ok = ok]
        PROVE  DutyInv'
    <3> DEFINE s == [r EXCEPT !.pc = "embed", !.ok = ok]
    <3>1. s.pc = "embed" /\ s.ok = ok /\ s.owed = r.owed /\ s.behind = r.behind
          /\ s.due = r.due /\ s.opt = r.opt
      BY <1>7 DEF Runs
    <3>2. run'[p] = s /\ raw = {}
      BY <1>2, <2>2 DEF GoneInv
    <3> HIDE DEF s
    <3>3. DebtInv(p)'
      BY <1>1, <1>4, <1>7, <1>8, <3>1, <3>2 DEF DebtInv, Frame
    <3>4. RemovalInv(p)' /\ DeliveryInv(p)'
      BY <1>4, <1>5, <1>7, <1>8, <1>9, <1>10, <2>2, <3>1, <3>2 DEF RemovalInv, DeliveryInv
    <3> QED BY <3>3, <3>4, <1>6, DutySettled DEF Duty
  <2> QED BY <1>3, <2>1, <2>2
<1>11. CASE run[p].pc = "idle"
  <2>1. mirror /\ cmd = "index"
    BY <1>11 DEF ListRawFiles, Starts, At
  <2>2. run'[p] = listed /\ r.owed = {} /\ r.due = {}
    BY <1>3, <1>7, <1>8, <1>11, <2>1 DEF DebtInv
  <2>3. listed.pc = "files" /\ listed.owed = {} /\ listed.due = {}
    BY <1>7, <2>2 DEF Runs
  <2> HIDE DEF listed
  <2>4. Duty(p)'
    BY <2>2, <2>3 DEF Duty, DebtInv, RemovalInv, DeliveryInv
  <2> QED BY <1>6, <2>4, DutySettled
<1> QED BY <1>1, <1>10, <1>11

LEMMA IndexFilesDuty ==
  ASSUME IInv, DutyInv, Frame, NEW p \in Procs, Others(p), IndexFiles(p)
  PROVE  DutyInv'
<1>1. PICK bad \in SUBSET run[p].seen :
        LET good == (run[p].seen \cap raw) \ bad
        IN  /\ db' = [db EXCEPT !.docs = db.docs \cup good,
                                !.embedded = db.embedded /\ good \subseteq db.docs]
            /\ Step(p, [run[p] EXCEPT
                          !.pc = "prune", !.seen = good,
                          !.errors = bad # {} \/ (kind # "forum" /\ ~ run[p].seen \subseteq raw)])
  BY DEF IndexFiles
<1> DEFINE good == (run[p].seen \cap raw) \ bad
           errors == bad # {} \/ (kind # "forum" /\ ~ run[p].seen \subseteq raw)
           s == [run[p] EXCEPT !.pc = "prune", !.seen = good, !.errors = errors]
<1>2. At(p, "files") /\ UNCHANGED <<kind, world, raw, mirror, lost, overtaken>>
  BY DEF IndexFiles, history
<1>3. /\ run[p] \in Runs /\ Own(p) /\ db \in Corpora /\ TypeOK /\ Duty(p)
  BY DEF IInv, TypeOK, DutyInv
<1>4. db'.docs = db.docs \cup good /\ db'.ck = db.ck /\ db'.absent = db.absent
  BY <1>1, <1>3 DEF Corpora
<1>5. /\ good \subseteq run[p].seen
      /\ (~ errors => /\ kind # "forum" => good = run[p].seen
                      /\ run[p].seen \cap raw \subseteq good)
  OBVIOUS
<1>6. run'[p] = s
  BY <1>1, <1>3, Moved
<1>7. /\ s.pc = "prune" /\ s.seen = good /\ s.errors = errors /\ s.ok = run[p].ok
      /\ s.owed = run[p].owed /\ s.behind = run[p].behind /\ s.due = run[p].due
      /\ s.opt = run[p].opt
  BY <1>3 DEF Runs
<1> HIDE DEF good, errors, s
<1>8. Live' = Live /\ Deleted' = Deleted /\ Delisted' = Delisted
  BY <1>2 DEF Live, Deleted, Delisted
<1>9. DutyFrame
  BY <1>2, <1>3, <1>4, QuietDuty
<1>10. DebtInv(p)'
  BY <1>2, <1>3, <1>4, <1>6, <1>7 DEF Duty, DebtInv, Frame
<1>11. RemovalInv(p)'
  BY <1>2, <1>3, <1>5, <1>6, <1>7, <1>8 DEF Duty, RemovalInv, At
<1>12. DeliveryInv(p)'
  <2>1. run[p].ok => run[p].due \cap Live \subseteq run[p].seen \cup db.docs
    BY <1>2, <1>3 DEF Duty, DeliveryInv, At
  <2>2. kind = "forum" => run[p].seen \cap Live \subseteq raw
    BY <1>2, <1>3 DEF Own, ListInv, At
  <2>3. run[p].ok /\ ~ errors => run[p].due \cap Live \subseteq db.docs \cup good
    BY <1>5, <2>1, <2>2
  <2> QED BY <1>4, <1>6, <1>7, <1>8, <2>3 DEF DeliveryInv
<1> QED BY <1>9, <1>10, <1>11, <1>12, DutySettled DEF Duty

LEMMA PruneDuty ==
  ASSUME IInv, DutyInv, Frame, NEW p \in Procs, Others(p), Prune(p)
  PROVE  DutyInv'
<1>1. At(p, "prune") /\ UNCHANGED <<kind, world, raw, mirror, lost, overtaken>>
  BY DEF Prune, history
<1>2. TypeOK /\ Duty(p)
  BY DEF IInv, DutyInv
<1>3. /\ db'.docs \subseteq db.docs /\ db'.ck = db.ck /\ db'.absent = db.absent
      /\ (db.docs \ db'.docs) \cap Live
            \subseteq IF db.absent THEN {} ELSE run[p].excused \cap Mirrored
      /\ Prunes(p) => db'.docs \subseteq run[p].seen
      /\ \/ /\ run'[p].pc = "embed" /\ run'[p].ok = (run[p].ok /\ ~ run[p].errors)
            /\ run'[p].owed = run[p].owed /\ run'[p].behind = run[p].behind
            /\ run'[p].due = run[p].due
            /\ run'[p].excused = run[p].excused \cap (db.docs \ db'.docs)
            /\ run'[p].opt = "plain"
         \/ run'[p] = Idle
  BY PruneStep
<1>4. Live' = Live /\ Deleted' = Deleted /\ Delisted' = Delisted
  BY <1>1 DEF Live, Deleted, Delisted
<1>5. DutyFrame
  BY <1>1, <1>2, <1>3, QuietDuty
<1>6. CASE run'[p] = Idle
  BY <1>5, <1>6, IdleDuty, DutySettled DEF Idle
<1>7. CASE run'[p].pc = "embed" /\ run'[p].ok = (run[p].ok /\ ~ run[p].errors)
           /\ run'[p].owed = run[p].owed /\ run'[p].behind = run[p].behind
           /\ run'[p].due = run[p].due
           /\ run'[p].excused = run[p].excused \cap (db.docs \ db'.docs)
           /\ run'[p].opt = "plain"
  <2>1. DebtInv(p)'
    BY <1>2, <1>3, <1>7 DEF Duty, DebtInv, Frame
  <2>2. RemovalInv(p)'
    <3>1. run[p].ok => run[p].owed \cap run[p].seen \subseteq Delisted \cup run[p].behind
      BY <1>1, <1>2 DEF Duty, RemovalInv, At
    <3>2. run[p].owed # {} => ~ db.absent
      BY <1>2 DEF Duty, DebtInv
    <3>3. run[p].ok /\ ~ run[p].errors
            => run[p].owed \cap db'.docs \subseteq Delisted \cup run[p].behind
      BY <1>3, <3>1, <3>2 DEF Prunes
    <3> QED BY <1>4, <1>7, <3>3 DEF RemovalInv
  <2>3. DeliveryInv(p)'
    <3>1. run[p].ok /\ ~ run[p].errors => run[p].due \cap Live \subseteq db.docs
      BY <1>1, <1>2 DEF Duty, DeliveryInv, At
    <3>2. (db.docs \ db'.docs) \cap Live \subseteq run[p].excused
      BY <1>3
    <3>3. run[p].ok /\ ~ run[p].errors
            => run[p].due \cap Live
                 \subseteq db'.docs \cup (run[p].excused \cap (db.docs \ db'.docs))
      BY <3>1, <3>2
    <3> QED BY <1>4, <1>7, <3>3 DEF DeliveryInv
  <2> QED BY <1>5, <2>1, <2>2, <2>3, DutySettled DEF Duty
<1> QED BY <1>3, <1>6, <1>7

LEMMA EndDuty ==
  ASSUME IInv, DutyInv, Frame, NEW p \in Procs, Others(p),
         LockRefused(p) \/ Kill(p) \/ Embed(p) \/ PublishStep(p)
  PROVE  DutyInv'
<1>1. TypeOK /\ Duty(p) /\ db \in Corpora /\ run[p] \in Runs /\ DebtInv(p)
  BY DEF IInv, DutyInv, TypeOK, Duty
<1>2. UNCHANGED <<kind, world, raw, mirror, lost, overtaken>>
  BY DEF LockRefused, Kill, Embed, PublishStep, BeginPublish, Vacuum, Stamp, Compress,
         CreateRelease, history, machine
<1>3. db'.ck = db.ck /\ db'.absent = db.absent
  <2>1. Unlocked(p) \in Corpora /\ Unlocked(p).ck = db.ck /\ Unlocked(p).absent = db.absent
    BY <1>1, UnlockedType
  <2>2. \/ db' = db \/ db' = Unlocked(p) \/ db' = [db EXCEPT !.lock = p]
        \/ \E b : db' = [Unlocked(p) EXCEPT !.embedded = b]
    BY DEF LockRefused, Kill, Embed, PublishStep, BeginPublish, Vacuum, Stamp, Compress,
           CreateRelease, machine
  <2> QED BY <1>1, <2>1, <2>2 DEF Corpora
<1>4. DutyFrame
  BY <1>1, <1>2, <1>3, QuietDuty
<1>5. \/ run'[p] = Idle
      \/ run'[p] = [Idle EXCEPT !.pc = "vacuum", !.cmd = "publish"]
      \/ \E stage \in {"stamp", "compress", "create"} : run'[p] = [run[p] EXCEPT !.pc = stage]
  <2>1. \/ Step(p, Idle)
        \/ Step(p, [Idle EXCEPT !.pc = "vacuum", !.cmd = "publish"])
        \/ \E stage \in {"stamp", "compress", "create"} : Step(p, [run[p] EXCEPT !.pc = stage])
    BY DEF LockRefused, Kill, Embed, PublishStep, BeginPublish, Vacuum, Stamp, Compress,
           CreateRelease, Leave, Goto
  <2> QED BY <1>1, <2>1, Moved
<1>6. CASE run'[p] = Idle \/ run'[p] = [Idle EXCEPT !.pc = "vacuum", !.cmd = "publish"]
  <2> DEFINE s == [Idle EXCEPT !.pc = "vacuum", !.cmd = "publish"]
  <2>1. /\ Idle.pc = "idle" /\ Idle.owed = {} /\ Idle.due = {}
        /\ s.pc = "vacuum" /\ s.owed = {} /\ s.due = {}
    BY DEF Idle
  <2>2. run'[p] = Idle \/ run'[p] = s
    BY <1>6
  <2> HIDE DEF s
  <2>3. run'[p].pc \in {"idle", "vacuum"} /\ run'[p].owed = {} /\ run'[p].due = {}
    BY <2>1, <2>2
  <2>4. Duty(p)'
    BY <2>3, IdleDuty
  <2> QED BY <1>4, <2>4, DutySettled
<1>7. ASSUME NEW stage \in {"stamp", "compress", "create"}, run'[p] = [run[p] EXCEPT !.pc = stage]
      PROVE  DutyInv'
  <2>1. /\ run'[p].pc = stage /\ run'[p].owed = run[p].owed /\ run'[p].due = run[p].due
        /\ run'[p].opt = run[p].opt
    BY <1>1, <1>7 DEF Runs
  <2>2. DebtInv(p)'
    BY <1>1, <1>3, <2>1 DEF DebtInv, Frame
  <2>3. RemovalInv(p)' /\ DeliveryInv(p)'
    BY <2>1 DEF RemovalInv, DeliveryInv
  <2> QED BY <1>4, <2>2, <2>3, DutySettled DEF Duty
<1> QED BY <1>5, <1>6, <1>7

LEMMA NextDuty ==
  ASSUME IInv, DutyInv, [Next]_vars
  PROVE  DutyInv'
<1>1. TypeOK'
  BY NextType DEF IInv
<1>2. CASE UNCHANGED vars \/ \E d \in Docs : Upstream(d)
  <2>1. UNCHANGED <<kind, raw, mirror, db, lost, overtaken, run>>
    BY <1>2 DEF vars, Upstream, machine, history
  <2>2. Frame
    <3>1. CASE UNCHANGED vars
      BY <3>1, QuietFrame DEF vars
    <3>2. ASSUME NEW d \in Docs, Upstream(d) PROVE Frame
      <4>1. Live' \cap Born \subseteq Live /\ Born \subseteq Born' /\ Deleted \subseteq Deleted'
            /\ Delisted \subseteq Delisted'
        BY <3>2 DEF Upstream, Live, Deleted, Delisted, Born, IInv, TypeOK
      <4>2. Mirrored' = Mirrored /\ Accounted' = Accounted
        BY <2>1 DEF Mirrored, Accounted
      <4> QED BY <2>1, <4>1, <4>2 DEF Frame, IInv, SharedInv, CorpusOK, CheckpointHonest, Accounted
    <3> QED BY <1>2, <3>1, <3>2
  <2>3. DutyFrame
    BY <2>1, QuietDuty DEF IInv
  <2>4. \A q \in Procs : Duty(q)'
    BY <2>1, <2>2, <2>3, DutyKept DEF DutyInv
  <2> QED BY <2>2, <2>3, <2>4, GoneKept DEF DutyInv
<1>3. ASSUME NEW p \in Procs, NEW cmd \in {"sync", "update"}, NEW opt \in OptionsOf(kind),
             BeginSync(p, cmd, opt)
      PROVE  DutyInv'
  BY <1>1, <1>3, BeginSyncInv, BeginSyncDuty
<1>4. ASSUME NEW p \in Procs, Tarball(p) PROVE DutyInv'
  BY <1>1, <1>4, TarballInv, TarballDuty
<1>5. ASSUME NEW p \in Procs, EndWalk(p) PROVE DutyInv'
  BY <1>1, <1>5, EndWalkInv, EndWalkDuty
<1>6. ASSUME NEW p \in Procs, EndRepo(p) PROVE DutyInv'
  BY <1>1, <1>6, EndRepoInv, EndRepoDuty
<1>7. ASSUME NEW p \in Procs, EndLimited(p) \/ SyncFails(p) PROVE DutyInv'
  BY <1>1, <1>7, ShortWalkInv, ShortWalkDuty
<1>8. ASSUME NEW p \in Procs, RecordCheckpoint(p) PROVE DutyInv'
  BY <1>1, <1>8, RecordCheckpointInv, RecordCheckpointDuty
<1>9. ASSUME NEW p \in Procs, ClearFlag(p) PROVE DutyInv'
  BY <1>1, <1>9, ClearFlagInv, ClearFlagDuty
<1>10. ASSUME NEW p \in Procs, ListRawFiles(p) PROVE DutyInv'
  BY <1>1, <1>10, ListRawFilesInv, ListRawFilesDuty
<1>11. ASSUME NEW p \in Procs, IndexFiles(p) PROVE DutyInv'
  BY <1>1, <1>11, IndexFilesInv, IndexFilesDuty
<1>12. ASSUME NEW p \in Procs, Prune(p) PROVE DutyInv'
  BY <1>1, <1>12, PruneInv, PruneDuty
<1>13. ASSUME NEW p \in Procs, Embed(p) PROVE DutyInv'
  BY <1>1, <1>13, EmbedInv, EndDuty
<1>14. ASSUME NEW p \in Procs, LockRefused(p) \/ Kill(p) PROVE DutyInv'
  BY <1>1, <1>14, KillInv, EndDuty
<1>15. ASSUME NEW p \in Procs, PublishStep(p) PROVE DutyInv'
  BY <1>1, <1>15, PublishKeepsInv, EndDuty
<1>16. ASSUME NEW p \in Procs, SyncStep(p) PROVE DutyInv'
  BY <1>3, <1>4, <1>5, <1>6, <1>7, <1>8, <1>9, <1>16 DEF SyncStep
<1>17. ASSUME NEW p \in Procs, IndexStep(p) PROVE DutyInv'
  BY <1>10, <1>11, <1>12, <1>13, <1>17 DEF IndexStep
<1> QED BY <1>2, <1>14, <1>15, <1>16, <1>17 DEF Next

LEMMA InitDuty == Init => DutyInv
<1> SUFFICES ASSUME Init PROVE DutyInv
  OBVIOUS
<1>1. GoneInv
  BY DEF Init, GoneInv
<1>2. ASSUME NEW p \in Procs PROVE Duty(p)
  BY DEF Init, Duty, DebtInv, RemovalInv, DeliveryInv, Idle
<1> QED BY <1>1, <1>2 DEF DutyInv

(* An update that reports no error has removed what was gone upstream when *)
(* it began, but for the topics that left the listing as a whole, for what *)
(* was overtaken when it listed the raw files (a topic that slid past its  *)
(* own walk, a file an overlapping walk wrote last), and for a source      *)
(* without its mirror (Pipeline's RemovalHonoured).                        *)
THEOREM RemovalsAreHonoured == Spec => []RemovalHonoured
<1>1. IInv /\ DutyInv /\ [Next]_vars => DutyInv'
  BY NextDuty
<1>2. DutyInv => RemovalHonoured
  BY DEF DutyInv, Duty, RemovalInv, RemovalHonoured, At
<1> QED BY <1>1, <1>2, InitDuty, InvariantHolds, PTL DEF Spec

(* It has brought in what was upstream when it began (Pipeline's           *)
(* UpdateDelivers).                                                        *)
THEOREM UpdatesDeliver == Spec => []UpdateDelivers
<1>1. IInv /\ DutyInv /\ [Next]_vars => DutyInv'
  BY NextDuty
<1>2. DutyInv => UpdateDelivers
  BY DEF DutyInv, Duty, DeliveryInv, UpdateDelivers, At
<1> QED BY <1>1, <1>2, InitDuty, InvariantHolds, PTL DEF Spec
=============================================================================
