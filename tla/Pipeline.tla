------------------------------ MODULE Pipeline ------------------------------
(***************************************************************************)
(* One source on its way through the commands: upstream to the raw mirror  *)
(* (sync), the mirror to the corpus (index, embed), the corpus to a        *)
(* release (publish); and on a machine that starts from a release.         *)
(*   wikipethia/src/main.rs     pipeline, sync_sources, mirror_rebuilt,    *)
(*                              index_with                                 *)
(*   wikipethia/src/publish.rs  run                                        *)
(*                                                                         *)
(* sync holds no lock, so any two commands interleave with it; index,      *)
(* embed and publish run under the writer lock (WriterLock), here honoured *)
(* and stolen at once from a holder that was killed.  A document stands    *)
(* for what one raw file yields (a file of a repository, an article, the   *)
(* last reply of a topic); it appears upstream once and may disappear      *)
(* once, from a forum also with its whole topic.  How a walk decides what  *)
(* to fetch is DiscourseSync, RepoSync and FeedSync; here a walk fetches   *)
(* what those modules say it fetches.  The embed loop is one step          *)
(* (CorpusStore has its own), and the tag of a release is always the same: *)
(* publishes of one day.                                                   *)
(***************************************************************************)
EXTENDS Naturals, FiniteSets

CONSTANTS
  Docs,     \* the documents the source may ever hold
  Procs,    \* slots for running commands
  Cmds,     \* slot -> the commands run in it: "sync", "update", "index", "publish"
  Sources,  \* the kinds a source may have: subset of "forum", "repo", "feed"
  MaxRuns,  \* bound: commands started on the way
  Kills,    \* TRUE: a command may be killed between any two steps
  None      \* no checkpoint, no holder, no file

(* What `sync` may be asked for, where it matters to the kind: --full to a *)
(* forum, --force to a repository.                                         *)
Options == {"plain", "full", "force", "limit"}
OptionsOf(k) == CASE k = "forum" -> {"plain", "full", "limit"}
                  [] k = "repo"  -> {"plain", "force", "limit"}
                  [] k = "feed"  -> {"plain", "limit"}

ASSUME PipelineAssumption ==
  /\ None \notin Docs \cup Procs
  /\ Cmds \in [Procs -> SUBSET {"sync", "update", "index", "publish"}]
  /\ Sources \subseteq {"forum", "repo", "feed"}
  /\ MaxRuns \in Nat
  /\ Kills \in BOOLEAN

VARIABLES
  kind,      \* Source.kind, from the manifest
  world,     \* each document upstream
  raw,       \* the documents the files of the raw mirror hold
  mirror,    \* does the mirror's directory exist?
  db,        \* the corpus: a Corpus
  snap,      \* the file <out>/<tag>.sqlite, or None
  art,       \* <out>/<tag>.sqlite.zst
  release,   \* the release named <tag>
  run,       \* what runs in each slot
  started,   \* the commands started so far
  \* History, read by no action:
  lost,      \* documents a downloaded checkpoint covers and its corpus lacks
  overtaken, \* documents whose file a walk of an older upstream wrote or removed
             \* last, and those that slid past the last walk that looked for them
  clash      \* has a publish taken away the files of another one?

machine == <<raw, mirror, db>>
output  == <<snap, art, release>>
history == <<lost, overtaken, clash>>
vars    == <<kind, world, raw, mirror, db, snap, art, release, run, started,
             lost, overtaken, clash>>

(* A checkpoint as the documents it vouches for, and what had gone by then *)
(* from a repository: the two tell one head_sha from another.              *)
Heads == [live : SUBSET Docs, gone : SUBSET Docs]
Checkpoints == Heads \cup {None}

(* docs: documents; embedded: has every chunk a vector of this build; ck:  *)
(* the checkpoint; absent: meta["mirror.absent"]; lock: the holder in      *)
(* meta["writer.lock"].                                                    *)
Corpora == [docs : SUBSET Docs, embedded : BOOLEAN, ck : Checkpoints,
            absent : BOOLEAN, lock : Procs \cup {None}]
NewCorpus == [docs |-> {}, embedded |-> FALSE, ck |-> None,
              absent |-> FALSE, lock |-> None]

ASSUME NoneAssumption == None \notin Corpora \cup Heads

Stages == {"idle", "tarball", "fetch", "checkpoint", "flag", "lock",
           "files", "prune", "embed",
           "vacuum", "stamp", "compress", "create"}

Runs == [pc : Stages, cmd : {"sync", "update", "index", "publish"},
         opt : Options,
         ok : BOOLEAN,              \* no stage has failed so far
         flag : BOOLEAN,            \* mirror_absent as sync_sources read it
         adv : Checkpoints,         \* the head, then `advanced`
         tree : SUBSET Docs,        \* what the tarball holds
         todo : SUBSET Docs,        \* what the walk has still to fetch
         seen : SUBSET Docs,        \* the listed files, then seen_ids
         errors : BOOLEAN,          \* counts.errors > 0
         owed : SUBSET Docs,        \* history: gone upstream before the walk began
         behind : SUBSET Docs,      \* history: whose raw files, when they were listed,
                                   \* were not what a walk of today's upstream leaves
         due : SUBSET Docs,         \* history: live when the walk began
         excused : SUBSET Docs]     \* history: whose absence from the list of raw
                                    \* files says nothing of upstream

Idle == [pc |-> "idle", cmd |-> "sync", opt |-> "plain", ok |-> TRUE,
         flag |-> FALSE, adv |-> None, tree |-> {}, todo |-> {}, seen |-> {},
         errors |-> FALSE, owed |-> {}, behind |-> {}, due |-> {}, excused |-> {}]

TypeOK ==
  /\ kind \in Sources
  /\ world \in [Docs -> {"unborn", "live", "deleted", "delisted"}]
  /\ raw \in SUBSET Docs
  /\ mirror \in BOOLEAN
  /\ db \in Corpora
  /\ snap \in Corpora \cup {None}
  /\ art \in Corpora \cup {None}
  /\ release \in Corpora \cup {None}
  /\ run \in [Procs -> Runs] /\ started \in 0 .. MaxRuns
  /\ lost \in SUBSET Docs
  /\ overtaken \in SUBSET Docs
  /\ clash \in BOOLEAN

Live == {d \in Docs : world[d] = "live"}
Deleted == {d \in Docs : world[d] = "deleted"}
Delisted == {d \in Docs : world[d] = "delisted"}
Born == {d \in Docs : world[d] # "unborn"}
Covered(ck) == IF ck = None THEN {} ELSE ck.live

(* What a machine may download: the corpus as some publish found it, when  *)
(* upstream was not yet what it is now, and stamped.                       *)
Downloads ==
  {c \in Corpora :
     /\ c.docs # {} /\ c.embedded /\ c.absent /\ c.lock = None
     /\ kind = "forum" => c.ck # None
     /\ kind = "feed" => c.ck = None
     /\ c.docs \subseteq Born
     /\ c.ck # None => /\ c.ck.live \subseteq Born
                       /\ c.ck.gone \subseteq IF kind = "repo" THEN Deleted ELSE {}
                       /\ c.ck.live \cap c.ck.gone = {}}

Init ==
  /\ kind \in Sources
  /\ world \in [Docs -> {"unborn", "live", "deleted"}]
  /\ raw = {} /\ mirror = FALSE
  /\ db \in {NewCorpus} \cup
           {c \in Downloads : kind # "feed" => c.ck # None /\ c.docs \subseteq c.ck.live \cup c.ck.gone}
  /\ snap = None /\ art = None /\ release = None
  /\ run = [p \in Procs |-> Idle] /\ started = 0
  /\ lost = Covered(db.ck) \ db.docs
  /\ overtaken = {} /\ clash = FALSE
-----------------------------------------------------------------------------
(***************************************************************************)
(* Upstream, and the life of a command.                                    *)
(***************************************************************************)

(* A deletion is quiet: the topic stays where it is in the listing, with   *)
(* another posts_count.  A topic deleted as a whole leaves the listing,    *)
(* and no walk looks at its file again.                                    *)
Upstream(d) ==
  /\ \/ world[d] = "unborn" /\ world' = [world EXCEPT ![d] = "live"]
     \/ world[d] = "live" /\ world' = [world EXCEPT ![d] = "deleted"]
     \/ /\ kind = "forum" /\ world[d] = "live"
        /\ world' = [world EXCEPT ![d] = "delisted"]
  /\ UNCHANGED <<kind, machine, output, run, started, history>>

At(p, stage) == run[p].pc = stage
Step(p, r) ==
  /\ run' = [run EXCEPT ![p] = r]
  /\ started' = IF At(p, "idle") THEN started + 1 ELSE started
Goto(p, stage) == Step(p, [run[p] EXCEPT !.pc = stage])
Leave(p) == Step(p, Idle)

Starts(p, cmd) == At(p, "idle") /\ cmd \in Cmds[p] /\ started < MaxRuns

(* Mutant: the lock row is emptied, not removed.                           *)
Unlocked_Empties(p) == IF db.lock = p THEN [db EXCEPT !.lock = ""] ELSE db

Unlocked(p) == IF db.lock = p THEN [db EXCEPT !.lock = None] ELSE db

(* What a publish leaves behind is removed by the next one before anything *)
(* reads it, so it is gone at once.                                        *)
Kill(p) ==
  /\ Kills
  /\ ~ At(p, "idle")
  /\ Leave(p)
  /\ db' = Unlocked(p)
  /\ snap' = IF run[p].cmd = "publish" THEN None ELSE snap
  /\ art' = IF run[p].cmd = "publish" THEN None ELSE art
  /\ UNCHANGED <<kind, world, raw, mirror, release, history>>
-----------------------------------------------------------------------------
(***************************************************************************)
(* sync_sources.                                                           *)
(***************************************************************************)

(* Mutant: update walks incrementally, like sync.                          *)
Wide_Never(cmd, opt) == opt = "full"

(* full_listings is the intent of update, and dropped on a downloaded      *)
(* corpus; --full is the user's.                                           *)
Wide(cmd, opt) == opt = "full" \/ (cmd = "update" /\ ~ db.absent)

(* What a forum walk fetches: all of the listing or what was bumped after  *)
(* the watermark, less the topics whose file is up to date.                *)
ForumTodo(cmd, opt) ==
  IF db.ck = None \/ Wide(cmd, opt)
    THEN (Live \ raw) \cup (Deleted \cap raw)
  ELSE Live \ (db.ck.live \cup raw)

(* The walk of a forum advances only when it saw something newer. *)
ForumHead ==
  IF Live \subseteq Covered(db.ck) THEN None ELSE [live |-> Live, gone |-> {}]

RepoHead == [live |-> Live, gone |-> Deleted]

(* That a repository's head may be unreadable is left to RepoSync. *)
Head == CASE kind = "forum" -> ForumHead
          [] kind = "repo"  -> RepoHead
          [] kind = "feed"  -> None

(* A commit that was unpacked before is not unpacked again: not under      *)
(* --force or --limit, and not without any file on disk.                   *)
Shortcut(opt) ==
  /\ kind = "repo"
  /\ RepoHead = db.ck
  /\ opt \notin {"force", "limit"}
  /\ raw # {}

(* A sync, or an update (or build, the same stages) up to its sync: update *)
(* first takes and drops the lock, to refuse a run that is already doomed. *)
(* Then load_checkpoint, mirror_absent, and what the adapter reads first.  *)
BeginSync(p, cmd, opt) ==
  /\ Starts(p, cmd)
  /\ cmd = "update" => opt = "plain" /\ db.lock = None
  /\ LET r == [Idle EXCEPT
                 !.cmd = cmd, !.opt = opt, !.flag = db.absent,
                 !.owed = IF cmd = "update" /\ kind # "feed" /\ ~ db.absent
                            THEN Deleted \cup Delisted ELSE {},
                 !.due = IF cmd = "update" THEN Live ELSE {}]
     IN  Step(p, IF Shortcut(opt) THEN [r EXCEPT !.pc = "checkpoint"]
                 ELSE IF kind = "repo" THEN [r EXCEPT !.pc = "tarball", !.adv = Head]
                 ELSE [r EXCEPT !.pc = "fetch", !.adv = Head,
                                !.todo = IF kind = "forum" THEN ForumTodo(cmd, opt)
                                         ELSE Live \ raw])
  /\ mirror' = (mirror \/ kind # "repo")
  /\ UNCHANGED <<kind, world, raw, db, output, history>>

(* The tarball is of the branch, so it may be newer than the head. *)
Tarball(p) ==
  /\ At(p, "tarball")
  /\ Step(p, [run[p] EXCEPT !.pc = "fetch", !.tree = Live, !.todo = Live \ raw])
  /\ UNCHANGED <<kind, world, machine, output, history>>

(* Where a command goes when its sync is over: update indexes and embeds   *)
(* whatever became of it.                                                  *)
AfterSync(p, ok) ==
  IF run[p].cmd = "sync" THEN Idle
  ELSE [Idle EXCEPT !.pc = "lock", !.cmd = "update", !.ok = ok,
                    !.owed = run[p].owed, !.due = run[p].due]

(* The fetches of a walk, those of `got` of what it had to do.  A topic is *)
(* fetched as it is now, a repository's file as the tarball has it.  A     *)
(* topic that is bumped while the walk is below it has `slid` past: this   *)
(* walk misses it, and the watermark stays under its bump (DiscourseSync). *)
(* One that left the listing is not met, or its request fails the walk.    *)
Fetched(p, got, slid) ==
  LET met  == got \ Delisted
      kept == IF kind = "forum" THEN met \cap Live ELSE met
  IN  /\ raw' = (raw \ met) \cup kept
      /\ lost' = lost \ kept
      /\ overtaken' = (overtaken \ met) \cup slid \cup (kept \ Live)

Slid(adv, slid) == IF adv = None THEN None ELSE [adv EXCEPT !.live = @ \ slid]

(* A walk of a forum or a feed to its end. *)
EndWalk(p) ==
  /\ At(p, "fetch") /\ kind # "repo"
  /\ run[p].opt # "limit"
  /\ \E slid \in IF kind = "forum" THEN SUBSET (run[p].todo \ Delisted) ELSE {{}} :
       /\ Fetched(p, run[p].todo \ slid, slid)
       /\ Step(p, [run[p] EXCEPT !.pc = "checkpoint", !.todo = {},
                                 !.adv = Slid(@, slid)])
  /\ UNCHANGED <<kind, world, mirror, db, output, clash>>

(* Mutant: the head is read when the walk is over.                         *)
EndRepo_HeadLast(p) ==
  /\ At(p, "fetch") /\ kind = "repo"
  /\ run[p].opt # "limit"
  /\ run[p].tree # {} \/ raw = {}
  /\ raw' = run[p].tree
  /\ mirror' = (mirror \/ run[p].tree # {})
  /\ lost' = lost \ run[p].tree
  /\ overtaken' = overtaken \ run[p].tree
  /\ Step(p, [run[p] EXCEPT !.pc = "checkpoint", !.adv = RepoHead,
                            !.todo = {}, !.tree = {}])
  /\ UNCHANGED <<kind, world, db, output, clash>>

(* The tarball unpacked; then the deletion pass removes the files it       *)
(* lacks, and refuses to remove them all.                                  *)
EndRepo(p) ==
  /\ At(p, "fetch") /\ kind = "repo"
  /\ run[p].opt # "limit"
  /\ run[p].tree # {} \/ raw = {}
  /\ raw' = run[p].tree
  /\ mirror' = (mirror \/ run[p].tree # {})
  /\ lost' = lost \ run[p].tree
  /\ overtaken' = ((overtaken \ raw) \ run[p].tree)
                    \cup ((raw \ run[p].tree) \cap Live) \cup (run[p].tree \ Live)
  /\ Step(p, [run[p] EXCEPT !.pc = "checkpoint", !.todo = {}, !.tree = {}])
  /\ UNCHANGED <<kind, world, db, output, clash>>

(* --limit stops a walk anywhere; it deletes nothing and advances nothing. *)
EndLimited(p) ==
  /\ At(p, "fetch")
  /\ run[p].opt = "limit"
  /\ \E got \in SUBSET run[p].todo :
       Fetched(p, got, {}) /\ mirror' = (mirror \/ got # {})
  /\ Step(p, [run[p] EXCEPT !.pc = "checkpoint", !.adv = None, !.todo = {}, !.tree = {}])
  /\ UNCHANGED <<kind, world, db, output, clash>>

(* A request or a file operation fails with some of the files written, or  *)
(* the deletion pass refuses.                                              *)
SyncFails(p) ==
  /\ run[p].pc \in {"tarball", "fetch"}
  /\ \E got \in SUBSET run[p].todo :
       Fetched(p, got, {}) /\ mirror' = (mirror \/ got # {})
  /\ Step(p, AfterSync(p, FALSE))
  /\ UNCHANGED <<kind, world, db, output, clash>>

(* The checkpoint the adapter returned; a failure to store it fails the    *)
(* source but not what follows.                                            *)
RecordCheckpoint(p) ==
  /\ At(p, "checkpoint")
  /\ \/ run[p].adv = None /\ UNCHANGED db /\ Goto(p, "flag")
     \/ /\ run[p].adv # None
        /\ db' = [db EXCEPT !.ck = run[p].adv]
        /\ Goto(p, "flag")
     \/ /\ run[p].adv # None
        /\ UNCHANGED db
        /\ Step(p, [run[p] EXCEPT !.pc = "flag", !.ok = FALSE])
  /\ UNCHANGED <<kind, world, raw, mirror, output, history>>

(* Mutant: any walk that ended well clears the flag.                       *)
MirrorRebuilt_AnyWalk(p) == kind # "feed"

MirrorRebuilt(p) ==
  /\ run[p].opt # "limit"
  /\ CASE kind = "repo"  -> run[p].adv # None
       [] kind = "feed"  -> FALSE
       [] kind = "forum" -> run[p].opt = "full"

ClearFlag(p) ==
  /\ At(p, "flag")
  /\ LET clears == run[p].flag /\ MirrorRebuilt(p)
     IN  \/ ~ clears /\ UNCHANGED db /\ Step(p, AfterSync(p, run[p].ok))
         \/ /\ clears
            /\ db' = [db EXCEPT !.absent = FALSE]
            /\ Step(p, AfterSync(p, run[p].ok))
         \/ clears /\ UNCHANGED db /\ Step(p, AfterSync(p, FALSE))
  /\ UNCHANGED <<kind, world, raw, mirror, output, history>>
-----------------------------------------------------------------------------
(***************************************************************************)
(* The writer lock, index_with and embed.                                  *)
(***************************************************************************)

(* The end of the index stage: update embeds even when it failed. *)
EndIndex(p, corpus) ==
  \/ /\ run[p].cmd = "update"
     /\ Step(p, [Idle EXCEPT !.pc = "embed", !.cmd = "update",
                             !.ok = run[p].ok /\ ~ run[p].errors,
                             !.owed = run[p].owed, !.behind = run[p].behind,
                             !.due = run[p].due,
                             !.excused = @ \cup (run[p].excused \cap (db.docs \ corpus.docs))])
     /\ db' = corpus
  \/ /\ run[p].cmd = "index"
     /\ Leave(p)
     /\ db' = [corpus EXCEPT !.lock = None]

LockRefused(p) ==
  /\ At(p, "lock")
  /\ db.lock # None
  /\ Leave(p)
  /\ UNCHANGED <<kind, world, machine, output, history>>

(* The lock, then raw_files.  Without a directory the source is skipped,   *)
(* or the command fails when the source was named (`--source`).  What the  *)
(* raw files can give the index is settled here.                           *)
ListRawFiles(p) ==
  /\ At(p, "lock") \/ (Starts(p, "index") /\ mirror)
  /\ db.lock = None
  /\ db' = [db EXCEPT !.lock = p]
  /\ LET cmd == IF At(p, "lock") THEN "update" ELSE "index"
         r == [run[p] EXCEPT !.cmd = cmd,
                             !.behind = IF cmd = "index" THEN {}
                                        ELSE IF mirror THEN overtaken ELSE Docs,
                             !.due = @ \ (overtaken \cup lost)]
     IN  \/ mirror /\ Step(p, [r EXCEPT !.pc = "files", !.seen = raw,
                                           !.excused = IF db.absent THEN Docs ELSE overtaken])
         \/ /\ ~ mirror
            /\ \E ok \in {r.ok, FALSE} :
                 Step(p, [r EXCEPT !.pc = "embed", !.ok = ok])
  /\ UNCHANGED <<kind, world, raw, mirror, output, history>>

(* The files of the list, parsed and upserted.  A file may have gone since *)
(* and may not parse.                                                      *)
IndexFiles(p) ==
  /\ At(p, "files")
  /\ \E bad \in SUBSET run[p].seen :
       LET good == (run[p].seen \cap raw) \ bad
       IN  /\ db' = [db EXCEPT !.docs = @ \cup good,
                               !.embedded = @ /\ good \subseteq db.docs]
           /\ Step(p, [run[p] EXCEPT
                         !.pc = "prune", !.seen = good,
                         !.errors = bad # {} \/ (kind # "forum" /\ ~ run[p].seen \subseteq raw)])
  /\ UNCHANGED <<kind, world, raw, mirror, output, history>>

(* Mutant: a clean pass is taken for a complete mirror.                    *)
Prunes_DespiteFlag(p) == ~ run[p].errors

(* The flag is read after the files.                                       *)
Prunes(p) == ~ db.absent /\ ~ run[p].errors

Prune(p) ==
  /\ At(p, "prune")
  /\ LET keep == IF Prunes(p) THEN run[p].seen ELSE Docs
     IN  EndIndex(p, [db EXCEPT !.docs = @ \cap keep])
  /\ UNCHANGED <<kind, world, raw, mirror, output, history>>

(* embed may fail; the report and the exit status come after it. *)
Embed(p) ==
  /\ At(p, "embed")
  /\ \E done \in BOOLEAN :
       db' = [Unlocked(p) EXCEPT !.embedded = @ \/ (done /\ db.docs # {})]
  /\ Leave(p)
  /\ UNCHANGED <<kind, world, raw, mirror, output, history>>
-----------------------------------------------------------------------------
(***************************************************************************)
(* publish.                                                                *)
(***************************************************************************)

(* preflight, the checkpoint of every forum, ensure_tag_free. *)
Publishable ==
  /\ db.docs # {} /\ db.embedded
  /\ kind = "forum" => db.ck # None
  /\ release = None

(* The lock, the checks, and the leftovers of an interrupted attempt, or   *)
(* the files of a publish that dropped the lock and is still at work.      *)
BeginPublish(p) ==
  /\ Starts(p, "publish")
  /\ db.lock = None
  /\ Publishable
  /\ Step(p, [Idle EXCEPT !.pc = "vacuum", !.cmd = "publish"])
  /\ db' = [db EXCEPT !.lock = p]
  /\ snap' = None /\ art' = None
  /\ clash' = (clash \/ \E q \in Procs : run[q].pc \in {"stamp", "compress", "create"})
  /\ UNCHANGED <<kind, world, raw, mirror, release, lost, overtaken>>

(* VACUUM INTO refuses an existing file.  Then the lock is dropped. *)
Vacuum(p) ==
  /\ At(p, "vacuum")
  /\ db' = Unlocked(p)
  /\ IF snap = None THEN snap' = db /\ Goto(p, "stamp")
     ELSE UNCHANGED snap /\ Leave(p)
  /\ UNCHANGED <<kind, world, raw, mirror, art, release, history>>

(* Mutant: the copied lock row is left in.                                 *)
Stamped_KeepsLock(c) == [c EXCEPT !.absent = TRUE]

(* mirror.absent for every source with documents, and no lock row. *)
Stamped(c) == [c EXCEPT !.absent = TRUE, !.lock = None]

(* Store::open creates what it does not find. *)
Stamp(p) ==
  /\ At(p, "stamp")
  /\ snap' = Stamped(IF snap = None THEN NewCorpus ELSE snap)
  /\ Goto(p, "compress")
  /\ UNCHANGED <<kind, world, machine, art, release, history>>

Compress(p) ==
  /\ At(p, "compress")
  /\ IF snap = None THEN Leave(p) /\ UNCHANGED <<snap, art>>
     ELSE art' = snap /\ snap' = None /\ Goto(p, "create")
  /\ UNCHANGED <<kind, world, machine, release, history>>

(* gh release create fails without its file and on a tag in use; a dry run *)
(* is a run killed before it.                                              *)
CreateRelease(p) ==
  /\ At(p, "create")
  /\ Leave(p)
  /\ release' = IF art # None /\ release = None THEN art ELSE release
  /\ art' = None
  /\ UNCHANGED <<kind, world, machine, snap, history>>
-----------------------------------------------------------------------------
SyncStep(p) ==
  \/ \E cmd \in {"sync", "update"}, opt \in OptionsOf(kind) :
       BeginSync(p, cmd, opt)
  \/ Tarball(p)
  \/ EndWalk(p) \/ EndRepo(p) \/ EndLimited(p) \/ SyncFails(p)
  \/ RecordCheckpoint(p) \/ ClearFlag(p)

IndexStep(p) ==
  \/ ListRawFiles(p) \/ IndexFiles(p)
  \/ Prune(p) \/ Embed(p)

PublishStep(p) ==
  \/ BeginPublish(p) \/ Vacuum(p)
  \/ Stamp(p) \/ Compress(p) \/ CreateRelease(p)

Next ==
  \/ \E d \in Docs : Upstream(d)
  \/ \E p \in Procs :
       \/ LockRefused(p) \/ Kill(p) \/ SyncStep(p) \/ IndexStep(p) \/ PublishStep(p)

Spec == Init /\ [][Next]_vars
-----------------------------------------------------------------------------
(***************************************************************************)
(* Properties.                                                             *)
(***************************************************************************)

(* A document that is live upstream leaves the corpus for two reasons only *)
(* (index_with's deletion pass): the flag was cleared between the listing  *)
(* of the files and the gate, by a sync that runs beside the index; or the *)
(* document is overtaken: a walk of an older upstream had the last word on *)
(* its file, or it slid past the walk that was to rebuild the mirror (see  *)
(* FullWalkLosesNothing).  A parse error, a limited or failed walk, a      *)
(* missing directory and a downloaded corpus never look like a deletion.   *)
PruneSound ==
  [][\A p \in Procs :
       Prune(p) => (db.docs \ db'.docs) \cap Live
                     \subseteq IF db.absent THEN {} ELSE run[p].excused]_vars

(* What the comments on mirror_rebuilt say of `sync --full`: it leaves a   *)
(* complete mirror ("Ok means every fetch landed"), so that the index that *)
(* follows removes nothing that is still upstream.  A walk that one topic  *)
(* slid past is Ok as well, and its document goes.                         *)
FullWalkLosesNothing ==
  [][\A p \in Procs : Prune(p) => (db.docs \ db'.docs) \cap Live = {}]_vars

(* What the full listings of an update are for ("a removal request is      *)
(* exactly the case that must not wait"): an update that reports no error  *)
(* has removed from the corpus what was gone upstream when it began.  The  *)
(* code does less in four cases.  A topic that left the forum's listing as *)
(* a whole keeps its file and its documents, whatever is run.  What is     *)
(* overtaken waits for the next update: a topic that slid past this one's  *)
(* own walk, a file that an overlapping walk of an older upstream wrote    *)
(* last.  A source without a directory is skipped.  And on a downloaded    *)
(* corpus, or from a feed, nothing is owed at all.                         *)
RemovalHonoured ==
  \A p \in Procs :
    At(p, "embed") /\ run[p].ok =>
      run[p].owed \cap db.docs \subseteq Delisted \cup run[p].behind

(* Nor does it miss a document that was upstream when it began, unless a   *)
(* walk was overtaken, or the corpus was downloaded from a release whose   *)
(* checkpoint was ahead of its documents.                                  *)
UpdateDelivers ==
  \A p \in Procs :
    At(p, "embed") /\ run[p].ok =>
      run[p].due \cap Live \subseteq db.docs \cup run[p].excused

(* The checkpoint never vouches for what is neither in a raw file nor in   *)
(* the corpus: whatever is killed, the next walk or index brings it in     *)
(* ("Claim what produced this tree, last").                                *)
CheckpointHonest ==
  Covered(db.ck) \cap Live \subseteq raw \cup db.docs \cup lost \cup overtaken

(* A release serves both search arms and updates cheaply: documents, each  *)
(* with its vectors, the flag, no phantom writer, a forum's checkpoint;    *)
(* unless two publishes of one tag overlapped after the lock was dropped.  *)
ReleaseUsable ==
  release # None /\ ~ clash => release \in Downloads
=============================================================================
