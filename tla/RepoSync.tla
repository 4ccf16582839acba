------------------------------ MODULE RepoSync ------------------------------
(***************************************************************************)
(* The sync of a git repository from a tarball of its branch.              *)
(*   wikipethia-fetch/src/repo.rs  RepoAdapter                             *)
(*   wikipethia/src/main.rs        sync_sources, which stores what it      *)
(*                                 advances                                *)
(* A content is the commit that wrote it, and so is a date: what matters   *)
(* is which of two is older.  Every commit writes or removes one file and  *)
(* the branch only moves forward.  Files are written and removed one at a  *)
(* time, dates.json after every answer, so a sync may be cut short, by a   *)
(* kill or an error, between any two of them.  One sync runs at a time:    *)
(* Pipeline has the overlaps.                                              *)
(***************************************************************************)
EXTENDS Naturals, FiniteSets

CONSTANTS
  Paths,       \* the paths the repository may hold
  Dated,       \* files that state their date, in frontmatter or body
  Configs,     \* the sets of paths that `paths` and `file_types` may select
  MaxCommits,  \* bound: the commits
  MaxSyncs,    \* bound: the syncs
  NoHead       \* no head_sha

ASSUME RepoAssumption ==
  /\ Dated \subseteq Paths
  /\ Configs \subseteq SUBSET Paths
  /\ MaxCommits \in Nat \ {0} /\ MaxSyncs \in Nat
  /\ NoHead \notin Nat

VARIABLES
  head,     \* the last commit of the branch
  tree,     \* path -> the commit its content is from, 0 when it is not there
  touched,  \* path -> the last commit in its history, 0 for none
  config,   \* the paths the manifest selects
  files,    \* <data_dir>/files: path -> the commit the content is from, or 0
  dates,    \* dates.json: path -> the commit it gives the date of, or 0
  state,    \* the SyncState on record: [sha, config]
  absent,   \* the mirror.absent flag of the source
  walk,     \* the sync
  syncs,    \* the syncs so far
  undated   \* history: files a sync has changed without learning their date

upstream == <<head, tree, touched>>
disk     == <<files, dates>>
repoVars == <<head, tree, touched, config, files, dates, state, absent, walk,
              syncs, undated>>

Commits == 0 .. MaxCommits
Contents == [Paths -> Commits]

Asleep == [pc |-> "idle", force |-> FALSE, limit |-> FALSE, head |-> NoHead,
           config |-> {}, tar |-> [p \in Paths |-> 0], todo |-> {}, kept |-> {},
           dirty |-> {}, dates |-> [p \in Paths |-> 0], advances |-> FALSE]

Walks == [pc : {"idle", "tarball", "unpack", "prune", "dates"},
          force : BOOLEAN, limit : BOOLEAN,
          head : Commits \cup {NoHead},  \* head_sha of the branch's feed
          config : SUBSET Paths,         \* the manifest as this sync read it
          tar : Contents,                \* the tarball
          todo : SUBSET Paths,           \* to unpack, then to remove, then to date
          kept : SUBSET Paths,
          dirty : SUBSET Paths,          \* written by this sync
          dates : Contents,              \* the dates in memory
          advances : BOOLEAN]

RepoTypeOK ==
  /\ head \in Commits
  /\ tree \in Contents /\ touched \in Contents
  /\ config \in Configs
  /\ files \in Contents /\ dates \in Contents
  /\ state \in [sha : Commits \cup {NoHead}, config : SUBSET Paths]
  /\ absent \in BOOLEAN
  /\ walk \in Walks
  /\ syncs \in 0 .. MaxSyncs
  /\ undated \in SUBSET Paths

(* A new corpus, or a downloaded one: its checkpoint came with it, its     *)
(* mirror did not.                                                         *)
RepoInit ==
  /\ head = 1
  /\ tree \in [Paths -> {0, 1}] /\ touched = tree
  /\ config \in Configs
  /\ files = [p \in Paths |-> 0] /\ dates = [p \in Paths |-> 0]
  /\ \/ state = [sha |-> NoHead, config |-> {}] /\ absent = FALSE
     \/ state = [sha |-> head, config |-> config] /\ absent = TRUE
  /\ walk = Asleep /\ syncs = 0 /\ undated = {}
-----------------------------------------------------------------------------
(* raw_files, and `wanted` on the entries of an archive: one selection.    *)
Wanted(c, held) == {p \in c : held[p] # 0}
RawFiles(c) == Wanted(c, files)

(* Files still owed a date: pending_dates.                                 *)
Pending(c, known, held) == {p \in Wanted(c, held) \ Dated : known[p] = 0}

Without(f, ps) == [p \in Paths |-> IF p \in ps THEN 0 ELSE f[p]]

Commit(p) ==
  /\ head < MaxCommits
  /\ head' = head + 1
  /\ touched' = [touched EXCEPT ![p] = head + 1]
  /\ \/ tree' = [tree EXCEPT ![p] = head + 1]
     \/ tree[p] # 0 /\ tree' = [tree EXCEPT ![p] = 0]
  /\ UNCHANGED <<config, disk, state, absent, walk, syncs, undated>>

(* sources.toml is edited; a sync in progress has read it already, so it   *)
(* may as well have ended.                                                 *)
Configure ==
  /\ walk.pc = "idle"
  /\ config' \in Configs
  /\ UNCHANGED <<upstream, disk, state, absent, walk, syncs, undated>>

(* Mutant: the selection is not part of the checkpoint's claim.            *)
Unmoved_AnyConfig(sha, force, limit) ==
  /\ sha # NoHead
  /\ ~ force /\ ~ limit
  /\ state.sha = sha
  /\ RawFiles(config) # {}

(* The head is a request of its own and may fail.  The shortcut must find  *)
(* the same commit, the same selection and some file on disk; what it does *)
(* is the dates pass.                                                      *)
Unmoved(sha, force, limit) ==
  /\ sha # NoHead
  /\ ~ force /\ ~ limit
  /\ state.sha = sha
  /\ state.config = config
  /\ RawFiles(config) # {}

BeginRepo(force, limit) ==
  /\ walk.pc = "idle" /\ syncs < MaxSyncs
  /\ syncs' = syncs + 1
  /\ \E sha \in {head, NoHead} :
       LET w == [Asleep EXCEPT !.force = force, !.limit = limit,
                               !.head = sha, !.config = config]
       IN  walk' = IF Unmoved(sha, force, limit)
                     THEN [w EXCEPT !.pc = "dates", !.dates = dates,
                                    !.todo = Pending(config, dates, files)]
                     ELSE [w EXCEPT !.pc = "tarball"]
  /\ UNCHANGED <<upstream, config, disk, state, absent, undated>>

(* The branch may have moved since its head was read. *)
GetTarball ==
  /\ walk.pc = "tarball"
  /\ walk' = [walk EXCEPT !.pc = "unpack", !.tar = tree,
                          !.todo = Wanted(walk.config, tree)]
  /\ UNCHANGED <<upstream, config, disk, state, absent, syncs, undated>>

(* --limit is 1 here: it stops after the first wanted entry.               *)
AtLimit == walk.limit /\ walk.kept # {}

(* An entry with the bytes that are on disk already is left alone.         *)
Unpack(p) ==
  /\ walk.pc = "unpack" /\ p \in walk.todo /\ ~ AtLimit
  /\ LET fresh == files[p] # walk.tar[p]
     IN  /\ files' = [files EXCEPT ![p] = walk.tar[p]]
         /\ walk' = [walk EXCEPT !.todo = @ \ {p}, !.kept = @ \cup {p},
                                 !.dirty = IF fresh THEN @ \cup {p} ELSE @]
  /\ UNCHANGED <<upstream, config, dates, state, absent, syncs, undated>>

(* No wanted entry at all is a configuration failure, not a deletion.      *)
Mismatch == ~ walk.limit /\ walk.kept = {} /\ RawFiles(walk.config) # {}

(* Mutant: dates.json is trusted for files this sync has changed.          *)
DatesToAsk_Known(saved) == IF walk.force THEN [p \in Paths |-> 0] ELSE saved

(* What is known of dates when the dates pass begins: in memory only.      *)
DatesToAsk(saved) ==
  IF walk.force THEN [p \in Paths |-> 0] ELSE Without(saved, walk.dirty)

(* What the deletion pass, which a limited sync leaves out, will remove.   *)
EndUnpack ==
  /\ walk.pc = "unpack" /\ (walk.todo = {} \/ AtLimit)
  /\ ~ Mismatch
  /\ walk' = [walk EXCEPT !.pc = "prune", !.dates = dates,
                          !.todo = IF walk.limit THEN {}
                                   ELSE RawFiles(walk.config) \ walk.kept]
  /\ UNCHANGED <<upstream, config, disk, state, absent, syncs, undated>>

(* (That the removal itself may fail unnoticed is left out.)               *)
RemoveFile(p) ==
  /\ walk.pc = "prune" /\ p \in walk.todo
  /\ files' = Without(files, {p})
  /\ walk' = [walk EXCEPT !.todo = @ \ {p}, !.dates = Without(@, {p})]
  /\ UNCHANGED <<upstream, config, dates, state, absent, syncs, undated>>

(* dates.json without the files that were removed; then the dates pass.    *)
EndPrune ==
  /\ walk.pc = "prune" /\ walk.todo = {}
  /\ dates' = IF walk.limit THEN dates ELSE walk.dates
  /\ LET known == DatesToAsk(walk.dates)
     IN  walk' = [walk EXCEPT !.pc = "dates", !.advances = ~ walk.limit, !.dates = known,
                              !.todo = Pending(walk.config, known, files)]
  /\ UNCHANGED <<upstream, config, files, state, absent, syncs, undated>>

(* fill_dates: the feed of a file gives its last commit, or nothing, which *)
(* is no error.                                                            *)
AskDate(p) ==
  /\ walk.pc = "dates" /\ p \in walk.todo
  /\ \/ LET known == [walk.dates EXCEPT ![p] = touched[p]]
        IN  /\ walk' = [walk EXCEPT !.todo = @ \ {p}, !.dates = known]
            /\ dates' = known
            /\ undated' = undated \ {p}
     \/ /\ walk' = [walk EXCEPT !.todo = @ \ {p}]
        /\ undated' = undated \cup ({p} \cap walk.dirty)
        /\ UNCHANGED dates
  /\ UNCHANGED <<upstream, config, files, state, absent, syncs>>

Advances == walk.advances /\ walk.head # NoHead

(* The checkpoint is claimed last, and clears the flag (mirror_rebuilt).   *)
EndRepoSync ==
  /\ walk.pc = "dates" /\ walk.todo = {}
  /\ state' = IF Advances THEN [sha |-> walk.head, config |-> walk.config] ELSE state
  /\ absent' = (absent /\ ~ Advances)
  /\ walk' = Asleep
  /\ UNCHANGED <<upstream, config, disk, syncs, undated>>

(* A request that failed for good, an entry that cannot be read, a full    *)
(* disk, a kill; also the refusal of a mismatch.                           *)
CutShort ==
  /\ walk.pc # "idle"
  /\ walk' = Asleep
  /\ undated' = undated \cup IF walk.pc # "dates" THEN walk.dirty
                             ELSE walk.dirty \cap walk.todo
  /\ UNCHANGED <<upstream, config, disk, state, absent, syncs>>

RepoNext ==
  \/ \E p \in Paths : Commit(p) \/ Unpack(p) \/ RemoveFile(p) \/ AskDate(p)
  \/ Configure
  \/ \E force, limit \in BOOLEAN : BeginRepo(force, limit)
  \/ GetTarball \/ EndUnpack \/ EndPrune \/ EndRepoSync \/ CutShort

RepoSpec == RepoInit /\ [][RepoNext]_repoVars
-----------------------------------------------------------------------------
(* parse_file: the date a document is published with.  (A file whose       *)
(* frontmatter states no date has none, whatever dates.json says: it is    *)
(* not of those in Paths.)                                                 *)
Published(p) == IF p \in Dated THEN files[p] ELSE dates[p]

(* What is said to be unpacked: by the checkpoint, or by a sync that is    *)
(* past its shortcut or its archive.  A downloaded corpus claims a commit  *)
(* whose files it lacks, which is what the flag says of it.                *)
Claimed(sha, c) ==
  \/ ~ absent /\ state = [sha |-> sha, config |-> c]
  \/ /\ walk.pc = "dates" /\ ~ walk.limit
     /\ walk.advances \/ ~ absent
     /\ walk.head = sha /\ walk.config = c

(* The sha is safe to trust: while the branch stands where a claim says,   *)
(* the files of that selection are those of the commit, whatever syncs     *)
(* were cut short, limited or run under another selection meanwhile.       *)
CheckpointDescribes ==
  \A c \in Configs : Claimed(head, c) => \A p \in c : files[p] = tree[p]

(* A document is never dated before the change it holds, except one whose  *)
(* date was not learnt by the sync that brought the change: cut short, or  *)
(* left without an answer.  (Such a date stays, for dates.json keeps the   *)
(* old one and only --force asks again.)                                   *)
DatesFollow ==
  \A p \in Paths \ (undated \cup walk.dirty) :
    files[p] # 0 /\ Published(p) # 0 => Published(p) >= files[p]
=============================================================================
