--------------------------- MODULE Sources_proofs ---------------------------
(***************************************************************************)
(* Proofs about what a sync does beside the walk of a forum: RepoSync,     *)
(* FeedSync and PoliteClient.  The three share nothing.                    *)
(***************************************************************************)
EXTENDS RepoSync, FeedSync, PoliteClient, TLAPS
-----------------------------------------------------------------------------
(***************************************************************************)
(* RepoSync, for any paths, selections and number of commits and syncs:    *)
(* the checkpoint may be trusted, and dates follow contents.               *)
(***************************************************************************)

(***************************************************************************)
(* The invariant.                                                          *)
(***************************************************************************)

(* Nothing at hand is newer than what it was read from.                    *)
OfThePast ==
  /\ \A p \in Paths : /\ tree[p] <= touched[p] /\ touched[p] <= head
                      /\ files[p] <= touched[p] /\ walk.tar[p] <= touched[p]
  /\ state.sha # NoHead => state.sha <= head
  /\ walk.head # NoHead => walk.head <= head

(* A tarball is downloaded after the head was read, and after the head on  *)
(* record was: when either is still the head, the tarball is its tree.     *)
TarballFresh ==
  walk.pc \in {"unpack", "prune"} /\ head \in {walk.head, state.sha} => walk.tar = tree

(* How far a sync has come with the files of its selection: what it does   *)
(* not have yet is to be unpacked; what is no longer there, to be removed. *)
Unpacking ==
  /\ walk.pc = "tarball" => walk.kept = {}
  /\ walk.pc = "unpack" =>
       /\ walk.todo \subseteq Wanted(walk.config, walk.tar)
       /\ walk.kept \subseteq Wanted(walk.config, walk.tar)
       /\ \A p \in Wanted(walk.config, walk.tar) \ walk.todo :
            p \in walk.kept /\ files[p] = walk.tar[p]

Pruning ==
  walk.pc = "prune" =>
    /\ walk.limit => walk.todo = {}
    /\ walk.todo \subseteq {p \in walk.config : walk.tar[p] = 0}
    /\ ~ walk.limit =>
         \A p \in walk.config \ walk.todo : files[p] = walk.tar[p]

(* What a sync in its last phase may claim, or has found claimed.          *)
Dating ==
  walk.pc = "dates" =>
    /\ walk.advances => /\ ~ walk.limit
                        /\ walk.head = head => \A p \in walk.config : files[p] = tree[p]
    /\ ~ walk.limit /\ ~ walk.advances =>
         state.sha = walk.head /\ state.config = walk.config

(* What is on record, with the mirror there, is what is on disk.           *)
RecordTrue ==
  ~ absent /\ state.sha = head => \A p \in state.config : files[p] = tree[p]

TrustInv == OfThePast /\ TarballFresh /\ Unpacking /\ Pruning /\ Dating /\ RecordTrue

(* A date, on disk or in memory, that is not before the change.            *)
Follows(known, p) == files[p] # 0 /\ known[p] # 0 => files[p] <= known[p]

(* Files a sync has written are there until it ends, and its memory has no *)
(* date of theirs until it asks for one.                                   *)
DirtyKept ==
  /\ walk.pc \in {"idle", "tarball"} => walk.dirty = {}
  /\ walk.dirty \subseteq {p \in walk.config : files[p] # 0}
  /\ walk.pc = "unpack" => walk.dirty \subseteq walk.kept
  /\ walk.pc = "prune" => walk.dirty \cap walk.todo = {}

DatesInv ==
  /\ DirtyKept
  /\ \A p \in Paths \ (Dated \cup undated \cup walk.dirty) : Follows(dates, p)
  /\ walk.pc = "prune" =>
       \A p \in Paths : walk.dates[p] \in {0, dates[p]}
  /\ walk.pc = "dates" =>
       /\ \A p \in Paths \ (Dated \cup undated) : Follows(walk.dates, p)
       /\ \A p \in walk.dirty \ (Dated \cup undated \cup walk.todo) : Follows(dates, p)

RepoInv == RepoTypeOK /\ TrustInv /\ DatesInv
-----------------------------------------------------------------------------
(* The types, one by one.                                                  *)
LEMMA Typed ==
  ASSUME RepoInv
  PROVE  /\ head \in Commits /\ tree \in Contents /\ touched \in Contents
         /\ config \in Configs /\ files \in Contents /\ dates \in Contents
         /\ state \in [sha : Commits \cup {NoHead}, config : SUBSET Paths]
         /\ absent \in BOOLEAN /\ walk \in Walks
         /\ syncs \in 0 .. MaxSyncs /\ undated \in SUBSET Paths
BY Zenon DEF RepoInv, RepoTypeOK

LEMMA WalkTyped ==
  ASSUME NEW w \in Walks
  PROVE  /\ w.head \in Commits \cup {NoHead} /\ w.config \in SUBSET Paths
         /\ w.tar \in Contents /\ w.dates \in Contents
         /\ w.todo \in SUBSET Paths /\ w.kept \in SUBSET Paths /\ w.dirty \in SUBSET Paths
         /\ w.force \in BOOLEAN /\ w.limit \in BOOLEAN /\ w.advances \in BOOLEAN
         /\ w.pc \in {"idle", "tarball", "unpack", "prune", "dates"}
BY Zenon DEF Walks

LEMMA ContentsNat ==
  ASSUME NEW f \in Contents, NEW p \in Paths
  PROVE  f[p] \in Nat /\ f[p] \in Commits
BY RepoAssumption DEF Contents, Commits

LEMMA NothingTyped == [p \in Paths |-> 0] \in Contents
BY RepoAssumption DEF Contents, Commits

LEMMA AsleepTyped ==
  /\ Asleep \in Walks /\ Asleep.pc = "idle" /\ Asleep.head = NoHead
  /\ Asleep.dirty = {} /\ Asleep.tar = [p \in Paths |-> 0]
<1>1. {} \in SUBSET Paths
  OBVIOUS
<1> QED BY <1>1, NothingTyped DEF Asleep, Walks

LEMMA WithoutTyped ==
  ASSUME NEW f \in Contents, NEW ps
  PROVE  /\ Without(f, ps) \in Contents
         /\ \A p \in Paths : Without(f, ps)[p] = IF p \in ps THEN 0 ELSE f[p]
BY ContentsNat, NothingTyped DEF Without, Contents

(***************************************************************************)
(* It holds at the start, and it is enough.                                *)
(***************************************************************************)

LEMMA RepoInitHolds == RepoInit => RepoInv
<1> SUFFICES ASSUME RepoInit PROVE RepoInv
  OBVIOUS
<1>1. /\ head = 1 /\ tree \in [Paths -> {0, 1}] /\ touched = tree
      /\ config \in Configs /\ walk = Asleep /\ syncs = 0 /\ undated = {}
      /\ files = [p \in Paths |-> 0] /\ dates = [p \in Paths |-> 0]
  BY Zenon DEF RepoInit
<1>2. \/ state = [sha |-> NoHead, config |-> {}] /\ absent = FALSE
      \/ state = [sha |-> head, config |-> config] /\ absent = TRUE
  BY Zenon DEF RepoInit
<1>3. 1 \in Commits /\ 0 \in Commits /\ 0 \in 0 .. MaxSyncs
  BY RepoAssumption DEF Commits
<1>4. tree \in Contents
  BY <1>1, <1>3 DEF Contents
<1>5. state \in [sha : Commits \cup {NoHead}, config : SUBSET Paths] /\ absent \in BOOLEAN
  <2>1. config \in SUBSET Paths
    BY <1>1, RepoAssumption
  <2>2. head \in Commits \cup {NoHead}
    BY <1>1, <1>3
  <2>3. CASE state = [sha |-> NoHead, config |-> {}] /\ absent = FALSE
    BY <2>3
  <2>4. CASE state = [sha |-> head, config |-> config] /\ absent = TRUE
    BY <2>1, <2>2, <2>4
  <2> QED BY <1>2, <2>3, <2>4
<1>6. RepoTypeOK
  BY <1>1, <1>3, <1>4, <1>5, AsleepTyped, NothingTyped DEF RepoTypeOK
<1>7. TrustInv
  <2>1. OfThePast
    <3>1. state.sha # NoHead => state.sha <= head
      BY <1>1, <1>2
    <3>2. walk.head = NoHead
      BY <1>1, AsleepTyped
    <3>3. \A p \in Paths : tree[p] <= touched[p] /\ touched[p] <= head
                           /\ files[p] <= touched[p] /\ walk.tar[p] <= touched[p]
      BY <1>1, AsleepTyped
    <3> QED BY <3>1, <3>2, <3>3 DEF OfThePast
  <2>2. RecordTrue
    <3>1. CASE state = [sha |-> NoHead, config |-> {}]
      <4>1. state.sha = NoHead
        BY <3>1
      <4> QED BY <1>1, <4>1, RepoAssumption DEF RecordTrue
    <3>2. CASE absent = TRUE
      BY <3>2 DEF RecordTrue
    <3> QED BY <1>2, <3>1, <3>2
  <2>3. walk.pc = "idle"
    BY <1>1, AsleepTyped
  <2> QED BY <2>1, <2>2, <2>3 DEF TrustInv, TarballFresh, Unpacking, Pruning, Dating
<1>8. DatesInv
  <2>1. walk.pc = "idle" /\ walk.dirty = {}
    BY <1>1, AsleepTyped
  <2>2. \A p \in Paths : Follows(dates, p)
    BY <1>1 DEF Follows
  <2> QED BY <2>1, <2>2 DEF DatesInv, DirtyKept
<1> QED BY <1>6, <1>7, <1>8 DEF RepoInv

LEMMA Trustworthy == RepoInv => CheckpointDescribes
<1> SUFFICES ASSUME RepoInv, NEW c \in Configs, Claimed(head, c), NEW p \in c
             PROVE  files[p] = tree[p]
  BY DEF CheckpointDescribes
<1>1. CASE ~ absent /\ state = [sha |-> head, config |-> c]
  <2>1. state.sha = head /\ state.config = c
    BY <1>1
  <2> QED BY <1>1, <2>1 DEF RepoInv, TrustInv, RecordTrue
<1>2. CASE /\ walk.pc = "dates" /\ ~ walk.limit
           /\ walk.advances \/ ~ absent
           /\ walk.head = head /\ walk.config = c
  <2>1. CASE walk.advances
    BY <1>2, <2>1 DEF RepoInv, TrustInv, Dating
  <2>2. CASE ~ walk.advances
    <3>1. state.sha = head /\ state.config = c /\ ~ absent
      BY <1>2, <2>2 DEF RepoInv, TrustInv, Dating
    <3> QED BY <3>1 DEF RepoInv, TrustInv, RecordTrue
  <2> QED BY <2>1, <2>2
<1> QED BY <1>1, <1>2 DEF Claimed

LEMMA DatesRight == RepoInv => DatesFollow
<1> SUFFICES ASSUME RepoInv, NEW p \in Paths \ (undated \cup walk.dirty),
                    files[p] # 0, Published(p) # 0
             PROVE  Published(p) >= files[p]
  BY DEF DatesFollow
<1>1. files[p] \in Nat /\ dates[p] \in Nat
  BY Typed, ContentsNat
<1>2. CASE p \in Dated
  BY <1>1, <1>2 DEF Published
<1>3. CASE p \notin Dated
  <2>1. Follows(dates, p) /\ Published(p) = dates[p]
    BY <1>3 DEF RepoInv, DatesInv, Published
  <2> QED BY <1>1, <2>1 DEF Follows
<1> QED BY <1>2, <1>3

(***************************************************************************)
(* Upstream and the manifest.                                              *)
(***************************************************************************)

(* A commit outdates every claim: no head on record or in hand is the head *)
(* any more.                                                               *)
LEMMA CommitInv ==
  ASSUME RepoInv, NEW p \in Paths, Commit(p)
  PROVE  RepoInv'
<1>1. /\ head < MaxCommits /\ head' = head + 1
      /\ touched' = [touched EXCEPT ![p] = head + 1]
      /\ \/ tree' = [tree EXCEPT ![p] = head + 1]
         \/ tree' = [tree EXCEPT ![p] = 0]
      /\ config' = config /\ files' = files /\ dates' = dates /\ state' = state
      /\ absent' = absent /\ walk' = walk /\ syncs' = syncs /\ undated' = undated
  BY Zenon DEF Commit, disk
<1>2. head \in Nat /\ head' \in Nat /\ head' \in Commits /\ 0 \in Commits
  BY <1>1, Typed, RepoAssumption DEF Commits
<1>3. touched' \in Contents /\ tree' \in Contents
  BY <1>1, <1>2, Typed DEF Contents
<1>4. RepoTypeOK'
  BY <1>1, <1>2, <1>3, Typed, Zenon DEF RepoTypeOK
<1>5. OfThePast'
  <2>1. ASSUME NEW q \in Paths
        PROVE  /\ tree'[q] <= touched'[q] /\ touched'[q] <= head'
               /\ files'[q] <= touched'[q] /\ walk'.tar[q] <= touched'[q]
    <3>1. /\ tree[q] <= touched[q] /\ touched[q] <= head
          /\ files[q] <= touched[q] /\ walk.tar[q] <= touched[q]
      BY DEF RepoInv, TrustInv, OfThePast
    <3>2. /\ tree[q] \in Nat /\ touched[q] \in Nat /\ files[q] \in Nat /\ walk.tar[q] \in Nat
      BY Typed, WalkTyped, ContentsNat
    <3>3. /\ touched'[q] = IF q = p THEN head + 1 ELSE touched[q]
          /\ tree'[q] = tree[q] \/ (q = p /\ tree'[q] \in {0, head + 1})
      BY <1>1, Typed DEF Contents
    <3> QED BY <1>1, <1>2, <3>1, <3>2, <3>3
  <2>2. state.sha # NoHead => state.sha <= head'
    BY <1>1, <1>2, Typed, RepoAssumption DEF RepoInv, TrustInv, OfThePast, Commits
  <2>3. walk.head # NoHead => walk.head <= head'
    BY <1>1, <1>2, Typed, WalkTyped, RepoAssumption DEF RepoInv, TrustInv, OfThePast, Commits
  <2> QED BY <1>1, <2>1, <2>2, <2>3 DEF OfThePast
<1>6. head' # state.sha /\ head' # walk.head
  BY <1>1, <1>2, Typed, WalkTyped, RepoAssumption DEF RepoInv, TrustInv, OfThePast
<1>7. TrustInv'
  BY <1>1, <1>5, <1>6
     DEF RepoInv, TrustInv, TarballFresh, Unpacking, Pruning, Dating, RecordTrue, Wanted
<1>8. DatesInv'
  BY <1>1 DEF RepoInv, DatesInv, DirtyKept, Follows
<1> QED BY <1>4, <1>7, <1>8 DEF RepoInv

LEMMA ConfigureInv ==
  ASSUME RepoInv, Configure \/ UNCHANGED repoVars
  PROVE  RepoInv'
<1>1. /\ head' = head /\ tree' = tree /\ touched' = touched
      /\ files' = files /\ dates' = dates /\ state' = state
      /\ absent' = absent /\ walk' = walk /\ syncs' = syncs /\ undated' = undated
  BY Zenon DEF Configure, repoVars, upstream, disk
<1>2. config' \in Configs
  BY Typed, Zenon DEF Configure, repoVars
<1>3. RepoTypeOK'
  BY <1>1, <1>2, Typed, Zenon DEF RepoTypeOK
<1>4. TrustInv'
  BY <1>1 DEF RepoInv, TrustInv, OfThePast, TarballFresh, Unpacking, Pruning, Dating,
              RecordTrue, Wanted
<1>5. DatesInv'
  BY <1>1 DEF RepoInv, DatesInv, DirtyKept, Follows
<1> QED BY <1>3, <1>4, <1>5 DEF RepoInv

(***************************************************************************)
(* A sync.                                                                 *)
(***************************************************************************)

(* It finds the record current, or asks for the archive.                   *)
LEMMA BeginRepoInv ==
  ASSUME RepoInv, NEW force \in BOOLEAN, NEW limit \in BOOLEAN, BeginRepo(force, limit)
  PROVE  RepoInv'
<1>1. /\ head' = head /\ tree' = tree /\ touched' = touched /\ config' = config
      /\ files' = files /\ dates' = dates /\ state' = state
      /\ absent' = absent /\ undated' = undated
      /\ walk.pc = "idle" /\ syncs < MaxSyncs /\ syncs' = syncs + 1
  BY Zenon DEF BeginRepo, upstream, disk
<1>2. syncs' \in 0 .. MaxSyncs
  BY <1>1, Typed, RepoAssumption
<1>3. PICK sha \in {head, NoHead} :
        LET w == [Asleep EXCEPT !.force = force, !.limit = limit,
                                !.head = sha, !.config = config]
        IN  walk' = IF Unmoved(sha, force, limit)
                      THEN [w EXCEPT !.pc = "dates", !.dates = dates,
                                     !.todo = Pending(config, dates, files)]
                      ELSE [w EXCEPT !.pc = "tarball"]
  BY Zenon DEF BeginRepo
<1>4. /\ walk'.head = sha /\ walk'.config = config /\ walk'.limit = limit
      /\ walk'.dirty = {} /\ walk'.kept = {} /\ walk'.advances = FALSE
      /\ walk'.tar = [q \in Paths |-> 0]
      /\ \/ walk'.pc = "tarball"
         \/ walk'.pc = "dates" /\ Unmoved(sha, force, limit) /\ walk'.dates = dates
  <2>1. CASE Unmoved(sha, force, limit)
    BY <1>3, <2>1 DEF Asleep
  <2>2. CASE ~ Unmoved(sha, force, limit)
    BY <1>3, <2>2 DEF Asleep
  <2> QED BY <2>1, <2>2
<1>5. walk' \in Walks
  <2>1. /\ sha \in Commits \cup {NoHead} /\ config \in SUBSET Paths /\ {} \in SUBSET Paths
        /\ Pending(config, dates, files) \in SUBSET Paths
        /\ [q \in Paths |-> 0] \in Contents /\ dates \in Contents
    BY Typed, RepoAssumption, NothingTyped DEF Pending, Wanted
  <2>2. CASE Unmoved(sha, force, limit)
    <3>1. walk' = [pc |-> "dates", force |-> force, limit |-> limit, head |-> sha,
                   config |-> config, tar |-> [q \in Paths |-> 0],
                   todo |-> Pending(config, dates, files), kept |-> {},
                   dirty |-> {}, dates |-> dates, advances |-> FALSE]
      BY <1>3, <2>2 DEF Asleep
    <3> QED BY <2>1, <3>1 DEF Walks
  <2>3. CASE ~ Unmoved(sha, force, limit)
    <3>1. walk' = [pc |-> "tarball", force |-> force, limit |-> limit, head |-> sha,
                   config |-> config, tar |-> [q \in Paths |-> 0],
                   todo |-> {}, kept |-> {},
                   dirty |-> {}, dates |-> [q \in Paths |-> 0], advances |-> FALSE]
      BY <1>3, <2>3 DEF Asleep
    <3> QED BY <2>1, <3>1 DEF Walks
  <2> QED BY <2>2, <2>3
<1>6. RepoTypeOK'
  BY <1>1, <1>2, <1>5, Typed, Zenon DEF RepoTypeOK
<1>7. OfThePast'
  <2>1. head \in Nat
    BY Typed DEF Commits
  <2>2. \A q \in Paths : walk'.tar[q] <= touched[q]
    BY <1>4, Typed, ContentsNat
  <2>3. walk'.head # NoHead => walk'.head <= head
    BY <1>4, <2>1
  <2> QED BY <1>1, <2>2, <2>3 DEF RepoInv, TrustInv, OfThePast
<1>8. Dating'
  <2> SUFFICES ASSUME walk'.pc = "dates" PROVE Dating'
    BY DEF Dating
  <2>1. state.sha = sha /\ state.config = config
    BY <1>4 DEF Unmoved
  <2> QED BY <1>1, <1>4, <2>1 DEF Dating
<1>9. TrustInv'
  BY <1>1, <1>4, <1>7, <1>8
     DEF RepoInv, TrustInv, TarballFresh, Unpacking, Pruning, RecordTrue
<1>10. DatesInv'
  <2>1. walk.dirty = {}
    BY <1>1 DEF RepoInv, DatesInv, DirtyKept
  <2>2. \A q \in Paths \ (Dated \cup undated) : Follows(dates, q)
    BY <2>1 DEF RepoInv, DatesInv
  <2> QED BY <1>1, <1>4, <2>2 DEF DatesInv, DirtyKept, Follows
<1> QED BY <1>6, <1>9, <1>10 DEF RepoInv

(* What changes of a sync changes in its record alone, and it is well      *)
(* typed.                                                                  *)
LEMMA GetTarballInv ==
  ASSUME RepoInv, GetTarball
  PROVE  RepoInv'
<1>1. /\ head' = head /\ tree' = tree /\ touched' = touched /\ config' = config
      /\ files' = files /\ dates' = dates /\ state' = state
      /\ absent' = absent /\ syncs' = syncs /\ undated' = undated
      /\ walk.pc = "tarball"
      /\ walk' = [walk EXCEPT !.pc = "unpack", !.tar = tree,
                              !.todo = Wanted(walk.config, tree)]
  BY Zenon DEF GetTarball, upstream, disk
<1>2. Wanted(walk.config, tree) \in SUBSET Paths
  BY Typed, WalkTyped DEF Wanted
<1>3. /\ walk' \in Walks
      /\ walk'.pc = "unpack" /\ walk'.tar = tree /\ walk'.todo = Wanted(walk.config, tree)
      /\ walk'.config = walk.config /\ walk'.head = walk.head /\ walk'.kept = walk.kept
      /\ walk'.dirty = walk.dirty
  BY <1>1, <1>2, Typed DEF Walks
<1>4. RepoTypeOK'
  BY <1>1, <1>3, Typed, Zenon DEF RepoTypeOK
<1>5. TrustInv'
  <2>1. OfThePast'
    BY <1>1, <1>3 DEF RepoInv, TrustInv, OfThePast
  <2>2. Unpacking'
    BY <1>1, <1>3 DEF RepoInv, TrustInv, Unpacking
  <2> QED BY <1>1, <1>3, <2>1, <2>2
          DEF RepoInv, TrustInv, TarballFresh, Pruning, Dating, RecordTrue
<1>6. DatesInv'
  BY <1>1, <1>3 DEF RepoInv, DatesInv, DirtyKept, Follows
<1> QED BY <1>4, <1>5, <1>6 DEF RepoInv

(* An entry is written, with the content of the archive: where a claim is  *)
(* at stake, that of the head.                                             *)
LEMMA UnpackInv ==
  ASSUME RepoInv, NEW p \in Paths, Unpack(p)
  PROVE  RepoInv'
<1> DEFINE fresh == files[p] # walk.tar[p]
<1>1. /\ head' = head /\ tree' = tree /\ touched' = touched /\ config' = config
      /\ dates' = dates /\ state' = state
      /\ absent' = absent /\ syncs' = syncs /\ undated' = undated
      /\ walk.pc = "unpack" /\ p \in walk.todo
      /\ files' = [files EXCEPT ![p] = walk.tar[p]]
      /\ walk' = [walk EXCEPT !.todo = @ \ {p}, !.kept = @ \cup {p},
                              !.dirty = IF fresh THEN @ \cup {p} ELSE @]
  BY Zenon DEF Unpack, upstream
<1>2. p \in walk.config /\ walk.tar[p] # 0
  BY <1>1 DEF RepoInv, TrustInv, Unpacking, Wanted
<1>3. /\ walk' \in Walks
      /\ walk'.pc = "unpack" /\ walk'.tar = walk.tar /\ walk'.todo = walk.todo \ {p}
      /\ walk'.config = walk.config /\ walk'.head = walk.head /\ walk'.kept = walk.kept \cup {p}
      /\ walk'.dirty = IF fresh THEN walk.dirty \cup {p} ELSE walk.dirty
  <2>1. /\ walk.todo \ {p} \in SUBSET Paths /\ walk.kept \cup {p} \in SUBSET Paths
        /\ (IF fresh THEN walk.dirty \cup {p} ELSE walk.dirty) \in SUBSET Paths
    BY Typed, WalkTyped
  <2> QED BY <1>1, <2>1, Typed DEF Walks
<1>4. /\ files' \in Contents /\ files'[p] = walk.tar[p]
      /\ \A q \in Paths : q # p => files'[q] = files[q]
  BY <1>1, Typed, WalkTyped, ContentsNat DEF Contents
<1>5. RepoTypeOK'
  BY <1>1, <1>3, <1>4, Typed, Zenon DEF RepoTypeOK
<1>6. TrustInv'
  <2>1. OfThePast'
    BY <1>1, <1>3, <1>4 DEF RepoInv, TrustInv, OfThePast
  <2>2. TarballFresh'
    BY <1>1, <1>3 DEF RepoInv, TrustInv, TarballFresh
  <2>3. Unpacking'
    <3> DEFINE W == Wanted(walk.config, walk.tar)
    <3>1. /\ walk.todo \subseteq W /\ walk.kept \subseteq W /\ W \subseteq Paths
          /\ \A q \in W \ walk.todo : q \in walk.kept /\ files[q] = walk.tar[q]
      BY <1>1, Typed, WalkTyped DEF RepoInv, TrustInv, Unpacking, Wanted
    <3>2. p \in W
      BY <1>2 DEF Wanted
    <3>3. \A q \in W \ walk'.todo : q \in walk'.kept /\ files'[q] = walk'.tar[q]
      BY <1>3, <1>4, <3>1
    <3>4. Wanted(walk.config, walk.tar)' = W
      BY <1>3 DEF Wanted
    <3>5. walk'.todo \subseteq W /\ walk'.kept \subseteq W
      BY <1>3, <3>1, <3>2
    <3> QED BY <1>3, <3>3, <3>4, <3>5 DEF Unpacking
  <2>4. RecordTrue'
    <3> SUFFICES ASSUME ~ absent, state.sha = head, NEW q \in state.config
                 PROVE  files'[q] = tree[q]
      BY <1>1 DEF RecordTrue
    <3>1. files[q] = tree[q] /\ q \in Paths
      BY Typed DEF RepoInv, TrustInv, RecordTrue
    <3>2. walk.tar = tree
      BY <1>1 DEF RepoInv, TrustInv, TarballFresh
    <3> QED BY <1>4, <3>1, <3>2
  <2> QED BY <1>3, <2>1, <2>2, <2>3, <2>4 DEF TrustInv, Pruning, Dating
<1>7. DatesInv'
  <2>1. DirtyKept'
    BY <1>1, <1>2, <1>3, <1>4, Typed, WalkTyped DEF RepoInv, DatesInv, DirtyKept
  <2>2. ASSUME NEW q \in Paths \ (Dated \cup undated \cup walk'.dirty)
        PROVE  Follows(dates, q)'
    <3>1. Follows(dates, q)
      BY <1>3, <2>2 DEF RepoInv, DatesInv
    <3>2. files'[q] = files[q]
      BY <1>3, <1>4, <2>2
    <3> QED BY <1>1, <3>1, <3>2 DEF Follows
  <2> QED BY <1>1, <1>3, <2>1, <2>2 DEF DatesInv
<1> QED BY <1>5, <1>6, <1>7 DEF RepoInv

(* The archive is unpacked; what is left of the selection on disk but was  *)
(* not in it is to be removed.                                             *)
LEMMA EndUnpackInv ==
  ASSUME RepoInv, EndUnpack
  PROVE  RepoInv'
<1> DEFINE stale == IF walk.limit THEN {} ELSE RawFiles(walk.config) \ walk.kept
<1>1. /\ head' = head /\ tree' = tree /\ touched' = touched /\ config' = config
      /\ files' = files /\ dates' = dates /\ state' = state
      /\ absent' = absent /\ syncs' = syncs /\ undated' = undated
      /\ walk.pc = "unpack" /\ (walk.todo = {} \/ AtLimit)
      /\ walk' = [walk EXCEPT !.pc = "prune", !.dates = dates, !.todo = stale]
  BY Zenon DEF EndUnpack, upstream, disk
<1>2. stale \in SUBSET Paths
  BY Typed, WalkTyped DEF RawFiles, Wanted
<1>3. /\ walk' \in Walks
      /\ walk'.pc = "prune" /\ walk'.tar = walk.tar /\ walk'.todo = stale
      /\ walk'.config = walk.config /\ walk'.head = walk.head /\ walk'.limit = walk.limit
      /\ walk'.dirty = walk.dirty /\ walk'.dates = dates
  BY <1>1, <1>2, Typed DEF Walks
<1>4. RepoTypeOK'
  BY <1>1, <1>3, Typed, Zenon DEF RepoTypeOK
<1>5. Pruning'
  <2>1. CASE walk.limit
    BY <1>3, <2>1 DEF Pruning
  <2>2. CASE ~ walk.limit
    <3> DEFINE W == Wanted(walk.config, walk.tar)
    <3>1. walk.todo = {}
      BY <1>1, <2>2 DEF AtLimit
    <3>2. walk.kept = W /\ \A q \in W : files[q] = walk.tar[q]
      BY <1>1, <3>1 DEF RepoInv, TrustInv, Unpacking
    <3>3. stale = {q \in walk.config : files[q] # 0} \ W
      BY <2>2, <3>2 DEF RawFiles, Wanted
    <3>4. stale \subseteq {q \in walk.config : walk.tar[q] = 0}
      BY <3>3 DEF Wanted
    <3>5. \A q \in walk.config \ stale : files[q] = walk.tar[q]
      BY <3>2, <3>3 DEF Wanted
    <3> HIDE DEF stale
    <3> QED BY <1>1, <1>3, <2>2, <3>4, <3>5 DEF Pruning
  <2> QED BY <2>1, <2>2
<1>6. TrustInv'
  <2>1. OfThePast' /\ TarballFresh' /\ RecordTrue'
    BY <1>1, <1>3 DEF RepoInv, TrustInv, OfThePast, TarballFresh, RecordTrue
  <2> QED BY <1>3, <1>5, <2>1 DEF TrustInv, Unpacking, Dating
<1>7. DatesInv'
  <2>1. walk.dirty \cap stale = {}
    BY <1>1 DEF RepoInv, DatesInv, DirtyKept
  <2> HIDE DEF stale
  <2>2. DirtyKept'
    BY <1>1, <1>3, <2>1 DEF RepoInv, DatesInv, DirtyKept
  <2> QED BY <1>1, <1>3, <2>2 DEF RepoInv, DatesInv, Follows
<1> QED BY <1>4, <1>6, <1>7 DEF RepoInv

(* A file goes that the archive did not have: nor, where a claim is at     *)
(* stake, did the head.                                                    *)
LEMMA RemoveFileInv ==
  ASSUME RepoInv, NEW p \in Paths, RemoveFile(p)
  PROVE  RepoInv'
<1>1. /\ head' = head /\ tree' = tree /\ touched' = touched /\ config' = config
      /\ dates' = dates /\ state' = state
      /\ absent' = absent /\ syncs' = syncs /\ undated' = undated
      /\ walk.pc = "prune" /\ p \in walk.todo
      /\ files' = Without(files, {p})
      /\ walk' = [walk EXCEPT !.todo = @ \ {p}, !.dates = Without(@, {p})]
  BY Zenon DEF RemoveFile, upstream
<1>2. p \in walk.config /\ walk.tar[p] = 0 /\ ~ walk.limit /\ p \notin walk.dirty
  BY <1>1 DEF RepoInv, TrustInv, Pruning, DatesInv, DirtyKept
<1>3. /\ walk' \in Walks
      /\ walk'.pc = "prune" /\ walk'.tar = walk.tar /\ walk'.todo = walk.todo \ {p}
      /\ walk'.config = walk.config /\ walk'.head = walk.head /\ walk'.limit = walk.limit
      /\ walk'.dirty = walk.dirty /\ walk'.dates = Without(walk.dates, {p})
  <2>1. walk.todo \ {p} \in SUBSET Paths /\ Without(walk.dates, {p}) \in Contents
    BY Typed, WalkTyped, WithoutTyped
  <2> QED BY <1>1, <2>1, Typed DEF Walks
<1>4. /\ files' \in Contents /\ files'[p] = 0
      /\ \A q \in Paths : q # p => files'[q] = files[q]
  BY <1>1, Typed, WithoutTyped
<1>5. RepoTypeOK'
  BY <1>1, <1>3, <1>4, Typed, Zenon DEF RepoTypeOK
<1>6. TrustInv'
  <2>1. OfThePast'
    <3>1. touched[p] \in Nat
      BY Typed, ContentsNat
    <3> QED BY <1>1, <1>3, <1>4, <3>1 DEF RepoInv, TrustInv, OfThePast
  <2>2. TarballFresh'
    BY <1>1, <1>3 DEF RepoInv, TrustInv, TarballFresh
  <2>3. Pruning'
    <3>1. /\ walk.todo \subseteq {q \in walk.config : walk.tar[q] = 0}
          /\ \A q \in walk.config \ walk.todo : files[q] = walk.tar[q]
      BY <1>1, <1>2 DEF RepoInv, TrustInv, Pruning
    <3>2. \A q \in walk.config \ walk'.todo : files'[q] = walk.tar[q]
      BY <1>2, <1>3, <1>4, <3>1, Typed, WalkTyped
    <3> QED BY <1>2, <1>3, <3>1, <3>2 DEF Pruning
  <2>4. RecordTrue'
    <3> SUFFICES ASSUME ~ absent, state.sha = head, NEW q \in state.config
                 PROVE  files'[q] = tree[q]
      BY <1>1 DEF RecordTrue
    <3>1. files[q] = tree[q] /\ q \in Paths
      BY Typed DEF RepoInv, TrustInv, RecordTrue
    <3>2. walk.tar = tree
      BY <1>1 DEF RepoInv, TrustInv, TarballFresh
    <3> QED BY <1>2, <1>4, <3>1, <3>2
  <2> QED BY <1>3, <2>1, <2>2, <2>3, <2>4 DEF TrustInv, Unpacking, Dating
<1>7. DatesInv'
  <2>1. DirtyKept'
    BY <1>1, <1>2, <1>3, <1>4, Typed, WalkTyped DEF RepoInv, DatesInv, DirtyKept
  <2>2. ASSUME NEW q \in Paths \ (Dated \cup undated \cup walk'.dirty)
        PROVE  Follows(dates, q)'
    <3>1. Follows(dates, q)
      BY <1>3, <2>2 DEF RepoInv, DatesInv
    <3> QED BY <1>1, <1>4, <2>2, <3>1 DEF Follows
  <2>3. \A q \in Paths : walk'.dates[q] \in {0, dates[q]}
    BY <1>1, <1>3, Typed, WalkTyped, WithoutTyped DEF RepoInv, DatesInv
  <2> QED BY <1>1, <1>3, <2>1, <2>2, <2>3 DEF DatesInv
<1> QED BY <1>5, <1>6, <1>7 DEF RepoInv

(* What the dates pass starts from: dates this sync did not make stale, or *)
(* none at all.                                                            *)
LEMMA KnownDates ==
  ASSUME NEW saved \in Contents, walk \in Walks
  PROVE  /\ DatesToAsk(saved) \in Contents
         /\ \A p \in Paths : DatesToAsk(saved)[p] \in {0, saved[p]}
         /\ \A p \in walk.dirty : DatesToAsk(saved)[p] = 0
<1>1. CASE walk.force
  BY <1>1, NothingTyped, WalkTyped DEF DatesToAsk
<1>2. CASE ~ walk.force
  BY <1>2, WithoutTyped, WalkTyped DEF DatesToAsk
<1> QED BY <1>1, <1>2

(* The mirror is that of the archive; a whole sync will say so.            *)
LEMMA EndPruneInv ==
  ASSUME RepoInv, EndPrune
  PROVE  RepoInv'
<1> DEFINE known == DatesToAsk(walk.dates)
           owed == Pending(walk.config, known, files)
<1>1. /\ head' = head /\ tree' = tree /\ touched' = touched /\ config' = config
      /\ files' = files /\ state' = state
      /\ absent' = absent /\ syncs' = syncs /\ undated' = undated
      /\ walk.pc = "prune" /\ walk.todo = {}
      /\ dates' = IF walk.limit THEN dates ELSE walk.dates
      /\ walk' = [walk EXCEPT !.pc = "dates", !.advances = ~ walk.limit, !.dates = known,
                              !.todo = owed]
  BY Zenon DEF EndPrune, upstream
<1>2. /\ known \in Contents
      /\ \A p \in Paths : known[p] \in {0, walk.dates[p]}
      /\ \A p \in walk.dirty : known[p] = 0
  BY Typed, WalkTyped, KnownDates
<1>3. owed \in SUBSET Paths
  BY Typed, WalkTyped DEF Pending, Wanted
<1>4. walk.limit \in BOOLEAN
  BY Typed, WalkTyped
<1>5. /\ walk' \in Walks
      /\ walk'.pc = "dates" /\ walk'.tar = walk.tar /\ walk'.todo = owed
      /\ walk'.config = walk.config /\ walk'.head = walk.head /\ walk'.limit = walk.limit
      /\ walk'.dirty = walk.dirty /\ walk'.dates = known
      /\ walk'.advances = ~ walk.limit
  <2>1. (~ walk.limit) \in BOOLEAN
    BY <1>4
  <2> HIDE DEF known, owed
  <2> QED BY <1>1, <1>2, <1>3, <2>1, Typed DEF Walks
<1> HIDE DEF known, owed
<1>6. dates' \in Contents /\ \A p \in Paths : dates'[p] \in {0, dates[p]}
  BY <1>1, Typed, WalkTyped DEF RepoInv, DatesInv
<1>7. RepoTypeOK'
  BY <1>1, <1>5, <1>6, Typed, Zenon DEF RepoTypeOK
<1>8. TrustInv'
  <2>1. OfThePast' /\ RecordTrue'
    BY <1>1, <1>5 DEF RepoInv, TrustInv, OfThePast, RecordTrue
  <2>2. Dating'
    <3>1. ~ walk.limit /\ walk.head = head => \A p \in walk.config : files[p] = tree[p]
      BY <1>1 DEF RepoInv, TrustInv, Pruning, TarballFresh
    <3>2. walk'.advances <=> ~ walk.limit
      BY <1>5
    <3> QED BY <1>1, <1>5, <3>1, <3>2 DEF Dating
  <2> QED BY <1>5, <2>1, <2>2 DEF TrustInv, TarballFresh, Unpacking, Pruning
<1>9. DatesInv'
  <2>1. DirtyKept'
    BY <1>1, <1>5 DEF RepoInv, DatesInv, DirtyKept
  <2>2. ASSUME NEW p \in Paths \ (Dated \cup undated \cup walk.dirty)
        PROVE  Follows(dates', p) /\ Follows(known, p)
    <3>1. Follows(dates, p) /\ dates'[p] \in {0, dates[p]}
      BY <1>6, <2>2 DEF RepoInv, DatesInv
    <3>2. known[p] \in {0, dates[p]}
      BY <1>1, <1>2 DEF RepoInv, DatesInv
    <3> QED BY <3>1, <3>2 DEF Follows
  <2>3. \A p \in walk.dirty : Follows(known, p)
    BY <1>2 DEF Follows
  <2>4. walk.dirty \ Dated \subseteq owed
    BY <1>1, <1>2 DEF RepoInv, DatesInv, DirtyKept, owed, Pending, Wanted
  <2>5. \A p \in Paths \ (Dated \cup undated) : Follows(known, p)
    BY <2>2, <2>3
  <2> QED BY <1>1, <1>5, <2>1, <2>2, <2>4, <2>5 DEF DatesInv, Follows
<1> QED BY <1>7, <1>8, <1>9 DEF RepoInv

(* A file's history is asked for: the answer covers the change on disk.    *)
LEMMA AskDateInv ==
  ASSUME RepoInv, NEW p \in Paths, AskDate(p)
  PROVE  RepoInv'
<1> DEFINE known == [walk.dates EXCEPT ![p] = touched[p]]
<1>1. /\ head' = head /\ tree' = tree /\ touched' = touched /\ config' = config
      /\ files' = files /\ state' = state
      /\ absent' = absent /\ syncs' = syncs
      /\ walk.pc = "dates" /\ p \in walk.todo
  BY Zenon DEF AskDate, upstream
<1>2. /\ known \in Contents /\ known[p] = touched[p]
      /\ \A q \in Paths : q # p => known[q] = walk.dates[q]
  BY Typed, WalkTyped, ContentsNat DEF Contents
<1>3. PICK d \in Contents :
        /\ walk' = [walk EXCEPT !.todo = @ \ {p}, !.dates = d]
        /\ \/ d = known /\ dates' = known /\ undated' = undated \ {p}
           \/ /\ d = walk.dates /\ dates' = dates
              /\ undated' = undated \cup ({p} \cap walk.dirty)
  <2>1. CASE /\ walk' = [walk EXCEPT !.todo = @ \ {p}, !.dates = known]
             /\ dates' = known /\ undated' = undated \ {p}
    BY <1>2, <2>1
  <2>2. CASE /\ walk' = [walk EXCEPT !.todo = @ \ {p}]
             /\ undated' = undated \cup ({p} \cap walk.dirty) /\ UNCHANGED dates
    <3>1. walk' = [walk EXCEPT !.todo = @ \ {p}, !.dates = walk.dates]
      BY <2>2, Typed DEF Walks
    <3> QED BY <2>2, <3>1, Typed, WalkTyped
  <2> QED BY <2>1, <2>2, Zenon DEF AskDate
<1>4. /\ walk' \in Walks
      /\ walk'.pc = "dates" /\ walk'.tar = walk.tar /\ walk'.todo = walk.todo \ {p}
      /\ walk'.config = walk.config /\ walk'.head = walk.head /\ walk'.limit = walk.limit
      /\ walk'.dirty = walk.dirty /\ walk'.dates = d /\ walk'.advances = walk.advances
  <2>1. walk.todo \ {p} \in SUBSET Paths
    BY Typed, WalkTyped
  <2> QED BY <1>1, <1>3, <2>1, Typed DEF Walks
<1>5. dates' \in Contents /\ undated' \in SUBSET Paths
  BY <1>2, <1>3, Typed
<1>6. RepoTypeOK'
  BY <1>1, <1>4, <1>5, Typed, Zenon DEF RepoTypeOK
<1>7. TrustInv'
  BY <1>1, <1>4
     DEF RepoInv, TrustInv, OfThePast, TarballFresh, Unpacking, Pruning, Dating, RecordTrue
<1>8. DatesInv'
  <2>1. DirtyKept'
    BY <1>1, <1>4 DEF RepoInv, DatesInv, DirtyKept
  <2>2. /\ \A q \in Paths \ (Dated \cup undated \cup walk.dirty) : Follows(dates, q)
        /\ \A q \in Paths \ (Dated \cup undated) : Follows(walk.dates, q)
        /\ \A q \in walk.dirty \ (Dated \cup undated \cup walk.todo) : Follows(dates, q)
    BY <1>1 DEF RepoInv, DatesInv
  <2>3. Follows(known, p)
    BY <1>2 DEF RepoInv, TrustInv, OfThePast, Follows
  <2>4. CASE d = known /\ dates' = known /\ undated' = undated \ {p}
    <3>1. ASSUME NEW q \in Paths \ (Dated \cup undated')
          PROVE  Follows(known, q)
      <4>1. CASE q = p
        BY <2>3, <4>1
      <4>2. CASE q # p
        <5>1. Follows(walk.dates, q)
          BY <2>2, <2>4, <3>1, <4>2
        <5> QED BY <1>2, <4>2, <5>1 DEF Follows
      <4> QED BY <4>1, <4>2
    <3>2. walk.dirty \subseteq Paths
      BY Typed, WalkTyped
    <3> HIDE DEF known
    <3> QED BY <1>1, <1>4, <2>1, <2>4, <3>1, <3>2 DEF DatesInv, Follows
  <2>5. CASE /\ d = walk.dates /\ dates' = dates
             /\ undated' = undated \cup ({p} \cap walk.dirty)
    BY <1>1, <1>4, <2>1, <2>2, <2>5 DEF DatesInv, Follows
  <2> HIDE DEF known
  <2> QED BY <1>3, <2>4, <2>5
<1> QED BY <1>6, <1>7, <1>8 DEF RepoInv

(* The claim is stored, when there is one to make.                         *)
LEMMA EndRepoSyncInv ==
  ASSUME RepoInv, EndRepoSync
  PROVE  RepoInv'
<1>1. /\ head' = head /\ tree' = tree /\ touched' = touched /\ config' = config
      /\ files' = files /\ dates' = dates /\ syncs' = syncs /\ undated' = undated
      /\ walk.pc = "dates" /\ walk.todo = {} /\ walk' = Asleep
      /\ state' = IF Advances THEN [sha |-> walk.head, config |-> walk.config] ELSE state
      /\ absent' = (absent /\ ~ Advances)
  BY Zenon DEF EndRepoSync, upstream, disk
<1>2. /\ state' \in [sha : Commits \cup {NoHead}, config : SUBSET Paths]
      /\ absent' \in BOOLEAN
  <2>1. CASE Advances
    <3>1. state' = [sha |-> walk.head, config |-> walk.config]
      BY <1>1, <2>1
    <3> QED BY <1>1, <3>1, Typed, WalkTyped
  <2>2. CASE ~ Advances
    BY <1>1, <2>2, Typed
  <2> QED BY <2>1, <2>2
<1>3. RepoTypeOK'
  BY <1>1, <1>2, AsleepTyped, Typed, Zenon DEF RepoTypeOK
<1>4. OfThePast'
  <2>1. state'.sha # NoHead => state'.sha <= head
    BY <1>1 DEF RepoInv, TrustInv, OfThePast, Advances
  <2>2. \A q \in Paths : walk'.tar[q] <= touched[q]
    BY <1>1, AsleepTyped, Typed, ContentsNat
  <2>3. walk'.head = NoHead
    BY <1>1, AsleepTyped
  <2> QED BY <1>1, <2>1, <2>2, <2>3 DEF RepoInv, TrustInv, OfThePast
<1>5. RecordTrue'
  <2>1. CASE Advances
    <3>1. state'.sha = walk.head /\ state'.config = walk.config
      BY <1>1, <2>1
    <3>2. walk.head = head => \A p \in walk.config : files[p] = tree[p]
      BY <1>1, <2>1 DEF RepoInv, TrustInv, Dating, Advances
    <3> QED BY <1>1, <3>1, <3>2 DEF RecordTrue
  <2>2. CASE ~ Advances
    BY <1>1, <2>2 DEF RepoInv, TrustInv, RecordTrue
  <2> QED BY <2>1, <2>2
<1>6. TrustInv'
  BY <1>1, <1>4, <1>5, AsleepTyped DEF TrustInv, TarballFresh, Unpacking, Pruning, Dating
<1>7. DatesInv'
  <2>1. \A q \in Paths \ (Dated \cup undated) : Follows(dates, q)
    BY <1>1 DEF RepoInv, DatesInv
  <2> QED BY <1>1, <2>1, AsleepTyped DEF DatesInv, DirtyKept, Follows
<1> QED BY <1>3, <1>6, <1>7 DEF RepoInv

(* Cut short, a sync claims nothing; what it left undated is known to be.  *)
LEMMA CutShortInv ==
  ASSUME RepoInv, CutShort
  PROVE  RepoInv'
<1> DEFINE left == IF walk.pc # "dates" THEN walk.dirty ELSE walk.dirty \cap walk.todo
<1>1. /\ head' = head /\ tree' = tree /\ touched' = touched /\ config' = config
      /\ files' = files /\ dates' = dates /\ state' = state
      /\ absent' = absent /\ syncs' = syncs
      /\ walk' = Asleep /\ undated' = undated \cup left
  BY Zenon DEF CutShort, upstream, disk
<1>2. undated' \in SUBSET Paths
  BY <1>1, Typed, WalkTyped
<1>3. RepoTypeOK'
  BY <1>1, <1>2, AsleepTyped, Typed, Zenon DEF RepoTypeOK
<1>4. TrustInv'
  <2>1. \A q \in Paths : walk'.tar[q] <= touched[q]
    BY <1>1, AsleepTyped, Typed, ContentsNat
  <2>2. walk'.head = NoHead /\ walk'.pc = "idle"
    BY <1>1, AsleepTyped
  <2> QED BY <1>1, <2>1, <2>2
          DEF RepoInv, TrustInv, OfThePast, TarballFresh, Unpacking, Pruning, Dating, RecordTrue
<1>5. DatesInv'
  <2>1. ASSUME NEW q \in Paths \ (Dated \cup undated \cup left)
        PROVE  Follows(dates, q)
    <3>1. CASE walk.pc = "dates"
      BY <2>1, <3>1 DEF RepoInv, DatesInv
    <3>2. CASE walk.pc # "dates"
      BY <2>1, <3>2 DEF RepoInv, DatesInv
    <3> QED BY <3>1, <3>2
  <2> QED BY <1>1, <2>1, AsleepTyped DEF DatesInv, DirtyKept, Follows
<1> QED BY <1>3, <1>4, <1>5 DEF RepoInv

LEMMA RepoStep == RepoInv /\ [RepoNext]_repoVars => RepoInv'
<1> SUFFICES ASSUME RepoInv, [RepoNext]_repoVars PROVE RepoInv'
  OBVIOUS
<1>1. CASE Configure \/ UNCHANGED repoVars
  BY <1>1, ConfigureInv
<1>2. ASSUME NEW p \in Paths, Commit(p) \/ Unpack(p) \/ RemoveFile(p) \/ AskDate(p)
      PROVE  RepoInv'
  BY <1>2, CommitInv, UnpackInv, RemoveFileInv, AskDateInv, Zenon
<1>3. ASSUME NEW force \in BOOLEAN, NEW limit \in BOOLEAN, BeginRepo(force, limit)
      PROVE  RepoInv'
  BY <1>3, BeginRepoInv, Zenon
<1>4. CASE GetTarball \/ EndUnpack \/ EndPrune \/ EndRepoSync \/ CutShort
  BY <1>4, GetTarballInv, EndUnpackInv, EndPruneInv, EndRepoSyncInv, CutShortInv, Zenon
<1> QED BY <1>1, <1>2, <1>3, <1>4, Zenon DEF RepoNext

(***************************************************************************)
(* The theorems.                                                           *)
(***************************************************************************)

(* Every reachable state of a repository and its mirror is well typed.     *)
THEOREM RepoTypeCorrect == RepoSpec => []RepoTypeOK
<1>1. RepoInv => RepoTypeOK
  BY DEF RepoInv
<1> QED BY <1>1, RepoInitHolds, RepoStep, PTL DEF RepoSpec

(* The checkpoint may be trusted: a commit it claims, which is still the   *)
(* head, is what is on disk of the selection it was claimed with, whatever *)
(* was committed between the requests and wherever syncs were cut short.   *)
THEOREM CheckpointTrusted == RepoSpec => []CheckpointDescribes
BY Trustworthy, RepoInitHolds, RepoStep, PTL DEF RepoSpec

(* A document is never dated before the change it holds, but for files     *)
(* whose date the sync that changed them did not learn.                    *)
THEOREM DatesTrusted == RepoSpec => []DatesFollow
BY DatesRight, RepoInitHolds, RepoStep, PTL DEF RepoSpec
-----------------------------------------------------------------------------
(***************************************************************************)
(* FeedSync, for any number of articles, editions and links and any recheck*)
(* window: a sync that has read its feed to the end has left nothing unread.*)
(***************************************************************************)

(***************************************************************************)
(* The invariant.                                                          *)
(***************************************************************************)

(* An article has no edition before it is published.                       *)
Unwritten == \A a \in Articles : published < a => edition[a] = 0

(* The feed as it was read is of the past: fewer articles, older editions. *)
ReadFromThePast ==
  reader.pc = "items" =>
    /\ reader.listed <= published
    /\ reader.processed <= reader.position /\ reader.position <= reader.listed
    /\ \A a \in Articles : reader.editions[a] <= edition[a]

(* What NothingUnread says of an article. *)
Read(a) ==
  /\ Known(a)
  /\ reader.intent \in {"full", "force"} \/ reader.listed - a < RecheckRecent
       => posts[a].edition >= reader.editions[a]

(* It holds of every article the sync is past, which are the newest ones.  *)
PastRead ==
  reader.pc = "items" =>
    \A a \in Articles \ (Unusable \cup reader.failed) :
      reader.listed - reader.position < a /\ a <= reader.listed => Read(a)

FeedInv == FeedTypeOK /\ Unwritten /\ ReadFromThePast /\ PastRead
-----------------------------------------------------------------------------
(* The invariant in one piece, as the steps use it.                        *)
LEMMA FeedFacts ==
  ASSUME FeedInv
  PROVE  /\ published \in 0 .. NumArticles
         /\ edition \in [Articles -> 0 .. MaxEdition]
         /\ posts \in [Articles -> Wrappers]
         /\ reader \in Readers
         /\ reader.position \in 0 .. NumArticles /\ reader.processed \in 0 .. NumArticles
         /\ reader.listed \in 0 .. NumArticles
         /\ reader.editions \in [Articles -> 0 .. MaxEdition]
BY Zenon DEF FeedInv, FeedTypeOK, Readers

LEMMA FeedInitHolds == FeedInit => FeedInv
<1> SUFFICES ASSUME FeedInit PROVE FeedInv
  OBVIOUS
<1> USE FeedAssumption DEF FeedInit
<1>1. 0 \in 0 .. NumArticles /\ 0 \in 0 .. MaxEdition /\ 1 \in 0 .. MaxEdition
  OBVIOUS
<1>2. NotReading \in Readers
  BY <1>1 DEF NotReading, Readers, Intents
<1>3. posts \in [Articles -> Wrappers]
  BY <1>1 DEF NoPost, Wrappers
<1>4. published \in 0 .. NumArticles /\ edition \in [Articles -> 0 .. MaxEdition]
  BY <1>1
<1>5. Unwritten
  BY DEF Unwritten, Articles
<1>6. reader.pc = "idle"
  BY DEF NotReading
<1> QED BY <1>2, <1>3, <1>4, <1>5, <1>6, Zenon DEF FeedInv, FeedTypeOK, ReadFromThePast, PastRead

LEMMA EndReached == FeedInv => NothingUnread
<1> SUFFICES ASSUME FeedInv, reader.pc = "items", reader.position = reader.listed,
                    NEW a \in 1 .. reader.listed \ (Unusable \cup reader.failed)
             PROVE  Read(a)
  BY DEF NothingUnread, Read
<1>1. reader.listed \in 0 .. NumArticles
  BY DEF FeedInv, FeedTypeOK, Readers
<1>2. a \in Articles /\ reader.listed - reader.position < a /\ a <= reader.listed
  BY <1>1, FeedAssumption DEF Articles
<1> QED BY <1>2 DEF FeedInv, PastRead

(***************************************************************************)
(* The steps.                                                              *)
(***************************************************************************)


(* Upstream moves on: more articles, newer editions.                       *)
LEMMA UpstreamInv ==
  ASSUME FeedInv, PublishArticle \/ \E a \in Articles : CorrectArticle(a)
  PROVE  FeedInv'
<1>1. verbatim' = verbatim /\ posts' = posts /\ reader' = reader
  BY Zenon DEF PublishArticle, CorrectArticle
<1>2. /\ published' \in 0 .. NumArticles /\ published <= published'
      /\ edition' \in [Articles -> 0 .. MaxEdition]
      /\ \A a \in Articles : edition[a] <= edition'[a]
      /\ Unwritten'
  <2> USE DEF Unwritten
  <2>1. CASE PublishArticle
    <3>1. published < NumArticles /\ published' = published + 1
          /\ edition' = [edition EXCEPT ![published + 1] = 1]
      BY <2>1, Zenon DEF PublishArticle
    <3>2. published + 1 \in Articles /\ edition[published + 1] = 0
      <4>1. published \in Nat /\ NumArticles \in Nat
        BY FeedFacts, FeedAssumption
      <4>2. published + 1 \in Articles /\ published < published + 1
        BY <3>1, <4>1 DEF Articles
      <4>3. Unwritten
        BY Zenon DEF FeedInv
      <4> QED BY <4>2, <4>3, Zenon DEF Unwritten
    <3>3. edition' \in [Articles -> 0 .. MaxEdition]
      BY <3>1, <3>2, FeedFacts, FeedAssumption
    <3>4. ASSUME NEW b \in Articles
          PROVE  edition[b] <= edition'[b] /\ (published' < b => edition'[b] = 0)
      <4>1. edition[b] \in 0 .. MaxEdition /\ (published < b => edition[b] = 0)
            /\ published \in Nat /\ b \in Nat
        BY FeedFacts, FeedAssumption DEF FeedInv, Articles
      <4>2. edition'[b] = IF b = published + 1 THEN 1 ELSE edition[b]
        BY <3>1, FeedFacts
      <4> QED BY <3>1, <3>2, <4>1, <4>2
    <3> QED BY <3>1, <3>3, <3>4, FeedFacts, FeedAssumption
  <2>2. CASE \E a \in Articles : CorrectArticle(a)
    <3> PICK a \in Articles : CorrectArticle(a)
      BY <2>2
    <3>1. edition[a] \in 1 .. MaxEdition - 1 /\ published' = published
          /\ edition' = [edition EXCEPT ![a] = edition[a] + 1]
      BY Zenon DEF CorrectArticle
    <3>2. edition' \in [Articles -> 0 .. MaxEdition]
      BY <3>1, FeedFacts, FeedAssumption
    <3>3. ASSUME NEW b \in Articles
          PROVE  edition[b] <= edition'[b] /\ (published < b => edition'[b] = 0)
      <4>1. edition[b] \in 0 .. MaxEdition /\ (published < b => edition[b] = 0)
        BY FeedFacts DEF FeedInv
      <4> QED BY <3>1, <4>1, FeedFacts, FeedAssumption
    <3> QED BY <3>1, <3>2, <3>3, FeedFacts
  <2> QED BY <2>1, <2>2
<1>3. FeedTypeOK'
  BY <1>1, <1>2, Zenon DEF FeedInv, FeedTypeOK
<1>4. ReadFromThePast'
  BY <1>1, <1>2, FeedFacts DEF FeedInv, ReadFromThePast
<1>5. PastRead'
  BY <1>1, Zenon DEF FeedInv, PastRead, Read, Known
<1> QED BY <1>2, <1>3, <1>4, <1>5 DEF FeedInv

(* The feed is read: nothing is passed yet.                                *)
LEMMA BeginInv ==
  ASSUME FeedInv, NEW intent \in Intents, BeginFeed(intent)
  PROVE  FeedInv'
<1>1. /\ published' = published /\ edition' = edition
      /\ verbatim' = verbatim /\ posts' = posts
      /\ reader' = [NotReading EXCEPT !.pc = "items", !.intent = intent,
                                      !.listed = published, !.editions = edition,
                                      !.verbatim = verbatim]
  BY Zenon DEF BeginFeed
<1>2. verbatim \in BOOLEAN
  BY DEF FeedInv, FeedTypeOK
<1>3. reader' = [pc |-> "items", intent |-> intent, listed |-> published,
                 editions |-> edition, verbatim |-> verbatim, position |-> 0,
                 processed |-> 0, failed |-> {}]
  BY <1>1 DEF NotReading
<1>4. reader' \in Readers
  BY <1>2, <1>3, FeedFacts, FeedAssumption DEF Readers
<1>5. FeedTypeOK'
  BY <1>1, <1>4, Zenon DEF FeedInv, FeedTypeOK
<1>6. reader'.position = 0 /\ reader'.processed = 0 /\ reader'.listed = published /\ reader'.editions = edition
  BY <1>3
<1>7. Unwritten' /\ ReadFromThePast' /\ PastRead'
  BY <1>1, <1>6, FeedFacts, FeedAssumption
     DEF FeedInv, Unwritten, ReadFromThePast, PastRead, Articles
<1> QED BY <1>5, <1>7 DEF FeedInv

LEMMA EndFeedInv ==
  ASSUME FeedInv, EndFeed
  PROVE  FeedInv'
<1>1. published' = published /\ edition' = edition /\ verbatim' = verbatim
      /\ posts' = posts /\ reader' = NotReading
  BY Zenon DEF EndFeed
<1>2. NotReading \in Readers /\ NotReading.pc = "idle"
  BY FeedAssumption DEF NotReading, Readers, Intents
<1> QED BY <1>1, <1>2, Zenon DEF FeedInv, FeedTypeOK, Unwritten, ReadFromThePast, PastRead

(* The sync is past one more item.  What is left to show of a step that    *)
(* does so: the item, unless it has failed, reads as it should, and        *)
(* nothing is lost of the others.                                          *)
LEMMA PassInv ==
  ASSUME FeedInv, NEW a, a = ItemAt(reader.position), More,
         NEW n \in {0, 1}, NEW failures \in {{}, {a}}, Pass(n, failures),
         published' = published, edition' = edition, verbatim' = verbatim,
         posts' \in [Articles -> Wrappers],
         a \in Unusable \/ a \in failures \/ Read(a)',
         \A b \in Articles : b # a => posts'[b] = posts[b]
  PROVE  FeedInv'
<1>1. /\ reader.pc = "items" /\ reader.position < reader.listed
      /\ a = reader.listed - reader.position
  BY DEF More, ItemAt
<1>2. reader' = [reader EXCEPT !.position = @ + 1, !.processed = @ + n,
                               !.failed = @ \cup failures]
  BY Zenon DEF Pass
<1>3. a \in Articles
  <2>1. NumArticles \in Nat
    BY FeedAssumption
  <2>2. reader.listed \in 0 .. NumArticles /\ reader.position \in 0 .. NumArticles
    BY FeedFacts
  <2> QED BY <1>1, <2>1, <2>2 DEF Articles
<1>4. reader.processed <= reader.position
  BY <1>1 DEF FeedInv, ReadFromThePast
<1>5. /\ reader'.pc = "items" /\ reader'.intent = reader.intent
      /\ reader'.listed = reader.listed /\ reader'.editions = reader.editions
      /\ reader'.position = reader.position + 1
      /\ reader'.processed = reader.processed + n
      /\ reader'.failed = reader.failed \cup failures
  BY <1>1, <1>2, FeedFacts DEF Readers
<1>6. reader' \in Readers
  <2>1. /\ reader.position + 1 \in 0 .. NumArticles
        /\ reader.processed + n \in 0 .. NumArticles
        /\ reader.failed \cup failures \in SUBSET Articles
    BY <1>1, <1>3, <1>4, FeedFacts, FeedAssumption DEF Readers
  <2> QED BY <1>2, <2>1, FeedFacts DEF Readers
<1>7. FeedTypeOK'
  <2>1. verbatim' \in BOOLEAN
    BY Zenon DEF FeedInv, FeedTypeOK
  <2> QED BY <1>6, <2>1, FeedFacts, Zenon DEF FeedTypeOK
<1>8. Unwritten' /\ ReadFromThePast'
  BY <1>1, <1>4, <1>5, FeedFacts DEF FeedInv, Unwritten, ReadFromThePast
<1>9. PastRead'
  <2> SUFFICES ASSUME NEW b \in Articles \ (Unusable \cup reader'.failed),
                      reader'.listed - reader'.position < b, b <= reader'.listed
               PROVE  Read(b)'
    BY Zenon DEF PastRead
  <2>1. CASE b = a
    BY <2>1, <1>5
  <2>2. CASE b # a
    <3>1. b \notin Unusable \cup reader.failed /\ reader.listed - reader.position < b
          /\ b <= reader.listed
      BY <1>1, <1>5, <2>2, FeedFacts DEF Articles
    <3>2. Read(b)
      BY <1>1, <3>1, Zenon DEF FeedInv, PastRead
    <3> QED BY <1>5, <2>2, <3>2 DEF Read, Known
  <2> QED BY <2>1, <2>2
<1> QED BY <1>7, <1>8, <1>9 DEF FeedInv

(* An item without a name is nobody's; one that is not examined is on disk *)
(* and below what this sync compares.                                      *)
LEMMA PassOverInv ==
  ASSUME FeedInv, NEW a, PassOver(a)
  PROVE  FeedInv'
<1>1. More /\ a = ItemAt(reader.position)
      /\ published' = published /\ edition' = edition /\ verbatim' = verbatim
      /\ posts' = posts
  BY Zenon DEF PassOver
<1>2. CASE a \in Unusable /\ Pass(0, {})
  BY <1>1, <1>2, PassInv, FeedFacts
<1>3. CASE ~ WillExamine(a, reader.position) /\ Pass(1, {})
  <2>1. reader'.intent = reader.intent /\ reader'.listed = reader.listed
    BY <1>3, FeedFacts DEF Pass, Readers
  <2>2. Known(a) /\ reader.intent \notin {"full", "force"}
        /\ ~ (reader.position < RecheckRecent)
    BY <1>3, Zenon DEF WillExamine
  <2>3. ~ (reader.listed - a < RecheckRecent)
    BY <1>1, <2>2, FeedFacts DEF ItemAt
  <2>4. Read(a)'
    BY <1>1, <2>1, <2>2, <2>3 DEF Read, Known
  <2> QED BY <1>1, <1>3, <2>4, PassInv, FeedFacts
<1> QED BY <1>2, <1>3 DEF PassOver

(* What is fetched is of the feed or newer, and never the empty wrapper.   *)
LEMMA FetchArticleInv ==
  ASSUME FeedInv, NEW a \in Articles, FetchArticle(a)
  PROVE  FeedInv'
<1>1. /\ More /\ a = ItemAt(reader.position) /\ Pass(1, {})
      /\ published' = published /\ edition' = edition /\ verbatim' = verbatim
  BY Zenon DEF FetchArticle
<1>2. PICK wrapper \in Fetches(a) : posts' = [posts EXCEPT ![a] = wrapper]
  BY DEF FetchArticle
<1>3. /\ wrapper.edition \in 0 .. MaxEdition /\ reader.editions[a] <= wrapper.edition
      /\ wrapper.at # "feed" /\ wrapper \in Wrappers
  <2>1. reader.editions[a] <= edition[a]
    BY <1>1 DEF More, FeedInv, ReadFromThePast
  <2> QED BY <1>2, <2>1, FeedFacts DEF Fetches, Wrappers
<1>4. /\ posts' \in [Articles -> Wrappers] /\ posts'[a] = wrapper
      /\ \A b \in Articles : b # a => posts'[b] = posts[b]
  BY <1>2, <1>3, FeedFacts
<1>5. reader'.editions = reader.editions
  BY <1>1, FeedFacts DEF Pass, Readers
<1>6. Read(a)'
  <2>1. posts'[a] # NoPost
    BY <1>3, <1>4 DEF NoPost
  <2> QED BY <1>3, <1>4, <1>5, <2>1, Zenon DEF Read, Known
<1> QED BY <1>1, <1>4, <1>6, PassInv

LEMMA DeadLinkInv ==
  ASSUME FeedInv, NEW a \in Articles, DeadLink(a)
  PROVE  FeedInv'
BY PassInv, FeedFacts DEF DeadLink

LEMMA FeedStep == FeedInv /\ [FeedNext]_feedVars => FeedInv'
<1> SUFFICES ASSUME FeedInv, [FeedNext]_feedVars PROVE FeedInv'
  OBVIOUS
<1>1. CASE UNCHANGED feedVars
  BY <1>1, Zenon DEF feedVars, FeedInv, FeedTypeOK, Unwritten, ReadFromThePast, PastRead, Read, Known
<1>2. CASE PublishArticle \/ \E a \in Articles : CorrectArticle(a)
  BY <1>2, UpstreamInv, Zenon
<1>3. ASSUME NEW a \in Articles, PassOver(a) \/ FetchArticle(a) \/ DeadLink(a)
      PROVE  FeedInv'
  BY <1>3, PassOverInv, FetchArticleInv, DeadLinkInv, Zenon
<1>4. ASSUME NEW intent \in Intents, BeginFeed(intent)
      PROVE  FeedInv'
  BY <1>4, BeginInv, Zenon
<1>5. CASE EndFeed
  BY <1>5, EndFeedInv, Zenon
<1> QED BY <1>1, <1>2, <1>3, <1>4, <1>5, Zenon DEF FeedNext

(***************************************************************************)
(* The theorems.                                                           *)
(***************************************************************************)

(* Every reachable state of the feed and its mirror is well typed.         *)
THEOREM FeedTypeCorrect == FeedSpec => []FeedTypeOK
<1>1. FeedInv => FeedTypeOK
  BY DEF FeedInv
<1> QED BY <1>1, FeedInitHolds, FeedStep, PTL DEF FeedSpec

(* A sync that has read its feed to the end holds every article it listed  *)
(* but for dead links, and the newest RECHECK_RECENT, or all of them under *)
(* --full, in an edition no older than the one of its beginning: however   *)
(* many articles there are and whatever earlier syncs missed.              *)
THEOREM EverythingRead == FeedSpec => []NothingUnread
BY EndReached, FeedInitHolds, FeedStep, PTL DEF FeedSpec
-----------------------------------------------------------------------------
(***************************************************************************)
(* PoliteClient, for any manifest, waits and answers: no host is asked more*)
(* often than it may be, and no retry comes early.                         *)
(***************************************************************************)

(***************************************************************************)
(* The invariant.                                                          *)
(***************************************************************************)

(* What parse refuses: two crawled sources of one host. *)
HostsApart ==
  \A s, t \in 1 .. Len(selected) :
    s # t /\ Crawls(selected[s]) /\ Crawls(selected[t])
      => selected[s].host # selected[t].host

(* What a wait still has to respect, and what a client is in the middle of.*)
Waits ==
  /\ client.pc # "free" => turn <= Len(selected)
  /\ client.pc = "backoff" => client.attempt < MaxAttempts
  /\ client.pc \in {"throttle", "backoff"} => client.asked <= client.wake
  /\ client.pc = "throttle" /\ client.last # Never
       => client.last + MinInterval <= client.wake

(* The last request to a host is of a source that is there, up to the      *)
(* present one, whose client remembers it.                                 *)
SentKnown ==
  \A h \in Hosts :
    sent[h].at # Never =>
      /\ sent[h].turn \in 1 .. Len(selected)
      /\ sent[h].turn <= turn
      /\ selected[sent[h].turn].host = h
      /\ sent[h].turn = turn => client.last = sent[h].at

ClientInv == ClientTypeOK /\ turn # 0 /\ HostsApart /\ Waits /\ SentKnown

(***************************************************************************)
(* It holds at the start.                                                  *)
(***************************************************************************)

LEMMA SelectedApart ==
  ASSUME NEW i \in SourceEntries, NEW j \in SourceEntries, NEW id \in {All, i.id},
         Parses(<<i, j>>), selected = Select(<<i, j>>, id)
  PROVE  selected \in Seq(SourceEntries) /\ HostsApart
<1>1. CASE id = All
  <2>1. selected = <<i, j>>
    BY <1>1 DEF Select
  <2>2. Compatible(i, j)
    BY DEF Parses
  <2>3. <<i, j>> \in Seq(SourceEntries)
    OBVIOUS
  <2>4. selected \in Seq(SourceEntries) /\ Len(selected) = 2 /\ selected[1] = i /\ selected[2] = j
    BY ONLY <2>1, <2>3
  <2>5. Crawls(i) /\ Crawls(j) => i.host # j.host
    BY ONLY <2>2, Zenon DEF Compatible
  <2>6. ASSUME NEW s \in 1 .. 2, NEW t \in 1 .. 2, s # t
        PROVE  (s = 1 /\ t = 2) \/ (s = 2 /\ t = 1)
    BY ONLY <2>6
  <2>7. HostsApart
    <3> SUFFICES ASSUME NEW s \in 1 .. 2, NEW t \in 1 .. 2, s # t,
                        Crawls(selected[s]), Crawls(selected[t])
                 PROVE  selected[s].host # selected[t].host
      BY <2>4, Zenon DEF HostsApart
    <3>1. CASE s = 1 /\ t = 2
      BY <3>1, <2>4, <2>5
    <3>2. CASE s = 2 /\ t = 1
      BY <3>2, <2>4, <2>5
    <3> QED BY <3>1, <3>2, <2>6
  <2> QED BY <2>4, <2>7
<1>2. CASE id # All
  <2> DEFINE n == Named(<<i, j>>, id)
  <2>1. id = i.id /\ <<i, j>>[1] = i /\ <<i, j>>[2] = j /\ Len(<<i, j>>) = 2
    BY <1>2
  <2>2. n \in 1 .. 2
    BY <2>1 DEF Named
  <2>3. selected = <<(<<i, j>>)[n]>>
    BY <1>2 DEF Select
  <2>4. (<<i, j>>)[n] \in SourceEntries
    BY <2>2, <2>1
  <2> HIDE DEF n
  <2>5. ASSUME NEW e \in SourceEntries PROVE <<e>> \in Seq(SourceEntries) /\ Len(<<e>>) = 1
    OBVIOUS
  <2>6. selected \in Seq(SourceEntries) /\ Len(selected) = 1
    BY <2>3, <2>4, <2>5
  <2> QED BY <2>6 DEF HostsApart
<1> QED BY <1>1, <1>2

LEMMA InitInv == ClientInit => ClientInv
<1> SUFFICES ASSUME ClientInit PROVE ClientInv
  OBVIOUS
<1> USE ClientAssumption DEF ClientAssumption
<1>1. selected \in Seq(SourceEntries) /\ HostsApart
  BY SelectedApart DEF ClientInit
<1>2. client \in Clients
  BY DEF ClientInit, NewClient, Clients, Never
<1>3. sent \in [Hosts -> [at : Nat \cup {Never}, turn : Nat]]
  BY DEF ClientInit, Never
<1>4. Waits
  BY DEF ClientInit, NewClient, Waits
<1>5. SentKnown
  BY DEF ClientInit, SentKnown
<1> QED BY <1>1, <1>2, <1>3, <1>4, <1>5 DEF ClientInit, ClientInv, ClientTypeOK

(***************************************************************************)
(* Every step keeps it.                                                    *)
(***************************************************************************)

LEMMA SourceHost ==
  ASSUME ClientTypeOK, turn # 0, turn <= Len(selected)
  PROVE  Source \in SourceEntries /\ Source.host \in Hosts
BY DEF ClientTypeOK, Source, Hosts

LEMMA SlotLate ==
  ASSUME ClientTypeOK
  PROVE  /\ Slot \in Nat /\ now <= Slot
         /\ client.last # Never => client.last + MinInterval <= Slot
BY ClientAssumption DEF ClientTypeOK, Clients, Slot, Later, Never, ClientAssumption

LEMMA NextInv == ClientInv /\ [ClientNext]_clientVars => ClientInv'
<1> SUFFICES ASSUME ClientInv, [ClientNext]_clientVars PROVE ClientInv'
  OBVIOUS
<1> USE ClientAssumption DEF ClientAssumption, ClientInv
<1>a. client \in Clients /\ now \in Nat /\ turn \in Nat
  BY DEF ClientTypeOK
<1>0. ASSUME UNCHANGED <<now, selected, turn, sent>>, client' \in Clients,
             client'.last = client.last, Waits'
      PROVE  ClientInv'
  BY <1>0 DEF ClientTypeOK, HostsApart, SentKnown
<1>1. CASE Tick
  BY <1>1 DEF Tick, ClientTypeOK, HostsApart, Waits, SentKnown
<1>2. CASE Call
  <2>1. Slot \in Nat /\ now <= Slot /\ (client.last # Never => client.last + MinInterval <= Slot)
    BY SlotLate
  <2>2. client' = [client EXCEPT !.pc = "throttle", !.wake = Slot, !.attempt = 1,
                                 !.backoff = InitialBackoff, !.asked = now]
    BY <1>2 DEF Call
  <2>3. 1 \in 1 .. MaxAttempts /\ InitialBackoff \in InitialBackoff .. MaxBackoff
    OBVIOUS
  <2>4. client'.last = client.last /\ client' \in Clients
    BY <2>1, <2>2, <2>3, <1>a DEF Clients
  <2>5. client'.pc = "throttle" /\ client'.wake = Slot /\ client'.asked = now
    BY <2>2, <1>a DEF Clients
  <2>6. Waits'
    BY <2>1, <2>4, <2>5, <1>2 DEF Waits, Call
  <2> QED BY <2>4, <2>6, <1>2, <1>0 DEF Call
<1>3. CASE Attempt
  <2>1. turn <= Len(selected) /\ Source \in SourceEntries /\ Source.host \in Hosts
    BY <1>3, SourceHost DEF Attempt, Waits
  <2>2. client' \in Clients /\ client'.last = now /\ client'.pc = "sent"
    BY <1>3, <1>a DEF Attempt, Clients
  <2>3. sent' = [sent EXCEPT ![Source.host] = [at |-> now, turn |-> turn]]
        /\ UNCHANGED <<now, selected, turn>>
    BY <1>3 DEF Attempt
  <2>4. ClientTypeOK'
    BY <2>1, <2>2, <2>3 DEF ClientTypeOK
  <2>5. Waits'
    BY <2>1, <2>2, <2>3 DEF Waits
  <2>6. SentKnown'
    <3> SUFFICES ASSUME NEW h \in Hosts, sent'[h].at # Never
                 PROVE  /\ sent'[h].turn \in 1 .. Len(selected)
                        /\ sent'[h].turn <= turn
                        /\ selected[sent'[h].turn].host = h
                        /\ sent'[h].turn = turn => client'.last = sent'[h].at
      BY <2>3 DEF SentKnown
    <3>1. CASE h = Source.host
      <4>1. sent'[h] = [at |-> now, turn |-> turn]
        BY <3>1, <2>3 DEF ClientTypeOK
      <4> QED BY <4>1, <3>1, <2>1, <2>2, <1>a DEF Source, ClientTypeOK
    <3>2. CASE h # Source.host
      <4>1. sent'[h] = sent[h]
        BY <3>2, <2>3 DEF ClientTypeOK
      <4>2. sent[h].turn # turn
        BY <3>2, <4>1 DEF SentKnown, Source
      <4> QED BY <4>1, <4>2 DEF SentKnown
    <3> QED BY <3>1, <3>2
  <2> QED BY <2>4, <2>5, <2>6, <2>3 DEF HostsApart
<1>4. CASE Response
  <2>1. client'.last = client.last /\ client' \in Clients /\ Waits'
    BY <1>4, <1>a DEF Response, Clients, Waits
  <2> QED BY <2>1, <1>4, <1>0 DEF Response
<1>5. ASSUME NEW told \in RetryAfters \cup {Never}, TryAgain(told) PROVE ClientInv'
  <2>1. CASE client.attempt = MaxAttempts
    <3>1. client' = [client EXCEPT !.pc = "free"]
      BY <1>5, <2>1 DEF TryAgain
    <3>2. client'.last = client.last /\ client' \in Clients /\ Waits'
      BY <3>1, <1>5, <1>a DEF TryAgain, Clients, Waits
    <3> QED BY <3>2, <1>5, <1>0 DEF TryAgain
  <2>2. CASE client.attempt # MaxAttempts
    <3> DEFINE asked == now + Later(client.backoff, IF told = Never THEN 0 ELSE told)
    <3>1. client' = [client EXCEPT !.pc = "backoff", !.wake = now + Delay(told),
                                   !.backoff = Sooner(2 * client.backoff, MaxBackoff),
                                   !.asked = asked]
      BY <1>5, <2>2 DEF TryAgain
    <3>2. client.backoff \in InitialBackoff .. MaxBackoff /\ client.backoff \in Nat
      BY <1>a DEF Clients
    <3>3. Sooner(2 * client.backoff, MaxBackoff) \in InitialBackoff .. MaxBackoff
      BY <3>2 DEF Sooner
    <3>4. asked \in Nat /\ now + Delay(told) \in Nat /\ asked <= now + Delay(told)
      BY <3>2, <1>a DEF Delay, Later, Never
    <3>5. client.attempt \in 1 .. MaxAttempts /\ client.attempt < MaxAttempts
      BY <2>2, <1>a DEF Clients
    <3>6. client'.last = client.last /\ client' \in Clients
      BY <3>1, <3>3, <3>4, <1>a DEF Clients
    <3>7. Waits'
      <4>1. client'.pc = "backoff" /\ client'.attempt = client.attempt
            /\ client'.asked = asked /\ client'.wake = now + Delay(told)
        BY <3>1, <1>a DEF Clients
      <4> QED BY <4>1, <3>4, <3>5, <1>5 DEF Waits, TryAgain
    <3> QED BY <3>6, <3>7, <1>5, <1>0 DEF TryAgain
  <2> QED BY <2>1, <2>2
<1>6. CASE Retry
  <2>1. client' = [client EXCEPT !.pc = "throttle", !.wake = Slot,
                                 !.attempt = client.attempt + 1]
    BY <1>6 DEF Retry
  <2>2. Slot \in Nat /\ client.attempt + 1 \in 1 .. MaxAttempts
    <3>1. Slot \in Nat
      BY SlotLate
    <3>2. client.attempt < MaxAttempts
      BY <1>6 DEF Retry, Waits
    <3>3. client.attempt \in 1 .. MaxAttempts
      BY <1>a DEF Clients
    <3> QED BY <3>1, <3>2, <3>3, ClientAssumption DEF ClientAssumption
  <2>3. client' \in Clients /\ client'.last = client.last
    <3>1. client' = [pc |-> "throttle", last |-> client.last, wake |-> Slot,
                     attempt |-> client.attempt + 1, backoff |-> client.backoff,
                     asked |-> client.asked]
      BY <2>1, <1>a DEF Clients
    <3>2. /\ client.last \in Nat \cup {Never} /\ client.asked \in Nat
          /\ client.backoff \in InitialBackoff .. MaxBackoff
      BY <1>a DEF Clients
    <3> QED BY <2>2, <3>1, <3>2 DEF Clients
  <2>4. client.asked <= now
    BY <1>6, <1>a DEF Retry, Waits, Clients
  <2>5. client'.pc = "throttle" /\ client'.wake = Slot /\ client'.asked = client.asked
    BY <2>1, <1>a DEF Clients
  <2>6. turn <= Len(selected) /\ UNCHANGED <<turn, selected>>
    BY <1>6 DEF Retry, Waits
  <2>7. client.asked <= Slot /\ (client.last # Never => client.last + MinInterval <= Slot)
    BY <2>2, <2>4, <1>a, SlotLate DEF Clients
  <2>8. Waits'
    BY <2>3, <2>5, <2>6, <2>7 DEF Waits
  <2> QED BY <2>3, <2>8, <1>6, <1>0 DEF Retry
<1>7. CASE NextSource
  <2>1. client' \in Clients /\ client'.pc = "free"
    BY <1>7 DEF NextSource, NewClient, Clients, Never
  <2>2. turn' = turn + 1 /\ UNCHANGED <<now, selected, sent>>
    BY <1>7 DEF NextSource
  <2>3. ClientTypeOK' /\ Waits' /\ HostsApart'
    BY <2>1, <2>2 DEF ClientTypeOK, Waits, HostsApart
  <2>4. SentKnown'
    <3>1. \A h \in Hosts : sent[h].turn \in Nat
      BY DEF ClientTypeOK
    <3> QED BY <2>2, <3>1, <1>a DEF SentKnown
  <2> QED BY <2>2, <2>3, <2>4, <1>a
<1>8. CASE UNCHANGED clientVars
  BY <1>8 DEF clientVars, ClientTypeOK, HostsApart, Waits, SentKnown
<1> QED BY <1>1, <1>2, <1>3, <1>4, <1>5, <1>6, <1>7, <1>8 DEF ClientNext

LEMMA AlwaysInv == ClientSpec => []ClientInv
BY InitInv, NextInv, PTL DEF ClientSpec

(***************************************************************************)
(* What follows.                                                           *)
(***************************************************************************)

(* The state of the client is always well typed (HttpClient). *)
THEOREM ClientTypeCorrect == ClientSpec => []ClientTypeOK
<1>1. ClientInv => ClientTypeOK
  BY DEF ClientInv
<1> QED BY <1>1, AlwaysInv, PTL

(* No attempt of a call is made before the host's Retry-After and the      *)
(* backoff have passed, whatever the throttle adds (run_with_retries).     *)
THEOREM AlwaysWaits == ClientSpec => RetriesWait
<1>1. ClientInv /\ [ClientNext]_clientVars => [Attempt => now >= client.asked]_clientVars
  <2> SUFFICES ASSUME ClientInv, Attempt PROVE now >= client.asked
    OBVIOUS
  <2> QED BY DEF ClientInv, ClientTypeOK, Clients, Waits, Attempt
<1> QED BY <1>1, AlwaysInv, PTL DEF ClientSpec, RetriesWait

(* Two requests that follow one another to one host are MIN_INTERVAL       *)
(* apart: by the throttle when one client makes both, by what parse        *)
(* refuses when two crawling sources would (client.rs, manifest.rs).       *)
THEOREM AlwaysPolite == ClientSpec => HostPolite
<1> DEFINE before == sent[Source.host]
           Apart == before.at # Never
                    /\ (before.turn = turn \/ (Crawls(selected[before.turn]) /\ Crawls(Source)))
                      => now - before.at >= MinInterval
<1>1. ClientInv /\ [ClientNext]_clientVars => [Attempt => Apart]_clientVars
  <2> SUFFICES ASSUME ClientInv, Attempt, before.at # Never,
                      before.turn = turn \/ (Crawls(selected[before.turn]) /\ Crawls(Source))
               PROVE  now - before.at >= MinInterval
    OBVIOUS
  <2> USE DEF ClientInv
  <2>1. turn \in 1 .. Len(selected) /\ Source.host \in Hosts
    BY SourceHost DEF Attempt, Waits, ClientTypeOK
  <2>2. before.turn = turn
    BY <2>1 DEF SentKnown, HostsApart, Source
  <2>3. client.last = before.at
    BY <2>1, <2>2 DEF SentKnown
  <2>4. client.last + MinInterval <= client.wake /\ client.wake <= now
    BY <2>3 DEF Attempt, Waits
  <2>5. client.last \in Nat /\ client.wake \in Nat /\ now \in Nat /\ MinInterval \in Nat
    BY <2>3, ClientAssumption DEF ClientTypeOK, Clients, ClientAssumption
  <2> QED BY <2>3, <2>4, <2>5
<1> QED BY <1>1, AlwaysInv, PTL DEF ClientSpec, HostPolite
=============================================================================
