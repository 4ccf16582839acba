------------------------ MODULE DiscourseSync_proofs ------------------------
(***************************************************************************)
(* Proofs about DiscourseSync, for any forum, any number of walkers and    *)
(* any sizes of pages and batches.  First, the two counters stored with a  *)
(* topic vouch for its posts: neither the order of the listing nor what a  *)
(* walker makes of it matters there, so that invariant does not look at    *)
(* pages, entries and checkpoints.  Then what a walk has brought to disk   *)
(* when it ends, while the listing is reordered between its requests.      *)
(***************************************************************************)
EXTENDS DiscourseSync, FiniteSetTheorems, SequenceTheorems, TLAPS

(***************************************************************************)
(* The invariant.                                                          *)
(***************************************************************************)

(* A topic of the forum, a copy of one, a walk: their fields, as far as    *)
(* the proof needs to know them.                                           *)
IsTopic(r) ==
  /\ r = [posts |-> r.posts, highest |-> r.highest, bumped |-> r.bumped]
  /\ IsFiniteSet(r.posts) /\ r.highest \in Nat

IsCopy(r) ==
  /\ r = [posts |-> r.posts, highest |-> r.highest, count |-> r.count]
  /\ IsFiniteSet(r.posts) /\ r.highest \in Nat /\ r.count \in Nat

WalkFields == {"pc", "intent", "state", "began", "page", "entries", "more",
               "highWater", "quietRun", "processed", "full", "missing", "complete"}

IsWalk(s) ==
  /\ s = [f \in WalkFields |-> s[f]]
  /\ IsCopy(s.full) /\ IsFiniteSet(s.missing)

Shape ==
  /\ forum = [t \in Topics |-> forum[t]] /\ \A t \in Topics : IsTopic(forum[t])
  /\ files = [t \in Topics |-> files[t]] /\ \A t \in Topics : IsCopy(files[t])
  /\ walk = [w \in Walkers |-> walk[w]]
  /\ \A w \in Walkers : walk[w] = Idle \/ IsWalk(walk[w])

(* The counters of a copy vouch for posts: while the forum shows the same  *)
(* highest number, nothing was added since they were read, so the posts    *)
(* are a superset of the forum's, and no more than the count says.         *)
Vouches(copy, posts, t) ==
  /\ copy.highest <= forum[t].highest
  /\ copy.highest = forum[t].highest =>
       forum[t].posts \subseteq posts /\ Cardinality(posts) <= copy.count

(* A walker between two batches vouches for what it has and what it has    *)
(* yet to ask for.                                                         *)
BatchVouched(s) ==
  s.pc = "batch" /\ Head(s.entries).topic \in Topics =>
    Vouches(s.full, s.full.posts \cup s.missing, Head(s.entries).topic)

VouchInv ==
  /\ Shape
  /\ \A t \in Topics : Vouches(files[t], files[t].posts, t)
  /\ \A w \in Walkers : walk[w] # Idle => BatchVouched(walk[w])

(***************************************************************************)
(* It holds at the start, and it is enough.                                *)
(***************************************************************************)

LEMMA EmptySets == IsFiniteSet({}) /\ Cardinality({}) = 0 /\ IsFiniteSet({1})
BY FS_EmptySet, FS_Singleton

LEMMA NoFileIsCopy == IsCopy(NoFile)
BY EmptySets DEF IsCopy, NoFile

LEMMA InitHolds == Init => VouchInv
<1> SUFFICES ASSUME Init PROVE VouchInv
  OBVIOUS
<1>1. /\ files = [t \in Topics |-> NoFile]
      /\ walk = [w \in Walkers |-> Idle]
  BY DEF Init
<1> PICK S \in SUBSET Topics :
      \E at \in [S -> 1 .. Cardinality(S)] :
        forum = [t \in Topics |->
                   IF t \in S THEN [posts |-> {1}, highest |-> 1, bumped |-> at[t]]
                   ELSE Absent]
  BY DEF Init
<1>2. PICK at \in [S -> 1 .. Cardinality(S)] :
        forum = [t \in Topics |->
                   IF t \in S THEN [posts |-> {1}, highest |-> 1, bumped |-> at[t]]
                   ELSE Absent]
  OBVIOUS
<1>3. ASSUME NEW t \in Topics
      PROVE  IsTopic(forum[t])
  <2>1. CASE t \in S
    BY <1>2, <2>1, EmptySets DEF IsTopic
  <2>2. CASE t \notin S
    BY <1>2, <2>2, EmptySets DEF IsTopic, Absent
  <2> QED BY <2>1, <2>2
<1>4. Shape
  BY <1>1, <1>2, <1>3, NoFileIsCopy DEF Shape
<1>5. ASSUME NEW t \in Topics
      PROVE  Vouches(files[t], files[t].posts, t)
  <2>1. files[t].highest = 0 /\ files[t].posts = {} /\ files[t].count = 0
    BY <1>1 DEF NoFile
  <2>2. CASE t \in S
    <3>1. forum[t].highest = 1
      BY <1>2, <2>2
    <3> QED BY <2>1, <3>1 DEF Vouches
  <2>3. CASE t \notin S
    <3>1. forum[t].highest = 0 /\ forum[t].posts = {}
      BY <1>2, <2>3 DEF Absent
    <3> QED BY <2>1, <3>1, EmptySets DEF Vouches
  <2> QED BY <2>2, <2>3
<1> QED BY <1>1, <1>4, <1>5 DEF VouchInv

LEMMA VouchedIsFaithful == VouchInv => FreshMeansFaithful
<1> SUFFICES ASSUME VouchInv, NEW t \in Listed \cap OnDisk,
                    files[t].highest = forum[t].highest,
                    files[t].count = Cardinality(forum[t].posts)
             PROVE  files[t].posts = forum[t].posts
  BY DEF FreshMeansFaithful
<1>1. t \in Topics
  BY DEF Listed
<1>2. /\ forum[t].posts \subseteq files[t].posts
      /\ Cardinality(files[t].posts) <= Cardinality(forum[t].posts)
      /\ IsFiniteSet(files[t].posts)
  BY <1>1 DEF VouchInv, Vouches, Shape, IsCopy
<1>3. /\ Cardinality(forum[t].posts) <= Cardinality(files[t].posts)
      /\ Cardinality(files[t].posts) = Cardinality(forum[t].posts)
           => files[t].posts = forum[t].posts
  BY <1>2, FS_Subset
<1>4. Cardinality(files[t].posts) \in Nat /\ Cardinality(forum[t].posts) \in Nat
  BY <1>1, <1>2, FS_CardinalityType, FS_Subset
<1> QED BY <1>2, <1>3, <1>4

(***************************************************************************)
(* The forum.                                                              *)
(***************************************************************************)

(* A topic only grows with its highest number, or loses posts.             *)
LEMMA HappensInv ==
  ASSUME VouchInv, NEW t \in Topics, NEW topic, Happens(t, topic), IsTopic(topic),
         forum[t].highest <= topic.highest,
         topic.highest = forum[t].highest => topic.posts \subseteq forum[t].posts
  PROVE  VouchInv'
<1>1. /\ forum' = [forum EXCEPT ![t] = topic]
      /\ files' = files /\ walk' = walk
  BY DEF Happens
<1>2. /\ forum' = [u \in Topics |-> forum'[u]]
      /\ forum'[t] = topic /\ \A u \in Topics : u # t => forum'[u] = forum[u]
  BY <1>1 DEF VouchInv, Shape
<1>3. Shape'
  BY <1>1, <1>2 DEF VouchInv, Shape
<1>4. ASSUME NEW copy, NEW posts, NEW u \in Topics,
             Vouches(copy, posts, u), copy.highest \in Nat
      PROVE  /\ copy.highest <= forum'[u].highest
             /\ copy.highest = forum'[u].highest =>
                  forum'[u].posts \subseteq posts /\ Cardinality(posts) <= copy.count
  <2>1. CASE u = t
    <3>1. forum[t].highest \in Nat /\ topic.highest \in Nat
      BY DEF VouchInv, Shape, IsTopic
    <3> QED BY <1>2, <1>4, <2>1, <3>1 DEF Vouches
  <2>2. CASE u # t
    BY <1>2, <1>4, <2>2 DEF Vouches
  <2> QED BY <2>1, <2>2
<1>5. ASSUME NEW u \in Topics
      PROVE  Vouches(files[u], files[u].posts, u)'
  <2>1. Vouches(files[u], files[u].posts, u) /\ files[u].highest \in Nat
    BY DEF VouchInv, Shape, IsCopy
  <2>2. /\ files[u].highest <= forum'[u].highest
        /\ files[u].highest = forum'[u].highest =>
             forum'[u].posts \subseteq files[u].posts
             /\ Cardinality(files[u].posts) <= files[u].count
    BY <1>4, <2>1
  <2> QED BY <1>1, <2>2 DEF Vouches
<1>6. ASSUME NEW w \in Walkers, walk[w] # Idle
      PROVE  BatchVouched(walk[w])'
  <2> DEFINE s == walk[w]
             u == Head(s.entries).topic
  <2> SUFFICES ASSUME s.pc = "batch", u \in Topics
               PROVE  Vouches(s.full, s.full.posts \cup s.missing, u)'
    BY <1>1 DEF BatchVouched
  <2>1. s.full.highest \in Nat
    BY <1>6 DEF VouchInv, Shape, IsWalk, IsCopy
  <2>2. Vouches(s.full, s.full.posts \cup s.missing, u)
    BY <1>6 DEF VouchInv, BatchVouched
  <2>3. /\ s.full.highest <= forum'[u].highest
        /\ s.full.highest = forum'[u].highest =>
             forum'[u].posts \subseteq s.full.posts \cup s.missing
             /\ Cardinality(s.full.posts \cup s.missing) <= s.full.count
    BY <1>4, <2>1, <2>2
  <2> QED BY <1>1, <2>3 DEF Vouches
<1> QED BY <1>1, <1>3, <1>5, <1>6 DEF VouchInv

LEMMA ForumInv ==
  ASSUME VouchInv, ForumStep
  PROVE  VouchInv'
<1> PICK t \in Topics :
      \/ NewTopic(t) \/ Reply(t) \/ Bump(t) \/ RemoveTopic(t)
      \/ \E p \in Posts : DeletePost(t, p)
  BY DEF ForumStep
<1> DEFINE f == forum[t]
<1>1. /\ f = [posts |-> f.posts, highest |-> f.highest, bumped |-> f.bumped]
      /\ IsFiniteSet(f.posts) /\ f.highest \in Nat
  BY DEF VouchInv, Shape, IsTopic
<1>2. CASE NewTopic(t)
  <2> DEFINE r == [posts |-> {1}, highest |-> 1, bumped |-> now + 1]
  <2>1. Happens(t, r) /\ f.highest = 0
    BY <1>2 DEF NewTopic, Absent
  <2>2. IsTopic(r)
    BY EmptySets DEF IsTopic
  <2> QED BY <2>1, <2>2, HappensInv
<1>3. CASE Reply(t)
  <2> DEFINE n == f.highest + 1
             r == [posts |-> f.posts \cup {n}, highest |-> n, bumped |-> now + 1]
  <2>1. Happens(t, r)
    BY <1>3 DEF Reply
  <2>2. IsFiniteSet(f.posts \cup {n})
    BY <1>1, FS_AddElement
  <2>3. IsTopic(r) /\ f.highest < r.highest
    BY <1>1, <2>2 DEF IsTopic
  <2> HIDE DEF r, n
  <2> QED BY <1>1, <2>1, <2>3, HappensInv DEF IsTopic
<1>4. CASE Bump(t) \/ RemoveTopic(t)
  <2>1. PICK b : Happens(t, [f EXCEPT !.bumped = b])
    BY <1>4 DEF Bump, RemoveTopic
  <2> DEFINE r == [f EXCEPT !.bumped = b]
  <2>2. IsTopic(r) /\ r.highest = f.highest /\ r.posts = f.posts
    BY <1>1 DEF IsTopic
  <2> HIDE DEF r
  <2> QED BY <1>1, <2>1, <2>2, HappensInv DEF r
<1>5. ASSUME NEW p \in Posts, DeletePost(t, p)
      PROVE  VouchInv'
  <2> DEFINE r == [f EXCEPT !.posts = f.posts \ {p}]
  <2>1. Happens(t, r)
    BY <1>5 DEF DeletePost
  <2>2. IsFiniteSet(f.posts \ {p})
    BY <1>1, FS_RemoveElement
  <2>3. IsTopic(r) /\ r.highest = f.highest /\ r.posts \subseteq f.posts
    BY <1>1, <2>2 DEF IsTopic
  <2> HIDE DEF r
  <2> QED BY <1>1, <2>1, <2>3, HappensInv
<1> QED BY <1>2, <1>3, <1>4, <1>5

(***************************************************************************)
(* A walker's step.                                                        *)
(***************************************************************************)

(* It leaves the forum and the other walkers alone; what it writes, and    *)
(* what it then has in hand, must vouch for themselves.                    *)
LEMMA WalkerInv ==
  ASSUME VouchInv, NEW w \in Walkers, NEW s, forum' = forum, Set(w, s),
         s = Idle \/ (IsWalk(s) /\ BatchVouched(s)),
         \/ files' = files
         \/ \E t \in Topics : \E full :
              /\ files' = [files EXCEPT ![t] = full]
              /\ IsCopy(full) /\ Vouches(full, full.posts, t)
  PROVE  VouchInv'
<1>1. walk' = [walk EXCEPT ![w] = s]
  BY DEF Set
<1>2. /\ walk' = [v \in Walkers |-> walk'[v]]
      /\ walk'[w] = s /\ \A v \in Walkers : v # w => walk'[v] = walk[v]
  BY <1>1 DEF VouchInv, Shape
<1>3. /\ files' = [t \in Topics |-> files'[t]]
      /\ \A t \in Topics : IsCopy(files'[t]) /\ Vouches(files'[t], files'[t].posts, t)
  <2>1. CASE files' = files
    BY <2>1 DEF VouchInv, Shape
  <2>2. ASSUME NEW t \in Topics, NEW full, files' = [files EXCEPT ![t] = full],
               IsCopy(full), Vouches(full, full.posts, t)
        PROVE  <1>3
    <3>1. /\ files' = [u \in Topics |-> files'[u]]
          /\ files'[t] = full /\ \A u \in Topics : u # t => files'[u] = files[u]
      BY <2>2 DEF VouchInv, Shape
    <3> QED BY <2>2, <3>1 DEF VouchInv, Shape
  <2> QED BY <2>1, <2>2
<1>4. Shape'
  BY <1>2, <1>3 DEF VouchInv, Shape
<1>5. \A t \in Topics : Vouches(files[t], files[t].posts, t)'
  BY <1>3 DEF Vouches
<1>6. ASSUME NEW v \in Walkers, walk'[v] # Idle
      PROVE  BatchVouched(walk[v])'
  <2>1. BatchVouched(walk'[v])
    BY <1>2, <1>6 DEF VouchInv
  <2> QED BY <2>1 DEF BatchVouched, Vouches
<1> QED BY <1>4, <1>5, <1>6 DEF VouchInv

(* A walk in progress has the shape of one.                                *)
LEMMA WalkShaped ==
  ASSUME VouchInv, NEW w \in Walkers, walk[w] # Idle
  PROVE  IsWalk(walk[w])
BY DEF VouchInv, Shape

LEMMA BusyWalk ==
  ASSUME NEW w \in Walkers,
         walk[w].pc \in {"list", "entries", "batch", "done"}
  PROVE  walk[w] # Idle
BY DEF Idle

(* The bookkeeping between two topics touches neither copy nor batch.      *)
LEMMA BookkeepingInv ==
  ASSUME VouchInv, NEW w \in Walkers,
         ListPage(w) \/ EndPage(w) \/ StopAtLimit(w) \/ StopQuiet(w)
  PROVE  VouchInv'
<1> DEFINE s == walk[w]
<1>1. s.pc \in {"list", "entries"}
  BY DEF ListPage, EndPage, StopAtLimit, StopQuiet, AtEntry
<1>2. IsWalk(s)
  BY <1>1, BusyWalk, WalkShaped
<1>3. ASSUME NEW r, Set(w, r), forum' = forum, files' = files, r.pc # "batch",
             r = [f \in WalkFields |-> r[f]], r.full = s.full, r.missing = s.missing
      PROVE  VouchInv'
  <2>1. IsWalk(r) /\ BatchVouched(r)
    BY <1>2, <1>3 DEF IsWalk, BatchVouched
  <2> QED BY <1>3, <2>1, WalkerInv
<1>4. s = [f \in WalkFields |-> s[f]]
  BY <1>2 DEF IsWalk
<1>5. CASE ListPage(w)
  <2> DEFINE entries == PageEntries(s.page)
             last == [s EXCEPT !.pc = "done", !.complete = TRUE]
             next == [s EXCEPT !.pc = "entries", !.entries = entries,
                               !.more = HasMore(s.page)]
  <2>1. (Set(w, last) \/ Set(w, next)) /\ forum' = forum /\ files' = files
    BY <1>5 DEF ListPage
  <2>2. /\ last.pc # "batch" /\ last.full = s.full /\ last.missing = s.missing
        /\ last = [f \in WalkFields |-> last[f]]
        /\ next.pc # "batch" /\ next.full = s.full /\ next.missing = s.missing
        /\ next = [f \in WalkFields |-> next[f]]
    BY <1>4 DEF WalkFields
  <2> HIDE DEF last, next
  <2> QED BY <1>3, <2>1, <2>2
<1>6. CASE EndPage(w)
  <2> DEFINE last == [s EXCEPT !.pc = "done", !.complete = TRUE]
             next == [s EXCEPT !.pc = "list", !.page = @ + 1]
  <2>1. (Set(w, last) \/ Set(w, next)) /\ forum' = forum /\ files' = files
    BY <1>6 DEF EndPage
  <2>2. /\ last.pc # "batch" /\ last.full = s.full /\ last.missing = s.missing
        /\ last = [f \in WalkFields |-> last[f]]
        /\ next.pc # "batch" /\ next.full = s.full /\ next.missing = s.missing
        /\ next = [f \in WalkFields |-> next[f]]
    BY <1>4 DEF WalkFields
  <2> HIDE DEF last, next
  <2> QED BY <1>3, <2>1, <2>2
<1>7. CASE StopAtLimit(w) \/ StopQuiet(w)
  <2> DEFINE cut == [s EXCEPT !.pc = "done"]
             quiet == [s EXCEPT !.pc = "done", !.highWater = HighWater(s),
                                !.quietRun = QuietRun(s), !.complete = TRUE]
  <2>1. (Set(w, cut) \/ Set(w, quiet)) /\ forum' = forum /\ files' = files
    BY <1>7 DEF StopAtLimit, StopQuiet
  <2>2. /\ cut.pc # "batch" /\ cut.full = s.full /\ cut.missing = s.missing
        /\ cut = [f \in WalkFields |-> cut[f]]
        /\ quiet.pc # "batch" /\ quiet.full = s.full /\ quiet.missing = s.missing
        /\ quiet = [f \in WalkFields |-> quiet[f]]
    BY <1>4 DEF WalkFields
  <2> HIDE DEF cut, quiet
  <2> QED BY <1>3, <2>1, <2>2
<1> QED BY <1>5, <1>6, <1>7

(* So does the step past a topic, whatever was made of it.                 *)
LEMMA PastIsWalk ==
  ASSUME NEW s, IsWalk(s)
  PROVE  IsWalk(Past(s)) /\ BatchVouched(Past(s))
BY NoFileIsCopy, EmptySets DEF IsWalk, WalkFields, Past, BatchVouched

LEMMA SkipInv ==
  ASSUME VouchInv, NEW w \in Walkers, Skip(w)
  PROVE  VouchInv'
<1>1. IsWalk(walk[w])
  BY BusyWalk, WalkShaped DEF Skip, Examines, AtEntry
<1> QED BY <1>1, PastIsWalk, WalkerInv DEF Skip

LEMMA EndInv ==
  ASSUME VouchInv, NEW w \in Walkers, TopicGone(w) \/ Fail(w) \/ Finish(w)
  PROVE  VouchInv'
BY WalkerInv DEF TopicGone, Fail, Finish

LEMMA BeginInv ==
  ASSUME VouchInv, NEW w \in Walkers, NEW intent, BeginSync(w, intent)
  PROVE  VouchInv'
<1>1. PICK r : /\ forum' = forum /\ files' = files /\ Set(w, r)
               /\ r = [ pc |-> "list", intent |-> intent, state |-> checkpoint,
                        began |-> now, page |-> 0, entries |-> <<>>, more |-> FALSE,
                        highWater |-> 0, quietRun |-> 0, processed |-> 0,
                        full |-> NoFile, missing |-> {}, complete |-> FALSE ]
  BY DEF BeginSync
<1>2. IsWalk(r) /\ r.pc # "batch"
  BY <1>1, NoFileIsCopy, EmptySets DEF IsWalk, WalkFields
<1> QED BY <1>1, <1>2, WalkerInv DEF BatchVouched

(* The first response: counters, posts and stream are of one moment.       *)
LEMMA FetchTopicInv ==
  ASSUME VouchInv, NEW w \in Walkers, FetchTopic(w)
  PROVE  VouchInv'
<1> DEFINE s == walk[w]
           t == Head(s.entries).topic
           full == [posts |-> FirstPosts(t), highest |-> forum[t].highest,
                    count |-> Cardinality(forum[t].posts)]
<1>1. IsWalk(s)
  BY BusyWalk, WalkShaped DEF FetchTopic, Examines, AtEntry
<1>2. t \in Topics
  BY DEF FetchTopic, Listed
<1>3. IsFiniteSet(forum[t].posts) /\ forum[t].highest \in Nat
  BY <1>2 DEF VouchInv, Shape, IsTopic
<1>4. /\ FirstPosts(t) \cup MissingPosts(t) = forum[t].posts
      /\ IsFiniteSet(FirstPosts(t)) /\ IsFiniteSet(MissingPosts(t))
  <2>1. FirstPosts(t) \subseteq forum[t].posts
    BY DEF FirstPosts
  <2>2. MissingPosts(t) = forum[t].posts \ FirstPosts(t)
    BY DEF MissingPosts
  <2> QED BY <1>3, <2>1, <2>2, FS_Subset
<1>5. Cardinality(forum[t].posts) \in Nat
  BY <1>3, FS_CardinalityType
<1>6. IsCopy(full) /\ Vouches(full, FirstPosts(t) \cup MissingPosts(t), t)
  <2>1. IsCopy(full)
    BY <1>3, <1>4, <1>5 DEF IsCopy
  <2>2. full.highest = forum[t].highest /\ full.count = Cardinality(forum[t].posts)
    OBVIOUS
  <2>3. Vouches(full, forum[t].posts, t)
    <3> HIDE DEF full
    <3>1. full.highest <= forum[t].highest
      BY <1>3, <2>2
    <3>2. Cardinality(forum[t].posts) <= full.count
      BY <1>5, <2>2
    <3> QED BY <3>1, <3>2, Zenon DEF Vouches
  <2> HIDE DEF full
  <2> QED BY <1>4, <2>1, <2>3
<1>7. forum' = forum
  BY DEF FetchTopic
<1>8. CASE MissingPosts(t) = {} /\ WriteTopic(w, t, full)
  <2>1. Vouches(full, full.posts, t)
    BY <1>4, <1>6, <1>8
  <2> HIDE DEF full
  <2> QED BY <1>1, <1>2, <1>6, <1>7, <1>8, <2>1, PastIsWalk, WalkerInv DEF WriteTopic
<1>9. CASE /\ Set(w, [s EXCEPT !.pc = "batch", !.full = full, !.missing = MissingPosts(t)])
           /\ UNCHANGED files
  <2> DEFINE r == [s EXCEPT !.pc = "batch", !.full = full, !.missing = MissingPosts(t)]
  <2>1. /\ r.full = full /\ r.missing = MissingPosts(t) /\ r.entries = s.entries
        /\ r = [f \in WalkFields |-> r[f]]
    BY <1>1 DEF IsWalk, WalkFields
  <2>2. full.posts = FirstPosts(t)
    OBVIOUS
  <2>3. IsWalk(r)
    BY <1>4, <1>6, <2>1 DEF IsWalk
  <2>4. BatchVouched(r)
    BY <1>6, <2>1, <2>2, Zenon DEF BatchVouched
  <2> HIDE DEF r, full
  <2> QED BY <1>7, <1>9, <2>3, <2>4, WalkerInv DEF r
<1> QED BY <1>8, <1>9 DEF FetchTopic

(* A later response: of the posts asked for, it brings those that are      *)
(* still there, so what is on hand and to come loses deleted posts only.   *)
LEMMA FetchBatchInv ==
  ASSUME VouchInv, NEW w \in Walkers, FetchBatch(w)
  PROVE  VouchInv'
<1> DEFINE s == walk[w]
           t == Head(s.entries).topic
           asked == {p \in s.missing : Cardinality({q \in s.missing : q < p}) < BatchSize}
           full == Merged(s.full, asked, t)
<1>1. IsWalk(s) /\ BatchVouched(s) /\ s.pc = "batch"
  BY BusyWalk, WalkShaped DEF FetchBatch, VouchInv
<1>2. t \in Topics /\ asked \subseteq s.missing /\ forum' = forum
  BY DEF FetchBatch, Listed
<1>3. /\ full.posts = s.full.posts \cup (asked \cap forum[t].posts)
      /\ full.highest = s.full.highest /\ full.count = s.full.count
      /\ full = [posts |-> full.posts, highest |-> full.highest, count |-> full.count]
  <2>1. IsCopy(s.full)
    BY <1>1 DEF IsWalk
  <2>2. full = [s.full EXCEPT !.posts = s.full.posts \cup (asked \cap forum[t].posts)]
    BY Zenon DEF Merged
  <2> HIDE DEF full, asked
  <2> QED BY <2>1, <2>2 DEF IsCopy
<1>4. /\ IsFiniteSet(s.full.posts) /\ IsFiniteSet(s.missing)
      /\ IsFiniteSet(full.posts) /\ IsFiniteSet(s.missing \ asked)
      /\ IsFiniteSet(s.full.posts \cup s.missing)
  <2>1. IsFiniteSet(s.full.posts) /\ IsFiniteSet(s.missing)
    BY <1>1 DEF IsWalk, IsCopy
  <2>2. IsFiniteSet(s.full.posts \cup s.missing)
    BY <2>1, FS_Union
  <2>3. full.posts \subseteq s.full.posts \cup s.missing /\ s.missing \ asked \subseteq s.missing
    BY <1>2, <1>3
  <2> HIDE DEF full, asked
  <2> QED BY <2>1, <2>2, <2>3, FS_Subset
<1>5. IsCopy(full)
  BY <1>1, <1>3, <1>4 DEF IsCopy, IsWalk
<1>6. Vouches(full, full.posts \cup (s.missing \ asked), t)
  <2> DEFINE before == s.full.posts \cup s.missing
             after == full.posts \cup (s.missing \ asked)
  <2>1. Vouches(s.full, before, t)
    BY <1>1, <1>2 DEF BatchVouched
  <2>2. after \subseteq before
    BY <1>2, <1>3
  <2>3. forum[t].posts \subseteq before => forum[t].posts \subseteq after
    BY <1>2, <1>3
  <2>4. /\ Cardinality(after) <= Cardinality(before)
        /\ Cardinality(after) \in Nat /\ Cardinality(before) \in Nat
    <3> HIDE DEF before, after
    <3> QED BY <1>4, <2>2, FS_Subset, FS_CardinalityType DEF before
  <2>5. s.full.count \in Nat
    BY <1>1 DEF IsWalk, IsCopy
  <2>6. full.highest = s.full.highest /\ full.count = s.full.count
    BY <1>3
  <2> HIDE DEF before, after, full
  <2>7. Vouches(full, after, t)
    BY <2>1, <2>3, <2>4, <2>5, <2>6 DEF Vouches
  <2> QED BY <2>7, Zenon DEF after
<1>7. CASE asked = s.missing /\ WriteTopic(w, t, full)
  <2>1. Vouches(full, full.posts, t)
    <3>1. full.posts \cup (s.missing \ asked) = full.posts
      BY <1>7
    <3> QED BY <1>6, <3>1
  <2> HIDE DEF full, asked
  <2> QED BY <1>1, <1>2, <1>5, <1>7, <2>1, PastIsWalk, WalkerInv DEF WriteTopic
<1>8. CASE /\ Set(w, [s EXCEPT !.full = full, !.missing = s.missing \ asked])
           /\ UNCHANGED files
  <2> DEFINE r == [s EXCEPT !.full = full, !.missing = s.missing \ asked]
  <2> HIDE DEF full, asked
  <2>1. /\ r.full = full /\ r.missing = s.missing \ asked /\ r.entries = s.entries
        /\ r = [f \in WalkFields |-> r[f]]
    BY <1>1 DEF IsWalk, WalkFields
  <2>2. IsWalk(r)
    BY <1>4, <1>5, <2>1 DEF IsWalk
  <2>3. BatchVouched(r)
    BY <1>6, <2>1, Zenon DEF BatchVouched
  <2> HIDE DEF r
  <2> QED BY <1>2, <1>8, <2>2, <2>3, WalkerInv DEF r
<1> QED BY <1>7, <1>8 DEF FetchBatch

LEMMA Step == VouchInv /\ [Next]_vars => VouchInv'
<1> SUFFICES ASSUME VouchInv, [Next]_vars PROVE VouchInv'
  OBVIOUS
<1>1. CASE UNCHANGED vars
  <2>1. forum' = forum /\ files' = files /\ walk' = walk
    BY <1>1, Zenon DEF vars
  <2> QED BY <2>1 DEF VouchInv, Shape, Vouches, BatchVouched
<1>2. CASE ForumStep
  BY <1>2, ForumInv
<1>3. ASSUME NEW w \in Walkers, Fail(w) \/ WalkStep(w) \/ \E i \in Intents : BeginSync(w, i)
      PROVE  VouchInv'
  BY <1>3, BookkeepingInv, SkipInv, EndInv, BeginInv, FetchTopicInv, FetchBatchInv, Zenon
     DEF WalkStep
<1> QED BY <1>1, <1>2, <1>3, Zenon DEF Next

(***************************************************************************)
(* The theorem.                                                            *)
(***************************************************************************)

(* A file whose two counters agree with the forum's holds exactly the      *)
(* forum's posts, although it was put together from several responses      *)
(* while posts came and went, and whatever walks overlap or fail: so       *)
(* is_stale may go by the counters.                                        *)
THEOREM CountersVouch == Spec => []FreshMeansFaithful
BY InitHolds, Step, VouchedIsFaithful, PTL DEF Spec

(***************************************************************************)
(* What a walk covers: the invariant.                                      *)
(***************************************************************************)

(* At most one walk of the forum is in progress. *)
OneWalk == \A v, w \in Walkers : walk[v] # Idle /\ walk[w] # Idle => v = w

(* Nothing bears a time to come, and no two listed topics the same one.    *)
Dated ==
  /\ checkpoint <= now
  /\ \A t \in Topics : forum[t].bumped <= now
  /\ \A t \in Listed : forum[t].highest > 0
  /\ \A t, u \in Listed : forum[t].bumped = forum[u].bumped => t = u

WalkDated(s) ==
  /\ s.began <= now /\ s.highWater <= now
  /\ \A i \in DOMAIN s.entries : s.entries[i].key <= now
  /\ s.pc # "done" => s.quietRun < QuietRunStop
  /\ s.pc = "list" => s.entries = <<>>
  /\ s.pc = "batch" => s.entries # <<>> /\ QuietRun(s) < QuietRunStop

TypeInv ==
  /\ TypeOK /\ Dated
  /\ \A w \in Walkers : walk[w] # Idle => WalkDated(walk[w])

(* The keys that the walk's high water will have covered after this page.  *)
Reach(s, k) == k <= s.highWater \/ \E i \in DOMAIN s.entries : k <= s.entries[i].key

(* What the walk answers for: every topic as long as nothing has happened  *)
(* since it began, and every topic whose last activity it has gone past.   *)
Due(s, t) == s.began = now \/ (t \notin Pinned /\ Reach(s, forum[t].bumped))

(* A topic that is ahead of the walk: on the page at hand, as it is now,   *)
(* or on a page below, and then behind all of this one that count.         *)
InHand(s, t) ==
  \E i \in DOMAIN s.entries : /\ s.entries[i].topic = t
                              /\ s.entries[i].key = forum[t].bumped
                              /\ s.entries[i].highest = forum[t].highest

Below(s, t) ==
  /\ IF s.pc = "list" THEN Position(t) >= s.page * PageSize
     ELSE s.more /\ Position(t) >= (s.page + 1) * PageSize
  /\ \A i \in DOMAIN s.entries :
       s.entries[i].topic \notin Pinned =>
         t \notin Pinned /\ forum[t].bumped < s.entries[i].key

Ordered(s) ==
  \A i, j \in DOMAIN s.entries :
    i < j /\ s.entries[i].topic \notin Pinned =>
      s.entries[j].topic \notin Pinned /\ s.entries[j].key < s.entries[i].key

(* What is fetched is of the last activity, unless there was one since.    *)
FetchCurrent(s) ==
  LET t == Head(s.entries).topic
  IN  s.pc = "batch" /\ t \in Listed
      /\ (Due(s, t) \/ (t \notin Pinned /\ forum[t].bumped <= checkpoint))
        => s.full.highest = forum[t].highest

(* What was given to the walk stays on record until it ends.               *)
Underway(s) == checkpoint = s.state /\ (s.pc # "done" => ~ s.complete)

WalkCovers(s) ==
  /\ s.pc # "done" =>
       /\ \A t \in Listed : Due(s, t) => Current(t) \/ InHand(s, t) \/ Below(s, t)
       /\ Ordered(s) /\ FetchCurrent(s)
  /\ s.pc = "done" /\ s.complete =>
       \A t \in Listed \ Pinned : forum[t].bumped <= s.highWater => Current(t)

CoverInv ==
  /\ \A w \in Walkers : walk[w] # Idle => Underway(walk[w])
  /\ NothingRemoved =>
       /\ WatermarkCovers
       /\ \A w \in Walkers : walk[w] # Idle => WalkCovers(walk[w])

(***************************************************************************)
(* The listing.                                                            *)
(***************************************************************************)

(* What the listing lemmas need of the state.                              *)
Sorted ==
  /\ \A t \in Topics : forum[t].bumped \in Nat
  /\ \A t, u \in Listed : forum[t].bumped = forum[u].bumped => t = u

LEMMA ListedFinite == IsFiniteSet(Listed) /\ Cardinality(Listed) \in Nat
<1>1. Listed \subseteq Topics
  BY DEF Listed
<1>2. IsFiniteSet(Listed)
  BY <1>1, ConstantsAssumption, FS_Subset DEF ConstantsAssumption
<1> QED BY <1>2, FS_CardinalityType

(* Before is a strict total order of the listed topics.                    *)
LEMMA BeforeOrders ==
  ASSUME Sorted
  PROVE  /\ \A t \in Listed : ~ Before(t, t)
         /\ \A t, u, v \in Listed : Before(t, u) /\ Before(u, v) => Before(t, v)
         /\ \A t, u \in Listed : t = u \/ Before(t, u) \/ Before(u, t)
<1>1. \A t \in Listed : forum[t].bumped \in Nat
  BY DEF Sorted, Listed
<1> QED BY <1>1 DEF Sorted, Before

LEMMA PositionType ==
  ASSUME Sorted, NEW t \in Listed
  PROVE  Position(t) \in 0 .. Cardinality(Listed) - 1
<1> DEFINE A == {u \in Listed : Before(u, t)}
<1>1. A \subseteq Listed /\ A # Listed
  BY BeforeOrders
<1>2. /\ Cardinality(A) \in Nat
      /\ Cardinality(A) <= Cardinality(Listed)
      /\ Cardinality(A) # Cardinality(Listed)
  <2> HIDE DEF A
  <2> QED BY <1>1, ListedFinite, FS_Subset, FS_CardinalityType
<1> QED BY <1>2, ListedFinite DEF Position

LEMMA PositionGrows ==
  ASSUME Sorted, NEW t \in Listed, NEW u \in Listed, Before(t, u)
  PROVE  Position(t) < Position(u)
<1> DEFINE A == {v \in Listed : Before(v, t)}
           B == {v \in Listed : Before(v, u)}
<1>1. A \subseteq B /\ t \in B /\ t \notin A
  BY BeforeOrders
<1>2. IsFiniteSet(B)
  BY ListedFinite, FS_Subset
<1>3. /\ Cardinality(A) \in Nat /\ Cardinality(B) \in Nat
      /\ Cardinality(A) <= Cardinality(B) /\ Cardinality(A) # Cardinality(B)
  <2> HIDE DEF A, B
  <2> QED BY <1>1, <1>2, FS_Subset, FS_CardinalityType
<1> QED BY <1>3 DEF Position

LEMMA PositionOrders ==
  ASSUME Sorted, NEW t \in Listed, NEW u \in Listed
  PROVE  /\ Position(t) < Position(u) => Before(t, u)
         /\ Position(t) = Position(u) => t = u
<1>1. Position(t) \in Nat /\ Position(u) \in Nat
  BY PositionType
<1>2. t = u \/ Before(t, u) \/ Before(u, t)
  BY BeforeOrders
<1>3. /\ Before(t, u) => Position(t) < Position(u)
      /\ Before(u, t) => Position(u) < Position(t)
  BY PositionGrows
<1> QED BY <1>1, <1>2, <1>3

(* Every place of the listing is some topic's: positions are one-to-one    *)
(* into as many places as there are topics.                                *)
LEMMA PlaceTaken ==
  ASSUME Sorted, NEW i \in 0 .. Cardinality(Listed) - 1
  PROVE  \E t \in Listed : Position(t) = i
<1> DEFINE n == Cardinality(Listed)
           f == [t \in Listed |-> Position(t)]
<1>1. f \in [Listed -> 0 .. n - 1]
  BY PositionType
<1>2. \A t, u \in Listed : f[t] = f[u] => t = u
  BY PositionOrders
<1>3. f \in Injection(Listed, 0 .. n - 1)
  BY <1>1, <1>2 DEF Injection, IsInjective
<1>4. n \in Nat
  BY ListedFinite
<1>5. IsFiniteSet(0 .. n - 1) /\ Cardinality(0 .. n - 1) = n
  BY <1>4, FS_Interval
<1>6. f \in Surjection(Listed, 0 .. n - 1)
  BY <1>3, <1>5, FS_Injection
<1> QED BY <1>6 DEF Surjection

(* A page holds the topics at its places, in their order.                  *)
IsPage(e, n) ==
  /\ e \in Seq({Entry(t) : t \in Listed})
  /\ \A i \in DOMAIN e : \E t \in Listed :
       /\ e[i] = Entry(t) /\ Position(t) = n * PageSize + i - 1
       /\ n * PageSize <= Position(t) /\ Position(t) < (n + 1) * PageSize
  /\ \A t \in Listed :
       n * PageSize <= Position(t) /\ Position(t) < (n + 1) * PageSize =>
         \E i \in DOMAIN e : e[i] = Entry(t)
  /\ \A t \in Listed : Position(t) >= (n + 1) * PageSize => HasMore(n)
  /\ e = <<>> => \A t \in Listed : Position(t) < n * PageSize

LEMMA PageSizes ==
  ASSUME NEW n \in Nat
  PROVE  /\ PageSize \in Nat \ {0} /\ n * PageSize \in Nat
         /\ (n + 1) * PageSize = n * PageSize + PageSize
<1>1. PageSize \in Nat \ {0}
  BY ConstantsAssumption DEF ConstantsAssumption
<1> QED BY <1>1

LEMMA PageOfListing ==
  ASSUME Sorted, NEW n \in Nat
  PROVE  IsPage(PageEntries(n), n)
<1> DEFINE first == n * PageSize
           left == Cardinality(Listed) - first
           length == IF left < PageSize THEN left ELSE PageSize
           at(i) == CHOOSE t \in Listed : Position(t) = first + i - 1
           e == PageEntries(n)
<1>1. first \in Nat /\ PageSize \in Nat \ {0} /\ (n + 1) * PageSize = first + PageSize
  BY PageSizes
<1>2. left \in Int /\ length \in Int /\ length <= left /\ length <= PageSize
  BY <1>1, ListedFinite
<1>3. e = [i \in 1 .. length |-> Entry(at(i))]
  BY DEF PageEntries
<1> HIDE DEF first, e
<1>4. \A i \in 1 .. length : at(i) \in Listed /\ Position(at(i)) = first + i - 1
  <2> TAKE i \in 1 .. length
  <2>1. first + i - 1 \in 0 .. Cardinality(Listed) - 1
    BY <1>1, <1>2, ListedFinite
  <2> QED BY <2>1, PlaceTaken
<1> HIDE DEF at
<1>5. e \in Seq({Entry(t) : t \in Listed})
  <2>1. \E k \in Nat : 1 .. length = 1 .. k
    <3>1. CASE length >= 0
      BY <1>2, <3>1
    <3>2. CASE length < 0
      BY <1>2, <3>2
    <3> QED BY <1>2, <3>1, <3>2
  <2> PICK k \in Nat : 1 .. length = 1 .. k
    BY <2>1
  <2> HIDE DEF length
  <2>2. e \in [1 .. k -> {Entry(t) : t \in Listed}]
    BY <1>3, <1>4
  <2> QED BY <2>2, SeqDef
<1>6. \A i \in DOMAIN e : \E t \in Listed :
        /\ e[i] = Entry(t) /\ Position(t) = first + i - 1
        /\ first <= Position(t) /\ Position(t) < first + PageSize
  <2> TAKE i \in DOMAIN e
  <2>1. i \in 1 .. length /\ e[i] = Entry(at(i))
    BY <1>3
  <2>2. at(i) \in Listed /\ Position(at(i)) = first + i - 1
    BY <1>4, <2>1
  <2>3. first <= first + i - 1 /\ first + i - 1 < first + PageSize
    BY <1>1, <1>2, <2>1
  <2> QED BY <2>1, <2>2, <2>3
<1>7. ASSUME NEW t \in Listed, first <= Position(t), Position(t) < first + PageSize
      PROVE  \E i \in DOMAIN e : e[i] = Entry(t)
  <2> DEFINE i == Position(t) - first + 1
  <2>1. Position(t) \in Nat /\ Position(t) < Cardinality(Listed)
    BY PositionType, ListedFinite
  <2>2. i \in 1 .. length /\ Position(t) = first + i - 1
    BY <1>1, <1>7, <2>1, ListedFinite
  <2>3. at(i) = t
    BY <1>4, <2>2, PositionOrders
  <2> QED BY <1>3, <2>2, <2>3
<1>8. ASSUME NEW t \in Listed, Position(t) >= first + PageSize
      PROVE  left > PageSize
  <2>1. Position(t) \in Nat /\ Position(t) < Cardinality(Listed)
    BY PositionType, ListedFinite
  <2> QED BY <1>1, <1>8, <2>1, ListedFinite
<1>9. ASSUME e = <<>>, NEW t \in Listed
      PROVE  Position(t) < first
  <2> SUFFICES ASSUME Position(t) >= first PROVE FALSE
    BY <1>1, PositionType
  <2>1. Position(t) \in Nat /\ Position(t) < Cardinality(Listed)
    BY PositionType, ListedFinite
  <2>2. 1 \in 1 .. length
    BY <1>1, <2>1, ListedFinite
  <2>3. 1 \in DOMAIN e
    BY <1>3, <2>2
  <2> QED BY <1>9, <2>3
<1>10. \A t \in Listed : Position(t) >= first + PageSize => HasMore(n)
  BY <1>1, <1>8, ListedFinite DEF HasMore
<1> QED BY <1>1, <1>5, <1>6, <1>7, <1>9, <1>10 DEF IsPage, first, e

(***************************************************************************)
(* Types.                                                                  *)
(***************************************************************************)

TopicType == [posts : SUBSET Posts, highest : 0 .. MaxPosts, bumped : Times]

LEMMA Bounds ==
  /\ IsFiniteSet(Topics) /\ Pinned \subseteq Topics
  /\ MaxTime \in Nat /\ Cardinality(Topics) <= MaxTime
  /\ MaxPosts \in Nat \ {0} /\ QuietRunStop \in Nat \ {0}
BY ConstantsAssumption DEF ConstantsAssumption

LEMMA PostsFinite ==
  ASSUME NEW P \in SUBSET Posts
  PROVE  IsFiniteSet(P) /\ Cardinality(P) \in 0 .. MaxPosts
<1>1. IsFiniteSet(Posts) /\ Cardinality(Posts) = MaxPosts
  BY Bounds, FS_Interval DEF Posts
<1> QED BY <1>1, FS_Subset, FS_CardinalityType

LEMMA NoFileType == NoFile \in File
BY Bounds DEF NoFile, File

LEMMA InitTyped == Init => TypeInv
<1> SUFFICES ASSUME Init PROVE TypeInv
  OBVIOUS
<1> PICK S \in SUBSET Topics :
      /\ now = Cardinality(S)
      /\ \E at \in [S -> 1 .. Cardinality(S)] :
           /\ \A t, u \in S : t # u => at[t] # at[u]
           /\ forum = [t \in Topics |->
                IF t \in S THEN [posts |-> {1}, highest |-> 1, bumped |-> at[t]]
                ELSE Absent]
  BY DEF Init
<1> PICK at \in [S -> 1 .. Cardinality(S)] :
      /\ \A t, u \in S : t # u => at[t] # at[u]
      /\ forum = [t \in Topics |->
           IF t \in S THEN [posts |-> {1}, highest |-> 1, bumped |-> at[t]]
           ELSE Absent]
  OBVIOUS
<1>1. now \in Nat /\ now \in Times
  <2>1. IsFiniteSet(S) /\ Cardinality(S) <= Cardinality(Topics)
    BY Bounds, FS_Subset
  <2>2. Cardinality(S) \in Nat /\ Cardinality(Topics) \in Nat
    BY <2>1, Bounds, FS_CardinalityType
  <2> QED BY <2>1, <2>2, Bounds DEF Times
<1>2. /\ files = [t \in Topics |-> NoFile] /\ checkpoint = 0
      /\ walk = [w \in Walkers |-> Idle]
  BY DEF Init
<1>3. ASSUME NEW t \in Topics
      PROVE  forum[t] \in TopicType /\ forum[t].bumped <= now
  <2>1. CASE t \in S
    <3>1. forum[t] = [posts |-> {1}, highest |-> 1, bumped |-> at[t]]
      BY <2>1
    <3>2. at[t] \in 1 .. now /\ now <= MaxTime
      BY <1>1, <2>1, Bounds DEF Times
    <3>3. at[t] \in Times /\ at[t] <= now
      BY <1>1, <3>2, Bounds DEF Times
    <3> QED BY <3>1, <3>3, Bounds DEF TopicType, Posts
  <2>2. CASE t \notin S
    <3>1. forum[t] = Absent
      BY <2>2
    <3> QED BY <1>1, <3>1, Bounds DEF TopicType, Absent, Times
  <2> QED BY <2>1, <2>2
<1>4. ASSUME NEW t \in Listed
      PROVE  t \in S /\ forum[t].highest = 1 /\ forum[t].bumped = at[t]
  <2>1. t \in Topics /\ forum[t].bumped > 0
    BY DEF Listed
  <2>2. t \in S
    <3>1. t \notin S => forum[t] = Absent
      BY <2>1
    <3> QED BY <2>1, <3>1 DEF Absent
  <2> QED BY <2>2
<1>5. Dated
  <2>1. checkpoint <= now
    BY <1>1, <1>2
  <2>2. \A t, u \in Listed : forum[t].bumped = forum[u].bumped => t = u
    BY <1>4
  <2>3. \A t \in Listed : forum[t].highest > 0
    BY <1>4
  <2> QED BY <1>3, <2>1, <2>2, <2>3 DEF Dated
<1>6. TypeOK
  <2>1. \E f : forum = [t \in Topics |-> f[t]]
    <3> DEFINE f == [t \in Topics |->
           IF t \in S THEN [posts |-> {1}, highest |-> 1, bumped |-> at[t]] ELSE Absent]
    <3>1. forum = f /\ f = [t \in Topics |-> f[t]]
      OBVIOUS
    <3> QED BY <3>1, Zenon
  <2>2. forum \in [Topics -> TopicType]
    BY <1>3, <2>1
  <2>3. checkpoint \in Times
    BY <1>2, Bounds DEF Times
  <2> QED BY <1>1, <1>2, <2>2, <2>3, NoFileType DEF TypeOK, TopicType
<1> QED BY <1>2, <1>5, <1>6 DEF TypeInv

LEMMA TopicTyped ==
  ASSUME TypeInv, NEW t \in Topics
  PROVE  /\ forum[t] \in TopicType /\ files[t] \in File
         /\ forum[t].bumped \in Nat /\ forum[t].highest \in Nat
         /\ now \in Nat /\ now \in Times /\ checkpoint \in Nat
<1>1. TypeOK
  BY DEF TypeInv
<1>2. forum[t] \in TopicType /\ files[t] \in File
  BY <1>1 DEF TypeOK, TopicType
<1>3. now \in Times /\ checkpoint \in Times
  BY <1>1 DEF TypeOK
<1> QED BY <1>2, <1>3, Bounds DEF TopicType, Times

LEMMA AllDated ==
  ASSUME TypeInv
  PROVE  /\ Dated /\ TypeOK
         /\ now \in Nat /\ checkpoint \in Nat /\ checkpoint <= now
         /\ \A t \in Topics : forum[t].bumped \in Nat /\ forum[t].bumped <= now
         /\ Listed \subseteq Topics
<1>1. Dated /\ TypeOK
  BY DEF TypeInv
<1>2. now \in Nat /\ checkpoint \in Nat
  BY <1>1, Bounds DEF TypeOK, Times
<1> QED BY <1>1, <1>2, TopicTyped DEF Dated, Listed

LEMMA ListingSorted == TypeInv => Sorted
BY AllDated DEF Dated, Sorted

LEMMA HappensTyped ==
  ASSUME TypeInv, NEW t \in Topics, NEW topic, Happens(t, topic),
         topic \in [posts : SUBSET Posts, highest : 0 .. MaxPosts, bumped : Nat],
         topic.bumped \in {now + 1, forum[t].bumped, 0},
         topic.bumped > 0 => topic.highest > 0
  PROVE  TypeInv'
<1>1. /\ now' = now + 1 /\ now' \in Times /\ now \in Nat
      /\ forum' = [forum EXCEPT ![t] = topic]
      /\ UNCHANGED <<files, checkpoint, walk>>
  BY AllDated, Bounds DEF Happens, Times
<1>2. /\ forum'[t] = topic /\ \A u \in Topics : u # t => forum'[u] = forum[u]
      /\ forum \in [Topics -> TopicType]
  BY <1>1, AllDated DEF TypeOK, TopicType
<1>3. \A u \in Topics : forum[u].bumped \in Nat /\ forum[u].bumped <= now
  BY AllDated
<1>4. topic \in TopicType /\ topic.bumped <= now'
  BY <1>1, <1>3, Bounds DEF TopicType, Times
<1>5. forum' \in [Topics -> TopicType]
  BY <1>1, <1>2, <1>4
<1>6. TypeOK'
  BY <1>1, <1>5, AllDated DEF TypeOK, TopicType
<1>7. Dated'
  <2>1. checkpoint' <= now'
    BY <1>1, AllDated
  <2>2. \A u \in Topics : forum'[u].bumped <= now'
    BY <1>1, <1>2, <1>3, <1>4
  <2>3. \A u \in Listed' : u = t \/ u \in Listed
    BY <1>2 DEF Listed
  <2>4. \A u \in Listed' : forum'[u].highest > 0
    BY <1>2, <2>3, AllDated DEF Listed, Dated
  <2>5. ASSUME NEW u \in Listed', NEW v \in Listed', forum'[u].bumped = forum'[v].bumped
        PROVE  u = v
    <3>1. u \in Topics /\ v \in Topics /\ forum'[u].bumped > 0
      BY DEF Listed
    <3>2. CASE u # t /\ v # t
      BY <1>2, <2>3, <2>5, <3>2, AllDated DEF Dated
    <3>3. ASSUME NEW x \in Listed', x # t, forum'[x].bumped = topic.bumped, topic.bumped > 0
          PROVE  FALSE
      <4>1. x \in Listed /\ forum'[x] = forum[x] /\ forum[x].bumped <= now
        BY <1>2, <1>3, <2>3, <3>3 DEF Listed
      <4>2. topic.bumped = forum[t].bumped
        BY <1>1, <1>3, <3>3, <4>1
      <4>3. t \in Listed
        BY <3>3, <4>2 DEF Listed
      <4> QED BY <3>3, <4>1, <4>2, <4>3, AllDated DEF Dated
    <3> QED BY <1>2, <2>5, <3>1, <3>2, <3>3
  <2> QED BY <2>1, <2>2, <2>4, <2>5 DEF Dated
<1>8. ASSUME NEW w \in Walkers, walk'[w] # Idle
      PROVE  WalkDated(walk[w])'
  <2>1. walk[w] \in Walks /\ WalkDated(walk[w])
    BY <1>1, <1>8 DEF TypeInv, TypeOK
  <2>2. /\ walk[w].began \in Nat /\ walk[w].highWater \in Nat
        /\ walk[w].entries \in Seq(Entries)
    BY <2>1, Bounds DEF Walks, Times
  <2>3. \A i \in DOMAIN walk[w].entries : walk[w].entries[i].key \in Nat
    <3>1. \A i \in DOMAIN walk[w].entries : walk[w].entries[i] \in Entries
      BY <2>2, LenProperties, ElementOfSeq
    <3> QED BY <3>1, Bounds DEF Entries, Times
  <2> QED BY <1>1, <2>1, <2>2, <2>3 DEF WalkDated, QuietRun, Incremental
<1> QED BY <1>6, <1>7, <1>8 DEF TypeInv

LEMMA ForumTyped ==
  ASSUME TypeInv, ForumStep
  PROVE  TypeInv'
<1> PICK t \in Topics :
      \/ NewTopic(t) \/ Reply(t) \/ Bump(t) \/ RemoveTopic(t)
      \/ \E p \in Posts : DeletePost(t, p)
  BY DEF ForumStep
<1> DEFINE f == forum[t]
           IsNext(r) == /\ Happens(t, r)
                        /\ r \in [posts : SUBSET Posts, highest : 0 .. MaxPosts, bumped : Nat]
                        /\ r.bumped \in {now + 1, forum[t].bumped, 0}
                        /\ r.bumped > 0 => r.highest > 0
<1>1. f \in TopicType /\ f.bumped \in Nat /\ f.highest \in Nat /\ now \in Nat
  BY TopicTyped
<1>2. t \in Listed => f.highest > 0
  BY AllDated DEF Dated
<1>3. ASSUME NEW r, IsNext(r) PROVE TypeInv'
  BY <1>3, HappensTyped
<1>4. CASE NewTopic(t)
  <2> DEFINE r == [posts |-> {1}, highest |-> 1, bumped |-> now + 1]
  <2>1. Happens(t, r)
    BY <1>4 DEF NewTopic
  <2>2. r \in [posts : SUBSET Posts, highest : 0 .. MaxPosts, bumped : Nat]
    BY <1>1, Bounds DEF Posts
  <2>3. IsNext(r)
    BY <2>1, <2>2
  <2> HIDE DEF r, IsNext
  <2> QED BY <1>3, <2>3
<1>5. CASE Reply(t)
  <2> DEFINE n == f.highest + 1
             r == [posts |-> f.posts \cup {n}, highest |-> n, bumped |-> now + 1]
  <2>1. Happens(t, r) /\ n <= MaxPosts
    BY <1>5 DEF Reply
  <2>2. n \in 1 .. MaxPosts /\ f.posts \subseteq Posts
    BY <1>1, <2>1, Bounds DEF TopicType
  <2>3. r \in [posts : SUBSET Posts, highest : 0 .. MaxPosts, bumped : Nat]
    BY <1>1, <2>2 DEF Posts
  <2>4. IsNext(r)
    BY <2>1, <2>2, <2>3
  <2> HIDE DEF r, IsNext
  <2> QED BY <1>3, <2>4
<1>6. CASE Bump(t) \/ RemoveTopic(t)
  <2>1. PICK b \in {now + 1, 0} : Happens(t, [f EXCEPT !.bumped = b]) /\ t \in Listed
    BY <1>6 DEF Bump, RemoveTopic
  <2> DEFINE r == [f EXCEPT !.bumped = b]
  <2>2. r \in [posts : SUBSET Posts, highest : 0 .. MaxPosts, bumped : Nat]
    BY <1>1, <2>1 DEF TopicType
  <2>3. r.highest = f.highest /\ r.bumped = b
    BY <1>1 DEF TopicType
  <2>4. IsNext(r)
    BY <1>2, <2>1, <2>2, <2>3
  <2> HIDE DEF r, IsNext
  <2> QED BY <1>3, <2>4
<1>7. ASSUME NEW p \in Posts, DeletePost(t, p) PROVE TypeInv'
  <2> DEFINE r == [f EXCEPT !.posts = f.posts \ {p}]
  <2>1. Happens(t, r) /\ t \in Listed
    BY <1>7 DEF DeletePost
  <2>2. r \in [posts : SUBSET Posts, highest : 0 .. MaxPosts, bumped : Nat]
    BY <1>1 DEF TopicType
  <2>3. r.highest = f.highest /\ r.bumped = f.bumped
    BY <1>1 DEF TopicType
  <2>4. IsNext(r)
    BY <1>2, <2>1, <2>2, <2>3
  <2> HIDE DEF r, IsNext
  <2> QED BY <1>3, <2>4
<1> QED BY <1>4, <1>5, <1>6, <1>7

(* A walker's step, in general.                                            *)
LEMMA WalkerTyped ==
  ASSUME TypeInv, Shape, NEW w \in Walkers, NEW s, Set(w, s),
         now' \in {now, now + 1}, now' \in Times, forum' = forum,
         s = Idle \/ (s \in Walks /\ WalkDated(s)),
         files' \in [Topics -> File],
         checkpoint' \in Times, checkpoint' <= now
  PROVE  TypeInv'
<1>1. walk'[w] = s /\ \A v \in Walkers : v # w => walk'[v] = walk[v]
  BY DEF Set, Shape
<1>2. now \in Nat /\ now <= now'
  BY AllDated
<1>3. ASSUME NEW r \in Walks, WalkDated(r) PROVE WalkDated(r)'
  <2>1. r.began \in Nat /\ r.highWater \in Nat /\ r.entries \in Seq(Entries)
    BY Bounds DEF Walks, Times
  <2>2. \A i \in DOMAIN r.entries : r.entries[i] \in Entries
    BY <2>1, LenProperties, ElementOfSeq
  <2>3. \A i \in DOMAIN r.entries : r.entries[i].key \in Nat
    BY <2>2, Bounds DEF Entries, Times
  <2> QED BY <1>2, <1>3, <2>1, <2>3 DEF WalkDated, QuietRun, Incremental
<1>4. TypeOK'
  <2>1. \A v \in Walkers : walk'[v] = Idle \/ walk'[v] \in Walks
    BY <1>1, AllDated DEF TypeOK
  <2>2. forum' \in [Topics -> [posts : SUBSET Posts, highest : 0 .. MaxPosts, bumped : Times]]
    BY AllDated DEF TypeOK
  <2> QED BY <2>1, <2>2 DEF TypeOK
<1>5. Dated'
  <2>1. checkpoint' <= now'
    BY <1>2, Bounds DEF Times
  <2>2. \A t \in Topics : forum'[t].bumped <= now'
    BY <1>2, AllDated
  <2> QED BY <2>1, <2>2, AllDated DEF Dated, Listed
<1>6. ASSUME NEW v \in Walkers, walk'[v] # Idle PROVE WalkDated(walk[v])'
  <2>1. walk'[v] \in Walks /\ WalkDated(walk'[v])
    BY <1>1, <1>6, AllDated DEF TypeInv, TypeOK
  <2>2. \A r : WalkDated(r)' <=>
          /\ r.began <= now' /\ r.highWater <= now'
          /\ \A i \in DOMAIN r.entries : r.entries[i].key <= now'
          /\ r.pc # "done" => r.quietRun < QuietRunStop
          /\ r.pc = "list" => r.entries = <<>>
          /\ r.pc = "batch" => r.entries # <<>> /\ QuietRun(r) < QuietRunStop
    BY DEF WalkDated, QuietRun, Incremental
  <2> QED BY <1>3, <2>1, <2>2 DEF WalkDated
<1> QED BY <1>4, <1>5, <1>6 DEF TypeInv

(* A walk in progress, and the entry at its hand.                          *)
LEMMA WalkTyped ==
  ASSUME TypeInv, NEW w \in Walkers, walk[w] # Idle
  PROVE  walk[w] \in Walks /\ WalkDated(walk[w])
BY DEF TypeInv, TypeOK

LEMMA WalkFieldsTyped ==
  ASSUME NEW s \in Walks
  PROVE  /\ s.entries \in Seq(Entries) /\ s.highWater \in Nat /\ s.highWater \in Times
         /\ s.state \in Nat /\ s.began \in Nat /\ s.page \in Nat
         /\ s.quietRun \in Nat /\ s.processed \in Nat /\ s.full \in File
         /\ s.missing \in SUBSET Posts
         /\ \A i \in DOMAIN s.entries :
              /\ s.entries[i] \in Entries
              /\ s.entries[i].key \in Nat /\ s.entries[i].key \in Times
              /\ s.entries[i].highest \in Nat
<1>1. /\ s.entries \in Seq(Entries) /\ s.highWater \in Times
      /\ s.state \in Times /\ s.began \in Times /\ s.page \in Nat
      /\ s.quietRun \in 0 .. QuietRunStop /\ s.processed \in Nat /\ s.full \in File
      /\ s.missing \in SUBSET Posts
  BY DEF Walks
<1>2. \A i \in DOMAIN s.entries : s.entries[i] \in Entries
  BY <1>1, LenProperties, ElementOfSeq
<1>3. \A x \in Times : x \in Nat
  BY Bounds DEF Times
<1>4. \A e \in Entries : e.key \in Times /\ e.highest \in Nat
  BY Bounds DEF Entries
<1> QED BY <1>1, <1>2, <1>3, <1>4, Bounds

LEMMA AtHead ==
  ASSUME NEW s \in Walks, s.entries # <<>>
  PROVE  /\ 1 \in DOMAIN s.entries /\ Head(s.entries) = s.entries[1]
         /\ Head(s.entries) \in Entries
         /\ Tail(s.entries) \in Seq(Entries)
         /\ \A i \in DOMAIN Tail(s.entries) :
              i + 1 \in DOMAIN s.entries /\ Tail(s.entries)[i] = s.entries[i + 1]
         /\ \A i \in DOMAIN s.entries :
              i = 1 \/ (i - 1 \in DOMAIN Tail(s.entries)
                        /\ Tail(s.entries)[i - 1] = s.entries[i])
<1> DEFINE e == s.entries
<1>1. e \in Seq(Entries)
  BY WalkFieldsTyped
<1>2. Len(e) \in Nat \ {0} /\ DOMAIN e = 1 .. Len(e)
  BY <1>1, EmptySeq, LenProperties
<1>3. Head(e) = e[1]
  BY <1>1, <1>2
<1>4. /\ Head(e) \in Entries /\ Tail(e) \in Seq(Entries) /\ Len(Tail(e)) = Len(e) - 1
      /\ \A i \in 1 .. Len(Tail(e)) : Tail(e)[i] = e[i + 1]
  BY <1>1, HeadTailProperties
<1>5. DOMAIN Tail(e) = 1 .. Len(e) - 1
  BY <1>4, LenProperties
<1> HIDE DEF e
<1>6. \A i \in DOMAIN Tail(e) : i + 1 \in DOMAIN e /\ Tail(e)[i] = e[i + 1]
  BY <1>2, <1>4, <1>5
<1>7. \A i \in DOMAIN e : i = 1 \/ i - 1 \in DOMAIN Tail(e)
  BY <1>2, <1>5
<1>8. \A i \in DOMAIN e : i = 1 \/ Tail(e)[i - 1] = e[i]
  <2> TAKE i \in DOMAIN e
  <2> SUFFICES ASSUME i # 1 PROVE Tail(e)[i - 1] = e[i]
    OBVIOUS
  <2>1. i - 1 \in DOMAIN Tail(e) /\ (i - 1) + 1 = i
    BY <1>2, <1>7
  <2> QED BY <1>6, <2>1
<1> QED BY <1>2, <1>3, <1>4, <1>6, <1>7, <1>8 DEF e

LEMMA Bookkeeping ==
  ASSUME NEW s \in Walks, WalkDated(s), s.entries # <<>>, s.quietRun < QuietRunStop,
         now \in Nat
  PROVE  /\ HighWater(s) \in Times /\ HighWater(s) \in Nat /\ HighWater(s) <= now
         /\ s.highWater <= HighWater(s) /\ s.entries[1].key <= HighWater(s)
         /\ HighWater(s) \in {s.highWater, s.entries[1].key}
         /\ QuietRun(s) \in 0 .. QuietRunStop
<1>1. /\ 1 \in DOMAIN s.entries /\ Head(s.entries) = s.entries[1]
      /\ s.entries[1].key \in Nat /\ s.entries[1].key \in Times
      /\ s.entries[1].key <= now
      /\ s.highWater \in Nat /\ s.highWater \in Times /\ s.highWater <= now
      /\ s.quietRun \in Nat
  BY AtHead, WalkFieldsTyped DEF WalkDated
<1>2. HighWater(s) = IF s.entries[1].key > s.highWater THEN s.entries[1].key ELSE s.highWater
  BY <1>1 DEF HighWater
<1>3. QuietRun(s) \in {s.quietRun, s.quietRun + 1, 0}
  BY DEF QuietRun
<1> QED BY <1>1, <1>2, <1>3, Bounds

LEMMA PastTyped ==
  ASSUME NEW s \in Walks, WalkDated(s), s.entries # <<>>, s.quietRun < QuietRunStop,
         QuietRun(s) < QuietRunStop, now \in Nat
  PROVE  /\ Past(s) \in Walks /\ WalkDated(Past(s))
         /\ Past(s).pc = "entries" /\ Past(s).entries = Tail(s.entries)
         /\ Past(s).highWater = HighWater(s) /\ Past(s).state = s.state
         /\ Past(s).began = s.began /\ Past(s).more = s.more /\ Past(s).page = s.page
         /\ Past(s).complete = s.complete
<1> DEFINE h == HighWater(s)
           q == QuietRun(s)
           r == Past(s)
<1>1. h \in Times /\ h <= now /\ q \in 0 .. QuietRunStop
  BY Bookkeeping
<1>2. Tail(s.entries) \in Seq(Entries)
      /\ \A i \in DOMAIN Tail(s.entries) : Tail(s.entries)[i].key <= now
  BY AtHead DEF WalkDated
<1>3. s.processed + 1 \in Nat
  BY WalkFieldsTyped
<1>4. r = [s EXCEPT !.pc = "entries", !.entries = Tail(s.entries), !.highWater = h,
                    !.quietRun = q, !.processed = s.processed + 1,
                    !.full = NoFile, !.missing = {}]
  BY DEF Past
<1> HIDE DEF h, q, r
<1>5. r \in Walks
  BY <1>1, <1>2, <1>3, <1>4, NoFileType DEF Walks
<1>6. /\ r.pc = "entries" /\ r.entries = Tail(s.entries) /\ r.highWater = h
      /\ r.quietRun = q /\ r.state = s.state
      /\ r.began = s.began /\ r.more = s.more /\ r.page = s.page
      /\ r.complete = s.complete
  BY <1>4 DEF Walks
<1>7. WalkDated(r)
  BY <1>1, <1>2, <1>6 DEF WalkDated, q
<1> QED BY <1>5, <1>6, <1>7 DEF h, r

(* What the steps leave alone.                                             *)
StillTyped == files \in [Topics -> File] /\ checkpoint \in Times /\ checkpoint <= now /\ now \in Times

LEMMA StillIs == TypeInv => StillTyped
BY AllDated DEF StillTyped, TypeOK

(* What the bookkeeping of a page makes of a walk: `moved` is its record   *)
(* after the step.                                                         *)
LEMMA PageMoves ==
  ASSUME NEW s \in Walks, NEW entries \in Seq(Entries), NEW more \in BOOLEAN
  PROVE  /\ [s EXCEPT !.pc = "done", !.complete = TRUE] \in Walks
         /\ [s EXCEPT !.pc = "entries", !.entries = entries, !.more = more] \in Walks
         /\ [s EXCEPT !.pc = "list", !.page = s.page + 1] \in Walks
         /\ [s EXCEPT !.pc = "done"] \in Walks
<1>1. s.page + 1 \in Nat
  BY WalkFieldsTyped
<1> QED BY <1>1 DEF Walks

LEMMA PageTyped ==
  ASSUME TypeInv, NEW n \in Nat
  PROVE  /\ PageEntries(n) \in Seq(Entries) /\ HasMore(n) \in BOOLEAN
         /\ \A i \in DOMAIN PageEntries(n) : PageEntries(n)[i].key <= now
<1>1. \A t \in Listed : Entry(t) \in Entries /\ Entry(t).key <= now
  <2> TAKE t \in Listed
  <2>1. t \in Topics /\ forum[t] \in TopicType /\ forum[t].bumped <= now
    BY TopicTyped, AllDated
  <2>2. Cardinality(forum[t].posts) \in 0 .. MaxPosts
    BY <2>1, PostsFinite DEF TopicType
  <2> QED BY <2>1, <2>2 DEF Entry, Entries, TopicType
<1>2. IsPage(PageEntries(n), n)
  BY PageOfListing, ListingSorted
<1>3. \A i \in DOMAIN PageEntries(n) : \E t \in Listed : PageEntries(n)[i] = Entry(t)
  BY <1>2 DEF IsPage
<1>4. PageEntries(n) \in Seq({Entry(t) : t \in Listed})
  BY <1>2 DEF IsPage
<1>5. {Entry(t) : t \in Listed} \subseteq Entries
  BY <1>1
<1>6. PageEntries(n) \in Seq(Entries)
  BY <1>4, <1>5, SeqMonotonic
<1> QED BY <1>1, <1>3, <1>6 DEF HasMore

LEMMA ListPageTyped ==
  ASSUME TypeInv, Shape, NEW w \in Walkers, ListPage(w)
  PROVE  TypeInv'
<1> DEFINE s == walk[w]
           entries == PageEntries(s.page)
           last == [s EXCEPT !.pc = "done", !.complete = TRUE]
           next == [s EXCEPT !.pc = "entries", !.entries = entries,
                             !.more = HasMore(s.page)]
<1>1. s.pc = "list" /\ UNCHANGED <<now, forum, files, checkpoint>>
  BY DEF ListPage
<1>2. s \in Walks /\ WalkDated(s)
  BY <1>1, BusyWalk, WalkTyped
<1>3. s.page \in Nat
  BY <1>2, WalkFieldsTyped
<1>4. entries \in Seq(Entries) /\ HasMore(s.page) \in BOOLEAN
      /\ \A i \in DOMAIN entries : entries[i].key <= now
  BY <1>3, PageTyped
<1>5. Set(w, last) \/ Set(w, next)
  BY DEF ListPage
<1> HIDE DEF entries
<1>6. last \in Walks /\ next \in Walks
  BY <1>2, <1>4, PageMoves
<1>7. WalkDated(last) /\ WalkDated(next)
  <2>1. /\ last.pc = "done" /\ last.began = s.began /\ last.highWater = s.highWater
        /\ last.entries = s.entries
        /\ next.pc = "entries" /\ next.began = s.began /\ next.highWater = s.highWater
        /\ next.entries = entries /\ next.quietRun = s.quietRun
    BY <1>2 DEF Walks
  <2> HIDE DEF last, next
  <2> QED BY <1>1, <1>2, <1>4, <2>1 DEF WalkDated
<1> HIDE DEF last, next
<1> QED BY <1>1, <1>5, <1>6, <1>7, StillIs, WalkerTyped DEF StillTyped

LEMMA EndPageTyped ==
  ASSUME TypeInv, Shape, NEW w \in Walkers, EndPage(w)
  PROVE  TypeInv'
<1> DEFINE s == walk[w]
           last == [s EXCEPT !.pc = "done", !.complete = TRUE]
           next == [s EXCEPT !.pc = "list", !.page = s.page + 1]
<1>1. s.pc = "entries" /\ s.entries = <<>> /\ UNCHANGED <<now, forum, files, checkpoint>>
  BY DEF EndPage
<1>2. s \in Walks /\ WalkDated(s)
  BY <1>1, BusyWalk, WalkTyped
<1>3. Set(w, last) \/ Set(w, next)
  BY DEF EndPage
<1>4. last \in Walks /\ next \in Walks
  <2>1. <<>> \in Seq(Entries) /\ TRUE \in BOOLEAN
    BY EmptySeq
  <2> HIDE DEF last, next
  <2> QED BY <1>2, <2>1, PageMoves DEF last, next
<1>5. WalkDated(last) /\ WalkDated(next)
  <2>1. /\ last.pc = "done" /\ last.began = s.began /\ last.highWater = s.highWater
        /\ last.entries = s.entries
        /\ next.pc = "list" /\ next.began = s.began /\ next.highWater = s.highWater
        /\ next.entries = s.entries /\ next.quietRun = s.quietRun
    BY <1>2 DEF Walks
  <2> HIDE DEF last, next
  <2> QED BY <1>1, <1>2, <2>1 DEF WalkDated
<1> HIDE DEF last, next
<1> QED BY <1>1, <1>3, <1>4, <1>5, StillIs, WalkerTyped DEF StillTyped

LEMMA StopTyped ==
  ASSUME TypeInv, Shape, NEW w \in Walkers, StopAtLimit(w) \/ StopQuiet(w)
  PROVE  TypeInv'
<1> DEFINE s == walk[w]
           h == HighWater(s)
           q == QuietRun(s)
           cut == [s EXCEPT !.pc = "done"]
           quiet == [s EXCEPT !.pc = "done", !.highWater = h,
                              !.quietRun = q, !.complete = TRUE]
<1>1. s.pc = "entries" /\ s.entries # <<>> /\ UNCHANGED <<now, forum, files, checkpoint>>
  BY DEF StopAtLimit, StopQuiet, AtEntry
<1>2. s \in Walks /\ WalkDated(s)
  BY <1>1, BusyWalk, WalkTyped
<1>3. Set(w, cut) \/ Set(w, quiet)
  BY DEF StopAtLimit, StopQuiet
<1>4. h \in Times /\ h <= now /\ q \in 0 .. QuietRunStop
  BY <1>1, <1>2, AllDated, Bookkeeping DEF WalkDated
<1> HIDE DEF h, q
<1>5. cut \in Walks /\ quiet \in Walks
  BY <1>2, <1>4 DEF Walks
<1>6. WalkDated(cut) /\ WalkDated(quiet)
  <2>1. /\ cut.pc = "done" /\ cut.began = s.began /\ cut.highWater = s.highWater
        /\ cut.entries = s.entries
        /\ quiet.pc = "done" /\ quiet.began = s.began /\ quiet.highWater = h
        /\ quiet.entries = s.entries
    BY <1>2 DEF Walks
  <2> HIDE DEF cut, quiet
  <2> QED BY <1>1, <1>2, <1>4, <2>1 DEF WalkDated
<1> HIDE DEF cut, quiet
<1> QED BY <1>1, <1>3, <1>5, <1>6, StillIs, WalkerTyped DEF StillTyped

LEMMA SkipTyped ==
  ASSUME TypeInv, Shape, NEW w \in Walkers, Skip(w)
  PROVE  TypeInv'
<1> DEFINE s == walk[w]
<1>1. /\ s.pc = "entries" /\ s.entries # <<>> /\ QuietRun(s) < QuietRunStop
      /\ UNCHANGED <<now, forum, files, checkpoint>> /\ Set(w, Past(s))
  BY DEF Skip, Examines, AtEntry
<1>2. s \in Walks /\ WalkDated(s)
  BY <1>1, BusyWalk, WalkTyped
<1>3. Past(s) \in Walks /\ WalkDated(Past(s))
  BY <1>1, <1>2, AllDated, PastTyped DEF WalkDated
<1> QED BY <1>1, <1>3, StillIs, WalkerTyped DEF StillTyped

LEMMA EndTyped ==
  ASSUME TypeInv, Shape, NEW w \in Walkers, TopicGone(w) \/ Fail(w) \/ Finish(w)
  PROVE  TypeInv'
<1>1. forum' = forum /\ files' = files /\ Set(w, Idle)
  BY DEF TopicGone, Fail, Finish
<1>2. now' \in {now, now + 1} /\ now' \in Times
  BY AllDated, Bounds DEF TopicGone, Fail, Finish, TypeOK, Times
<1>3. checkpoint' \in Times /\ checkpoint' <= now
  <2>1. CASE checkpoint' = checkpoint
    BY <2>1, StillIs DEF StillTyped
  <2>2. CASE Finish(w) /\ checkpoint' = walk[w].highWater
    <3>1. walk[w] \in Walks /\ WalkDated(walk[w])
      BY <2>2, BusyWalk, WalkTyped DEF Finish
    <3> QED BY <2>2, <3>1, WalkFieldsTyped DEF WalkDated
  <2> QED BY <2>1, <2>2 DEF TopicGone, Fail, Finish
<1> QED BY <1>1, <1>2, <1>3, StillIs, WalkerTyped DEF StillTyped

LEMMA BeginTyped ==
  ASSUME TypeInv, Shape, NEW w \in Walkers, NEW intent \in Intents, BeginSync(w, intent)
  PROVE  TypeInv'
<1> DEFINE r == [ pc |-> "list", intent |-> intent, state |-> checkpoint,
                  began |-> now, page |-> 0, entries |-> <<>>, more |-> FALSE,
                  highWater |-> 0, quietRun |-> 0, processed |-> 0,
                  full |-> NoFile, missing |-> {}, complete |-> FALSE ]
<1>1. Set(w, r) /\ UNCHANGED <<now, forum, files, checkpoint>>
  BY DEF BeginSync
<1>2. now \in Nat /\ now \in Times /\ checkpoint \in Times /\ 0 \in Times
  BY AllDated, Bounds DEF TypeOK, Times
<1>3. <<>> \in Seq(Entries) /\ 0 \in 0 .. QuietRunStop
  BY EmptySeq, Bounds
<1>4. r \in Walks
  BY <1>2, <1>3, NoFileType DEF Walks
<1>5. WalkDated(r)
  BY <1>2, Bounds DEF WalkDated
<1> HIDE DEF r
<1> QED BY <1>1, <1>4, <1>5, StillIs, WalkerTyped DEF StillTyped

(* A file is replaced, and its walker moves on.                            *)
LEMMA WriteTyped ==
  ASSUME TypeInv, Shape, NEW w \in Walkers, NEW t \in Topics, NEW full \in File,
         WriteTopic(w, t, full), UNCHANGED <<now, forum, checkpoint>>,
         walk[w].pc \in {"entries", "batch"}, walk[w].entries # <<>>,
         QuietRun(walk[w]) < QuietRunStop
  PROVE  TypeInv'
<1> DEFINE s == walk[w]
<1>1. s \in Walks /\ WalkDated(s)
  BY BusyWalk, WalkTyped
<1>2. Past(s) \in Walks /\ WalkDated(Past(s))
  BY <1>1, AllDated, PastTyped DEF WalkDated
<1>3. files' \in [Topics -> File] /\ Set(w, Past(s))
  BY AllDated DEF WriteTopic, TypeOK
<1> HIDE DEF s
<1> QED BY <1>2, <1>3, StillIs, WalkerTyped DEF StillTyped

LEMMA FetchTopicTyped ==
  ASSUME TypeInv, Shape, NEW w \in Walkers, FetchTopic(w)
  PROVE  TypeInv'
<1> DEFINE s == walk[w]
           t == Head(s.entries).topic
           full == [posts |-> FirstPosts(t), highest |-> forum[t].highest,
                    count |-> Cardinality(forum[t].posts)]
           missing == MissingPosts(t)
<1>1. /\ s.pc = "entries" /\ s.entries # <<>> /\ QuietRun(s) < QuietRunStop
      /\ t \in Topics /\ UNCHANGED <<now, forum, checkpoint>>
  BY DEF FetchTopic, Examines, AtEntry, Listed
<1>2. s \in Walks /\ WalkDated(s)
  BY <1>1, BusyWalk, WalkTyped
<1>3. forum[t].posts \subseteq Posts /\ forum[t].highest \in 0 .. MaxPosts
  BY <1>1, TopicTyped DEF TopicType
<1>4. full \in File /\ missing \subseteq Posts
  BY <1>3, PostsFinite DEF File, FirstPosts, MissingPosts
<1>5. CASE WriteTopic(w, t, full)
  <2> HIDE DEF full, t
  <2> QED BY <1>1, <1>4, <1>5, WriteTyped
<1>6. CASE /\ Set(w, [s EXCEPT !.pc = "batch", !.full = full, !.missing = missing])
           /\ UNCHANGED files
  <2> DEFINE r == [s EXCEPT !.pc = "batch", !.full = full, !.missing = missing]
  <2> HIDE DEF full, missing
  <2>1. r \in Walks
    BY <1>2, <1>4 DEF Walks
  <2>2. /\ r.pc = "batch" /\ r.began = s.began /\ r.highWater = s.highWater
        /\ r.entries = s.entries /\ r.quietRun = s.quietRun
        /\ r.intent = s.intent /\ r.state = s.state
    BY <1>2 DEF Walks
  <2> HIDE DEF r
  <2>3. QuietRun(r) = QuietRun(s)
    BY <2>2 DEF QuietRun, Incremental
  <2>4. WalkDated(r)
    BY <1>1, <1>2, <2>2, <2>3 DEF WalkDated
  <2> QED BY <1>1, <1>6, <2>1, <2>4, StillIs, WalkerTyped DEF StillTyped, r
<1> QED BY <1>5, <1>6 DEF FetchTopic

LEMMA FetchBatchTyped ==
  ASSUME TypeInv, Shape, NEW w \in Walkers, FetchBatch(w)
  PROVE  TypeInv'
<1> DEFINE s == walk[w]
           t == Head(s.entries).topic
           asked == {p \in s.missing : Cardinality({q \in s.missing : q < p}) < BatchSize}
           full == Merged(s.full, asked, t)
<1>1. s.pc = "batch" /\ t \in Topics /\ UNCHANGED <<now, forum, checkpoint>>
  BY DEF FetchBatch, Listed
<1>2. s \in Walks /\ WalkDated(s)
  BY <1>1, BusyWalk, WalkTyped
<1>3. s.entries # <<>> /\ QuietRun(s) < QuietRunStop
  BY <1>1, <1>2 DEF WalkDated
<1>4. asked \subseteq s.missing /\ s.missing \subseteq Posts /\ s.full \in File
  BY <1>2, WalkFieldsTyped
<1>5. full = [s.full EXCEPT !.posts = s.full.posts \cup (asked \cap forum[t].posts)]
  BY Zenon DEF Merged
<1> HIDE DEF asked, full
<1>6. full \in File
  BY <1>4, <1>5 DEF File
<1>7. CASE WriteTopic(w, t, full)
  <2> HIDE DEF t
  <2> QED BY <1>1, <1>3, <1>6, <1>7, WriteTyped
<1>8. CASE Set(w, [s EXCEPT !.full = full, !.missing = s.missing \ asked]) /\ UNCHANGED files
  <2> DEFINE r == [s EXCEPT !.full = full, !.missing = s.missing \ asked]
  <2>1. r \in Walks
    BY <1>2, <1>4, <1>6 DEF Walks
  <2>2. /\ r.pc = "batch" /\ r.began = s.began /\ r.highWater = s.highWater
        /\ r.entries = s.entries /\ r.quietRun = s.quietRun
        /\ r.intent = s.intent /\ r.state = s.state
    BY <1>1, <1>2 DEF Walks
  <2> HIDE DEF r
  <2>3. QuietRun(r) = QuietRun(s)
    BY <2>2 DEF QuietRun, Incremental
  <2>4. WalkDated(r)
    BY <1>1, <1>2, <2>2, <2>3 DEF WalkDated
  <2> QED BY <1>1, <1>8, <2>1, <2>4, StillIs, WalkerTyped DEF StillTyped, r
<1> QED BY <1>7, <1>8 DEF FetchBatch, asked, full

LEMMA StepTyped ==
  ASSUME TypeInv, VouchInv, [Next]_vars
  PROVE  TypeInv'
<1>1. Shape
  BY DEF VouchInv
<1>2. CASE UNCHANGED vars
  <2>1. UNCHANGED <<now, forum, files, checkpoint, walk>>
    BY <1>2, Zenon DEF vars
  <2>2. TypeOK'
    BY <2>1, AllDated DEF TypeOK
  <2>3. Dated'
    BY <2>1, AllDated DEF Dated, Listed
  <2> QED BY <2>1, <2>2, <2>3 DEF TypeInv, WalkDated, QuietRun, Incremental
<1>3. CASE ForumStep
  BY <1>3, ForumTyped
<1>4. ASSUME NEW w \in Walkers, Fail(w) \/ WalkStep(w) \/ \E i \in Intents : BeginSync(w, i)
      PROVE  TypeInv'
  BY <1>1, <1>4, ListPageTyped, EndPageTyped, StopTyped, SkipTyped, FetchTopicTyped,
     FetchBatchTyped, EndTyped, BeginTyped, Zenon DEF WalkStep
<1> QED BY <1>2, <1>3, <1>4, Zenon DEF Next

(* Every value the forum, the mirror, the checkpoint and a walk take has   *)
(* its type.                                                               *)
THEOREM ForumTypeCorrect == Spec => []TypeOK
<1>1. Init => TypeInv /\ VouchInv
  BY InitTyped, InitHolds
<1>2. TypeInv /\ VouchInv /\ [Next]_vars => TypeInv' /\ VouchInv'
  BY StepTyped, Step
<1>3. TypeInv => TypeOK
  BY DEF TypeInv
<1> QED BY <1>1, <1>2, <1>3, PTL DEF Spec

(***************************************************************************)
(* What a walk has covered.                                                *)
(***************************************************************************)

LEMMA InitCovered == Init => CoverInv
<1> SUFFICES ASSUME Init PROVE CoverInv
  OBVIOUS
<1>1. \A w \in Walkers : walk[w] = Idle
  BY DEF Init
<1>2. checkpoint = 0
  BY DEF Init
<1>3. \A t \in Listed : forum[t].bumped \in Nat /\ forum[t].bumped > 0
  BY InitTyped, AllDated DEF Listed
<1>4. WatermarkCovers
  BY <1>2, <1>3 DEF WatermarkCovers
<1> QED BY <1>1, <1>4 DEF CoverInv

(* A topic once seen leaves the listing for good, or never.                *)
LEMMA RemovedStays ==
  ASSUME TypeInv, [Next]_vars, NothingRemoved'
  PROVE  NothingRemoved
<1>1. CASE forum' = forum
  BY <1>1 DEF NothingRemoved, Listed
<1>2. CASE ForumStep
  <2> PICK t \in Topics :
        \/ NewTopic(t) \/ Reply(t) \/ Bump(t) \/ RemoveTopic(t)
        \/ \E p \in Posts : DeletePost(t, p)
    BY <1>2 DEF ForumStep
  <2>1. forum \in [Topics -> TopicType]
    BY AllDated DEF TypeOK, TopicType
  <2>2. t \in Listed \/ forum[t] = Absent
    BY DEF NewTopic, Reply, Bump, RemoveTopic, DeletePost
  <2>3. \A u \in Topics : u # t => forum'[u] = forum[u]
    BY <2>1 DEF NewTopic, Reply, Bump, RemoveTopic, DeletePost, Happens
  <2> QED BY <2>2, <2>3 DEF NothingRemoved, Listed
<1>3. CASE \E w \in Walkers : Fail(w) \/ WalkStep(w) \/ \E i \in Intents : BeginSync(w, i)
  BY <1>1, <1>3, Zenon
     DEF Fail, WalkStep, BeginSync, ListPage, EndPage, StopAtLimit, StopQuiet, Skip,
         FetchTopic, FetchBatch, TopicGone, Finish
<1>4. CASE UNCHANGED vars
  BY <1>1, <1>4, Zenon DEF vars
<1> QED BY <1>2, <1>3, <1>4, Zenon DEF Next

(* A topic that is bumped, or new, bears a later time than any walk or     *)
(* checkpoint knows of; every other one keeps its place or slides down.    *)
LEMMA HappensCovered ==
  ASSUME TypeInv, CoverInv, NothingRemoved, NEW t \in Topics, NEW topic, Happens(t, topic),
         \/ topic.bumped = now + 1
         \/ t \in Listed /\ topic.bumped = forum[t].bumped /\ topic.highest = forum[t].highest
  PROVE  CoverInv'
<1>1. /\ now' = now + 1 /\ now \in Nat
      /\ forum' = [forum EXCEPT ![t] = topic]
      /\ files' = files /\ checkpoint' = checkpoint /\ walk' = walk
  BY AllDated DEF Happens
<1>2. /\ forum'[t] = topic /\ \A u \in Topics : u # t => forum'[u] = forum[u]
  BY <1>1, AllDated DEF TypeOK
<1>3. \A u \in Topics : forum[u].bumped \in Nat /\ forum[u].bumped <= now
  BY AllDated
<1> DEFINE Same(u) == /\ u \in Listed /\ forum'[u].bumped = forum[u].bumped
                      /\ forum'[u].highest = forum[u].highest
<1>4. ASSUME NEW u \in Listed' PROVE forum'[u].bumped = now + 1 \/ Same(u)
  BY <1>2 DEF Listed
<1>5. Listed \subseteq Listed' /\ Listed' \subseteq Topics
  BY <1>1, <1>2, <1>3 DEF Listed
<1>6. \A u \in Topics : forum'[u].bumped \in Nat /\ forum[u].bumped <= forum'[u].bumped
  BY <1>1, <1>2, <1>3
<1>7. ASSUME NEW u, Same(u)
      PROVE  /\ Position(u) \in Nat /\ Position(u)' \in Nat
             /\ Position(u) <= Position(u)'
  <2> DEFINE A == {v \in Listed : Before(v, u)}
             B == {v \in Listed' : Before(v, u)'}
  <2>1. A \subseteq B
    BY <1>3, <1>5, <1>6, <1>7 DEF Before
  <2>2. IsFiniteSet(B)
    BY <1>5, Bounds, FS_Subset
  <2>3. Cardinality(A) \in Nat /\ Cardinality(B) \in Nat /\ Cardinality(A) <= Cardinality(B)
    <3> HIDE DEF A, B
    <3> QED BY <2>1, <2>2, FS_Subset, FS_CardinalityType
  <2> QED BY <2>3 DEF Position
<1>8. WatermarkCovers'
  <2> SUFFICES ASSUME NEW u \in Listed' \ Pinned, forum'[u].bumped <= checkpoint
               PROVE  u \in Topics /\ files[u].highest > 0 /\ files[u].highest = forum'[u].highest
    BY <1>1, Zenon DEF WatermarkCovers, Current, OnDisk
  <2>1. Same(u)
    BY <1>1, <1>4, AllDated
  <2>2. Current(u)
    BY <2>1 DEF CoverInv, WatermarkCovers
  <2> QED BY <2>1, <2>2 DEF Current, OnDisk
<1>9. ASSUME NEW w \in Walkers, walk[w] # Idle PROVE WalkCovers(walk[w])'
  <2> DEFINE s == walk[w]
  <2>1. s \in Walks /\ WalkDated(s) /\ WalkCovers(s)
    BY <1>9, WalkTyped DEF CoverInv
  <2>2. /\ s.began # now' /\ s.highWater \in Nat /\ s.highWater <= now
        /\ \A i \in DOMAIN s.entries : s.entries[i].key \in Nat /\ s.entries[i].key <= now
    BY <1>1, <2>1, WalkFieldsTyped DEF WalkDated
  <2>3. walk'[w] = s
    BY <1>1
  <2> HIDE DEF s
  <2>4. ASSUME NEW u \in Listed', Due(walk[w], u)' PROVE Same(u) /\ Due(s, u)
    <3>1. u \notin Pinned /\ Reach(s, forum'[u].bumped)
      BY <2>2, <2>3, <2>4 DEF Due, Reach
    <3>2. forum'[u].bumped # now + 1
      BY <1>1, <2>2, <3>1 DEF Reach
    <3>3. Same(u)
      BY <1>4, <3>2
    <3> QED BY <3>1, <3>3 DEF Due
  <2>5. ASSUME NEW u, Same(u)
        PROVE  /\ Current(u) => Current(u)'
               /\ InHand(s, u) => InHand(walk[w], u)'
               /\ s \in Walks /\ Below(s, u) => Below(walk[w], u)'
    <3>1. Current(u) => Current(u)'
      BY <1>1, <2>5 DEF Current, OnDisk
    <3>2. InHand(s, u) => InHand(walk[w], u)'
      BY <2>3, <2>5 DEF InHand
    <3>3. ASSUME s \in Walks, Below(s, u) PROVE Below(walk[w], u)'
      <4>1. s.page \in Nat
        BY <3>3, WalkFieldsTyped
      <4>2. s.page * PageSize \in Nat /\ (s.page + 1) * PageSize \in Nat
        <5>1. \A n \in Nat : n * PageSize \in Nat
          BY PageSizes
        <5> QED BY <4>1, <5>1
      <4>3. IF s.pc = "list" THEN Position(u)' >= s.page * PageSize
            ELSE s.more /\ Position(u)' >= (s.page + 1) * PageSize
        <5> DEFINE a == s.page * PageSize
                   b == (s.page + 1) * PageSize
        <5>1. IF s.pc = "list" THEN Position(u) >= a ELSE s.more /\ Position(u) >= b
          BY <3>3 DEF Below
        <5>2. a \in Nat /\ b \in Nat
          BY <4>2
        <5>3. Position(u) \in Nat /\ Position(u)' \in Nat /\ Position(u) <= Position(u)'
          BY <1>7, <2>5
        <5> HIDE DEF a, b
        <5>4. /\ Position(u) >= a => Position(u)' >= a
              /\ Position(u) >= b => Position(u)' >= b
          BY <5>2, <5>3
        <5> QED BY <5>1, <5>4 DEF a, b
      <4> QED BY <2>3, <2>5, <3>3, <4>3 DEF Below
    <3> QED BY <3>1, <3>2, <3>3
  <2>6. s.pc # "done" =>
          /\ \A u \in Listed' : Due(walk[w], u)'
               => Current(u)' \/ InHand(walk[w], u)' \/ Below(walk[w], u)'
          /\ Ordered(walk[w])' /\ FetchCurrent(walk[w])'
    <3> SUFFICES ASSUME s.pc # "done" PROVE <2>6!2
      OBVIOUS
    <3>1. ASSUME NEW u \in Listed', Due(walk[w], u)'
          PROVE  Current(u)' \/ InHand(walk[w], u)' \/ Below(walk[w], u)'
      <4>1. Same(u) /\ Due(s, u)
        BY <2>4, <3>1
      <4>2. Current(u) \/ InHand(s, u) \/ Below(s, u)
        BY <2>1, <4>1 DEF WalkCovers
      <4> QED BY <2>1, <2>5, <4>1, <4>2
    <3>2. Ordered(walk[w])'
      BY <2>1, <2>3 DEF WalkCovers, Ordered
    <3>3. FetchCurrent(walk[w])'
      <4> PICK u : u = Head(s.entries).topic
        OBVIOUS
      <4> SUFFICES ASSUME s.pc = "batch", u \in Listed',
                          Due(walk[w], u)' \/ (u \notin Pinned /\ forum'[u].bumped <= checkpoint)
                   PROVE  s.full.highest = forum'[u].highest
        BY <1>1, <2>3, Zenon DEF FetchCurrent
      <4>1. Same(u)
        BY <1>1, <1>4, <2>4, AllDated
      <4>2. Due(s, u) \/ (u \notin Pinned /\ forum[u].bumped <= checkpoint)
        BY <2>4, <4>1
      <4>3. FetchCurrent(s)
        BY <2>1 DEF WalkCovers
      <4> QED BY <4>1, <4>2, <4>3 DEF FetchCurrent
    <3> QED BY <3>1, <3>2, <3>3
  <2>7. s.pc = "done" /\ s.complete =>
          \A u \in Listed' \ Pinned : forum'[u].bumped <= s.highWater => Current(u)'
    <3> SUFFICES ASSUME s.pc = "done", s.complete, NEW u \in Listed' \ Pinned,
                        forum'[u].bumped <= s.highWater
                 PROVE  Current(u)'
      OBVIOUS
    <3>1. Same(u)
      BY <1>1, <1>4, <2>2
    <3>2. Current(u)
      BY <2>1, <3>1 DEF WalkCovers
    <3> QED BY <2>5, <3>1, <3>2
  <2> QED BY <2>3, <2>6, <2>7, Zenon DEF WalkCovers
<1>10. \A w \in Walkers : walk'[w] # Idle => Underway(walk[w])'
  BY <1>1 DEF CoverInv, Underway
<1> QED BY <1>1, <1>8, <1>9, <1>10 DEF CoverInv

LEMMA ForumCovered ==
  ASSUME TypeInv, CoverInv, ForumStep
  PROVE  CoverInv'
<1>1. CASE ~ NothingRemoved'
  <2>1. checkpoint' = checkpoint /\ walk' = walk
    BY DEF ForumStep, NewTopic, Reply, Bump, RemoveTopic, DeletePost, Happens
  <2> QED BY <1>1, <2>1 DEF CoverInv, Underway
<1>2. CASE NothingRemoved'
  <2>1. NothingRemoved
    BY <1>2, RemovedStays DEF Next
  <2> PICK t \in Topics :
        \/ NewTopic(t) \/ Reply(t) \/ Bump(t) \/ RemoveTopic(t)
        \/ \E p \in Posts : DeletePost(t, p)
    BY DEF ForumStep
  <2> DEFINE f == forum[t]
  <2>2. f \in TopicType /\ forum \in [Topics -> TopicType]
    BY TopicTyped, AllDated DEF TypeOK, TopicType
  <2>3. CASE NewTopic(t)
    BY <2>1, <2>3, HappensCovered DEF NewTopic
  <2>4. CASE Reply(t)
    BY <2>1, <2>4, HappensCovered DEF Reply
  <2>5. CASE Bump(t)
    <3> DEFINE r == [f EXCEPT !.bumped = now + 1]
    <3>1. Happens(t, r) /\ r.bumped = now + 1
      BY <2>2, <2>5 DEF Bump, TopicType
    <3> HIDE DEF r
    <3> QED BY <2>1, <3>1, HappensCovered
  <2>6. CASE RemoveTopic(t)
    <3>1. f.highest > 0 /\ t \in Topics
      BY <2>6, AllDated DEF RemoveTopic, Dated
    <3>2. forum'[t].highest = f.highest /\ forum'[t].bumped = 0
      BY <2>2, <2>6 DEF RemoveTopic, Happens, TopicType
    <3> QED BY <1>2, <3>1, <3>2 DEF NothingRemoved, Listed, Absent
  <2>7. ASSUME NEW p \in Posts, DeletePost(t, p) PROVE CoverInv'
    <3> DEFINE r == [f EXCEPT !.posts = f.posts \ {p}]
    <3>1. /\ Happens(t, r) /\ t \in Listed
          /\ r.bumped = f.bumped /\ r.highest = f.highest
      BY <2>2, <2>7 DEF DeletePost, TopicType
    <3> HIDE DEF r
    <3> QED BY <2>1, <3>1, HappensCovered
  <2> QED BY <2>3, <2>4, <2>5, <2>6, <2>7
<1> QED BY <1>1, <1>2

(* A step of the only walk.  What was current, and counts, must stay so;   *)
(* what the walk answers for next is said of its record after the step.    *)
LEMMA MoveCovered ==
  ASSUME TypeInv, Shape, CoverInv, OneWalk, NEW w \in Walkers, NEW r,
         walk[w] # Idle, Set(w, r), UNCHANGED <<now, forum, checkpoint>>,
         Underway(r),
         NothingRemoved =>
           /\ r.pc # "done" =>
                /\ \A t \in Listed : Due(r, t) => Current(t)' \/ InHand(r, t) \/ Below(r, t)
                /\ Ordered(r) /\ FetchCurrent(r)
           /\ r.pc = "done" /\ r.complete =>
                \A t \in Listed \ Pinned : forum[t].bumped <= r.highWater => Current(t)'
           /\ \A t \in Listed \ Pinned :
                forum[t].bumped <= checkpoint /\ Current(t) => Current(t)'
  PROVE  CoverInv'
<1>1. /\ now' = now /\ forum' = forum /\ checkpoint' = checkpoint
      /\ Listed' = Listed /\ (NothingRemoved' <=> NothingRemoved)
  BY DEF Listed, NothingRemoved
<1>2. walk'[w] = r /\ \A v \in Walkers : v # w => walk'[v] = walk[v]
  BY DEF Set, Shape
<1>3. \A v \in Walkers : walk'[v] # Idle => v = w
  BY <1>2 DEF OneWalk
<1>4. Underway(walk[w])'
  BY <1>1, <1>2 DEF Underway
<1>5. ASSUME NothingRemoved PROVE WatermarkCovers'
  BY <1>1, <1>5 DEF CoverInv, WatermarkCovers
<1>6. ASSUME NothingRemoved PROVE WalkCovers(walk[w])'
  <2>1. ASSUME NEW t \in Listed
        PROVE  /\ Due(walk[w], t)' <=> Due(r, t)
               /\ InHand(walk[w], t)' <=> InHand(r, t)
               /\ Below(walk[w], t)' <=> Below(r, t)
    <3>1. Position(t)' = Position(t)
      BY <1>1 DEF Position, Before
    <3> QED BY <1>1, <1>2, <3>1 DEF Due, Reach, InHand, Below
  <2>2. Ordered(walk[w])' <=> Ordered(r)
    BY <1>2 DEF Ordered
  <2>3. FetchCurrent(walk[w])' <=> FetchCurrent(r)
    <3> PICK u : u = Head(r.entries).topic
      OBVIOUS
    <3>1. FetchCurrent(walk[w])' <=>
            (r.pc = "batch" /\ u \in Listed'
             /\ (Due(walk[w], u)' \/ (u \notin Pinned /\ forum'[u].bumped <= checkpoint'))
               => r.full.highest = forum'[u].highest)
      BY <1>2 DEF FetchCurrent
    <3>2. FetchCurrent(r) <=>
            (r.pc = "batch" /\ u \in Listed
             /\ (Due(r, u) \/ (u \notin Pinned /\ forum[u].bumped <= checkpoint))
               => r.full.highest = forum[u].highest)
      BY DEF FetchCurrent
    <3> QED BY <1>1, <2>1, <3>1, <3>2
  <2> QED BY <1>1, <1>2, <1>6, <2>1, <2>2, <2>3 DEF WalkCovers
<1> QED BY <1>1, <1>3, <1>4, <1>5, <1>6 DEF CoverInv

(* In the listing, what stands below a topic that is not pinned is not     *)
(* pinned either, and older.                                               *)
LEMMA LowerIsOlder ==
  ASSUME Sorted, NEW t \in Listed, NEW u \in Listed, Position(t) < Position(u), t \notin Pinned
  PROVE  u \notin Pinned /\ forum[u].bumped < forum[t].bumped
<1>1. Before(t, u)
  BY PositionOrders
<1>2. forum[t].bumped \in Nat /\ forum[u].bumped \in Nat
  BY DEF Sorted, Listed
<1> QED BY <1>1, <1>2 DEF Before

(* The walk under way that a step is about.                                *)
LEMMA AtWork ==
  ASSUME TypeInv, CoverInv, NEW w \in Walkers, walk[w] # Idle
  PROVE  /\ walk[w] \in Walks /\ WalkDated(walk[w]) /\ Underway(walk[w])
         /\ NothingRemoved => WatermarkCovers /\ WalkCovers(walk[w])
BY WalkTyped DEF CoverInv

(* A walk that ends on its own terms has all it answers for on disk: there *)
(* is nothing on the page and none below, or the page goes on with a topic *)
(* that the checkpoint covers, and everything after it is older still.     *)
LEMMA EmptyPageEnds ==
  ASSUME TypeInv, CoverInv, NothingRemoved, NEW w \in Walkers, walk[w].pc = "list",
         PageEntries(walk[w].page) = <<>>, NEW t \in Listed, Due(walk[w], t)
  PROVE  Current(t)
<1> DEFINE s == walk[w]
<1>1. s \in Walks /\ WalkDated(s) /\ WalkCovers(s)
  BY AtWork, BusyWalk
<1>2. s.page \in Nat /\ s.entries = <<>>
  BY <1>1, WalkFieldsTyped DEF WalkDated
<1>3. Position(t) < s.page * PageSize
  BY <1>2, PageOfListing, ListingSorted DEF IsPage
<1>4. Current(t) \/ InHand(s, t) \/ Below(s, t)
  BY <1>1 DEF WalkCovers
<1>5. ~ InHand(s, t)
  BY <1>2 DEF InHand
<1>6. ~ Below(s, t)
  <2>1. Position(t) \in Nat
    BY PositionType, ListingSorted
  <2>2. \A n \in Nat : n * PageSize \in Nat
    BY PageSizes
  <2> DEFINE first == s.page * PageSize
  <2>3. first \in Nat /\ Position(t) < first
    BY <1>2, <1>3, <2>2
  <2> HIDE DEF first
  <2>4. ~ (Position(t) >= first)
    BY <2>1, <2>3
  <2> QED BY <2>4 DEF Below, first
<1> QED BY <1>4, <1>5, <1>6

LEMMA LastPageEnds ==
  ASSUME TypeInv, CoverInv, NothingRemoved, NEW w \in Walkers, walk[w].pc = "entries",
         walk[w].entries = <<>>, ~ walk[w].more, NEW t \in Listed, Due(walk[w], t)
  PROVE  Current(t)
<1>1. WalkCovers(walk[w])
  BY AtWork, BusyWalk
<1> QED BY <1>1 DEF WalkCovers, InHand, Below

LEMMA OldNewsEnds ==
  ASSUME TypeInv, CoverInv, NothingRemoved, NEW w \in Walkers, AtEntry(w),
         QuietRun(walk[w]) >= QuietRunStop, NEW t \in Listed, Due(walk[w], t)
  PROVE  Current(t)
<1> DEFINE s == walk[w]
<1>1. /\ s \in Walks /\ WalkDated(s) /\ Underway(s) /\ WatermarkCovers /\ WalkCovers(s)
      /\ s.pc = "entries" /\ s.entries # <<>>
  BY AtWork, BusyWalk DEF AtEntry
<1>2. /\ 1 \in DOMAIN s.entries /\ Head(s.entries) = s.entries[1]
      /\ \A i \in DOMAIN s.entries : i \in Nat /\ i >= 1 /\ s.entries[i].key \in Nat
  <2>1. s.entries \in Seq(Entries)
    BY <1>1, WalkFieldsTyped
  <2>2. DOMAIN s.entries = 1 .. Len(s.entries)
    BY <2>1, LenProperties
  <2> QED BY <1>1, <2>2, AtHead, WalkFieldsTyped
<1>3. s.entries[1].topic \notin Pinned /\ s.entries[1].key <= checkpoint
  <2>1. s.quietRun < QuietRunStop /\ s.quietRun \in Nat /\ QuietRunStop \in Nat \ {0}
    BY <1>1, WalkFieldsTyped, Bounds DEF WalkDated
  <2>2. QuietRun(s) # s.quietRun /\ QuietRun(s) # 0
    BY <2>1
  <2> QED BY <1>1, <1>2, <2>2 DEF QuietRun, Underway
<1>4. checkpoint \in Nat /\ forum[t].bumped \in Nat
  BY AllDated DEF Listed
<1> HIDE DEF s
<1>5. ASSUME t \notin Pinned, forum[t].bumped <= checkpoint PROVE Current(t)
  BY <1>1, <1>5 DEF WatermarkCovers
<1>6. CASE InHand(s, t)
  <2> PICK i \in DOMAIN s.entries : s.entries[i].topic = t /\ s.entries[i].key = forum[t].bumped
    BY <1>6 DEF InHand
  <2>1. CASE i = 1
    BY <1>3, <1>5, <2>1
  <2>2. CASE i # 1
    <3>1. 1 < i /\ Ordered(s)
      BY <1>1, <1>2, <2>2 DEF WalkCovers
    <3>2. t \notin Pinned /\ s.entries[i].key < s.entries[1].key
      BY <1>2, <1>3, <3>1 DEF Ordered
    <3> QED BY <1>2, <1>3, <1>4, <1>5, <3>2
  <2> QED BY <2>1, <2>2
<1>7. CASE Below(s, t)
  <2>1. t \notin Pinned /\ forum[t].bumped < s.entries[1].key
    BY <1>2, <1>3, <1>7 DEF Below
  <2> QED BY <1>2, <1>3, <1>4, <1>5, <2>1
<1> QED BY <1>1, <1>6, <1>7 DEF WalkCovers, s

(* A page at hand: of what the walk answers for, the topics below the page *)
(* are older than all of it, and those above it were dealt with.           *)
LEMMA PageCovered ==
  ASSUME TypeInv, CoverInv, NothingRemoved, NEW w \in Walkers, walk[w].pc = "list",
         NEW r, r.pc = "entries", r.entries = PageEntries(walk[w].page),
         r.more = HasMore(walk[w].page), r.page = walk[w].page,
         r.highWater = walk[w].highWater, r.began = walk[w].began
  PROVE  /\ \A t \in Listed : Due(r, t) => Current(t) \/ InHand(r, t) \/ Below(r, t)
         /\ Ordered(r)
<1> DEFINE s == walk[w]
           e == PageEntries(s.page)
           first == s.page * PageSize
           end == (s.page + 1) * PageSize
<1>1. s \in Walks /\ WalkDated(s) /\ WalkCovers(s)
  BY AtWork, BusyWalk
<1>2. s.page \in Nat /\ s.entries = <<>>
  BY <1>1, WalkFieldsTyped DEF WalkDated
<1>3. IsPage(e, s.page) /\ Sorted
  BY <1>2, PageOfListing, ListingSorted
<1>4. first \in Nat /\ end \in Nat
  <2>1. \A n \in Nat : n * PageSize \in Nat
    BY PageSizes
  <2>2. s.page + 1 \in Nat
    BY <1>2
  <2> QED BY <1>2, <2>1, <2>2
<1>5. \A t \in Listed : Position(t) \in Nat /\ forum[t].bumped \in Nat
  <2>1. \A t \in Listed : forum[t].bumped \in Nat
    BY <1>3 DEF Sorted, Listed
  <2>2. \A t \in Listed : Position(t) \in Nat
    BY <1>3, PositionType
  <2> QED BY <2>1, <2>2
<1>6. \A i \in DOMAIN e : \E t \in Listed :
        /\ e[i] = Entry(t) /\ Position(t) = first + i - 1
        /\ first <= Position(t) /\ Position(t) < end
  BY <1>3 DEF IsPage
<1>7. e \in Seq({Entry(t) : t \in Listed})
  BY <1>3 DEF IsPage
<1>8. \A i \in DOMAIN e : i \in Nat
  BY <1>7, LenProperties
<1>9. ASSUME NEW t \in Listed, Due(r, t)
      PROVE  Current(t) \/ InHand(r, t) \/ Below(r, t)
  <2>1. CASE first <= Position(t) /\ Position(t) < end
    <3> PICK i \in DOMAIN e : e[i] = Entry(t)
      BY <1>3, <2>1 DEF IsPage
    <3>1. /\ e[i].topic = t /\ e[i].key = forum[t].bumped
          /\ e[i].highest = forum[t].highest
      BY DEF Entry
    <3> HIDE DEF e
    <3> QED BY <3>1 DEF InHand, e
  <2>2. CASE Position(t) >= end
    <3>1. HasMore(s.page)
      BY <1>3, <2>2 DEF IsPage
    <3>2. ASSUME NEW i \in DOMAIN e, e[i].topic \notin Pinned
          PROVE  t \notin Pinned /\ forum[t].bumped < e[i].key
      <4> PICK u \in Listed : e[i] = Entry(u) /\ Position(u) < end
        BY <1>6
      <4>1. e[i].topic = u /\ e[i].key = forum[u].bumped
        BY DEF Entry
      <4>2. Position(u) < Position(t)
        BY <1>4, <1>5, <2>2
      <4> QED BY <1>3, <3>2, <4>1, <4>2, LowerIsOlder
    <3> QED BY <2>2, <3>1, <3>2 DEF Below
  <2>3. CASE Position(t) < first
    <3>1. Due(s, t)
      <4> SUFFICES ASSUME t \notin Pinned, NEW i \in DOMAIN e, forum[t].bumped <= e[i].key
                   PROVE  FALSE
        BY <1>9 DEF Due, Reach
      <4> PICK u \in Listed : e[i] = Entry(u) /\ first <= Position(u)
        BY <1>6
      <4>1. Position(t) < Position(u) /\ e[i].key = forum[u].bumped
        BY <1>4, <1>5, <2>3 DEF Entry
      <4>2. forum[u].bumped < forum[t].bumped
        BY <1>3, <4>1, LowerIsOlder
      <4> QED BY <1>5, <4>1, <4>2
    <3>2. ~ InHand(s, t)
      BY <1>2 DEF InHand
    <3>3. ~ Below(s, t)
      <4>1. ~ (Position(t) >= first)
        BY <1>4, <1>5, <2>3
      <4> QED BY <4>1 DEF Below
    <3> QED BY <1>1, <3>1, <3>2, <3>3 DEF WalkCovers
  <2> QED BY <1>4, <1>5, <2>1, <2>2, <2>3
<1>10. ASSUME NEW i \in DOMAIN e, NEW j \in DOMAIN e, i < j, e[i].topic \notin Pinned
       PROVE  e[j].topic \notin Pinned /\ e[j].key < e[i].key
  <2> PICK t \in Listed : e[i] = Entry(t) /\ Position(t) = first + i - 1
    BY <1>6
  <2> PICK u \in Listed : e[j] = Entry(u) /\ Position(u) = first + j - 1
    BY <1>6
  <2>1. Position(t) < Position(u)
    BY <1>4, <1>8, <1>10
  <2>2. /\ e[i].topic = t /\ e[i].key = forum[t].bumped
        /\ e[j].topic = u /\ e[j].key = forum[u].bumped
    BY DEF Entry
  <2> QED BY <1>3, <1>10, <2>1, <2>2, LowerIsOlder
<1> QED BY <1>9, <1>10 DEF Ordered

(* A walk that ends: what it has gone past, it answered for.               *)
LEMMA EndCovered ==
  ASSUME TypeInv, Shape, CoverInv, OneWalk, NEW w \in Walkers, NEW r,
         walk[w].pc \in {"list", "entries"},
         Set(w, r), UNCHANGED <<now, forum, files, checkpoint>>,
         r.pc = "done", r.state = walk[w].state,
         NothingRemoved /\ r.complete =>
           /\ \A t \in Listed : Due(walk[w], t) => Current(t)
           /\ \A k \in Nat : k <= r.highWater => Reach(walk[w], k)
  PROVE  CoverInv'
<1>1. walk[w] # Idle /\ Underway(walk[w])
  BY AtWork, BusyWalk
<1>2. Underway(r)
  BY <1>1 DEF Underway
<1>3. \A t : Current(t)' <=> Current(t)
  BY DEF Current, OnDisk
<1>4. ASSUME NothingRemoved, r.complete, NEW t \in Listed \ Pinned, forum[t].bumped <= r.highWater
      PROVE  Current(t)'
  <2>1. forum[t].bumped \in Nat
    BY AllDated DEF Listed
  <2> QED BY <1>3, <1>4, <2>1 DEF Due
<1> QED BY <1>1, <1>2, <1>3, <1>4, MoveCovered

LEMMA ListPageCovered ==
  ASSUME TypeInv, Shape, CoverInv, OneWalk, NEW w \in Walkers, ListPage(w)
  PROVE  CoverInv'
<1> DEFINE s == walk[w]
           entries == PageEntries(s.page)
           last == [s EXCEPT !.pc = "done", !.complete = TRUE]
           next == [s EXCEPT !.pc = "entries", !.entries = entries,
                             !.more = HasMore(s.page)]
<1>1. /\ s.pc = "list" /\ s # Idle /\ UNCHANGED <<now, forum, files, checkpoint>>
      /\ (entries = <<>> /\ Set(w, last)) \/ Set(w, next)
  BY BusyWalk DEF ListPage
<1>2. s \in Walks /\ Underway(s)
  BY <1>1, AtWork
<1>3. CASE entries = <<>> /\ Set(w, last)
  <2>1. last.pc = "done" /\ last.state = s.state /\ last.highWater = s.highWater
    BY <1>2 DEF Walks
  <2>2. NothingRemoved => \A t \in Listed : Due(s, t) => Current(t)
    BY <1>1, <1>3, EmptyPageEnds
  <2> HIDE DEF last
  <2> QED BY <1>1, <1>3, <2>1, <2>2, EndCovered DEF Reach
<1>4. CASE Set(w, next)
  <2>1. /\ next.pc = "entries" /\ next.entries = entries /\ next.more = HasMore(s.page)
        /\ next.page = s.page /\ next.highWater = s.highWater /\ next.began = s.began
        /\ next.state = s.state /\ next.complete = s.complete
    BY <1>2 DEF Walks
  <2> HIDE DEF next
  <2>2. Underway(next)
    BY <1>1, <1>2, <2>1 DEF Underway
  <2>3. NothingRemoved =>
          /\ \A t \in Listed : Due(next, t) => Current(t) \/ InHand(next, t) \/ Below(next, t)
          /\ Ordered(next)
    BY <1>1, <2>1, PageCovered
  <2>4. \A t : Current(t)' <=> Current(t)
    BY <1>1 DEF Current, OnDisk
  <2>5. FetchCurrent(next)
    BY <2>1 DEF FetchCurrent
  <2> QED BY <1>1, <1>4, <2>1, <2>2, <2>3, <2>4, <2>5, MoveCovered
<1> QED BY <1>1, <1>3, <1>4

LEMMA EndPageCovered ==
  ASSUME TypeInv, Shape, CoverInv, OneWalk, NEW w \in Walkers, EndPage(w)
  PROVE  CoverInv'
<1> DEFINE s == walk[w]
           last == [s EXCEPT !.pc = "done", !.complete = TRUE]
           next == [s EXCEPT !.pc = "list", !.page = s.page + 1]
<1>1. /\ s.pc = "entries" /\ s.entries = <<>> /\ s # Idle
      /\ UNCHANGED <<now, forum, files, checkpoint>>
      /\ (s.more /\ Set(w, next)) \/ (~ s.more /\ Set(w, last))
  BY BusyWalk DEF EndPage
<1>2. s \in Walks /\ Underway(s) /\ (NothingRemoved => WalkCovers(s))
  BY <1>1, AtWork
<1>3. CASE ~ s.more /\ Set(w, last)
  <2>1. last.pc = "done" /\ last.state = s.state /\ last.highWater = s.highWater
    BY <1>2 DEF Walks
  <2>2. NothingRemoved => \A t \in Listed : Due(s, t) => Current(t)
    BY <1>1, <1>3, LastPageEnds
  <2> HIDE DEF last
  <2> QED BY <1>1, <1>3, <2>1, <2>2, EndCovered DEF Reach
<1>4. CASE s.more /\ Set(w, next)
  <2>1. /\ next.pc = "list" /\ next.entries = <<>> /\ next.page = s.page + 1
        /\ next.highWater = s.highWater /\ next.began = s.began
        /\ next.state = s.state /\ next.complete = s.complete
    BY <1>1, <1>2 DEF Walks
  <2> HIDE DEF next
  <2>2. Underway(next)
    BY <1>1, <1>2, <2>1 DEF Underway
  <2>3. ASSUME NEW t \in Listed
        PROVE  /\ Due(next, t) => Due(s, t)
               /\ ~ InHand(s, t)
               /\ Below(s, t) => Below(next, t)
    BY <1>1, <2>1 DEF Due, Reach, InHand, Below
  <2>4. NothingRemoved =>
          \A t \in Listed : Due(next, t) => Current(t) \/ InHand(next, t) \/ Below(next, t)
    BY <1>1, <1>2, <2>3 DEF WalkCovers
  <2>5. Ordered(next) /\ FetchCurrent(next)
    BY <2>1 DEF Ordered, FetchCurrent
  <2>6. \A t : Current(t)' <=> Current(t)
    BY <1>1 DEF Current, OnDisk
  <2> QED BY <1>1, <1>4, <2>1, <2>2, <2>4, <2>5, <2>6, MoveCovered
<1> QED BY <1>1, <1>3, <1>4

LEMMA StopCovered ==
  ASSUME TypeInv, Shape, CoverInv, OneWalk, NEW w \in Walkers,
         StopAtLimit(w) \/ StopQuiet(w)
  PROVE  CoverInv'
<1> DEFINE s == walk[w]
           h == HighWater(s)
           q == QuietRun(s)
           cut == [s EXCEPT !.pc = "done"]
           quiet == [s EXCEPT !.pc = "done", !.highWater = h,
                              !.quietRun = q, !.complete = TRUE]
<1>1. /\ AtEntry(w) /\ s.pc = "entries" /\ s.entries # <<>> /\ s # Idle
      /\ UNCHANGED <<now, forum, files, checkpoint>>
      /\ Set(w, cut) \/ (q >= QuietRunStop /\ Set(w, quiet))
  BY BusyWalk DEF StopAtLimit, StopQuiet, AtEntry
<1>2. s \in Walks /\ WalkDated(s) /\ Underway(s)
  BY <1>1, AtWork
<1>3. CASE Set(w, cut)
  <2>1. cut.pc = "done" /\ cut.state = s.state /\ cut.complete = s.complete
    BY <1>2 DEF Walks
  <2>2. ~ cut.complete
    BY <1>1, <1>2, <2>1 DEF Underway
  <2> HIDE DEF cut
  <2> QED BY <1>1, <1>3, <2>1, <2>2, EndCovered
<1>4. CASE q >= QuietRunStop /\ Set(w, quiet)
  <2>1. quiet.pc = "done" /\ quiet.state = s.state /\ quiet.highWater = h
    BY <1>2 DEF Walks
  <2>2. NothingRemoved => \A t \in Listed : Due(s, t) => Current(t)
    BY <1>1, <1>4, OldNewsEnds
  <2>3. h \in {s.highWater, s.entries[1].key} /\ 1 \in DOMAIN s.entries
    BY <1>1, <1>2, AllDated, AtHead, Bookkeeping DEF WalkDated
  <2> HIDE DEF quiet, h
  <2>4. \A k \in Nat : k <= h => Reach(s, k)
    BY <2>3 DEF Reach
  <2> QED BY <1>1, <1>4, <2>1, <2>2, <2>4, EndCovered
<1> QED BY <1>1, <1>3, <1>4

(* The walk goes past the topic at hand, with its file as it stands or     *)
(* replaced: what else was ahead of it still is.                           *)
LEMMA PastCovered ==
  ASSUME TypeInv, Shape, CoverInv, OneWalk, NEW w \in Walkers, NEW h,
         walk[w].pc \in {"entries", "batch"}, walk[w].entries # <<>>,
         QuietRun(walk[w]) < QuietRunStop,
         Set(w, Past(walk[w])), UNCHANGED <<now, forum, checkpoint>>,
         h = Head(walk[w].entries),
         \A t \in Listed : t # h.topic => (Current(t) => Current(t)'),
         NothingRemoved =>
           \A t \in Listed : t = h.topic =>
             /\ Current(t) /\ (Due(walk[w], t)
                  \/ (t \notin Pinned /\ forum[t].bumped <= checkpoint)) => Current(t)'
             /\ Due(walk[w], t) /\ h.key = forum[t].bumped
                  /\ h.highest = forum[t].highest => Current(t)'
  PROVE  CoverInv'
<1> DEFINE s == walk[w]
           r == Past(s)
<1>1. /\ s # Idle /\ s \in Walks /\ WalkDated(s) /\ Underway(s)
      /\ NothingRemoved => WatermarkCovers /\ WalkCovers(s)
  BY AtWork, BusyWalk
<1>2. /\ r.pc = "entries" /\ r.entries = Tail(s.entries) /\ r.highWater = HighWater(s)
      /\ r.state = s.state /\ r.began = s.began /\ r.more = s.more /\ r.page = s.page
      /\ r.complete = s.complete
  BY <1>1, AllDated, PastTyped DEF WalkDated
<1>3. HighWater(s) \in {s.highWater, s.entries[1].key}
  BY <1>1, AllDated, Bookkeeping DEF WalkDated
<1>4. /\ 1 \in DOMAIN s.entries /\ h = s.entries[1]
      /\ \A i \in DOMAIN r.entries :
           i + 1 \in DOMAIN s.entries /\ r.entries[i] = s.entries[i + 1]
      /\ \A i \in DOMAIN s.entries :
           i = 1 \/ (i - 1 \in DOMAIN r.entries /\ r.entries[i - 1] = s.entries[i])
  BY <1>1, <1>2, AtHead
<1>5. \A i \in DOMAIN r.entries : i \in Nat
  <2>1. r.entries \in Seq(Entries)
    BY <1>1, <1>2, AtHead
  <2> QED BY <2>1, LenProperties
<1> HIDE DEF r
<1>6. Underway(r)
  BY <1>1, <1>2 DEF Underway
<1>7. ASSUME NEW t, Due(r, t) PROVE Due(s, t)
  <2>1. \A k : Reach(r, k) => Reach(s, k)
    <3> SUFFICES ASSUME NEW k, Reach(r, k) PROVE Reach(s, k)
      OBVIOUS
    <3>1. CASE k <= r.highWater
      BY <1>2, <1>3, <1>4, <3>1 DEF Reach
    <3>2. CASE \E i \in DOMAIN r.entries : k <= r.entries[i].key
      BY <1>4, <3>2 DEF Reach
    <3> QED BY <3>1, <3>2 DEF Reach
  <2> QED BY <1>2, <1>7, <2>1 DEF Due
<1>8. ASSUME NothingRemoved, NEW t \in Listed, Due(r, t)
      PROVE  Current(t)' \/ InHand(r, t) \/ Below(r, t)
  <2>1. Due(s, t)
    BY <1>7, <1>8
  <2>2. Current(t) \/ InHand(s, t) \/ Below(s, t)
    BY <1>1, <1>8, <2>1 DEF WalkCovers
  <2>3. CASE Current(t)
    BY <1>8, <2>1, <2>3
  <2>4. CASE InHand(s, t)
    <3> PICK i \in DOMAIN s.entries :
          /\ s.entries[i].topic = t /\ s.entries[i].key = forum[t].bumped
          /\ s.entries[i].highest = forum[t].highest
      BY <2>4 DEF InHand
    <3>1. CASE i = 1
      BY <1>4, <1>8, <2>1, <3>1
    <3>2. CASE i # 1
      BY <1>4, <3>2 DEF InHand
    <3> QED BY <3>1, <3>2
  <2>5. CASE Below(s, t)
    <3>1. IF r.pc = "list" THEN Position(t) >= r.page * PageSize
          ELSE r.more /\ Position(t) >= (r.page + 1) * PageSize
      BY <1>2, <2>5 DEF Below
    <3>2. ASSUME NEW i \in DOMAIN r.entries, r.entries[i].topic \notin Pinned
          PROVE  t \notin Pinned /\ forum[t].bumped < r.entries[i].key
      BY <1>4, <2>5, <3>2 DEF Below
    <3> QED BY <3>1, <3>2 DEF Below
  <2> QED BY <2>2, <2>3, <2>4, <2>5
<1>9. ASSUME NothingRemoved PROVE Ordered(r)
  <2> SUFFICES ASSUME NEW i \in DOMAIN r.entries, NEW j \in DOMAIN r.entries,
                      i < j, r.entries[i].topic \notin Pinned
               PROVE  r.entries[j].topic \notin Pinned
                      /\ r.entries[j].key < r.entries[i].key
    BY DEF Ordered
  <2>1. i + 1 < j + 1
    BY <1>5
  <2>2. Ordered(s)
    BY <1>1, <1>9 DEF WalkCovers
  <2> QED BY <1>4, <2>1, <2>2 DEF Ordered
<1>10. FetchCurrent(r)
  BY <1>2 DEF FetchCurrent
<1>11. ASSUME NothingRemoved, NEW t \in Listed \ Pinned, forum[t].bumped <= checkpoint, Current(t)
       PROVE  Current(t)'
  BY <1>11
<1>12. r.pc # "done" /\ Set(w, r)
  BY <1>2 DEF r
<1> QED BY <1>1, <1>6, <1>8, <1>9, <1>10, <1>11, <1>12, MoveCovered

(* A topic is skipped when its entry shows no higher post number than its  *)
(* file has; and no file is ahead of the forum.                            *)
LEMMA SkipCovered ==
  ASSUME TypeInv, VouchInv, CoverInv, OneWalk, NEW w \in Walkers, Skip(w)
  PROVE  CoverInv'
<1> DEFINE s == walk[w]
<1> PICK h : h = Head(s.entries)
  OBVIOUS
<1>1. /\ s.pc = "entries" /\ s.entries # <<>> /\ s # Idle
      /\ QuietRun(s) < QuietRunStop /\ Set(w, Past(s))
      /\ UNCHANGED <<now, forum, files, checkpoint>>
      /\ h.topic \in OnDisk /\ ~ IsStale(h)
  BY BusyWalk DEF Skip, Examines, AtEntry, UpToDate
<1>2. \A t : Current(t)' <=> Current(t)
  BY <1>1 DEF Current, OnDisk
<1>3. ASSUME NEW t \in Listed, t = h.topic, h.highest = forum[t].highest
      PROVE  Current(t)
  <2>1. t \in Topics /\ forum[t].highest \in Nat
    BY TopicTyped DEF Listed
  <2>2. files[t].highest \in Nat /\ files[t].highest <= forum[t].highest
    BY <2>1 DEF VouchInv, Vouches, Shape, IsCopy
  <2>3. ~ (h.highest > files[t].highest)
    BY <1>1, <1>3 DEF IsStale
  <2>4. files[t].highest = forum[t].highest
    BY <1>3, <2>1, <2>2, <2>3
  <2> QED BY <1>1, <1>3, <2>4 DEF Current
<1>4. Shape
  BY DEF VouchInv
<1> HIDE DEF s
<1> QED BY <1>1, <1>2, <1>3, <1>4, PastCovered DEF s

(* A fetched file is of the last activity the walk answers for.            *)
LEMMA WriteCovered ==
  ASSUME TypeInv, Shape, CoverInv, OneWalk, NEW w \in Walkers, NEW h, NEW full,
         walk[w].pc \in {"entries", "batch"}, walk[w].entries # <<>>,
         QuietRun(walk[w]) < QuietRunStop, h = Head(walk[w].entries), h.topic \in Listed,
         WriteTopic(w, h.topic, full), UNCHANGED <<now, forum, checkpoint>>,
         NothingRemoved
           /\ (Due(walk[w], h.topic)
               \/ (h.topic \notin Pinned /\ forum[h.topic].bumped <= checkpoint))
           => full.highest = forum[h.topic].highest
  PROVE  CoverInv'
<1> PICK t : t = h.topic
  OBVIOUS
<1>1. t \in Topics /\ files' = [files EXCEPT ![t] = full] /\ Set(w, Past(walk[w]))
  BY DEF WriteTopic, Listed
<1>2. files'[t] = full /\ \A u \in Topics : u # t => files'[u] = files[u]
  BY <1>1, AllDated DEF TypeOK
<1>3. \A u \in Listed : u # t => (Current(u) => Current(u)')
  BY <1>2 DEF Current, OnDisk, Listed
<1>4. forum[t].highest > 0 /\ t \in Listed
  BY AllDated DEF Dated
<1>5. full.highest = forum[t].highest => Current(t)'
  BY <1>1, <1>2, <1>4 DEF Current, OnDisk
<1>6. NothingRemoved =>
        \A u \in Listed : u = h.topic =>
          /\ Current(u) /\ (Due(walk[w], u)
               \/ (u \notin Pinned /\ forum[u].bumped <= checkpoint)) => Current(u)'
          /\ Due(walk[w], u) /\ h.key = forum[u].bumped
               /\ h.highest = forum[u].highest => Current(u)'
  BY <1>5
<1> QED BY <1>1, <1>3, <1>6, PastCovered

(* Between two requests for one topic, only what is fetched changes.       *)
LEMMA BatchCovered ==
  ASSUME TypeInv, Shape, CoverInv, OneWalk, NEW w \in Walkers, NEW r,
         walk[w].pc \in {"entries", "batch"}, Set(w, r),
         UNCHANGED <<now, forum, files, checkpoint>>,
         r.pc = "batch", r.entries = walk[w].entries, r.highWater = walk[w].highWater,
         r.state = walk[w].state, r.began = walk[w].began, r.more = walk[w].more,
         r.page = walk[w].page, r.complete = walk[w].complete,
         NothingRemoved => FetchCurrent(r)
  PROVE  CoverInv'
<1> DEFINE s == walk[w]
<1>1. s # Idle /\ Underway(s) /\ (NothingRemoved => WalkCovers(s))
  BY AtWork, BusyWalk
<1>2. Underway(r)
  BY <1>1 DEF Underway
<1>3. \A t : Current(t)' <=> Current(t)
  BY DEF Current, OnDisk
<1>4. \A t \in Listed : /\ Due(r, t) => Due(s, t)
                        /\ InHand(s, t) => InHand(r, t)
                        /\ Below(s, t) => Below(r, t)
  BY DEF Due, Reach, InHand, Below
<1>5. Ordered(s) => Ordered(r)
  BY DEF Ordered
<1> QED BY <1>1, <1>2, <1>3, <1>4, <1>5, MoveCovered DEF WalkCovers

LEMMA FetchTopicCovered ==
  ASSUME TypeInv, Shape, CoverInv, OneWalk, NEW w \in Walkers, FetchTopic(w)
  PROVE  CoverInv'
<1> DEFINE s == walk[w]
<1> PICK h : h = Head(s.entries)
  OBVIOUS
<1> DEFINE t == h.topic
           full == [posts |-> FirstPosts(t), highest |-> forum[t].highest,
                    count |-> Cardinality(forum[t].posts)]
           missing == MissingPosts(t)
<1>1. /\ s.pc = "entries" /\ s.entries # <<>> /\ s # Idle /\ QuietRun(s) < QuietRunStop
      /\ t \in Listed /\ UNCHANGED <<now, forum, checkpoint>>
  BY BusyWalk DEF FetchTopic, Examines, AtEntry
<1>2. full.highest = forum[t].highest
  OBVIOUS
<1>3. CASE WriteTopic(w, t, full)
  <2> HIDE DEF full
  <2> QED BY <1>1, <1>2, <1>3, WriteCovered
<1>4. CASE /\ Set(w, [s EXCEPT !.pc = "batch", !.full = full, !.missing = missing])
           /\ UNCHANGED files
  <2> DEFINE r == [s EXCEPT !.pc = "batch", !.full = full, !.missing = missing]
  <2> HIDE DEF full, missing
  <2>1. s \in Walks
    BY <1>1, WalkTyped
  <2>2. /\ r.pc = "batch" /\ r.entries = s.entries /\ r.highWater = s.highWater
        /\ r.state = s.state /\ r.began = s.began /\ r.more = s.more
        /\ r.page = s.page /\ r.complete = s.complete /\ r.full = full
    BY <2>1 DEF Walks
  <2>3. Set(w, r) /\ UNCHANGED <<now, forum, files, checkpoint>>
    BY <1>1, <1>4
  <2> HIDE DEF r
  <2>4. FetchCurrent(r)
    BY <1>2, <2>2 DEF FetchCurrent
  <2> QED BY <1>1, <2>2, <2>3, <2>4, BatchCovered
<1> QED BY <1>3, <1>4 DEF FetchTopic

LEMMA FetchBatchCovered ==
  ASSUME TypeInv, Shape, CoverInv, OneWalk, NEW w \in Walkers, FetchBatch(w)
  PROVE  CoverInv'
<1> DEFINE s == walk[w]
<1> PICK h : h = Head(s.entries)
  OBVIOUS
<1> DEFINE t == h.topic
           asked == {p \in s.missing : Cardinality({q \in s.missing : q < p}) < BatchSize}
           full == Merged(s.full, asked, t)
<1>1. s.pc = "batch" /\ s # Idle /\ t \in Listed /\ UNCHANGED <<now, forum, checkpoint>>
  BY BusyWalk DEF FetchBatch
<1>2. s \in Walks /\ WalkDated(s) /\ (NothingRemoved => WalkCovers(s))
  BY <1>1, AtWork
<1>3. s.entries # <<>> /\ QuietRun(s) < QuietRunStop
  BY <1>1, <1>2 DEF WalkDated
<1>4. full.highest = s.full.highest
  <2>1. s.full \in File
    BY <1>2, WalkFieldsTyped
  <2>2. full = [s.full EXCEPT !.posts = s.full.posts \cup (asked \cap forum[t].posts)]
    BY Zenon DEF Merged
  <2> HIDE DEF full, asked
  <2> QED BY <2>1, <2>2 DEF File
<1>5. NothingRemoved
        /\ (Due(s, t) \/ (t \notin Pinned /\ forum[t].bumped <= checkpoint))
        => s.full.highest = forum[t].highest
  BY <1>1, <1>2 DEF WalkCovers, FetchCurrent
<1> HIDE DEF asked, full
<1>6. CASE WriteTopic(w, t, full)
  BY <1>1, <1>3, <1>4, <1>5, <1>6, WriteCovered
<1>7. CASE /\ Set(w, [s EXCEPT !.full = full, !.missing = s.missing \ asked])
           /\ UNCHANGED files
  <2> DEFINE r == [s EXCEPT !.full = full, !.missing = s.missing \ asked]
  <2>1. /\ r.pc = "batch" /\ r.entries = s.entries /\ r.highWater = s.highWater
        /\ r.state = s.state /\ r.began = s.began /\ r.more = s.more
        /\ r.page = s.page /\ r.complete = s.complete /\ r.full = full
    BY <1>1, <1>2 DEF Walks
  <2>2. Set(w, r) /\ UNCHANGED <<now, forum, files, checkpoint>>
    BY <1>1, <1>7
  <2> HIDE DEF r
  <2>3. NothingRemoved => FetchCurrent(r)
    <3>1. Due(r, t) <=> Due(s, t)
      BY <2>1 DEF Due, Reach
    <3> QED BY <1>4, <1>5, <2>1, <3>1 DEF FetchCurrent
  <2> QED BY <1>1, <2>1, <2>2, <2>3, BatchCovered
<1> QED BY <1>6, <1>7 DEF FetchBatch, asked, full

LEMMA LeaveCovered ==
  ASSUME TypeInv, Shape, CoverInv, OneWalk, NEW w \in Walkers,
         TopicGone(w) \/ Fail(w) \/ Finish(w)
  PROVE  CoverInv'
<1>1. /\ forum' = forum /\ files' = files /\ Set(w, Idle) /\ walk[w] # Idle
      /\ checkpoint' = checkpoint \/ (Finish(w) /\ checkpoint' = walk[w].highWater /\ Advances(walk[w]))
  BY BusyWalk DEF TopicGone, Fail, Finish, Examines, AtEntry
<1>2. \A v \in Walkers : walk'[v] = Idle
  BY <1>1 DEF Set, Shape, OneWalk
<1>3. ASSUME NothingRemoved' PROVE WatermarkCovers'
  <2>1. NothingRemoved /\ \A t : Current(t)' <=> Current(t)
    BY <1>1, <1>3 DEF NothingRemoved, Listed, Current, OnDisk
  <2>2. WatermarkCovers /\ WalkCovers(walk[w])
    BY <1>1, <2>1, AtWork
  <2>3. CASE checkpoint' = checkpoint
    BY <1>1, <2>1, <2>2, <2>3 DEF WatermarkCovers, Listed
  <2>4. CASE Finish(w) /\ checkpoint' = walk[w].highWater /\ Advances(walk[w])
    <3>1. \A t \in Listed \ Pinned : forum[t].bumped <= checkpoint' => Current(t)
      BY <2>2, <2>4 DEF WalkCovers, Finish, Advances
    <3> QED BY <1>1, <2>1, <3>1 DEF WatermarkCovers, Listed
  <2> QED BY <1>1, <2>3, <2>4
<1> QED BY <1>2, <1>3 DEF CoverInv

LEMMA BeginCovered ==
  ASSUME TypeInv, Shape, CoverInv, OneWalk', NEW w \in Walkers, NEW intent,
         BeginSync(w, intent)
  PROVE  CoverInv'
<1> DEFINE r == [ pc |-> "list", intent |-> intent, state |-> checkpoint,
                  began |-> now, page |-> 0, entries |-> <<>>, more |-> FALSE,
                  highWater |-> 0, quietRun |-> 0, processed |-> 0,
                  full |-> NoFile, missing |-> {}, complete |-> FALSE ]
<1>1. walk' = [walk EXCEPT ![w] = r] /\ UNCHANGED <<now, forum, files, checkpoint>>
  BY DEF BeginSync, Set
<1>2. r # Idle
  BY DEF Idle
<1>3. /\ r.pc = "list" /\ r.entries = <<>> /\ r.page = 0 /\ r.state = checkpoint
      /\ ~ r.complete
  OBVIOUS
<1> HIDE DEF r
<1>4. walk'[w] = r /\ \A v \in Walkers : walk'[v] # Idle => v = w
  BY <1>1, <1>2 DEF Shape, OneWalk
<1>5. Underway(walk[w])'
  BY <1>1, <1>3, <1>4 DEF Underway
<1>6. ASSUME NothingRemoved'
      PROVE  WatermarkCovers' /\ WalkCovers(walk[w])'
  <2>1. WatermarkCovers'
    <3>1. WatermarkCovers
      BY <1>1, <1>6 DEF CoverInv, NothingRemoved, Listed
    <3> QED BY <1>1, <3>1 DEF WatermarkCovers, NothingRemoved, Listed, Current, OnDisk
  <2>2. ASSUME NEW t \in Listed' PROVE Below(walk[w], t)'
    <3>1. Position(t) >= 0
      <4>1. t \in Listed
        BY <1>1 DEF Listed
      <4>2. Position(t) \in 0 .. Cardinality(Listed) - 1
        BY <4>1, PositionType, ListingSorted
      <4> QED BY <4>2, ListedFinite
    <3>2. Position(t)' = Position(t)
      BY <1>1 DEF Position, Listed, Before
    <3>3. 0 * PageSize = 0
      BY PageSizes
    <3> QED BY <1>3, <1>4, <3>1, <3>2, <3>3 DEF Below
  <2>3. Ordered(walk[w])' /\ FetchCurrent(walk[w])'
    BY <1>3, <1>4 DEF Ordered, FetchCurrent
  <2> QED BY <1>3, <1>4, <2>1, <2>2, <2>3 DEF WalkCovers
<1> QED BY <1>4, <1>5, <1>6 DEF CoverInv

LEMMA StepCovered ==
  ASSUME TypeInv, VouchInv, CoverInv, OneWalk, OneWalk', [Next]_vars
  PROVE  CoverInv'
<1>1. Shape
  BY DEF VouchInv
<1>2. CASE UNCHANGED vars
  <2>1. UNCHANGED <<now, forum, files, checkpoint, walk>>
    BY <1>2, Zenon DEF vars
  <2>2. \A t : Current(t)' <=> Current(t)
    BY <2>1 DEF Current, OnDisk
  <2>3. CASE \A w \in Walkers : walk[w] = Idle
    <3>1. NothingRemoved' => WatermarkCovers'
      BY <2>1, <2>2 DEF CoverInv, NothingRemoved, WatermarkCovers, Listed
    <3> QED BY <2>1, <2>3, <3>1 DEF CoverInv
  <2>4. ASSUME NEW w \in Walkers, walk[w] # Idle PROVE CoverInv'
    <3>1. Set(w, walk[w])
      BY <1>1, <2>1 DEF Set, Shape
    <3>2. Underway(walk[w]) /\ (NothingRemoved => WalkCovers(walk[w]))
      BY <2>4, AtWork
    <3> QED BY <1>1, <2>1, <2>2, <2>4, <3>1, <3>2, MoveCovered DEF WalkCovers
  <2> QED BY <2>3, <2>4
<1>3. CASE ForumStep
  BY <1>3, ForumCovered
<1>4. ASSUME NEW w \in Walkers, Fail(w) \/ WalkStep(w) \/ \E i \in Intents : BeginSync(w, i)
      PROVE  CoverInv'
  BY <1>1, <1>4, ListPageCovered, EndPageCovered, StopCovered, SkipCovered, FetchTopicCovered,
     FetchBatchCovered, LeaveCovered, BeginCovered, Zenon DEF WalkStep
<1> QED BY <1>2, <1>3, <1>4, Zenon DEF Next

(* A walk ends by an empty page, by the last page, by --limit or by the    *)
(* run of old news, and --limit does not complete it.                      *)
LEMMA QuietEnd ==
  ASSUME TypeInv, VouchInv, CoverInv, NothingRemoved, NEW w \in Walkers, [Next]_vars,
         walk[w] # Idle, walk[w].pc # "done", walk'[w] # Idle, walk'[w].pc = "done",
         walk'[w].complete, walk[w].began = now, NEW t \in Listed
  PROVE  Current(t)
<1> DEFINE s == walk[w]
<1>1. s \in Walks /\ ~ s.complete /\ Due(s, t)
  BY AtWork DEF Underway, Due
<1>2. \A v, r : v \in Walkers /\ Set(v, r) =>
        walk'[v] = r /\ (v # w => walk'[w] = walk[w])
  BY DEF Set, VouchInv, Shape
<1>3. CASE ForumStep \/ UNCHANGED vars
  <2>1. walk' = walk
    BY <1>3, Zenon
       DEF vars, ForumStep, NewTopic, Reply, Bump, RemoveTopic, DeletePost, Happens
  <2> QED BY <2>1
<1>4. ASSUME NEW v \in Walkers, Fail(v) \/ WalkStep(v) \/ \E i \in Intents : BeginSync(v, i)
      PROVE  Current(t)
  <2>1. \E r : Set(v, r)
    BY <1>4, Zenon
       DEF WalkStep, Fail, BeginSync, ListPage, EndPage, StopAtLimit, StopQuiet, Skip,
           FetchTopic, FetchBatch, TopicGone, Finish, WriteTopic
  <2>2. v = w
    BY <1>2, <2>1
  <2>3. CASE ListPage(w)
    <3> DEFINE entries == PageEntries(s.page)
               next == [s EXCEPT !.pc = "entries", !.entries = entries,
                                 !.more = HasMore(s.page)]
    <3>1. next.pc = "entries"
      BY <1>1 DEF Walks
    <3>2. walk'[w] # next
      BY <3>1
    <3> HIDE DEF next
    <3>3. ~ Set(w, next)
      BY <1>2, <3>2
    <3>4. s.pc = "list" /\ entries = <<>>
      BY <2>3, <3>3 DEF ListPage, next
    <3> QED BY <1>1, <3>4, EmptyPageEnds
  <2>4. CASE EndPage(w)
    <3> DEFINE next == [s EXCEPT !.pc = "list", !.page = s.page + 1]
    <3>1. next.pc = "list"
      BY <1>1 DEF Walks
    <3>2. walk'[w] # next
      BY <3>1
    <3> HIDE DEF next
    <3>3. ~ Set(w, next)
      BY <1>2, <3>2
    <3>4. s.pc = "entries" /\ s.entries = <<>> /\ ~ s.more
      BY <2>4, <3>3 DEF EndPage, next
    <3> QED BY <1>1, <3>4, LastPageEnds
  <2>5. CASE StopAtLimit(w)
    <3>1. walk'[w] = [s EXCEPT !.pc = "done"]
      BY <1>2, <2>5 DEF StopAtLimit
    <3> QED BY <1>1, <3>1 DEF Walks
  <2>6. CASE StopQuiet(w)
    BY <1>1, <2>6, OldNewsEnds DEF StopQuiet
  <2>7. CASE Skip(w) \/ (\E u \in Topics : \E full : WriteTopic(w, u, full))
    <3>1. walk'[w] = Past(s)
      BY <1>2, <2>7 DEF Skip, WriteTopic
    <3>2. Past(s).pc = "entries"
      BY <1>1 DEF Past, Walks
    <3> QED BY <3>1, <3>2
  <2>8. CASE FetchTopic(w) /\ ~ \E u \in Topics : \E full : WriteTopic(w, u, full)
    <3> PICK u, full, missing : u = Head(s.entries).topic
          /\ full = [posts |-> FirstPosts(u), highest |-> forum[u].highest,
                     count |-> Cardinality(forum[u].posts)]
          /\ missing = MissingPosts(u)
      OBVIOUS
    <3>1. Set(w, [s EXCEPT !.pc = "batch", !.full = full, !.missing = missing])
      BY <2>8 DEF FetchTopic, Listed
    <3>2. walk'[w] = [s EXCEPT !.pc = "batch", !.full = full, !.missing = missing]
      BY <1>2, <3>1
    <3> QED BY <1>1, <3>2 DEF Walks
  <2>9. CASE FetchBatch(w) /\ ~ \E u \in Topics : \E full : WriteTopic(w, u, full)
    <3>1. \E full, missing : Set(w, [s EXCEPT !.full = full, !.missing = missing])
      BY <2>9 DEF FetchBatch, Listed
    <3>2. \E full, missing : walk'[w] = [s EXCEPT !.full = full, !.missing = missing]
      BY <1>2, <3>1
    <3> QED BY <1>1, <3>2 DEF Walks
  <2>10. ~ (TopicGone(w) \/ Fail(w) \/ Finish(w) \/ \E i \in Intents : BeginSync(w, i))
    BY <1>2 DEF TopicGone, Fail, Finish, BeginSync
  <2> QED BY <1>4, <2>2, <2>3, <2>4, <2>5, <2>6, <2>7, <2>8, <2>9, <2>10 DEF WalkStep
<1> QED BY <1>3, <1>4, Zenon DEF Next

(* What a step does to the checkpoint: a walk that advances it started     *)
(* from the one on record.                                                 *)
LEMMA CheckpointGrows ==
  ASSUME TypeInv, CoverInv, [Next]_vars
  PROVE  checkpoint' >= checkpoint
<1>1. CASE checkpoint' = checkpoint
  BY <1>1, AllDated
<1>2. ASSUME NEW w \in Walkers, Finish(w), Advances(walk[w]), checkpoint' = walk[w].highWater
      PROVE  checkpoint' >= checkpoint
  <2>1. walk[w] # Idle
    BY <1>2, BusyWalk DEF Finish
  <2>2. walk[w].state = checkpoint /\ walk[w] \in Walks
    BY <2>1, AtWork DEF Underway
  <2>3. walk[w].highWater \in Nat
    BY <2>2, WalkFieldsTyped
  <2> QED BY <1>2, <2>2, <2>3, AllDated DEF Advances
<1>3. CASE \E w \in Walkers : Finish(w)
  BY <1>1, <1>2, <1>3 DEF Finish
<1>4. CASE ~ \E w \in Walkers : Finish(w)
  <2>1. checkpoint' = checkpoint
    BY <1>4, Zenon
       DEF Next, vars, ForumStep, NewTopic, Reply, Bump, RemoveTopic, DeletePost, Happens,
           WalkStep, Fail, BeginSync, ListPage, EndPage, StopAtLimit, StopQuiet, Skip,
           FetchTopic, FetchBatch, TopicGone
  <2> QED BY <1>1, <2>1
<1> QED BY <1>3, <1>4

(***************************************************************************)
(* The theorems.  All three are about walks that do not overlap, which     *)
(* `update` and a person at the command line do not promise; why they must *)
(* not is what TLC shows on two walkers.                                   *)
(***************************************************************************)

LEMMA CoverHolds == Spec /\ []OneWalk => [](TypeInv /\ VouchInv /\ CoverInv)
<1>1. Init => TypeInv /\ VouchInv /\ CoverInv
  BY InitTyped, InitHolds, InitCovered
<1>2. TypeInv /\ VouchInv /\ CoverInv /\ OneWalk /\ OneWalk' /\ [Next]_vars
        => TypeInv' /\ VouchInv' /\ CoverInv'
  BY StepTyped, Step, StepCovered
<1> QED BY <1>1, <1>2, PTL DEF Spec

(* Whatever moves in the listing between two requests of a walk, wherever  *)
(* it fails or is cut short and however it goes on: a topic that is not    *)
(* newer than the checkpoint on record is on disk with all its replies, so *)
(* the next incremental walk may stop there.                               *)
THEOREM WatermarkTellsTheTruth == Spec /\ []OneWalk => []WatermarkCovers
<1>1. CoverInv => WatermarkCovers
  BY DEF CoverInv, WatermarkCovers
<1> QED BY <1>1, CoverHolds, PTL

(* A walk that ends on its own terms on a forum that was quiet meanwhile   *)
(* has everything on disk, the pinned topics too, although it may have     *)
(* looked at no more than the first page.                                  *)
THEOREM QuietWalkComplete == Spec /\ []OneWalk => QuietWalkMissesNothing
<1> DEFINE A == \A w \in Walkers :
                  /\ walk[w] # Idle
                  /\ walk[w].pc # "done" /\ walk'[w] # Idle /\ walk'[w].pc = "done"
                  /\ walk'[w].complete /\ walk[w].began = now
                  /\ NothingRemoved
                  => \A t \in Listed : Current(t)
<1>1. TypeInv /\ VouchInv /\ CoverInv /\ [Next]_vars => A
  BY QuietEnd
<1> HIDE DEF A
<1>2. Spec /\ []OneWalk => [][A]_vars
  BY <1>1, CoverHolds, PTL DEF Spec
<1> QED BY <1>2 DEF QuietWalkMissesNothing, A

(* The checkpoint never moves backwards.                                   *)
THEOREM CheckpointMonotone == Spec /\ []OneWalk => NeverBackwards
<1>1. TypeInv /\ VouchInv /\ CoverInv /\ [Next]_vars => [checkpoint' >= checkpoint]_checkpoint
  BY CheckpointGrows
<1>2. Spec /\ []OneWalk => [][checkpoint' >= checkpoint]_checkpoint
  BY <1>1, CoverHolds, PTL DEF Spec
<1> QED BY <1>2 DEF NeverBackwards
=============================================================================
