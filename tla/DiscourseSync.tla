--------------------------- MODULE DiscourseSync ---------------------------
(***************************************************************************)
(* The forum walk: wikipethia-fetch/src/sync.rs and discourse.rs, with the *)
(* load and store of its checkpoint from sync_sources in                   *)
(* wikipethia/src/main.rs.                                                 *)
(*                                                                         *)
(* A forum lists its topics by activity, a page per request, and changes   *)
(* between any two requests.  A walker goes down the pages, refetches each *)
(* topic whose counters differ from the local file, and moves the          *)
(* checkpoint to the newest activity it saw if the walk ended on its own   *)
(* terms.  Nothing keeps two walkers of one forum apart.                   *)
(*                                                                         *)
(* A time is the number of events so far, and time 0 the empty             *)
(* checkpoint.  A post is its post number.  Bodies are left out, and with  *)
(* them edits in place, which no listing shows (--force is for those); so  *)
(* is last_posted_at, which here never moves without highest_post_number.  *)
(***************************************************************************)
EXTENDS SequencesExt, FiniteSetsExt

CONSTANTS
  Topics,
  Pinned,        \* the topics hoisted to the top of page 0
  PageSize,      \* topics per listing page (30 on the real forums)
  QuietRunStop,  \* QUIET_RUN_STOP
  Inlined,       \* posts that come with the topic (20 on the real forums)
  BatchSize,     \* BATCH_SIZE, posts per follow-up request
  Walkers,       \* sync processes on this forum's mirror
  Intents,       \* what syncs are asked for: records [full, limit, force]
  AllowRemoval,  \* can a topic leave the listing?
  MaxTime,       \* bound: events on the forum, failed walks among them
  MaxPosts       \* bound: posts per topic

NoLimit == 99

ASSUME ConstantsAssumption ==
  /\ IsFiniteSet(Topics) /\ Pinned \subseteq Topics
  /\ PageSize \in Nat \ {0} /\ QuietRunStop \in Nat \ {0}
  /\ Inlined \in Nat /\ BatchSize \in Nat \ {0}
  /\ MaxTime \in Nat /\ Cardinality(Topics) <= MaxTime
  /\ MaxPosts \in Nat \ {0}
  /\ AllowRemoval \in BOOLEAN
  /\ Intents \subseteq [full : BOOLEAN, limit : 1 .. NoLimit, force : BOOLEAN]

VARIABLES
  now,        \* the forum's clock: the events so far
  forum,      \* the topics on the forum
  files,      \* data/<id>/topics: what is on disk
  checkpoint, \* meta: the bumped_watermark on record
  walk        \* each walker: see Idle and Walks

vars == <<now, forum, files, checkpoint, walk>>

Times == 0 .. MaxTime
Posts == 1 .. MaxPosts

(* A topic: its posts, the highest post number it ever had, its last bump, *)
(* which is 0 when it is not listed.                                       *)
Absent == [posts |-> {}, highest |-> 0, bumped |-> 0]
Listed == {t \in Topics : forum[t].bumped > 0}

(* A file: the two counters of the first response, and the posts of all.   *)
NoFile == [posts |-> {}, highest |-> 0, count |-> 0]
File == [posts : SUBSET Posts, highest : 0 .. MaxPosts, count : 0 .. MaxPosts]
OnDisk == {t \in Topics : files[t].highest > 0}

(* What a listing entry says of a topic. *)
Entry(t) == [topic |-> t, key |-> forum[t].bumped,
             highest |-> forum[t].highest, count |-> Cardinality(forum[t].posts)]
Entries == [topic : Topics, key : Times, highest : 0 .. MaxPosts, count : 0 .. MaxPosts]

Idle == [pc |-> "idle"]
Walks ==
  [ pc : {"list", "entries", "batch", "done"},
    intent : Intents,
    state : Times,          \* the checkpoint the walk was given
    began : Times,          \* when it was given (not in the code)
    page : Nat,
    entries : Seq(Entries), \* what is left of the page at hand
    more : BOOLEAN,         \* the page has a more_topics_url
    highWater : Times,
    quietRun : 0 .. QuietRunStop,
    processed : Nat,
    full : File,            \* the topic being fetched
    missing : SUBSET Posts, \* the posts its batches have yet to ask for
    complete : BOOLEAN ]

TypeOK ==
  /\ now \in Times
  /\ forum \in [Topics -> [posts : SUBSET Posts, highest : 0 .. MaxPosts, bumped : Times]]
  /\ files \in [Topics -> File]
  /\ checkpoint \in Times
  /\ \A w \in Walkers : walk[w] = Idle \/ walk[w] \in Walks

(* Some topics of one post each, bumped one after the other. *)
Init ==
  /\ \E S \in SUBSET Topics :
       /\ now = Cardinality(S)
       /\ \E at \in [S -> 1 .. Cardinality(S)] :
            /\ \A t, u \in S : t # u => at[t] # at[u]
            /\ forum = [t \in Topics |->
                 IF t \in S THEN [posts |-> {1}, highest |-> 1, bumped |-> at[t]]
                 ELSE Absent]
  /\ files = [t \in Topics |-> NoFile]
  /\ checkpoint = 0
  /\ walk = [w \in Walkers |-> Idle]
-----------------------------------------------------------------------------
(***************************************************************************)
(* The forum.                                                              *)
(***************************************************************************)

Happens(t, topic) ==
  /\ now < MaxTime
  /\ now' = now + 1
  /\ forum' = [forum EXCEPT ![t] = topic]
  /\ UNCHANGED <<files, checkpoint, walk>>

NewTopic(t) ==
  /\ forum[t] = Absent
  /\ Happens(t, [posts |-> {1}, highest |-> 1, bumped |-> now + 1])

Reply(t) ==
  LET n == forum[t].highest + 1
  IN  /\ t \in Listed
      /\ n <= MaxPosts
      /\ Happens(t, [posts |-> forum[t].posts \cup {n}, highest |-> n, bumped |-> now + 1])

(* A recategorisation, a staff bump. *)
Bump(t) ==
  /\ t \in Listed
  /\ Happens(t, [forum[t] EXCEPT !.bumped = now + 1])

(* A deleted post lowers the count, and bumps nothing. *)
DeletePost(t, p) ==
  /\ t \in Listed
  /\ p \in forum[t].posts \ {1}
  /\ Happens(t, [forum[t] EXCEPT !.posts = @ \ {p}])

RemoveTopic(t) ==
  /\ AllowRemoval
  /\ t \in Listed
  /\ Happens(t, [forum[t] EXCEPT !.bumped = 0])

ForumStep ==
  \E t \in Topics :
    \/ NewTopic(t) \/ Reply(t) \/ Bump(t) \/ RemoveTopic(t)
    \/ \E p \in Posts : DeletePost(t, p)

(* /latest: pinned topics first, then by bumped_at, newest first. *)
Before(t, u) ==
  \/ t \in Pinned /\ u \notin Pinned
  \/ (t \in Pinned <=> u \in Pinned) /\ forum[t].bumped > forum[u].bumped
Position(t) == Cardinality({u \in Listed : Before(u, t)})

PageEntries(n) ==
  LET left == Cardinality(Listed) - n * PageSize
      at(i) == CHOOSE t \in Listed : Position(t) = n * PageSize + i - 1
  IN  [i \in 1 .. (IF left < PageSize THEN left ELSE PageSize) |-> Entry(at(i))]
HasMore(n) == Cardinality(Listed) > (n + 1) * PageSize
-----------------------------------------------------------------------------
(***************************************************************************)
(* The walk.                                                               *)
(***************************************************************************)

Set(w, rec) == walk' = [walk EXCEPT ![w] = rec]

(* sync_sources: load the checkpoint, start the walk. *)
BeginSync(w, intent) ==
  /\ walk[w] = Idle
  /\ Set(w, [ pc |-> "list", intent |-> intent, state |-> checkpoint,
              began |-> now, page |-> 0, entries |-> <<>>, more |-> FALSE,
              highWater |-> 0, quietRun |-> 0, processed |-> 0,
              full |-> NoFile, missing |-> {}, complete |-> FALSE ])
  /\ UNCHANGED <<now, forum, files, checkpoint>>

(* GET a page; an empty one ends the walk. *)
ListPage(w) ==
  LET s == walk[w]
      entries == PageEntries(s.page)
  IN  /\ s.pc = "list"
      /\ IF entries = <<>>
           THEN Set(w, [s EXCEPT !.pc = "done", !.complete = TRUE])
           ELSE Set(w, [s EXCEPT !.pc = "entries", !.entries = entries,
                                 !.more = HasMore(s.page)])
      /\ UNCHANGED <<now, forum, files, checkpoint>>

(* The end of a page: the last one ends the walk. *)
EndPage(w) ==
  LET s == walk[w]
  IN  /\ s.pc = "entries" /\ s.entries = <<>>
      /\ IF s.more
           THEN Set(w, [s EXCEPT !.pc = "list", !.page = @ + 1])
           ELSE Set(w, [s EXCEPT !.pc = "done", !.complete = TRUE])
      /\ UNCHANGED <<now, forum, files, checkpoint>>

Incremental(s) == ~ s.intent.full /\ s.state > 0

LimitReached(s) == s.intent.limit # NoLimit /\ s.processed >= s.intent.limit

(* The walk's bookkeeping for the entry at hand: the newest key seen, and  *)
(* the run of old news, which pinned topics neither lengthen nor break.    *)
HighWater(s) ==
  IF Head(s.entries).key > s.highWater THEN Head(s.entries).key ELSE s.highWater

(* Mutant: pinned topics count as old news.                               *)
QuietRun_CountsPinned(s) ==
  IF ~ Incremental(s) THEN s.quietRun
  ELSE IF Head(s.entries).key <= s.state THEN s.quietRun + 1
  ELSE 0

QuietRun(s) ==
  IF ~ Incremental(s) \/ Head(s.entries).topic \in Pinned THEN s.quietRun
  ELSE IF Head(s.entries).key <= s.state THEN s.quietRun + 1
  ELSE 0

(* Mutant: a deletion, which only lowers the count, goes unnoticed.       *)
IsStale_HighestOnly(e) == e.highest > files[e.topic].highest

(* is_stale: a higher post number, or another count in either direction. *)
IsStale(e) ==
  \/ e.highest > files[e.topic].highest
  \/ e.count # files[e.topic].count

UpToDate(s) ==
  LET e == Head(s.entries)
  IN  e.topic \in OnDisk /\ ~ s.intent.force /\ ~ IsStale(e)

AtEntry(w) == walk[w].pc = "entries" /\ walk[w].entries # <<>>

(* --limit cuts the walk short. *)
StopAtLimit(w) ==
  /\ AtEntry(w) /\ LimitReached(walk[w])
  /\ Set(w, [walk[w] EXCEPT !.pc = "done"])
  /\ UNCHANGED <<now, forum, files, checkpoint>>

(* Enough old news in a row: everything below is older still. *)
StopQuiet(w) ==
  LET s == walk[w]
  IN  /\ AtEntry(w) /\ ~ LimitReached(s)
      /\ QuietRun(s) >= QuietRunStop
      /\ Set(w, [s EXCEPT !.pc = "done", !.highWater = HighWater(s),
                          !.quietRun = QuietRun(s), !.complete = TRUE])
      /\ UNCHANGED <<now, forum, files, checkpoint>>

(* The entry is examined; its walker goes on to the next. *)
Past(s) ==
  [s EXCEPT !.pc = "entries", !.entries = Tail(@), !.highWater = HighWater(s),
            !.quietRun = QuietRun(s), !.processed = @ + 1,
            !.full = NoFile, !.missing = {}]

(* Mutant: off by one in the quiet run.                                   *)
Examines_OneMore(w) ==
  AtEntry(w) /\ ~ LimitReached(walk[w]) /\ QuietRun(walk[w]) <= QuietRunStop

Examines(w) ==
  AtEntry(w) /\ ~ LimitReached(walk[w]) /\ QuietRun(walk[w]) < QuietRunStop

Skip(w) ==
  /\ Examines(w) /\ UpToDate(walk[w])
  /\ Set(w, Past(walk[w]))
  /\ UNCHANGED <<now, forum, files, checkpoint>>

(* The first posts of the topic, as /t/{id}.json inlines them. *)
FirstPosts(t) ==
  {p \in forum[t].posts : Cardinality({q \in forum[t].posts : q < p}) < Inlined}

(* missing_post_ids: those of the stream that did not come inlined. *)
MissingPosts(t) == forum[t].posts \ FirstPosts(t)

(* batch_posts, merge_posts: a post deleted since the stream was read is    *)
(* silently not among those that come back.                                *)
Merged(full, asked, t) == [full EXCEPT !.posts = @ \cup (asked \cap forum[t].posts)]

(* The file is replaced by rename, and the entry has been dealt with. *)
WriteTopic(w, t, full) ==
  /\ files' = [files EXCEPT ![t] = full]
  /\ Set(w, Past(walk[w]))

(* fetch_full_topic's first request: the counters, the stream and the      *)
(* first posts are of one moment.  A topic that is gone fails the walk     *)
(* (TopicGone).                                                            *)
FetchTopic(w) ==
  LET s == walk[w]
      t == Head(s.entries).topic
      full == [posts |-> FirstPosts(t), highest |-> forum[t].highest,
               count |-> Cardinality(forum[t].posts)]
  IN  /\ Examines(w) /\ ~ UpToDate(s)
      /\ t \in Listed
      /\ \/ MissingPosts(t) = {} /\ WriteTopic(w, t, full)
         \/ /\ MissingPosts(t) # {}
            /\ Set(w, [s EXCEPT !.pc = "batch", !.full = full, !.missing = MissingPosts(t)])
            /\ UNCHANGED files
      /\ UNCHANGED <<now, forum, checkpoint>>

(* Mutant: the counters are taken after the batch.                        *)
FetchBatch_LateCounters(w) ==
  LET s == walk[w]
      t == Head(s.entries).topic
  IN  /\ s.pc = "batch"
      /\ t \in Listed
      /\ WriteTopic(w, t, [Merged(s.full, s.missing, t) EXCEPT
                             !.highest = forum[t].highest,
                             !.count = Cardinality(forum[t].posts)])
      /\ UNCHANGED <<now, forum, checkpoint>>

(* fetch_full_topic's loop: the next BATCH_SIZE posts are asked for and     *)
(* merged, and the last of them complete the topic.                        *)
FetchBatch(w) ==
  LET s == walk[w]
      t == Head(s.entries).topic
      asked == {p \in s.missing : Cardinality({q \in s.missing : q < p}) < BatchSize}
      full == Merged(s.full, asked, t)
  IN  /\ s.pc = "batch"
      /\ t \in Listed
      /\ \/ asked = s.missing /\ WriteTopic(w, t, full)
         \/ /\ asked # s.missing
            /\ Set(w, [s EXCEPT !.full = full, !.missing = @ \ asked])
            /\ UNCHANGED files
      /\ UNCHANGED <<now, forum, checkpoint>>

(* The request for a topic that has been removed is an error, which ends   *)
(* the walk without an advance.                                            *)
TopicGone(w) ==
  /\ walk[w].pc = "batch" \/ (Examines(w) /\ ~ UpToDate(walk[w]))
  /\ Head(walk[w].entries).topic \notin Listed
  /\ Set(w, Idle)
  /\ UNCHANGED <<now, forum, files, checkpoint>>

(* Any other error, or a kill; counted as an event, to bound them. *)
Fail(w) ==
  /\ walk[w] # Idle
  /\ now < MaxTime
  /\ now' = now + 1
  /\ Set(w, Idle)
  /\ UNCHANGED <<forum, files, checkpoint>>

(* Mutant: a walk cut short advances the checkpoint.                      *)
Advances_AtLimit(s) == s.highWater > s.state

(* sync's last lines and sync_sources: the checkpoint advances after a     *)
(* walk that ended on its own terms, beyond the state the walk was given.  *)
Advances(s) == s.complete /\ s.intent.limit = NoLimit /\ s.highWater > s.state

Finish(w) ==
  /\ walk[w].pc = "done"
  /\ checkpoint' = IF Advances(walk[w]) THEN walk[w].highWater ELSE checkpoint
  /\ Set(w, Idle)
  /\ UNCHANGED <<now, forum, files>>

WalkStep(w) ==
  \/ ListPage(w) \/ EndPage(w) \/ StopAtLimit(w) \/ StopQuiet(w) \/ Skip(w)
  \/ FetchTopic(w) \/ FetchBatch(w) \/ TopicGone(w) \/ Finish(w)

Next ==
  \/ ForumStep
  \/ \E w \in Walkers : Fail(w) \/ WalkStep(w) \/ \E i \in Intents : BeginSync(w, i)

Spec == Init /\ [][Next]_vars

(* A walk that does not fail goes on, and every kind of sync is asked for  *)
(* again and again (`update` runs from a timer).                           *)
FairSpec ==
  /\ Spec
  /\ \A w \in Walkers : WF_vars(WalkStep(w))
  /\ \A w \in Walkers, i \in Intents : SF_vars(BeginSync(w, i))
-----------------------------------------------------------------------------
(***************************************************************************)
(* Properties.                                                             *)
(***************************************************************************)

(* Every topic the walk has ever seen is still listed: a removal moves the *)
(* topics below it up a page, past a walker between two pages.             *)
NothingRemoved == \A t \in Topics : forum[t] # Absent => t \in Listed

(* A topic with all its replies on disk. *)
Current(t) == t \in OnDisk /\ files[t].highest = forum[t].highest

(* The checkpoint never claims more than the disk holds: a topic whose     *)
(* last activity is not newer than the watermark is on disk with every     *)
(* reply it has, so stopping an incremental walk there loses nothing.      *)
(* Not so for a pinned topic, whose bump may fall between page 0 and a     *)
(* later page; but no walk stops before it.                                *)
WatermarkCovers ==
  NothingRemoved =>
    \A t \in Listed \ Pinned : forum[t].bumped <= checkpoint => Current(t)

(* A walk that ends on its own terms, with no activity on the forum since  *)
(* it began, has brought every topic and every reply to disk, whether it   *)
(* went by the checkpoint or through the full listing and wherever the     *)
(* pinned topics stand.                                                    *)
QuietWalkMissesNothing ==
  [][\A w \in Walkers :
       /\ walk[w] # Idle
       /\ walk[w].pc # "done" /\ walk'[w] # Idle /\ walk'[w].pc = "done"
       /\ walk'[w].complete /\ walk[w].began = now
       /\ NothingRemoved
       => \A t \in Listed : Current(t)]_vars

(* The two counters tell whether a file is current: one that agrees with   *)
(* the forum on both holds exactly the forum's posts, although its posts   *)
(* come from several requests (is_stale, fetch_full_topic).                *)
FreshMeansFaithful ==
  \A t \in Listed \cap OnDisk :
    files[t].highest = forum[t].highest /\ files[t].count = Cardinality(forum[t].posts)
      => files[t].posts = forum[t].posts

(* Once the forum is quiet, walks of the full listing make every file say  *)
(* what the forum says: replies an earlier walk missed, deleted posts, and *)
(* topics that slid past a walker when another was removed.                *)
EverythingArrives ==
  <>[](\A t \in Listed : t \in OnDisk /\ files[t].posts = forum[t].posts)

(* "Advance only on a walk that ended on its own terms, and never          *)
(* backwards."                                                             *)
NeverBackwards == [][checkpoint' >= checkpoint]_checkpoint
=============================================================================
