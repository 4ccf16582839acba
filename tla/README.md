# A verification of wikipethia

wikipethia mirrors Ethereum research sources (Discourse forums, git
repositories, feeds) to a directory of files, indexes the files into one SQLite
database, computes an embedding for every long chunk, serves the database over
MCP, and publishes snapshots of it that a hosted box pulls. This directory
holds TLA+ modules of its stateful parts, the TLC configurations that check
them on small instances, and TLAPS proofs of the properties that matter most.

    tlc -config MC_CorpusLocked.cfg MC_CorpusStore     # a run
    tlapm CorpusStore_proofs.tla                       # the proofs of a module

Contents: the system (1), what is modelled and how it corresponds to the code
(2), the runs (3), fairness (4), the proofs (5), where the code and its comments
disagree (6), what is not modelled (7), the plan (8).

## 1. The system

Everything is one binary, `wikipethia`, plus a shell script on the hosted box.
A pipeline stage is a process of its own, or a part of `update`:

    forums, repos, feeds --sync--> data/<source>/   --index-->  documents, chunks
                          |                                        |
                          +--> meta: checkpoint, mirror.absent    embed
                                                                   v
    hosted box <--pull-- release <--publish (VACUUM INTO)--   chunks_vec

The database is in WAL mode; each writer has a connection (a `Store`) of its own,
and readers (the MCP server) are never blocked. What the processes share is the
database and the mirror directory. They exchange no messages; all they know of
each other is what they find in a table or a file.

| Component | State | Operations | What makes it correct |
|---|---|---|---|
| Writer lock, `wikipethia-core/src/lock.rs` | one row of `meta`: pid, command, start time | `acquire` (refuse, take, steal), `Drop` | one writer at a time up to MAX_HELD; a crash wedges nothing; nobody removes another's row |
| Corpus store, `wikipethia-core/src/store.rs` | tables documents, chunks, chunks_vec, meta; `has_vec` in each handle | `upsert`, `delete_document`, `ensure_embedding_space`, `chunks_missing_embedding`, `write_embeddings`, search | a vector stands at the text it was computed from; READY means complete; chunks are those of the current document |
| `embed`, `index`, `update`, `wikipethia/src/main.rs` | the loop's batch and its counts | the stages and their order | embed ends, and resumes after a kill; index prunes only what is gone |
| Forum walk, `wikipethia-fetch/src/sync.rs`, `discourse.rs` | topic files; the checkpoint; a walk's position | `sync`, `sync_topic`, `fetch_full_topic` | the checkpoint never covers what the disk lacks; everything arrives in the end |
| Repository adapter, `repo.rs` | markdown files, `dates.json`, head and selection on record | `sync` | the shortcut never takes a partial mirror for a whole one; a date follows its content |
| Feed adapter, `feed.rs`, `xml.rs` | article files | `sync` | every listed article is read, the newest ones again while they may still change |
| Checkpoints and the mirror flag, `main.rs` | rows of `meta` | `sync_sources`, `mirror_rebuilt`, `prune_*` | a fresh clone of a snapshot deletes no document it merely lacks the file of |
| Publish, `publish.rs` | the artifact, its stamps, a GitHub release | preflight, snapshot, upload | a published snapshot is complete and carries neither lock nor mirror |
| Corpus pull, `deploy/wikipethia-pull.sh` | corpus.sqlite, .prev, the record, the unit | one run: list, stage, swap, probe, roll back | the box always has a corpus that works, and ends up on the newest |
| HTTP client, `client.rs` | the per-host schedule | get with retries | no request sooner than the interval, Retry-After and backoff allow, whatever is retried |
| Manifest, `manifest.rs` | none | `parse`, `select` | sources that are accepted together do not crawl one host |
| Chunker, search, fusion (`chunk.rs`, `store.rs`) | none | pure functions | no line is lost at a cut; an exact hit is not displaced |
| MCP server (`wikipethia-mcp`), `spec.rs` | one Store behind a mutex | read-only tools | what the tools answer is true, and every text can be read to its end by the calls their hints name |

What is hard: writers that do not see each other's lock (another container, a
shared mount, a suspended machine); an embedder that reads chunks, computes for
minutes outside a transaction and writes back; four statements that rebuild
the vector table outside one; handles that remember whether the table existed;
a forum that reorders its listing between two page requests; a checkpoint
recorded before the data it covers is indexed; a swap of live files by a
script that may be killed at any command. PROJECT.json lists each as a hazard
at the line where it bites.

## 2. The modules

### WriterLock (abstract: AdvisoryLock; proofs: WriterLock_proofs)

`row` is `meta["writer.lock"]` as `Holder::parse` sees it: a pid, a command and
an age, or `NoRow`, or `Garbage`. `acquire` is two steps, because the stamp is
built before the IMMEDIATE transaction that reads the row and may wait: `BuildStamp`,
then `Acquire` or `Refused`. `Release` is `Drop`, with its test that the row is
still the writer's own. `Crash` leaves the row behind; `Start` and `OtherStarts`
give a dead writer's pid to another process, so that `/proc` vouches for it.
The code compares ages only, so `Tick` ages all stamps, up to one past MAX_HELD.

AdvisoryLock says what the lock promises without rows, pids or clocks: a
writer enters when everybody inside has overstayed. `Implements` is the
refinement (holders are the writers at "holding", overstayed those with an old
stamp).

### CorpusStore (abstract: SemanticIndex; proofs: CorpusStore_proofs)

The tables as functions (`docs`; `chunks` and `vec` by rowid), `meta`'s model and
dimension, and each writer's handle (`hasVec`) and embed loop (`batch`,
`stalled`, `total`, `done`). A step is a transaction, or a statement outside one:

| Action | Code |
|---|---|
| `Begin`, `OpenIndex`, `OpenEmbed` | a command starts, takes the lock, opens its Store and caches `has_vec` |
| `Upsert` | `upsert`: the unchanged test, then `write_chunks` with `delete_chunks` in it, new rowids from one past the largest in use (no AUTOINCREMENT) |
| `DeleteDocument`, `EndIndex` | `delete_document`; the end of an index pass |
| `Ensure`, `DropSpace`, `CreateSpace`, `SetModel`, `SetDim` | `ensure_embedding_space`, statement by statement |
| `CountMissing`, `ReadBatch`, `WriteBatch` | `embed`'s loop: the count, `chunks_missing_embedding`, `write_embeddings` with its re-check, the stall guard |
| `Crash` | a kill between any two steps; the open transaction rolls back |

A vector is the pair of the text it was computed from and the model that computed
it: all that the properties ask of it. `ChunksOf` is `chunk()`, any function from
versions to sequences of texts. The full-text index changes inside the same
transactions by triggers and is left out.

SemanticIndex is the corpus as a semantic search sees it: replacing a
document forgets its passages, embedding makes passages of current documents
findable, nothing else does. `ImplementsIndex` is the refinement.

### DiscourseSync (proofs: DiscourseSync_proofs)

The forum is part of the module: topics with their posts, highest post number and
last bump, which change (`NewTopic`, `Reply`, `Bump`, `DeletePost`,
`RemoveTopic`) between any two requests of a walk. `BeginSync` loads the
checkpoint; `ListPage` takes a page of the listing as it is at that moment,
pinned topics first (a topic's place there is the number of topics before it:
`Position`); `StopAtLimit`, `StopQuiet`, `Skip` and `FetchTopic` are what
can happen to an entry; `FetchBatch` asks for posts the first response did not
inline; `TopicGone` and `Fail` are errors; `EndPage` goes on to another page or
ends; `Finish` stores the checkpoint. `began` is not in the code: the time a walk
was given its checkpoint, which a property needs. A post is its number: the
bodies are left out, and edits in place with them (no listing shows those, which
is what `--force` is for).

### CorpusPull (proofs: CorpusPull_proofs)

The hosted box: the files `corpus` and `prev`, the tag on record (`state`), the
unit (`server`), and for each run of the script the next command that touches one
of them (`pc`). A release "answers", is "mute" (READY, but its server never
answers `initialize`) or is "refused" by the READY check; `Publish` picks which,
`Hide` is the prerelease switch. Each command under `set -e` may be the last
one: `Killed`, restricted by `KillStages` to the stages under study. `PowerLoss`
ends every run and boots the unit. What is in the staging directory is always the
download of the run that holds the flock, since taking it removes the directory;
so a run installs `tag[p]`.

### Pipeline (proofs: Pipeline_proofs)

What the commands do to one source between upstream and a release, and to each
other. A document is what one raw file yields. It appears upstream once and may disappear
once: quietly (`Deleted`), or, from a forum, with its whole topic, which leaves the listing
(`Delisted`). No walk meets such a topic again, and only a repository's sync removes
files (`sync.rs:194-195`), so its file and its documents stay. `raw` and `mirror` are the
directory, `db` the corpus (documents, whether all are embedded, the checkpoint,
mirror.absent, the lock row), `snap`, `art` and `release` what publish makes. Each slot of `run` holds a command and its stage:

| Action | Code |
|---|---|
| `BeginSync`, `Tarball`, `EndWalk`, `EndRepo`, `EndLimited`, `SyncFails` | `sync_sources` around an adapter's walk, whose details the next three modules and DiscourseSync have |
| `RecordCheckpoint`, `ClearFlag` | `set_checkpoint`, `mirror_rebuilt` |
| `LockRefused`, `ListRawFiles`, `IndexFiles`, `Prune`, `Embed` | the lock, `index_with` from the list of raw files to the deletion pass, the embed stage |
| `BeginPublish`, `Vacuum`, `Stamp`, `Compress`, `CreateRelease` | `publish::run`, with the lock dropped after the vacuum |
| `Kill` | a kill between any two of them |

A machine may begin with a corpus from a release (`Downloads`) and no mirror. Three
variables are history that no action reads: `lost` (documents a downloaded checkpoint
covers and its corpus lacks), `overtaken` (a walk of an older upstream had the last
word on their file, or they slid past the last walk that looked for them) and `clash` (a publish removed the files of another). They name
the exceptions that the code really has; the properties hold for everything else. For
`RemovalHonoured`, whose subject is a promise of the code, the exceptions stand in the
property: what an update owes (`owed`) is never reduced, and `behind` is, for each
command, what its raw files could not tell it when it listed them.

### RepoSync, FeedSync, PoliteClient with Manifest (proofs: Sources_proofs)

RepoSync is `RepoAdapter::sync` file by file. A content is the commit that wrote it.
`Commit` moves the branch between any two requests and `Configure` edits `paths`;
`BeginRepo` reads the head and takes the shortcut or not; then `GetTarball`, `Unpack`
one file, `RemoveFile` one file, `AskDate` one date, `EndRepoSync` with the new
checkpoint; `CutShort` ends it anywhere.

FeedSync is `FeedAdapter::sync` article by article, with the recheck window, the
addresses an article is read at, dead links, --force, --full and --limit; articles are
published and corrected between any two requests.

PoliteClient is `HttpClient::run_with_retries` on a clock: the throttle, the attempt, its
answer (success, failure, Retry-After), the backoff, over the sources of one sync, each
with a client of its own. Which sources may stand in one manifest is what Manifest says
(`Valid`, `Compatible`, `Parses`): that two crawled sources do not share a host is what makes
separate clients polite.

### Chunker, Retrieval, SpecText, SpecLookup, CorpusTools (with Orderings; proofs: Answers_proofs, Texts_proofs)

Orderings says what a sort and a loop that passes rows over return, by places
instead of by recursion: the element at a place is the one with so many before it.

Chunker is the three loops of `chunk.rs`, an iteration a step: `SplitLine` gathers a line
into a block (`split_blocks`), `Cut` takes a block, or the next piece of one over the hard
limit (`chunk`, `hard_split`), `Pack` puts a piece into the chunk that is gathered or begins
the next with the overlap seed (`pack`, `overlap_seed`). A line is its size and its markers,
and a block, or a piece, the interval of its positions in the content, so that the
properties can say where a text is cut without spelling it.

Retrieval fuses any ranking by words with any by
distance: the per-thread cap, the candidate cuts, reciprocal ranks.

SpecText is what `spec.rs` reads off the lines of a specification, as recursive functions.
SpecLookup is `lookup_spec_impl`: `OpenDocument` takes the next document and what it defines
that matches, `Push` is one `push_keyed`; `Definitions` is the sorted answer after the
documents gone through so far, and `carried` (history) says who carries what. Of the call
that a function too long to show ends in, the document is kept and the offset is not
(section 6).

CorpusTools is what the other tools
answer, and which call the end of an answer tells a client to make next (`todo`, `made`),
with the text that the client has seen so far (`shown`, history). A document that stands
alone points to `find_similar` (`Similar`), and so to any other document: `ReadToEnd`
promises its text, and says nothing of what else is read from there on.

### MC modules

`MC_WriterLock`, `MC_CorpusStore`, `MC_DiscourseSync`, `MC_CorpusPull` and
`MC_Pipeline` extend a module with the constants TLC needs (chunkings, process kinds,
sync intents). `MC_Parts` holds the parts that one process runs from beginning to end and
that share nothing: RepoSync, FeedSync, PoliteClient, and the pure algorithms. A behaviour is
one of a single part, and the others stay in a state they may begin in.
Definitions whose comment begins with "Mutant" are plausible bugs of the code; none
is used by a specification. PROJECT.json pairs each with the property that
refutes it, so that no property is one that nothing could break.

## 3. The runs

| Run | Instance | Shows |
|---|---|---|
| writer_lock | 3 writers, 4 pids, 1 unrelated process, MAX_HELD = 2 ticks | `Exclusive`, `RowIsHolders`, `NoWedge`, `Implements` |
| garbage_lock | 2 writers, a row that does not parse | violation of `GarbageClears` (section 6) |
| corpus_locked | 2 documents, 4 versions, an indexer, an embedder and an update, batches of 2, 5 rows | every property of the store under the lock |
| corpus_unlocked | the same without a lock, the table settled, no --force | the re-check of `write_embeddings` alone keeps vectors true |
| blind_handle | the same, no vector table yet | violation of `VectorDescribesChunk` (section 6) |
| forum | 3 topics, one pinned, pages of 1, 4 events, a walker with plain, limited and full intents | the properties of the walk |
| forum_two_walks | 2 walkers, 3 events | violation of `NeverBackwards` (section 6) |
| pull | 3 releases, a timer's and a manual run, one fault | the properties of the pull |
| pull_killed | a run killed while it probes | violation of `GoodKept` (section 6) |
| pipeline | 2 documents, 2 slots, 2 commands, kills, each kind of source, a new or a downloaded corpus | prune, removals, deliveries, checkpoints and releases over every overlap of two commands |
| mirror_rebuilt | a forum, 2 documents, 1 slot, 2 commands, no kills | violation of `FullWalkLosesNothing` (section 6) |
| parts | 2 paths (1 with a date of its own), 2 configurations, 3 commits, 3 syncs; 4 articles of 2 editions, a window of 1; 2 sources, 3 attempts, 12 ticks; texts of up to 5 lines; rankings of up to 3 rows over 4 documents; a shelf of 5 specifications; 2 corpora | the properties of RepoSync, FeedSync, PoliteClient and the pure algorithms |

Bounds, and why they are enough for the question asked:

- WriterLock. Three writers make a victim, a thief and a third who might slip in;
  the fourth pid leaves one free for an unrelated process. Ages matter only as
  young, at the bound (2) and beyond it.
- CorpusStore. Versions: one long chunk; two of them with the first text moved;
  a short chunk, never embedded; a retitled version that is cut into the same
  texts. Two documents of up to two chunks reuse each other's rowids. A batch of
  2 is smaller than the corpus. `MaxDone` stops an embedder that the indexer keeps feeding;
  without the lock it is 2 to keep the run short. Under the lock the corpus has no
  table, or one that an older model filled (with this model's dimension, so that only
  the name tells them apart); the current one is what an embed makes of either.
  Under the lock nobody re-cuts a chunk between a read and a write, so the stall guard never
  fires and nothing is added to what an embed counted: `EmbedEnds` shows that the loop ends by
  itself there, `ProgressInRange` that it counts right. Without the lock only
  `VectorDescribesChunk` is asked: on a settled table `ReadyIsComplete` would repeat it, and
  when the table is one of an older model both are false, for the reason that blind_handle
  shows.
- DiscourseSync. A page of one topic and a quiet run of one put every
  boundary (end of page, end of run, end of listing) between any two topics. One
  inlined post and batches of one make a topic of three posts take three requests.
  Four events let the listing move during a walk, and a further walk follow.
- CorpusPull. Three releases: one that is served, one that fails and one that
  supersedes it. One fault at a time: a kill up to the stop, a failed stop, a
  server that fails or is slow, or a power loss. Kills later in the swap break
  `RecordIsServed` for a while by design, and are the subject of pull_killed and
  of the proofs, which say exactly which kills `GoodKept` survives. A kill after
  the stop and before the move leaves the unit stopped, and if the newest
  release is refused or hidden by then no later run starts it: `ComesBack` fails when
  "aside" is added to `KillStages`. The script claims nothing about this, so it
  is listed as a hazard rather than a finding.

- Pipeline. Two documents let one be kept, lost or deleted beside another. Two commands
  overlap in every pair of stages, one of them may be killed at each, and an update is
  itself a sync, an index and an embed. One slot runs update and publish, the other
  sync, index and publish, so every pair the lock does not exclude occurs. The third
  command, which would only follow two that have ended, is left to the proofs, which
  bound neither.
- Parts, in a sync. Three commits and three syncs are a change, a change under a sync that is
  cut short, and the sync that must notice. A window of one over four articles lets one
  that failed sink out of it. Twelve ticks of half an interval hold three attempts with
  the longest waits, and the next source's first request.
- Parts, for a reader. The sizes put lines below, at and above the target (7), the overlap (4) and
  the hard limit (9). A cap of two per thread with three posts of one thread and one of
  another makes the cap bite. `RRF_WHOLE` is 61 x 62 x 63, so that no share is rounded.
  The shelf has a name defined twice in a text, two forks with the same function, a fence
  within a fence and one that never ends.

TLC checks for deadlock in the runs of the lock, the store, the forum and the pull,
which go on for ever. In pipeline, mirror_rebuilt and parts the commands, commits, ticks and
steps are bounded, so a behaviour really ends: these do without it.

## 4. Fairness

Safety needs none, and the properties of pipeline and parts are all safety.
The liveness properties assume:

- WriterLock (`NoWedge`): time passes; a writer that is after the lock is
  retried, because `update` runs from a timer; a waiting IMMEDIATE transaction
  is served. No holder is obliged to finish, and no other process to end: the row
  must go without them, which is what MAX_HELD is for.
- CorpusStore (`EmbedEnds`): a running embed takes its next step. It is not
  assumed that anybody else stops writing.
- DiscourseSync (`EverythingArrives`): a walk that does not fail goes on
  (weak); each kind of sync is asked for again and again (strong, because a
  walk in progress disables it). Events on the forum are bounded, which is the
  "once it is quiet" of the property.
- CorpusPull (`NewestServed`, `ComesBack`): the timer fires again and again, a run
  goes on to its end, the unit starts what it is told to, and does so now and then
  between two runs, which are 15 minutes apart (strong on `ServerOpens` with
  the flock free). A manual run does not hold the flock at every tick (strong on
  `Lock` of the timer's run). Nothing is assumed of manual runs beginning.

## 5. The proofs

They hold for every value of the constants under the modules' named assumptions
(distinct sentinels, a positive bound, well-typed functions).

**WriterLock_proofs**: `TypeCorrect`, `MutualExclusion`, `RowNamesHolder`,
`ImplementsAdvisory`. `Exclusive` is not inductive: a thief is admitted on what
the row says, so one must know that the row speaks for the holder. The invariant is
`TypeOK`, `PidsDistinct` (running writers have different pids), `StampsOwned` (a
stamp bears its writer's pid) and `RowIsHolders`. The key lemma, `HolderIsLive`,
says that a holder within the bound blocks everyone: its row is in place, its
pid is in /proc, its age is within the bound. Exclusion, and each step of the
refinement, follow from it.

**CorpusStore_proofs**: `TypeCorrect`; `VectorsAreCurrent` and `ReadyIsTrue` when
writers honour the lock; `VectorsAreCurrentUnlocked` when they do not, but every
corpus starts with its table settled. Under the lock the invariant `LockInv` adds
to the types that one writer is inside, that the table is empty between its
creation and the second of its labels, that a handle which does not know of
the table is at work only while it is empty (otherwise `delete_chunks` would leave
vectors behind), and that the labels in `meta`, when they match, tell the truth of
every vector. Without the lock `OpenInv` replaces exclusion by `Settled`: nobody has
a reason to rebuild the table and every handle knows of it. What carries the proof
then is the re-check in `write_embeddings` that a row still holds the text that was
read. The blind_handle run shows that the condition on the table cannot be
dropped.

**CorpusPull_proofs**: `TypeCorrect`; `NeverOnMovedFile` (no condition: the
corpus moves between a stop and the next start only, by the one run inside the
flock); `GoodAlwaysKept` on the condition `TrialsEnd`, that no run is killed at
"start", "probe", "undo" or "reject", the stages with an unproven corpus in place;
`RecordAlwaysServed` on the condition `SwapsEnd`, that none is killed between the
first move and the record. All three rest on `SwapInv`: one run inside the flock,
the server stopped between a stop and the next start, no file at $CORPUS between
the two moves. To it `SpareInv` adds: while a run
tries a corpus out the previous one works; otherwise the one in place does, or
none is in place and the previous one does. A kill between the two moves is
therefore harmless, and pull_killed shows that a kill at the probe is not.

**CorpusStore_proofs**, second half. `ChunksFollow` needs no lock: an upsert inserts above
every row of the other documents, so none is overwritten, and what it inserts is an
interval of rows (`IntervalHolds`). `ProgressStaysInRange` rests on `Counting`: what an
embed has written and what is still missing are at most what it counted, because the
re-check makes every row it writes one that was missing. `TablesImplementIndex` is the
refinement: `RowIsPassage` says that a row with a long text is a passage of its
document as it is now, which needs `ChunksFollowDocument`.

**Pipeline_proofs**, for any number of documents, slots and commands: `TypeCorrect`,
`CheckpointNeverLies`, `PruningIsSound`, `ReleasesAreUsable`, `RemovalsAreHonoured`,
`UpdatesDeliver`, under `PipelineAssumption` and `NoneAssumption`. None is inductive. `IInv`
says of each command in flight what stands between upstream and the corpus at its stage:
a walk that will clear the flag is about to make the mirror complete (`RebuildInv`), a
pass's list has what is live or its excuse (`ListInv`), a walk holds or has still to
fetch what it will claim (`ClaimInv`). To it `PublishInv` adds that, unless publishes
clashed, one is at work and what it has in hand is sound; `DutyInv` adds what an update
owes at each stage, removals and documents. `RemovalsAreHonoured` has the four exceptions
that `RemovalHonoured` names: a topic that left the listing as a whole; what a walk was
overtaken on, a topic that slid past the update's own walk included; a source without a
directory; a downloaded corpus or a feed, where nothing is owed. Each action is one lemma that proves the acting
command's part, and a lemma (`Others`) for the parts of the commands it runs beside.

**DiscourseSync_proofs**: `CountersVouch`. Equal counters say nothing of the posts by themselves:
a post may be added and another deleted between two requests. The invariant is that a
copy with the forum's highest number contains the forum's posts, and is not larger than
its count says (`Vouches`), for the files and for a topic between two batches together
with what is still to be asked for. With equal counts the two sets are then equal.

Second half: `ForumTypeCorrect`, without a condition; `WatermarkTellsTheTruth`,
`QuietWalkComplete` and `CheckpointMonotone` on the condition `OneWalk`, that walks of the
forum do not overlap. The condition is not for the prover's sake: forum_two_walks and
MC_ForumOverlap.cfg (section 6) show the last and the first broken without it. `WatermarkCovers` says
nothing of a walk in progress, so it is far from inductive. `CoverInv` adds what a walk
answers for (`WalkCovers`). A topic is due if it was last active no later than some entry
the walk has seen, or if nothing has happened since the walk began; every due topic is
on disk as it is now, or is in the page in hand as it is now, or stands below that page
in the listing. The page keeps the order in which its topics were last active, so what is
skipped or fetched never leaves a due topic above it. A bump moves its topic to the top
and what stood above it one place down, never up past the page that is asked for next, which is why
a walk that reads pages by number misses nothing that it will vouch for. The quiet run
may stop above due topics only when the checkpoint it was given covers them, and that
they are on disk then is `WatermarkCovers` itself. Positions are cardinalities, and distinct
topics have distinct ones, so that a page holds every topic whose place is in it is a
counting argument on finite sets: no induction over a sorted sequence is made.

**Sources_proofs**, the repository: `RepoTypeCorrect`, `CheckpointTrusted`, `DatesTrusted`. `TrustInv` follows a
sync through its phases; its heart is `TarballFresh`: the tarball is downloaded after
the head was read, so when that head is still the head the tarball is its tree. Read the other
way round nothing could be said. `DatesInv` keeps what is known of the dates in memory and
on disk apart, and the files a sync has changed (`dirty`) out of both.

The feed: `FeedTypeCorrect`, `EverythingRead`, from `PastRead`: every article
the sync is past has been read, or failed, however few it fetched.

The client: `ClientTypeCorrect`, `AlwaysWaits`, `AlwaysPolite`. The invariant says
that a sleep ends no sooner than it was asked to, that the client remembers the last
request to its host, and that crawled sources have hosts of their own (`HostsApart`, from
what the manifest accepts).

**Answers_proofs**, ranking: `ExactHitsStayFirst`. A strict order of a finite set puts each
element at a place of its own: the numbers of elements before them are distinct and below
the set's size, so all are taken (`PlaceTaken`), and no induction over a sorted sequence
is needed. What a loop keeps is then the kept places in ascending order (`PickedRows`).
On it rest what search returns (`CappedRows`: the kept documents of a thread have
different numbers of its documents before them, hence at most the cap) and what fusion
does, for limits up to `CANDIDATES`, which the MCP tools keep to (the CLI's `search --limit`
is not held to it): shares fall with the rank for any `RRF_WHOLE`, the number of parts that a score of 1
is counted in (rounding can make two shares equal but not turn them round), and of equal
scores the better lexical rank wins, so a document without a lexical rank comes after every
lexical hit of its rank or better (`ScoreOrders`).

Reading: `ReadersReachTheEnd`, for any corpus, page sizes and first call. `ReadToEnd` speaks
only of a client that has no calls left. `ToolsInv` says at every step that what a call made
has shown is in `shown` and what it hinted at is made or still to be made (`Answered`); and,
if the first call is for a thread (and not for a document that stands alone), that every call is one for another page of it or for
one of its posts (`LedTo`), which needs that the posts around a post of the thread are of the
thread (`MeantClosed`). When nothing is left to do, take an unread position of a text and,
of the calls made for it, the one that begins last at or before that position: its page
shows the position, or hints at a call that begins later and still before it (`ReadFrom`). The same
argument over the pages of a thread's index gives each reply a call of its own
(`ThreadRead`). That such a client is ever done is not stated.

**Texts_proofs**, the cut: `EveryDocumentIsCutSoundly`, for any lines and any limits with
OVERLAP_CHARS < TARGET_CHARS <= HARD_MAX_CHARS, which the three constants of `chunk.rs`
satisfy. `ChunksHold` speaks of the end only; `ChunkInv` says for each loop what its
iterations keep, and each loop's is what the next starts from. While lines are read
(`SplitFacts`): what was gathered begins where no fence or display math is open, and covers
with the finished blocks every line that is not blank. While blocks are cut (`CutFacts`,
`Reached`): the pieces rise at both ends, and of the block at hand they cover all
up to the overlap beyond where the next one starts; here OVERLAP_CHARS < TARGET_CHARS is
needed, or `hard_split` would not get on. While pieces are packed (`PackFacts`, `Links`):
the chunk that is gathered could stand after those made. That the pieces rise makes the one
that is added new to the last chunk, so two neighbours share the seed and nothing more. No
induction over a text is needed: the loops make it step by step.

The lookup: `LookupTellsTheTruth`, for any specifications and whatever SpecText reads off
them. `LookupInv` ties the groups to `carried`: a block's own document and those in `also`
are together the ones that carry it, a block that the fork asked for carries cites such a
document, and the call that reads a cut function on is for the document cited (`Told`). What is told of a
block follows: labels are used only if there is one for each document and none is the
cited one's, and a label is never an id (`LookupAssumption`: an id has a slash in it).
That the fork's own come first is the order of the weights (`AnswerSorted`).

Only model-checked: everything under fairness (`NoWedge`, `EmbedEnds`,
`EverythingArrives`, `NewestServed`, `ComesBack`), which the prover cannot
handle; and `NeverBackwards` where walks overlap, which is false there. What SpecText's
recursive functions read off a text is checked only as far as `LookupTells` shows it on the
texts of MC_Parts: that they find every definition is stated nowhere.

## 6. Where the code and its comments disagree

- `lock.rs:147-150` says that the age bound still clears an unparseable row. Such
  a row has no start time, so the bound never applies (run garbage_lock).
- `store.rs:879-884` says that no vector can outlive the content of its chunk, "even
  for writers the lock cannot see". It holds when the table exists before both
  writers open. A handle opened before the first embed creates it keeps
  `has_vec = false`, deletes chunks without their vectors, and the rowids go
  to other chunks (run blind_handle). An embed that rebuilds the table of an older model
  opens the same window for an indexer it cannot see.
- `sync.rs:344-345` says that the checkpoint never goes backwards. Two
  overlapping syncs of a source, which `main.rs:471-473` permits, can move it back;
  the price is a longer walk (run forum_two_walks).
- The same overlap costs more. One walk fetches a topic, a reply arrives, the other walk
  fetches and writes the topic, and the first writes its older response over the file.
  The second then records a checkpoint that covers the reply: MC_ForumOverlap.cfg, which is
  not among the runs, has TLC show it as a violation of `WatermarkCovers`. The next
  incremental walk may stop above that topic; a walk of the full listing, which `update`
  makes, or the topic's next bump repairs the file.
- `wikipethia-pull.sh:10-13` says that it fails safe at every step. A kill between
  the install and the record leaves an unproven corpus in place, which the next
  run moves over the last one that worked (run pull_killed).
- `main.rs:661-662` says that after an explicit `--full` walk of a forum "Ok means every
  fetch landed", and 647-648 that this is a complete mirror. A topic that is bumped while the walk
  is on its way down moves up past it and is not met. The walk is Ok, `mirror.absent` is cleared,
  and on a downloaded corpus the next index deletes the documents of a topic that is still
  there (run mirror_rebuilt). The walk after it brings the topic back, since the watermark stays
  below its bump.
- `main.rs:457-465` makes an update walk the full listings because "a removal request is
  exactly the case that must not wait". `RemovalHonoured` shows how far that goes. A deleted
  post reaches the corpus by the update, unless its topic slid past the update's own walk or
  an overlapping walk of an older forum wrote the file last: then it waits for the next one. A
  topic that is removed as a whole leaves the listing, no walk looks at its file again, and
  only repositories remove files (`sync.rs:194-195`), so it stays in the corpus for good. A source
  whose directory is missing is skipped, and a downloaded corpus prunes nothing until its
  mirror is rebuilt.
- `mod.rs:926-927` says that the hint of a function too long to show must land on the function.
  The offset is that of the first place in the document that has the function's first line
  (934-939), which is another one when that line occurs before. SpecLookup keeps the
  document of the hint only, so `LookupTells` says nothing of the offset.

Behaviour that no comment contradicts, met while modelling, which the properties name as
exceptions or a reader should know:

- `repo.rs:553-561` drops the dates of changed files in memory only. A sync that is cut
  short before the next answer leaves the old date in `dates.json`, with the changed
  file, until --force (`undated` in RepoSync). A file without `created:` is asked its
  date at every sync, which the parser then does not use (639-642, 337-358). A removal that
  fails is ignored, and its date dropped (543).
- A release may hold a checkpoint ahead of its documents, since sync records it before
  index has run; a machine that starts from it misses them until they change (`lost`).
- Two publishes of one tag may overlap once the first has dropped the lock (`clash`).
- Requests are spaced within one process; overlapping syncs, two repositories on
  github.com, and pages of a feed on other hosts are not spaced between them. The
  Retry-After of the last attempt of a call is dropped.
- `hybrid_search` compares the dimension of the vectors with the embedder's, not the model
  (`store.rs:964-967`). `similar_docs` of a long document may return few neighbours, since
  its own chunks fill the candidates (736).
- An overlap seed may make a chunk that the next one contains whole.

## 7. Not modelled

The parsers and the HTML and XML cleaning (text to text, without state, whose properties
are about wording), the embedding model (a third-party model behind two calls), the
evaluation and report commands (offline measurement), the transports of the MCP server,
the wording of messages and the layout of files.

In the modelled parts: `sync_topic` and progress notes; the `.tmp` file that two
overlapping walks of one forum share (every module replaces a file in one step); a
repository's removal that fails unnoticed; a force-push that takes the branch back; the v1
chunk backfill, the read-only open and the `sources` table; the import of an old
sync.json; in the pull, `--dry-run`, a box without a service and the WAL sidecars. Codes of
SQLite errors other than "the transaction did not happen" are not told apart.

## 8. The plan

Done, in this order: WriterLock, CorpusStore, DiscourseSync and CorpusPull; then
Pipeline with publish, RepoSync, FeedSync, PoliteClient with Manifest, the pure
algorithms, and the proofs of section 5, which cover every safety property that a passing
run checks.

Left, by what is at stake:

1. The `.tmp` file and `sync_topic`, as a module of two walkers over one file name: a
   torn file is stale and heals, unless `sync_topic` keeps it.
2. A removal that fails in the deletion pass of a repository, and a branch that is
   moved back, in RepoSync and its proofs.
