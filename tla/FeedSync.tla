------------------------------ MODULE FeedSync ------------------------------
(***************************************************************************)
(* The sync of a blog from its feed.                                       *)
(*   wikipethia-fetch/src/feed.rs  FeedAdapter                             *)
(* Articles are numbered in the order they are published; the feed lists   *)
(* all of them, newest first, and does not say when one was corrected.     *)
(* What is stored of an article is the edition its text is from and the    *)
(* address it was read at, by which the code tells two copies apart.  An   *)
(* article is corrected, and another published, between any two requests.  *)
(***************************************************************************)
EXTENDS Naturals

CONSTANTS
  NumArticles,    \* bound: the articles ever published
  MaxEdition,     \* bound: editions of one article
  Unusable,       \* articles whose link gives no file name
  RecheckRecent,  \* RECHECK_RECENT: how far down a routine sync compares
  Limit           \* the number a `--limit` gives

Articles == 1 .. NumArticles

ASSUME FeedAssumption ==
  /\ NumArticles \in Nat \ {0} /\ MaxEdition \in Nat \ {0}
  /\ Unusable \subseteq Articles
  /\ RecheckRecent \in Nat /\ Limit \in Nat

VARIABLES
  published,  \* how many articles the feed lists
  edition,    \* article -> its edition upstream
  verbatim,   \* do the descriptions carry the articles (is_full_content)?
  posts,      \* posts/: article -> the wrapper on disk
  reader      \* the sync

feedVars == <<published, edition, verbatim, posts, reader>>

NoPost == [edition |-> 0, at |-> "feed"]
Wrappers == [edition : 0 .. MaxEdition, at : {"feed", "rebased", "original"}]
Intents == {"routine", "full", "force", "limit"}

(* listed, editions, verbatim: the feed as it was when it was read;        *)
(* position: the next item; processed: SyncStats.processed; failed: items  *)
(* dead under both addresses.                                              *)
Readers == [pc : {"idle", "items"}, intent : Intents,
            listed : 0 .. NumArticles, editions : [Articles -> 0 .. MaxEdition],
            verbatim : BOOLEAN, position : 0 .. NumArticles,
            processed : 0 .. NumArticles, failed : SUBSET Articles]

NotReading == [pc |-> "idle", intent |-> "routine", listed |-> 0,
               editions |-> [a \in Articles |-> 0], verbatim |-> FALSE,
               position |-> 0, processed |-> 0, failed |-> {}]

FeedTypeOK ==
  /\ published \in 0 .. NumArticles
  /\ edition \in [Articles -> 0 .. MaxEdition]
  /\ verbatim \in BOOLEAN
  /\ posts \in [Articles -> Wrappers]
  /\ reader \in Readers

FeedInit ==
  /\ published = 1
  /\ edition = [a \in Articles |-> IF a = 1 THEN 1 ELSE 0]
  /\ verbatim \in BOOLEAN
  /\ posts = [a \in Articles |-> NoPost]
  /\ reader = NotReading
-----------------------------------------------------------------------------
PublishArticle ==
  /\ published < NumArticles
  /\ published' = published + 1
  /\ edition' = [edition EXCEPT ![published + 1] = 1]
  /\ UNCHANGED <<verbatim, posts, reader>>

CorrectArticle(a) ==
  /\ edition[a] \in 1 .. MaxEdition - 1
  /\ edition' = [edition EXCEPT ![a] = @ + 1]
  /\ UNCHANGED <<published, verbatim, posts, reader>>

(* The whole feed, which is kept as feed.xml, in one request. *)
BeginFeed(intent) ==
  /\ reader.pc = "idle"
  /\ reader' = [NotReading EXCEPT !.pc = "items", !.intent = intent,
                                  !.listed = published, !.editions = edition,
                                  !.verbatim = verbatim]
  /\ UNCHANGED <<published, edition, verbatim, posts>>

(* The item a position stands for, newest first. *)
ItemAt(position) == reader.listed - position

Known(a) == posts[a] # NoPost

(* Mutant: the window is for all items, stored or not.                     *)
WillExamine_Windowed(a, position) ==
  \/ reader.verbatim
  \/ reader.intent \in {"full", "force"}
  \/ position < RecheckRecent

WillExamine(a, position) ==
  \/ ~ Known(a)
  \/ reader.verbatim
  \/ reader.intent \in {"full", "force"}
  \/ position < RecheckRecent

More ==
  /\ reader.pc = "items" /\ reader.position < reader.listed
  /\ reader.intent = "limit" => reader.processed < Limit

Pass(counted, failures) ==
  reader' = [reader EXCEPT !.position = @ + 1, !.processed = @ + counted,
                           !.failed = @ \cup failures]

PassOver(a) ==
  /\ More /\ a = ItemAt(reader.position)
  /\ \/ a \in Unusable /\ Pass(0, {})
     \/ a \notin Unusable /\ ~ WillExamine(a, reader.position) /\ Pass(1, {})
  /\ UNCHANGED <<published, edition, verbatim, posts>>

(* The article from the feed, or from its page as it is now: under the     *)
(* feed's own origin, or else under the link the feed gives.               *)
Fetches(a) ==
  IF reader.verbatim THEN {[edition |-> reader.editions[a], at |-> "rebased"]}
  ELSE {[edition |-> edition[a], at |-> address] : address \in {"rebased", "original"}}

(* A copy that differs in anything is written; --force compares nothing    *)
(* and writes the same.                                                    *)
FetchArticle(a) ==
  /\ More /\ a = ItemAt(reader.position)
  /\ a \notin Unusable /\ WillExamine(a, reader.position)
  /\ \E wrapper \in Fetches(a) : posts' = [posts EXCEPT ![a] = wrapper]
  /\ Pass(1, {})
  /\ UNCHANGED <<published, edition, verbatim>>

(* Dead under both addresses: the next sync tries again. *)
DeadLink(a) ==
  /\ More /\ a = ItemAt(reader.position)
  /\ a \notin Unusable /\ WillExamine(a, reader.position)
  /\ ~ reader.verbatim
  /\ Pass(0, {a})
  /\ UNCHANGED <<published, edition, verbatim, posts>>

(* The end of the feed or of the limit; or a kill, or a full disk. *)
EndFeed ==
  /\ reader.pc = "items"
  /\ reader' = NotReading
  /\ UNCHANGED <<published, edition, verbatim, posts>>

FeedNext ==
  \/ PublishArticle
  \/ \E a \in Articles :
       CorrectArticle(a) \/ PassOver(a) \/ FetchArticle(a) \/ DeadLink(a)
  \/ \E intent \in Intents : BeginFeed(intent)
  \/ EndFeed

FeedSpec == FeedInit /\ [][FeedNext]_feedVars
-----------------------------------------------------------------------------
(* A sync that has read its feed to the end holds every article it listed  *)
(* but for dead links ("an item with no local copy is always fetched       *)
(* wherever it sits in the feed"), whatever earlier syncs missed; and none *)
(* of the newest RECHECK_RECENT, or under --full none at all, in an older  *)
(* edition than the one upstream when it began.                            *)
NothingUnread ==
  reader.pc = "items" /\ reader.position = reader.listed =>
    \A a \in 1 .. reader.listed \ (Unusable \cup reader.failed) :
      /\ Known(a)
      /\ reader.intent \in {"full", "force"} \/ reader.listed - a < RecheckRecent
           => posts[a].edition >= reader.editions[a]
=============================================================================
