---------------------------- MODULE CorpusTools -----------------------------
(***************************************************************************)
(* The tools of the MCP server, as a client that follows their hints meets *)
(* them: every page names the call that gets the next one.                 *)
(*   wikipethia-mcp/src/lib.rs           serve                             *)
(*   wikipethia-mcp/src/tools/mod.rs     search_posts, get_topic,          *)
(*                                       get_post_context, find_similar    *)
(*   wikipethia-mcp/src/tools/format.rs  window, truncate_block            *)
(* The corpus stays as it is while a client reads.  Of a document's text   *)
(* there is its length; which documents a search finds is in Retrieval,    *)
(* and here any.  lookup_spec is in SpecLookup.                            *)
(***************************************************************************)
EXTENDS Integers, Orderings, FiniteSetsExt, SequencesExt

CONSTANTS
  Corpora,            \* the sets of documents a corpus may be
  Befores, Offsets,   \* bound: what the first call passes
  OP_MAX_CHARS,
  NEIGHBOR_MAX_CHARS,
  REPLY_PAGE,
  MAX_CONTEXT,
  DEFAULT_BEFORE, DEFAULT_AFTER,
  None

(* topic is None in a document that stands alone, number in a post without *)
(* a post_number.                                                          *)
ASSUME ToolsAssumption ==
  /\ \A c \in Corpora :
       /\ IsFiniteSet(c)
       /\ \A d \in c : /\ d.id \in Nat \ {0} /\ d.size \in Nat
                      /\ d.number \in Nat \cup {None} /\ d.topic \in Nat \cup {None}
                      /\ d.source \notin {None, "typo"}
       /\ \A d, e \in c : d.id = e.id => d = e
  /\ {OP_MAX_CHARS, NEIGHBOR_MAX_CHARS, REPLY_PAGE} \subseteq Nat \ {0}
  /\ Befores \cup Offsets \cup {MAX_CONTEXT, DEFAULT_BEFORE, DEFAULT_AFTER} \subseteq Nat
  /\ None \notin Nat \cup {"typo"}

VARIABLES
  corpus,    \* the documents of the corpus
  serving,   \* the server: "down", "up", "refused"
  first,     \* the client's first call
  todo,      \* the calls it was told of and has not made
  made,      \* those it has
  shown      \* history: id -> the positions of its text the client has read

toolsVars == <<corpus, serving, first, todo, made, shown>>

Ids == {d.id : d \in corpus}
Doc(id) == CHOOSE d \in corpus : d.id = id
Embedded == {d \in corpus : d.embedded}

ToolsInit ==
  /\ corpus \in Corpora
  /\ serving = "down"
  /\ first = None /\ todo = {} /\ made = {}
  /\ shown = [id \in Ids |-> {}]

(* serve *)
Serve ==
  /\ serving = "down"
  /\ serving' = IF corpus = {} THEN "refused" ELSE "up"
  /\ UNCHANGED <<corpus, first, todo, made, shown>>
-----------------------------------------------------------------------------
ContextCall(id, before, after, offset) ==
  [tool |-> "context", doc |-> id, before |-> before, after |-> after, offset |-> offset]

Context(id) == ContextCall(id, DEFAULT_BEFORE, DEFAULT_AFTER, 0)

(* Where a document that stands alone points to: related discussion.      *)
Similar(id) == [tool |-> "similar", doc |-> id]

TopicCall(id, topic, source, offset) ==
  [tool |-> "topic", doc |-> id, topic |-> topic, source |-> source, offset |-> offset]

(* What a call returns: the text it shows and the calls it hints at. *)
Page(text, hints) == [ok |-> TRUE, text |-> text, hints |-> hints]
Error == [ok |-> FALSE, text |-> <<>>, hints |-> {}]

Part(id, from, to) == [id |-> id, chars |-> from .. to - 1]

ShownEnd(d, offset) == Min({offset + OP_MAX_CHARS, d.size})

(* Mutant: the hint passes the size of a page on, not where it ended.      *)
WindowHints_OnePage(d, offset) ==
  IF ShownEnd(d, offset) < d.size
  THEN {ContextCall(d.id, DEFAULT_BEFORE, DEFAULT_AFTER, OP_MAX_CHARS)} ELSE {}

WindowHints(d, offset) ==
  IF ShownEnd(d, offset) < d.size
  THEN {ContextCall(d.id, DEFAULT_BEFORE, DEFAULT_AFTER, ShownEnd(d, offset))} ELSE {}

(* Past the end there is neither text nor a hint. *)
Window(d, offset) == Part(d.id, offset, ShownEnd(d, offset))

(* truncate_block: a neighbour is cut tighter, and read by a call for it. *)
Block(d) == Part(d.id, 0, Min({NEIGHBOR_MAX_CHARS, d.size}))
BlockHints(d) == IF d.size > NEIGHBOR_MAX_CHARS THEN {Context(d.id)} ELSE {}

(* find_by_meta by topic_id, and by source if it is known.                 *)
Posts(topic, source) == {d \in corpus : d.topic = topic /\ source \in {None, d.source}}

(* By post_number, those without one last. *)
Thread(topic, source) ==
  LET posts == Posts(topic, source)
      before(d, e) ==
        \/ d.number = e.number /\ d.id < e.id
        \/ /\ d.number # None /\ d.number # e.number
           /\ e.number = None \/ d.number < e.number
  IN  InOrder(posts, {p \in posts \X posts : before(p[1], p[2])})

(* The original post and one page of the replies. *)
TopicPage(call, posts) ==
  LET op == posts[1]
      replies == SubSeq(posts, 2, Len(posts))
      end == Min({call.offset + REPLY_PAGE, Len(replies)})
      index == {replies[i] : i \in call.offset + 1 .. end}
  IN  Page(<<Window(op, 0)>>,
           WindowHints(op, 0) \cup {Context(d.id) : d \in index}
           \cup IF end < Len(replies) THEN {[call EXCEPT !.offset = end]} ELSE {})

(* get_topic.  A document pins the source; a number alone must not be in   *)
(* two forums; a document that stands alone is sent elsewhere.             *)
GetTopic(call) ==
  LET doc == Doc(call.doc)
      byDoc == call.doc # None
      known == call.source = None \/ call.source \in {d.source : d \in corpus}
      topic == IF call.topic # None \/ ~ byDoc THEN call.topic ELSE doc.topic
      posts == Thread(topic, IF byDoc THEN doc.source ELSE call.source)
  IN  CASE ~ known \/ (byDoc /\ call.doc \notin Ids) -> Error
        [] known /\ ~ byDoc /\ call.topic = None -> Error
        [] known /\ byDoc /\ call.doc \in Ids /\ topic = None ->
             Page(<<>>, {Context(call.doc), Similar(call.doc)})
        [] OTHER -> IF Cardinality({d.source : d \in ToSet(posts)}) # 1 THEN Error
                    ELSE TopicPage(call, posts)

(* A page after the first is of the requested post alone. *)
ContextPage(call, doc, posts) ==
  LET pos == CHOOSE i \in DOMAIN posts : posts[i] = doc
      reach(n) == IF call.offset > 0 THEN 0 ELSE Min({n, MAX_CONTEXT})
      start == IF reach(call.before) >= pos THEN 1 ELSE pos - reach(call.before)
      end == Min({pos + reach(call.after), Len(posts)})
      around == {posts[i] : i \in (start .. end) \ {pos}}
  IN  Page([i \in 1 .. end - start + 1 |->
              IF start + i - 1 = pos THEN Window(doc, call.offset)
              ELSE Block(posts[start + i - 1])],
           WindowHints(doc, call.offset) \cup UNION {BlockHints(d) : d \in around})

GetPostContext(call) ==
  LET doc == Doc(call.doc)
  IN  IF call.doc \notin Ids THEN Error
      ELSE IF doc.topic = None
           THEN Page(<<Window(doc, call.offset)>>,
                     WindowHints(doc, call.offset) \cup {Similar(call.doc)})
           ELSE ContextPage(call, doc, Thread(doc.topic, doc.source))

(* search_posts and find_similar show excerpts; a blank scope, an unknown  *)
(* document, no vectors and a text too short to have one are told apart.   *)
SearchPosts(call, hits) ==
  IF call.source = "" THEN Error ELSE Page(<<>>, {Context(id) : id \in hits})

FindSimilar(call, hits) ==
  IF call.doc \notin Ids THEN Error
  ELSE IF Embedded = {} \/ Doc(call.doc) \notin Embedded THEN Page(<<>>, {})
  ELSE Page(<<>>, {Context(id) : id \in hits \ {call.doc}})

Answers(call) ==
  CASE call.tool = "topic" -> {GetTopic(call)}
    [] call.tool = "context" -> {GetPostContext(call)}
    [] call.tool = "search" ->
         {SearchPosts(call, {id}) :
            id \in {d.id : d \in {e \in corpus : call.source \in {None, e.source}}}}
         \cup {SearchPosts(call, {})}
    [] call.tool = "similar" ->
         {FindSimilar(call, {id}) : id \in {d.id : d \in Embedded}}
         \cup {FindSimilar(call, {})}

(* What a client may begin with. *)
Sources == {d.source : d \in corpus} \cup {None, "typo"}
FirstTopics ==
  {TopicCall(id, topic, source, 0) :
     id \in Ids \cup {None, 0}, topic \in {d.topic : d \in corpus} \cup {None},
     source \in Sources}
FirstContexts ==
  [tool : {"context"}, doc : Ids \cup {0}, before : Befores, after : Befores, offset : Offsets]
OtherCalls ==
  [tool : {"search"}, source : Sources \cup {""}] \cup [tool : {"similar"}, doc : Ids \cup {0}]
FirstCalls == FirstTopics \cup FirstContexts \cup OtherCalls

Begin ==
  /\ serving = "up" /\ todo = {} /\ made = {}
  /\ \E call \in FirstCalls : first' = call /\ todo' = {call}
  /\ UNCHANGED <<corpus, serving, made, shown>>

(* The store is behind a mutex: one call at a time is answered. *)
Answer ==
  \E call \in todo : \E page \in Answers(call) :
    /\ made' = made \cup {call}
    /\ todo' = (todo \cup page.hints) \ made'
    /\ shown' = [id \in Ids |->
                   shown[id] \cup UNION {part.chars : part \in {p \in ToSet(page.text) : p.id = id}}]
    /\ UNCHANGED <<corpus, serving, first>>

ToolsNext == Serve \/ Begin \/ Answer

ToolsSpec == ToolsInit /\ [][ToolsNext]_toolsVars
-----------------------------------------------------------------------------
(* The thread a call of get_topic is about, if it can be told. *)
Meant(call) ==
  LET byDoc == call.doc # None
      topic == IF call.topic # None \/ ~ byDoc THEN call.topic ELSE Doc(call.doc).topic
      source == IF byDoc THEN Doc(call.doc).source ELSE call.source
      posts == Posts(topic, source)
  IN  IF (byDoc /\ call.doc \notin Ids) \/ topic = None THEN {}
      ELSE IF call.source \in Sources \ {"typo"} /\ Cardinality({d.source : d \in posts}) = 1
           THEN posts ELSE {}

(* A client that has made every call it was told of, in any order, has     *)
(* read: of a document it asked for, all the text from its offset on; of a *)
(* thread, all of every post, and of other documents nothing.  A thread    *)
(* that cannot be told from another's of the same number is not read.  A   *)
(* document that stands alone points to find_similar, and so anywhere: of  *)
(* what else is read from there on nothing is said.                        *)
ReadToEnd ==
  (todo = {} /\ made # {}) =>
    /\ \A call \in made :
         call.tool = "context" /\ call.doc \in Ids =>
           call.offset .. Doc(call.doc).size - 1 \subseteq shown[call.doc]
    /\ first.tool = "topic" =>
         LET read == {id \in Ids : shown[id] # {}}
             alone == first.doc \in Ids /\ first.topic = None /\ Doc(first.doc).topic = None
         IN  ~ alone => /\ read \subseteq {d.id : d \in Meant(first)}
                        /\ \A d \in Meant(first) : shown[d.id] = 0 .. d.size - 1
=============================================================================
