------------------------------ MODULE MC_Parts ------------------------------
(***************************************************************************)
(* An instance for TLC of the parts that one process runs from beginning   *)
(* to end.  In a sync: one repository, one feed, the requests of two       *)
(* sources.  For a reader: how a text is cut, how documents are ranked,    *)
(* what lookup_spec tells, where the hints of the tools lead.  They share  *)
(* nothing, so a behaviour is one of a single part; the others stay in a   *)
(* state they may begin in.                                                *)
(***************************************************************************)
EXTENDS RepoSync, FeedSync, PoliteClient, Chunker, Retrieval, SpecLookup, CorpusTools,
        TLC

VARIABLE part  \* what this behaviour is of

MCConfigs == {{"a", "b"}, {"a"}}

MCEntry(id, host, kind) ==
  [id |-> id, url |-> id, host |-> host, kind |-> kind,
   given |-> IF kind = "repo" THEN {"branch", "paths", "doc_url"} ELSE {},
   sound |-> {"id", "url", "tier"} \cup RepoFields,
   tracks |-> FALSE, atHead |-> FALSE]

MCEntries == {MCEntry("forum", "h", "discourse"), MCEntry("blog", "h", "feed"),
              MCEntry("eips", "g", "repo"), MCEntry("ercs", "g", "repo")}

MCLine(text, marks) == [text |-> text, marks |-> marks]
MCLines == {MCLine(0, {}), MCLine(1, {}), MCLine(4, {}), MCLine(12, {}),
            MCLine(3, {"fence"}), MCLine(2, {"math"})}

MCRanked(num, source, title) == [num |-> num, source |-> source, title |-> title]
MCDocs == {MCRanked(1, "forum", "t"), MCRanked(2, "forum", "t"),
           MCRanked(3, "forum", "t"), MCRanked(4, "eips", "t")}

(* Texts for lookup_spec: a name defined twice, one fork's Python file and *)
(* another's fence with the same function, a fence in a longer fence, and  *)
(* Solidity in a fence that does not say so and never ends.                *)
MCLn(kind) == [k |-> kind]
MCTicks(n, info) == [k |-> "ticks", n |-> n, info |-> info]
MCNamed(kind, name) == [k |-> kind, name |-> name, value |-> "v"]
MCBrace(kind, brace) == [k |-> kind, name |-> "f", brace |-> brace]

MCTexts == {
  <<MCNamed("row", "C"), MCNamed("row", "C")>>,
  <<MCNamed("row", "CX"), MCTicks(3, "python"), MCNamed("def", "f"), MCLn("text"),
    MCLn("text"), MCLn("blank"), MCNamed("def", "g"), MCTicks(3, "")>>,
  <<MCNamed("def", "f"), MCLn("text"), MCLn("text"), MCLn("blank"), MCLn("stmt"),
    MCNamed("def", "f")>>,
  <<MCTicks(4, ""), MCTicks(3, "python"), MCNamed("def", "f"), MCTicks(3, ""),
    MCTicks(4, ""), [k |-> "head", text |-> "h"], MCNamed("row", "C")>>,
  <<MCTicks(3, "javascript"), MCLn("pragma"), MCLn("comment"), MCBrace("fun", "{"),
    MCBrace("brace", "}"), MCBrace("fun", ";"), MCNamed("const", "C")>>}

MCFrame(id, label, forks, python, tier) ==
  [id |-> id, label |-> label, forks |-> forks, python |-> python, tier |-> tier,
   status |-> ""]
MCShelf == <<MCFrame("ercs/1", "", {}, FALSE, "spec"),
             MCFrame("forum/post/1", "", {}, FALSE, "forum"),
             MCFrame("specs/phase0/a", "phase0", {"phase0"}, FALSE, "spec"),
             MCFrame("specs/phase0/b", "phase0", {"phase0"}, FALSE, "spec"),
             MCFrame("xforks/electra/a.py", "electra", {"electra"}, TRUE, "spec")>>

MCVariants == "C" :> {"C", "CX"} @@ "f" :> {"f"}

(* A thread with a gap, a post without a number, a reply without text and  *)
(* one that needs pages; a topic of the same number in another forum; a    *)
(* document that stands alone.                                             *)
MCDoc(id, source, topic, number, size) ==
  [id |-> id, source |-> source, topic |-> topic, number |-> number, size |-> size,
   embedded |-> size > 1]
MCCorpora == {
  {},
  {MCDoc(1, "f", 1, 1, 7), MCDoc(2, "f", 1, None, 5), MCDoc(3, "f", 1, 4, 1),
   MCDoc(4, "f", 1, 2, 4), MCDoc(5, "o", 1, 1, 2), MCDoc(6, "o", None, None, 7),
   MCDoc(7, "f", 2, 1, 0)}}

MCInit ==
  /\ part \in {"repo", "feed", "client", "chunks", "ranking", "lookup", "reading"}
  /\ RepoInit
  /\ part # "repo" => tree = [p \in Paths |-> 0] /\ config = {"a"} /\ ~ absent
  /\ FeedInit
  /\ part # "feed" => verbatim
  /\ ClientInit
  /\ part # "client" => selected = <<MCEntry("forum", "h", "discourse")>>
  /\ ChunkInit
  /\ RetrievalInit
  /\ part # "ranking" => scope = Everywhere
  /\ LookupInit
  /\ part # "lookup" => asked = [name |-> "C", fork |-> NoFork]
  /\ ToolsInit
  /\ part # "reading" => corpus = {}

(* The variables of a sync's parts, and of a reader's. *)
syncVars == <<repoVars, feedVars, clientVars>>
readerVars == <<chunkVars, retrievalVars, lookupVars, toolsVars>>

MCSync ==
  \/ part = "repo" /\ RepoNext /\ UNCHANGED <<feedVars, clientVars>>
  \/ part = "feed" /\ FeedNext /\ UNCHANGED <<repoVars, clientVars>>
  \/ part = "client" /\ ClientNext /\ UNCHANGED <<repoVars, feedVars>>

MCReader ==
  \/ part = "chunks" /\ ChunkNext /\ UNCHANGED <<retrievalVars, lookupVars, toolsVars>>
  \/ /\ part = "ranking" /\ (AnotherMatch \/ AnotherNeighbour)
     /\ UNCHANGED <<chunkVars, lookupVars, toolsVars>>
  \/ part = "lookup" /\ LookupNext /\ UNCHANGED <<chunkVars, retrievalVars, toolsVars>>
  \/ part = "reading" /\ ToolsNext /\ UNCHANGED <<chunkVars, retrievalVars, lookupVars>>

MCNext ==
  /\ UNCHANGED part
  /\ \/ MCSync /\ UNCHANGED readerVars
     \/ MCReader /\ UNCHANGED syncVars

MCSpec == MCInit /\ [][MCNext]_<<part, syncVars, readerVars>>
=============================================================================
