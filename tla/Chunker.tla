------------------------------ MODULE Chunker -------------------------------
(***************************************************************************)
(* How the content of a document is cut into the chunks that are indexed.  *)
(*   wikipethia-core/src/chunk.rs                                          *)
(* The three loops of the module, one iteration a step: over the lines     *)
(* (split_blocks), over the blocks and the pieces of the long ones (chunk, *)
(* hard_split), over the pieces (pack).  A line is how long it is and      *)
(* which markers it carries; a block or a piece of one is the interval of  *)
(* its positions in the content; a chunk is a sequence of pieces, each     *)
(* with where it begins in the text they make with a blank line between.   *)
(***************************************************************************)
EXTENDS Integers, FiniteSetsExt, SequencesExt

CONSTANTS
  Lines,          \* the lines a document may have
  MaxLines,       \* bound: their number
  TARGET_CHARS,
  OVERLAP_CHARS,
  HARD_MAX_CHARS

ASSUME ChunkerAssumption ==
  /\ Lines \subseteq [text : Nat, marks : SUBSET {"fence", "math"}]
  /\ MaxLines \in Nat
  /\ OVERLAP_CHARS \in Nat /\ TARGET_CHARS \in Nat /\ HARD_MAX_CHARS \in Nat
  /\ OVERLAP_CHARS < TARGET_CHARS /\ TARGET_CHARS <= HARD_MAX_CHARS

VARIABLES
  pass,     \* which loop runs: "split", "cut", "pack", or "done"
  content,  \* the lines read: where each starts, its length, the region it is in
  region,   \* in_fence and in_math, of which at most one is set
  cur,      \* split_blocks: the block that is gathered; empty at first
  blocks,   \* split_blocks: what it returns
  cut,      \* chunk: how many blocks are done with
  start,    \* hard_split: where in its block the next piece starts
  pieces,   \* chunk: the blocks to be packed
  packed,   \* pack: how many of them are
  chunk,    \* pack: the chunk that is gathered (cur)
  chunks    \* pack: what it returns

chunkVars == <<pass, content, region, cur, blocks, cut, start, pieces, packed, chunk, chunks>>

Size(piece) == piece.to - piece.from

Empty == [from |-> 0, to |-> 0]

ChunkInit ==
  /\ pass = "split" /\ content = <<>> /\ region = "none" /\ cur = Empty /\ blocks = <<>>
  /\ cut = 0 /\ start = 0 /\ pieces = <<>>
  /\ packed = 0 /\ chunk = <<>> /\ chunks = <<>>
-----------------------------------------------------------------------------
(* Where the next line starts: each line ends with a newline. *)
Total(lines) ==
  IF lines = <<>> THEN 0 ELSE Last(lines).at + Last(lines).text + 1

(* A fence marker counts outside math, $$ outside a fence. *)
Toggled(in, marks) ==
  CASE in # "math" /\ "fence" \in marks -> IF in = "fence" THEN "none" ELSE "fence"
    [] in # "fence" /\ "math" \in marks /\ (in = "math" \/ "fence" \notin marks) ->
         IF in = "math" THEN "none" ELSE "math"
    [] OTHER -> in

Flushed == IF Size(cur) = 0 THEN blocks ELSE Append(blocks, cur)

(* The next line, whatever it is.  Blank lines between blocks are dropped, *)
(* those of a region are not.                                              *)
SplitLine ==
  /\ pass = "split" /\ Len(content) < MaxLines
  /\ \E line \in Lines :
       LET at == Total(content)
       IN  /\ content' = Append(content, [at |-> at, text |-> line.text, in |-> region])
           /\ IF region = "none" /\ line.text = 0
              THEN /\ blocks' = Flushed /\ cur' = Empty
                   /\ UNCHANGED region
              ELSE /\ cur' = [from |-> IF Size(cur) = 0 THEN at ELSE cur.from,
                              to |-> at + line.text]
                   /\ region' = Toggled(region, line.marks)
                   /\ UNCHANGED blocks
  /\ UNCHANGED <<pass, cut, start, pieces, packed, chunk, chunks>>

SplitEnd ==
  /\ pass = "split" /\ pass' = "cut"
  /\ blocks' = Flushed /\ cur' = Empty
  /\ UNCHANGED <<content, region, cut, start, pieces, packed, chunk, chunks>>

(* A block, or if it is over the hard limit the next piece of it. *)
Cut ==
  /\ pass = "cut" /\ cut < Len(blocks)
  /\ LET block == blocks[cut + 1]
         from == block.from + start
         to == IF Size(block) > HARD_MAX_CHARS /\ from + TARGET_CHARS < block.to
               THEN from + TARGET_CHARS ELSE block.to
     IN  /\ pieces' = Append(pieces, [from |-> from, to |-> to])
         /\ IF to = block.to THEN cut' = cut + 1 /\ start' = 0
            ELSE start' = to - OVERLAP_CHARS - block.from /\ UNCHANGED cut
  /\ UNCHANGED <<pass, content, region, cur, blocks, packed, chunk, chunks>>

CutEnd ==
  /\ pass = "cut" /\ cut = Len(blocks) /\ pass' = "pack"
  /\ UNCHANGED <<content, region, cur, blocks, cut, start, pieces, packed, chunk, chunks>>
-----------------------------------------------------------------------------
(* The length of what is gathered, cur_len. *)
Joined(c) == IF c = <<>> THEN 0 ELSE Last(c).at + Size(Last(c).piece)

Put(c, piece) == Append(c, [piece |-> piece, at |-> IF c = <<>> THEN 0 ELSE Joined(c) + 2])

(* The length of the pieces from the i-th on. *)
JoinedFrom(c, i) == IF i > Len(c) THEN 0 ELSE Joined(c) - c[i].at

SeedStart(c) == Min({i \in 1 .. Len(c) + 1 : JoinedFrom(c, i) <= OVERLAP_CHARS})

(* Mutant: the seed is never turned round again.                           *)
OverlapSeed_Backwards(c) ==
  LET first == SeedStart(c)
  IN  [j \in 1 .. Len(c) + 1 - first |->
         [c[Len(c) + 1 - j] EXCEPT !.at = c[first + j - 1].at - c[first].at]]

(* The trailing pieces that begin the next chunk. *)
OverlapSeed(c) ==
  LET first == SeedStart(c)
  IN  [j \in 1 .. Len(c) + 1 - first |->
         [c[first + j - 1] EXCEPT !.at = @ - c[first].at]]

Pack ==
  /\ pass = "pack" /\ packed < Len(pieces) /\ packed' = packed + 1
  /\ LET piece == pieces[packed + 1]
     IN  IF chunk # <<>> /\ Joined(chunk) + 2 + Size(piece) > TARGET_CHARS
         THEN chunks' = Append(chunks, chunk) /\ chunk' = Put(OverlapSeed(chunk), piece)
         ELSE chunk' = Put(chunk, piece) /\ UNCHANGED chunks
  /\ UNCHANGED <<pass, content, region, cur, blocks, cut, start, pieces>>

PackEnd ==
  /\ pass = "pack" /\ packed = Len(pieces) /\ pass' = "done"
  /\ chunks' = IF chunk = <<>> THEN chunks ELSE Append(chunks, chunk)
  /\ UNCHANGED <<content, region, cur, blocks, cut, start, pieces, packed, chunk>>

ChunkNext == SplitLine \/ SplitEnd \/ Cut \/ CutEnd \/ Pack \/ PackEnd

ChunkSpec == ChunkInit /\ [][ChunkNext]_chunkVars
-----------------------------------------------------------------------------
Span(piece) == piece.from .. piece.to - 1

Held(c) == {e.piece : e \in Range(c)}

(* The positions at which a cut would fall inside a fence or display math: *)
(* the newline before a line that begins in one, and the line.             *)
Inside(line) == IF line.in = "none" THEN {} ELSE line.at - 1 .. line.at + line.text - 1

(* Two chunks that follow share the trailing pieces of the first that fit  *)
(* into the overlap, as many as do, and the second ends further on.        *)
Follows(c, d) ==
  /\ \E first \in 1 .. Len(c) + 1 :
       /\ Held(c) \cap Held(d) = {c[i].piece : i \in first .. Len(c)}
       /\ JoinedFrom(c, first) <= OVERLAP_CHARS
       /\ first > 1 => JoinedFrom(c, first - 1) > OVERLAP_CHARS
  /\ Last(c).piece.to < Last(d).piece.to

(* In a chunk the pieces follow one another, a blank line apart; it is     *)
(* never longer than the overlap and one block may make it, and a fence or *)
(* display math is cut only in a block over the hard limit.                *)
Sound(c) ==
  /\ c[1].at = 0
  /\ \A i \in 1 .. Len(c) - 1 :
       /\ c[i].piece.from < c[i + 1].piece.from /\ c[i].piece.to < c[i + 1].piece.to
       /\ c[i + 1].at = c[i].at + Size(c[i].piece) + 2
  /\ Joined(c) <= OVERLAP_CHARS + 2 + HARD_MAX_CHARS
  /\ \A p \in Held(c) :
       (\E line \in Range(content) : {p.from, p.to} \cap Inside(line) # {})
         => \E b \in Range(blocks) : Span(p) \subseteq Span(b) /\ Size(b) > HARD_MAX_CHARS

(* Whatever the content: no character of a line that is not blank is lost; *)
(* every chunk is sound; two that follow share only what they should; a    *)
(* chunk is over the target only for the one piece it adds.                *)
ChunksHold ==
  pass = "done" =>
    /\ \A line \in Range(content) :
         line.at .. line.at + line.text - 1
           \subseteq UNION {Span(p) : p \in UNION {Held(c) : c \in Range(chunks)}}
    /\ \A c \in Range(chunks) : c # <<>> /\ Sound(c)
    /\ \A i \in 1 .. Len(chunks) - 1 : Follows(chunks[i], chunks[i + 1])
    /\ \A i \in DOMAIN chunks :
         LET before == IF i = 1 THEN {} ELSE Held(chunks[i - 1])
         IN  Joined(chunks[i]) > TARGET_CHARS => Cardinality(Held(chunks[i]) \ before) = 1
=============================================================================
