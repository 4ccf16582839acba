------------------------------ MODULE SpecText ------------------------------
(***************************************************************************)
(* What lookup_spec finds in the text of one specification.                *)
(*   wikipethia-core/src/spec.rs                                           *)
(* A text is a sequence of lines, a line a record whose field k is         *)
(*   "row"      a row of a table: `name` in backticks and capitals, value  *)
(*   "head"     a heading, its text                                        *)
(*   "ticks"    three backticks or more (n) and an info string             *)
(*   "def"      a Python def at column 0, its name                         *)
(*   "fun"      a Solidity function, its name, and what it ends in: brace  *)
(*   "brace"    a line that ends in ; { or }                               *)
(*   "const"    a Solidity constant: name, value                           *)
(*   "comment", "pragma" (solidity), "stmt" (any other line at column 0),  *)
(*   "text" (an indented line), "blank".                                   *)
(***************************************************************************)
EXTENDS Integers, FiniteSetsExt, SequencesExt

Of(lines, kind) == SelectSeq(lines, LAMBDA l : l.k = kind)
-----------------------------------------------------------------------------
(* Fences.  Nothing but as many backticks, or more, closes one; one that   *)
(* is never closed runs to the end.                                        *)
Closes(line, fence) == line.k = "ticks" /\ line.info = "" /\ line.n >= fence.n

(* Headings and tables count outside fences only; a heading holds until    *)
(* the next.                                                               *)
WalkLine(w, line) ==
  CASE w.open # <<>> /\ Closes(line, Last(w.open)) ->
         [w EXCEPT !.fences = @ \o w.open, !.open = <<>>]
    [] w.open # <<>> /\ ~ Closes(line, Last(w.open)) ->
         [w EXCEPT !.open[1].lines = Append(@, line)]
    [] w.open = <<>> /\ line.k = "ticks" ->
         [w EXCEPT !.open = <<[n |-> line.n, info |-> line.info,
                               heading |-> w.heading, lines |-> <<>>]>>]
    [] w.open = <<>> /\ line.k = "head" -> [w EXCEPT !.heading = line.text]
    [] OTHER -> [w EXCEPT !.outside = Append(@, line)]

Walk(lines) ==
  LET after[n \in 0 .. Len(lines)] ==
        IF n = 0 THEN [heading |-> "", open |-> <<>>, fences |-> <<>>, outside |-> <<>>]
        ELSE WalkLine(after[n - 1], lines[n])
      end == after[Len(lines)]
  IN  [fences |-> end.fences \o end.open, outside |-> end.outside]

PythonFences(lines) == SelectSeq(Walk(lines).fences, LAMBDA f : f.info = "python")

(* The info string says so, or the text does. *)
SolidityFences(lines) ==
  SelectSeq(Walk(lines).fences,
            LAMBDA f : f.info = "solidity" \/ Of(f.lines, "pragma") # <<>>)

(* Trailing blank lines are trimmed. *)
Code(lines, from, to) ==
  LET text == {i \in from .. to : lines[i].k # "blank"}
  IN  SubSeq(lines, from, Max(text))

Function(name, code, heading, language) ==
  [name |-> name, code |-> code, heading |-> heading, language |-> language]

Constant(line) == [name |-> line.name, value |-> line.value]

ConstantsOf(lines) == [i \in DOMAIN lines |-> Constant(lines[i])]

Constants(lines) == ConstantsOf(Of(Walk(lines).outside, "row"))

SolidityConstants(lines) ==
  LET fences == SolidityFences(lines)
  IN  FlattenSeq([i \in DOMAIN fences |-> ConstantsOf(Of(fences[i].lines, "const"))])

(* A def of a fence ends before the next, or with the fence. *)
FenceFunctions(fence) ==
  LET starts == SetToSortSeq({i \in DOMAIN fence.lines : fence.lines[i].k = "def"}, <)
      end(n) == IF n = Len(starts) THEN Len(fence.lines) ELSE starts[n + 1] - 1
  IN  [n \in DOMAIN starts |->
         Function(fence.lines[starts[n]].name, Code(fence.lines, starts[n], end(n)),
                  fence.heading, "python")]

PythonFunctions(lines) ==
  LET fences == PythonFences(lines)
  IN  FlattenSeq([i \in DOMAIN fences |-> FenceFunctions(fences[i])])

(* In a .py a def ends before the next line at column 0, and a # is not a  *)
(* heading.                                                                *)
FunctionsInPython(lines) ==
  LET starts == SetToSortSeq({i \in DOMAIN lines : lines[i].k = "def"}, <)
      end(i) == Min({Len(lines)} \cup
                    {j - 1 : j \in {m \in i + 1 .. Len(lines) :
                                      lines[m].k \notin {"text", "blank"}}})
  IN  [n \in DOMAIN starts |->
         Function(lines[starts[n]].name, Code(lines, starts[n], end(starts[n])), "", "python")]

Brace(line) == IF line.k \in {"fun", "brace"} THEN line.brace ELSE ""

(* doc_comment_start *)
CommentStart(lines, at) ==
  Min({from \in 1 .. at : \A i \in from .. at - 1 : lines[i].k = "comment"})

(* declaration_end: a ; outside braces, or the } that closes the first {. *)
DeclarationEnd(lines, start) ==
  LET count(b, i) == Cardinality({j \in start .. i : Brace(lines[j]) = b})
      depth(i) == count("{", i) - count("}", i)
      ends(i) == \/ Brace(lines[i]) = ";" /\ depth(i) = 0
                 \/ Brace(lines[i]) = "}" /\ depth(i) <= 0
  IN  Min({Len(lines)} \cup {i \in start .. Len(lines) : ends(i)})

Declarations(fence) ==
  LET starts == SetToSortSeq({i \in DOMAIN fence.lines : fence.lines[i].k = "fun"}, <)
  IN  [n \in DOMAIN starts |->
         Function(fence.lines[starts[n]].name,
                  Code(fence.lines, CommentStart(fence.lines, starts[n]),
                       DeclarationEnd(fence.lines, starts[n])),
                  fence.heading, "solidity")]

SolidityDeclarations(lines) ==
  LET fences == SolidityFences(lines)
  IN  FlattenSeq([i \in DOMAIN fences |-> Declarations(fences[i])])
=============================================================================
