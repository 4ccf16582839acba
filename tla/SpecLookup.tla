----------------------------- MODULE SpecLookup -----------------------------
(***************************************************************************)
(* lookup_spec: every definition of a name in the specifications, those    *)
(* that say the same told once, with the documents that agree.             *)
(*   wikipethia-mcp/src/tools/mod.rs     lookup_spec_impl, shared_by       *)
(*   wikipethia-mcp/src/tools/format.rs  fork_label       *)
(* A document is the record of its id, what fork_label makes of the id     *)
(* ("" for nothing), the forks its path names, whether it is Python, the   *)
(* tier of its source, its status and its lines.                           *)
(***************************************************************************)
EXTENDS SpecText, Orderings

CONSTANTS
  Shelf,            \* the documents there may be, in the order of their ids
  Texts,            \* the texts they may have
  Variants,         \* name asked for -> the names it is part of
  Forks,            \* the forks one may ask for
  NoFork,
  FUNCTION_MAX      \* lines of a function that are shown

(* An id has a slash in it, "{source}/{path}", and a label is one segment. *)
ASSUME LookupAssumption ==
  /\ Shelf \in Seq(Range(Shelf))
  /\ \A i, j \in DOMAIN Shelf : /\ Shelf[i].id = Shelf[j].id => i = j
                               /\ Shelf[i].label # Shelf[j].id
  /\ \A p \in DOMAIN Variants : p \in Variants[p]
  /\ NoFork \notin Forks
  /\ FUNCTION_MAX \in Nat

VARIABLES
  opened,   \* how many documents have been opened; the last is gone through
  found,    \* the definitions it has that match
  taken,    \* how many of them have been taken
  groups,   \* the distinct definitions so far (blocks)
  carried,  \* history: the documents, with each definition taken from them
  asked     \* the name and the fork

lookupVars == <<opened, found, taken, groups, carried, asked>>

LookupInit ==
  /\ opened = 0 /\ found = <<>> /\ taken = 0
  /\ groups = <<>> /\ carried = {}
  /\ asked \in [name : DOMAIN Variants, fork : Forks \cup {NoFork}]
-----------------------------------------------------------------------------
InFork(doc) == asked.fork # NoFork /\ asked.fork \in doc.forks

Matches(names) == SelectSeq(names, LAMBDA f : f.name \in Variants[asked.name])

(* A constant is its text; a function its source before it is cut.  Of the *)
(* call that a cut one ends in the document is kept and the offset is not: *)
(* the code gives the first place where the text has the function's first  *)
(* line, which need not be the function (mod.rs:926-939).                  *)
ConstantEntry(doc, c) ==
  LET text == <<"constant", c.name, c.value, doc.status>>
  IN  [key |-> text, isFn |-> FALSE, exact |-> c.name = asked.name, hint |-> ""]

FunctionEntry(doc, f) ==
  [key |-> <<f.language, f.name, f.heading, doc.status, f.code>>, isFn |-> TRUE,
   exact |-> f.name = asked.name,
   hint |-> IF Len(f.code) > FUNCTION_MAX THEN doc.id ELSE ""]

Entries(doc, lines) ==
  LET constants == Matches(Constants(lines) \o SolidityConstants(lines))
      functions == Matches(IF doc.python THEN FunctionsInPython(lines)
                           ELSE PythonFunctions(lines) \o SolidityDeclarations(lines))
      n == Len(constants)
  IN  [i \in 1 .. n + Len(functions) |->
         IF i <= n THEN ConstantEntry(doc, constants[i])
         ELSE FunctionEntry(doc, functions[i - n])]

(* push_keyed *)
PushKeyed(blocks, doc, entry) ==
  LET id == doc.id
      same == {i \in DOMAIN blocks : blocks[i].key = entry.key}
      i == Min(same)
      b == blocks[i]
  IN  IF same = {}
      THEN Append(blocks, [key |-> entry.key, isFn |-> entry.isFn, exact |-> entry.exact,
                           hint |-> entry.hint, inFork |-> InFork(doc), doc |-> id,
                           also |-> <<>>])
      ELSE [blocks EXCEPT ![i] =
              IF InFork(doc) /\ ~ b.inFork
              THEN [b EXCEPT !.inFork = TRUE, !.hint = entry.hint, !.doc = id,
                             !.also = Append(@, b.doc), !.exact = @ \/ entry.exact]
              ELSE [b EXCEPT !.also = Append(@, id), !.exact = @ \/ entry.exact]]

Opened == Shelf[opened]

(* The next document, with whatever text; docs_containing left out those   *)
(* of sources that are not specifications (and the texts without the name, *)
(* which define nothing here).                                             *)
OpenDocument ==
  /\ taken + 1 \notin DOMAIN found /\ opened < Len(Shelf)
  /\ opened' = opened + 1 /\ taken' = 0
  /\ \E lines \in Texts :
       LET doc == Shelf[opened + 1]
       IN  found' = IF doc.tier = "spec" THEN Entries(doc, lines) ELSE <<>>
  /\ UNCHANGED <<groups, carried, asked>>

(* Its constants, then its functions. *)
Push ==
  /\ taken + 1 \in DOMAIN found /\ taken' = taken + 1
  /\ LET entry == found[taken + 1]
     IN  /\ groups' = PushKeyed(groups, Opened, entry)
         /\ carried' = carried \cup {[doc |-> Opened, key |-> entry.key]}
  /\ UNCHANGED <<opened, found, asked>>

LookupNext == OpenDocument \/ Push

LookupSpec == LookupInit /\ [][LookupNext]_lookupVars

(* Stable: the fork's own, constants, the exact name; then as found.  The  *)
(* first MAX_DEFINITIONS are printed.                                      *)
Weight(block) ==
  LET bit(flag) == IF flag THEN 1 ELSE 0
  IN  4 * bit(~ block.inFork) + 2 * bit(block.isFn) + bit(~ block.exact)

Lighter ==
  {p \in (DOMAIN groups) \X (DOMAIN groups) :
     \/ Weight(groups[p[1]]) < Weight(groups[p[2]])
     \/ Weight(groups[p[1]]) = Weight(groups[p[2]]) /\ p[1] < p[2]}

Definitions ==
  LET order == InOrder(DOMAIN groups, Lighter)
  IN  [i \in DOMAIN groups |-> groups[order[i]]]

Label(id) ==
  LET doc == CHOOSE d \in Range(Shelf) : d.id = id
  IN  IF doc.label = "" THEN id ELSE doc.label

(* Mutant: the document cited is not left out.                             *)
SharedBy_WithCited(also, cited) ==
  LET others == ToSet(also)
      labels == {Label(id) : id \in others}
      usable == Cardinality(labels) = Cardinality(others) /\ Label(cited) \notin labels
  IN  IF usable THEN labels ELSE others

(* The names in "identical in ...", counted as they are listed. *)
SharedBy(also, cited) ==
  LET others == ToSet(also) \ {cited}
      labels == {Label(id) : id \in others}
      usable == Cardinality(labels) = Cardinality(others) /\ Label(cited) \notin labels
  IN  IF usable THEN labels ELSE others
-----------------------------------------------------------------------------
Carriers(definition) == {c.doc : c \in {d \in carried : d.key = definition.key}}

(* What is told of a definition is true of the whole library: it is there  *)
(* once; beside the document cited it names every other that carries it,   *)
(* one name each, and never that document; one that the fork asked for     *)
(* carries is cited from that fork and comes first; and a function that is *)
(* cut is to be read on in the document cited (where in it, is not said).  *)
LookupTells ==
  LET all == Definitions
  IN  /\ \A i, j \in DOMAIN all : all[i].key = all[j].key => i = j
      /\ {d.key : d \in Range(all)} = {c.key : c \in carried}
      /\ \A i \in DOMAIN all :
           LET d == all[i]
               cited == {doc \in Carriers(d) : doc.id = d.doc}
               others == {doc.id : doc \in Carriers(d) \ cited}
               names == SharedBy(d.also, d.doc)
           IN  /\ Cardinality(cited) = 1
               /\ Cardinality(names) = Cardinality(others)
               /\ \A id \in others : Cardinality({id, Label(id)} \cap names) = 1
               /\ {d.doc, Label(d.doc)} \cap names = {}
               /\ d.hint \in {"", d.doc}
               /\ (\E doc \in Carriers(d) : InFork(doc)) =>
                    /\ \A doc \in cited : InFork(doc)
                    /\ \A j \in 1 .. i - 1 :
                         \E doc \in Carriers(all[j]) : InFork(doc)
=============================================================================
