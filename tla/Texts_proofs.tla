---------------------------- MODULE Texts_proofs ----------------------------
(***************************************************************************)
(* Proofs about what is made of the texts of documents.  How one is cut    *)
(* into chunks: whatever its lines and the limits.  And what lookup_spec   *)
(* tells of a definition: that it is true of all the documents gone        *)
(* through, whatever their number, their order, their texts and the fork   *)
(* asked for.                                                              *)
(***************************************************************************)
EXTENDS Chunker, SpecLookup, Answers_proofs

(***************************************************************************)
(* The chunks of a document: its lines, and the sequences they make.       *)
(***************************************************************************)

Places == {"none", "fence", "math"}
LineAt == [at : Nat, text : Nat, in : Places]
Interval == [from : Nat, to : Nat]

LEMMA RangeOf ==
  ASSUME NEW S, NEW q \in Seq(S)
  PROVE  /\ Range(q) \subseteq S
         /\ DOMAIN q = 1 .. Len(q) /\ Len(q) \in Nat
         /\ \A x \in Range(q) : \E i \in 1 .. Len(q) : x = q[i]
         /\ \A i \in 1 .. Len(q) : q[i] \in Range(q) /\ q[i] \in S
<1>1. DOMAIN q = 1 .. Len(q) /\ Len(q) \in Nat /\ \A i \in 1 .. Len(q) : q[i] \in S
  BY LenProperties, ElementOfSeq
<1> QED BY <1>1 DEF Range

LEMMA Appended ==
  ASSUME NEW S, NEW q \in Seq(S), NEW x \in S
  PROVE  /\ Append(q, x) \in Seq(S) /\ Append(q, x) # <<>>
         /\ Len(Append(q, x)) = Len(q) + 1 /\ Len(q) \in Nat
         /\ \A i \in 1 .. Len(q) : Append(q, x)[i] = q[i]
         /\ Append(q, x)[Len(q) + 1] = x /\ Last(Append(q, x)) = x
         /\ Range(Append(q, x)) = Range(q) \cup {x}
<1>1. /\ Append(q, x) \in Seq(S) /\ Len(Append(q, x)) = Len(q) + 1 /\ Len(q) \in Nat
      /\ \A i \in 1 .. Len(q) : Append(q, x)[i] = q[i]
      /\ Append(q, x)[Len(q) + 1] = x
  BY AppendProperties, LenProperties
<1>2. Append(q, x) # <<>>
  BY <1>1, EmptySeq
<1>3. Last(Append(q, x)) = x
  BY <1>1 DEF Last
<1>4. Range(Append(q, x)) = Range(q) \cup {x}
  <2>1. Range(q) = {q[i] : i \in 1 .. Len(q)}
    BY RangeOf DEF Range
  <2>2. Range(Append(q, x)) = {Append(q, x)[i] : i \in 1 .. Len(q) + 1}
    BY <1>1, RangeOf DEF Range
  <2>3. 1 .. Len(q) + 1 = 1 .. Len(q) \cup {Len(q) + 1}
    BY <1>1
  <2> QED BY <1>1, <2>1, <2>2, <2>3
<1> QED BY <1>1, <1>2, <1>3, <1>4

(***************************************************************************)
(* The blocks.                                                             *)
(***************************************************************************)

Covers(b, line) == b.from <= line.at /\ line.at + line.text <= b.to

(* A block that is finished: no line of a fence or of display math is cut. *)
Whole(b, L) ==
  /\ b.from < b.to
  /\ \A line \in L : b.from \notin Inside(line) /\ b.to \notin Inside(line)

BlockFacts(L, bs) ==
  /\ L \subseteq LineAt /\ bs \in Seq(Interval)
  /\ \A j, k \in DOMAIN bs : j < k => bs[j].to < bs[k].from
  /\ \A b \in Range(bs) : Whole(b, L)
  /\ \A line \in L : line.text > 0 => \E b \in Range(bs) : Covers(b, line)

(* While lines are read: t is where the next starts, in the region it is   *)
(* in, c the block that is gathered.                                       *)
SplitFacts(L, t, in, c, bs) ==
  /\ L \subseteq LineAt /\ bs \in Seq(Interval)
  /\ t \in Nat /\ in \in Places /\ c \in Interval
  /\ \A line \in L : line.at + line.text + 1 <= t
  /\ in # "none" => Size(c) # 0
  /\ Size(c) # 0 => /\ c.from < c.to /\ c.to + 1 = t
                    /\ \A line \in L : c.from \notin Inside(line)
                    /\ \A b \in Range(bs) : b.to < c.from
  /\ \A j, k \in DOMAIN bs : j < k => bs[j].to < bs[k].from
  /\ \A b \in Range(bs) : Whole(b, L) /\ b.to + 2 <= t
  /\ \A line \in L : line.text > 0 =>
       \/ \E b \in Range(bs) : Covers(b, line)
       \/ Size(c) # 0 /\ Covers(c, line)

Flush(bs, c) == IF Size(c) = 0 THEN bs ELSE Append(bs, c)

LEMMA Flushing ==
  ASSUME NEW L, NEW t, NEW in, NEW c, NEW bs, SplitFacts(L, t, in, c, bs)
  PROVE  /\ BlockFacts(L, Flush(bs, c))
         /\ \A b \in Range(Flush(bs, c)) : b.to + 1 <= t
<1> USE DEF SplitFacts
<1>1. CASE Size(c) = 0
  <2>1. Flush(bs, c) = bs
    BY <1>1 DEF Flush
  <2>2. \A b \in Range(bs) : b \in Interval
    BY RangeOf
  <2>3. \A b \in Range(bs) : b.to + 1 <= t
    BY <2>2 DEF Interval
  <2> QED BY <1>1, <2>1, <2>3 DEF BlockFacts
<1>2. CASE Size(c) # 0
  <2> DEFINE r == Append(bs, c)
  <2>1. Flush(bs, c) = r
    BY <1>2 DEF Flush
  <2>2. /\ r \in Seq(Interval) /\ Len(r) = Len(bs) + 1 /\ Len(bs) \in Nat
        /\ \A i \in 1 .. Len(bs) : r[i] = bs[i]
        /\ r[Len(bs) + 1] = c /\ Range(r) = Range(bs) \cup {c}
    BY Appended
  <2> HIDE DEF r
  <2>3. /\ DOMAIN r = 1 .. Len(bs) + 1 /\ DOMAIN bs = 1 .. Len(bs)
        /\ \A i \in 1 .. Len(bs) : bs[i] \in Range(bs)
    BY <2>2, RangeOf
  <2>4. \A j, k \in DOMAIN r : j < k => r[j].to < r[k].from
    <3> SUFFICES ASSUME NEW j \in DOMAIN r, NEW k \in DOMAIN r, j < k
                 PROVE  r[j].to < r[k].from
      OBVIOUS
    <3>1. j \in 1 .. Len(bs)
      BY <2>2, <2>3
    <3>2. CASE k \in 1 .. Len(bs)
      BY <2>2, <2>3, <3>1, <3>2
    <3>3. CASE k = Len(bs) + 1
      BY <1>2, <2>2, <2>3, <3>1, <3>3
    <3> QED BY <2>2, <2>3, <3>2, <3>3
  <2>5. Whole(c, L)
    <3>1. ASSUME NEW line \in L PROVE c.to \notin Inside(line)
      <4>1. line.at \in Nat /\ line.text \in Nat /\ line.at + line.text + 1 <= t
        BY DEF LineAt
      <4>2. c.to \in Nat /\ c.to + 1 = t
        BY <1>2 DEF Interval
      <4> QED BY <4>1, <4>2 DEF Inside
    <3> QED BY <1>2, <3>1 DEF Whole
  <2>6. \A b \in Range(r) : b.to + 1 <= t
    <3>1. \A b \in Range(bs) : b \in Interval
      BY RangeOf
    <3>2. \A b \in Range(bs) : b.to + 1 <= t
      BY <3>1 DEF Interval
    <3> QED BY <1>2, <2>2, <3>2 DEF Interval
  <2>7. \A line \in L : line.text > 0 => \E b \in Range(r) : Covers(b, line)
    BY <2>2
  <2> QED BY <2>1, <2>2, <2>4, <2>5, <2>6, <2>7 DEF BlockFacts
<1> QED BY <1>1, <1>2

LEMMA LineRead ==
  ASSUME NEW L, NEW t, NEW in, NEW c, NEW bs, SplitFacts(L, t, in, c, bs),
         NEW text \in Nat, NEW line, line = [at |-> t, text |-> text, in |-> in]
  PROVE  /\ line \in LineAt /\ line.at = t /\ line.text = text /\ line.in = in
         /\ t + text + 1 \in Nat /\ t < t + text + 1
         /\ \A l \in L \cup {line} : l \in LineAt /\ l.at + l.text + 1 <= t + text + 1
BY DEF SplitFacts, LineAt

(* A line that is kept.                                                    *)
LEMMA LineKept ==
  ASSUME NEW L, NEW t, NEW in, NEW c, NEW bs, SplitFacts(L, t, in, c, bs),
         NEW text \in Nat, NEW line, line = [at |-> t, text |-> text, in |-> in],
         ~ (in = "none" /\ text = 0), NEW next \in Places
  PROVE  SplitFacts(L \cup {line}, t + text + 1, next,
                    [from |-> IF Size(c) = 0 THEN t ELSE c.from, to |-> t + text], bs)
<1> DEFINE d == [from |-> IF Size(c) = 0 THEN t ELSE c.from, to |-> t + text]
           u == t + text + 1
           M == L \cup {line}
<1>1. /\ line \in LineAt /\ line.at = t /\ line.text = text /\ line.in = in
      /\ u \in Nat /\ t < u
      /\ \A l \in M : l \in LineAt /\ l.at + l.text + 1 <= u
  BY LineRead
<1>2. /\ L \subseteq LineAt /\ bs \in Seq(Interval) /\ t \in Nat /\ in \in Places
      /\ c \in Interval /\ c.from \in Nat /\ c.to \in Nat
      /\ \A l \in L : l.at \in Nat /\ l.text \in Nat /\ l.at + l.text + 1 <= t
  BY DEF SplitFacts, Interval, LineAt
<1>3. d.from = (IF Size(c) = 0 THEN t ELSE c.from) /\ d.to = t + text
  OBVIOUS
<1>4. d \in Interval
  BY <1>2 DEF Interval
<1> HIDE DEF d, M, u
<1>5. d.from < d.to /\ Size(d) # 0 /\ d.to + 1 = u
  <2>1. CASE Size(c) = 0
    <3>1. text > 0
      BY <2>1 DEF SplitFacts
    <3> QED BY <1>2, <1>3, <2>1, <3>1 DEF Size, u
  <2>2. CASE Size(c) # 0
    <3>1. c.from < c.to /\ c.to + 1 = t
      BY <2>2 DEF SplitFacts
    <3> QED BY <1>2, <1>3, <2>2, <3>1 DEF Size, u
  <2> QED BY <2>1, <2>2
<1>6. ASSUME NEW l \in M PROVE d.from \notin Inside(l)
  <2>1. CASE l \in L /\ Size(c) = 0
    BY <1>2, <1>3, <2>1 DEF Inside
  <2>2. CASE l \in L /\ Size(c) # 0
    BY <1>3, <2>2 DEF SplitFacts
  <2>3. CASE l = line /\ Size(c) = 0
    <3>1. in = "none"
      BY <2>3 DEF SplitFacts
    <3> QED BY <1>1, <2>3, <3>1 DEF Inside
  <2>4. CASE l = line /\ Size(c) # 0
    <3>1. c.from < c.to /\ c.to + 1 = t
      BY <2>4 DEF SplitFacts
    <3>2. d.from < t - 1
      BY <1>2, <1>3, <2>4, <3>1
    <3> QED BY <1>1, <1>2, <1>4, <2>4, <3>2 DEF Inside, Interval
  <2> QED BY <2>1, <2>2, <2>3, <2>4 DEF M
<1>7. ASSUME NEW b \in Range(bs) PROVE b.to < d.from /\ Whole(b, M) /\ b.to + 2 <= u
  <2>1. b.from \in Nat /\ b.to \in Nat /\ Whole(b, L) /\ b.to + 2 <= t
    <3>1. b \in Interval
      BY <1>2, RangeOf
    <3> QED BY <3>1 DEF SplitFacts, Interval
  <2>2. b.from < b.to
    BY <2>1 DEF Whole
  <2>3. b.from \notin Inside(line) /\ b.to \notin Inside(line)
    BY <1>1, <1>2, <2>1, <2>2 DEF Inside
  <2>4. Whole(b, M)
    BY <2>1, <2>3 DEF Whole, M
  <2>5. b.to < d.from
    BY <1>2, <1>3, <2>1 DEF SplitFacts
  <2>6. b.to + 2 <= u
    BY <1>1, <1>2, <2>1
  <2> QED BY <2>4, <2>5, <2>6
<1>8. ASSUME NEW l \in M, l.text > 0
      PROVE  \/ \E b \in Range(bs) : Covers(b, l)
             \/ Size(d) # 0 /\ Covers(d, l)
  <2>1. CASE l = line
    <3>1. d.from <= t
      BY <1>2, <1>3 DEF SplitFacts
    <3> QED BY <1>1, <1>2, <1>3, <1>5, <2>1, <3>1 DEF Covers
  <2>2. CASE l \in L /\ Size(c) # 0 /\ Covers(c, l)
    <3>1. c.from < c.to /\ c.to + 1 = t
      BY <2>2 DEF SplitFacts
    <3> QED BY <1>2, <1>3, <1>5, <2>2, <3>1 DEF Covers
  <2> QED BY <1>8, <2>1, <2>2 DEF SplitFacts, M
<1>9. \A j, k \in DOMAIN bs : j < k => bs[j].to < bs[k].from
  BY DEF SplitFacts
<1> HIDE DEF SplitFacts
<1>10. SplitFacts(M, u, next, d, bs)
  BY <1>1, <1>2, <1>4, <1>5, <1>6, <1>7, <1>8, <1>9 DEF SplitFacts
<1> QED BY <1>10 DEF d, M, u

(* A blank line that ends a block.                                         *)
LEMMA LineDropped ==
  ASSUME NEW L, NEW t, NEW in, NEW c, NEW bs, SplitFacts(L, t, in, c, bs),
         NEW text \in Nat, NEW line, line = [at |-> t, text |-> text, in |-> in],
         in = "none", text = 0
  PROVE  SplitFacts(L \cup {line}, t + text + 1, in, Empty, Flush(bs, c))
<1> DEFINE u == t + text + 1
           M == L \cup {line}
           r == Flush(bs, c)
<1>1. /\ line \in LineAt /\ line.at = t /\ line.text = text /\ line.in = in
      /\ u \in Nat /\ t < u
      /\ \A l \in M : l \in LineAt /\ l.at + l.text + 1 <= u
  BY LineRead
<1>2. /\ BlockFacts(L, r) /\ \A b \in Range(r) : b.to + 1 <= t
      /\ t \in Nat /\ in \in Places
  BY Flushing DEF SplitFacts
<1>3. Empty \in Interval /\ Size(Empty) = 0
  BY DEF Empty, Interval, Size
<1>4. u = t + 1
  BY <1>2
<1> HIDE DEF u, r, M
<1>5. Inside(line) = {}
  BY <1>1 DEF Inside
<1>6. ASSUME NEW b \in Range(r) PROVE Whole(b, M) /\ b.to + 2 <= u
  <2>1. b.to \in Nat
    <3>1. b \in Interval
      BY <1>2, RangeOf DEF BlockFacts
    <3> QED BY <3>1 DEF Interval
  <2>2. Whole(b, M)
    BY <1>2, <1>5 DEF BlockFacts, Whole, M
  <2> QED BY <1>2, <1>4, <2>1, <2>2
<1>7. \A l \in M : l.text > 0 => \E b \in Range(r) : Covers(b, l)
  BY <1>1, <1>2 DEF BlockFacts, M
<1>8. SplitFacts(M, u, in, Empty, r)
  BY <1>1, <1>2, <1>3, <1>6, <1>7 DEF SplitFacts, BlockFacts
<1> QED BY <1>8 DEF u, r, M

LEMMA ToggledIs ==
  ASSUME NEW in \in Places, NEW marks PROVE Toggled(in, marks) \in Places
BY DEF Toggled, Places

(***************************************************************************)
(* The pieces.                                                             *)
(***************************************************************************)

(* A piece is a block, or a part of one over the hard limit.               *)
PieceOf(p, bs) ==
  /\ p.from < p.to /\ Size(p) <= HARD_MAX_CHARS
  /\ \E b \in Range(bs) : /\ b.from <= p.from /\ p.to <= b.to
                          /\ p = b \/ Size(b) > HARD_MAX_CHARS

Rising(ps) ==
  \A j, k \in DOMAIN ps : j < k => ps[j].from < ps[k].from /\ ps[j].to < ps[k].to

SpansOf(ps) == UNION {Span(p) : p \in Range(ps)}

(* Of the block that is cut, which begins at b.from, a piece starts at     *)
(* next: the pieces so far reach no further than the overlap beyond it.    *)
Reached(b, next, ps) ==
  /\ \A p \in Range(ps) : p.from < next
  /\ IF next = b.from THEN \A p \in Range(ps) : p.to < next
     ELSE /\ Size(b) > HARD_MAX_CHARS /\ next + OVERLAP_CHARS < b.to
          /\ \A p \in Range(ps) : p.to <= next + OVERLAP_CHARS
          /\ b.from .. next + OVERLAP_CHARS - 1 \subseteq SpansOf(ps)

NextOf(bs, n) == bs[n + 1]

CutFacts(bs, n, ps) ==
  /\ n \in 0 .. Len(bs) /\ ps \in Seq(Interval)
  /\ Rising(ps)
  /\ \A p \in Range(ps) : PieceOf(p, bs)
  /\ \A k \in 1 .. n : Span(bs[k]) \subseteq SpansOf(ps)

LEMMA PieceAdded ==
  ASSUME NEW ps \in Seq(Interval), Rising(ps), NEW p \in Interval,
         \A q \in Range(ps) : q.from < p.from /\ q.to < p.to
  PROVE  /\ Append(ps, p) \in Seq(Interval) /\ Rising(Append(ps, p))
         /\ Range(Append(ps, p)) = Range(ps) \cup {p}
         /\ SpansOf(Append(ps, p)) = SpansOf(ps) \cup Span(p)
<1> DEFINE r == Append(ps, p)
<1>1. /\ r \in Seq(Interval) /\ Len(r) = Len(ps) + 1 /\ Len(ps) \in Nat
      /\ \A i \in 1 .. Len(ps) : r[i] = ps[i]
      /\ r[Len(ps) + 1] = p /\ Range(r) = Range(ps) \cup {p}
  BY Appended
<1> HIDE DEF r
<1>2. /\ DOMAIN r = 1 .. Len(ps) + 1 /\ DOMAIN ps = 1 .. Len(ps)
      /\ \A i \in 1 .. Len(ps) : ps[i] \in Range(ps)
  BY <1>1, RangeOf
<1>3. Rising(r)
  <2> SUFFICES ASSUME NEW j \in DOMAIN r, NEW k \in DOMAIN r, j < k
               PROVE  r[j].from < r[k].from /\ r[j].to < r[k].to
    BY DEF Rising
  <2>1. j \in 1 .. Len(ps)
    BY <1>1, <1>2
  <2>2. CASE k \in 1 .. Len(ps)
    BY <1>1, <1>2, <2>1, <2>2 DEF Rising
  <2>3. CASE k = Len(ps) + 1
    BY <1>1, <1>2, <2>1, <2>3
  <2> QED BY <1>1, <1>2, <2>2, <2>3
<1>4. SpansOf(r) = SpansOf(ps) \cup Span(p)
  BY <1>1 DEF SpansOf
<1> QED BY <1>1, <1>3, <1>4 DEF r

LEMMA NextBlock ==
  ASSUME NEW L, NEW bs, BlockFacts(L, bs), NEW n \in Nat, n < Len(bs)
  PROVE  /\ NextOf(bs, n) \in Interval /\ NextOf(bs, n) \in Range(bs)
         /\ NextOf(bs, n).from \in Nat /\ NextOf(bs, n).to \in Nat
         /\ NextOf(bs, n).from < NextOf(bs, n).to
<1>1. bs \in Seq(Interval)
  BY DEF BlockFacts
<1>2. Len(bs) \in Nat
  BY <1>1, RangeOf
<1>3. n + 1 \in 1 .. Len(bs)
  BY <1>2
<1>4. NextOf(bs, n) \in Interval /\ NextOf(bs, n) \in Range(bs)
  BY <1>1, <1>3, RangeOf DEF NextOf
<1> QED BY <1>4 DEF Interval, BlockFacts, Whole

LEMMA NoFurther ==
  ASSUME NEW ps \in Seq(Interval), NEW b, NEW z \in Nat, b.to = z, NEW next \in Nat,
         Reached(b, next, ps), NEW e \in Nat, next < e,
         b.from = next \/ next + OVERLAP_CHARS < e
  PROVE  \A q \in Range(ps) : q.from \in Nat /\ q.to \in Nat /\ q.from < next /\ q.to < e
<1> TAKE q \in Range(ps)
<1>1. q \in Interval
  BY RangeOf
<1>2. q.from \in Nat /\ q.to \in Nat
  BY <1>1 DEF Interval
<1>3. q.from < next
  BY DEF Reached
<1>4. OVERLAP_CHARS \in Nat
  BY ChunkerAssumption
<1>5. CASE next = b.from
  <2>1. q.to < next
    BY <1>5 DEF Reached
  <2> QED BY <1>2, <1>3, <2>1
<1>6. CASE next # b.from
  <2>1. q.to <= next + OVERLAP_CHARS
    BY <1>6 DEF Reached
  <2> QED BY <1>2, <1>3, <1>4, <1>6, <2>1
<1> QED BY <1>5, <1>6

(* What is covered of the block once a piece of it is added.               *)
LEMMA CoveredTo ==
  ASSUME NEW ps, NEW b, NEW f \in Nat, b.from = f, NEW next \in Nat,
         f <= next, Reached(b, next, ps), NEW p, NEW e \in Nat, p.from = next, p.to = e,
         NEW x \in f .. e - 1
  PROVE  x \in SpansOf(ps) \cup Span(p)
<1>1. x \in Int /\ f <= x /\ x < e /\ x <= e - 1
  OBVIOUS
<1>2. CASE next <= x
  BY <1>1, <1>2 DEF Span
<1>3. CASE x < next
  <2>1. next # b.from
    BY <1>1, <1>3
  <2>2. OVERLAP_CHARS \in Nat
    BY ChunkerAssumption
  <2>3. f .. next + OVERLAP_CHARS - 1 \subseteq SpansOf(ps)
    BY <2>1 DEF Reached
  <2>4. x \in f .. next + OVERLAP_CHARS - 1
    BY <1>1, <1>3, <2>2
  <2> QED BY <2>3, <2>4
<1> QED BY <1>1, <1>2, <1>3

(* A piece that does not reach the end of its block, m where the next      *)
(* begins.                                                                 *)
LEMMA CutAgain ==
  ASSUME NEW L, NEW bs, BlockFacts(L, bs), NEW n \in Nat, n < Len(bs),
         NEW ps, CutFacts(bs, n, ps), NEW b, b = NextOf(bs, n),
         Size(b) > HARD_MAX_CHARS,
         NEW next \in Nat, Reached(b, next, ps), b.from <= next,
         NEW e \in Nat, next + OVERLAP_CHARS < e, e < b.to, e - next <= HARD_MAX_CHARS,
         NEW m \in Nat, m + OVERLAP_CHARS = e, NEW p, p = [from |-> next, to |-> e]
  PROVE  CutFacts(bs, n, Append(ps, p)) /\ Reached(b, m, Append(ps, p))
<1> DEFINE r == Append(ps, p)
<1>1. b \in Range(bs) /\ b.from \in Nat /\ b.to \in Nat
  BY NextBlock
<1>2. OVERLAP_CHARS \in Nat
  BY ChunkerAssumption
<1>3. p.from = next /\ p.to = e /\ p \in Interval
  BY DEF Interval
<1>4. next < e /\ next < m /\ b.from < m
  BY <1>1, <1>2
<1>5. ps \in Seq(Interval) /\ Rising(ps)
  BY DEF CutFacts
<1>6. \A q \in Range(ps) : q.from \in Nat /\ q.to \in Nat /\ q.from < next /\ q.to < e
  BY <1>1, <1>4, <1>5, NoFurther
<1>7. /\ r \in Seq(Interval) /\ Rising(r) /\ Range(r) = Range(ps) \cup {p}
      /\ SpansOf(r) = SpansOf(ps) \cup Span(p)
  BY <1>3, <1>5, <1>6, PieceAdded
<1> HIDE DEF r
<1>8. PieceOf(p, bs)
  <2>1. Size(p) <= HARD_MAX_CHARS
    BY <1>3 DEF Size
  <2>2. b.from <= p.from /\ p.to <= b.to
    BY <1>1, <1>3
  <2> QED BY <1>1, <1>3, <1>4, <2>1, <2>2 DEF PieceOf
<1>9. Reached(b, m, r)
  <2>1. \A q \in Range(r) : q.from < m /\ q.to <= e
    <3> TAKE q \in Range(r)
    <3>1. CASE q = p
      BY <1>3, <1>4, <3>1
    <3>2. CASE q \in Range(ps)
      BY <1>4, <1>6, <3>2
    <3> QED BY <1>7, <3>1, <3>2
  <2>2. b.from .. e - 1 \subseteq SpansOf(r)
    BY <1>1, <1>3, <1>7, CoveredTo
  <2>3. m # b.from
    BY <1>1, <1>4
  <2>4. \A q \in Range(r) : q.to <= m + OVERLAP_CHARS
    BY <2>1, Zenon
  <2>5. m + OVERLAP_CHARS < b.to
    BY Zenon
  <2>6. b.from .. m + OVERLAP_CHARS - 1 \subseteq SpansOf(r)
    <3>1. m + OVERLAP_CHARS - 1 = e - 1
      BY <1>2
    <3> QED BY <2>2, <3>1, Zenon
  <2> QED BY <2>1, <2>3, <2>4, <2>5, <2>6 DEF Reached
<1>10. CutFacts(bs, n, r)
  <2>1. \A q \in Range(r) : PieceOf(q, bs)
    BY <1>7, <1>8 DEF CutFacts
  <2>2. \A k \in 1 .. n : Span(bs[k]) \subseteq SpansOf(r)
    BY <1>7 DEF CutFacts
  <2>3. n \in 0 .. Len(bs)
    BY DEF CutFacts
  <2> QED BY <1>7, <2>1, <2>2, <2>3 DEF CutFacts
<1> QED BY <1>9, <1>10 DEF r

(* The last piece of a block, or all of it.                                *)
LEMMA CutLast ==
  ASSUME NEW L, NEW bs, BlockFacts(L, bs), NEW n \in Nat, n < Len(bs),
         NEW ps, CutFacts(bs, n, ps), NEW b, b = NextOf(bs, n),
         NEW next \in Nat, Reached(b, next, ps), b.from <= next,
         next = b.from \/ b.to - next <= HARD_MAX_CHARS,
         Size(b) > HARD_MAX_CHARS => b.to - next <= HARD_MAX_CHARS,
         NEW p, p = [from |-> next, to |-> b.to]
  PROVE  /\ CutFacts(bs, n + 1, Append(ps, p))
         /\ n + 1 < Len(bs) =>
              Reached(NextOf(bs, n + 1), NextOf(bs, n + 1).from, Append(ps, p))
<1> DEFINE r == Append(ps, p)
<1>1. /\ b \in Interval /\ b \in Range(bs)
      /\ b.from \in Nat /\ b.to \in Nat /\ b.from < b.to
  BY NextBlock
<1>2. OVERLAP_CHARS \in Nat /\ HARD_MAX_CHARS \in Nat
  BY ChunkerAssumption
<1>3. p.from = next /\ p.to = b.to /\ p \in Interval
  BY <1>1 DEF Interval
<1>4. next < b.to /\ (next = b.from \/ next + OVERLAP_CHARS < b.to)
  <2>1. CASE next = b.from
    BY <1>1, <2>1
  <2>2. CASE next # b.from
    <3>1. next + OVERLAP_CHARS < b.to
      BY <2>2 DEF Reached
    <3> QED BY <1>1, <1>2, <3>1
  <2> QED BY <2>1, <2>2
<1>5. ps \in Seq(Interval) /\ Rising(ps) /\ bs \in Seq(Interval)
  BY DEF CutFacts, BlockFacts
<1>6. \A q \in Range(ps) : q.from \in Nat /\ q.to \in Nat /\ q.from < next /\ q.to < b.to
  BY <1>1, <1>4, <1>5, NoFurther
<1>7. /\ r \in Seq(Interval) /\ Rising(r) /\ Range(r) = Range(ps) \cup {p}
      /\ SpansOf(r) = SpansOf(ps) \cup Span(p)
  BY <1>3, <1>5, <1>6, PieceAdded
<1> HIDE DEF r
<1>8. PieceOf(p, bs)
  <2>1. CASE Size(b) > HARD_MAX_CHARS
    <3>1. Size(p) <= HARD_MAX_CHARS
      BY <1>3, <2>1 DEF Size
    <3> QED BY <1>1, <1>3, <1>4, <2>1, <3>1 DEF PieceOf
  <2>2. CASE ~ (Size(b) > HARD_MAX_CHARS)
    <3>1. next = b.from
      BY <2>2 DEF Reached
    <3>2. p = b
      BY <1>1, <3>1 DEF Interval
    <3>3. Size(b) <= HARD_MAX_CHARS
      BY <1>1, <1>2, <2>2 DEF Size
    <3> QED BY <1>1, <3>2, <3>3 DEF PieceOf
  <2> QED BY <2>1, <2>2
<1>9. \A q \in Range(r) : q.to \in Nat /\ q.from \in Nat /\ q.to <= b.to /\ q.from < b.to
  <2> TAKE q \in Range(r)
  <2>1. CASE q = p
    BY <1>1, <1>3, <1>4, <2>1
  <2>2. CASE q \in Range(ps)
    BY <1>1, <1>4, <1>6, <2>2
  <2> QED BY <1>7, <2>1, <2>2
<1>10. ASSUME n + 1 < Len(bs) PROVE Reached(NextOf(bs, n + 1), NextOf(bs, n + 1).from, r)
  <2>1. NextOf(bs, n + 1).from \in Nat
    BY <1>10, NextBlock
  <2>2. b.to < NextOf(bs, n + 1).from
    <3>1. Len(bs) \in Nat /\ DOMAIN bs = 1 .. Len(bs)
      BY <1>5, RangeOf
    <3>2. n + 1 \in DOMAIN bs /\ n + 1 + 1 \in DOMAIN bs /\ n + 1 < n + 1 + 1
      BY <1>10, <3>1
    <3> QED BY <3>2 DEF BlockFacts, NextOf
  <2>3. \A q \in Range(r) : q.from < NextOf(bs, n + 1).from /\ q.to < NextOf(bs, n + 1).from
    BY <1>1, <1>9, <2>1, <2>2
  <2> QED BY <2>3 DEF Reached
<1>11. ASSUME NEW k \in 1 .. n + 1 PROVE Span(bs[k]) \subseteq SpansOf(r)
  <2>1. CASE k \in 1 .. n
    BY <1>7, <2>1 DEF CutFacts
  <2>2. CASE k = n + 1
    <3>1. Span(bs[k]) = b.from .. b.to - 1
      BY <2>2 DEF NextOf, Span
    <3>2. b.from .. b.to - 1 \subseteq SpansOf(ps) \cup Span(p)
      BY <1>1, <1>3, CoveredTo
    <3> QED BY <1>7, <3>1, <3>2
  <2> QED BY <2>1, <2>2
<1>12. n + 1 \in 0 .. Len(bs)
  <2>1. Len(bs) \in Nat
    BY <1>5, RangeOf
  <2> QED BY <2>1
<1>13. \A q \in Range(r) : PieceOf(q, bs)
  BY <1>7, <1>8 DEF CutFacts
<1>14. CutFacts(bs, n + 1, r)
  BY <1>7, <1>11, <1>12, <1>13 DEF CutFacts
<1> QED BY <1>10, <1>14 DEF r

(***************************************************************************)
(* The chunks.                                                             *)
(***************************************************************************)

Placed == [piece : Interval, at : Nat]

Precedes(e, f) ==
  e.piece.from < f.piece.from /\ e.piece.to < f.piece.to /\ e.at < f.at

(* Pieces that follow one another, a blank line apart.                     *)
Pile(c) ==
  /\ c \in Seq(Placed)
  /\ c # <<>> => c[1].at = 0
  /\ \A i \in 1 .. Len(c) : c[i].piece.from < c[i].piece.to
  /\ \A i \in 1 .. Len(c) - 1 : c[i + 1].at = c[i].at + Size(c[i].piece) + 2
  /\ \A i, j \in 1 .. Len(c) : i < j => Precedes(c[i], c[j])

LEMMA PlacedIs ==
  ASSUME NEW e \in Placed
  PROVE  /\ e.piece \in Interval /\ e.at \in Nat
         /\ e.piece.from \in Nat /\ e.piece.to \in Nat /\ Size(e.piece) \in Int
BY DEF Placed, Interval, Size

LEMMA PileFacts ==
  ASSUME NEW c, Pile(c)
  PROVE  /\ Len(c) \in Nat /\ DOMAIN c = 1 .. Len(c)
         /\ \A i \in 1 .. Len(c) : c[i] \in Placed
         /\ Held(c) = {c[i].piece : i \in 1 .. Len(c)}
         /\ c = <<>> => Len(c) = 0 /\ Joined(c) = 0
         /\ c # <<>> => /\ Len(c) > 0 /\ Len(c) \in 1 .. Len(c) /\ Last(c) = c[Len(c)]
                        /\ Joined(c) = c[Len(c)].at + Size(c[Len(c)].piece)
                        /\ Last(c).piece \in Held(c)
         /\ Joined(c) \in Nat
<1>1. c \in Seq(Placed)
  BY DEF Pile
<1>2. /\ Len(c) \in Nat /\ DOMAIN c = 1 .. Len(c)
      /\ \A i \in 1 .. Len(c) : c[i] \in Placed
  BY <1>1, RangeOf
<1>3. Range(c) = {c[i] : i \in 1 .. Len(c)}
  BY <1>2, Zenon DEF Range
<1>4. Held(c) = {c[i].piece : i \in 1 .. Len(c)}
  BY <1>3 DEF Held
<1>5. c = <<>> => Len(c) = 0 /\ Joined(c) = 0
  BY <1>1, EmptySeq DEF Joined
<1>6. ASSUME c # <<>>
      PROVE  /\ Len(c) > 0 /\ Len(c) \in 1 .. Len(c) /\ Last(c) = c[Len(c)]
             /\ Joined(c) = c[Len(c)].at + Size(c[Len(c)].piece)
             /\ Last(c).piece \in Held(c)
  <2>1. Len(c) # 0
    BY <1>1, <1>6, EmptySeq
  <2>2. Len(c) \in 1 .. Len(c) /\ Len(c) > 0
    BY <1>2, <2>1
  <2>3. Last(c) = c[Len(c)]
    BY Zenon DEF Last
  <2>4. Joined(c) = c[Len(c)].at + Size(c[Len(c)].piece)
    BY <1>6, <2>3, Zenon DEF Joined
  <2> QED BY <1>4, <2>2, <2>3, <2>4
<1>7. Joined(c) \in Nat
  <2>1. CASE c = <<>>
    BY <1>5, <2>1
  <2>2. CASE c # <<>>
    <3>1. c[Len(c)] \in Placed /\ c[Len(c)].piece.from < c[Len(c)].piece.to
      BY <1>2, <1>6, <2>2 DEF Pile
    <3>2. c[Len(c)].at \in Nat /\ Size(c[Len(c)].piece) \in Nat
      BY <3>1, PlacedIs DEF Size
    <3> QED BY <1>6, <2>2, <3>2
  <2> QED BY <2>1, <2>2
<1> QED BY <1>2, <1>4, <1>5, <1>6, <1>7

LEMMA PrecedesOn ==
  ASSUME NEW d \in Placed, NEW e \in Placed, NEW f \in Placed,
         Precedes(d, e), Precedes(e, f)
  PROVE  Precedes(d, f)
<1>1. /\ d.at \in Nat /\ d.piece.from \in Nat /\ d.piece.to \in Nat
      /\ e.at \in Nat /\ e.piece.from \in Nat /\ e.piece.to \in Nat
      /\ f.at \in Nat /\ f.piece.from \in Nat /\ f.piece.to \in Nat
  BY PlacedIs
<1> QED BY <1>1 DEF Precedes

(* One more piece.                                                         *)
LEMMA PutOn ==
  ASSUME NEW c, Pile(c), NEW p \in Interval, p.from < p.to,
         c # <<>> => Last(c).piece.from < p.from /\ Last(c).piece.to < p.to
  PROVE  /\ Pile(Put(c, p)) /\ Put(c, p) # <<>>
         /\ Last(Put(c, p)).piece = p
         /\ Held(Put(c, p)) = Held(c) \cup {p}
         /\ Joined(Put(c, p)) = (IF c = <<>> THEN 0 ELSE Joined(c) + 2) + Size(p)
<1> DEFINE at == IF c = <<>> THEN 0 ELSE Joined(c) + 2
           e == [piece |-> p, at |-> at]
           r == Append(c, e)
<1>1. /\ Len(c) \in Nat /\ DOMAIN c = 1 .. Len(c) /\ c \in Seq(Placed)
      /\ \A i \in 1 .. Len(c) : c[i] \in Placed
      /\ c = <<>> => Len(c) = 0
      /\ c # <<>> => /\ Len(c) > 0 /\ Len(c) \in 1 .. Len(c) /\ Last(c) = c[Len(c)]
                     /\ Joined(c) = c[Len(c)].at + Size(c[Len(c)].piece)
      /\ Joined(c) \in Nat
  BY PileFacts DEF Pile
<1>2. at \in Nat
  BY <1>1
<1>3. Put(c, p) = r
  BY Zenon DEF Put
<1>4. e.piece = p /\ e.at = at /\ e \in Placed
  BY <1>2 DEF Placed
<1> HIDE DEF at, e
<1>5. /\ r \in Seq(Placed) /\ r # <<>> /\ Len(r) = Len(c) + 1
      /\ \A i \in 1 .. Len(c) : r[i] = c[i]
      /\ r[Len(c) + 1] = e /\ Last(r) = e /\ Range(r) = Range(c) \cup {e}
  BY <1>1, <1>4, Appended
<1> HIDE DEF r
<1>6. Last(r).piece = p /\ Held(r) = Held(c) \cup {p}
  BY <1>4, <1>5 DEF Held
<1>7. Joined(r) = at + Size(p)
  BY <1>4, <1>5, Zenon DEF Joined
<1>8. r[1].at = 0
  <2>1. CASE c = <<>>
    <3>1. r[1] = e
      BY <1>1, <1>5, <2>1
    <3> QED BY <1>4, <2>1, <3>1 DEF at
  <2>2. CASE c # <<>>
    <3>1. r[1] = c[1]
      BY <1>1, <1>5, <2>2
    <3> QED BY <2>2, <3>1 DEF Pile
  <2> QED BY <2>1, <2>2
<1>9. \A i \in 1 .. Len(r) : r[i].piece.from < r[i].piece.to
  BY <1>1, <1>4, <1>5 DEF Pile
<1>10. ASSUME c # <<>> PROVE at = c[Len(c)].at + Size(c[Len(c)].piece) + 2
  <2>1. at = Joined(c) + 2
    BY <1>10 DEF at
  <2> QED BY <1>1, <1>10, <2>1
<1>11. ASSUME NEW i \in 1 .. Len(r) - 1 PROVE r[i + 1].at = r[i].at + Size(r[i].piece) + 2
  <2>1. i \in 1 .. Len(c) /\ r[i] = c[i] /\ c # <<>>
    BY <1>1, <1>5
  <2>2. CASE i = Len(c)
    <3>1. r[i + 1] = e
      BY <1>5, <2>2
    <3> QED BY <1>4, <1>10, <2>1, <2>2, <3>1
  <2>3. CASE i # Len(c)
    <3>1. i \in 1 .. Len(c) - 1 /\ i + 1 \in 1 .. Len(c)
      BY <1>1, <2>1, <2>3
    <3>2. r[i + 1] = c[i + 1]
      BY <1>5, <3>1
    <3> QED BY <2>1, <3>1, <3>2 DEF Pile
  <2> QED BY <2>2, <2>3
<1>12. ASSUME c # <<>> PROVE Precedes(c[Len(c)], e)
  <2>1. c[Len(c)].piece.from < p.from /\ c[Len(c)].piece.to < p.to
    BY <1>1, <1>12
  <2>2. c[Len(c)].at < at
    <3>1. c[Len(c)] \in Placed /\ c[Len(c)].piece.from < c[Len(c)].piece.to
      BY <1>1, <1>12 DEF Pile
    <3>2. c[Len(c)].at \in Nat /\ Size(c[Len(c)].piece) \in Nat
      BY <3>1, PlacedIs DEF Size
    <3> QED BY <1>10, <1>12, <3>2
  <2> QED BY <1>4, <2>1, <2>2 DEF Precedes
<1>13. ASSUME NEW i \in 1 .. Len(r), NEW j \in 1 .. Len(r), i < j PROVE Precedes(r[i], r[j])
  <2>1. i \in 1 .. Len(c) /\ r[i] = c[i] /\ c # <<>>
    BY <1>1, <1>5, <1>13
  <2>2. CASE j \in 1 .. Len(c)
    BY <1>5, <1>13, <2>1, <2>2 DEF Pile
  <2>3. CASE j = Len(c) + 1
    <3>1. r[j] = e
      BY <1>5, <2>3
    <3>2. CASE i = Len(c)
      BY <1>12, <2>1, <3>1, <3>2
    <3>3. CASE i # Len(c)
      <4>1. Precedes(c[i], c[Len(c)])
        <5>1. i < Len(c) /\ Len(c) \in 1 .. Len(c)
          <6>1. i \in 1 .. Len(c) /\ Len(c) \in Nat /\ i # Len(c)
            BY <1>1, <2>1, <3>3
          <6> QED BY <6>1
        <5> QED BY <2>1, <5>1 DEF Pile
      <4>2. Precedes(c[Len(c)], e)
        BY <1>12, <2>1
      <4>3. c[i] \in Placed /\ c[Len(c)] \in Placed
        BY <1>1, <2>1
      <4>6. Precedes(c[i], e)
        BY <1>4, <4>1, <4>2, <4>3, PrecedesOn
      <4> QED BY <2>1, <3>1, <4>6, Zenon
    <3> QED BY <3>2, <3>3
  <2> QED BY <1>1, <1>5, <2>2, <2>3
<1>14. Pile(r)
  BY <1>5, <1>8, <1>9, <1>11, <1>13 DEF Pile
<1> QED BY <1>3, <1>5, <1>6, <1>7, <1>14 DEF at

(* The least piece from which on they fit into the overlap.                *)
LEMMA SeedFirst ==
  ASSUME NEW c, Pile(c), NEW f, f = SeedStart(c)
  PROVE  /\ f \in 1 .. Len(c) + 1 /\ JoinedFrom(c, f) <= OVERLAP_CHARS
         /\ f > 1 => JoinedFrom(c, f - 1) > OVERLAP_CHARS
<1> DEFINE T == {i \in 1 .. Len(c) + 1 : JoinedFrom(c, i) <= OVERLAP_CHARS}
<1>1. /\ Len(c) \in Nat /\ Joined(c) \in Nat
      /\ \A i \in 1 .. Len(c) : c[i] \in Placed
  BY PileFacts
<1>2. OVERLAP_CHARS \in Nat
  BY ChunkerAssumption
<1>3. ASSUME NEW i \in 1 .. Len(c) + 1 PROVE JoinedFrom(c, i) \in Int
  <2>1. CASE i > Len(c)
    BY <2>1 DEF JoinedFrom
  <2>2. CASE ~ (i > Len(c))
    <3>1. i \in 1 .. Len(c)
      BY <1>1, <2>2
    <3>2. c[i].at \in Nat
      BY <1>1, <3>1, PlacedIs
    <3>3. JoinedFrom(c, i) = Joined(c) - c[i].at
      BY <2>2, Zenon DEF JoinedFrom
    <3> QED BY <1>1, <3>2, <3>3
  <2> QED BY <2>1, <2>2
<1>4. Len(c) + 1 \in T
  <2>1. Len(c) + 1 > Len(c) /\ Len(c) + 1 \in 1 .. Len(c) + 1
    BY <1>1
  <2>2. JoinedFrom(c, Len(c) + 1) = 0
    BY <2>1 DEF JoinedFrom
  <2> QED BY <1>2, <2>1, <2>2
<1>5. T \in SUBSET Nat /\ T # {}
  BY <1>1, <1>4
<1>6. f = Min(T)
  BY Zenon DEF SeedStart
<1> HIDE DEF T
<1>7. f \in T /\ \A y \in T : f <= y
  <2>1. \E x \in T : \A y \in T : x <= y
    BY <1>5, LeastOf
  <2> QED BY <1>6, <2>1 DEF Min
<1>8. f \in 1 .. Len(c) + 1 /\ JoinedFrom(c, f) <= OVERLAP_CHARS
  BY <1>7 DEF T
<1>9. ASSUME f > 1 PROVE JoinedFrom(c, f - 1) > OVERLAP_CHARS
  <2>1. f - 1 \in 1 .. Len(c) + 1 /\ ~ (f <= f - 1)
    BY <1>1, <1>8, <1>9
  <2>2. f - 1 \notin T
    BY <1>7, <2>1
  <2>3. ~ (JoinedFrom(c, f - 1) <= OVERLAP_CHARS)
    BY <2>1, <2>2 DEF T
  <2> QED BY <1>2, <1>3, <2>1, <2>3
<1> QED BY <1>8, <1>9

(* The trailing pieces are a pile of their own.                            *)
LEMMA Seeded ==
  ASSUME NEW c, Pile(c), NEW f, f = SeedStart(c), NEW s, s = OverlapSeed(c)
  PROVE  /\ Pile(s) /\ Joined(s) <= OVERLAP_CHARS
         /\ Held(s) = {c[i].piece : i \in f .. Len(c)}
         /\ s # <<>> => Last(s).piece = Last(c).piece
<1> DEFINE n == Len(c) + 1 - f
           a == c[f].at
<1>1. /\ Len(c) \in Nat /\ Joined(c) \in Nat /\ c \in Seq(Placed)
      /\ \A i \in 1 .. Len(c) : c[i] \in Placed
  BY PileFacts DEF Pile
<1>2. f \in 1 .. Len(c) + 1 /\ JoinedFrom(c, f) <= OVERLAP_CHARS
  BY SeedFirst
<1>3. n \in Nat /\ \A j \in 1 .. n : f + j - 1 \in f .. Len(c) /\ f + j - 1 \in 1 .. Len(c)
  BY <1>1, <1>2
<1>4. s = [j \in 1 .. n |-> [c[f + j - 1] EXCEPT !.at = @ - a]]
  BY Zenon DEF OverlapSeed
<1> HIDE DEF n, a
<1>5. ASSUME NEW j \in 1 .. n
      PROVE  /\ s[j].piece = c[f + j - 1].piece /\ s[j].at = c[f + j - 1].at - a
             /\ s[j] \in Placed
  <2> DEFINE e == c[f + j - 1]
  <2>1. e \in Placed
    BY <1>1, <1>3
  <2>2. s[j] = [e EXCEPT !.at = @ - a]
    BY <1>4, Zenon
  <2>3. n >= 1 /\ f \in 1 .. Len(c)
    BY <1>1, <1>2, <1>3 DEF n
  <2>4. a \in Nat /\ a <= e.at
    <3>1. c[f] \in Placed /\ a = c[f].at
      BY <1>1, <2>3 DEF a
    <3>2. a \in Nat /\ e.at \in Nat
      BY <2>1, <3>1, PlacedIs
    <3>3. CASE j = 1
      <4>1. f + j - 1 = f
        BY <1>2, <3>3
      <4>2. a = e.at
        BY <3>1, <4>1
      <4> QED BY <3>2, <4>2
    <3>4. CASE j # 1
      <4>1. f < f + j - 1 /\ f + j - 1 \in 1 .. Len(c)
        BY <1>2, <1>3, <3>4
      <4>2. Precedes(c[f], c[f + j - 1])
        BY <2>3, <4>1 DEF Pile
      <4>3. a < e.at
        BY <3>1, <4>2 DEF Precedes
      <4> QED BY <3>2, <4>3
    <3> QED BY <3>3, <3>4
  <2> HIDE DEF e
  <2>5. s[j].piece = e.piece /\ s[j].at = e.at - a /\ s[j] = [piece |-> e.piece, at |-> e.at - a]
    BY <2>1, <2>2 DEF Placed
  <2>6. e.at - a \in Nat /\ e.piece \in Interval
    BY <2>1, <2>4, PlacedIs
  <2>7. s[j] \in Placed
    BY <2>5, <2>6 DEF Placed
  <2> QED BY <2>5, <2>7 DEF e
<1>6. s \in Seq(Placed) /\ Len(s) = n /\ DOMAIN s = 1 .. n
  <2>1. s \in [1 .. n -> Placed]
    BY <1>4, <1>5
  <2>2. s \in Seq(Placed)
    BY <1>3, <2>1, SeqDef
  <2>3. Len(s) \in Nat /\ DOMAIN s = 1 .. Len(s)
    BY <2>2, RangeOf
  <2> QED BY <1>3, <2>1, <2>2, LenProperties
<1>7. ASSUME NEW j \in 1 .. n
      PROVE  /\ f + j - 1 \in 1 .. Len(c) /\ c[f + j - 1] \in Placed
             /\ c[f + j - 1].at \in Nat /\ a \in Nat
  <2>1. f \in 1 .. Len(c)
    BY <1>1, <1>2, <1>3 DEF n
  <2> QED BY <1>1, <1>3, <2>1, PlacedIs DEF a
<1>8. ASSUME s # <<>> PROVE s[1].at = 0
  <2>1. n # 0
    BY <1>6, <1>8, EmptySeq
  <2>2. 1 \in 1 .. n /\ f + 1 - 1 = f
    BY <1>2, <1>3, <2>1
  <2>3. s[1].at = c[f].at - a /\ c[f].at \in Nat
    BY <1>5, <1>7, <2>2
  <2> QED BY <2>3 DEF a
<1>9. \A i \in 1 .. n : s[i].piece.from < s[i].piece.to
  BY <1>5, <1>7 DEF Pile
<1>10. ASSUME NEW i \in 1 .. n - 1 PROVE s[i + 1].at = s[i].at + Size(s[i].piece) + 2
  <2>1. i \in 1 .. n /\ i + 1 \in 1 .. n
    BY <1>3
  <2>2. s[i + 1].at = c[f + (i + 1) - 1].at - a
    BY <1>5, <2>1
  <2>3. f + (i + 1) - 1 = (f + i - 1) + 1
    BY <1>2
  <2> DEFINE k == f + i - 1
  <2>4. k \in 1 .. Len(c) - 1
    BY <1>1, <1>2, <2>1 DEF n
  <2>5. c[k + 1].at = c[k].at + Size(c[k].piece) + 2
    BY <2>4 DEF Pile
  <2>6. s[i].at = c[k].at - a /\ s[i].piece = c[k].piece /\ c[k].at \in Nat /\ a \in Nat
        /\ Size(c[k].piece) \in Int
    <3>1. c[k] \in Placed
      BY <1>7, <2>1
    <3> QED BY <1>5, <1>7, <2>1, <3>1, PlacedIs
  <2>7. s[i + 1].at = c[k + 1].at - a
    BY <2>2, <2>3, Zenon
  <2> HIDE DEF k
  <2> QED BY <2>5, <2>6, <2>7
<1>11. ASSUME NEW i \in 1 .. n, NEW j \in 1 .. n, i < j PROVE Precedes(s[i], s[j])
  <2>1. f + i - 1 < f + j - 1
    BY <1>2, <1>11
  <2>2. Precedes(c[f + i - 1], c[f + j - 1])
    BY <1>7, <2>1 DEF Pile
  <2>3. c[f + i - 1].at < c[f + j - 1].at
    BY <2>2 DEF Precedes
  <2>4. s[i].at < s[j].at
    BY <1>5, <1>7, <2>3
  <2> QED BY <1>5, <2>2, <2>4 DEF Precedes
<1>12. Pile(s)
  BY <1>6, <1>8, <1>9, <1>10, <1>11 DEF Pile
<1>13. Held(s) = {c[i].piece : i \in f .. Len(c)}
  <2>1. Held(s) = {s[j].piece : j \in 1 .. n}
    BY <1>6, <1>12, PileFacts
  <2>2. ASSUME NEW i \in f .. Len(c) PROVE c[i].piece \in Held(s)
    <3>1. i - f + 1 \in 1 .. n /\ f + (i - f + 1) - 1 = i
      BY <1>1, <1>2 DEF n
    <3>2. s[i - f + 1].piece = c[i].piece
      BY <1>5, <3>1
    <3> QED BY <2>1, <3>1, <3>2
  <2>3. \A j \in 1 .. n : \E i \in f .. Len(c) : s[j].piece = c[i].piece
    BY <1>3, <1>5
  <2> QED BY <2>1, <2>2, <2>3
<1>14. ASSUME s # <<>>
       PROVE  /\ n \in 1 .. n /\ f + n - 1 = Len(c) /\ c # <<>>
              /\ Last(s) = s[n] /\ Last(c) = c[Len(c)]
              /\ Joined(c) = c[Len(c)].at + Size(c[Len(c)].piece)
              /\ Joined(s) = s[n].at + Size(s[n].piece)
  <2>1. n \in 1 .. n
    BY <1>3, <1>6, <1>12, <1>14, PileFacts
  <2>2. f + n - 1 = Len(c)
    BY <1>1, <1>2 DEF n
  <2>3. Len(c) # 0
    BY <1>1, <1>7, <2>1, <2>2
  <2>4. c # <<>>
    BY <1>1, <2>3, EmptySeq
  <2> QED BY <1>6, <1>12, <1>14, <2>1, <2>2, <2>4, PileFacts
<1>15. s # <<>> => Last(s).piece = Last(c).piece
  BY <1>5, <1>14
<1>16. Joined(s) <= OVERLAP_CHARS
  <2>1. CASE s = <<>>
    BY <1>12, <2>1, PileFacts, ChunkerAssumption
  <2>2. CASE s # <<>>
    <3>1. f \in 1 .. Len(c) /\ ~ (f > Len(c))
      BY <1>1, <1>2, <1>14, <2>2
    <3>2. JoinedFrom(c, f) = Joined(c) - a
      BY <3>1 DEF JoinedFrom, a
    <3>3. s[n].at = c[Len(c)].at - a /\ s[n].piece = c[Len(c)].piece
      BY <1>5, <1>14, <2>2
    <3>4. c[Len(c)] \in Placed
      BY <1>1, <1>14, <2>2, PileFacts
    <3>5. c[Len(c)].at \in Nat /\ Size(c[Len(c)].piece) \in Int /\ a \in Nat
      BY <1>7, <1>14, <2>2, <3>4, PlacedIs
    <3>6. Joined(s) = Joined(c) - a
      BY <1>14, <2>2, <3>3, <3>5
    <3> QED BY <1>2, <3>2, <3>6
  <2> QED BY <2>1, <2>2
<1> QED BY <1>12, <1>13, <1>15, <1>16

IsChunk(c, ps) ==
  /\ Pile(c) /\ c # <<>> /\ Held(c) \subseteq Range(ps)
  /\ Joined(c) <= OVERLAP_CHARS + 2 + HARD_MAX_CHARS

Earlier(q) == IF q = <<>> THEN {} ELSE Held(Last(q))

(* What may follow the chunks q.                                           *)
Links(q, c, ps) ==
  /\ IsChunk(c, ps)
  /\ q # <<>> => Follows(Last(q), c)
  /\ Joined(c) > TARGET_CHARS => Held(c) \ Earlier(q) = {Last(c).piece}

Chain(q, ps) ==
  /\ q \in Seq(Seq(Placed))
  /\ \A i \in 1 .. Len(q) :
       /\ IsChunk(q[i], ps)
       /\ i > 1 => Follows(q[i - 1], q[i])
       /\ Joined(q[i]) > TARGET_CHARS =>
            Held(q[i]) \ (IF i = 1 THEN {} ELSE Held(q[i - 1])) = {Last(q[i]).piece}

AllHeld(q) == UNION {Held(c) : c \in Range(q)}

LEMMA LastOfAll ==
  ASSUME NEW c, Pile(c), c # <<>>, NEW p \in Held(c)
  PROVE  /\ p \in Interval /\ Last(c).piece \in Interval
         /\ p.from <= Last(c).piece.from /\ p.to <= Last(c).piece.to
<1>1. /\ Len(c) \in Nat /\ Held(c) = {c[i].piece : i \in 1 .. Len(c)}
      /\ \A i \in 1 .. Len(c) : c[i] \in Placed
      /\ Len(c) \in 1 .. Len(c) /\ Last(c) = c[Len(c)]
  BY PileFacts
<1>2. PICK i \in 1 .. Len(c) : p = c[i].piece
  BY <1>1
<1> DEFINE last == c[Len(c)]
<1>3. /\ c[i] \in Placed /\ last \in Placed
      /\ p \in Interval /\ last.piece \in Interval
      /\ p.from \in Nat /\ p.to \in Nat /\ last.piece.from \in Nat /\ last.piece.to \in Nat
  BY <1>1, <1>2, PlacedIs
<1>4. CASE i = Len(c)
  BY <1>1, <1>2, <1>3, <1>4
<1>5. CASE i # Len(c)
  <2>1. i < Len(c)
    BY <1>1, <1>5
  <2>2. Precedes(c[i], last)
    BY <1>1, <2>1 DEF Pile
  <2>3. p.from < last.piece.from /\ p.to < last.piece.to
    BY <1>2, <2>2 DEF Precedes
  <2> QED BY <1>1, <1>3, <2>3
<1> QED BY <1>4, <1>5

LEMMA ChainOn ==
  ASSUME NEW ps, NEW q, Chain(q, ps), NEW c, Links(q, c, ps)
  PROVE  /\ Chain(Append(q, c), ps) /\ Append(q, c) # <<>> /\ Last(Append(q, c)) = c
         /\ AllHeld(Append(q, c)) = AllHeld(q) \cup Held(c)
<1> DEFINE r == Append(q, c)
<1>1. q \in Seq(Seq(Placed)) /\ c \in Seq(Placed)
  BY DEF Chain, Links, IsChunk, Pile
<1>2. /\ r \in Seq(Seq(Placed)) /\ r # <<>> /\ Len(r) = Len(q) + 1 /\ Len(q) \in Nat
      /\ \A i \in 1 .. Len(q) : r[i] = q[i]
      /\ r[Len(q) + 1] = c /\ Last(r) = c /\ Range(r) = Range(q) \cup {c}
  BY <1>1, Appended
<1> HIDE DEF r
<1>3. AllHeld(r) = AllHeld(q) \cup Held(c)
  BY <1>2 DEF AllHeld
<1>4. ASSUME NEW i \in 1 .. Len(r)
      PROVE  /\ IsChunk(r[i], ps)
             /\ i > 1 => Follows(r[i - 1], r[i])
             /\ Joined(r[i]) > TARGET_CHARS =>
                  Held(r[i]) \ (IF i = 1 THEN {} ELSE Held(r[i - 1])) = {Last(r[i]).piece}
  <2>1. CASE i \in 1 .. Len(q)
    <3>1. r[i] = q[i]
      BY <1>2, <2>1
    <3>2. ASSUME i # 1 PROVE r[i - 1] = q[i - 1]
      <4>1. i - 1 \in 1 .. Len(q)
        <5>1. i \in 1 .. Len(q) /\ Len(q) \in Nat /\ i # 1
          BY <1>2, <2>1, <3>2
        <5> QED BY <5>1
      <4> QED BY <1>2, <4>1
    <3>3. i > 1 => i # 1
      BY <2>1
    <3>4. CASE i = 1
      BY <2>1, <3>1, <3>3, <3>4 DEF Chain
    <3>5. CASE i # 1
      BY <2>1, <3>1, <3>2, <3>5 DEF Chain
    <3> QED BY <3>4, <3>5
  <2>2. CASE i = Len(q) + 1
    <3>1. r[i] = c
      BY <1>2, <2>2
    <3>2. CASE i = 1
      <4>1. q = <<>>
        BY <1>1, <1>2, <2>2, <3>2, EmptySeq
      <4> QED BY <3>1, <3>2, <4>1 DEF Links, Earlier
    <3>3. CASE i # 1
      <4>1. q # <<>>
        BY <1>1, <1>2, <2>2, <3>3, EmptySeq
      <4>2. i - 1 = Len(q) /\ i - 1 \in 1 .. Len(q)
        BY <1>2, <2>2, <3>3
      <4>3. r[i - 1] = Last(q)
        BY <1>2, <4>2 DEF Last
      <4> QED BY <3>1, <3>3, <4>1, <4>3 DEF Links, Earlier
    <3> QED BY <3>2, <3>3
  <2> QED BY <1>2, <2>1, <2>2
<1> QED BY <1>2, <1>3, <1>4 DEF Chain, r

LEMMA LastOfChain ==
  ASSUME NEW ps, NEW q, Chain(q, ps), q # <<>>
  PROVE  IsChunk(Last(q), ps)
<1>1. Len(q) \in Nat /\ Len(q) # 0
  BY LenProperties, EmptySeq DEF Chain
<1>2. Len(q) \in 1 .. Len(q)
  BY <1>1
<1> QED BY <1>2 DEF Chain, Last

(* A piece that still fits.                                                *)
LEMMA PutMore ==
  ASSUME NEW ps, NEW q, Chain(q, ps), NEW c, Links(q, c, ps),
         NEW p \in Interval, p \in Range(ps), p.from < p.to,
         Last(c).piece.from < p.from, Last(c).piece.to < p.to,
         Joined(c) + 2 + Size(p) <= TARGET_CHARS
  PROVE  Links(q, Put(c, p), ps)
<1> DEFINE d == Put(c, p)
<1>1. Pile(c) /\ c # <<>> /\ Held(c) \subseteq Range(ps)
  BY DEF Links, IsChunk
<1>2. /\ Pile(d) /\ d # <<>> /\ Last(d).piece = p /\ Held(d) = Held(c) \cup {p}
      /\ Joined(d) = (IF c = <<>> THEN 0 ELSE Joined(c) + 2) + Size(p)
  BY <1>1, PutOn
<1> HIDE DEF d
<1>3. Joined(d) = Joined(c) + 2 + Size(p)
  <2>1. (IF c = <<>> THEN 0 ELSE Joined(c) + 2) = Joined(c) + 2
    BY <1>1
  <2>2. Joined(c) \in Nat /\ Size(p) \in Int
    BY <1>1, PileFacts DEF Interval, Size
  <2> QED BY <1>2, <2>1, <2>2
<1>4. Joined(d) \in Nat /\ Joined(d) <= TARGET_CHARS
  BY <1>2, <1>3, PileFacts
<1>5. IsChunk(d, ps)
  <2>1. Joined(d) <= OVERLAP_CHARS + 2 + HARD_MAX_CHARS
    BY <1>4, ChunkerAssumption
  <2> QED BY <1>1, <1>2, <2>1 DEF IsChunk
<1>6. ~ (Joined(d) > TARGET_CHARS)
  BY <1>4, ChunkerAssumption
<1>7. ASSUME q # <<>> PROVE Follows(Last(q), d)
  <2> DEFINE b == Last(q)
  <2>1. Pile(b) /\ b # <<>>
    BY <1>7, LastOfChain DEF IsChunk
  <2>2. Follows(b, c)
    BY <1>7 DEF Links
  <2> HIDE DEF b
  <2>3. /\ Last(c).piece \in Interval /\ Last(b).piece \in Interval
        /\ b[1].at = b[1].at
    BY <1>1, <2>1, LastOfAll, PileFacts
  <2>4. Last(b).piece.to < p.to
    <3>1. Last(b).piece.to < Last(c).piece.to
      BY <2>2 DEF Follows
    <3> QED BY <2>3, <3>1 DEF Interval
  <2>5. p \notin Held(b)
    <3> SUFFICES ASSUME p \in Held(b) PROVE FALSE
      OBVIOUS
    <3>1. p.to <= Last(b).piece.to
      BY <2>1, LastOfAll
    <3> QED BY <2>3, <2>4, <3>1 DEF Interval
  <2>6. Held(b) \cap Held(d) = Held(b) \cap Held(c)
    BY <1>2, <2>5
  <2> QED BY <1>2, <2>2, <2>4, <2>6, Zenon DEF Follows, b
<1> QED BY <1>5, <1>6, <1>7 DEF Links, d

(* A piece that does not, which follows the seed.                          *)
LEMMA PutSeeded ==
  ASSUME NEW ps, NEW q, Chain(q, ps), NEW c, Links(q, c, ps),
         NEW p \in Interval, p \in Range(ps), p.from < p.to, Size(p) <= HARD_MAX_CHARS,
         Last(c).piece.from < p.from, Last(c).piece.to < p.to
  PROVE  Links(Append(q, c), Put(OverlapSeed(c), p), ps)
<1> DEFINE s == OverlapSeed(c)
           f == SeedStart(c)
           d == Put(s, p)
<1>1. Pile(c) /\ c # <<>> /\ Held(c) \subseteq Range(ps)
  BY DEF Links, IsChunk
<1>2. /\ f \in 1 .. Len(c) + 1 /\ JoinedFrom(c, f) <= OVERLAP_CHARS
      /\ f > 1 => JoinedFrom(c, f - 1) > OVERLAP_CHARS
  BY <1>1, SeedFirst
<1>3. /\ Pile(s) /\ Joined(s) <= OVERLAP_CHARS
      /\ Held(s) = {c[i].piece : i \in f .. Len(c)}
      /\ s # <<>> => Last(s).piece = Last(c).piece
  BY <1>1, Seeded
<1> HIDE DEF s, f
<1>4. /\ Pile(d) /\ d # <<>> /\ Last(d).piece = p /\ Held(d) = Held(s) \cup {p}
      /\ Joined(d) = (IF s = <<>> THEN 0 ELSE Joined(s) + 2) + Size(p)
  BY <1>3, PutOn
<1> HIDE DEF d
<1>5. /\ Len(c) \in Nat /\ Held(c) = {c[i].piece : i \in 1 .. Len(c)}
      /\ Joined(s) \in Nat /\ Last(c).piece \in Held(c)
  BY <1>1, <1>3, PileFacts
<1>6. Held(s) \subseteq Held(c)
  <2>1. f .. Len(c) \subseteq 1 .. Len(c)
    BY <1>2, <1>5
  <2> QED BY <1>3, <1>5, <2>1
<1>7. p \notin Held(c)
  <2> SUFFICES ASSUME p \in Held(c) PROVE FALSE
    OBVIOUS
  <2>1. p.to <= Last(c).piece.to /\ Last(c).piece \in Interval
    BY <1>1, LastOfAll
  <2> QED BY <2>1 DEF Interval
<1>8. IsChunk(d, ps)
  <2>1. Size(p) \in Int /\ OVERLAP_CHARS \in Nat /\ HARD_MAX_CHARS \in Nat
    BY ChunkerAssumption DEF Interval, Size
  <2>2. CASE s = <<>>
    <3>1. Joined(d) = Size(p)
      BY <1>4, <2>1, <2>2
    <3> QED BY <1>1, <1>4, <1>6, <2>1, <3>1 DEF IsChunk
  <2>3. CASE s # <<>>
    <3>1. Joined(d) = Joined(s) + 2 + Size(p)
      BY <1>4, <2>3
    <3>2. Joined(d) <= OVERLAP_CHARS + 2 + HARD_MAX_CHARS
      BY <1>3, <1>5, <2>1, <3>1
    <3> QED BY <1>1, <1>4, <1>6, <3>2 DEF IsChunk
  <2> QED BY <2>2, <2>3
<1>9. Append(q, c) # <<>> /\ Last(Append(q, c)) = c
  BY ChainOn
<1>10. Follows(c, d)
  <2>1. Held(c) \cap Held(d) = {c[i].piece : i \in f .. Len(c)}
    BY <1>3, <1>4, <1>6, <1>7
  <2> QED BY <1>2, <1>4, <2>1 DEF Follows
<1>11. Held(d) \ Earlier(Append(q, c)) = {Last(d).piece}
  <2>1. Earlier(Append(q, c)) = Held(c)
    BY <1>9 DEF Earlier
  <2> QED BY <1>4, <1>6, <1>7, <2>1
<1> QED BY <1>8, <1>9, <1>10, <1>11 DEF Links, d, s

LEMMA PutFirst ==
  ASSUME NEW ps, NEW p \in Interval, p \in Range(ps), p.from < p.to,
         Size(p) <= HARD_MAX_CHARS
  PROVE  Links(<<>>, Put(<<>>, p), ps) /\ Last(Put(<<>>, p)).piece = p
<1> DEFINE d == Put(<<>>, p)
<1>1. <<>> \in Seq(Placed) /\ Len(<<>>) = 0
  BY EmptySeq
<1>2. Pile(<<>>)
  BY <1>1 DEF Pile
<1>3. Held(<<>>) = {}
  BY <1>1, <1>2, PileFacts
<1>4. /\ Pile(d) /\ d # <<>> /\ Last(d).piece = p /\ Held(d) = {p}
      /\ Joined(d) = 0 + Size(p)
  BY <1>2, <1>3, PutOn
<1> HIDE DEF d
<1>5. Joined(d) <= OVERLAP_CHARS + 2 + HARD_MAX_CHARS
  <2>1. Size(p) \in Int
    BY DEF Interval, Size
  <2> QED BY <1>4, <2>1, ChunkerAssumption
<1> QED BY <1>4, <1>5 DEF Links, IsChunk, Earlier, d

(* n pieces are packed: the chunks q are made, c is gathered.              *)
PackFacts(q, c, n, ps) ==
  /\ Chain(q, ps) /\ n \in 0 .. Len(ps)
  /\ n = 0 => q = <<>> /\ c = <<>>
  /\ n # 0 => /\ Links(q, c, ps) /\ Last(c).piece = ps[n]
              /\ \A k \in 1 .. n : ps[k] \in AllHeld(q) \cup Held(c)

LEMMA PackedOne ==
  ASSUME NEW bs, NEW ps, CutFacts(bs, Len(bs), ps), NEW q, NEW c, NEW n \in Nat,
         n < Len(ps), PackFacts(q, c, n, ps), NEW p, p = ps[n + 1]
  PROVE  /\ c # <<>> /\ Joined(c) + 2 + Size(p) > TARGET_CHARS =>
              PackFacts(Append(q, c), Put(OverlapSeed(c), p), n + 1, ps)
         /\ ~ (c # <<>> /\ Joined(c) + 2 + Size(p) > TARGET_CHARS) =>
              PackFacts(q, Put(c, p), n + 1, ps)
<1>1. ps \in Seq(Interval) /\ Rising(ps) /\ \A x \in Range(ps) : PieceOf(x, bs)
  BY DEF CutFacts
<1>2. Len(ps) \in Nat /\ DOMAIN ps = 1 .. Len(ps)
  BY <1>1, RangeOf
<1>3. n + 1 \in 1 .. Len(ps) /\ n + 1 \in 0 .. Len(ps) /\ n + 1 # 0
  BY <1>2
<1>4. p \in Interval /\ p \in Range(ps) /\ p.from < p.to /\ Size(p) <= HARD_MAX_CHARS
  BY <1>1, <1>3, RangeOf DEF PieceOf
<1>5. Chain(q, ps)
  BY DEF PackFacts
<1>6. CASE n = 0
  <2>1. q = <<>> /\ c = <<>>
    BY <1>6 DEF PackFacts
  <2>2. Links(q, Put(c, p), ps) /\ Last(Put(c, p)).piece = p
    BY <1>4, <2>1, PutFirst
  <2>3. Pile(Put(c, p)) /\ Put(c, p) # <<>>
    BY <2>2 DEF Links, IsChunk
  <2>4. p \in Held(Put(c, p))
    BY <2>2, <2>3, PileFacts
  <2>5. \A k \in 1 .. n + 1 : k = n + 1
    BY <1>6
  <2>6. PackFacts(q, Put(c, p), n + 1, ps)
    BY <1>3, <1>5, <2>2, <2>4, <2>5 DEF PackFacts
  <2> QED BY <2>1, <2>6
<1>7. CASE n # 0
  <2>1. /\ Links(q, c, ps) /\ Last(c).piece = ps[n]
        /\ \A k \in 1 .. n : ps[k] \in AllHeld(q) \cup Held(c)
    BY <1>7 DEF PackFacts
  <2>2. Pile(c) /\ c # <<>>
    BY <2>1 DEF Links, IsChunk
  <2>3. Last(c).piece.from < p.from /\ Last(c).piece.to < p.to
    <3>1. n \in DOMAIN ps /\ n + 1 \in DOMAIN ps /\ n < n + 1
      BY <1>2, <1>7
    <3> QED BY <1>1, <2>1, <3>1 DEF Rising
  <2>4. \A k \in 1 .. n + 1 : k \in 1 .. n \/ k = n + 1
    OBVIOUS
  <2>5. ASSUME Joined(c) + 2 + Size(p) > TARGET_CHARS
        PROVE  PackFacts(Append(q, c), Put(OverlapSeed(c), p), n + 1, ps)
    <3> DEFINE r == Append(q, c)
               s == OverlapSeed(c)
               d == Put(s, p)
    <3>1. Chain(r, ps) /\ AllHeld(r) = AllHeld(q) \cup Held(c)
      BY <1>5, <2>1, ChainOn
    <3>2. Links(r, d, ps)
      BY <1>4, <1>5, <2>1, <2>3, PutSeeded
    <3>3. Pile(s) /\ (s # <<>> => Last(s).piece = Last(c).piece)
      BY <2>2, Seeded
    <3> HIDE DEF r, s
    <3>4. Last(d).piece = p /\ Held(d) = Held(s) \cup {p}
      BY <1>4, <2>3, <3>3, PutOn
    <3> HIDE DEF d
    <3>5. \A k \in 1 .. n + 1 : ps[k] \in AllHeld(r) \cup Held(d)
      BY <2>1, <2>4, <3>1, <3>4
    <3>6. PackFacts(r, d, n + 1, ps)
      BY <1>3, <3>1, <3>2, <3>4, <3>5 DEF PackFacts
    <3> QED BY <3>6 DEF r, s, d
  <2>6. ASSUME ~ (Joined(c) + 2 + Size(p) > TARGET_CHARS)
        PROVE  PackFacts(q, Put(c, p), n + 1, ps)
    <3> DEFINE d == Put(c, p)
    <3>1. Joined(c) + 2 + Size(p) <= TARGET_CHARS
      <4>1. Joined(c) \in Nat /\ Size(p) \in Int /\ TARGET_CHARS \in Nat
        BY <1>4, <2>2, PileFacts, ChunkerAssumption DEF Interval, Size
      <4> QED BY <2>6, <4>1
    <3>2. Links(q, d, ps)
      BY <1>4, <1>5, <2>1, <2>3, <3>1, PutMore
    <3>3. Last(d).piece = p /\ Held(d) = Held(c) \cup {p}
      BY <1>4, <2>2, <2>3, PutOn
    <3> HIDE DEF d
    <3>4. \A k \in 1 .. n + 1 : ps[k] \in AllHeld(q) \cup Held(d)
      BY <2>1, <2>4, <3>3
    <3>5. PackFacts(q, d, n + 1, ps)
      BY <1>3, <1>5, <3>2, <3>3, <3>4 DEF PackFacts
    <3> QED BY <3>5 DEF d
  <2> QED BY <2>2, <2>5, <2>6
<1> QED BY <1>6, <1>7

(* All pieces are packed.                                                  *)
ChunkFacts(q, ps) ==
  Chain(q, ps) /\ \A k \in 1 .. Len(ps) : ps[k] \in AllHeld(q)

LEMMA PackedAll ==
  ASSUME NEW ps \in Seq(Interval), NEW q, NEW c, PackFacts(q, c, Len(ps), ps)
  PROVE  ChunkFacts(IF c = <<>> THEN q ELSE Append(q, c), ps)
<1>1. Chain(q, ps) /\ Len(ps) \in Nat
  BY RangeOf DEF PackFacts
<1>2. CASE Len(ps) = 0
  <2>1. c = <<>>
    BY <1>2 DEF PackFacts
  <2>2. \A k \in 1 .. Len(ps) : FALSE
    BY <1>2
  <2> QED BY <1>1, <2>1, <2>2 DEF ChunkFacts
<1>3. CASE Len(ps) # 0
  <2>1. Links(q, c, ps) /\ \A k \in 1 .. Len(ps) : ps[k] \in AllHeld(q) \cup Held(c)
    BY <1>3 DEF PackFacts
  <2>2. c # <<>>
    BY <2>1 DEF Links, IsChunk
  <2>3. Chain(Append(q, c), ps) /\ AllHeld(Append(q, c)) = AllHeld(q) \cup Held(c)
    BY <1>1, <2>1, ChainOn
  <2> QED BY <2>1, <2>2, <2>3 DEF ChunkFacts
<1> QED BY <1>2, <1>3

(***************************************************************************)
(* The invariant of chunk.rs, loop by loop.                                *)
(***************************************************************************)

NothingCut == cut = 0 /\ start = 0 /\ pieces = <<>>

NothingPacked == packed = 0 /\ chunk = <<>> /\ chunks = <<>>

Splitting ==
  /\ content \in Seq(LineAt) /\ NothingCut /\ NothingPacked
  /\ SplitFacts(Range(content), Total(content), region, cur, blocks)

(* start is where the next piece of a block that is being cut begins.      *)
Cutting ==
  /\ BlockFacts(Range(content), blocks) /\ CutFacts(blocks, cut, pieces)
  /\ NothingPacked /\ start \in Nat
  /\ cut < Len(blocks) =>
       Reached(NextOf(blocks, cut), NextOf(blocks, cut).from + start, pieces)

Cuts == BlockFacts(Range(content), blocks) /\ CutFacts(blocks, Len(blocks), pieces)

ChunkInv ==
  /\ pass \in {"split", "cut", "pack", "done"}
  /\ pass = "split" => Splitting
  /\ pass = "cut" => Cutting
  /\ pass = "pack" => Cuts /\ PackFacts(chunks, chunk, packed, pieces)
  /\ pass = "done" => Cuts /\ ChunkFacts(chunks, pieces)

LEMMA TotalIs ==
  ASSUME NEW q \in Seq(LineAt), NEW line \in LineAt
  PROVE  /\ Append(q, line) \in Seq(LineAt) /\ Range(Append(q, line)) = Range(q) \cup {line}
         /\ Total(Append(q, line)) = line.at + line.text + 1
<1>1. /\ Append(q, line) \in Seq(LineAt) /\ Append(q, line) # <<>>
      /\ Last(Append(q, line)) = line /\ Range(Append(q, line)) = Range(q) \cup {line}
  BY Appended
<1> QED BY <1>1 DEF Total

LEMMA ChunkStart == ChunkInit => ChunkInv
<1> SUFFICES ASSUME ChunkInit PROVE ChunkInv
  OBVIOUS
<1>1. pass = "split" /\ NothingCut /\ NothingPacked
  BY DEF ChunkInit, NothingCut, NothingPacked
<1>2. <<>> \in Seq(LineAt) /\ <<>> \in Seq(Interval)
  BY EmptySeq
<1>3. Total(<<>>) = 0
  BY DEF Total
<1>4. Range(<<>>) = {} /\ DOMAIN <<>> = {}
  <2>1. Len(<<>>) = 0
    BY EmptySeq
  <2>2. DOMAIN <<>> = 1 .. 0
    BY <1>2, <2>1, RangeOf
  <2> QED BY <2>2 DEF Range
<1>5. Empty \in Interval /\ Size(Empty) = 0
  BY DEF Empty, Interval, Size
<1>6. SplitFacts({}, 0, "none", Empty, <<>>)
  BY <1>2, <1>4, <1>5 DEF SplitFacts, Places
<1>7. Splitting
  BY <1>1, <1>2, <1>3, <1>4, <1>6 DEF Splitting, ChunkInit
<1> QED BY <1>1, <1>7 DEF ChunkInv

LEMMA LineKeeps == Splitting /\ pass = "split" /\ SplitLine => Splitting'
<1> SUFFICES ASSUME Splitting, SplitLine PROVE Splitting'
  OBVIOUS
<1> DEFINE L == Range(content)
           t == Total(content)
<1>1. PICK l \in Lines :
        /\ content' = Append(content, [at |-> t, text |-> l.text, in |-> region])
        /\ IF region = "none" /\ l.text = 0
           THEN /\ blocks' = Flushed /\ cur' = Empty
                /\ UNCHANGED region
           ELSE /\ cur' = [from |-> IF Size(cur) = 0 THEN t ELSE cur.from,
                           to |-> t + l.text]
                /\ region' = Toggled(region, l.marks)
                /\ UNCHANGED blocks
  BY DEF SplitLine
<1> DEFINE text == l.text
           line == [at |-> t, text |-> text, in |-> region]
<1>2. text \in Nat
  BY ChunkerAssumption
<1>3. SplitFacts(L, t, region, cur, blocks) /\ content \in Seq(LineAt)
  BY DEF Splitting
<1> HIDE DEF L, t, text
<1>4. line \in LineAt /\ line.at = t /\ line.text = text
  BY <1>2, <1>3, LineRead
<1>5. content' = Append(content, line)
  BY <1>1 DEF text
<1> HIDE DEF line
<1>6. /\ content' \in Seq(LineAt) /\ Range(content') = L \cup {line}
      /\ Total(content') = t + text + 1
  <2>1. content' \in Seq(LineAt) /\ Range(content') = L \cup {line}
    BY <1>3, <1>4, <1>5, TotalIs DEF L
  <2>2. Total(content') = line.at + line.text + 1
    BY <1>3, <1>4, <1>5, TotalIs
  <2> QED BY <1>4, <2>1, <2>2
<1>7. SplitFacts(L \cup {line}, t + text + 1, region', cur', blocks')
  <2>1. CASE region = "none" /\ text = 0
    <3>1. SplitFacts(L \cup {line}, t + text + 1, region, Empty, Flush(blocks, cur))
      BY <1>2, <1>3, <2>1, LineDropped DEF line
    <3>2. blocks' = Flush(blocks, cur) /\ cur' = Empty /\ region' = region
      BY <1>1, <2>1 DEF Flushed, Flush, text
    <3> QED BY <3>1, <3>2
  <2>2. CASE ~ (region = "none" /\ text = 0)
    <3>1. Toggled(region, l.marks) \in Places
      BY <1>3, ToggledIs DEF SplitFacts
    <3>2. SplitFacts(L \cup {line}, t + text + 1, Toggled(region, l.marks),
                     [from |-> IF Size(cur) = 0 THEN t ELSE cur.from, to |-> t + text], blocks)
      BY <1>2, <1>3, <2>2, <3>1, LineKept DEF line
    <3>3. /\ cur' = [from |-> IF Size(cur) = 0 THEN t ELSE cur.from, to |-> t + text]
          /\ region' = Toggled(region, l.marks) /\ blocks' = blocks
      BY <1>1, <2>2 DEF text
    <3> QED BY <3>2, <3>3
  <2> QED BY <2>1, <2>2
<1>8. NothingCut' /\ NothingPacked'
  BY DEF Splitting, SplitLine, NothingCut, NothingPacked
<1> QED BY <1>6, <1>7, <1>8 DEF Splitting

LEMMA SplitEnds == Splitting /\ SplitEnd => Cutting'
<1> SUFFICES ASSUME Splitting, SplitEnd PROVE Cutting'
  OBVIOUS
<1>1. SplitFacts(Range(content), Total(content), region, cur, blocks)
  BY DEF Splitting
<1>2. blocks' = Flush(blocks, cur) /\ content' = content
  BY DEF SplitEnd, Flushed, Flush
<1>3. BlockFacts(Range(content), Flush(blocks, cur))
  BY <1>1, Flushing
<1>4. BlockFacts(Range(content'), blocks')
  BY <1>2, <1>3
<1>5. NothingPacked' /\ cut' = 0 /\ start' = 0 /\ pieces' = <<>>
  BY DEF Splitting, SplitEnd, NothingCut, NothingPacked
<1>6. pieces' \in Seq(Interval) /\ DOMAIN pieces' = {} /\ Range(pieces') = {}
  <2>1. pieces' \in Seq(Interval) /\ Len(pieces') = 0
    BY <1>5, EmptySeq
  <2>2. DOMAIN pieces' = 1 .. 0
    BY <2>1, RangeOf
  <2> QED BY <2>1, <2>2 DEF Range
<1>7. Len(blocks') \in Nat
  BY <1>4, RangeOf DEF BlockFacts
<1>8. CutFacts(blocks', cut', pieces')
  <2>1. cut' \in 0 .. Len(blocks') /\ 1 .. cut' = {}
    BY <1>5, <1>7
  <2> QED BY <1>6, <2>1 DEF CutFacts, Rising
<1>9. ASSUME cut' < Len(blocks')
      PROVE  Reached(NextOf(blocks', cut'), NextOf(blocks', cut').from + start', pieces')
  <2>1. cut' \in Nat /\ NextOf(blocks', cut').from \in Nat
    BY <1>4, <1>5, <1>9, NextBlock
  <2>2. NextOf(blocks', cut').from + start' = NextOf(blocks', cut').from
    BY <1>5, <2>1
  <2>3. Reached(NextOf(blocks', cut'), NextOf(blocks', cut').from, pieces')
    BY <1>6 DEF Reached
  <2> QED BY <2>2, <2>3
<1> QED BY <1>4, <1>5, <1>8, <1>9 DEF Cutting

(* Where a piece of a block over the limit ends that does not reach its    *)
(* end, and where the next starts.                                         *)
LEMMA PieceNumbers ==
  ASSUME NEW f \in Nat, NEW st \in Nat, NEW z \in Nat,
         NEW next \in Nat, next = f + st, NEW e \in Int, e = next + TARGET_CHARS, e < z
  PROVE  /\ e \in Nat /\ next + OVERLAP_CHARS < e /\ e - next <= HARD_MAX_CHARS
         /\ e - OVERLAP_CHARS \in Nat /\ (e - OVERLAP_CHARS) + OVERLAP_CHARS = e
         /\ e - OVERLAP_CHARS - f \in Nat /\ f + (e - OVERLAP_CHARS - f) = e - OVERLAP_CHARS
BY ChunkerAssumption

LEMMA CutKeeps == Cutting /\ Cut => Cutting'
<1> SUFFICES ASSUME Cutting, Cut PROVE Cutting'
  OBVIOUS
<1> DEFINE b == NextOf(blocks, cut)
           next == b.from + start
           e == IF Size(b) > HARD_MAX_CHARS /\ next + TARGET_CHARS < b.to
                THEN next + TARGET_CHARS ELSE b.to
           p == [from |-> next, to |-> e]
<1>1. /\ cut < Len(blocks) /\ pieces' = Append(pieces, p)
      /\ IF e = b.to THEN cut' = cut + 1 /\ start' = 0
         ELSE start' = e - OVERLAP_CHARS - b.from /\ cut' = cut
      /\ content' = content /\ blocks' = blocks
  BY DEF Cut, NextOf
<1>2. /\ BlockFacts(Range(content), blocks) /\ CutFacts(blocks, cut, pieces)
      /\ start \in Nat /\ Reached(b, next, pieces)
  BY <1>1 DEF Cutting
<1>3. cut \in Nat
  BY <1>2 DEF CutFacts
<1>4. b.from \in Nat /\ b.to \in Nat
  BY <1>1, <1>2, <1>3, NextBlock
<1>5. next \in Nat /\ b.from <= next
  BY <1>2, <1>4
<1>6. TARGET_CHARS \in Nat /\ HARD_MAX_CHARS \in Nat /\ TARGET_CHARS <= HARD_MAX_CHARS
  BY ChunkerAssumption
<1>7. NothingPacked' /\ BlockFacts(Range(content'), blocks')
  BY <1>1, <1>2 DEF Cutting, Cut, NothingPacked
<1>8. CASE Size(b) > HARD_MAX_CHARS /\ next + TARGET_CHARS < b.to
  <2> DEFINE m == e - OVERLAP_CHARS
  <2>1. e = next + TARGET_CHARS
    BY <1>8
  <2>2. next = b.from + start
    OBVIOUS
  <2>3. e \in Int /\ e < b.to /\ e # b.to
    BY <1>4, <1>5, <1>6, <1>8, <2>1
  <2> HIDE DEF e, next, b
  <2>4. /\ e \in Nat /\ next + OVERLAP_CHARS < e /\ e - next <= HARD_MAX_CHARS
        /\ m \in Nat /\ m + OVERLAP_CHARS = e
        /\ e - OVERLAP_CHARS - b.from \in Nat
        /\ b.from + (e - OVERLAP_CHARS - b.from) = m
    BY <1>2, <1>4, <1>5, <2>1, <2>2, <2>3, PieceNumbers
  <2> HIDE DEF m
  <2>5. CutFacts(blocks, cut, pieces') /\ Reached(b, m, pieces')
    <3>1. b = NextOf(blocks, cut)
      BY DEF b
    <3> QED BY <1>1, <1>2, <1>3, <1>5, <1>8, <2>3, <2>4, <3>1, CutAgain
  <2>6. cut' = cut /\ start' = e - OVERLAP_CHARS - b.from
    BY <1>1, <2>3
  <2>7. start' \in Nat /\ b.from + start' = m
    BY <2>4, <2>6
  <2>8. NextOf(blocks', cut') = b
    BY <1>1, <2>6 DEF b
  <2> QED BY <1>1, <1>7, <2>5, <2>6, <2>7, <2>8 DEF Cutting
<1>9. CASE ~ (Size(b) > HARD_MAX_CHARS /\ next + TARGET_CHARS < b.to)
  <2>1. e = b.to
    BY <1>9
  <2>2. p = [from |-> next, to |-> b.to]
    BY <2>1
  <2> HIDE DEF e, next, b, p
  <2>3. Size(b) > HARD_MAX_CHARS => b.to - next <= HARD_MAX_CHARS
    BY <1>4, <1>5, <1>6, <1>9
  <2>4. next = b.from \/ b.to - next <= HARD_MAX_CHARS
    BY <1>2, <2>3 DEF Reached
  <2>5. /\ CutFacts(blocks, cut + 1, pieces')
        /\ cut + 1 < Len(blocks) =>
             Reached(NextOf(blocks, cut + 1), NextOf(blocks, cut + 1).from, pieces')
    <3>1. b = NextOf(blocks, cut)
      BY DEF b
    <3> QED BY <1>1, <1>2, <1>3, <1>5, <2>2, <2>3, <2>4, <3>1, CutLast
  <2>6. cut' = cut + 1 /\ start' = 0
    BY <1>1, <2>1
  <2>7. ASSUME cut' < Len(blocks')
        PROVE  Reached(NextOf(blocks', cut'), NextOf(blocks', cut').from + start', pieces')
    <3>1. cut + 1 \in Nat /\ cut + 1 < Len(blocks)
      BY <1>1, <1>3, <2>6, <2>7
    <3>2. NextOf(blocks, cut + 1).from \in Nat
      BY <1>2, <3>1, NextBlock
    <3>3. NextOf(blocks', cut').from + start' = NextOf(blocks, cut + 1).from
      BY <1>1, <2>6, <3>2
    <3>4. NextOf(blocks', cut') = NextOf(blocks, cut + 1)
      BY <1>1, <2>6
    <3> QED BY <2>5, <3>1, <3>3, <3>4
  <2>8. CutFacts(blocks', cut', pieces')
    BY <1>1, <2>5, <2>6
  <2>9. start' \in Nat
    BY <2>6
  <2> QED BY <1>7, <2>7, <2>8, <2>9 DEF Cutting
<1> QED BY <1>8, <1>9

LEMMA CutEnds ==
  Cutting /\ CutEnd => Cuts' /\ PackFacts(chunks, chunk, packed, pieces)'
<1> SUFFICES ASSUME Cutting, CutEnd
             PROVE  Cuts' /\ PackFacts(chunks, chunk, packed, pieces)'
  OBVIOUS
<1>1. Cuts'
  BY DEF Cutting, CutEnd, Cuts
<1>2. packed' = 0 /\ chunk' = <<>> /\ chunks' = <<>>
  BY DEF Cutting, CutEnd, NothingPacked
<1>3. Len(pieces') \in Nat
  BY <1>1, RangeOf DEF Cuts, CutFacts
<1>4. Chain(<<>>, pieces')
  <2>1. <<>> \in Seq(Seq(Placed)) /\ Len(<<>>) = 0
    BY EmptySeq
  <2>2. 1 .. Len(<<>>) = {}
    BY <2>1
  <2> QED BY <2>1, <2>2 DEF Chain
<1>5. 0 \in 0 .. Len(pieces')
  BY <1>3
<1>6. PackFacts(<<>>, <<>>, 0, pieces')
  BY <1>4, <1>5 DEF PackFacts
<1> QED BY <1>1, <1>2, <1>6

LEMMA PackKeeps ==
  Cuts /\ PackFacts(chunks, chunk, packed, pieces) /\ Pack
    => Cuts' /\ PackFacts(chunks, chunk, packed, pieces)'
<1> SUFFICES ASSUME Cuts, PackFacts(chunks, chunk, packed, pieces), Pack
             PROVE  Cuts' /\ PackFacts(chunks, chunk, packed, pieces)'
  OBVIOUS
<1>1. Cuts'
  BY DEF Pack, Cuts
<1> DEFINE p == pieces[packed + 1]
<1>2. /\ packed < Len(pieces) /\ packed' = packed + 1 /\ pieces' = pieces
      /\ IF chunk # <<>> /\ Joined(chunk) + 2 + Size(p) > TARGET_CHARS
         THEN chunks' = Append(chunks, chunk) /\ chunk' = Put(OverlapSeed(chunk), p)
         ELSE chunk' = Put(chunk, p) /\ chunks' = chunks
  BY DEF Pack
<1>3. packed \in Nat
  BY DEF PackFacts
<1> HIDE DEF p
<1>4. /\ chunk # <<>> /\ Joined(chunk) + 2 + Size(p) > TARGET_CHARS =>
           PackFacts(Append(chunks, chunk), Put(OverlapSeed(chunk), p), packed + 1, pieces)
      /\ ~ (chunk # <<>> /\ Joined(chunk) + 2 + Size(p) > TARGET_CHARS) =>
           PackFacts(chunks, Put(chunk, p), packed + 1, pieces)
  BY <1>2, <1>3, PackedOne DEF Cuts, p
<1>5. PackFacts(chunks', chunk', packed', pieces')
  BY <1>2, <1>4
<1> QED BY <1>1, <1>5

LEMMA PackEnds ==
  Cuts /\ PackFacts(chunks, chunk, packed, pieces) /\ PackEnd
    => Cuts' /\ ChunkFacts(chunks, pieces)'
<1> SUFFICES ASSUME Cuts, PackFacts(chunks, chunk, packed, pieces), PackEnd
             PROVE  Cuts' /\ ChunkFacts(chunks, pieces)'
  OBVIOUS
<1>1. Cuts'
  BY DEF PackEnd, Cuts
<1>2. /\ packed = Len(pieces) /\ pieces' = pieces
      /\ chunks' = IF chunk = <<>> THEN chunks ELSE Append(chunks, chunk)
  BY DEF PackEnd
<1>3. pieces \in Seq(Interval)
  BY DEF Cuts, CutFacts
<1>4. ChunkFacts(chunks', pieces)
  BY <1>2, <1>3, PackedAll
<1> QED BY <1>1, <1>2, <1>4

LEMMA ChunkStep == ChunkInv /\ [ChunkNext]_chunkVars => ChunkInv'
<1> SUFFICES ASSUME ChunkInv, [ChunkNext]_chunkVars PROVE ChunkInv'
  OBVIOUS
<1>1. CASE SplitLine
  <2>1. pass = "split" /\ pass' = "split" /\ Splitting
    BY <1>1 DEF SplitLine, ChunkInv
  <2> QED BY <1>1, <2>1, LineKeeps DEF ChunkInv
<1>2. CASE SplitEnd
  <2>1. pass = "split" /\ pass' = "cut" /\ Splitting
    BY <1>2 DEF SplitEnd, ChunkInv
  <2> QED BY <1>2, <2>1, SplitEnds DEF ChunkInv
<1>3. CASE Cut
  <2>1. pass = "cut" /\ pass' = "cut" /\ Cutting
    BY <1>3 DEF Cut, ChunkInv
  <2> QED BY <1>3, <2>1, CutKeeps DEF ChunkInv
<1>4. CASE CutEnd
  <2>1. pass = "cut" /\ pass' = "pack" /\ Cutting
    BY <1>4 DEF CutEnd, ChunkInv
  <2> QED BY <1>4, <2>1, CutEnds DEF ChunkInv
<1>5. CASE Pack
  <2>1. pass = "pack" /\ pass' = "pack" /\ Cuts /\ PackFacts(chunks, chunk, packed, pieces)
    BY <1>5 DEF Pack, ChunkInv
  <2> QED BY <1>5, <2>1, PackKeeps DEF ChunkInv
<1>6. CASE PackEnd
  <2>1. pass = "pack" /\ pass' = "done" /\ Cuts /\ PackFacts(chunks, chunk, packed, pieces)
    BY <1>6 DEF PackEnd, ChunkInv
  <2> QED BY <1>6, <2>1, PackEnds DEF ChunkInv
<1>7. CASE UNCHANGED chunkVars
  <2>1. Splitting' = Splitting /\ Cutting' = Cutting /\ Cuts' = Cuts /\ pass' = pass
    BY <1>7 DEF chunkVars, Splitting, Cutting, Cuts, NothingCut, NothingPacked
  <2>2. chunks' = chunks /\ chunk' = chunk /\ packed' = packed /\ pieces' = pieces
    BY <1>7 DEF chunkVars
  <2> QED BY <2>1, <2>2 DEF ChunkInv
<1> QED BY <1>1, <1>2, <1>3, <1>4, <1>5, <1>6, <1>7 DEF ChunkNext

(* The chunks hold what they should, at the end.                           *)
LEMMA PiecesWhole ==
  ASSUME NEW L, NEW bs, BlockFacts(L, bs), NEW p \in Interval, PieceOf(p, bs),
         NEW line \in L, {p.from, p.to} \cap Inside(line) # {}
  PROVE  \E b \in Range(bs) : Span(p) \subseteq Span(b) /\ Size(b) > HARD_MAX_CHARS
<1>1. PICK b \in Range(bs) : /\ b.from <= p.from /\ p.to <= b.to
                             /\ p = b \/ Size(b) > HARD_MAX_CHARS
  BY DEF PieceOf
<1>2. p # b
  BY DEF BlockFacts, Whole
<1>3. Span(p) \subseteq Span(b)
  <2>1. b \in Interval
    BY RangeOf DEF BlockFacts
  <2> QED BY <1>1, <2>1 DEF Span, Interval
<1> QED BY <1>1, <1>2, <1>3

LEMMA NothingLost ==
  ASSUME Cuts, ChunkFacts(chunks, pieces), NEW line \in Range(content)
  PROVE  line.at .. line.at + line.text - 1
           \subseteq UNION {Span(p) : p \in UNION {Held(c) : c \in Range(chunks)}}
<1>1. /\ BlockFacts(Range(content), blocks) /\ CutFacts(blocks, Len(blocks), pieces)
      /\ blocks \in Seq(Interval) /\ pieces \in Seq(Interval)
  BY DEF Cuts, BlockFacts, CutFacts
<1>2. line.at \in Nat /\ line.text \in Nat
  BY <1>1 DEF BlockFacts, LineAt
<1>3. CASE line.text = 0
  <2>1. line.at .. line.at + line.text - 1 = {}
    BY <1>2, <1>3
  <2> QED BY <2>1
<1>4. CASE line.text > 0
  <2>1. PICK b \in Range(blocks) : Covers(b, line)
    BY <1>1, <1>4 DEF BlockFacts
  <2>2. PICK k \in 1 .. Len(blocks) : b = blocks[k]
    BY <1>1, RangeOf
  <2>3. Span(b) \subseteq SpansOf(pieces)
    BY <1>1, <2>2 DEF CutFacts
  <2>4. line.at .. line.at + line.text - 1 \subseteq Span(b)
    <3>1. b \in Interval
      BY <1>1, RangeOf
    <3>2. b.from \in Nat /\ b.to \in Nat
      BY <3>1 DEF Interval
    <3> QED BY <1>2, <2>1, <3>2 DEF Covers, Span
  <2>5. Range(pieces) \subseteq AllHeld(chunks)
    <3> SUFFICES ASSUME NEW p \in Range(pieces) PROVE p \in AllHeld(chunks)
      OBVIOUS
    <3>1. PICK j \in 1 .. Len(pieces) : p = pieces[j]
      BY <1>1, RangeOf
    <3> QED BY <3>1 DEF ChunkFacts
  <2>6. SpansOf(pieces) \subseteq UNION {Span(p) : p \in UNION {Held(c) : c \in Range(chunks)}}
    BY <2>5 DEF SpansOf, AllHeld
  <2> QED BY <2>3, <2>4, <2>6
<1> QED BY <1>2, <1>3, <1>4

LEMMA ChunkSound ==
  ASSUME Cuts, NEW c, IsChunk(c, pieces)
  PROVE  c # <<>> /\ Sound(c)
<1>1. Pile(c) /\ c # <<>> /\ Held(c) \subseteq Range(pieces)
  BY DEF IsChunk
<1>2. Len(c) \in Nat
  BY <1>1, PileFacts
<1>3. ASSUME NEW i \in 1 .. Len(c) - 1
      PROVE  /\ c[i].piece.from < c[i + 1].piece.from /\ c[i].piece.to < c[i + 1].piece.to
             /\ c[i + 1].at = c[i].at + Size(c[i].piece) + 2
  <2>1. i \in 1 .. Len(c) /\ i + 1 \in 1 .. Len(c) /\ i < i + 1
    BY <1>2
  <2>2. Precedes(c[i], c[i + 1])
    BY <1>1, <2>1 DEF Pile
  <2> QED BY <1>1, <2>2 DEF Pile, Precedes
<1>4. ASSUME NEW p \in Held(c), NEW line \in Range(content),
             {p.from, p.to} \cap Inside(line) # {}
      PROVE  \E b \in Range(blocks) : Span(p) \subseteq Span(b) /\ Size(b) > HARD_MAX_CHARS
  <2>1. PieceOf(p, blocks) /\ BlockFacts(Range(content), blocks) /\ pieces \in Seq(Interval)
    BY <1>1 DEF Cuts, CutFacts
  <2>2. p \in Interval
    BY <1>1, <2>1, RangeOf
  <2> QED BY <1>4, <2>1, <2>2, PiecesWhole
<1> QED BY <1>1, <1>3, <1>4 DEF Sound, Pile, IsChunk

LEMMA ChunksDone == ChunkInv => ChunksHold
<1> SUFFICES ASSUME ChunkInv, pass = "done" PROVE ChunksHold
  BY DEF ChunksHold
<1>1. Cuts /\ ChunkFacts(chunks, pieces) /\ Chain(chunks, pieces)
  BY DEF ChunkInv, ChunkFacts
<1>2. chunks \in Seq(Seq(Placed))
  BY <1>1 DEF Chain
<1>3. /\ Len(chunks) \in Nat /\ DOMAIN chunks = 1 .. Len(chunks)
      /\ \A c \in Range(chunks) : \E i \in 1 .. Len(chunks) : c = chunks[i]
  BY <1>2, RangeOf
<1>4. \A c \in Range(chunks) : c # <<>> /\ Sound(c)
  <2> TAKE c \in Range(chunks)
  <2>1. IsChunk(c, pieces)
    BY <1>1, <1>3 DEF Chain
  <2> QED BY <1>1, <2>1, ChunkSound
<1>5. \A i \in 1 .. Len(chunks) - 1 : Follows(chunks[i], chunks[i + 1])
  <2> TAKE i \in 1 .. Len(chunks) - 1
  <2>1. i + 1 \in 1 .. Len(chunks) /\ i + 1 > 1 /\ i + 1 - 1 = i
    BY <1>3
  <2>2. Follows(chunks[i + 1 - 1], chunks[i + 1])
    BY <1>1, <2>1 DEF Chain
  <2> QED BY <2>1, <2>2
<1>6. ASSUME NEW i \in DOMAIN chunks, Joined(chunks[i]) > TARGET_CHARS
      PROVE  Cardinality(Held(chunks[i]) \
                           (IF i = 1 THEN {} ELSE Held(chunks[i - 1]))) = 1
  <2>1. Held(chunks[i]) \ (IF i = 1 THEN {} ELSE Held(chunks[i - 1])) = {Last(chunks[i]).piece}
    BY <1>1, <1>3, <1>6 DEF Chain
  <2> QED BY <2>1, FS_Singleton
<1>7. \A line \in Range(content) :
        line.at .. line.at + line.text - 1
          \subseteq UNION {Span(p) : p \in UNION {Held(c) : c \in Range(chunks)}}
  BY <1>1, NothingLost
<1> QED BY <1>4, <1>5, <1>6, <1>7 DEF ChunksHold

(* Whatever the lines of a document and the limits: when it is cut, no     *)
(* character that is not of a blank line is lost, every chunk is sound,    *)
(* two that follow share the overlap and no more, and only the piece that  *)
(* a chunk adds takes it over the target.                                  *)
THEOREM EveryDocumentIsCutSoundly == ChunkSpec => []ChunksHold
<1>1. ChunkInit => ChunkInv
  BY ChunkStart
<1>2. ChunkInv /\ [ChunkNext]_chunkVars => ChunkInv'
  BY ChunkStep
<1>3. ChunkInv => ChunksHold
  BY ChunksDone
<1> QED BY <1>1, <1>2, <1>3, PTL DEF ChunkSpec

(***************************************************************************)
(* The lookup of a definition.                                             *)
(***************************************************************************)

Framed == Range(Shelf)

(* An entry of a document, as constants and functions make it.             *)
EntryOf(doc, e) ==
  /\ e.isFn \in BOOLEAN /\ e.exact \in BOOLEAN
  /\ e.hint \in {"", doc.id}

IsBlock(b) ==
  /\ b = [key |-> b.key, isFn |-> b.isFn, exact |-> b.exact, hint |-> b.hint,
          inFork |-> b.inFork, doc |-> b.doc, also |-> b.also]
  /\ b.isFn \in BOOLEAN /\ b.exact \in BOOLEAN /\ b.inFork \in BOOLEAN
  /\ b.also \in Seq({doc.id : doc \in Framed})

Wanted == {doc \in Framed : InFork(doc)}

(* What a block says of the documents C that carry it, those of the fork   *)
(* asked for being W.                                                      *)
Told(b, C, W) ==
  /\ C \subseteq Framed
  /\ {b.doc} \cup ToSet(b.also) = {doc.id : doc \in C}
  /\ b.hint \in {"", b.doc}
  /\ b.inFork <=> C \cap W # {}
  /\ b.inFork => \A doc \in C : doc.id = b.doc => doc \in W

Holders(k, R) == {c.doc : c \in {d \in R : d.key = k}}

AllTold(g, R, W) ==
  /\ \A i, j \in DOMAIN g : g[i].key = g[j].key => i = j
  /\ \A c \in R : \E i \in DOMAIN g : g[i].key = c.key
  /\ \A i \in DOMAIN g : Told(g[i], Holders(g[i].key, R), W)

AreBlocks(g) == (\E S : g \in Seq(S)) /\ \A i \in DOMAIN g : IsBlock(g[i])

LookupTypes ==
  /\ opened \in 0 .. Len(Shelf) /\ taken \in Nat
  /\ \A n \in DOMAIN found : opened \in 1 .. Len(Shelf) /\ EntryOf(Opened, found[n])
  /\ \A c \in carried : c = [doc |-> c.doc, key |-> c.key] /\ c.doc \in Framed
  /\ AreBlocks(groups)

LookupInv == LookupTypes /\ AllTold(groups, carried, Wanted)

LEMMA FramedFacts ==
  /\ \A i \in 1 .. Len(Shelf) : Shelf[i] \in Framed
  /\ \A d, e \in Framed : d.id = e.id => d = e
  /\ \A d, e \in Framed : d.label # e.id
  /\ Len(Shelf) \in Nat
<1>1. Shelf \in Seq(Range(Shelf))
  BY LookupAssumption
<1>2. DOMAIN Shelf = 1 .. Len(Shelf) /\ Len(Shelf) \in Nat
  BY <1>1, LenProperties
<1>3. \A d \in Framed : \E i \in DOMAIN Shelf : d = Shelf[i]
  BY DEF Framed, Range
<1>4. \A i \in DOMAIN Shelf : Shelf[i] \in Framed
  BY DEF Framed, Range
<1> QED BY <1>2, <1>3, <1>4, LookupAssumption

(* A definition met for the first time.                                    *)
NewBlock(doc, entry) ==
  [key |-> entry.key, isFn |-> entry.isFn, exact |-> entry.exact, hint |-> entry.hint,
   inFork |-> InFork(doc), doc |-> doc.id, also |-> <<>>]

(* One met again.                                                          *)
Folded(b, doc, entry) ==
  IF InFork(doc) /\ ~ b.inFork
  THEN [b EXCEPT !.inFork = TRUE, !.hint = entry.hint, !.doc = doc.id,
                 !.also = Append(@, b.doc), !.exact = @ \/ entry.exact]
  ELSE [b EXCEPT !.also = Append(@, doc.id), !.exact = @ \/ entry.exact]

LEMMA NewBlockTold ==
  ASSUME NEW doc \in Framed, NEW entry, EntryOf(doc, entry)
  PROVE  /\ IsBlock(NewBlock(doc, entry)) /\ NewBlock(doc, entry).key = entry.key
         /\ Told(NewBlock(doc, entry), {doc}, Wanted)
<1>1. ToSet(<<>>) = {}
  BY DEF ToSet
<1>2. InFork(doc) \in BOOLEAN
  BY DEF InFork
<1>3. <<>> \in Seq({d.id : d \in Framed})
  BY EmptySeq
<1> DEFINE b == NewBlock(doc, entry)
<1>4. /\ b.key = entry.key /\ b.isFn = entry.isFn /\ b.exact = entry.exact
      /\ b.hint = entry.hint /\ b.inFork = InFork(doc) /\ b.doc = doc.id /\ b.also = <<>>
  BY DEF NewBlock
<1>5. b = [key |-> b.key, isFn |-> b.isFn, exact |-> b.exact, hint |-> b.hint,
           inFork |-> b.inFork, doc |-> b.doc, also |-> b.also]
  BY Zenon, <1>4 DEF NewBlock
<1> HIDE DEF b
<1>6. IsBlock(b)
  BY <1>2, <1>3, <1>4, <1>5 DEF IsBlock, EntryOf
<1>7. Told(b, {doc}, Wanted)
  BY <1>1, <1>4 DEF Told, EntryOf, Wanted
<1> QED BY <1>4, <1>6, <1>7 DEF b

LEMMA AppendSet ==
  ASSUME NEW S, NEW q \in Seq(S), NEW x \in S
  PROVE  Append(q, x) \in Seq(S) /\ ToSet(Append(q, x)) = ToSet(q) \cup {x}
<1>1. /\ Append(q, x) \in Seq(S) /\ Len(Append(q, x)) = Len(q) + 1 /\ Len(q) \in Nat
      /\ \A i \in 1 .. Len(q) : Append(q, x)[i] = q[i]
      /\ Append(q, x)[Len(q) + 1] = x
  BY AppendProperties, LenProperties
<1>2. DOMAIN q = 1 .. Len(q) /\ DOMAIN Append(q, x) = 1 .. Len(q) + 1
  BY <1>1, LenProperties
<1>3. ToSet(q) = {q[i] : i \in 1 .. Len(q)}
  BY <1>2 DEF ToSet
<1>4. ToSet(Append(q, x)) = {Append(q, x)[i] : i \in 1 .. Len(q) + 1}
  BY <1>2 DEF ToSet
<1>5. 1 .. Len(q) + 1 = 1 .. Len(q) \cup {Len(q) + 1}
  BY <1>1
<1> QED BY <1>1, <1>3, <1>4, <1>5

LEMMA FoldedTold ==
  ASSUME NEW b, IsBlock(b), NEW C, Told(b, C, Wanted),
         NEW doc \in Framed, NEW entry, EntryOf(doc, entry)
  PROVE  /\ IsBlock(Folded(b, doc, entry)) /\ Folded(b, doc, entry).key = b.key
         /\ Told(Folded(b, doc, entry), C \cup {doc}, Wanted)
<1> DEFINE DocIds == {d.id : d \in Framed}
           n == Folded(b, doc, entry)
<1>1. b.also \in Seq(DocIds) /\ b.doc \in DocIds /\ doc.id \in DocIds
  BY DEF IsBlock, Told
<1> HIDE DEF DocIds
<1>2. InFork(doc) \in BOOLEAN /\ b.inFork \in BOOLEAN
  BY DEF InFork, IsBlock
<1>3. {d.id : d \in C \cup {doc}} = {d.id : d \in C} \cup {doc.id}
  OBVIOUS
<1>4. \A d \in C : d.id = doc.id => d = doc
  BY FramedFacts DEF Told
<1>5. CASE InFork(doc) /\ ~ b.inFork
  <2>1. n = [key |-> b.key, isFn |-> b.isFn, exact |-> b.exact \/ entry.exact,
             hint |-> entry.hint, inFork |-> TRUE, doc |-> doc.id,
             also |-> Append(b.also, b.doc)]
    BY <1>5 DEF Folded, IsBlock
  <2> HIDE DEF n
  <2>2. /\ n.key = b.key /\ n.isFn = b.isFn /\ n.exact = (b.exact \/ entry.exact)
        /\ n.hint = entry.hint /\ n.inFork = TRUE /\ n.doc = doc.id
        /\ n.also = Append(b.also, b.doc)
    BY <2>1
  <2>3. Append(b.also, b.doc) \in Seq(DocIds) /\ ToSet(n.also) = ToSet(b.also) \cup {b.doc}
    BY <1>1, <2>2, AppendSet
  <2>4. n = [key |-> n.key, isFn |-> n.isFn, exact |-> n.exact, hint |-> n.hint,
             inFork |-> n.inFork, doc |-> n.doc, also |-> n.also]
    BY Zenon, <2>1, <2>2
  <2>5. IsBlock(n)
    <3>1. n.isFn \in BOOLEAN /\ n.exact \in BOOLEAN /\ n.inFork \in BOOLEAN
      BY <2>2 DEF IsBlock
    <3> QED BY <2>2, <2>3, <2>4, <3>1 DEF IsBlock, DocIds
  <2>6. Told(n, C \cup {doc}, Wanted)
    <3>1. {n.doc} \cup ToSet(n.also) = {d.id : d \in C \cup {doc}}
      BY <1>3, <2>2, <2>3 DEF Told
    <3>2. \A d \in C \cup {doc} : d.id = n.doc => d \in Wanted
      BY <1>4, <1>5, <2>2 DEF Wanted, Told
    <3>3. n.hint \in {"", n.doc}
      BY <2>2 DEF EntryOf
    <3>4. n.inFork /\ (C \cup {doc}) \cap Wanted # {}
      BY <1>5, <2>2 DEF Wanted
    <3> QED BY <3>1, <3>2, <3>3, <3>4 DEF Told
  <2> QED BY <2>2, <2>5, <2>6 DEF n
<1>6. CASE ~ (InFork(doc) /\ ~ b.inFork)
  <2>1. n = [key |-> b.key, isFn |-> b.isFn, exact |-> b.exact \/ entry.exact,
             hint |-> b.hint, inFork |-> b.inFork, doc |-> b.doc,
             also |-> Append(b.also, doc.id)]
    BY <1>6 DEF Folded, IsBlock
  <2> HIDE DEF n
  <2>2. /\ n.key = b.key /\ n.isFn = b.isFn /\ n.exact = (b.exact \/ entry.exact)
        /\ n.hint = b.hint /\ n.inFork = b.inFork /\ n.doc = b.doc
        /\ n.also = Append(b.also, doc.id)
    BY <2>1
  <2>3. Append(b.also, doc.id) \in Seq(DocIds) /\ ToSet(n.also) = ToSet(b.also) \cup {doc.id}
    BY <1>1, <2>2, AppendSet
  <2>4. n = [key |-> n.key, isFn |-> n.isFn, exact |-> n.exact, hint |-> n.hint,
             inFork |-> n.inFork, doc |-> n.doc, also |-> n.also]
    BY Zenon, <2>1, <2>2
  <2>5. IsBlock(n)
    <3>1. n.isFn \in BOOLEAN /\ n.exact \in BOOLEAN /\ n.inFork \in BOOLEAN
      BY <2>2 DEF IsBlock
    <3> QED BY <2>2, <2>3, <2>4, <3>1 DEF IsBlock, DocIds
  <2>6. Told(n, C \cup {doc}, Wanted)
    <3>1. {n.doc} \cup ToSet(n.also) = {d.id : d \in C \cup {doc}}
      BY <1>3, <2>2, <2>3 DEF Told
    <3>2. ASSUME n.inFork, NEW d \in C \cup {doc}, d.id = n.doc PROVE d \in Wanted
      <4>1. b.inFork /\ d.id = b.doc
        BY <2>2, <3>2
      <4>2. PICK c \in C : c.id = b.doc
        BY DEF Told
      <4>3. c = d
        BY <1>4, <4>1, <4>2, FramedFacts DEF Told
      <4> QED BY <4>1, <4>2, <4>3 DEF Told
    <3>3. n.hint \in {"", n.doc}
      BY <2>2 DEF Told
    <3>4. n.inFork <=> (C \cup {doc}) \cap Wanted # {}
      BY <1>2, <1>6, <2>2 DEF Told, Wanted
    <3>5. C \cup {doc} \subseteq Framed
      BY DEF Told
    <3> QED BY <3>1, <3>2, <3>3, <3>4, <3>5 DEF Told
  <2> QED BY <2>2, <2>5, <2>6 DEF n
<1> QED BY <1>5, <1>6

(***************************************************************************)
(* The steps.                                                              *)
(***************************************************************************)

LEMMA HoldersWith ==
  ASSUME NEW k, NEW R, NEW c
  PROVE  Holders(k, R \cup {c})
           = IF k = c.key THEN Holders(k, R) \cup {c.doc} ELSE Holders(k, R)
<1>1. CASE k = c.key
  <2>1. {d \in R \cup {c} : d.key = k} = {d \in R : d.key = k} \cup {c}
    BY <1>1
  <2> QED BY <1>1, <2>1 DEF Holders
<1>2. CASE k # c.key
  <2>1. {d \in R \cup {c} : d.key = k} = {d \in R : d.key = k}
    BY <1>2
  <2> QED BY <1>2, <2>1 DEF Holders
<1> QED BY <1>1, <1>2

LEMMA Extended ==
  ASSUME NEW g, AreBlocks(g), NEW b, IsBlock(b)
  PROVE  /\ AreBlocks(Append(g, b))
         /\ Len(g) \in Nat /\ DOMAIN g = 1 .. Len(g)
         /\ DOMAIN Append(g, b) = 1 .. Len(g) + 1
         /\ \A i \in 1 .. Len(g) : Append(g, b)[i] = g[i]
         /\ Append(g, b)[Len(g) + 1] = b
<1>1. PICK S : g \in Seq(S)
  BY DEF AreBlocks
<1> DEFINE T == S \cup {b}
<1>2. g \in Seq(T) /\ b \in T
  BY <1>1, SeqMonotonic
<1> HIDE DEF T
<1>3. /\ Append(g, b) \in Seq(T) /\ Len(Append(g, b)) = Len(g) + 1 /\ Len(g) \in Nat
      /\ \A i \in 1 .. Len(g) : Append(g, b)[i] = g[i]
      /\ Append(g, b)[Len(g) + 1] = b
  BY <1>2, AppendProperties, LenProperties
<1>4. DOMAIN g = 1 .. Len(g) /\ DOMAIN Append(g, b) = 1 .. Len(g) + 1
  BY <1>2, <1>3, LenProperties
<1>5. \A i \in DOMAIN Append(g, b) : IsBlock(Append(g, b)[i])
  <2>1. \A i \in 1 .. Len(g) + 1 : i \in 1 .. Len(g) \/ i = Len(g) + 1
    BY <1>3
  <2> QED BY <1>3, <1>4, <2>1 DEF AreBlocks
<1> QED BY <1>3, <1>4, <1>5 DEF AreBlocks

LEMMA Replaced ==
  ASSUME NEW g, AreBlocks(g), NEW i \in DOMAIN g, NEW b, IsBlock(b)
  PROVE  /\ AreBlocks([g EXCEPT ![i] = b])
         /\ DOMAIN [g EXCEPT ![i] = b] = DOMAIN g
         /\ \A j \in DOMAIN g : [g EXCEPT ![i] = b][j] = IF j = i THEN b ELSE g[j]
<1>1. PICK S : g \in Seq(S)
  BY DEF AreBlocks
<1> DEFINE T == S \cup {b}
<1>2. g \in Seq(T) /\ b \in T
  BY <1>1, SeqMonotonic
<1> HIDE DEF T
<1>3. DOMAIN g = 1 .. Len(g)
  BY <1>2, LenProperties
<1>4. [g EXCEPT ![i] = b] \in Seq(T)
  BY <1>2, <1>3, ExceptSeq
<1>5. /\ DOMAIN [g EXCEPT ![i] = b] = DOMAIN g
      /\ \A j \in DOMAIN g : [g EXCEPT ![i] = b][j] = IF j = i THEN b ELSE g[j]
  OBVIOUS
<1>6. \A j \in DOMAIN g : IsBlock([g EXCEPT ![i] = b][j])
  BY <1>5 DEF AreBlocks
<1> QED BY <1>4, <1>5, <1>6 DEF AreBlocks

LEMMA Pushes ==
  ASSUME NEW g, AreBlocks(g), NEW R, AllTold(g, R, Wanted),
         NEW doc \in Framed, NEW entry, EntryOf(doc, entry)
  PROVE  /\ AreBlocks(PushKeyed(g, doc, entry))
         /\ AllTold(PushKeyed(g, doc, entry), R \cup {[doc |-> doc, key |-> entry.key]}, Wanted)
<1> DEFINE same == {i \in DOMAIN g : g[i].key = entry.key}
           after == PushKeyed(g, doc, entry)
           new == [doc |-> doc, key |-> entry.key]
           Q == R \cup {new}
<1>0. new.key = entry.key /\ new.doc = doc
  OBVIOUS
<1>H. \A k : Holders(k, Q) = IF k = entry.key THEN Holders(k, R) \cup {doc} ELSE Holders(k, R)
  <2> TAKE k
  <2> HIDE DEF new
  <2>1. Holders(k, R \cup {new})
          = IF k = new.key THEN Holders(k, R) \cup {new.doc} ELSE Holders(k, R)
    BY HoldersWith
  <2> QED BY <1>0, <2>1
<1>1. CASE same = {}
  <2> DEFINE b == NewBlock(doc, entry)
             n == Len(g)
  <2>1. after = Append(g, b)
    BY <1>1 DEF PushKeyed, NewBlock
  <2>2. IsBlock(b) /\ b.key = entry.key /\ Told(b, {doc}, Wanted)
    BY NewBlockTold
  <2> HIDE DEF b
  <2>3. /\ AreBlocks(Append(g, b)) /\ n \in Nat /\ DOMAIN g = 1 .. n
        /\ DOMAIN Append(g, b) = 1 .. n + 1
        /\ \A i \in 1 .. n : Append(g, b)[i] = g[i]
        /\ Append(g, b)[n + 1] = b
    BY <2>2, Extended
  <2>4. /\ AreBlocks(after) /\ DOMAIN after = 1 .. n + 1
        /\ \A i \in 1 .. n : after[i] = g[i]
        /\ after[n + 1] = b
    BY <2>1, <2>3
  <2> HIDE DEF after, new, n, Q
  <2>5. \A i \in DOMAIN after : \/ i \in DOMAIN g /\ i # n + 1 /\ g[i].key # entry.key
                              \/ i = n + 1
    BY <1>1, <2>3, <2>4
  <2>6. Holders(entry.key, R) = {}
    <3> SUFFICES ASSUME NEW c \in R, c.key = entry.key PROVE FALSE
      BY DEF Holders
    <3> QED BY <1>1 DEF AllTold
  <2>7. \A i, j \in DOMAIN after : after[i].key = after[j].key => i = j
    BY <2>2, <2>3, <2>4, <2>5 DEF AllTold
  <2>8. ASSUME NEW c \in Q PROVE \E i \in DOMAIN after : after[i].key = c.key
    <3>1. CASE c \in R
      <4>1. PICK i \in DOMAIN g : g[i].key = c.key
        BY <3>1 DEF AllTold
      <4>2. i \in DOMAIN after /\ after[i] = g[i]
        BY <2>3, <2>4
      <4> QED BY <4>1, <4>2
    <3>2. CASE c = new
      <4>1. n + 1 \in DOMAIN after
        BY <2>3, <2>4
      <4> QED BY <1>0, <2>2, <2>4, <3>2, <4>1
    <3> QED BY <3>1, <3>2 DEF Q
  <2>9. ASSUME NEW i \in DOMAIN after PROVE Told(after[i], Holders(after[i].key, Q), Wanted)
    <3>1. CASE i \in DOMAIN g /\ g[i].key # entry.key
      <4>1. after[i] = g[i] /\ Holders(g[i].key, Q) = Holders(g[i].key, R)
        BY <1>H, <2>3, <2>4, <3>1
      <4> QED BY <3>1, <4>1 DEF AllTold
    <3>2. CASE i = n + 1
      <4>1. after[i] = b /\ Holders(b.key, Q) = {doc}
        BY <1>H, <2>2, <2>4, <2>6, <3>2
      <4> QED BY <2>2, <4>1
    <3> QED BY <2>5, <3>1, <3>2
  <2> QED BY <2>4, <2>7, <2>8, <2>9 DEF AllTold, Q, new, after
<1>2. CASE same # {}
  <2>1. PICK i \in same : same = {i}
    BY <1>2 DEF AllTold
  <2>2. Min(same) = i
    <3>1. i \in Nat
      BY <2>1, Extended, NewBlockTold
    <3> HIDE DEF same
    <3>2. Min({i}) = i
      <4>1. Min({i}) = CHOOSE x \in {i} : \A y \in {i} : x <= y
        BY DEF Min
      <4> QED BY <3>1, <4>1
    <3> QED BY <2>1, <3>2
  <2> DEFINE b == Folded(g[i], doc, entry)
  <2>3. after = [g EXCEPT ![i] = b]
    BY <1>2, <2>2, Zenon DEF PushKeyed, Folded
  <2>4. i \in DOMAIN g /\ g[i].key = entry.key /\ IsBlock(g[i])
    BY <2>1 DEF AreBlocks
  <2>5. /\ IsBlock(b) /\ b.key = entry.key
        /\ Told(b, Holders(entry.key, R) \cup {doc}, Wanted)
    BY <2>4, FoldedTold DEF AllTold
  <2> HIDE DEF b
  <2>6. /\ AreBlocks(after) /\ DOMAIN after = DOMAIN g
        /\ \A j \in DOMAIN g : after[j] = IF j = i THEN b ELSE g[j]
    <3> HIDE DEF after
    <3>1. /\ AreBlocks([g EXCEPT ![i] = b])
          /\ DOMAIN [g EXCEPT ![i] = b] = DOMAIN g
          /\ \A j \in DOMAIN g : [g EXCEPT ![i] = b][j] = IF j = i THEN b ELSE g[j]
      BY <2>4, <2>5, Replaced
    <3> QED BY <2>3, <3>1
  <2> HIDE DEF after, new, Q
  <2>7. \A j \in DOMAIN g : after[j].key = g[j].key
    BY <2>4, <2>5, <2>6
  <2>8. \A j, l \in DOMAIN after : after[j].key = after[l].key => j = l
    BY <2>6, <2>7 DEF AllTold
  <2>9. ASSUME NEW c \in Q PROVE \E j \in DOMAIN after : after[j].key = c.key
    BY <1>0, <2>4, <2>6, <2>7 DEF AllTold, Q
  <2>10. ASSUME NEW j \in DOMAIN after PROVE Told(after[j], Holders(after[j].key, Q), Wanted)
    <3>1. CASE j = i
      BY <1>H, <2>4, <2>5, <2>6, <3>1
    <3>2. CASE j # i
      <4>1. after[j] = g[j] /\ g[j].key # entry.key
        BY <2>4, <2>6, <3>2 DEF AllTold
      <4> QED BY <1>H, <2>6, <4>1 DEF AllTold
    <3> QED BY <3>1, <3>2
  <2> QED BY <2>6, <2>8, <2>9, <2>10 DEF AllTold, Q, new, after
<1> QED BY <1>1, <1>2

LEMMA ConstantIs ==
  ASSUME NEW doc, NEW c PROVE EntryOf(doc, ConstantEntry(doc, c))
BY DEF EntryOf, ConstantEntry

LEMMA FunctionIs ==
  ASSUME NEW doc, NEW f PROVE EntryOf(doc, FunctionEntry(doc, f))
BY DEF EntryOf, FunctionEntry

LEMMA EntriesAre ==
  ASSUME NEW doc, NEW lines, NEW i \in DOMAIN Entries(doc, lines)
  PROVE  EntryOf(doc, Entries(doc, lines)[i])
<1> DEFINE constants == Matches(Constants(lines) \o SolidityConstants(lines))
           functions == Matches(IF doc.python THEN FunctionsInPython(lines)
                                ELSE PythonFunctions(lines) \o SolidityDeclarations(lines))
           n == Len(constants)
           e == Entries(doc, lines)
<1>1. e = [j \in 1 .. n + Len(functions) |->
             IF j <= n THEN ConstantEntry(doc, constants[j])
             ELSE FunctionEntry(doc, functions[j - n])]
  BY DEF Entries
<1> HIDE DEF constants, functions, n
<1>2. e[i] = ConstantEntry(doc, constants[i]) \/ e[i] = FunctionEntry(doc, functions[i - n])
  BY <1>1
<1> HIDE DEF e
<1>3. EntryOf(doc, e[i])
  BY <1>2, ConstantIs, FunctionIs
<1> QED BY <1>3 DEF e

LEMMA LookupStart == LookupInit => LookupInv
<1> SUFFICES ASSUME LookupInit PROVE LookupInv
  OBVIOUS
<1>1. /\ opened = 0 /\ taken = 0 /\ DOMAIN found = {} /\ groups = <<>> /\ carried = {}
  BY DEF LookupInit
<1>2. <<>> \in Seq({}) /\ DOMAIN groups = {}
  BY <1>1, EmptySeq
<1>3. AreBlocks(groups)
  BY <1>1, <1>2 DEF AreBlocks
<1>4. AllTold(groups, carried, Wanted)
  BY <1>1, <1>2 DEF AllTold
<1>5. Len(Shelf) \in Nat
  BY FramedFacts
<1> QED BY <1>1, <1>3, <1>4, <1>5 DEF LookupInv, LookupTypes

LEMMA OpenKeeps ==
  ASSUME LookupInv, OpenDocument PROVE LookupInv'
<1>1. /\ opened \in 0 .. Len(Shelf) /\ opened < Len(Shelf) /\ opened' = opened + 1 /\ taken' = 0
      /\ groups' = groups /\ carried' = carried /\ asked' = asked
      /\ \A c \in carried : c = [doc |-> c.doc, key |-> c.key] /\ c.doc \in Framed
      /\ AreBlocks(groups) /\ AllTold(groups, carried, Wanted)
  BY DEF OpenDocument, LookupInv, LookupTypes
<1>2. Len(Shelf) \in Nat
  BY FramedFacts
<1>3. opened' \in 1 .. Len(Shelf) /\ Opened' = Shelf[opened + 1]
  BY <1>1, <1>2 DEF Opened
<1>4. ASSUME NEW n \in DOMAIN found' PROVE EntryOf(Opened, found[n])'
  <2> DEFINE doc == Shelf[opened + 1]
  <2>1. PICK lines \in Texts : found' = IF doc.tier = "spec" THEN Entries(doc, lines) ELSE <<>>
    BY DEF OpenDocument
  <2>2. found' = Entries(doc, lines)
    <3>1. DOMAIN <<>> = {}
      OBVIOUS
    <3> QED BY <1>4, <2>1, <3>1
  <2> HIDE DEF doc
  <2>3. EntryOf(doc, found'[n])
    BY <1>4, <2>2, EntriesAre
  <2> QED BY <1>3, <2>3 DEF doc, EntryOf
<1>5. Wanted' = Wanted
  <2>1. \A doc : InFork(doc)' = InFork(doc)
    BY Zenon, <1>1 DEF InFork
  <2> QED BY <2>1 DEF Wanted
<1>6. (AreBlocks(groups) /\ AllTold(groups, carried, Wanted))'
  BY <1>1, <1>5, Zenon
<1>7. (\A c \in carried : c = [doc |-> c.doc, key |-> c.key] /\ c.doc \in Framed)'
  BY <1>1, Zenon
<1>8. LookupTypes'
  BY <1>1, <1>2, <1>3, <1>4, <1>6, <1>7 DEF LookupTypes
<1> QED BY <1>6, <1>8 DEF LookupInv

LEMMA PushKeeps ==
  ASSUME LookupInv, Push PROVE LookupInv'
<1> DEFINE entry == found[taken + 1]
           new == [doc |-> Opened, key |-> entry.key]
<1>1. /\ taken \in Nat /\ taken' = taken + 1 /\ taken + 1 \in DOMAIN found
      /\ groups' = PushKeyed(groups, Opened, entry) /\ carried' = carried \cup {new}
      /\ opened' = opened /\ found' = found /\ asked' = asked
  BY DEF Push, LookupInv, LookupTypes
<1>2. /\ \A c \in carried : c = [doc |-> c.doc, key |-> c.key] /\ c.doc \in Framed
      /\ AreBlocks(groups) /\ AllTold(groups, carried, Wanted)
      /\ opened \in 1 .. Len(Shelf) /\ EntryOf(Opened, entry)
      /\ \A n \in DOMAIN found : EntryOf(Opened, found[n])
  BY <1>1 DEF LookupInv, LookupTypes
<1>3. Opened \in Framed /\ Len(Shelf) \in Nat
  BY <1>2, FramedFacts DEF Opened
<1>4. /\ AreBlocks(groups')
      /\ AllTold(groups', carried', Wanted)
  <2> HIDE DEF entry
  <2> QED BY <1>1, <1>2, <1>3, Pushes
<1>5. Wanted' = Wanted
  <2>1. \A doc : InFork(doc)' = InFork(doc)
    BY Zenon, <1>1 DEF InFork
  <2> QED BY <2>1 DEF Wanted
<1>6. AreBlocks(groups)' /\ AllTold(groups, carried, Wanted)'
  BY <1>4, <1>5, Zenon
<1>7. \A c \in carried' : c = [doc |-> c.doc, key |-> c.key] /\ c.doc \in Framed
  <2>1. new.doc = Opened /\ new.key = entry.key
    OBVIOUS
  <2>2. new = [doc |-> new.doc, key |-> new.key]
    BY <2>1
  <2> HIDE DEF new
  <2> QED BY <1>1, <1>2, <1>3, <2>1, <2>2
<1>8. Opened' = Opened
  BY <1>1 DEF Opened
<1>9. (\A n \in DOMAIN found : opened \in 1 .. Len(Shelf) /\ EntryOf(Opened, found[n]))'
  <2>1. \A n \in DOMAIN found : opened \in 1 .. Len(Shelf) /\ EntryOf(Opened, found[n])
    BY <1>2
  <2> QED BY <1>1, <1>8, <2>1 DEF EntryOf
<1>10. LookupTypes'
  BY <1>1, <1>2, <1>3, <1>6, <1>7, <1>9 DEF LookupTypes
<1> QED BY <1>6, <1>10 DEF LookupInv

LEMMA LookupStep ==
  ASSUME LookupInv, [LookupNext]_lookupVars PROVE LookupInv'
<1>1. CASE OpenDocument
  BY <1>1, OpenKeeps
<1>2. CASE Push
  BY <1>2, PushKeeps
<1>3. CASE UNCHANGED lookupVars
  <2>1. /\ opened' = opened /\ found' = found /\ taken' = taken /\ groups' = groups
        /\ carried' = carried /\ asked' = asked
    BY <1>3 DEF lookupVars
  <2>2. Wanted' = Wanted /\ Opened' = Opened
    <3>1. \A doc : InFork(doc)' = InFork(doc)
      BY Zenon, <2>1 DEF InFork
    <3> QED BY <2>1, <3>1 DEF Wanted, Opened
  <2>3. AllTold(groups, carried, Wanted)'
    BY <2>1, <2>2, Zenon DEF LookupInv
  <2>4. LookupTypes'
    BY <2>1, <2>2, Zenon DEF LookupInv, LookupTypes
  <2> QED BY <2>3, <2>4 DEF LookupInv
<1> QED BY <1>1, <1>2, <1>3 DEF LookupNext

(***************************************************************************)
(* The answer.                                                             *)
(***************************************************************************)

DocIds == {doc.id : doc \in Framed}

LEMMA LabelIs ==
  ASSUME NEW id \in DocIds PROVE Label(id) \in DocIds => Label(id) = id
<1> DEFINE doc == CHOOSE d \in Range(Shelf) : d.id = id
<1>1. doc \in Framed /\ doc.id = id
  BY DEF DocIds, Framed
<1>2. Label(id) = IF doc.label = "" THEN id ELSE doc.label
  BY DEF Label
<1> HIDE DEF doc
<1>3. doc.label \notin DocIds
  BY <1>1, FramedFacts DEF DocIds
<1> QED BY <1>2, <1>3

(* What "identical in" names: one name for each of the other documents,    *)
(* none for the one cited.                                                 *)
LEMMA NamesTell ==
  ASSUME NEW also \in Seq(DocIds), NEW cited \in DocIds
  PROVE  LET others == ToSet(also) \ {cited}
             names == SharedBy(also, cited)
         IN  /\ Cardinality(names) = Cardinality(others)
             /\ \A id \in others : Cardinality({id, Label(id)} \cap names) = 1
             /\ {cited, Label(cited)} \cap names = {}
<1> DEFINE others == ToSet(also) \ {cited}
           labels == {Label(id) : id \in others}
           names == SharedBy(also, cited)
           usable == Cardinality(labels) = Cardinality(others) /\ Label(cited) \notin labels
<1>1. names = IF usable THEN labels ELSE others
  BY DEF SharedBy
<1>2. others \subseteq DocIds /\ cited \notin others
  <2>1. DOMAIN also = 1 .. Len(also) /\ \A i \in 1 .. Len(also) : also[i] \in DocIds
    BY LenProperties, ElementOfSeq
  <2> QED BY <2>1 DEF ToSet
<1>3. \A x : Cardinality({x}) = 1
  BY FS_Singleton
<1>4. CASE usable
  <2>1. names = labels
    BY <1>1, <1>4
  <2>2. Cardinality(names) = Cardinality(others) /\ Label(cited) \notin labels
    BY <1>4, <2>1
  <2> HIDE DEF usable, names, others
  <2>3. ASSUME NEW id \in DocIds, id \in labels PROVE Label(id) = id /\ id \in others
    <3>1. PICK x \in others : id = Label(x)
      BY <2>3
    <3>2. id = x
      BY <1>2, <2>3, <3>1, LabelIs
    <3> QED BY <3>1, <3>2
  <2>4. ASSUME NEW id \in others PROVE Cardinality({id, Label(id)} \cap names) = 1
    <3>1. {id, Label(id)} \cap names = {Label(id)}
      BY <1>2, <2>1, <2>3
    <3> QED BY <1>3, <3>1
  <2>5. {cited, Label(cited)} \cap names = {}
    BY <1>2, <2>1, <2>2, <2>3
  <2> QED BY <2>2, <2>4, <2>5 DEF names, others
<1>5. CASE ~ usable
  <2>1. names = others
    BY <1>1, <1>5
  <2> HIDE DEF usable, names, others
  <2>2. ASSUME NEW id \in others PROVE Cardinality({id, Label(id)} \cap names) = 1
    <3>1. {id, Label(id)} \cap names = {id}
      BY <1>2, <2>1, LabelIs
    <3> QED BY <1>3, <3>1
  <2>3. {cited, Label(cited)} \cap names = {}
    BY <1>2, <2>1, LabelIs
  <2> QED BY <2>1, <2>2, <2>3 DEF names, others
<1> QED BY <1>4, <1>5

LEMMA Weights ==
  ASSUME NEW b, IsBlock(b)
  PROVE  Weight(b) \in Nat /\ (b.inFork <=> Weight(b) < 4)
BY DEF Weight, IsBlock

(* The answer has each block once, those of the fork first.                *)
LEMMA AnswerSorted ==
  ASSUME AreBlocks(groups)
  PROVE  \E order \in [DOMAIN groups -> DOMAIN groups] :
           /\ Definitions = [i \in DOMAIN groups |-> groups[order[i]]]
           /\ \A i \in DOMAIN groups : \E k \in DOMAIN groups : order[k] = i
           /\ \A i, k \in DOMAIN groups : order[i] = order[k] => i = k
           /\ \A i, k \in DOMAIN groups :
                i < k /\ groups[order[k]].inFork => groups[order[i]].inFork
           /\ DOMAIN groups = 1 .. Len(groups) /\ Len(groups) \in Nat
<1> DEFINE D == DOMAIN groups
           order == InOrder(D, Lighter)
<1>1. D = 1 .. Len(groups) /\ Len(groups) \in Nat
  <2>1. PICK S : groups \in Seq(S)
    BY DEF AreBlocks
  <2> QED BY <2>1, LenProperties
<1>2. IsFiniteSet(D) /\ Cardinality(D) = Len(groups)
  <2> DEFINE n == Len(groups)
  <2>1. n \in Nat
    BY <1>1
  <2> HIDE DEF n
  <2>2. IsFiniteSet(1 .. n) /\ Cardinality(1 .. n) = n
    BY <2>1, FS_Interval
  <2> QED BY <1>1, <2>2 DEF n
<1>3. \A i \in D : Weight(groups[i]) \in Nat /\ (groups[i].inFork <=> Weight(groups[i]) < 4)
  BY Weights DEF AreBlocks
<1>4. \A i, k \in D : <<i, k>> \in Lighter <=>
                        \/ Weight(groups[i]) < Weight(groups[k])
                        \/ Weight(groups[i]) = Weight(groups[k]) /\ i < k
  BY DEF Lighter
<1>5. StrictOrder(D, Lighter)
  <2> HIDE DEF D
  <2>1. \A i \in D : i \in Nat
    BY <1>1
  <2> QED BY <1>3, <1>4, <2>1 DEF StrictOrder
<1>6. /\ Sorts(order, D, Lighter)
      /\ \A i, k \in DOMAIN order : order[i] = order[k] => i = k
  BY <1>2, <1>5, InOrderSorts
<1>7. Definitions = [i \in D |-> groups[order[i]]]
  BY DEF Definitions
<1> HIDE DEF D, order
<1>8. order \in [D -> D]
  BY <1>1, <1>2, <1>6 DEF Sorts
<1>9. \A i, k \in D : i < k => <<order[i], order[k]>> \in Lighter
  BY <1>6, <1>8 DEF Sorts
<1>10. \A i, k \in D : i < k /\ groups[order[k]].inFork => groups[order[i]].inFork
  <2> SUFFICES ASSUME NEW i \in D, NEW k \in D, i < k, groups[order[k]].inFork
               PROVE  groups[order[i]].inFork
    OBVIOUS
  <2>1. order[i] \in D /\ order[k] \in D
    BY <1>8
  <2>2. Weight(groups[order[i]]) <= Weight(groups[order[k]])
    <3>1. <<order[i], order[k]>> \in Lighter
      BY <1>9
    <3>2. Weight(groups[order[i]]) \in Nat /\ Weight(groups[order[k]]) \in Nat
      BY <1>3, <2>1
    <3>3. \/ Weight(groups[order[i]]) < Weight(groups[order[k]])
          \/ Weight(groups[order[i]]) = Weight(groups[order[k]]) /\ order[i] < order[k]
      BY <1>4, <2>1, <3>1
    <3> QED BY <3>2, <3>3
  <2> QED BY <1>3, <2>1, <2>2
<1>11. \A i \in D : \E k \in D : order[k] = i
  BY <1>6, <1>8 DEF Sorts
<1>12. \A i, k \in D : order[i] = order[k] => i = k
  BY <1>6, <1>8
<1> QED BY <1>1, <1>7, <1>8, <1>10, <1>11, <1>12 DEF D

(* One definition of the answer, d, with the documents C that carry it.    *)
LEMMA TellsOne ==
  ASSUME NEW d, IsBlock(d), NEW C, Told(d, C, Wanted)
  PROVE  LET cited == {doc \in C : doc.id = d.doc}
             others == {doc.id : doc \in C \ cited}
             names == SharedBy(d.also, d.doc)
         IN  /\ Cardinality(cited) = 1
             /\ Cardinality(names) = Cardinality(others)
             /\ \A id \in others : Cardinality({id, Label(id)} \cap names) = 1
             /\ {d.doc, Label(d.doc)} \cap names = {}
             /\ d.hint \in {"", d.doc}
             /\ d.inFork <=> \E doc \in C : InFork(doc)
             /\ d.inFork => \A doc \in cited : InFork(doc)
<1> DEFINE cited == {doc \in C : doc.id = d.doc}
           others == {doc.id : doc \in C \ cited}
<1>1. C \subseteq Framed /\ {d.doc} \cup ToSet(d.also) = {doc.id : doc \in C}
  BY DEF Told
<1>2. d.doc \in DocIds /\ d.also \in Seq(DocIds)
  BY <1>1 DEF IsBlock, DocIds
<1>3. Cardinality(cited) = 1
  <2>1. PICK doc \in C : doc.id = d.doc
    BY <1>1
  <2>2. cited = {doc}
    BY <1>1, <2>1, FramedFacts
  <2> HIDE DEF cited
  <2> QED BY <2>2, FS_Singleton
<1>4. others = ToSet(d.also) \ {d.doc}
  BY <1>1
<1>5. d.inFork <=> \E doc \in C : InFork(doc)
  BY <1>1 DEF Told, Wanted
<1>6. d.inFork => \A doc \in cited : InFork(doc)
  BY DEF Told, Wanted
<1>7. d.hint \in {"", d.doc}
  BY DEF Told
<1> HIDE DEF others, cited
<1>8. LET names == SharedBy(d.also, d.doc)
      IN  /\ Cardinality(names) = Cardinality(others)
          /\ \A id \in others : Cardinality({id, Label(id)} \cap names) = 1
          /\ {d.doc, Label(d.doc)} \cap names = {}
  BY <1>2, <1>4, NamesTell, Zenon
<1> QED BY <1>3, <1>5, <1>6, <1>7, <1>8 DEF cited, others

LEMMA LookupTold == LookupInv => LookupTells
<1> SUFFICES ASSUME LookupInv PROVE LookupTells
  OBVIOUS
<1>1. /\ AreBlocks(groups) /\ AllTold(groups, carried, Wanted)
      /\ \A c \in carried : c = [doc |-> c.doc, key |-> c.key] /\ c.doc \in Framed
  BY DEF LookupInv, LookupTypes
<1> DEFINE D == DOMAIN groups
           all == Definitions
<1>2. PICK order \in [D -> D] :
        /\ all = [i \in D |-> groups[order[i]]]
        /\ \A i \in D : \E k \in D : order[k] = i
        /\ \A i, k \in D : order[i] = order[k] => i = k
        /\ \A i, k \in D : i < k /\ groups[order[k]].inFork => groups[order[i]].inFork
        /\ D = 1 .. Len(groups) /\ Len(groups) \in Nat
  BY <1>1, AnswerSorted
<1> HIDE DEF all
<1>3. DOMAIN all = D /\ \A i \in D : all[i] = groups[order[i]] /\ order[i] \in D
  BY <1>2
<1>4. \A i \in D : IsBlock(all[i]) /\ Told(all[i], Carriers(all[i]), Wanted)
  <2>1. \A i \in D : IsBlock(groups[i]) /\ Told(groups[i], Carriers(groups[i]), Wanted)
    BY <1>1 DEF AllTold, AreBlocks, Carriers, Holders
  <2> QED BY <1>3, <2>1
<1> HIDE DEF D
<1>5. \A i, j \in DOMAIN all : all[i].key = all[j].key => i = j
  <2>1. \A i, j \in D : groups[i].key = groups[j].key => i = j
    BY <1>1 DEF AllTold, D
  <2> SUFFICES ASSUME NEW i \in D, NEW j \in D, all[i].key = all[j].key PROVE i = j
    BY <1>3
  <2>2. groups[order[i]].key = groups[order[j]].key
    BY <1>3, Zenon
  <2>3. order[i] = order[j]
    BY <1>3, <2>1, <2>2
  <2> QED BY <1>2, <2>3, Zenon
<1>6. {d.key : d \in Range(all)} = {c.key : c \in carried}
  <2>1. ASSUME NEW d \in Range(all) PROVE \E c \in carried : c.key = d.key
    <3>1. PICK i \in D : d = all[i]
      BY <1>3, <2>1 DEF Range
    <3>2. Told(d, Carriers(d), Wanted)
      BY <1>4, <3>1
    <3>3. Carriers(d) # {}
      <4>1. d.doc \in {doc.id : doc \in Carriers(d)}
        BY <3>2 DEF Told
      <4> QED BY <4>1
    <3> QED BY <3>3 DEF Carriers
  <2>2. ASSUME NEW c \in carried PROVE \E d \in Range(all) : c.key = d.key
    <3>1. PICK i \in D : groups[i].key = c.key
      BY <1>1 DEF AllTold, D
    <3>2. PICK k \in D : order[k] = i
      BY <1>2
    <3>3. all[k] \in Range(all) /\ all[k].key = c.key
      BY <1>3, <3>1, <3>2 DEF Range
    <3> QED BY <3>3
  <2> QED BY <2>1, <2>2
<1>7. ASSUME NEW i \in DOMAIN all
      PROVE  LET d == all[i]
                 cited == {doc \in Carriers(d) : doc.id = d.doc}
                 others == {doc.id : doc \in Carriers(d) \ cited}
                 names == SharedBy(d.also, d.doc)
             IN  /\ Cardinality(cited) = 1
                 /\ Cardinality(names) = Cardinality(others)
                 /\ \A id \in others : Cardinality({id, Label(id)} \cap names) = 1
                 /\ {d.doc, Label(d.doc)} \cap names = {}
                 /\ d.hint \in {"", d.doc}
                 /\ (\E doc \in Carriers(d) : InFork(doc)) =>
                      /\ \A doc \in cited : InFork(doc)
                      /\ \A j \in 1 .. i - 1 :
                           \E doc \in Carriers(all[j]) : InFork(doc)
  <2> DEFINE d == all[i]
             cited == {doc \in Carriers(d) : doc.id = d.doc}
             others == {doc.id : doc \in Carriers(d) \ cited}
             names == SharedBy(d.also, d.doc)
  <2>1. /\ Cardinality(cited) = 1
        /\ Cardinality(names) = Cardinality(others)
        /\ \A id \in others : Cardinality({id, Label(id)} \cap names) = 1
        /\ {d.doc, Label(d.doc)} \cap names = {}
        /\ d.hint \in {"", d.doc}
        /\ d.inFork <=> \E doc \in Carriers(d) : InFork(doc)
        /\ d.inFork => \A doc \in cited : InFork(doc)
    <3>1. IsBlock(d) /\ Told(d, Carriers(d), Wanted)
      BY <1>3, <1>4
    <3> QED BY <3>1, TellsOne, Zenon
  <2>2. ASSUME \E doc \in Carriers(d) : InFork(doc), NEW j \in 1 .. i - 1
        PROVE  \E doc \in Carriers(all[j]) : InFork(doc)
    <3>1. j \in D /\ i \in D /\ j < i
      BY <1>2, <1>3
    <3>2. groups[order[i]].inFork
      BY <1>3, <2>1, <2>2, <3>1
    <3>3. all[j].inFork
      BY <1>2, <1>3, <3>1, <3>2
    <3>4. IsBlock(all[j]) /\ Told(all[j], Carriers(all[j]), Wanted)
      BY <1>4, <3>1
    <3> QED BY <3>3, <3>4 DEF Told, Wanted
  <2> HIDE DEF d, cited, others, names
  <2>3. (\E doc \in Carriers(d) : InFork(doc)) =>
          /\ \A doc \in cited : InFork(doc)
          /\ \A j \in 1 .. i - 1 : \E doc \in Carriers(all[j]) : InFork(doc)
    BY <2>1, <2>2
  <2> QED BY <2>1, <2>3 DEF d, cited, others, names
<1> QED BY <1>5, <1>6, <1>7, Zenon DEF LookupTells, all

(* What lookup_spec tells of a definition is true of all the documents it  *)
(* has gone through: once each, the others that carry it named one name    *)
(* each, the document cited never among them, the fork's own first.        *)
THEOREM LookupTellsTheTruth == LookupSpec => []LookupTells
<1>1. LookupInit => LookupInv
  BY LookupStart
<1>2. LookupInv /\ [LookupNext]_lookupVars => LookupInv'
  BY LookupStep
<1>3. LookupInv => LookupTells
  BY LookupTold
<1> QED BY <1>1, <1>2, <1>3, PTL DEF LookupSpec
=============================================================================
