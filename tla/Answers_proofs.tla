--------------------------- MODULE Answers_proofs ---------------------------
(***************************************************************************)
(* Proofs about what the server answers: the ranking of documents, and     *)
(* what a client reads that follows the hints of the tools.                *)
(***************************************************************************)
EXTENDS Retrieval, CorpusTools, FiniteSetTheorems, SequenceTheorems, TLAPS

(***************************************************************************)
(* Naturals: a set of them has a least one, and a greatest if bounded.     *)
(***************************************************************************)

LEMMA LeastOf ==
  ASSUME NEW T \in SUBSET Nat, T # {}
  PROVE  \E x \in T : \A y \in T : x <= y
<1>1. PICK x \in T : \A y \in T : ~ (<<y, x>> \in OpToRel(<, Nat))
  BY NatLessThanWellFounded, WFMin
<1>2. \A y \in T : y < x => <<y, x>> \in OpToRel(<, Nat)
  BY DEF OpToRel
<1>3. \A y \in T : ~ (y < x)
  BY <1>1, <1>2
<1> QED BY <1>3

LEMMA GreatestOf ==
  ASSUME NEW T \in SUBSET Nat, T # {}, NEW b \in Nat, \A x \in T : x <= b
  PROVE  \E x \in T : \A y \in T : y <= x
<1> DEFINE U == {n \in Nat : b - n \in T}
<1>1. U # {}
  <2>1. PICK x \in T : TRUE
    OBVIOUS
  <2>2. b - x \in Nat /\ b - (b - x) = x
    BY <2>1
  <2> QED BY <2>1, <2>2
<1>2. PICK m \in U : \A n \in U : m <= n
  <2> HIDE DEF U
  <2>1. U \in SUBSET Nat
    BY DEF U
  <2> QED BY <1>1, <2>1, LeastOf
<1>3. ASSUME NEW y \in T PROVE y <= b - m
  <2>1. b - y \in U
    <3>1. b - y \in Nat /\ b - (b - y) = y
      OBVIOUS
    <3> QED BY <3>1
  <2> QED BY <1>2, <2>1
<1> QED BY <1>2, <1>3

(***************************************************************************)
(* The elements of a set in order.                                         *)
(***************************************************************************)

StrictOrder(S, R) ==
  /\ \A x \in S : <<x, x>> \notin R
  /\ \A x, y, z \in S : <<x, y>> \in R /\ <<y, z>> \in R => <<x, z>> \in R
  /\ \A x, y \in S : x = y \/ <<x, y>> \in R \/ <<y, x>> \in R

LEMMA AheadSize ==
  ASSUME NEW S, IsFiniteSet(S), NEW R, StrictOrder(S, R), NEW x \in S
  PROVE  Cardinality(Ahead(S, R, x)) \in 0 .. Cardinality(S) - 1
<1> DEFINE A == Ahead(S, R, x)
<1>1. A \subseteq S /\ A # S
  BY DEF Ahead, StrictOrder
<1>2. /\ Cardinality(A) \in Nat /\ Cardinality(S) \in Nat
      /\ Cardinality(A) <= Cardinality(S) /\ Cardinality(A) # Cardinality(S)
  <2> HIDE DEF A
  <2> QED BY <1>1, FS_Subset, FS_CardinalityType
<1> QED BY <1>2

LEMMA AheadGrows ==
  ASSUME NEW S, IsFiniteSet(S), NEW R, StrictOrder(S, R),
         NEW x \in S, NEW y \in S, <<x, y>> \in R
  PROVE  Cardinality(Ahead(S, R, x)) < Cardinality(Ahead(S, R, y))
<1> DEFINE A == Ahead(S, R, x)
           B == Ahead(S, R, y)
<1>1. A \subseteq B /\ x \in B /\ x \notin A /\ B \subseteq S
  BY DEF Ahead, StrictOrder
<1>2. IsFiniteSet(B)
  BY <1>1, FS_Subset
<1>3. /\ Cardinality(A) \in Nat /\ Cardinality(B) \in Nat
      /\ Cardinality(A) <= Cardinality(B) /\ Cardinality(A) # Cardinality(B)
  <2> HIDE DEF A, B
  <2> QED BY <1>1, <1>2, FS_Subset, FS_CardinalityType
<1> QED BY <1>3

LEMMA AheadOrders ==
  ASSUME NEW S, IsFiniteSet(S), NEW R, StrictOrder(S, R), NEW x \in S, NEW y \in S
  PROVE  /\ Cardinality(Ahead(S, R, x)) < Cardinality(Ahead(S, R, y)) <=> <<x, y>> \in R
         /\ Cardinality(Ahead(S, R, x)) = Cardinality(Ahead(S, R, y)) => x = y
<1>1. Cardinality(Ahead(S, R, x)) \in Nat /\ Cardinality(Ahead(S, R, y)) \in Nat
  BY AheadSize, FS_CardinalityType
<1>2. x = y \/ <<x, y>> \in R \/ <<y, x>> \in R
  BY DEF StrictOrder
<1>3. /\ <<x, y>> \in R => Cardinality(Ahead(S, R, x)) < Cardinality(Ahead(S, R, y))
      /\ <<y, x>> \in R => Cardinality(Ahead(S, R, y)) < Cardinality(Ahead(S, R, x))
  BY AheadGrows
<1> QED BY <1>1, <1>2, <1>3

(* Every place is some element's: there are as many places as elements.    *)
LEMMA PlaceTaken ==
  ASSUME NEW S, IsFiniteSet(S), NEW R, StrictOrder(S, R), NEW i \in 0 .. Cardinality(S) - 1
  PROVE  \E x \in S : Cardinality(Ahead(S, R, x)) = i
<1> DEFINE n == Cardinality(S)
           f == [x \in S |-> Cardinality(Ahead(S, R, x))]
<1>1. f \in [S -> 0 .. n - 1]
  BY AheadSize
<1>2. \A x, y \in S : f[x] = f[y] => x = y
  BY AheadOrders
<1>3. f \in Injection(S, 0 .. n - 1)
  BY <1>1, <1>2 DEF Injection, IsInjective
<1>4. n \in Nat
  BY FS_CardinalityType
<1>5. IsFiniteSet(0 .. n - 1) /\ Cardinality(0 .. n - 1) = n
  BY <1>4, FS_Interval
<1>6. f \in Surjection(S, 0 .. n - 1)
  BY <1>3, <1>5, FS_Injection
<1> QED BY <1>6 DEF Surjection

(* What sorting returns: each element once, a lesser one before a greater. *)
Sorts(q, S, R) ==
  /\ q \in [1 .. Cardinality(S) -> S]
  /\ \A x \in S : \E i \in DOMAIN q : q[i] = x
  /\ \A i, j \in DOMAIN q : i < j <=> <<q[i], q[j]>> \in R

LEMMA InOrderSorts ==
  ASSUME NEW S, IsFiniteSet(S), NEW R, StrictOrder(S, R)
  PROVE  /\ Sorts(InOrder(S, R), S, R)
         /\ \A i, j \in DOMAIN InOrder(S, R) :
              InOrder(S, R)[i] = InOrder(S, R)[j] => i = j
<1> DEFINE q == InOrder(S, R)
           n == Cardinality(S)
           a(x) == Cardinality(Ahead(S, R, x))
<1>1. n \in Nat
  BY FS_CardinalityType
<1>2. ASSUME NEW i \in 1 .. n PROVE q[i] \in S /\ a(q[i]) = i - 1
  <2>1. \E x \in S : a(x) = i - 1
    <3>1. i - 1 \in 0 .. n - 1
      BY <1>1
    <3> QED BY <3>1, PlaceTaken
  <2>2. q[i] = CHOOSE x \in S : a(x) = i - 1
    BY DEF InOrder
  <2> HIDE DEF q, a
  <2> QED BY <2>1, <2>2
<1>3. DOMAIN q = 1 .. n
  BY DEF InOrder
<1>4. q \in [1 .. n -> S]
  BY <1>2, <1>3 DEF InOrder
<1>5. ASSUME NEW x \in S PROVE \E i \in DOMAIN q : q[i] = x
  <2>1. a(x) + 1 \in 1 .. n /\ a(x) \in Nat
    BY <1>1, AheadSize
  <2>2. q[a(x) + 1] \in S /\ a(q[a(x) + 1]) = a(x)
    <3> HIDE DEF q, a
    <3> QED BY <1>2, <2>1
  <2>3. q[a(x) + 1] = x
    BY <2>2, AheadOrders
  <2> QED BY <1>3, <2>1, <2>3
<1>6. ASSUME NEW i \in DOMAIN q, NEW j \in DOMAIN q
      PROVE  (i < j <=> <<q[i], q[j]>> \in R) /\ (q[i] = q[j] => i = j)
  <2>1. /\ i \in 1 .. n /\ j \in 1 .. n /\ q[i] \in S /\ q[j] \in S
        /\ a(q[i]) = i - 1 /\ a(q[j]) = j - 1
    BY <1>2, <1>3
  <2>2. a(q[i]) < a(q[j]) <=> <<q[i], q[j]>> \in R
    BY <2>1, AheadOrders
  <2> HIDE DEF q, a
  <2> QED BY <1>1, <2>1, <2>2
<1> QED BY <1>4, <1>5, <1>6 DEF Sorts

(* A sequence that is sorted is the one that sorting returns.              *)
LEMMA SortedOnce ==
  ASSUME NEW S, IsFiniteSet(S), NEW R, StrictOrder(S, R), NEW q, Sorts(q, S, R)
  PROVE  q = InOrder(S, R)
<1> DEFINE n == Cardinality(S)
           a(x) == Cardinality(Ahead(S, R, x))
<1>1. n \in Nat /\ q \in [1 .. n -> S]
  BY FS_CardinalityType DEF Sorts
<1>2. ASSUME NEW i \in 1 .. n PROVE a(q[i]) = i - 1
  <2> DEFINE A == Ahead(S, R, q[i])
             f == [j \in 1 .. i - 1 |-> q[j]]
  <2>1. \A j \in 1 .. i - 1 : q[j] \in A
    BY <1>1 DEF Sorts, Ahead
  <2>2. f \in [1 .. i - 1 -> A]
    BY <2>1
  <2>3. \A j, k \in 1 .. i - 1 : f[j] = f[k] => j = k
    <3> SUFFICES ASSUME NEW j \in 1 .. i - 1, NEW k \in 1 .. i - 1, q[j] = q[k], j < k
                 PROVE  FALSE
      BY <1>1
    <3>1. <<q[j], q[k]>> \in R /\ q[j] \in S
      BY <1>1 DEF Sorts
    <3> QED BY <3>1 DEF StrictOrder
  <2>4. \A x \in A : \E j \in 1 .. i - 1 : f[j] = x
    <3> SUFFICES ASSUME NEW x \in A PROVE \E j \in 1 .. i - 1 : q[j] = x
      OBVIOUS
    <3>1. PICK j \in 1 .. n : q[j] = x
      BY <1>1 DEF Sorts, Ahead
    <3>2. <<q[j], q[i]>> \in R
      BY <3>1 DEF Ahead
    <3>3. j < i
      BY <1>1, <3>2 DEF Sorts
    <3> QED BY <1>1, <3>1, <3>3
  <2>5. f \in Bijection(1 .. i - 1, A)
    <3> HIDE DEF A, f
    <3> QED BY <2>2, <2>3, <2>4 DEF Bijection, Injection, Surjection, IsInjective
  <2>6. ExistsBijection(1 .. i - 1, A) /\ i - 1 \in Nat
    BY <1>1, <2>5 DEF ExistsBijection
  <2> HIDE DEF A
  <2>7. Cardinality(A) = i - 1
    BY <2>6, FS_CountingElements
  <2> QED BY <2>7 DEF A
<1>3. ASSUME NEW i \in 1 .. n PROVE q[i] = InOrder(S, R)[i]
  <2>1. InOrder(S, R)[i] = CHOOSE x \in S : a(x) = i - 1
    BY <1>1 DEF InOrder
  <2>2. q[i] \in S /\ \A x \in S : a(x) = i - 1 => x = q[i]
    BY <1>1, <1>2, AheadOrders
  <2>3. a(q[i]) = i - 1
    BY <1>2
  <2> HIDE DEF a
  <2> QED BY <2>1, <2>2, <2>3
<1>4. InOrder(S, R) = [i \in 1 .. n |-> InOrder(S, R)[i]]
  BY DEF InOrder
<1> QED BY <1>1, <1>3, <1>4

LEMMA AscendingOrders ==
  ASSUME NEW at \in SUBSET Nat
  PROVE  StrictOrder(at, Ascending(at))
BY DEF StrictOrder, Ascending

(* What is picked are the rows at those places, in their order.            *)
PicksBy(q, rows, at, f) ==
  /\ f \in [1 .. Cardinality(at) -> at]
  /\ Len(q) = Cardinality(at)
  /\ \A k \in 1 .. Len(q) : q[k] = rows[f[k]]
  /\ \A i \in at : \E k \in 1 .. Len(q) : f[k] = i
  /\ \A k, l \in 1 .. Len(q) : k < l => f[k] < f[l]

LEMMA PickedRows ==
  ASSUME NEW D, NEW rows \in Seq(D), NEW at \in SUBSET (DOMAIN rows)
  PROVE  /\ Picked(rows, at) \in Seq(D)
         /\ \E f : PicksBy(Picked(rows, at), rows, at, f)
<1> DEFINE f == InOrder(at, Ascending(at))
           n == Cardinality(at)
           q == Picked(rows, at)
<1>1. DOMAIN rows = 1 .. Len(rows) /\ Len(rows) \in Nat
  BY LenProperties
<1>2. IsFiniteSet(at) /\ at \in SUBSET Nat
  <2>1. IsFiniteSet(1 .. Len(rows))
    BY <1>1, FS_Interval
  <2>2. at \in SUBSET (1 .. Len(rows))
    BY <1>1
  <2>3. IsFiniteSet(at)
    BY <2>1, <2>2, FS_Subset
  <2> QED BY <1>1, <2>2, <2>3
<1>3. n \in Nat
  BY <1>2, FS_CardinalityType
<1>4. Sorts(f, at, Ascending(at))
  BY <1>2, AscendingOrders, InOrderSorts
<1>5. q = [k \in 1 .. n |-> rows[f[k]]]
  BY DEF Picked
<1>6. f \in [1 .. n -> at]
  BY <1>4 DEF Sorts
<1> HIDE DEF f, q
<1>7. \A k \in 1 .. n : rows[f[k]] \in D
  BY <1>1, <1>6, LenProperties
<1>8. q \in [1 .. n -> D]
  BY <1>5, <1>7
<1>9. q \in Seq(D) /\ Len(q) = n
  BY <1>3, <1>8
<1>10. \A k, l \in 1 .. n : k < l => f[k] < f[l]
  BY <1>2, <1>4, <1>6 DEF Sorts, Ascending
<1>11. PicksBy(q, rows, at, f)
  BY <1>4, <1>5, <1>6, <1>9, <1>10 DEF PicksBy, Sorts
<1> QED BY <1>9, <1>11 DEF q

LEMMA TopRows ==
  ASSUME NEW D, NEW s \in Seq(D), NEW n \in Nat
  PROVE  /\ Top(s, n) \in Seq(D) /\ Len(s) \in Nat
         /\ Len(Top(s, n)) = Least(n, Len(s))
         /\ Len(Top(s, n)) <= n /\ Len(Top(s, n)) <= Len(s)
         /\ \A i \in 1 .. Len(Top(s, n)) : Top(s, n)[i] = s[i]
<1> DEFINE m == Least(n, Len(s))
<1>1. Len(s) \in Nat /\ \A i \in 1 .. Len(s) : s[i] \in D
  BY LenProperties
<1>2. m \in Nat /\ m <= n /\ m <= Len(s)
  BY <1>1 DEF Least
<1>3. Top(s, n) = SubSeq(s, 1, m)
  BY DEF Top
<1> HIDE DEF m
<1>4. \A i \in 1 .. m : s[i] \in D
  BY <1>1, <1>2
<1>5. /\ SubSeq(s, 1, m) \in Seq(D)
      /\ Len(SubSeq(s, 1, m)) = m
      /\ \A i \in 1 .. m : SubSeq(s, 1, m)[i] = s[i]
  <2>1. /\ SubSeq(s, 1, m) \in Seq(D)
        /\ Len(SubSeq(s, 1, m)) = IF 1 <= m THEN m - 1 + 1 ELSE 0
        /\ \A i \in 1 .. m - 1 + 1 : SubSeq(s, 1, m)[i] = s[1 + i - 1]
    BY <1>2, <1>4, SubSeqProperties
  <2>2. m - 1 + 1 = m /\ \A i \in 1 .. m : 1 + i - 1 = i
    BY <1>2
  <2> QED BY <1>2, <2>1, <2>2
<1> QED BY <1>1, <1>2, <1>3, <1>5 DEF m

(***************************************************************************)
(* Retrieval: the two arms.                                                *)
(***************************************************************************)

RetrievalTypes ==
  /\ lexical \in Seq(Docs) /\ near \in Seq(Docs)
  /\ scope \in Scopes

Once(s) == \A i, j \in 1 .. Len(s) : s[i] = s[j] => i = j

AllInScope(s) == \A i \in 1 .. Len(s) : scope \in {Everywhere, s[i].source}

Among(s, t) == \A i \in 1 .. Len(s) : \E j \in 1 .. Len(t) : s[i] = t[j]

(* The documents of an answer are each there once, and in scope.           *)
Arm(s) == s \in Seq(Docs) /\ Once(s) /\ AllInScope(s)

FewPerThread(s) ==
  \A thread : LET same == {e \in ToSet(s) : ThreadOf(e) = thread}
              IN  IsFiniteSet(same) /\ Cardinality(same) <= THREAD_CAP

LEMMA Sizes ==
  /\ CANDIDATES \in Nat \ {0} /\ THREAD_CAP \in Nat \ {0} /\ KNN_LIMIT \in Nat \ {0}
  /\ RRF_K \in Nat \ {0} /\ RRF_WHOLE \in Nat \ {0}
  /\ Limits \subseteq 0 .. CANDIDATES
BY RetrievalAssumption DEF RetrievalAssumption

LEMMA EmptyHasNoRows ==
  ASSUME NEW D, NEW s \in Seq(D)
  PROVE  s = <<>> <=> Len(s) = 0
OBVIOUS

LEMMA InScopeRows ==
  ASSUME NEW rows \in Seq(Docs)
  PROVE  InScope(rows) \in Seq(Docs) /\ AllInScope(InScope(rows)) /\ Among(InScope(rows), rows)
<1> DEFINE at == {i \in DOMAIN rows : scope \in {Everywhere, rows[i].source}}
           q == InScope(rows)
<1>1. q = Picked(rows, at)
  BY DEF InScope
<1>2. q \in Seq(Docs) /\ \E f : PicksBy(q, rows, at, f)
  BY <1>1, PickedRows
<1>3. PICK f : PicksBy(q, rows, at, f)
  BY <1>2
<1>4. \A k \in 1 .. Len(q) : f[k] \in at /\ q[k] = rows[f[k]]
  BY <1>3 DEF PicksBy
<1>5. DOMAIN rows = 1 .. Len(rows)
  BY LenProperties
<1> HIDE DEF q
<1> QED BY <1>2, <1>4, <1>5 DEF q, AllInScope, Among

LEMMA DistinctRows ==
  ASSUME NEW rows \in Seq(Docs)
  PROVE  Distinct(rows) \in Seq(Docs) /\ Once(Distinct(rows)) /\ Among(Distinct(rows), rows)
<1> DEFINE at == {i \in DOMAIN rows : \A j \in 1 .. i - 1 : rows[j] # rows[i]}
           q == Distinct(rows)
<1>1. q = Picked(rows, at)
  BY DEF Distinct
<1>2. q \in Seq(Docs) /\ \E f : PicksBy(q, rows, at, f)
  BY <1>1, PickedRows
<1>3. PICK f : PicksBy(q, rows, at, f)
  BY <1>2
<1>4. \A k \in 1 .. Len(q) : f[k] \in at /\ q[k] = rows[f[k]]
  BY <1>3 DEF PicksBy
<1>5. DOMAIN rows = 1 .. Len(rows) /\ Len(rows) \in Nat /\ Len(q) \in Nat
  BY <1>2, LenProperties
<1> HIDE DEF q
<1>6. Once(q)
  <2> SUFFICES ASSUME NEW k \in 1 .. Len(q), NEW l \in 1 .. Len(q), q[k] = q[l], k < l
               PROVE  FALSE
    BY <1>5 DEF Once
  <2>1. f[k] < f[l]
    BY <1>3 DEF PicksBy
  <2>2. f[k] \in 1 .. f[l] - 1 /\ rows[f[k]] = rows[f[l]]
    BY <1>4, <1>5, <2>1
  <2> QED BY <1>4, <2>2
<1> QED BY <1>2, <1>4, <1>5, <1>6 DEF q, Among

LEMMA CappedRows ==
  ASSUME NEW docs \in Seq(Docs), Once(docs)
  PROVE  /\ Capped(docs) \in Seq(Docs) /\ Once(Capped(docs)) /\ Among(Capped(docs), docs)
         /\ FewPerThread(Capped(docs))
<1> DEFINE earlier(i) == {j \in 1 .. i - 1 : ThreadOf(docs[j]) = ThreadOf(docs[i])}
           at == {i \in DOMAIN docs : Cardinality(earlier(i)) < THREAD_CAP}
           q == Capped(docs)
<1>1. q = Picked(docs, at)
  BY DEF Capped
<1>2. q \in Seq(Docs) /\ \E f : PicksBy(q, docs, at, f)
  BY <1>1, PickedRows
<1>3. PICK f : PicksBy(q, docs, at, f)
  BY <1>2
<1>4. \A k \in 1 .. Len(q) : f[k] \in at /\ q[k] = docs[f[k]]
  BY <1>3 DEF PicksBy
<1>5. /\ DOMAIN docs = 1 .. Len(docs) /\ Len(docs) \in Nat /\ Len(q) \in Nat
      /\ DOMAIN q = 1 .. Len(q)
  BY <1>2, LenProperties
<1>6. \A i \in DOMAIN docs : IsFiniteSet(earlier(i)) /\ Cardinality(earlier(i)) \in Nat
  <2> TAKE i \in DOMAIN docs
  <2>1. IsFiniteSet(1 .. i - 1)
    BY <1>5, FS_Interval
  <2>2. earlier(i) \in SUBSET (1 .. i - 1)
    OBVIOUS
  <2> HIDE DEF earlier
  <2> QED BY <2>1, <2>2, FS_Subset, FS_CardinalityType
<1>7. ASSUME NEW i \in DOMAIN docs, NEW j \in DOMAIN docs, i < j,
             ThreadOf(docs[i]) = ThreadOf(docs[j])
      PROVE  Cardinality(earlier(i)) # Cardinality(earlier(j))
  <2>1. earlier(i) \in SUBSET earlier(j) /\ i \in earlier(j) /\ i \notin earlier(i)
    BY <1>5, <1>7
  <2>2. IsFiniteSet(earlier(j))
    BY <1>6
  <2> HIDE DEF earlier
  <2> QED BY <2>1, <2>2, FS_Subset
<1> HIDE DEF q
<1>8. Once(q)
  <2> SUFFICES ASSUME NEW k \in 1 .. Len(q), NEW l \in 1 .. Len(q), q[k] = q[l], k < l
               PROVE  FALSE
    BY <1>5 DEF Once
  <2>1. f[k] < f[l]
    BY <1>3 DEF PicksBy
  <2>2. f[k] \in 1 .. Len(docs) /\ f[l] \in 1 .. Len(docs) /\ docs[f[k]] = docs[f[l]]
    BY <1>4, <1>5
  <2> QED BY <2>1, <2>2 DEF Once
<1>9. FewPerThread(q)
  <2> SUFFICES ASSUME NEW thread
               PROVE  LET same == {e \in ToSet(q) : ThreadOf(e) = thread}
                      IN  IsFiniteSet(same) /\ Cardinality(same) <= THREAD_CAP
    BY DEF FewPerThread
  <2> DEFINE same == {e \in ToSet(q) : ThreadOf(e) = thread}
             place(e) == CHOOSE i \in at : docs[i] = e
             g == [e \in same |-> Cardinality(earlier(place(e)))]
             C == THREAD_CAP
  <2>1. ASSUME NEW e \in same PROVE place(e) \in at /\ docs[place(e)] = e
    <3>1. PICK k \in 1 .. Len(q) : q[k] = e
      BY <1>5 DEF ToSet
    <3>2. f[k] \in at /\ docs[f[k]] = e
      BY <1>4, <3>1
    <3> HIDE DEF at
    <3> QED BY <3>2
  <2>2. g \in [same -> 0 .. C - 1]
    <3>1. ASSUME NEW e \in same PROVE Cardinality(earlier(place(e))) \in 0 .. C - 1
      <4>1. place(e) \in at
        BY <2>1
      <4> HIDE DEF place, earlier
      <4> QED BY <1>6, <4>1, Sizes
    <3> HIDE DEF same
    <3> QED BY <3>1
  <2>3. \A e, d \in same : g[e] = g[d] => e = d
    <3> SUFFICES ASSUME NEW e \in same, NEW d \in same,
                        Cardinality(earlier(place(e))) = Cardinality(earlier(place(d)))
                 PROVE  e = d
      OBVIOUS
    <3>1. /\ place(e) \in DOMAIN docs /\ docs[place(e)] = e
          /\ place(d) \in DOMAIN docs /\ docs[place(d)] = d
      BY <2>1
    <3>2. ThreadOf(e) = ThreadOf(d)
      OBVIOUS
    <3> HIDE DEF place, earlier, same
    <3>3. ~ (place(e) < place(d)) /\ ~ (place(d) < place(e))
      BY <1>7, <3>1, <3>2
    <3> QED BY <1>5, <3>1, <3>3
  <2>4. g \in Injection(same, 0 .. C - 1)
    <3> HIDE DEF g, same
    <3> QED BY <2>2, <2>3 DEF Injection, IsInjective
  <2>5. IsFiniteSet(0 .. C - 1) /\ Cardinality(0 .. C - 1) = C
    BY Sizes, FS_Interval
  <2> HIDE DEF g, same
  <2>6. IsFiniteSet(same) /\ Cardinality(same) <= Cardinality(0 .. C - 1)
    BY <2>4, <2>5, FS_Injection
  <2> QED BY <2>5, <2>6 DEF same
<1> QED BY <1>2, <1>4, <1>5, <1>8, <1>9 DEF q, Among

LEMMA AmongInScope ==
  ASSUME NEW s, NEW t, Among(s, t), AllInScope(t)
  PROVE  AllInScope(s)
BY DEF Among, AllInScope

LEMMA TopArm ==
  ASSUME NEW s, Arm(s), NEW n \in Nat
  PROVE  Arm(Top(s, n)) /\ Among(Top(s, n), s)
<1>1. /\ Top(s, n) \in Seq(Docs) /\ Len(s) \in Nat /\ Len(Top(s, n)) \in Nat
      /\ Len(Top(s, n)) <= Len(s)
      /\ \A i \in 1 .. Len(Top(s, n)) : Top(s, n)[i] = s[i]
  BY TopRows, LenProperties DEF Arm
<1>2. \A i \in 1 .. Len(Top(s, n)) : i \in 1 .. Len(s)
  BY <1>1
<1> QED BY <1>1, <1>2 DEF Arm, Once, AllInScope, Among

Ranked == Capped(Distinct(InScope(lexical)))

LEMMA RankedArm ==
  ASSUME RetrievalTypes
  PROVE  Arm(Ranked) /\ FewPerThread(Ranked)
<1> DEFINE a == InScope(lexical)
           b == Distinct(a)
           c == Capped(b)
<1>1. a \in Seq(Docs) /\ AllInScope(a)
  BY InScopeRows DEF RetrievalTypes
<1> HIDE DEF a
<1>2. b \in Seq(Docs) /\ Once(b) /\ AllInScope(b)
  BY <1>1, DistinctRows, AmongInScope
<1> HIDE DEF b
<1>3. c \in Seq(Docs) /\ Once(c) /\ AllInScope(c) /\ FewPerThread(c)
  BY <1>2, CappedRows, AmongInScope
<1> QED BY <1>3 DEF Ranked, Arm, a, b

LEMMA LexicalArm ==
  ASSUME RetrievalTypes
  PROVE  /\ Arm(SearchScoped(CANDIDATES)) /\ FewPerThread(SearchScoped(CANDIDATES))
         /\ Len(SearchScoped(CANDIDATES)) <= CANDIDATES
<1> DEFINE lex == Top(Ranked, CANDIDATES)
<1>1. lex = SearchScoped(CANDIDATES)
  BY DEF SearchScoped, Ranked
<1>2. Arm(Ranked) /\ FewPerThread(Ranked) /\ CANDIDATES \in Nat
  BY RankedArm, Sizes
<1>3. Arm(lex) /\ Among(lex, Ranked)
  BY <1>2, TopArm
<1>4. Len(lex) <= CANDIDATES
  BY <1>2, TopRows DEF Arm
<1>5. FewPerThread(lex)
  <2> SUFFICES ASSUME NEW thread
               PROVE  LET same == {e \in ToSet(lex) : ThreadOf(e) = thread}
                      IN  IsFiniteSet(same) /\ Cardinality(same) <= THREAD_CAP
    BY DEF FewPerThread
  <2> DEFINE same == {e \in ToSet(lex) : ThreadOf(e) = thread}
             all == {e \in ToSet(Ranked) : ThreadOf(e) = thread}
  <2>1. DOMAIN lex = 1 .. Len(lex) /\ DOMAIN Ranked = 1 .. Len(Ranked)
    BY <1>2, <1>3, LenProperties DEF Arm
  <2>2. ToSet(lex) \subseteq ToSet(Ranked)
    <3> HIDE DEF lex
    <3> QED BY <1>3, <2>1 DEF Among, ToSet
  <2>3. IsFiniteSet(all) /\ Cardinality(all) <= THREAD_CAP
    BY <1>2 DEF FewPerThread
  <2>4. same \in SUBSET all
    BY <2>2
  <2> HIDE DEF same, all
  <2>5. IsFiniteSet(same) /\ Cardinality(same) <= Cardinality(all)
        /\ Cardinality(same) \in Nat /\ Cardinality(all) \in Nat
    BY <2>3, <2>4, FS_Subset, FS_CardinalityType
  <2> QED BY <2>3, <2>5, Sizes DEF same
<1> QED BY <1>1, <1>3, <1>4, <1>5

LEMMA NearArm ==
  ASSUME RetrievalTypes
  PROVE  /\ Arm(KnnDocs) /\ Len(KnnDocs) <= CANDIDATES
         /\ near = <<>> => KnnDocs = <<>>
<1> DEFINE k == IF scope = Everywhere THEN 2 * CANDIDATES ELSE KNN_LIMIT
           r == Top(near, k)
           a == InScope(r)
           b == Distinct(a)
           c == Top(b, CANDIDATES)
<1>1. k \in Nat /\ CANDIDATES \in Nat
  BY Sizes
<1>2. KnnDocs = c
  BY DEF KnnDocs
<1> HIDE DEF k
<1>3. r \in Seq(Docs) /\ Len(r) <= Len(near) /\ Len(near) \in Nat
  BY <1>1, TopRows DEF RetrievalTypes
<1> HIDE DEF r
<1>4. a \in Seq(Docs) /\ AllInScope(a) /\ Among(a, r)
  BY <1>3, InScopeRows
<1> HIDE DEF a
<1>5. b \in Seq(Docs) /\ Once(b) /\ AllInScope(b) /\ Among(b, a)
  BY <1>4, DistinctRows, AmongInScope
<1> HIDE DEF b
<1>6. Arm(c) /\ Among(c, b) /\ Len(c) <= CANDIDATES
  BY <1>1, <1>5, TopArm, TopRows DEF Arm
<1>7. ASSUME near = <<>> PROVE c = <<>>
  <2>1. Len(r) = 0
    BY <1>3, <1>7, LenProperties
  <2> HIDE DEF c
  <2>2. /\ Len(a) \in Nat /\ Len(b) \in Nat /\ Len(c) \in Nat /\ c \in Seq(Docs)
    BY <1>4, <1>5, <1>6, LenProperties DEF Arm
  <2>3. Len(a) = 0
    BY <1>4, <2>1, <2>2 DEF Among
  <2>4. Len(b) = 0
    BY <1>5, <2>2, <2>3 DEF Among
  <2>5. Len(c) = 0
    BY <1>6, <2>2, <2>4 DEF Among
  <2> QED BY <2>2, <2>5, EmptyHasNoRows
<1> QED BY <1>2, <1>6, <1>7

(***************************************************************************)
(* Retrieval: the scores and their order.                                  *)
(***************************************************************************)

LEMMA Quotients ==
  ASSUME NEW n \in Nat, NEW a \in Nat \ {0}, NEW b \in Nat \ {0}, a <= b
  PROVE  n \div a \in Nat /\ n \div b <= n \div a
<1> DEFINE p == n \div a
           q == n \div b
<1>1. p \in Nat /\ q \in Nat
  OBVIOUS
<1>2. b * q <= n /\ n < a * (p + 1)
  OBVIOUS
<1>3. a * q <= b * q
  BY <1>1
<1>4. a * q < a * (p + 1)
  BY <1>1, <1>2, <1>3
<1>5. ~ (p + 1 <= q)
  BY <1>1, <1>4
<1> QED BY <1>1, <1>5

LEMMA Shares ==
  ASSUME NEW r \in Nat
  PROVE  /\ Share(r) \in Nat
         /\ Share(0) = 0
         /\ \A s \in Nat \ {0} : s <= r => Share(r) <= Share(s)
<1>1. ASSUME NEW s \in Nat \ {0} PROVE Share(s) = RRF_WHOLE \div (RRF_K + s)
  BY DEF Share
<1>2. Share(0) = 0
  BY DEF Share
<1>3. \A s \in Nat : RRF_K + s \in Nat \ {0}
  BY Sizes
<1>4. Share(r) \in Nat
  BY <1>1, <1>2, <1>3, Quotients, Sizes
<1>5. ASSUME NEW s \in Nat \ {0}, s <= r PROVE Share(r) <= Share(s)
  <2>1. r \in Nat \ {0} /\ RRF_K + s <= RRF_K + r
    BY <1>5, Sizes
  <2>2. RRF_WHOLE \div (RRF_K + r) <= RRF_WHOLE \div (RRF_K + s)
    BY <1>3, <2>1, Quotients, Sizes
  <2> QED BY <1>1, <2>1, <2>2
<1> QED BY <1>2, <1>4, <1>5

LEMMA Ranks ==
  ASSUME NEW s, Arm(s), NEW d
  PROVE  /\ Rank(s, d) \in 0 .. Len(s)
         /\ Contains(s, d) <=> d \in ToSet(s)
         /\ Contains(s, d) <=> Rank(s, d) # 0
         /\ Contains(s, d) => s[Rank(s, d)] = d
         /\ \A i \in 1 .. Len(s) : s[i] = d => Rank(s, d) = i
<1>1. DOMAIN s = 1 .. Len(s) /\ Len(s) \in Nat
  BY LenProperties DEF Arm
<1>2. Contains(s, d) <=> d \in ToSet(s)
  BY <1>1 DEF Contains, ToSet
<1>3. Contains(s, d) => Rank(s, d) \in 1 .. Len(s) /\ s[Rank(s, d)] = d
  <2> SUFFICES ASSUME Contains(s, d)
               PROVE  Rank(s, d) \in 1 .. Len(s) /\ s[Rank(s, d)] = d
    OBVIOUS
  <2>1. \E i \in DOMAIN s : s[i] = d
    BY <1>1 DEF Contains
  <2>2. Rank(s, d) = CHOOSE i \in DOMAIN s : s[i] = d
    BY DEF Rank
  <2> QED BY <1>1, <2>1, <2>2
<1>4. ~ Contains(s, d) => Rank(s, d) = 0
  BY DEF Rank
<1>5. ASSUME NEW i \in 1 .. Len(s), s[i] = d PROVE Rank(s, d) = i
  <2>1. Contains(s, d)
    BY <1>5 DEF Contains
  <2> QED BY <1>3, <1>5, <2>1 DEF Arm, Once
<1> QED BY <1>1, <1>2, <1>3, <1>4, <1>5

Found(lex, vec) == ToSet(lex) \cup ToSet(vec)

ByScore(lex, vec) ==
  {p \in Found(lex, vec) \X Found(lex, vec) : Before(lex, vec, p[1], p[2])}

LEMMA FoundSet ==
  ASSUME NEW lex, Arm(lex), NEW vec, Arm(vec)
  PROVE  /\ IsFiniteSet(Found(lex, vec)) /\ Cardinality(Found(lex, vec)) \in Nat
         /\ Found(lex, vec) \subseteq Docs
         /\ \A d \in Found(lex, vec) : scope \in {Everywhere, d.source}
<1>1. ASSUME NEW s, Arm(s)
      PROVE  /\ IsFiniteSet(ToSet(s)) /\ ToSet(s) \subseteq Docs
             /\ \A d \in ToSet(s) : scope \in {Everywhere, d.source}
  <2>1. /\ DOMAIN s = 1 .. Len(s) /\ Len(s) \in Nat
        /\ \A i \in 1 .. Len(s) : s[i] \in Docs
    BY <1>1, LenProperties DEF Arm
  <2>2. s \in Surjection(1 .. Len(s), ToSet(s))
    BY <1>1, <2>1, LenProperties DEF Surjection, ToSet, Arm
  <2>3. IsFiniteSet(ToSet(s))
    BY <2>1, <2>2, FS_NatSurjection DEF ExistsSurjection
  <2> QED BY <1>1, <2>1, <2>3 DEF ToSet, Arm, AllInScope
<1>2. IsFiniteSet(Found(lex, vec))
  BY <1>1, FS_Union DEF Found
<1> QED BY <1>1, <1>2, FS_CardinalityType DEF Found

LEMMA ScoreType ==
  ASSUME NEW lex, Arm(lex), NEW vec, Arm(vec), NEW d
  PROVE  Score(lex, vec, d) \in Nat
<1>1. Rank(lex, d) \in Nat /\ Rank(vec, d) \in Nat
  BY Ranks, LenProperties DEF Arm
<1>2. Share(Rank(lex, d)) \in Nat /\ Share(Rank(vec, d)) \in Nat
  BY <1>1, Shares
<1> QED BY <1>2 DEF Score

LEMMA ScoreOrders ==
  ASSUME NEW lex, Arm(lex), NEW vec, Arm(vec)
  PROVE  StrictOrder(Found(lex, vec), ByScore(lex, vec))
<1> DEFINE S == Found(lex, vec)
           x(d) == Score(lex, vec, d)
           r(d) == Rank(lex, d)
           in(d) == Contains(lex, d)
<1>1. \A d : x(d) \in Nat /\ r(d) \in Nat
  BY ScoreType, Ranks, LenProperties DEF Arm
<1>2. \A d, e : in(d) /\ in(e) /\ r(d) = r(e) => d = e
  <2> SUFFICES ASSUME NEW d, NEW e, in(d), in(e), r(d) = r(e) PROVE d = e
    OBVIOUS
  <2>1. lex[r(d)] = d /\ lex[r(e)] = e
    BY Ranks
  <2> QED BY <2>1
<1>3. \A d \in S : d.num \in Nat
  BY FoundSet, RetrievalAssumption DEF RetrievalAssumption
<1>4. \A d, e \in S : d.num = e.num => d = e
  BY FoundSet, RetrievalAssumption DEF RetrievalAssumption
<1>5. \A d, e \in S :
        <<d, e>> \in ByScore(lex, vec) <=>
          \/ x(d) > x(e)
          \/ x(d) = x(e) /\ in(d) /\ (~ in(e) \/ r(d) < r(e))
          \/ x(d) = x(e) /\ ~ in(d) /\ ~ in(e) /\ d.num < e.num
  BY DEF ByScore, Before
<1> HIDE DEF S, x, r, in
<1>6. \A d \in S : <<d, d>> \notin ByScore(lex, vec)
  BY <1>1, <1>3, <1>5
<1>7. \A d, e \in S : d = e \/ <<d, e>> \in ByScore(lex, vec) \/ <<e, d>> \in ByScore(lex, vec)
  <2> SUFFICES ASSUME NEW d \in S, NEW e \in S, d # e
               PROVE  <<d, e>> \in ByScore(lex, vec) \/ <<e, d>> \in ByScore(lex, vec)
    OBVIOUS
  <2>1. CASE x(d) # x(e)
    BY <1>1, <1>5, <2>1
  <2>2. CASE x(d) = x(e) /\ in(d) /\ in(e)
    <3>1. r(d) # r(e)
      BY <1>2, <2>2
    <3>2. r(d) < r(e) \/ r(e) < r(d)
      BY <1>1, <3>1
    <3> QED BY <1>5, <2>2, <3>2
  <2>3. CASE x(d) = x(e) /\ ~ in(d) /\ ~ in(e)
    <3>1. d.num < e.num \/ e.num < d.num
      BY <1>3, <1>4
    <3> QED BY <1>5, <2>3, <3>1
  <2>4. CASE x(d) = x(e) /\ (in(d) <=> ~ in(e))
    BY <1>5, <2>4
  <2> QED BY <2>1, <2>2, <2>3, <2>4
<1>8. ASSUME NEW d \in S, NEW e \in S, NEW f \in S,
             <<d, e>> \in ByScore(lex, vec), <<e, f>> \in ByScore(lex, vec)
      PROVE  <<d, f>> \in ByScore(lex, vec)
  BY <1>1, <1>3, <1>5, <1>8
<1> QED BY <1>6, <1>7, <1>8 DEF StrictOrder, S

LEMMA SameRows ==
  ASSUME NEW D, NEW s \in Seq(D), NEW t \in Seq(D), Len(s) = Len(t),
         \A i \in 1 .. Len(s) : s[i] = t[i]
  PROVE  s = t
OBVIOUS

(* With nothing near, the ranking by score is the ranking by words.        *)
LEMMA LexicalAlone ==
  ASSUME NEW lex, Arm(lex), Arm(<<>>)
  PROVE  InOrder(Found(lex, <<>>), ByScore(lex, <<>>)) = lex
<1> DEFINE S == Found(lex, <<>>)
           R == ByScore(lex, <<>>)
           n == Len(lex)
<1>1. DOMAIN lex = 1 .. n /\ n \in Nat /\ lex \in Seq(Docs)
  BY LenProperties DEF Arm
<1>2. S = ToSet(lex)
  BY DEF Found, ToSet
<1>3. StrictOrder(S, R) /\ IsFiniteSet(S)
  BY ScoreOrders, FoundSet
<1>4. \A i \in 1 .. n : lex[i] \in S
  BY <1>1, <1>2 DEF ToSet
<1>5. Cardinality(S) = n
  <2>1. lex \in Bijection(1 .. n, S)
    BY <1>1, <1>2, <1>4, LenProperties
       DEF Arm, Once, Bijection, Injection, Surjection, IsInjective, ToSet
  <2> HIDE DEF S
  <2> QED BY <1>1, <2>1, FS_CountingElements DEF ExistsBijection
<1>6. ASSUME NEW i \in 1 .. n PROVE Score(lex, <<>>, lex[i]) = Share(i) /\ Rank(lex, lex[i]) = i
  <2>1. Rank(lex, lex[i]) = i
    BY Ranks
  <2>2. Rank(<<>>, lex[i]) = 0
    BY DEF Rank, Contains
  <2>3. Share(i) \in Nat /\ Share(0) = 0
    BY Shares
  <2> QED BY <2>1, <2>2, <2>3 DEF Score
<1>7. ASSUME NEW i \in 1 .. n, NEW j \in 1 .. n, i < j PROVE <<lex[i], lex[j]>> \in R
  <2>1. Share(j) <= Share(i) /\ Share(i) \in Nat /\ Share(j) \in Nat
    BY <1>7, Shares
  <2>2. Contains(lex, lex[i])
    BY DEF Contains
  <2>3. Before(lex, <<>>, lex[i], lex[j])
    BY <1>6, <1>7, <2>1, <2>2 DEF Before
  <2> QED BY <1>4, <2>3 DEF ByScore
<1>8. ASSUME NEW i \in 1 .. n, NEW j \in 1 .. n, <<lex[i], lex[j]>> \in R PROVE i < j
  <2> SUFFICES ASSUME ~ (i < j) PROVE FALSE
    OBVIOUS
  <2> HIDE DEF S, R
  <2>1. <<lex[i], lex[i]>> \in R
    <3>1. CASE i = j
      BY <1>8, <3>1
    <3>2. CASE j < i
      <4>1. <<lex[j], lex[i]>> \in R
        BY <1>7, <3>2
      <4> QED BY <1>3, <1>4, <1>8, <4>1 DEF StrictOrder
    <3> QED BY <3>1, <3>2
  <2> QED BY <1>3, <1>4, <2>1 DEF StrictOrder
<1>9. Sorts(lex, S, R)
  <2> HIDE DEF R
  <2>1. lex \in [1 .. Cardinality(S) -> S]
    BY <1>1, <1>4, <1>5, LenProperties
  <2>2. \A x \in S : \E i \in DOMAIN lex : lex[i] = x
    BY <1>2 DEF ToSet
  <2> HIDE DEF S
  <2> QED BY <1>1, <1>7, <1>8, <2>1, <2>2 DEF Sorts
<1> HIDE DEF S, R
<1>10. lex = InOrder(S, R)
  BY <1>3, <1>9, SortedOnce
<1> QED BY <1>10 DEF S, R

LEMMA TopOfTop ==
  ASSUME NEW D, NEW s \in Seq(D), NEW m \in Nat, NEW n \in Nat, m <= n
  PROVE  Top(Top(s, n), m) = Top(s, m)
<1> DEFINE t == Top(s, n)
           u == Top(t, m)
           v == Top(s, m)
<1>1. /\ t \in Seq(D) /\ Len(s) \in Nat
      /\ Len(t) = Least(n, Len(s))
      /\ \A i \in 1 .. Len(t) : t[i] = s[i]
  BY TopRows
<1> HIDE DEF t
<1>2. /\ u \in Seq(D) /\ Len(t) \in Nat
      /\ Len(u) = Least(m, Len(t)) /\ Len(u) <= Len(t)
      /\ \A i \in 1 .. Len(u) : u[i] = t[i]
  BY <1>1, TopRows
<1>3. /\ v \in Seq(D)
      /\ Len(v) = Least(m, Len(s))
      /\ \A i \in 1 .. Len(v) : v[i] = s[i]
  BY TopRows
<1> HIDE DEF u, v
<1>4. Len(u) = Len(v) /\ Len(u) \in Nat
  BY <1>1, <1>2, <1>3, LenProperties DEF Least
<1>5. \A i \in 1 .. Len(u) : u[i] = v[i]
  BY <1>1, <1>2, <1>3, <1>4
<1>6. u = v
  BY <1>2, <1>3, <1>4, <1>5, SameRows
<1> QED BY <1>6 DEF t, u, v

(* What the property says of an answer.                                    *)
Fair(hits, lex, vec, limit) ==
  /\ IsInjective(hits)
  /\ Len(hits) = Least(limit, Cardinality(Found(lex, vec)))
  /\ \A d \in ToSet(hits) : scope \in {Everywhere, d.source}
  /\ \A d \in ToSet(hits), e \in ToSet(lex) :
       (~ Contains(lex, d) /\ Rank(lex, e) <= Rank(vec, d))
         => Contains(hits, e) /\ Rank(hits, e) < Rank(hits, d)
  /\ \A d \in ToSet(hits) :
       Cardinality({e \in ToSet(hits) : /\ Contains(lex, e)
                                        /\ ThreadOf(e) = ThreadOf(d)}) <= THREAD_CAP

LEMMA HitsFirst ==
  ASSUME NEW lex, Arm(lex), FewPerThread(lex), NEW vec, Arm(vec), NEW limit \in Nat,
         NEW hits, hits = Top(InOrder(Found(lex, vec), ByScore(lex, vec)), limit)
  PROVE  Fair(hits, lex, vec, limit)
<1> DEFINE S == Found(lex, vec)
           R == ByScore(lex, vec)
           q == InOrder(S, R)
<1>1. /\ IsFiniteSet(S) /\ Cardinality(S) \in Nat /\ S \subseteq Docs
      /\ \A d \in S : scope \in {Everywhere, d.source}
  BY FoundSet
<1>2. StrictOrder(S, R)
  BY ScoreOrders
<1>3. Sorts(q, S, R) /\ \A i, j \in DOMAIN q : q[i] = q[j] => i = j
  <2> HIDE DEF S, R
  <2> QED BY <1>1, <1>2, InOrderSorts
<1> HIDE DEF S, R, q
<1>4. q \in [1 .. Cardinality(S) -> S]
  BY <1>3 DEF Sorts
<1>5. q \in Seq(Docs) /\ Len(q) = Cardinality(S) /\ DOMAIN q = 1 .. Len(q)
  BY <1>1, <1>4
<1>6. Arm(q)
  BY <1>1, <1>3, <1>4, <1>5 DEF Arm, Once, AllInScope
<1>7. hits = Top(q, limit)
  BY DEF q, S, R
<1>8. /\ Arm(hits) /\ DOMAIN hits = 1 .. Len(hits) /\ Len(hits) \in Nat
      /\ Len(hits) = Least(limit, Len(q)) /\ Len(hits) <= Len(q)
      /\ \A i \in 1 .. Len(hits) : hits[i] = q[i]
  <2>1. Arm(Top(q, limit))
    BY <1>6, TopArm
  <2>2. /\ Len(Top(q, limit)) = Least(limit, Len(q)) /\ Len(Top(q, limit)) <= Len(q)
        /\ \A i \in 1 .. Len(Top(q, limit)) : Top(q, limit)[i] = q[i]
    BY <1>5, TopRows
  <2>3. hits \in Seq(Docs)
    BY <1>7, <2>1 DEF Arm
  <2>4. DOMAIN hits = 1 .. Len(hits) /\ Len(hits) \in Nat
    BY <2>3, LenProperties
  <2> QED BY <1>7, <2>1, <2>2, <2>4
<1>9. IsInjective(hits)
  BY <1>8 DEF Arm, Once, IsInjective
<1>10. \A d \in ToSet(hits) : scope \in {Everywhere, d.source}
  BY <1>8 DEF Arm, AllInScope, ToSet
<1>11. ASSUME NEW d \in ToSet(hits), NEW e \in ToSet(lex),
              ~ Contains(lex, d), Rank(lex, e) <= Rank(vec, d)
       PROVE  Contains(hits, e) /\ Rank(hits, e) < Rank(hits, d)
  <2>1. PICK i \in 1 .. Len(hits) : hits[i] = d
    BY <1>8 DEF ToSet
  <2>2. d \in S /\ e \in S /\ q[i] = d /\ i \in DOMAIN q
    <3>1. i \in 1 .. Len(q) /\ q[i] = d
      BY <1>5, <1>8, <2>1
    <3>2. d \in S
      BY <1>4, <1>5, <3>1
    <3> QED BY <1>5, <3>1, <3>2 DEF S, Found
  <2>3. PICK j \in DOMAIN q : q[j] = e
    BY <1>3, <2>2 DEF Sorts
  <2>4. Contains(lex, e) /\ Rank(lex, e) # 0 /\ Rank(lex, e) \in Nat
    BY Ranks, LenProperties DEF Arm
  <2>5. /\ Rank(lex, d) = 0 /\ Rank(vec, d) \in Nat /\ Rank(vec, e) \in Nat
    BY <1>11, Ranks, LenProperties DEF Arm
  <2>6. Score(lex, vec, e) >= Score(lex, vec, d)
    <3>1. /\ Share(Rank(vec, d)) <= Share(Rank(lex, e)) /\ Share(0) = 0
          /\ Share(Rank(vec, d)) \in Nat /\ Share(Rank(lex, e)) \in Nat
          /\ Share(Rank(vec, e)) \in Nat
      BY <1>11, <2>4, <2>5, Shares
    <3> QED BY <2>5, <3>1 DEF Score
  <2>7. Before(lex, vec, e, d)
    <3>1. Score(lex, vec, e) \in Nat /\ Score(lex, vec, d) \in Nat
      BY ScoreType
    <3> QED BY <1>11, <2>4, <2>6, <3>1 DEF Before
  <2>8. <<q[j], q[i]>> \in R
    BY <2>2, <2>3, <2>7 DEF R, S, ByScore
  <2>9. j < i
    BY <1>3, <2>2, <2>3, <2>8 DEF Sorts
  <2>10. j \in 1 .. Len(hits) /\ hits[j] = e
    BY <1>5, <1>8, <2>1, <2>3, <2>9
  <2>11. Rank(hits, e) = j /\ Rank(hits, d) = i
    BY <1>8, <2>1, <2>10, Ranks
  <2> QED BY <2>9, <2>10, <2>11 DEF Contains
<1>12. ASSUME NEW d \in ToSet(hits)
       PROVE  Cardinality({e \in ToSet(hits) : /\ Contains(lex, e)
                                               /\ ThreadOf(e) = ThreadOf(d)}) <= THREAD_CAP
  <2> DEFINE A == {e \in ToSet(hits) : Contains(lex, e) /\ ThreadOf(e) = ThreadOf(d)}
             B == {e \in ToSet(lex) : ThreadOf(e) = ThreadOf(d)}
  <2>1. A \in SUBSET B
    BY Ranks
  <2>2. IsFiniteSet(B) /\ Cardinality(B) <= THREAD_CAP
    BY DEF FewPerThread
  <2> HIDE DEF A, B
  <2>3. /\ Cardinality(A) <= Cardinality(B) /\ IsFiniteSet(A)
        /\ Cardinality(A) \in Nat /\ Cardinality(B) \in Nat
    BY <2>1, <2>2, FS_Subset, FS_CardinalityType
  <2>4. Cardinality(A) <= THREAD_CAP
    BY <2>2, <2>3, Sizes
  <2> QED BY <2>4 DEF A
<1>13. Len(hits) = Least(limit, Cardinality(Found(lex, vec)))
  BY <1>5, <1>8 DEF S
<1> QED BY <1>9, <1>10, <1>11, <1>12, <1>13 DEF Fair

LEMMA Ranking ==
  ASSUME RetrievalTypes
  PROVE  ExactHitsFirst
<1> DEFINE lex == SearchScoped(CANDIDATES)
           vec == KnnDocs
<1>1. Arm(lex) /\ FewPerThread(lex) /\ Arm(vec) /\ (near = <<>> => vec = <<>>)
  BY LexicalArm, NearArm
<1> SUFFICES ASSUME NEW limit \in Limits
             PROVE  LET hits == HybridSearch(limit)
                    IN  /\ IsInjective(hits)
                        /\ Len(hits) = Least(limit, Cardinality(ToSet(lex) \cup ToSet(vec)))
                        /\ \A d \in ToSet(hits) : scope \in {Everywhere, d.source}
                        /\ near = <<>> => hits = SearchScoped(limit)
                        /\ \A d \in ToSet(hits), e \in ToSet(lex) :
                             (~ Contains(lex, d) /\ Rank(lex, e) <= Rank(vec, d))
                               => Contains(hits, e) /\ Rank(hits, e) < Rank(hits, d)
                        /\ \A d \in ToSet(hits) :
                             Cardinality({e \in ToSet(hits) :
                                            /\ Contains(lex, e)
                                            /\ ThreadOf(e) = ThreadOf(d)}) <= THREAD_CAP
  BY DEF ExactHitsFirst
<1> DEFINE hits == HybridSearch(limit)
<1>2. limit \in Nat /\ limit <= CANDIDATES /\ CANDIDATES \in Nat
  BY Sizes
<1>3. hits = Top(InOrder(Found(lex, vec), ByScore(lex, vec)), limit)
  BY DEF HybridSearch, Found, ByScore
<1>4. ASSUME near = <<>> PROVE hits = SearchScoped(limit)
  <2>1. hits = Top(lex, limit)
    <3> HIDE DEF lex, vec, hits
    <3> QED BY <1>1, <1>3, <1>4, LexicalAlone
  <2>2. lex = Top(Ranked, CANDIDATES) /\ SearchScoped(limit) = Top(Ranked, limit)
    BY DEF SearchScoped, Ranked
  <2>3. Ranked \in Seq(Docs)
    BY RankedArm DEF Arm
  <2> HIDE DEF lex, hits
  <2> QED BY <1>2, <2>1, <2>2, <2>3, TopOfTop
<1>5. Found(lex, vec) = ToSet(lex) \cup ToSet(vec)
  BY DEF Found
<1>6. Fair(hits, lex, vec, limit)
  <2> HIDE DEF lex, vec, hits
  <2> QED BY <1>1, <1>2, <1>3, HitsFirst
<1> QED BY <1>4, <1>5, <1>6, Zenon DEF Fair

LEMMA RetrievalStep ==
  ASSUME RetrievalTypes, [AnotherMatch \/ AnotherNeighbour]_retrievalVars
  PROVE  RetrievalTypes'
<1>1. Scopes' = Scopes
  BY DEF Scopes
<1>2. CASE AnotherMatch
  <2>1. PICK d \in Docs : lexical' = Append(lexical, d)
    BY <1>2 DEF AnotherMatch
  <2>2. lexical' \in Seq(Docs)
    BY <2>1, AppendProperties DEF RetrievalTypes
  <2> QED BY <1>1, <1>2, <2>2 DEF RetrievalTypes, AnotherMatch
<1>3. CASE AnotherNeighbour
  <2>1. PICK d \in Docs : near' = Append(near, d)
    BY <1>3 DEF AnotherNeighbour
  <2>2. near' \in Seq(Docs)
    BY <2>1, AppendProperties DEF RetrievalTypes
  <2> QED BY <1>1, <1>3, <2>2 DEF RetrievalTypes, AnotherNeighbour
<1>4. CASE UNCHANGED retrievalVars
  BY <1>1, <1>4 DEF RetrievalTypes, retrievalVars
<1> QED BY <1>2, <1>3, <1>4

(* Whatever the words and the distances rank: an exact hit is not          *)
(* displaced by what is only near, nothing is twice in an answer or out of *)
(* its scope, and no thread floods it; for limits up to CANDIDATES         *)
(* (RetrievalAssumption).                                                  *)
THEOREM ExactHitsStayFirst == RetrievalSpec => []ExactHitsFirst
<1>1. RetrievalInit => RetrievalTypes
  BY DEF RetrievalInit, RetrievalTypes
<1>2. RetrievalTypes /\ [AnotherMatch \/ AnotherNeighbour]_retrievalVars => RetrievalTypes'
  BY RetrievalStep
<1>3. RetrievalTypes => ExactHitsFirst
  BY Ranking
<1> QED BY <1>1, <1>2, <1>3, PTL DEF RetrievalSpec

(***************************************************************************)
(* CorpusTools: the corpus and its threads.                                *)
(***************************************************************************)

LEMMA ToolSizes ==
  /\ OP_MAX_CHARS \in Nat \ {0} /\ NEIGHBOR_MAX_CHARS \in Nat \ {0}
  /\ REPLY_PAGE \in Nat \ {0} /\ MAX_CONTEXT \in Nat
  /\ DEFAULT_BEFORE \in Nat /\ DEFAULT_AFTER \in Nat
  /\ Befores \subseteq Nat /\ Offsets \subseteq Nat /\ None \notin Nat /\ None # "typo"
BY ToolsAssumption DEF ToolsAssumption

LEMMA CorpusFacts ==
  ASSUME corpus \in Corpora
  PROVE  /\ IsFiniteSet(corpus)
         /\ \A d \in corpus : /\ d.id \in Nat \ {0} /\ d.size \in Nat
                              /\ d.number \in Nat \cup {None} /\ d.topic \in Nat \cup {None}
                              /\ d.source # None /\ d.source # "typo"
                              /\ d.id \in Ids /\ Doc(d.id) = d
         /\ \A id \in Ids : Doc(id) \in corpus /\ Doc(id).id = id
         /\ Ids \subseteq Nat \ {0}
<1>1. /\ IsFiniteSet(corpus)
      /\ \A d \in corpus : /\ d.id \in Nat \ {0} /\ d.size \in Nat
                           /\ d.number \in Nat \cup {None} /\ d.topic \in Nat \cup {None}
                           /\ d.source \notin {None, "typo"}
      /\ \A d, e \in corpus : d.id = e.id => d = e
  BY ToolsAssumption DEF ToolsAssumption
<1>2. \A id \in Ids : Doc(id) \in corpus /\ Doc(id).id = id
  BY DEF Ids, Doc
<1>3. \A d \in corpus : d.id \in Ids
  BY DEF Ids
<1>4. \A d \in corpus : Doc(d.id) = d
  BY <1>1, <1>2, <1>3
<1> QED BY <1>1, <1>2, <1>3, <1>4 DEF Ids

LEMMA MinOfTwo ==
  ASSUME NEW a \in Int, NEW b \in Int
  PROVE  Min({a, b}) = IF a <= b THEN a ELSE b
<1>1. \E x \in {a, b} : \A y \in {a, b} : x <= y
  OBVIOUS
<1>2. Min({a, b}) \in {a, b} /\ \A y \in {a, b} : Min({a, b}) <= y
  BY <1>1 DEF Min
<1> QED BY <1>2

LEMMA ThreadRows ==
  ASSUME corpus \in Corpora, NEW topic, NEW source
  PROVE  /\ Thread(topic, source) \in Seq(Posts(topic, source))
         /\ Len(Thread(topic, source)) = Cardinality(Posts(topic, source))
         /\ \A d \in Posts(topic, source) :
              \E i \in 1 .. Len(Thread(topic, source)) : Thread(topic, source)[i] = d
         /\ ToSet(Thread(topic, source)) = Posts(topic, source)
         /\ \A i, j \in 1 .. Len(Thread(topic, source)) :
              Thread(topic, source)[i] = Thread(topic, source)[j] => i = j
<1> DEFINE posts == Posts(topic, source)
           before(d, e) ==
             \/ d.number = e.number /\ d.id < e.id
             \/ /\ d.number # None /\ d.number # e.number
                /\ e.number = None \/ d.number < e.number
           R == {p \in posts \X posts : before(p[1], p[2])}
           s == Thread(topic, source)
           n == Cardinality(posts)
<1>1. posts \subseteq corpus /\ IsFiniteSet(posts) /\ n \in Nat
  <2>1. posts \in SUBSET corpus
    BY DEF Posts
  <2> HIDE DEF posts
  <2> QED BY <2>1, CorpusFacts, FS_Subset, FS_CardinalityType
<1>2. \A d \in posts : d.id \in Nat /\ d.number \in Nat \cup {None}
  BY <1>1, CorpusFacts
<1>3. \A d, e \in posts : d.id = e.id => d = e
  BY <1>1, CorpusFacts
<1>4. \A d, e \in posts : <<d, e>> \in R <=> before(d, e)
  OBVIOUS
<1> HIDE DEF R, posts
<1>5. StrictOrder(posts, R)
  <2>1. \A d \in posts : ~ before(d, d)
    BY <1>2
  <2>2. \A d, e, f \in posts : before(d, e) /\ before(e, f) => before(d, f)
    BY <1>2, ToolSizes
  <2>3. \A d, e \in posts : d = e \/ before(d, e) \/ before(e, d)
    <3> SUFFICES ASSUME NEW d \in posts, NEW e \in posts, d # e
                 PROVE  before(d, e) \/ before(e, d)
      OBVIOUS
    <3>1. d.id < e.id \/ e.id < d.id
      BY <1>2, <1>3
    <3> QED BY <1>2, <3>1, ToolSizes
  <2> HIDE DEF before
  <2> QED BY <1>4, <2>1, <2>2, <2>3 DEF StrictOrder
<1>6. s = InOrder(posts, R)
  BY DEF Thread, R, posts
<1> HIDE DEF s
<1>7. Sorts(s, posts, R) /\ \A i, j \in DOMAIN s : s[i] = s[j] => i = j
  BY <1>1, <1>5, <1>6, InOrderSorts
<1>8. s \in [1 .. n -> posts]
  BY <1>7 DEF Sorts
<1>9. s \in Seq(posts) /\ Len(s) = n /\ DOMAIN s = 1 .. Len(s)
  BY <1>1, <1>8
<1>10. \A d \in posts : \E i \in 1 .. Len(s) : s[i] = d
  BY <1>7, <1>9 DEF Sorts
<1>11. ToSet(s) = posts
  BY <1>8, <1>9, <1>10 DEF ToSet
<1> QED BY <1>7, <1>9, <1>10, <1>11 DEF s, posts

(***************************************************************************)
(* CorpusTools: what a call is answered.                                   *)
(***************************************************************************)

ContextCalls == [tool : {"context"}, doc : Nat, before : Nat, after : Nat, offset : Nat]

Neighbours(d) == IF d.topic = None THEN {d} ELSE Posts(d.topic, d.source)

(* A page of text of some documents, whose hints are calls for them.       *)
TextOf(page, documents) ==
  \A i \in DOMAIN page.text :
    \E d \in documents : page.text[i].id = d.id /\ page.text[i].chars \subseteq 0 .. d.size - 1

HintsAt(hints, documents) ==
  \A h \in hints : h \in ContextCalls /\ \E d \in documents : h.doc = d.id

Shows(page, part) == \E i \in DOMAIN page.text : page.text[i] = part

LEMMA ContextCallType ==
  ASSUME NEW id \in Nat, NEW n \in Nat, NEW m \in Nat, NEW offset \in Nat
  PROVE  /\ ContextCall(id, n, m, offset) \in ContextCalls
         /\ ContextCall(id, n, m, offset).doc = id
         /\ ContextCall(id, n, m, offset).offset = offset
         /\ ContextCall(id, n, m, offset).tool = "context"
BY DEF ContextCall, ContextCalls

LEMMA ContextType ==
  ASSUME NEW id \in Nat
  PROVE  /\ Context(id) \in ContextCalls
         /\ Context(id).doc = id /\ Context(id).offset = 0 /\ Context(id).tool = "context"
BY ContextCallType, ToolSizes DEF Context

LEMMA Windows ==
  ASSUME corpus \in Corpora, NEW d \in corpus, NEW offset \in Nat
  PROVE  /\ Window(d, offset).id = d.id
         /\ Window(d, offset).chars \subseteq 0 .. d.size - 1
         /\ HintsAt(WindowHints(d, offset), {d})
         /\ offset + OP_MAX_CHARS < d.size =>
              /\ Window(d, offset).chars = offset .. offset + OP_MAX_CHARS - 1
              /\ WindowHints(d, offset) =
                   {ContextCall(d.id, DEFAULT_BEFORE, DEFAULT_AFTER, offset + OP_MAX_CHARS)}
         /\ ~ (offset + OP_MAX_CHARS < d.size) => Window(d, offset).chars = offset .. d.size - 1
<1>1. d.size \in Nat /\ d.id \in Nat /\ OP_MAX_CHARS \in Nat \ {0}
  BY CorpusFacts, ToolSizes
<1>2. ShownEnd(d, offset) = IF offset + OP_MAX_CHARS <= d.size THEN offset + OP_MAX_CHARS ELSE d.size
  BY <1>1, MinOfTwo DEF ShownEnd
<1>3. Window(d, offset).id = d.id /\ Window(d, offset).chars = offset .. ShownEnd(d, offset) - 1
  BY DEF Window, Part
<1>4. Window(d, offset).chars \subseteq 0 .. d.size - 1
  BY <1>1, <1>2, <1>3
<1>5. ASSUME offset + OP_MAX_CHARS < d.size
      PROVE  /\ Window(d, offset).chars = offset .. offset + OP_MAX_CHARS - 1
             /\ WindowHints(d, offset) =
                  {ContextCall(d.id, DEFAULT_BEFORE, DEFAULT_AFTER, offset + OP_MAX_CHARS)}
  <2>1. ShownEnd(d, offset) = offset + OP_MAX_CHARS
    BY <1>1, <1>2, <1>5
  <2>2. WindowHints(d, offset) =
          {ContextCall(d.id, DEFAULT_BEFORE, DEFAULT_AFTER, ShownEnd(d, offset))}
    BY <1>5, <2>1 DEF WindowHints
  <2>3. Window(d, offset).chars = offset .. offset + OP_MAX_CHARS - 1
    BY <1>1, <1>3, <2>1
  <2> QED BY <2>1, <2>2, <2>3, Zenon
<1>6. ASSUME ~ (offset + OP_MAX_CHARS < d.size)
      PROVE  /\ Window(d, offset).chars = offset .. d.size - 1
             /\ WindowHints(d, offset) = {}
  <2>1. ShownEnd(d, offset) = d.size
    BY <1>1, <1>2, <1>6
  <2> QED BY <1>1, <1>3, <2>1 DEF WindowHints
<1>7. HintsAt(WindowHints(d, offset), {d})
  <2>1. CASE offset + OP_MAX_CHARS < d.size
    <3> DEFINE n == offset + OP_MAX_CHARS
               c == ContextCall(d.id, DEFAULT_BEFORE, DEFAULT_AFTER, n)
    <3>1. n \in Nat
      BY <1>1
    <3>2. c \in ContextCalls /\ c.doc = d.id
      <4> HIDE DEF n
      <4> QED BY <1>1, <3>1, ToolSizes DEF ContextCall, ContextCalls
    <3>3. WindowHints(d, offset) = {c}
      BY <1>5, <2>1
    <3> HIDE DEF c
    <3> QED BY <3>2, <3>3 DEF HintsAt
  <2>2. CASE ~ (offset + OP_MAX_CHARS < d.size)
    BY <1>6, <2>2 DEF HintsAt
  <2> QED BY <2>1, <2>2
<1> QED BY <1>3, <1>4, <1>5, <1>6, <1>7

LEMMA NextWindow ==
  ASSUME corpus \in Corpora, NEW d \in corpus, NEW offset \in Nat,
         offset + OP_MAX_CHARS < d.size
  PROVE  \E c \in WindowHints(d, offset) :
           c \in ContextCalls /\ c.doc = d.id /\ c.offset = offset + OP_MAX_CHARS
<1> DEFINE n == offset + OP_MAX_CHARS
           c == ContextCall(d.id, DEFAULT_BEFORE, DEFAULT_AFTER, n)
<1>1. n \in Nat /\ d.id \in Nat /\ DEFAULT_BEFORE \in Nat /\ DEFAULT_AFTER \in Nat
  BY CorpusFacts, ToolSizes
<1>2. WindowHints(d, offset) = {c}
  BY Windows
<1> HIDE DEF n
<1>3. c \in ContextCalls /\ c.doc = d.id /\ c.offset = n
  BY <1>1 DEF ContextCall, ContextCalls
<1> HIDE DEF c
<1> QED BY <1>2, <1>3 DEF n

LEMMA Blocks ==
  ASSUME corpus \in Corpora, NEW d \in corpus
  PROVE  /\ Block(d).id = d.id
         /\ Block(d).chars \subseteq 0 .. d.size - 1
         /\ HintsAt(BlockHints(d), {d})
<1>1. d.size \in Nat /\ d.id \in Nat /\ NEIGHBOR_MAX_CHARS \in Nat
  BY CorpusFacts, ToolSizes
<1>2. Min({NEIGHBOR_MAX_CHARS, d.size}) \in Nat /\ Min({NEIGHBOR_MAX_CHARS, d.size}) <= d.size
  BY <1>1, MinOfTwo
<1>3. Block(d).id = d.id /\ Block(d).chars = 0 .. Min({NEIGHBOR_MAX_CHARS, d.size}) - 1
  BY DEF Block, Part
<1>4. Block(d).chars \subseteq 0 .. d.size - 1
  BY <1>1, <1>2, <1>3
<1> QED BY <1>1, <1>3, <1>4, ContextType DEF BlockHints, HintsAt

LEMMA ContextAnswer ==
  ASSUME corpus \in Corpora, NEW call \in ContextCalls, call.doc \in Ids
  PROVE  LET doc == Doc(call.doc)
             page == GetPostContext(call)
         IN  /\ TextOf(page, Neighbours(doc))
             /\ page.hints \subseteq ContextCalls \cup {Similar(call.doc)}
             /\ doc.topic # None => HintsAt(page.hints, Neighbours(doc))
             /\ Shows(page, Window(doc, call.offset))
             /\ WindowHints(doc, call.offset) \subseteq page.hints
<1> DEFINE doc == Doc(call.doc)
           page == GetPostContext(call)
           posts == Thread(doc.topic, doc.source)
           P == Posts(doc.topic, doc.source)
<1>1. /\ doc \in corpus /\ call.offset \in Nat /\ call.before \in Nat /\ call.after \in Nat
      /\ doc.source # None
  BY CorpusFacts DEF ContextCalls
<1>2. CASE doc.topic = None
  <2> DEFINE hints == WindowHints(doc, call.offset) \cup {Similar(call.doc)}
  <2>1. page = Page(<<Window(doc, call.offset)>>, hints)
    BY <1>2 DEF GetPostContext
  <2>2. page.text = <<Window(doc, call.offset)>> /\ page.hints = hints
    <3> HIDE DEF hints, page
    <3> QED BY <2>1 DEF Page
  <2>3. Neighbours(doc) = {doc}
    BY <1>2 DEF Neighbours
  <2> HIDE DEF doc, page
  <2>4. DOMAIN page.text = {1} /\ page.text[1] = Window(doc, call.offset)
    BY <2>2
  <2>5. /\ Window(doc, call.offset).id = doc.id
        /\ Window(doc, call.offset).chars \subseteq 0 .. doc.size - 1
        /\ HintsAt(WindowHints(doc, call.offset), {doc})
    BY <1>1, Windows
  <2>6. page.hints \subseteq ContextCalls \cup {Similar(call.doc)}
    BY <2>2, <2>5 DEF HintsAt
  <2>7. WindowHints(doc, call.offset) \subseteq page.hints
    BY <2>2
  <2>8. TextOf(page, Neighbours(doc)) /\ Shows(page, Window(doc, call.offset))
    BY <2>3, <2>4, <2>5 DEF TextOf, Shows
  <2> QED BY <1>2, <2>6, <2>7, <2>8 DEF doc, page
<1>3. CASE doc.topic # None
  <2> DEFINE pos == CHOOSE i \in DOMAIN posts : posts[i] = doc
             reach(n) == IF call.offset > 0 THEN 0 ELSE Min({n, MAX_CONTEXT})
             start == IF reach(call.before) >= pos THEN 1 ELSE pos - reach(call.before)
             end == Min({pos + reach(call.after), Len(posts)})
             around == {posts[i] : i \in (start .. end) \ {pos}}
             text == [i \in 1 .. end - start + 1 |->
                        IF start + i - 1 = pos THEN Window(doc, call.offset)
                        ELSE Block(posts[start + i - 1])]
             hints == WindowHints(doc, call.offset) \cup UNION {BlockHints(d) : d \in around}
  <2>1. page = Page(text, hints)
    BY <1>3, Zenon DEF GetPostContext, ContextPage
  <2>2. page.text = text /\ page.hints = hints
    <3> HIDE DEF page, text, hints
    <3> QED BY <2>1 DEF Page
  <2>3. Neighbours(doc) = P /\ P \subseteq corpus /\ doc \in P
    BY <1>1, <1>3 DEF Neighbours, Posts
  <2> HIDE DEF page, doc
  <2>4. /\ posts \in Seq(P) /\ DOMAIN posts = 1 .. Len(posts) /\ Len(posts) \in Nat
        /\ \A i \in 1 .. Len(posts) : posts[i] \in P
        /\ \E i \in 1 .. Len(posts) : posts[i] = doc
    BY <2>3, ThreadRows, LenProperties
  <2> HIDE DEF posts, P
  <2>5. pos \in 1 .. Len(posts) /\ posts[pos] = doc
    BY <2>4
  <2>6. \A n \in Nat : reach(n) \in Nat
    BY <1>1, MinOfTwo, ToolSizes
  <2> HIDE DEF pos, reach
  <2>7. reach(call.before) \in Nat /\ reach(call.after) \in Nat
    BY <1>1, <2>6
  <2>8. start \in Nat /\ start >= 1 /\ start <= pos
    BY <2>5, <2>7
  <2>9. end \in Nat /\ end <= Len(posts) /\ pos <= end
    BY <2>4, <2>5, <2>7, MinOfTwo
  <2> HIDE DEF start, end
  <2>10. \A i \in start .. end : posts[i] \in P /\ posts[i] \in corpus
    BY <2>3, <2>4, <2>8, <2>9
  <2>11. ASSUME NEW i \in DOMAIN text
         PROVE  \E d \in P : text[i].id = d.id /\ text[i].chars \subseteq 0 .. d.size - 1
    <3>1. i \in 1 .. end - start + 1 /\ start + i - 1 \in start .. end
      BY <2>8, <2>9
    <3>2. CASE start + i - 1 = pos
      <4>1. text[i] = Window(doc, call.offset)
        BY <3>1, <3>2
      <4>2. /\ Window(doc, call.offset).id = doc.id
            /\ Window(doc, call.offset).chars \subseteq 0 .. doc.size - 1
        BY <1>1, Windows
      <4> HIDE DEF text
      <4> QED BY <2>3, <4>1, <4>2
    <3>3. CASE start + i - 1 # pos
      <4>1. text[i] = Block(posts[start + i - 1])
        BY <3>1, <3>3
      <4> HIDE DEF text
      <4> QED BY <2>10, <3>1, <4>1, Blocks
    <3> QED BY <3>2, <3>3
  <2>12. \E i \in DOMAIN text : text[i] = Window(doc, call.offset)
    <3>1. pos - start + 1 \in 1 .. end - start + 1 /\ start + (pos - start + 1) - 1 = pos
      BY <2>5, <2>8, <2>9
    <3>2. text[pos - start + 1] = Window(doc, call.offset)
      BY <3>1
    <3> QED BY <3>1, <3>2
  <2>13. \A d \in around : d \in P /\ HintsAt(BlockHints(d), {d})
    BY <2>10, Blocks
  <2>14. HintsAt(WindowHints(doc, call.offset), {doc})
    BY <1>1, Windows
  <2>15. HintsAt(hints, P)
    BY <2>3, <2>13, <2>14 DEF HintsAt
  <2>16. hints \subseteq ContextCalls
    BY <2>15 DEF HintsAt
  <2> HIDE DEF text
  <2> QED BY <2>2, <2>3, <2>11, <2>12, <2>15, <2>16 DEF TextOf, Shows, doc, page
<1> QED BY <1>2, <1>3

TopicCalls ==
  [tool : {"topic"}, doc : Ids \cup {None, 0}, topic : Nat \cup {None},
   source : Sources, offset : Nat]

Calls == ContextCalls \cup TopicCalls \cup OtherCalls

(* A document that is in no topic, asked for by its id.                    *)
Alone(call) == call.doc \in Ids /\ call.topic = None /\ Doc(call.doc).topic = None

At(call, n) == [call EXCEPT !.offset = n]

(* What a page of a thread holds: the opening post, the addresses of the   *)
(* replies of this page, and the call for the next.                        *)
IsTopicPage(call, posts, page) ==
  LET replies == Len(posts) - 1
      end == IF call.offset + REPLY_PAGE <= replies THEN call.offset + REPLY_PAGE ELSE replies
  IN  /\ page.text = <<Window(posts[1], 0)>>
      /\ page.hints = WindowHints(posts[1], 0)
                      \cup {Context(posts[i + 1].id) : i \in call.offset + 1 .. end}
                      \cup IF end < replies THEN {At(call, end)} ELSE {}

LEMMA TopicPages ==
  ASSUME NEW call \in TopicCalls, NEW P, NEW posts \in Seq(P), Len(posts) >= 1
  PROVE  IsTopicPage(call, posts, TopicPage(call, posts))
<1> DEFINE replies == SubSeq(posts, 2, Len(posts))
           n == Len(posts) - 1
           end == IF call.offset + REPLY_PAGE <= n THEN call.offset + REPLY_PAGE ELSE n
           index == {replies[i] : i \in call.offset + 1 .. end}
           text == <<Window(posts[1], 0)>>
           hints == WindowHints(posts[1], 0) \cup {Context(d.id) : d \in index}
                    \cup IF end < n THEN {At(call, end)} ELSE {}
<1>1. call.offset \in Nat /\ REPLY_PAGE \in Nat \ {0} /\ Len(posts) \in Nat
  BY ToolSizes, LenProperties DEF TopicCalls
<1>2. \A i \in 2 .. Len(posts) : posts[i] \in P
  BY LenProperties
<1>3. Len(replies) = n /\ \A i \in 1 .. n : replies[i] = posts[i + 1]
  <2>1. /\ Len(replies) = IF 2 <= Len(posts) THEN Len(posts) - 2 + 1 ELSE 0
        /\ \A i \in 1 .. Len(posts) - 2 + 1 : replies[i] = posts[2 + i - 1]
    BY <1>1, <1>2, SubSeqProperties
  <2>2. Len(posts) - 2 + 1 = n /\ \A i \in 1 .. n : 2 + i - 1 = i + 1
    BY <1>1
  <2> QED BY <1>1, <2>1, <2>2
<1>4. Min({call.offset + REPLY_PAGE, Len(replies)}) = end
  <2>1. n \in Int /\ call.offset + REPLY_PAGE \in Int
    BY <1>1
  <2> HIDE DEF n
  <2> QED BY <1>3, <2>1, MinOfTwo
<1>5. TopicPage(call, posts) = Page(text, hints)
  <2> HIDE DEF n, replies, end
  <2> QED BY <1>3, <1>4, Zenon DEF TopicPage, At, replies
<1>6. TopicPage(call, posts).text = text /\ TopicPage(call, posts).hints = hints
  <2> HIDE DEF text, hints
  <2> QED BY <1>5 DEF Page
<1>7. \A i \in call.offset + 1 .. end : replies[i] = posts[i + 1]
  BY <1>1, <1>3
<1>8. {Context(d.id) : d \in index} = {Context(posts[i + 1].id) : i \in call.offset + 1 .. end}
  <2> HIDE DEF replies, end
  <2> QED BY <1>7
<1> HIDE DEF replies, index
<1> QED BY <1>6, <1>8 DEF IsTopicPage

LEMMA TopicAnswer ==
  ASSUME corpus \in Corpora, NEW call \in TopicCalls
  PROVE  LET page == GetTopic(call)
         IN  /\ Alone(call) => page \in {Error, Page(<<>>, {Context(call.doc), Similar(call.doc)})}
             /\ ~ Alone(call) /\ Meant(call) = {} => page = Error
             /\ ~ Alone(call) /\ Meant(call) # {} =>
                  \E t, s : /\ Meant(call) = Posts(t, s)
                                    /\ page = TopicPage(call, Thread(t, s))
<1> DEFINE doc == Doc(call.doc)
           byDoc == call.doc # None
           known == call.source = None \/ call.source \in {d.source : d \in corpus}
           topic == IF call.topic # None \/ ~ byDoc THEN call.topic ELSE doc.topic
           source == IF byDoc THEN doc.source ELSE call.source
           posts == Posts(topic, source)
           single == Cardinality({d.source : d \in posts}) = 1
           page == GetTopic(call)
<1>1. call.source \in Sources \ {"typo"} <=> known
  <2>1. call.source \in Sources
    BY DEF TopicCalls
  <2>2. \A d \in corpus : d.source # "typo"
    BY CorpusFacts
  <2> QED BY <2>1, <2>2, ToolSizes DEF Sources
<1>2. ToSet(Thread(topic, source)) = posts
  BY ThreadRows
<1>3. Meant(call) = IF (byDoc /\ call.doc \notin Ids) \/ topic = None THEN {}
                    ELSE IF known /\ single THEN posts ELSE {}
  <2>1. Meant(call) = IF (byDoc /\ call.doc \notin Ids) \/ topic = None THEN {}
                      ELSE IF call.source \in Sources \ {"typo"} /\ single THEN posts ELSE {}
    BY DEF Meant
  <2> HIDE DEF byDoc, topic, posts, single, known
  <2> QED BY <1>1, <2>1
<1>4. CASE ~ known \/ (byDoc /\ call.doc \notin Ids)
  <2>1. page = Error
    BY <1>4 DEF GetTopic
  <2>2. Meant(call) = {}
    <3> HIDE DEF byDoc, topic, posts, single, known
    <3> QED BY <1>3, <1>4
  <2> HIDE DEF page
  <2> QED BY <2>1, <2>2 DEF page
<1>5. CASE known /\ ~ byDoc /\ call.topic = None
  <2>1. page = Error
    BY <1>5 DEF GetTopic
  <2>2. topic = None
    BY <1>5
  <2>3. Meant(call) = {}
    <3> HIDE DEF byDoc, topic, posts, single, known
    <3> QED BY <1>3, <2>2
  <2> HIDE DEF page
  <2> QED BY <2>1, <2>3 DEF page
<1>6. CASE known /\ byDoc /\ call.doc \in Ids /\ topic = None
  <2>1. page = Page(<<>>, {Context(call.doc), Similar(call.doc)})
    BY <1>6 DEF GetTopic
  <2>2. Alone(call)
    BY <1>6 DEF Alone
  <2> HIDE DEF page
  <2> QED BY <2>1, <2>2 DEF page
<1>7. CASE /\ known /\ (byDoc => call.doc \in Ids) /\ (~ byDoc => call.topic # None)
           /\ (byDoc => topic # None)
  <2>1. topic # None /\ ~ Alone(call) /\ topic \in Nat
    BY <1>7, CorpusFacts DEF Alone, TopicCalls
  <2>2. page = IF Cardinality({d.source : d \in ToSet(Thread(topic, source))}) # 1 THEN Error
               ELSE TopicPage(call, Thread(topic, source))
    BY <1>7, Zenon DEF GetTopic
  <2>3. page = IF ~ single THEN Error ELSE TopicPage(call, Thread(topic, source))
    <3> HIDE DEF page
    <3> QED BY <1>2, <2>2
  <2>4. Meant(call) = IF single THEN posts ELSE {}
    <3> HIDE DEF byDoc, topic, posts, single, known
    <3> QED BY <1>3, <1>7, <2>1
  <2>5. single => posts # {}
    <3> SUFFICES ASSUME posts = {} PROVE ~ single
      OBVIOUS
    <3>1. {d.source : d \in posts} = {}
      OBVIOUS
    <3> HIDE DEF posts
    <3> QED BY <3>1, FS_EmptySet
  <2> HIDE DEF page, topic, source, single
  <2> QED BY <2>1, <2>3, <2>4, <2>5 DEF page
<1> HIDE DEF byDoc, known, topic
<1> QED BY <1>4, <1>5, <1>6, <1>7

(* A thread that is meant is one thread: the posts around any of its posts *)
(* are its own.                                                            *)
LEMMA MeantClosed ==
  ASSUME corpus \in Corpora, NEW call \in TopicCalls, NEW d \in Meant(call)
  PROVE  d \in corpus /\ d.topic # None /\ Neighbours(d) \subseteq Meant(call)
<1>1. PICK t, s : t # None /\ Meant(call) = Posts(t, s)
  <2> DEFINE topic == IF call.topic # None \/ ~ (call.doc # None) THEN call.topic
                      ELSE Doc(call.doc).topic
             source == IF call.doc # None THEN Doc(call.doc).source ELSE call.source
  <2>1. Meant(call) \in {{}, Posts(topic, source)} /\ (topic = None => Meant(call) = {})
    BY DEF Meant
  <2> HIDE DEF topic, source
  <2> QED BY <2>1
<1>2. d \in corpus /\ d.topic = t /\ s \in {None, d.source}
  BY <1>1 DEF Posts
<1>3. Neighbours(d) = Posts(d.topic, d.source)
  BY <1>1, <1>2 DEF Neighbours
<1>4. d.source # None
  BY <1>2, CorpusFacts
<1>5. Posts(d.topic, d.source) \subseteq Posts(t, s)
  BY <1>2, <1>4 DEF Posts
<1> QED BY <1>1, <1>2, <1>3, <1>5

LEMMA AtFacts ==
  ASSUME NEW call \in TopicCalls, NEW n \in Nat
  PROVE  /\ At(call, n) \in TopicCalls
         /\ At(call, n).offset = n
         /\ \A m \in Nat : At(At(call, n), m) = At(call, m)
         /\ At(call, call.offset) = call
         /\ Alone(At(call, n)) <=> Alone(call)
         /\ Meant(At(call, n)) = Meant(call)
<1>1. /\ At(call, n) \in TopicCalls
      /\ At(call, n).offset = n
      /\ At(call, call.offset) = call
      /\ At(call, n).doc = call.doc /\ At(call, n).topic = call.topic
      /\ At(call, n).source = call.source
  BY DEF At, TopicCalls
<1>2. ASSUME NEW m \in Nat PROVE At(At(call, n), m) = At(call, m)
  <2>1. At(call, m) = [tool |-> "topic", doc |-> call.doc, topic |-> call.topic,
                       source |-> call.source, offset |-> m]
    BY DEF At, TopicCalls
  <2>2. At(At(call, n), m) = [tool |-> "topic", doc |-> call.doc, topic |-> call.topic,
                              source |-> call.source, offset |-> m]
    <3> DEFINE c == At(call, n)
    <3>1. /\ c \in TopicCalls /\ c.doc = call.doc /\ c.topic = call.topic
          /\ c.source = call.source
      BY <1>1
    <3> HIDE DEF c
    <3>2. At(c, m) = [tool |-> "topic", doc |-> call.doc, topic |-> call.topic,
                      source |-> call.source, offset |-> m]
      BY <3>1 DEF At, TopicCalls
    <3> QED BY <3>2 DEF c
  <2> QED BY <2>1, <2>2
<1>3. Alone(At(call, n)) <=> Alone(call)
  BY <1>1 DEF Alone
<1>4. Meant(At(call, n)) = Meant(call)
  <2> DEFINE c == At(call, n)
  <2>1. c.doc = call.doc /\ c.topic = call.topic /\ c.source = call.source
    BY <1>1
  <2> HIDE DEF c
  <2>2. Meant(c) = Meant(call)
    BY <2>1, Zenon DEF Meant
  <2> QED BY <2>2 DEF c
<1> QED BY <1>1, <1>2, <1>3, <1>4

LEMMA ErrorSound ==
  ASSUME NEW S
  PROVE  TextOf(Error, S) /\ Error.hints = {}
BY DEF Error, TextOf

LEMMA SimilarType ==
  ASSUME NEW id \in Ids
  PROVE  Similar(id) \in OtherCalls
BY DEF Similar, OtherCalls

LEMMA TopicSound ==
  ASSUME corpus \in Corpora, NEW call \in TopicCalls
  PROVE  LET page == GetTopic(call)
         IN  /\ TextOf(page, Meant(call))
             /\ ~ Alone(call) => \A h \in page.hints :
                  \/ h \in ContextCalls /\ \E d \in Meant(call) : h.doc = d.id
                  \/ \E n \in Nat : h = At(call, n)
             /\ page.hints \subseteq Calls
             /\ Meant(call) \subseteq corpus
<1> DEFINE page == GetTopic(call)
<1>1. CASE page = Error
  BY <1>1, MeantClosed, ErrorSound
<1>2. CASE page # Error /\ Alone(call)
  <2>1. page = Page(<<>>, {Context(call.doc), Similar(call.doc)})
    BY <1>2, TopicAnswer
  <2>2. call.doc \in Ids /\ call.doc \in Nat
    BY <1>2, CorpusFacts DEF Alone
  <2> HIDE DEF page
  <2>3. page.text = <<>> /\ page.hints = {Context(call.doc), Similar(call.doc)}
    BY <2>1 DEF Page
  <2>4. page.hints \subseteq Calls
    BY <2>2, <2>3, ContextType, SimilarType DEF Calls
  <2>5. TextOf(page, Meant(call))
    BY <2>3 DEF TextOf
  <2> QED BY <1>2, <2>4, <2>5, MeantClosed DEF page
<1>3. CASE page # Error /\ ~ Alone(call)
  <2>1. Meant(call) # {}
    BY <1>3, TopicAnswer
  <2>2. PICK t, s : /\ Meant(call) = Posts(t, s)
                            /\ page = TopicPage(call, Thread(t, s))
    BY <1>3, <2>1, TopicAnswer
  <2> DEFINE P == Meant(call)
             posts == Thread(t, s)
  <2>3. /\ posts \in Seq(P) /\ Len(posts) \in Nat /\ Len(posts) >= 1
        /\ \A i \in 1 .. Len(posts) : posts[i] \in P
    <3>1. posts \in Seq(P) /\ \A d \in P : \E i \in 1 .. Len(posts) : posts[i] = d
      BY <2>2, ThreadRows
    <3> HIDE DEF posts
    <3> QED BY <2>1, <3>1, LenProperties
  <2>4. P \subseteq corpus
    BY MeantClosed
  <2> HIDE DEF page, posts, P
  <2>5. IsTopicPage(call, posts, page)
    BY <2>2, <2>3, TopicPages DEF posts
  <2>6. posts[1] \in P /\ posts[1] \in corpus
    BY <2>3, <2>4
  <2>7. TextOf(page, P)
    <3>1. page.text = <<Window(posts[1], 0)>>
      BY <2>5 DEF IsTopicPage
    <3>2. /\ Window(posts[1], 0).id = posts[1].id
          /\ Window(posts[1], 0).chars \subseteq 0 .. posts[1].size - 1
      BY <2>6, Windows
    <3>3. DOMAIN page.text = {1} /\ page.text[1] = Window(posts[1], 0)
      BY <3>1
    <3> QED BY <2>6, <3>2, <3>3 DEF TextOf
  <2>8. ASSUME NEW h \in page.hints
        PROVE  \/ h \in ContextCalls /\ \E d \in P : h.doc = d.id
               \/ \E n \in Nat : h = At(call, n)
    <3> DEFINE replies == Len(posts) - 1
               end == IF call.offset + REPLY_PAGE <= replies THEN call.offset + REPLY_PAGE
                      ELSE replies
    <3>1. /\ call.offset \in Nat /\ REPLY_PAGE \in Nat
          /\ end \in Nat /\ end <= replies /\ replies \in Nat
      BY <2>3, ToolSizes DEF TopicCalls
    <3>2. \/ h \in WindowHints(posts[1], 0)
          \/ \E i \in call.offset + 1 .. end : h = Context(posts[i + 1].id)
          \/ h = At(call, end)
      <4> HIDE DEF replies, end
      <4>1. h \in WindowHints(posts[1], 0)
                  \cup {Context(posts[i + 1].id) : i \in call.offset + 1 .. end}
                  \cup IF end < replies THEN {At(call, end)} ELSE {}
        BY <2>5 DEF IsTopicPage, replies, end
      <4> QED BY <4>1
    <3>3. CASE h \in WindowHints(posts[1], 0)
      BY <2>6, <3>3, Windows DEF HintsAt
    <3>4. CASE \E i \in call.offset + 1 .. end : h = Context(posts[i + 1].id)
      <4>1. PICK i \in call.offset + 1 .. end : h = Context(posts[i + 1].id)
        BY <3>4
      <4>2. i + 1 \in 1 .. Len(posts)
        BY <2>3, <3>1
      <4>3. posts[i + 1] \in P /\ posts[i + 1].id \in Nat
        BY <2>3, <2>4, <4>2, CorpusFacts
      <4> QED BY <4>1, <4>3, ContextType
    <3>5. CASE h = At(call, end)
      <4> HIDE DEF end
      <4> QED BY <3>1, <3>5
    <3> HIDE DEF end
    <3> QED BY <3>2, <3>3, <3>4, <3>5
  <2>9. page.hints \subseteq Calls
    BY <2>8, AtFacts DEF Calls
  <2> QED BY <2>4, <2>7, <2>8, <2>9 DEF page, P
<1> QED BY <1>1, <1>2, <1>3

(***************************************************************************)
(* CorpusTools: the invariant.                                             *)
(***************************************************************************)

(* What the client was shown and told of by a page that it has.            *)
Answered(page) ==
  /\ \A i \in DOMAIN page.text : page.text[i].chars \subseteq shown[page.text[i].id]
  /\ page.hints \subseteq todo \cup made

(* A call that one can be led to from the first, if that is for a thread.  *)
LedTo(c) ==
  \/ c \in TopicCalls /\ \E n \in Nat : c = At(first, n)
  \/ c \in ContextCalls /\ \E d \in Meant(first) : c.doc = d.id

Asked == todo \cup made # {}

ToolsInv ==
  /\ corpus \in Corpora
  /\ todo \cup made \subseteq Calls
  /\ shown \in [Ids -> SUBSET Nat]
  /\ \A d \in corpus : shown[d.id] \subseteq 0 .. d.size - 1
  /\ ~ Asked => \A id \in Ids : shown[id] = {}
  /\ Asked => first \in Calls /\ first \in todo \cup made
  /\ \A c \in made : c \in ContextCalls /\ c.doc \in Ids => Answered(GetPostContext(c))
  /\ \A c \in made : c \in TopicCalls => Answered(GetTopic(c))
  /\ Asked /\ first.tool = "topic" =>
       /\ first \in TopicCalls /\ first.offset = 0
       /\ ~ Alone(first) =>
            /\ \A c \in todo \cup made : LedTo(c)
            /\ \A d \in corpus : shown[d.id] # {} => d \in Meant(first)

LEMMA ToolsStart == ToolsInit => ToolsInv
<1> SUFFICES ASSUME ToolsInit PROVE ToolsInv
  OBVIOUS
<1>1. corpus \in Corpora /\ todo = {} /\ made = {} /\ shown = [id \in Ids |-> {}]
  BY DEF ToolsInit
<1>2. \A d \in corpus : d.id \in Ids
  BY DEF Ids
<1> QED BY <1>1, <1>2 DEF ToolsInv, Asked

LEMMA CallKinds ==
  ASSUME NEW c \in Calls
  PROVE  /\ c.tool = "context" <=> c \in ContextCalls
         /\ c.tool = "topic" <=> c \in TopicCalls
         /\ c \in OtherCalls => c.tool \in {"search", "similar"}
BY DEF Calls, ContextCalls, TopicCalls, OtherCalls

LEMMA FirstCallsAre ==
  ASSUME corpus \in Corpora, NEW c \in FirstCalls
  PROVE  c \in Calls /\ (c.tool = "topic" => c \in TopicCalls /\ c.offset = 0)
<1>1. /\ Ids \subseteq Nat /\ Befores \subseteq Nat /\ Offsets \subseteq Nat
      /\ \A d \in corpus : d.topic \in Nat \cup {None}
  BY CorpusFacts, ToolSizes
<1>2. CASE c \in FirstTopics
  <2>1. PICK id \in Ids \cup {None, 0}, topic \in {d.topic : d \in corpus} \cup {None},
             source \in Sources : c = TopicCall(id, topic, source, 0)
    BY <1>2 DEF FirstTopics
  <2>2. topic \in Nat \cup {None}
    BY <1>1, <2>1
  <2> QED BY <2>1, <2>2 DEF TopicCall, TopicCalls, Calls
<1>3. CASE c \in FirstContexts
  <2>1. /\ c = [tool |-> "context", doc |-> c.doc, before |-> c.before, after |-> c.after,
                offset |-> c.offset]
        /\ c.tool = "context" /\ c.doc \in Ids \cup {0}
        /\ c.before \in Befores /\ c.after \in Befores /\ c.offset \in Offsets
    BY <1>3 DEF FirstContexts
  <2>2. c.doc \in Nat /\ c.before \in Nat /\ c.after \in Nat /\ c.offset \in Nat
    BY <1>1, <2>1
  <2>3. c \in ContextCalls
    BY <2>1, <2>2 DEF ContextCalls
  <2> QED BY <2>1, <2>3 DEF Calls
<1>4. CASE c \in OtherCalls
  BY <1>4, CallKinds DEF Calls
<1>5. c \in FirstTopics \/ c \in FirstContexts \/ c \in OtherCalls
  BY DEF FirstCalls
<1> QED BY <1>2, <1>3, <1>4, <1>5

LEMMA BeginKeeps ==
  ASSUME ToolsInv, Begin
  PROVE  ToolsInv'
<1>1. PICK call \in FirstCalls : first' = call /\ todo' = {call}
  BY DEF Begin
<1>2. /\ corpus' = corpus /\ made' = {} /\ shown' = shown /\ ~ Asked
      /\ \A id \in Ids : shown[id] = {}
  BY DEF Begin, ToolsInv, Asked
<1>3. Ids' = Ids /\ Calls' = Calls /\ TopicCalls' = TopicCalls
  BY <1>2 DEF Ids, Calls, TopicCalls, OtherCalls, Sources
<1>4. call \in Calls /\ (call.tool = "topic" => call \in TopicCalls /\ call.offset = 0)
  BY FirstCallsAre DEF ToolsInv
<1>5. ASSUME call.tool = "topic" PROVE LedTo(call)'
  <2>1. call = At(call, call.offset)
    BY <1>4, <1>5, AtFacts
  <2>2. At(call, 0)' = At(call, 0)
    BY DEF At
  <2> QED BY <1>1, <1>3, <1>4, <1>5, <2>1, <2>2 DEF LedTo
<1>6. \A d \in corpus : d.id \in Ids /\ shown[d.id] = {}
  BY <1>2 DEF Ids
<1>7. (todo \cup made)' = {call}
  BY <1>1, <1>2
<1> QED BY <1>1, <1>2, <1>3, <1>4, <1>5, <1>6, <1>7 DEF ToolsInv, Asked

LEMMA PageOfContext ==
  ASSUME corpus \in Corpora, NEW c \in ContextCalls, NEW page \in Answers(c)
  PROVE  /\ page = GetPostContext(c)
         /\ c.doc \in Ids => /\ TextOf(page, Neighbours(Doc(c.doc)))
                             /\ Doc(c.doc).topic # None =>
                                  HintsAt(page.hints, Neighbours(Doc(c.doc)))
                             /\ page.hints \subseteq Calls
                             /\ Neighbours(Doc(c.doc)) \subseteq corpus
         /\ c.doc \notin Ids => page = Error
<1>1. c.tool = "context"
  BY DEF ContextCalls
<1>2. page = GetPostContext(c)
  BY <1>1 DEF Answers
<1>3. c.doc \notin Ids => GetPostContext(c) = Error
  BY DEF GetPostContext
<1>4. c.doc \in Ids => Neighbours(Doc(c.doc)) \subseteq corpus
  BY CorpusFacts DEF Neighbours, Posts
<1>5. c.doc \in Ids => page.hints \subseteq Calls
  BY <1>2, ContextAnswer, SimilarType DEF Calls
<1> QED BY <1>2, <1>3, <1>4, <1>5, ContextAnswer

LEMMA PageOfTopic ==
  ASSUME NEW c \in TopicCalls, NEW page \in Answers(c)
  PROVE  page = GetTopic(c)
<1>1. c.tool = "topic"
  BY DEF TopicCalls
<1> QED BY <1>1 DEF Answers

LEMMA PageOfOther ==
  ASSUME corpus \in Corpora, NEW c \in OtherCalls, NEW page \in Answers(c)
  PROVE  TextOf(page, {}) /\ page.hints \subseteq ContextCalls
<1> DEFINE Leads(hits) == Page(<<>>, {Context(id) : id \in hits})
<1>1. ASSUME NEW hits \in SUBSET Ids
      PROVE  TextOf(Leads(hits), {}) /\ Leads(hits).hints \subseteq ContextCalls
  <2>1. \A id \in hits : Context(id) \in ContextCalls
    BY CorpusFacts, ContextType
  <2> QED BY <2>1 DEF Page, TextOf
<1>2. TextOf(Error, {}) /\ Error.hints \subseteq ContextCalls
  BY ErrorSound
<1>3. \E hits \in SUBSET Ids : page \in {Error, Leads(hits)}
  <2>1. CASE c.tool = "search"
    <3>1. PICK hits \in SUBSET Ids : page = SearchPosts(c, hits)
      <4>1. page \in {SearchPosts(c, {id}) :
                        id \in {d.id : d \in {e \in corpus : c.source \in {None, e.source}}}}
                     \cup {SearchPosts(c, {})}
        BY <2>1 DEF Answers
      <4>2. {d.id : d \in {e \in corpus : c.source \in {None, e.source}}} \subseteq Ids
        BY DEF Ids
      <4> QED BY <4>1, <4>2
    <3> QED BY <3>1 DEF SearchPosts
  <2>2. CASE c.tool = "similar"
    <3>1. PICK hits \in SUBSET Ids : page = FindSimilar(c, hits)
      <4>1. page \in {FindSimilar(c, {id}) : id \in {d.id : d \in Embedded}}
                     \cup {FindSimilar(c, {})}
        BY <2>2 DEF Answers
      <4>2. {d.id : d \in Embedded} \subseteq Ids
        BY DEF Ids, Embedded
      <4> QED BY <4>1, <4>2
    <3>2. page \in {Error, Page(<<>>, {}), Leads(hits \ {c.doc})}
      BY <3>1 DEF FindSimilar
    <3>3. Page(<<>>, {}) = Leads({})
      <4>1. {Context(id) : id \in {}} = {}
        OBVIOUS
      <4> QED BY <4>1
    <3> HIDE DEF Leads
    <3> QED BY <3>2, <3>3
  <2> QED BY <2>1, <2>2 DEF OtherCalls
<1> HIDE DEF Leads
<1> QED BY <1>1, <1>2, <1>3

(* What a page that a client gets may hold.                                *)
LEMMA PageSound ==
  ASSUME corpus \in Corpora, NEW c \in Calls, NEW page \in Answers(c)
  PROVE  /\ TextOf(page, corpus)
         /\ page.hints \subseteq Calls
         /\ c \in ContextCalls => page = GetPostContext(c)
         /\ c \in TopicCalls => page = GetTopic(c)
         /\ first \in TopicCalls /\ ~ Alone(first) /\ LedTo(c) =>
              TextOf(page, Meant(first)) /\ \A h \in page.hints : LedTo(h)
<1>1. CASE c \in ContextCalls /\ c.doc \in Ids
  <2> DEFINE N == Neighbours(Doc(c.doc))
  <2>1. /\ page = GetPostContext(c) /\ TextOf(page, N) /\ page.hints \subseteq Calls
        /\ Doc(c.doc).topic # None => HintsAt(page.hints, N)
        /\ N \subseteq corpus
    BY <1>1, PageOfContext
  <2>2. c \notin TopicCalls
    BY <1>1 DEF ContextCalls, TopicCalls
  <2>3. ASSUME first \in TopicCalls, LedTo(c) PROVE N \subseteq Meant(first) /\ HintsAt(page.hints, N)
    <3>1. PICK d \in Meant(first) : c.doc = d.id
      BY <2>2, <2>3 DEF LedTo
    <3>2. d \in corpus /\ d.topic # None /\ Neighbours(d) \subseteq Meant(first)
      BY <2>3, <3>1, MeantClosed
    <3>3. Doc(c.doc) = d
      BY <3>1, <3>2, CorpusFacts
    <3> QED BY <2>1, <3>2, <3>3
  <2> HIDE DEF N
  <2>4. TextOf(page, corpus)
    BY <2>1 DEF TextOf
  <2>5. first \in TopicCalls /\ LedTo(c) =>
          TextOf(page, Meant(first)) /\ \A h \in page.hints : LedTo(h)
    BY <2>1, <2>3 DEF TextOf, HintsAt, LedTo
  <2> QED BY <2>1, <2>2, <2>4, <2>5
<1>2. CASE c \in ContextCalls /\ c.doc \notin Ids
  <2>1. page = GetPostContext(c) /\ page = Error
    BY <1>2, PageOfContext
  <2>2. c \notin TopicCalls
    BY <1>2 DEF ContextCalls, TopicCalls
  <2> QED BY <2>1, <2>2, ErrorSound
<1>3. CASE c \in TopicCalls
  <2>1. page = GetTopic(c)
    BY <1>3, PageOfTopic
  <2>2. c \notin ContextCalls
    BY <1>3 DEF ContextCalls, TopicCalls
  <2>3. /\ TextOf(page, Meant(c))
        /\ ~ Alone(c) => \A h \in page.hints :
             \/ h \in ContextCalls /\ \E d \in Meant(c) : h.doc = d.id
             \/ \E n \in Nat : h = At(c, n)
        /\ page.hints \subseteq Calls
        /\ Meant(c) \subseteq corpus
    BY <1>3, <2>1, TopicSound
  <2>4. TextOf(page, corpus)
    BY <2>3 DEF TextOf
  <2>5. page.hints \subseteq Calls
    BY <2>3
  <2>6. ASSUME first \in TopicCalls, ~ Alone(first), LedTo(c)
        PROVE  TextOf(page, Meant(first)) /\ \A h \in page.hints : LedTo(h)
    <3>1. PICK n \in Nat : c = At(first, n)
      BY <2>2, <2>6 DEF LedTo
    <3>2. Meant(c) = Meant(first) /\ ~ Alone(c) /\ \A m \in Nat : At(c, m) = At(first, m)
      BY <2>6, <3>1, AtFacts
    <3>3. \A m \in Nat : At(first, m) \in TopicCalls
      BY <2>6, AtFacts
    <3> QED BY <2>3, <3>2, <3>3 DEF LedTo
  <2> QED BY <2>1, <2>2, <2>4, <2>5, <2>6
<1>4. CASE c \in OtherCalls
  <2>1. TextOf(page, {}) /\ page.hints \subseteq ContextCalls
    BY <1>4, PageOfOther
  <2>2. c \notin ContextCalls /\ c \notin TopicCalls
    BY <1>4 DEF ContextCalls, TopicCalls, OtherCalls
  <2>3. ~ LedTo(c)
    BY <2>2 DEF LedTo
  <2> QED BY <2>1, <2>2, <2>3 DEF TextOf, Calls
<1> QED BY <1>1, <1>2, <1>3, <1>4 DEF Calls

(* The answers, and what they are about, depend on the corpus alone.       *)
LEMMA CorpusStays ==
  ASSUME corpus' = corpus
  PROVE  /\ Ids' = Ids /\ Calls' = Calls /\ TopicCalls' = TopicCalls
         /\ \A c : GetPostContext(c)' = GetPostContext(c)
         /\ \A c : GetTopic(c)' = GetTopic(c)
         /\ \A c : Meant(c)' = Meant(c) /\ (Alone(c)' <=> Alone(c))
<1>1. Ids' = Ids /\ Sources' = Sources
  BY DEF Ids, Sources
<1>2. Calls' = Calls /\ TopicCalls' = TopicCalls
  BY <1>1 DEF Calls, TopicCalls, OtherCalls
<1>3. ASSUME NEW id PROVE Doc(id)' = Doc(id)
  BY Zenon DEF Doc
<1>4. ASSUME NEW t, NEW s PROVE Posts(t, s)' = Posts(t, s)
  BY DEF Posts
<1>5. ASSUME NEW t, NEW s PROVE Thread(t, s)' = Thread(t, s)
  BY <1>4, Zenon DEF Thread
<1>6. ASSUME NEW c PROVE GetPostContext(c)' = GetPostContext(c)
  BY <1>1, <1>3, <1>5, Zenon DEF GetPostContext
<1>7. ASSUME NEW c PROVE GetTopic(c)' = GetTopic(c)
  BY <1>1, <1>3, <1>5, Zenon DEF GetTopic
<1>8. ASSUME NEW c PROVE Meant(c)' = Meant(c)
  BY <1>1, <1>3, <1>4, Zenon DEF Meant
<1>9. ASSUME NEW c PROVE Alone(c)' <=> Alone(c)
  BY <1>1, <1>3, Zenon DEF Alone
<1> QED BY <1>1, <1>2, <1>6, <1>7, <1>8, <1>9

LEMMA AnswerKeeps ==
  ASSUME ToolsInv, Answer
  PROVE  ToolsInv'
<1> DEFINE Text(page, id) == UNION {part.chars : part \in {p \in ToSet(page.text) : p.id = id}}
<1>0. PICK call \in todo : \E page \in Answers(call) :
        /\ made' = made \cup {call}
        /\ todo' = (todo \cup page.hints) \ made'
        /\ shown' = [id \in Ids |-> shown[id] \cup Text(page, id)]
        /\ corpus' = corpus /\ first' = first
  BY DEF Answer
<1>1. PICK page \in Answers(call) :
        /\ made' = made \cup {call}
        /\ todo' = (todo \cup page.hints) \ made'
        /\ shown' = [id \in Ids |-> shown[id] \cup Text(page, id)]
        /\ corpus' = corpus /\ first' = first
  BY <1>0
<1>2. /\ corpus \in Corpora /\ call \in Calls /\ Asked /\ todo \cup made \subseteq Calls
      /\ shown \in [Ids -> SUBSET Nat]
      /\ \A d \in corpus : shown[d.id] \subseteq 0 .. d.size - 1
      /\ first \in Calls /\ first \in todo \cup made
      /\ \A c \in made : c \in ContextCalls /\ c.doc \in Ids => Answered(GetPostContext(c))
      /\ \A c \in made : c \in TopicCalls => Answered(GetTopic(c))
      /\ first.tool = "topic" =>
           /\ first \in TopicCalls /\ first.offset = 0
           /\ ~ Alone(first) =>
                /\ \A c \in todo \cup made : LedTo(c)
                /\ \A d \in corpus : shown[d.id] # {} => d \in Meant(first)
  BY <1>1 DEF ToolsInv, Asked
<1>3. /\ TextOf(page, corpus)
      /\ page.hints \subseteq Calls
      /\ call \in ContextCalls => page = GetPostContext(call)
      /\ call \in TopicCalls => page = GetTopic(call)
      /\ first \in TopicCalls /\ ~ Alone(first) /\ LedTo(call) =>
           TextOf(page, Meant(first)) /\ \A h \in page.hints : LedTo(h)
  BY <1>2, PageSound
<1>4. /\ Ids' = Ids /\ Calls' = Calls /\ TopicCalls' = TopicCalls
      /\ \A c : GetPostContext(c)' = GetPostContext(c)
      /\ \A c : GetTopic(c)' = GetTopic(c)
  BY <1>1, CorpusStays
<1>5. Meant(first)' = Meant(first) /\ (Alone(first)' <=> Alone(first))
  <2>1. \A c : Meant(c)' = Meant(c) /\ (Alone(c)' <=> Alone(c))
    BY <1>1, CorpusStays
  <2> QED BY <1>1, <2>1, Zenon DEF Meant, Alone
<1>6. (todo \cup made)' = todo \cup made \cup page.hints
  BY <1>1
<1>7. /\ \A d \in corpus : d.id \in Ids /\ d.size \in Nat
      /\ \A d, e \in corpus : d.id = e.id => d = e
  BY <1>2, CorpusFacts
<1>8. \A i \in DOMAIN page.text : /\ page.text[i].id \in Ids
                                  /\ page.text[i].chars \subseteq Text(page, page.text[i].id)
  <2>1. \A i \in DOMAIN page.text : page.text[i] \in ToSet(page.text)
    BY DEF ToSet
  <2>2. \A i \in DOMAIN page.text : page.text[i].id \in Ids
    BY <1>3, <1>7 DEF TextOf
  <2> QED BY <2>1, <2>2
<1>9. ASSUME NEW id \in Ids, NEW n \in Text(page, id)
      PROVE  \E i \in DOMAIN page.text : page.text[i].id = id /\ n \in page.text[i].chars
  <2>1. PICK part \in ToSet(page.text) : part.id = id /\ n \in part.chars
    BY <1>9
  <2>2. PICK i \in DOMAIN page.text : part = page.text[i]
    BY <2>1 DEF ToSet
  <2> QED BY <2>1, <2>2
<1> HIDE DEF Text
<1>10. ASSUME NEW d \in corpus
       PROVE  /\ Text(page, d.id) \subseteq 0 .. d.size - 1
              /\ Text(page, d.id) # {} /\ first \in TopicCalls /\ ~ Alone(first) /\ LedTo(call) =>
                   d \in Meant(first)
  <2>1. d.id \in Ids
    BY <1>7
  <2>2. ASSUME NEW n \in Text(page, d.id) PROVE n \in 0 .. d.size - 1
    <3>1. PICK i \in DOMAIN page.text : page.text[i].id = d.id /\ n \in page.text[i].chars
      BY <1>9, <2>1
    <3>2. PICK e \in corpus : page.text[i].id = e.id /\ page.text[i].chars \subseteq 0 .. e.size - 1
      BY <1>3 DEF TextOf
    <3>3. e = d
      BY <1>7, <3>1, <3>2
    <3> QED BY <3>1, <3>2, <3>3
  <2>3. ASSUME NEW n \in Text(page, d.id), first \in TopicCalls, ~ Alone(first), LedTo(call)
        PROVE  d \in Meant(first)
    <3>1. PICK i \in DOMAIN page.text : page.text[i].id = d.id
      BY <1>9, <2>1
    <3>2. PICK e \in Meant(first) : page.text[i].id = e.id
      BY <1>3, <2>3 DEF TextOf
    <3>3. e \in corpus
      BY <1>2, <2>3, MeantClosed
    <3>4. e = d
      BY <1>7, <3>1, <3>2, <3>3
    <3> QED BY <3>2, <3>4
  <2> QED BY <2>2, <2>3
<1>11. \A id \in Ids : shown'[id] = shown[id] \cup Text(page, id)
  BY <1>1
<1>12. shown' \in [Ids -> SUBSET Nat]
  <2>1. ASSUME NEW id \in Ids PROVE shown[id] \cup Text(page, id) \in SUBSET Nat
    <3>1. PICK d \in corpus : d.id = id
      BY DEF Ids
    <3>2. Text(page, id) \subseteq Nat
      BY <1>7, <1>10, <3>1
    <3> QED BY <1>2, <3>2
  <2> QED BY <1>1, <2>1
<1>13. \A d \in corpus : shown'[d.id] \subseteq 0 .. d.size - 1
  BY <1>2, <1>7, <1>10, <1>11
<1>14. ASSUME NEW p, Answered(p), TextOf(p, corpus)
       PROVE  Answered(p)'
  <2>1. \A i \in DOMAIN p.text : /\ p.text[i].id \in Ids
                                  /\ p.text[i].chars \subseteq shown[p.text[i].id]
    BY <1>7, <1>14 DEF Answered, TextOf
  <2>2. p.hints \subseteq todo \cup made
    BY <1>14 DEF Answered
  <2>3. \A i \in DOMAIN p.text : p.text[i].chars \subseteq shown'[p.text[i].id]
    BY <1>11, <2>1
  <2> QED BY <1>6, <2>2, <2>3 DEF Answered
<1>15. Answered(page)'
  <2>1. \A i \in DOMAIN page.text : page.text[i].chars \subseteq shown'[page.text[i].id]
    BY <1>8, <1>11
  <2> QED BY <1>6, <2>1 DEF Answered
<1>16. ASSUME NEW c \in made', c \in ContextCalls, c.doc \in Ids
       PROVE  Answered(GetPostContext(c))'
  <2>1. CASE c = call
    BY <1>1, <1>3, <1>4, <1>15, <1>16, <2>1
  <2>2. CASE c \in made
    <3>1. TextOf(GetPostContext(c), corpus)
      <4>1. TextOf(GetPostContext(c), Neighbours(Doc(c.doc)))
        BY <1>2, <1>16, ContextAnswer
      <4>2. Neighbours(Doc(c.doc)) \subseteq corpus
        BY <1>2, <1>16, CorpusFacts DEF Neighbours, Posts
      <4> QED BY <4>1, <4>2 DEF TextOf
    <3> QED BY <1>2, <1>4, <1>14, <1>16, <2>2, <3>1
  <2> QED BY <1>1, <2>1, <2>2
<1>17. ASSUME NEW c \in made', c \in TopicCalls
       PROVE  Answered(GetTopic(c))'
  <2>1. CASE c = call
    BY <1>1, <1>3, <1>4, <1>15, <1>17, <2>1
  <2>2. CASE c \in made
    <3>1. TextOf(GetTopic(c), corpus)
      BY <1>2, <1>17, TopicSound DEF TextOf
    <3> QED BY <1>2, <1>4, <1>14, <1>17, <2>2, <3>1
  <2> QED BY <1>1, <2>1, <2>2
<1>18. ASSUME first.tool = "topic"
       PROVE  /\ first \in TopicCalls /\ first.offset = 0
              /\ ~ Alone(first) =>
                   /\ \A c \in todo \cup made \cup page.hints : LedTo(c)
                   /\ \A d \in corpus : shown'[d.id] # {} => d \in Meant(first)
  BY <1>2, <1>3, <1>7, <1>10, <1>11, <1>18
<1>19. \A c : LedTo(c) => LedTo(c)'
  <2>1. \A n : At(first, n)' = At(first, n)
    BY <1>1 DEF At
  <2> QED BY <1>4, <1>5, <2>1 DEF LedTo
<1>20. Asked'
  BY <1>1 DEF Asked
<1> HIDE DEF Answered, LedTo
<1> QED BY <1>1, <1>2, <1>3, <1>4, <1>5, <1>6, <1>12, <1>13, <1>16, <1>17, <1>18, <1>19, <1>20 DEF ToolsInv

LEMMA ToolsStep ==
  ASSUME ToolsInv, [ToolsNext]_toolsVars
  PROVE  ToolsInv'
<1>1. CASE UNCHANGED <<corpus, first, todo, made, shown>>
  <2>1. /\ corpus' = corpus /\ first' = first /\ todo' = todo /\ made' = made /\ shown' = shown
    BY <1>1
  <2>2. /\ Ids' = Ids /\ Calls' = Calls /\ TopicCalls' = TopicCalls
        /\ \A c : GetPostContext(c)' = GetPostContext(c)
        /\ \A c : GetTopic(c)' = GetTopic(c)
        /\ \A c : Meant(c)' = Meant(c) /\ (Alone(c)' <=> Alone(c))
    BY <2>1, CorpusStays
  <2>3. ASSUME NEW p PROVE Answered(p)' <=> Answered(p)
    BY <2>1 DEF Answered
  <2>4. Meant(first)' = Meant(first) /\ (Alone(first)' <=> Alone(first))
    BY <2>1, <2>2, Zenon DEF Meant, Alone
  <2>5. \A n : At(first, n)' = At(first, n)
    BY <2>1 DEF At
  <2>6. ASSUME NEW c PROVE LedTo(c)' <=> LedTo(c)
    BY <2>2, <2>4, <2>5 DEF LedTo
  <2>7. \A c : /\ Answered(GetPostContext(c))' <=> Answered(GetPostContext(c))
               /\ Answered(GetTopic(c))' <=> Answered(GetTopic(c))
    BY <2>2, <2>3
  <2>8. Asked' <=> Asked
    BY <2>1 DEF Asked
  <2> HIDE DEF Answered, LedTo
  <2> QED BY <2>1, <2>2, <2>4, <2>6, <2>7, <2>8 DEF ToolsInv
<1>2. CASE Serve
  BY <1>1, <1>2 DEF Serve
<1>3. CASE UNCHANGED toolsVars
  BY <1>1, <1>3 DEF toolsVars
<1> QED BY <1>2, <1>3, BeginKeeps, AnswerKeeps DEF ToolsNext

(* Of a document that was asked for, the text is read from the offset on:  *)
(* each page of it ends where the call it hints at begins, so among the    *)
(* calls made the last one to begin before an unread position shows it.    *)
LEMMA ReadFrom ==
  ASSUME ToolsInv, todo = {}, NEW c \in made, c \in ContextCalls, c.doc \in Ids
  PROVE  c.offset .. Doc(c.doc).size - 1 \subseteq shown[c.doc]
<1> DEFINE doc == Doc(c.doc)
           offsets == {e.offset : e \in {f \in made : f \in ContextCalls /\ f.doc = c.doc}}
<1>1. SUFFICES ASSUME NEW k \in c.offset .. doc.size - 1 PROVE k \in shown[c.doc]
  OBVIOUS
<1>2. corpus \in Corpora /\ doc \in corpus /\ doc.id = c.doc
  BY CorpusFacts DEF ToolsInv
<1>3. c.offset \in Nat /\ doc.size \in Nat /\ k \in Nat /\ OP_MAX_CHARS \in Nat \ {0}
  BY <1>2, CorpusFacts, ToolSizes DEF ContextCalls
<1>4. ASSUME NEW e \in made, e \in ContextCalls, e.doc = c.doc
      PROVE  /\ Window(doc, e.offset).chars \subseteq shown[c.doc]
             /\ WindowHints(doc, e.offset) \subseteq made
             /\ e.offset \in Nat
  <2> DEFINE page == GetPostContext(e)
  <2>1. /\ Shows(page, Window(doc, e.offset)) /\ WindowHints(doc, e.offset) \subseteq page.hints
        /\ e.offset \in Nat
    BY <1>2, <1>4, ContextAnswer DEF ContextCalls
  <2>2. Answered(page)
    BY <1>4 DEF ToolsInv
  <2>3. Window(doc, e.offset).id = c.doc
    BY <1>2, <2>1, Windows
  <2> HIDE DEF page
  <2>4. page.hints \subseteq made
    BY <2>2 DEF Answered
  <2>5. Window(doc, e.offset).chars \subseteq shown[c.doc]
    BY <2>1, <2>2, <2>3 DEF Answered, Shows
  <2> QED BY <2>1, <2>4, <2>5
<1> DEFINE T == {n \in offsets : n <= k}
<1>5. T \in SUBSET Nat /\ \A n \in T : n <= k
  BY <1>4
<1>6. c.offset \in T
  <2>1. c.offset \in offsets
    OBVIOUS
  <2> HIDE DEF offsets
  <2> QED BY <1>3, <2>1
<1>7. \A n \in T : \E e \in made : e \in ContextCalls /\ e.doc = c.doc /\ e.offset = n
  OBVIOUS
<1>8. \A e \in made : e \in ContextCalls /\ e.doc = c.doc /\ e.offset <= k => e.offset \in T
  OBVIOUS
<1> HIDE DEF T, offsets, doc
<1>9. PICK m \in T : \A n \in T : n <= m
  BY <1>3, <1>5, <1>6, GreatestOf
<1>10. PICK e \in made : e \in ContextCalls /\ e.doc = c.doc /\ e.offset = m
  BY <1>7
<1>11. m \in Nat /\ m <= k
  BY <1>5
<1>12. CASE m + OP_MAX_CHARS < doc.size
  <2>1. m .. m + OP_MAX_CHARS - 1 \subseteq shown[c.doc]
    BY <1>2, <1>4, <1>10, <1>11, <1>12, Windows
  <2>2. m + OP_MAX_CHARS \notin T
    BY <1>3, <1>9, <1>11
  <2>3. PICK f \in made : f \in ContextCalls /\ f.doc = c.doc /\ f.offset = m + OP_MAX_CHARS
    <3>1. /\ WindowHints(doc, m) \subseteq made
          /\ \E f \in WindowHints(doc, m) :
                f \in ContextCalls /\ f.doc = doc.id /\ f.offset = m + OP_MAX_CHARS
      BY <1>2, <1>4, <1>10, <1>11, <1>12, NextWindow
    <3> QED BY <1>2, <3>1
  <2>4. ~ (m + OP_MAX_CHARS <= k)
    BY <1>8, <2>2, <2>3
  <2> QED BY <1>3, <1>11, <2>1, <2>4
<1>13. CASE ~ (m + OP_MAX_CHARS < doc.size)
  <2>1. m .. doc.size - 1 \subseteq shown[c.doc]
    BY <1>2, <1>4, <1>10, <1>11, <1>13, Windows
  <2> QED BY <1>3, <1>11, <2>1
<1> QED BY <1>12, <1>13

(* The pages of a thread that were got are pages of one and the same list. *)
LEMMA PagesHad ==
  ASSUME ToolsInv, first \in TopicCalls, ~ Alone(first), Meant(first) # {}
  PROVE  \E posts \in Seq(Meant(first)) :
           /\ Len(posts) \in Nat /\ Len(posts) >= 1
           /\ \A i \in 1 .. Len(posts) : posts[i] \in Meant(first)
           /\ \A d \in Meant(first) : \E i \in 1 .. Len(posts) : posts[i] = d
           /\ \A n \in Nat : At(first, n) \in made =>
                /\ IsTopicPage(At(first, n), posts, GetTopic(At(first, n)))
                /\ Answered(GetTopic(At(first, n)))
<1> DEFINE P == Meant(first)
<1>1. corpus \in Corpora
  BY DEF ToolsInv
<1>2. PICK t, s : P = Posts(t, s)
  BY <1>1, TopicAnswer
<1> DEFINE posts == Thread(t, s)
<1>3. posts \in Seq(P) /\ \A d \in P : \E i \in 1 .. Len(posts) : posts[i] = d
  BY <1>1, <1>2, ThreadRows
<1> HIDE DEF posts
<1>4. /\ Len(posts) \in Nat /\ Len(posts) >= 1
      /\ \A i \in 1 .. Len(posts) : posts[i] \in P
  BY <1>3, LenProperties
<1>5. ASSUME NEW u, NEW v, P = Posts(u, v) PROVE Thread(u, v) = posts
  <2>1. Posts(u, v) = Posts(t, s)
    BY <1>2, <1>5
  <2> QED BY <2>1, Zenon DEF Thread, posts
<1>6. ASSUME NEW n \in Nat, At(first, n) \in made
      PROVE  /\ IsTopicPage(At(first, n), posts, GetTopic(At(first, n)))
             /\ Answered(GetTopic(At(first, n)))
  <2> DEFINE c == At(first, n)
  <2>1. c \in TopicCalls /\ ~ Alone(c) /\ Meant(c) = P
    BY AtFacts
  <2> HIDE DEF c, P
  <2>2. PICK u, v : Meant(c) = Posts(u, v) /\ GetTopic(c) = TopicPage(c, Thread(u, v))
    BY <1>1, <2>1, TopicAnswer DEF P
  <2>3. GetTopic(c) = TopicPage(c, posts)
    BY <1>5, <2>1, <2>2
  <2>4. IsTopicPage(c, posts, GetTopic(c))
    BY <1>3, <1>4, <2>1, <2>3, TopicPages
  <2>5. c \in made
    BY <1>6 DEF c
  <2>6. Answered(GetTopic(c))
    BY <2>1, <2>5 DEF ToolsInv
  <2> QED BY <2>4, <2>6 DEF c
<1> QED BY <1>3, <1>4, <1>6

(* Of a thread that was asked for, every post is read whole: the opening   *)
(* post by its window and the calls after it, a reply by the call that its *)
(* page of the index gives.                                                *)
LEMMA ThreadRead ==
  ASSUME ToolsInv, todo = {}, first \in TopicCalls, first.offset = 0, first \in made,
         ~ Alone(first), NEW d \in Meant(first)
  PROVE  shown[d.id] = 0 .. d.size - 1
<1>1. PICK posts \in Seq(Meant(first)) :
        /\ Len(posts) \in Nat /\ Len(posts) >= 1
        /\ \A i \in 1 .. Len(posts) : posts[i] \in Meant(first)
        /\ \A e \in Meant(first) : \E i \in 1 .. Len(posts) : posts[i] = e
        /\ \A n \in Nat : At(first, n) \in made =>
             /\ IsTopicPage(At(first, n), posts, GetTopic(At(first, n)))
             /\ Answered(GetTopic(At(first, n)))
  BY PagesHad
<1>2. corpus \in Corpora
  BY DEF ToolsInv
<1>3. /\ d \in corpus /\ d.id \in Ids /\ Doc(d.id) = d /\ d.id \in Nat /\ d.size \in Nat
      /\ OP_MAX_CHARS \in Nat \ {0} /\ REPLY_PAGE \in Nat \ {0}
  BY <1>2, MeantClosed, CorpusFacts, ToolSizes
<1>4. shown[d.id] \subseteq 0 .. d.size - 1
  BY <1>3 DEF ToolsInv
<1>5. PICK i \in 1 .. Len(posts) : posts[i] = d
  BY <1>1
<1>6. At(first, 0) = first
  BY AtFacts
<1>7. CASE i = 1
  <2> DEFINE page == GetTopic(At(first, 0))
  <2>1. IsTopicPage(At(first, 0), posts, page) /\ Answered(page)
    BY <1>1, <1>6
  <2> HIDE DEF page
  <2>2. page.text = <<Window(d, 0)>> /\ WindowHints(d, 0) \subseteq page.hints
    BY <1>5, <1>7, <2>1 DEF IsTopicPage
  <2>3. /\ Window(d, 0).id = d.id
        /\ OP_MAX_CHARS < d.size => Window(d, 0).chars = 0 .. OP_MAX_CHARS - 1
        /\ ~ (OP_MAX_CHARS < d.size) => Window(d, 0).chars = 0 .. d.size - 1
    <3>1. PICK n \in Nat : n = 0
      OBVIOUS
    <3>2. /\ Window(d, n).id = d.id
          /\ n + OP_MAX_CHARS < d.size => Window(d, n).chars = n .. n + OP_MAX_CHARS - 1
          /\ ~ (n + OP_MAX_CHARS < d.size) => Window(d, n).chars = n .. d.size - 1
      BY <1>2, <1>3, Windows
    <3>3. n + OP_MAX_CHARS = OP_MAX_CHARS
      BY <1>3, <3>1
    <3>4. /\ Window(d, n).id = d.id
          /\ OP_MAX_CHARS < d.size => Window(d, n).chars = 0 .. OP_MAX_CHARS - 1
          /\ ~ (OP_MAX_CHARS < d.size) => Window(d, n).chars = 0 .. d.size - 1
      BY <1>3, <3>1, <3>2, <3>3
    <3>5. Window(d, n) = Window(d, 0)
      BY <3>1, Zenon
    <3> QED BY <3>4, <3>5, Zenon
  <2>4. 1 \in DOMAIN page.text /\ page.text[1] = Window(d, 0)
    BY <2>2
  <2>5. Window(d, 0).chars \subseteq shown[d.id]
    BY <2>1, <2>3, <2>4 DEF Answered
  <2>6. WindowHints(d, 0) \subseteq made
    BY <2>1, <2>2 DEF Answered
  <2>7. CASE OP_MAX_CHARS < d.size
    <3>1. 0 .. OP_MAX_CHARS - 1 \subseteq shown[d.id]
      BY <2>3, <2>5, <2>7
    <3>2. PICK c \in made : c \in ContextCalls /\ c.doc = d.id /\ c.offset = 0 + OP_MAX_CHARS
      BY <1>2, <1>3, <2>6, <2>7, NextWindow
    <3>3. c.offset = OP_MAX_CHARS
      BY <1>3, <3>2
    <3>4. OP_MAX_CHARS .. d.size - 1 \subseteq shown[d.id]
      BY <1>3, <3>2, <3>3, ReadFrom
    <3>5. 0 .. d.size - 1 \subseteq shown[d.id]
      BY <1>3, <3>1, <3>4
    <3> QED BY <1>4, <3>5
  <2>8. CASE ~ (OP_MAX_CHARS < d.size)
    BY <1>4, <2>3, <2>5, <2>8
  <2> QED BY <2>7, <2>8
<1>8. CASE i # 1
  <2> DEFINE T == {n \in Nat : At(first, n) \in made /\ n < i - 1}
             replies == Len(posts) - 1
  <2>1. i - 1 \in Nat /\ i - 1 <= replies /\ replies \in Nat /\ 0 < i - 1
    BY <1>1, <1>8
  <2>2. 0 \in T
    BY <1>6, <2>1
  <2>3. PICK m \in T : \A n \in T : n <= m
    <3>1. T \in SUBSET Nat /\ \A n \in T : n <= i - 1
      BY <2>1
    <3> HIDE DEF T
    <3> QED BY <2>1, <2>2, <3>1, GreatestOf
  <2>4. m \in Nat /\ At(first, m) \in made /\ m < i - 1
    OBVIOUS
  <2> DEFINE c == At(first, m)
             page == GetTopic(c)
             end == IF m + REPLY_PAGE <= replies THEN m + REPLY_PAGE ELSE replies
  <2>5. IsTopicPage(c, posts, page) /\ Answered(page) /\ c.offset = m
    BY <1>1, <2>4, AtFacts
  <2> HIDE DEF c, page
  <2>6. /\ \A j \in m + 1 .. end : Context(posts[j + 1].id) \in page.hints
        /\ end < replies => At(c, end) \in page.hints
    BY <2>5 DEF IsTopicPage
  <2>7. page.hints \subseteq made
    BY <2>5 DEF Answered
  <2>8. i - 1 <= end
    <3> SUFFICES ASSUME end < i - 1 PROVE FALSE
      BY <1>3, <2>1, <2>4
    <3>1. end = m + REPLY_PAGE /\ end < replies /\ end \in Nat /\ m < end
      BY <1>3, <2>1, <2>4
    <3>2. At(c, end) = At(first, end)
      <4> HIDE DEF end
      <4> QED BY <2>4, <3>1, AtFacts DEF c
    <3>3. end \in T
      <4> HIDE DEF end
      <4> QED BY <2>6, <2>7, <3>1, <3>2
    <3> QED BY <2>3, <2>4, <3>1, <3>3
  <2>9. Context(d.id) \in made
    <3>1. i - 1 \in m + 1 .. end /\ i - 1 + 1 = i
      BY <1>3, <2>1, <2>4, <2>8
    <3> HIDE DEF end
    <3> QED BY <1>5, <2>6, <2>7, <3>1
  <2>10. /\ Context(d.id) \in ContextCalls /\ Context(d.id).doc = d.id
         /\ Context(d.id).offset = 0
    BY <1>3, ContextType
  <2>11. 0 .. d.size - 1 \subseteq shown[d.id]
    BY <1>3, <2>9, <2>10, ReadFrom
  <2> QED BY <1>4, <2>11
<1> QED BY <1>7, <1>8

LEMMA ToolsRead == ToolsInv => ReadToEnd
<1> SUFFICES ASSUME ToolsInv, todo = {}, made # {}
             PROVE  /\ \A call \in made :
                         call.tool = "context" /\ call.doc \in Ids =>
                           call.offset .. Doc(call.doc).size - 1 \subseteq shown[call.doc]
                    /\ first.tool = "topic" /\ ~ Alone(first) =>
                         /\ {id \in Ids : shown[id] # {}} \subseteq {d.id : d \in Meant(first)}
                         /\ \A d \in Meant(first) : shown[d.id] = 0 .. d.size - 1
  BY Zenon DEF ReadToEnd, Alone
<1>1. /\ made \subseteq Calls /\ Asked /\ first \in Calls /\ first \in made /\ corpus \in Corpora
      /\ first.tool = "topic" =>
           /\ first \in TopicCalls /\ first.offset = 0
           /\ ~ Alone(first) => \A d \in corpus : shown[d.id] # {} => d \in Meant(first)
  BY DEF ToolsInv, Asked
<1>2. ASSUME NEW call \in made, call.tool = "context", call.doc \in Ids
      PROVE  call.offset .. Doc(call.doc).size - 1 \subseteq shown[call.doc]
  BY <1>1, <1>2, CallKinds, ReadFrom
<1>3. ASSUME first.tool = "topic", ~ Alone(first)
      PROVE  /\ {id \in Ids : shown[id] # {}} \subseteq {d.id : d \in Meant(first)}
             /\ \A d \in Meant(first) : shown[d.id] = 0 .. d.size - 1
  <2>1. ASSUME NEW id \in Ids, shown[id] # {}
        PROVE  \E d \in Meant(first) : id = d.id
    <3>1. PICK d \in corpus : d.id = id
      BY DEF Ids
    <3> QED BY <1>1, <1>3, <2>1, <3>1
  <2>2. \A d \in Meant(first) : shown[d.id] = 0 .. d.size - 1
    BY <1>1, <1>3, ThreadRead
  <2> QED BY <2>1, <2>2
<1> QED BY <1>2, <1>3

(* A client that makes every call that the tools hint at, in any order,    *)
(* has then read all the text of each document it asked for from the       *)
(* offset it gave, and of a thread it began with every post and of every   *)
(* post the whole, and of no other document anything: the hints of         *)
(* get_topic and get_post_context, of whatever page sizes, leave no gap    *)
(* and lead out of no thread.  A thread of the same number in two forums   *)
(* is not read at all.  From a document that stands alone the hints lead   *)
(* on through find_similar, and nothing is said of what else is read.      *)
THEOREM ReadersReachTheEnd == ToolsSpec => []ReadToEnd
<1>1. ToolsInit => ToolsInv
  BY ToolsStart
<1>2. ToolsInv /\ [ToolsNext]_toolsVars => ToolsInv'
  BY ToolsStep
<1>3. ToolsInv => ReadToEnd
  BY ToolsRead
<1> QED BY <1>1, <1>2, <1>3, PTL DEF ToolsSpec
=============================================================================
