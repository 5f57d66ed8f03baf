--------------------------- MODULE RankFusionProofs ---------------------------
(***************************************************************************)
(* The properties of RankFusion, for tables, arguments and pools of any     *)
(* size: who outranks whom, how many rows are returned, and what an arm of  *)
(* weight zero can do.                                                      *)
(***************************************************************************)
EXTENDS RankFusion, FiniteSetTheorems, TLAPS

RowsTyped == \E S \in SUBSET Doc : rows \in [S -> Row]

\* What a call returns is the fusion of two rankings that the statement may make.
AnswerIsFusion ==
    answer # None =>
        \E S \in Found(asked), scanned \in Scans : \E order \in Orders(scanned) :
            /\ answer.text = TextRank(S)
            /\ answer.vector = VectorRank(asked, scanned, order)
            /\ answer.scanned = scanned
            /\ answer.hits = Hits(asked, answer.text, answer.vector)

FusionInv ==
    /\ RowsTyped
    /\ asked = None \/ (asked \in Option /\ Valid(asked))
    /\ answer # None => asked # None
    /\ AnswerIsFusion

LEMMA RowsAreFinite ==
    ASSUME RowsTyped, NEW S \in SUBSET DOMAIN rows
    PROVE  /\ DOMAIN rows \subseteq Doc
           /\ IsFiniteSet(S) /\ Cardinality(S) \in Nat
           /\ Cardinality(S) <= Cardinality(Doc) /\ Cardinality(Doc) \in Nat
<1>1. DOMAIN rows \subseteq Doc
  BY DEF RowsTyped
<1>2. S \subseteq Doc
  BY <1>1
<1>3. IsFiniteSet(S) /\ Cardinality(S) <= Cardinality(Doc)
  BY <1>2, FS_Subset, FusionAssumption
<1>4. Cardinality(S) \in Nat /\ Cardinality(Doc) \in Nat
  BY <1>3, FS_CardinalityType, FusionAssumption
<1>5. QED
  BY <1>1, <1>3, <1>4

LEMMA RowsHaveValues ==
    ASSUME RowsTyped, NEW d \in DOMAIN rows
    PROVE  d \in Int /\ rows[d].score \in Nat /\ rows[d].distance \in Nat
  BY FusionAssumption DEF RowsTyped, Row

LEMMA PoolIsNumber ==
    ASSUME NEW o \in Option
    PROVE  VectorPool(o) \in Int
<1>1. o \in [limit : Int, candidates : Nat \cup {None}, k : Int, bm25 : Int, vector : Int]
  BY FusionAssumption
<1>2. o.limit \in Int /\ o.candidates \in Nat \cup {None}
  BY <1>1
<1>3. o.limit * Headroom \in Int
  BY <1>2, FusionAssumption
<1>4. Pool(o) \in Int
  BY <1>3, FusionAssumption DEF Pool
<1>5. QED
  BY <1>2, <1>4 DEF VectorPool

\* A rank of the one row that is no worse than a rank of the other, NULL (0)
\* being worst.
NoWorse(r, q) == q = 0 \/ (r # 0 /\ r <= q)

LEMMA TextRanks ==
    ASSUME RowsTyped, NEW S \in SUBSET Matches, NEW d \in DOMAIN rows
    PROVE  /\ TextRank(S)[d] \in 0..Cardinality(Doc)
           /\ d \in S => TextRank(S)[d] = 1 + Cardinality(Above(S, d))
                         /\ Cardinality(Above(S, d)) \in Nat
<1>1. S \in SUBSET DOMAIN rows /\ Above(S, d) \in SUBSET DOMAIN rows
  BY DEF Matches, Above
<1>2. /\ IsFiniteSet(S) /\ Cardinality(S) \in Nat /\ Cardinality(S) <= Cardinality(Doc)
      /\ Cardinality(Above(S, d)) \in Nat /\ Cardinality(Doc) \in Nat
  BY <1>1, RowsAreFinite
<1>3. TextRank(S)[d] = IF d \in S THEN 1 + Cardinality(Above(S, d)) ELSE 0
  BY DEF TextRank
<1>4. CASE d \notin S
  BY <1>2, <1>3, <1>4
<1>5. CASE d \in S
  <2>1. Above(S, d) \subseteq S \ {d}
    BY RowsHaveValues DEF Above
  <2>2. /\ IsFiniteSet(S \ {d}) /\ Cardinality(S \ {d}) = Cardinality(S) - 1
    BY <1>2, <1>5, FS_RemoveElement
  <2>3. Cardinality(Above(S, d)) <= Cardinality(S \ {d})
    BY <2>1, <2>2, FS_Subset
  <2>4. QED
    BY <1>2, <1>3, <1>5, <2>2, <2>3
<1>6. QED
  BY <1>4, <1>5

\* Where the pool cuts off, it cuts off the worse match first.
LEMMA TextIsMonotone ==
    ASSUME RowsTyped, NEW o, NEW S \in Found(o),
           NEW d \in DOMAIN rows, NEW e \in DOMAIN rows,
           rows[d].score > rows[e].score \/ rows[e].score = 0
    PROVE  NoWorse(TextRank(S)[d], TextRank(S)[e])
<1>1. S \in SUBSET Matches /\ \A x \in S, y \in Matches \ S : rows[x].score >= rows[y].score
  BY DEF Found
<1>2. rows[d].score \in Nat /\ rows[e].score \in Nat
  BY RowsHaveValues
<1>3. CASE e \notin S
  BY <1>3 DEF NoWorse, TextRank
<1>4. CASE e \in S
  <2>1. rows[d].score > rows[e].score
    BY <1>1, <1>2, <1>4 DEF Matches
  <2>2. d \in S
    BY <1>1, <1>2, <1>4, <2>1 DEF Matches
  <2>3. Above(S, d) \subseteq Above(S, e) /\ Above(S, e) \in SUBSET DOMAIN rows
    <3>1. \A x \in S : rows[x].score \in Nat
      BY <1>1, RowsHaveValues DEF Matches
    <3>2. QED
      BY <1>1, <1>2, <2>1, <3>1 DEF Above, Matches
  <2>4. Cardinality(Above(S, d)) <= Cardinality(Above(S, e))
    BY <2>3, RowsAreFinite, FS_Subset
  <2>5. QED
    BY <1>1, <1>4, <2>2, <2>4, TextRanks DEF NoWorse
<1>5. QED
  BY <1>3, <1>4

LEMMA VectorRanks ==
    ASSUME RowsTyped, NEW o \in Option, NEW scanned \in Scans, NEW order \in Orders(scanned),
           NEW d \in DOMAIN rows
    PROVE  /\ scanned \in SUBSET DOMAIN rows
           /\ d \in scanned => order[d] \in 1..Cardinality(scanned)
           /\ VectorRank(o, scanned, order)[d] \in 0..Cardinality(Doc)
<1>1. scanned \in SUBSET DOMAIN rows
  BY DEF Scans
<1>2. d \in scanned => order[d] \in 1..Cardinality(scanned)
  BY DEF Orders
<1>3. /\ Cardinality(scanned) \in Nat /\ Cardinality(Doc) \in Nat
      /\ Cardinality(scanned) <= Cardinality(Doc)
  BY <1>1, RowsAreFinite
<1>4. QED
  BY <1>1, <1>2, <1>3 DEF VectorRank

\* The ranks of a scan that does not find the farther of two rows without the
\* closer one.
LEMMA VectorIsMonotone ==
    ASSUME RowsTyped, NEW o \in Option, NEW scanned \in Scans, NEW order \in Orders(scanned),
           NEW d \in DOMAIN rows, NEW e \in DOMAIN rows,
           rows[d].distance < rows[e].distance, e \in scanned => d \in scanned
    PROVE  NoWorse(VectorRank(o, scanned, order)[d], VectorRank(o, scanned, order)[e])
<1>1. scanned \in SUBSET DOMAIN rows /\ Cardinality(scanned) \in Nat
  BY RowsAreFinite DEF Scans
<1>2. e \in scanned => /\ order[d] < order[e]
                       /\ order[d] \in 1..Cardinality(scanned)
                       /\ order[e] \in 1..Cardinality(scanned)
  BY VectorRanks DEF Orders
<1>3. VectorPool(o) \in Int
  BY PoolIsNumber
<1>4. QED
  BY <1>1, <1>2, <1>3 DEF VectorRank, NoWorse

LEMMA Times ==
    ASSUME NEW w \in Nat, NEW a \in Nat, NEW b \in Nat, a >= b
    PROVE  w * a >= w * b /\ w * a \in Nat /\ w * b \in Nat
  OBVIOUS

LEMMA PartIsMonotone ==
    ASSUME NEW w \in Nat, NEW k \in Nat \ {0}, k + Cardinality(Doc) <= Largest,
           NEW r \in 0..Cardinality(Doc), NEW q \in 0..Cardinality(Doc), NoWorse(r, q)
    PROVE  /\ Part(w, k, r) >= Part(w, k, q)
           /\ Part(w, k, r) \in Nat /\ Part(w, k, q) \in Nat
<1>1. Cardinality(Doc) \in Nat /\ Largest \in Nat
  BY FS_CardinalityType, FusionAssumption
<1>2. \A n \in 0..Cardinality(Doc) : n # 0 => k + n \in 1..Largest
  BY <1>1
<1>3. \A n \in 0..Cardinality(Doc) : n # 0 => Share[k + n] \in Nat
  BY <1>2, FusionAssumption
<1>4. \A n \in 0..Cardinality(Doc) : Part(w, k, n) \in Nat
  BY <1>3, Times DEF Part
<1>5. CASE q = 0
  BY <1>4, <1>5 DEF Part
<1>6. CASE r # 0 /\ r <= q
  <2>1. q # 0
    BY <1>1, <1>6
  <2>2. Share[k + r] >= Share[k + q]
    <3>1. CASE r = q
      BY <1>3, <2>1, <3>1
    <3>2. CASE r < q
      <4>1. k + r < k + q
        BY <1>1, <3>2
      <4>2. Share[k + r] > Share[k + q]
        BY <4>1, <1>2, <1>6, <2>1, FusionAssumption
      <4>3. QED
        BY <4>2, <1>3, <1>6, <2>1
    <3>3. QED
      BY <1>1, <1>6, <3>1, <3>2
  <2>3. w * Share[k + r] >= w * Share[k + q]
    BY <1>3, <1>6, <2>1, <2>2, Times
  <2>4. QED
    BY <1>4, <1>6, <2>1, <2>3 DEF Part
<1>7. QED
  BY <1>5, <1>6 DEF NoWorse

\* The score of a fused row is a number, and no lower where both ranks are no
\* worse.
LEMMA ScoreIsMonotone ==
    ASSUME RowsTyped, NEW o \in Option, Valid(o),
           NEW text, NEW vector, NEW d, NEW e,
           text[d] \in 0..Cardinality(Doc), text[e] \in 0..Cardinality(Doc),
           vector[d] \in 0..Cardinality(Doc), vector[e] \in 0..Cardinality(Doc),
           NoWorse(text[d], text[e]), NoWorse(vector[d], vector[e])
    PROVE  /\ Score(o, text, vector, d) >= Score(o, text, vector, e)
           /\ Score(o, text, vector, d) \in Nat
<1>1. o \in [limit : Int, candidates : Nat \cup {None}, k : Int, bm25 : Int, vector : Int]
  BY FusionAssumption
<1>2. /\ o.k \in Nat \ {0} /\ o.bm25 \in Nat /\ o.vector \in Nat
      /\ o.k + Cardinality(Doc) <= Largest
  BY <1>1, FusionAssumption DEF Valid
<1>3. /\ Part(o.bm25, o.k, text[d]) >= Part(o.bm25, o.k, text[e])
      /\ Part(o.bm25, o.k, text[d]) \in Nat /\ Part(o.bm25, o.k, text[e]) \in Nat
  BY <1>2, PartIsMonotone
<1>4. /\ Part(o.vector, o.k, vector[d]) >= Part(o.vector, o.k, vector[e])
      /\ Part(o.vector, o.k, vector[d]) \in Nat /\ Part(o.vector, o.k, vector[e]) \in Nat
  BY <1>2, PartIsMonotone
<1>5. QED
  BY <1>3, <1>4 DEF Score

\* Who comes before a row that is returned is returned too.
LEMMA HitsAreFirst ==
    ASSUME RowsTyped, NEW o \in Option, NEW text, NEW vector,
           \A x \in DOMAIN rows : Score(o, text, vector, x) \in Nat,
           NEW d \in Fused(text, vector), NEW e \in Hits(o, text, vector),
           Precedes(o, text, vector, d, e)
    PROVE  d \in Hits(o, text, vector)
<1>1. /\ Fused(text, vector) \subseteq DOMAIN rows
      /\ e \in Fused(text, vector) /\ Cardinality(Ahead(o, text, vector, e)) < o.limit
  BY DEF Fused, Hits
<1>2. \A x \in DOMAIN rows : x \in Int
  BY RowsHaveValues
<1>3. ASSUME NEW x \in Ahead(o, text, vector, d)
      PROVE  x \in Ahead(o, text, vector, e)
  <2>1. x \in Fused(text, vector) /\ Precedes(o, text, vector, x, d)
    BY DEF Ahead
  <2>2. Precedes(o, text, vector, x, e)
    BY <1>1, <1>2, <2>1 DEF Precedes
  <2>3. QED
    BY <2>1, <2>2 DEF Ahead
<1>4. /\ Ahead(o, text, vector, d) \in SUBSET DOMAIN rows
      /\ Ahead(o, text, vector, e) \in SUBSET DOMAIN rows
  BY <1>1 DEF Ahead
<1>5. Cardinality(Ahead(o, text, vector, d)) <= Cardinality(Ahead(o, text, vector, e))
  BY <1>3, <1>4, RowsAreFinite, FS_Subset
<1>6. /\ Cardinality(Ahead(o, text, vector, d)) \in Nat
      /\ Cardinality(Ahead(o, text, vector, e)) \in Nat
      /\ o.limit \in Int
  BY <1>4, RowsAreFinite, FusionAssumption
<1>7. QED
  BY <1>1, <1>5, <1>6 DEF Hits

-----------------------------------------------------------------------------
\* How many rows a limit or a pool lets through.

\* Of n places that are all taken, once each, the first m are min(m, n).
LEMMA FirstPlaces ==
    ASSUME NEW D, IsFiniteSet(D), NEW place \in [D -> 1..Cardinality(D)],
           \A d, e \in D : d # e => place[d] # place[e],
           NEW m \in Nat
    PROVE  Cardinality({d \in D : place[d] <= m}) =
               IF m < Cardinality(D) THEN m ELSE Cardinality(D)
<1> DEFINE n == Cardinality(D)
           k == IF m < n THEN m ELSE n
           first == {d \in D : place[d] <= m}
           placeOf == [d \in first |-> place[d]]
<1>1. n \in Nat /\ k \in Nat
  BY FS_CardinalityType
<1>2. /\ IsFiniteSet(1..n) /\ Cardinality(1..n) = n
      /\ IsFiniteSet(1..k) /\ Cardinality(1..k) = k
  <2> HIDE DEF n, k
  <2>1. ASSUME NEW b \in Nat PROVE IsFiniteSet(1..b) /\ Cardinality(1..b) = b
    BY FS_Interval
  <2>2. QED
    BY <1>1, <2>1
<1>3. place \in Injection(D, 1..n)
  BY DEF Injection, IsInjective
<1>4. place \in Surjection(D, 1..n)
  BY <1>2, <1>3, FS_Injection
<1>5. IsFiniteSet(first)
  BY FS_Subset
<1>6. placeOf \in Injection(first, 1..k)
  <2>1. \A d \in first : place[d] \in 1..k
    BY <1>1
  <2>2. placeOf \in [first -> 1..k]
    BY <2>1
  <2>3. QED
    BY <2>2 DEF Injection, IsInjective
<1>7. placeOf \in Surjection(first, 1..k)
  <2>1. ASSUME NEW t \in 1..k PROVE \E d \in first : placeOf[d] = t
    <3>1. t \in 1..n /\ t <= m
      BY <1>1, <2>1
    <3>2. PICK d \in D : place[d] = t
      BY <1>4, <3>1 DEF Surjection
    <3>3. QED
      BY <3>1, <3>2
  <2>2. QED
    BY <1>6, <2>1 DEF Injection, Surjection
<1>8. Cardinality(1..k) = Cardinality(first)
  BY <1>5, <1>6, <1>7, FS_Surjection
<1>9. QED
  BY <1>2, <1>8

\* The default pools let through no fewer rows than the limit.
LEMMA PoolHoldsLimit ==
    ASSUME NEW o \in Option, Valid(o)
    PROVE  o.limit \in Nat \ {0} /\ Pool(o) \in Nat /\ Pool(o) >= o.limit
<1>1. o \in [limit : Int, candidates : Nat \cup {None}, k : Int, bm25 : Int, vector : Int]
  BY FusionAssumption
<1>2. o.limit \in Nat \ {0} /\ Headroom \in Nat \ {0} /\ MinPool \in Nat
  BY <1>1, FusionAssumption DEF Valid
<1>3. o.limit * Headroom >= o.limit * 1 /\ o.limit * Headroom \in Nat
  BY <1>2, Times
<1>4. QED
  BY <1>2, <1>3 DEF Pool

\* The vector arm ranks as many rows as its default pool and the scan have.
LEMMA VectorArmFills ==
    ASSUME RowsTyped, NEW o \in Option, Valid(o), o.candidates = None,
           NEW scanned \in Scans, NEW order \in Orders(scanned)
    PROVE  Cardinality({d \in DOMAIN rows : VectorRank(o, scanned, order)[d] # 0}) =
               IF Pool(o) < Cardinality(scanned) THEN Pool(o) ELSE Cardinality(scanned)
<1>1. VectorPool(o) = Pool(o) /\ Pool(o) \in Nat
  BY PoolHoldsLimit DEF VectorPool
<1>2. /\ scanned \in SUBSET DOMAIN rows
      /\ IsFiniteSet(scanned) /\ Cardinality(scanned) \in Nat
  BY RowsAreFinite DEF Scans
<1>3. /\ order \in [scanned -> 1..Cardinality(scanned)]
      /\ \A d, e \in scanned : d # e => order[d] # order[e]
  BY DEF Orders
<1>4. \A d \in scanned : order[d] \in Nat \ {0}
  BY <1>2, <1>3
<1>5. {d \in DOMAIN rows : VectorRank(o, scanned, order)[d] # 0}
          = {d \in scanned : order[d] <= Pool(o)}
  BY <1>1, <1>2, <1>4 DEF VectorRank
<1>6. QED
  BY <1>1, <1>2, <1>3, <1>5, FirstPlaces

\* As many rows are returned as the limit and the fused rows allow: their places
\* are all different, since the id breaks the ties.
LEMMA HitsFill ==
    ASSUME RowsTyped, NEW o \in Option, Valid(o), NEW text, NEW vector,
           \A x \in DOMAIN rows : Score(o, text, vector, x) \in Nat
    PROVE  Cardinality(Hits(o, text, vector)) =
               IF o.limit < Cardinality(Fused(text, vector))
               THEN o.limit ELSE Cardinality(Fused(text, vector))
<1> DEFINE fused == Fused(text, vector)
           ahead(d) == Ahead(o, text, vector, d)
           place == [d \in fused |-> 1 + Cardinality(ahead(d))]
<1>1. /\ fused \in SUBSET DOMAIN rows
      /\ \A d \in fused : ahead(d) \subseteq fused
  BY DEF Fused, Ahead
<1>2. /\ \A d \in fused : d \in Int /\ Score(o, text, vector, d) \in Nat
      /\ o.limit \in Nat \ {0}
  BY <1>1, RowsHaveValues, PoolHoldsLimit
<1>3. IsFiniteSet(fused) /\ Cardinality(fused) \in Nat
  BY <1>1, RowsAreFinite
<1>4. \A d \in fused : IsFiniteSet(ahead(d)) /\ Cardinality(ahead(d)) \in Nat
  BY <1>1, RowsAreFinite
<1>5. ASSUME NEW d \in fused PROVE d \notin ahead(d)
  BY <1>2 DEF Ahead, Precedes
<1>6. ASSUME NEW d \in fused PROVE place[d] \in 1..Cardinality(fused)
  <2>1. ahead(d) \in SUBSET (fused \ {d})
    BY <1>1, <1>5
  <2>2. IsFiniteSet(fused \ {d}) /\ Cardinality(fused \ {d}) = Cardinality(fused) - 1
    BY <1>3, FS_RemoveElement
  <2>3. Cardinality(ahead(d)) <= Cardinality(fused \ {d})
    BY <2>1, <2>2, FS_Subset
  <2> HIDE DEF ahead, fused
  <2>4. QED
    BY <1>3, <1>4, <2>2, <2>3
<1>7. ASSUME NEW d \in fused, NEW e \in fused, Precedes(o, text, vector, d, e)
      PROVE  Cardinality(ahead(d)) < Cardinality(ahead(e))
  <2>1. ASSUME NEW x \in ahead(d) PROVE x \in ahead(e)
    <3>1. x \in fused /\ Precedes(o, text, vector, x, d)
      BY <2>1 DEF Ahead
    <3>2. Precedes(o, text, vector, x, e)
      BY <1>2, <1>7, <3>1 DEF Precedes
    <3>3. QED
      BY <3>1, <3>2 DEF Ahead
  <2>2. d \in ahead(e) /\ d \notin ahead(d)
    BY <1>5, <1>7 DEF Ahead
  <2> HIDE DEF ahead, fused
  <2>3. ahead(d) \in SUBSET ahead(e) /\ ahead(d) # ahead(e)
    BY <2>1, <2>2
  <2>4. /\ Cardinality(ahead(d)) <= Cardinality(ahead(e))
        /\ Cardinality(ahead(d)) # Cardinality(ahead(e))
    BY <1>4, <2>3, FS_Subset
  <2>5. QED
    BY <1>4, <2>4
<1>8. ASSUME NEW d \in fused, NEW e \in fused, d # e PROVE place[d] # place[e]
  <2>1. Precedes(o, text, vector, d, e) \/ Precedes(o, text, vector, e, d)
    BY <1>2, <1>8 DEF Precedes
  <2> HIDE DEF ahead, fused
  <2>2. QED
    BY <1>4, <1>7, <2>1
<1>9. place \in [fused -> 1..Cardinality(fused)]
  BY <1>6
<1>10. Hits(o, text, vector) = {d \in fused : place[d] <= o.limit}
  <2>1. \A d \in fused : place[d] <= o.limit <=> Cardinality(ahead(d)) < o.limit
    <3> HIDE DEF ahead, fused
    <3>1. QED
      BY <1>2, <1>4
  <2>2. QED
    BY <2>1 DEF Hits
<1> HIDE DEF place, fused
<1>11. QED
  BY <1>2, <1>3, <1>8, <1>9, <1>10, FirstPlaces DEF fused

-----------------------------------------------------------------------------
\* Arms of weight zero.

LEMMA Products ==
    ASSUME NEW w \in Nat \ {0}, NEW a \in Nat, NEW b \in Nat, a > b
    PROVE  w * a > w * b /\ w * a \in Nat /\ w * b \in Nat
  OBVIOUS

\* A part falls strictly with the rank, down to 0 where that is NULL.
LEMMA PartFalls ==
    ASSUME NEW w \in Nat \ {0}, NEW k \in Nat \ {0}, k + Cardinality(Doc) <= Largest,
           NEW r \in 0..Cardinality(Doc), NEW q \in 0..Cardinality(Doc),
           r # 0, q = 0 \/ r < q
    PROVE  Part(w, k, r) > Part(w, k, q) /\ Part(w, k, r) \in Nat /\ Part(w, k, q) \in Nat
<1>1. Cardinality(Doc) \in Nat /\ Largest \in Nat
  BY FS_CardinalityType, FusionAssumption
<1>2. \A n \in 0..Cardinality(Doc) : n # 0 => k + n \in 1..Largest
  BY <1>1
<1>3. \A n \in 0..Cardinality(Doc) : n # 0 => Share[k + n] \in Nat \ {0}
  BY <1>2, FusionAssumption
<1>4. CASE q = 0
  <2>1. w * Share[k + r] > w * 0 /\ w * Share[k + r] \in Nat
    BY <1>3, Products
  <2>2. QED
    BY <1>4, <2>1 DEF Part
<1>5. CASE q # 0
  <2>1. k + r < k + q
    BY <1>1, <1>5
  <2>2. Share[k + r] > Share[k + q]
    BY <1>2, <1>5, <2>1, FusionAssumption
  <2>3. w * Share[k + r] > w * Share[k + q] /\ w * Share[k + r] \in Nat /\ w * Share[k + q] \in Nat
    BY <1>3, <1>5, <2>2, Products
  <2>4. QED
    BY <1>5, <2>3 DEF Part
<1>6. QED
  BY <1>4, <1>5

LEMMA SilentPart ==
    ASSUME NEW k \in Nat \ {0}, k + Cardinality(Doc) <= Largest,
           NEW r \in 0..Cardinality(Doc)
    PROVE  Part(0, k, r) = 0
<1>1. Cardinality(Doc) \in Nat /\ Largest \in Nat
  BY FS_CardinalityType, FusionAssumption
<1>2. r # 0 => Share[k + r] \in Nat
  <2>1. r # 0 => k + r \in 1..Largest
    BY <1>1
  <2>2. QED
    BY <2>1, FusionAssumption
<1>3. QED
  BY <1>2 DEF Part

\* rank is the ranking of the arm that has all the weight: its rows score by it
\* alone.
LoneArm(o, text, vector, rank) ==
    \A d, e \in DOMAIN rows :
        rank[d] # 0 /\ (rank[e] = 0 \/ rank[d] < rank[e]) =>
            Score(o, text, vector, d) > Score(o, text, vector, e)

LEMMA ArmIsAlone ==
    ASSUME NEW o \in Option, Valid(o), NEW text, NEW vector,
           \A x \in DOMAIN rows : /\ text[x] \in 0..Cardinality(Doc)
                                  /\ vector[x] \in 0..Cardinality(Doc)
    PROVE  /\ o.vector = 0 => LoneArm(o, text, vector, text)
           /\ o.bm25 = 0 => LoneArm(o, text, vector, vector)
<1>1. o \in [limit : Int, candidates : Nat \cup {None}, k : Int, bm25 : Int, vector : Int]
  BY FusionAssumption
<1>2. /\ o.k \in Nat \ {0} /\ o.bm25 \in Nat /\ o.vector \in Nat
      /\ o.k + Cardinality(Doc) <= Largest
      /\ o.bm25 # 0 \/ o.vector # 0
  BY <1>1, FusionAssumption DEF Valid
<1>3. ASSUME o.vector = 0, NEW d \in DOMAIN rows, NEW e \in DOMAIN rows,
             text[d] # 0, text[e] = 0 \/ text[d] < text[e]
      PROVE  Score(o, text, vector, d) > Score(o, text, vector, e)
  <2>1. /\ Part(o.bm25, o.k, text[d]) > Part(o.bm25, o.k, text[e])
        /\ Part(o.bm25, o.k, text[d]) \in Nat /\ Part(o.bm25, o.k, text[e]) \in Nat
    BY <1>2, <1>3, PartFalls
  <2>2. Part(o.vector, o.k, vector[d]) = 0 /\ Part(o.vector, o.k, vector[e]) = 0
    BY <1>2, <1>3, SilentPart
  <2>3. QED
    BY <2>1, <2>2 DEF Score
<1>4. ASSUME o.bm25 = 0, NEW d \in DOMAIN rows, NEW e \in DOMAIN rows,
             vector[d] # 0, vector[e] = 0 \/ vector[d] < vector[e]
      PROVE  Score(o, text, vector, d) > Score(o, text, vector, e)
  <2>1. /\ Part(o.vector, o.k, vector[d]) > Part(o.vector, o.k, vector[e])
        /\ Part(o.vector, o.k, vector[d]) \in Nat /\ Part(o.vector, o.k, vector[e]) \in Nat
    BY <1>2, <1>4, PartFalls
  <2>2. Part(o.bm25, o.k, text[d]) = 0 /\ Part(o.bm25, o.k, text[e]) = 0
    BY <1>2, <1>4, SilentPart
  <2>3. QED
    BY <2>1, <2>2 DEF Score
<1>5. QED
  BY <1>3, <1>4 DEF LoneArm

\* Of the arm that has all the weight, a row that it ranks before a returned one
\* is returned; and if it ranks as many rows as the limit, only such are.
LEMMA LoneArmRules ==
    ASSUME RowsTyped, NEW o \in Option, Valid(o), NEW text, NEW vector, NEW rank,
           \A x \in DOMAIN rows : Score(o, text, vector, x) \in Nat,
           LoneArm(o, text, vector, rank),
           {x \in DOMAIN rows : rank[x] # 0} \subseteq Fused(text, vector),
           NEW d \in DOMAIN rows, NEW e \in Hits(o, text, vector)
    PROVE  /\ rank[d] # 0 /\ (rank[e] = 0 \/ rank[d] < rank[e]) => d \in Hits(o, text, vector)
           /\ rank[e] = 0 => Cardinality({x \in DOMAIN rows : rank[x] # 0}) < o.limit
<1> DEFINE ranked == {x \in DOMAIN rows : rank[x] # 0}
           ahead == Ahead(o, text, vector, e)
<1>1. e \in DOMAIN rows /\ Cardinality(ahead) < o.limit
  BY DEF Hits, Fused
<1>2. ASSUME rank[d] # 0, rank[e] = 0 \/ rank[d] < rank[e]
      PROVE  d \in Hits(o, text, vector)
  <2>1. Precedes(o, text, vector, d, e) /\ d \in Fused(text, vector)
    BY <1>1, <1>2 DEF LoneArm, Precedes
  <2>2. QED
    BY <2>1, HitsAreFirst
<1>3. ASSUME rank[e] = 0 PROVE Cardinality(ranked) < o.limit
  <2>1. ranked \subseteq ahead
    BY <1>1, <1>3 DEF LoneArm, Precedes, Ahead
  <2>2. ahead \in SUBSET DOMAIN rows /\ ranked \in SUBSET DOMAIN rows
    BY DEF Ahead, Fused
  <2>3. /\ IsFiniteSet(ahead) /\ Cardinality(ahead) \in Nat /\ Cardinality(ranked) \in Nat
    BY <2>2, RowsAreFinite
  <2>4. Cardinality(ranked) <= Cardinality(ahead)
    BY <2>1, <2>3, FS_Subset
  <2>5. o.limit \in Nat
    BY PoolHoldsLimit
  <2> HIDE DEF ahead, ranked
  <2>6. QED
    BY <1>1, <2>3, <2>4, <2>5
<1>4. QED
  BY <1>2, <1>3

-----------------------------------------------------------------------------
LEMMA FusionInit == Init => FusionInv
  BY DEF Init, FusionInv, RowsTyped, AnswerIsFusion

\* Rankings and hits are a matter of the rows alone.
LEMMA SameRows ==
    ASSUME UNCHANGED <<rows, asked>>
    PROVE  /\ Found(asked)' = Found(asked)
           /\ Scans' = Scans
           /\ \A scanned : Orders(scanned)' = Orders(scanned)
           /\ \A S : TextRank(S)' = TextRank(S)
           /\ \A scanned, order :
                 VectorRank(asked, scanned, order)' = VectorRank(asked, scanned, order)
           /\ \A text, vector : Hits(asked, text, vector)' = Hits(asked, text, vector)
<1>1. Found(asked)' = Found(asked)
  BY DEF Found, Matches
<1>2. Scans' = Scans
  BY DEF Scans
<1>3. ASSUME NEW S PROVE TextRank(S)' = TextRank(S)
  BY DEF TextRank, Above
<1>4. ASSUME NEW scanned, NEW order
      PROVE  VectorRank(asked, scanned, order)' = VectorRank(asked, scanned, order)
  BY DEF VectorRank, VectorPool, Pool
<1>5. ASSUME NEW text, NEW vector
      PROVE  Hits(asked, text, vector)' = Hits(asked, text, vector)
  BY DEF Hits, Ahead, Fused
<1>6. ASSUME NEW scanned PROVE Orders(scanned)' = Orders(scanned)
  BY DEF Orders
<1>7. QED
  BY <1>1, <1>2, <1>3, <1>4, <1>5, <1>6

LEMMA FusionStep == FusionInv /\ [Next]_vars => FusionInv'
<1> SUFFICES ASSUME FusionInv, [Next]_vars PROVE FusionInv'
  OBVIOUS
<1> USE DEF FusionInv
<1>1. CASE UNCHANGED vars
  <2>1. UNCHANGED <<rows, asked>> /\ answer' = answer
    BY <1>1 DEF vars
  <2>2. AnswerIsFusion'
    BY <2>1, SameRows DEF AnswerIsFusion
  <2>3. QED
    BY <2>1, <2>2 DEF RowsTyped
<1>2. ASSUME NEW o \in Option, Ask(o) PROVE FusionInv'
  <2>1. answer = None
    BY <1>2 DEF Ask
  <2>2. QED
    BY <1>2, <2>1 DEF Ask, RowsTyped, AnswerIsFusion
<1>3. CASE Answer
  <2>1. UNCHANGED <<rows, asked>> /\ asked # None
    BY <1>3 DEF Answer
  <2>2. PICK S \in Found(asked), scanned \in Scans : \E order \in Orders(scanned) :
            answer' = [text |-> TextRank(S), vector |-> VectorRank(asked, scanned, order),
                       scanned |-> scanned,
                       hits |-> Hits(asked, TextRank(S), VectorRank(asked, scanned, order))]
    BY <1>3 DEF Answer
  <2>3. PICK order \in Orders(scanned) :
            answer' = [text |-> TextRank(S), vector |-> VectorRank(asked, scanned, order),
                       scanned |-> scanned,
                       hits |-> Hits(asked, TextRank(S), VectorRank(asked, scanned, order))]
    BY <2>2
  <2>4. PICK text, vector : text = TextRank(S) /\ vector = VectorRank(asked, scanned, order)
    OBVIOUS
  <2>5. /\ S \in Found(asked)' /\ scanned \in Scans' /\ order \in Orders(scanned)'
        /\ text = TextRank(S)' /\ vector = VectorRank(asked, scanned, order)'
        /\ Hits(asked, text, vector)' = Hits(asked, text, vector)
    BY <2>1, <2>4, SameRows
  <2>6. answer' = [text |-> text, vector |-> vector, scanned |-> scanned,
                   hits |-> Hits(asked, text, vector)]
    BY <2>3, <2>4
  <2>7. /\ answer'.text = text /\ answer'.vector = vector
        /\ answer'.scanned = scanned /\ answer'.hits = Hits(asked, text, vector)'
    BY <2>5, <2>6
  <2>8. AnswerIsFusion'
    BY <2>5, <2>7 DEF AnswerIsFusion
  <2>9. QED
    BY <2>1, <2>8 DEF RowsTyped
<1>4. QED
  BY <1>1, <1>2, <1>3 DEF Next

\* The variables keep their types, and no call with refused arguments goes on.
THEOREM TypeCorrect == Spec => []TypeOK
<1>1. FusionInv => TypeOK
  <2> SUFFICES ASSUME FusionInv PROVE TypeOK
    OBVIOUS
  <2>1. asked = None \/ (asked \in Option /\ asked.limit > 0 /\ asked.bm25 + asked.vector > 0)
    <3>1. CASE asked # None
      <4>1. asked \in Option /\ Valid(asked)
        BY <3>1 DEF FusionInv
      <4>2. asked.limit \in Int /\ asked.bm25 \in Int /\ asked.vector \in Int
        BY <4>1, FusionAssumption
      <4>3. QED
        BY <4>1, <4>2 DEF Valid
    <3>2. QED
      BY <3>1
  <2>2. answer # None => {answer.hits, answer.scanned} \subseteq SUBSET DOMAIN rows
    BY DEF FusionInv, AnswerIsFusion, Hits, Fused, Scans
  <2>3. QED
    BY <2>1, <2>2 DEF FusionInv, RowsTyped, TypeOK
<1>2. QED
  BY <1>1, FusionInit, FusionStep, PTL DEF Spec

\* For tables of any size, any pools, weights, limits and ties: a row that
\* matches better and is closer scores no lower, and is not left out for one
\* that does not, unless the vector index finds the farther row and misses the
\* closer one.
THEOREM FusionRespectsRankings == Spec => []FusionIsMonotone
<1>1. FusionInv => FusionIsMonotone
  <2> SUFFICES ASSUME FusionInv, answer # None,
                      NEW d \in DOMAIN rows, NEW e \in DOMAIN rows,
                      rows[d].score > rows[e].score \/ rows[e].score = 0,
                      rows[d].distance < rows[e].distance,
                      e \in answer.scanned => d \in answer.scanned
               PROVE  /\ Fuses(d) >= Fuses(e)
                      /\ e \in answer.hits =>
                            d \in answer.hits \/ (Fuses(d) = Fuses(e) /\ e < d)
    BY DEF FusionIsMonotone
  <2> DEFINE text == answer.text
             vector == answer.vector
  <2>1. RowsTyped /\ asked \in Option /\ Valid(asked)
    BY DEF FusionInv
  <2>2. PICK S \in Found(asked), scanned \in Scans : \E order \in Orders(scanned) :
            /\ text = TextRank(S) /\ vector = VectorRank(asked, scanned, order)
            /\ answer.scanned = scanned
            /\ answer.hits = Hits(asked, text, vector)
    BY DEF FusionInv, AnswerIsFusion
  <2>12. PICK order \in Orders(scanned) : vector = VectorRank(asked, scanned, order)
    BY <2>2
  <2> HIDE DEF text, vector
  <2>3. S \in SUBSET Matches
    BY DEF Found
  <2>4. \A x \in DOMAIN rows : /\ text[x] \in 0..Cardinality(Doc)
                               /\ vector[x] \in 0..Cardinality(Doc)
    BY <2>1, <2>2, <2>12, <2>3, TextRanks, VectorRanks
  <2>5. NoWorse(text[d], text[e])
    BY <2>1, <2>2, TextIsMonotone
  <2>6. NoWorse(vector[d], vector[e])
    BY <2>1, <2>2, <2>12, VectorIsMonotone
  <2>7. \A x \in DOMAIN rows : Score(asked, text, vector, x) \in Nat
    <3>1. Cardinality(Doc) \in Nat
      BY FS_CardinalityType, FusionAssumption
    <3>2. \A r \in 0..Cardinality(Doc) : NoWorse(r, r)
      BY <3>1 DEF NoWorse
    <3>3. QED
      BY <2>1, <2>4, <3>2, ScoreIsMonotone
  <2>8. Score(asked, text, vector, d) >= Score(asked, text, vector, e)
    BY <2>1, <2>4, <2>5, <2>6, ScoreIsMonotone
  <2>9. ASSUME e \in answer.hits,
               ~(Score(asked, text, vector, d) = Score(asked, text, vector, e) /\ e < d)
        PROVE  d \in answer.hits
    <3>1. e \in Hits(asked, text, vector) /\ (text[e] # 0 \/ vector[e] # 0)
      BY <2>2, <2>9 DEF Hits, Fused
    <3>2. d \in Fused(text, vector)
      BY <2>5, <2>6, <3>1 DEF NoWorse, Fused
    <3>3. d = e \/ Precedes(asked, text, vector, d, e)
      BY <2>1, <2>7, <2>8, <2>9, RowsHaveValues DEF Precedes
    <3>4. QED
      BY <2>1, <2>2, <2>7, <3>1, <3>2, <3>3, HitsAreFirst
  <2>10. Fuses(d) = Score(asked, text, vector, d) /\ Fuses(e) = Score(asked, text, vector, e)
    BY DEF Fuses, text, vector
  <2>11. QED
    BY <2>8, <2>9, <2>10
<1>2. QED
  BY <1>1, FusionInit, FusionStep, PTL DEF Spec

\* What the proofs use of an answer.
LEMMA AnswerFacts ==
    ASSUME FusionInv, answer # None
    PROVE  /\ RowsTyped /\ asked \in Option /\ Valid(asked)
           /\ \E S \in Found(asked) : \E order \in Orders(answer.scanned) :
                 /\ answer.text = TextRank(S)
                 /\ answer.vector = VectorRank(asked, answer.scanned, order)
                 /\ answer.hits = Hits(asked, answer.text, answer.vector)
           /\ answer.scanned \in Scans
           /\ \A x \in DOMAIN rows :
                 /\ answer.text[x] \in 0..Cardinality(Doc)
                 /\ answer.vector[x] \in 0..Cardinality(Doc)
                 /\ Score(asked, answer.text, answer.vector, x) \in Nat
<1>1. RowsTyped /\ asked \in Option /\ Valid(asked)
  BY DEF FusionInv
<1>2. /\ answer.scanned \in Scans
      /\ \E S \in Found(asked) : \E order \in Orders(answer.scanned) :
            /\ answer.text = TextRank(S)
            /\ answer.vector = VectorRank(asked, answer.scanned, order)
            /\ answer.hits = Hits(asked, answer.text, answer.vector)
  BY DEF FusionInv, AnswerIsFusion
<1>3. ASSUME NEW x \in DOMAIN rows
      PROVE  /\ answer.text[x] \in 0..Cardinality(Doc)
             /\ answer.vector[x] \in 0..Cardinality(Doc)
  <2>1. PICK S \in Found(asked) : \E order \in Orders(answer.scanned) :
            /\ answer.text = TextRank(S)
            /\ answer.vector = VectorRank(asked, answer.scanned, order)
    BY <1>2
  <2>2. PICK order \in Orders(answer.scanned) :
            answer.vector = VectorRank(asked, answer.scanned, order)
    BY <2>1
  <2>3. S \in SUBSET Matches
    BY DEF Found
  <2>4. QED
    BY <1>1, <1>2, <2>1, <2>2, <2>3, TextRanks, VectorRanks
<1>4. Cardinality(Doc) \in Nat
  BY FS_CardinalityType, FusionAssumption
<1>5. \A r \in 0..Cardinality(Doc) : NoWorse(r, r)
  BY <1>4 DEF NoWorse
<1>6. \A x \in DOMAIN rows : Score(asked, answer.text, answer.vector, x) \in Nat
  BY <1>1, <1>3, <1>5, ScoreIsMonotone
<1>7. QED
  BY <1>1, <1>2, <1>3, <1>6

\* A search with the default pools returns as many rows as its limit allows of
\* those that match or that the vector arm's scan delivers, for any number of
\* rows and matches and any scan.
THEOREM EnoughAreReturned == Spec => []EnoughHits
<1>1. FusionInv => EnoughHits
  <2> DEFINE scanned == answer.scanned
             text == answer.text
             vector == answer.vector
             found == Matches \cup scanned
             ranked == {d \in DOMAIN rows : vector[d] # 0}
             fused == Fused(text, vector)
  <2> SUFFICES ASSUME FusionInv, answer # None, asked.candidates = None
               PROVE  Cardinality(answer.hits) =
                          IF Cardinality(found) < asked.limit
                          THEN Cardinality(found) ELSE asked.limit
    BY DEF EnoughHits
  <2>1. /\ RowsTyped /\ asked \in Option /\ Valid(asked) /\ scanned \in Scans
        /\ \A x \in DOMAIN rows : Score(asked, text, vector, x) \in Nat
    BY AnswerFacts
  <2>2. PICK S \in Found(asked) : \E order \in Orders(scanned) :
            /\ text = TextRank(S)
            /\ vector = VectorRank(asked, scanned, order)
            /\ answer.hits = Hits(asked, text, vector)
    BY AnswerFacts
  <2>3. PICK order \in Orders(scanned) : vector = VectorRank(asked, scanned, order)
    BY <2>2
  <2>4. Cardinality(answer.hits) = IF asked.limit < Cardinality(fused)
                                   THEN asked.limit ELSE Cardinality(fused)
    BY <2>1, <2>2, HitsFill
  <2>5. Cardinality(ranked) = IF Pool(asked) < Cardinality(scanned)
                              THEN Pool(asked) ELSE Cardinality(scanned)
    BY <2>1, <2>3, VectorArmFills
  <2>6. /\ S \in SUBSET Matches /\ Matches \in SUBSET DOMAIN rows
        /\ Cardinality(S) = Pool(asked) \/ S = Matches
    BY DEF Found, Matches
  <2>7. scanned \in SUBSET DOMAIN rows /\ ranked \in SUBSET scanned
    BY <2>1, <2>3 DEF Scans, VectorRank
  <2>8. fused = S \cup ranked
    <3>1. ASSUME NEW d \in DOMAIN rows PROVE text[d] # 0 <=> d \in S
      BY <2>1, <2>2, <2>6, TextRanks DEF TextRank
    <3>2. QED
      BY <2>6, <3>1 DEF Fused
  <2> HIDE DEF scanned, text, vector, ranked, fused
  <2>9. /\ fused \in SUBSET found /\ found \in SUBSET DOMAIN rows
        /\ S \in SUBSET fused /\ ranked \in SUBSET fused
    BY <2>6, <2>7, <2>8
  <2>10. /\ IsFiniteSet(found) /\ Cardinality(found) \in Nat
         /\ IsFiniteSet(fused) /\ Cardinality(fused) \in Nat
         /\ IsFiniteSet(scanned) /\ Cardinality(scanned) \in Nat
    <3>1. fused \in SUBSET DOMAIN rows
      BY <2>9
    <3>2. QED
      BY <2>1, <2>7, <2>9, <3>1, RowsAreFinite
  <2>11. /\ Cardinality(fused) <= Cardinality(found)
         /\ Cardinality(S) <= Cardinality(fused)
         /\ Cardinality(ranked) <= Cardinality(fused)
         /\ Cardinality(ranked) = Cardinality(scanned) => ranked = scanned
    BY <2>7, <2>9, <2>10, FS_Subset
  <2>12. asked.limit \in Nat /\ Pool(asked) \in Nat /\ Pool(asked) >= asked.limit
    BY <2>1, PoolHoldsLimit
  <2>13. fused = found \/ Cardinality(fused) >= asked.limit
    <3>1. CASE S = Matches /\ ranked = scanned
      BY <2>8, <3>1
    <3>2. CASE Cardinality(S) = Pool(asked) \/ ranked # scanned
      BY <2>5, <2>10, <2>11, <2>12, <3>2
    <3>3. QED
      BY <2>6, <3>1, <3>2
  <2> HIDE DEF found
  <2>14. QED
    BY <2>4, <2>10, <2>11, <2>12, <2>13
<1>2. QED
  BY <1>1, FusionInit, FusionStep, PTL DEF Spec

\* An arm of weight zero displaces no row that the other arm ranks better, for
\* any rows, any scan that delivers the row and any breaks of ties.
THEOREM SilentArmIsHarmless == Spec => []SilentArmDisplacesNobody
<1>1. FusionInv => SilentArmDisplacesNobody
  <2> SUFFICES ASSUME FusionInv, answer # None, asked.candidates = None,
                      NEW d \in DOMAIN rows, NEW e \in answer.hits,
                      \/ asked.vector = 0 /\ rows[d].score > rows[e].score
                      \/ /\ asked.bm25 = 0 /\ d \in answer.scanned
                         /\ rows[d].distance < rows[e].distance
               PROVE  d \in answer.hits
    BY DEF SilentArmDisplacesNobody
  <2> DEFINE scanned == answer.scanned
             text == answer.text
             vector == answer.vector
  <2>1. /\ RowsTyped /\ asked \in Option /\ Valid(asked) /\ scanned \in Scans
        /\ \A x \in DOMAIN rows : /\ text[x] \in 0..Cardinality(Doc)
                                  /\ vector[x] \in 0..Cardinality(Doc)
                                  /\ Score(asked, text, vector, x) \in Nat
    BY AnswerFacts
  <2>2. PICK S \in Found(asked) : \E order \in Orders(scanned) :
            /\ text = TextRank(S) /\ vector = VectorRank(asked, scanned, order)
            /\ answer.hits = Hits(asked, text, vector)
    BY AnswerFacts
  <2>8. PICK order \in Orders(scanned) : vector = VectorRank(asked, scanned, order)
    BY <2>2
  <2> HIDE DEF scanned, text, vector
  <2>3. /\ e \in Hits(asked, text, vector) /\ e \in DOMAIN rows
        /\ {x \in DOMAIN rows : text[x] # 0} \subseteq Fused(text, vector)
        /\ {x \in DOMAIN rows : vector[x] # 0} \subseteq Fused(text, vector)
    BY <2>2 DEF Hits, Fused
  <2>4. asked.limit \in Nat /\ Pool(asked) \in Nat /\ Pool(asked) >= asked.limit
    BY <2>1, PoolHoldsLimit
  <2>5. CASE asked.vector = 0 /\ rows[d].score > rows[e].score
    <3>1. LoneArm(asked, text, vector, text)
      BY <2>1, <2>5, ArmIsAlone
    <3>2. NoWorse(text[d], text[e])
      BY <2>1, <2>2, <2>3, <2>5, TextIsMonotone
    <3>3. S \in SUBSET Matches /\ S \subseteq DOMAIN rows
      BY DEF Found, Matches
    <3>4. /\ rows[d].score \in Nat /\ rows[e].score \in Nat
          /\ \A x \in S : rows[x].score \in Nat
      BY <2>1, <2>3, <3>3, RowsHaveValues
    <3>5. \A x \in DOMAIN rows : text[x] # 0 <=> x \in S
      <4>1. \A x \in S : text[x] = 1 + Cardinality(Above(S, x)) /\ Cardinality(Above(S, x)) \in Nat
        BY <2>1, <2>2, <3>3, TextRanks
      <4>2. \A x \in DOMAIN rows : x \notin S => text[x] = 0
        BY <2>2 DEF TextRank
      <4>3. QED
        BY <3>3, <4>1, <4>2
    <3>6. CASE d \notin S
      <4>1. d \in Matches \ S
        BY <3>4, <2>5, <3>6 DEF Matches
      <4>2. e \notin S
        BY <2>5, <3>4, <4>1 DEF Found
      <4>3. Cardinality(S) = Pool(asked)
        BY <4>1 DEF Found
      <4>4. {x \in DOMAIN rows : text[x] # 0} = S
        BY <3>3, <3>5
      <4>5. Cardinality(S) < asked.limit
        BY <2>1, <2>3, <3>1, <3>5, <4>2, <4>4, LoneArmRules
      <4>6. QED
        BY <2>4, <4>3, <4>5
    <3>7. CASE d \in S
      <4>1. text[d] # 0
        BY <3>5, <3>7
      <4>2. text[e] = 0 \/ text[d] < text[e]
        <5>1. ASSUME e \in S PROVE text[d] < text[e]
          <6>1. Above(S, d) \in SUBSET Above(S, e) /\ d \in Above(S, e) /\ d \notin Above(S, d)
            BY <2>1, <2>5, <3>4, <3>7, RowsHaveValues DEF Above
          <6>2. Above(S, e) \in SUBSET DOMAIN rows /\ Above(S, d) \in SUBSET DOMAIN rows
            BY <3>3 DEF Above
          <6>3. IsFiniteSet(Above(S, e)) /\ Cardinality(Above(S, e)) \in Nat
                /\ Cardinality(Above(S, d)) \in Nat
            BY <2>1, <6>2, RowsAreFinite
          <6>4. /\ Cardinality(Above(S, d)) <= Cardinality(Above(S, e))
                /\ Cardinality(Above(S, d)) # Cardinality(Above(S, e))
            BY <6>1, <6>3, FS_Subset
          <6>5. /\ text[d] = 1 + Cardinality(Above(S, d))
                /\ text[e] = 1 + Cardinality(Above(S, e))
            BY <2>1, <2>2, <2>3, <3>3, <3>7, <5>1, TextRanks
          <6>6. QED
            BY <6>3, <6>4, <6>5
        <5>2. QED
          BY <2>3, <3>5, <5>1
      <4>3. QED
        BY <2>1, <2>2, <2>3, <3>1, <4>1, <4>2, LoneArmRules
    <3>8. QED
      BY <3>6, <3>7
  <2>6. CASE asked.bm25 = 0 /\ d \in scanned /\ rows[d].distance < rows[e].distance
    <3> DEFINE ranked == {x \in DOMAIN rows : vector[x] # 0}
    <3>1. LoneArm(asked, text, vector, vector)
      BY <2>1, <2>6, ArmIsAlone
    <3>2. /\ d \in scanned /\ scanned \in SUBSET DOMAIN rows /\ Cardinality(scanned) \in Nat
      BY <2>1, <2>6, RowsAreFinite DEF Scans
    <3>3. /\ order[d] \in Nat \ {0} /\ order[d] <= Cardinality(scanned)
          /\ e \in scanned => order[d] < order[e] /\ order[e] \in Nat \ {0}
      BY <2>1, <2>3, <2>6, <3>2, VectorRanks DEF Orders
    <3>4. VectorPool(asked) = Pool(asked)
      BY DEF VectorPool
    <3>5. /\ vector[d] = IF order[d] <= Pool(asked) THEN order[d] ELSE 0
          /\ e \notin scanned => vector[e] = 0
          /\ e \in scanned => vector[e] = IF order[e] <= Pool(asked) THEN order[e] ELSE 0
      BY <2>8, <2>3, <3>2, <3>4 DEF VectorRank
    <3>6. CASE vector[d] = 0
      <4>1. order[d] > Pool(asked) /\ vector[e] = 0
        BY <2>4, <3>3, <3>5, <3>6
      <4>2. Cardinality(ranked) < asked.limit
        BY <2>1, <2>3, <3>1, <4>1, LoneArmRules
      <4>3. Cardinality(ranked) = IF Pool(asked) < Cardinality(scanned)
                                  THEN Pool(asked) ELSE Cardinality(scanned)
        BY <2>1, <2>8, VectorArmFills
      <4> HIDE DEF ranked
      <4>4. QED
        BY <2>4, <3>2, <3>3, <4>1, <4>2, <4>3
    <3>7. CASE vector[d] # 0
      <4>1. vector[e] = 0 \/ vector[d] < vector[e]
        BY <3>3, <3>5, <3>7
      <4>2. QED
        BY <2>1, <2>2, <2>3, <3>1, <3>7, <4>1, LoneArmRules
    <3>8. QED
      BY <3>6, <3>7
  <2>7. QED
    BY <2>5, <2>6 DEF scanned
<1>2. QED
  BY <1>1, FusionInit, FusionStep, PTL DEF Spec
=============================================================================
