------------------------------ MODULE RankFusion ------------------------------
(***************************************************************************)
(* The ranking of hybrid_search(): one statement ranks the rows of a table *)
(* twice, by BM25 score and by vector distance, cuts both rankings off at  *)
(* a pool, adds up reciprocal ranks and returns the best rows.  What is    *)
(* hard: the pools, rows that only one ranking has, weights of zero, ties, *)
(* which PostgreSQL breaks as it likes where the statement names no second *)
(* key, and the index on the vector column that a big table needs: unlike  *)
(* the sequential scan of a small one, its scan leaves rows out.           *)
(***************************************************************************)
EXTENDS Integers, FiniteSets

CONSTANTS
    Doc,       \* values of the id column: naturals, as they are ordered
    MaxScore,  \* BM25 scores are 1..MaxScore, and 0 where a row does not match
    Far,       \* distances are 1..Far, and Far is that of a NULL vector
    Option,    \* arguments of the calls
    Largest,   \* bound of rrf_k plus a rank
    Share,     \* [1..Largest -> Nat]: a unit divided by rrf_k plus a rank; of float8
               \* the order is modelled, not the rounding
    Headroom,  \* 5 in the code
    MinPool,   \* 50 in the code
    None

ASSUME FusionAssumption ==
    /\ Doc \subseteq Nat /\ IsFiniteSet(Doc)
    /\ MaxScore \in Nat /\ Far \in Nat
    /\ Option \subseteq [limit : Int, candidates : Nat \cup {None}, k : Int,
                         bm25 : Int, vector : Int]
    /\ Largest \in Nat
    /\ \A o \in Option : o.k + Cardinality(Doc) <= Largest
    /\ Share \in [1..Largest -> Nat \ {0}]
    /\ \A m, n \in 1..Largest : m < n => Share[m] > Share[n]
    /\ Headroom \in Nat \ {0} /\ MinPool \in Nat
    /\ None \notin Nat

Row == [score : 0..MaxScore, distance : 1..Far]

VARIABLES
    rows,   \* the table as the statement sees it
    asked,  \* the arguments of the call, or None
    answer  \* what the call returns, or None

vars == <<rows, asked, answer>>

\* _validate(), before any connection.
Valid(o) ==
    /\ o.limit >= 1
    /\ o.k >= 1
    /\ o.bm25 >= 0 /\ o.vector >= 0
    /\ ~(o.bm25 = 0 /\ o.vector = 0)

-----------------------------------------------------------------------------
\* The arms.  A rank of 0 is NULL.

\* Mutant of Pool: the pool is the minimum.
FixedPool(o) == MinPool
Pool(o) == IF o.limit * Headroom > MinPool THEN o.limit * Headroom ELSE MinPool
VectorPool(o) == IF o.candidates = None THEN Pool(o) ELSE o.candidates

Matches == {d \in DOMAIN rows : rows[d].score > 0}

\* stannum.search() with a limit: as many of the best matches, any of those that
\* tie at the limit.
Found(o) ==
    {S \in SUBSET Matches :
        /\ Cardinality(S) <= Pool(o)
        /\ Cardinality(S) = Pool(o) \/ S = Matches
        /\ \A d \in S, e \in Matches \ S : rows[d].score >= rows[e].score}

\* row_number() OVER (ORDER BY s.score DESC, id)
Above(S, d) ==
    {e \in S : \/ rows[e].score > rows[d].score
               \/ rows[e].score = rows[d].score /\ e < d}
TextRank(S) ==
    [d \in DOMAIN rows |-> IF d \in S THEN 1 + Cardinality(Above(S, d)) ELSE 0]

\* What the scan under the vector arm delivers: all rows, if it is a sequential one.
\* An hnsw, ivfflat or vchord index has no NULLs, and delivers as many of the others
\* as its search comes across and its settings allow (hnsw.ef_search).
Scans == {DOMAIN rows} \cup SUBSET {d \in DOMAIN rows : rows[d].distance # Far}

\* row_number() OVER (ORDER BY distance), in which ties come in any order.
Orders(scanned) ==
    {order \in [scanned -> 1..Cardinality(scanned)] :
        \A d, e \in scanned :
            /\ d # e => order[d] # order[e]
            /\ rows[d].distance < rows[e].distance => order[d] < order[e]}
VectorRank(o, scanned, order) ==
    [d \in DOMAIN rows |->
        IF d \in scanned THEN IF order[d] <= VectorPool(o) THEN order[d] ELSE 0 ELSE 0]

-----------------------------------------------------------------------------
\* The fusion.

\* Mutant of Part: the arm that misses a row ranks it before the first.
PartOfMissing(weight, k, rank) == weight * Share[k + rank]
Part(weight, k, rank) == IF rank = 0 THEN 0 ELSE weight * Share[k + rank]

\* Mutant of Score: the weights are swapped.
ScoreSwapped(o, text, vector, d) == Part(o.vector, o.k, text[d]) + Part(o.bm25, o.k, vector[d])
Score(o, text, vector, d) == Part(o.bm25, o.k, text[d]) + Part(o.vector, o.k, vector[d])

Fused(text, vector) == {d \in DOMAIN rows : text[d] # 0 \/ vector[d] # 0}

\* ORDER BY rrf_score DESC, id
Precedes(o, text, vector, d, e) ==
    \/ Score(o, text, vector, d) > Score(o, text, vector, e)
    \/ Score(o, text, vector, d) = Score(o, text, vector, e) /\ d < e
Ahead(o, text, vector, d) ==
    {e \in Fused(text, vector) : Precedes(o, text, vector, e, d)}
Hits(o, text, vector) ==
    {d \in Fused(text, vector) : Cardinality(Ahead(o, text, vector, d)) < o.limit}

-----------------------------------------------------------------------------
TypeOK ==
    /\ \E S \in SUBSET Doc : rows \in [S -> Row]
    /\ asked = None \/ (asked \in Option /\ asked.limit > 0 /\ asked.bm25 + asked.vector > 0)
    /\ answer = None \/ {answer.hits, answer.scanned} \subseteq SUBSET DOMAIN rows

Init ==
    /\ \E S \in SUBSET Doc : rows \in [S -> Row]
    /\ asked = None
    /\ answer = None

Ask(o) ==
    /\ asked = None
    /\ Valid(o)
    /\ asked' = o
    /\ UNCHANGED <<rows, answer>>

Answer ==
    /\ asked # None
    /\ answer = None
    /\ \E S \in Found(asked), scanned \in Scans : \E order \in Orders(scanned) :
          LET text == TextRank(S)
              vector == VectorRank(asked, scanned, order) IN
          answer' = [text |-> text, vector |-> vector, scanned |-> scanned,
                     hits |-> Hits(asked, text, vector)]
    /\ UNCHANGED <<rows, asked>>

Next == (\E o \in Option : Ask(o)) \/ Answer

Spec == Init /\ [][Next]_vars

-----------------------------------------------------------------------------
\* Properties.

Fuses(d) == Score(asked, answer.text, answer.vector, d)

\* A row that matches the query better and is closer than another one has no
\* lower score, whatever the pools cut off and wherever ties fall; and it is
\* not left out for it, unless the scores are equal and the id decides.  An index
\* that finds the farther of two rows must have found the closer one.
FusionIsMonotone ==
    answer # None =>
        \A d, e \in DOMAIN rows :
            /\ rows[d].score > rows[e].score \/ rows[e].score = 0
            /\ rows[d].distance < rows[e].distance
            /\ e \in answer.scanned => d \in answer.scanned
            => /\ Fuses(d) >= Fuses(e)
               /\ e \in answer.hits =>
                     d \in answer.hits \/ (Fuses(d) = Fuses(e) /\ e < d)

\* With the default pools a search returns as many rows as the limit allows of those
\* that match or that the vector arm's scan delivers: of all rows, with a sequential
\* scan, also if few match and many have no vector; of all that match, however few
\* rows an index delivers.
EnoughHits ==
    answer # None /\ asked.candidates = None =>
        LET found == Cardinality(Matches \cup answer.scanned) IN
        Cardinality(answer.hits) = IF found < asked.limit THEN found ELSE asked.limit

\* An arm of weight zero displaces no row that the other arm ranks better, as far
\* as the default pools go and an index delivers the row at all.
SilentArmDisplacesNobody ==
    answer # None /\ asked.candidates = None =>
        \A d \in DOMAIN rows, e \in answer.hits :
            \/ asked.vector = 0 /\ rows[d].score > rows[e].score
            \/ /\ asked.bm25 = 0
               /\ d \in answer.scanned
               /\ rows[d].distance < rows[e].distance
            => d \in answer.hits
=============================================================================
