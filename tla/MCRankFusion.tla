----------------------------- MODULE MCRankFusion -----------------------------
\* A unit that the denominators divide, and arguments with and without a pool of
\* their own, with an arm of weight zero, and such as are refused.
EXTENDS RankFusion

MCShare == [n \in 1..Largest |-> 60 \div n]
MCOption ==
    [limit : 1..2, candidates : {None, 1}, k : 1..2, bm25 : {0, 2}, vector : {0, 3}]
    \cup [limit : {0}, candidates : {None}, k : {1}, bm25 : {2}, vector : {3}]
    \cup [limit : {1}, candidates : {None}, k : {0}, bm25 : {2}, vector : {3}]
=============================================================================
