-------------------------- MODULE InstallPathProofs --------------------------
(***************************************************************************)
(* For any versions and scripts: what the search of InstallPath returns is *)
(* a chain, and there is no better one.  The second proof is that of       *)
(* breadth-first search, with the level of each visited version as a       *)
(* function whose existence is part of the invariant.                      *)
(***************************************************************************)
EXTENDS InstallPath, SequenceTheorems, WellFoundedInduction, TLAPS

-----------------------------------------------------------------------------
\* Least elements, and sequences that lose their head or get one more element.

Below == {ss \in Nat \X Nat : ss[1] < ss[2]}

LEMMA LeastExists ==
    ASSUME NEW B, B \subseteq Nat, B # {}
    PROVE  \E m \in B : \A n \in B : m <= n
<1>1. IsWellFoundedOn(Below, Nat)
  BY NatLessThanWellFounded DEF OpToRel, Below
<1>2. PICK m \in B : \A n \in B : <<n, m>> \notin Below
  BY <1>1, WFMin
<1>3. ASSUME NEW n \in B PROVE m <= n
  <2>1. <<n, m>> \notin Below /\ <<n, m>> \in Nat \X Nat
    BY <1>2
  <2>2. ~(n < m)
    BY <2>1 DEF Below
  <2>3. QED
    BY <2>2
<1>4. QED
  BY <1>3

LEMMA AppendIs ==
    ASSUME NEW S, NEW s \in Seq(S), NEW x \in S
    PROVE  /\ Append(s, x) \in Seq(S)
           /\ Len(Append(s, x)) = Len(s) + 1
           /\ Len(s) \in Nat
           /\ \A i \in 1..Len(s) : Append(s, x)[i] = s[i]
           /\ Append(s, x)[Len(s) + 1] = x
  OBVIOUS

LEMMA TailIs ==
    ASSUME NEW S, NEW s \in Seq(S), s # <<>>
    PROVE  /\ Tail(s) \in Seq(S)
           /\ Len(s) \in Nat /\ Len(s) >= 1
           /\ Len(Tail(s)) = Len(s) - 1
           /\ \A i \in 1..Len(Tail(s)) : Tail(s)[i] = s[i + 1]
           /\ Head(s) = s[1] /\ Head(s) \in S
  OBVIOUS

-----------------------------------------------------------------------------
\* What is in the queue is a chain, and so is what is found.

Open(p) == p \in Seq(Version) /\ Chain(p)
ChainInv ==
    /\ TypeOK
    /\ \A i \in 1..Len(queue) : Open(queue[i])
    /\ pending # {} => Open(path) /\ pending \subseteq Updates(path[Len(path)])
    /\ \A p \in candidates : Complete(p)
    /\ answer \notin {None, NotFound} => Complete(answer)

\* A chain extended by an update to a version without install script.
LEMMA Extended ==
    ASSUME NEW p, Open(p), NEW v \in Version, v \notin install,
           <<p[Len(p)], v>> \in update
    PROVE  Open(Append(p, v))
<1> DEFINE q == Append(p, v)
<1>1. p \in Seq(Version) /\ Chain(p) /\ Len(p) \in Nat /\ Len(p) >= 1
  BY DEF Open, Chain
<1>2. /\ q \in Seq(Version) /\ Len(q) = Len(p) + 1
      /\ \A i \in 1..Len(p) : q[i] = p[i]
      /\ q[Len(p) + 1] = v
  BY <1>1, AppendIs
<1> HIDE DEF q
<1>3. q # <<>> /\ q[1] \in install
  BY <1>1, <1>2 DEF Chain
<1>4. ASSUME NEW i \in 1..(Len(q) - 1) PROVE <<q[i], q[i + 1]>> \in update
  <2>1. CASE i = Len(p)
    <3>1. q[i] = p[Len(p)] /\ q[i + 1] = v
      BY <2>1, <1>1, <1>2
    <3>2. QED
      BY <3>1
  <2>2. CASE i # Len(p)
    <3>1. i \in 1..(Len(p) - 1) /\ i \in 1..Len(p) /\ i + 1 \in 1..Len(p)
      BY <2>2, <1>1, <1>2
    <3>2. QED
      BY <3>1, <1>1, <1>2 DEF Chain
  <2>3. QED
    BY <2>1, <2>2
<1>5. ASSUME NEW i \in 2..Len(q) PROVE q[i] \notin install
  <2>1. CASE i = Len(p) + 1
    BY <2>1, <1>2
  <2>2. CASE i # Len(p) + 1
    <3>1. i \in 2..Len(p) /\ i \in 1..Len(p)
      BY <2>2, <1>1, <1>2
    <3>2. QED
      BY <3>1, <1>1, <1>2 DEF Chain
  <2>3. QED
    BY <2>1, <2>2
<1>6. QED
  BY <1>2, <1>3, <1>4, <1>5 DEF Open, Chain, q

LEMMA ChainInit == Init => ChainInv
  BY VersionAssumption DEF Init, ChainInv, TypeOK

\* The choice of files does not change, so what was a chain stays one.
LEMMA ChainsStay ==
    ASSUME UNCHANGED files, NEW p
    PROVE  /\ Chain(p) <=> Chain(p)'
           /\ Complete(p) <=> Complete(p)'
           /\ Open(p) <=> Open(p)'
  BY DEF files, Chain, Complete, Open

LEMMA ChainStep == ChainInv /\ [Next]_vars => ChainInv'
<1> SUFFICES ASSUME ChainInv, [Next]_vars PROVE ChainInv'
  OBVIOUS
<1>0. UNCHANGED files
  BY DEF Next, Direct, Start, Take, Skip, Meet, Arrive, Answer, vars
<1>1. /\ install' = install /\ update' = update
      /\ \A p : Chain(p)' <=> Chain(p)
      /\ \A p : Complete(p)' <=> Complete(p)
      /\ \A p : Open(p)' <=> Open(p)
      /\ \A v : Updates(v)' = Updates(v)
  BY <1>0, ChainsStay DEF files, Updates
<1>2. CASE Direct
  <2>1. <<Default>> \in Seq(Version) /\ Complete(<<Default>>)
    BY <1>2, VersionAssumption DEF Direct, Complete, Chain
  <2>2. QED
    BY <2>1, <1>1, <1>2 DEF Direct, ChainInv, TypeOK
<1>3. CASE Start
  <2>1. PICK s \in starts : /\ starts' = starts \ {s}
                            /\ queue' = << <<s>> >>
                            /\ visited' = {s}
    BY <1>3 DEF Start, Least, Seen
  <2>2. <<s>> \in Seq(Version) /\ Open(<<s>>) /\ s \in Version
    BY <2>1 DEF ChainInv, TypeOK, Open, Chain
  <2>3. queue' \in Seq(Seq(Version)) /\ \A i \in 1..Len(queue') : Open(queue'[i])
    BY <2>1, <2>2
  <2>4. QED
    BY <2>1, <2>2, <2>3, <1>1, <1>3 DEF Start, ChainInv, TypeOK
<1>4. CASE Take
  <2>1. /\ queue' = Tail(queue) /\ path' = queue[1] /\ Len(queue) >= 1
        /\ queue' \in Seq(Seq(Version))
        /\ Len(queue) \in Nat
        /\ Len(queue') = Len(queue) - 1
        /\ \A i \in 1..Len(queue') : queue'[i] = queue[i + 1]
    BY <1>4, TailIs DEF Take, Popped, ChainInv, TypeOK
  <2>2. \A i \in 1..Len(queue') : Open(queue'[i])
    BY <2>1 DEF ChainInv, TypeOK
  <2>3. Open(path')
    BY <2>1 DEF ChainInv, TypeOK
  <2>4. pending' = Updates(path'[Len(path')]) /\ pending' \subseteq Version
    BY <1>4 DEF Take, Updates
  <2>5. QED
    BY <2>1, <2>2, <2>3, <2>4, <1>1, <1>4 DEF Take, ChainInv, TypeOK
<1>5. CASE Skip
  BY <1>1, <1>5 DEF Skip, Least, ChainInv, TypeOK
<1>6. CASE Meet
  <2>1. PICK v \in pending : /\ visited' = visited \cup {v}
                             /\ queue' = Queued(v)
                             /\ pending' = pending \ {v}
    BY <1>6 DEF Meet, Least
  <2>2. v \in Version /\ Open(path) /\ <<path[Len(path)], v>> \in update
    BY <2>1 DEF ChainInv, TypeOK, Updates
  <2>3. queue' \in Seq(Seq(Version)) /\ \A i \in 1..Len(queue') : Open(queue'[i])
    <3>1. CASE v \in install
      BY <3>1, <2>1 DEF Queued, ChainInv, TypeOK
    <3>2. CASE v \notin install
      <4>1. Open(Append(path, v)) /\ Append(path, v) \in Seq(Version)
        BY <3>2, <2>2, Extended DEF Open
      <4>2. /\ queue' \in Seq(Seq(Version)) /\ Len(queue) \in Nat
            /\ Len(queue') = Len(queue) + 1
            /\ \A i \in 1..Len(queue) : queue'[i] = queue[i]
            /\ queue'[Len(queue) + 1] = Append(path, v)
        BY <4>1, <3>2, <2>1, AppendIs DEF Queued, ChainInv, TypeOK
      <4>3. ASSUME NEW i \in 1..Len(queue') PROVE Open(queue'[i])
        <5>1. i \in 1..Len(queue) \/ i = Len(queue) + 1
          BY <4>2
        <5>2. CASE i \in 1..Len(queue)
          BY <5>2, <4>2 DEF ChainInv, TypeOK
        <5>3. CASE i = Len(queue) + 1
          BY <5>3, <4>1, <4>2
        <5>4. QED
          BY <5>1, <5>2, <5>3
      <4>4. QED
        BY <4>2, <4>3
    <3>3. QED
      BY <3>1, <3>2
  <2>4. QED
    BY <2>1, <2>2, <2>3, <1>1, <1>6 DEF Meet, ChainInv, TypeOK
<1>7. CASE Arrive
  <2>1. Default \in pending /\ Default \notin install
    BY <1>7 DEF Arrive, Least, Searching
  <2>2. Open(path) /\ <<path[Len(path)], Default>> \in update /\ Default \in Version
    BY <2>1 DEF ChainInv, TypeOK, Updates
  <2>3. Open(Append(path, Default))
    BY <2>1, <2>2, Extended
  <2>4. Append(path, Default) \in Seq(Version) /\ Complete(Append(path, Default))
    BY <2>2, <2>3, AppendIs DEF Open, Complete
  <2>5. candidates' \subseteq Seq(Version) /\ \A p \in candidates' : Complete(p)'
    BY <2>4, <1>1, <1>7 DEF Arrive, ChainInv, TypeOK
  <2>6. queue' \in Seq(Seq(Version)) /\ (\A i \in 1..Len(queue) : Open(queue[i]))'
    BY <1>7 DEF Arrive
  <2>7. QED
    BY <2>5, <2>6, <1>1, <1>7 DEF Arrive, ChainInv, TypeOK
<1>8. CASE Answer
  <2>1. answer' = NotFound \/ answer' \in candidates
    BY <1>8 DEF Answer
  <2>2. QED
    BY <2>1, <1>1, <1>8 DEF Answer, ChainInv, TypeOK
<1>9. CASE UNCHANGED vars
  BY <1>1, <1>9 DEF vars, ChainInv, TypeOK
<1>10. QED
  BY <1>2, <1>3, <1>4, <1>5, <1>6, <1>7, <1>8, <1>9 DEF Next

\* The variables keep their types.
THEOREM TypeCorrect == Spec => []TypeOK
<1>1. ChainInv => TypeOK
  BY DEF ChainInv
<1>2. QED
  BY <1>1, ChainInit, ChainStep, PTL DEF Spec

\* The scripts that the search returns install the default version, by a chain
\* that CREATE EXTENSION takes.
THEOREM AnswersInstall == Spec => []AnswerInstalls
<1>1. ChainInv => AnswerInstalls
  BY DEF ChainInv, TypeOK, AnswerInstalls
<1>2. QED
  BY <1>1, ChainInit, ChainStep, PTL DEF Spec

-----------------------------------------------------------------------------
\* The search ends: there is always a step, and every step uses something up.

\* One of the actions can be taken.
Continues ==
    \/ Default \in install
    \/ pending # {} /\ Least(pending) # {}
    \/ pending = {} /\ queue # <<>>
    \/ pending = {} /\ queue = <<>> /\ Least(starts) # {}
    \/ /\ pending = {} /\ queue = <<>> /\ starts = {}
       /\ \/ candidates = {}
          \/ \E p \in candidates : \A q \in candidates : Better(p, q)

LEMMA BestExists ==
    ASSUME NEW S \in SUBSET Seq(Version), S # {}, \A p \in S : p # <<>>
    PROVE  \E p \in S : \A q \in S : Better(p, q)
<1>1. ASSUME NEW p \in S
      PROVE  Len(p) \in Nat /\ p[1] \in Nat
  <2>1. p \in Seq(Version) /\ Len(p) \in Nat /\ Len(p) >= 1
    OBVIOUS
  <2>2. p[1] \in Version
    BY <2>1
  <2>3. QED
    BY <2>1, <2>2, VersionAssumption
<1> DEFINE Lengths == {Len(p) : p \in S}
<1>2. PICK l \in Lengths : \A n \in Lengths : l <= n
  <2>1. Lengths \subseteq Nat /\ Lengths # {}
    BY <1>1
  <2> HIDE DEF Lengths
  <2>2. QED
    BY <2>1, LeastExists
<1> DEFINE Firsts == {p[1] : p \in {q \in S : Len(q) = l}}
<1>3. PICK f \in Firsts : \A n \in Firsts : f <= n
  <2>1. Firsts \subseteq Nat /\ Firsts # {}
    BY <1>1, <1>2
  <2> HIDE DEF Firsts
  <2>2. QED
    BY <2>1, LeastExists
<1>4. PICK p \in S : Len(p) = l /\ p[1] = f
  BY <1>3
<1>5. ASSUME NEW q \in S PROVE Better(p, q)
  <2>1. Len(q) \in Nat /\ Len(p) \in Nat /\ l <= Len(q)
    BY <1>1, <1>2
  <2>2. CASE Len(q) = l
    BY <2>2, <1>3, <1>4 DEF Better
  <2>3. CASE Len(q) # l
    BY <2>1, <2>3, <1>4 DEF Better
  <2>4. QED
    BY <2>2, <2>3
<1>6. QED
  BY <1>5

\* No search gets stuck without an answer.
THEOREM SearchContinues == Spec => [](answer = None => Continues)
<1>1. ASSUME ChainInv, answer = None PROVE Continues
  <2>1. \A S \in SUBSET Version : S # {} => Least(S) # {}
    <3> SUFFICES ASSUME NEW S \in SUBSET Version, S # {} PROVE Least(S) # {}
      OBVIOUS
    <3>1. \E m \in S : \A n \in S : m <= n
      BY VersionAssumption, LeastExists
    <3>2. QED
      BY <3>1 DEF Least
  <2>2. pending \in SUBSET Version /\ starts \in SUBSET Version
    BY <1>1 DEF ChainInv, TypeOK
  <2>3. candidates # {} => \E p \in candidates : \A q \in candidates : Better(p, q)
    <3>1. candidates \in SUBSET Seq(Version) /\ \A p \in candidates : p # <<>>
      BY <1>1 DEF ChainInv, TypeOK, Complete, Chain
    <3>2. QED
      BY <3>1, BestExists
  <2>4. QED
    BY <2>1, <2>2, <2>3 DEF Continues
<1>2. ChainInv => (answer = None => Continues)
  BY <1>1
<1>3. QED
  BY <1>2, ChainInit, ChainStep, PTL DEF Spec

\* Every step answers or goes down in this order: starts, versions not visited,
\* the queue, updates to look at.  Each of them is finite, so that the number of
\* steps is bounded whatever circles the scripts go in.
Subsides ==
    \/ answer = None /\ answer' # None
    \/ starts' \subseteq starts /\ starts' # starts
    \/ starts' = starts /\ visited \subseteq visited' /\ visited' # visited
    \/ UNCHANGED <<starts, visited>> /\ Len(queue') < Len(queue)
    \/ /\ UNCHANGED <<starts, visited>> /\ Len(queue') <= Len(queue)
       /\ pending' \subseteq pending /\ pending' # pending
SearchSubsides == [][Subsides]_vars

THEOREM SearchAdvances == Spec => SearchSubsides
<1>1. ASSUME ChainInv, Next PROVE Subsides
  <2>1. queue \in Seq(Seq(Version)) /\ Len(queue) \in Nat /\ None \notin Seq(Version)
    BY <1>1, VersionAssumption DEF ChainInv, TypeOK
  <2>2. CASE Direct
    <3>1. <<Default>> \in Seq(Version)
      BY VersionAssumption
    <3>2. QED
      BY <2>1, <2>2, <3>1 DEF Direct, Subsides
  <2>3. CASE Start
    BY <2>3 DEF Start, Least, Subsides
  <2>4. CASE Take
    <3>1. Len(Tail(queue)) = Len(queue) - 1
      BY <2>1, <2>4, TailIs DEF Take
    <3>2. QED
      BY <2>1, <2>4, <3>1 DEF Take, Popped, Subsides
  <2>5. CASE Skip
    BY <2>1, <2>5 DEF Skip, Least, Subsides
  <2>6. CASE Meet
    BY <2>6 DEF Meet, Least, Subsides
  <2>7. CASE Arrive
    <3>1. Len(queue') = 0
      BY <2>7 DEF Arrive
    <3>2. pending # {} /\ pending' = {} /\ UNCHANGED <<starts, visited>>
      BY <2>7 DEF Arrive, Least
    <3>3. QED
      BY <2>1, <3>1, <3>2 DEF Subsides
  <2>8. CASE Answer
    <3>1. candidates \subseteq Seq(Version)
      BY <1>1 DEF ChainInv, TypeOK
    <3>2. answer = None /\ answer' # None
      BY <2>1, <2>8, <3>1, VersionAssumption DEF Answer, Searching
    <3>3. QED
      BY <3>2 DEF Subsides
  <2>9. QED
    BY <1>1, <2>2, <2>3, <2>4, <2>5, <2>6, <2>7, <2>8 DEF Next
<1>2. ChainInv /\ [Next]_vars => [Subsides]_vars
  BY <1>1
<1>3. QED
  BY <1>2, ChainInit, ChainStep, PTL DEF Spec, SearchSubsides

-----------------------------------------------------------------------------
\* Nothing is missed.  d[v] is the level of v: an upper bound of the versions on
\* the way to it.

Searched(t) ==
    \A p \in Seq(Version) :
        Complete(p) /\ p[1] = t => \E c \in candidates : c[1] = t /\ Len(c) <= Len(p)

\* A chain of at most n versions to v is queued, or is being extended by w.
InQueue(v, n) ==
    \E k \in 1..Len(queue) : queue[k][Len(queue[k])] = v /\ Len(queue[k]) <= n
InHand(v, w, n) == w \in pending /\ path[Len(path)] = v /\ Len(path) <= n

Layered(t, d) ==
    /\ d \in [visited -> Nat]
    /\ t \in visited /\ d[t] = 1
    /\ Default \notin visited
    /\ \A v \in visited : v = t \/ v \notin install =>
          \/ InQueue(v, d[v])
          \/ \A w \in Updates(v) :
                (w \in visited /\ d[w] <= d[v] + 1) \/ InHand(v, w, d[v])

\* No level is beyond that of the next chain but one.
Bounded(d) ==
    /\ pending # {} => \A v \in visited : d[v] <= Len(path) + 1
    /\ pending = {} /\ queue # <<>> => \A v \in visited : d[v] <= Len(queue[1]) + 1

Sorted ==
    /\ \A i, j \in 1..Len(queue) :
          i <= j => Len(queue[i]) <= Len(queue[j]) /\ Len(queue[j]) <= Len(queue[i]) + 1
    /\ pending # {} => \A i \in 1..Len(queue) :
          Len(path) <= Len(queue[i]) /\ Len(queue[i]) <= Len(path) + 1

From(t) ==
    /\ pending # {} => path[1] = t
    /\ \A i \in 1..Len(queue) : queue[i][1] = t

Active(t) ==
    /\ From(t)
    /\ Sorted
    /\ \E d \in [visited -> Nat] : Layered(t, d) /\ Bounded(d)

\* The least version of a complete chain that is not at its level follows one
\* that is queued or in hand.
LEMMA Frontier ==
    ASSUME ChainInv, NEW t, NEW d \in [visited -> Nat], Layered(t, d),
           NEW p \in Seq(Version), Complete(p), p[1] = t
    PROVE  \E i \in 1..(Len(p) - 1) : InQueue(p[i], i) \/ InHand(p[i], p[i + 1], i)
<1> DEFINE B == {j \in 1..Len(p) : ~(p[j] \in visited /\ d[p[j]] <= j)}
<1>1. /\ Len(p) \in Nat /\ Len(p) >= 1
      /\ p[Len(p)] = Default
      /\ \A i \in 1..(Len(p) - 1) : <<p[i], p[i + 1]>> \in update
      /\ \A i \in 2..Len(p) : p[i] \notin install
      /\ \A i \in 1..Len(p) : p[i] \in Version
  BY DEF Complete, Chain
<1>2. Len(p) \in B
  BY <1>1 DEF Layered
<1>3. B \subseteq Nat /\ B # {}
  BY <1>1, <1>2
<1>4. PICK m \in B : \A n \in B : m <= n
  BY <1>3, LeastExists
<1>5. m \in 1..Len(p) /\ ~(p[m] \in visited /\ d[p[m]] <= m) /\ m \in Nat
  BY <1>1, <1>4
<1>6. m # 1
  BY <1>5 DEF Layered
<1> DEFINE i == m - 1
<1>7. i \in 1..(Len(p) - 1) /\ i \in 1..Len(p) /\ i \in Nat /\ i + 1 = m
  BY <1>1, <1>5, <1>6
<1>8. i \notin B
  BY <1>4, <1>5, <1>7
<1>9. p[i] \in visited /\ d[p[i]] <= i /\ d[p[i]] \in Nat
  BY <1>7, <1>8
<1>10. p[i] = t \/ p[i] \notin install
  <2>1. CASE i = 1
    BY <2>1
  <2>2. CASE i # 1
    <3>1. i \in 2..Len(p)
      BY <2>2, <1>1, <1>7
    <3>2. QED
      BY <3>1, <1>1
  <2>3. QED
    BY <2>1, <2>2
<1>11. p[m] \in Updates(p[i])
  BY <1>1, <1>5, <1>7 DEF Updates
<1>12. \/ InQueue(p[i], d[p[i]])
       \/ p[m] \in visited /\ d[p[m]] <= d[p[i]] + 1
       \/ InHand(p[i], p[m], d[p[i]])
  BY <1>9, <1>10, <1>11 DEF Layered
<1> HIDE DEF B, i
<1>13. CASE InQueue(p[i], d[p[i]])
  <2>1. PICK k \in 1..Len(queue) : queue[k][Len(queue[k])] = p[i] /\ Len(queue[k]) <= d[p[i]]
    BY <1>13 DEF InQueue
  <2>2. Len(queue[k]) \in Nat
    BY DEF ChainInv, TypeOK
  <2>3. InQueue(p[i], i)
    BY <2>1, <2>2, <1>7, <1>9 DEF InQueue
  <2>4. QED
    BY <2>3, <1>7
<1>14. CASE p[m] \in visited /\ d[p[m]] <= d[p[i]] + 1
  <2>1. d[p[m]] \in Nat
    BY <1>14
  <2>2. QED
    BY <2>1, <1>14, <1>5, <1>7, <1>9
<1>15. CASE InHand(p[i], p[m], d[p[i]])
  <2>1. Len(path) \in Nat
    BY <1>15 DEF InHand, ChainInv, TypeOK, Open
  <2>2. InHand(p[i], p[i + 1], i)
    BY <2>1, <1>15, <1>7, <1>9 DEF InHand
  <2>3. QED
    BY <2>2, <1>7
<1>16. QED
  BY <1>12, <1>13, <1>14, <1>15

\* A start whose queue has run empty without a chain leads to none.
LEMMA Exhausted ==
    ASSUME ChainInv, NEW t, Active(t), queue = <<>>, pending = {}
    PROVE  Searched(t)
<1> SUFFICES ASSUME NEW p \in Seq(Version), Complete(p), p[1] = t PROVE FALSE
  BY DEF Searched
<1>1. PICK d \in [visited -> Nat] : Layered(t, d)
  BY DEF Active
<1>2. PICK i \in 1..(Len(p) - 1) : InQueue(p[i], i) \/ InHand(p[i], p[i + 1], i)
  BY <1>1, Frontier
<1>3. Len(queue) = 0
  OBVIOUS
<1>4. QED
  BY <1>2, <1>3 DEF InQueue, InHand

\* While a chain is in hand no complete one is shorter than its extensions.
LEMMA NothingShorter ==
    ASSUME ChainInv, NEW t, Active(t), pending # {},
           NEW p \in Seq(Version), Complete(p), p[1] = t
    PROVE  Len(path) + 1 <= Len(p)
<1>1. PICK d \in [visited -> Nat] : Layered(t, d)
  BY DEF Active
<1>2. PICK i \in 1..(Len(p) - 1) : InQueue(p[i], i) \/ InHand(p[i], p[i + 1], i)
  BY <1>1, Frontier
<1>3. Len(path) \in Nat /\ Len(p) \in Nat
  BY DEF ChainInv, TypeOK, Open
<1>4. CASE InQueue(p[i], i)
  <2>1. PICK k \in 1..Len(queue) : Len(queue[k]) <= i
    BY <1>4 DEF InQueue
  <2>2. Len(path) <= Len(queue[k]) /\ Len(queue[k]) \in Nat
    BY <2>1 DEF Active, Sorted, ChainInv, TypeOK
  <2>3. QED
    BY <2>1, <2>2, <1>3
<1>5. CASE InHand(p[i], p[i + 1], i)
  BY <1>3, <1>5 DEF InHand
<1>6. QED
  BY <1>2, <1>4, <1>5

\* The level function of a new start.
LEMMA StartActive ==
    ASSUME ChainInv, Searching, NEW s \in starts, Start,
           queue' = << <<s>> >>, visited' = {s}
    PROVE  Active(s)'
<1> DEFINE d == [v \in {s} |-> 1]
<1>1. /\ pending' = {} /\ Len(queue') = 1 /\ queue'[1] = <<s>> /\ s # Default
      /\ \A i \in 1..Len(queue') : i = 1 /\ queue'[i] = <<s>>
  BY DEF Start, Searching, ChainInv, TypeOK
<1>2. d \in [visited' -> Nat] /\ d[s] = 1
  OBVIOUS
<1> HIDE DEF d
<1>3. InQueue(s, d[s])'
  BY <1>1, <1>2 DEF InQueue
<1>4. Layered(s, d)'
  BY <1>1, <1>2, <1>3 DEF Layered
<1>5. Bounded(d)' /\ Sorted' /\ From(s)'
  BY <1>1, <1>2 DEF Bounded, Sorted, From
<1>6. QED
  BY <1>2, <1>4, <1>5 DEF Active

\* The chain taken from the queue is in hand, with all its updates.
LEMMA TakeActive ==
    ASSUME ChainInv, NEW t, Active(t), Take
    PROVE  Active(t)'
<1>1. /\ path' = queue[1] /\ Len(queue) \in Nat /\ Len(queue) >= 1
      /\ Len(queue') = Len(queue) - 1
      /\ \A i \in 1..Len(queue') : queue'[i] = queue[i + 1]
      /\ \A i \in 1..Len(queue) : Len(queue[i]) \in Nat
      /\ pending = {} /\ queue # <<>>
      /\ visited' = visited /\ install' = install /\ update' = update
      /\ pending' = Updates(path'[Len(path')])
      /\ \A v : Updates(v)' = Updates(v)
  BY TailIs DEF Take, Popped, ChainInv, TypeOK, files, Updates
<1>2. PICK d \in [visited -> Nat] : Layered(t, d) /\ Bounded(d)
  BY DEF Active
<1>3. ASSUME NEW v \in visited', v = t \/ v \notin install'
      PROVE  \/ InQueue(v, d[v])'
             \/ \A w \in Updates(v)' :
                   (w \in visited' /\ d[w] <= d[v] + 1) \/ InHand(v, w, d[v])'
  <2>1. \/ InQueue(v, d[v])
        \/ \A w \in Updates(v) : w \in visited /\ d[w] <= d[v] + 1
    BY <1>1, <1>2, <1>3 DEF Layered, InHand
  <2>2. CASE InQueue(v, d[v])
    <3>1. PICK k \in 1..Len(queue) : queue[k][Len(queue[k])] = v /\ Len(queue[k]) <= d[v]
      BY <2>2 DEF InQueue
    <3>2. CASE k = 1
      <4>1. \A w \in Updates(v) : InHand(v, w, d[v])'
        BY <1>1, <3>1, <3>2 DEF InHand
      <4>2. QED
        BY <4>1, <1>1
    <3>3. CASE k # 1
      <4>1. k - 1 \in 1..Len(queue') /\ queue'[k - 1] = queue[k]
        BY <1>1, <3>3
      <4>2. QED
        BY <4>1, <3>1 DEF InQueue
    <3>4. QED
      BY <3>2, <3>3
  <2>3. CASE \A w \in Updates(v) : w \in visited /\ d[w] <= d[v] + 1
    BY <2>3, <1>1
  <2>4. QED
    BY <2>1, <2>2, <2>3
<1>4. Layered(t, d)'
  BY <1>1, <1>2, <1>3 DEF Layered
<1>5. \A i, j \in 1..Len(queue) :
        i <= j => Len(queue[i]) <= Len(queue[j]) /\ Len(queue[j]) <= Len(queue[i]) + 1
  BY DEF Active, Sorted
<1>6. Sorted'
  <2>1. ASSUME NEW i \in 1..Len(queue'), NEW j \in 1..Len(queue'), i <= j
        PROVE  Len(queue'[i]) <= Len(queue'[j]) /\ Len(queue'[j]) <= Len(queue'[i]) + 1
    <3>1. /\ i + 1 \in 1..Len(queue) /\ j + 1 \in 1..Len(queue) /\ i + 1 <= j + 1
          /\ queue'[i] = queue[i + 1] /\ queue'[j] = queue[j + 1]
      BY <1>1, <2>1
    <3>2. QED
      BY <3>1, <1>5
  <2>2. ASSUME NEW i \in 1..Len(queue')
        PROVE  Len(path') <= Len(queue'[i]) /\ Len(queue'[i]) <= Len(path') + 1
    <3>1. i + 1 \in 1..Len(queue) /\ 1 \in 1..Len(queue) /\ 1 <= i + 1 /\ queue'[i] = queue[i + 1]
      BY <1>1
    <3>2. QED
      BY <3>1, <1>1, <1>5
  <2>3. QED
    BY <2>1, <2>2 DEF Sorted
<1>7. Bounded(d)'
  <2>1. \A v \in visited : d[v] <= Len(queue[1]) + 1
    BY <1>1, <1>2 DEF Bounded
  <2>2. ASSUME queue' # <<>> PROVE \A v \in visited : d[v] <= Len(queue'[1]) + 1
    <3>1. 1 \in 1..Len(queue') /\ 1 \in 1..Len(queue) /\ 2 \in 1..Len(queue) /\ queue'[1] = queue[2]
      BY <1>1, <2>2 DEF Take, Popped, ChainInv, TypeOK
    <3>2. Len(queue[1]) <= Len(queue[2]) /\ Len(queue[1]) \in Nat /\ Len(queue[2]) \in Nat
      BY <3>1, <1>1, <1>5
    <3>3. QED
      BY <3>1, <3>2, <2>1
  <2>3. QED
    BY <2>1, <2>2, <1>1 DEF Bounded
<1>8. From(t)'
  <2>1. \A i \in 1..Len(queue) : queue[i][1] = t
    BY DEF Active, From
  <2>2. ASSUME NEW i \in 1..Len(queue') PROVE queue'[i][1] = t
    <3>1. i + 1 \in 1..Len(queue) /\ queue'[i] = queue[i + 1]
      BY <1>1
    <3>2. QED
      BY <3>1, <2>1
  <2>3. path'[1] = t
    BY <2>1, <1>1
  <2>4. QED
    BY <2>2, <2>3 DEF From
<1>9. QED
  BY <1>1, <1>2, <1>4, <1>6, <1>7, <1>8 DEF Active

\* A version that was met before has a level that is low enough.
LEMMA SkipActive ==
    ASSUME ChainInv, NEW t, Active(t), Skip
    PROVE  Active(t)'
<1>1. PICK v \in pending : v \in visited /\ pending' = pending \ {v}
  BY DEF Skip, Least
<1>2. /\ queue' = queue /\ visited' = visited /\ path' = path
      /\ install' = install /\ update' = update
      /\ \A w : Updates(w)' = Updates(w)
      /\ pending # {}
      /\ Len(path) \in Nat /\ Len(queue) \in Nat
      /\ \A i \in 1..Len(queue) : Len(queue[i]) \in Nat
  BY <1>1 DEF Skip, files, Updates, ChainInv, TypeOK, Open
<1>3. PICK d \in [visited -> Nat] : Layered(t, d) /\ Bounded(d)
  BY DEF Active
<1>4. d[v] <= Len(path) + 1 /\ d[v] \in Nat
  BY <1>1, <1>2, <1>3 DEF Bounded
<1>5. ASSUME NEW u \in visited', u = t \/ u \notin install'
      PROVE  \/ InQueue(u, d[u])'
             \/ \A w \in Updates(u)' :
                   (w \in visited' /\ d[w] <= d[u] + 1) \/ InHand(u, w, d[u])'
  <2>1. CASE InQueue(u, d[u])
    BY <2>1, <1>2 DEF InQueue
  <2>2. CASE \A w \in Updates(u) :
               (w \in visited /\ d[w] <= d[u] + 1) \/ InHand(u, w, d[u])
    <3>1. ASSUME NEW w \in Updates(u), InHand(u, w, d[u])
          PROVE  (w \in visited' /\ d[w] <= d[u] + 1) \/ InHand(u, w, d[u])'
      <4>1. CASE w = v
        <5>1. Len(path) <= d[u] /\ d[u] \in Nat
          BY <3>1, <1>2, <1>5 DEF InHand
        <5>2. QED
          BY <5>1, <4>1, <1>1, <1>2, <1>4
      <4>2. CASE w # v
        BY <4>2, <3>1, <1>1, <1>2 DEF InHand
      <4>3. QED
        BY <4>1, <4>2
    <3>2. QED
      BY <3>1, <2>2, <1>2
  <2>3. QED
    BY <2>1, <2>2, <1>2, <1>3, <1>5 DEF Layered
<1>6. Layered(t, d)'
  BY <1>2, <1>3, <1>5 DEF Layered
<1>7. Sorted' /\ From(t)'
  BY <1>1, <1>2 DEF Active, Sorted, From
<1>8. Bounded(d)'
  <2>1. \A u \in visited : d[u] <= Len(path) + 1 /\ d[u] \in Nat
    BY <1>2, <1>3 DEF Bounded
  <2>2. ASSUME queue # <<>> PROVE \A u \in visited : d[u] <= Len(queue[1]) + 1
    <3>1. 1 \in 1..Len(queue)
      BY <2>2, <1>2 DEF ChainInv, TypeOK
    <3>2. Len(path) <= Len(queue[1]) /\ Len(queue[1]) \in Nat
      BY <3>1, <1>2 DEF Active, Sorted
    <3>3. QED
      BY <3>2, <2>1, <1>2
  <2>3. QED
    BY <2>1, <2>2, <1>2 DEF Bounded
<1>9. QED
  BY <1>2, <1>3, <1>6, <1>7, <1>8 DEF Active

\* A version that is new gets the level of the chain to it.
LEMMA MeetActive ==
    ASSUME ChainInv, NEW t, Active(t), Meet
    PROVE  Active(t)'
<1>1. PICK v \in pending : /\ v \notin visited \cup {Default}
                           /\ visited' = visited \cup {v}
                           /\ queue' = Queued(v)
                           /\ pending' = pending \ {v}
  BY DEF Meet, Least
<1>2. /\ path' = path /\ install' = install /\ update' = update
      /\ \A w : Updates(w)' = Updates(w)
      /\ pending # {} /\ v \in Version
      /\ path \in Seq(Version) /\ Len(path) \in Nat /\ Len(queue) \in Nat
      /\ \A i \in 1..Len(queue) : Len(queue[i]) \in Nat
  BY <1>1 DEF Meet, files, Updates, ChainInv, TypeOK, Open
<1>3. PICK d \in [visited -> Nat] : Layered(t, d) /\ Bounded(d)
  BY DEF Active
<1>4. PICK e \in [visited' -> Nat] :
        /\ e[v] = Len(path) + 1
        /\ \A u \in visited : e[u] = d[u] /\ d[u] \in Nat
  <2> DEFINE f == [u \in visited \cup {v} |-> IF u = v THEN Len(path) + 1 ELSE d[u]]
  <2>1. f \in [visited' -> Nat] /\ f[v] = Len(path) + 1
    BY <1>1, <1>2, <1>3
  <2>2. \A u \in visited : f[u] = d[u] /\ d[u] \in Nat
    BY <1>1, <1>3
  <2>3. QED
    BY <2>1, <2>2
\* The queue keeps what it had; anything new is the chain to v at its end.
<1>5. /\ Len(queue') \in Nat /\ Len(queue) <= Len(queue')
      /\ \A i \in 1..Len(queue) : queue'[i] = queue[i]
      /\ \A i \in 1..Len(queue') : i \notin 1..Len(queue) =>
            /\ i = Len(queue')
            /\ Len(queue'[i]) = Len(path) + 1
            /\ queue'[i][1] = path[1]
            /\ queue'[i][Len(queue'[i])] = v
      /\ v \notin install => Len(queue') \notin 1..Len(queue) /\ Len(queue') \in 1..Len(queue')
  <2>1. CASE v \in install
    BY <2>1, <1>1, <1>2 DEF Queued
  <2>2. CASE v \notin install
    <3>1. /\ Append(path, v) \in Seq(Version)
          /\ Len(Append(path, v)) = Len(path) + 1
          /\ Append(path, v)[Len(path) + 1] = v
          /\ Append(path, v)[1] = path[1]
      BY <1>1, <1>2, AppendIs DEF ChainInv, TypeOK, Open, Chain
    <3>2. /\ Len(queue') = Len(queue) + 1
          /\ \A i \in 1..Len(queue) : queue'[i] = queue[i]
          /\ queue'[Len(queue) + 1] = Append(path, v)
      BY <3>1, <2>2, <1>1, AppendIs DEF Queued, ChainInv, TypeOK
    <3>3. \A i \in 1..Len(queue') : i \notin 1..Len(queue) => i = Len(queue) + 1
      BY <3>2, <1>2
    <3>4. QED
      BY <3>1, <3>2, <3>3, <2>2, <1>2
  <2>3. QED
    BY <2>1, <2>2
<1>6. ASSUME NEW u \in visited', u = t \/ u \notin install'
      PROVE  \/ InQueue(u, e[u])'
             \/ \A w \in Updates(u)' :
                   (w \in visited' /\ e[w] <= e[u] + 1) \/ InHand(u, w, e[u])'
  <2>1. CASE u = v
    <3>1. v \notin install
      BY <2>1, <1>1, <1>2, <1>3, <1>6 DEF Layered
    <3>2. InQueue(u, e[u])'
      BY <3>1, <2>1, <1>2, <1>4, <1>5 DEF InQueue
    <3>3. QED
      BY <3>2
  <2>2. CASE u # v /\ InQueue(u, d[u])
    <3>1. PICK k \in 1..Len(queue) : queue[k][Len(queue[k])] = u /\ Len(queue[k]) <= d[u]
      BY <2>2 DEF InQueue
    <3>2. u \in visited /\ k \in 1..Len(queue') /\ queue'[k] = queue[k]
      BY <3>1, <2>2, <1>1, <1>2, <1>5
    <3>3. InQueue(u, e[u])'
      BY <3>1, <3>2, <1>4 DEF InQueue
    <3>4. QED
      BY <3>3
  <2>3. CASE u # v /\ \A w \in Updates(u) :
                         (w \in visited /\ d[w] <= d[u] + 1) \/ InHand(u, w, d[u])
    <3>1. u \in visited /\ e[u] = d[u] /\ d[u] \in Nat
      BY <2>3, <1>1, <1>4
    <3>2. ASSUME NEW w \in Updates(u)
          PROVE  (w \in visited' /\ e[w] <= e[u] + 1) \/ InHand(u, w, e[u])'
      <4>1. CASE w \in visited /\ d[w] <= d[u] + 1
        BY <4>1, <3>1, <1>1, <1>4
      <4>2. CASE InHand(u, w, d[u]) /\ w = v
        <5>1. Len(path) <= d[u]
          BY <4>2 DEF InHand
        <5>2. QED
          BY <5>1, <4>2, <3>1, <1>1, <1>2, <1>4
      <4>3. CASE InHand(u, w, d[u]) /\ w # v
        BY <4>3, <3>1, <1>1, <1>2 DEF InHand
      <4>4. QED
        BY <4>1, <4>2, <4>3, <2>3
    <3>3. QED
      BY <3>2, <1>2
  <2>4. QED
    BY <2>1, <2>2, <2>3, <1>1, <1>2, <1>3, <1>6 DEF Layered
<1>7. Layered(t, e)'
  BY <1>1, <1>2, <1>3, <1>4, <1>6 DEF Layered
<1>8. \A i \in 1..Len(queue) : Len(path) <= Len(queue[i]) /\ Len(queue[i]) <= Len(path) + 1
  BY <1>2 DEF Active, Sorted
<1>9. \A i \in 1..Len(queue') : /\ Len(queue'[i]) \in Nat
                                /\ Len(path) <= Len(queue'[i])
                                /\ Len(queue'[i]) <= Len(path) + 1
  BY <1>2, <1>5, <1>8
<1>10. Sorted'
  <2>1. ASSUME NEW i \in 1..Len(queue'), NEW j \in 1..Len(queue'), i <= j
        PROVE  Len(queue'[i]) <= Len(queue'[j]) /\ Len(queue'[j]) <= Len(queue'[i]) + 1
    <3>1. CASE j \in 1..Len(queue)
      <4>1. i \in 1..Len(queue)
        BY <3>1, <2>1, <1>2
      <4>2. QED
        BY <4>1, <3>1, <2>1, <1>5 DEF Active, Sorted
    <3>2. CASE j \notin 1..Len(queue)
      <4>1. Len(queue'[j]) = Len(path) + 1
        BY <3>2, <1>5
      <4>2. /\ Len(queue'[i]) \in Nat /\ Len(path) <= Len(queue'[i])
            /\ Len(queue'[i]) <= Len(path) + 1
        BY <1>9
      <4>3. QED
        BY <4>1, <4>2, <1>2
    <3>3. QED
      BY <3>1, <3>2
  <2>2. QED
    BY <2>1, <1>2, <1>9 DEF Sorted
<1>11. Bounded(e)'
  <2>1. \A u \in visited : d[u] <= Len(path) + 1
    BY <1>2, <1>3 DEF Bounded
  <2>2. \A u \in visited' : e[u] <= Len(path) + 1 /\ e[u] \in Nat
    BY <2>1, <1>1, <1>2, <1>4
  <2>3. ASSUME queue' # <<>> PROVE \A u \in visited' : e[u] <= Len(queue'[1]) + 1
    <3>1. 1 \in 1..Len(queue')
      BY <2>3, ChainStep DEF Next, ChainInv, TypeOK
    <3>2. QED
      BY <3>1, <2>2, <1>2, <1>9
  <2>4. QED
    BY <2>2, <2>3, <1>2 DEF Bounded
<1>12. From(t)'
  <2>1. path'[1] = t /\ \A i \in 1..Len(queue) : queue[i][1] = t
    BY <1>2 DEF Active, From
  <2>2. \A i \in 1..Len(queue') : queue'[i][1] = t
    BY <2>1, <1>2, <1>5
  <2>3. QED
    BY <2>1, <2>2 DEF From
<1>13. (\E f \in [visited -> Nat] : Layered(t, f) /\ Bounded(f))'
  BY <1>4, <1>7, <1>11
<1>14. QED
  BY <1>10, <1>12, <1>13 DEF Active

\* A start that has found its chain has found its best one.
LEMMA ArriveSearched ==
    ASSUME ChainInv, NEW t, Active(t), Arrive
    PROVE  Searched(t)'
<1>1. Default \in pending /\ pending # {} /\ UNCHANGED files
  BY DEF Arrive, Least
<1>2. path \in Seq(Version) /\ Len(path) >= 1 /\ Len(path) \in Nat /\ path[1] = t
  BY <1>1 DEF ChainInv, TypeOK, Open, Chain, Active, From
<1> DEFINE c == Append(path, Default)
<1>3. Len(c) = Len(path) + 1 /\ c[1] = t /\ c \in candidates'
  BY <1>2, AppendIs, VersionAssumption DEF Arrive
<1>4. PICK b \in candidates' : Len(b) = Len(path) + 1 /\ b[1] = t
  BY <1>3
<1>5. ASSUME NEW p \in Seq(Version), Complete(p), p[1] = t
      PROVE  \E a \in candidates' : a[1] = t /\ Len(a) <= Len(p)
  BY <1>1, <1>4, <1>5, NothingShorter
<1>6. \A p : Complete(p)' <=> Complete(p)
  BY <1>1, ChainsStay
<1>7. QED
  BY <1>5, <1>6 DEF Searched

LEMMA SearchedStays ==
    ASSUME NEW t, Searched(t), UNCHANGED files, candidates \subseteq candidates'
    PROVE  Searched(t)'
<1>1. \A p : Complete(p)' <=> Complete(p)
  BY ChainsStay
<1>2. QED
  BY <1>1 DEF Searched

LEMMA CompleteIs ==
    ASSUME install \subseteq Version, NEW p \in Seq(Version), Complete(p)
    PROVE  p[1] \in install /\ p[1] \in Nat /\ Len(p) \in Nat /\ Len(p) >= 1
<1>1. p[1] \in install /\ p # <<>>
  BY DEF Complete, Chain
<1>2. p[1] \in Nat
  BY <1>1, VersionAssumption
<1>3. QED
  BY <1>1, <1>2

BestInv ==
    /\ ChainInv
    /\ Searching => \A t \in install \ starts : Searched(t) \/ Active(t)
    /\ answer # None =>
          \A p \in Seq(Version) : Complete(p) => answer # NotFound /\ Better(answer, p)

LEMMA BestInit == Init => BestInv
<1> SUFFICES ASSUME Init PROVE BestInv
  OBVIOUS
<1>1. ChainInv
  BY ChainInit
<1>2. install \ starts = {} /\ answer = None
  BY DEF Init
<1>3. QED
  BY <1>1, <1>2 DEF BestInv

LEMMA BestStep == BestInv /\ [Next]_vars => BestInv'
<1> SUFFICES ASSUME BestInv, [Next]_vars PROVE BestInv'
  OBVIOUS
<1>0. ChainInv /\ ChainInv'
  BY ChainStep DEF BestInv
<1>1. UNCHANGED files /\ candidates \subseteq candidates'
  BY DEF Next, Direct, Start, Take, Skip, Meet, Arrive, Answer, vars
<1>2. install' = install /\ \A p : Complete(p)' <=> Complete(p)
  BY <1>1, ChainsStay DEF files
<1>3. CASE Direct
  <2>1. answer' = <<Default>> /\ ~Searching'
    BY <1>3, <1>2, VersionAssumption DEF Direct, Searching
  <2>2. ASSUME NEW p \in Seq(Version), Complete(p)
        PROVE  answer' # NotFound /\ Better(answer', p)
    <3>1. Len(p) \in Nat /\ Len(p) >= 1 /\ (Len(p) = 1 => p[1] = Default)
      BY <2>2 DEF Complete, Chain
    <3>2. Default \in Nat /\ <<Default>> \in Seq(Version) /\ NotFound \notin Seq(Version)
      BY VersionAssumption
    <3>3. Len(<<Default>>) = 1 /\ <<Default>>[1] = Default /\ <<Default>> # NotFound
      BY <3>2
    <3>4. Better(<<Default>>, p)
      <4>1. CASE Len(p) = 1
        <5>1. Default <= Default /\ p[1] = Default
          BY <4>1, <3>1, <3>2
        <5>2. QED
          BY <5>1, <4>1, <3>3 DEF Better
      <4>2. CASE Len(p) # 1
        <5>1. Len(p) \in Nat /\ Len(p) >= 1
          BY <3>1
        <5>2. 1 < Len(p)
          BY <5>1, <4>2
        <5>3. QED
          BY <5>2, <3>3 DEF Better
      <4>3. QED
        BY <4>1, <4>2
    <3>5. QED
      BY <2>1, <3>3, <3>4
  <2>3. QED
    BY <2>1, <2>2, <1>0, <1>2 DEF BestInv
<1>4. CASE Start
  <2>1. PICK s \in starts : starts' = starts \ {s} /\ queue' = << <<s>> >> /\ visited' = {s}
    BY <1>4 DEF Start, Least, Seen
  <2>2. Searching /\ queue = <<>> /\ pending = {} /\ answer' = None /\ answer = None
    BY <1>4 DEF Start, Searching
  <2>3. Active(s)'
    BY <2>1, <2>2, <1>0, <1>4, StartActive
  <2>4. ASSUME NEW t \in install \ starts PROVE Searched(t)'
    <3>1. Searched(t) \/ Active(t)
      BY <2>2 DEF BestInv
    <3>2. Searched(t)
      BY <3>1, <2>2, <1>0, Exhausted
    <3>3. QED
      BY <3>2, <1>1, SearchedStays
  <2>5. QED
    BY <2>1, <2>2, <2>3, <2>4, <1>0, <1>2 DEF BestInv
<1>5. ASSUME Take \/ Skip \/ Meet PROVE BestInv'
  <2>1. /\ Searching /\ starts' = starts /\ candidates' = candidates
        /\ answer = None /\ answer' = None
    BY <1>5 DEF Take, Skip, Meet, Searching
  <2>2. ASSUME NEW t \in install \ starts PROVE Searched(t)' \/ Active(t)'
    <3>1. CASE Searched(t)
      BY <3>1, <1>1, SearchedStays
    <3>2. CASE Active(t)
      BY <3>2, <1>0, <1>5, TakeActive, SkipActive, MeetActive
    <3>3. QED
      BY <3>1, <3>2, <2>1 DEF BestInv
  <2>3. QED
    BY <2>1, <2>2, <1>0, <1>2 DEF BestInv
<1>6. CASE Arrive
  <2>1. /\ Searching /\ starts' = starts
        /\ answer = None /\ answer' = None
    BY <1>6 DEF Arrive, Searching
  <2>2. ASSUME NEW t \in install \ starts PROVE Searched(t)'
    <3>1. CASE Searched(t)
      BY <3>1, <1>1, SearchedStays
    <3>2. CASE Active(t)
      BY <3>2, <1>0, <1>6, ArriveSearched
    <3>3. QED
      BY <3>1, <3>2, <2>1 DEF BestInv
  <2>3. QED
    BY <2>1, <2>2, <1>0, <1>2 DEF BestInv
<1>7. CASE Answer
  <2>1. Searching /\ pending = {} /\ queue = <<>> /\ starts = {} /\ candidates' = candidates
    BY <1>7 DEF Answer
  <2>2. ASSUME NEW p \in Seq(Version), Complete(p)
        PROVE  answer' # NotFound /\ Better(answer', p)
    <3>1. p[1] \in install \ starts /\ p[1] \in Nat /\ Len(p) \in Nat
      BY <2>1, <2>2, <1>0, CompleteIs DEF ChainInv, TypeOK
    <3>2. Searched(p[1])
      BY <3>1, <2>1, <1>0, Exhausted DEF BestInv
    <3>3. PICK c \in candidates : c[1] = p[1] /\ Len(c) <= Len(p)
      BY <3>2, <2>2 DEF Searched
    <3>4. answer' \in candidates /\ Better(answer', c)
      BY <3>3, <1>7 DEF Answer
    <3>5. answer' \in Seq(Version) /\ Complete(answer') /\ c \in Seq(Version)
      BY <3>4, <1>0 DEF ChainInv, TypeOK
    <3>6. answer'[1] \in Nat /\ Len(answer') \in Nat /\ Len(c) \in Nat
      BY <3>5, <1>0, CompleteIs DEF ChainInv, TypeOK
    <3>7. Better(answer', p)
      BY <3>1, <3>3, <3>4, <3>6 DEF Better
    <3>8. QED
      BY <3>5, <3>7, VersionAssumption
  <2>3. answer' # None
    BY <2>1, <1>0, <1>7, VersionAssumption DEF Answer, ChainInv, TypeOK
  <2>4. QED
    BY <2>2, <2>3, <1>0, <1>2 DEF BestInv, Searching
<1>8. CASE UNCHANGED vars
  <2>1. /\ answer' = answer /\ Searching' = Searching
        /\ \A t \in install \ starts : Active(t)' = Active(t)
        /\ install' \ starts' = install \ starts
    BY <1>8 DEF vars, files, Searching, Active, From, Sorted, Layered, Bounded,
       InQueue, InHand, Updates
  <2>2. \A t \in install \ starts : Searched(t) => Searched(t)'
    BY <1>1, SearchedStays
  <2>3. QED
    BY <2>1, <2>2, <1>0, <1>2 DEF BestInv
<1>9. QED
  BY <1>3, <1>4, <1>5, <1>6, <1>7, <1>8 DEF Next

\* The search misses no chain, and returns the shortest, from the least start
\* among those.
THEOREM AnswersAreBest == Spec => []AnswerIsBest
<1>1. Simple \subseteq Seq(Version)
  BY DEF Simple
<1>2. BestInv => AnswerIsBest
  BY <1>1 DEF BestInv, AnswerIsBest
<1>3. QED
  BY <1>2, BestInit, BestStep, PTL DEF Spec
=============================================================================
