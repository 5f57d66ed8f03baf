----------------------------- MODULE InstallPath -----------------------------
(***************************************************************************)
(* How the metadata generator finds the SQL files that CREATE EXTENSION    *)
(* needs: the script of the default version or, without one, an install    *)
(* script and a chain of update scripts.  From each version that has an    *)
(* install script it searches breadth first, never through another such    *)
(* version, and takes the best chain over all of them.  A chain is the     *)
(* sequence of its versions; the file names follow from it.                *)
(*                                                                         *)
(* What is not plain from the code: update scripts form cycles, as there   *)
(* are downgrades, and "visited", made anew for each start and marked      *)
(* when a version is queued, must end the search without hiding the only   *)
(* chain or the shortest; the queue is dropped at the first chain.         *)
(***************************************************************************)
EXTENDS Naturals, Sequences, FiniteSets

CONSTANTS
    Version,   \* versions that file names mention, as ranks in their order
    Default,   \* default_version of the control file
    Scripts,   \* pairs of versions that may have a script stem--from--to.sql
    None,      \* no answer yet
    NotFound   \* FileNotFoundError

ASSUME VersionAssumption ==
    /\ Version \subseteq Nat /\ IsFiniteSet(Version)
    /\ Default \in Version
    /\ Scripts \subseteq Version \X Version
    /\ None \notin Seq(Version) /\ NotFound \notin Seq(Version)
    /\ None # NotFound

VARIABLES
    install,    \* versions with a script stem--version.sql
    update,     \* pairs with a script stem--from--to.sql
    starts,     \* install versions that the outer loop has not come to
    queue,      \* chains to extend
    visited,    \* versions met from the present start
    path,       \* the chain taken from the queue
    pending,    \* the updates of its last version that are still to be seen
    candidates, \* complete chains
    answer      \* the chain returned, NotFound or None

files == <<install, update>>
vars == <<files, starts, queue, visited, path, pending, candidates, answer>>

Init ==
    /\ install \in SUBSET Version
    /\ update \in SUBSET Scripts
    /\ starts = install
    /\ queue = <<>>
    /\ visited = {}
    /\ path = <<>>
    /\ pending = {}
    /\ candidates = {}
    /\ answer = None

Least(S) == {m \in S : \A n \in S : m <= n}
Updates(v) == {w \in Version : <<v, w>> \in update}

\* The default version has an install script of its own.
Direct ==
    /\ answer = None
    /\ Default \in install
    /\ answer' = <<Default>>
    /\ UNCHANGED <<files, starts, queue, visited, path, pending, candidates>>

Searching == answer = None /\ Default \notin install

\* Mutant of Seen: the set is kept from one start to the next.
SeenBefore(s) == visited \cup {s}
\* What has been seen at start s.
Seen(s) == {s}

Start ==
    /\ Searching /\ pending = {} /\ queue = <<>>
    /\ \E s \in Least(starts) :
          /\ starts' = starts \ {s}
          /\ queue' = << <<s>> >>
          /\ visited' = Seen(s)
    /\ UNCHANGED <<files, path, pending, candidates, answer>>

\* Mutant of Popped: the first chain is looked at, not taken.
Kept == queue
\* The queue after queue.pop(0)
Popped == Tail(queue)

Take ==
    /\ Searching /\ pending = {} /\ queue # <<>>
    /\ path' = Head(queue)
    /\ queue' = Popped
    /\ pending' = Updates(path'[Len(path')])
    /\ UNCHANGED <<files, starts, visited, candidates, answer>>

\* An update to a version that was met before.
Skip ==
    /\ Searching
    /\ \E v \in Least(pending) :
          /\ v \in visited
          /\ pending' = pending \ {v}
    /\ UNCHANGED <<files, starts, queue, visited, path, candidates, answer>>

\* Mutant of Queued: the updates before the last one are forgotten.
QueuedShort(v) ==
    IF v \in install THEN queue ELSE Append(queue, <<path[1], v>>)
\* The queue after an update to v: no way leads on through another version
\* that could be installed itself (from there, the chain is shorter).
Queued(v) == IF v \in install THEN queue ELSE Append(queue, Append(path, v))

Meet ==
    /\ Searching
    /\ \E v \in Least(pending) :
          /\ v \notin visited \cup {Default}
          /\ visited' = visited \cup {v}
          /\ queue' = Queued(v)
          /\ pending' = pending \ {v}
    /\ UNCHANGED <<files, starts, path, candidates, answer>>

\* The first chain from this start; what is queued cannot be shorter.
Arrive ==
    /\ Searching
    /\ Default \in Least(pending)
    /\ candidates' = candidates \cup {Append(path, Default)}
    /\ queue' = <<>>
    /\ pending' = {}
    /\ UNCHANGED <<files, starts, visited, path, answer>>

\* The fewest updates first, then the least start.  There is one candidate per
\* start, so the file names are never compared.
Better(p, q) == Len(p) < Len(q) \/ (Len(p) = Len(q) /\ p[1] <= q[1])

Answer ==
    /\ Searching /\ pending = {} /\ queue = <<>> /\ starts = {}
    /\ IF candidates = {}
       THEN answer' = NotFound
       ELSE answer' \in {p \in candidates : \A q \in candidates : Better(p, q)}
    /\ UNCHANGED <<files, starts, queue, visited, path, pending, candidates>>

Next == Direct \/ Start \/ Take \/ Skip \/ Meet \/ Arrive \/ Answer

Spec == Init /\ [][Next]_vars
FairSpec == Spec /\ WF_vars(Next)

-----------------------------------------------------------------------------
\* Properties.

TypeOK ==
    /\ install \subseteq Version
    /\ update \subseteq Scripts
    /\ starts \subseteq install
    /\ queue \in Seq(Seq(Version))
    /\ visited \subseteq Version
    /\ path \in Seq(Version)
    /\ pending \subseteq Version
    /\ candidates \subseteq Seq(Version)
    /\ answer \in Seq(Version) \cup {None, NotFound}

\* A chain that CREATE EXTENSION can follow: it begins with an install script,
\* goes by update scripts to the default version, and comes through no other
\* version that could be installed itself.
Chain(p) ==
    /\ p # <<>>
    /\ p[1] \in install
    /\ \A i \in 1..(Len(p) - 1) : <<p[i], p[i + 1]>> \in update
    /\ \A i \in 2..Len(p) : p[i] \notin install
Complete(p) == Chain(p) /\ p[Len(p)] = Default

\* The scripts recorded for an extension do install its default version, in an
\* order that CREATE EXTENSION takes, although scripts form cycles and some
\* lead through versions that PostgreSQL's own search avoids.
AnswerInstalls == answer \notin {None, NotFound} => Complete(answer)

\* The chains in which no version comes twice.
Simple ==
    {p \in UNION {[1..n -> Version] : n \in 1..Cardinality(Version)} :
        \A i, j \in DOMAIN p : p[i] = p[j] => i = j}

\* No chain is missed: the generator raises only if there is none, and what it
\* returns is the shortest, and from the least start among those, although a
\* search stops at its first chain and never looks at a version twice.
AnswerIsBest ==
    answer # None =>
        \A p \in Simple : Complete(p) => answer # NotFound /\ Better(answer, p)

\* The search ends, also where scripts go in circles.
SearchEnds == <>(answer # None)
=============================================================================
