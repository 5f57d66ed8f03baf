---------------------------- MODULE SharedCluster ----------------------------
(***************************************************************************)
(* What pgembed promises to the processes that share a PGDATA directory:   *)
(* a cluster is made only while nobody has it, a user finds one that is no *)
(* longer being made, only the last user can close it, while it is being   *)
(* closed nobody comes in or starts a postmaster, and only a deletion that *)
(* the last user asked for takes a whole one away.  A making that is cut   *)
(* short leaves half a cluster, and that is taken for a whole one.         *)
(* PostgresServer implements this, see ImplementsSharedCluster there.      *)
(***************************************************************************)
CONSTANT Process

VARIABLES
    users,   \* the processes that have a handle
    cluster, \* how much of it there is: "none", "half" or "whole"
    up,      \* is its postmaster alive?
    closing  \* what the last user is doing to it: nothing, "stop" or "delete"

vars == <<users, cluster, up, closing>>

TypeOK ==
    /\ users \subseteq Process
    /\ cluster \in {"none", "half", "whole"}
    /\ up \in BOOLEAN
    /\ closing \in {"no", "stop", "delete"}

Init ==
    /\ users = {}
    /\ cluster \in {"none", "whole"}
    /\ up = FALSE
    /\ closing = "no"

Unused == users = {} /\ ~up /\ closing = "no"

\* initdb works on the cluster, gets through, or gives it up, while nobody
\* uses it.
Make ==
    /\ Unused
    /\ <<cluster, cluster'>> \in {<<"none", "half">>, <<"half", "whole">>, <<"half", "none">>}
    /\ UNCHANGED <<users, up, closing>>

Start ==
    /\ cluster # "none"
    /\ ~up
    /\ closing = "no"
    /\ up' = TRUE
    /\ UNCHANGED <<users, cluster, closing>>

Join(p) ==
    /\ p \notin users
    /\ cluster # "none"
    /\ closing = "no"
    /\ users' = users \cup {p}
    /\ UNCHANGED <<cluster, up, closing>>

\* A user leaves, closing the cluster only if it is the last one.
Leave(p) ==
    /\ p \in users
    /\ users' = users \ {p}
    /\ closing' \in IF users = {p} THEN {"no", "stop", "delete"} ELSE {"no"}
    /\ UNCHANGED <<cluster, up>>

\* The postmaster may end at any time.
Down ==
    /\ up
    /\ up' = FALSE
    /\ UNCHANGED <<users, cluster, closing>>

\* The close ends, or is given up, with the data in place.
CloseEnds ==
    /\ closing # "no"
    /\ closing' = "no"
    /\ up' \in {up, FALSE}
    /\ UNCHANGED <<users, cluster>>

\* The data goes, or some of it when the deletion is cut short.
Delete ==
    /\ closing = "delete"
    /\ closing' = "no"
    /\ cluster' \in {"none", "half"}
    /\ up' = FALSE
    /\ UNCHANGED users

Next ==
    \/ Make
    \/ Start
    \/ \E p \in Process : Join(p) \/ Leave(p)
    \/ Down
    \/ CloseEnds
    \/ Delete

Spec == Init /\ [][Next]_vars

=============================================================================
