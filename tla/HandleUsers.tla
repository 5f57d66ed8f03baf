----------------------------- MODULE HandleUsers ------------------------------
(***************************************************************************)
(* Who uses one PGDATA inside the processes: several users of a process    *)
(* share its PostgresServer object, in and out of with-blocks, and a fork  *)
(* copies object, users and registry.  Every process has one thread, so a  *)
(* call runs as one step under the inter-process lock; PostgresServer has  *)
(* those steps one by one.                                                 *)
(***************************************************************************)
EXTENDS Naturals, FiniteSets

CONSTANTS
    Process,    \* PIDs
    First,      \* the process that runs at the beginning
    User,       \* places in a program that ask for the server
    MaxHandles  \* bound: handles that one process constructs

ASSUME HandleAssumption ==
    /\ First \in Process
    /\ MaxHandles \in Nat \ {0}
    /\ IsFiniteSet(User)

\* 0 is no handle.
Handles == 1..MaxHandles
NoHandle == 0

VARIABLES
    alive,     \* processes that run
    forked,    \* those that began as a fork of another one
    instance,  \* _instances[pgdata] of a process
    count,     \* _count of a process's handles
    complete,  \* _cleanup_complete, also of the handles not constructed yet
    inherited, \* auxiliary: handles that a process got by its fork
    frame,     \* the handle a user has, and whether it is in a with-block
    pids,      \* .handle_pids.json
    up         \* the postmaster runs

memory == <<instance, count, complete, inherited, frame>>
vars == <<alive, forked, memory, pids, up>>

Frames == [handle : Handles \cup {NoHandle}, inside : BOOLEAN]
NoFrame == [handle |-> NoHandle, inside |-> FALSE]

TypeOK ==
    /\ alive \in SUBSET Process
    /\ forked \in SUBSET Process
    /\ instance \in [Process -> Handles \cup {NoHandle}]
    /\ count \in [Process -> [Handles -> Nat]]
    /\ complete \in [Process -> SUBSET Handles]
    /\ inherited \in [Process -> SUBSET Handles]
    /\ frame \in [Process -> [User -> Frames]]
    /\ pids \in SUBSET Process
    /\ up \in BOOLEAN
    /\ \A p \in Process : instance[p] \notin complete[p]

Init ==
    /\ alive = {First}
    /\ forked = {}
    /\ instance = [p \in Process |-> NoHandle]
    /\ count = [p \in Process |-> [h \in Handles |-> 0]]
    /\ complete = [p \in Process |-> {}]
    /\ inherited = [p \in Process |-> {}]
    /\ frame = [p \in Process |-> [u \in User |-> NoFrame]]
    /\ pids = {}
    /\ up = FALSE

-----------------------------------------------------------------------------
\* Handles that a process has constructed, or inherited.
Made(p) == complete[p] \cup ({instance[p]} \ {NoHandle})
Inside(p, h) == {u \in User : frame[p][u] = [handle |-> h, inside |-> TRUE]}
SetFrame(p, u, h, inside) ==
    frame' = [frame EXCEPT ![p][u] = [handle |-> h, inside |-> inside]]

\* get_server(): the process's handle, or a new one that registers its PID and
\* finds or starts the postmaster.
GetServer(p, u) ==
    /\ frame[p][u].handle = NoHandle
    /\ \/ /\ instance[p] # NoHandle
          /\ SetFrame(p, u, instance[p], FALSE)
          /\ UNCHANGED <<instance, pids, up>>
       \/ /\ instance[p] = NoHandle
          /\ \E h \in Handles \ Made(p) :
                /\ \A other \in Handles \ Made(p) : h <= other
                /\ instance' = [instance EXCEPT ![p] = h]
                /\ SetFrame(p, u, h, FALSE)
          /\ pids' = pids \cup {p}
          /\ up' = TRUE
    /\ UNCHANGED <<alive, forked, count, complete, inherited>>

Enter(p, u) ==
    LET h == frame[p][u].handle IN
    /\ h # NoHandle
    /\ ~frame[p][u].inside
    /\ count' = [count EXCEPT ![p][h] = @ + 1]
    /\ SetFrame(p, u, h, TRUE)
    /\ UNCHANGED <<alive, forked, instance, complete, inherited, pids, up>>

\* Mutant of Owner: the PID is that of the constructor.
Constructor(p, h) ==
    IF h \in inherited[p] THEN CHOOSE q \in Process : h \in Made(q) \ inherited[q] ELSE p

\* The PID that a cleanup removes is that of the process it runs in.
Owner(p, h) == p

Popped(current, h) == IF current = h THEN NoHandle ELSE current

\* _cleanup(), once: the PIDs of the dead are pruned, the last process stops
\* the server.
CleanUp(p, h) ==
    LET owner == Owner(p, h)
        remaining == (pids \ {owner}) \cap alive IN
    IF h \in complete[p]
    THEN UNCHANGED <<instance, complete, pids, up>>
    ELSE /\ pids' = remaining
         /\ up' = (up /\ ~(owner \in pids /\ remaining = {}))
         /\ instance' = [instance EXCEPT ![p] = Popped(@, h)]
         /\ complete' = [complete EXCEPT ![p] = @ \cup {h}]

\* Mutant of Closes: the count is compared before it is lowered.
ClosesLate(n) == n + 1 <= 0
\* Mutant of Closes: a user that leaves closes.
AlwaysCloses(n) == TRUE
Closes(n) == n <= 0

\* __exit__()
Exit(p, u) ==
    LET h == frame[p][u].handle
        n == count[p][h] - 1 IN
    /\ frame[p][u].inside
    /\ count' = [count EXCEPT ![p][h] = n]
    /\ SetFrame(p, u, NoHandle, FALSE)
    /\ IF Closes(n) THEN CleanUp(p, h) ELSE UNCHANGED <<instance, complete, pids, up>>
    /\ UNCHANGED <<alive, forked, inherited>>

\* cleanup(), called by a user outside of a with-block; or the user forgets the
\* handle.
Cleanup(p, u) ==
    /\ frame[p][u].handle # NoHandle
    /\ ~frame[p][u].inside
    /\ CleanUp(p, frame[p][u].handle)
    /\ SetFrame(p, u, NoHandle, FALSE)
    /\ UNCHANGED <<alive, forked, count, inherited>>
Forget(p, u) ==
    /\ frame[p][u].handle # NoHandle
    /\ ~frame[p][u].inside
    /\ SetFrame(p, u, NoHandle, FALSE)
    /\ UNCHANGED <<alive, forked, instance, count, complete, inherited, pids, up>>

\* os.fork(): the child goes on with a copy, or with what its target does
\* (multiprocessing), which has no users yet.
Fork(p, c) ==
    /\ c \notin alive \cup forked \cup {First}
    /\ alive' = alive \cup {c}
    /\ forked' = forked \cup {c}
    /\ instance' = [instance EXCEPT ![c] = instance[p]]
    /\ count' = [count EXCEPT ![c] = count[p]]
    /\ complete' = [complete EXCEPT ![c] = complete[p]]
    /\ inherited' = [inherited EXCEPT ![c] = Made(p)]
    /\ \/ frame' = [frame EXCEPT ![c] = frame[p]]
       \/ frame' = [frame EXCEPT ![c] = [u \in User |-> NoFrame]]
    /\ UNCHANGED <<pids, up>>

\* A process ends with atexit, or without it: _exit(), a signal.
Ends(p) ==
    /\ alive' = alive \ {p}
    /\ frame' = [frame EXCEPT ![p] = [u \in User |-> NoFrame]]
    /\ UNCHANGED <<forked, count, inherited>>
Terminate(p) ==
    /\ Ends(p)
    /\ \/ instance[p] # NoHandle /\ CleanUp(p, instance[p])
       \/ UNCHANGED <<instance, complete, pids, up>>

Next ==
    \E p \in alive :
        \/ \E u \in User : GetServer(p, u) \/ Enter(p, u) \/ Exit(p, u)
                           \/ Cleanup(p, u) \/ Forget(p, u)
        \/ \E c \in Process : Fork(p, c)
        \/ Terminate(p)

Spec == Init /\ [][Next]_vars

-----------------------------------------------------------------------------
\* Properties.

\* As long as a process has a handle of its own that is not closed, its PID is
\* registered and the server runs, whatever the other users, processes and
\* forks do with theirs.
OpenHandleIsServed ==
    \A p \in alive :
        instance[p] \in Handles \ inherited[p] => p \in pids /\ up

\* Leaving a with-block closes the handle for nobody who is still in one.
LeavingSparesOthers ==
    [][\A p \in alive, u \in User :
         Exit(p, u) => \A h \in complete'[p] \ complete[p] : Inside(p, h) \subseteq {u}]_vars

\* The last user who leaves does close, and stops the server if no other live
\* process is registered: nothing keeps a handle of the process's own open that
\* nobody is inside of.  (A fork's copy may count users that it does not have.)
LastExitCloses ==
    [][\A p \in alive, u \in User :
         LET h == frame[p][u].handle IN
         Exit(p, u) /\ h \notin inherited[p] /\ Inside(p, h) = {u} =>
             /\ h \in complete'[p]
             /\ h = instance[p] /\ pids \cap alive \subseteq {p} => ~up']_vars

\* A process that closes or ends takes away no other process's registration,
\* and stops no server that another live process has registered for; not even
\* a fork that has a copy of the handle.
OthersKeepTheirServer ==
    [][\A q \in alive \cap alive' :
         (\E p \in alive \ {q} : \/ Terminate(p)
                                 \/ \E u \in User : Exit(p, u) \/ Cleanup(p, u))
         /\ q \in pids => q \in pids' /\ (up => up')]_vars
=============================================================================
