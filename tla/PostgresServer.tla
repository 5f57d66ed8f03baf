--------------------------- MODULE PostgresServer ---------------------------
(***************************************************************************)
(* Several operating-system processes share one PGDATA directory through   *)
(* pgembed.get_server().  Each process owns at most one PostgresServer     *)
(* handle for it.  Construction, rollback of a failed construction and     *)
(* cleanup run under a class-wide inter-process lock; the processes that   *)
(* hold a handle are listed in PGDATA/.handle_pids.json, and the last one  *)
(* to leave stops the postmaster or deletes the directory.                 *)
(*                                                                         *)
(* A process is identified with its PID.  The postmaster, initdb and       *)
(* pg_ctl are external programs, modelled by what the Python code sees of  *)
(* them: postmaster.pid, PG_VERSION, exit codes and timeouts.              *)
(*                                                                         *)
(* A definition marked "Mutant of" is a plausible mistake in the next one; *)
(* nothing uses it, it shows that a property notices the mistake.          *)
(***************************************************************************)
EXTENDS Naturals, FiniteSets

CONSTANTS
    Process,      \* the PIDs of the processes that use pgembed
    NoProcess,    \* the lock's owner when it is free
    Modes,        \* the cleanup_mode values callers pass
    InitialDirs,  \* what PGDATA may hold before the first call
    Libs,         \* libraries a caller may ask to preload
    Loadable,     \* those of them the postmaster can load
    Faults        \* what may go wrong in this instance, see FaultKinds

\* "crash"    a process dies without cleanup, its PID may be used again
\* "interrupt" KeyboardInterrupt in one of the blocking calls
\* "slow"     a postmaster outlasts the start and readiness deadlines
\* "exec"     initdb, pg_ctl start or a starting postmaster exits with an error
\* "death"    the running postmaster exits by itself
\* "stop"     pg_ctl stop, SIGTERM and SIGKILL all time out
\* "rm"       rmtree leaves some files behind
FaultKinds == {"crash", "interrupt", "slow", "exec", "death", "stop", "rm"}
CleanupModes == {"none", "stop", "delete"}

ASSUME ProcessAssumption == NoProcess \notin Process
ASSUME ParameterAssumption ==
    /\ Modes \subseteq CleanupModes
    /\ InitialDirs \subseteq {"absent", "empty", "foreign", "ready"}
    /\ Loadable \subseteq Libs
    /\ Faults \subseteq FaultKinds

VARIABLES
    \* On disk and in the process table, shared by everyone:
    dir,        \* what PGDATA holds
    conf,       \* shared_preload_libraries in postgresql.conf
    pidfile,    \* how far postmaster.pid is written
    postmaster, \* is a postmaster of this PGDATA alive?
    stray,      \* is a postmaster alive whose PGDATA was removed?
    initdb,     \* per caller, the state of its initdb child
    handlePids, \* the PIDs in .handle_pids.json
    torn,       \* is .handle_pids.json cut off in the middle of a write?
    lock,       \* owner of the inter-process lock
    \* In each process:
    pc,
    mode, request,  \* arguments of get_server()
    fresh,      \* processes that classified PGDATA as fresh
    started,    \* those whose attempt ran pg_ctl start
    registered, \* those with _pid_registered
    info        \* the process a PostmasterInfo refers to, as of now

diskVars == <<dir, conf, handlePids, torn>>
serverVars == <<pidfile, postmaster, stray>>
handleVars == <<mode, request, fresh, started, registered, info>>
vars == <<diskVars, serverVars, initdb, lock, pc, handleVars>>

\* "foreign": another major's or malformed PG_VERSION, or files without one.
\* "partial": like foreign, left by initdb or rmtree.
\* "torn":    a valid PG_VERSION in a cluster that is not complete.  initdb
\*            leaves one when it is killed, rmtree when it stops half way.
Dirs == {"absent", "empty", "foreign", "partial", "torn", "ready"}
FreshDirs == {"absent", "empty"}
RefusedDirs == {"foreign", "partial"}

\* "partial" has fewer than the eight lines PostmasterInfo asserts.
PidFiles == {"none", "partial", "starting", "ready", "stopping"}
FullPidFiles == {"starting", "ready", "stopping"}

\* Positions at which a process holds the inter-process lock.
Building == {"prepare", "stray", "initdb", "conf", "ensure", "pgctl", "poll",
             "register", "publish"}
Closing == {"closeReap", "closeDelete"}
Critical == Building \cup Closing \cup {"rollbackReap"}
Waiting == {"waitBuild", "waitRollback", "waitClose"}
Locations == Critical \cup Waiting \cup {"none", "attached", "dead"}

TypeOK ==
    /\ dir \in Dirs
    /\ conf \in SUBSET Libs
    /\ pidfile \in PidFiles
    /\ postmaster \in BOOLEAN
    /\ stray \in BOOLEAN
    /\ initdb \in [Process -> {"none", "begun", "writing", "ok", "failed"}]
    /\ handlePids \in SUBSET Process
    /\ torn \in BOOLEAN
    /\ lock \in Process \cup {NoProcess}
    /\ pc \in [Process -> Locations]
    /\ mode \in [Process -> CleanupModes]
    /\ request \in [Process -> SUBSET Libs]
    /\ fresh \in SUBSET Process
    /\ started \in SUBSET Process
    /\ registered \in SUBSET Process
    /\ info \in [Process -> {"none", "current", "stale"}]

Alive(p) == pc[p] # "dead"

Init ==
    /\ dir \in InitialDirs
    /\ conf = {}
    /\ pidfile = "none"
    /\ postmaster = FALSE
    /\ stray = FALSE
    /\ initdb = [p \in Process |-> "none"]
    /\ handlePids = {}
    /\ torn = FALSE
    /\ lock = NoProcess
    /\ pc = [p \in Process |-> "none"]
    /\ mode = [p \in Process |-> "stop"]
    /\ request = [p \in Process |-> {}]
    /\ fresh = {}
    /\ started = {}
    /\ registered = {}
    /\ info = [p \in Process |-> "none"]

-----------------------------------------------------------------------------
\* Helpers.

Goto(p, l) == pc' = [pc EXCEPT ![p] = l]

\* Leave the lock's with-block for location l.
Leave(p, l) == Goto(p, l) /\ lock' = NoProcess

\* Mutant of Hold: the section goes on without the lock.
HoldUnlocked(p, l) == Goto(p, l) /\ UNCHANGED lock

\* Go on to location l with the lock.
Hold(p, l) == Goto(p, l) /\ lock' = p

\* Mutant of Fail: an error path that keeps the lock.
FailHoldingLock(p) == Goto(p, "waitRollback") /\ UNCHANGED lock

\* An exception inside the lock's with-block of __init__: the block releases
\* the lock first, the except clause starts the rollback after that.
Fail(p) == Leave(p, "waitRollback")

\* Mutant of GetAndAdd: the list is not read before it is written.
PutOnly(p) == {p}

\* .handle_pids.json after DiskList.get_and_add and get_and_remove.
GetAndAdd(p) == handlePids \cup {p}
GetAndRemove(p) == handlePids \ {p}

\* postmaster_info is not None and postmaster_info.is_running()
ServerSeen == pidfile \in FullPidFiles /\ postmaster

\* A PostmasterInfo taken while the postmaster was alive holds its process.
Forget(f) == [p \in Process |-> IF f[p] = "current" THEN "stale" ELSE f[p]]

-----------------------------------------------------------------------------
\* Construction.

\* get_server() without a handle in this process: the classification before
\* the lock refuses a foreign directory; otherwise __init__ waits for the lock.
GetServer(p) ==
    /\ pc[p] = "none"
    /\ dir \notin RefusedDirs
    /\ \E m \in Modes, r \in SUBSET Libs :
          /\ mode' = [mode EXCEPT ![p] = m]
          /\ request' = [request EXCEPT ![p] = r]
    /\ started' = started \ {p}
    /\ registered' = registered \ {p}
    /\ fresh' = IF dir \in FreshDirs THEN fresh \cup {p} ELSE fresh \ {p}
    /\ info' = [info EXCEPT ![p] = "none"]
    /\ Goto(p, "waitBuild")
    /\ UNCHANGED <<diskVars, serverVars, initdb, lock>>

\* Mutant of Reclassify: the classification made before the lock is kept.
StaleClassification(p) == p \in fresh

\* inspect_pgdata() again, under the lock.
Reclassify(p) == dir \in FreshDirs

\* Take the lock and classify PGDATA again.
EnterConstruction(p) ==
    /\ pc[p] = "waitBuild"
    /\ lock = NoProcess
    /\ \/ /\ dir \in RefusedDirs
          /\ Fail(p)
          /\ UNCHANGED fresh
       \/ /\ dir \notin RefusedDirs
          /\ fresh' = IF Reclassify(p) THEN fresh \cup {p} ELSE fresh \ {p}
          /\ Hold(p, "prepare")
    /\ UNCHANGED <<diskVars, serverVars, initdb, mode, request, started,
                   registered, info>>

PrepareMutableRuntime(p) ==
    /\ pc[p] = "prepare"
    /\ dir' = IF p \in fresh /\ dir = "absent" THEN "empty" ELSE dir
    /\ Goto(p, IF p \in fresh THEN "stray" ELSE "conf")
    /\ UNCHANGED <<conf, handlePids, torn, serverVars, initdb, lock, handleVars>>

\* Before initdb every postgres process started for this path is killed; one
\* that cannot be (AccessDenied, or still dying after SIGKILL) stays.
StopStray(p) ==
    /\ pc[p] = "stray"
    /\ stray' \in IF "stop" \in Faults THEN {stray, FALSE} ELSE {FALSE}
    /\ initdb' = [initdb EXCEPT ![p] = "begun"]
    /\ Goto(p, "initdb")
    /\ UNCHANGED <<diskVars, pidfile, postmaster, lock, handleVars>>

\* initdb returned: a failure raises, and so does a directory that is still
\* fresh or refused afterwards.
InitdbReturns(p) ==
    /\ pc[p] = "initdb"
    /\ initdb[p] \in {"ok", "failed"}
    /\ IF initdb[p] = "ok" /\ dir \notin FreshDirs \cup RefusedDirs
       THEN Goto(p, "conf") /\ UNCHANGED lock
       ELSE Fail(p)
    /\ initdb' = [initdb EXCEPT ![p] = "none"]
    /\ UNCHANGED <<diskVars, serverVars, handleVars>>

\* Mutant of MergedLibs: what other callers configured is replaced.
ReplacedLibs(p) == request[p]

\* dict.fromkeys([*existing, *requested])
MergedLibs(p) == conf \cup request[p]

\* Merge the requested libraries into postgresql.conf, which a torn cluster
\* need not have.
EnsureSharedPreloadLibraries(p) ==
    /\ pc[p] = "conf"
    /\ \/ /\ conf' = MergedLibs(p)
          /\ Goto(p, "ensure")
          /\ UNCHANGED lock
       \/ /\ dir # "ready"
          /\ request[p] # {}
          /\ Fail(p)
          /\ UNCHANGED conf
    /\ UNCHANGED <<dir, handlePids, torn, serverVars, initdb, handleVars>>

\* A running postmaster is adopted whatever its status; the check at the end
\* of ensure_postgres_running() then rejects one that is not ready.
AdoptPostmaster(p) ==
    /\ pc[p] = "ensure"
    /\ ServerSeen
    /\ info' = [info EXCEPT ![p] = "current"]
    /\ IF pidfile = "ready" THEN Goto(p, "register") /\ UNCHANGED lock
                            ELSE Fail(p)
    /\ UNCHANGED <<diskVars, serverVars, initdb, mode, request, fresh, started,
                   registered>>

\* A valid PG_VERSION is all that pgembed asks of a cluster, and a postmaster
\* may well run in a torn one.  While initdb writes, its own server processes
\* hold postmaster.pid.
Initialized == dir \in {"ready", "torn"} /\ \A p \in Process : initdb[p] # "writing"

\* Otherwise pg_ctl start is run.  It fails at once beside a postmaster that
\* is still booting, without a cluster, or with a library that cannot be loaded.
StartPostmaster(p) ==
    /\ pc[p] = "ensure"
    /\ ~ServerSeen
    /\ started' = started \cup {p}
    /\ IF ~postmaster /\ Initialized /\ conf \subseteq Loadable
       THEN /\ postmaster' = TRUE
            /\ pidfile' = "none"
            /\ Goto(p, "pgctl")
            /\ UNCHANGED lock
       ELSE /\ Fail(p)
            /\ UNCHANGED <<postmaster, pidfile>>
    /\ UNCHANGED <<diskVars, stray, initdb, mode, request, fresh, registered, info>>

\* pg_ctl -w start returns once the status is ready, raises CalledProcessError
\* when the postmaster is gone, and TimeoutExpired after its ten seconds, which
\* leaves the postmaster running.
PgCtlStartReturns(p) ==
    /\ pc[p] = "pgctl"
    /\ \/ /\ postmaster /\ pidfile = "ready"
          /\ Goto(p, "poll")
          /\ UNCHANGED lock
       \/ /\ ~postmaster \/ "slow" \in Faults
          /\ Fail(p)
    /\ UNCHANGED <<diskVars, serverVars, initdb, handleVars>>

\* One iteration of the readiness loop that leaves it; an absent or partial
\* postmaster.pid, or another status, means another iteration.
PollReadiness(p) ==
    /\ pc[p] = "poll"
    /\ pidfile \in FullPidFiles
    /\ \/ /\ ~postmaster
          /\ Fail(p)
          /\ UNCHANGED info
       \/ /\ postmaster
          /\ pidfile = "ready"
          /\ info' = [info EXCEPT ![p] = "current"]
          /\ Goto(p, "register")
          /\ UNCHANGED lock
    /\ UNCHANGED <<diskVars, serverVars, initdb, mode, request, fresh, started,
                   registered>>

\* Mutant of ReadinessDeadline: the loop has no deadline.
NoDeadline(p) == FALSE

ReadinessDeadline(p) ==
    /\ pc[p] = "poll"
    /\ "slow" \in Faults \/ ~(postmaster \/ pidfile \in FullPidFiles)
    /\ Fail(p)
    /\ UNCHANGED <<diskVars, serverVars, initdb, handleVars>>

\* DiskList.get_and_add(os.getpid()); an unreadable list raises.
RegisterPid(p) ==
    /\ pc[p] = "register"
    /\ IF torn
       THEN Fail(p) /\ UNCHANGED <<handlePids, registered>>
       ELSE /\ handlePids' = GetAndAdd(p)
            /\ registered' = registered \cup {p}
            /\ Goto(p, "publish")
            /\ UNCHANGED lock
    /\ UNCHANGED <<dir, conf, torn, serverVars, initdb, mode, request, fresh,
                   started, info>>

\* Enter the handle in _instances, register the atexit hook, release the lock.
Publish(p) ==
    /\ pc[p] = "publish"
    /\ Leave(p, "attached")
    /\ UNCHANGED <<diskVars, serverVars, initdb, handleVars>>

-----------------------------------------------------------------------------
\* Stopping the postmaster.

Stopped ==
    /\ postmaster' = FALSE
    /\ info' = Forget(info)

\* _reap_started_postmaster() by p.  pg_ctl stop needs postmaster.pid; when it
\* fails the process that p's PostmasterInfo (or else the file) names is
\* terminated, then killed.
ReapStartedPostmaster(p) ==
    \/ /\ ~postmaster
       /\ UNCHANGED <<serverVars, info>>
    \/ /\ postmaster
       /\ pidfile # "none" \/ info[p] = "current"
       /\ Stopped
       /\ pidfile' = "none"
       /\ UNCHANGED stray
    \/ /\ postmaster
       /\ pidfile = "none"
       /\ info[p] # "current"
       /\ UNCHANGED <<serverVars, info>>
    \/ /\ postmaster
       /\ "stop" \in Faults
       /\ pidfile' = IF pidfile \in FullPidFiles THEN "stopping" ELSE pidfile
       /\ UNCHANGED <<postmaster, stray, info>>

-----------------------------------------------------------------------------
\* Rollback of a failed construction.

\* The except clause takes the lock again, withdraws what was registered, and
\* goes on to the postmaster if this attempt launched one.
Rollback(p) ==
    /\ pc[p] = "waitRollback"
    /\ lock = NoProcess
    /\ handlePids' = IF p \in registered /\ ~torn THEN GetAndRemove(p) ELSE handlePids
    /\ registered' = registered \ {p}
    /\ IF p \in started THEN Hold(p, "rollbackReap")
                     ELSE Leave(p, "none")
    /\ UNCHANGED <<dir, conf, torn, serverVars, initdb, mode, request, fresh,
                   started, info>>

RollbackReap(p) ==
    /\ pc[p] = "rollbackReap"
    /\ ReapStartedPostmaster(p)
    /\ Leave(p, "none")
    /\ UNCHANGED <<diskVars, initdb, mode, request, fresh, started, registered>>

-----------------------------------------------------------------------------
\* Cleanup: cleanup(), the last __exit__, or the atexit hook.

Cleanup(p) ==
    /\ pc[p] = "attached"
    /\ Goto(p, "waitClose")
    /\ UNCHANGED <<diskVars, serverVars, initdb, lock, handleVars>>

\* Mutants of Remaining: dead processes count, only they count, and p counts.
RemainingUnpruned(p) == GetAndRemove(p)
RemainingDead(p) == {q \in GetAndRemove(p) : ~Alive(q)}
RemainingWithSelf(p) == {q \in handlePids : Alive(q)}

\* The other handles that count are those of live processes.
Remaining(p) == {q \in GetAndRemove(p) : Alive(q)}

\* Under the lock: withdraw the own PID, drop dead ones, and decide whether
\* this is the last handle.  An unreadable list raises, the handle stays.
EnterCleanup(p) ==
    /\ pc[p] = "waitClose"
    /\ lock = NoProcess
    /\ IF torn
       THEN /\ Goto(p, "attached")
            /\ UNCHANGED <<handlePids, registered, lock>>
       ELSE /\ handlePids' = Remaining(p)
            /\ registered' = registered \ {p}
            /\ IF p \in handlePids /\ Remaining(p) = {} /\ mode[p] # "none"
               THEN Hold(p, "closeReap")
               ELSE Leave(p, "none")
    /\ UNCHANGED <<dir, conf, torn, serverVars, initdb, mode, request, fresh,
                   started, info>>

CleanupReap(p) ==
    /\ pc[p] = "closeReap"
    /\ ReapStartedPostmaster(p)
    /\ IF mode[p] = "delete" THEN Goto(p, "closeDelete") /\ UNCHANGED lock
                             ELSE Leave(p, "none")
    /\ UNCHANGED <<diskVars, initdb, mode, request, fresh, started, registered>>

\* rmtree took PGDATA down to d; a postmaster that was still alive lost it.
Removed(d) ==
    /\ dir' = d
    /\ conf' \in IF d = "torn" THEN {conf, {}} ELSE {{}}
    /\ handlePids' = {}
    /\ torn' = FALSE
    /\ pidfile' = "none"
    /\ postmaster' = FALSE
    /\ stray' = IF postmaster THEN TRUE ELSE stray
    /\ info' = Forget(info)

CleanupDelete(p) ==
    /\ pc[p] = "closeDelete"
    /\ \E d \in IF "rm" \in Faults THEN {"absent", "partial", "torn"} ELSE {"absent"} :
          Removed(d)
    /\ Leave(p, "none")
    /\ UNCHANGED <<initdb, mode, request, fresh, started, registered>>

-----------------------------------------------------------------------------
\* Interrupts and crashes of the Python processes.

\* KeyboardInterrupt between two of the steps of this module.  In __init__ it
\* starts the rollback and subprocess.run kills its child; in the rollback and
\* in cleanup only the lock's with-block reacts to it.
Interrupt(p) ==
    /\ "interrupt" \in Faults
    /\ \/ pc[p] \in Building \cup {"waitBuild"} /\ Goto(p, "waitRollback")
       \/ pc[p] \in {"waitRollback", "rollbackReap"} \cup Closing /\ Goto(p, "none")
       \/ pc[p] = "waitClose" /\ Goto(p, "attached")
    /\ lock' = IF lock = p THEN NoProcess ELSE lock
    /\ initdb' = [initdb EXCEPT ![p] = "none"]
    /\ UNCHANGED <<diskVars, serverVars, handleVars>>

\* Is p possibly in the middle of DiskList.put()?
MidWrite(p) ==
    \/ pc[p] = "register"
    \/ pc[p] \in {"waitRollback", "waitClose"} /\ p \in registered /\ lock = NoProcess

\* Death without cleanup: the kernel drops the lock, a running initdb goes on,
\* and a write or an rmtree in progress is cut off.
Crash(p) ==
    /\ "crash" \in Faults
    /\ Alive(p)
    /\ Goto(p, "dead")
    /\ lock' = IF lock = p THEN NoProcess ELSE lock
    /\ initdb' = IF initdb[p] \in {"ok", "failed"}
                 THEN [initdb EXCEPT ![p] = "none"] ELSE initdb
    /\ registered' = registered \ {p}
    /\ \/ /\ pc[p] = "closeDelete"
          /\ \E d \in {"torn", "partial", "absent"} : Removed(d)
       \/ /\ torn' \in IF MidWrite(p) THEN {torn, TRUE} ELSE {torn}
          /\ UNCHANGED <<dir, conf, handlePids, serverVars, info>>
    /\ UNCHANGED <<mode, request, fresh, started>>

\* The PID is used again, by a process that may or may not call pgembed.
Respawn(p) ==
    /\ pc[p] = "dead"
    /\ initdb[p] = "none"
    /\ Goto(p, "none")
    /\ UNCHANGED <<diskVars, serverVars, initdb, lock, handleVars>>

-----------------------------------------------------------------------------
\* External programs: initdb and the postmaster.

\* What p's initdb child leaves when it ends; nobody waits for an orphan's.
Ends(p, result) ==
    initdb' = [initdb EXCEPT ![p] = IF pc[p] = "initdb" THEN result ELSE "none"]

\* initdb accepts only an absent or empty directory; it writes PG_VERSION and
\* postgresql.conf before the cluster is complete, and removes what it wrote
\* when it fails.
InitdbChild(p) ==
    /\ \/ /\ initdb[p] = "begun"
          /\ IF dir \in FreshDirs
             THEN dir' = "partial" /\ initdb' = [initdb EXCEPT ![p] = "writing"]
             ELSE Ends(p, "failed") /\ UNCHANGED dir
          /\ UNCHANGED conf
       \/ /\ initdb[p] = "writing"
          /\ \/ dir = "partial" /\ dir' = "torn" /\ UNCHANGED <<conf, initdb>>
             \/ dir = "torn" /\ dir' = "ready" /\ conf' = {} /\ Ends(p, "ok")
             \/ /\ "exec" \in Faults
                /\ dir' = "empty" /\ conf' = {} /\ Ends(p, "failed")
    /\ UNCHANGED <<handlePids, torn, serverVars, lock, pc, handleVars>>

\* The postmaster creates postmaster.pid, completes it, and becomes ready.
PostmasterBoots ==
    /\ postmaster
    /\ pidfile' = CASE pidfile = "none" -> "partial"
                    [] pidfile = "partial" -> "starting"
                    [] pidfile = "starting" -> "ready"
                    [] OTHER -> pidfile
    /\ pidfile' # pidfile
    /\ UNCHANGED <<diskVars, postmaster, stray, initdb, lock, pc, handleVars>>

\* It exits while booting, always possible in a torn cluster, after a stop
\* request, or by itself; a hard exit leaves postmaster.pid behind.
PostmasterExits ==
    /\ postmaster
    /\ \/ /\ pidfile \in {"none", "partial", "starting"}
          /\ "exec" \in Faults \/ dir = "torn"
       \/ pidfile = "stopping"
       \/ pidfile = "ready" /\ "death" \in Faults
    /\ Stopped
    /\ pidfile' \in {pidfile, "none"}
    /\ UNCHANGED <<diskVars, stray, initdb, lock, pc, mode, request, fresh,
                   started, registered>>

-----------------------------------------------------------------------------
Construct(p) ==
    \/ GetServer(p)
    \/ EnterConstruction(p)
    \/ PrepareMutableRuntime(p)
    \/ StopStray(p)
    \/ InitdbReturns(p)
    \/ EnsureSharedPreloadLibraries(p)
    \/ AdoptPostmaster(p)
    \/ StartPostmaster(p)
    \/ PgCtlStartReturns(p)
    \/ PollReadiness(p)
    \/ ReadinessDeadline(p)
    \/ RegisterPid(p)
    \/ Publish(p)

Release(p) ==
    \/ Rollback(p)
    \/ RollbackReap(p)
    \/ Cleanup(p)
    \/ EnterCleanup(p)
    \/ CleanupReap(p)
    \/ CleanupDelete(p)

Disturb(p) == Interrupt(p) \/ Crash(p) \/ Respawn(p)

Next ==
    \/ \E p \in Process : Construct(p) \/ Release(p) \/ Disturb(p) \/ InitdbChild(p)
    \/ PostmasterBoots
    \/ PostmasterExits

Spec == Init /\ [][Next]_vars

\* Every process goes on once it can; a waiter polls the lock file and gets it
\* if it is free again and again; initdb ends.  Nothing is assumed of the
\* postmaster, of callers (GetServer, Cleanup) or of the faults.
Advance(p) == Construct(p) \/ Release(p)
Own(p) == (Advance(p) /\ pc[p] \notin Waiting \cup {"none", "attached"})
Fairness ==
    \A p \in Process :
        /\ WF_vars(Own(p))
        /\ SF_vars(EnterConstruction(p))
        /\ SF_vars(Rollback(p))
        /\ SF_vars(EnterCleanup(p))
        /\ WF_vars(InitdbChild(p))

FairSpec == Spec /\ Fairness

-----------------------------------------------------------------------------
\* Properties.

\* While _cleanup() stops the postmaster or deletes PGDATA (lines 475-478), no
\* other live process has a registered handle, and none can get one before the
\* lock is free.
LastHandleAlone ==
    \A p \in Process : pc[p] \in Closing => registered \subseteq {p}

\* A process that believes its PID is registered finds it in .handle_pids.json
\* if that file can be read at all: no other process's cleanup, rollback or
\* pruning of dead PIDs removes it.
RegisteredIsListed == torn \/ registered \subseteq handlePids

\* The two invariants are not inductive alone.  What they need besides: who is
\* in the critical section, that registered processes live, and that nothing
\* is registered at all during a stop or deletion.
LockHeld == \A p \in Process : pc[p] \in Critical => lock = p
RegisteredAlive == \A p \in registered : Alive(p)
ClosingAlone == \A p \in Process : pc[p] \in Closing => registered = {}
HandleInv ==
    /\ TypeOK
    /\ LockHeld
    /\ RegisteredAlive
    /\ RegisteredIsListed
    /\ ClosingAlone

\* Who serves or is about to serve a cluster finds one that no initdb writes;
\* there is one initdb that writes at most, and never to a complete cluster.
HandleRegistered ==
    \A p \in Process :
        pc[p] \in {"publish", "attached", "waitClose"} => p \in registered
ServedIsInitialized ==
    /\ postmaster \/ registered # {} => Initialized
    /\ \A p \in Process : pc[p] \in Closing \cup {"register"} => Initialized
OneWriter ==
    /\ \A p \in Process : initdb[p] = "writing" => dir \in {"partial", "torn"}
    /\ \A p, q \in Process :
          initdb[p] = "writing" /\ initdb[q] = "writing" => p = q
DeletesOnRequest ==
    \A p \in Process : pc[p] = "closeDelete" => mode[p] = "delete"
DataInv ==
    /\ HandleInv
    /\ HandleRegistered
    /\ ServedIsInitialized
    /\ OneWriter
    /\ DeletesOnRequest

\* A postmaster, and every process that has a handle, has the complete cluster
\* that initdb made: none is made, taken down or half made under them
\* (ensure_pgdata_inited, lines 296-323).  Only "crash", "interrupt" and "rm",
\* which leave a torn cluster that looks complete, are not withstood.
ServedIsComplete == postmaster \/ registered # {} => dir = "ready"

\* A complete cluster is only ever changed by the deletion a last handle in
\* "delete" mode performs, even when initdb orphans and crashed or failed
\* attempts are about.
DataRemovedOnlyByLastDelete ==
    [][dir = "ready" /\ dir' # dir =>
         \E p \in Process :
            /\ pc[p] = "closeDelete"
            /\ mode[p] = "delete"
            /\ registered \subseteq {p}]_vars

\* The classification made under the lock is still true when the directory is
\* first changed on its strength (comment at lines 187-189).
ClassificationHolds ==
    \A p \in Process :
        /\ pc[p] \in {"prepare", "stray"} => (p \in fresh <=> dir \in FreshDirs)
        /\ pc[p] \in {"conf", "ensure"} => dir \in {"ready", "torn"}

\* What a caller asked to preload stays configured as long as it holds its
\* handle: later callers merge, they do not replace.
RequestedLibrariesPersist ==
    \A p \in registered : request[p] \subseteq conf

\* When every process has returned from get_server() or closed its handle
\* again, no postmaster is left, whoever launched, adopted or rolled back what.
NoOrphanServer ==
    (\A p \in Process : pc[p] = "none") => ~postmaster /\ ~stray

\* PIDs that crashed holders left in the list do not keep the postmaster up:
\* it is gone when the last live listed process has closed in "stop" mode.
LastCloseStopsServer ==
    [][\A p \in Process :
         /\ pc[p] \in {"waitClose", "closeReap"}
         /\ pc'[p] = "none"
         /\ mode[p] = "stop"
         /\ \A q \in handlePids \ {p} : ~Alive(q)
         /\ pidfile # "none"
         => ~postmaster']_vars

\* Every get_server() call of a process that lives on returns or raises,
\* whatever the postmaster does and whoever dies holding the lock: deadlines
\* bound all it waits for.
AttemptFinishes ==
    \A p \in Process :
        pc[p] = "waitBuild" ~> pc[p] \in {"attached", "none", "dead"}

\* And so does every cleanup() call.
CleanupFinishes ==
    \A p \in Process :
        pc[p] = "waitClose" ~> pc[p] \in {"attached", "none", "dead"}

\* No process stops a postmaster that another process holds a handle of
\* (test_multiprocess_shared: "multiple processes can share the same server").
SharedServerStaysUp ==
    [][\A p \in Process :
         (pc[p] \in Critical /\ pc'[p] # pc[p] /\ postmaster /\ ~postmaster') =>
            registered \subseteq {p}]_vars

\* What the last user of the cluster is doing to it.
ClosingMode ==
    IF lock # NoProcess /\ pc[lock] \in Closing THEN mode[lock] ELSE "no"

\* How much of a cluster there is, by its PG_VERSION and in truth.
Cluster == CASE dir = "ready" -> "whole"
             [] dir = "torn" -> "half"
             [] OTHER -> "none"

\* PostgresServer keeps the promises of SharedCluster: nobody joins, starts or
\* creates anything while the last handle stops or deletes the cluster
\* (_cleanup, lines 475-478), a cluster is made only while nobody has it, and
\* only a deletion that the last user asked for takes a complete one away.
Promise == INSTANCE SharedCluster WITH
    users <- registered,
    cluster <- Cluster,
    up <- postmaster,
    closing <- ClosingMode
ImplementsSharedCluster == Promise!Spec

=============================================================================
