------------------------ MODULE PostgresServerProofs ------------------------
(***************************************************************************)
(* PostgresServer for every set of processes and every selection of        *)
(* cleanup modes, initial directories, libraries and faults.               *)
(***************************************************************************)
EXTENDS PostgresServer, TLAPS

\* The initial states are well typed.
LEMMA TypeInit == Init => TypeOK
<1> SUFFICES ASSUME Init PROVE TypeOK
  OBVIOUS
<1> USE DEF Init
<1>1. dir \in Dirs
  BY ParameterAssumption DEF ParameterAssumption, Dirs
<1>2. /\ conf \in SUBSET Libs
      /\ pidfile \in PidFiles
      /\ handlePids \in SUBSET Process
      /\ lock \in Process \cup {NoProcess}
  BY DEF PidFiles
<1>3. /\ postmaster \in BOOLEAN
      /\ stray \in BOOLEAN
      /\ torn \in BOOLEAN
  BY Zenon
<1>4. /\ initdb \in [Process -> {"none", "begun", "writing", "ok", "failed"}]
      /\ pc \in [Process -> Locations]
      /\ mode \in [Process -> CleanupModes]
      /\ info \in [Process -> {"none", "current", "stale"}]
  BY DEF Locations, CleanupModes
<1>5. /\ request \in [Process -> SUBSET Libs]
      /\ fresh \in SUBSET Process
      /\ started \in SUBSET Process
      /\ registered \in SUBSET Process
  BY DEF Locations
<1>6. QED
  BY <1>1, <1>2, <1>3, <1>4, <1>5 DEF TypeOK

\* What stopping the postmaster may change keeps its type.
LEMMA ReapType ==
  ASSUME TypeOK, NEW p \in Process, ReapStartedPostmaster(p)
  PROVE  /\ pidfile' \in PidFiles
         /\ postmaster' \in BOOLEAN
         /\ stray' \in BOOLEAN
         /\ info' \in [Process -> {"none", "current", "stale"}]
<1> USE DEF TypeOK, serverVars
<1>1. pidfile' \in PidFiles
  BY DEF ReapStartedPostmaster, PidFiles
<1>2. stray' = stray /\ (postmaster' = postmaster \/ postmaster' = FALSE)
  BY DEF ReapStartedPostmaster, Stopped
<1>3. info' = info \/ info' = Forget(info)
  BY DEF ReapStartedPostmaster, Stopped
<1>4. Forget(info) \in [Process -> {"none", "current", "stale"}]
  BY DEF Forget
<1>5. QED
  BY <1>1, <1>2, <1>3, <1>4

\* The part of the type invariant that a removal of the directory touches.
DiskTypeOK ==
    /\ dir \in Dirs
    /\ conf \in SUBSET Libs
    /\ pidfile \in PidFiles
    /\ postmaster \in BOOLEAN
    /\ stray \in BOOLEAN
    /\ handlePids \in SUBSET Process
    /\ torn \in BOOLEAN
    /\ info \in [Process -> {"none", "current", "stale"}]

\* rmtree leaves what it writes well-typed, however far it gets.
LEMMA RemovedType ==
    ASSUME TypeOK, NEW d \in Dirs, Removed(d)
    PROVE  DiskTypeOK'
<1>1. info' \in [Process -> {"none", "current", "stale"}]
  BY DEF Removed, Forget, TypeOK
<1>2. /\ dir' \in Dirs /\ pidfile' \in PidFiles
      /\ {postmaster', stray', torn'} \subseteq BOOLEAN
  BY DEF Removed, TypeOK, PidFiles
<1>3. conf' \in SUBSET Libs /\ handlePids' \in SUBSET Process
  BY DEF Removed, TypeOK
<1> QED
  BY <1>1, <1>2, <1>3 DEF DiskTypeOK

\* Every action keeps the types.
LEMMA TypeStep == TypeOK /\ [Next]_vars => TypeOK'
<1> SUFFICES ASSUME TypeOK, [Next]_vars PROVE TypeOK'
  OBVIOUS
<1> USE DEF TypeOK, Locations, Critical, Building, Closing, Waiting, Dirs, PidFiles,
            CleanupModes, Goto, Leave, Hold, Fail, Forget, Stopped, GetAndAdd,
            GetAndRemove, diskVars, serverVars, handleVars
<1>1. CASE UNCHANGED vars
  BY <1>1 DEF vars
<1>2. ASSUME NEW p \in Process, GetServer(p) PROVE TypeOK'
  BY <1>2, ParameterAssumption DEF ParameterAssumption, GetServer, FreshDirs
<1>3. ASSUME NEW p \in Process, EnterConstruction(p) PROVE TypeOK'
  BY <1>3 DEF EnterConstruction, Reclassify
<1>4. ASSUME NEW p \in Process, PrepareMutableRuntime(p) PROVE TypeOK'
  BY <1>4 DEF PrepareMutableRuntime
<1>5. ASSUME NEW p \in Process, StopStray(p) PROVE TypeOK'
  BY <1>5 DEF StopStray
<1>6. ASSUME NEW p \in Process, InitdbReturns(p) PROVE TypeOK'
  BY <1>6 DEF InitdbReturns
<1>7. ASSUME NEW p \in Process, EnsureSharedPreloadLibraries(p) PROVE TypeOK'
  BY <1>7 DEF EnsureSharedPreloadLibraries, MergedLibs
<1>8. ASSUME NEW p \in Process, AdoptPostmaster(p) PROVE TypeOK'
  BY <1>8 DEF AdoptPostmaster
<1>9. ASSUME NEW p \in Process, StartPostmaster(p) PROVE TypeOK'
  BY <1>9 DEF StartPostmaster
<1>10. ASSUME NEW p \in Process, PgCtlStartReturns(p) PROVE TypeOK'
  BY <1>10 DEF PgCtlStartReturns
<1>11. ASSUME NEW p \in Process, PollReadiness(p) PROVE TypeOK'
  BY <1>11 DEF PollReadiness
<1>12. ASSUME NEW p \in Process, ReadinessDeadline(p) PROVE TypeOK'
  BY <1>12 DEF ReadinessDeadline
<1>13. ASSUME NEW p \in Process, RegisterPid(p) PROVE TypeOK'
  BY <1>13 DEF RegisterPid
<1>14. ASSUME NEW p \in Process, Publish(p) PROVE TypeOK'
  BY <1>14 DEF Publish
<1>15. ASSUME NEW p \in Process, Rollback(p) PROVE TypeOK'
  BY <1>15 DEF Rollback
<1>16. ASSUME NEW p \in Process, RollbackReap(p) PROVE TypeOK'
  BY <1>16, ReapType DEF RollbackReap
<1>17. ASSUME NEW p \in Process, Cleanup(p) PROVE TypeOK'
  BY <1>17 DEF Cleanup
<1>18. ASSUME NEW p \in Process, EnterCleanup(p) PROVE TypeOK'
  BY <1>18 DEF EnterCleanup, Remaining
<1>19. ASSUME NEW p \in Process, CleanupReap(p) PROVE TypeOK'
  BY <1>19, ReapType DEF CleanupReap
<1>20. ASSUME NEW p \in Process, CleanupDelete(p) PROVE TypeOK'
  <2>1. PICK d \in Dirs : Removed(d)
    BY <1>20 DEF CleanupDelete
  <2>2. DiskTypeOK'
    BY <2>1, RemovedType
  <2>3. pc' = [pc EXCEPT ![p] = "none"] /\ lock' = NoProcess
    BY <1>20 DEF CleanupDelete
  <2>4. UNCHANGED <<initdb, mode, request, fresh, started, registered>>
    BY <1>20 DEF CleanupDelete
  <2> QED
    BY <2>2, <2>3, <2>4 DEF DiskTypeOK
<1>21. ASSUME NEW p \in Process, Interrupt(p) PROVE TypeOK'
  BY <1>21 DEF Interrupt
<1>22. ASSUME NEW p \in Process, Crash(p) PROVE TypeOK'
  <2>1. ASSUME NEW d \in {"torn", "partial", "absent"}, Removed(d)
        PROVE  DiskTypeOK'
    BY <2>1, RemovedType
  <2>2. ASSUME UNCHANGED <<dir, conf, handlePids, serverVars, info>>, torn' \in BOOLEAN
        PROVE  DiskTypeOK'
    BY <2>2 DEF DiskTypeOK
  <2>3. DiskTypeOK'
    BY <1>22, <2>1, <2>2 DEF Crash
  <2>4. /\ pc' = [pc EXCEPT ![p] = "dead"]
        /\ lock' = IF lock = p THEN NoProcess ELSE lock
        /\ UNCHANGED <<mode, request, fresh, started>>
    BY <1>22 DEF Crash
  <2>5. initdb' = initdb \/ initdb' = [initdb EXCEPT ![p] = "none"]
    BY <1>22 DEF Crash
  <2>6. registered' = registered \ {p}
    BY <1>22 DEF Crash
  <2> QED
    BY <2>3, <2>4, <2>5, <2>6 DEF DiskTypeOK
<1>23. ASSUME NEW p \in Process, Respawn(p) PROVE TypeOK'
  BY <1>23 DEF Respawn
<1>24. ASSUME NEW p \in Process, InitdbChild(p) PROVE TypeOK'
  BY <1>24 DEF InitdbChild, Ends
<1>25. CASE PostmasterBoots
  BY <1>25 DEF PostmasterBoots
<1>26. CASE PostmasterExits
  BY <1>26 DEF PostmasterExits
<1>27. QED
  BY <1>1, <1>2, <1>3, <1>4, <1>5, <1>6, <1>7, <1>8, <1>9, <1>10, <1>11, <1>12,
     <1>13, <1>14, <1>15, <1>16, <1>17, <1>18, <1>19, <1>20, <1>21, <1>22, <1>23,
     <1>24, <1>25, <1>26
     DEF Next, Construct, Release, Disturb

\* Every variable stays in its domain, for all parameters.
THEOREM TypeCorrect == Spec => []TypeOK
<1>1. TypeOK /\ [Next]_vars => TypeOK'
  BY TypeStep
<1>2. QED
  BY <1>1, TypeInit, PTL DEF Spec

\* Nothing is registered, locked or being closed at the start.
LEMMA HandleInit == Init => HandleInv
  BY TypeInit DEF Init, HandleInv, LockHeld, RegisteredAlive, RegisteredIsListed,
     ClosingAlone, Critical, Building, Closing

\* Every action keeps the bookkeeping of handles: the lock orders those that
\* register, withdraw and count PIDs, and a close counts only when it is alone.
LEMMA HandleStep == HandleInv /\ [Next]_vars => HandleInv'
<1> SUFFICES ASSUME HandleInv, [Next]_vars
             PROVE  LockHeld' /\ RegisteredAlive' /\ RegisteredIsListed' /\ ClosingAlone'
  BY TypeStep DEF HandleInv
<1> DEFINE Handles == LockHeld' /\ RegisteredAlive' /\ RegisteredIsListed' /\ ClosingAlone'
<1> USE ProcessAssumption DEF ProcessAssumption, HandleInv, TypeOK, LockHeld,
        RegisteredAlive, RegisteredIsListed,
        ClosingAlone, Critical, Building, Closing, Alive, Goto, Leave, Hold, Fail,
        diskVars, serverVars, handleVars
<1>1. CASE UNCHANGED vars
  BY <1>1 DEF vars
<1>2. ASSUME NEW p \in Process, GetServer(p) PROVE Handles
  BY <1>2 DEF GetServer
<1>3. ASSUME NEW p \in Process, EnterConstruction(p) PROVE Handles
  BY <1>3 DEF EnterConstruction
<1>4. ASSUME NEW p \in Process, PrepareMutableRuntime(p) PROVE Handles
  BY <1>4 DEF PrepareMutableRuntime
<1>5. ASSUME NEW p \in Process, StopStray(p) PROVE Handles
  BY <1>5 DEF StopStray
<1>6. ASSUME NEW p \in Process, InitdbReturns(p) PROVE Handles
  BY <1>6 DEF InitdbReturns
<1>7. ASSUME NEW p \in Process, EnsureSharedPreloadLibraries(p) PROVE Handles
  BY <1>7 DEF EnsureSharedPreloadLibraries
<1>8. ASSUME NEW p \in Process, AdoptPostmaster(p) PROVE Handles
  BY <1>8 DEF AdoptPostmaster
<1>9. ASSUME NEW p \in Process, StartPostmaster(p) PROVE Handles
  BY <1>9 DEF StartPostmaster
<1>10. ASSUME NEW p \in Process, PgCtlStartReturns(p) PROVE Handles
  BY <1>10 DEF PgCtlStartReturns
<1>11. ASSUME NEW p \in Process, PollReadiness(p) PROVE Handles
  BY <1>11 DEF PollReadiness
<1>12. ASSUME NEW p \in Process, ReadinessDeadline(p) PROVE Handles
  BY <1>12 DEF ReadinessDeadline
<1>13. ASSUME NEW p \in Process, RegisterPid(p) PROVE Handles
  BY <1>13 DEF RegisterPid, GetAndAdd
<1>14. ASSUME NEW p \in Process, Publish(p) PROVE Handles
  BY <1>14 DEF Publish
<1>15. ASSUME NEW p \in Process, Rollback(p) PROVE Handles
  BY <1>15 DEF Rollback, GetAndRemove
<1>16. ASSUME NEW p \in Process, RollbackReap(p) PROVE Handles
  BY <1>16 DEF RollbackReap
<1>17. ASSUME NEW p \in Process, Cleanup(p) PROVE Handles
  BY <1>17 DEF Cleanup
<1>18. ASSUME NEW p \in Process, EnterCleanup(p) PROVE Handles
  BY <1>18 DEF EnterCleanup, GetAndRemove, Remaining
<1>19. ASSUME NEW p \in Process, CleanupReap(p) PROVE Handles
  BY <1>19 DEF CleanupReap
<1>20. ASSUME NEW p \in Process, CleanupDelete(p) PROVE Handles
  BY <1>20 DEF CleanupDelete, Removed
<1>21. ASSUME NEW p \in Process, Interrupt(p) PROVE Handles
  BY <1>21 DEF Interrupt
<1>22. ASSUME NEW p \in Process, Crash(p) PROVE Handles
  BY <1>22 DEF Crash, Removed
<1>23. ASSUME NEW p \in Process, Respawn(p) PROVE Handles
  BY <1>23 DEF Respawn
<1>24. ASSUME NEW p \in Process, InitdbChild(p) PROVE Handles
  BY <1>24 DEF InitdbChild
<1>25. CASE PostmasterBoots
  BY <1>25 DEF PostmasterBoots
<1>26. CASE PostmasterExits
  BY <1>26 DEF PostmasterExits
<1>27. QED
  BY <1>1, <1>2, <1>3, <1>4, <1>5, <1>6, <1>7, <1>8, <1>9, <1>10, <1>11, <1>12, <1>13,
     <1>14, <1>15, <1>16, <1>17, <1>18, <1>19, <1>20, <1>21, <1>22, <1>23, <1>24,
     <1>25, <1>26
     DEF Next, Construct, Release, Disturb

\* The heart of sharing: while a last handle is being closed nobody else is
\* registered.
THEOREM LastHandleIsAlone == Spec => []LastHandleAlone
<1>1. HandleInv => LastHandleAlone
  BY DEF HandleInv, LastHandleAlone, ClosingAlone
<1>2. QED
  BY <1>1, HandleInit, HandleStep, PTL DEF Spec

\* A registered process is in the list that its peers consult.
THEOREM RegisteredIsKept == Spec => []RegisteredIsListed
<1>1. HandleInv => RegisteredIsListed
  BY DEF HandleInv
<1>2. QED
  BY <1>1, HandleInit, HandleStep, PTL DEF Spec

-----------------------------------------------------------------------------
\* Calls and the lock.

\* How many steps of its own a process is away from the end of its call.
StepsLeft(l) ==
    CASE l = "waitBuild" -> 12
      [] l = "prepare" -> 11
      [] l = "stray" -> 10
      [] l = "initdb" -> 9
      [] l = "conf" -> 8
      [] l = "ensure" -> 7
      [] l = "pgctl" -> 6
      [] l = "poll" -> 5
      [] l = "register" -> 4
      [] l \in {"publish", "waitClose"} -> 3
      [] l \in {"waitRollback", "closeReap"} -> 2
      [] l \in {"rollbackReap", "closeDelete"} -> 1
      [] l \in {"none", "attached", "dead"} -> 0

LEMMA StepsOf ==
    /\ StepsLeft("waitBuild") = 12 /\ StepsLeft("prepare") = 11
    /\ StepsLeft("stray") = 10 /\ StepsLeft("initdb") = 9 /\ StepsLeft("conf") = 8
    /\ StepsLeft("ensure") = 7 /\ StepsLeft("pgctl") = 6 /\ StepsLeft("poll") = 5
    /\ StepsLeft("register") = 4 /\ StepsLeft("publish") = 3
    /\ StepsLeft("waitClose") = 3 /\ StepsLeft("waitRollback") = 2
    /\ StepsLeft("closeReap") = 2 /\ StepsLeft("rollbackReap") = 1
    /\ StepsLeft("closeDelete") = 1 /\ StepsLeft("none") = 0
    /\ StepsLeft("attached") = 0 /\ StepsLeft("dead") = 0
  BY DEF StepsLeft

LEMMA AdvanceStep ==
    ASSUME TypeOK, [Next]_vars, NEW q \in Process,
           StepsLeft(pc[q]) > 0, pc'[q] # pc[q]
    PROVE  StepsLeft(pc'[q]) < StepsLeft(pc[q])
<1> DEFINE Nearer == StepsLeft(pc'[q]) < StepsLeft(pc[q])
<1> USE StepsOf DEF TypeOK, Goto, Leave, Hold, Fail
<1>1. CASE UNCHANGED vars
  BY <1>1 DEF vars
<1>2. ASSUME NEW p \in Process, GetServer(p) PROVE Nearer
  BY <1>2 DEF GetServer
<1>3. ASSUME NEW p \in Process, EnterConstruction(p) PROVE Nearer
  BY <1>3 DEF EnterConstruction
<1>4. ASSUME NEW p \in Process, PrepareMutableRuntime(p) PROVE Nearer
  BY <1>4 DEF PrepareMutableRuntime
<1>5. ASSUME NEW p \in Process, StopStray(p) PROVE Nearer
  BY <1>5 DEF StopStray
<1>6. ASSUME NEW p \in Process, InitdbReturns(p) PROVE Nearer
  BY <1>6 DEF InitdbReturns
<1>7. ASSUME NEW p \in Process, EnsureSharedPreloadLibraries(p) PROVE Nearer
  BY <1>7 DEF EnsureSharedPreloadLibraries
<1>8. ASSUME NEW p \in Process, AdoptPostmaster(p) PROVE Nearer
  BY <1>8 DEF AdoptPostmaster
<1>9. ASSUME NEW p \in Process, StartPostmaster(p) PROVE Nearer
  BY <1>9 DEF StartPostmaster
<1>10. ASSUME NEW p \in Process, PgCtlStartReturns(p) PROVE Nearer
  BY <1>10 DEF PgCtlStartReturns
<1>11. ASSUME NEW p \in Process, PollReadiness(p) PROVE Nearer
  BY <1>11 DEF PollReadiness
<1>12. ASSUME NEW p \in Process, ReadinessDeadline(p) PROVE Nearer
  BY <1>12 DEF ReadinessDeadline
<1>13. ASSUME NEW p \in Process, RegisterPid(p) PROVE Nearer
  BY <1>13 DEF RegisterPid
<1>14. ASSUME NEW p \in Process, Publish(p) PROVE Nearer
  BY <1>14 DEF Publish
<1>15. ASSUME NEW p \in Process, Rollback(p) PROVE Nearer
  BY <1>15 DEF Rollback
<1>16. ASSUME NEW p \in Process, RollbackReap(p) PROVE Nearer
  BY <1>16 DEF RollbackReap
<1>17. ASSUME NEW p \in Process, Cleanup(p) PROVE Nearer
  BY <1>17 DEF Cleanup
<1>18. ASSUME NEW p \in Process, EnterCleanup(p) PROVE Nearer
  BY <1>18 DEF EnterCleanup
<1>19. ASSUME NEW p \in Process, CleanupReap(p) PROVE Nearer
  BY <1>19 DEF CleanupReap
<1>20. ASSUME NEW p \in Process, CleanupDelete(p) PROVE Nearer
  BY <1>20 DEF CleanupDelete
<1>21. ASSUME NEW p \in Process, Interrupt(p) PROVE Nearer
  BY <1>21 DEF Interrupt, Building, Closing
<1>22. ASSUME NEW p \in Process, Crash(p) PROVE Nearer
  BY <1>22 DEF Crash, Locations, Critical, Building, Closing, Waiting, Alive
<1>23. ASSUME NEW p \in Process, Respawn(p) PROVE Nearer
  BY <1>23 DEF Respawn
<1>24. ASSUME NEW p \in Process, InitdbChild(p) PROVE Nearer
  BY <1>24 DEF InitdbChild
<1>25. CASE PostmasterBoots
  BY <1>25 DEF PostmasterBoots
<1>26. CASE PostmasterExits
  BY <1>26 DEF PostmasterExits
<1>27. QED
  BY <1>1, <1>2, <1>3, <1>4, <1>5, <1>6, <1>7, <1>8, <1>9, <1>10, <1>11, <1>12, <1>13,
     <1>14, <1>15, <1>16, <1>17, <1>18, <1>19, <1>20, <1>21, <1>22, <1>23, <1>24,
     <1>25, <1>26
     DEF Next, Construct, Release, Disturb

\* What makes get_server() and cleanup() end: every step of a process within
\* one of its calls brings the end nearer, whatever the others, the programs and
\* the faults do.  No call goes back to an earlier position or round in a circle.
Advances(p) ==
    StepsLeft(pc[p]) > 0 /\ pc'[p] # pc[p] => StepsLeft(pc'[p]) < StepsLeft(pc[p])
AttemptsOnlyAdvance == [][\A p \in Process : Advances(p)]_vars

THEOREM AttemptsAdvance == Spec => AttemptsOnlyAdvance
<1>1. TypeOK /\ [Next]_vars => [\A p \in Process : Advances(p)]_vars
  BY AdvanceStep DEF Advances
<1>2. QED
  BY <1>1, TypeInit, TypeStep, PTL DEF Spec, AttemptsOnlyAdvance

\* The lock is never left behind.
LockIsInUse == lock # NoProcess => pc[lock] \in Critical

LEMMA LockStep ==
    ASSUME TypeOK, LockIsInUse, [Next]_vars
    PROVE  LockIsInUse'
<1> USE ProcessAssumption DEF TypeOK, LockIsInUse, Goto, Leave, Hold, Fail, Critical,
        Building, Closing
<1>1. CASE UNCHANGED vars
  BY <1>1 DEF vars
<1>2. ASSUME NEW p \in Process, GetServer(p) PROVE LockIsInUse'
  BY <1>2 DEF GetServer
<1>3. ASSUME NEW p \in Process, EnterConstruction(p) PROVE LockIsInUse'
  BY <1>3 DEF EnterConstruction
<1>4. ASSUME NEW p \in Process, PrepareMutableRuntime(p) PROVE LockIsInUse'
  BY <1>4 DEF PrepareMutableRuntime
<1>5. ASSUME NEW p \in Process, StopStray(p) PROVE LockIsInUse'
  BY <1>5 DEF StopStray
<1>6. ASSUME NEW p \in Process, InitdbReturns(p) PROVE LockIsInUse'
  BY <1>6 DEF InitdbReturns
<1>7. ASSUME NEW p \in Process, EnsureSharedPreloadLibraries(p) PROVE LockIsInUse'
  BY <1>7 DEF EnsureSharedPreloadLibraries
<1>8. ASSUME NEW p \in Process, AdoptPostmaster(p) PROVE LockIsInUse'
  BY <1>8 DEF AdoptPostmaster
<1>9. ASSUME NEW p \in Process, StartPostmaster(p) PROVE LockIsInUse'
  BY <1>9 DEF StartPostmaster
<1>10. ASSUME NEW p \in Process, PgCtlStartReturns(p) PROVE LockIsInUse'
  BY <1>10 DEF PgCtlStartReturns
<1>11. ASSUME NEW p \in Process, PollReadiness(p) PROVE LockIsInUse'
  BY <1>11 DEF PollReadiness
<1>12. ASSUME NEW p \in Process, ReadinessDeadline(p) PROVE LockIsInUse'
  BY <1>12 DEF ReadinessDeadline
<1>13. ASSUME NEW p \in Process, RegisterPid(p) PROVE LockIsInUse'
  BY <1>13 DEF RegisterPid
<1>14. ASSUME NEW p \in Process, Publish(p) PROVE LockIsInUse'
  BY <1>14 DEF Publish
<1>15. ASSUME NEW p \in Process, Rollback(p) PROVE LockIsInUse'
  BY <1>15 DEF Rollback
<1>16. ASSUME NEW p \in Process, RollbackReap(p) PROVE LockIsInUse'
  BY <1>16 DEF RollbackReap
<1>17. ASSUME NEW p \in Process, Cleanup(p) PROVE LockIsInUse'
  BY <1>17 DEF Cleanup
<1>18. ASSUME NEW p \in Process, EnterCleanup(p) PROVE LockIsInUse'
  BY <1>18 DEF EnterCleanup
<1>19. ASSUME NEW p \in Process, CleanupReap(p) PROVE LockIsInUse'
  BY <1>19 DEF CleanupReap
<1>20. ASSUME NEW p \in Process, CleanupDelete(p) PROVE LockIsInUse'
  BY <1>20 DEF CleanupDelete
<1>21. ASSUME NEW p \in Process, Interrupt(p) PROVE LockIsInUse'
  BY <1>21 DEF Interrupt
<1>22. ASSUME NEW p \in Process, Crash(p) PROVE LockIsInUse'
  BY <1>22 DEF Crash
<1>23. ASSUME NEW p \in Process, Respawn(p) PROVE LockIsInUse'
  BY <1>23 DEF Respawn
<1>24. ASSUME NEW p \in Process, InitdbChild(p) PROVE LockIsInUse'
  BY <1>24 DEF InitdbChild
<1>25. CASE PostmasterBoots
  BY <1>25 DEF PostmasterBoots
<1>26. CASE PostmasterExits
  BY <1>26 DEF PostmasterExits
<1>27. QED
  BY <1>1, <1>2, <1>3, <1>4, <1>5, <1>6, <1>7, <1>8, <1>9, <1>10, <1>11, <1>12, <1>13,
     <1>14, <1>15, <1>16, <1>17, <1>18, <1>19, <1>20, <1>21, <1>22, <1>23, <1>24,
     <1>25, <1>26
     DEF Next, Construct, Release, Disturb

\* A process has the lock exactly while it is within the with-block of __init__,
\* rollback or cleanup: no error path, interrupt or crash loses it to others or
\* keeps it from them.
LockFollowsBlocks == \A p \in Process : lock = p <=> pc[p] \in Critical

THEOREM LockIsNotLost == Spec => []LockFollowsBlocks
<1>1. Init => LockIsInUse
  BY DEF Init, LockIsInUse
<1>2. HandleInv /\ LockIsInUse => LockFollowsBlocks
  BY ProcessAssumption DEF HandleInv, LockHeld, LockIsInUse, LockFollowsBlocks
<1>3. HandleInv /\ LockIsInUse /\ [Next]_vars => HandleInv' /\ LockIsInUse'
  BY HandleStep, LockStep DEF HandleInv
<1>4. QED
  BY <1>1, <1>2, <1>3, HandleInit, PTL DEF Spec

-----------------------------------------------------------------------------
\* At the start nobody serves, writes or deletes.
LEMMA DataInit == Init => DataInv
  BY HandleInit DEF Init, DataInv, HandleRegistered, ServedIsInitialized, Initialized,
     OneWriter,
     DeletesOnRequest, Closing

\* Every action keeps a cluster complete for those that serve it; initdb
\* orphans are the hard case: two may run, one writes.
LEMMA DataStep == DataInv /\ [Next]_vars => DataInv'
<1> SUFFICES ASSUME DataInv, [Next]_vars
             PROVE  HandleRegistered' /\ ServedIsInitialized' /\ OneWriter' /\ DeletesOnRequest'
  BY HandleStep DEF DataInv
<1> DEFINE Data == HandleRegistered' /\ ServedIsInitialized' /\ OneWriter' /\ DeletesOnRequest'
<1> USE DEF DataInv, HandleInv, TypeOK, LockHeld, ClosingAlone, HandleRegistered,
        ServedIsInitialized, Initialized, OneWriter, DeletesOnRequest, Critical,
        Building, Closing, Goto, Leave, Hold, Fail, diskVars, serverVars, handleVars
<1>1. CASE UNCHANGED vars
  BY <1>1 DEF vars
<1>2. ASSUME NEW p \in Process, GetServer(p) PROVE Data
  BY <1>2 DEF GetServer
<1>3. ASSUME NEW p \in Process, EnterConstruction(p) PROVE Data
  BY <1>3 DEF EnterConstruction
<1>4. ASSUME NEW p \in Process, PrepareMutableRuntime(p) PROVE Data
  BY <1>4 DEF PrepareMutableRuntime
<1>5. ASSUME NEW p \in Process, StopStray(p) PROVE Data
  BY <1>5 DEF StopStray
<1>6. ASSUME NEW p \in Process, InitdbReturns(p) PROVE Data
  BY <1>6 DEF InitdbReturns
<1>7. ASSUME NEW p \in Process, EnsureSharedPreloadLibraries(p) PROVE Data
  BY <1>7 DEF EnsureSharedPreloadLibraries
<1>8. ASSUME NEW p \in Process, AdoptPostmaster(p) PROVE Data
  BY <1>8 DEF AdoptPostmaster, ServerSeen
<1>9. ASSUME NEW p \in Process, StartPostmaster(p) PROVE Data
  BY <1>9 DEF StartPostmaster, ServerSeen
<1>10. ASSUME NEW p \in Process, PgCtlStartReturns(p) PROVE Data
  BY <1>10 DEF PgCtlStartReturns
<1>11. ASSUME NEW p \in Process, PollReadiness(p) PROVE Data
  BY <1>11 DEF PollReadiness
<1>12. ASSUME NEW p \in Process, ReadinessDeadline(p) PROVE Data
  BY <1>12 DEF ReadinessDeadline
<1>13. ASSUME NEW p \in Process, RegisterPid(p) PROVE Data
  BY <1>13 DEF RegisterPid, GetAndAdd
<1>14. ASSUME NEW p \in Process, Publish(p) PROVE Data
  BY <1>14 DEF Publish
<1>15. ASSUME NEW p \in Process, Rollback(p) PROVE Data
  BY <1>15 DEF Rollback, GetAndRemove
<1>16. ASSUME NEW p \in Process, RollbackReap(p) PROVE Data
  BY <1>16 DEF RollbackReap, ReapStartedPostmaster, Stopped
<1>17. ASSUME NEW p \in Process, Cleanup(p) PROVE Data
  BY <1>17 DEF Cleanup
<1>18. ASSUME NEW p \in Process, EnterCleanup(p) PROVE Data
  BY <1>18 DEF EnterCleanup, GetAndRemove, Remaining
<1>19. ASSUME NEW p \in Process, CleanupReap(p) PROVE Data
  BY <1>19 DEF CleanupReap, ReapStartedPostmaster, Stopped
<1>20. ASSUME NEW p \in Process, CleanupDelete(p) PROVE Data
  BY <1>20 DEF CleanupDelete, Removed
<1>21. ASSUME NEW p \in Process, Interrupt(p) PROVE Data
  BY <1>21 DEF Interrupt
<1>22. ASSUME NEW p \in Process, Crash(p) PROVE Data
<2>1. \A q \in Process : initdb'[q] = "writing" => initdb[q] = "writing"
  BY <1>22 DEF Crash
<2>2. CASE pc[p] = "closeDelete" /\ \E d \in {"torn", "partial", "absent"} : Removed(d)
  <3>1. registered = {} /\ registered' = {} /\ Initialized
    BY <1>22, <2>2 DEF Crash
  <3>2. \A q \in Process : initdb'[q] # "writing"
    BY <2>1, <3>1
  <3>3. \A q \in Process : pc'[q] \notin Closing \cup {"register"}
    BY <1>22, <2>2 DEF Crash
  <3>4. HandleRegistered' /\ DeletesOnRequest' /\ postmaster' = FALSE
    BY <1>22, <2>2, <3>1 DEF Crash, Removed
  <3>5. QED
    BY <3>1, <3>2, <3>3, <3>4
<2>3. CASE UNCHANGED <<dir, conf, handlePids, serverVars, info>>
  BY <1>22, <2>1, <2>3 DEF Crash
<2>4. QED
  BY <1>22, <2>2, <2>3 DEF Crash
<1>23. ASSUME NEW p \in Process, Respawn(p) PROVE Data
  BY <1>23 DEF Respawn
<1>24. ASSUME NEW p \in Process, InitdbChild(p) PROVE Data
  BY <1>24 DEF InitdbChild, Ends, FreshDirs
<1>25. CASE PostmasterBoots
  BY <1>25 DEF PostmasterBoots
<1>26. CASE PostmasterExits
  BY <1>26 DEF PostmasterExits, Stopped
<1>27. QED
  BY <1>1, <1>2, <1>3, <1>4, <1>5, <1>6, <1>7, <1>8, <1>9, <1>10, <1>11, <1>12, <1>13,
     <1>14, <1>15, <1>16, <1>17, <1>18, <1>19, <1>20, <1>21, <1>22, <1>23, <1>24,
     <1>25, <1>26
     DEF Next, Construct, Release, Disturb

\* What is served, registered or being closed is a cluster that nobody makes any
\* more, and one initdb at most writes, never to a complete one.
THEOREM DataIsInitialized == Spec => []DataInv
  BY DataInit, DataStep, PTL DEF Spec

\* A complete cluster is never changed but by the deletion of a last handle.
THEOREM DataIsSafe == Spec => DataRemovedOnlyByLastDelete
<1> DEFINE Safe == dir = "ready" /\ dir' # dir =>
                     \E p \in Process : /\ pc[p] = "closeDelete"
                                        /\ mode[p] = "delete"
                                        /\ registered \subseteq {p}
<1>1. ASSUME DataInv, Next PROVE Safe
  <2> SUFFICES ASSUME dir = "ready", dir' # dir PROVE Safe
    OBVIOUS
  <2> USE <1>1 DEF DataInv, diskVars
  <2>1. ASSUME NEW p \in Process, PrepareMutableRuntime(p) PROVE FALSE
    BY <2>1 DEF PrepareMutableRuntime
  <2>2. ASSUME NEW p \in Process, InitdbChild(p) PROVE FALSE
    BY <2>2 DEF InitdbChild, FreshDirs, OneWriter
  <2>3. ASSUME NEW p \in Process, pc[p] = "closeDelete" PROVE Safe
    BY <2>3 DEF HandleInv, ClosingAlone, Closing, DeletesOnRequest
  <2>4. ASSUME NEW p \in Process, Crash(p) PROVE pc[p] = "closeDelete"
    BY <2>4 DEF Crash
  <2>5. ASSUME NEW p \in Process, CleanupDelete(p) PROVE pc[p] = "closeDelete"
    BY <2>5 DEF CleanupDelete
  <2>6. ASSUME NEW p \in Process, Construct(p), ~PrepareMutableRuntime(p) PROVE FALSE
    BY <2>6 DEF Construct, GetServer, EnterConstruction, StopStray, InitdbReturns,
       EnsureSharedPreloadLibraries, AdoptPostmaster, StartPostmaster,
       PgCtlStartReturns, PollReadiness, ReadinessDeadline, RegisterPid, Publish
  <2>7. ASSUME NEW p \in Process, Release(p), ~CleanupDelete(p) PROVE FALSE
    BY <2>7 DEF Release, Rollback, RollbackReap, Cleanup, EnterCleanup, CleanupReap
  <2>8. ASSUME NEW p \in Process, Interrupt(p) \/ Respawn(p) PROVE FALSE
    BY <2>8 DEF Interrupt, Respawn
  <2>9. ~PostmasterBoots /\ ~PostmasterExits
    BY DEF PostmasterBoots, PostmasterExits
  <2>10. QED
    BY <1>1, <2>1, <2>2, <2>3, <2>4, <2>5, <2>6, <2>7, <2>8, <2>9 DEF Next, Disturb
<1>2. DataInv /\ [Next]_vars => [Safe]_vars
  BY <1>1
<1>3. QED
  BY <1>2, DataInit, DataStep, PTL DEF Spec, DataRemovedOnlyByLastDelete

-----------------------------------------------------------------------------
\* Without crashes there is no orphan of initdb, and then what a process has
\* found out about the directory under the lock stays true.
NoOrphanInitdb == \A p \in Process : initdb[p] # "none" => pc[p] = "initdb"
NotRefused ==
    \A p \in Process : pc[p] \in {"prepare", "stray"} => dir \notin RefusedDirs
Merged ==
    \A p \in Process :
        p \in registered \/ pc[p] \in {"ensure", "pgctl", "poll", "register"} =>
            request[p] \subseteq conf
CalmInv ==
    /\ DataInv
    /\ NoOrphanInitdb
    /\ NotRefused
    /\ ClassificationHolds
    /\ Merged

LEMMA CalmInit == Init => CalmInv
  BY DataInit DEF Init, CalmInv, NoOrphanInitdb, NotRefused, ClassificationHolds, Merged

\* Every action but a crash keeps it.
LEMMA CalmStep ==
    ASSUME "crash" \notin Faults
    PROVE  CalmInv /\ [Next]_vars => CalmInv'
<1> SUFFICES ASSUME CalmInv, [Next]_vars
             PROVE  NoOrphanInitdb' /\ NotRefused' /\ ClassificationHolds' /\ Merged'
  BY DataStep DEF CalmInv
<1> DEFINE Calm == NoOrphanInitdb' /\ NotRefused' /\ ClassificationHolds' /\ Merged'
<1> USE DEF CalmInv, DataInv, HandleInv, TypeOK, LockHeld, ClosingAlone,
        ServedIsInitialized, Initialized,
        NoOrphanInitdb, NotRefused, ClassificationHolds, Merged, Critical, Building,
        Closing, FreshDirs, RefusedDirs, Goto, Leave, Hold, Fail, diskVars, serverVars,
        handleVars
<1>1. CASE UNCHANGED vars
  BY <1>1 DEF vars
<1>2. ASSUME NEW p \in Process, GetServer(p) PROVE Calm
  BY <1>2 DEF GetServer
<1>3. ASSUME NEW p \in Process, EnterConstruction(p) PROVE Calm
  BY <1>3 DEF EnterConstruction, Reclassify
<1>4. ASSUME NEW p \in Process, PrepareMutableRuntime(p) PROVE Calm
  BY <1>4 DEF PrepareMutableRuntime, Dirs
<1>5. ASSUME NEW p \in Process, StopStray(p) PROVE Calm
  BY <1>5 DEF StopStray
<1>6. ASSUME NEW p \in Process, InitdbReturns(p) PROVE Calm
  BY <1>6 DEF InitdbReturns, Dirs
<1>7. ASSUME NEW p \in Process, EnsureSharedPreloadLibraries(p) PROVE Calm
  BY <1>7 DEF EnsureSharedPreloadLibraries, MergedLibs
<1>8. ASSUME NEW p \in Process, AdoptPostmaster(p) PROVE Calm
  BY <1>8 DEF AdoptPostmaster
<1>9. ASSUME NEW p \in Process, StartPostmaster(p) PROVE Calm
  BY <1>9 DEF StartPostmaster
<1>10. ASSUME NEW p \in Process, PgCtlStartReturns(p) PROVE Calm
  BY <1>10 DEF PgCtlStartReturns
<1>11. ASSUME NEW p \in Process, PollReadiness(p) PROVE Calm
  BY <1>11 DEF PollReadiness
<1>12. ASSUME NEW p \in Process, ReadinessDeadline(p) PROVE Calm
  BY <1>12 DEF ReadinessDeadline
<1>13. ASSUME NEW p \in Process, RegisterPid(p) PROVE Calm
  BY <1>13 DEF RegisterPid
<1>14. ASSUME NEW p \in Process, Publish(p) PROVE Calm
  BY <1>14 DEF Publish
<1>15. ASSUME NEW p \in Process, Rollback(p) PROVE Calm
  BY <1>15 DEF Rollback
<1>16. ASSUME NEW p \in Process, RollbackReap(p) PROVE Calm
  BY <1>16 DEF RollbackReap
<1>17. ASSUME NEW p \in Process, Cleanup(p) PROVE Calm
  BY <1>17 DEF Cleanup
<1>18. ASSUME NEW p \in Process, EnterCleanup(p) PROVE Calm
  BY <1>18 DEF EnterCleanup
<1>19. ASSUME NEW p \in Process, CleanupReap(p) PROVE Calm
  BY <1>19 DEF CleanupReap
<1>20. ASSUME NEW p \in Process, CleanupDelete(p) PROVE Calm
  BY <1>20 DEF CleanupDelete, Removed
<1>21. ASSUME NEW p \in Process, Interrupt(p) PROVE Calm
  BY <1>21 DEF Interrupt
<1>22. ASSUME NEW p \in Process, Crash(p) PROVE Calm
  BY <1>22 DEF Crash
<1>23. ASSUME NEW p \in Process, Respawn(p) PROVE Calm
  BY <1>23 DEF Respawn
<1>24. ASSUME NEW p \in Process, InitdbChild(p) PROVE Calm
  <2>1. pc[p] = "initdb" /\ pc' = pc
    BY <1>24 DEF InitdbChild
  <2>2. \A q \in Process : q # p => pc[q] \notin Critical
    BY <2>1
  <2>3. /\ UNCHANGED handleVars
        /\ \A q \in Process : initdb'[q] # "none" => initdb[q] # "none"
    BY <1>24 DEF InitdbChild, Ends
  <2>4. NoOrphanInitdb' /\ NotRefused' /\ ClassificationHolds'
    BY <2>1, <2>2, <2>3
  <2>5. CASE conf' = conf
    BY <2>1, <2>3, <2>4, <2>5
  <2>6. CASE initdb[p] = "writing"
    <3>1. registered = {}
      BY <2>6 DEF OneWriter
    <3>2. Merged'
      BY <2>1, <2>2, <2>3, <3>1
    <3>3. QED
      BY <2>4, <3>2
  <2>7. QED
    BY <1>24, <2>5, <2>6 DEF InitdbChild
<1>25. CASE PostmasterBoots
  BY <1>25 DEF PostmasterBoots
<1>26. CASE PostmasterExits
  BY <1>26 DEF PostmasterExits, Stopped
<1>27. QED
  BY <1>1, <1>2, <1>3, <1>4, <1>5, <1>6, <1>7, <1>8, <1>9, <1>10, <1>11, <1>12, <1>13,
     <1>14, <1>15, <1>16, <1>17, <1>18, <1>19, <1>20, <1>21, <1>22, <1>23, <1>24,
     <1>25, <1>26
     DEF Next, Construct, Release, Disturb

\* The classification of the directory made under the lock stays right until it
\* is acted on, if no process dies and leaves an initdb behind.
THEOREM ClassificationIsStable ==
    ASSUME "crash" \notin Faults
    PROVE  Spec => []ClassificationHolds
<1>1. CalmInv => ClassificationHolds
  BY DEF CalmInv
<1>2. CalmInv /\ [Next]_vars => CalmInv'
  BY CalmStep
<1>3. QED
  BY <1>1, <1>2, CalmInit, PTL DEF Spec

\* No later caller takes away what a handle's process asked to preload.
THEOREM LibrariesAreKept ==
    ASSUME "crash" \notin Faults
    PROVE  Spec => []RequestedLibrariesPersist
<1>1. CalmInv => RequestedLibrariesPersist
  BY DEF CalmInv, Merged, RequestedLibrariesPersist, DataInv, HandleInv, TypeOK
<1>2. CalmInv /\ [Next]_vars => CalmInv'
  BY CalmStep
<1>3. QED
  BY <1>1, <1>2, CalmInit, PTL DEF Spec

\* A valid PG_VERSION in an incomplete cluster is the mark of an initdb at work.
NothingHalfDone == dir = "torn" => \E p \in Process : initdb[p] = "writing"

LEMMA HalfDoneStep ==
    ASSUME Faults \cap {"crash", "interrupt", "rm"} = {}, CalmInv, NothingHalfDone,
           [Next]_vars
    PROVE  NothingHalfDone'
<1> USE DEF CalmInv, NoOrphanInitdb, DataInv, HandleInv, TypeOK, NothingHalfDone,
        diskVars
<1>1. CASE UNCHANGED vars
  BY <1>1 DEF vars
<1>2. ASSUME NEW p \in Process, Construct(p) PROVE NothingHalfDone'
  <2>1. dir' = "torn" => dir = "torn"
    BY <1>2 DEF Construct, GetServer, EnterConstruction, PrepareMutableRuntime,
       StopStray, InitdbReturns, EnsureSharedPreloadLibraries, AdoptPostmaster,
       StartPostmaster, PgCtlStartReturns, PollReadiness, ReadinessDeadline,
       RegisterPid, Publish
  <2>2. ASSUME NEW q \in Process, initdb[q] = "writing" PROVE initdb'[q] = "writing"
    <3>1. ~StopStray(p) /\ ~InitdbReturns(p) => initdb' = initdb
      BY <1>2 DEF Construct, GetServer, EnterConstruction, PrepareMutableRuntime,
         EnsureSharedPreloadLibraries, AdoptPostmaster, StartPostmaster,
         PgCtlStartReturns, PollReadiness, ReadinessDeadline, RegisterPid, Publish
    <3> QED
      BY <2>2, <3>1 DEF StopStray, InitdbReturns
  <2> QED
    BY <2>1, <2>2
<1>3. ASSUME NEW p \in Process, Release(p) PROVE NothingHalfDone'
  <2>1. initdb' = initdb /\ (dir' = "torn" => dir = "torn")
    BY <1>3 DEF Release, Rollback, RollbackReap, Cleanup, EnterCleanup, CleanupReap,
       CleanupDelete, Removed
  <2> QED
    BY <2>1
<1>4. ASSUME NEW p \in Process, Disturb(p) PROVE NothingHalfDone'
  BY <1>4 DEF Disturb, Interrupt, Crash, Respawn
<1>5. ASSUME NEW p \in Process, InitdbChild(p) PROVE NothingHalfDone'
  BY <1>5 DEF InitdbChild, Ends
<1>6. CASE PostmasterBoots \/ PostmasterExits
  BY <1>6 DEF PostmasterBoots, PostmasterExits
<1> QED
  BY <1>1, <1>2, <1>3, <1>4, <1>5, <1>6 DEF Next

\* Whoever is served has a complete cluster, whatever programs fail, hang or die,
\* as long as no initdb and no rmtree is cut short.
THEOREM DataIsComplete ==
    ASSUME Faults \cap {"crash", "interrupt", "rm"} = {}
    PROVE  Spec => []ServedIsComplete
<1>1. CalmInv /\ NothingHalfDone => ServedIsComplete
  BY DEF CalmInv, DataInv, ServedIsInitialized, Initialized, NothingHalfDone,
     ServedIsComplete
<1>2. Init => NothingHalfDone
  BY ParameterAssumption DEF ParameterAssumption, Init, NothingHalfDone
<1>3. CalmInv /\ NothingHalfDone /\ [Next]_vars => CalmInv' /\ NothingHalfDone'
  BY CalmStep, HalfDoneStep
<1> QED
  BY <1>1, <1>2, <1>3, CalmInit, PTL DEF Spec

-----------------------------------------------------------------------------
\* Where starts and stops are not cut short, every postmaster has somebody who
\* will stop it.
ListIsExact == handlePids = registered /\ ~torn
RegisteredHold ==
    \A p \in registered : pc[p] \in {"publish", "attached", "waitClose"}
\* Only pg_ctl's caller sees a postmaster that is not ready.
BootIsWatched ==
    postmaster => pidfile = "ready" \/ \E p \in Process : pc[p] = "pgctl"
Answerable(p) == p \in registered \/ pc[p] \in {"pgctl", "poll", "register", "closeReap"}
ServerHasOwner == postmaster => \E p \in Process : Answerable(p)
NoStray ==
    /\ ~stray
    /\ \A p \in Process : pc[p] = "closeDelete" => ~postmaster
AllStop == \A p \in Process : mode[p] # "none" /\ pc[p] # "dead"

QuietInv ==
    /\ DataInv
    /\ ListIsExact
    /\ RegisteredHold
    /\ BootIsWatched
    /\ ServerHasOwner
    /\ NoStray
    /\ AllStop

LEMMA QuietInit == Init => QuietInv
  BY DataInit DEF Init, QuietInv, ListIsExact, RegisteredHold, BootIsWatched,
     ServerHasOwner, NoStray, AllStop

\* A failure before the start, a failed start, the end of a handle that is not
\* the last, and a close all leave the postmaster in somebody's care.
LEMMA QuietStep ==
    ASSUME Faults \cap {"crash", "interrupt", "slow", "stop"} = {}, "none" \notin Modes
    PROVE  QuietInv /\ [Next]_vars => QuietInv'
<1> SUFFICES ASSUME QuietInv, [Next]_vars
             PROVE  /\ ListIsExact' /\ RegisteredHold' /\ BootIsWatched'
                    /\ ServerHasOwner' /\ NoStray' /\ AllStop'
  BY DataStep DEF QuietInv
<1> DEFINE Quiet == /\ ListIsExact' /\ RegisteredHold' /\ BootIsWatched'
                    /\ ServerHasOwner' /\ NoStray' /\ AllStop'
<1> USE DEF QuietInv, DataInv, HandleInv, TypeOK, LockHeld, ClosingAlone,
        HandleRegistered, ListIsExact, RegisteredHold, BootIsWatched, ServerHasOwner,
        Answerable, NoStray, AllStop, Alive, Critical, Building, Closing, Goto, Leave,
        Hold, Fail, diskVars, serverVars, handleVars
<1>1. CASE UNCHANGED vars
  BY <1>1 DEF vars
<1>2. ASSUME NEW p \in Process, GetServer(p) PROVE Quiet
  BY <1>2 DEF GetServer
<1>3. ASSUME NEW p \in Process, EnterConstruction(p) PROVE Quiet
  BY <1>3 DEF EnterConstruction
<1>4. ASSUME NEW p \in Process, PrepareMutableRuntime(p) PROVE Quiet
  BY <1>4 DEF PrepareMutableRuntime
<1>5. ASSUME NEW p \in Process, StopStray(p) PROVE Quiet
  BY <1>5 DEF StopStray
<1>6. ASSUME NEW p \in Process, InitdbReturns(p) PROVE Quiet
  BY <1>6 DEF InitdbReturns
<1>7. ASSUME NEW p \in Process, EnsureSharedPreloadLibraries(p) PROVE Quiet
  BY <1>7 DEF EnsureSharedPreloadLibraries
<1>8. ASSUME NEW p \in Process, AdoptPostmaster(p) PROVE Quiet
  BY <1>8 DEF AdoptPostmaster, ServerSeen
<1>9. ASSUME NEW p \in Process, StartPostmaster(p) PROVE Quiet
  BY <1>9 DEF StartPostmaster
<1>10. ASSUME NEW p \in Process, PgCtlStartReturns(p) PROVE Quiet
  BY <1>10 DEF PgCtlStartReturns
<1>11. ASSUME NEW p \in Process, PollReadiness(p) PROVE Quiet
  BY <1>11 DEF PollReadiness
<1>12. ASSUME NEW p \in Process, ReadinessDeadline(p) PROVE Quiet
  BY <1>12 DEF ReadinessDeadline
<1>13. ASSUME NEW p \in Process, RegisterPid(p) PROVE Quiet
  <2>1. /\ handlePids' = handlePids \cup {p} /\ registered' = registered \cup {p}
        /\ pc' = [pc EXCEPT ![p] = "publish"] /\ torn' = torn
        /\ UNCHANGED <<serverVars, mode>>
    BY <1>13 DEF RegisterPid, GetAndAdd
  <2>2. ListIsExact' /\ RegisteredHold' /\ NoStray' /\ AllStop'
    BY <2>1
  <2>3. BootIsWatched'
    BY <1>13, <2>1 DEF RegisterPid
  <2>4. ServerHasOwner'
    BY <2>1
  <2>5. QED
    BY <2>2, <2>3, <2>4
<1>14. ASSUME NEW p \in Process, Publish(p) PROVE Quiet
  BY <1>14 DEF Publish
<1>15. ASSUME NEW p \in Process, Rollback(p) PROVE Quiet
  BY <1>15 DEF Rollback, GetAndRemove
<1>16. ASSUME NEW p \in Process, RollbackReap(p) PROVE Quiet
  BY <1>16 DEF RollbackReap, ReapStartedPostmaster, Stopped
<1>17. ASSUME NEW p \in Process, Cleanup(p) PROVE Quiet
  BY <1>17 DEF Cleanup
<1>18. ASSUME NEW p \in Process, EnterCleanup(p) PROVE Quiet
  <2>1. /\ registered' = registered \ {p} /\ torn' = torn /\ lock = NoProcess
        /\ handlePids' = {q \in registered \ {p} : pc[q] # "dead"}
        /\ UNCHANGED <<serverVars, mode>> /\ p \in registered
    BY <1>18 DEF EnterCleanup, GetAndRemove, Remaining
  <2>2. handlePids' = registered'
    BY <2>1
  <2>3. \A q \in Process : q # p => pc'[q] = pc[q]
    BY <1>18 DEF EnterCleanup
  <2>4. IF registered' = {} THEN pc'[p] = "closeReap" ELSE pc'[p] = "none"
    BY <1>18, <2>1, <2>2 DEF EnterCleanup, Remaining
  <2>5. \A q \in Process : pc[q] \notin Critical
    BY <2>1, ProcessAssumption DEF ProcessAssumption
  <2>6. ListIsExact' /\ RegisteredHold' /\ NoStray' /\ AllStop'
    BY <2>1, <2>2, <2>3, <2>4
  <2>7. BootIsWatched'
    BY <2>1, <2>5
  <2>8. ServerHasOwner'
    BY <2>4, <2>1
  <2>9. QED
    BY <2>6, <2>7, <2>8
<1>19. ASSUME NEW p \in Process, CleanupReap(p) PROVE Quiet
  BY <1>19 DEF CleanupReap, ReapStartedPostmaster, Stopped
<1>20. ASSUME NEW p \in Process, CleanupDelete(p) PROVE Quiet
  BY <1>20 DEF CleanupDelete, Removed
<1>21. ASSUME NEW p \in Process, Interrupt(p) PROVE Quiet
  BY <1>21 DEF Interrupt
<1>22. ASSUME NEW p \in Process, Crash(p) PROVE Quiet
  BY <1>22 DEF Crash
<1>23. ASSUME NEW p \in Process, Respawn(p) PROVE Quiet
  BY <1>23 DEF Respawn
<1>24. ASSUME NEW p \in Process, InitdbChild(p) PROVE Quiet
  BY <1>24 DEF InitdbChild
<1>25. CASE PostmasterBoots
  BY <1>25 DEF PostmasterBoots
<1>26. CASE PostmasterExits
  BY <1>26 DEF PostmasterExits, Stopped
<1>27. QED
  BY <1>1, <1>2, <1>3, <1>4, <1>5, <1>6, <1>7, <1>8, <1>9, <1>10, <1>11, <1>12,
     <1>13, <1>14, <1>15, <1>16, <1>17, <1>18, <1>19, <1>20, <1>21, <1>22,
     <1>23, <1>24, <1>25, <1>26
     DEF Next, Construct, Release, Disturb

\* Where processes are neither killed nor interrupted and starts and stops do
\* not time out, and nobody asks to keep the server, no postmaster outlives its
\* users, whatever fails.
THEOREM NobodyIsLeftBehind ==
    ASSUME Faults \cap {"crash", "interrupt", "slow", "stop"} = {}, "none" \notin Modes
    PROVE  Spec => []NoOrphanServer
<1>1. QuietInv => NoOrphanServer
  BY DEF QuietInv, NoOrphanServer, RegisteredHold, ServerHasOwner, Answerable, NoStray,
     DataInv, HandleInv, TypeOK
<1>2. QuietInv /\ [Next]_vars => QuietInv'
  BY QuietStep
<1>3. QED
  BY <1>1, <1>2, QuietInit, PTL DEF Spec

\* The last live handle in "stop" mode stops the server, whatever PIDs of crashed
\* processes are in the list, if the close is not interrupted and stops work.
THEOREM LastCloseStops ==
    ASSUME Faults \cap {"interrupt", "stop"} = {}
    PROVE  Spec => LastCloseStopsServer
<1> DEFINE Stops(p) == /\ pc[p] \in {"waitClose", "closeReap"}
                       /\ pc'[p] = "none"
                       /\ mode[p] = "stop"
                       /\ \A q \in handlePids \ {p} : ~Alive(q)
                       /\ pidfile # "none"
                       => ~postmaster'
<1>1. ASSUME DataInv, Next, NEW p \in Process, pc[p] \in {"waitClose", "closeReap"},
             pc'[p] = "none", mode[p] = "stop", \A q \in handlePids \ {p} : ~Alive(q),
             pidfile # "none"
      PROVE  ~postmaster'
  <2> USE <1>1 DEF DataInv, HandleInv, TypeOK, Goto, Leave, Hold, Fail
  <2>1. CASE EnterCleanup(p)
    <3>1. ~torn /\ p \in handlePids
      BY <2>1 DEF EnterCleanup, HandleRegistered, RegisteredIsListed
    <3>2. Remaining(p) = {}
      BY DEF Remaining, GetAndRemove
    <3>3. QED
      BY <2>1, <3>1, <3>2 DEF EnterCleanup
  <2>2. CASE CleanupReap(p)
    <3>1. ReapStartedPostmaster(p)
      BY <2>2 DEF CleanupReap
    <3>2. QED
      BY <3>1 DEF ReapStartedPostmaster, Stopped, serverVars
  <2>3. ASSUME NEW q \in Process, q # p PROVE ~(Construct(q) \/ Release(q) \/ Disturb(q))
    <3>1. SUFFICES pc'[p] = pc[p] \/ ~(Construct(q) \/ Release(q) \/ Disturb(q))
      OBVIOUS
    <3>2. Construct(q) => pc'[p] = pc[p]
      BY <2>3 DEF Construct, GetServer, EnterConstruction, PrepareMutableRuntime,
         StopStray, InitdbReturns, EnsureSharedPreloadLibraries, AdoptPostmaster,
         StartPostmaster, PgCtlStartReturns, PollReadiness, ReadinessDeadline,
         RegisterPid, Publish
    <3>3. Release(q) => pc'[p] = pc[p]
      BY <2>3 DEF Release, Rollback, RollbackReap, Cleanup, EnterCleanup, CleanupReap,
         CleanupDelete
    <3>4. Disturb(q) => pc'[p] = pc[p]
      BY <2>3 DEF Disturb, Interrupt, Crash, Respawn
    <3>5. QED
      BY <3>2, <3>3, <3>4
  <2>4. ~Construct(p)
    BY DEF Construct, GetServer, EnterConstruction, PrepareMutableRuntime, StopStray,
       InitdbReturns, EnsureSharedPreloadLibraries, AdoptPostmaster, StartPostmaster,
       PgCtlStartReturns, PollReadiness, ReadinessDeadline, RegisterPid, Publish
  <2>5. ~Disturb(p)
    BY DEF Disturb, Interrupt, Crash, Respawn
  <2>6. Release(p) => EnterCleanup(p) \/ CleanupReap(p)
    BY DEF Release, Rollback, RollbackReap, Cleanup, CleanupDelete
  <2>7. /\ \A q \in Process : ~InitdbChild(q)
        /\ ~PostmasterBoots /\ ~PostmasterExits
    BY DEF InitdbChild, PostmasterBoots, PostmasterExits
  <2>8. QED
    BY <2>1, <2>2, <2>3, <2>4, <2>5, <2>6, <2>7 DEF Next
<1>2. DataInv /\ [Next]_vars => [\A p \in Process : Stops(p)]_vars
  BY <1>1
<1>3. QED
  BY <1>2, DataInit, DataStep, PTL DEF Spec, LastCloseStopsServer

-----------------------------------------------------------------------------
\* Who stops a postmaster that others use.

\* A rollback that goes for the postmaster is that of an attempt that ran
\* pg_ctl start.
RollbackStarted == \A p \in Process : pc[p] = "rollbackReap" => p \in started

LEMMA RollbackStartedStep ==
    ASSUME TypeOK, RollbackStarted, [Next]_vars
    PROVE  RollbackStarted'
<1> USE DEF TypeOK, RollbackStarted, Goto, Leave, Hold, Fail, handleVars
<1>1. CASE UNCHANGED vars
  BY <1>1 DEF vars
<1>2. ASSUME NEW p \in Process, GetServer(p) PROVE RollbackStarted'
  BY <1>2 DEF GetServer
<1>3. ASSUME NEW p \in Process, EnterConstruction(p) PROVE RollbackStarted'
  BY <1>3 DEF EnterConstruction
<1>4. ASSUME NEW p \in Process, PrepareMutableRuntime(p) PROVE RollbackStarted'
  BY <1>4 DEF PrepareMutableRuntime
<1>5. ASSUME NEW p \in Process, StopStray(p) PROVE RollbackStarted'
  BY <1>5 DEF StopStray
<1>6. ASSUME NEW p \in Process, InitdbReturns(p) PROVE RollbackStarted'
  BY <1>6 DEF InitdbReturns
<1>7. ASSUME NEW p \in Process, EnsureSharedPreloadLibraries(p) PROVE RollbackStarted'
  BY <1>7 DEF EnsureSharedPreloadLibraries
<1>8. ASSUME NEW p \in Process, AdoptPostmaster(p) PROVE RollbackStarted'
  BY <1>8 DEF AdoptPostmaster
<1>9. ASSUME NEW p \in Process, StartPostmaster(p) PROVE RollbackStarted'
  BY <1>9 DEF StartPostmaster
<1>10. ASSUME NEW p \in Process, PgCtlStartReturns(p) PROVE RollbackStarted'
  BY <1>10 DEF PgCtlStartReturns
<1>11. ASSUME NEW p \in Process, PollReadiness(p) PROVE RollbackStarted'
  BY <1>11 DEF PollReadiness
<1>12. ASSUME NEW p \in Process, ReadinessDeadline(p) PROVE RollbackStarted'
  BY <1>12 DEF ReadinessDeadline
<1>13. ASSUME NEW p \in Process, RegisterPid(p) PROVE RollbackStarted'
  BY <1>13 DEF RegisterPid
<1>14. ASSUME NEW p \in Process, Publish(p) PROVE RollbackStarted'
  BY <1>14 DEF Publish
<1>15. ASSUME NEW p \in Process, Rollback(p) PROVE RollbackStarted'
  BY <1>15 DEF Rollback
<1>16. ASSUME NEW p \in Process, RollbackReap(p) PROVE RollbackStarted'
  BY <1>16 DEF RollbackReap
<1>17. ASSUME NEW p \in Process, Cleanup(p) PROVE RollbackStarted'
  BY <1>17 DEF Cleanup
<1>18. ASSUME NEW p \in Process, EnterCleanup(p) PROVE RollbackStarted'
  BY <1>18 DEF EnterCleanup
<1>19. ASSUME NEW p \in Process, CleanupReap(p) PROVE RollbackStarted'
  BY <1>19 DEF CleanupReap
<1>20. ASSUME NEW p \in Process, CleanupDelete(p) PROVE RollbackStarted'
  BY <1>20 DEF CleanupDelete
<1>21. ASSUME NEW p \in Process, Interrupt(p) PROVE RollbackStarted'
  BY <1>21 DEF Interrupt
<1>22. ASSUME NEW p \in Process, Crash(p) PROVE RollbackStarted'
  BY <1>22 DEF Crash
<1>23. ASSUME NEW p \in Process, Respawn(p) PROVE RollbackStarted'
  BY <1>23 DEF Respawn
<1>24. ASSUME NEW p \in Process, InitdbChild(p) PROVE RollbackStarted'
  BY <1>24 DEF InitdbChild
<1>25. CASE PostmasterBoots
  BY <1>25 DEF PostmasterBoots
<1>26. CASE PostmasterExits
  BY <1>26 DEF PostmasterExits
<1>27. QED
  BY <1>1, <1>2, <1>3, <1>4, <1>5, <1>6, <1>7, <1>8, <1>9, <1>10, <1>11, <1>12, <1>13,
     <1>14, <1>15, <1>16, <1>17, <1>18, <1>19, <1>20, <1>21, <1>22, <1>23, <1>24,
     <1>25, <1>26
     DEF Next, Construct, Release, Disturb

\* Who takes the postmaster away from another process with a handle rolls back
\* a failed start: no close does, and no rollback of an attempt that adopted
\* the postmaster or failed before its start (line 242).
TakenOnlyByRollback ==
    [][\A p \in Process :
         (pc[p] \in Critical /\ pc'[p] # pc[p] /\ postmaster /\ ~postmaster') =>
            registered \subseteq {p} \/ (pc[p] = "rollbackReap" /\ p \in started)]_vars

THEOREM OnlyRollbacksTake == Spec => TakenOnlyByRollback
<1> DEFINE Taken(p) == (pc[p] \in Critical /\ pc'[p] # pc[p] /\ postmaster /\ ~postmaster')
                       => registered \subseteq {p} \/ (pc[p] = "rollbackReap" /\ p \in started)
<1>1. ASSUME HandleInv, RollbackStarted, Next, NEW p \in Process,
             pc[p] \in Critical, pc'[p] # pc[p], postmaster, ~postmaster'
      PROVE  registered \subseteq {p} \/ (pc[p] = "rollbackReap" /\ p \in started)
  <2> USE <1>1 DEF HandleInv, TypeOK
  <2>1. ASSUME NEW q \in Process, Construct(q) PROVE FALSE
    BY <2>1 DEF Construct, GetServer, EnterConstruction, PrepareMutableRuntime,
       StopStray, InitdbReturns, EnsureSharedPreloadLibraries, AdoptPostmaster,
       StartPostmaster, PgCtlStartReturns, PollReadiness, ReadinessDeadline,
       RegisterPid, Publish, serverVars
  <2>2. ASSUME NEW q \in Process, Release(q)
        PROVE  registered = {} \/ (q = p /\ pc[p] = "rollbackReap")
    <3>1. RollbackReap(q) => q = p /\ pc[p] = "rollbackReap"
      BY DEF RollbackReap, Leave, Goto
    <3>2. CleanupReap(q) \/ CleanupDelete(q) => registered = {}
      BY DEF CleanupReap, CleanupDelete, ClosingAlone, Closing
    <3>3. QED
      BY <2>2, <3>1, <3>2 DEF Release, Rollback, Cleanup, EnterCleanup, serverVars
  <2>3. ASSUME NEW q \in Process, Disturb(q) \/ InitdbChild(q) PROVE registered = {}
    BY <2>3 DEF Disturb, Interrupt, Crash, Respawn, InitdbChild, serverVars,
       ClosingAlone, Closing, Removed
  <2>4. PostmasterExits \/ PostmasterBoots => FALSE
    BY DEF PostmasterExits, PostmasterBoots
  <2>5. QED
    BY <2>1, <2>2, <2>3, <2>4 DEF Next, RollbackStarted
<1>2. Init => RollbackStarted
  BY DEF Init, RollbackStarted
<1>3. HandleInv /\ RollbackStarted /\ [Next]_vars => [\A p \in Process : Taken(p)]_vars
  BY <1>1
<1>4. HandleInv /\ RollbackStarted /\ [Next]_vars => RollbackStarted'
  BY RollbackStartedStep DEF HandleInv
<1>5. QED
  BY <1>2, <1>3, <1>4, HandleInit, HandleStep, PTL DEF Spec, TakenOnlyByRollback

-----------------------------------------------------------------------------
\* When nobody does.

\* Nothing is cut short: the list is whole, and so is the cluster unless initdb
\* still writes it.
NothingIsTorn == ~torn /\ NothingHalfDone

\* A start that pg_ctl has begun will succeed, and what it led to stays.
StartsServe ==
    /\ postmaster => pidfile \in {"ready", "stopping"}
                     \/ \E p \in Process : pc[p] = "pgctl"
    /\ \A p \in Process :
          /\ pc[p] = "pgctl" => postmaster /\ pidfile # "stopping"
          /\ pc[p] \in {"poll", "register"} => postmaster /\ pidfile = "ready"
    /\ registered # {} => postmaster /\ pidfile = "ready"
StartedLate ==
    \A p \in started :
        pc[p] \notin {"waitBuild", "prepare", "stray", "initdb", "conf", "ensure"}

\* Only a cluster that cannot load what it is configured for refuses to start,
\* and no postmaster will ever run in that one.
Unloadable ==
    /\ dir = "ready"
    /\ ~(conf \subseteq Loadable)
    /\ ~postmaster
    /\ registered = {}
    /\ \A p \in Process : pc[p] \notin {"pgctl", "poll", "register"} \cup Closing
RollbackIsIdle ==
    /\ \A p \in Process : pc[p] = "rollbackReap" => p \in started
    /\ \A p \in started : pc[p] \in {"waitRollback", "rollbackReap"} => Unloadable

SteadyInv ==
    /\ CalmInv
    /\ NothingIsTorn
    /\ StartsServe
    /\ StartedLate
    /\ RollbackIsIdle

LEMMA SteadyInit == Init => SteadyInv
  BY CalmInit, ParameterAssumption
     DEF ParameterAssumption, Init, SteadyInv, NothingIsTorn, NothingHalfDone, StartsServe,
     StartedLate, RollbackIsIdle

LEMMA SteadyStep ==
    ASSUME Faults \cap {"crash", "interrupt", "slow", "exec", "death", "rm"} = {}
    PROVE  SteadyInv /\ [Next]_vars => SteadyInv'
<1> SUFFICES ASSUME SteadyInv, [Next]_vars
             PROVE  NothingIsTorn' /\ StartsServe' /\ StartedLate' /\ RollbackIsIdle'
  BY CalmStep DEF SteadyInv
<1> DEFINE Steady == NothingIsTorn' /\ StartsServe' /\ StartedLate' /\ RollbackIsIdle'
<1> USE DEF SteadyInv, CalmInv, DataInv, HandleInv, TypeOK, LockHeld, ClosingAlone,
        HandleRegistered, ServedIsInitialized, Initialized, OneWriter, ClassificationHolds,
        NoOrphanInitdb, NothingIsTorn, NothingHalfDone, StartsServe, StartedLate,
        RollbackIsIdle,
        Unloadable, Critical, Building, Closing, FreshDirs, Goto, Leave, Hold, Fail,
        diskVars, serverVars, handleVars
<1>1. CASE UNCHANGED vars
  BY <1>1 DEF vars
<1>2. ASSUME NEW p \in Process, GetServer(p) PROVE Steady
  BY <1>2 DEF GetServer
<1>3. ASSUME NEW p \in Process, EnterConstruction(p) PROVE Steady
  BY <1>3 DEF EnterConstruction, Reclassify, RefusedDirs
<1>4. ASSUME NEW p \in Process, PrepareMutableRuntime(p) PROVE Steady
  BY <1>4 DEF PrepareMutableRuntime, Dirs
<1>5. ASSUME NEW p \in Process, StopStray(p) PROVE Steady
  BY <1>5 DEF StopStray
<1>6. ASSUME NEW p \in Process, InitdbReturns(p) PROVE Steady
  BY <1>6 DEF InitdbReturns, RefusedDirs
<1>7. ASSUME NEW p \in Process, EnsureSharedPreloadLibraries(p) PROVE Steady
  BY <1>7 DEF EnsureSharedPreloadLibraries, MergedLibs
<1>8. ASSUME NEW p \in Process, AdoptPostmaster(p) PROVE Steady
  BY <1>8 DEF AdoptPostmaster, ServerSeen, FullPidFiles
<1>9. ASSUME NEW p \in Process, StartPostmaster(p) PROVE Steady
  BY <1>9 DEF StartPostmaster, ServerSeen, FullPidFiles, PidFiles
<1>10. ASSUME NEW p \in Process, PgCtlStartReturns(p) PROVE Steady
  BY <1>10 DEF PgCtlStartReturns
<1>11. ASSUME NEW p \in Process, PollReadiness(p) PROVE Steady
  BY <1>11 DEF PollReadiness, FullPidFiles
<1>12. ASSUME NEW p \in Process, ReadinessDeadline(p) PROVE Steady
  BY <1>12 DEF ReadinessDeadline
<1>13. ASSUME NEW p \in Process, RegisterPid(p) PROVE Steady
  BY <1>13 DEF RegisterPid, GetAndAdd
<1>14. ASSUME NEW p \in Process, Publish(p) PROVE Steady
  BY <1>14 DEF Publish
<1>15. ASSUME NEW p \in Process, Rollback(p) PROVE Steady
  BY <1>15 DEF Rollback, GetAndRemove
<1>16. ASSUME NEW p \in Process, RollbackReap(p) PROVE Steady
  BY <1>16 DEF RollbackReap, ReapStartedPostmaster, Stopped
<1>17. ASSUME NEW p \in Process, Cleanup(p) PROVE Steady
  BY <1>17 DEF Cleanup
<1>18. ASSUME NEW p \in Process, EnterCleanup(p) PROVE Steady
  BY <1>18 DEF EnterCleanup, GetAndRemove, Remaining
<1>19. ASSUME NEW p \in Process, CleanupReap(p) PROVE Steady
  BY <1>19 DEF CleanupReap, ReapStartedPostmaster, Stopped, FullPidFiles
<1>20. ASSUME NEW p \in Process, CleanupDelete(p) PROVE Steady
  BY <1>20 DEF CleanupDelete, Removed
<1>21. ASSUME NEW p \in Process, Interrupt(p) PROVE Steady
  BY <1>21 DEF Interrupt
<1>22. ASSUME NEW p \in Process, Crash(p) PROVE Steady
  BY <1>22 DEF Crash
<1>23. ASSUME NEW p \in Process, Respawn(p) PROVE Steady
  BY <1>23 DEF Respawn
<1>24. ASSUME NEW p \in Process, InitdbChild(p) PROVE Steady
  BY <1>24 DEF InitdbChild, Ends
<1>25. CASE PostmasterBoots
  BY <1>25 DEF PostmasterBoots
<1>26. CASE PostmasterExits
  BY <1>26 DEF PostmasterExits, Stopped
<1>27. QED
  BY <1>1, <1>2, <1>3, <1>4, <1>5, <1>6, <1>7, <1>8, <1>9, <1>10, <1>11, <1>12, <1>13,
     <1>14, <1>15, <1>16, <1>17, <1>18, <1>19, <1>20, <1>21, <1>22, <1>23, <1>24,
     <1>25, <1>26
     DEF Next, Construct, Release, Disturb

\* Where nobody is killed or interrupted, no program fails or is too slow and no
\* deletion is cut short, nobody stops a postmaster that another process has a handle of: what the run
\* with failing programs violates holds without them, also when configured
\* libraries cannot be loaded and stops fail.
THEOREM SharedServersStay ==
    ASSUME Faults \cap {"crash", "interrupt", "slow", "exec", "death", "rm"} = {}
    PROVE  Spec => SharedServerStaysUp
<1> DEFINE Stays(p) == (pc[p] \in Critical /\ pc'[p] # pc[p] /\ postmaster /\ ~postmaster')
                       => registered \subseteq {p}
<1>1. ASSUME SteadyInv, Next, NEW p \in Process, postmaster, ~postmaster'
      PROVE  registered = {}
  <2> USE <1>1 DEF SteadyInv, CalmInv, DataInv, HandleInv, TypeOK
  <2>1. ASSUME NEW q \in Process, Construct(q) PROVE FALSE
    BY <1>1, <2>1 DEF Construct, GetServer, EnterConstruction, PrepareMutableRuntime,
       StopStray, InitdbReturns, EnsureSharedPreloadLibraries, AdoptPostmaster,
       StartPostmaster, PgCtlStartReturns, PollReadiness, ReadinessDeadline,
       RegisterPid, Publish, serverVars
  <2>2. ASSUME NEW q \in Process, Release(q) PROVE registered = {}
    <3>1. RollbackReap(q) => registered = {}
      BY <1>1 DEF RollbackReap, RollbackIsIdle, Unloadable
    <3>2. CleanupReap(q) \/ CleanupDelete(q) => registered = {}
      BY DEF CleanupReap, CleanupDelete, ClosingAlone, Closing
    <3>3. QED
      BY <1>1, <2>2, <3>1, <3>2 DEF Release, Rollback, Cleanup, EnterCleanup, serverVars
  <2>3. ASSUME NEW q \in Process, Disturb(q) \/ InitdbChild(q) PROVE registered = {}
    BY <1>1, <2>3 DEF Disturb, Interrupt, Crash, Respawn, InitdbChild, serverVars,
       ClosingAlone, Closing, Removed
  <2>4. PostmasterExits => registered = {}
    BY DEF PostmasterExits, StartsServe
  <2>5. QED
    BY <1>1, <2>1, <2>2, <2>3, <2>4 DEF Next, PostmasterBoots
<1>2. SteadyInv /\ [Next]_vars => [\A p \in Process : Stays(p)]_vars
  BY <1>1
<1>3. SteadyInv /\ [Next]_vars => SteadyInv'
  BY SteadyStep
<1>4. QED
  BY <1>2, <1>3, SteadyInit, PTL DEF Spec, SharedServerStaysUp

\* Then everyone who is registered is served by a postmaster that is ready.
THEOREM RegisteredAreServed ==
    ASSUME Faults \cap {"crash", "interrupt", "slow", "exec", "death", "rm"} = {}
    PROVE  Spec => [](registered # {} => postmaster /\ pidfile = "ready")
<1>1. SteadyInv => (registered # {} => postmaster /\ pidfile = "ready")
  BY DEF SteadyInv, StartsServe
<1>2. SteadyInv /\ [Next]_vars => SteadyInv'
  BY SteadyStep
<1>3. QED
  BY <1>1, <1>2, SteadyInit, PTL DEF Spec

-----------------------------------------------------------------------------
\* A postmaster that lost its PGDATA keeps nobody from making a new cluster, but
\* by the time one is made it is gone: StopStray ran under the same lock.
StrayIsAlone ==
    stray => /\ dir \notin {"torn", "ready"}
             /\ \A p \in Process : pc[p] # "initdb"

LEMMA StrayStep ==
    ASSUME Faults \cap {"crash", "stop", "rm"} = {}
    PROVE  CalmInv /\ StrayIsAlone /\ [Next]_vars => StrayIsAlone'
<1> SUFFICES ASSUME CalmInv, StrayIsAlone, [Next]_vars PROVE StrayIsAlone'
  OBVIOUS
<1> USE DEF CalmInv, NoOrphanInitdb, DataInv, HandleInv, TypeOK, LockHeld,
        ServedIsInitialized, Initialized,
        StrayIsAlone, Critical, Building, Closing, Goto, Leave, Hold, Fail, diskVars,
        serverVars, handleVars
<1>1. CASE UNCHANGED vars
  BY <1>1 DEF vars
<1>2. ASSUME NEW p \in Process, GetServer(p) PROVE StrayIsAlone'
  BY <1>2 DEF GetServer
<1>3. ASSUME NEW p \in Process, EnterConstruction(p) PROVE StrayIsAlone'
  BY <1>3 DEF EnterConstruction
<1>4. ASSUME NEW p \in Process, PrepareMutableRuntime(p) PROVE StrayIsAlone'
  BY <1>4 DEF PrepareMutableRuntime, FreshDirs
<1>5. ASSUME NEW p \in Process, StopStray(p) PROVE StrayIsAlone'
  BY <1>5 DEF StopStray
<1>6. ASSUME NEW p \in Process, InitdbReturns(p) PROVE StrayIsAlone'
  BY <1>6 DEF InitdbReturns
<1>7. ASSUME NEW p \in Process, EnsureSharedPreloadLibraries(p) PROVE StrayIsAlone'
  BY <1>7 DEF EnsureSharedPreloadLibraries
<1>8. ASSUME NEW p \in Process, AdoptPostmaster(p) PROVE StrayIsAlone'
  BY <1>8 DEF AdoptPostmaster
<1>9. ASSUME NEW p \in Process, StartPostmaster(p) PROVE StrayIsAlone'
  BY <1>9 DEF StartPostmaster
<1>10. ASSUME NEW p \in Process, PgCtlStartReturns(p) PROVE StrayIsAlone'
  BY <1>10 DEF PgCtlStartReturns
<1>11. ASSUME NEW p \in Process, PollReadiness(p) PROVE StrayIsAlone'
  BY <1>11 DEF PollReadiness
<1>12. ASSUME NEW p \in Process, ReadinessDeadline(p) PROVE StrayIsAlone'
  BY <1>12 DEF ReadinessDeadline
<1>13. ASSUME NEW p \in Process, RegisterPid(p) PROVE StrayIsAlone'
  BY <1>13 DEF RegisterPid
<1>14. ASSUME NEW p \in Process, Publish(p) PROVE StrayIsAlone'
  BY <1>14 DEF Publish
<1>15. ASSUME NEW p \in Process, Rollback(p) PROVE StrayIsAlone'
  BY <1>15 DEF Rollback
<1>16. ASSUME NEW p \in Process, RollbackReap(p) PROVE StrayIsAlone'
  BY <1>16 DEF RollbackReap, ReapStartedPostmaster
<1>17. ASSUME NEW p \in Process, Cleanup(p) PROVE StrayIsAlone'
  BY <1>17 DEF Cleanup
<1>18. ASSUME NEW p \in Process, EnterCleanup(p) PROVE StrayIsAlone'
  BY <1>18 DEF EnterCleanup
<1>19. ASSUME NEW p \in Process, CleanupReap(p) PROVE StrayIsAlone'
  BY <1>19 DEF CleanupReap, ReapStartedPostmaster
<1>20. ASSUME NEW p \in Process, CleanupDelete(p) PROVE StrayIsAlone'
  BY <1>20 DEF CleanupDelete, Removed
<1>21. ASSUME NEW p \in Process, Interrupt(p) PROVE StrayIsAlone'
  BY <1>21 DEF Interrupt
<1>22. ASSUME NEW p \in Process, Crash(p) PROVE StrayIsAlone'
  BY <1>22 DEF Crash
<1>23. ASSUME NEW p \in Process, Respawn(p) PROVE StrayIsAlone'
  BY <1>23 DEF Respawn
<1>24. ASSUME NEW p \in Process, InitdbChild(p) PROVE StrayIsAlone'
  BY <1>24 DEF InitdbChild
<1>25. CASE PostmasterBoots
  BY <1>25 DEF PostmasterBoots
<1>26. CASE PostmasterExits
  BY <1>26 DEF PostmasterExits
<1>27. QED
  BY <1>1, <1>2, <1>3, <1>4, <1>5, <1>6, <1>7, <1>8, <1>9, <1>10, <1>11, <1>12, <1>13,
     <1>14, <1>15, <1>16, <1>17, <1>18, <1>19, <1>20, <1>21, <1>22, <1>23, <1>24,
     <1>25, <1>26
     DEF Next, Construct, Release, Disturb

\* No postmaster runs beside one that is still alive of a cluster that was
\* deleted at the same path, also when starts time out or are interrupted: what
\* StopStray is for (ensure_pgdata_inited, lines 300-310).
OnePostmaster == postmaster => ~stray

THEOREM OnePostmasterPerPath ==
    ASSUME Faults \cap {"crash", "stop", "rm"} = {}
    PROVE  Spec => []OnePostmaster
<1>1. CalmInv /\ StrayIsAlone => OnePostmaster
  BY DEF CalmInv, DataInv, ServedIsInitialized, Initialized, StrayIsAlone, OnePostmaster
<1>2. Init => StrayIsAlone
  BY DEF Init, StrayIsAlone
<1>3. CalmInv /\ StrayIsAlone /\ [Next]_vars => CalmInv' /\ StrayIsAlone'
  BY CalmStep, StrayStep
<1>4. QED
  BY <1>1, <1>2, <1>3, CalmInit, PTL DEF Spec

-----------------------------------------------------------------------------
(***************************************************************************)
(* PostgresServer implements SharedCluster.                                *)
(***************************************************************************)

\* The step stutters in SharedCluster.
Unseen ==
    /\ registered' = registered
    /\ Cluster' = Cluster
    /\ postmaster' = postmaster
    /\ ClosingMode' = ClosingMode

\* Nobody who is closing is touched by the step of a process p that is not
\* closing itself and takes or releases the lock only when it is free or p's.
LEMMA ClosingSteady ==
    ASSUME TypeOK, NEW p \in Process,
           \A q \in Process \ {p} : pc'[q] = pc[q] /\ mode'[q] = mode[q],
           pc[p] \notin Closing, pc'[p] \notin Closing,
           lock' = lock \/ {lock, lock'} \subseteq {p, NoProcess}
    PROVE  ClosingMode' = ClosingMode
  BY ProcessAssumption DEF ProcessAssumption, ClosingMode, TypeOK

\* While p is closing the cluster it is the one that SharedCluster sees.
LEMMA ClosingSeen ==
    ASSUME DataInv, NEW p \in Process, pc[p] \in Closing
    PROVE  ClosingMode = mode[p] /\ registered = {} /\ lock = p
  BY ProcessAssumption DEF ProcessAssumption, ClosingMode, DataInv, HandleInv, LockHeld,
     Critical, ClosingAlone

\* Who holds the lock without closing keeps everybody else from it.
LEMMA NobodyCloses ==
    ASSUME DataInv, NEW p \in Process, lock \in {p, NoProcess}, pc[p] \notin Closing
    PROVE  ClosingMode = "no"
  BY DEF ClosingMode

\* What a process does between the locks, before it has started, registered or
\* closed anything, is not seen.
LEMMA QuietSteps ==
    ASSUME DataInv, NEW p \in Process,
           \/ EnterConstruction(p) \/ PrepareMutableRuntime(p) \/ StopStray(p)
           \/ InitdbReturns(p) \/ EnsureSharedPreloadLibraries(p)
           \/ AdoptPostmaster(p) \/ PgCtlStartReturns(p) \/ PollReadiness(p)
           \/ ReadinessDeadline(p) \/ Publish(p) \/ Cleanup(p) \/ Respawn(p)
    PROVE  Unseen
<1> USE DEF DataInv, HandleInv, TypeOK, LockHeld, Critical, Building, Closing, Goto,
        Leave, Hold, Fail, diskVars, serverVars, handleVars
<1> DEFINE Apart == /\ registered' = registered /\ postmaster' = postmaster
                    /\ Cluster' = Cluster
           Alone == /\ \A q \in Process \ {p} : pc'[q] = pc[q] /\ mode'[q] = mode[q]
                    /\ pc[p] \notin Closing /\ pc'[p] \notin Closing
                    /\ lock' = lock \/ {lock, lock'} \subseteq {p, NoProcess}
<1>1. CASE EnterConstruction(p)
  <2>1. Apart
    BY <1>1 DEF EnterConstruction, Cluster
  <2>2. Alone
    BY <1>1 DEF EnterConstruction
  <2> QED
    BY <2>1, <2>2, ClosingSteady DEF Unseen, Cluster
<1>2. CASE PrepareMutableRuntime(p)
  <2>1. Apart
    BY <1>2 DEF PrepareMutableRuntime, Cluster
  <2>2. Alone
    BY <1>2 DEF PrepareMutableRuntime
  <2> QED
    BY <2>1, <2>2, ClosingSteady DEF Unseen, Cluster
<1>3. CASE StopStray(p)
  <2>1. Apart
    BY <1>3 DEF StopStray, Cluster
  <2>2. Alone
    BY <1>3 DEF StopStray
  <2> QED
    BY <2>1, <2>2, ClosingSteady DEF Unseen, Cluster
<1>4. CASE InitdbReturns(p)
  <2>1. Apart
    BY <1>4 DEF InitdbReturns, Cluster
  <2>2. Alone
    BY <1>4 DEF InitdbReturns
  <2> QED
    BY <2>1, <2>2, ClosingSteady DEF Unseen, Cluster
<1>5. CASE EnsureSharedPreloadLibraries(p)
  <2>1. Apart
    BY <1>5 DEF EnsureSharedPreloadLibraries, Cluster
  <2>2. Alone
    BY <1>5 DEF EnsureSharedPreloadLibraries
  <2> QED
    BY <2>1, <2>2, ClosingSteady DEF Unseen, Cluster
<1>6. CASE AdoptPostmaster(p)
  <2>1. Apart
    BY <1>6 DEF AdoptPostmaster, Cluster
  <2>2. Alone
    BY <1>6 DEF AdoptPostmaster
  <2> QED
    BY <2>1, <2>2, ClosingSteady DEF Unseen, Cluster
<1>7. CASE PgCtlStartReturns(p)
  <2>1. Apart
    BY <1>7 DEF PgCtlStartReturns, Cluster
  <2>2. Alone
    BY <1>7 DEF PgCtlStartReturns
  <2> QED
    BY <2>1, <2>2, ClosingSteady DEF Unseen, Cluster
<1>8. CASE PollReadiness(p)
  <2>1. Apart
    BY <1>8 DEF PollReadiness, Cluster
  <2>2. Alone
    BY <1>8 DEF PollReadiness
  <2> QED
    BY <2>1, <2>2, ClosingSteady DEF Unseen, Cluster
<1>9. CASE ReadinessDeadline(p)
  <2>1. Apart
    BY <1>9 DEF ReadinessDeadline, Cluster
  <2>2. Alone
    BY <1>9 DEF ReadinessDeadline
  <2> QED
    BY <2>1, <2>2, ClosingSteady DEF Unseen, Cluster
<1>10. CASE Publish(p)
  <2>1. Apart
    BY <1>10 DEF Publish, Cluster
  <2>2. Alone
    BY <1>10 DEF Publish
  <2> QED
    BY <2>1, <2>2, ClosingSteady DEF Unseen, Cluster
<1>11. CASE Cleanup(p)
  <2>1. Apart
    BY <1>11 DEF Cleanup, Cluster
  <2>2. Alone
    BY <1>11 DEF Cleanup
  <2> QED
    BY <2>1, <2>2, ClosingSteady DEF Unseen, Cluster
<1>12. CASE Respawn(p)
  <2>1. Apart
    BY <1>12 DEF Respawn, Cluster
  <2>2. Alone
    BY <1>12 DEF Respawn
  <2> QED
    BY <2>1, <2>2, ClosingSteady DEF Unseen, Cluster
<1> QED
  BY <1>1, <1>2, <1>3, <1>4, <1>5, <1>6, <1>7, <1>8, <1>9, <1>10, <1>11, <1>12

\* Registration is Join, withdrawal is Leave, and the last leave may begin a
\* close; the abstract postmaster starts and goes with the real one.
LEMMA VisibleSteps ==
    ASSUME DataInv, NEW p \in Process,
           \/ GetServer(p) \/ StartPostmaster(p) \/ RegisterPid(p) \/ Rollback(p)
           \/ RollbackReap(p) \/ EnterCleanup(p)
    PROVE  Unseen \/ Promise!Next
<1> USE DEF DataInv, HandleInv, TypeOK, LockHeld, Critical, Building, Closing, Goto,
        Leave, Hold, Fail, diskVars, serverVars, handleVars
<1> DEFINE Alone == /\ \A q \in Process \ {p} : pc'[q] = pc[q] /\ mode'[q] = mode[q]
                    /\ pc[p] \notin Closing /\ pc'[p] \notin Closing
                    /\ lock' = lock \/ {lock, lock'} \subseteq {p, NoProcess}
           Data == Cluster' = Cluster
<1>0. registered # {} => ClosingMode = "no"
  BY ProcessAssumption DEF ProcessAssumption, ClosingMode, ClosingAlone
<1>1. CASE GetServer(p)
  <2>1. Alone
    BY <1>1 DEF GetServer
  <2>2. ClosingMode' = ClosingMode
    BY <2>1, ClosingSteady
  <2>3. Data /\ postmaster' = postmaster /\ registered' = registered \ {p}
    BY <1>1 DEF GetServer, Cluster
  <2>4. CASE p \notin registered
    BY <2>2, <2>3, <2>4 DEF Unseen, Cluster
  <2>5. CASE p \in registered
    <3>1. Promise!Leave(p)
      BY <1>0, <2>2, <2>3, <2>5 DEF Promise!Leave, Cluster
    <3> QED
      BY <3>1 DEF Promise!Next
  <2> QED
    BY <2>4, <2>5
<1>2. CASE StartPostmaster(p)
  <2>1. Alone
    BY <1>2 DEF StartPostmaster
  <2>2. ClosingMode' = ClosingMode
    BY <2>1, ClosingSteady
  <2>3. ClosingMode = "no"
    BY <1>2, NobodyCloses DEF StartPostmaster
  <2>4. Data /\ registered' = registered
    BY <1>2 DEF StartPostmaster, Cluster
  <2>6. CASE postmaster' = postmaster
    BY <2>2, <2>4, <2>6 DEF Unseen, Cluster
  <2>7. CASE ~postmaster /\ Cluster # "none" /\ postmaster' = TRUE
    <3>1. Promise!Start
      BY <2>2, <2>3, <2>4, <2>7 DEF Promise!Start
    <3> QED
      BY <3>1 DEF Promise!Next
  <2> QED
    BY <1>2, <2>6, <2>7 DEF StartPostmaster, Initialized, Cluster
<1>3. CASE RegisterPid(p)
  <2>1. Alone
    BY <1>3 DEF RegisterPid
  <2>2. ClosingMode' = ClosingMode
    BY <2>1, ClosingSteady
  <2>3. ClosingMode = "no" /\ Cluster # "none"
    BY <1>3, NobodyCloses DEF RegisterPid, ServedIsInitialized, Initialized, Cluster
  <2>4. dir' = dir /\ postmaster' = postmaster
    BY <1>3 DEF RegisterPid
  <2>5. registered' = registered \/ registered' = registered \cup {p}
    BY <1>3 DEF RegisterPid
  <2>6. CASE registered' = registered
    BY <2>2, <2>4, <2>6 DEF Unseen, Cluster
  <2>7. CASE registered' = registered \cup {p} /\ p \notin registered
    <3>1. Promise!Join(p)
      BY <2>2, <2>3, <2>4, <2>7 DEF Promise!Join, Cluster
    <3> QED
      BY <3>1 DEF Promise!Next
  <2> QED
    BY <2>5, <2>6, <2>7
<1>4. CASE Rollback(p)
  <2>1. ClosingMode = "no" /\ ClosingMode' = "no"
    BY <1>4, NobodyCloses, ProcessAssumption DEF ProcessAssumption, Rollback,
       ClosingMode
  <2>2. dir' = dir /\ postmaster' = postmaster /\ registered' = registered \ {p}
    BY <1>4 DEF Rollback
  <2>3. CASE p \notin registered
    BY <2>1, <2>2, <2>3 DEF Unseen, Cluster
  <2>4. CASE p \in registered
    <3>1. Promise!Leave(p)
      BY <2>1, <2>2, <2>4 DEF Promise!Leave, Cluster
    <3> QED
      BY <3>1 DEF Promise!Next
  <2> QED
    BY <2>3, <2>4
<1>5. CASE RollbackReap(p)
  <2>1. Alone
    BY <1>5 DEF RollbackReap
  <2>2. ClosingMode' = ClosingMode
    BY <2>1, ClosingSteady
  <2>3. dir' = dir /\ registered' = registered
    BY <1>5 DEF RollbackReap
  <2>4. postmaster' = postmaster \/ (postmaster /\ postmaster' = FALSE)
    BY <1>5 DEF RollbackReap, ReapStartedPostmaster, Stopped
  <2>5. CASE postmaster' = postmaster
    BY <2>2, <2>3, <2>5 DEF Unseen, Cluster
  <2>6. CASE postmaster /\ postmaster' = FALSE
    <3>1. Promise!Down
      BY <2>2, <2>3, <2>6 DEF Promise!Down, Cluster
    <3> QED
      BY <3>1 DEF Promise!Next
  <2> QED
    BY <2>4, <2>5, <2>6
<1>6. CASE EnterCleanup(p)
  <2>1. ClosingMode = "no"
    BY <1>6, NobodyCloses DEF EnterCleanup
  <2>2. dir' = dir /\ postmaster' = postmaster
    BY <1>6 DEF EnterCleanup
  <2>3. CASE torn
    <3>1. Alone /\ registered' = registered
      BY <1>6, <2>3 DEF EnterCleanup
    <3> QED
      BY <3>1, <2>2, ClosingSteady DEF Unseen, Cluster
  <2>4. CASE ~torn
    <3>1. p \in registered /\ registered' = registered \ {p}
      BY <1>6, <2>4 DEF EnterCleanup, HandleRegistered
    <3>2. CASE Remaining(p) = {} /\ mode[p] # "none" /\ Hold(p, "closeReap")
      <4>1. registered = {p}
        BY <2>4, <3>1, <3>2 DEF RegisteredIsListed, RegisteredAlive, Remaining,
           GetAndRemove
      <4>2. ClosingMode' = mode[p] /\ mode[p] \in {"stop", "delete"}
        BY <1>6, <3>2, ProcessAssumption
           DEF ProcessAssumption, EnterCleanup, ClosingMode, CleanupModes
      <4>3. Promise!Leave(p)
        BY <2>1, <2>2, <3>1, <4>1, <4>2 DEF Promise!Leave, Cluster
      <4> QED
        BY <4>3 DEF Promise!Next
    <3>3. CASE Leave(p, "none")
      <4>1. ClosingMode' = "no"
        BY <3>3 DEF ClosingMode
      <4>2. Promise!Leave(p)
        BY <2>1, <2>2, <3>1, <4>1 DEF Promise!Leave, Cluster
      <4> QED
        BY <4>2 DEF Promise!Next
    <3> QED
      BY <1>6, <2>4, <3>2, <3>3 DEF EnterCleanup
  <2> QED
    BY <2>3, <2>4
<1> QED
  BY <1>1, <1>2, <1>3, <1>4, <1>5, <1>6

\* A close runs to its end, to a deletion, or is given up.
LEMMA ClosingSteps ==
    ASSUME DataInv, NEW p \in Process,
           CleanupReap(p) \/ CleanupDelete(p) \/ Interrupt(p) \/ Crash(p)
    PROVE  Unseen \/ Promise!Next
<1> USE DEF DataInv, HandleInv, TypeOK, LockHeld, Critical, Building, Closing, Goto,
        Leave, Hold, Fail, diskVars, serverVars, handleVars
<1> DEFINE Alone == /\ \A q \in Process \ {p} : pc'[q] = pc[q] /\ mode'[q] = mode[q]
                    /\ pc[p] \notin Closing /\ pc'[p] \notin Closing
                    /\ lock' = lock \/ {lock, lock'} \subseteq {p, NoProcess}
<1>1. CASE CleanupReap(p)
  <2>1. /\ ClosingMode = mode[p] /\ mode[p] # "no"
        /\ registered = {} /\ lock = p
    BY <1>1, ClosingSeen DEF CleanupReap, CleanupModes
  <2>2. dir' = dir /\ registered' = registered
    BY <1>1 DEF CleanupReap
  <2>3. postmaster' = postmaster \/ (postmaster /\ postmaster' = FALSE)
    BY <1>1 DEF CleanupReap, ReapStartedPostmaster, Stopped
  <2>4. CASE mode[p] = "delete"
    <3>1. ClosingMode' = ClosingMode
      BY <1>1, <2>1, <2>4, ProcessAssumption
         DEF ProcessAssumption, CleanupReap, ClosingMode
    <3>2. Unseen \/ Promise!Down
      BY <2>2, <2>3, <3>1 DEF Unseen, Promise!Down, Cluster
    <3> QED
      BY <3>2 DEF Promise!Next
  <2>5. CASE mode[p] # "delete"
    <3>1. ClosingMode' = "no"
      BY <1>1, <2>5 DEF CleanupReap, ClosingMode
    <3>2. Promise!CloseEnds
      BY <2>1, <2>2, <2>3, <3>1 DEF Promise!CloseEnds, Cluster
    <3> QED
      BY <3>2 DEF Promise!Next
  <2> QED
    BY <2>4, <2>5
<1>2. CASE CleanupDelete(p)
  <2>1. ClosingMode = "delete" /\ registered' = registered /\ ClosingMode' = "no"
    BY <1>2, ClosingSeen DEF CleanupDelete, DeletesOnRequest, ClosingMode
  <2>2. Cluster' \in {"none", "half"} /\ postmaster' = FALSE
    BY <1>2 DEF CleanupDelete, Removed, Cluster
  <2>3. Promise!Delete
    BY <2>1, <2>2 DEF Promise!Delete
  <2> QED
    BY <2>3 DEF Promise!Next
<1>3. CASE Interrupt(p)
  <2>1. dir' = dir /\ postmaster' = postmaster /\ registered' = registered
    BY <1>3 DEF Interrupt
  <2>2. CASE pc[p] \in Closing
    <3>1. ClosingMode = mode[p] /\ mode[p] # "no" /\ lock = p
      BY <2>2, ClosingSeen DEF CleanupModes
    <3>2. ClosingMode' = "no"
      BY <1>3, <3>1 DEF Interrupt, ClosingMode
    <3>3. Promise!CloseEnds
      BY <2>1, <3>1, <3>2 DEF Promise!CloseEnds, Cluster
    <3> QED
      BY <3>3 DEF Promise!Next
  <2>3. CASE pc[p] \notin Closing
    <3>1. Alone
      BY <1>3, <2>3 DEF Interrupt, Waiting
    <3> QED
      BY <2>1, <3>1, ClosingSteady DEF Unseen, Cluster
  <2> QED
    BY <2>2, <2>3
<1>4. CASE Crash(p)
  <2>1. registered' = registered \ {p} /\ lock' = IF lock = p THEN NoProcess ELSE lock
    BY <1>4 DEF Crash
  <2>2. CASE pc[p] \in Closing
    <3>1. /\ ClosingMode = mode[p] /\ mode[p] # "no" /\ lock = p
          /\ registered = {}
      BY <2>2, ClosingSeen DEF CleanupModes
    <3>2. ClosingMode' = "no"
      BY <2>1, <3>1 DEF ClosingMode
    <3>3. CASE UNCHANGED <<dir, conf, handlePids, serverVars, info>>
      <4>1. Promise!CloseEnds
        BY <2>1, <3>1, <3>2, <3>3 DEF Promise!CloseEnds, Cluster
      <4> QED
        BY <4>1 DEF Promise!Next
    <3>4. CASE /\ pc[p] = "closeDelete"
               /\ Cluster' \in {"none", "half"}
               /\ postmaster' = FALSE
      <4>1. Promise!Delete
        BY <2>1, <3>1, <3>2, <3>4 DEF Promise!Delete, DeletesOnRequest
      <4> QED
        BY <4>1 DEF Promise!Next
    <3> QED
      BY <1>4, <3>3, <3>4 DEF Crash, Removed, Cluster
  <2>3. CASE pc[p] \notin Closing
    <3>1. Alone
      BY <1>4, <2>1, <2>3 DEF Crash
    <3>2. ClosingMode' = ClosingMode
      BY <3>1, ClosingSteady
    <3>3. dir' = dir /\ postmaster' = postmaster
      BY <1>4, <2>3 DEF Crash
    <3>4. CASE p \notin registered
      BY <2>1, <3>2, <3>3, <3>4 DEF Unseen, Cluster
    <3>5. CASE p \in registered
      <4>1. ClosingMode = "no"
        BY <3>5, ProcessAssumption DEF ProcessAssumption, ClosingMode, ClosingAlone
      <4>2. Promise!Leave(p)
        BY <2>1, <3>2, <3>3, <3>5, <4>1 DEF Promise!Leave, Cluster
      <4> QED
        BY <4>2 DEF Promise!Next
    <3> QED
      BY <3>4, <3>5
  <2> QED
    BY <2>2, <2>3
<1> QED
  BY <1>1, <1>2, <1>3, <1>4

\* initdb completes a cluster that nobody uses; postmasters come to an end.
LEMMA ExternalSteps ==
    ASSUME DataInv,
           \/ \E p \in Process : InitdbChild(p)
           \/ PostmasterBoots \/ PostmasterExits
    PROVE  Unseen \/ Promise!Next
<1> USE DEF DataInv, HandleInv, diskVars, serverVars, handleVars
<1>1. ClosingMode' = ClosingMode
  BY DEF InitdbChild, PostmasterBoots, PostmasterExits, ClosingMode
<1>2. registered' = registered
  BY DEF InitdbChild, PostmasterBoots, PostmasterExits
<1>3. ASSUME NEW p \in Process, InitdbChild(p) PROVE Unseen \/ Promise!Next
  <2>1. postmaster' = postmaster
    BY <1>3 DEF InitdbChild
  <2>2. CASE Cluster' = Cluster
    BY <1>1, <1>2, <2>1, <2>2 DEF Unseen, Cluster
  <2>3. CASE initdb[p] = "writing"
    <3>1. Promise!Unused
      BY <2>3, ProcessAssumption DEF ProcessAssumption, ServedIsInitialized,
         Initialized, ClosingMode, TypeOK, Promise!Unused
    <3>2. \/ dir = "partial" /\ dir' = "torn"
          \/ dir = "torn" /\ dir' = "ready"
          \/ dir \in {"partial", "torn"} /\ dir' = "empty"
      BY <1>3, <2>3 DEF InitdbChild, OneWriter
    <3>3. Cluster' = Cluster \/ Promise!Make
      BY <1>1, <1>2, <2>1, <3>1, <3>2 DEF Promise!Make, Cluster
    <3> QED
      BY <2>2, <3>3 DEF Promise!Next
  <2>4. CASE initdb[p] # "writing"
    <3>1. (dir \in FreshDirs /\ dir' = "partial") \/ dir' = dir
      BY <1>3, <2>4 DEF InitdbChild
    <3>2. Cluster' = Cluster
      BY <3>1 DEF Cluster, FreshDirs
    <3> QED
      BY <2>2, <3>2
  <2> QED
    BY <2>3, <2>4
<1>4. CASE PostmasterBoots
  BY <1>1, <1>2, <1>4 DEF PostmasterBoots, Unseen, Cluster
<1>5. CASE PostmasterExits
  <2>1. Promise!Down
    BY <1>1, <1>2, <1>5 DEF PostmasterExits, Stopped, Promise!Down, Cluster
  <2> QED
    BY <2>1 DEF Promise!Next
<1> QED
  BY <1>3, <1>4, <1>5

\* Each step of the implementation is a step of the promise or none.
LEMMA RefinementStep == DataInv /\ [Next]_vars => [Promise!Next]_(Promise!vars)
<1> SUFFICES ASSUME DataInv, [Next]_vars PROVE Unseen \/ Promise!Next
  BY DEF Unseen, Promise!vars
<1>1. CASE UNCHANGED vars
  BY <1>1 DEF vars, diskVars, serverVars, handleVars, Unseen, Cluster, ClosingMode
<1>2. CASE Next
  BY <1>2, QuietSteps, VisibleSteps, ClosingSteps, ExternalSteps
     DEF Next, Construct, Release, Disturb
<1> QED
  BY <1>1, <1>2

\* The detailed protocol of locks, lists and crashes implements the promise.
THEOREM Refinement == Spec => ImplementsSharedCluster
<1>1. Init => Promise!Init
  BY ProcessAssumption, ParameterAssumption
     DEF ProcessAssumption, ParameterAssumption, Init, Promise!Init, ClosingMode, Cluster
<1>2. DataInv /\ [Next]_vars => [Promise!Next]_(Promise!vars)
  BY RefinementStep
<1> QED
  BY <1>1, <1>2, DataInit, DataStep, PTL DEF Spec, ImplementsSharedCluster, Promise!Spec

=============================================================================
