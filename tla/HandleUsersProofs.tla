-------------------------- MODULE HandleUsersProofs ---------------------------
(***************************************************************************)
(* Theorems of HandleUsers: open handles are served, leaving spares those  *)
(* who are inside, and processes spare each other.                         *)
(***************************************************************************)
EXTENDS HandleUsers, FiniteSetTheorems, TLAPS

\* A handle that somebody has and that is not closed is the registered one.
FramesAreMade ==
    \A p \in Process, u \in User :
        frame[p][u].handle \in complete[p] \cup {instance[p], NoHandle}
\* Who is inside is counted.
InsideIsCounted ==
    \A p \in Process, h \in Handles : Cardinality(Inside(p, h)) <= count[p][h]
InsideHasHandle ==
    \A p \in Process, u \in User : frame[p][u].inside => frame[p][u].handle # NoHandle

HandleInv ==
    /\ TypeOK
    /\ FramesAreMade
    /\ InsideIsCounted
    /\ InsideHasHandle
    /\ OpenHandleIsServed

LEMMA UsersAreFinite ==
    ASSUME NEW S \in SUBSET User
    PROVE  IsFiniteSet(S) /\ Cardinality(S) \in Nat
  BY FS_Subset, FS_CardinalityType, HandleAssumption

LEMMA NoneInside ==
    ASSUME NEW p, NEW h, h # NoHandle, \A u \in User : frame[p][u] = NoFrame
    PROVE  Cardinality(Inside(p, h)) = 0
<1>1. Inside(p, h) = {}
  BY DEF Inside, NoFrame
<1>2. QED
  BY <1>1, FS_EmptySet

LEMMA HandleInit == Init => HandleInv
<1> SUFFICES ASSUME Init PROVE HandleInv
  OBVIOUS
<1>1. 0 \notin Handles
  BY DEF Handles
<1>2. TypeOK
  <2>1. NoFrame \in Frames
    BY DEF Frames, NoFrame
  <2>2. QED
    BY <2>1, HandleAssumption DEF Init, TypeOK
<1>3. FramesAreMade /\ InsideHasHandle /\ OpenHandleIsServed
  <2>1. \A p \in Process, u \in User : frame[p][u] = NoFrame /\ instance[p] = NoHandle
    BY DEF Init
  <2>2. QED
    BY <1>1, <2>1, HandleAssumption
    DEF Init, FramesAreMade, InsideHasHandle, OpenHandleIsServed, NoFrame, NoHandle
<1>4. InsideIsCounted
  BY <1>1, NoneInside DEF Init, InsideIsCounted, NoHandle
<1>5. QED
  BY <1>2, <1>3, <1>4 DEF HandleInv

\* What a step does to handles, registry and server: no handle that is known or
\* registered is lost from sight, and who has one is still served.
Keeps ==
    /\ instance' \in [Process -> Handles \cup {NoHandle}]
    /\ complete' \in [Process -> SUBSET Handles]
    /\ pids' \in SUBSET Process
    /\ up' \in BOOLEAN
    /\ \A q \in Process : instance'[q] \notin complete'[q]
    /\ \A q \in Process : complete[q] \cup {instance[q], NoHandle}
                            \subseteq complete'[q] \cup {instance'[q], NoHandle}
    /\ \A q \in alive : instance'[q] \in Handles \ inherited[q] => q \in pids' /\ up'

LEMMA CleanUpEffect ==
    ASSUME HandleInv, NEW p \in alive, NEW h \in Handles,
           h \in complete[p] \cup {instance[p]}, CleanUp(p, h)
    PROVE  Keeps
<1> USE DEF HandleInv, TypeOK, Keeps
<1>1. p \in Process /\ NoHandle \notin Handles
  BY DEF NoHandle, Handles
<1>2. CASE h \in complete[p]
  BY <1>1, <1>2 DEF CleanUp, OpenHandleIsServed
<1>3. CASE h \notin complete[p]
  <2>1. h = instance[p]
    BY <1>1, <1>3
  <2>2. /\ pids' = (pids \ {p}) \cap alive
        /\ up' = (up /\ ~(p \in pids /\ (pids \ {p}) \cap alive = {}))
        /\ instance' = [instance EXCEPT ![p] = NoHandle]
        /\ complete' = [complete EXCEPT ![p] = @ \cup {h}]
    BY <1>3, <2>1 DEF CleanUp, Owner, Popped
  <2>3. ASSUME NEW q \in alive, instance'[q] \in Handles \ inherited[q]
        PROVE  q \in pids' /\ up'
    BY <1>1, <2>2, <2>3 DEF OpenHandleIsServed
  <2>4. QED
    BY <1>1, <2>1, <2>2, <2>3
<1>4. QED
  BY <1>2, <1>3

LEMMA NothingKeeps ==
    ASSUME HandleInv, UNCHANGED <<instance, complete, pids, up>>
    PROVE  Keeps
  BY DEF HandleInv, TypeOK, Keeps, OpenHandleIsServed

LEMMA FrameStep ==
    ASSUME frame \in [Process -> [User -> Frames]], NEW p \in Process, NEW u \in User,
           NEW f \in Frames, frame' = [frame EXCEPT ![p][u] = f]
    PROVE  /\ frame' \in [Process -> [User -> Frames]]
           /\ frame'[p][u] = f
           /\ \A q \in Process, v \in User :
                 q # p \/ v # u => frame'[q][v] = frame[q][v]
  OBVIOUS

LEMMA InsideFrame ==
    ASSUME NEW f \in Frames, f.inside
    PROVE  f = [handle |-> f.handle, inside |-> TRUE] /\ f.handle \in Handles \cup {NoHandle}
  BY DEF Frames

\* Where nobody enters with a handle, those inside with it stay counted.
LEMMA StaysCounted ==
    ASSUME HandleInv, NEW p \in Process, NEW h \in Handles,
           NEW n \in Nat, count[p][h] <= n,
           \A v \in User : \/ frame'[p][v] = frame[p][v]
                           \/ ~frame'[p][v].inside
                           \/ frame'[p][v].handle # h
    PROVE  Cardinality(Inside(p, h)') <= n
<1>1. /\ Inside(p, h)' \subseteq Inside(p, h)
      /\ Inside(p, h)' \in SUBSET User
      /\ Inside(p, h) \in SUBSET User
  BY DEF Inside
<1>2. Cardinality(Inside(p, h)') <= Cardinality(Inside(p, h))
  BY <1>1, UsersAreFinite, FS_Subset
<1>3. Cardinality(Inside(p, h)) <= count[p][h] /\ count[p][h] \in Nat
  BY DEF HandleInv, InsideIsCounted, TypeOK
<1>4. QED
  BY <1>1, <1>2, <1>3, UsersAreFinite

\* A user gives its handle up: everything but the counts.
LEMMA LeaveStep ==
    ASSUME HandleInv, NEW p \in Process, NEW u \in User, Keeps,
           SetFrame(p, u, NoHandle, FALSE), UNCHANGED <<alive, forked, inherited>>
    PROVE  /\ count' \in [Process -> [Handles -> Nat]] => TypeOK'
           /\ FramesAreMade' /\ InsideHasHandle' /\ OpenHandleIsServed'
           /\ frame'[p][u] = NoFrame
           /\ \A q \in Process, v \in User :
                 q # p \/ v # u => frame'[q][v] = frame[q][v]
<1> USE DEF HandleInv
<1>1. NoFrame \in Frames /\ NoFrame.handle = NoHandle /\ ~NoFrame.inside
  BY DEF Frames, NoFrame
<1>2. frame' = [frame EXCEPT ![p][u] = NoFrame]
  BY DEF SetFrame, NoFrame
<1>3. /\ frame' \in [Process -> [User -> Frames]]
      /\ frame'[p][u] = NoFrame
      /\ \A q \in Process, v \in User : q # p \/ v # u => frame'[q][v] = frame[q][v]
  BY <1>1, <1>2, FrameStep DEF TypeOK
<1>4. count' \in [Process -> [Handles -> Nat]] => TypeOK'
  BY <1>3 DEF TypeOK, Keeps
<1>5. ASSUME NEW q \in Process, NEW v \in User
      PROVE  /\ frame'[q][v].handle \in complete'[q] \cup {instance'[q], NoHandle}
             /\ frame'[q][v].inside => frame'[q][v].handle # NoHandle
  BY <1>1, <1>3 DEF FramesAreMade, InsideHasHandle, Keeps
<1>6. FramesAreMade' /\ InsideHasHandle'
  BY <1>5 DEF FramesAreMade, InsideHasHandle
<1>7. OpenHandleIsServed'
  BY DEF OpenHandleIsServed, Keeps
<1>8. QED
  BY <1>3, <1>4, <1>6, <1>7

LEMMA HandleStep == HandleInv /\ [Next]_vars => HandleInv'
<1> SUFFICES ASSUME HandleInv, [Next]_vars PROVE HandleInv'
  OBVIOUS
<1> USE DEF HandleInv, TypeOK
<1>0. NoHandle \notin Handles /\ NoHandle = 0 /\ alive \subseteq Process
  BY DEF NoHandle, Handles
<1>1. CASE UNCHANGED vars
  BY <1>1 DEF vars, memory, FramesAreMade, InsideIsCounted, InsideHasHandle,
     OpenHandleIsServed, Inside
<1>2. ASSUME NEW p \in alive, NEW u \in User, GetServer(p, u) PROVE HandleInv'
  <2>1. PICK h \in Handles : /\ SetFrame(p, u, h, FALSE)
                             /\ h \in {instance[p], instance'[p]}
                             /\ instance'[p] = h
    BY <1>0, <1>2 DEF GetServer
  <2>2. /\ instance' \in [Process -> Handles \cup {NoHandle}]
        /\ \A q \in Process : q # p => instance'[q] = instance[q]
        /\ instance[p] \in {NoHandle, h}
        /\ UNCHANGED <<alive, forked, count, complete, inherited>>
        /\ pids' \in SUBSET Process /\ pids \subseteq pids'
        /\ up' \in BOOLEAN /\ (up => up')
        /\ instance[p] = NoHandle => p \in pids' /\ up'
    BY <1>0, <1>2, <2>1 DEF GetServer
  <2>3. h \notin complete[p] /\ \A q \in Process : instance'[q] \notin complete[q]
    BY <1>0, <1>2, <2>1, <2>2 DEF GetServer, Made
  <2>4. /\ frame' \in [Process -> [User -> Frames]]
        /\ frame'[p][u] = [handle |-> h, inside |-> FALSE]
        /\ \A q \in Process, v \in User :
              q # p \/ v # u => frame'[q][v] = frame[q][v]
    <3>1. [handle |-> h, inside |-> FALSE] \in Frames
      BY DEF Frames
    <3>2. QED
      BY <2>1, <3>1, <1>0, FrameStep DEF SetFrame
  <2>5. frame'[p][u].handle = h /\ ~frame'[p][u].inside
    BY <2>4
  <2>6. TypeOK'
    BY <2>2, <2>3, <2>4
  <2>7. FramesAreMade' /\ InsideHasHandle'
    <3>1. ASSUME NEW q \in Process, NEW v \in User
          PROVE  /\ frame'[q][v].handle \in complete[q] \cup {instance'[q], NoHandle}
                 /\ frame'[q][v].inside => frame'[q][v].handle # NoHandle
      <4>1. CASE q = p /\ v = u
        BY <4>1, <2>1, <2>5, <1>0
      <4>2. CASE ~(q = p /\ v = u)
        BY <4>2, <2>1, <2>2, <2>4 DEF FramesAreMade, InsideHasHandle
      <4>3. QED
        BY <4>1, <4>2
    <3>2. QED
      BY <3>1, <2>2 DEF FramesAreMade, InsideHasHandle
  <2>8. InsideIsCounted'
    <3>1. ASSUME NEW q \in Process, NEW g \in Handles
          PROVE  Cardinality(Inside(q, g)') <= count[q][g]
      <4>1. \A v \in User : frame'[q][v] = frame[q][v] \/ ~frame'[q][v].inside
        BY <2>4, <2>5
      <4>2. count[q][g] \in Nat /\ count[q][g] <= count[q][g]
        OBVIOUS
      <4>3. QED
        BY <4>1, <4>2, StaysCounted
    <3>2. QED
      BY <3>1, <2>2 DEF InsideIsCounted
  <2>9. OpenHandleIsServed'
    BY <2>1, <2>2 DEF OpenHandleIsServed
  <2>10. QED
    BY <2>6, <2>7, <2>8, <2>9
<1>3. ASSUME NEW p \in alive, NEW u \in User, Cleanup(p, u) \/ Forget(p, u)
      PROVE  HandleInv'
  <2>1. /\ SetFrame(p, u, NoHandle, FALSE)
        /\ UNCHANGED <<alive, forked, inherited, count>>
        /\ frame[p][u].handle # NoHandle
    BY <1>3 DEF Cleanup, Forget
  <2>2. Keeps
    <3>1. CASE Cleanup(p, u)
      <4>1. frame[p][u].handle \in Handles \cap (complete[p] \cup {instance[p]})
        BY <1>0, <2>1 DEF FramesAreMade
      <4>2. CleanUp(p, frame[p][u].handle)
        BY <3>1 DEF Cleanup
      <4>3. QED
        BY <4>1, <4>2, CleanUpEffect
    <3>2. CASE Forget(p, u)
      BY <3>2, NothingKeeps DEF Forget
    <3>3. QED
      BY <1>3, <3>1, <3>2
  <2>3. p \in Process
    BY <1>0
  <2>4. /\ TypeOK' /\ FramesAreMade' /\ InsideHasHandle' /\ OpenHandleIsServed'
        /\ frame'[p][u] = NoFrame
        /\ \A q \in Process, v \in User : q # p \/ v # u => frame'[q][v] = frame[q][v]
    BY <2>1, <2>2, <2>3, LeaveStep
  <2>5. InsideIsCounted'
    <3>1. ASSUME NEW q \in Process, NEW g \in Handles
          PROVE  Cardinality(Inside(q, g)') <= count[q][g]
      <4>1. \A v \in User : frame'[q][v] = frame[q][v] \/ ~frame'[q][v].inside
        BY <2>4 DEF NoFrame
      <4>2. count[q][g] \in Nat /\ count[q][g] <= count[q][g]
        OBVIOUS
      <4>3. QED
        BY <4>1, <4>2, StaysCounted
    <3>2. QED
      BY <3>1, <2>1 DEF InsideIsCounted
  <2>6. QED
    BY <2>4, <2>5
<1>4. ASSUME NEW p \in alive, NEW u \in User, Exit(p, u) PROVE HandleInv'
  <2>h. PICK h : h = frame[p][u].handle
    OBVIOUS
  <2>n. PICK n : n = count[p][h] - 1
    OBVIOUS
  <2>0. p \in Process
    BY <1>0
  <2> HIDE DEF TypeOK
  <2>1. h \in Handles \cap (complete[p] \cup {instance[p]})
    <3>1. frame[p][u] \in Frames /\ frame[p][u].inside
      BY <1>4, <2>0 DEF Exit, TypeOK
    <3>2. h \in Handles
      BY <3>1, <2>0, <2>h, InsideFrame DEF InsideHasHandle
    <3>3. h \in complete[p] \cup {instance[p], NoHandle}
      BY <2>0, <2>h DEF FramesAreMade
    <3>4. QED
      BY <1>0, <3>2, <3>3
  <2>2. /\ SetFrame(p, u, NoHandle, FALSE)
        /\ UNCHANGED <<alive, forked, inherited>>
        /\ count' = [count EXCEPT ![p][h] = n]
        /\ frame[p][u].inside
    BY <1>4, <2>h, <2>n DEF Exit
  <2>3. /\ frame[p][u] = [handle |-> h, inside |-> TRUE]
        /\ n = count[p][h] - 1 /\ count[p][h] \in Nat
    <3>1. frame[p][u] \in Frames
      BY <2>0 DEF TypeOK
    <3>2. QED
      BY <3>1, <2>0, <2>1, <2>2, <2>h, <2>n, InsideFrame DEF TypeOK
  <2>11. NoFrame.handle = NoHandle /\ ~NoFrame.inside
    BY DEF NoFrame
  <2>4. Keeps
    <3>1. CASE Closes(n)
      <4>1. CleanUp(p, h)
        BY <1>4, <3>1, <2>h, <2>n DEF Exit
      <4>2. QED
        BY <4>1, <2>1, CleanUpEffect
    <3>2. CASE ~Closes(n)
      <4>1. UNCHANGED <<instance, complete, pids, up>>
        BY <1>4, <3>2, <2>h, <2>n DEF Exit
      <4>2. QED
        BY <4>1, NothingKeeps
    <3>3. QED
      BY <3>1, <3>2
  <2>5. /\ count' \in [Process -> [Handles -> Nat]] => TypeOK'
        /\ FramesAreMade' /\ InsideHasHandle' /\ OpenHandleIsServed'
        /\ frame'[p][u] = NoFrame
        /\ \A q \in Process, v \in User : q # p \/ v # u => frame'[q][v] = frame[q][v]
    BY <2>0, <2>2, <2>4, LeaveStep
  <2>6. /\ u \in Inside(p, h) /\ Inside(p, h)' = Inside(p, h) \ {u}
        /\ Inside(p, h) \in SUBSET User
    BY <2>0, <2>1, <2>5, <2>3, <2>11, <1>0 DEF Inside
  <2>7. n \in Nat /\ Cardinality(Inside(p, h)') <= n
    <3>1. IsFiniteSet(Inside(p, h)) /\ Cardinality(Inside(p, h)) \in Nat
      BY <2>6, UsersAreFinite
    <3>2. Cardinality(Inside(p, h)') = Cardinality(Inside(p, h)) - 1
      BY <2>6, <3>1, FS_RemoveElement
    <3>3. IsFiniteSet(Inside(p, h)') /\ Cardinality(Inside(p, h)') \in Nat
      BY <2>6, <3>1, FS_Subset, FS_CardinalityType
    <3>4. Cardinality(Inside(p, h)) <= count[p][h] /\ count[p][h] \in Nat
      BY <2>0, <2>1 DEF InsideIsCounted, TypeOK
    <3>5. QED
      BY <3>1, <3>2, <3>3, <3>4, <2>3
  <2>8. /\ count' \in [Process -> [Handles -> Nat]]
        /\ \A q \in Process, g \in Handles :
              count'[q][g] = IF q = p /\ g = h THEN n ELSE count[q][g]
    BY <2>0, <2>1, <2>2, <2>7 DEF TypeOK
  <2>9. InsideIsCounted'
    <3>1. ASSUME NEW q \in Process, NEW g \in Handles
          PROVE  Cardinality(Inside(q, g)') <= count'[q][g]
      <4>1. CASE q = p /\ g = h
        BY <4>1, <2>7, <2>8
      <4>2. CASE ~(q = p /\ g = h)
        <5>1. \A v \in User : frame'[q][v] = frame[q][v] \/ ~frame'[q][v].inside
          BY <2>5, <2>11
        <5>2. count[q][g] \in Nat /\ count[q][g] <= count[q][g]
          BY DEF TypeOK
        <5>3. Cardinality(Inside(q, g)') <= count[q][g]
          BY <5>1, <5>2, StaysCounted
        <5>4. QED
          BY <5>3, <4>2, <2>8
      <4>3. QED
        BY <4>1, <4>2
    <3>2. QED
      BY <3>1 DEF InsideIsCounted
  <2>10. QED
    BY <2>5, <2>8, <2>9
<1>5. ASSUME NEW p \in alive, NEW u \in User, Enter(p, u) PROVE HandleInv'
  <2>h. PICK h : h = frame[p][u].handle
    OBVIOUS
  <2>0. p \in Process
    BY <1>0
  <2> HIDE DEF TypeOK
  <2>1. h \in Handles /\ ~frame[p][u].inside
    BY <1>5, <2>0, <2>h DEF Enter, TypeOK, Frames
  <2>2. /\ SetFrame(p, u, h, TRUE)
        /\ UNCHANGED <<alive, forked, instance, complete, inherited, pids, up>>
        /\ count' = [count EXCEPT ![p][h] = @ + 1]
    BY <1>5, <2>h DEF Enter
  <2>3. /\ frame' \in [Process -> [User -> Frames]]
        /\ frame'[p][u] = [handle |-> h, inside |-> TRUE]
        /\ \A q \in Process, v \in User : q # p \/ v # u => frame'[q][v] = frame[q][v]
    <3>1. [handle |-> h, inside |-> TRUE] \in Frames
      BY <2>1 DEF Frames
    <3>2. QED
      BY <2>0, <2>2, <3>1, FrameStep DEF SetFrame, TypeOK
  <2>4. /\ count' \in [Process -> [Handles -> Nat]]
        /\ \A q \in Process, g \in Handles :
              count'[q][g] = IF q = p /\ g = h THEN count[q][g] + 1 ELSE count[q][g]
    BY <2>0, <2>1, <2>2 DEF TypeOK
  <2>5. TypeOK' /\ OpenHandleIsServed'
    BY <2>2, <2>3, <2>4 DEF OpenHandleIsServed, TypeOK
  <2>6. FramesAreMade' /\ InsideHasHandle'
    <3>1. ASSUME NEW q \in Process, NEW v \in User
          PROVE  /\ frame'[q][v].handle = frame[q][v].handle
                 /\ frame'[q][v].inside => frame'[q][v].handle # NoHandle
      BY <1>0, <2>1, <2>3, <2>h DEF InsideHasHandle
    <3>2. QED
      BY <3>1, <2>2 DEF FramesAreMade, InsideHasHandle
  <2>7. /\ u \notin Inside(p, h) /\ Inside(p, h)' = Inside(p, h) \cup {u}
        /\ Inside(p, h) \in SUBSET User
    <3>1. frame[p][u] # [handle |-> h, inside |-> TRUE]
      BY <2>1
    <3>2. \A v \in User : v # u => frame'[p][v] = frame[p][v]
      BY <2>0, <2>3
    <3>3. u \notin Inside(p, h) /\ Inside(p, h) \in SUBSET User
      BY <3>1 DEF Inside
    <3>4. u \in Inside(p, h)'
      BY <2>3 DEF Inside
    <3>5. \A v \in User \ {u} : v \in Inside(p, h)' <=> v \in Inside(p, h)
      BY <3>2 DEF Inside
    <3>6. Inside(p, h)' \in SUBSET User
      BY DEF Inside
    <3>7. QED
      BY <3>3, <3>4, <3>5, <3>6
  <2>8. InsideIsCounted'
    <3>1. ASSUME NEW q \in Process, NEW g \in Handles
          PROVE  Cardinality(Inside(q, g)') <= count'[q][g]
      <4>1. CASE q = p /\ g = h
        <5>1. IsFiniteSet(Inside(p, h)) /\ Cardinality(Inside(p, h)) \in Nat
          BY <2>7, UsersAreFinite
        <5>2. Cardinality(Inside(p, h)') = Cardinality(Inside(p, h)) + 1
          BY <2>7, <5>1, FS_AddElement
        <5>3. Cardinality(Inside(p, h)) <= count[p][h] /\ count[p][h] \in Nat
          BY <2>0, <2>1 DEF InsideIsCounted, TypeOK
        <5>4. QED
          BY <4>1, <5>1, <5>2, <5>3, <2>4
      <4>2. CASE ~(q = p /\ g = h)
        <5>1. \A v \in User : frame'[q][v] = frame[q][v] \/ frame'[q][v].handle # g
          BY <4>2, <2>3
        <5>2. count[q][g] \in Nat /\ count[q][g] <= count[q][g]
          BY DEF TypeOK
        <5>3. Cardinality(Inside(q, g)') <= count[q][g]
          BY <5>1, <5>2, StaysCounted
        <5>4. QED
          BY <5>3, <4>2, <2>4
      <4>3. QED
        BY <4>1, <4>2
    <3>2. QED
      BY <3>1 DEF InsideIsCounted
  <2>9. QED
    BY <2>5, <2>6, <2>8
<1>6. ASSUME NEW p \in alive, Terminate(p) PROVE HandleInv'
  <2>0. p \in Process /\ NoFrame.handle = NoHandle /\ ~NoFrame.inside /\ NoFrame \in Frames
    BY <1>0 DEF NoFrame, Frames
  <2>1. /\ alive' = alive \ {p}
        /\ frame' = [frame EXCEPT ![p] = [u \in User |-> NoFrame]]
        /\ UNCHANGED <<forked, count, inherited>>
    BY <1>6 DEF Terminate, Ends
  <2>2. Keeps
    <3>1. CASE instance[p] # NoHandle /\ CleanUp(p, instance[p])
      <4>1. instance[p] \in Handles
        BY <2>0, <3>1
      <4>2. QED
        BY <3>1, <4>1, CleanUpEffect
    <3>2. CASE UNCHANGED <<instance, complete, pids, up>>
      BY <3>2, NothingKeeps
    <3>3. QED
      BY <1>6, <3>1, <3>2 DEF Terminate
  <2>3. /\ frame' \in [Process -> [User -> Frames]]
        /\ \A q \in Process, v \in User :
              frame'[q][v] = IF q = p THEN NoFrame ELSE frame[q][v]
    BY <2>0, <2>1
  <2>4. TypeOK'
    BY <2>1, <2>2, <2>3 DEF Keeps
  <2>5. ASSUME NEW q \in Process, NEW v \in User
        PROVE  /\ frame'[q][v].handle \in complete'[q] \cup {instance'[q], NoHandle}
               /\ frame'[q][v].inside => frame'[q][v].handle # NoHandle
    <3>1. CASE q = p
      BY <2>0, <2>3, <3>1
    <3>2. CASE q # p
      <4>1. frame'[q][v] = frame[q][v]
        BY <2>3, <3>2
      <4>2. QED
        BY <2>2, <4>1 DEF FramesAreMade, InsideHasHandle, Keeps
    <3>3. QED
      BY <3>1, <3>2
  <2>6. FramesAreMade' /\ InsideHasHandle'
    BY <2>5 DEF FramesAreMade, InsideHasHandle
  <2>7. OpenHandleIsServed'
    BY <2>1, <2>2 DEF OpenHandleIsServed, Keeps
  <2>8. InsideIsCounted'
    <3>1. ASSUME NEW q \in Process, NEW g \in Handles
          PROVE  Cardinality(Inside(q, g)') <= count[q][g]
      <4>1. \A v \in User : frame'[q][v] = frame[q][v] \/ ~frame'[q][v].inside
        BY <2>0, <2>3
      <4>2. count[q][g] \in Nat /\ count[q][g] <= count[q][g]
        OBVIOUS
      <4>3. QED
        BY <4>1, <4>2, StaysCounted
    <3>2. QED
      BY <3>1, <2>1 DEF InsideIsCounted
  <2>9. QED
    BY <2>4, <2>6, <2>7, <2>8
<1>7. ASSUME NEW p \in alive, NEW c \in Process, Fork(p, c) PROVE HandleInv'
  <2> DEFINE From(q) == IF q = c THEN p ELSE q
  <2>0. /\ p \in Process /\ NoFrame.handle = NoHandle /\ ~NoFrame.inside
        /\ NoFrame \in Frames
    BY <1>0 DEF NoFrame, Frames
  <2>1. /\ alive' = alive \cup {c} /\ forked' = forked \cup {c}
        /\ instance' = [instance EXCEPT ![c] = instance[p]]
        /\ count' = [count EXCEPT ![c] = count[p]]
        /\ complete' = [complete EXCEPT ![c] = complete[p]]
        /\ inherited' = [inherited EXCEPT ![c] = Made(p)]
        /\ UNCHANGED <<pids, up>>
    BY <1>7 DEF Fork
  <2>2. \A q \in Process : /\ From(q) \in Process
                           /\ instance'[q] = instance[From(q)]
                           /\ count'[q] = count[From(q)]
                           /\ complete'[q] = complete[From(q)]
                           /\ q # c => inherited'[q] = inherited[q]
    BY <2>0, <2>1
  <2> HIDE DEF From
  <2>3. inherited' \in [Process -> SUBSET Handles] /\ inherited'[c] = Made(p)
    BY <2>0, <2>1 DEF Made
  <2>4. /\ frame' \in [Process -> [User -> Frames]]
        /\ \A q \in Process, v \in User : frame'[q][v] \in {frame[From(q)][v], NoFrame}
    <3>1. CASE frame' = [frame EXCEPT ![c] = frame[p]]
      BY <2>0, <3>1 DEF From
    <3>2. CASE frame' = [frame EXCEPT ![c] = [u \in User |-> NoFrame]]
      BY <2>0, <3>2 DEF From
    <3>3. QED
      BY <1>7, <3>1, <3>2 DEF Fork
  <2>5. TypeOK'
    BY <2>0, <2>1, <2>2, <2>3, <2>4
  <2>6. ASSUME NEW q \in Process, NEW v \in User
        PROVE  /\ frame'[q][v].handle \in complete'[q] \cup {instance'[q], NoHandle}
               /\ frame'[q][v].inside => frame'[q][v].handle # NoHandle
    <3>1. CASE frame'[q][v] = NoFrame
      BY <2>0, <3>1
    <3>2. CASE frame'[q][v] = frame[From(q)][v]
      <4>1. /\ frame[From(q)][v].handle
                  \in complete[From(q)] \cup {instance[From(q)], NoHandle}
            /\ frame[From(q)][v].inside => frame[From(q)][v].handle # NoHandle
        BY <2>2 DEF FramesAreMade, InsideHasHandle
      <4>2. QED
        BY <2>2, <3>2, <4>1
    <3>3. QED
      BY <2>4, <3>1, <3>2
  <2>7. FramesAreMade' /\ InsideHasHandle'
    BY <2>6 DEF FramesAreMade, InsideHasHandle
  <2>8. OpenHandleIsServed'
    <3>1. instance'[c] \in Handles => instance'[c] \in inherited'[c]
      BY <1>0, <2>1, <2>2, <2>3 DEF Made
    <3>2. QED
      BY <2>1, <2>2, <3>1 DEF OpenHandleIsServed
  <2>9. InsideIsCounted'
    <3>1. ASSUME NEW q \in Process, NEW g \in Handles
          PROVE  Cardinality(Inside(q, g)') <= count'[q][g]
      <4>1. /\ Inside(q, g)' \subseteq Inside(From(q), g)
            /\ Inside(q, g)' \in SUBSET User /\ Inside(From(q), g) \in SUBSET User
        BY <2>0, <2>4 DEF Inside
      <4>2. Cardinality(Inside(q, g)') <= Cardinality(Inside(From(q), g))
        BY <4>1, UsersAreFinite, FS_Subset
      <4>3. /\ Cardinality(Inside(From(q), g)) <= count[From(q)][g]
            /\ count[From(q)][g] \in Nat /\ count'[q][g] = count[From(q)][g]
        BY <2>2 DEF InsideIsCounted
      <4>4. QED
        BY <4>1, <4>2, <4>3, UsersAreFinite
    <3>2. QED
      BY <3>1 DEF InsideIsCounted
  <2>10. QED
    BY <2>5, <2>7, <2>8, <2>9
<1>8. QED
  BY <1>1, <1>2, <1>3, <1>4, <1>5, <1>6, <1>7 DEF Next

\* In every reachable state, for any processes and users: an open handle of a
\* process's own keeps its PID registered and the server up.
THEOREM OpenHandlesAreServed == Spec => []OpenHandleIsServed
<1>1. HandleInv => OpenHandleIsServed
  BY DEF HandleInv
<1>2. QED
  BY HandleInit, HandleStep, <1>1, PTL DEF Spec

\* The variables keep their types.
THEOREM TypeCorrect == Spec => []TypeOK
<1>1. HandleInv => TypeOK
  BY DEF HandleInv
<1>2. QED
  BY HandleInit, HandleStep, <1>1, PTL DEF Spec

LEMMA HandleInvariant == Spec => []HandleInv
  BY HandleInit, HandleStep, PTL DEF Spec

\* A with-block that ends, and by its end closes the handle, is the only one
\* that was open on it.
THEOREM LeavingIsSafe == Spec => LeavingSparesOthers
<1>1. ASSUME HandleInv, NEW p \in alive, NEW u \in User, Exit(p, u),
             NEW g \in complete'[p] \ complete[p]
      PROVE  Inside(p, g) \subseteq {u}
  <2> USE DEF HandleInv
  <2> DEFINE h == frame[p][u].handle
             n == count[p][h] - 1
  <2>1. p \in Process /\ NoHandle \notin Handles
    BY <1>1 DEF TypeOK, NoHandle, Handles
  <2>2. /\ h \in Handles /\ frame[p][u] = [handle |-> h, inside |-> TRUE]
        /\ count[p][h] \in Nat
    <3>1. frame[p][u] \in Frames /\ frame[p][u].inside
      BY <1>1, <2>1 DEF Exit, TypeOK
    <3>2. h \in Handles
      BY <1>1, <2>1, <3>1, InsideFrame DEF InsideHasHandle
    <3>3. QED
      <4>1. frame[p][u] = [handle |-> h, inside |-> TRUE]
        BY <3>1, InsideFrame
      <4>2. count[p][h] \in Nat
        BY <1>1, <2>1, <3>2 DEF TypeOK
      <4>3. QED
        BY <3>2, <4>1, <4>2
  <2>3. n <= 0 /\ g = h
    BY <1>1, <2>1 DEF Exit, Closes, CleanUp, TypeOK
  <2>4. u \in Inside(p, h) /\ Inside(p, h) \in SUBSET User
    BY <2>2 DEF Inside
  <2>5. IsFiniteSet(Inside(p, h)) /\ Cardinality(Inside(p, h)) \in Nat
    BY <2>4, UsersAreFinite
  <2>6. Cardinality(Inside(p, h) \ {u}) = Cardinality(Inside(p, h)) - 1
    BY <2>4, <2>5, FS_RemoveElement
  <2>7. Cardinality(Inside(p, h)) <= count[p][h]
    BY <1>1, <2>1, <2>2 DEF InsideIsCounted
  <2>8. IsFiniteSet(Inside(p, h) \ {u}) /\ Cardinality(Inside(p, h) \ {u}) \in Nat
    BY <2>5, FS_Subset, FS_CardinalityType
  <2>9. Cardinality(Inside(p, h) \ {u}) = 0
    BY <2>2, <2>3, <2>5, <2>6, <2>7, <2>8
  <2>10. Inside(p, h) \ {u} = {}
    BY <2>8, <2>9, FS_EmptySet
  <2>11. QED
    BY <2>3, <2>10
<1>2. HandleInv => [\A p \in alive, u \in User :
         Exit(p, u) => \A h \in complete'[p] \ complete[p] : Inside(p, h) \subseteq {u}]_vars
  BY <1>1
<1>3. QED
  BY <1>2, HandleInvariant, PTL DEF LeavingSparesOthers

\* The end of a process, of a with-block or of a handle removes one PID, its
\* process's own, and those of the dead; so it stops the server for no other
\* live process that registered.
THEOREM OthersAreSpared == Spec => OthersKeepTheirServer
<1>1. ASSUME NEW q \in alive, NEW p \in alive \ {q}, q \in pids,
             Terminate(p) \/ \E u \in User : Exit(p, u) \/ Cleanup(p, u)
      PROVE  q \in pids' /\ (up => up')
  <2>1. ASSUME NEW h, CleanUp(p, h) PROVE q \in pids' /\ (up => up')
    <3>1. q \in (pids \ {p}) \cap alive
      BY <1>1
    <3>2. QED
      BY <2>1, <3>1 DEF CleanUp, Owner
  <2>2. (\E h : CleanUp(p, h)) \/ UNCHANGED <<pids, up>>
    BY <1>1 DEF Terminate, Exit, Cleanup
  <2>3. QED
    BY <1>1, <2>1, <2>2
<1>2. [\A q \in alive \cap alive' :
         (\E p \in alive \ {q} : \/ Terminate(p)
                                 \/ \E u \in User : Exit(p, u) \/ Cleanup(p, u))
         /\ q \in pids => q \in pids' /\ (up => up')]_vars
  BY <1>1
<1>3. QED
  BY <1>2, PTL DEF OthersKeepTheirServer

-----------------------------------------------------------------------------
\* The last one out.

\* What a fork got it has made or closed since, and of the handles that a live
\* process constructed itself the count is the number of users inside.
InheritedIsMade ==
    \A p \in Process : inherited[p] \subseteq complete[p] \cup {instance[p]}
CountIsExact ==
    \A p \in alive, h \in Handles : h \notin inherited[p] =>
        count[p][h] = Cardinality(Inside(p, h))

CountInv ==
    /\ HandleInv
    /\ InheritedIsMade
    /\ CountIsExact

\* One user's frame changes: who is inside is the others, and perhaps the user.
LEMMA InsideAfter ==
    ASSUME TypeOK, NEW p \in Process, NEW u \in User, NEW h, NEW inside \in BOOLEAN,
           SetFrame(p, u, h, inside), NEW q \in Process, NEW g
    PROVE  /\ q # p => Inside(q, g)' = Inside(q, g)
           /\ inside /\ g = h => Inside(p, g)' = Inside(p, g) \cup {u}
           /\ ~(inside /\ g = h) => Inside(p, g)' = Inside(p, g) \ {u}
<1>1. /\ \A v \in User : frame'[q][v] = IF q = p /\ v = u THEN [handle |-> h, inside |-> inside]
                                        ELSE frame[q][v]
      /\ \A v \in User : frame'[p][v] = IF v = u THEN [handle |-> h, inside |-> inside]
                                        ELSE frame[p][v]
  BY DEF SetFrame, TypeOK
<1>2. [handle |-> h, inside |-> inside] = [handle |-> g, inside |-> TRUE] <=> inside /\ g = h
  <2>1. ASSUME [handle |-> h, inside |-> inside] = [handle |-> g, inside |-> TRUE]
        PROVE  inside /\ g = h
    <3>1. [handle |-> h, inside |-> inside].handle = [handle |-> g, inside |-> TRUE].handle
      BY <2>1
    <3>2. [handle |-> h, inside |-> inside].inside = [handle |-> g, inside |-> TRUE].inside
      BY <2>1
    <3>3. QED
      BY <3>1, <3>2
  <2>2. ASSUME inside, g = h
        PROVE  [handle |-> h, inside |-> inside] = [handle |-> g, inside |-> TRUE]
    BY <2>2
  <2>3. QED
    BY <2>1, <2>2
<1>3. Inside(q, g)' = {v \in User : frame'[q][v] = [handle |-> g, inside |-> TRUE]}
      /\ Inside(p, g)' = {v \in User : frame'[p][v] = [handle |-> g, inside |-> TRUE]}
      /\ Inside(q, g) = {v \in User : frame[q][v] = [handle |-> g, inside |-> TRUE]}
      /\ Inside(p, g) = {v \in User : frame[p][v] = [handle |-> g, inside |-> TRUE]}
  BY DEF Inside
<1>4. QED
  BY <1>1, <1>2, <1>3

\* A step of a live process other than a fork loses no handle from sight.
LEMMA MadeStays ==
    ASSUME TypeOK, NEW p \in alive,
           \/ \E u \in User : \/ GetServer(p, u) \/ Enter(p, u) \/ Exit(p, u)
                              \/ Cleanup(p, u) \/ Forget(p, u)
           \/ Terminate(p),
           InheritedIsMade
    PROVE  InheritedIsMade'
<1>1. p \in Process /\ NoHandle \notin Handles
  BY DEF TypeOK, NoHandle, Handles
<1>2. inherited' = inherited
  BY DEF GetServer, Enter, Exit, Cleanup, Forget, Terminate, Ends
<1>3. ASSUME \A q \in Process : /\ complete[q] \subseteq complete'[q]
                                /\ \/ instance[q] = NoHandle
                                   \/ instance[q] \in complete'[q] \cup {instance'[q]}
      PROVE  InheritedIsMade'
  BY <1>1, <1>2, <1>3 DEF InheritedIsMade, TypeOK
<1>4. ASSUME UNCHANGED <<instance, complete>> PROVE InheritedIsMade'
  BY <1>3, <1>4
<1>5. ASSUME NEW h, CleanUp(p, h) PROVE InheritedIsMade'
  <2>1. CASE h \in complete[p]
    BY <1>4, <1>5, <2>1 DEF CleanUp
  <2>2. CASE h \notin complete[p]
    <3>1. /\ instance' = [instance EXCEPT ![p] = Popped(@, h)]
          /\ complete' = [complete EXCEPT ![p] = @ \cup {h}]
      BY <1>5, <2>2 DEF CleanUp
    <3>2. QED
      BY <1>1, <1>3, <3>1 DEF Popped, TypeOK
  <2>3. QED
    BY <2>1, <2>2
<1>6. ASSUME NEW u \in User, GetServer(p, u) PROVE InheritedIsMade'
  <2>1. CASE UNCHANGED instance
    BY <1>4, <1>6, <2>1 DEF GetServer
  <2>2. CASE instance[p] = NoHandle /\ \E h \in Handles : instance' = [instance EXCEPT ![p] = h]
    BY <1>1, <1>3, <1>6, <2>2 DEF GetServer, TypeOK
  <2>3. QED
    BY <1>6, <2>1, <2>2 DEF GetServer
<1>7. QED
  BY <1>4, <1>5, <1>6 DEF Enter, Exit, Cleanup, Forget, Terminate

LEMMA CountStep ==
    ASSUME CountInv, [Next]_vars
    PROVE  CountInv'
<1>1. HandleInv /\ TypeOK /\ HandleInv' /\ InheritedIsMade /\ CountIsExact
  BY HandleStep DEF CountInv, HandleInv
<1>2. NoHandle \notin Handles /\ alive \subseteq Process
  BY <1>1 DEF NoHandle, Handles, TypeOK
<1>3. CASE UNCHANGED vars
  BY <1>1, <1>3 DEF vars, memory, CountInv, InheritedIsMade, CountIsExact, Inside
<1>4. ASSUME NEW p \in alive, NEW u \in User, NEW h, NEW inside \in BOOLEAN,
             SetFrame(p, u, h, inside), ~inside, ~frame[p][u].inside,
             UNCHANGED <<alive, count, inherited>>
      PROVE  CountIsExact'
  <2>1. \A q \in alive, g \in Handles : Inside(q, g)' = Inside(q, g)
    <3> SUFFICES ASSUME NEW q \in alive, NEW g \in Handles
                 PROVE  Inside(q, g)' = Inside(q, g)
      OBVIOUS
    <3>1. u \notin Inside(p, g)
      BY <1>4 DEF Inside
    <3>2. QED
      BY <1>1, <1>2, <1>4, <3>1, InsideAfter
  <2>2. QED
    BY <1>1, <1>4, <2>1 DEF CountIsExact
<1>5. ASSUME NEW p \in alive, NEW u \in User, GetServer(p, u) PROVE CountIsExact'
  <2>1. ~frame[p][u].inside
    BY <1>1, <1>2, <1>5 DEF GetServer, HandleInv, InsideHasHandle
  <2>2. \E h : SetFrame(p, u, h, FALSE)
    BY <1>5 DEF GetServer
  <2>3. QED
    BY <1>4, <1>5, <2>1, <2>2 DEF GetServer
<1>6. ASSUME NEW p \in alive, NEW u \in User, Cleanup(p, u) \/ Forget(p, u) PROVE CountIsExact'
  BY <1>4, <1>6 DEF Cleanup, Forget
<1>7. ASSUME NEW p \in alive, NEW u \in User, Enter(p, u) PROVE CountIsExact'
  <2> DEFINE h == frame[p][u].handle
  <2>1. /\ SetFrame(p, u, h, TRUE) /\ ~frame[p][u].inside /\ p \in Process
        /\ count' = [count EXCEPT ![p][h] = @ + 1]
        /\ UNCHANGED <<alive, inherited>>
    BY <1>2, <1>7 DEF Enter
  <2>6. PICK inside \in BOOLEAN, k \in {h} : inside /\ SetFrame(p, u, k, inside)
    BY <2>1, Zenon
  <2>7. ASSUME NEW r \in Process, NEW g
        PROVE  /\ r # p => Inside(r, g)' = Inside(r, g)
               /\ g = k => Inside(p, g)' = Inside(p, g) \cup {u}
               /\ g # k => Inside(p, g)' = Inside(p, g) \ {u}
    <3>1. SetFrame(p, u, k, inside)
      BY <2>6
    <3>2. /\ r # p => Inside(r, g)' = Inside(r, g)
          /\ inside /\ g = k => Inside(p, g)' = Inside(p, g) \cup {u}
          /\ ~(inside /\ g = k) => Inside(p, g)' = Inside(p, g) \ {u}
      BY <1>1, <1>2, <3>1, InsideAfter
    <3>3. QED
      BY <2>6, <3>2
  <2> SUFFICES ASSUME NEW q \in alive, NEW g \in Handles, g \notin inherited[q]
               PROVE  count'[q][g] = Cardinality(Inside(q, g)')
    BY <2>1 DEF CountIsExact
  <2>2. count[q][g] = Cardinality(Inside(q, g)) /\ q \in Process
    BY <1>1, <1>2 DEF CountIsExact
  <2>3. CASE q = p /\ g = h
    <3>1. u \notin Inside(p, g) /\ Inside(p, g) \in SUBSET User
      BY <2>1 DEF Inside
    <3>2. Inside(q, g)' = Inside(q, g) \cup {u}
      BY <2>2, <2>3, <2>7
    <3>3. Cardinality(Inside(q, g)') = Cardinality(Inside(q, g)) + 1
      BY <2>3, <3>1, <3>2, UsersAreFinite, FS_AddElement
    <3>4. count'[q][g] = count[q][g] + 1
      BY <1>1, <2>1, <2>3 DEF TypeOK
    <3>5. QED
      BY <2>2, <3>3, <3>4
  <2>4. CASE ~(q = p /\ g = h)
    <3>1. u \notin Inside(p, g)
      BY <2>1 DEF Inside
    <3>2. Inside(q, g)' = Inside(q, g)
      BY <2>2, <2>4, <2>7, <3>1
    <3>3. count'[q][g] = count[q][g]
      BY <1>1, <2>1, <2>2, <2>4 DEF TypeOK
    <3>4. QED
      BY <2>2, <3>2, <3>3
  <2>5. QED
    BY <2>3, <2>4
<1>8. ASSUME NEW p \in alive, NEW u \in User, Exit(p, u) PROVE CountIsExact'
  <2> DEFINE h == frame[p][u].handle
  <2>1. /\ SetFrame(p, u, NoHandle, FALSE) /\ frame[p][u].inside /\ p \in Process
        /\ count' = [count EXCEPT ![p][h] = @ - 1]
        /\ UNCHANGED <<alive, inherited>>
    BY <1>1, <1>2, <1>8 DEF Exit, TypeOK
  <2>2. frame[p][u] = [handle |-> h, inside |-> TRUE] /\ h \in Handles
    <3>1. frame[p][u] \in Frames
      BY <1>1, <2>1 DEF TypeOK
    <3>2. h # NoHandle
      BY <1>1, <2>1 DEF HandleInv, InsideHasHandle
    <3>3. QED
      BY <2>1, <3>1, <3>2, InsideFrame
  <2>7. PICK inside \in BOOLEAN : ~inside /\ SetFrame(p, u, NoHandle, inside)
    BY <2>1, Zenon
  <2> SUFFICES ASSUME NEW q \in alive, NEW g \in Handles, g \notin inherited[q]
               PROVE  count'[q][g] = Cardinality(Inside(q, g)')
    BY <2>1 DEF CountIsExact
  <2>3. count[q][g] = Cardinality(Inside(q, g)) /\ q \in Process
    BY <1>1, <1>2 DEF CountIsExact
  <2>4. CASE q = p /\ g = h
    <3>1. u \in Inside(p, g) /\ Inside(p, g) \in SUBSET User
      BY <2>2, <2>4 DEF Inside
    <3>2. Inside(q, g)' = Inside(q, g) \ {u}
      BY <1>1, <2>1, <2>4, <2>7, InsideAfter
    <3>3. Cardinality(Inside(q, g)') = Cardinality(Inside(q, g)) - 1
      BY <2>4, <3>1, <3>2, UsersAreFinite, FS_RemoveElement
    <3>4. count'[q][g] = count[q][g] - 1
      BY <1>1, <2>1, <2>4 DEF TypeOK
    <3>5. QED
      BY <2>3, <3>3, <3>4
  <2>5. CASE ~(q = p /\ g = h)
    <3>1. g # h => u \notin Inside(p, g)
      <4>1. ASSUME u \in Inside(p, g) PROVE g = h
        <5>1. frame[p][u] = [handle |-> g, inside |-> TRUE]
          BY <4>1 DEF Inside
        <5>2. QED
          BY <5>1
      <4>2. QED
        BY <4>1
    <3>2. Inside(q, g)' = Inside(q, g)
      BY <1>1, <2>1, <2>3, <2>5, <2>7, <3>1, InsideAfter
    <3>3. count'[q][g] = count[q][g]
      BY <1>1, <2>1, <2>3, <2>5 DEF TypeOK
    <3>4. QED
      BY <2>3, <3>2, <3>3
  <2>6. QED
    BY <2>4, <2>5
<1>9. ASSUME NEW p \in alive, Terminate(p) PROVE CountIsExact'
  <2>1. /\ alive' = alive \ {p} /\ UNCHANGED <<count, inherited>>
        /\ frame' = [frame EXCEPT ![p] = [u \in User |-> NoFrame]]
    BY <1>9 DEF Terminate, Ends
  <2>2. \A q \in alive' : frame'[q] = frame[q]
    BY <1>1, <1>2, <2>1 DEF TypeOK
  <2>3. \A q \in alive', g \in Handles : Inside(q, g)' = Inside(q, g)
    BY <2>2 DEF Inside
  <2>4. QED
    BY <1>1, <2>1, <2>3 DEF CountIsExact
<1>10. ASSUME NEW p \in alive, NEW c \in Process, Fork(p, c)
       PROVE  CountIsExact' /\ InheritedIsMade'
  <2>1. /\ c \notin alive /\ alive' = alive \cup {c} /\ p \in Process
        /\ instance' = [instance EXCEPT ![c] = instance[p]]
        /\ count' = [count EXCEPT ![c] = count[p]]
        /\ complete' = [complete EXCEPT ![c] = complete[p]]
        /\ inherited' = [inherited EXCEPT ![c] = Made(p)]
        /\ \A q \in Process \ {c} : frame'[q] = frame[q]
        /\ frame'[c] = frame[p] \/ frame'[c] = [u \in User |-> NoFrame]
    BY <1>1, <1>2, <1>10 DEF Fork, TypeOK
  <2>2. InheritedIsMade'
    <3>1. inherited'[c] \subseteq complete'[c] \cup {instance'[c]}
      BY <1>1, <2>1 DEF Made, TypeOK
    <3>2. \A q \in Process \ {c} : inherited'[q] \subseteq complete'[q] \cup {instance'[q]}
      BY <1>1, <2>1 DEF InheritedIsMade, TypeOK
    <3>3. QED
      BY <3>1, <3>2 DEF InheritedIsMade
  <2>3. ASSUME NEW q \in alive, NEW g \in Handles, g \notin inherited'[q]
        PROVE  count'[q][g] = Cardinality(Inside(q, g)')
    <3>1. q \in Process \ {c} /\ inherited'[q] = inherited[q] /\ count'[q] = count[q]
      BY <1>1, <1>2, <2>1 DEF TypeOK
    <3>2. Inside(q, g)' = Inside(q, g)
      BY <2>1, <3>1 DEF Inside
    <3>3. QED
      BY <1>1, <2>3, <3>1, <3>2 DEF CountIsExact
  <2>4. ASSUME NEW g \in Handles, g \notin inherited'[c]
        PROVE  count'[c][g] = Cardinality(Inside(c, g)')
    <3>1. g \notin complete[p] \cup {instance[p]} /\ count'[c] = count[p]
      BY <1>1, <1>2, <2>1, <2>4 DEF Made, TypeOK
    <3>2. Inside(p, g) = {}
      <4> SUFFICES ASSUME NEW u \in User, frame[p][u] = [handle |-> g, inside |-> TRUE]
                   PROVE  FALSE
        BY DEF Inside
      <4>1. frame[p][u].handle \in complete[p] \cup {instance[p], NoHandle}
        BY <1>1, <2>1 DEF HandleInv, FramesAreMade
      <4>2. QED
        BY <1>2, <3>1, <4>1
    <3>3. count[p][g] = 0
      <4>1. g \notin inherited[p]
        BY <1>1, <2>1, <3>1 DEF InheritedIsMade
      <4>2. QED
        BY <1>1, <3>2, <4>1, FS_EmptySet DEF CountIsExact
    <3>4. Inside(c, g)' = {}
      <4>1. CASE frame'[c] = frame[p]
        BY <3>2, <4>1 DEF Inside
      <4>2. CASE frame'[c] = [u \in User |-> NoFrame]
        <5> SUFFICES ASSUME NEW u \in User, frame'[c][u] = [handle |-> g, inside |-> TRUE]
                     PROVE  FALSE
          BY DEF Inside
        <5>1. [handle |-> NoHandle, inside |-> FALSE].inside
                = [handle |-> g, inside |-> TRUE].inside
          BY <4>2 DEF NoFrame
        <5>2. QED
          BY <5>1
      <4>3. QED
        BY <2>1, <4>1, <4>2
    <3>5. QED
      BY <3>1, <3>3, <3>4, FS_EmptySet
  <2>5. QED
    BY <2>1, <2>2, <2>3, <2>4 DEF CountIsExact
<1>11. QED
  BY <1>1, <1>3, <1>5, <1>6, <1>7, <1>8, <1>9, <1>10, MadeStays DEF Next, CountInv

LEMMA CountInit == Init => CountInv
<1> SUFFICES ASSUME Init PROVE InheritedIsMade /\ CountIsExact
  BY HandleInit DEF CountInv
<1>1. InheritedIsMade
  BY DEF Init, InheritedIsMade
<1>2. ASSUME NEW p \in alive, NEW h \in Handles
      PROVE  count[p][h] = Cardinality(Inside(p, h))
  <2>1. p \in Process /\ h # NoHandle
    BY HandleAssumption DEF Init, Handles, NoHandle
  <2>2. count[p][h] = 0 /\ \A u \in User : frame[p][u] = NoFrame
    BY <2>1 DEF Init
  <2>3. QED
    BY <2>1, <2>2, NoneInside
<1>3. QED
  BY <1>1, <1>2 DEF CountIsExact

\* The last user who leaves a handle of the process's own closes it, and if no
\* other live process is registered the server stops.
THEOREM LastOneCloses == Spec => LastExitCloses
<1> DEFINE Closed(p, u, h) ==
        /\ h \in complete'[p]
        /\ h = instance[p] /\ pids \cap alive \subseteq {p} => ~up'
<1>1. ASSUME CountInv, NEW p \in alive, NEW u \in User, Exit(p, u),
             frame[p][u].handle \notin inherited[p], Inside(p, frame[p][u].handle) = {u}
      PROVE  Closed(p, u, frame[p][u].handle)
  <2> DEFINE h == frame[p][u].handle
  <2>1. /\ p \in Process /\ TypeOK /\ InsideHasHandle /\ OpenHandleIsServed
        /\ NoHandle \notin Handles
    BY <1>1 DEF CountInv, HandleInv, TypeOK, NoHandle, Handles
  <2>2. h \in Handles
    BY <1>1, <2>1 DEF Exit, InsideHasHandle, TypeOK, Frames
  <2>3. count[p][h] = 1
    <3>1. Cardinality({u}) = 1
      BY FS_Singleton
    <3>2. count[p][h] = Cardinality(Inside(p, h))
      BY <1>1, <2>2 DEF CountInv, CountIsExact
    <3>3. QED
      BY <1>1, <3>1, <3>2
  <2>4. CleanUp(p, h)
    BY <1>1, <2>3 DEF Exit, Closes
  <2>5. h \in complete'[p]
    BY <2>1, <2>4 DEF CleanUp, TypeOK
  <2>6. ASSUME h = instance[p], pids \cap alive \subseteq {p} PROVE ~up'
    <3>1. h \notin complete[p] /\ p \in pids
      BY <1>1, <2>1, <2>2, <2>6 DEF OpenHandleIsServed, TypeOK
    <3>2. (pids \ {p}) \cap alive = {}
      BY <2>6
    <3>3. QED
      BY <2>4, <3>1, <3>2 DEF CleanUp, Owner
  <2>7. QED
    BY <2>5, <2>6
<1>2. CountInv => [\A p \in alive, u \in User :
         LET h == frame[p][u].handle IN
         Exit(p, u) /\ h \notin inherited[p] /\ Inside(p, h) = {u} =>
             /\ h \in complete'[p]
             /\ h = instance[p] /\ pids \cap alive \subseteq {p} => ~up']_vars
  BY <1>1
<1>3. QED
  BY <1>2, CountInit, CountStep, PTL DEF Spec, LastExitCloses
=============================================================================
