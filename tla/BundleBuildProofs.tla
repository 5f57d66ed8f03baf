-------------------------- MODULE BundleBuildProofs --------------------------
(***************************************************************************)
(* Theorems of BundleBuild, for any components, configurations and goals:  *)
(* what the prefix holds belongs to the stamp and to verified sources, the *)
(* completion marker stands on a release, and it implements BundleRelease. *)
(***************************************************************************)
EXTENDS BundleBuild, TLAPS

\* What the names of this build refer to.
LEMMA NamesAreNames ==
    ASSUME NEW c \in Configs, NEW x \in Comp
    PROVE  /\ Dir[c][x] \in Names /\ Dir[c][x] # Nothing
           /\ Dir[c][x] # Build /\ Dir[c][x] # Status
           /\ Dir[c][x] \notin Comp
           /\ Pin[c][x] \in Contents
           /\ Pin[c][x] # Nothing /\ Pin[c][x] # Broken
           /\ c # Nothing
  BY ComponentAssumption, NameAssumption DEF Names, Contents

LEMMA RequiredAreComponents ==
    ASSUME config \in Configs, goal \in Comp \cup {"all"}
    PROVE  Required \subseteq Comp /\ Postgres \in Required
  BY ComponentAssumption DEF Required, Comp

-----------------------------------------------------------------------------
\* Types.

LEMMA RemovedTypes ==
    ASSUME TypeOK, PrefixRemoved \/ PrefixPartlyRemoved
    PROVE  /\ inst' \in [Comp -> Levels]
           /\ from' \in [Comp -> Contents \cup {Nothing, Broken}]
           /\ made' \in [Comp -> Configs \cup {Nothing}]
           /\ {relative', unfit'} \subseteq SUBSET Comp /\ leaked' \in SUBSET Ext
           /\ metadata' \in Configs \cup {Nothing} /\ marker' \in BOOLEAN
<1>1. CASE PrefixRemoved
  <2>1. 0 \in Levels
    BY DEF Levels
  <2>2. QED
    BY <1>1, <2>1 DEF PrefixRemoved, TypeOK
<1>2. CASE PrefixPartlyRemoved
  BY <1>2 DEF PrefixPartlyRemoved, TypeOK
<1>3. QED
  BY <1>1, <1>2

LEMMA TreeTypes ==
    ASSUME TypeOK, TreesRemoved \/ TreesPartlyRemoved
    PROVE  /\ tree' \in [Names -> Contents \cup {Nothing, Broken}]
           /\ {status', build'} \subseteq Configs \cup {Nothing}
           /\ makefiles' \in BOOLEAN
<1>1. CASE TreesRemoved
  BY <1>1 DEF TreesRemoved, TypeOK
<1>2. CASE TreesPartlyRemoved
  <2>1. PICK gone, part \in SUBSET {d \in BuildDirs : tree[d] # Nothing} :
            tree' = [d \in Names |-> IF d \in gone THEN Nothing
                                     ELSE IF d \in part THEN Broken ELSE tree[d]]
    BY <1>2 DEF TreesPartlyRemoved
  <2>2. {status', build'} \subseteq Configs \cup {Nothing} /\ makefiles' \in BOOLEAN
    BY <1>2 DEF TreesPartlyRemoved, TypeOK
  <2>3. QED
    BY <2>1, <2>2 DEF TypeOK
<1>3. QED
  BY <1>1, <1>2

LEMMA InstallTypes ==
    ASSUME TypeOK, NEW x \in Comp, InstallOf(x)
    PROVE  /\ inst' \in [Comp -> Levels]
           /\ from' \in [Comp -> Contents \cup {Nothing, Broken}]
           /\ made' \in [Comp -> Configs \cup {Nothing}]
           /\ {relative', unfit'} \subseteq SUBSET Comp
           /\ pc' \in {pc, "idle"}
<1>1. dir(x) \in Names
  BY NamesAreNames DEF TypeOK, dir
<1>2. tree[dir(x)] \in Contents \cup {Nothing, Broken}
  BY <1>1 DEF TypeOK
<1>3. /\ from' \in [Comp -> Contents \cup {Nothing, Broken}]
      /\ made' \in [Comp -> Configs \cup {Nothing}]
      /\ {relative', unfit'} \subseteq SUBSET Comp
  BY <1>2 DEF InstallOf, TypeOK
<1>4. inst' \in [Comp -> Levels] /\ pc' \in {pc, "idle"}
  BY DEF InstallOf, TypeOK, Levels, LevelsOf, Debris, Partial, Whole, Stop
<1>5. QED
  BY <1>3, <1>4

LEMMA RenewedTypes ==
    ASSUME TypeOK, NEW f, NEW dependents, Renewed(f, dependents),
           dependents \subseteq Names \cup Comp \cup {Status, Build}
    PROVE  old' \in SUBSET (Names \cup Comp \cup {Status, Build})
  BY DEF Renewed, TypeOK

\* What relativizing leaves: a tool that fails damages nothing that counts as
\* relative, and what was not all there stays among the unfit.
LEMMA RelativizeIs ==
    ASSUME TypeOK, Relativize
    PROVE  /\ inst' \in [Comp -> Levels] /\ {relative', unfit'} \subseteq SUBSET Comp
           /\ \A x \in Comp :
                 \/ inst'[x] = inst[x]
                 \/ inst[x] = Whole /\ inst'[x] = Partial /\ x \notin relative'
           /\ \A x \in Comp :
                 /\ Installed(x)
                 /\ inst[x] = Whole \/ x \in unfit
                 /\ pc' = "metadata" \/ x \in relative \cup unfit
                 => x \in unfit' \/ (x \in relative' /\ inst[x] = Whole)
<1> DEFINE here == {x \in Comp : Installed(x)}
           damaged == {x \in unfit : inst[x] # Whole}
           Damage(S) == inst' = [x \in Comp |-> IF x \in S /\ inst[x] = Whole
                                                THEN Partial ELSE inst[x]]
<1>1. PICK S \in SUBSET Comp : Damage(S) /\ S \cap relative' = {}
  BY DEF Relativize
<1>2. /\ inst' \in [Comp -> Levels]
      /\ \A x \in Comp :
            \/ inst'[x] = inst[x]
            \/ inst[x] = Whole /\ inst'[x] = Partial /\ x \notin relative'
  BY <1>1 DEF TypeOK, Levels, Partial, Whole
<1>3. CASE pc' = "metadata"
  <2>1. PICK failed \in SUBSET (here \ relative) :
           damaged \subseteq failed /\ relative' = here \ failed /\ unfit' = failed
    BY <1>3 DEF Relativize, Stop
  <2>2. QED
    BY <1>2, <2>1
<1>4. CASE pc' # "metadata"
  <2>1. PICK rewritten \in SUBSET (here \ (relative \cup damaged)) :
           relative' = relative \cup rewritten /\ unfit' = unfit \ rewritten
    BY <1>4 DEF Relativize
  <2>2. relative' \subseteq Comp /\ unfit' \subseteq Comp
    BY <2>1 DEF TypeOK
  <2>3. ASSUME NEW x \in Comp, inst[x] = Whole \/ x \in unfit, x \in relative \cup unfit
        PROVE  x \in unfit' \/ (x \in relative' /\ inst[x] = Whole)
    BY <2>1, <2>3
  <2>4. QED
    BY <1>2, <1>4, <2>2, <2>3
<1>5. QED
  BY <1>3, <1>4

LEMMA TypeInit == Init => TypeOK
<1>1. 0 \in Levels
  BY DEF Levels
<1>2. QED
  BY <1>1 DEF Init, TypeOK

LEMMA TypeStep == TypeOK /\ [Next]_vars => TypeOK'
<1> SUFFICES ASSUME TypeOK, [Next]_vars PROVE TypeOK'
  OBVIOUS
<1> USE DEF prefixVars, sourceVars, buildVars, Stop
<1>1. CASE UNCHANGED vars
  BY <1>1 DEF vars, TypeOK
<1>2. ASSUME NEW g \in Goals, Start(g) PROVE TypeOK'
  BY <1>2, ComponentAssumption DEF Start, TypeOK
<1>3. ASSUME NEW c \in Configs, Reconfigure(c) PROVE TypeOK'
  BY <1>3 DEF Reconfigure, TypeOK
<1>4. CASE SameStamp
  BY <1>4, RemovedTypes DEF SameStamp, TypeOK
<1>5. CASE ChangedStamp
  BY <1>5, RemovedTypes, TreeTypes DEF ChangedStamp, TypeOK
<1>6. ASSUME NEW x \in Comp, FetchArchive(x) PROVE TypeOK'
  <2>1. dir(x) \in Names
    BY NamesAreNames DEF TypeOK, dir
  <2>2. archive' \in [Names -> Contents \cup {Nothing}]
    BY <1>6 DEF FetchArchive, TypeOK
  <2>3. old' \in SUBSET (Names \cup Comp \cup {Status, Build})
    BY <1>6, <2>1 DEF FetchArchive, Renewed, TypeOK
  <2>4. QED
    BY <1>6, <2>2, <2>3 DEF FetchArchive, TypeOK
<1>7. ASSUME NEW x \in Comp, Unpack(x) PROVE TypeOK'
  <2>1. dir(x) \in Names /\ archive[dir(x)] \in Contents
    BY <1>7, NamesAreNames DEF TypeOK, dir, Unpack
  <2>2. tree' \in [Names -> Contents \cup {Nothing, Broken}]
    BY <1>7, <2>1 DEF Unpack, TypeOK
  <2>3. old' \in SUBSET (Names \cup Comp \cup {Status, Build})
    BY <1>7, <2>1 DEF Unpack, Renewed, BuiltFromTree, TypeOK
  <2>4. QED
    BY <1>7, <2>2, <2>3 DEF Unpack, TypeOK
<1>8. ASSUME NEW x \in Comp, Clone(x) PROVE TypeOK'
  <2>1. dir(x) \in Names
    BY NamesAreNames DEF TypeOK, dir
  <2>2. tree' \in [Names -> Contents \cup {Nothing, Broken}]
    BY <1>8, <2>1 DEF Clone, TypeOK
  <2>3. old' \in SUBSET (Names \cup Comp \cup {Status, Build})
    BY <1>8, <2>1 DEF Clone, Renewed, BuiltFromTree, TypeOK
  <2>4. QED
    BY <1>8, <2>2, <2>3 DEF Clone, TypeOK
<1>9. CASE Configure \/ BuildPostgres
  BY <1>9 DEF Configure, BuildPostgres, Renewed, TypeOK, Comp
<1>10. CASE InstallPostgres
  BY <1>10, InstallTypes DEF InstallPostgres, Renewed, TypeOK, Comp
<1>11. ASSUME NEW x \in Comp, InstallExtension(x) PROVE TypeOK'
  <2>1. x \in Ext
    BY <1>11 DEF InstallExtension, Comp
  <2>2. QED
    BY <1>11, <2>1, InstallTypes DEF InstallExtension, Renewed, TypeOK
<1>12. CASE Finish
  BY <1>12 DEF Finish, TypeOK
<1>13. CASE Relativize
  <2>1. inst' \in [Comp -> Levels] /\ {relative', unfit'} \subseteq SUBSET Comp
    BY <1>13, RelativizeIs
  <2>2. pc' \in {"metadata", "idle"}
    BY <1>13 DEF Relativize, Stop
  <2>3. QED
    BY <1>13, <2>1, <2>2 DEF Relativize, TypeOK
<1>14. CASE BeginMetadata \/ GenerateMetadata \/ Mark
  BY <1>14 DEF BeginMetadata, GenerateMetadata, Mark, TypeOK
<1>15. CASE Abort \/ StartClean
  BY <1>15 DEF Abort, StartClean, TypeOK
<1>16. CASE Clean
  BY <1>16, RemovedTypes, TreeTypes DEF Clean, TypeOK
<1>17. QED
  BY <1>1, <1>2, <1>3, <1>4, <1>5, <1>6, <1>7, <1>8, <1>9, <1>10, <1>11, <1>12,
     <1>13, <1>14, <1>15, <1>16 DEF Next, Recipe

\* The variables keep their types.
THEOREM TypeCorrect == Spec => []TypeOK
  BY TypeInit, TypeStep, PTL DEF Spec

-----------------------------------------------------------------------------
\* Stamp and sources.

\* Targets are only tested under their own stamp, and after a removal that was
\* cut off only once it has been run again.
RunIsOnStamp ==
    /\ Tested => stamp = config /\ ~cut
    /\ pc = "stamp" /\ cut => stamp # config

\* The prefix belongs to the stamp, whatever the configuration is by now.
PrefixOfStamp ==
    \A x \in Comp : inst[x] > 0 => made[x] = stamp /\ stamp \in Configs

\* So do the trees that make takes for ready, and the PostgreSQL build.
SourcesOfStamp ==
    stamp # Nothing /\ ~cut =>
        /\ {status, build} \subseteq {stamp, Nothing}
        /\ \A x \in Comp :
              tree[Dir[stamp][x]] # Nothing /\ Dir[stamp][x] \notin old
              => tree[Dir[stamp][x]] = Pin[stamp][x]

StampInv ==
    /\ TypeOK
    /\ RunIsOnStamp
    /\ PrefixOfStamp
    /\ SourcesOfStamp
    /\ VerifiedSourcesOnly

LEMMA PrefixShrinks ==
    ASSUME TypeOK, PrefixRemoved \/ PrefixPartlyRemoved,
           NEW x \in Comp, inst'[x] > 0
    PROVE  inst[x] > 0 /\ made'[x] = made[x] /\ from'[x] = from[x]
<1>1. PrefixPartlyRemoved
  BY DEF PrefixRemoved
<1>2. inst[x] \in Nat /\ inst'[x] \in Nat /\ inst'[x] <= inst[x]
  BY <1>1, RemovedTypes DEF PrefixPartlyRemoved, TypeOK, Levels
<1>3. QED
  BY <1>1, <1>2 DEF PrefixPartlyRemoved

\* Trees, build and prefix as the stamp's recipe or make clean has left them.
LEMMA AllRemoved ==
    ASSUME TypeOK, PrefixRemoved, TreesRemoved
    PROVE  /\ \A x \in Comp : inst'[x] = 0
           /\ \A x \in Comp : tree'[Dir[config][x]] = Nothing
           /\ status' = Nothing /\ build' = Nothing
<1>1. \A x \in Comp : Dir[config][x] \in BuildDirs /\ Dir[config][x] \in Names
  BY NamesAreNames DEF BuildDirs, dir, TypeOK
<1>2. QED
  BY <1>1 DEF PrefixRemoved, TreesRemoved

\* What is ready under the stamp is what the configuration pins.
LEMMA ReadyIsPinned ==
    ASSUME StampInv, Tested, NEW x \in Comp, TreeReady(x)
    PROVE  tree[dir(x)] = pin(x)
  BY ComponentAssumption DEF StampInv, TypeOK, RunIsOnStamp, SourcesOfStamp, TreeReady,
     dir, pin

LEMMA InstalledFromPin ==
    ASSUME StampInv, pc = "make", NEW x \in Comp, InstallOf(x), TreeReady(x),
           x = Postgres => BuildReady
    PROVE  /\ made'[x] = config /\ from'[x] = Pin[config][x]
           /\ \A y \in Comp \ {x} : /\ inst'[y] = inst[y]
                                    /\ made'[y] = made[y]
                                    /\ from'[y] = from[y]
<1>1. Tested /\ stamp = config /\ ~cut /\ config \in Configs /\ config # Nothing
  BY ComponentAssumption DEF Tested, StampInv, RunIsOnStamp, TypeOK
<1>2. tree[dir(x)] = Pin[config][x]
  BY <1>1, ReadyIsPinned DEF pin
<1>3. x = Postgres => build = config
  BY <1>1 DEF BuildReady, StampInv, SourcesOfStamp
<1>4. QED
  BY <1>2, <1>3 DEF InstallOf, StampInv, TypeOK

LEMMA StampInit == Init => StampInv
<1> SUFFICES ASSUME Init PROVE StampInv
  OBVIOUS
<1>1. \A x \in Comp : ~(inst[x] > 0)
  BY DEF Init
<1>2. QED
  BY <1>1, TypeInit DEF Init, StampInv, RunIsOnStamp, Tested, PrefixOfStamp,
     SourcesOfStamp, VerifiedSourcesOnly

LEMMA StampStep ==
    ASSUME Careless = FALSE
    PROVE  StampInv /\ [Next]_vars => StampInv'
<1> SUFFICES ASSUME StampInv, [Next]_vars
             PROVE  /\ RunIsOnStamp' /\ PrefixOfStamp'
                    /\ SourcesOfStamp' /\ VerifiedSourcesOnly'
  BY TypeStep DEF StampInv
<1> DEFINE Kept == /\ RunIsOnStamp' /\ PrefixOfStamp'
                   /\ SourcesOfStamp' /\ VerifiedSourcesOnly'
<1> USE DEF prefixVars, sourceVars, buildVars, Stop
<1>1. TypeOK /\ RunIsOnStamp /\ PrefixOfStamp /\ SourcesOfStamp /\ VerifiedSourcesOnly
  BY DEF StampInv
<1>2. pc = "make" => stamp = config /\ ~cut /\ config \in Configs /\ config # Nothing
  BY <1>1, ComponentAssumption DEF RunIsOnStamp, Tested, TypeOK
\* The prefix and the sources are left alone.
<1>3. ASSUME UNCHANGED <<stamp, inst, from, made, tree, status, build, old, cut>>
      PROVE  PrefixOfStamp' /\ SourcesOfStamp' /\ VerifiedSourcesOnly'
  BY <1>1, <1>3 DEF PrefixOfStamp, SourcesOfStamp, VerifiedSourcesOnly
\* Sources come and go under the stamp.
<1>4. ASSUME pc = "make", pc' \in {"make", "idle"},
             UNCHANGED <<config, stamp, inst, from, made, cut>>,
             status' \in {status, config, Nothing}, build' \in {build, status},
             \A x \in Comp : tree'[dir(x)] # Nothing /\ dir(x) \notin old'
                             => tree'[dir(x)] = pin(x)
      PROVE  Kept
  <2>1. RunIsOnStamp'
    BY <1>1, <1>4 DEF RunIsOnStamp, Tested
  <2>2. PrefixOfStamp' /\ VerifiedSourcesOnly'
    BY <1>1, <1>4 DEF PrefixOfStamp, VerifiedSourcesOnly
  <2>3. SourcesOfStamp'
    BY <1>1, <1>2, <1>4 DEF SourcesOfStamp, dir, pin
  <2>4. QED
    BY <2>1, <2>2, <2>3
\* The prefix shrinks, and the stamp stays.
<1>5. ASSUME PrefixRemoved \/ PrefixPartlyRemoved, stamp' = stamp
      PROVE  PrefixOfStamp' /\ VerifiedSourcesOnly'
  BY <1>1, <1>5, PrefixShrinks DEF PrefixOfStamp, VerifiedSourcesOnly
\* The prefix is gone.
<1>6. ASSUME PrefixRemoved PROVE PrefixOfStamp' /\ VerifiedSourcesOnly'
  <2>1. \A x \in Comp : ~(inst'[x] > 0)
    BY <1>6 DEF PrefixRemoved
  <2>2. QED
    BY <2>1 DEF PrefixOfStamp, VerifiedSourcesOnly
<1>7. \A x \in Comp : pc = "make" /\ tree[dir(x)] # Nothing /\ dir(x) \notin old
                      => tree[dir(x)] = pin(x)
  BY <1>1, <1>2 DEF SourcesOfStamp, dir, pin
<1>8. \A x \in Comp : pc = "make" => /\ dir(x) \in Names /\ dir(x) # Nothing
                                     /\ dir(x) # Build /\ dir(x) # Status
                                     /\ dir(x) \notin Comp
                                     /\ \A y \in Comp : dir(y) = dir(x) => y = x
  BY <1>2, NamesAreNames, NameAssumption DEF dir
<1>9. CASE UNCHANGED vars
  <2>1. RunIsOnStamp'
    BY <1>1, <1>9 DEF vars, RunIsOnStamp, Tested
  <2>2. QED
    BY <1>3, <1>9, <2>1 DEF vars
<1>10. ASSUME NEW g \in Goals, Start(g) PROVE Kept
  <2>1. RunIsOnStamp'
    BY <1>10 DEF Start, RunIsOnStamp, Tested
  <2>2. QED
    BY <1>3, <1>10, <2>1 DEF Start
<1>11. ASSUME NEW c \in Configs, Reconfigure(c) PROVE Kept
  <2>1. RunIsOnStamp'
    BY <1>11 DEF Reconfigure, RunIsOnStamp, Tested
  <2>2. QED
    BY <1>3, <1>11, <2>1 DEF Reconfigure
<1>12. CASE SameStamp
  <2>1. RunIsOnStamp'
    BY <1>1, <1>12 DEF SameStamp, RunIsOnStamp, Tested
  <2>2. SourcesOfStamp'
    BY <1>1, <1>12 DEF SameStamp, SourcesOfStamp
  <2>3. PrefixOfStamp' /\ VerifiedSourcesOnly'
    BY <1>3, <1>5, <1>12 DEF SameStamp
  <2>4. QED
    BY <2>1, <2>2, <2>3
<1>13. CASE ChangedStamp
  <2>1. CASE PrefixRemoved /\ TreesRemoved /\ stamp' = config /\ cut' = FALSE /\ pc' = "make"
    <3>1. RunIsOnStamp'
      BY <1>13, <2>1 DEF ChangedStamp, RunIsOnStamp, Tested
    <3>2. SourcesOfStamp'
      BY <1>1, <1>13, <2>1, AllRemoved DEF ChangedStamp, SourcesOfStamp
    <3>3. QED
      BY <1>6, <2>1, <3>1, <3>2
  <2>2. CASE (PrefixRemoved \/ PrefixPartlyRemoved) /\ stamp' = stamp /\ cut' = TRUE /\ pc' = "idle"
    BY <1>5, <2>2 DEF RunIsOnStamp, Tested, SourcesOfStamp
  <2>3. QED
    BY <1>13, <2>1, <2>2 DEF ChangedStamp
<1>14. ASSUME NEW x \in Comp, FetchArchive(x) PROVE Kept
  <2>1. \A y \in Comp : dir(y) \notin old' => dir(y) \notin old
    BY <1>8, <1>14 DEF FetchArchive, Renewed
  <2>2. QED
    BY <1>4, <1>7, <1>14, <2>1 DEF FetchArchive
<1>15. ASSUME NEW x \in Comp, Unpack(x) PROVE Kept
  <2>1. \A y \in Comp \ {x} : tree'[dir(y)] = tree[dir(y)]
                              /\ (dir(y) \notin old' => dir(y) \notin old)
    BY <1>1, <1>8, <1>15 DEF Unpack, Renewed, TypeOK
  <2>2. tree'[dir(x)] # Nothing /\ dir(x) \notin old' => tree'[dir(x)] = pin(x)
    BY <1>1, <1>7, <1>8, <1>15 DEF Unpack, Verified, TypeOK
  <2>3. QED
    BY <1>4, <1>7, <1>15, <2>1, <2>2 DEF Unpack
<1>16. ASSUME NEW x \in Comp, Clone(x) PROVE Kept
  <2>1. \A y \in Comp \ {x} : tree'[dir(y)] = tree[dir(y)]
                              /\ (dir(y) \notin old' => dir(y) \notin old)
    BY <1>1, <1>8, <1>16 DEF Clone, Renewed, TypeOK
  <2>2. tree'[dir(x)] # Nothing => tree'[dir(x)] = pin(x)
    BY <1>1, <1>8, <1>16 DEF Clone, Verified, TypeOK
  <2>3. QED
    BY <1>4, <1>7, <1>16, <2>1, <2>2 DEF Clone
<1>17. CASE Configure \/ BuildPostgres
  <2>1. pc = "make" /\ \A y \in Comp : dir(y) \notin old' => dir(y) \notin old
    BY <1>8, <1>17 DEF Configure, BuildPostgres, Renewed
  <2>2. /\ pc' \in {"make", "idle"} /\ UNCHANGED <<config, stamp, inst, from, made, tree, cut>>
        /\ status' \in {status, config, Nothing} /\ build' \in {build, status}
    BY <1>17 DEF Configure, BuildPostgres
  <2>3. QED
    BY <1>4, <1>7, <2>1, <2>2
<1>18. ASSUME NEW x \in Comp, pc = "make", pc' \in {"make", "idle"}, InstallOf(x), TreeReady(x),
              x = Postgres => BuildReady,
              UNCHANGED <<config, stamp, tree, status, build, cut>>,
              NEW dependents, Renewed(x, dependents)
       PROVE  Kept
  <2>1. RunIsOnStamp'
    BY <1>1, <1>18 DEF RunIsOnStamp, Tested
  <2>2. \A y \in Comp : dir(y) \notin old' => dir(y) \notin old
    BY <1>8, <1>18 DEF Renewed
  <2>3. SourcesOfStamp'
    BY <1>1, <1>2, <1>18, <2>2 DEF SourcesOfStamp, dir
  <2>4. /\ made'[x] = config /\ from'[x] = Pin[config][x]
        /\ \A y \in Comp \ {x} : /\ inst'[y] = inst[y]
                                 /\ made'[y] = made[y]
                                 /\ from'[y] = from[y]
    BY <1>18, InstalledFromPin
  <2>5. PrefixOfStamp' /\ VerifiedSourcesOnly'
    BY <1>1, <1>2, <1>18, <2>4 DEF PrefixOfStamp, VerifiedSourcesOnly
  <2>6. QED
    BY <2>1, <2>3, <2>5
<1>19. CASE InstallPostgres
  <2>1. Postgres \in Comp /\ TreeReady(Postgres)
    BY <1>19 DEF InstallPostgres, BuildReady, StatusReady, Comp
  <2>2. CASE InstallOf(Postgres) /\ Renewed(Postgres, {e \in Ext : Installed(e)})
    <3>1. pc' \in {"make", "idle"}
      BY <1>1, <1>19, <2>1, <2>2, InstallTypes DEF InstallPostgres
    <3>2. QED
      BY <1>18, <1>19, <2>1, <2>2, <3>1 DEF InstallPostgres
  <2>3. CASE pc' = "idle" /\ UNCHANGED <<inst, from, made, old>>
    <3>1. RunIsOnStamp'
      BY <2>3 DEF RunIsOnStamp, Tested
    <3>2. QED
      BY <1>3, <1>19, <2>3, <3>1 DEF InstallPostgres
  <2>4. QED
    BY <1>19, <2>2, <2>3 DEF InstallPostgres
<1>20. ASSUME NEW x \in Comp, InstallExtension(x) PROVE Kept
  <2>1. pc' \in {"make", "idle"}
    BY <1>1, <1>20, InstallTypes DEF InstallExtension
  <2>2. QED
    BY <1>18, <1>20, <2>1 DEF InstallExtension
<1>21. CASE Finish
  BY <1>2, <1>3, <1>21 DEF Finish, RunIsOnStamp, Tested
<1>22. CASE Relativize
  <2>1. RunIsOnStamp'
    BY <1>1, <1>22 DEF Relativize, RunIsOnStamp, Tested
  <2>2. \A x \in Comp : inst'[x] > 0 => inst[x] > 0
    BY <1>1, <1>22 DEF Relativize, Installed, TypeOK, Levels, Target, Partial
  <2>3. PrefixOfStamp' /\ VerifiedSourcesOnly'
    BY <1>1, <1>22, <2>2 DEF Relativize, PrefixOfStamp, VerifiedSourcesOnly
  <2>4. SourcesOfStamp'
    BY <1>1, <1>22 DEF Relativize, SourcesOfStamp
  <2>5. QED
    BY <2>1, <2>3, <2>4
<1>23. CASE BeginMetadata \/ GenerateMetadata \/ Mark
  <2>1. RunIsOnStamp'
    BY <1>1, <1>23 DEF BeginMetadata, GenerateMetadata, Mark, RunIsOnStamp, Tested
  <2>2. QED
    BY <1>3, <1>23, <2>1 DEF BeginMetadata, GenerateMetadata, Mark
<1>24. CASE Abort \/ StartClean
  <2>1. RunIsOnStamp'
    BY <1>24 DEF Abort, StartClean, RunIsOnStamp, Tested
  <2>2. QED
    BY <1>3, <1>24, <2>1 DEF Abort, StartClean
<1>25. CASE Clean
  <2>1. RunIsOnStamp'
    BY <1>25 DEF Clean, RunIsOnStamp, Tested
  <2>2. SourcesOfStamp'
    BY <1>25 DEF Clean, SourcesOfStamp
  <2>3. PrefixOfStamp' /\ VerifiedSourcesOnly'
    BY <1>5, <1>6, <1>25 DEF Clean
  <2>4. QED
    BY <2>1, <2>2, <2>3
<1>26. QED
  BY <1>9, <1>10, <1>11, <1>12, <1>13, <1>14, <1>15, <1>16, <1>17, <1>19, <1>20, <1>21,
     <1>22, <1>23, <1>24, <1>25 DEF Next, Recipe

LEMMA StampInvariant ==
    ASSUME Careless = FALSE
    PROVE  Spec => []StampInv
  BY StampInit, StampStep, PTL DEF Spec

\* Whatever earlier runs and edits left: when targets are tested, the prefix,
\* the trees that make takes for ready and the build belong to the stamp, and
\* that is the configuration.
THEOREM PrefixIsOfStamp ==
    ASSUME Careless = FALSE
    PROVE  Spec => []PrefixMatchesStamp
<1>1. StampInv => PrefixMatchesStamp
  <2> SUFFICES ASSUME StampInv, Tested
               PROVE  /\ stamp = config
                      /\ \A x \in Comp : inst[x] > 0 => made[x] = stamp
                      /\ \A x \in Comp : TreeReady(x) => tree[dir(x)] = pin(x)
                      /\ BuildReady => build = stamp
    BY DEF PrefixMatchesStamp
  <2>1. stamp = config /\ ~cut /\ stamp # Nothing
    BY ComponentAssumption DEF StampInv, RunIsOnStamp, TypeOK
  <2>2. QED
    BY <2>1, ReadyIsPinned DEF StampInv, PrefixOfStamp, SourcesOfStamp, BuildReady
<1>2. QED
  BY <1>1, StampInvariant, PTL

\* Nothing gets into the prefix that was not built from the pinned source of the
\* configuration it was built for.
THEOREM SourcesAreVerified ==
    ASSUME Careless = FALSE
    PROVE  Spec => []VerifiedSourcesOnly
<1>1. StampInv => VerifiedSourcesOnly
  BY DEF StampInv
<1>2. QED
  BY <1>1, StampInvariant, PTL

-----------------------------------------------------------------------------
\* The completion marker.

\* make's view of a target, under the configuration c.
TreeReadyOf(c, x) ==
    /\ x \in Archived => archive[Dir[c][x]] # Nothing
    /\ tree[Dir[c][x]] # Nothing
    /\ Dir[c][x] \notin old
PostgresReadyOf(c) ==
    /\ TreeReadyOf(c, Postgres)
    /\ status # Nothing
    /\ Status \notin old
    /\ build # Nothing
    /\ Build \notin old
    /\ Installed(Postgres)
    /\ Postgres \notin old
UpToDateOf(c, x) ==
    /\ PostgresReadyOf(c)
    /\ x # Postgres => TreeReadyOf(c, x) /\ Installed(x) /\ x \notin old

Chosen(c) == {Postgres} \cup Selects[c]

\* A marked prefix holds its release, and all of that is up to date, so that no
\* recipe touches it again under this stamp.
MarkedIsSettled ==
    marker /\ ~cut =>
        /\ stamp \in Configs /\ metadata = stamp
        /\ \A x \in Chosen(stamp) : UpToDateOf(stamp, x) /\ Finished(x)

\* A release build of a prefix without marker began with an empty one: what is
\* there was installed to the end and linked in time.
FreshPrefix ==
    pc = "make" /\ goal = "all" /\ ~marker =>
        \A x \in Comp : inst[x] > 0 =>
            inst[x] = Whole /\ x \notin relative \cup unfit \cup leaked

FinishedPrefix ==
    pc \in {"metadata", "generate", "mark"} =>
        /\ goal = "all"
        /\ \A x \in Chosen(config) : UpToDateOf(config, x) /\ Finished(x)
        /\ pc # "metadata" => ~marker
        /\ pc = "mark" => metadata = config /\ Described

ReleaseInv ==
    /\ StampInv
    /\ MarkedIsSettled
    /\ FreshPrefix
    /\ FinishedPrefix

LEMMA UpToDateIs ==
    ASSUME NEW x
    PROVE  /\ UpToDate(x) <=> UpToDateOf(config, x)
           /\ TreeReady(x) <=> TreeReadyOf(config, x)
           /\ PostgresReady <=> PostgresReadyOf(config)
  BY DEF UpToDate, UpToDateOf, TreeReady, TreeReadyOf, PostgresReady, PostgresReadyOf,
     BuildReady, StatusReady, dir

\* What is up to date is installed.
LEMMA UpToDateIsInstalled ==
    ASSUME TypeOK, NEW c, NEW x \in Comp, UpToDateOf(c, x)
    PROVE  inst[x] \in Nat /\ inst[x] >= 2 /\ Installed(x) /\ Installed(Postgres)
<1>1. Installed(x) /\ Installed(Postgres)
  BY DEF UpToDateOf, PostgresReadyOf
<1>2. QED
  BY <1>1 DEF Installed, Target, TypeOK, Levels

LEMMA ChosenAreComponents ==
    ASSUME NEW c \in Configs
    PROVE  /\ Chosen(c) \subseteq Comp /\ Postgres \in Chosen(c)
           /\ Postgres \in Comp /\ Postgres \notin Ext
  BY ComponentAssumption DEF Chosen, Comp

\* What a settled prefix stands on: the step leaves its own files alone.
LEMMA SettledStays ==
    ASSUME MarkedIsSettled, marker, ~cut,
           UNCHANGED <<stamp, metadata, status, build>>,
           Status \in old' => Status \in old,
           Build \in old' => Build \in old,
           \A x \in Chosen(stamp) :
              /\ archive'[Dir[stamp][x]] = archive[Dir[stamp][x]]
              /\ tree'[Dir[stamp][x]] = tree[Dir[stamp][x]]
              /\ Dir[stamp][x] \in old' => Dir[stamp][x] \in old
              /\ x \in old' => x \in old
              /\ Installed(x) => Installed(x)'
              /\ Finished(x) => Finished(x)'
    PROVE  MarkedIsSettled'
<1>1. stamp \in Configs /\ Postgres \in Chosen(stamp)
  BY ChosenAreComponents DEF MarkedIsSettled
<1>2. \A x \in Chosen(stamp) : TreeReadyOf(stamp, x) => TreeReadyOf(stamp, x)'
  BY DEF TreeReadyOf
<1>3. \A x \in Chosen(stamp) : UpToDateOf(stamp, x) => UpToDateOf(stamp, x)'
  BY <1>1, <1>2 DEF UpToDateOf, PostgresReadyOf, MarkedIsSettled
<1>4. Chosen(stamp)' = Chosen(stamp)
  BY DEF Chosen
<1>5. QED
  BY <1>3, <1>4 DEF MarkedIsSettled

\* Whose recipe runs on a marked prefix is not of the release.
LEMMA SettledIsDone ==
    ASSUME StampInv, MarkedIsSettled, marker, Tested
    PROVE  /\ stamp = config /\ ~cut /\ config \in Configs
           /\ \A x \in Chosen(config) : UpToDate(x) /\ TreeReady(x)
           /\ PostgresReady /\ BuildReady
           /\ \A x \in Comp, y \in Chosen(config) : x \notin Chosen(config) =>
                 /\ x # y /\ Dir[config][x] # Dir[config][y]
                 /\ Dir[config][x] \notin {Build, Status} /\ Dir[config][x] # y
                 /\ Dir[config][y] # x /\ x \notin {Build, Status} /\ x # Postgres
<1>1. stamp = config /\ ~cut /\ config \in Configs
  BY DEF StampInv, RunIsOnStamp, TypeOK
<1>2. \A x \in Chosen(config) : UpToDateOf(config, x)
  BY <1>1 DEF MarkedIsSettled
<1>3. Postgres \in Chosen(config) /\ Chosen(config) \subseteq Comp
  BY <1>1, ChosenAreComponents
<1>4. \A x \in Chosen(config) : UpToDate(x)
  BY <1>2, UpToDateIs
<1>5. PostgresReady /\ BuildReady /\ TreeReady(Postgres)
  BY <1>3, <1>4 DEF UpToDate, PostgresReady, BuildReady, StatusReady
<1>6. \A x \in Chosen(config) : TreeReady(x)
  BY <1>4, <1>5 DEF UpToDate
<1>7. ASSUME NEW x \in Comp, NEW y \in Chosen(config), x \notin Chosen(config)
      PROVE  /\ x # y /\ Dir[config][x] # Dir[config][y]
             /\ Dir[config][x] \notin {Build, Status} /\ Dir[config][x] # y
             /\ Dir[config][y] # x /\ x \notin {Build, Status} /\ x # Postgres
  BY <1>1, <1>3, <1>7, NamesAreNames, NameAssumption
<1>8. QED
  BY <1>1, <1>4, <1>5, <1>6, <1>7

LEMMA ReleaseInit == Init => ReleaseInv
  BY StampInit DEF Init, ReleaseInv, MarkedIsSettled, FreshPrefix,
     FinishedPrefix

\* The marker only comes with the last recipe.
LEMMA OnlyMarkMarks ==
    ASSUME TypeOK, [Next]_vars, ~marker, marker'
    PROVE  Mark
<1> USE DEF prefixVars, sourceVars, buildVars
<1>1. ~UNCHANGED marker
  OBVIOUS
<1>2. ~PrefixRemoved /\ ~PrefixPartlyRemoved
  BY DEF PrefixRemoved, PrefixPartlyRemoved
<1>3. ~SameStamp /\ ~ChangedStamp /\ ~Clean
  BY <1>1, <1>2 DEF SameStamp, ChangedStamp, Clean
<1>4. \A x \in Comp : ~FetchArchive(x) /\ ~Unpack(x) /\ ~Clone(x) /\ ~InstallExtension(x)
  BY <1>1 DEF FetchArchive, Unpack, Clone, InstallExtension
<1>5. ~Configure /\ ~BuildPostgres /\ ~InstallPostgres /\ ~Finish /\ ~Relativize
  BY <1>1 DEF Configure, BuildPostgres, InstallPostgres, Finish, Relativize
<1>6. ~BeginMetadata /\ ~GenerateMetadata /\ ~Abort /\ ~StartClean
  BY <1>1 DEF BeginMetadata, GenerateMetadata, Abort, StartClean
<1>7. /\ \A g \in Goals : ~Start(g)
      /\ \A c \in Configs : ~Reconfigure(c)
  BY <1>1 DEF Start, Reconfigure
<1>8. QED
  BY <1>1, <1>3, <1>4, <1>5, <1>6, <1>7 DEF Next, Recipe, vars

LEMMA SettledStep ==
    ASSUME Careless = FALSE
    PROVE  ReleaseInv /\ [Next]_vars => MarkedIsSettled'
<1> SUFFICES ASSUME ReleaseInv, [Next]_vars, marker', ~cut' PROVE MarkedIsSettled'
  BY DEF MarkedIsSettled
<1> USE DEF prefixVars, sourceVars, buildVars, Stop
<1>1. StampInv /\ TypeOK /\ MarkedIsSettled /\ FinishedPrefix
  BY DEF ReleaseInv, StampInv
<1>2. CASE ~marker
  <2>1. Mark
    BY <1>1, <1>2, OnlyMarkMarks
  <2>2. stamp = config /\ config \in Configs
    BY <1>1, <2>1 DEF Mark, StampInv, RunIsOnStamp, Tested, TypeOK
  <2>3. /\ metadata = config
        /\ \A x \in Chosen(config) : UpToDateOf(config, x) /\ Finished(x)
    BY <1>1, <2>1 DEF Mark, FinishedPrefix
  <2>4. \A x : /\ UpToDateOf(config, x)' <=> UpToDateOf(config, x)
               /\ Finished(x)' <=> Finished(x)
    BY <2>1 DEF Mark, UpToDateOf, PostgresReadyOf, TreeReadyOf, Installed, Finished
  <2>5. QED
    BY <2>1, <2>2, <2>3, <2>4 DEF Mark, MarkedIsSettled, Chosen
<1>3. CASE marker /\ cut
  \* Only a removal that is run to its end clears cut, and the marker with it.
  BY <1>3, <1>1 DEF Next, Recipe, vars, Start, Reconfigure, SameStamp, ChangedStamp,
     FetchArchive, Unpack, Clone, InstallExtension, Configure, BuildPostgres,
     InstallPostgres, Finish, Relativize, BeginMetadata, GenerateMetadata, Mark, Clean, Abort, StartClean,
     PrefixRemoved, StampInv, RunIsOnStamp, Tested
<1>4. CASE marker /\ ~cut
  <2> DEFINE chosen == Chosen(stamp)
  <2>1. /\ stamp \in Configs /\ metadata = stamp /\ stamp # Nothing
        /\ chosen \subseteq Comp /\ Postgres \in chosen
        /\ \A x \in chosen : UpToDateOf(stamp, x) /\ Finished(x)
    BY <1>1, <1>4, ChosenAreComponents, ComponentAssumption DEF MarkedIsSettled
  <2>2. ASSUME UNCHANGED <<stamp, inst, relative, unfit, leaked, metadata, archive, tree,
                           status, build, old>>
        PROVE  MarkedIsSettled'
    <3>1. \A x : (Installed(x)' <=> Installed(x)) /\ (Finished(x)' <=> Finished(x))
      BY <2>2 DEF Installed, Finished
    <3>2. QED
      BY <1>1, <1>4, <2>1, <2>2, <3>1, SettledStays
  <2>3. Tested => /\ stamp = config /\ ~cut /\ config \in Configs
                  /\ \A x \in Chosen(config) : UpToDate(x) /\ TreeReady(x)
                  /\ PostgresReady /\ BuildReady
                  /\ \A x \in Comp, y \in Chosen(config) : x \notin Chosen(config) =>
                        /\ x # y /\ Dir[config][x] # Dir[config][y]
                        /\ Dir[config][x] \notin {Build, Status} /\ Dir[config][x] # y
                        /\ Dir[config][y] # x /\ x \notin {Build, Status} /\ x # Postgres
    BY <1>1, <1>4, SettledIsDone
  <2>4. CASE SameStamp
    <3>1. KeepPrefix
      BY <1>1, <1>4, <2>1 DEF KeepPrefix, Finished, TypeOK
    <3>2. QED
      BY <2>2, <2>4, <3>1 DEF SameStamp
  <2>5. CASE ChangedStamp \/ Clean
    BY <2>5 DEF ChangedStamp, Clean, PrefixRemoved
  <2>6. ASSUME NEW x \in Comp, FetchArchive(x) PROVE MarkedIsSettled'
    <3>1. Tested
      BY <2>6 DEF FetchArchive, Tested
    <3>2. x \notin chosen
      BY <2>3, <2>6, <3>1 DEF FetchArchive, TreeReady
    <3>3. \A y \in chosen : dir(y) # dir(x) /\ y # dir(x)
      BY <2>3, <3>1, <3>2 DEF dir
    <3>4. dir(x) \notin {Build, Status} /\ UNCHANGED <<inst, relative, unfit, leaked>>
      BY <2>3, <2>6, <3>1, NamesAreNames DEF dir, FetchArchive
    <3>5. \A y \in chosen : dir(y) = Dir[stamp][y] /\ dir(y) \in Names
      BY <2>1, <2>3, <3>1, NamesAreNames DEF dir
    <3>6. /\ \A y \in chosen : archive'[dir(y)] = archive[dir(y)]
          /\ old' \subseteq old \cup {dir(x)}
      BY <1>1, <2>6, <3>3, <3>5 DEF FetchArchive, Renewed, TypeOK
    <3>7. QED
      BY <1>1, <1>4, <2>1, <2>6, <3>3, <3>4, <3>5, <3>6, SettledStays
         DEF FetchArchive, Installed, Finished
  <2>7. ASSUME NEW x \in Comp, Unpack(x) \/ Clone(x) PROVE MarkedIsSettled'
    <3>1. Tested
      BY <2>7 DEF Unpack, Clone, Tested
    <3>2. x \notin chosen
      BY <2>3, <2>7, <3>1 DEF Unpack, Clone
    <3>3. \A y \in chosen : dir(y) # dir(x) /\ y # x
      BY <2>3, <3>1, <3>2 DEF dir
    <3>4. x \notin {Build, Status} /\ x # Postgres /\ UNCHANGED <<inst, relative, unfit, leaked>>
      BY <2>1, <2>3, <2>7, <3>1, <3>2 DEF Unpack, Clone
    <3>5. \A y \in chosen : dir(y) = Dir[stamp][y] /\ dir(y) \in Names /\ dir(y) # x
      BY <2>1, <2>3, <3>1, <3>2, NamesAreNames DEF dir
    <3>6. /\ \A y \in chosen : tree'[dir(y)] = tree[dir(y)]
          /\ old' \subseteq old \cup {x}
      BY <1>1, <2>7, <3>3, <3>4, <3>5 DEF Unpack, Clone, Renewed, BuiltFromTree, TypeOK
    <3>7. QED
      BY <1>1, <1>4, <2>1, <2>7, <3>3, <3>4, <3>5, <3>6, SettledStays
         DEF Unpack, Clone, Installed, Finished
  <2>8. ASSUME NEW x \in Comp, InstallExtension(x) PROVE MarkedIsSettled'
    <3>1. Tested
      BY <2>8 DEF InstallExtension, Tested
    <3>2. x \notin chosen
      BY <2>3, <2>8, <3>1 DEF InstallExtension
    <3>3. \A y \in chosen : y # x /\ inst'[y] = inst[y]
      BY <1>1, <2>1, <2>8, <3>2 DEF InstallExtension, InstallOf, TypeOK
    <3>4. /\ old' \subseteq old
          /\ relative' = relative \ {x} /\ unfit' = unfit \ {x}
          /\ leaked' \subseteq leaked \cup {x}
      BY <2>8 DEF InstallExtension, InstallOf, Renewed
    <3>5. \A y \in chosen : (Installed(y) => Installed(y)') /\ (Finished(y) => Finished(y)')
      BY <3>3, <3>4 DEF Installed, Finished
    <3>6. QED
      BY <1>1, <1>4, <2>1, <2>8, <3>4, <3>5, SettledStays DEF InstallExtension
  <2>9. ~Configure /\ ~BuildPostgres /\ ~InstallPostgres
    BY <2>3 DEF BuildReady, Configure, BuildPostgres, InstallPostgres, Tested
  <2>10. CASE Relativize
    <3>1. ASSUME NEW y \in chosen PROVE Installed(y)' /\ Finished(y)'
      <4>1. y \in Comp /\ Installed(y) /\ inst[y] \in 0..4 /\ inst[y] >= 3 /\ Finished(y)
        BY <1>1, <2>1, UpToDateIsInstalled DEF Finished, Partial, TypeOK, Levels
      <4>2. inst'[y] = inst[y] \/ (inst[y] = Whole /\ inst'[y] = Partial /\ y \notin relative')
        BY <1>1, <2>10, <4>1, RelativizeIs
      <4>3. y \in unfit' \/ (y \in relative' /\ inst[y] = Whole)
        BY <1>1, <2>10, <4>1, RelativizeIs DEF Finished
      <4>4. y \notin leaked' /\ inst'[y] >= 3
        BY <2>10, <4>1, <4>2 DEF Relativize, Finished, Partial
      <4>5. inst'[y] \in 0..4 /\ (y \in relative' /\ inst[y] = Whole => inst'[y] = Whole)
        BY <4>1, <4>2 DEF Partial
      <4>6. QED
        BY <4>3, <4>4, <4>5 DEF Installed, Finished, Target, Partial
    <3>2. QED
      BY <1>1, <1>4, <2>1, <2>10, <3>1, SettledStays DEF Relativize
  <2>11. ~BeginMetadata /\ ~Mark /\ ~GenerateMetadata
    BY <1>1, <1>4 DEF BeginMetadata, Mark, GenerateMetadata, FinishedPrefix
  <2>12. CASE Finish \/ Abort \/ StartClean \/ UNCHANGED vars
    BY <2>2, <2>12 DEF Finish, Abort, StartClean, vars
  <2>13. CASE (\E g \in Goals : Start(g)) \/ (\E c \in Configs : Reconfigure(c))
    BY <2>2, <2>13 DEF Start, Reconfigure
  <2>14. QED
    BY <2>4, <2>5, <2>6, <2>7, <2>8, <2>9, <2>10, <2>11, <2>12, <2>13 DEF Next, Recipe
<1>5. QED
  BY <1>2, <1>3, <1>4

\* Into a prefix that was empty, or cleared, whole components are installed.
LEMMA FreshStep ==
    ASSUME Careless = FALSE
    PROVE  ReleaseInv /\ [Next]_vars => FreshPrefix'
<1> SUFFICES ASSUME ReleaseInv, [Next]_vars, pc' = "make", goal' = "all", ~marker',
                    NEW x \in Comp, inst'[x] > 0
             PROVE  inst'[x] = Whole /\ x \notin relative' \cup unfit' \cup leaked'
  BY DEF FreshPrefix
<1> DEFINE Goal == inst'[x] = Whole /\ x \notin relative' \cup unfit' \cup leaked'
<1> USE DEF prefixVars, sourceVars, buildVars, Stop
<1>1. StampInv /\ TypeOK /\ FreshPrefix
  BY DEF ReleaseInv, StampInv
<1>2. ASSUME UNCHANGED <<inst, relative, unfit, leaked, pc, goal, marker>> PROVE Goal
  BY <1>1, <1>2 DEF FreshPrefix
<1>3. ~PrefixRemoved
  BY DEF PrefixRemoved
<1>4. ~SameStamp
  <2> SUFFICES ASSUME SameStamp PROVE FALSE
    OBVIOUS
  <2>1. goal = "all" /\ ~(PrefixExists /\ ~KeepPrefix) /\ UNCHANGED <<inst, marker>>
    BY <1>3 DEF SameStamp
  <2>2. PrefixExists /\ ~marker
    BY <2>1 DEF PrefixExists
  <2>3. QED
    BY <2>1, <2>2 DEF KeepPrefix
<1>5. ~ChangedStamp
  BY <1>3 DEF ChangedStamp
<1>6. ASSUME NEW y \in Comp, InstallOf(y), pc = "make", TreeReady(y), goal = "all", ~marker,
             leaked' \subseteq leaked \cup {y}, y \notin leaked'
      PROVE  Goal
  <2>1. tree[dir(y)] # Broken
    <3>1. tree[dir(y)] = pin(y)
      BY <1>1, <1>6, ReadyIsPinned DEF Tested
    <3>2. QED
      BY <1>1, <3>1, NamesAreNames DEF pin, TypeOK
  <2>2. /\ inst' = [inst EXCEPT ![y] = Whole]
        /\ relative' = relative \ {y} /\ unfit' = unfit \ {y}
    BY <1>6, <2>1 DEF InstallOf
  <2>3. QED
    BY <1>1, <1>6, <2>2 DEF FreshPrefix, TypeOK
<1>7. CASE InstallPostgres
  <2>1. Postgres \in Comp /\ TreeReady(Postgres) /\ Postgres \notin leaked
    BY <1>1, <1>7, ComponentAssumption DEF InstallPostgres, BuildReady, StatusReady, Comp,
       TypeOK
  <2>2. QED
    BY <1>6, <1>7, <2>1 DEF InstallPostgres
<1>8. ASSUME NEW y \in Comp, InstallExtension(y) PROVE Goal
  <2>1. goal = "all" /\ ~marker /\ pc = "make" /\ Postgres \in Comp
    BY <1>8 DEF InstallExtension, Comp
  <2>2. inst[Postgres] > 0
    BY <1>1, <1>8, <2>1 DEF InstallExtension, PostgresReady, Installed, Target,
       TypeOK, Levels
  <2>3. Postgres \notin relative \cup unfit
    BY <1>1, <2>1, <2>2 DEF FreshPrefix
  <2>4. leaked' = leaked \ {y}
    BY <1>8, <2>3 DEF InstallExtension
  <2>5. QED
    BY <1>6, <1>8, <2>1, <2>4 DEF InstallExtension
<1>9. CASE \E y \in Comp : FetchArchive(y) \/ Unpack(y) \/ Clone(y)
  BY <1>2, <1>9 DEF FetchArchive, Unpack, Clone
<1>10. CASE Configure \/ BuildPostgres \/ UNCHANGED vars
  BY <1>2, <1>10 DEF Configure, BuildPostgres, vars
<1>11. CASE Finish \/ Relativize \/ BeginMetadata \/ GenerateMetadata \/ Mark \/ Clean \/ Abort
            \/ StartClean
  BY <1>11 DEF Finish, Relativize, BeginMetadata, GenerateMetadata, Mark, Clean, Abort,
     StartClean
<1>12. CASE (\E g \in Goals : Start(g)) \/ (\E c \in Configs : Reconfigure(c))
  BY <1>12 DEF Start, Reconfigure
<1>13. QED
  BY <1>4, <1>5, <1>7, <1>8, <1>9, <1>10, <1>11, <1>12 DEF Next, Recipe

LEMMA FinishedStep ==
    ASSUME Careless = FALSE
    PROVE  ReleaseInv /\ [Next]_vars => FinishedPrefix'
<1> SUFFICES ASSUME ReleaseInv, [Next]_vars, pc' \in {"metadata", "generate", "mark"}
             PROVE  FinishedPrefix'
  BY DEF FinishedPrefix
<1> USE DEF prefixVars, sourceVars, buildVars, Stop
<1>1. StampInv /\ TypeOK /\ FreshPrefix /\ FinishedPrefix /\ MarkedIsSettled
  BY DEF ReleaseInv, StampInv
<1>2. ASSUME UNCHANGED <<config, archive, tree, status, build, old, inst, relative, unfit,
                         leaked>>
      PROVE  /\ \A x : /\ UpToDateOf(config, x)' <=> UpToDateOf(config, x)
                       /\ Finished(x)' <=> Finished(x)
             /\ Chosen(config)' = Chosen(config) /\ Described' <=> Described
  BY <1>2 DEF Finished, UpToDateOf, PostgresReadyOf, TreeReadyOf, Installed, Chosen, Described
<1>3. CASE Relativize
  <2>1. /\ pc = "make" /\ goal = "all" /\ goal' = goal /\ pc' = "metadata"
        /\ UNCHANGED <<config, archive, tree, status, build, old, leaked>>
        /\ InstalledAll
    BY <1>3 DEF Relativize
  <2>2. config \in Configs /\ stamp = config /\ ~cut
    BY <1>1, <2>1 DEF StampInv, RunIsOnStamp, Tested, TypeOK
  <2>3. Required = Chosen(config) /\ Chosen(config) \subseteq Comp
    BY <2>1, <2>2, ChosenAreComponents DEF Required, Chosen
  <2>4. ASSUME NEW x \in Chosen(config)
        PROVE  /\ UpToDateOf(config, x) /\ inst[x] \in 0..4 /\ Installed(x) /\ x \in Comp
               /\ inst[x] >= 3 /\ x \notin leaked /\ (inst[x] # Whole => x \in unfit)
    <3>1. UpToDateOf(config, x) /\ x \in Comp
      BY <2>1, <2>3, <2>4, UpToDateIs DEF InstalledAll
    <3>2. inst[x] \in 0..4 /\ inst[x] > 0 /\ Installed(x)
      BY <1>1, <3>1, UpToDateIsInstalled DEF TypeOK, Levels
    <3>3. inst[x] >= 3 /\ x \notin leaked /\ (inst[x] # Whole => x \in unfit)
      BY <1>1, <2>1, <2>2, <2>4, <3>1, <3>2 DEF FreshPrefix, MarkedIsSettled, Finished, Whole,
         Partial
    <3>4. QED
      BY <3>1, <3>2, <3>3
  <2>5. ASSUME NEW x \in Chosen(config) PROVE Installed(x)' /\ Finished(x)'
    <3>1. inst'[x] = inst[x] \/ (inst[x] = Whole /\ inst'[x] = Partial /\ x \notin relative')
      BY <1>1, <1>3, <2>4, <2>5, RelativizeIs
    <3>2. x \in unfit' \/ (x \in relative' /\ inst[x] = Whole)
      BY <1>1, <1>3, <2>1, <2>4, <2>5, RelativizeIs
    <3>3. /\ inst'[x] \in 0..4 /\ inst'[x] >= 3 /\ x \notin leaked'
          /\ x \in relative' /\ inst[x] = Whole => inst'[x] = Whole
      BY <2>1, <2>4, <2>5, <3>1 DEF Partial
    <3>4. QED
      BY <3>2, <3>3 DEF Installed, Finished, Target, Partial
  <2>6. \A x \in Chosen(config) : UpToDateOf(config, x)'
    <3>1. Postgres \in Chosen(config)
      BY <2>2, ChosenAreComponents
    <3>2. QED
      BY <2>1, <2>4, <2>5, <3>1 DEF UpToDateOf, PostgresReadyOf, TreeReadyOf
  <2>7. QED
    BY <2>1, <2>5, <2>6 DEF FinishedPrefix, Chosen
<1>4. CASE BeginMetadata
  BY <1>1, <1>2, <1>4 DEF BeginMetadata, FinishedPrefix
<1>5. CASE GenerateMetadata
  BY <1>1, <1>2, <1>5 DEF GenerateMetadata, FinishedPrefix
<1>6. CASE UNCHANGED vars
  BY <1>1, <1>2, <1>6 DEF vars, FinishedPrefix
<1>7. CASE SameStamp \/ ChangedStamp \/ Configure \/ BuildPostgres \/ InstallPostgres
           \/ Finish \/ Mark \/ Clean \/ Abort \/ StartClean
  BY <1>7 DEF SameStamp, ChangedStamp, Configure, BuildPostgres, InstallPostgres, InstallOf,
     Finish, Mark,
     Clean, Abort, StartClean
<1>8. CASE \E x \in Comp : FetchArchive(x) \/ Unpack(x) \/ Clone(x) \/ InstallExtension(x)
  BY <1>8 DEF FetchArchive, Unpack, Clone, InstallExtension, InstallOf
<1>9. CASE (\E g \in Goals : Start(g)) \/ (\E c \in Configs : Reconfigure(c))
  BY <1>9 DEF Start, Reconfigure
<1>10. QED
  BY <1>3, <1>4, <1>5, <1>6, <1>7, <1>8, <1>9 DEF Next, Recipe

LEMMA ReleaseStep ==
    ASSUME Careless = FALSE
    PROVE  ReleaseInv /\ [Next]_vars => ReleaseInv'
  BY StampStep, SettledStep, FreshStep, FinishedStep DEF ReleaseInv

LEMMA ReleaseInvariant ==
    ASSUME Careless = FALSE
    PROVE  Spec => []ReleaseInv
  BY ReleaseStep, ReleaseInit, PTL DEF Spec

LEMMA FinishedIsMade ==
    ASSUME StampInv, stamp \in Configs, NEW x \in Chosen(stamp), Finished(x)
    PROVE  made[x] = stamp /\ from[x] = Pin[stamp][x]
<1>1. x \in Comp /\ inst[x] > 0
  BY ChosenAreComponents DEF Finished, Partial, StampInv, TypeOK, Levels
<1>2. QED
  BY <1>1 DEF StampInv, PrefixOfStamp, VerifiedSourcesOnly

\* A prefix that is marked and has passed the stamp's recipe holds its release,
\* but for files on which a tool of relativize failed unnoticed, for any goals,
\* unselected extensions among them, and any interruptions.
THEOREM MarkedIsTrue ==
    ASSUME Careless = FALSE
    PROVE  Spec => []MarkedIsReleased
<1>1. ReleaseInv => MarkedIsReleased
  <2> SUFFICES ASSUME ReleaseInv, Tested, marker PROVE Released
    BY DEF MarkedIsReleased
  <2>1. ~cut /\ StampInv
    BY DEF ReleaseInv, StampInv, RunIsOnStamp
  <2>2. /\ stamp \in Configs /\ metadata = stamp
        /\ \A x \in Chosen(stamp) : Finished(x)
    BY <2>1 DEF ReleaseInv, MarkedIsSettled
  <2>3. \A x \in Chosen(stamp) : made[x] = stamp /\ from[x] = Pin[stamp][x]
    BY <2>1, <2>2, FinishedIsMade
  <2>4. QED
    BY <2>2, <2>3 DEF Released, Chosen
<1>2. QED
  BY <1>1, ReleaseInvariant, PTL

\* Whenever the marker is written, the prefix is a release, but for files on which
\* a tool failed unnoticed, and nothing else.
THEOREM PublishedIsARelease ==
    ASSUME Careless = FALSE
    PROVE  Spec => PublishedIsComplete
<1>1. ASSUME ReleaseInv, [Next]_vars, ~marker, marker' PROVE Complete'
  <2>1. Mark
    BY <1>1, OnlyMarkMarks DEF ReleaseInv, StampInv
  <2>2. /\ stamp = config /\ config \in Configs /\ StampInv
        /\ metadata = config /\ Described
        /\ \A x \in Chosen(config) : Finished(x)
    BY <1>1, <2>1 DEF Mark, ReleaseInv, StampInv, RunIsOnStamp, Tested, TypeOK,
       FinishedPrefix
  <2>3. \A x \in Chosen(config) : made[x] = stamp /\ from[x] = Pin[stamp][x]
    BY <2>2, FinishedIsMade
  <2>4. Complete
    BY <2>2, <2>3 DEF Complete, Released, Chosen, Described
  <2>5. QED
    BY <2>1, <2>4 DEF Mark, Complete, Released, Finished
<1>2. ReleaseInv /\ [Next]_vars => [~marker /\ marker' => Complete']_vars
  BY <1>1
<1>3. QED
  BY <1>2, ReleaseInvariant, PTL DEF Spec, PublishedIsComplete

NoneUnfit == unfit = {}

LEMMA NothingUnfit ==
    ASSUME ToolsFail = FALSE
    PROVE  Spec => []NoneUnfit
<1> USE DEF prefixVars, sourceVars, buildVars
<1>1. Init => NoneUnfit
  BY DEF Init, NoneUnfit
<1>2. NoneUnfit /\ [Next]_vars => NoneUnfit'
  <2> SUFFICES ASSUME unfit = {}, [Next]_vars PROVE unfit' = {}
    BY DEF NoneUnfit
  <2>1. CASE SameStamp \/ ChangedStamp \/ Clean
    BY <2>1 DEF SameStamp, ChangedStamp, Clean, PrefixRemoved, PrefixPartlyRemoved
  <2>2. CASE \E x \in Comp : FetchArchive(x) \/ Unpack(x) \/ Clone(x) \/ InstallExtension(x)
    BY <2>2 DEF FetchArchive, Unpack, Clone, InstallExtension, InstallOf
  <2>3. CASE Configure \/ BuildPostgres \/ InstallPostgres \/ Finish
    BY <2>3 DEF Configure, BuildPostgres, InstallPostgres, InstallOf, Finish
  <2>4. CASE Relativize
    BY <2>4 DEF Relativize
  <2>5. CASE BeginMetadata \/ GenerateMetadata \/ Mark \/ Abort \/ StartClean \/ UNCHANGED vars
    BY <2>5 DEF BeginMetadata, GenerateMetadata, Mark, Abort, StartClean, vars
  <2>6. CASE (\E g \in Goals : Start(g)) \/ (\E c \in Configs : Reconfigure(c))
    BY <2>6 DEF Start, Reconfigure
  <2>7. QED
    BY <2>1, <2>2, <2>3, <2>4, <2>5, <2>6 DEF Next, Recipe
<1>3. QED
  BY <1>1, <1>2, PTL DEF Spec

\* As long as no tool fails unnoticed on a file, all of a marked prefix is there,
\* with library paths that are relative: lines 31, 59, 61, 71, 75, 80 and 86 of the
\* script are the only place where the marker may come to stand on less.
THEOREM FaithfulToolsRelativize ==
    ASSUME Careless = FALSE, ToolsFail = FALSE
    PROVE  Spec => [](Tested /\ marker =>
                        \A x \in Chosen(stamp) : inst[x] = Whole /\ x \in relative)
<1>1. NoneUnfit /\ MarkedIsReleased =>
         (Tested /\ marker => \A x \in Chosen(stamp) : inst[x] = Whole /\ x \in relative)
  BY DEF NoneUnfit, MarkedIsReleased, Released, Finished, Chosen
<1>2. QED
  BY <1>1, NothingUnfit, MarkedIsTrue, PTL

-----------------------------------------------------------------------------
\* BundleBuild implements BundleRelease.

LEMMA PartsAreChosen ==
    ASSUME NEW c \in Configs
    PROVE  [d \in Configs |-> {Postgres} \cup Selects[d]][c] = Chosen(c)
  BY DEF Chosen

\* What is there of a component is of the stamped configuration, or not fit to ship.
LEMMA ContentIs ==
    ASSUME StampInv, NEW x \in Comp
    PROVE  /\ Content[x] \in Configs \cup {Nothing, Broken, Unfit}
           /\ inst[x] = 0 <=> Content[x] = Nothing
           /\ inst[x] # 0 => Content[x] \in {stamp, Broken, Unfit}
           /\ Finished(x) => Content[x] = IF x \in unfit THEN Unfit ELSE stamp
<1>1. inst[x] \in Nat
  BY DEF StampInv, TypeOK, Levels
<1>2. inst[x] # 0 => /\ made[x] = stamp /\ stamp \in Configs
                     /\ from[x] = Pin[made[x]][x]
  BY <1>1 DEF StampInv, PrefixOfStamp, VerifiedSourcesOnly
<1>3. Content[x] = IF inst[x] = 0 THEN Nothing
                   ELSE IF ~Finished(x) \/ from[x] # Pin[made[x]][x] THEN Broken
                   ELSE IF x \in unfit THEN Unfit ELSE made[x]
  BY DEF Content
<1>4. Finished(x) => inst[x] # 0
  BY DEF Finished, Partial
<1>5. Nothing \notin Configs \cup {Broken, Unfit}
  BY ComponentAssumption, NameAssumption
<1>6. QED
  BY <1>2, <1>3, <1>4, <1>5

LEMMA ContentStays ==
    ASSUME NEW x \in Comp, inst'[x] = inst[x], from'[x] = from[x], made'[x] = made[x],
           x \in leaked' <=> x \in leaked, x \in unfit' <=> x \in unfit,
           x \in relative' <=> x \in relative
    PROVE  Content'[x] = Content[x]
<1>1. Finished(x)' <=> Finished(x)
  BY DEF Finished
<1>2. QED
  BY <1>1 DEF Content

LEMMA ContentKept ==
    ASSUME UNCHANGED <<inst, from, made, relative, unfit, leaked>>
    PROVE  Content' = Content
  BY DEF Content, Finished

\* Nothing that BundleRelease sees changes.
LEMMA Unseen ==
    ASSUME UNCHANGED <<config, inst, from, made, relative, unfit, leaked, metadata, marker>>,
           Tested' <=> Tested
    PROVE  UNCHANGED Promise!vars
<1>1. Tested' = Tested
  BY DEF Tested
<1>2. QED
  BY <1>1, ContentKept DEF Promise!vars

LEMMA EndsUnseen ==
    ASSUME UNCHANGED <<config, inst, from, made, relative, unfit, leaked, metadata, marker>>,
           pc' = "idle"
    PROVE  [Promise!Next]_(Promise!vars)
<1>1. Content' = Content
  BY ContentKept
<1>2. Tested' = FALSE
  BY DEF Tested
<1>3. CASE Tested
  BY <1>1, <1>2, <1>3 DEF Promise!Next, Promise!End
<1>4. CASE ~Tested
  BY <1>2, <1>4, Unseen
<1>5. QED
  BY <1>3, <1>4

LEMMA RemovalDecays ==
    ASSUME StampInv, StampInv', PrefixRemoved \/ PrefixPartlyRemoved,
           config' = config, ~Tested, ~Tested'
    PROVE  Promise!Decay
<1>1. ASSUME NEW x \in Comp PROVE Content'[x] \in {Content[x], Broken, Nothing}
  <2>1. CASE inst'[x] = 0
    BY <2>1 DEF Content
  <2>2. CASE inst'[x] # 0
    <3>1. PrefixPartlyRemoved
      BY <2>2 DEF PrefixRemoved
    <3>2. inst[x] \in 0..4 /\ inst'[x] \in 0..4 /\ inst'[x] <= inst[x]
      BY <3>1 DEF StampInv, TypeOK, Levels, PrefixPartlyRemoved
    <3>3. /\ from'[x] = from[x] /\ made'[x] = made[x]
          /\ x \in leaked' <=> x \in leaked
          /\ x \in unfit' <=> x \in unfit
          /\ x \in relative' <=> x \in relative
      BY <2>2, <3>1, <3>2 DEF PrefixPartlyRemoved, Comp, StampInv, TypeOK
    <3>4. Finished(x)' => Finished(x)
      BY <3>2, <3>3 DEF Finished, Partial, Whole
    <3>5. QED
      BY <2>2, <3>2, <3>3, <3>4 DEF Content
  <2>3. QED
    BY <2>1, <2>2
<1>2. Content' \in [Comp -> Configs \cup {Nothing, Broken, Unfit}]
  <2>1. \A x \in Comp : inst'[x] # 0 => made'[x] \in Configs
    BY DEF StampInv, PrefixOfStamp, TypeOK, Levels
  <2>2. QED
    BY <2>1 DEF Content
<1>3. marker' \in {marker, FALSE} /\ metadata' \in {metadata, Nothing}
  BY DEF PrefixRemoved, PrefixPartlyRemoved
<1>4. Tested = FALSE /\ Tested' = FALSE
  BY DEF Tested
<1>5. QED
  BY <1>1, <1>2, <1>3, <1>4 DEF Promise!Decay, Promise!Contents

LEMMA RemovalClears ==
    ASSUME PrefixRemoved, config' = config, ~Tested, Tested'
    PROVE  Promise!Clear
<1>1. Content' = [x \in Comp |-> Nothing]
  BY DEF PrefixRemoved, Content
<1>2. Tested' = TRUE
  BY DEF Tested
<1>3. QED
  BY <1>1, <1>2 DEF PrefixRemoved, Promise!Clear

LEMMA KeptPrefix ==
    ASSUME ReleaseInv, pc = "stamp", stamp = config, pc' = "make",
           UNCHANGED <<config, inst, from, made, relative, unfit, leaked, metadata, marker>>
    PROVE  Promise!Keep
<1>1. StampInv /\ ~cut /\ config \in Configs
  BY DEF ReleaseInv, StampInv, RunIsOnStamp, TypeOK
<1>2. \A x \in Comp : Content[x] \in {config, Nothing, Broken, Unfit}
  BY <1>1, ContentIs
<1>3. ASSUME marker
      PROVE  metadata = config /\ \A x \in Chosen(config) : Content[x] \in {config, Unfit}
  BY <1>1, <1>3, ContentIs, ChosenAreComponents DEF ReleaseInv, MarkedIsSettled
<1>4. Content' = Content /\ Tested = FALSE /\ Tested' = TRUE
  BY ContentKept DEF Tested
<1>5. QED
  BY <1>1, <1>2, <1>3, <1>4, PartsAreChosen DEF Promise!Keep, Promise!Holds

\* A recipe writes files of some components.
LEMMA WritesMake ==
    ASSUME ReleaseInv, StampInv', pc = "make",
           UNCHANGED <<config, stamp, metadata, marker>>,
           \A x \in Comp : inst'[x] = 0 => inst[x] = 0,
           marker => \A x \in Chosen(config) :
                        Content'[x] = Content[x] \/ (Content[x] = Unfit /\ Content'[x] # Broken)
    PROVE  Promise!Next
<1>1. /\ Tested = TRUE /\ stamp = config /\ config \in Configs /\ Tested' \in BOOLEAN
      /\ StampInv
  BY DEF ReleaseInv, StampInv, RunIsOnStamp, Tested, TypeOK
<1> DEFINE S == {x \in Comp : Content'[x] # Content[x]}
<1>2. ASSUME NEW x \in S PROVE Content'[x] \in {config, Broken, Unfit}
  <2>1. inst'[x] # 0
    BY <1>2 DEF Content
  <2>2. made'[x] = config
    BY <1>1, <1>2, <2>1 DEF StampInv, PrefixOfStamp, TypeOK, Levels
  <2>3. QED
    BY <1>2, <2>1, <2>2 DEF Content
<1>3. Content' \in [Comp -> Configs \cup {Nothing, Broken, Unfit}]
  <2>1. \A x \in Comp : inst'[x] # 0 => made'[x] \in Configs
    BY DEF StampInv, PrefixOfStamp, TypeOK, Levels
  <2>2. QED
    BY <2>1 DEF Content
<1>4. Promise!Make(S)
  BY <1>1, <1>2, <1>3, PartsAreChosen DEF Promise!Make, Promise!Contents
<1>5. QED
  BY <1>4 DEF Promise!Next

\* The whole release is there, and nothing else if it is described.
LEMMA FinishedHolds ==
    ASSUME ReleaseInv, pc \in {"metadata", "generate", "mark"}
    PROVE  /\ Promise!Holds(config)
           /\ Described => Promise!Only(config)
           /\ stamp = config /\ config \in Configs
<1>1. StampInv /\ stamp = config /\ config \in Configs
  BY DEF ReleaseInv, StampInv, RunIsOnStamp, Tested, TypeOK
<1>2. \A x \in Chosen(config) : Content[x] \in {config, Unfit}
  BY <1>1, ContentIs, ChosenAreComponents DEF ReleaseInv, FinishedPrefix
<1>3. Promise!Holds(config)
  BY <1>1, <1>2, PartsAreChosen DEF Promise!Holds
<1>4. ASSUME Described PROVE Promise!Only(config)
  <2>1. ASSUME NEW x \in Comp, x \notin Chosen(config) PROVE Content[x] = Nothing
    BY <1>1, <1>4, <2>1, ContentIs DEF Described, Chosen, Comp
  <2>2. QED
    BY <1>1, <2>1, PartsAreChosen DEF Promise!Only
<1>5. QED
  BY <1>1, <1>3, <1>4

LEMMA ReleaseDataInit == Init => Promise!Init
<1> SUFFICES ASSUME Init PROVE Promise!Init
  OBVIOUS
<1>1. Content = [x \in Comp |-> Nothing]
  BY DEF Init, Content
<1>2. Tested = FALSE
  BY DEF Init, Tested
<1>3. QED
  BY <1>1, <1>2 DEF Init, Promise!Init

LEMMA ReleaseDataStep ==
    ASSUME ReleaseInv, ReleaseInv', [Next]_vars
    PROVE  [Promise!Next]_(Promise!vars)
<1> DEFINE Kept == [Promise!Next]_(Promise!vars)
<1> USE DEF prefixVars, sourceVars, buildVars, Stop
<1>1. StampInv /\ StampInv' /\ TypeOK
  BY DEF ReleaseInv, StampInv
<1>2. pc = "make" => Tested = TRUE /\ stamp = config /\ config \in Configs
  BY <1>1 DEF StampInv, RunIsOnStamp, Tested, TypeOK
<1>3. CASE UNCHANGED vars
  BY <1>3, Unseen DEF vars, Tested
<1>4. ASSUME NEW g \in Goals, Start(g) PROVE Kept
  BY <1>4, Unseen DEF Start, Tested
<1>5. ASSUME NEW c \in Configs, Reconfigure(c) PROVE Kept
  <2>1. Content' = Content /\ Tested = FALSE /\ Tested' = FALSE
    BY <1>5, ContentKept DEF Reconfigure, Tested
  <2>2. Promise!Edit(c)
    BY <1>5, <2>1 DEF Reconfigure, Promise!Edit
  <2>3. QED
    BY <1>5, <2>2 DEF Promise!Next
<1>6. ASSUME PrefixRemoved \/ PrefixPartlyRemoved, config' = config, ~Tested, ~Tested'
      PROVE  Kept
  BY <1>1, <1>6, RemovalDecays DEF Promise!Next
<1>7. CASE SameStamp
  <2>1. CASE UNCHANGED prefixVars /\ pc' = "make"
    BY <1>7, <2>1, KeptPrefix DEF SameStamp, Promise!Next
  <2>2. CASE PrefixRemoved /\ pc' = "make"
    BY <1>7, <2>2, RemovalClears DEF SameStamp, Tested, Promise!Next
  <2>3. CASE PrefixPartlyRemoved /\ pc' = "idle"
    BY <1>6, <1>7, <2>3 DEF SameStamp, Tested
  <2>4. QED
    BY <1>7, <2>1, <2>2, <2>3 DEF SameStamp
<1>8. CASE ChangedStamp
  <2>1. CASE PrefixRemoved /\ pc' = "make"
    BY <1>8, <2>1, RemovalClears DEF ChangedStamp, Tested, Promise!Next
  <2>2. CASE (PrefixRemoved \/ PrefixPartlyRemoved) /\ pc' = "idle"
    BY <1>6, <1>8, <2>2 DEF ChangedStamp, Tested
  <2>3. QED
    BY <1>8, <2>1, <2>2 DEF ChangedStamp
<1>9. CASE Clean
  BY <1>6, <1>9 DEF Clean, Tested
<1>10. ASSUME UNCHANGED <<config, inst, from, made, relative, unfit, leaked, metadata, marker>>,
              pc' = "idle" \/ (Tested' <=> Tested)
       PROVE  Kept
  BY <1>10, Unseen, EndsUnseen
<1>11. ASSUME NEW x \in Comp, FetchArchive(x) \/ Unpack(x) \/ Clone(x) PROVE Kept
  <2>1. pc' = "idle" \/ pc' = pc
    BY <1>11 DEF FetchArchive, Unpack, Clone
  <2>2. UNCHANGED <<config, inst, from, made, relative, unfit, leaked, metadata, marker>>
    BY <1>11 DEF FetchArchive, Unpack, Clone
  <2>3. QED
    BY <1>10, <2>1, <2>2 DEF Tested
<1>12. CASE Configure \/ BuildPostgres \/ Finish \/ Abort \/ StartClean
  <2>1. pc' = "idle" \/ pc' = pc \/ (pc = "idle" /\ pc' = "clean")
    BY <1>12 DEF Configure, BuildPostgres, Finish, Abort, StartClean
  <2>2. UNCHANGED <<config, inst, from, made, relative, unfit, leaked, metadata, marker>>
    BY <1>12 DEF Configure, BuildPostgres, Finish, Abort, StartClean
  <2>3. QED
    BY <1>10, <2>1, <2>2 DEF Tested
<1>13. ASSUME NEW x \in Comp, InstallOf(x), TreeReady(x), pc = "make",
              x = Postgres => BuildReady,
              \A y \in Comp \ {x} : y \in leaked' <=> y \in leaked,
              UNCHANGED <<config, stamp, metadata, marker>>,
              marker => x \notin Chosen(config)
       PROVE  Kept
  <2> DEFINE new == inst'[x]
  <2>a. relative' = relative \ {x} /\ unfit' = unfit \ {x}
    BY <1>13 DEF InstallOf
  <2>b. inst' = [inst EXCEPT ![x] = new]
    BY <1>1, <1>13 DEF InstallOf, TypeOK
  <2>1. \A y \in Comp \ {x} : /\ y \in relative' <=> y \in relative
                              /\ y \in unfit' <=> y \in unfit
    BY <2>a
  <2>2. \A y \in Comp \ {x} : inst'[y] = inst[y] /\ Content'[y] = Content[y]
    BY <1>1, <1>13, <2>1, InstalledFromPin, ContentStays
  <2>3. inst'[x] # 0
    BY <1>1, <1>13 DEF InstallOf, TypeOK, Debris, Partial, Whole
  <2>4. Chosen(config) \subseteq Comp
    BY <1>2, <1>13, ChosenAreComponents
  <2>5. QED
    BY <1>1, <1>13, <2>2, <2>3, <2>4, WritesMake
<1>14. ASSUME marker, Tested
       PROVE  \A x \in Chosen(config) : x \in Comp /\ UpToDate(x) /\ Finished(x)
  <2>1. MarkedIsSettled /\ stamp = config /\ ~cut
    BY <1>14 DEF ReleaseInv, StampInv, RunIsOnStamp
  <2>2. QED
    BY <1>1, <1>14, <2>1, SettledIsDone, ChosenAreComponents DEF MarkedIsSettled
<1>15. CASE InstallPostgres
  <2>1. Postgres \in Comp /\ TreeReady(Postgres) /\ BuildReady /\ ~UpToDate(Postgres)
    BY <1>15 DEF InstallPostgres, BuildReady, StatusReady, UpToDate, Comp
  <2>2. marker => Postgres \notin Chosen(config)
    BY <1>2, <1>14, <1>15, <2>1 DEF InstallPostgres
  <2>3. CASE InstallOf(Postgres)
    BY <1>13, <1>15, <2>1, <2>2, <2>3 DEF InstallPostgres
  <2>4. CASE pc' = "idle" /\ UNCHANGED <<inst, from, made, relative, unfit>>
    BY <1>10, <1>15, <2>4 DEF InstallPostgres
  <2>5. QED
    BY <1>15, <2>3, <2>4 DEF InstallPostgres
<1>16. ASSUME NEW x \in Comp, InstallExtension(x) PROVE Kept
  <2>1. marker => x \notin Chosen(config)
    BY <1>2, <1>14, <1>16 DEF InstallExtension
  <2>2. \A y \in Comp \ {x} : y \in leaked' <=> y \in leaked
    BY <1>16 DEF InstallExtension
  <2>3. QED
    BY <1>13, <1>16, <2>1, <2>2 DEF InstallExtension
<1>17. CASE Relativize
  <2>1. \A x \in Comp : inst'[x] = 0 => inst[x] = 0
    BY <1>17 DEF Relativize, Partial
  <2>2. ASSUME marker, NEW x \in Chosen(config)
        PROVE  Content'[x] = Content[x] \/ (Content[x] = Unfit /\ Content'[x] # Broken)
    <3>1. x \in Comp /\ Finished(x) /\ Installed(x) /\ inst[x] \in 0..4
      BY <1>1, <1>2, <1>14, <1>17, <2>2 DEF Relativize, UpToDate, PostgresReady, TypeOK, Levels
    <3>2. /\ UNCHANGED <<from, made, leaked>>
          /\ inst'[x] = inst[x] \/ (inst[x] = Whole /\ inst'[x] = Partial /\ x \notin relative')
          /\ x \in unfit' \/ (x \in relative' /\ inst[x] = Whole)
      BY <1>17, <3>1 DEF Relativize, Finished
    <3>3. Finished(x)' /\ inst'[x] # 0
      BY <3>1, <3>2 DEF Finished, Partial, Whole
    <3>4. from[x] = Pin[made[x]][x] /\ made[x] \in Configs
      <4>1. inst[x] > 0
        BY <3>1 DEF Finished, Partial
      <4>2. QED
        BY <1>1, <3>1, <4>1 DEF StampInv, PrefixOfStamp, VerifiedSourcesOnly
    <3>5. Content[x] = IF x \in unfit THEN Unfit ELSE made[x]
      BY <3>1, <3>4 DEF Content, Finished, Partial
    <3>6. Content'[x] = IF x \in unfit' THEN Unfit ELSE made[x]
      BY <3>1, <3>2, <3>3, <3>4 DEF Content
    <3>7. CASE x \notin unfit
      <4>1. x \in relative
        BY <3>1, <3>7 DEF Finished
      <4>2. x \notin unfit'
        BY <1>17, <3>7, <4>1 DEF Relativize
      <4>3. QED
        BY <3>5, <3>6, <3>7, <4>2
    <3>8. CASE x \in unfit
      BY <3>4, <3>5, <3>6, <3>8, ComponentAssumption, NameAssumption
    <3>9. QED
      BY <3>7, <3>8
  <2>3. UNCHANGED <<config, stamp, metadata, marker>> /\ pc = "make"
    BY <1>17 DEF Relativize
  <2>4. QED
    BY <1>1, <2>1, <2>2, <2>3, WritesMake
<1>18. CASE BeginMetadata
  <2>1. Content' = Content /\ Tested = TRUE /\ Tested' \in BOOLEAN
    BY <1>18, ContentKept DEF BeginMetadata, Tested
  <2>2. Promise!Withdraw
    BY <1>18, <2>1 DEF BeginMetadata, Promise!Withdraw
  <2>3. QED
    BY <2>2 DEF Promise!Next
<1>19. CASE GenerateMetadata
  <2>1. CASE pc' = "idle" /\ UNCHANGED metadata
    BY <1>10, <1>19, <2>1 DEF GenerateMetadata
  <2>2. CASE Described /\ metadata' = config /\ pc' = "mark"
    <3>1. Content' = Content /\ Tested = TRUE /\ Tested' = TRUE
      BY <1>19, <2>2, ContentKept DEF GenerateMetadata, Tested
    <3>2. ~marker /\ Promise!Holds(config) /\ Promise!Only(config)
      BY <1>19, <2>2, FinishedHolds DEF GenerateMetadata, ReleaseInv, FinishedPrefix
    <3>3. Promise!Describe
      BY <1>19, <2>2, <3>1, <3>2 DEF GenerateMetadata, Promise!Describe
    <3>4. QED
      BY <3>3 DEF Promise!Next
  <2>3. QED
    BY <1>19, <2>1, <2>2 DEF GenerateMetadata
<1>20. CASE Mark
  <2>1. Content' = Content /\ Tested = TRUE /\ Tested' = FALSE
    BY <1>20, ContentKept DEF Mark, Tested
  <2>2. metadata = config /\ Promise!Holds(config) /\ Promise!Only(config)
    BY <1>20, FinishedHolds DEF Mark, ReleaseInv, FinishedPrefix
  <2>3. Promise!Publish
    BY <1>20, <2>1, <2>2 DEF Mark, Promise!Publish
  <2>4. QED
    BY <2>3 DEF Promise!Next
<1>21. QED
  BY <1>3, <1>4, <1>5, <1>7, <1>8, <1>9, <1>11, <1>12, <1>15, <1>16, <1>17, <1>18,
     <1>19, <1>20 DEF Next, Recipe

\* Every step of a build is a step of BundleRelease or a stutter: what is
\* published is left alone until it is withdrawn, but for components that a tool
\* failed on, and only the whole release that is wanted, with such components
\* perhaps, is described and published.
THEOREM ReleaseRefinement ==
    ASSUME Careless = FALSE
    PROVE  Spec => ImplementsRelease
<1>1. ReleaseInv /\ ReleaseInv' /\ [Next]_vars => [Promise!Next]_(Promise!vars)
  BY ReleaseDataStep
<1>2. QED
  BY <1>1, ReleaseDataInit, ReleaseInvariant, PTL DEF Spec, ImplementsRelease,
     Promise!Spec

-----------------------------------------------------------------------------
\* A run under way gets on.

\* What an archive holds is what some configuration pins under its name.
ArchivesArePinned ==
    \A d \in Names : archive[d] # Nothing =>
        \E c \in Configs, y \in Archived : Dir[c][y] = d /\ archive[d] = Pin[c][y]

\* What is left to do, in the order of the prerequisites.
Missing == {x \in Required \cap Archived : archive[dir(x)] = Nothing}
Unready == {x \in Required : ~TreeReady(x)}
Pending == {x \in Required : ~UpToDate(x)}

ShrinksTo(S, T) == T \subseteq S /\ T # S

\* The first of these that the step changes gets less.
LessToDo ==
    \/ ShrinksTo(Missing, Missing')
    \/ Missing' = Missing /\ ShrinksTo(Unready, Unready')
    \/ Missing' = Missing /\ Unready' = Unready /\ ~StatusReady /\ StatusReady'
    \/ /\ Missing' = Missing /\ Unready' = Unready /\ (StatusReady' <=> StatusReady)
       /\ \/ ~BuildReady /\ BuildReady'
          \/ /\ BuildReady' <=> BuildReady
             /\ \/ ~PostgresReady /\ PostgresReady'
                \/ /\ PostgresReady' <=> PostgresReady
                   /\ ShrinksTo(Pending, Pending')

RunAdvances == [][pc = "make" /\ pc' = "make" => LessToDo]_vars

LEMMA ArchivesStep ==
    ASSUME TypeOK, ArchivesArePinned, [Next]_vars
    PROVE  ArchivesArePinned'
<1> USE DEF prefixVars, sourceVars, buildVars
<1>1. CASE UNCHANGED archive
  BY <1>1 DEF ArchivesArePinned
<1>2. ASSUME NEW x \in Comp, FetchArchive(x), archive' # archive
      PROVE  ArchivesArePinned'
  <2>1. /\ x \in Archived /\ config \in Configs
        /\ archive' = [archive EXCEPT ![dir(x)] = pin(x)]
    BY <1>2 DEF FetchArchive, Verified, TypeOK
  <2> SUFFICES ASSUME NEW d \in Names, archive'[d] # Nothing
               PROVE  \E c \in Configs, y \in Archived :
                         Dir[c][y] = d /\ archive'[d] = Pin[c][y]
    BY DEF ArchivesArePinned
  <2>2. CASE d = dir(x)
    BY <2>1, <2>2 DEF dir, pin, TypeOK
  <2>3. CASE d # dir(x)
    BY <2>1, <2>3 DEF ArchivesArePinned, TypeOK
  <2>4. QED
    BY <2>2, <2>3
<1>3. CASE \E x \in Comp : Unpack(x) \/ Clone(x) \/ InstallExtension(x)
  BY <1>1, <1>3 DEF Unpack, Clone, InstallExtension
<1>4. CASE SameStamp \/ ChangedStamp \/ Configure \/ BuildPostgres \/ InstallPostgres \/ Finish
           \/ Relativize
  BY <1>1, <1>4 DEF SameStamp, ChangedStamp, Configure, BuildPostgres, InstallPostgres, Finish,
     Relativize
<1>5. CASE BeginMetadata \/ GenerateMetadata \/ Mark \/ Clean \/ Abort \/ StartClean
  BY <1>1, <1>5 DEF BeginMetadata, GenerateMetadata, Mark, Clean, Abort, StartClean
<1>6. CASE (\E g \in Goals : Start(g)) \/ (\E c \in Configs : Reconfigure(c)) \/ UNCHANGED vars
  BY <1>1, <1>6 DEF Start, Reconfigure, vars
<1>7. QED
  BY <1>1, <1>2, <1>3, <1>4, <1>5, <1>6 DEF Next, Recipe

LEMMA SomeRecipeCan ==
    ASSUME TypeOK, ArchivesArePinned
    PROVE  CanProceed \/ HalfConfigured \/ \E x \in Required : Repinned(x)
<1> DEFINE Some == CanProceed \/ HalfConfigured \/ \E x \in Required : Repinned(x)
<1>1. config \in Configs /\ Postgres \in Required /\ Required \subseteq Comp
      /\ Postgres \notin Archived
  BY RequiredAreComponents, ComponentAssumption DEF TypeOK
<1>2. ASSUME NEW x \in Required, ~TreeReady(x) PROVE Some
  <2>1. CASE x \notin Archived
    BY <1>2, <2>1 DEF CanProceed
  <2>2. CASE x \in Archived /\ archive[dir(x)] = Nothing
    BY <1>2, <2>2 DEF CanProceed
  <2>3. CASE x \in Archived /\ archive[dir(x)] # Nothing
    <3>1. dir(x) \in Names
      BY <1>1, <1>2, NamesAreNames DEF dir
    <3>2. CASE archive[dir(x)] = pin(x)
      BY <1>2, <2>3, <3>2 DEF CanProceed, Verified
    <3>3. CASE archive[dir(x)] # pin(x)
      BY <1>2, <2>3, <3>1, <3>3 DEF Repinned, ArchivesArePinned
    <3>4. QED
      BY <3>2, <3>3
  <2>4. QED
    BY <2>1, <2>2, <2>3
<1>3. CASE \A x \in Required : TreeReady(x)
  <2>1. CASE ~StatusReady
    BY <1>1, <1>3, <2>1 DEF CanProceed
  <2>2. CASE StatusReady /\ ~PostgresReady
    BY <2>2 DEF CanProceed, HalfConfigured
  <2>3. CASE PostgresReady
    <3>1. CASE InstalledAll
      BY <3>1 DEF CanProceed
    <3>2. CASE ~InstalledAll
      <4>1. PICK x \in Required : ~UpToDate(x)
        BY <3>2 DEF InstalledAll
      <4>2. x # Postgres
        BY <2>3, <4>1 DEF UpToDate
      <4>3. QED
        BY <1>3, <2>3, <4>1, <4>2 DEF CanProceed
    <3>3. QED
      BY <3>1, <3>2
  <2>4. QED
    BY <2>1, <2>2, <2>3
<1>4. QED
  BY <1>2, <1>3

\* Whatever earlier runs left, a run that tests targets has always something that
\* it can do or is done, but for two cases: configure was cut off after it wrote
\* config.status and before the makefiles (line 433), or it needs an archive that
\* is kept from a configuration with another pin under the same name (line 454).
THEOREM RunProceeds == Spec => []RunCanProceed
<1>1. Init => TypeOK /\ ArchivesArePinned
  BY TypeInit DEF Init, ArchivesArePinned
<1>2. TypeOK /\ ArchivesArePinned /\ [Next]_vars => (TypeOK /\ ArchivesArePinned)'
  BY TypeStep, ArchivesStep
<1>3. TypeOK /\ ArchivesArePinned => RunCanProceed
  BY SomeRecipeCan DEF RunCanProceed
<1>4. QED
  BY <1>1, <1>2, <1>3, PTL DEF Spec

LEMMA RunLessens ==
    ASSUME TypeOK, [Next]_vars, pc = "make", pc' = "make"
    PROVE  LessToDo \/ UNCHANGED vars
<1> USE DEF prefixVars, sourceVars, buildVars, Stop
<1>1. /\ config \in Configs /\ Required \subseteq Comp /\ Postgres \in Required
      /\ Postgres \notin Archived /\ Postgres \notin Ext /\ Archived \subseteq Ext
      /\ Comp = Ext \cup {Postgres}
  BY RequiredAreComponents, ComponentAssumption DEF TypeOK, Comp
<1>2. ASSUME NEW x \in Comp
      PROVE  /\ dir(x) \in Names /\ dir(x) # Nothing
             /\ dir(x) # Build /\ dir(x) # Status /\ dir(x) \notin Comp
             /\ \A y \in Comp : dir(y) = dir(x) => y = x
             /\ pin(x) \in Contents /\ pin(x) # Nothing
  BY <1>1, NamesAreNames, NameAssumption DEF dir, pin
<1>3. /\ Build \notin Comp /\ Status \notin Comp /\ Build # Status
      /\ Nothing \notin Contents \cup Configs
  BY NameAssumption, ComponentAssumption DEF Build, Status
<1>4. ASSUME UNCHANGED <<config, goal>>
      PROVE  Required' = Required /\ \A x : dir(x)' = dir(x)
  BY <1>4 DEF Required, dir
<1>5. ASSUME NEW x \in Comp, FetchArchive(x) PROVE LessToDo
  <2>1. /\ x \in Required \cap Archived /\ archive[dir(x)] = Nothing
        /\ archive' = [archive EXCEPT ![dir(x)] = pin(x)]
        /\ UNCHANGED <<config, goal>>
    BY <1>5 DEF FetchArchive, Verified
  <2>2. archive'[dir(x)] # Nothing /\ \A y \in Comp \ {x} : archive'[dir(y)] = archive[dir(y)]
    BY <1>2, <2>1 DEF TypeOK
  <2>3. x \in Missing /\ x \notin Missing' /\ Missing' \subseteq Missing
    BY <1>1, <1>4, <2>1, <2>2 DEF Missing
  <2>4. QED
    BY <2>3 DEF LessToDo, ShrinksTo
<1>6. ASSUME NEW x \in Comp, Unpack(x) \/ Clone(x) PROVE LessToDo
  <2>1. /\ x \in Required /\ ~TreeReady(x) /\ UNCHANGED <<config, goal, archive>>
        /\ x \in Archived => archive[dir(x)] # Nothing
        /\ tree' = [tree EXCEPT ![dir(x)] = pin(x)]
        /\ Renewed(dir(x), BuiltFromTree(x))
    BY <1>6 DEF Unpack, Clone, Verified
  <2>2. BuiltFromTree(x) \subseteq {Status, x}
    BY DEF BuiltFromTree
  <2>3. \A y \in Comp : dir(y) \in old' <=> dir(y) \in old /\ y # x
    BY <1>2, <2>1, <2>2 DEF Renewed
  <2>4. \A y \in Comp : TreeReady(y)' <=> TreeReady(y) \/ y = x
    BY <1>2, <1>4, <2>1, <2>3 DEF TreeReady, TypeOK
  <2>5. Missing' = Missing
    BY <1>4, <2>1 DEF Missing
  <2>6. x \in Unready /\ x \notin Unready' /\ Unready' \subseteq Unready
    BY <1>1, <1>4, <2>1, <2>4 DEF Unready
  <2>7. QED
    BY <2>5, <2>6 DEF LessToDo, ShrinksTo
<1>7. ASSUME UNCHANGED <<config, goal, archive, tree>>,
             \A y \in Comp : dir(y) \in old' <=> dir(y) \in old
      PROVE  /\ Missing' = Missing /\ Unready' = Unready
             /\ \A y \in Comp : TreeReady(y)' <=> TreeReady(y)
  <2>1. \A y \in Comp : TreeReady(y)' <=> TreeReady(y)
    BY <1>4, <1>7 DEF TreeReady
  <2>2. QED
    BY <1>1, <1>4, <1>7, <2>1 DEF Missing, Unready
<1>8. CASE Configure \/ BuildPostgres
  <2>1. CASE Configure
    <3>1. /\ TreeReady(Postgres) /\ ~StatusReady /\ UNCHANGED <<config, goal, archive, tree>>
          /\ status' = config /\ Renewed(Status, IF build # Nothing THEN {Build} ELSE {})
      BY <2>1 DEF Configure
    <3>2. \A y \in Comp : dir(y) \in old' <=> dir(y) \in old
      BY <1>1, <1>2, <3>1 DEF Renewed
    <3>3. StatusReady'
      BY <1>1, <1>3, <1>7, <3>1, <3>2 DEF StatusReady, Renewed
    <3>4. QED
      BY <1>7, <3>1, <3>2, <3>3 DEF LessToDo
  <2>2. CASE BuildPostgres
    <3>1. /\ StatusReady /\ ~BuildReady /\ UNCHANGED <<config, goal, archive, tree, status>>
          /\ build' = status
          /\ Renewed(Build, IF Installed(Postgres) THEN {Postgres} ELSE {})
      BY <2>2 DEF BuildPostgres
    <3>2. /\ \A y \in Comp : dir(y) \in old' <=> dir(y) \in old
          /\ Status \in old' <=> Status \in old
      BY <1>1, <1>2, <1>3, <3>1 DEF Renewed
    <3>3. StatusReady'
      BY <1>1, <1>7, <3>1, <3>2 DEF StatusReady
    <3>4. BuildReady'
      BY <1>1, <1>3, <3>1, <3>3 DEF BuildReady, StatusReady, Renewed
    <3>5. QED
      BY <1>7, <3>1, <3>2, <3>3, <3>4 DEF LessToDo
  <2>3. QED
    BY <1>8, <2>1, <2>2
<1>9. ASSUME NEW x \in Comp, InstallOf(x)
      PROVE  /\ inst'[x] >= Target
             /\ \A y \in Comp \ {x} : inst'[y] = inst[y]
  BY <1>9 DEF InstallOf, TypeOK, Target, Partial, Whole
<1>10. CASE InstallPostgres
  <2>1. /\ BuildReady /\ ~PostgresReady
        /\ UNCHANGED <<config, goal, archive, tree, status, build>>
        /\ InstallOf(Postgres) /\ Renewed(Postgres, {e \in Ext : Installed(e)})
    BY <1>10 DEF InstallPostgres
  <2>2. /\ \A y \in Comp : dir(y) \in old' <=> dir(y) \in old
        /\ Build \in old' <=> Build \in old
        /\ Status \in old' <=> Status \in old
        /\ Postgres \notin old'
    BY <1>1, <1>2, <1>3, <2>1 DEF Renewed
  <2>3. (StatusReady' <=> StatusReady) /\ BuildReady' /\ PostgresReady'
    BY <1>1, <1>7, <1>9, <2>1, <2>2 DEF StatusReady, BuildReady, PostgresReady, Installed
  <2>4. QED
    BY <1>7, <2>1, <2>2, <2>3 DEF LessToDo
<1>11. ASSUME NEW x \in Comp, InstallExtension(x) PROVE LessToDo
  <2>1. /\ x \in Required \ {Postgres} /\ TreeReady(x) /\ PostgresReady /\ ~UpToDate(x)
        /\ InstallOf(x) /\ Renewed(x, {})
        /\ UNCHANGED <<config, goal, archive, tree, status, build>>
    BY <1>11 DEF InstallExtension
  <2>2. /\ \A y \in Comp : dir(y) \in old' <=> dir(y) \in old
        /\ Build \in old' <=> Build \in old
        /\ Status \in old' <=> Status \in old
        /\ \A y \in Comp : y \in old' <=> y \in old /\ y # x
    BY <1>1, <1>2, <1>3, <2>1 DEF Renewed
  <2>3. (StatusReady' <=> StatusReady) /\ BuildReady' /\ PostgresReady' /\ BuildReady
    BY <1>1, <1>7, <1>9, <2>1, <2>2 DEF StatusReady, BuildReady, PostgresReady, Installed
  <2>4. \A y \in Comp : UpToDate(y)' <=> UpToDate(y) \/ y = x
    BY <1>1, <1>7, <1>9, <2>1, <2>2, <2>3 DEF UpToDate, Installed
  <2>5. x \in Pending /\ x \notin Pending' /\ Pending' \subseteq Pending
    BY <1>1, <1>4, <2>1, <2>4 DEF Pending
  <2>6. QED
    BY <1>7, <2>1, <2>2, <2>3, <2>5 DEF LessToDo, ShrinksTo
<1>12. ~SameStamp /\ ~ChangedStamp /\ ~Finish /\ ~Relativize
  BY DEF SameStamp, ChangedStamp, Finish, Relativize
<1>13. ~BeginMetadata /\ ~GenerateMetadata /\ ~Mark /\ ~Clean /\ ~Abort /\ ~StartClean
  BY DEF BeginMetadata, GenerateMetadata, Mark, Clean, Abort, StartClean
<1>14. /\ \A g \in Goals : ~Start(g)
       /\ \A c \in Configs : ~Reconfigure(c)
  BY DEF Start, Reconfigure
<1>15. QED
  BY <1>5, <1>6, <1>8, <1>10, <1>11, <1>12, <1>13, <1>14 DEF Next, Recipe

\* Every recipe that a run gets through leaves less to do: what it makes older
\* comes later in the order of prerequisites, so no run goes round in circles.
THEOREM RunsAdvance == Spec => RunAdvances
<1>1. TypeOK /\ [Next]_vars => [pc = "make" /\ pc' = "make" => LessToDo]_vars
  BY RunLessens
<1>2. QED
  BY <1>1, TypeInit, TypeStep, PTL DEF Spec, RunAdvances
=============================================================================
