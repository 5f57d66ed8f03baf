----------------------------- MODULE BundleBuild -----------------------------
(***************************************************************************)
(* pgbuild/Makefile: how make turns a bundle configuration into the native *)
(* prefix that pgembed ships.  The stamp names the configuration that the  *)
(* prefix and the source trees belong to; the completion marker says that  *)
(* a release build got to its end.  A run may fail in any recipe, be       *)
(* killed anywhere, also within rm -rf, and be followed by a run with      *)
(* another goal or another configuration.                                  *)
(*                                                                         *)
(* Every recipe is an action whose second disjunct is the recipe cut       *)
(* short, by an error or a kill.  make's comparison of modification times  *)
(* is the set "old": the files that are older than something they depend   *)
(* on.  Recipes whose dependencies are met run in any order, as under -j.  *)
(***************************************************************************)
EXTENDS Naturals, FiniteSets

CONSTANTS
    Postgres,    \* the component every extension is built against
    Ext,         \* the extensions
    Archived,    \* those fetched as a .tar.gz with a pinned SHA-256
    Configs,     \* bundle configurations, as the stamp spells them out
    Selects,     \* Selects[c]: FINAL_EXTENSIONS
    Dir,         \* Dir[c][x]: name of x's source directory and archive
    Pin,         \* Pin[c][x]: the source content x is pinned to
    Goals,       \* the goals make is called with: "all" or a component
    Nothing,     \* no file, no configuration
    Broken,      \* a source tree that rm -rf left in part
    Careless,    \* may a removal that was cut off be left unfinished?
    ToolsFail    \* may a tool fail that relativizes a file?

Comp == Ext \cup {Postgres}
Names == {Dir[c][x] : c \in Configs, x \in Comp}
Contents == {Pin[c][x] : c \in Configs, x \in Comp}

ASSUME ComponentAssumption ==
    /\ Postgres \notin Ext
    /\ Archived \subseteq Ext
    /\ Goals \subseteq Comp \cup {"all"}
    /\ Selects \in [Configs -> SUBSET Ext]
    /\ {Careless, ToolsFail} \subseteq BOOLEAN
    /\ Nothing \notin Configs \cup Contents
    /\ Broken \notin Contents \cup Configs \cup {Nothing}

\* The two files that make looks at in PostgreSQL's build directory:
\* config.status, and initdb for all that is compiled.
Status == "config.status"
Build == "initdb"

\* How BundleRelease sees a component on which a tool failed unnoticed.
Unfit == "unfit"

\* Names of files are all different.
ASSUME NameAssumption ==
    /\ \A c \in Configs : \A x, y \in Comp : Dir[c][x] = Dir[c][y] => x = y
    /\ Names \cap (Comp \cup {Status, Build, Nothing}) = {}
    /\ Comp \cap {Status, Build} = {}
    /\ Unfit \notin Configs \cup {Nothing, Broken}

\* How much of a component is installed: nothing, files but not the one make
\* looks at, of PostgreSQL that file (bin/postgres) without all of pg_config,
\* pg_ctl and psql, all but some files, everything.
Levels == 0..4
Debris == 1
Target == 2
Partial == 3
Whole == 4
LevelsOf(x) == IF x = Postgres THEN Levels ELSE Levels \ {Target}

VARIABLES
    config,    \* what the Makefile and its environment say now
    stamp,     \* .postgres-bundle-config.stamp
    archive,   \* .tar.gz files
    tree,      \* source trees with their verified marker, or unpacked
    status,    \* the configuration that config.status was written for
    makefiles, \* did configure get to the makefiles too?
    build,     \* the configuration that PostgreSQL was compiled for
    inst,      \* how much of each component is in the prefix
    from,      \* the source content it was built from
    made,      \* the configuration it was built under
    relative,  \* components whose library paths were relativized
    unfit,     \* those of which a tool failed on a file, unnoticed
    leaked,    \* extensions linked against a relativized PostgreSQL
    metadata,  \* the configuration build-metadata.json describes
    marker,    \* is .bundle-complete there?
    old,       \* files older than one of their prerequisites
    cut,       \* was the last rm -rf cut off, and not run again since?
    pc,        \* where the current make run is
    goal

prefixVars == <<inst, from, made, relative, unfit, leaked, metadata, marker>>
buildVars == <<status, makefiles, build>>
sourceVars == <<archive, tree, buildVars>>
vars == <<config, stamp, prefixVars, sourceVars, old, cut, pc, goal>>

TypeOK ==
    /\ config \in Configs
    /\ stamp \in Configs \cup {Nothing}
    /\ archive \in [Names -> Contents \cup {Nothing}]
    /\ tree \in [Names -> Contents \cup {Nothing, Broken}]
    /\ {status, build} \subseteq Configs \cup {Nothing}
    /\ makefiles \in BOOLEAN
    /\ inst \in [Comp -> Levels]
    /\ from \in [Comp -> Contents \cup {Nothing, Broken}]
    /\ made \in [Comp -> Configs \cup {Nothing}]
    /\ {relative, unfit} \subseteq SUBSET Comp
    /\ leaked \in SUBSET Ext
    /\ metadata \in Configs \cup {Nothing}
    /\ marker \in BOOLEAN
    /\ old \in SUBSET (Names \cup Comp \cup {Status, Build})
    /\ cut \in BOOLEAN
    /\ pc \in {"idle", "stamp", "make", "metadata", "generate", "mark", "clean"}
    /\ goal \in Comp \cup {"all"}

Init ==
    /\ config \in Configs
    /\ stamp = Nothing
    /\ archive = [d \in Names |-> Nothing]
    /\ tree = [d \in Names |-> Nothing]
    /\ status = Nothing
    /\ makefiles = FALSE
    /\ build = Nothing
    /\ inst = [x \in Comp |-> 0]
    /\ from = [x \in Comp |-> Nothing]
    /\ made = [x \in Comp |-> Nothing]
    /\ relative = {}
    /\ unfit = {}
    /\ leaked = {}
    /\ metadata = Nothing
    /\ marker = FALSE
    /\ old = {}
    /\ cut = FALSE
    /\ pc = "idle"
    /\ goal = "all"

-----------------------------------------------------------------------------
\* Helpers.

dir(x) == Dir[config][x]
pin(x) == Pin[config][x]

\* What the goal makes: postgres is a prerequisite of everything.
Required ==
    {Postgres} \cup IF goal = "all" THEN Selects[config] ELSE {goal}

\* make's view of a target: is it there, newer than its prerequisites, and are
\* these up to date?
TreeReady(x) ==
    /\ x \in Archived => archive[dir(x)] # Nothing
    /\ tree[dir(x)] # Nothing
    /\ dir(x) \notin old
StatusReady == TreeReady(Postgres) /\ status # Nothing /\ Status \notin old
BuildReady == StatusReady /\ build # Nothing /\ Build \notin old
Installed(x) == inst[x] >= Target
PostgresReady == BuildReady /\ Installed(Postgres) /\ Postgres \notin old
UpToDate(x) ==
    PostgresReady /\ (x # Postgres => TreeReady(x) /\ Installed(x) /\ x \notin old)

\* Mutant of Renewed: the final touch is missing, f keeps an old time.
NotTouched(f, dependents) == old' = old \cup {f} \cup dependents

\* f was made anew; what exists and depends on it is older now.
Renewed(f, dependents) == old' = (old \ {f}) \cup dependents

PrefixExists == metadata # Nothing \/ marker \/ \E x \in Comp : inst[x] > 0

\* The prefix after rm -rf, run to the end or cut off with some files left.
PrefixRemoved ==
    /\ inst' = [x \in Comp |-> 0]
    /\ from' = [x \in Comp |-> Nothing]
    /\ made' = [x \in Comp |-> Nothing]
    /\ relative' = {}
    /\ unfit' = {}
    /\ leaked' = {}
    /\ metadata' = Nothing
    /\ marker' = FALSE
PrefixPartlyRemoved ==
    /\ inst' \in {f \in [Comp -> Levels] : 
                 \A x \in Comp : f[x] \in LevelsOf(x) /\ f[x] <= inst[x]}
    /\ marker' \in {marker, FALSE}
    /\ metadata' \in {metadata, Nothing}
    /\ relative' = {x \in relative : inst'[x] > 0}
    /\ unfit' = {x \in unfit : inst'[x] > 0}
    /\ leaked' = {e \in leaked : inst'[e] > 0}
    /\ UNCHANGED <<from, made>>

\* The directories that $(NATIVE_BUILD_DIRS) names under this configuration.
BuildDirs == {dir(x) : x \in Comp}
TreesRemoved ==
    /\ tree' = [d \in Names |-> IF d \in BuildDirs THEN Nothing ELSE tree[d]]
    /\ status' = Nothing
    /\ makefiles' = FALSE
    /\ build' = Nothing
TreesPartlyRemoved ==
    /\ \E gone, part \in SUBSET {d \in BuildDirs : tree[d] # Nothing} :
          tree' = [d \in Names |-> IF d \in gone THEN Nothing
                                  ELSE IF d \in part THEN Broken ELSE tree[d]]
    /\ status' \in {status, Nothing}
    /\ makefiles' \in {makefiles, FALSE}
    /\ build' \in {build, Nothing}

Stop == pc' = "idle"

-----------------------------------------------------------------------------
\* Calling make.

Start(g) ==
    /\ pc = "idle"
    /\ cut /\ ~Careless => stamp # config
    /\ goal' = g
    /\ pc' = "stamp"
    /\ UNCHANGED <<config, stamp, prefixVars, sourceVars, old, cut>>

\* The Makefile or its environment is edited between two runs.
Reconfigure(c) ==
    /\ pc = "idle"
    /\ c # config
    /\ config' = c
    /\ UNCHANGED <<stamp, prefixVars, sourceVars, old, cut, pc, goal>>

\* Mutant of KeepPrefix: the marker is not looked at.
KeepExecutables == inst[Postgres] >= Partial

\* The stamp's recipe, forced in every run.  A prefix without the four
\* executables goes, and before a release build one that is not marked and
\* described.
KeepPrefix ==
    /\ inst[Postgres] >= Partial
    /\ goal = "all" => marker /\ metadata # Nothing

SameStamp ==
    /\ pc = "stamp"
    /\ stamp = config
    /\ IF PrefixExists /\ ~KeepPrefix
       THEN \/ PrefixRemoved /\ pc' = "make"
            \/ PrefixPartlyRemoved /\ Stop
       ELSE pc' = "make" /\ UNCHANGED prefixVars
    /\ UNCHANGED <<config, stamp, sourceVars, old, cut, goal>>

\* Mutant of ChangedStamp: the stamp is replaced before the removal.
StampFirst ==
    /\ pc = "stamp"
    /\ stamp # config
    /\ stamp' = config
    /\ old' = Names \cup Comp \cup {Status, Build}
    /\ \/ PrefixRemoved /\ TreesRemoved /\ pc' = "make" /\ cut' = FALSE
       \/ Stop /\ UNCHANGED <<prefixVars, tree, buildVars, cut>>
    /\ UNCHANGED <<config, archive, goal>>

\* Another configuration: the prefix and the source trees go, then the new
\* stamp is moved into place.
ChangedStamp ==
    /\ pc = "stamp"
    /\ stamp # config
    /\ \/ /\ PrefixRemoved
          /\ TreesRemoved
          /\ stamp' = config
          /\ old' = {d \in Names : tree[d] # Nothing} \ BuildDirs
          /\ cut' = FALSE
          /\ pc' = "make"
       \/ /\ \/ PrefixPartlyRemoved /\ UNCHANGED <<tree, buildVars>>
             \/ PrefixRemoved /\ TreesPartlyRemoved
          /\ cut' = TRUE
          /\ Stop
          /\ UNCHANGED <<stamp, old>>
    /\ UNCHANGED <<config, archive, goal>>

-----------------------------------------------------------------------------
\* Sources.

\* Mutant of Verified: nothing is compared with the pin.
Unverified(x, content) == TRUE

\* sha256sum -c, or git rev-parse HEAD.
Verified(x, content) == content = pin(x)

\* Mutant of FetchArchive: the file is moved before its sum is compared.
FetchUnverified(x) ==
    /\ pc = "make"
    /\ x \in Required \cap Archived
    /\ archive[dir(x)] = Nothing
    /\ \E content \in Contents :
          /\ archive' = [archive EXCEPT ![dir(x)] = content]
          /\ Renewed(Nothing, IF tree[dir(x)] # Nothing THEN {dir(x)} ELSE {})
    /\ UNCHANGED <<config, stamp, prefixVars, tree, buildVars, cut, pc, goal>>

\* curl to a temporary file, which is moved into place if its sum is right.
\* It is only run when the archive is missing.
FetchArchive(x) ==
    /\ pc = "make"
    /\ x \in Required \cap Archived
    /\ archive[dir(x)] = Nothing
    /\ \/ \E content \in Contents :
             /\ Verified(x, content)
             /\ archive' = [archive EXCEPT ![dir(x)] = content]
             /\ Renewed(Nothing, IF tree[dir(x)] # Nothing THEN {dir(x)} ELSE {})
             /\ UNCHANGED pc
       \/ Stop /\ UNCHANGED <<archive, old>>
    /\ UNCHANGED <<config, stamp, prefixVars, tree, buildVars, cut, goal>>

\* The file whose recipe asks for x's source tree, if there is one.
BuiltFromTree(x) ==
    IF x = Postgres THEN IF status # Nothing THEN {Status} ELSE {}
                    ELSE IF Installed(x) THEN {x} ELSE {}

\* The archive's sum is checked again before it is unpacked.  The file make
\* looks at has an old time until the final touch, so a tree that was not
\* unpacked to the end is unpacked again.
Unpack(x) ==
    /\ pc = "make"
    /\ x \in Required \cap Archived
    /\ archive[dir(x)] # Nothing
    /\ ~TreeReady(x)
    /\ \/ /\ Verified(x, archive[dir(x)])
          /\ tree' = [tree EXCEPT ![dir(x)] = archive[dir(x)]]
          /\ Renewed(dir(x), BuiltFromTree(x))
          /\ UNCHANGED pc
       \/ /\ tree' \in {tree, [tree EXCEPT ![dir(x)] = Nothing]}
          /\ Stop
          /\ UNCHANGED old
    /\ UNCHANGED <<config, stamp, prefixVars, archive, buildVars, cut, goal>>

\* A git checkout starts from nothing and is marked once it is verified.
Clone(x) ==
    /\ pc = "make"
    /\ x \in Required \ Archived
    /\ ~TreeReady(x)
    /\ \/ \E content \in Contents :
             /\ Verified(x, content)
             /\ tree' = [tree EXCEPT ![dir(x)] = content]
             /\ Renewed(dir(x), BuiltFromTree(x))
             /\ UNCHANGED pc
       \/ /\ tree' = [tree EXCEPT ![dir(x)] = Nothing]
          /\ Stop
          /\ UNCHANGED old
    /\ UNCHANGED <<config, stamp, prefixVars, archive, buildVars, cut, goal>>

-----------------------------------------------------------------------------
\* Building and installing.

\* configure writes config.status and then, by running it, the makefiles.  It may
\* be cut off between the two; what an earlier one wrote stays.
Configure ==
    /\ pc = "make"
    /\ TreeReady(Postgres)
    /\ ~StatusReady
    /\ \/ /\ status' = config
          /\ Renewed(Status, IF build # Nothing THEN {Build} ELSE {})
          /\ \/ makefiles' = TRUE /\ UNCHANGED pc
             \/ Stop /\ UNCHANGED makefiles
       \/ Stop /\ status' \in {status, Nothing} /\ UNCHANGED <<makefiles, old>>
    /\ UNCHANGED <<config, stamp, prefixVars, archive, tree, build, cut, goal>>

\* make -C, which has nothing to go by without the makefiles; objects of a cut
\* build are made again.
BuildPostgres ==
    /\ pc = "make"
    /\ StatusReady
    /\ ~BuildReady
    /\ \/ /\ makefiles
          /\ build' = status
          /\ Renewed(Build, IF Installed(Postgres) THEN {Postgres} ELSE {})
          /\ UNCHANGED pc
       \/ Stop /\ UNCHANGED <<build, old>>
    /\ UNCHANGED <<config, stamp, prefixVars, archive, tree, status, makefiles, cut,
                   goal>>

\* x's install recipe: everything, all that a damaged tree still holds, or
\* whatever was copied before the recipe was cut off.
InstallOf(x) ==
    /\ from' = [from EXCEPT ![x] = tree[dir(x)]]
    /\ made' = [made EXCEPT ![x] = IF x = Postgres THEN build ELSE config]
    /\ relative' = relative \ {x}
    /\ unfit' = unfit \ {x}
    /\ \/ /\ inst' = [inst EXCEPT ![x] =
                         IF tree[dir(x)] = Broken THEN Partial ELSE Whole]
          /\ UNCHANGED pc
       \/ /\ \E l \in LevelsOf(x) \cap (Debris..Partial) : inst' = [inst EXCEPT ![x] = l]
          /\ Stop

\* make install, then the contrib modules.
InstallPostgres ==
    /\ pc = "make"
    /\ BuildReady
    /\ ~PostgresReady
    /\ \/ /\ makefiles
          /\ InstallOf(Postgres)
          /\ Renewed(Postgres, {e \in Ext : Installed(e)})
       \/ Stop /\ UNCHANGED <<inst, from, made, relative, unfit, old>>
    /\ UNCHANGED <<config, stamp, sourceVars, leaked, metadata, marker, cut, goal>>

InstallExtension(x) ==
    /\ pc = "make"
    /\ x \in Required \ {Postgres}
    /\ TreeReady(x)
    /\ PostgresReady
    /\ ~UpToDate(x)
    /\ InstallOf(x)
    /\ \/ Postgres \notin relative /\ leaked' = leaked \ {x}
       \/ Postgres \in relative \cup unfit /\ leaked' = leaked \cup {x}
    /\ Renewed(x, {})
    /\ UNCHANGED <<config, stamp, sourceVars, metadata, marker, cut, goal>>

-----------------------------------------------------------------------------
\* Finishing.

\* A goal other than a release is reached when its target is up to date.
Finish ==
    /\ pc = "make"
    /\ goal # "all"
    /\ \A x \in Required : UpToDate(x)
    /\ Stop
    /\ UNCHANGED <<config, stamp, prefixVars, sourceVars, old, cut, goal>>

\* relativize: postgres $(EXTENSIONS)
InstalledAll == \A x \in Required : UpToDate(x)

\* Binaries are rewritten in place, except those that are relative already.  No
\* failure of a tool is noticed, also not if it leaves a damaged file, which no
\* later run repairs.
Relativize ==
    LET here == {x \in Comp : Installed(x)}
        damaged == {x \in unfit : inst[x] # Whole}
        Damage(S) == inst' = [x \in Comp |-> IF x \in S /\ inst[x] = Whole
                                             THEN Partial ELSE inst[x]]
    IN
    /\ pc = "make"
    /\ goal = "all"
    /\ InstalledAll
    /\ \/ \E failed \in SUBSET (here \ relative) :
             /\ damaged \subseteq failed
             /\ ToolsFail \/ failed = {}
             /\ relative' = here \ failed
             /\ unfit' = failed
             /\ \E S \in SUBSET failed : Damage(S)
             /\ pc' = "metadata"
       \/ \E rewritten \in SUBSET (here \ (relative \cup damaged)) :
             /\ relative' = relative \cup rewritten
             /\ unfit' = unfit \ rewritten
             /\ \E S \in SUBSET (here \ relative') : Damage(S)
             /\ Stop
    /\ UNCHANGED <<config, stamp, from, made, leaked, metadata, marker, sourceVars,
                   old, cut, goal>>

\* Mutant of BeginMetadata: the completion marker stays.
KeepMarker ==
    /\ pc = "metadata"
    /\ metadata' = Nothing
    /\ pc' = "generate"
    /\ UNCHANGED <<config, stamp, inst, from, made, relative, unfit, leaked, marker,
                   sourceVars, old, cut, goal>>

\* bundle-metadata: both files go first; a copy of the stamp is installed.
BeginMetadata ==
    /\ pc = "metadata"
    /\ marker' = FALSE
    /\ \/ metadata' = Nothing /\ pc' = "generate"
       \/ Stop /\ UNCHANGED metadata
    /\ UNCHANGED <<config, stamp, inst, from, made, relative, unfit, leaked, sourceVars,
                   old, cut, goal>>

\* Mutant of Described: files of what was not selected are overlooked.
SelectedDescribed == \A e \in Selects[config] : Installed(e)

\* generate() wants the files of what was built and none of anything else.
Described ==
    /\ \A e \in Selects[config] : Installed(e)
    /\ \A e \in Ext \ Selects[config] : inst[e] = 0

GenerateMetadata ==
    /\ pc = "generate"
    /\ \/ Described /\ metadata' = config /\ pc' = "mark"
       \/ Stop /\ UNCHANGED metadata
    /\ UNCHANGED <<config, stamp, inst, from, made, relative, unfit, leaked, marker,
                   sourceVars, old, cut, goal>>

Mark ==
    /\ pc = "mark"
    /\ marker' = TRUE
    /\ Stop
    /\ UNCHANGED <<config, stamp, inst, from, made, relative, unfit, leaked, metadata,
                   sourceVars, old, cut, goal>>

\* make is killed between two recipes.
Abort ==
    /\ pc \notin {"idle", "clean"}
    /\ Stop
    /\ UNCHANGED <<config, stamp, prefixVars, sourceVars, old, cut, goal>>

\* make clean.
StartClean ==
    /\ pc = "idle"
    /\ pc' = "clean"
    /\ UNCHANGED <<config, stamp, prefixVars, sourceVars, old, cut, goal>>

Clean ==
    /\ pc = "clean"
    /\ \/ /\ PrefixRemoved
          /\ TreesRemoved
          /\ stamp' = Nothing
          /\ cut' = FALSE
       \/ /\ \/ PrefixPartlyRemoved /\ UNCHANGED <<tree, buildVars>>
             \/ PrefixRemoved /\ TreesPartlyRemoved
          /\ cut' = TRUE
          /\ UNCHANGED stamp
    /\ Stop
    /\ UNCHANGED <<config, archive, old, goal>>

-----------------------------------------------------------------------------
Recipe ==
    \/ SameStamp
    \/ ChangedStamp
    \/ \E x \in Comp : FetchArchive(x) \/ Unpack(x) \/ Clone(x) \/ InstallExtension(x)
    \/ Configure
    \/ BuildPostgres
    \/ InstallPostgres
    \/ Finish
    \/ Relativize
    \/ BeginMetadata
    \/ GenerateMetadata
    \/ Mark
    \/ Clean

Next ==
    \/ \E g \in Goals : Start(g)
    \/ \E c \in Configs : Reconfigure(c)
    \/ Recipe
    \/ Abort
    \/ StartClean

Spec == Init /\ [][Next]_vars

\* config.status is newer than the sources, but what it was to write is missing:
\* make does not run configure again, and make -C fails.
HalfConfigured == StatusReady /\ ~makefiles /\ ~PostgresReady

\* Builds that nothing disturbs: no recipe is cut short, nobody edits the
\* configuration or kills make, a run under way gets to its end, and make all is
\* called again, after make clean if that was cut off or if the build directory
\* is half configured.  generate() refusing a component that was made as a goal of
\* its own is no disturbance.
CalmStep ==
    \/ Start("all") /\ ~HalfConfigured
    \/ StartClean /\ (HalfConfigured \/ (cut /\ stamp = config))
    \/ Recipe /\ (pc' # "idle" \/ pc = "mark" \/ (pc = "clean" /\ ~cut'))
    \/ Finish
    \/ BuildPostgres /\ HalfConfigured
    \/ GenerateMetadata /\ ~Described
FairSpec == Spec /\ WF_vars(CalmStep)

-----------------------------------------------------------------------------
\* Properties.

\* x can be shipped as far as its files go: all there, with library paths that were
\* made relative after what is linked against it, unless a tool failed on some.
Finished(x) ==
    /\ inst[x] >= Partial
    /\ x \notin leaked
    /\ x \in unfit \/ (inst[x] = Whole /\ x \in relative)

\* Every selected component is there, built under the stamped configuration from
\* the pinned source, and finished; the metadata describe this configuration.
Released ==
    /\ metadata = stamp
    /\ \A x \in {Postgres} \cup Selects[stamp] :
          /\ made[x] = stamp
          /\ from[x] = Pin[stamp][x]
          /\ Finished(x)

\* A release, and nothing else.
Complete == Released /\ \A e \in Ext \ Selects[stamp] : inst[e] = 0

\* The completion marker is only ever written to a complete prefix, whatever
\* earlier runs were cut short where.
PublishedIsComplete == [][~marker /\ marker' => Complete']_vars

\* A prefix that the stamp's recipe has let pass with its marker holds the
\* release: what happened since the marker was written shows in the stamp, in
\* the four executables or in the marker, but for an extension that is not
\* selected and was made as a goal of its own.
Tested == pc \in {"make", "metadata", "generate", "mark"}
MarkedIsReleased == Tested /\ marker => Released

\* "A changed recipe removes the entire native prefix and every unpacked
\* source/build tree before any target is tested" (lines 318-319).
PrefixMatchesStamp ==
    Tested =>
        /\ stamp = config
        /\ \A x \in Comp : inst[x] > 0 => made[x] = stamp
        /\ \A x \in Comp : TreeReady(x) => tree[dir(x)] = pin(x)
        /\ BuildReady => build = stamp

\* Nothing unverified gets into the prefix: what is installed was built from
\* the source its own configuration pins, also when archives and trees of
\* other configurations are around.
VerifiedSourcesOnly ==
    \A x \in Comp : inst[x] > 0 => from[x] = Pin[made[x]][x]

\* A recipe of this run has its prerequisites and need not fail, or all is done.
CanProceed ==
    \/ \E x \in Required \cap Archived : archive[dir(x)] = Nothing
    \/ \E x \in Required \cap Archived :
          archive[dir(x)] # Nothing /\ ~TreeReady(x) /\ Verified(x, archive[dir(x)])
    \/ \E x \in Required \ Archived : ~TreeReady(x)
    \/ TreeReady(Postgres) /\ ~StatusReady
    \/ StatusReady /\ ~PostgresReady /\ makefiles
    \/ \E x \in Required \ {Postgres} : TreeReady(x) /\ PostgresReady /\ ~UpToDate(x)
    \/ InstalledAll

\* The archive that is kept under the name of x's is what another configuration
\* pins under this name: it is not fetched again, and never verified.
Repinned(x) ==
    /\ x \in Archived
    /\ archive[dir(x)] # pin(x)
    /\ \E c \in Configs, y \in Archived : Dir[c][y] = dir(x) /\ archive[dir(x)] = Pin[c][y]

\* Whatever earlier runs of whichever configuration left behind, a run only comes
\* to a state in which every recipe it needs must fail in two ways: configure was
\* cut off late (line 433), or the pin of an archive changed and its name did not
\* (line 454).  Prerequisites never wait for each other, and no archive is kept
\* that some configuration did not pin under this name.
RunCanProceed ==
    pc = "make" => CanProceed \/ HalfConfigured \/ \E x \in Required : Repinned(x)

\* Whatever state earlier runs left behind, once builds are no longer disturbed,
\* and a half configured build is cleaned by hand, a release of the current
\* configuration gets finished, unless a pin has changed under an archive's name.
ReleaseCompletes ==
    <>[][CalmStep]_vars =>
        []<>(\/ marker /\ metadata = config
             \/ pc = "make" /\ \E x \in Required : Repinned(x))

\* The configuration whose component x is, if it can be shipped: all of it, from
\* the pinned source, and finished.  A tool may have failed on it, unnoticed.
Content ==
    [x \in Comp |->
        IF inst[x] = 0 THEN Nothing
        ELSE IF ~Finished(x) \/ from[x] # Pin[made[x]][x] THEN Broken
        ELSE IF x \in unfit THEN Unfit ELSE made[x]]

\* BundleBuild keeps the promises of BundleRelease: no recipe touches a
\* component of a marked prefix, the marker goes before the metadata and comes
\* after them (lines 821-866), and both only ever come to a whole release.
Promise == INSTANCE BundleRelease WITH
    Parts <- [c \in Configs |-> {Postgres} \cup Selects[c]],
    Damaged <- Broken,
    Spoilt <- Unfit,
    wanted <- config,
    running <- Tested,
    content <- Content,
    described <- metadata,
    published <- marker
ImplementsRelease == Promise!Spec
=============================================================================
