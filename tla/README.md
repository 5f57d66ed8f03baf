# Verification of pgembed

TLA+ models of pgembed, a Python package that ships PostgreSQL with a set of
extensions and runs it for the processes that ask for it. The models are
translated from the code of this repository; TLC checks them on small
instances, TLAPS proves the most important of their properties for every value
of their constants. Run everything from this directory:

    tlc -workers 2 -config PgFaults.cfg MCPostgresServer
    tlapm PostgresServerProofs.tla

Paths below are relative to the repository's root.

## 1. Inventory

| component | source | state it keeps | operations |
|---|---|---|---|
| server handles, postmaster lifecycle | `src/pgembed/postgres_server.py` | `_instances`, `_lock` (class-wide inter-process lock), `_pid_registered`, `_postmaster_info`, `_count`, `_cleanup_complete`; on disk `PGDATA`, `.handle_pids.json`, `postgresql.conf` | `get_server`, `__init__` with rollback, `ensure_*`, `__enter__/__exit__`, `_cleanup`, `psql`, `create_extension`, `age_*` |
| file helpers | `src/pgembed/utils.py` | `postmaster.pid` (written by PostgreSQL), `DiskList` | `PostmasterInfo.read_from_pgdata`, `is_running`, `get_and_add`, `get_and_remove`, socket and port choice |
| native bundle build | `pgbuild/Makefile`, `tools/relativize_native_install.sh` | bundle stamp, archives, source trees, build directory, prefix, completion marker | `make all`, `make <component>`, `make clean` |
| metadata generator | `tools/generate_bundle_metadata.py` | `build-metadata.json` | `generate`, `main` |
| local overlay | same file, from line 649 | frozen mode and copy, candidate, `pre`, `o2-work`, `real-overlay.done` | `--freeze-mode`, isolated crash proof, real overlay |
| metadata loader | `src/pgembed/_bundle_metadata.py` | two caches of a process | `load_bundle_metadata`, `validate_bundled_binaries` |
| extension availability | `src/pgembed/__init__.py` | `AVAILABLE_EXTENSIONS`, `_EXTENSION_PATHS` | `_detect_extensions`, on import |
| command wrappers, errors | `_commands.py`, `errors.py` | none | run a binary, raise |
| stannum index and search | `src/pgembed_stannum/_index.py`, `_sql.py` | names in a handle; in the database the extension, tables, indexes and other relations | `create`, `drop`, `search`, `search_count`, `analysis`, `check_health` |
| stannum hybrid search | `src/pgembed_stannum/_hybrid.py` | none; a transaction of two statements | `hybrid_search` |
| stannum adapters | `_retriever.py`, `langchain.py`, `llama_index.py` | none | conversions |
| packaging, audits, CI | `tools/`, `setup.py`, `.github/` | none of their own | sequential scripts |

How they interact: make builds the prefix and has the generator describe it;
the overlay edits that description; a process that imports pgembed reads it
and derives which extensions it offers; `get_server` then runs initdb and
pg_ctl of the prefix on a `PGDATA` that other processes may be using. Make,
generator and loader communicate by files only; processes with a handle by
`PGDATA`, `.handle_pids.json`, `postmaster.pid` and the lock file. Stannum's
handles meet in the database only, where they find tables and indexes by name.

What is hard, and what would make the component correct:

* *Server handles.* Processes interleave around a lock that they release
  between construction and rollback; any of them may crash or be interrupted,
  leaving PIDs in the list, a truncated list, a half-made cluster or an
  orphaned initdb; the postmaster may be slow, hang or die. Within a process
  several users share a handle, in and out of with-blocks, and a fork copies
  it. Correct means: a shared server and its data stay as long as a live
  process holds a handle, the last one to leave stops or deletes it, and no
  call waits for ever.
* *Bundle build.* Every recipe, and every `rm -rf` in it, can be cut short, the
  configuration can change in between, and make decides by modification times.
  Correct means: what carries the completion marker is complete, from verified
  sources and of one configuration, and a disturbed build can be completed.
* *Metadata.* Builds, development builds and overlays come in any order and
  files change behind their back; an overlay is a series of invocations that
  may overlap, stop and be repeated. Correct means: the loader accepts what the
  generators write, the document describes the files, one evidence directory
  makes one document, the recorded SQL files install the extension, and a
  process offers no extension that it cannot create.
* *Stannum.* Names are resolved anew in each statement, in two ways, while
  other sessions create and drop what they mean; a search is tied to its table
  by row addresses only. Rankings are cut off before they are fused, and an index
  on vectors does not deliver all rows. Correct means: a search reads its own
  table's index, and the fused order respects both rankings.

The hazards are listed one by one, at their lines, in `PROJECT.json`.

## 2. Modules

| module | content | proofs |
|---|---|---|
| `PostgresServer` | processes, handles, lock, list of PIDs, cluster, postmaster | `PostgresServerProofs` |
| `SharedCluster` | what `PostgresServer` promises to processes | `PostgresServerProofs` |
| `HandleUsers` | users, with-blocks and forks within processes | `HandleUsersProofs` |
| `BundleBuild` | the Makefile's stamp, sources, installs, metadata step, marker | `BundleBuildProofs` |
| `BundleRelease` | what `BundleBuild` promises to whoever ships the prefix | `BundleBuildProofs` |
| `BundleMetadata` | generator, overlay, loader, availability | `BundleMetadataProofs` |
| `LocalOverlay` | the overlay's invocations, make, a reader with caches | `LocalOverlayProofs` |
| `InstallPath` | the search for an extension's SQL files | `InstallPathProofs` |
| `StannumIndex` | names, tables, indexes and other relations | `StannumIndexProofs` |
| `RankFusion` | the ranking of a hybrid search | `RankFusionProofs` |

`MC*` modules are instances for TLC: model values, configurations, symmetry. A
definition marked "Mutant of" is a plausible mistake in the definition it
names. Nothing uses it; with it in place of the real one, TLC finds the
property violated that `PROJECT.json` pairs it with.

How the modules divide the system: `HandleUsers` takes each call of a process
as one step under the lock, and `PostgresServer` is that step in detail, for
one handle per process; `BundleMetadata` takes a make run as one step, and
`BundleBuild` has its recipes; `BundleMetadata` has what an overlay writes,
`LocalOverlay` when; `InstallPath` is behind the artefact "sql" of
`BundleMetadata`; `StannumIndex` has which table and index a statement reaches,
`RankFusion` what a hybrid search makes of their rows.

### PostgresServer

A process is its PID. `pc[p]` says how far `p` is: waiting for the lock
(`waitBuild`, `waitRollback`, `waitClose`), in one of the steps of `__init__`
(`Building`), of the rollback or of `_cleanup` (`Closing`), with a handle
(`attached`), without one (`none`) or dead.

| action | code |
|---|---|
| `GetServer`, `EnterConstruction` | `get_server` and the start of `__init__`: `inspect_pgdata` before and again under the lock |
| `PrepareMutableRuntime`, `StopStray`, `InitdbReturns` | `ensure_pgdata_inited` |
| `EnsureSharedPreloadLibraries` | the merge into `postgresql.conf` |
| `AdoptPostmaster`, `StartPostmaster`, `PgCtlStartReturns`, `PollReadiness`, `ReadinessDeadline` | `ensure_postgres_running` |
| `RegisterPid`, `Publish` | the end of `__init__` |
| `Rollback`, `RollbackReap` | `_rollback_failed_construction` |
| `Cleanup`, `EnterCleanup`, `CleanupReap`, `CleanupDelete` | `_cleanup` |
| `Interrupt`, `Crash`, `Respawn` | KeyboardInterrupt, death, reuse of the PID |
| `InitdbChild`, `PostmasterBoots`, `PostmasterExits` | the external programs, by what the Python code sees of them |

`Faults` names what may go wrong in an instance, so that a run can ask a
question about some faults without the noise of the others. Interrupts arrive
between steps; a crash also within a write (`torn`), an `rmtree` (`partial`,
`torn` clusters) or initdb, whose orphan goes on.
A `torn` cluster has a valid `PG_VERSION` and is not complete. The code cannot
tell it from a `ready` one (`Initialized`), and how far PostgreSQL gets with it
is PostgreSQL's matter: a postmaster started on it may exit (`PostmasterExits`)
or become ready. `.handle_pids.json` is a set:
no decision depends on its order. `info` abstracts the process object in
`_postmaster_info` to whether it still refers to the live postmaster. Flags of
a handle are reset when the next one is constructed.

While an initdb writes, the servers that it runs hold `postmaster.pid`, so that no
other start succeeds; the moments between these servers are left out.

Left out: threads of one process, a postmaster whose PID is reused,
`AccessDenied` when the reap signals the postmaster, socket directories, users
and permissions, SQL. A PID is reused only once the orphaned initdb of its
former owner has ended.

`ImplementsSharedCluster` is `SharedCluster`'s specification under a refinement
mapping: its `users` are the registered live processes, `closing` is what the
process in `closeReap` or `closeDelete` is about to do (`ClosingMode`), where a
process that was killed there no longer closes. Every action of
`PostgresServer` is one step of `SharedCluster` or a stutter; crashes, waits,
rollbacks and initdb's steps are stutters or `Leave`. What a rollback does to a
server that others use is `Down`, a postmaster that ends by itself: the promise
is about data and about who may come in, and `pg_rollback_race` about the rest.
The cluster there is whole, half or none. Nobody may make or change one that has
users; that users only ever have a whole one is not promised, since the code
does not keep it (section 6), but is `ServedIsComplete`, for the faults that
leave no half cluster.

### HandleUsers

`instance`, `count` and `complete` are `_instances[pgdata]`, `_count` and
`_cleanup_complete`; `frame` is the handle a place of the program has and
whether it is in a with-block. `GetServer` returns the process's handle or
makes one; `Enter`, `Exit` and `Cleanup` are `__enter__`, `__exit__` and
`cleanup`; `Fork` copies all of it, into a child that goes on from there or one
that starts with its target (multiprocessing); `Terminate` ends a process with
its atexit callback or without. A PID is not used again here, and the server
always starts; both are `PostgresServer`'s matter.

`OpenHandleIsServed` is about handles of a process's own. For an inherited
handle the code does not promise it: the child's PID is not in the list. A
handle that its user got by a second `get_server` and uses without a with-block
is closed with the first one's (section 6).

### BundleBuild

`Required` is what the goal makes; `TreeReady`, `StatusReady`, `BuildReady` and
`UpToDate` are make's view of a file, with `old` for "older than a
prerequisite". Each recipe
is one action whose last disjunct is the recipe cut short, by an error or a
kill. `SameStamp` and `ChangedStamp` are the stamp's recipe with the removals
of lines 380, 381 and 384; `FetchArchive`, `Unpack`, `Clone`, `Configure`, `BuildPostgres`,
`InstallPostgres`, `InstallExtension`, `Relativize` and the three steps of
`bundle-metadata` follow; `Reconfigure` is an edit of the Makefile or another
`EXTENSIONS`. `inst[x]` counts how much of `x` is installed, where `Target` is
the one file make looks at.

`Configure` writes `config.status`, which is make's target, and then the
`makefiles`, which are not. A configure that is killed in between leaves a
build that is `HalfConfigured`: `make -C` fails and configure is not run again.
After an interrupt from the keyboard make deletes the target; both are among the
outcomes. `Relativize` is a script that ignores every failure of its tools:
`unfit` are the components of which a tool failed on some file, which may be
left with absolute paths or damaged. With `ToolsFail = FALSE` there are none.

`cut` records that an `rm -rf` was cut off. `Careless` says whether such a
removal may be left unfinished; it is FALSE in both runs, so it is run again
before anything else (section 6 says what happens otherwise).

`ImplementsRelease` is `BundleRelease`'s specification under a refinement
mapping. There a run is either testing its targets or not (`running`, here
`Tested`); `content[x]` is the configuration that component `x` belongs to, or
`Damaged` when a part of it is missing, when it is not from the pinned source
of that configuration or when it was linked against relative libraries
(`Content`), or `Spoilt` when it is finished but a tool of relativize failed on
it unnoticed; `described` is
`metadata`, `published` the marker, `wanted` the configuration. What the stamp,
modification times and the order of the recipes are for is said there without
them: a run keeps the prefix only if all of it is wanted and clears it
otherwise (`Keep`, `Clear`), nothing of a published release is made anew
before it has been withdrawn (`Make`, `Withdraw`) but for what is `Spoilt`,
and only the whole release,
without components that it does not select, is described and published
(`Describe`, `Publish`). Removals, whole or cut off, are `Decay`.

Left out: the separate stamp of tigerfs, the dependency trees of firebird_fdw
and the curl bundle (part of the recipe of the extension that needs them),
several makes at once, `clean-all`. In the instances the archive's pin changes
under one name, as when only the hash in the Makefile is edited.

### BundleMetadata

Make's recipes run to their ends here, from the state after `make postgres`.
`files[c]` are the kinds of artefacts installed of `c`, `live` is
`build-metadata.json` with the flags, recorded paths and identity of each
component, `local` says that the installed pg_typesafe is a development build,
`cloned` that the pinned source has been cloned, which decides whether make
takes the library for up to date. `Generates` and `Document` are `generate()`,
`Accepts` is `_parse_metadata()`, `Overlay` the overlay from the live document
or, without one, from a generated one, `Import` is `_detect_extensions()` of a
fresh process. `touched` (an auxiliary variable) collects the components whose
files changed since the document was written.

Left out: versions of binaries, the fields of a record that no check relates to
another.

A wheel of its own is offered because its package is there; whether PostgreSQL
can create the extension from it is up to the wheel.

### LocalOverlay

A document is known by the build it describes and whether pg_typesafe's record
has been reconstructed; `Version[b]` is the PostgreSQL version of build `b`, which
is all that the loader asks the binaries for; all of an evidence directory's
files are variables, each absent, torn (created with `O_EXCL`, not yet written) or complete.

| action | code |
|---|---|
| `Freeze`, `CopyLive`, `FreezeMode` | `freeze_mode`: the mode follows from LIVE, its copy is written first |
| `Begin` | the start of `run_overlay`: refuses if `o2-work` or the marker is there |
| `BuildPre`, `ReadPre` | `build_pre`, from the frozen copy or `generate()`, and the reading of `pre` |
| `Write`, `Mark` | `atomic_write` of LIVE, or its end before the rename in a crash proof; the marker |
| `Stop` | any invocation is killed, or raises |
| `MakeBegins`, `MakeEnds` | make removes the metadata and writes them again, or fails |
| `Load`, `Attest`, `ClearCache` | the loader with `_metadata_cache` and `_binary_validation_cache` |

`rebuilt` (an auxiliary variable) says that make has been at work since the
process compared its document with the binaries: it does not compare it again.

### InstallPath

The search of `_installation_sql_paths`, one action for each thing an
iteration can do: `Start` the next install script, `Take` the first queued
chain, `Skip` a version met before, `Meet` a new one, `Arrive` at the default
version, `Answer` with the best candidate or `NotFound`. Versions are ranks in
the order of their names, file names follow from a chain. The search is
deterministic for given files; which files there are is the initial choice.
The guard against going through a version that has an install script of its own
turns out not to change the answer, since the chain from there is shorter.

### StannumIndex

A handle is a record of schema, table, column, index name and tokenizer; the
database has tables and indexes that are records of their names, so that a
table dropped and made anew is the same value without its indexes; `others` are
tables, views and indexes of other kinds that have a name which a handle's index
may have. What matters is how names are found: `QuotedTable` and `QuotedIndex`
for names in the text of a statement, `CastIndex` for the unquoted name in a
parameter that is cast to regclass (folded to lower case by `Fold`, along
`Path`). `Create` and `Drop` are the handle's operations, `Joined(h)` what a
search joins; `CreateTable`, `DropTable`, `CreateOther` and `DropOther` are other
sessions. `Create` returns without an index when anything in the schema has the
name (`Taken`), `Drop` takes away an index of whatever kind that has it.

Left out: field weights, stop words and tokenization, results, privileges,
stannum indexes that are made by other means than handles, and the planner
policy of `hybrid_search`: one comparison in a statement of its own, after which
other sessions may do what they like.

### RankFusion

`Ask` takes arguments that `_validate` accepts; `Answer` is the statement:
`Found` the text arm, `VectorRank` the other over the rows that its scan
delivers, `Score` their sum, `Hits` what
`ORDER BY rrf_score DESC, id LIMIT` returns. Where PostgreSQL or stannum may
break a tie as it likes, every way is an outcome. `Share[n]` stands for 1/n in
whole numbers: the order of the sums is modelled, not float8 rounding.
`Headroom` and `MinPool` are 5 and 50 in the code and 1 and 1 in the run, so
that pools do cut rows off.

`Scans` are what the scan under the vector arm may deliver: all rows, in a
sequential scan, with NULL as the farthest distance; or any part of the rows that
have a vector, from the hnsw, ivfflat or vchord index that `_hybrid.py:142-153`
asks for in a big table, which is approximate and has its own limit
(`hnsw.ef_search`, 40 rows by default and so below the pool). What is delivered
is assumed to come in the order of the distances. `answer.scanned` keeps it, and
the properties say of which rows they speak: with an index, a row that the scan
misses may be displaced by one that it finds.

## 3. Runs

| run | expects | question and answer |
|---|---|---|
| `pg_faults` | pass | Two processes, all modes, directories and faults: the last handle is alone when it stops or deletes (`LastHandleAlone`), no registered PID is lost (`RegisteredIsListed`), a complete cluster changes by that deletion only (`DataRemovedOnlyByLastDelete`), all of it is a `SharedCluster` (`ImplementsSharedCluster`). |
| `pg_sharing` | pass | Different preload libraries, failing programs: nobody is served a cluster that is not complete (`ServedIsComplete`), what was classified under the lock holds when it is acted on, requests of handle holders stay configured, and when nobody holds a handle no postmaster is left. |
| `pg_progress` | pass | Under fairness every construction and cleanup ends, although holders of the lock crash and the postmaster hangs; PIDs of the dead do not keep the server up. |
| `pg_rollback_race` | violation | A rollback stops the postmaster that another process registered between the two lock sections. |
| `handle_users` | pass | Three users in each of two processes, one perhaps a fork: open handles are served, leaving spares those inside, the last to leave closes, nobody takes away another process's server. |
| `bundle_safe` | pass | Two configurations, two goals, every recipe cut short anywhere, tools of relativize that fail: marker, stamp and sources are right, and what is published is complete (`PublishedIsComplete`: without libraries linked against a relativized PostgreSQL, and relativized but for the components on which a tool failed). |
| `bundle_progress` | pass | Two configurations, one without the extension and with another pin for its archive: all of it is a `BundleRelease` (`ImplementsRelease`); all recipes that a run needs must fail only with a build half configured or an archive pinned anew under its name (`RunCanProceed`); and after any disturbed past, undisturbed calls of `make all`, with a `make clean` if the build is half configured, publish a release unless such an archive is in the way. |
| `meta_safe` | pass | Builds, overlays, development builds, lost files in any order: accepted and true documents, right offers. |
| `overlay_safe` | pass | Two overlapping invocations, two more builds, a reader: one evidence directory makes one document, complete evidence is kept, metadata of builds after the marker stay (`LaterBuildsKeepTheirs`), accepted binaries have the version in their metadata. |
| `install_path` | pass | 2^15 choices of install and update scripts: the search ends with the best chain, or with NotFound if there is none. |
| `stannum_index` | pass | Six handles on three tables, other relations with the names of their indexes: which index a search joins, a drop removes, a create provides. |
| `rank_fusion` | pass | Every small table, every scan of it, every break of ties, 24 kinds of arguments: the fused result respects both rankings, is as long as what matches and is scanned allows, and an arm of weight zero displaces nobody whom the other one has. |

No run evaluates `TypeOK`: it is a theorem of each component (section 4).

The violated property quotes a test; `findings` in `PROJECT.json` has the
quotation.

### Bounds

* `PostgresServer`, two processes: every conflict is between one process in
  the lock and another one that waits, holds a handle or crashed. The theorems
  hold for any number. `pg_sharing` has one loadable and one unloadable
  library; `pg_progress` one mode and one directory, with faults that delay
  (interrupts end an attempt and cannot prevent its end). Symmetry of the two
  processes is used in the safety runs only.
* `HandleUsers`: two processes, so one fork; three users, so that one can be
  inside, one about to enter and one outside a with-block of the same handle;
  `MaxHandles = 2`: a handle is made anew once after its cleanup.
* `BundleBuild`: one extension fetched as an archive, one as a checkout; two
  configurations, A, and B without the first extension and with both pins moved,
  that of the archive under its old name; so each is both the old and the new one
  of an edit, and what a third could leave behind is archives and trees of
  another pin, as these do. Goals are `all` and the archive's extension, which A
  selects and B does not: it can be made without being selected, and its files
  are in the way of the next release. `bundle_progress` has only that extension.
  Of an extension, `LevelsOf` has no level between the file make looks at and
  `Partial`: nothing tells them apart.
* `BundleMetadata`: pg_typesafe, pgvector (with a wheel of its own), SQL-only
  pgmq and tigerfs, two platforms, three selections. `MaxTouched = 1`: files
  get lost of one component at a time; records and checks of different
  components do not depend on each other.
* `LocalOverlay`: two invocations at a time (they only meet through files, a
  third one adds no new meeting), `MaxBuilds = 2`: a build before and one after
  an overlay; the second has the first one's version, the third another one and
  metadata that the loader rejects.
* `InstallPath`: five versions, so that the ways of two starts can share a
  version or lead through one another; ten possible update scripts with cycles
  and downgrades, any set of which may exist.
* `StannumIndex`: two schemas on the search path with a table of one name, a
  second table whose default index name collides with the first one's, a handle
  with a name in capitals, one with another tokenizer, and other relations of any
  of the names in either schema.
* `RankFusion`: up to three rows, two scores and no match, two distances and a
  missing vector; pools and limits of 1 and 2 cut off one or two of three rows.
* No counter is unbounded: times, retries and deadlines are abstracted to
  events that may happen.

Deadlock is not checked in `pg_faults` and `pg_progress` (all processes may be
dead, or the callers done), `handle_users` (all processes may have ended),
`install_path` and `rank_fusion` (a call returns once).

### Fairness

`PostgresServer`: weak fairness of a process's own steps (it is running code),
of initdb (it ends), and strong fairness of taking the lock, since fasteners
polls the file and a waiter sees it free again and again. Nothing is assumed of
callers, of faults or of the postmaster; that is why deadlines matter.
`BundleBuild`: `ReleaseCompletes` says that *if* from some time on only
undisturbed steps of `make all` happen (`CalmStep`), a release is published;
`FairSpec` assumes only that these steps are taken while they are possible. The
end of a run for one component, and a generator that refuses a prefix with a
component too many, are no disturbance: the next run has to cope with them.
`InstallPath`: weak fairness of the next step of one sequential function.

## 4. Theorems

All are proved for every value of the constants, from the named assumptions
that the modules make of them: that model values differ, that parameters are
subsets of what the module knows, that sets of users, versions and documents
are finite, and in `RankFusion` that `Share` falls strictly. Every one of these
components has `TypeCorrect`, that `TypeOK` is invariant.

`PostgresServerProofs`:

* `LastHandleIsAlone`: `LastHandleAlone`; `RegisteredIsKept`:
  `RegisteredIsListed`. Neither is
  inductive: they say nothing of why two processes cannot be in the critical
  section. `HandleInv` adds that the holder of every critical position owns the
  lock (`LockHeld`), that only live processes are registered
  (`RegisteredAlive`), and that while one is closing nobody is
  (`ClosingAlone`): it pruned the list under the lock and registration needs
  the lock.
* `DataIsInitialized`: `DataInv`; `DataIsSafe`: `DataRemovedOnlyByLastDelete`.
  `DataInv` adds to `HandleInv` that users are registered, that whatever is
  served, registered or being closed has a `PG_VERSION` and no initdb at work
  (`ServedIsInitialized`), that at most one initdb writes and only into an
  incomplete one (`OneWriter`, which the orphans of crashed processes make
  necessary), and that a deletion was asked for.
* `DataIsComplete`: `ServedIsComplete`, assuming that `Faults` has none of crash,
  interrupt and rm. Each of these three leaves half a cluster with a valid
  `PG_VERSION`, which the next start uses: TLC finds a counterexample with any of
  them. The invariant is `CalmInv` (below) and that no cluster is `torn` but
  under a running initdb (`NothingHalfDone`).
* `ClassificationIsStable`: `ClassificationHolds`, and `LibrariesAreKept`:
  `RequestedLibrariesPersist`, both assuming `"crash" \notin Faults`. Without
  that they are false: the orphaned initdb of a killed process writes into a
  directory that another one has classified since. `CalmInv` adds to `DataInv`
  that no initdb is without its caller and that the configuration of
  everything started has what its caller asked for.
* `NobodyIsLeftBehind`: `NoOrphanServer`, assuming that `Faults` has none of
  crash, interrupt, slow and stop and that no handle is in mode `"none"`; with
  any of these a server may outlive its users, by design or as section 6 says.
  `QuietInv` adds to `DataInv` that the list is exactly the registered
  processes, that a registered one has a handle, and that a postmaster has a
  registered user or is in the hands of the process at the lock (`ServerHasOwner`).
* `SharedServersStay`: `SharedServerStaysUp`, which `pg_rollback_race` shows
  violated, assuming that `Faults` has none of crash, interrupt, slow, exec,
  death and rm. The assumption is exact: TLC finds a counterexample with each of
  these six alone (on half a cluster, which rm leaves, a postmaster may exit).
  Stops that fail and unloadable libraries are allowed. `SteadyInv` adds to `CalmInv`
  that neither list nor cluster is torn, that a start that pg_ctl has begun
  succeeds and stays, so that whoever is registered is served
  (`RegisteredAreServed`), and that a rollback begins only where the configuration
  cannot be loaded and nobody is or will be served (`RollbackIsIdle`).
* `OnlyRollbacksTake`: without any assumption, a step at the lock that takes
  away a postmaster for which another process is registered is the reap of a
  rollback, by a process that started a postmaster. So the race is the only way.
* `OnePostmasterPerPath`: no stray postmaster next to one that serves, assuming
  no crash, no failing stop and no `rmtree` that leaves files; with either of the
  first two a second one is possible (for a crash, with a third process and a
  dying postmaster).
* `LockIsNotLost`: the lock is held exactly within the three with-blocks.
* `LastCloseStops`: `LastCloseStopsServer`, assuming only that stops neither fail
  nor are interrupted: processes may be killed and PIDs reused.
* `AttemptsAdvance`: whatever the others do, a process's own attempt only goes
  forward, but for the polling of a starting postmaster. This is what can be
  proved of `AttemptFinishes` and `CleanupFinishes`.
* `Refinement`: `Spec` implies `ImplementsSharedCluster`. `DataInv` is what makes
  each step a step of the abstract cluster; the actions are grouped by what they
  change of it (nothing, users and cluster, the closing, the postmaster).

`HandleUsersProofs`: `OpenHandlesAreServed`, `LeavingIsSafe`,
`OthersAreSpared`, from `HandleInv`: a user's handle is one that
its process has made, and `_count` of a handle is at least the number of users
inside (a forked child that has no users keeps its parent's counts, which are
then too high; too low it never is). `LastOneCloses` (`LastExitCloses`) needs the
other half: `CountIsExact`, that of handles of a process's own the count is that
number. It rests on a fork's inherited handles being all that its
parent had made (`InheritedIsMade`), so that of others nobody is inside.

`BundleBuildProofs`, all but `TypeCorrect`, `RunProceeds` and `RunsAdvance`
assuming that a removal that was cut off is run again (`Careless = FALSE`), and
that components have different file names:

* `PrefixIsOfStamp`: `PrefixMatchesStamp`; `SourcesAreVerified`:
  `VerifiedSourcesOnly`. Both speak of the current configuration, which may be
  edited between runs; `StampInv` says instead that prefix, ready trees and
  build belong to the stamp, whatever the configuration is.
* `MarkedIsTrue`: `MarkedIsReleased`; `PublishedIsARelease`:
  `PublishedIsComplete`. `ReleaseInv` adds to `StampInv` that all of a marked
  release is up to date, so that no recipe of the same stamp touches it again
  (`MarkedIsSettled`), that a release build without marker began with an empty
  prefix, in which each component is whole and was linked before anything was
  relativized (`FreshPrefix`), and what that leaves for the metadata steps
  (`FinishedPrefix`). The goals are any, so this also covers extensions that are
  made without being selected. Components on which a tool of relativize failed
  unnoticed are exempt from being whole and relative.
* `FaithfulToolsRelativize`: assuming `ToolsFail = FALSE` too, all of a marked
  prefix is whole and relative. So those failures are the only way in which the
  marker can come to stand on less.
* `ReleaseRefinement`: `Spec` implies `ImplementsRelease`. `ReleaseInv` and
  `StampInv` make each step one of the release (`ReleaseStep`).
* `RunProceeds`: `RunCanProceed`, without an assumption: a removal that was cut
  off may be left. What is stuck is named in the property, a build that is half
  configured or an archive that another configuration pinned under its name
  (`Repinned`). The invariant, `ArchivesArePinned`, is that an archive is always
  what some configuration pins under its name; the rest is that prerequisites do
  not wait for each other.
* `RunsAdvance`: each recipe that a run gets through lowers a measure, ordered by
  the prerequisites: what it makes older comes later. With `RunProceeds` it is
  what can be proved of `ReleaseCompletes`.

`BundleMetadataProofs`:

* `MetadataAccepted`: `AcceptedWithTigerfs`. `LiveInv` strengthens it to
  documents with a skipped tigerfs, since the overlay builds upon those too.
* `MetadataTrue`: `MetadataDescribesFiles`. `DescriptionInv` adds that files
  are of kinds that their component has, and `LiveInv`.
* `OfferedUsable`: `OfferedIsUsable`, from acceptance alone: an accepted record
  of a built extension names every file it needs.
* `ReleaseIsOffered`: `ReleaseOffersSelection`. `ReleaseInv` says that while the
  prefix is marked its metadata are those of the present request, or of the
  overlay: whatever changes the request removes the marker, and a component
  made since does not change the metadata.

`LocalOverlayProofs`: `OverlayWritesWhatWasFrozen` (`OverlayIsFrozen`),
`MarkerProtectsLaterBuilds` (`LaterBuildsKeepTheirs`), `AttestationHolds`
(`AttestedFits`). `EvidenceInv` says that a torn evidence file is being filled by at most one
invocation, since `O_EXCL` lets one create it, and that what an invocation
holds at each step is the frozen document. From it follows also `EvidenceStays`
(`EvidenceIsKept`): no complete evidence file ever changes. For
`LaterBuildsKeepTheirs`, the marker keeps any overlay from beginning, and what
crash proofs and make do after it leaves LIVE fitting the build.

`InstallPathProofs`: `AnswersInstall` and `AnswersAreBest`, that the search is
correct and complete for any versions and scripts. `BestInv` says of the
present start that the queue is sorted by length, of two lengths at most, and
that every visited version has a level such that its updates lead at most one
level on to visited versions, unless it is still queued or in hand; of the past
ones that their candidate is a shortest chain, or that there is none. That a
way which reaches the default version must cross the frontier of
what has been visited is an induction over its positions, made by the
well-foundedness of the naturals with an explicit set (`Frontier`).
`SearchContinues` says that a search without an answer can take a step,
`SearchAdvances` that every step uses up a start, meets a new version, shortens
the queue or takes a pending update: what can be proved of `SearchEnds`.

`StannumIndexProofs`: `SearchesStayAtHome` (`OwnIndexOnly`), `DropsStayAtHome`
(`DropsOwnIndexOnly`). `IndexInv` says that every index has the default or given
name, and the tokenizer, of a handle of its table (`NamedByHandles`), and that
names are unique in a schema, among relations of all kinds. `CreatedIsSearchable`
(`CreateMakesSearchable`) rests on the resolution of a name along a `search_path`
of any length: the least position whose schema has it, by the well-foundedness of
the naturals (`VisibleExists`).

`RankFusionProofs`: `FusionRespectsRankings` (`FusionIsMonotone`). A better row
has no greater rank, 0 (absent) read as the greatest, in each arm, hence no
smaller part and no smaller sum; and the first rows of an order contain with a
row what precedes it. What a scan misses is absent, so a better row must be
scanned if the worse one is. `EnoughAreReturned` (`EnoughHits`): places in an
order of `n` rows are taken once each, so `m` of them are within `m`
(`FirstPlaces`), of the scanned rows and of the fused ones; an arm that is cut
off has as many rows as the limit, and arms that are not have all that matches
and is scanned. `SilentArmIsHarmless`
(`SilentArmDisplacesNobody`): a row that the pool of the only weighted arm cuts
off leaves at least `limit` rows with a score above zero.

Only model-checked: liveness, which with `ENABLED` is out of the prover's reach
(`AttemptFinishes`, `CleanupFinishes`, `ReleaseCompletes`, `SearchEnds`): of each
the theorems have that something can be done and that what is done leads on, and
not that fairness turns the two into an end. Every safety property of the
passing runs, and both refinements, are theorems.

## 5. Not modelled

* Threads. Nothing in the repository promises use from several threads. The
  lock is one object per process and no mutex between threads: a second
  acquire succeeds at once, and the second release fails. `HandleUsers` has
  several users, one call after the other.
* The age helpers: a few statements in one transaction of the caller's, no
  state of this code. `psql` and `create_extension`: SQL in, result out.
* Socket directories, ports, users and permissions: pure I/O.
* `clean-all`, tigerfs's own stamp, the dependency trees of firebird_fdw and
  the curl bundle: the same patterns as the stamps and trees of `BundleBuild`,
  within the recipe of an extension. Several makes at once: nothing in the
  Makefile supports them.
* Stannum's stop words, analysis and health: they pass on what the extension
  returns. Its adapters convert results. The planner policy is one comparison, and
  nothing keeps what it looked at as it is until the next statement.
* Packaging, audits, CI: sequential scripts over finished files.

Worth doing next: the reuse of a postmaster's PID.

## 6. Known deviations

What the models show, or what was met while they were written, and no passing
property says otherwise:

* A rollback may stop a postmaster that others use (`pg_rollback_race`); nothing
  else at the lock can (`OnlyRollbacksTake`), and without crashes, interrupts, slow
  starts, failing programs and dying postmasters it cannot (`SharedServersStay`).
* A start that times out before `postmaster.pid` is there leaves its postmaster
  alive if `pg_ctl stop` fails as well, which it does without that file; the
  comment at `postgres_server.py:408` says that pg_ctl can stop it by PGDATA.
* A child of `os.fork()` has the parent's handle without being in the list of
  PIDs. Its cleanup prunes a parent that has died and does not stop the server,
  and the parent may stop the server while the child uses it.
* `age_setup` rolls back when the graph exists already and so undoes its own
  `SET search_path` (`postgres_server.py:548`).
* A cluster whose initdb was killed or interrupted after it wrote `PG_VERSION`, or
  of which an `rmtree` left that file, is taken for a complete one: a valid
  `PG_VERSION` is all that `inspect_pgdata` and `ensure_postgres_running` look at.
  PostgreSQL may then refuse to start, or serve it (with `crash`, `interrupt` or
  `rm` TLC finds `ServedIsComplete` violated).
* A handle got by a second `get_server` and used without a with-block is closed
  when the with-block of the first one ends: `_count` knows of with-blocks only
  (`postgres_server.py:575`).
* A `configure` that is killed after it wrote `config.status` and before the
  makefiles leaves a target that is newer than its prerequisites: every later run
  fails in `make -C` until `make clean` (`Makefile:431-436`).
* `relativize_native_install.sh` ignores failures of `patchelf`,
  `install_name_tool` and `codesign` (lines 31, 59, 61, 71, 75, 80 and 86) and
  exits 0: a release may be marked and shipped with absolute library paths in
  some files, or with damaged ones. The properties of `BundleBuild` exempt the
  components concerned and no others.
* An `rm -rf` of the prefix or the trees that was cut off leaves the stamp; if
  the four executables, the marker and the metadata are still there, the next
  release build with that stamp takes the prefix for complete
  (`Makefile:380-384`, `870`). With `Careless = TRUE`, TLC finds
  `MarkedIsReleased` violated.
* An archive whose name stays while its hash changes fails every run until
  `clean-all` (`Makefile:454-462`).
* `make` of an extension that is not selected puts its files into a marked
  prefix and leaves the marker and the metadata, which do not describe them
  (`Makefile:387`). The next `make all` removes the marker, fails in the
  generator, and only the one after that builds anew; so what is published is
  right (`PublishedIsComplete`), what is marked holds the release and perhaps
  more (`MarkedIsReleased`).
* An extension that is made after a release links against the relativized
  libpq; `PublishedIsComplete` is about releases.
* A development build of pg_typesafe whose files are newer than the pinned
  source stays when make runs, and is recorded with the pinned commit.
* With a requested tigerfs that is skipped, the generator keeps the archive's
  hash (`generate_bundle_metadata.py:435`) and the loader refuses the document
  (`_bundle_metadata.py:277`). An overlay without document and tigerfs does so.
* An overlay that was killed between its candidate and `pre`, or within either,
  cannot be repeated with the same evidence directory. Two overlapping real
  overlays both write LIVE, the same document; the second one raises at the
  marker.
* A real overlay that is killed after its rename and before its marker may be run
  again, and then overwrites the metadata of whatever was built since from the
  frozen copy (`generate_bundle_metadata.py:865`); so does one that was already on
  its way. `LaterBuildsKeepTheirs` begins with the marker.
* `validate_bundled_binaries` asks for versions only: binaries of another build of
  the same PostgreSQL version fit any metadata of it. And once it has compared
  them, a process does not do so again when make replaces them.
* Stannum passes names to regclass without quotes, so that names with capitals
  are folded there and nowhere else (`_index.py:389`).
* `CREATE INDEX IF NOT EXISTS` is satisfied by any relation of the name
  (`_index.py:222`), and `create()` returns: a table, a view or an index of
  another kind, on which searches then fail; or an index of another table, of
  another column or with another tokenizer. With colliding default names the
  handle's searches then join another table's index by ctid. Unqualified handles
  depend on the search path in the same way. `drop()` takes away any index that
  has the name, also one of another kind or one that somebody made anew.
* `drop_stop_words` tokenizes with the handle's tokenizer, where the docstring
  says the index's (`_index.py:255`).
* "Never a silent big-table sequential scan" (`_hybrid.py:15`) does not hold for
  a table that has never been counted (`reltuples = -1`), for one whose index is
  dropped between the two statements, or whose index cannot serve the query
  (a partial one, or one of another kind).
* Above the threshold a hybrid search depends on an approximate index: its scan
  leaves out rows without a vector and any number of others, and by default has
  fewer rows than the pool (`hnsw.ef_search` is 40, the pool at least 50). So a row
  that stands first in the vector ranking may be missing, and a search may return
  fewer rows than its limit although the table has them. In a sequential scan a row
  without a vector does get a rank (NULLs sort last); ids that occur twice
  multiply in the join; a `candidate_limit` below
  `limit` is not refused and may give fewer hits than `limit`.
