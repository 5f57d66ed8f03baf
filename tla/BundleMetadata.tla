---------------------------- MODULE BundleMetadata ----------------------------
(***************************************************************************)
(* build-metadata.json between its writers and its reader.  make writes it *)
(* with generate(), from the selection and what is installed; the local    *)
(* overlay writes it after a development build of pg_typesafe; a process   *)
(* that imports pgembed validates it and derives from it, and from the     *)
(* files, which extensions are available.  Files may change in between.    *)
(* An overlay is frozen and run in one go, with evidence of its own.       *)
(***************************************************************************)
EXTENDS Naturals, FiniteSets

CONSTANTS
    Ext,        \* the extensions of the catalogue
    SqlOnly,    \* those without a library
    Typesafe,   \* pg_typesafe, which the overlay replaces
    Tigerfs,    \* a program, not an extension
    Supported,  \* what may be supported: sets of extensions, one per platform
    Standalone, \* extensions that have a wheel of their own
    Requests,   \* values of EXTENSIONS that make is called with
    MaxTouched, \* bound: components changed when files get lost
    Nothing

Comp == Ext \cup {Tigerfs}

ASSUME CatalogueAssumption ==
    /\ SqlOnly \cup {Typesafe} \cup Standalone \subseteq Ext
    /\ Typesafe \notin SqlOnly
    /\ Tigerfs \notin Ext
    /\ Typesafe \notin Standalone
    /\ MaxTouched \in Nat
    /\ Nothing \notin {"pinned", "local"}
    /\ Supported \subseteq SUBSET Ext
    /\ Requests \subseteq SUBSET (Ext \cup {Tigerfs})

\* "sql" is an installation path to the control file's default version.
Artefacts == {"library", "control", "sql", "binary"}
Needed(c) == IF c = Tigerfs THEN {"binary"}
             ELSE IF c \in SqlOnly THEN {"control", "sql"}
             ELSE {"control", "sql", "library"}
Possible(c) == IF c = Tigerfs THEN {"binary"} ELSE Artefacts \ {"binary"}

Identities == {Nothing, "pinned", "local"}
Records == [requested : BOOLEAN, built : BOOLEAN, skipped : BOOLEAN,
            paths : SUBSET Artefacts, id : Identities]
ASSUME NothingAssumption == Nothing \notin [Comp -> Records]

VARIABLES
    files,      \* what is installed of each component
    local,      \* is the installed pg_typesafe a development build?
    cloned,     \* is there a verified source of the pinned pg_typesafe?
    requested,  \* the stamp's requested_extensions
    supported,  \* the extensions this platform supports
    live,       \* build-metadata.json
    marker,     \* .bundle-complete
    touched,    \* components whose files changed since live describes them
    attested,   \* standalone wheels that attest this PostgreSQL major
    available   \* AVAILABLE_EXTENSIONS of the process that imported last

vars == <<files, local, cloned, requested, supported, live, marker, touched,
          attested, available>>

TypeOK ==
    /\ files \in [Comp -> SUBSET Artefacts]
    /\ \A c \in Comp : files[c] \subseteq Possible(c)
    /\ {local, cloned, marker} \subseteq BOOLEAN
    /\ requested \in Requests
    /\ supported \in Supported
    /\ live = Nothing \/ live \in [Comp -> Records]
    /\ touched \in SUBSET Comp
    /\ attested \in SUBSET Standalone
    /\ available \in SUBSET Ext

\* After make postgres with some EXTENSIONS.
Init ==
    /\ files = [c \in Comp |-> {}]
    /\ local = FALSE
    /\ cloned = FALSE
    /\ requested \in Requests
    /\ supported \in Supported
    /\ live = Nothing
    /\ marker = FALSE
    /\ touched = {}
    /\ attested \in SUBSET Standalone
    /\ available = {}

-----------------------------------------------------------------------------
\* generate(), called with selections req, built and skip.  The Makefile and
\* the overlay pass a lock for every component.

\* Mutant of Consistent: unselected components are not looked at.
BuiltThere(f, built) == \A c \in built : Needed(c) \subseteq f[c]

\* What was built is there, without a library if it has none; of anything else
\* there is no file.
Consistent(f, built) ==
    /\ \A c \in built : Needed(c) \subseteq f[c]
    /\ \A c \in built \cap SqlOnly : "library" \notin f[c]
    /\ \A c \in Comp \ built : f[c] = {}

\* Mutant of Identity: the lock of an unselected component is recorded.
AlwaysIdentified(c, req, built, skip) == "pinned"

\* A skipped component keeps its pin.
Identity(c, req, built, skip) ==
    IF c \in built \/ c \in req THEN "pinned" ELSE Nothing

Record(c, req, built, skip) ==
    [requested |-> c \in req, built |-> c \in built, skipped |-> c \in skip,
     paths |-> IF c \in built THEN Needed(c) ELSE {},
     id |-> Identity(c, req, built, skip)]

Generates(f, req, built, skip) ==
    /\ built \cap skip = {}
    /\ req = built \cup skip
    /\ Consistent(f, built)
Document(req, built, skip) == [c \in Comp |-> Record(c, req, built, skip)]

-----------------------------------------------------------------------------
\* _parse_metadata(): the records the loader accepts.

AcceptedExtension(e, r) ==
    /\ ~(r.built /\ r.skipped)
    /\ r.requested <=> r.built \/ r.skipped
    /\ r.built => r.id # Nothing /\ {"control", "sql"} \subseteq r.paths
    /\ r.built => ("library" \in r.paths <=> e \notin SqlOnly)
    /\ ~r.built => r.paths = {}

AcceptedTigerfs(r) ==
    /\ ~(r.built /\ r.skipped)
    /\ r.requested <=> r.built \/ r.skipped
    /\ IF r.built THEN r.paths = {"binary"} /\ r.id # Nothing
                  ELSE r.paths = {} /\ r.id = Nothing

Accepts(doc) ==
    /\ \A e \in Ext : AcceptedExtension(e, doc[e])
    /\ AcceptedTigerfs(doc[Tigerfs])

-----------------------------------------------------------------------------
\* make, with the recipes of BundleBuild run to their ends.

\* FINAL_EXTENSIONS and SKIPPED_EXTENSIONS; no platform lacks tigerfs.
Final(req) == req \cap (supported \cup {Tigerfs})
Skipped(req) == req \ Final(req)

\* The file make looks at.
Target(c) == IF c = Tigerfs THEN "binary"
             ELSE IF c \in SqlOnly THEN "control" ELSE "library"

\* What is left of the prefix when the stamp's recipe has run: nothing under a
\* new selection, or for a release when there is none yet.
Kept(req, release) == req = requested /\ (release => marker /\ live # Nothing)
Prefix(req, release) ==
    IF Kept(req, release) THEN files ELSE [c \in Comp |-> {}]

\* What is there counts as up to date, unless its source is only cloned now; a
\* component's recipe writes all of it.
Cloned(req) == req = requested /\ cloned
Missing(f, req, goals) ==
    {c \in goals : Target(c) \notin f[c] \/ (c = Typesafe /\ ~Cloned(req))}

\* The part of make that builds goals in what is left of the prefix.
Make(req, goals, release) ==
    LET before == Prefix(req, release)
        missing == Missing(before, req, goals) IN
    /\ requested' = req
    /\ files' = [c \in Comp |-> before[c] \cup (IF c \in missing THEN Needed(c) ELSE {})]
    /\ local' = (local /\ before[Typesafe] # {} /\ Typesafe \notin missing)
    /\ cloned' = (Cloned(req) \/ Typesafe \in goals)
    /\ UNCHANGED <<supported, attested, available>>

\* make all: the old metadata and the marker go in any case.
MakeAll(req) ==
    /\ Make(req, Final(req), TRUE)
    /\ marker' = Generates(files', req, Final(req), Skipped(req))
    /\ live' = IF marker' THEN Document(req, Final(req), Skipped(req)) ELSE Nothing
    /\ touched' = {}

\* make <component>, for one that the platform supports.
MakeOne(req, c) ==
    /\ c \in supported \cup {Tigerfs}
    /\ Make(req, {c}, FALSE)
    /\ live' = IF Kept(req, FALSE) THEN live ELSE Nothing
    /\ marker' = (Kept(req, FALSE) /\ marker)
    /\ touched' = IF Kept(req, FALSE) THEN touched \cup Missing(files, req, {c})
                  ELSE {}

-----------------------------------------------------------------------------
\* The local overlay of pg_typesafe.

\* The development build installs over whatever is there.
InstallLocal ==
    /\ files' = [files EXCEPT ![Typesafe] = Needed(Typesafe)]
    /\ local' = TRUE
    /\ touched' = touched \cup {Typesafe}
    /\ UNCHANGED <<cloned, requested, supported, live, marker, attested, available>>

\* Without metadata the overlay calls generate() itself: what has a control
\* file was built, or tigerfs' binary, the rest of the request was skipped.
Present == {e \in Ext : "control" \in files[e]}
           \cup {c \in {Tigerfs} : files[c] # {}}

\* Mutant of Reconstruct: the flags of the record stay as they were.
PathsOnly(doc) == [doc EXCEPT ![Typesafe].paths = Needed(Typesafe),
                              ![Typesafe].id = "local"]

\* pg_typesafe's record is filled in from the installed files.
Reconstruct(doc) ==
    [doc EXCEPT ![Typesafe] =
        [requested |-> TRUE, built |-> TRUE, skipped |-> FALSE,
         paths |-> Needed(Typesafe), id |-> "local"]]

Overlay ==
    LET skip == requested \ Present IN
    /\ local
    /\ files[Typesafe] = Needed(Typesafe)
    /\ \/ /\ live # Nothing
          /\ live' = Reconstruct(live)
          /\ touched' = touched \ {Typesafe}
       \/ /\ live = Nothing
          /\ Generates(files, requested, Present, skip)
          /\ live' = Reconstruct(Document(requested, Present, skip))
          /\ touched' = {}
    /\ UNCHANGED <<files, local, cloned, requested, supported, marker, attested,
                   available>>

-----------------------------------------------------------------------------
\* The reader.

\* Installed files get lost, standalone wheels come and go.
LoseFiles(c) ==
    /\ Cardinality(touched \cup {c}) <= MaxTouched
    /\ \E lost \in files[c] : files' = [files EXCEPT ![c] = @ \ {lost}]
    /\ touched' = touched \cup {c}
    /\ UNCHANGED <<local, cloned, requested, supported, live, marker, attested,
                   available>>
ChangeStandalone ==
    /\ attested' \in SUBSET Standalone \ {attested}
    /\ UNCHANGED <<files, local, cloned, requested, supported, live, marker,
                   touched, available>>

\* Mutant of Complete: the library and the SQL files are not looked at.
ControlOnly(e) == "control" \in files[e]

\* _bundled_artifacts_are_complete()
Complete(e) == live[e].paths \subseteq files[e]

\* _legacy_artifacts_exist(); no library file is known of an SQL-only one.
Stale(e) == files[e] \cap (IF e \in SqlOnly THEN {"control", "sql"} ELSE Artefacts) # {}

Offered(e) ==
    \/ live[e].built /\ Complete(e)
    \/ ~live[e].built /\ ~live[e].skipped /\ ~Stale(e) /\ e \in attested

\* _detect_extensions(), when a process imports pgembed.
Import ==
    /\ available' = IF live # Nothing /\ Accepts(live)
                    THEN {e \in Ext : Offered(e)} ELSE {}
    /\ UNCHANGED <<files, local, cloned, requested, supported, live, marker,
                   touched, attested>>

-----------------------------------------------------------------------------
Next ==
    \/ \E req \in Requests : MakeAll(req) \/ \E c \in Comp : MakeOne(req, c)
    \/ InstallLocal
    \/ Overlay
    \/ \E c \in Comp : LoseFiles(c)
    \/ ChangeStandalone
    \/ Import

Spec == Init /\ [][Next]_vars

-----------------------------------------------------------------------------
\* Properties.

\* The generator and the loader agree on every document in which tigerfs was
\* not skipped, whatever sequence of builds, losses and overlays wrote it.
AcceptedWithTigerfs ==
    live # Nothing /\ ~live[Tigerfs].skipped => Accepts(live)

\* Files that are as the last build or overlay left them are what the metadata
\* say: all of what was built and nothing else.
MetadataDescribesFiles ==
    live # Nothing =>
        \A c \in Comp \ touched :
            files[c] = IF live[c].built THEN Needed(c) ELSE {}

\* Selected extensions, and the one that the overlay added.
Selected == Ext \cap (Final(requested) \cup {e \in Ext : live[e].id = "local"})

\* After a release build that nothing has touched, a process offers exactly
\* what was selected and is supported, plus the extensions that were not
\* selected and whose own wheels attest this PostgreSQL.
ReleaseOffersSelection ==
    [][Import /\ marker /\ touched = {} =>
         available' = Selected \cup (attested \ requested)]_vars

\* Whatever has happened to the files, an extension that a process offers is
\* installed in full or is the standalone one of an unselected extension, and
\* nothing skipped is offered.
OfferedIsUsable ==
    [][Import =>
         \A e \in available' :
            /\ ~live[e].skipped
            /\ Needed(e) \subseteq files[e] \/ (e \in attested /\ ~live[e].built)]_vars
=============================================================================
