----------------------------- MODULE LocalOverlay -----------------------------
(***************************************************************************)
(* The local overlay of build-metadata.json as the separate invocations it *)
(* consists of, with one evidence directory: freeze the mode, prove in     *)
(* o2-work that a crash before the rename is harmless, overlay LIVE.       *)
(* Invocations may overlap, stop anywhere and be repeated, and make may    *)
(* build in between.  A process that imported pgembed caches what it read  *)
(* of LIVE and that the binaries report the version it says.               *)
(***************************************************************************)
EXTENDS Naturals

CONSTANTS
    Run,        \* invocations that may be under way at a time
    MaxBuilds,  \* bound: builds that make begins
    Version,    \* Version[b]: the PostgreSQL version that build b reports
    Rejected,   \* builds whose metadata the loader does not accept
    LiveExisting, BootstrapGenerate, \* the modes
    Nothing,    \* no file, no metadata
    Torn,       \* a file that was created and not written
    Miss        \* an empty cache

ASSUME OverlayAssumption ==
    /\ MaxBuilds \in Nat
    /\ Rejected \subseteq 0..MaxBuilds

\* A document is known by the build it describes and whether it has the
\* reconstructed record of pg_typesafe.
Documents == [build : 0..MaxBuilds, overlaid : BOOLEAN]
Modes == {LiveExisting, BootstrapGenerate}

ASSUME NothingAssumption ==
    /\ {Nothing, Torn, Miss} \cap (Documents \cup Modes) = {}
    /\ Torn # Nothing
    /\ Miss # Nothing
    /\ LiveExisting # BootstrapGenerate

\* What an overlay may start from.
Inputs == {"initial", "candidate", "pre"}

VARIABLES
    live,      \* build-metadata.json: a document, or Nothing
    build,     \* the build whose files are installed
    making,    \* make is between the removal of LIVE and its recreation
    mode,      \* overlay.mode
    evidence,  \* live-initial, generate-candidate and pre
    o2,        \* o2-work exists
    done,      \* real-overlay.done exists
    pc,        \* how far an invocation is
    isolated,  \* it is a crash proof
    held,      \* the document, or mode, it has in memory
    tried,     \* auxiliary: documents that overlays or proofs wrote
    cache,     \* _metadata_cache: Miss, Nothing or a document
    validated, \* _binary_validation_cache
    rebuilt    \* auxiliary: make began or was running since they were compared

evidenceVars == <<mode, evidence, o2, done>>
runVars == <<pc, isolated, held>>
buildVars == <<build, making>>
readerVars == <<cache, validated, rebuilt>>
vars == <<live, buildVars, evidenceVars, runVars, tried, readerVars>>

OverlaySteps == {"generate", "load", "candidate", "fillCandidate", "pre", "fillPre",
                 "read", "write", "mark"}
Steps == {"idle", "copy", "fillCopy", "mode", "fillMode"} \cup OverlaySteps

TypeOK ==
    /\ live \in Documents \cup {Nothing}
    /\ build \in 0..MaxBuilds
    /\ {making, o2, done, rebuilt} \subseteq BOOLEAN
    /\ mode \in Modes \cup {Nothing, Torn}
    /\ evidence \in [Inputs -> Documents \cup {Nothing, Torn}]
    /\ pc \in [Run -> Steps]
    /\ isolated \in [Run -> BOOLEAN]
    /\ held \in [Run -> Documents \cup Modes \cup {Nothing}]
    /\ tried \in SUBSET Documents
    /\ cache \in {d \in Documents : d.build \notin Rejected} \cup {Miss, Nothing}
    /\ validated \in SUBSET Documents

Built(b) == [build |-> b, overlaid |-> FALSE]

\* A release is there, or a build without metadata; the evidence directory is
\* new.
Init ==
    /\ live \in {Nothing, Built(0)}
    /\ build = 0
    /\ making = FALSE
    /\ mode = Nothing
    /\ evidence = [f \in Inputs |-> Nothing]
    /\ o2 = FALSE
    /\ done = FALSE
    /\ pc = [r \in Run |-> "idle"]
    /\ isolated = [r \in Run |-> FALSE]
    /\ held = [r \in Run |-> Nothing]
    /\ tried = {}
    /\ cache = Miss
    /\ validated = {}
    /\ rebuilt = FALSE

Goto(r, l) == pc' = [pc EXCEPT ![r] = l]

\* Mutant of Create: a file that is there is truncated.
Truncate(r, f, l) ==
    /\ evidence' = [evidence EXCEPT ![f] = Torn]
    /\ Goto(r, l)

\* Evidence is created with O_EXCL and then written; who finds it there raises.
Create(r, f, l) ==
    /\ evidence[f] = Nothing
    /\ evidence' = [evidence EXCEPT ![f] = Torn]
    /\ Goto(r, l)
Fill(r, f, content, l) ==
    /\ evidence' = [evidence EXCEPT ![f] = content]
    /\ Goto(r, l)

-----------------------------------------------------------------------------
\* --freeze-mode: the mode follows from LIVE, whose copy is written before it.

Freeze(r) ==
    /\ pc[r] = "idle"
    /\ mode = Nothing
    /\ evidence["initial"] = Nothing
    /\ IF live # Nothing
       THEN Goto(r, "copy") /\ held' = [held EXCEPT ![r] = LiveExisting]
       ELSE Goto(r, "mode") /\ held' = [held EXCEPT ![r] = BootstrapGenerate]
    /\ UNCHANGED <<live, buildVars, evidenceVars, isolated, tried, readerVars>>

CopyLive(r) ==
    /\ \/ pc[r] = "copy" /\ Create(r, "initial", "fillCopy")
       \/ /\ pc[r] = "fillCopy"
          /\ live # Nothing
          /\ Fill(r, "initial", live, "mode")
    /\ UNCHANGED <<live, buildVars, mode, o2, done, isolated, held, tried,
                   readerVars>>

FreezeMode(r) ==
    /\ \/ /\ pc[r] = "mode"
          /\ mode = Nothing
          /\ mode' = Torn
          /\ Goto(r, "fillMode")
       \/ /\ pc[r] = "fillMode"
          /\ mode' = held[r]
          /\ Goto(r, "idle")
    /\ UNCHANGED <<live, buildVars, evidence, o2, done, isolated, held, tried,
                   readerVars>>

-----------------------------------------------------------------------------
\* run_overlay()

\* Mutant of Refused: the marker is not looked at.
NeverRefused(proof) == proof /\ o2

\* A proof needs a new o2-work, an overlay of LIVE that none has been done.
Refused(proof) == IF proof THEN o2 ELSE done

Begin(r, proof) ==
    /\ pc[r] = "idle"
    /\ mode \in Modes
    /\ ~Refused(proof)
    /\ o2' = (o2 \/ proof)
    /\ isolated' = [isolated EXCEPT ![r] = proof]
    /\ \/ evidence["pre"] # Nothing /\ Goto(r, "read")
       \/ evidence["pre"] = Nothing /\ mode = LiveExisting /\ Goto(r, "load")
       \/ evidence["pre"] = Nothing /\ mode = BootstrapGenerate /\ Goto(r, "generate")
    /\ UNCHANGED <<live, buildVars, mode, evidence, done, held, tried, readerVars>>

\* build_pre(): from the frozen copy, or from what generate() says of the files
\* now, which is kept as the candidate first.
BuildPre(r) ==
    /\ \/ /\ pc[r] = "load"
          /\ evidence["initial"] \in Documents
          /\ held' = [held EXCEPT ![r] = evidence["initial"]]
          /\ Goto(r, "pre")
          /\ UNCHANGED evidence
       \/ /\ pc[r] = "generate"
          /\ held' = [held EXCEPT ![r] = Built(build)]
          /\ Goto(r, "candidate")
          /\ UNCHANGED evidence
       \/ /\ \/ pc[r] = "candidate" /\ Create(r, "candidate", "fillCandidate")
             \/ pc[r] = "fillCandidate" /\ Fill(r, "candidate", held[r], "pre")
             \/ pc[r] = "pre" /\ Create(r, "pre", "fillPre")
             \/ pc[r] = "fillPre" /\ Fill(r, "pre", held[r], "read")
          /\ UNCHANGED held
    /\ UNCHANGED <<live, buildVars, mode, o2, done, isolated, tried, readerVars>>

Reconstruct(doc) == [build |-> doc.build, overlaid |-> TRUE]

\* Mutant of ReadPre: what LIVE is now is overlaid, not what was frozen.
ReadLive(r) ==
    /\ pc[r] = "read"
    /\ live # Nothing
    /\ held' = [held EXCEPT ![r] = Reconstruct(live)]
    /\ Goto(r, "write")
    /\ UNCHANGED <<live, buildVars, evidenceVars, isolated, tried, readerVars>>

ReadPre(r) ==
    /\ pc[r] = "read"
    /\ evidence["pre"] \in Documents
    /\ held' = [held EXCEPT ![r] = Reconstruct(evidence["pre"])]
    /\ Goto(r, "write")
    /\ UNCHANGED <<live, buildVars, evidenceVars, isolated, tried, readerVars>>

\* atomic_write(): the document is complete in a temporary file when it is
\* renamed; a proof exits before that.
Replace(proof, doc) == IF proof THEN UNCHANGED live ELSE live' = doc

Write(r) ==
    /\ pc[r] = "write"
    /\ Replace(isolated[r], held[r])
    /\ tried' = tried \cup {held[r]}
    /\ Goto(r, IF isolated[r] THEN "idle" ELSE "mark")
    /\ UNCHANGED <<buildVars, evidenceVars, isolated, held, readerVars>>

\* real-overlay.done, also with O_EXCL.
Mark(r) ==
    /\ pc[r] = "mark"
    /\ ~done
    /\ done' = TRUE
    /\ Goto(r, "idle")
    /\ UNCHANGED <<live, buildVars, mode, evidence, o2, isolated, held, tried,
                   readerVars>>

\* An invocation ends early: killed, with evidence that is there or torn, with
\* files that generate() refuses, or without a pg_typesafe to describe.
Stop(r) ==
    /\ pc[r] # "idle"
    /\ Goto(r, "idle")
    /\ UNCHANGED <<live, buildVars, evidenceVars, isolated, held, tried, readerVars>>

Invoke(r) ==
    \/ Freeze(r) \/ CopyLive(r) \/ FreezeMode(r)
    \/ \E proof \in BOOLEAN : Begin(r, proof)
    \/ BuildPre(r) \/ ReadPre(r) \/ Write(r) \/ Mark(r) \/ Stop(r)

-----------------------------------------------------------------------------
\* make removes the metadata first and writes them last, by atomic_write() too.

MakeBegins ==
    /\ build < MaxBuilds
    /\ build' = build + 1
    /\ making' = TRUE
    /\ live' = Nothing
    /\ rebuilt' = (validated # {})
    /\ UNCHANGED <<evidenceVars, runVars, tried, cache, validated>>
MakeEnds ==
    /\ making
    /\ making' = FALSE
    /\ live' \in {live, Built(build)}
    /\ UNCHANGED <<build, evidenceVars, runVars, tried, readerVars>>

-----------------------------------------------------------------------------
\* The reader.

Cached == cache \in Documents

\* load_bundle_metadata(): absence is cached, a refusal is not.
Load ==
    /\ cache = Miss
    /\ live # Nothing => live.build \notin Rejected
    /\ cache' = live
    /\ UNCHANGED <<live, buildVars, evidenceVars, runVars, tried, validated, rebuilt>>

\* Mutant of Attested: the cache is filled before the versions are compared,
\* and a second attempt succeeds.
AttestedEarly(doc) == TRUE

\* The document against what postgres and pg_config say of their version, which is
\* all they are asked.  While make runs they may be those of either build.
Attested(doc) == making \/ Version[doc.build] = Version[build]

\* validate_bundled_binaries(): a document that was compared is not compared again.
Attest ==
    /\ Cached
    /\ cache \notin validated
    /\ Attested(cache)
    /\ validated' = validated \cup {cache}
    /\ rebuilt' = making
    /\ UNCHANGED <<live, buildVars, evidenceVars, runVars, tried, cache>>

ClearCache ==
    /\ cache' = Miss
    /\ validated' = {}
    /\ rebuilt' = FALSE
    /\ UNCHANGED <<live, buildVars, evidenceVars, runVars, tried>>

Next ==
    \/ \E r \in Run : Invoke(r)
    \/ MakeBegins \/ MakeEnds
    \/ Load \/ Attest \/ ClearCache

Spec == Init /\ [][Next]_vars

-----------------------------------------------------------------------------
\* Properties.

\* Every overlay and every crash proof made with one evidence directory writes
\* the same document, the reconstruction of what was frozen, whatever make and
\* other invocations do in between ("pre" never comes from a later LIVE,
\* generate_bundle_metadata.py:770).
Frozen == IF mode = LiveExisting THEN evidence["initial"] ELSE evidence["candidate"]
OverlayIsFrozen ==
    \A doc \in tried : Frozen \in Documents /\ doc = Reconstruct(Frozen)

\* What has been frozen, kept or normalized stays as it was written, however
\* invocations overlap, stop and are repeated ("os.O_EXCL",
\* generate_bundle_metadata.py): the evidence can be trusted afterwards.
EvidenceIsKept ==
    [][/\ mode \in Modes => mode' = mode
       /\ \A f \in Inputs : evidence[f] \in Documents => evidence'[f] = evidence[f]]_vars

\* Once the marker is there and no other overlay is under way, metadata that
\* describe the installed build go on describing it: no proof and no second run
\* brings the frozen document back over those of a later build ("refuse second
\* write", generate_bundle_metadata.py:856).
Settled ==
    /\ done
    /\ \A r \in Run : pc[r] \in OverlaySteps => isolated[r]
MetadataFit == live # Nothing => live.build = build
LaterBuildsKeepTheirs == [](Settled /\ MetadataFit => []MetadataFit)

\* The binaries that a process accepted report the version of the document it uses,
\* also if make replaced them between the reading and the comparison, unless make
\* has been at work since it compared (_bundle_metadata.py:389-405).
AttestedFits ==
    cache \in validated => Version[cache.build] = Version[build] \/ rebuilt
=============================================================================
