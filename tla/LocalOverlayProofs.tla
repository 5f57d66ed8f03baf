-------------------------- MODULE LocalOverlayProofs --------------------------
(***************************************************************************)
(* Theorems of LocalOverlay: what is written is what was frozen, metadata  *)
(* of builds after the marker stay, and accepted binaries report the       *)
(* version of the metadata.                                                *)
(***************************************************************************)
EXTENDS LocalOverlay, TLAPS

\* Who writes a file of the evidence is alone in doing so, since it created it.
OneFiller ==
    /\ \A r \in Run : pc[r] = "fillCopy" => evidence["initial"] = Torn
    /\ \A r \in Run : pc[r] = "fillCandidate" => evidence["candidate"] = Torn
    /\ \A r \in Run : pc[r] = "fillMode" => mode = Torn
    /\ \A q, r \in Run :
          pc[q] = pc[r] /\ pc[r] \in {"fillCopy", "fillCandidate", "fillMode"} => q = r

\* What an invocation holds on its way to the document it writes.
HeldIsFrozen ==
    \A r \in Run :
        /\ pc[r] \in {"copy", "fillCopy", "mode", "fillMode"} => held[r] \in Modes
        /\ pc[r] \in {"load", "generate", "candidate", "fillCandidate", "pre",
                      "fillPre", "read", "write"} => mode \in Modes
        /\ pc[r] = "load" => mode = LiveExisting
        /\ pc[r] \in {"generate", "candidate", "fillCandidate"} => mode = BootstrapGenerate
        /\ pc[r] \in {"candidate", "fillCandidate"} => held[r] \in Documents
        /\ pc[r] \in {"pre", "fillPre"} => held[r] \in Documents /\ held[r] = Frozen
        /\ pc[r] = "write" => Frozen \in Documents /\ held[r] = Reconstruct(Frozen)
PreIsFrozen ==
    evidence["pre"] \in Documents => mode \in Modes /\ evidence["pre"] = Frozen
TriedIsFrozen == tried # {} => mode \in Modes

EvidenceInv ==
    /\ TypeOK
    /\ OneFiller
    /\ HeldIsFrozen
    /\ PreIsFrozen
    /\ TriedIsFrozen
    /\ OverlayIsFrozen

LEMMA ReconstructType ==
    ASSUME NEW doc \in Documents
    PROVE  Reconstruct(doc) \in Documents
  BY DEF Documents, Reconstruct

LEMMA BuiltType ==
    ASSUME NEW b \in 0..MaxBuilds
    PROVE  Built(b) \in Documents
  BY DEF Documents, Built

LEMMA EvidenceInit == Init => EvidenceInv
<1> SUFFICES ASSUME Init PROVE EvidenceInv
  OBVIOUS
<1> USE DEF Init
<1>1. Built(0) \in Documents /\ 0 \in 0..MaxBuilds
  BY BuiltType, OverlayAssumption
<1>2. TypeOK
  BY <1>1 DEF TypeOK, Steps
<1>3. OneFiller /\ HeldIsFrozen
  BY DEF OneFiller, HeldIsFrozen
<1>4. PreIsFrozen
  BY NothingAssumption DEF PreIsFrozen, Inputs
<1>5. QED
  BY <1>2, <1>3, <1>4 DEF EvidenceInv, TriedIsFrozen, OverlayIsFrozen

\* The frozen input never changes once it is written.
LEMMA FrozenStays ==
    ASSUME EvidenceInv, Next, mode \in Modes
    PROVE  /\ mode' = mode
           /\ Frozen \in Documents => Frozen' = Frozen
<1> USE NothingAssumption DEF EvidenceInv, TypeOK, OneFiller, HeldIsFrozen, Modes, Inputs,
        evidenceVars, runVars, buildVars, readerVars, Goto
<1>1. ASSUME NEW r \in Run, CopyLive(r) PROVE mode' = mode /\ (Frozen \in Documents => Frozen' = Frozen)
  BY <1>1 DEF CopyLive, Create, Fill, Frozen
<1>2. ASSUME NEW r \in Run, BuildPre(r) PROVE mode' = mode /\ (Frozen \in Documents => Frozen' = Frozen)
  BY <1>2 DEF BuildPre, Create, Fill, Frozen
<1>3. ASSUME NEW r \in Run, FreezeMode(r) PROVE FALSE
  BY <1>3 DEF FreezeMode
<1>4. CASE mode' = mode /\ evidence' = evidence
  BY <1>4 DEF Frozen
<1>5. ASSUME NEW r \in Run, Invoke(r), ~CopyLive(r), ~BuildPre(r), ~FreezeMode(r)
      PROVE  mode' = mode /\ evidence' = evidence
  BY <1>5 DEF Invoke, Freeze, Begin, ReadPre, Write, Mark, Stop
<1>6. ASSUME MakeBegins \/ MakeEnds \/ Load \/ Attest \/ ClearCache
      PROVE  mode' = mode /\ evidence' = evidence
  BY <1>6 DEF MakeBegins, MakeEnds, Load, Attest, ClearCache
<1>7. QED
  BY <1>1, <1>2, <1>3, <1>4, <1>5, <1>6 DEF Next

\* Every action keeps it; only make, the writers and nobody else touch LIVE.
LEMMA EvidenceStep == EvidenceInv /\ [Next]_vars => EvidenceInv'
<1> SUFFICES ASSUME EvidenceInv, [Next]_vars PROVE EvidenceInv'
  OBVIOUS
<1> USE NothingAssumption, OverlayAssumption
    DEF EvidenceInv, TypeOK, Inputs, OverlaySteps, Steps, Modes, Goto
<1>1. CASE UNCHANGED vars
  BY <1>1 DEF vars, evidenceVars, runVars, buildVars, readerVars, OneFiller, HeldIsFrozen,
     PreIsFrozen, TriedIsFrozen, OverlayIsFrozen, Frozen
<1>2. ASSUME Next PROVE EvidenceInv'
  <2> USE <1>2 DEF evidenceVars, runVars, buildVars, readerVars
  <2>1. mode \in Modes => mode' = mode /\ (Frozen \in Documents => Frozen' = Frozen)
    BY FrozenStays
  <2>2. ASSUME NEW r \in Run, Freeze(r) PROVE EvidenceInv'
    BY <2>2 DEF Freeze, OneFiller, HeldIsFrozen, PreIsFrozen, TriedIsFrozen,
       OverlayIsFrozen, Frozen
  <2>3. ASSUME NEW r \in Run, CopyLive(r) PROVE EvidenceInv'
    <3>1. TypeOK'
      BY <2>3 DEF CopyLive, Create, Fill
    <3>2. OneFiller'
      BY <2>3 DEF CopyLive, Create, Fill, OneFiller
    <3>3. HeldIsFrozen' /\ PreIsFrozen'
      BY <2>3, <2>1 DEF CopyLive, Create, Fill, HeldIsFrozen, PreIsFrozen
    <3>4. TriedIsFrozen' /\ OverlayIsFrozen'
      BY <2>3, <2>1 DEF CopyLive, Create, Fill, TriedIsFrozen, OverlayIsFrozen
    <3>5. QED
      BY <3>1, <3>2, <3>3, <3>4
  <2>4. ASSUME NEW r \in Run, FreezeMode(r) PROVE EvidenceInv'
    <3>1. mode \notin Modes /\ pc[r] \in {"mode", "fillMode"}
      BY <2>4 DEF FreezeMode, OneFiller
    <3>2. TypeOK'
      BY <2>4 DEF FreezeMode, HeldIsFrozen
    <3>3. OneFiller'
      BY <2>4 DEF FreezeMode, OneFiller
    <3>4. HeldIsFrozen' /\ PreIsFrozen'
      BY <2>4, <3>1 DEF FreezeMode, HeldIsFrozen, PreIsFrozen
    <3>5. TriedIsFrozen' /\ OverlayIsFrozen'
      BY <2>4, <3>1 DEF FreezeMode, TriedIsFrozen, OverlayIsFrozen
    <3>6. QED
      BY <3>2, <3>3, <3>4, <3>5
  <2>5. ASSUME NEW r \in Run, NEW proof \in BOOLEAN, Begin(r, proof) PROVE EvidenceInv'
    BY <2>5 DEF Begin, OneFiller, HeldIsFrozen, PreIsFrozen, TriedIsFrozen,
       OverlayIsFrozen, Frozen
  <2>6. ASSUME NEW r \in Run, BuildPre(r) PROVE EvidenceInv'
    <3>1. TypeOK'
      BY <2>6, BuiltType DEF BuildPre, Create, Fill, HeldIsFrozen
    <3>2. OneFiller'
      BY <2>6 DEF BuildPre, Create, Fill, OneFiller
    <3>3. mode \in Modes
      BY <2>6 DEF BuildPre, HeldIsFrozen
    <3>4. HeldIsFrozen'
      BY <2>6, <2>1, <3>3, BuiltType
      DEF BuildPre, Create, Fill, HeldIsFrozen, Frozen
    <3>5. PreIsFrozen'
      BY <2>6, <2>1, <3>3 DEF BuildPre, Create, Fill, HeldIsFrozen, PreIsFrozen, Frozen
    <3>6. TriedIsFrozen' /\ OverlayIsFrozen'
      BY <2>6, <2>1, <3>3 DEF BuildPre, TriedIsFrozen, OverlayIsFrozen
    <3>7. QED
      BY <3>1, <3>2, <3>4, <3>5, <3>6
  <2>7. ASSUME NEW r \in Run, ReadPre(r) PROVE EvidenceInv'
    BY <2>7, ReconstructType DEF ReadPre, OneFiller, HeldIsFrozen, PreIsFrozen,
       TriedIsFrozen, OverlayIsFrozen, Frozen
  <2>8. ASSUME NEW r \in Run, Write(r) PROVE EvidenceInv'
    <3>1. mode \in Modes /\ held[r] = Reconstruct(Frozen) /\ held[r] \in Documents
      BY <2>8, ReconstructType DEF Write, HeldIsFrozen
    <3>2. TypeOK'
      BY <2>8, <3>1 DEF Write, Replace
    <3>3. OneFiller'
      BY <2>8 DEF Write, OneFiller
    <3>4. HeldIsFrozen' /\ PreIsFrozen'
      BY <2>8, <2>1, <3>1 DEF Write, HeldIsFrozen, PreIsFrozen
    <3>5. TriedIsFrozen' /\ OverlayIsFrozen'
      BY <2>8, <2>1, <3>1 DEF Write, TriedIsFrozen, OverlayIsFrozen, HeldIsFrozen
    <3>6. QED
      BY <3>2, <3>3, <3>4, <3>5
  <2>9. ASSUME NEW r \in Run, Mark(r) \/ Stop(r) PROVE EvidenceInv'
    <3>1. UNCHANGED <<live, buildVars, mode, evidence, o2, isolated, held, tried,
                      readerVars>>
      BY <2>9 DEF Mark, Stop
    <3>2. pc' = [pc EXCEPT ![r] = "idle"] /\ done' \in BOOLEAN
      BY <2>9 DEF Mark, Stop
    <3>3. TypeOK'
      BY <3>1, <3>2
    <3>4. OneFiller' /\ HeldIsFrozen'
      BY <3>1, <3>2 DEF OneFiller, HeldIsFrozen, Frozen
    <3>5. PreIsFrozen' /\ TriedIsFrozen' /\ OverlayIsFrozen'
      BY <3>1 DEF PreIsFrozen, TriedIsFrozen, OverlayIsFrozen, Frozen
    <3>6. QED
      BY <3>3, <3>4, <3>5
  <2>10. ASSUME MakeBegins \/ MakeEnds \/ Load \/ Attest \/ ClearCache PROVE EvidenceInv'
    <3>1. UNCHANGED <<mode, evidence, pc, isolated, held, tried>>
      BY <2>10 DEF MakeBegins, MakeEnds, Load, Attest, ClearCache
    <3>2. TypeOK'
      <4>1. ASSUME MakeBegins \/ MakeEnds PROVE TypeOK'
        <5>1. build' \in 0..MaxBuilds /\ Built(build) \in Documents
          BY <4>1, BuiltType DEF MakeBegins, MakeEnds
        <5>2. QED
          BY <4>1, <5>1 DEF MakeBegins, MakeEnds
      <4>2. ASSUME Load PROVE TypeOK'
        BY <4>2 DEF Load
      <4>3. ASSUME Attest \/ ClearCache PROVE TypeOK'
        BY <4>3 DEF Attest, ClearCache, Cached
      <4>4. QED
        BY <2>10, <4>1, <4>2, <4>3
    <3>3. QED
      BY <3>1, <3>2 DEF OneFiller, HeldIsFrozen, PreIsFrozen, TriedIsFrozen,
         OverlayIsFrozen, Frozen
  <2>11. QED
    BY <2>2, <2>3, <2>4, <2>5, <2>6, <2>7, <2>8, <2>9, <2>10 DEF Next, Invoke
<1>3. QED
  BY <1>1, <1>2

\* The variables keep their types; a cache never holds what the loader refuses.
THEOREM TypeCorrect == Spec => []TypeOK
<1>1. EvidenceInv => TypeOK
  BY DEF EvidenceInv
<1>2. QED
  BY <1>1, EvidenceInit, EvidenceStep, PTL DEF Spec

\* All proofs and overlays of one evidence directory write one document.
THEOREM OverlayWritesWhatWasFrozen == Spec => []OverlayIsFrozen
<1>1. EvidenceInv => OverlayIsFrozen
  BY DEF EvidenceInv
<1>2. QED
  BY <1>1, EvidenceInit, EvidenceStep, PTL DEF Spec

\* Evidence that is complete stays as it was written: whoever fills a file has
\* created it, and "pre" is only ever filled with the frozen document.
THEOREM EvidenceStays == Spec => EvidenceIsKept
<1>1. ASSUME EvidenceInv, Next, NEW f \in Inputs, evidence[f] \in Documents
      PROVE  evidence'[f] = evidence[f]
  <2> USE <1>1, NothingAssumption DEF EvidenceInv, TypeOK, OneFiller, Inputs,
          evidenceVars, runVars, buildVars, readerVars
  <2>1. ASSUME NEW r \in Run, CopyLive(r) PROVE evidence'[f] = evidence[f]
    BY <2>1 DEF CopyLive, Create, Fill
  <2>2. ASSUME NEW r \in Run, BuildPre(r) PROVE evidence'[f] = evidence[f]
    <3>1. pc[r] = "fillPre" /\ f = "pre" => held[r] = evidence[f]
      BY DEF HeldIsFrozen, PreIsFrozen
    <3>2. QED
      BY <2>2, <3>1 DEF BuildPre, Create, Fill
  <2>3. ASSUME NEW r \in Run, Invoke(r), ~CopyLive(r), ~BuildPre(r)
        PROVE  evidence' = evidence
    BY <2>3 DEF Invoke, Freeze, FreezeMode, Begin, ReadPre, Write, Mark, Stop
  <2>4. ASSUME MakeBegins \/ MakeEnds \/ Load \/ Attest \/ ClearCache
        PROVE  evidence' = evidence
    BY <2>4 DEF MakeBegins, MakeEnds, Load, Attest, ClearCache
  <2>5. QED
    BY <2>1, <2>2, <2>3, <2>4 DEF Next
<1>2. ASSUME EvidenceInv, Next, mode \in Modes PROVE mode' = mode
  BY <1>2, FrozenStays
<1>3. EvidenceInv /\ [Next]_vars =>
        [/\ mode \in Modes => mode' = mode
         /\ \A f \in Inputs : evidence[f] \in Documents => evidence'[f] = evidence[f]]_vars
  BY <1>1, <1>2
<1>4. QED
  BY <1>3, EvidenceInit, EvidenceStep, PTL DEF Spec, EvidenceIsKept

-----------------------------------------------------------------------------
\* Once the marker is there, only proofs begin; who is no proof has ended.
LEMMA SettledStays ==
    ASSUME TypeOK, Settled, MetadataFit, [Next]_vars
    PROVE  Settled' /\ MetadataFit'
<1> USE NothingAssumption
    DEF TypeOK, Settled, MetadataFit, OverlaySteps, Steps, Goto, evidenceVars, runVars,
        buildVars, readerVars
<1>1. CASE UNCHANGED vars
  BY <1>1 DEF vars
<1>2. ASSUME NEW r \in Run, Freeze(r) \/ CopyLive(r) \/ FreezeMode(r)
      PROVE  Settled' /\ MetadataFit'
  <2>1. done' = done /\ isolated' = isolated /\ live' = live /\ build' = build
    BY <1>2 DEF Freeze, CopyLive, FreezeMode
  <2>2. \A q \in Run : pc'[q] \in OverlaySteps => pc[q] \in OverlaySteps
    <3>1. CASE Freeze(r)
      BY <3>1 DEF Freeze
    <3>2. CASE CopyLive(r)
      BY <3>2 DEF CopyLive, Create, Fill
    <3>3. CASE FreezeMode(r)
      BY <3>3 DEF FreezeMode
    <3>4. QED
      BY <1>2, <3>1, <3>2, <3>3
  <2>3. QED
    BY <2>1, <2>2
<1>3. ASSUME NEW r \in Run, NEW proof \in BOOLEAN, Begin(r, proof)
      PROVE  Settled' /\ MetadataFit'
  <2>1. proof
    BY <1>3 DEF Begin, Refused
  <2>2. QED
    BY <1>3, <2>1 DEF Begin
<1>4. ASSUME NEW r \in Run, BuildPre(r) PROVE Settled' /\ MetadataFit'
  BY <1>4 DEF BuildPre, Create, Fill
<1>5. ASSUME NEW r \in Run, ReadPre(r) \/ Mark(r) \/ Stop(r) PROVE Settled' /\ MetadataFit'
  BY <1>5 DEF ReadPre, Mark, Stop
<1>6. ASSUME NEW r \in Run, Write(r) PROVE Settled' /\ MetadataFit'
  <2>1. isolated[r]
    BY <1>6 DEF Write
  <2>2. QED
    BY <1>6, <2>1 DEF Write, Replace
<1>7. CASE MakeBegins \/ MakeEnds
  <2>1. done' = done /\ isolated' = isolated /\ pc' = pc
    BY <1>7 DEF MakeBegins, MakeEnds
  <2>2. CASE MakeBegins
    BY <2>1, <2>2 DEF MakeBegins
  <2>3. CASE MakeEnds
    <3>1. build' = build /\ (live' = live \/ live'.build = build)
      BY <2>3 DEF MakeEnds, Built
    <3>2. QED
      BY <2>1, <3>1, <2>3 DEF MakeEnds
  <2>4. QED
    BY <1>7, <2>2, <2>3
<1>8. CASE Load \/ Attest \/ ClearCache
  BY <1>8 DEF Load, Attest, ClearCache
<1>9. QED
  BY <1>1, <1>2, <1>3, <1>4, <1>5, <1>6, <1>7, <1>8 DEF Next, Invoke

\* The metadata of builds made after the overlay are safe from it once its marker is
\* there and no other overlay that began before is still on its way.
THEOREM MarkerProtectsLaterBuilds == Spec => LaterBuildsKeepTheirs
<1>1. TypeOK /\ (Settled /\ MetadataFit) /\ [Next]_vars => (Settled /\ MetadataFit)'
  BY SettledStays
<1>2. QED
  BY <1>1, TypeCorrect, PTL DEF Spec, LaterBuildsKeepTheirs

-----------------------------------------------------------------------------
\* The two caches are emptied together, and a comparison while make runs is marked.
ReaderInv ==
    /\ cache = Miss => validated = {}
    /\ validated \subseteq {cache}
    /\ making /\ validated # {} => rebuilt
    /\ AttestedFits

\* What a process accepted reports the version in its metadata, unless make has been
\* at work since it compared the two.
THEOREM AttestationHolds == Spec => []AttestedFits
<1>1. Init => ReaderInv
  BY DEF Init, ReaderInv, AttestedFits
<1>2. ReaderInv /\ [Next]_vars => ReaderInv'
  <2> SUFFICES ASSUME ReaderInv, [Next]_vars PROVE ReaderInv'
    OBVIOUS
  <2> USE NothingAssumption
      DEF ReaderInv, AttestedFits, evidenceVars, runVars, buildVars, readerVars
  <2>1. CASE UNCHANGED vars
    BY <2>1 DEF vars
  <2>2. ASSUME NEW r \in Run, Invoke(r) PROVE ReaderInv'
    BY <2>2 DEF Invoke, Freeze, CopyLive, FreezeMode, Begin, BuildPre, ReadPre, Write,
       Mark, Stop
  <2>3. CASE MakeBegins \/ MakeEnds
    BY <2>3 DEF MakeBegins, MakeEnds
  <2>4. CASE Load
    BY <2>4 DEF Load
  <2>5. CASE Attest
    BY <2>5 DEF Attest, Attested, Cached
  <2>6. CASE ClearCache
    BY <2>6 DEF ClearCache
  <2>7. QED
    BY <2>1, <2>2, <2>3, <2>4, <2>5, <2>6 DEF Next
<1>3. ReaderInv => AttestedFits
  BY DEF ReaderInv
<1>4. QED
  BY <1>1, <1>2, <1>3, PTL DEF Spec
=============================================================================
