------------------------- MODULE BundleMetadataProofs -------------------------
(***************************************************************************)
(* Of every catalogue, platform and selection: the loader accepts what the *)
(* generator and the overlay write, unless tigerfs was skipped.            *)
(***************************************************************************)
EXTENDS BundleMetadata, TLAPS

\* What the loader accepts of a document in which tigerfs may be skipped.
Acceptable(doc) ==
    /\ \A e \in Ext : AcceptedExtension(e, doc[e])
    /\ doc[Tigerfs].skipped \/ AcceptedTigerfs(doc[Tigerfs])

\* The overlay's first disjunct changes one record of the document that is
\* there, so that document has to be a well-formed and acceptable one.
LiveInv == live # Nothing => live \in [Comp -> Records] /\ Acceptable(live)

\* A document that the generator writes is well-formed and acceptable.
LEMMA GeneratedIsAcceptable ==
    ASSUME NEW f, NEW req, NEW built, NEW skip, Generates(f, req, built, skip)
    PROVE  /\ Document(req, built, skip) \in [Comp -> Records]
           /\ Acceptable(Document(req, built, skip))
<1> DEFINE doc == Document(req, built, skip)
<1>1. built \cap skip = {} /\ req = built \cup skip
  BY DEF Generates
<1>2. \A c \in Comp : doc[c] = Record(c, req, built, skip)
  BY DEF Document
<1>3. ASSUME NEW c \in Comp
      PROVE  Record(c, req, built, skip) \in Records
  <2>1. Needed(c) \in SUBSET Artefacts
    BY DEF Needed, Artefacts
  <2>2. Identity(c, req, built, skip) \in Identities
    BY DEF Identity, Identities
  <2> QED
    BY <2>1, <2>2 DEF Record, Records
<1>4. doc \in [Comp -> Records]
  BY <1>3 DEF Document
<1>5. ASSUME NEW e \in Ext
      PROVE  AcceptedExtension(e, Record(e, req, built, skip))
  <2>1. e # Tigerfs
    BY CatalogueAssumption
  <2>2. {"control", "sql"} \subseteq Needed(e)
    BY <2>1 DEF Needed
  <2>3. "library" \in Needed(e) <=> e \notin SqlOnly
    BY <2>1 DEF Needed
  <2>4. e \in built => Identity(e, req, built, skip) # Nothing
    BY CatalogueAssumption DEF Identity
  <2> QED
    BY <1>1, <2>2, <2>3, <2>4 DEF AcceptedExtension, Record
<1>6. \/ Tigerfs \in skip
      \/ AcceptedTigerfs(Record(Tigerfs, req, built, skip))
  <2>1. SUFFICES ASSUME Tigerfs \notin skip
                 PROVE  AcceptedTigerfs(Record(Tigerfs, req, built, skip))
    OBVIOUS
  <2>2. Needed(Tigerfs) = {"binary"}
    BY DEF Needed
  <2>3. Tigerfs \in req <=> Tigerfs \in built
    BY <1>1, <2>1
  <2>4. Identity(Tigerfs, req, built, skip)
          = IF Tigerfs \in built THEN "pinned" ELSE Nothing
    BY <2>3 DEF Identity
  <2>5. Nothing # "pinned"
    BY CatalogueAssumption
  <2> QED
    BY <2>1, <2>2, <2>3, <2>4, <2>5 DEF AcceptedTigerfs, Record
<1>7. Tigerfs \in Comp /\ Ext \subseteq Comp
  BY DEF Comp
<1>8. doc[Tigerfs].skipped \/ AcceptedTigerfs(doc[Tigerfs])
  <2>1. Record(Tigerfs, req, built, skip).skipped <=> Tigerfs \in skip
    BY DEF Record
  <2> QED
    BY <1>2, <1>6, <1>7, <2>1
<1> QED
  BY <1>2, <1>4, <1>5, <1>7, <1>8 DEF Acceptable

\* Filling in pg_typesafe's record keeps a document well-formed and acceptable.
LEMMA ReconstructedIsAcceptable ==
    ASSUME NEW doc \in [Comp -> Records], Acceptable(doc)
    PROVE  /\ Reconstruct(doc) \in [Comp -> Records]
           /\ Acceptable(Reconstruct(doc))
<1> DEFINE r == [requested |-> TRUE, built |-> TRUE, skipped |-> FALSE,
                 paths |-> Needed(Typesafe), id |-> "local"]
<1>1. Typesafe \in Comp /\ Typesafe # Tigerfs /\ Typesafe \notin SqlOnly
  BY CatalogueAssumption DEF Comp
<1>2. Needed(Typesafe) = {"control", "sql", "library"}
  BY <1>1 DEF Needed
<1>3. r \in Records
  BY <1>2 DEF Records, Artefacts, Identities
<1>4. AcceptedExtension(Typesafe, r)
  BY <1>1, <1>2, CatalogueAssumption DEF AcceptedExtension
<1>5. Reconstruct(doc) = [doc EXCEPT ![Typesafe] = r]
  BY DEF Reconstruct
<1> HIDE DEF r
<1>6. \A c \in Comp : Reconstruct(doc)[c] = IF c = Typesafe THEN r ELSE doc[c]
  BY <1>5
<1>7. Tigerfs \in Comp /\ Ext \subseteq Comp
  BY DEF Comp
<1> QED
  BY <1>1, <1>3, <1>4, <1>5, <1>6, <1>7 DEF Acceptable

-----------------------------------------------------------------------------
\* There is no document at first.
LEMMA LiveInvInit == Init => LiveInv
  BY DEF Init, LiveInv

\* No step writes a document that is not acceptable.
LEMMA LiveInvNext == LiveInv /\ [Next]_vars => LiveInv'
<1> SUFFICES ASSUME LiveInv, [Next]_vars PROVE LiveInv'
  OBVIOUS
<1>1. ASSUME NEW req \in Requests, MakeAll(req) PROVE LiveInv'
  <2>1. \/ live' = Nothing
        \/ /\ Generates(files', req, Final(req), Skipped(req))
           /\ live' = Document(req, Final(req), Skipped(req))
    BY <1>1 DEF MakeAll
  <2> QED
    BY <2>1, GeneratedIsAcceptable DEF LiveInv
<1>2. ASSUME NEW req \in Requests, NEW c \in Comp, MakeOne(req, c) PROVE LiveInv'
  BY <1>2 DEF MakeOne, LiveInv
<1>3. CASE Overlay
  <2>1. CASE live # Nothing /\ live' = Reconstruct(live)
    BY <2>1, ReconstructedIsAcceptable DEF LiveInv
  <2>2. ASSUME NEW skip, Generates(files, requested, Present, skip),
               live' = Reconstruct(Document(requested, Present, skip))
        PROVE  LiveInv'
    BY <2>2, GeneratedIsAcceptable, ReconstructedIsAcceptable DEF LiveInv
  <2> QED
    BY <1>3, <2>1, <2>2 DEF Overlay
<1>4. CASE \/ InstallLocal \/ ChangeStandalone \/ Import
           \/ \E c \in Comp : LoseFiles(c)
  BY <1>4 DEF InstallLocal, ChangeStandalone, Import, LoseFiles, LiveInv
<1>5. CASE UNCHANGED vars
  BY <1>5 DEF vars, LiveInv
<1> QED
  BY <1>1, <1>2, <1>3, <1>4, <1>5 DEF Next

\* Generator and loader agree on every document in which tigerfs was not
\* skipped, whatever sequence of builds, losses and overlays wrote it.
THEOREM MetadataAccepted == Spec => []AcceptedWithTigerfs
<1>1. LiveInv => AcceptedWithTigerfs
  BY DEF LiveInv, Acceptable, AcceptedWithTigerfs, Accepts
<1> QED
  BY LiveInvInit, LiveInvNext, <1>1, PTL DEF Spec

\* A document that is accepted records every file that an extension needs.
LEMMA AcceptedRecordsNeeded ==
    ASSUME NEW e \in Ext, NEW r, AcceptedExtension(e, r), r.built
    PROVE  Needed(e) \subseteq r.paths
<1>1. e # Tigerfs
  BY CatalogueAssumption
<1> QED
  BY <1>1 DEF Needed, AcceptedExtension

\* An extension that a process offers is installed in full, or is the
\* standalone one of an unselected extension; nothing skipped is offered.
THEOREM OfferedUsable == Spec => OfferedIsUsable
<1>1. ASSUME Import, NEW e \in available'
      PROVE  /\ ~live[e].skipped
             /\ Needed(e) \subseteq files[e] \/ (e \in attested /\ ~live[e].built)
  <2>1. e \in Ext /\ Offered(e) /\ Accepts(live)
    BY <1>1 DEF Import
  <2>2. AcceptedExtension(e, live[e])
    BY <2>1 DEF Accepts
  <2>3. CASE live[e].built /\ Complete(e)
    <3>1. Needed(e) \subseteq live[e].paths
      BY <2>1, <2>2, <2>3, AcceptedRecordsNeeded
    <3>2. ~live[e].skipped
      BY <2>2, <2>3 DEF AcceptedExtension
    <3> QED
      BY <2>3, <3>1, <3>2 DEF Complete
  <2>4. CASE ~live[e].built /\ ~live[e].skipped /\ e \in attested
    BY <2>4
  <2> QED
    BY <2>1, <2>3, <2>4 DEF Offered
<1>2. [Next]_vars =>
        [Import =>
           \A e \in available' :
              /\ ~live[e].skipped
              /\ Needed(e) \subseteq files[e] \/ (e \in attested /\ ~live[e].built)]_vars
  BY <1>1
<1> QED
  BY <1>2, PTL DEF Spec, OfferedIsUsable

-----------------------------------------------------------------------------
\* A component has files of the kinds it may have.
FilesOK ==
    /\ files \in [Comp -> SUBSET Artefacts]
    /\ \A c \in Comp : files[c] \subseteq Possible(c)

\* No artefact is of a kind that its component cannot have.
LEMMA NeededIsPossible ==
    ASSUME NEW c \in Comp
    PROVE  Needed(c) \subseteq Possible(c) /\ Possible(c) \subseteq Artefacts
BY DEF Needed, Possible, Artefacts

\* make adds what a component needs to what is left of its files.
LEMMA MakeFilesOK ==
    ASSUME FilesOK, NEW req, NEW goals, NEW release, Make(req, goals, release)
    PROVE  FilesOK'
<1> DEFINE before == Prefix(req, release)
<1>1. \A c \in Comp : before[c] \subseteq Possible(c)
  BY DEF FilesOK, Prefix
<1>2. PICK missing :
        files' = [c \in Comp |-> before[c] \cup (IF c \in missing THEN Needed(c) ELSE {})]
  BY DEF Make
<1>3. \A c \in Comp : files'[c] \subseteq Possible(c)
  BY <1>1, <1>2, NeededIsPossible
<1> QED
  BY <1>2, <1>3, NeededIsPossible DEF FilesOK

\* The files that a document was generated from are those it describes.
LEMMA GeneratedDescribesFiles ==
    ASSUME NEW f, \A d \in Comp : f[d] \subseteq Possible(d),
           NEW req, NEW built, NEW skip, Generates(f, req, built, skip),
           NEW c \in Comp
    PROVE  f[c] = IF Document(req, built, skip)[c].built THEN Needed(c) ELSE {}
<1>1. Document(req, built, skip)[c].built <=> c \in built
  BY DEF Document, Record
<1>2. CASE c \in built
  <2>1. Needed(c) \subseteq f[c]
    BY <1>2 DEF Generates, Consistent
  <2>2. c \in SqlOnly => "library" \notin f[c]
    BY <1>2 DEF Generates, Consistent
  <2>3. f[c] \subseteq Needed(c)
    BY <2>2, CatalogueAssumption DEF Possible, Needed, Artefacts
  <2> QED
    BY <1>1, <1>2, <2>1, <2>3
<1>3. CASE c \notin built
  BY <1>1, <1>3 DEF Generates, Consistent
<1> QED
  BY <1>2, <1>3

\* What the metadata say of untouched files stays true: generate() compares
\* them with the selection, whatever changes files marks them as touched.
DescriptionInv == FilesOK /\ LiveInv /\ MetadataDescribesFiles

\* There are neither files nor metadata at first.
LEMMA DescriptionInit == Init => DescriptionInv
<1>1. Init => FilesOK
  BY DEF Init, FilesOK
<1> QED
  BY <1>1, LiveInvInit DEF Init, DescriptionInv, MetadataDescribesFiles

\* Every step keeps files, metadata and touched in agreement.
LEMMA DescriptionNext == DescriptionInv /\ [Next]_vars => DescriptionInv'
<1> SUFFICES ASSUME DescriptionInv, [Next]_vars
             PROVE  FilesOK' /\ MetadataDescribesFiles'
  BY LiveInvNext DEF DescriptionInv
<1> USE DEF DescriptionInv
<1>1. ASSUME NEW req \in Requests, MakeAll(req)
      PROVE  FilesOK' /\ MetadataDescribesFiles'
  <2>1. FilesOK'
    BY <1>1, MakeFilesOK DEF MakeAll
  <2>2. \/ live' = Nothing
        \/ /\ Generates(files', req, Final(req), Skipped(req))
           /\ live' = Document(req, Final(req), Skipped(req))
    BY <1>1 DEF MakeAll
  <2>3. \A c \in Comp : files'[c] \subseteq Possible(c)
    BY <2>1 DEF FilesOK
  <2> QED
    BY <2>1, <2>2, <2>3, GeneratedDescribesFiles DEF MetadataDescribesFiles
<1>2. ASSUME NEW req \in Requests, NEW c \in Comp, MakeOne(req, c)
      PROVE  FilesOK' /\ MetadataDescribesFiles'
  <2>1. FilesOK'
    BY <1>2, MakeFilesOK DEF MakeOne
  <2>2. CASE Kept(req, FALSE)
    <3>1. live' = live /\ touched' = touched \cup Missing(files, req, {c})
      BY <1>2, <2>2 DEF MakeOne
    <3>2. Prefix(req, FALSE) = files
      BY <2>2 DEF Prefix
    <3>3. files' = [d \in Comp |->
              files[d] \cup (IF d \in Missing(files, req, {c}) THEN Needed(d) ELSE {})]
      BY <1>2, <3>2 DEF MakeOne, Make
    <3>4. \A d \in Comp \ touched' : files'[d] = files[d] /\ d \notin touched
      BY <3>1, <3>3
    <3> QED
      BY <2>1, <3>1, <3>4 DEF MetadataDescribesFiles
  <2>3. CASE ~Kept(req, FALSE)
    BY <1>2, <2>1, <2>3 DEF MakeOne, MetadataDescribesFiles
  <2> QED
    BY <2>2, <2>3
<1>3. CASE InstallLocal
  <2>1. Typesafe \in Comp
    BY CatalogueAssumption DEF Comp
  <2>2. files' = [files EXCEPT ![Typesafe] = Needed(Typesafe)]
    BY <1>3 DEF InstallLocal
  <2>3. FilesOK'
    BY <2>1, <2>2, NeededIsPossible DEF FilesOK
  <2>4. live' = live /\ touched' = touched \cup {Typesafe}
    BY <1>3 DEF InstallLocal
  <2>5. \A c \in Comp \ touched' : files'[c] = files[c] /\ c \notin touched
    BY <2>2, <2>4 DEF FilesOK
  <2> QED
    BY <2>3, <2>4, <2>5 DEF MetadataDescribesFiles
<1>4. CASE Overlay
  <2>1. files' = files /\ FilesOK' /\ files[Typesafe] = Needed(Typesafe)
    BY <1>4 DEF Overlay, FilesOK
  <2>2. ASSUME NEW doc \in [Comp -> Records], NEW c \in Comp,
               c # Typesafe => files[c] = IF doc[c].built THEN Needed(c) ELSE {}
        PROVE  files[c] = IF Reconstruct(doc)[c].built THEN Needed(c) ELSE {}
    <3>1. CASE c = Typesafe
      <4>1. Reconstruct(doc)[Typesafe].built
        BY <3>1, <2>2 DEF Reconstruct
      <4> QED
        BY <2>1, <3>1, <4>1
    <3>2. CASE c # Typesafe
      <4>1. Reconstruct(doc)[c] = doc[c]
        BY <3>2, <2>2 DEF Reconstruct
      <4> QED
        BY <2>2, <3>2, <4>1
    <3> QED
      BY <3>1, <3>2
  <2>3. CASE live # Nothing /\ live' = Reconstruct(live) /\ touched' = touched \ {Typesafe}
    <3>1. live \in [Comp -> Records]
      BY <2>3 DEF LiveInv
    <3>2. \A c \in Comp \ touched' :
            c # Typesafe => files[c] = IF live[c].built THEN Needed(c) ELSE {}
      BY <2>3 DEF MetadataDescribesFiles
    <3> QED
      BY <2>1, <2>2, <2>3, <3>1, <3>2 DEF MetadataDescribesFiles
  <2>4. ASSUME NEW skip, Generates(files, requested, Present, skip),
               live' = Reconstruct(Document(requested, Present, skip))
        PROVE  MetadataDescribesFiles'
    <3>1. Document(requested, Present, skip) \in [Comp -> Records]
      BY <2>4, GeneratedIsAcceptable
    <3>2. \A c \in Comp : files[c] \subseteq Possible(c)
      BY DEF FilesOK
    <3>3. \A c \in Comp :
            files[c] = IF Document(requested, Present, skip)[c].built
                       THEN Needed(c) ELSE {}
      BY <2>4, <3>2, GeneratedDescribesFiles
    <3> QED
      BY <2>1, <2>2, <2>4, <3>1, <3>3 DEF MetadataDescribesFiles
  <2> QED
    BY <1>4, <2>1, <2>3, <2>4 DEF Overlay
<1>5. ASSUME NEW c \in Comp, LoseFiles(c)
      PROVE  FilesOK' /\ MetadataDescribesFiles'
  <2>1. PICK lost \in files[c] : files' = [files EXCEPT ![c] = @ \ {lost}]
    BY <1>5 DEF LoseFiles
  <2>2. FilesOK'
    BY <2>1 DEF FilesOK
  <2>3. live' = live /\ touched' = touched \cup {c}
    BY <1>5 DEF LoseFiles
  <2>4. \A d \in Comp \ touched' : files'[d] = files[d] /\ d \notin touched
    BY <2>1, <2>3 DEF FilesOK
  <2> QED
    BY <2>2, <2>3, <2>4 DEF MetadataDescribesFiles
<1>6. CASE ChangeStandalone \/ Import \/ UNCHANGED vars
  BY <1>6 DEF ChangeStandalone, Import, vars, FilesOK, MetadataDescribesFiles
<1> QED
  BY <1>1, <1>2, <1>3, <1>4, <1>5, <1>6 DEF Next

\* Files that are as the last build or overlay left them are what the metadata
\* say: all of what was built and nothing else.
THEOREM MetadataTrue == Spec => []MetadataDescribesFiles
<1>1. DescriptionInv => MetadataDescribesFiles
  BY DEF DescriptionInv
<1> QED
  BY DescriptionInit, DescriptionNext, <1>1, PTL DEF Spec

-----------------------------------------------------------------------------
\* The variables that the lemmas above do not speak of.
RestOK ==
    /\ {local, cloned, marker} \subseteq BOOLEAN
    /\ requested \in Requests
    /\ supported \in Supported
    /\ touched \in SUBSET Comp
    /\ attested \in SUBSET Standalone
    /\ available \in SUBSET Ext

\* Files, metadata and all else keep their types.
LEMMA RestNext == RestOK /\ [Next]_vars => RestOK'
<1> SUFFICES ASSUME RestOK, [Next]_vars PROVE RestOK'
  OBVIOUS
<1> USE DEF RestOK
<1>1. ASSUME NEW req \in Requests, MakeAll(req) PROVE RestOK'
  <2>1. /\ requested' = req /\ touched' = {} /\ UNCHANGED <<supported, attested, available>>
        /\ {local', cloned', marker'} \subseteq BOOLEAN
    BY <1>1 DEF MakeAll, Make, Generates, Cloned
  <2> QED
    BY <2>1
<1>2. ASSUME NEW req \in Requests, NEW c \in Comp, MakeOne(req, c) PROVE RestOK'
  <2>1. /\ requested' = req /\ UNCHANGED <<supported, attested, available>>
        /\ {local', cloned', marker'} \subseteq BOOLEAN
    BY <1>2 DEF MakeOne, Make, Cloned, Kept
  <2>2. touched' \subseteq Comp
    BY <1>2 DEF MakeOne, Missing
  <2> QED
    BY <2>1, <2>2
<1>3. CASE InstallLocal
  BY <1>3, CatalogueAssumption DEF InstallLocal, Comp
<1>4. CASE Overlay
  BY <1>4 DEF Overlay
<1>5. ASSUME NEW c \in Comp, LoseFiles(c) PROVE RestOK'
  BY <1>5 DEF LoseFiles
<1>6. CASE ChangeStandalone \/ Import \/ UNCHANGED vars
  BY <1>6 DEF ChangeStandalone, Import, vars
<1> QED
  BY <1>1, <1>2, <1>3, <1>4, <1>5, <1>6 DEF Next

\* The variables keep their types, for any catalogue and any requests.
THEOREM TypeCorrect == Spec => []TypeOK
<1>1. Init => RestOK
  BY DEF Init, RestOK
<1>2. DescriptionInv /\ RestOK => TypeOK
  BY DEF DescriptionInv, FilesOK, LiveInv, RestOK, TypeOK
<1> QED
  BY <1>1, <1>2, DescriptionInit, DescriptionNext, RestNext, PTL DEF Spec

-----------------------------------------------------------------------------
\* The record that an overlay puts in.
LocalRecord == [requested |-> TRUE, built |-> TRUE, skipped |-> FALSE,
                paths |-> Needed(Typesafe), id |-> "local"]

\* A marked prefix has metadata, which are those of the present request but for
\* what an overlay put in: a component made since does not change them, another
\* request removes both.
ReleaseInv ==
    marker =>
        /\ live # Nothing
        /\ \A c \in Comp :
              \/ live[c] = Record(c, requested, Final(requested), Skipped(requested))
              \/ c = Typesafe /\ live[c] = LocalRecord

LEMMA ReleaseNext == LiveInv /\ ReleaseInv /\ [Next]_vars => ReleaseInv'
<1> SUFFICES ASSUME LiveInv, ReleaseInv, [Next]_vars, marker' PROVE ReleaseInv'
  BY DEF ReleaseInv
<1>1. ASSUME NEW req \in Requests, MakeAll(req) PROVE ReleaseInv'
  <2>1. live' = Document(req, Final(req), Skipped(req)) /\ requested' = req
    BY <1>1 DEF MakeAll, Make
  <2>2. \A c \in Comp : live'[c] = Record(c, req, Final(req), Skipped(req))
    BY <2>1 DEF Document
  <2>3. Final(requested)' = Final(req) /\ Skipped(requested)' = Skipped(req)
    BY <1>1, <2>1 DEF MakeAll, Make, Final, Skipped
  <2>4. live' # Nothing
    BY <1>1, <2>1, GeneratedIsAcceptable, NothingAssumption DEF MakeAll
  <2> QED
    BY <2>1, <2>2, <2>3, <2>4 DEF ReleaseInv, Record, Identity
<1>2. ASSUME live' = live, requested' = requested, supported' = supported, marker
      PROVE  ReleaseInv'
  BY <1>2 DEF ReleaseInv, Final, Skipped, Record, Identity
<1>3. ASSUME NEW req \in Requests, NEW c \in Comp, MakeOne(req, c) PROVE ReleaseInv'
  <2>1. Kept(req, FALSE) /\ marker /\ live' = live
    BY <1>3 DEF MakeOne
  <2> QED
    BY <1>2, <1>3, <2>1 DEF MakeOne, Make, Kept
<1>4. CASE Overlay
  <2>1. marker /\ live # Nothing /\ live' = Reconstruct(live)
    BY <1>4 DEF Overlay, ReleaseInv
  <2>2. live \in [Comp -> Records]
    BY <2>1 DEF LiveInv
  <2>3. \A c \in Comp : live'[c] = IF c = Typesafe THEN LocalRecord ELSE live[c]
    BY <2>1, <2>2 DEF Reconstruct, LocalRecord
  <2>4. live' # Nothing
    BY <2>1, <2>2, ReconstructedIsAcceptable, NothingAssumption DEF LiveInv
  <2>5. requested' = requested /\ supported' = supported
    BY <1>4 DEF Overlay
  <2> QED
    BY <2>1, <2>3, <2>4, <2>5 DEF ReleaseInv, Final, Skipped, Record, Identity, LocalRecord
<1>5. CASE \/ InstallLocal \/ ChangeStandalone \/ Import \/ UNCHANGED vars
           \/ \E c \in Comp : LoseFiles(c)
  BY <1>2, <1>5 DEF InstallLocal, ChangeStandalone, Import, LoseFiles, vars
<1> QED
  BY <1>1, <1>3, <1>4, <1>5 DEF Next

LEMMA RecordFields ==
    ASSUME NEW c, NEW req, NEW built, NEW skip
    PROVE  /\ Record(c, req, built, skip).built <=> c \in built
           /\ Record(c, req, built, skip).skipped <=> c \in skip
           /\ c \in built => Record(c, req, built, skip).paths = Needed(c)
           /\ Record(c, req, built, skip).id \in {"pinned", Nothing}
<1>1. /\ Record(c, req, built, skip).built <=> c \in built
      /\ Record(c, req, built, skip).skipped <=> c \in skip
  BY DEF Record
<1>2. c \in built => Record(c, req, built, skip).paths = Needed(c)
  BY DEF Record
<1>3. Identity(c, req, built, skip) \in {"pinned", Nothing}
  BY DEF Identity
<1>4. Record(c, req, built, skip).id \in {"pinned", Nothing}
  BY <1>3 DEF Record
<1> QED
  BY <1>1, <1>2, <1>4

\* After an untouched release a process offers exactly what was selected and is
\* supported, what an overlay added and what unselected extensions' own wheels
\* provide.
THEOREM ReleaseIsOffered == Spec => ReleaseOffersSelection
<1>1. Init => ReleaseInv
  BY DEF Init, ReleaseInv
<1>2. ASSUME DescriptionInv, RestOK, ReleaseInv, Import, marker, touched = {}
      PROVE  available' = Selected \cup (attested \ requested)
  <2> DEFINE record(c) == Record(c, requested, Final(requested), Skipped(requested))
  <2>1. /\ live # Nothing
        /\ \A c \in Comp : live[c] = record(c) \/ (c = Typesafe /\ live[c] = LocalRecord)
    BY <1>2 DEF ReleaseInv
  <2>2. Ext \subseteq Comp /\ Tigerfs \in Comp /\ Tigerfs # Typesafe
    BY CatalogueAssumption DEF Comp
  <2>3. Tigerfs \notin Skipped(requested)
    BY DEF Skipped, Final
  <2>4. ~live[Tigerfs].skipped
    <3>1. live[Tigerfs] = record(Tigerfs)
      BY <2>1, <2>2
    <3> QED
      BY <2>3, <3>1, RecordFields
  <2>5. Accepts(live)
    BY <1>2, <2>1, <2>4 DEF DescriptionInv, LiveInv, Acceptable, Accepts
  <2>6. \A c \in Comp : files[c] = IF live[c].built THEN Needed(c) ELSE {}
    BY <1>2, <2>1 DEF DescriptionInv, MetadataDescribesFiles
  <2>7. ASSUME NEW e \in Ext
        PROVE  Offered(e) <=> e \in Selected \cup (attested \ requested)
    <3>1. CASE live[e] = record(e)
      <4>1. /\ live[e].built <=> e \in Final(requested)
            /\ live[e].skipped <=> e \in Skipped(requested)
            /\ live[e].built => live[e].paths = Needed(e)
            /\ live[e].id \in {"pinned", Nothing}
        BY <3>1, RecordFields
      <4>2. e \in Selected <=> e \in Final(requested)
        BY <4>1, CatalogueAssumption DEF Selected
      <4>3. CASE e \in Final(requested)
        BY <2>2, <2>6, <4>1, <4>2, <4>3 DEF Offered, Complete
      <4>4. CASE e \notin Final(requested) /\ e \in requested
        BY <4>1, <4>2, <4>4 DEF Offered, Skipped
      <4>5. CASE e \notin Final(requested) /\ e \notin requested
        <5>1. ~Stale(e)
          BY <2>2, <2>6, <4>1, <4>5 DEF Stale
        <5> QED
          BY <4>1, <4>2, <4>5, <5>1 DEF Offered, Skipped
      <4> QED
        BY <4>3, <4>4, <4>5
    <3>2. CASE e = Typesafe /\ live[e] = LocalRecord
      <4>1. live[e].built /\ live[e].paths = Needed(e) /\ live[e].id = "local"
        BY <3>2 DEF LocalRecord
      <4> QED
        BY <2>2, <2>6, <4>1 DEF Offered, Complete, Selected
    <3> QED
      BY <2>1, <2>2, <3>1, <3>2
  <2>8. Selected \cup (attested \ requested) \subseteq Ext
    BY <1>2, CatalogueAssumption DEF Selected, RestOK
  <2>9. available' = {e \in Ext : Offered(e)}
    BY <1>2, <2>1, <2>5 DEF Import
  <2> QED
    BY <2>7, <2>8, <2>9
<1>3. DescriptionInv /\ RestOK /\ ReleaseInv =>
        [Import /\ marker /\ touched = {} =>
           available' = Selected \cup (attested \ requested)]_vars
  BY <1>2
<1>4. Init => DescriptionInv /\ RestOK
  BY DescriptionInit DEF Init, RestOK
<1>5. DescriptionInv /\ RestOK /\ ReleaseInv /\ [Next]_vars
        => (DescriptionInv /\ RestOK /\ ReleaseInv)'
  BY DescriptionNext, RestNext, ReleaseNext DEF DescriptionInv
<1> QED
  BY <1>1, <1>3, <1>4, <1>5, PTL DEF Spec, ReleaseOffersSelection
=============================================================================
