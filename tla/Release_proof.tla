------------------------------- MODULE Release_proof -------------------------------
(***************************************************************************)
(* Proofs about four protocols of a release.  The receipts of one release, *)
(* for any files, assets, releases and times, and however often it is      *)
(* recovered: what was authorized stays, what is closed was authorized and *)
(* is complete, what was given up left nothing outside, and an upload is   *)
(* handed out only for what is sealed and not known to be published.  The  *)
(* authority-key ceremony: no worker gets a second final version, and what *)
(* is reported ready is one closed set.  The admission of a candidate: one *)
(* archive per token, and what every read found was so since the call      *)
(* came.  The archive's bytes: an end that is seen is the end of all of    *)
(* them, and a pipe that stopped leaves nothing open.                      *)
(***************************************************************************)
EXTENDS ReleaseReceiptChain, AuthorityCeremony, CandidateAdmission, CandidateStream,
        SequenceTheorems, FiniteSetTheorems, TLAPS

-----------------------------------------------------------------------------
(* The receipts of a release. *)

\* From the request to the last check of the draft.
Building ==
  {"START", "QUEUED", "GOVERNANCE_A", "CANDIDATE_READY", "LEASED", "HYGIENE_VERIFIED",
   "ATTESTATION_INTENT", "ATTESTED", "PUBLIC_BUNDLE_VERIFIED", "DRAFT_CREATE_INTENT",
   "DRAFT_CREATED", "DRAFT_ASSET_INTENT", "DRAFT_ASSETS", "DRAFT_UPDATE_INTENT",
   "DRAFT_STAGED", "DRAFT_VERIFIED", "GOVERNANCE_B"}

\* From the authorization to the end.
Publishing ==
  {"AUTHORIZED", "PYPI_GATE_PENDING", "PYPI_GATE_DECISION_INTENT", "PYPI_GATE_RECONCILIATION",
   "PYPI_READY", "PYPI_PREPARING", "PYPI_SEALED", "PYPI_UPLOAD_INTENT", "PYPI_ACTIVE",
   "PYPI_PARTIAL", "PYPI_RECOVERY", "PYPI_VERIFIED", "GITHUB_PUBLISH_INTENT",
   "GITHUB_PUBLISHING", "GITHUB_IMMUTABLE", "GOVERNANCE_C", "TERMINAL"}

\* A draft that holds every asset.
WholeDraft == draft # 0 /\ assets = Assets

\* What is done to a draft names a release.
SubjectsSound ==
  \A i \in intents : i.op = "GITHUB_DRAFT_UPDATE" => i.subject.release \in Releases

\* A draft is whole from when it is staged; it is published only once it is
\* authorized, and built only before.
DraftSound ==
  /\ phase \in {"DRAFT_STAGED", "DRAFT_VERIFIED", "GOVERNANCE_B"} => WholeDraft
  /\ phase \in Publishing => authorized
  /\ authorized => phase \notin Building /\ WholeDraft

\* An upload that may still be handed out names what is left to upload: it was
\* recorded last, since no other may be open beside it.
OpenUploadSound ==
  phase = "PYPI_UPLOAD_INTENT" =>
    \A i \in intents :
      i.op = "PYPI_FILE_UPLOAD_SET" /\ ~i.consumed /\ i.fence = lease.fence =>
        i.subject.files = Unpublished /\ Unpublished # {}

ClosedSound == phase = "TERMINAL" => immutable /\ verified = Cardinality(Files)

ChainInv ==
  /\ ChainTypeOK
  /\ SubjectsSound
  /\ DraftSound
  /\ OpenUploadSound
  /\ ClosedSound
  /\ NothingExternalAbandoned

-----------------------------------------------------------------------------
(* Where an operation begins and is answered. *)

LEMMA OperationPhases ==
  /\ ConsumptionPhase("ATTESTATION_CREATE") = "ATTESTATION_INTENT"
  /\ ConsumptionPhase("GITHUB_DRAFT_CREATE") = "DRAFT_CREATE_INTENT"
  /\ ConsumptionPhase("GITHUB_DRAFT_ASSET_UPLOAD") = "DRAFT_ASSET_INTENT"
  /\ ConsumptionPhase("GITHUB_DRAFT_UPDATE") = "DRAFT_UPDATE_INTENT"
  /\ ConsumptionPhase("PYPI_DEPLOYMENT_APPROVE") = "PYPI_GATE_DECISION_INTENT"
  /\ ConsumptionPhase("PYPI_DEPLOYMENT_REJECT") = "PYPI_GATE_DECISION_INTENT"
  /\ ConsumptionPhase("PYPI_FILE_UPLOAD_SET") = "PYPI_UPLOAD_INTENT"
  /\ ConsumptionPhase("GITHUB_RELEASE_PUBLISH") = "GITHUB_PUBLISH_INTENT"
BY DEF ConsumptionPhase

\* An operation is not begun on both sides of the authorization.
LEMMA OperationSides ==
  ASSUME NEW op \in Operations
  PROVE  /\ ConsumptionPhase(op) \in Phases
         /\ ConsumptionPhase(op) \notin {"DRAFT_STAGED", "DRAFT_VERIFIED", "GOVERNANCE_B",
                                         "TERMINAL", "CANCELLED", "ABORTED"}
         /\ ConsumptionPhase(op) \in Publishing => IntentFrom(op) \subseteq Publishing
         /\ ConsumptionPhase(op) \in Building => IntentFrom(op) \subseteq Building
         /\ ConsumptionPhase(op) = "PYPI_UPLOAD_INTENT" => op = "PYPI_FILE_UPLOAD_SET"
         /\ ConsumptionPhase(op) \in Publishing \cup Building
<1>1. CASE op = "ATTESTATION_CREATE"
  BY <1>1 DEF ConsumptionPhase, IntentFrom, Phases, CANCELLABLE_PHASES, Publishing, Building
<1>2. CASE op = "GITHUB_DRAFT_CREATE"
  BY <1>2 DEF ConsumptionPhase, IntentFrom, Phases, CANCELLABLE_PHASES, Publishing, Building
<1>3. CASE op = "GITHUB_DRAFT_ASSET_UPLOAD"
  BY <1>3 DEF ConsumptionPhase, IntentFrom, Phases, CANCELLABLE_PHASES, Publishing, Building
<1>4. CASE op = "GITHUB_DRAFT_UPDATE"
  BY <1>4 DEF ConsumptionPhase, IntentFrom, Phases, CANCELLABLE_PHASES, Publishing, Building
<1>5. CASE op = "PYPI_DEPLOYMENT_APPROVE"
  BY <1>5 DEF ConsumptionPhase, IntentFrom, Phases, CANCELLABLE_PHASES, Publishing, Building
<1>6. CASE op = "PYPI_DEPLOYMENT_REJECT"
  BY <1>6 DEF ConsumptionPhase, IntentFrom, Phases, CANCELLABLE_PHASES, Publishing, Building
<1>7. CASE op = "PYPI_FILE_UPLOAD_SET"
  BY <1>7 DEF ConsumptionPhase, IntentFrom, Phases, CANCELLABLE_PHASES, Publishing, Building
<1>8. CASE op = "GITHUB_RELEASE_PUBLISH"
  BY <1>8 DEF ConsumptionPhase, IntentFrom, Phases, CANCELLABLE_PHASES, Publishing, Building
<1>9. QED
  BY <1>1, <1>2, <1>3, <1>4, <1>5, <1>6, <1>7, <1>8 DEF Operations

LEMMA SubjectOf ==
  ASSUME NEW op \in Operations, NEW s, SubjectFor(op, s)
  PROVE  /\ op = "GITHUB_DRAFT_UPDATE" => s.release \in Releases
         /\ op = "PYPI_FILE_UPLOAD_SET" => s.files = Unpublished /\ Unpublished # {}
<1>1. CASE op = "GITHUB_DRAFT_UPDATE"
  BY <1>1 DEF SubjectFor, NoSubject
<1>2. CASE op = "PYPI_FILE_UPLOAD_SET"
  BY <1>2 DEF SubjectFor, NoSubject
<1>3. QED
  BY <1>1, <1>2

-----------------------------------------------------------------------------
(* The chain's invariant: it holds at the start, and each rule keeps it. *)

\* Nothing is authorized, uploaded or abandoned yet.
LEMMA ChainInvInit == ChainInit => ChainInv
<1>1. ASSUME ChainInit PROVE ChainTypeOK
  <2>1. /\ phase \in Phases /\ lease \in [held : BOOLEAN, fence : Nat, renewed : Nat, expires : Nat]
        /\ files \in [Files -> FileState]
    BY <1>1 DEF ChainInit, Phases, FileState
  <2>2. recovery \in [id : BOOLEAN, exact : SUBSET Files, github : {"NONE", "DRAFT", "PUBLISHED"},
                      action : {"NONE", "CLOSE_EXACT", "INCIDENT_HOLD", "RESUME_ORIGINAL_CANDIDATE"}]
    BY <1>1 DEF ChainInit
  <2>3. QED
    BY <1>1, <2>1, <2>2 DEF ChainInit, ChainTypeOK
<1>2. ChainInit => SubjectsSound /\ DraftSound /\ OpenUploadSound /\ ClosedSound
  BY DEF ChainInit, SubjectsSound, DraftSound, OpenUploadSound, ClosedSound, Publishing
<1>3. ChainInit => NothingExternalAbandoned
  BY DEF ChainInit, NothingExternalAbandoned
<1>4. QED
  BY <1>1, <1>2, <1>3 DEF ChainInv

LEMMA ChainTickKeeps == ASSUME ChainInv, ChainTick PROVE ChainInv'
BY ChainAssumption
DEF ChainTick, Go, ChainInv, ChainTypeOK, SubjectsSound, DraftSound, WholeDraft,
   OpenUploadSound, ClosedSound, NothingExternalAbandoned, AmbiguousConsumption, Unpublished,
   StillAuthority, AllVerified, Phases, CANCELLABLE_PHASES, Publishing, Building, draftVars,
   gateVars, fileVars

LEMMA UnleasedKeeps == ASSUME ChainInv, Unleased PROVE ChainInv'
BY ChainAssumption
DEF Unleased, UnleasedRules, Go, ChainInv, ChainTypeOK, SubjectsSound, DraftSound, WholeDraft,
   OpenUploadSound, ClosedSound, NothingExternalAbandoned, AmbiguousConsumption, Unpublished,
   StillAuthority, AllVerified, Phases, CANCELLABLE_PHASES, Publishing, Building, draftVars,
   gateVars, fileVars

LEMMA LeasedKeeps == ASSUME ChainInv, Leased PROVE ChainInv'
BY ChainAssumption
DEF Leased, LeasedRules, UnderLease, Go, ChainInv, ChainTypeOK, SubjectsSound, DraftSound,
   WholeDraft, OpenUploadSound, ClosedSound, NothingExternalAbandoned, AmbiguousConsumption,
   Unpublished, StillAuthority, AllVerified, Phases, CANCELLABLE_PHASES, Publishing, Building,
   draftVars, gateVars, fileVars

LEMMA DraftVerifiedKeeps == ASSUME ChainInv, DraftVerified PROVE ChainInv'
BY ChainAssumption
DEF DraftVerified, UnderLease, AssetsComplete, Go, ChainInv, ChainTypeOK, SubjectsSound,
   DraftSound, WholeDraft, OpenUploadSound, ClosedSound, NothingExternalAbandoned,
   AmbiguousConsumption, Unpublished, StillAuthority, AllVerified, Phases, CANCELLABLE_PHASES,
   Publishing, Building, draftVars, gateVars, fileVars

LEMMA AuthorizeKeeps == ASSUME ChainInv, Authorize PROVE ChainInv'
BY ChainAssumption
DEF Authorize, UnderLease, Go, ChainInv, ChainTypeOK, SubjectsSound, DraftSound, WholeDraft,
   OpenUploadSound, ClosedSound, NothingExternalAbandoned, AmbiguousConsumption, Unpublished,
   StillAuthority, AllVerified, Phases, CANCELLABLE_PHASES, Publishing, Building, draftVars,
   gateVars, fileVars

LEMMA ImmutableVerifiedKeeps == ASSUME ChainInv, ImmutableVerified PROVE ChainInv'
BY ChainAssumption
DEF ImmutableVerified, UnderLease, Go, ChainInv, ChainTypeOK, SubjectsSound, DraftSound,
   WholeDraft, OpenUploadSound, ClosedSound, NothingExternalAbandoned, AmbiguousConsumption,
   Unpublished, StillAuthority, AllVerified, Phases, CANCELLABLE_PHASES, Publishing, Building,
   draftVars, gateVars, fileVars

LEMMA ClosedKeeps == ASSUME ChainInv, Closed PROVE ChainInv'
BY ChainAssumption
DEF Closed, UnderLease, Go, ChainInv, ChainTypeOK, SubjectsSound, DraftSound, WholeDraft,
   OpenUploadSound, ClosedSound, NothingExternalAbandoned, AmbiguousConsumption, Unpublished,
   StillAuthority, AllVerified, Phases, CANCELLABLE_PHASES, Publishing, Building, draftVars,
   gateVars, fileVars

LEMMA GateRequestedKeeps == ASSUME ChainInv, GateRequested PROVE ChainInv'
BY ChainAssumption
DEF GateRequested, UnderLease, Go, ChainInv, ChainTypeOK, SubjectsSound, DraftSound,
   WholeDraft, OpenUploadSound, ClosedSound, NothingExternalAbandoned, AmbiguousConsumption,
   Unpublished, StillAuthority, AllVerified, Phases, CANCELLABLE_PHASES, Publishing, Building,
   draftVars, gateVars, fileVars

LEMMA GateReconciledKeeps == ASSUME ChainInv, GateReconciled PROVE ChainInv'
BY ChainAssumption
DEF GateReconciled, UnderLease, Go, ChainInv, ChainTypeOK, SubjectsSound, DraftSound,
   WholeDraft, OpenUploadSound, ClosedSound, NothingExternalAbandoned, AmbiguousConsumption,
   Unpublished, StillAuthority, AllVerified, Phases, CANCELLABLE_PHASES, Publishing, Building,
   draftVars, gateVars, fileVars

LEMMA RenewKeeps == ASSUME ChainInv, Renew PROVE ChainInv'
<1>1. ChainTypeOK'
  <2>1. now \in Nat /\ now + Ttl \in Nat
    BY ChainAssumption DEF ChainInv, ChainTypeOK
  <2>2. lease' \in [held : BOOLEAN, fence : Nat, renewed : Nat, expires : Nat]
    BY <2>1 DEF Renew, ChainInv, ChainTypeOK
  <2>3. QED
    BY <2>2 DEF Renew, ChainInv, ChainTypeOK, draftVars, gateVars, fileVars
<1>2. SubjectsSound' /\ DraftSound' /\ ClosedSound'
  BY DEF Renew, ChainInv, SubjectsSound, DraftSound, ClosedSound, WholeDraft, Publishing,
     Building, draftVars, gateVars, fileVars
<1>3. OpenUploadSound'
  BY DEF Renew, ChainInv, ChainTypeOK, OpenUploadSound, Unpublished, fileVars
<1>4. NothingExternalAbandoned'
  BY DEF Renew, ChainInv, NothingExternalAbandoned, AmbiguousConsumption, draftVars, fileVars
<1>5. QED
  BY <1>1, <1>2, <1>3, <1>4 DEF ChainInv

LEMMA ReleaseKeeps == ASSUME ChainInv, Release PROVE ChainInv'
<1>1. ChainTypeOK'
  BY ChainAssumption, ZenonT(60)
  DEF Release, UnderLease, ChainInv, ChainTypeOK, Phases, draftVars, gateVars, fileVars
<1>2. SubjectsSound' /\ DraftSound' /\ ClosedSound'
  BY DEF Release, ChainInv, SubjectsSound, DraftSound, ClosedSound, WholeDraft, Publishing,
     Building, draftVars, gateVars, fileVars
<1>3. OpenUploadSound'
  BY DEF Release, ChainInv, ChainTypeOK, OpenUploadSound, Unpublished, fileVars
<1>4. NothingExternalAbandoned'
  BY DEF Release, ChainInv, NothingExternalAbandoned, AmbiguousConsumption, draftVars, fileVars
<1>5. QED
  BY <1>1, <1>2, <1>3, <1>4 DEF ChainInv

LEMMA ResumeKeeps == ASSUME ChainInv, Resume PROVE ChainInv'
BY ChainAssumption
DEF Resume, UnderLease, AuthorizationNamed, Go, ChainInv, ChainTypeOK, SubjectsSound,
   DraftSound, WholeDraft, OpenUploadSound, ClosedSound, NothingExternalAbandoned,
   AmbiguousConsumption, Unpublished, StillAuthority, AllVerified, Phases, CANCELLABLE_PHASES,
   Publishing, Building, draftVars, gateVars, fileVars

LEMMA CloseExactKeeps == ASSUME ChainInv, CloseExact PROVE ChainInv'
BY ChainAssumption
DEF CloseExact, UnderLease, AuthorizationNamed, Go, ChainInv, ChainTypeOK, SubjectsSound,
   DraftSound, WholeDraft, OpenUploadSound, ClosedSound, NothingExternalAbandoned,
   AmbiguousConsumption, Unpublished, StillAuthority, AllVerified, Phases, CANCELLABLE_PHASES,
   Publishing, Building, draftVars, gateVars, fileVars

LEMMA IncidentHoldKeeps == ASSUME ChainInv, IncidentHold PROVE ChainInv'
BY ChainAssumption
DEF IncidentHold, UnderLease, Go, ChainInv, ChainTypeOK, SubjectsSound, DraftSound,
   WholeDraft, OpenUploadSound, ClosedSound, NothingExternalAbandoned, AmbiguousConsumption,
   Unpublished, StillAuthority, AllVerified, Phases, CANCELLABLE_PHASES, Publishing, Building,
   draftVars, gateVars, fileVars

LEMMA HoldReleasedKeeps == ASSUME ChainInv, HoldReleased PROVE ChainInv'
BY ChainAssumption
DEF HoldReleased, Go, ChainInv, ChainTypeOK, SubjectsSound, DraftSound, WholeDraft,
   OpenUploadSound, ClosedSound, NothingExternalAbandoned, AmbiguousConsumption, Unpublished,
   StillAuthority, AllVerified, Phases, CANCELLABLE_PHASES, Publishing, Building, draftVars,
   gateVars, fileVars

LEMMA CancelKeeps == ASSUME ChainInv, Cancel PROVE ChainInv'
BY ChainAssumption
DEF Cancel, UnderLease, KnownExternal, Go, ChainInv, ChainTypeOK, SubjectsSound, DraftSound,
   WholeDraft, OpenUploadSound, ClosedSound, NothingExternalAbandoned, AmbiguousConsumption,
   Unpublished, StillAuthority, AllVerified, Phases, CANCELLABLE_PHASES, Publishing, Building,
   draftVars, gateVars, fileVars

LEMMA ExpireKeeps ==
  ASSUME ChainInv, Expire
  PROVE  ChainInv'
<1>1. /\ UNCHANGED <<now, rolled, draft, assets, authorized, immutable, gate, ambiguous, files,
                      verified>>
      /\ intents' \subseteq intents
      /\ lease' = [lease EXCEPT !.held = FALSE]
  BY DEF Expire, StillAuthority, draftVars, gateVars, fileVars
<1>2. /\ phase' \in {"ABORTED", "INCIDENT_HOLD", "RECOVERY_REQUIRED"}
      /\ phase' = "ABORTED" => phase = "CANCELLED"
  BY DEF Expire
<1>3. ChainTypeOK'
  <2>1. /\ lease' \in [held : BOOLEAN, fence : Nat, renewed : Nat, expires : Nat]
        /\ intents' \subseteq Intent
    BY <1>1 DEF ChainInv, ChainTypeOK
  <2>2. recovery' = recovery \/ recovery' = [recovery EXCEPT !.id = TRUE]
    BY DEF Expire
  <2>3. recovery' \in [id : BOOLEAN, exact : SUBSET Files,
                       github : {"NONE", "DRAFT", "PUBLISHED"},
                       action : {"NONE", "CLOSE_EXACT", "INCIDENT_HOLD",
                                 "RESUME_ORIGINAL_CANDIDATE"}]
    BY <2>2 DEF ChainInv, ChainTypeOK
  <2>4. phase' \in Phases
    BY <1>2 DEF Phases
  <2>5. QED
    BY <1>1, <2>1, <2>3, <2>4 DEF ChainInv, ChainTypeOK
<1>4. SubjectsSound'
  BY <1>1 DEF ChainInv, SubjectsSound
<1>5. DraftSound'
  BY <1>1, <1>2 DEF ChainInv, DraftSound, WholeDraft, Publishing, Building
<1>6. OpenUploadSound' /\ ClosedSound'
  BY <1>2 DEF OpenUploadSound, ClosedSound
<1>7. NothingExternalAbandoned'
  BY <1>1, <1>2 DEF ChainInv, NothingExternalAbandoned, AmbiguousConsumption
<1>8. QED
  BY <1>3, <1>4, <1>5, <1>6, <1>7 DEF ChainInv

LEMMA AttestedKeeps ==
  ASSUME ChainInv, NEW i \in intents, Attested(i)
  PROVE  ChainInv'
BY ChainAssumption, OperationPhases
DEF Attested, Answer, Answers, UnderLease, Go, ChainInv, ChainTypeOK, SubjectsSound,
   DraftSound, WholeDraft, OpenUploadSound, ClosedSound, NothingExternalAbandoned,
   AmbiguousConsumption, Unpublished, AllVerified, Phases, CANCELLABLE_PHASES, Publishing,
   Building, draftVars, gateVars, fileVars

LEMMA DraftAssetUploadedKeeps ==
  ASSUME ChainInv, NEW i \in intents, DraftAssetUploaded(i)
  PROVE  ChainInv'
<1>1. ChainTypeOK'
  BY ChainAssumption, OperationPhases
  DEF DraftAssetUploaded, Answer, Answers, UnderLease, Intent, Subject, ChainInv, ChainTypeOK,
     Phases, CANCELLABLE_PHASES, draftVars, gateVars, fileVars
<1>2. SubjectsSound' /\ DraftSound' /\ ClosedSound'
  BY OperationPhases, ChainAssumption
  DEF DraftAssetUploaded, Answer, Answers, UnderLease, Intent, Subject, ChainInv, ChainTypeOK,
     SubjectsSound, DraftSound, ClosedSound, WholeDraft, Publishing, Building, draftVars,
     gateVars, fileVars
<1>3. OpenUploadSound'
  BY OperationPhases
  DEF DraftAssetUploaded, Answer, Answers, UnderLease, ChainInv, ChainTypeOK, OpenUploadSound,
     Unpublished, fileVars
<1>4. NothingExternalAbandoned'
  BY OperationPhases
  DEF DraftAssetUploaded, Answer, Answers, UnderLease, ChainInv, NothingExternalAbandoned,
     AmbiguousConsumption, draftVars, fileVars
<1>5. QED
  BY <1>1, <1>2, <1>3, <1>4 DEF ChainInv

LEMMA DraftStagedKeeps ==
  ASSUME ChainInv, NEW i \in intents, DraftStaged(i)
  PROVE  ChainInv'
<1>1. ChainTypeOK'
  BY ChainAssumption, OperationPhases
  DEF DraftStaged, Answer, Answers, UnderLease, AssetsComplete, ChainInv, ChainTypeOK, Phases,
     CANCELLABLE_PHASES, draftVars, gateVars, fileVars
<1>2. SubjectsSound' /\ DraftSound' /\ ClosedSound'
  BY OperationPhases, ChainAssumption
  DEF DraftStaged, Answer, Answers, UnderLease, AssetsComplete, ChainInv, ChainTypeOK,
     SubjectsSound, DraftSound, ClosedSound, WholeDraft, Publishing, Building, draftVars,
     gateVars, fileVars
<1>3. OpenUploadSound'
  BY OperationPhases
  DEF DraftStaged, Answer, Answers, UnderLease, AssetsComplete, ChainInv, ChainTypeOK,
     OpenUploadSound, Unpublished, fileVars
<1>4. NothingExternalAbandoned'
  BY OperationPhases
  DEF DraftStaged, Answer, Answers, UnderLease, AssetsComplete, ChainInv,
     NothingExternalAbandoned, AmbiguousConsumption, draftVars, fileVars
<1>5. QED
  BY <1>1, <1>2, <1>3, <1>4 DEF ChainInv

LEMMA PublishAcceptedKeeps ==
  ASSUME ChainInv, NEW i \in intents, PublishAccepted(i)
  PROVE  ChainInv'
BY ChainAssumption, OperationPhases
DEF PublishAccepted, Answer, Answers, UnderLease, Go, ChainInv, ChainTypeOK, SubjectsSound,
   DraftSound, WholeDraft, OpenUploadSound, ClosedSound, NothingExternalAbandoned,
   AmbiguousConsumption, Unpublished, AllVerified, Phases, CANCELLABLE_PHASES, Publishing,
   Building, draftVars, gateVars, fileVars

LEMMA GateDecidedKeeps ==
  ASSUME ChainInv, NEW i \in intents, GateDecided(i)
  PROVE  ChainInv'
BY ChainAssumption, OperationPhases
DEF GateDecided, Answer, Answers, UnderLease, Go, ChainInv, ChainTypeOK, SubjectsSound,
   DraftSound, WholeDraft, OpenUploadSound, ClosedSound, NothingExternalAbandoned,
   AmbiguousConsumption, Unpublished, AllVerified, Phases, CANCELLABLE_PHASES, Publishing,
   Building, draftVars, gateVars, fileVars

LEMMA GateAmbiguousKeeps ==
  ASSUME ChainInv, NEW i \in intents, GateAmbiguous(i)
  PROVE  ChainInv'
BY ChainAssumption, OperationPhases
DEF GateAmbiguous, Answer, Answers, UnderLease, Operations, Go, ChainInv, ChainTypeOK,
   SubjectsSound, DraftSound, WholeDraft, OpenUploadSound, ClosedSound,
   NothingExternalAbandoned, AmbiguousConsumption, Unpublished, AllVerified, Phases,
   CANCELLABLE_PHASES, Publishing, Building, draftVars, gateVars, fileVars

LEMMA DraftCreatedKeeps ==
  ASSUME ChainInv, NEW i \in intents, NEW r \in Releases, DraftCreated(i, r)
  PROVE  ChainInv'
BY ChainAssumption, OperationPhases
DEF DraftCreated, Answer, Answers, UnderLease, Go, ChainInv, ChainTypeOK, SubjectsSound,
   DraftSound, WholeDraft, OpenUploadSound, ClosedSound, NothingExternalAbandoned,
   AmbiguousConsumption, Unpublished, AllVerified, Phases, CANCELLABLE_PHASES, Publishing,
   Building, draftVars, gateVars, fileVars

LEMMA FilePendingKeeps ==
  ASSUME ChainInv, NEW f \in Files, FilePending(f)
  PROVE  ChainInv'
BY ChainAssumption
DEF FilePending, FileReceipt, FilePhase, UnderLease, FileState, Go, ChainInv, ChainTypeOK,
   SubjectsSound, DraftSound, WholeDraft, OpenUploadSound, ClosedSound,
   NothingExternalAbandoned, AmbiguousConsumption, Unpublished, AllVerified, Phases,
   CANCELLABLE_PHASES, Publishing, Building, draftVars, gateVars, fileVars

LEMMA FileSealedKeeps ==
  ASSUME ChainInv, NEW f \in Files, FileSealed(f)
  PROVE  ChainInv'
BY ChainAssumption
DEF FileSealed, FileReceipt, FilePhase, UnderLease, FileState, Go, ChainInv, ChainTypeOK,
   SubjectsSound, DraftSound, WholeDraft, OpenUploadSound, ClosedSound,
   NothingExternalAbandoned, AmbiguousConsumption, Unpublished, AllVerified, Phases,
   CANCELLABLE_PHASES, Publishing, Building, draftVars, gateVars, fileVars

LEMMA FileVerifiedKeeps ==
  ASSUME ChainInv, NEW f \in Files, FileVerified(f)
  PROVE  ChainInv'
BY ChainAssumption
DEF FileVerified, FileReceipt, FilePhase, UnderLease, FileState, Go, ChainInv, ChainTypeOK,
   SubjectsSound, DraftSound, WholeDraft, OpenUploadSound, ClosedSound,
   NothingExternalAbandoned, AmbiguousConsumption, Unpublished, AllVerified, Phases,
   CANCELLABLE_PHASES, Publishing, Building, draftVars, gateVars, fileVars

LEMMA AlreadyPublishedExactKeeps ==
  ASSUME ChainInv, NEW f \in Files, AlreadyPublishedExact(f)
  PROVE  ChainInv'
BY ChainAssumption
DEF AlreadyPublishedExact, FileReceipt, FilePhase, UnderLease, FileState, Go, ChainInv,
   ChainTypeOK, SubjectsSound, DraftSound, WholeDraft, OpenUploadSound, ClosedSound,
   NothingExternalAbandoned, AmbiguousConsumption, Unpublished, AllVerified, Phases,
   CANCELLABLE_PHASES, Publishing, Building, draftVars, gateVars, fileVars

LEMMA FileConflictKeeps ==
  ASSUME ChainInv, NEW f \in Files, FileConflict(f)
  PROVE  ChainInv'
BY ChainAssumption
DEF FileConflict, FileReceipt, FilePhase, UnderLease, FileState, Go, ChainInv, ChainTypeOK,
   SubjectsSound, DraftSound, WholeDraft, OpenUploadSound, ClosedSound,
   NothingExternalAbandoned, AmbiguousConsumption, Unpublished, AllVerified, Phases,
   CANCELLABLE_PHASES, Publishing, Building, draftVars, gateVars, fileVars

LEMMA UploadSetObservedKeeps ==
  ASSUME ChainInv, NEW i \in intents, NEW accepted \in SUBSET Files, UploadSetObserved(i, accepted)
  PROVE  ChainInv'
BY ChainAssumption, OperationPhases, ZenonT(60)
DEF UploadSetObserved, FileState, Answer, Answers, UnderLease, Go, ChainInv, ChainTypeOK,
   SubjectsSound, DraftSound, WholeDraft, OpenUploadSound, ClosedSound,
   NothingExternalAbandoned, AmbiguousConsumption, Unpublished, AllVerified, Phases,
   CANCELLABLE_PHASES, Publishing, Building, draftVars, gateVars, fileVars

LEMMA AcquireKeeps ==
  ASSUME ChainInv, NEW fence \in 1..MaxFence, Acquire(fence)
  PROVE  ChainInv'
<1>1. ChainTypeOK'
  <2>1. now \in Nat /\ now + Ttl \in Nat /\ fence \in Nat
    BY ChainAssumption DEF ChainInv, ChainTypeOK
  <2>2. lease' \in [held : BOOLEAN, fence : Nat, renewed : Nat, expires : Nat]
    BY <2>1 DEF Acquire
  <2>3. phase' \in Phases
    BY DEF Acquire, Phases, CANCELLABLE_PHASES
  <2>4. rolled' \in BOOLEAN
    BY DEF Acquire, ChainInv, ChainTypeOK
  <2>5. QED
    BY <2>2, <2>3, <2>4 DEF Acquire, ChainInv, ChainTypeOK, draftVars, gateVars, fileVars
<1>2. SubjectsSound' /\ DraftSound' /\ ClosedSound'
  BY ChainAssumption
  DEF Acquire, ChainInv, ChainTypeOK, SubjectsSound, DraftSound, ClosedSound, WholeDraft,
     Publishing, Building, draftVars, gateVars, fileVars
<1>3. OpenUploadSound'
  BY DEF Acquire, ChainInv, ChainTypeOK, OpenUploadSound, Unpublished, fileVars
<1>4. NothingExternalAbandoned'
  BY DEF Acquire, ChainInv, NothingExternalAbandoned, AmbiguousConsumption, draftVars, fileVars
<1>5. QED
  BY <1>1, <1>2, <1>3, <1>4 DEF ChainInv

LEMMA ConsumeKeeps ==
  ASSUME ChainInv, NEW i \in intents, Consume(i)
  PROVE  ChainInv'
<1>1. ChainTypeOK'
  <2>1. i \in Intent /\ now + GuardTtl \in Nat
    BY ChainAssumption DEF ChainInv, ChainTypeOK
  <2>2. Consumed(i) \in Intent
    BY <2>1 DEF Consumed, Intent
  <2>3. QED
    BY <2>2 DEF Consume, ChainInv, ChainTypeOK, draftVars, gateVars, fileVars
<1>2. SubjectsSound' /\ DraftSound' /\ ClosedSound'
  BY OperationSides, ChainAssumption
  DEF Consume, Consumed, MayConsume, UnderLease, Intent, ChainInv, ChainTypeOK, SubjectsSound,
     DraftSound, ClosedSound, WholeDraft, Publishing, Building, draftVars, gateVars, fileVars
<1>3. OpenUploadSound'
  BY OperationSides
  DEF Consume, Consumed, MayConsume, UnderLease, Intent, ChainInv, ChainTypeOK,
     OpenUploadSound, Unpublished, fileVars
<1>4. NothingExternalAbandoned'
  <2>1. phase' = phase /\ phase \notin {"CANCELLED", "ABORTED"}
    BY OperationSides DEF Consume, MayConsume, ChainInv, ChainTypeOK, Intent
  <2>2. QED
    BY <2>1 DEF NothingExternalAbandoned
<1>5. QED
  BY <1>1, <1>2, <1>3, <1>4 DEF ChainInv

LEMMA RecordIntentKeeps ==
  ASSUME ChainInv, NEW op \in Operations, NEW s \in Subject, RecordIntent(op, s)
  PROVE  ChainInv'
<1>1. ChainTypeOK'
  <2>1. lease.fence \in Nat
    BY DEF ChainInv, ChainTypeOK
  <2>2. [op |-> op, fence |-> lease.fence, subject |-> s, consumed |-> FALSE, expires |-> 0] \in Intent
    BY <2>1 DEF Intent
  <2>3. QED
    BY <2>2, OperationSides, ZenonT(60)
    DEF RecordIntent, ChainInv, ChainTypeOK, draftVars, gateVars, fileVars
<1>2. SubjectsSound' /\ DraftSound' /\ ClosedSound'
  BY OperationSides, SubjectOf, ChainAssumption
  DEF RecordIntent, UnderLease, Intent, ChainInv, ChainTypeOK, SubjectsSound, DraftSound,
     ClosedSound, WholeDraft, Publishing, Building, draftVars, gateVars, fileVars
<1>3. OpenUploadSound'
  <2>1. SUFFICES ASSUME phase' = "PYPI_UPLOAD_INTENT", NEW i \in intents',
                        i.op = "PYPI_FILE_UPLOAD_SET", ~i.consumed
                 PROVE  i.subject.files = Unpublished /\ Unpublished # {}
    BY DEF RecordIntent, OpenUploadSound, Unpublished, fileVars
  <2>2. op = "PYPI_FILE_UPLOAD_SET"
    BY <2>1, OperationSides DEF RecordIntent
  <2>3. i \notin intents
    BY <2>1, <2>2 DEF RecordIntent, Open
  <2>4. i.subject = s
    BY <2>3 DEF RecordIntent
  <2>5. QED
    BY <2>2, <2>4, SubjectOf DEF RecordIntent
<1>4. NothingExternalAbandoned'
  BY OperationSides, SubjectOf
  DEF RecordIntent, UnderLease, ChainInv, NothingExternalAbandoned, AmbiguousConsumption,
     draftVars, fileVars
<1>5. QED
  BY <1>1, <1>2, <1>3, <1>4 DEF ChainInv

LEMMA ObserveKeeps ==
  ASSUME ChainInv, NEW exact \in SUBSET Files, NEW github \in {"NONE", "DRAFT", "PUBLISHED"},
         NEW action \in {"CLOSE_EXACT", "INCIDENT_HOLD", "RESUME_ORIGINAL_CANDIDATE"},
         Observe(exact, github, action)
  PROVE  ChainInv'
BY ChainAssumption
DEF Observe, UnderLease, Go, ChainInv, ChainTypeOK, SubjectsSound, DraftSound, WholeDraft,
   OpenUploadSound, ClosedSound, NothingExternalAbandoned, AmbiguousConsumption, Unpublished,
   AllVerified, Phases, CANCELLABLE_PHASES, Publishing, Building, draftVars, gateVars,
   fileVars

-----------------------------------------------------------------------------
LEMMA OutcomeKeeps ==
  ASSUME ChainInv, NEW i \in intents, Outcome(i)
  PROVE  ChainInv'
BY AttestedKeeps, DraftCreatedKeeps, DraftAssetUploadedKeeps, DraftStagedKeeps,
   PublishAcceptedKeeps, GateDecidedKeeps, GateAmbiguousKeeps, UploadSetObservedKeeps
DEF Outcome

LEMMA FileStepKeeps ==
  ASSUME ChainInv, NEW f \in Files, FileStep(f)
  PROVE  ChainInv'
BY FilePendingKeeps, FileSealedKeeps, FileVerifiedKeeps, AlreadyPublishedExactKeeps,
   FileConflictKeeps
DEF FileStep

LEMMA ChainInvNext == ChainInv /\ [ChainNext]_chainVars => ChainInv'
<1> SUFFICES ASSUME ChainInv, [ChainNext]_chainVars PROVE ChainInv'
  OBVIOUS
<1>1. CASE ChainTick \/ Unleased \/ Leased \/ DraftVerified \/ Authorize \/ ImmutableVerified \/ Closed
  BY <1>1, ChainTickKeeps, UnleasedKeeps, LeasedKeeps, DraftVerifiedKeeps, AuthorizeKeeps,
     ImmutableVerifiedKeeps, ClosedKeeps
<1>2. CASE \E op \in Operations, s \in Subject : RecordIntent(op, s)
  BY <1>2, RecordIntentKeeps
<1>3. CASE \E i \in intents : Consume(i) \/ Outcome(i)
  BY <1>3, ConsumeKeeps, OutcomeKeeps
<1>4. CASE GateRequested \/ GateReconciled
  BY <1>4, GateRequestedKeeps, GateReconciledKeeps
<1>5. CASE \E f \in Files : FileStep(f)
  BY <1>5, FileStepKeeps
<1>6. CASE (\E fence \in 1..MaxFence : Acquire(fence)) \/ Renew \/ Expire \/ Release
  BY <1>6, AcquireKeeps, RenewKeeps, ExpireKeeps, ReleaseKeeps
<1>7. CASE Cancel
  BY <1>7, CancelKeeps
<1>8. CASE \E exact \in SUBSET Files, github \in {"NONE", "DRAFT", "PUBLISHED"},
              action \in {"CLOSE_EXACT", "INCIDENT_HOLD", "RESUME_ORIGINAL_CANDIDATE"} :
             Observe(exact, github, action)
  BY <1>8, ObserveKeeps
<1>9. CASE Resume \/ CloseExact \/ IncidentHold \/ HoldReleased
  BY <1>9, ResumeKeeps, CloseExactKeeps, IncidentHoldKeeps, HoldReleasedKeeps
<1>10. CASE UNCHANGED chainVars
  BY <1>10
  DEF chainVars, draftVars, gateVars, fileVars, ChainInv, ChainTypeOK, SubjectsSound,
     DraftSound, WholeDraft, OpenUploadSound, Unpublished, ClosedSound,
     NothingExternalAbandoned, AmbiguousConsumption
<1>11. QED
  BY <1>1, <1>2, <1>3, <1>4, <1>5, <1>6, <1>7, <1>8, <1>9, <1>10 DEF ChainNext

-----------------------------------------------------------------------------
(* The theorems. *)

\* What a verifier of a release's receipts knows after any receipt it accepted,
\* strengthened until every receipt keeps it.
THEOREM ChainInvariant == ChainSpec => []ChainInv
<1>1. QED
  BY ChainInvInit, ChainInvNext, PTL DEF ChainSpec

\* Every part of the verifier's state keeps its type.
THEOREM ChainTypeCorrect == ChainSpec => []ChainTypeOK
<1>1. ChainInv => ChainTypeOK
  BY DEF ChainInv
<1>2. QED
  BY <1>1, ChainInvariant, PTL

\* A release that was cancelled or aborted left nothing outside, in whatever
\* order leases expired and late outcomes came in.
THEOREM NothingExternalIsAbandoned == ChainSpec => []NothingExternalAbandoned
<1>1. ChainInv => NothingExternalAbandoned
  BY DEF ChainInv
<1>2. QED
  BY <1>1, ChainInvariant, PTL

\* A closed release was authorized on a whole draft and has its files counted.
THEOREM ClosedReleaseIsPublished == ChainSpec => []ClosedIsPublished
<1>1. ChainInv => ClosedIsPublished
  BY DEF ChainInv, ClosedSound, DraftSound, WholeDraft, ClosedIsPublished, Publishing
<1>2. QED
  BY <1>1, ChainInvariant, PTL

\* Nothing that builds a draft is accepted once it is authorized.
LEMMA AuthorizedOutcome ==
  ASSUME ChainInv, authorized, NEW i \in intents, Outcome(i)
  PROVE  authorized' /\ draft' = draft /\ assets' = assets /\ phase' # "LEASED"
<1>1. phase \notin Building
  BY DEF ChainInv, DraftSound
<1>2. CASE Attested(i) \/ (\E r \in Releases : DraftCreated(i, r)) \/ DraftAssetUploaded(i) \/ DraftStaged(i)
  BY <1>1, <1>2, OperationPhases
  DEF Attested, DraftCreated, DraftAssetUploaded, DraftStaged, Answer, Building
<1>3. CASE PublishAccepted(i) \/ GateDecided(i) \/ GateAmbiguous(i)
  BY <1>3 DEF PublishAccepted, GateDecided, GateAmbiguous, draftVars
<1>4. CASE \E accepted \in SUBSET Files : UploadSetObserved(i, accepted)
  BY <1>4 DEF UploadSetObserved, draftVars
<1>5. QED
  BY <1>2, <1>3, <1>4 DEF Outcome

\* What was authorized is what is published: no receipt takes an authorization
\* back or changes the draft it was given for, also not after a recovery.
THEOREM AuthorizedIsFinal == ChainSpec => AuthorizationIsFinal
<1>1. ASSUME ChainInv, ChainNext, authorized
      PROVE  authorized' /\ draft' = draft /\ assets' = assets /\ phase' # "LEASED"
  <2> USE <1>1
  <2>0. phase \notin Building
    BY DEF ChainInv, DraftSound
  <2>1. CASE ChainTick \/ Unleased \/ Leased \/ DraftVerified \/ Authorize \/ ImmutableVerified \/ Closed
    <3>1. CASE Unleased
      BY <3>1 DEF Unleased, UnleasedRules, Go, draftVars
    <3>2. CASE Leased
      BY <3>2 DEF Leased, LeasedRules, Go, draftVars
    <3>3. CASE ChainTick
      BY <2>0, <3>3 DEF ChainTick, draftVars, Building
    <3>4. CASE DraftVerified \/ Authorize \/ ImmutableVerified \/ Closed
      BY <3>4 DEF DraftVerified, Authorize, ImmutableVerified, Closed, Go, draftVars
    <3>5. QED
      BY <2>1, <3>1, <3>2, <3>3, <3>4
  <2>2. CASE \E op \in Operations, s \in Subject : RecordIntent(op, s)
    <3>1. PICK op \in Operations, s \in Subject : RecordIntent(op, s)
      BY <2>2
    <3>2. phase' # "LEASED"
      BY <3>1, <2>0, OperationSides DEF RecordIntent, Publishing, Building
    <3>3. QED
      BY <3>1, <3>2 DEF RecordIntent, draftVars
  <2>3. CASE \E i \in intents : Consume(i) \/ Outcome(i)
    BY <2>0, <2>3, AuthorizedOutcome DEF Consume, draftVars, Building
  <2>4. CASE GateRequested \/ GateReconciled
    BY <2>4 DEF GateRequested, GateReconciled, Go, draftVars
  <2>5. CASE \E f \in Files : FileStep(f)
    BY <2>5
    DEF FileStep, FilePending, FileSealed, FileVerified, AlreadyPublishedExact, FileConflict,
       FileReceipt, AllVerified, draftVars
  <2>6. CASE (\E fence \in 1..MaxFence : Acquire(fence)) \/ Renew \/ Expire \/ Release
    BY <2>0, <2>6 DEF Acquire, Renew, Expire, Release, draftVars, Building
  <2>7. CASE Cancel
    BY <2>7 DEF Cancel, draftVars
  <2>8. CASE \E exact \in SUBSET Files, github \in {"NONE", "DRAFT", "PUBLISHED"},
                action \in {"CLOSE_EXACT", "INCIDENT_HOLD", "RESUME_ORIGINAL_CANDIDATE"} :
               Observe(exact, github, action)
    BY <2>8 DEF Observe, Go, draftVars
  <2>9. CASE Resume \/ CloseExact \/ IncidentHold \/ HoldReleased
    BY <2>9
    DEF Resume, CloseExact, IncidentHold, HoldReleased, Go, AuthorizationNamed, AllVerified,
       draftVars
  <2>10. QED
    BY <2>1, <2>2, <2>3, <2>4, <2>5, <2>6, <2>7, <2>8, <2>9 DEF ChainNext
<1>2. ChainInv /\ [ChainNext]_chainVars =>
        [authorized => authorized' /\ draft' = draft /\ assets' = assets /\ phase' # "LEASED"]_chainVars
  BY <1>1
<1>3. QED
  BY <1>2, ChainInvariant, PTL DEF ChainSpec, AuthorizationIsFinal

\* The capability to upload is handed out for exactly what is sealed and not
\* known to be published, also after a recovery by another lease.
THEOREM UploadsAreOfUnpublished == ChainSpec => UploadsOnlyUnpublished
<1> DEFINE Unsent ==
      \A i \in intents :
        Consume(i) /\ i.op = "PYPI_FILE_UPLOAD_SET" =>
          /\ i.subject.files # {}
          /\ \A f \in i.subject.files : files[f] = "SEALED_FOR_UPLOAD" /\ f \notin recovery.exact
<1>1. ChainInv => Unsent
  BY OperationPhases DEF ChainInv, OpenUploadSound, Consume, MayConsume, Unpublished
<1>2. ChainInv /\ [ChainNext]_chainVars => [Unsent]_chainVars
  BY <1>1
<1>3. QED
  BY <1>2, ChainInvariant, PTL DEF ChainSpec, UploadsOnlyUnpublished

-----------------------------------------------------------------------------
(* The authority-key ceremony. *)

\* A role's final versions.
Finals(k) ==
  {id \in DOMAIN versions[ROLE_ORDER[k]] : versions[ROLE_ORDER[k]][id].kind = "AUTHORITY"}

Written == journal # None /\ journal.entries # <<>>

\* Of a set's versions, the first n read back as they should, among `all`.
Verified(all, ids, config, n) ==
  \A k \in 1..n :
    /\ ids[k] \in DOMAIN all[ROLE_ORDER[k]]
    /\ Projected(all[ROLE_ORDER[k]][ids[k]], "AUTHORITY", config, Pins(k, ids))

\* The versions that a set names are there.
Named(all, ids) == \A k \in 1..Len(ids) : ids[k] \in DOMAIN all[ROLE_ORDER[k]]

\* No version was changed or taken away.
Grown(before, after) ==
  \A w \in Worker : \A id \in DOMAIN before[w] :
    id \in DOMAIN after[w] /\ after[w][id] = before[w][id]

\* The bootstrap is over before the ceremony begins.
BootstrapOver ==
  /\ boot # None => report = None
  /\ journal # None => report # None

\* A final version was on record as absent before it was made, with the keys of
\* the journal, and nothing was made after it.
FinalsOnRecord ==
  \A k \in 1..Roles : \A id \in Finals(k) :
    /\ Written /\ k <= Last.absent
    /\ versions[ROLE_ORDER[k]][id].keys = Last.input.keys
    /\ \A other \in DOMAIN versions[ROLE_ORDER[k]] :
         versions[ROLE_ORDER[k]][other].kind \in {"AUTHORITY", "BOOTSTRAP"} => other <= id

JournalSound ==
  Written =>
    /\ Len(Last.ids) <= Roles /\ Last.absent <= Roles /\ Named(versions, Last.ids)
    /\ Last.status = "READY" => Len(Last.ids) = Roles

\* The command knows what is on record, and a version it has not named can only
\* be one an earlier command left.
CommandSound ==
  run # None =>
    /\ journal # None /\ ~journal.torn
    /\ run.config = report.config
    /\ Len(run.ids) <= Roles /\ run.absent <= Roles /\ Named(versions, run.ids)
    /\ Written => Last.input = run.input /\ Last.absent <= run.absent
    /\ ~run.save => Written /\ Last.ids = run.ids /\ Last.absent = run.absent
    /\ \A k \in (Len(run.ids) + 1)..Roles : Finals(k) # {} => run.recover /\ k <= run.known
    /\ run.looked => Len(run.ids) < Roles /\ Finals(Len(run.ids) + 1) = {}

\* Once its set is complete the command only reads it back, all of it, before
\* the journal says it is ready.
PhaseSound ==
  run # None =>
    /\ run.phase # "roles" =>
         /\ Len(run.ids) = Roles /\ run.observed <= Roles
         /\ Verified(versions, run.ids, run.config, run.observed)
    /\ run.phase \in {"ready", "output"} => run.observed = Roles
    /\ run.phase = "ready" => run.save
    /\ run.phase \in {"terminal", "output"} => ~run.save /\ Last.status = "READY"
    /\ Written /\ Last.status = "READY" => run.phase \in {"terminal", "output"}

\* Only the set of the journal's last entry was ever told.
ToldSound ==
  /\ told \subseteq {[ids |-> Last.ids, keys |-> Last.input.keys]}
  /\ told # {} => /\ Written /\ Last.status = "READY"
                  /\ Verified(versions, Last.ids, report.config, Roles)

CeremonyInv ==
  /\ CeremonyTypeOK
  /\ BootstrapOver
  /\ FinalsOnRecord
  /\ JournalSound
  /\ CommandSound
  /\ PhaseSound
  /\ ToldSound

----------------------------------------------------------------------------
(* Roles, pins and the provider's list. *)

\* The four roles are the four workers, each once.
LEMMA RoleOrder ==
  /\ Roles = 4
  /\ \A k \in 1..Roles : ROLE_ORDER[k] \in Worker
  /\ \A k, l \in 1..Roles : ROLE_ORDER[k] = ROLE_ORDER[l] => k = l
  /\ \A w \in Worker : \E k \in 1..Roles : w = ROLE_ORDER[k]
<1>1. Roles = 4
  BY DEF Roles, ROLE_ORDER
<1>2. /\ ROLE_ORDER[1] = "ingress" /\ ROLE_ORDER[2] = "observer"
      /\ ROLE_ORDER[3] = "cloudflareObserver" /\ ROLE_ORDER[4] = "worm"
  BY DEF ROLE_ORDER
<1>3. Worker = {"cloudflareObserver", "worm", "observer", "ingress"}
  <2>1. DOMAIN BootstrapOrder = 1..4
    BY DEF BootstrapOrder
  <2>2. /\ BootstrapOrder[1] = "cloudflareObserver" /\ BootstrapOrder[2] = "worm"
        /\ BootstrapOrder[3] = "observer" /\ BootstrapOrder[4] = "ingress"
    BY DEF BootstrapOrder
  <2>3. \A k \in 1..4 : k = 1 \/ k = 2 \/ k = 3 \/ k = 4
    OBVIOUS
  <2>4. QED
    BY <2>1, <2>2, <2>3 DEF Worker
<1>4. \A k \in 1..4 : k = 1 \/ k = 2 \/ k = 3 \/ k = 4
  OBVIOUS
<1>5. QED
  BY <1>1, <1>2, <1>3, <1>4

\* What a role's version pins are the earlier versions of its set.
LEMMA PinsTyped ==
  ASSUME NEW k \in 1..Roles, NEW ids \in Seq(Nat), Len(ids) >= k - 1
  PROVE  Pins(k, ids) \in AnyPins
<1>1. \A j \in Trusted(k) : j \in 1..(k - 1)
  BY RoleOrder DEF Trusted
<1>2. Pins(k, ids) \in [Trusted(k) -> Nat]
  BY <1>1, RoleOrder DEF Pins
<1>3. k \in {3, 4} \/ Trusted(k) = {}
  BY RoleOrder DEF Trusted
<1>4. QED
  BY <1>2, <1>3 DEF AnyPins

\* A version that pins nothing.
LEMMA EmptyPins == <<>> \in AnyPins
<1>1. <<>> \in [{} -> Nat]
  OBVIOUS
<1>2. QED
  BY <1>1 DEF AnyPins

\* A longer set has the same pins.
LEMMA PinsKept ==
  ASSUME NEW k \in 1..Roles, NEW ids \in Seq(Nat), NEW id \in Nat, Len(ids) >= k
  PROVE  Pins(k, Append(ids, id)) = Pins(k, ids)
<1>1. \A j \in Trusted(k) : Append(ids, id)[j] = ids[j]
  BY RoleOrder DEF Trusted
<1>2. QED
  BY <1>1 DEF Pins

\* A list that is not full leaves nothing out.
LEMMA ListComplete ==
  ASSUME CeremonyTypeOK, NEW w \in Worker, ~Saturated(w)
  PROVE  Listed(w) = DOMAIN versions[w]
<1>1. versions[w] \in Seq(ProviderVersion) /\ Newest(w) \in Nat
      /\ DOMAIN versions[w] = 1..Newest(w)
  BY DEF CeremonyTypeOK, Newest
<1>2. Window \in Nat /\ Window > 0
  BY CeremonyAssumption
<1>3. CASE Newest(w) < Window
  BY <1>1, <1>2, <1>3 DEF Listed
<1>4. CASE Newest(w) >= Window
  <2>1. Listed(w) = (Newest(w) - Window + 1)..Newest(w)
    BY <1>1, <1>2, <1>4 DEF Listed
  <2>2. Cardinality(Listed(w)) = Newest(w) - (Newest(w) - Window + 1) + 1
    BY <1>1, <1>2, <1>4, <2>1, FS_Interval
  <2>3. QED
    BY <1>1, <1>2, <2>2 DEF Saturated
<1>5. QED
  BY <1>1, <1>2, <1>3, <1>4

\* A role without a tagged version in a list that is not full has none.
LEMMA AbsentSeen ==
  ASSUME CeremonyTypeOK, NEW k \in 1..Roles,
         Tagged(ROLE_ORDER[k]) = {}, ~Saturated(ROLE_ORDER[k])
  PROVE  Finals(k) = {}
BY RoleOrder, ListComplete DEF Finals, Tagged

\* Every version is made of its kind, config, keys and pins.
LEMMA VersionParts ==
  ASSUME NEW v \in ProviderVersion
  PROVE  v = Version(v.kind, v.config, v.keys, v.pins)
BY DEF ProviderVersion, Version

\* A version that is uploaded comes after those that are there.
LEMMA UploadAdds ==
  ASSUME CeremonyTypeOK, NEW w \in Worker, NEW v \in ProviderVersion, Upload(w, v)
  PROVE  /\ versions' \in [Worker -> Seq(ProviderVersion)]
         /\ \A x \in Worker : x # w => versions'[x] = versions[x]
         /\ DOMAIN versions[w] = 1..Newest(w) /\ Newest(w) \in Nat
         /\ DOMAIN versions'[w] = 1..(Newest(w) + 1)
         /\ \A id \in 1..Newest(w) : versions'[w][id] = versions[w][id]
         /\ versions'[w][Newest(w) + 1] = v
<1>1. versions \in [Worker -> Seq(ProviderVersion)] /\ versions[w] \in Seq(ProviderVersion)
  BY DEF CeremonyTypeOK
<1>2. versions' = [versions EXCEPT ![w] = Append(versions[w], v)]
  BY DEF Upload
<1>3. versions'[w] = Append(versions[w], v) /\ Append(versions[w], v) \in Seq(ProviderVersion)
  BY <1>1, <1>2
<1>4. QED
  BY <1>1, <1>2, <1>3 DEF Newest

\* Versions that a set names, or that were verified, stay so.
LEMMA GrownKeeps ==
  ASSUME NEW before, NEW after, Grown(before, after)
  PROVE  /\ \A ids : Len(ids) \in Nat /\ Len(ids) <= Roles /\ Named(before, ids)
                    => Named(after, ids)
         /\ \A ids, config, n : n \in Nat /\ n <= Roles /\ Verified(before, ids, config, n)
                               => Verified(after, ids, config, n)
BY RoleOrder DEF Grown, Named, Verified

\* An upload takes nothing away; only its worker can get a final version, and
\* that only as its last.
LEMMA UploadGrows ==
  ASSUME CeremonyTypeOK, NEW w \in Worker, NEW v \in ProviderVersion, Upload(w, v)
  PROVE  /\ Grown(versions, versions')
         /\ \A k \in 1..Roles :
              Finals(k)' = IF ROLE_ORDER[k] = w /\ v.kind = "AUTHORITY"
                           THEN Finals(k) \cup {Newest(w) + 1} ELSE Finals(k)
<1>1. Grown(versions, versions')
  <2>1. SUFFICES ASSUME NEW x \in Worker
                 PROVE  /\ DOMAIN versions[x] \subseteq DOMAIN versions'[x]
                        /\ \A id \in DOMAIN versions[x] : versions'[x][id] = versions[x][id]
    BY DEF Grown
  <2>2. CASE x # w
    BY <2>2, UploadAdds
  <2>3. CASE x = w
    <3>1. /\ DOMAIN versions[w] = 1..Newest(w) /\ Newest(w) \in Nat
          /\ DOMAIN versions'[w] = 1..(Newest(w) + 1)
          /\ \A id \in 1..Newest(w) : versions'[w][id] = versions[w][id]
      BY UploadAdds
    <3>2. QED
      BY <2>3, <3>1
  <2>4. QED
    BY <2>2, <2>3
<1>2. ASSUME NEW k \in 1..Roles
      PROVE  Finals(k)' = IF ROLE_ORDER[k] = w /\ v.kind = "AUTHORITY"
                          THEN Finals(k) \cup {Newest(w) + 1} ELSE Finals(k)
  <2>1. CASE ROLE_ORDER[k] # w
    BY <2>1, RoleOrder, UploadAdds, SMTT(40) DEF Finals
  <2>2. CASE ROLE_ORDER[k] = w
    <3>1. /\ Newest(w) \in Nat /\ DOMAIN versions[w] = 1..Newest(w)
          /\ DOMAIN versions'[w] = 1..(Newest(w) + 1)
          /\ \A id \in 1..Newest(w) : versions'[w][id] = versions[w][id]
          /\ versions'[w][Newest(w) + 1] = v
      BY UploadAdds
    <3>2. \A id : id \in 1..(Newest(w) + 1) <=> id \in 1..Newest(w) \/ id = Newest(w) + 1
      BY <3>1
    <3>3. Newest(w) + 1 \notin 1..Newest(w)
      BY <3>1
    <3>4. QED
      BY <2>2, <3>1, <3>2, <3>3 DEF Finals
  <2>3. QED
    BY <2>1, <2>2
<1>3. QED
  BY <1>1, <1>2

----------------------------------------------------------------------------
(* The bootstrap and the others. *)

\* Steps that leave the ceremony, the versions and a report that exists alone.
LEMMA ElsewhereInv ==
  ASSUME CeremonyInv, CeremonyTypeOK', BootstrapOver',
         UNCHANGED <<versions, journal, run, told>>, report # None => report' = report
  PROVE  CeremonyInv'
<1>1. journal # None => report' = report
  BY DEF CeremonyInv, BootstrapOver
<1>2. FinalsOnRecord' /\ JournalSound'
  BY DEF CeremonyInv, FinalsOnRecord, Finals, JournalSound, Written, Last
<1>3. CommandSound' /\ PhaseSound'
  BY <1>1 DEF CeremonyInv, CommandSound, PhaseSound, Written, Last, Finals
<1>4. ToldSound'
  BY <1>1 DEF CeremonyInv, ToldSound, Written, Last
<1>5. QED
  BY <1>2, <1>3, <1>4 DEF CeremonyInv

\* A version of another kind than a final one leaves the ceremony's facts as
\* they are, if it is a stranger's or there is no ceremony yet.
LEMMA OtherUploadInv ==
  ASSUME CeremonyInv, CeremonyTypeOK', BootstrapOver', UNCHANGED <<report, journal, run, told>>,
         NEW w \in Worker, NEW v \in ProviderVersion, Upload(w, v),
         v.kind = "OTHER" \/ (v.kind = "BOOTSTRAP" /\ journal = None)
  PROVE  CeremonyInv'
<1>1. CeremonyTypeOK /\ Grown(versions, versions')
  BY UploadGrows DEF CeremonyInv
<1>2. \A k \in 1..Roles : Finals(k)' = Finals(k)
  BY <1>1, UploadGrows
<1>3. FinalsOnRecord'
  <2> SUFFICES ASSUME NEW k \in 1..Roles, NEW id \in Finals(k)'
               PROVE  /\ Written' /\ k <= Last'.absent
                      /\ versions'[ROLE_ORDER[k]][id].keys = Last'.input.keys
                      /\ \A other \in DOMAIN versions'[ROLE_ORDER[k]] :
                           versions'[ROLE_ORDER[k]][other].kind \in {"AUTHORITY", "BOOTSTRAP"}
                           => other <= id
    BY DEF FinalsOnRecord, Last
  <2>1. /\ id \in Finals(k) /\ Written /\ k <= Last.absent
        /\ versions[ROLE_ORDER[k]][id].keys = Last.input.keys
        /\ \A other \in DOMAIN versions[ROLE_ORDER[k]] :
             versions[ROLE_ORDER[k]][other].kind \in {"AUTHORITY", "BOOTSTRAP"} => other <= id
    BY <1>2 DEF CeremonyInv, FinalsOnRecord
  <2>2. v.kind = "OTHER" /\ ROLE_ORDER[k] \in Worker /\ id \in DOMAIN versions[ROLE_ORDER[k]]
    BY <2>1, RoleOrder DEF Written, Finals
  <2>3. ASSUME NEW other \in DOMAIN versions'[ROLE_ORDER[k]],
               versions'[ROLE_ORDER[k]][other].kind \in {"AUTHORITY", "BOOTSTRAP"}
        PROVE  other <= id
    <3>1. /\ Newest(w) \in Nat /\ DOMAIN versions[w] = 1..Newest(w)
          /\ DOMAIN versions'[w] = 1..(Newest(w) + 1)
          /\ \A x \in 1..Newest(w) : versions'[w][x] = versions[w][x]
          /\ versions'[w][Newest(w) + 1] = v
          /\ \A x \in Worker : x # w => versions'[x] = versions[x]
      BY <1>1, UploadAdds
    <3>2. CASE ROLE_ORDER[k] # w
      BY <2>1, <2>2, <2>3, <3>1, <3>2
    <3>3. CASE ROLE_ORDER[k] = w
      <4>1. other # Newest(w) + 1
        BY <2>2, <2>3, <3>1, <3>3
      <4>2. other \in 1..Newest(w)
        BY <3>1, <3>3, <4>1
      <4>3. QED
        BY <2>1, <2>3, <3>1, <3>3, <4>2
    <3>4. QED
      BY <3>2, <3>3
  <2>4. QED
    BY <1>1, <2>1, <2>2, <2>3 DEF Written, Last, Grown
<1>4. JournalSound'
  <2>1. journal \in JournalFile /\ Written => Last \in JournalEntry
    BY DEF Written, Last, JournalFile
  <2>2. Written => Len(Last.ids) \in Nat
    BY <2>1 DEF CeremonyInv, CeremonyTypeOK, Written, JournalEntry
  <2>3. Written => Named(versions', Last.ids)
    BY <1>1, <2>2, GrownKeeps DEF CeremonyInv, JournalSound
  <2>4. QED
    BY <2>3 DEF CeremonyInv, JournalSound, Written, Last
<1>5. run # None => /\ Named(versions', run.ids) /\ Len(run.ids) \in Nat
                    /\ run.phase # "roles" => Verified(versions', run.ids, run.config, run.observed)
  <2> SUFFICES ASSUME run # None
               PROVE  /\ Named(versions', run.ids) /\ Len(run.ids) \in Nat
                      /\ run.phase # "roles" =>
                           Verified(versions', run.ids, run.config, run.observed)
    OBVIOUS
  <2>1. Len(run.ids) \in Nat /\ run.observed \in Nat
    BY DEF CeremonyInv, CeremonyTypeOK, Command
  <2>2. Named(versions', run.ids)
    BY <1>1, <2>1, GrownKeeps DEF CeremonyInv, CommandSound
  <2>3. QED
    BY <1>1, <2>1, <2>2, GrownKeeps DEF CeremonyInv, PhaseSound
<1>6. CommandSound'
  BY <1>2, <1>5, RoleOrder DEF CeremonyInv, CommandSound, Written, Last
<1>7. PhaseSound'
  BY <1>5 DEF CeremonyInv, PhaseSound, Written, Last
<1>8. ToldSound'
  <2>1. Verified(versions, Last.ids, report.config, Roles) =>
          Verified(versions', Last.ids, report.config, Roles)
    BY <1>1, GrownKeeps, RoleOrder
  <2>2. QED
    BY <2>1 DEF CeremonyInv, ToldSound, Written, Last
<1>9. QED
  BY <1>3, <1>4, <1>6, <1>7, <1>8 DEF CeremonyInv

\* The bootstrap's steps, edits of the configs and strangers' versions.
LEMMA BootInv ==
  ASSUME CeremonyInv, BootNext, UNCHANGED ceremonyVars
  PROVE  CeremonyInv'
<1>1. UNCHANGED <<journal, run, told, clock>>
  BY DEF ceremonyVars
<1>2. CeremonyTypeOK /\ BootstrapOver /\ (run # None => journal # None)
  BY DEF CeremonyInv, CommandSound
<1>3. CASE BootstrapStart \/ BootstrapRequery \/ BootstrapReport \/ BootstrapDies \/ Edit
  <2>1. UNCHANGED versions /\ (report # None => report' = report)
    BY <1>2, <1>3
    DEF BootstrapStart, BootstrapRequery, BootstrapReport, BootstrapDies, Edit, BootstrapOver
  <2>2. CeremonyTypeOK'
    <3>1. CASE BootstrapStart
      BY <1>1, <1>2, <3>1 DEF CeremonyTypeOK, BootstrapStart
    <3>2. CASE BootstrapRequery
      <4>1. boot \in [config : Nat, ids : Seq(Nat), seen : Nat]
        BY <1>2, <3>2 DEF CeremonyTypeOK, BootstrapRequery
      <4>2. [boot EXCEPT !.seen = boot.seen + 1] \in [config : Nat, ids : Seq(Nat), seen : Nat]
        BY <4>1
      <4>3. boot' \in {[boot EXCEPT !.seen = boot.seen + 1], None}
        BY <3>2 DEF BootstrapRequery
      <4>4. UNCHANGED <<reviewed, versions, deployed, report, faults>>
        BY <3>2 DEF BootstrapRequery
      <4>5. QED
        BY <1>1, <1>2, <4>2, <4>3, <4>4 DEF CeremonyTypeOK
    <3>3. CASE BootstrapReport
      BY <1>1, <1>2, <3>3 DEF CeremonyTypeOK, BootstrapReport
    <3>4. CASE BootstrapDies \/ Edit
      BY <1>1, <1>2, <3>4 DEF CeremonyTypeOK, BootstrapDies, Fault, Edit
    <3>5. QED
      BY <1>3, <3>1, <3>2, <3>3, <3>4
  <2>3. BootstrapOver'
    BY <1>1, <1>2, <1>3
    DEF BootstrapOver, BootstrapStart, Unreported, BootstrapRequery, BootstrapReport,
        BootstrapDies, Edit
  <2>4. QED
    BY <1>1, <2>1, <2>2, <2>3, ElsewhereInv
<1>4. CASE BootstrapDeploy
  <2>1. boot \in [config : Nat, ids : Seq(Nat), seen : Nat] /\ report = None /\ journal = None
    BY <1>2, <1>4 DEF BootstrapDeploy, CeremonyTypeOK, BootstrapOver
  <2>2. PICK w \in Worker :
          /\ Upload(w, CredentialFree(boot.config))
          /\ deployed' = [deployed EXCEPT ![w] = Newest(w) + 1]
          /\ boot' = [boot EXCEPT !.ids = Append(@, Newest(w) + 1)]
          /\ UNCHANGED <<reviewed, report, faults>>
    <3>1. Len(boot.ids) + 1 \in DOMAIN BootstrapOrder
      BY <1>4, <2>1 DEF BootstrapDeploy, BootstrapOrder
    <3>2. BootstrapOrder[Len(boot.ids) + 1] \in Worker
      BY <3>1 DEF Worker
    <3>3. QED
      BY <1>4, <3>2 DEF BootstrapDeploy
  <2>3. /\ CredentialFree(boot.config) \in ProviderVersion
        /\ CredentialFree(boot.config).kind = "BOOTSTRAP"
    BY <2>1, EmptyPins DEF CredentialFree, Version, ProviderVersion
  <2>4. versions' \in [Worker -> Seq(ProviderVersion)] /\ Newest(w) \in Nat
    BY <1>2, <2>2, <2>3, UploadAdds
  <2>5. CeremonyTypeOK'
    <3>1. deployed' \in [Worker -> Nat]
      BY <1>2, <2>2, <2>4 DEF CeremonyTypeOK
    <3>2. boot' \in [config : Nat, ids : Seq(Nat), seen : Nat]
      <4>1. Append(boot.ids, Newest(w) + 1) \in Seq(Nat)
        BY <2>1, <2>4
      <4>2. QED
        BY <2>1, <2>2, <4>1
    <3>3. QED
      BY <1>1, <1>2, <2>2, <2>4, <3>1, <3>2 DEF CeremonyTypeOK
  <2>6. BootstrapOver'
    BY <1>1, <2>1, <2>2 DEF BootstrapOver
  <2>7. QED
    BY <1>1, <2>1, <2>2, <2>3, <2>5, <2>6, OtherUploadInv
<1>5. ASSUME NEW w \in Worker, OtherVersion(w) PROVE CeremonyInv'
  <2>1. Stranger \in ProviderVersion /\ Stranger.kind = "OTHER"
    BY EmptyPins DEF Stranger, Version, ProviderVersion
  <2>2. /\ Upload(w, Stranger)
        /\ deployed' = [deployed EXCEPT ![w] = Newest(w) + 1] \/ UNCHANGED deployed
        /\ UNCHANGED <<reviewed, boot, report, faults>>
    BY <1>5 DEF OtherVersion
  <2>3. versions' \in [Worker -> Seq(ProviderVersion)] /\ Newest(w) \in Nat
    BY <1>2, <2>1, <2>2, UploadAdds
  <2>4. CeremonyTypeOK'
    <3>1. deployed \in [Worker -> Nat] /\ Newest(w) + 1 \in Nat
      BY <1>2, <2>3 DEF CeremonyTypeOK
    <3>2. deployed' \in [Worker -> Nat]
      BY <2>2, <3>1
    <3>3. QED
      BY <1>1, <1>2, <2>2, <2>3, <3>2 DEF CeremonyTypeOK
  <2>5. BootstrapOver'
    BY <1>1, <1>2, <2>2 DEF BootstrapOver
  <2>6. QED
    BY <1>1, <2>1, <2>2, <2>4, <2>5, OtherUploadInv
<1>6. QED
  BY <1>3, <1>4, <1>5 DEF BootNext

----------------------------------------------------------------------------
(* The command. *)

\* What is written stays written when only the tail of the file changes.
LEMMA TailChanges ==
  ASSUME CeremonyTypeOK,
         \/ journal' = journal
         \/ journal # None /\ \E torn \in BOOLEAN : journal' = [journal EXCEPT !.torn = torn]
  PROVE  /\ journal' \in {None} \cup JournalFile
         /\ Written' <=> Written
         /\ journal' = None <=> journal = None
         /\ journal # None => journal'.entries = journal.entries /\ Last' = Last
BY NoneAssumption DEF CeremonyTypeOK, JournalFile, Written, Last

\* A step of the command that touches neither the versions nor what is told,
\* and nothing of the file but its tail.
LEMMA CommandStepInv ==
  ASSUME CeremonyInv, CeremonyTypeOK', UNCHANGED <<versions, boot, report, told>>,
         \/ journal' = journal
         \/ journal # None /\ \E torn \in BOOLEAN : journal' = [journal EXCEPT !.torn = torn],
         CommandSound', PhaseSound'
  PROVE  CeremonyInv'
<1>1. /\ Written' <=> Written
      /\ journal' = None <=> journal = None
      /\ Written => Last' = Last
  BY TailChanges DEF CeremonyInv, Written
<1>2. FinalsOnRecord' /\ JournalSound'
  BY <1>1 DEF CeremonyInv, FinalsOnRecord, Finals, JournalSound
<1>3. ToldSound'
  <2>1. CASE told = {}
    BY <2>1 DEF ToldSound
  <2>2. CASE told # {}
    BY <1>1, <2>2 DEF CeremonyInv, ToldSound
  <2>3. QED
    BY <2>1, <2>2
<1>4. BootstrapOver'
  BY <1>1 DEF CeremonyInv, BootstrapOver
<1>5. QED
  BY <1>2, <1>3, <1>4 DEF CeremonyInv

\* A command that ends, whatever it leaves at the end of the file.
LEMMA DiesInv ==
  ASSUME CeremonyInv, Dies, UNCHANGED <<versions, boot, report, told>>,
         reviewed' \in Nat, faults' \in Nat, clock' \in 0..MaxTime, deployed' = deployed,
         \/ journal' = journal
         \/ journal # None /\ \E torn \in BOOLEAN : journal' = [journal EXCEPT !.torn = torn]
  PROVE  CeremonyInv'
<1>1. CeremonyTypeOK'
  BY TailChanges DEF CeremonyInv, CeremonyTypeOK, Dies
<1>2. CommandSound' /\ PhaseSound'
  BY DEF CommandSound, PhaseSound, Dies
<1>3. QED
  BY <1>1, <1>2, CommandStepInv

\* Before its first entry there are no final versions and nothing is told.
LEMMA NothingYet ==
  ASSUME CeremonyInv, ~Written
  PROVE  (\A k \in 1..Roles : Finals(k) = {}) /\ told = {}
BY DEF CeremonyInv, FinalsOnRecord, ToldSound

\* A new ceremony's file is empty.
LEMMA ApplyInv ==
  ASSUME CeremonyInv, NEW input \in Input, Apply(input)
  PROVE  CeremonyInv'
<1>1. /\ journal = None /\ report # None /\ report.config = reviewed
      /\ journal' = [entries |-> <<>>, torn |-> FALSE]
      /\ run' = Unstarted(input, FALSE)
      /\ UNCHANGED <<reviewed, versions, deployed, boot, report, faults, told, clock>>
  BY DEF Apply, Provenance, Unchanged, bootVars
<1>2. (\A k \in 1..Roles : Finals(k) = {}) /\ told = {}
  BY <1>1, NothingYet DEF Written
<1>3. journal' \in JournalFile /\ journal' # None /\ journal'.entries = <<>> /\ ~journal'.torn
  <2>1. <<>> \in Seq(JournalEntry)
    OBVIOUS
  <2>2. [entries |-> <<>>, torn |-> FALSE] \in JournalFile
    BY <2>1 DEF JournalFile
  <2>3. QED
    BY <1>1, <2>2, NoneAssumption
<1>4. ~Written'
  BY <1>3 DEF Written
<1>5. run' \in Command
  BY <1>1, RoleOrder DEF CeremonyInv, CeremonyTypeOK, Unstarted, Command, Phase
<1>6. CeremonyTypeOK'
  BY <1>1, <1>3, <1>5 DEF CeremonyInv, CeremonyTypeOK
<1>7. BootstrapOver'
  BY <1>1 DEF CeremonyInv, BootstrapOver
<1>8. \A k \in 1..Roles : Finals(k)' = {}
  BY <1>1, <1>2 DEF Finals
<1>9. FinalsOnRecord' /\ JournalSound' /\ ToldSound'
  BY <1>1, <1>2, <1>4, <1>8 DEF FinalsOnRecord, JournalSound, ToldSound
<1>10. CommandSound'
  BY <1>1, <1>3, <1>4, <1>8, RoleOrder DEF CommandSound, Unstarted, Named
<1>11. PhaseSound'
  BY <1>1, <1>4 DEF PhaseSound, Unstarted
<1>12. QED
  BY <1>6, <1>7, <1>9, <1>10, <1>11 DEF CeremonyInv

\* A recovery starts from the last entry, which is of its own keys.
LEMMA RecoverInv ==
  ASSUME CeremonyInv, NEW input \in Input, Recover(input)
  PROVE  CeremonyInv'
<1>1. /\ Written /\ report.config = reviewed
      /\ Restores(journal.entries, input)
      /\ journal' = [journal EXCEPT !.torn = FALSE]
      /\ UNCHANGED <<reviewed, versions, deployed, boot, report, faults, told, clock>>
  BY DEF Recover, Provenance, Unchanged, bootVars, Written, Truncated
<1>2. journal \in JournalFile /\ Last \in JournalEntry
  BY <1>1 DEF CeremonyInv, CeremonyTypeOK, JournalFile, Written, Last
<1>3. Last.input = input
  <2>1. Len(journal.entries) \in DOMAIN journal.entries
    BY <1>1, <1>2 DEF JournalFile, Written
  <2>2. QED
    BY <1>1, <2>1 DEF Restores, EntryRestores, SameAuthority, Last
<1>4. /\ run' \in Command /\ run'.input = input /\ run'.recover /\ ~run'.looked
      /\ run'.known = Last.absent /\ run'.config = reviewed
      /\ run'.ids = Last.ids /\ run'.absent = Last.absent
      /\ run'.save = ~Terminal
      /\ run'.phase = IF Terminal THEN "terminal" ELSE "roles"
      /\ Terminal => run'.observed = 0
  <2>1. run' = [input |-> input, recover |-> TRUE, known |-> Last.absent, config |-> reviewed,
                ids |-> Last.ids, absent |-> Last.absent,
                observed |-> IF Terminal THEN 0 ELSE Last.observed,
                recovered |-> Last.recovered, save |-> ~Terminal, looked |-> FALSE,
                phase |-> IF Terminal THEN "terminal" ELSE "roles"]
    BY DEF Recover, Unstarted
  <2>2. QED
    BY <1>2, <2>1 DEF JournalEntry, Command, Phase, CeremonyInv, CeremonyTypeOK
<1>5. /\ journal' \in {None} \cup JournalFile /\ journal' # None /\ ~journal'.torn
      /\ Written' /\ Last' = Last
  BY <1>1, <1>2, TailChanges DEF CeremonyInv, Written, JournalFile
<1>6. CeremonyTypeOK'
  BY <1>1, <1>4, <1>5 DEF CeremonyInv, CeremonyTypeOK
<1>7. /\ Len(Last.ids) <= Roles /\ Last.absent <= Roles /\ Named(versions, Last.ids)
      /\ Terminal => Len(Last.ids) = Roles
      /\ \A k \in 1..Roles : Finals(k) # {} => k <= Last.absent
  BY <1>1 DEF CeremonyInv, JournalSound, FinalsOnRecord, Terminal
<1>8. CommandSound'
  <2>1. \A k \in 1..Roles : Finals(k)' # {} => k <= Last.absent
    BY <1>1, <1>7 DEF Finals
  <2>2. Last.absent <= run'.absent
    BY <1>2, <1>4 DEF JournalEntry
  <2>3. \A k \in (Len(run'.ids) + 1)..Roles : k \in 1..Roles
    BY <1>2, <1>4, RoleOrder DEF JournalEntry
  <2>4. QED
    BY <1>1, <1>3, <1>4, <1>5, <1>7, <2>1, <2>2, <2>3 DEF CommandSound
<1>9. PhaseSound'
  <2>1. Terminal => Verified(versions', run'.ids, run'.config, run'.observed)
    BY <1>4 DEF Verified
  <2>2. Last'.status = "READY" <=> Terminal
    BY <1>5 DEF Terminal
  <2>3. Terminal => Len(run'.ids) = Roles /\ run'.observed <= Roles
    BY <1>4, <1>7, RoleOrder
  <2>4. QED
    BY <1>4, <2>1, <2>2, <2>3 DEF PhaseSound
<1>10. journal # None
  BY <1>1 DEF Written
<1>11. QED
  BY <1>1, <1>6, <1>8, <1>9, <1>10, CommandStepInv

\* An entry is appended whole, and then is the last.
LEMMA EntryLast ==
  ASSUME NEW file \in JournalFile, ~file.torn, NEW entry \in JournalEntry
  PROVE  LET after == AppendEntry(file, entry) IN
         /\ after \in JournalFile /\ ~after.torn /\ after.entries # <<>>
         /\ after.entries[Len(after.entries)] = entry
<1> DEFINE after == AppendEntry(file, entry)
<1>1. file.entries \in Seq(JournalEntry) /\ Len(file.entries) \in Nat
  BY DEF JournalFile
<1>2. CASE Len(file.entries) > 0 /\ file.entries[Len(file.entries)] = entry
  <2>1. after = file
    BY <1>2 DEF AppendEntry
  <2>2. QED
    BY <1>1, <1>2, <2>1
<1>3. CASE ~(Len(file.entries) > 0 /\ file.entries[Len(file.entries)] = entry)
  <2>1. after = [file EXCEPT !.entries = Append(file.entries, entry)]
    BY <1>3 DEF AppendEntry
  <2>2. /\ Append(file.entries, entry) \in Seq(JournalEntry)
        /\ Len(Append(file.entries, entry)) = Len(file.entries) + 1
        /\ Append(file.entries, entry)[Len(file.entries) + 1] = entry
    BY <1>1
  <2>3. after \in JournalFile /\ after.torn = file.torn
        /\ after.entries = Append(file.entries, entry)
    BY <2>1, <2>2 DEF JournalFile
  <2>4. QED
    BY <1>1, <2>2, <2>3
<1>4. QED
  BY <1>2, <1>3

\* What the command saves.
LEMMA PersistInv ==
  ASSUME CeremonyInv, Persist
  PROVE  CeremonyInv'
<1> DEFINE ready == run.phase = "ready"
           status == IF ready THEN "READY" ELSE "HOLD"
<1>1. /\ run \in Command /\ run # None /\ run.save
      /\ journal \in JournalFile /\ journal # None /\ ~journal.torn
      /\ journal' = AppendEntry(journal, Entry(run, status))
      /\ UNCHANGED <<reviewed, versions, deployed, boot, report, faults, told, clock>>
  BY DEF Persist, CeremonyInv, CeremonyTypeOK, CommandSound, bootVars
<1>2. Entry(run, status) \in JournalEntry /\ Entry(run, status).status = status
      /\ Entry(run, status).ids = run.ids /\ Entry(run, status).absent = run.absent
      /\ Entry(run, status).input = run.input
  BY <1>1 DEF Entry, JournalEntry, Command
<1>3. /\ journal' \in JournalFile /\ journal' # None /\ ~journal'.torn /\ Written'
      /\ Last' = Entry(run, status)
  BY <1>1, <1>2, EntryLast, NoneAssumption DEF Written, Last
<1>4. /\ run' \in Command /\ ~run'.save
      /\ run'.phase = IF ready THEN "output" ELSE run.phase
      /\ run'.input = run.input /\ run'.recover = run.recover /\ run'.known = run.known
      /\ run'.config = run.config /\ run'.ids = run.ids /\ run'.absent = run.absent
      /\ run'.observed = run.observed /\ run'.looked = run.looked
  BY <1>1 DEF Persist, Command, Phase
<1> HIDE DEF status
<1>5. CeremonyTypeOK'
  BY <1>1, <1>3, <1>4 DEF CeremonyInv, CeremonyTypeOK
<1>6. BootstrapOver'
  BY <1>1 DEF CeremonyInv, BootstrapOver
<1>7. \A k \in 1..Roles : Finals(k)' = Finals(k)
  BY <1>1 DEF Finals
<1>8. FinalsOnRecord'
  <2>1. Written => Last.input = run.input /\ Last.absent <= run.absent
                   /\ Last.absent \in Nat /\ run.absent \in Nat
    <3>1. Written => Last \in JournalEntry
      BY <1>1 DEF Written, Last, JournalFile
    <3>2. QED
      BY <1>1, <3>1 DEF CeremonyInv, CommandSound, JournalEntry, Command
  <2>2. QED
    BY <1>1, <1>2, <1>3, <1>7, <2>1 DEF CeremonyInv, FinalsOnRecord
<1>9. JournalSound'
  BY <1>1, <1>2, <1>3 DEF CeremonyInv, JournalSound, CommandSound, PhaseSound, status
<1>10. CommandSound'
  <2>1. run.absent <= run'.absent
    BY <1>1, <1>4 DEF Command
  <2>2. Last'.input = run'.input /\ Last'.ids = run'.ids /\ Last'.absent = run'.absent
    BY <1>2, <1>3, <1>4
  <2>3. /\ run.config = report.config
        /\ Len(run.ids) <= Roles /\ run.absent <= Roles /\ Named(versions, run.ids)
        /\ \A k \in (Len(run.ids) + 1)..Roles : Finals(k) # {} => run.recover /\ k <= run.known
        /\ run.looked => Len(run.ids) < Roles /\ Finals(Len(run.ids) + 1) = {}
    BY <1>1 DEF CeremonyInv, CommandSound
  <2>4. Named(versions, run.ids)' = Named(versions, run.ids)
    BY <1>1, <1>4 DEF Named
  <2>5. \A k : Finals(k)' = Finals(k)
    BY <1>1 DEF Finals
  <2>6. run'.absent <= run'.absent
    BY <1>4, <2>1
  <2>7. QED
    BY <1>1, <1>3, <1>4, <2>2, <2>3, <2>4, <2>5, <2>6 DEF CommandSound
<1>11. PhaseSound'
  BY <1>1, <1>2, <1>3, <1>4 DEF CeremonyInv, PhaseSound, status
<1>12. told = {}
  BY <1>1 DEF CeremonyInv, ToldSound, PhaseSound
<1>13. ToldSound'
  BY <1>1, <1>12 DEF ToldSound
<1>14. QED
  BY <1>5, <1>6, <1>8, <1>9, <1>10, <1>11, <1>13 DEF CeremonyInv

\* Steps of the command that only change its memory.
LEMMA MemoryInv ==
  ASSUME CeremonyInv, run \in Command, run' \in Command, UNCHANGED <<bootVars, journal, told, clock>>,
         CommandSound', PhaseSound'
  PROVE  CeremonyInv'
<1>1. CeremonyTypeOK'
  BY DEF CeremonyInv, CeremonyTypeOK, bootVars
<1>2. QED
  BY <1>1, CommandStepInv DEF bootVars

\* A command that ends and leaves everything as it is.
LEMMA EndsInv ==
  ASSUME CeremonyInv, Dies, UNCHANGED <<bootVars, journal, told, clock>>
  PROVE  CeremonyInv'
BY DiesInv DEF bootVars, CeremonyInv, CeremonyTypeOK

\* The role whose turn it is.
LEMMA NextRole ==
  ASSUME CeremonyInv, Uploading
  PROVE  /\ run \in Command /\ run # None /\ ~run.save /\ run.phase = "roles"
         /\ run.ids \in Seq(Nat) /\ Len(run.ids) \in Nat
         /\ Role \in 1..Roles /\ Role = Len(run.ids) + 1
<1>1. run \in Command /\ run # None /\ ~run.save /\ run.phase = "roles" /\ Role <= Roles
  BY DEF Uploading, CeremonyInv, CeremonyTypeOK
<1>2. run.ids \in Seq(Nat) /\ Len(run.ids) \in Nat
  BY <1>1 DEF Command
<1>3. QED
  BY <1>1, <1>2, RoleOrder, SMTT(40) DEF Role

\* The command looks for a tag it has not used, or gives up.
LEMMA CheckAbsentInv ==
  ASSUME CeremonyInv, CheckAbsent
  PROVE  CeremonyInv'
<1>1. /\ run \in Command /\ run # None /\ ~run.save /\ run.phase = "roles"
      /\ Role \in 1..Roles /\ Role = Len(run.ids) + 1 /\ run.absent < Role
      /\ UNCHANGED <<bootVars, journal, told, clock>>
  BY NextRole DEF CheckAbsent
<1>2. CASE run' = [run EXCEPT !.absent = @ + 1, !.save = TRUE]
  <2>1. /\ run' \in Command /\ run'.save /\ run'.absent = run.absent + 1
        /\ run'.phase = "roles" /\ run'.input = run.input
        /\ run'.recover = run.recover /\ run'.known = run.known
        /\ run'.config = run.config /\ run'.ids = run.ids /\ run'.looked = run.looked
    <3>1. run.absent + 1 \in Nat
      BY <1>1 DEF Command
    <3>2. QED
      BY <1>1, <1>2, <3>1 DEF Command
  <2>2. run.absent \in Nat /\ (Written => Last.absent = run.absent)
    BY <1>1 DEF Command, CeremonyInv, CommandSound
  <2>3. CommandSound'
    <3>1. \A j \in 1..Roles : Finals(j)' = Finals(j)
      BY <1>1 DEF Finals, bootVars
    <3>2. Written => Last.absent <= run'.absent
      BY <2>1, <2>2
    <3>3. run'.absent <= Roles
      BY <1>1, <2>1, <2>2, RoleOrder
    <3>4. \A j \in (Len(run.ids) + 1)..Roles : j \in 1..Roles
      BY <1>1, RoleOrder
    <3>5. QED
      BY <1>1, <2>1, <2>2, <3>1, <3>2, <3>3, <3>4
      DEF CeremonyInv, CommandSound, Written, Last, bootVars
  <2>4. PhaseSound'
    BY <1>1, <2>1 DEF CeremonyInv, PhaseSound, Written, Last
  <2>5. QED
    BY <1>1, <2>1, <2>3, <2>4, MemoryInv
<1>3. QED
  BY <1>1, <1>2, EndsInv DEF CheckAbsent

\* A recovery finds the version whose answer was lost, or none, or gives up.
LEMMA DiscoverInv ==
  ASSUME CeremonyInv, Discover
  PROVE  CeremonyInv'
<1>1. /\ run \in Command /\ run # None /\ ~run.save /\ run.phase = "roles"
      /\ Role \in 1..Roles /\ Role = Len(run.ids) + 1 /\ Role <= run.absent /\ ~run.looked
      /\ run.ids \in Seq(Nat)
      /\ UNCHANGED <<bootVars, journal, told, clock>>
  <2>1. Role <= run.absent
    BY NextRole, RoleOrder DEF Discover, Command
  <2>2. QED
    BY <2>1, NextRole DEF Discover
<1>2. CeremonyTypeOK /\ UNCHANGED versions
  BY <1>1 DEF CeremonyInv, bootVars
<1>3. PICK k \in 1..Roles : k = Role
  BY <1>1
<1>4. CASE Dies
  BY <1>1, <1>4, EndsInv
<1>5. CASE Tagged(ROLE_ORDER[k]) = {} /\ ~Saturated(ROLE_ORDER[k])
           /\ run' = [run EXCEPT !.looked = TRUE]
  <2>1. /\ run' \in Command /\ ~run'.save /\ run'.looked
        /\ run'.phase = "roles" /\ run'.input = run.input /\ run'.absent = run.absent
        /\ run'.recover = run.recover /\ run'.known = run.known
        /\ run'.config = run.config /\ run'.ids = run.ids
    BY <1>1, <1>5 DEF Command
  <2>2. Finals(k)' = {}
    BY <1>2, <1>5, AbsentSeen DEF Finals
  <2>3. CommandSound'
    <3>1. \A j \in 1..Roles : Finals(j)' = Finals(j)
      BY <1>2 DEF Finals
    <3>2. (Len(run.ids) < Roles /\ Finals(Len(run.ids) + 1) = {})'
      BY <1>1, <1>3, <2>1, <2>2, RoleOrder
    <3>3. \A j \in (Len(run.ids) + 1)..Roles : j \in 1..Roles
      BY <1>1, RoleOrder
    <3>4. QED
      BY <1>1, <1>2, <2>1, <3>1, <3>2, <3>3
      DEF CeremonyInv, CommandSound, Written, Last, bootVars
  <2>4. PhaseSound'
    BY <1>1, <2>1 DEF CeremonyInv, PhaseSound, Written, Last
  <2>5. QED
    BY <1>1, <2>1, <2>3, <2>4, MemoryInv
<1>6. ASSUME NEW id \in Tagged(ROLE_ORDER[k]),
             run' = [run EXCEPT !.ids = Append(@, id), !.recovered = @ \cup {Role},
                                !.save = TRUE]
      PROVE  CeremonyInv'
  <2>1. id \in DOMAIN versions[ROLE_ORDER[k]] /\ id \in Nat
    <3>1. versions[ROLE_ORDER[k]] \in Seq(ProviderVersion)
      BY <1>2, RoleOrder DEF CeremonyTypeOK
    <3>2. QED
      BY <1>6, <3>1 DEF Tagged, Listed
  <2>2. /\ Append(run.ids, id) \in Seq(Nat) /\ Len(Append(run.ids, id)) = Len(run.ids) + 1
        /\ \A j \in 1..Len(run.ids) : Append(run.ids, id)[j] = run.ids[j]
        /\ Append(run.ids, id)[Len(run.ids) + 1] = id
    BY <1>1, <2>1
  <2>3. /\ run' \in Command /\ run'.save /\ ~run'.looked
        /\ run'.phase = "roles" /\ run'.input = run.input /\ run'.absent = run.absent
        /\ run'.recover = run.recover /\ run'.known = run.known
        /\ run'.config = run.config /\ run'.ids = Append(run.ids, id)
    <3>1. run.recovered \cup {Role} \in SUBSET Nat
      BY <1>1, RoleOrder DEF Command
    <3>2. QED
      BY <1>1, <1>6, <2>2, <3>1 DEF Command
  <2>4. Named(versions', run'.ids)
    <3>1. \A j \in 1..Len(run.ids) : run.ids[j] \in DOMAIN versions[ROLE_ORDER[j]]
      BY <1>1 DEF CeremonyInv, CommandSound, Named
    <3>2. \A j \in 1..Len(run'.ids) : j \in 1..Len(run.ids) \/ j = k
      BY <1>1, <1>3, <2>2, <2>3
    <3>3. QED
      BY <1>1, <1>2, <1>3, <2>1, <2>2, <2>3, <3>1, <3>2 DEF Named
  <2>5. CommandSound'
    <3>1. \A j \in (Len(run'.ids) + 1)..Roles : j \in (Len(run.ids) + 1)..Roles
      BY <1>1, <2>2, <2>3, RoleOrder
    <3>2. Len(run'.ids) <= Roles
      BY <1>1, <2>2, <2>3, RoleOrder
    <3>3. QED
      BY <1>1, <1>2, <2>3, <2>4, <3>1, <3>2
      DEF CeremonyInv, CommandSound, Written, Last, Finals, bootVars
  <2>6. PhaseSound'
    BY <1>1, <2>3 DEF CeremonyInv, PhaseSound, Written, Last
  <2>7. QED
    BY <1>1, <2>3, <2>5, <2>6, MemoryInv
<1>7. QED
  <2>1. \/ Dies
        \/ /\ Tagged(ROLE_ORDER[k]) = {} /\ ~Saturated(ROLE_ORDER[k])
           /\ run' = [run EXCEPT !.looked = TRUE]
        \/ /\ Tagged(ROLE_ORDER[k]) # {}
           /\ run' = [run EXCEPT
                        !.ids = Append(@, CHOOSE id \in Tagged(ROLE_ORDER[k]) : TRUE),
                        !.recovered = @ \cup {Role}, !.save = TRUE]
    BY <1>3 DEF Discover
  <2>2. Tagged(ROLE_ORDER[k]) # {} =>
          (CHOOSE id \in Tagged(ROLE_ORDER[k]) : TRUE) \in Tagged(ROLE_ORDER[k])
    OBVIOUS
  <2>3. QED
    BY <1>4, <1>5, <1>6, <2>1, <2>2

----------------------------------------------------------------------------
(* The uploads. *)

\* The absence of what is about to be made is on record, and is so.
LEMMA FinalAbsent ==
  ASSUME CeremonyInv, Wrangler, NEW k \in 1..Roles, k = Role
  PROVE  /\ Finals(k) = {} /\ told = {} /\ Written /\ journal \in JournalFile
         /\ Last.input = run.input /\ k <= Last.absent /\ Last.ids = run.ids
<1>1. /\ run \in Command /\ run # None /\ ~run.save /\ run.phase = "roles"
      /\ k = Len(run.ids) + 1 /\ k <= run.absent /\ (MayRecover => run.looked)
  <2>1. k <= run.absent
    BY NextRole, RoleOrder DEF Wrangler, Command
  <2>2. QED
    BY <2>1, NextRole DEF Wrangler
<1>2. /\ Written /\ journal \in JournalFile
      /\ Last.input = run.input /\ k <= Last.absent /\ Last.ids = run.ids
  BY <1>1 DEF CeremonyInv, CeremonyTypeOK, CommandSound, Written
<1>3. told = {}
  BY <1>1, <1>2 DEF CeremonyInv, ToldSound, PhaseSound
<1>4. Finals(k) = {}
  <2>1. CASE run.looked
    BY <1>1, <2>1 DEF CeremonyInv, CommandSound
  <2>2. CASE ~(run.recover /\ k <= run.known)
    <3>1. k \in (Len(run.ids) + 1)..Roles
      BY <1>1, RoleOrder
    <3>2. QED
      BY <1>1, <2>2, <3>1 DEF CeremonyInv, CommandSound
  <2>3. QED
    BY <1>1, <2>1, <2>2 DEF MayRecover
<1>5. QED
  BY <1>2, <1>3, <1>4

\* A final version is the first of its worker and, when it is made, the last.
LEMMA FinalUploaded ==
  ASSUME CeremonyInv, Wrangler, NEW k \in 1..Roles, k = Role, Upload(ROLE_ORDER[k], Final)
  PROVE  /\ versions' \in [Worker -> Seq(ProviderVersion)] /\ Grown(versions, versions')
         /\ Newest(ROLE_ORDER[k]) \in Nat
         /\ Newest(ROLE_ORDER[k]) + 1 \in DOMAIN versions'[ROLE_ORDER[k]]
         /\ \A j \in 1..Roles : j # k => Finals(j)' = Finals(j)
         /\ FinalsOnRecord' /\ JournalSound' /\ ToldSound'
<1> DEFINE w == ROLE_ORDER[k]
           id == Newest(w) + 1
<1>1. CeremonyTypeOK /\ w \in Worker
  BY RoleOrder DEF CeremonyInv
<1>2. run \in Command /\ run # None /\ run.ids \in Seq(Nat) /\ k = Len(run.ids) + 1
  BY NextRole DEF Wrangler
<1>3. /\ Final \in ProviderVersion /\ Final.kind = "AUTHORITY"
      /\ Final.keys = run.input.keys
  <2>1. Pins(k, run.ids) \in AnyPins
    BY <1>2, PinsTyped, RoleOrder
  <2>2. reviewed \in Nat /\ run.input.keys \in Keys
    BY <1>1, <1>2 DEF CeremonyTypeOK, Command, Input
  <2>3. QED
    BY <2>1, <2>2 DEF Final, Version, ProviderVersion
<1>4. /\ Finals(k) = {} /\ told = {} /\ Written /\ journal \in JournalFile
      /\ Last.input = run.input /\ k <= Last.absent /\ Last.ids = run.ids
  BY FinalAbsent
<1>5. /\ UNCHANGED <<reviewed, deployed, boot, report, journal, told, clock>>
      /\ Written' /\ Last' = Last
  BY <1>4 DEF Wrangler, Written, Last
<1>6. /\ versions' \in [Worker -> Seq(ProviderVersion)]
      /\ \A x \in Worker : x # w => versions'[x] = versions[x]
      /\ DOMAIN versions[w] = 1..Newest(w) /\ Newest(w) \in Nat
      /\ DOMAIN versions'[w] = 1..(Newest(w) + 1)
      /\ \A x \in 1..Newest(w) : versions'[w][x] = versions[w][x]
      /\ versions'[w][Newest(w) + 1] = Final
  BY <1>1, <1>3, UploadAdds
<1>7. Grown(versions, versions')
  BY <1>1, <1>3, UploadGrows
<1>8. /\ Finals(k)' = {id}
      /\ \A j \in 1..Roles : j # k => Finals(j)' = Finals(j)
  <2>1. \A j \in 1..Roles :
          Finals(j)' = IF ROLE_ORDER[j] = w /\ Final.kind = "AUTHORITY"
                       THEN Finals(j) \cup {Newest(w) + 1} ELSE Finals(j)
    BY <1>1, <1>3, UploadGrows
  <2>2. QED
    BY <1>3, <1>4, <2>1, RoleOrder
<1>9. FinalsOnRecord'
  <2> SUFFICES ASSUME NEW j \in 1..Roles, NEW x \in Finals(j)'
               PROVE  /\ Written' /\ j <= Last'.absent
                      /\ versions'[ROLE_ORDER[j]][x].keys = Last'.input.keys
                      /\ \A other \in DOMAIN versions'[ROLE_ORDER[j]] :
                           versions'[ROLE_ORDER[j]][other].kind \in {"AUTHORITY", "BOOTSTRAP"}
                           => other <= x
    BY DEF FinalsOnRecord, Last
  <2>1. CASE j = k
    <3>1. x = id /\ x \in Nat
      BY <1>6, <1>8, <2>1
    <3>2. \A other \in DOMAIN versions'[w] : other <= x
      BY <1>6, <3>1
    <3>3. QED
      BY <1>3, <1>4, <1>5, <1>6, <2>1, <3>1, <3>2
  <2>2. CASE j # k
    <3>1. x \in Finals(j) /\ ROLE_ORDER[j] \in Worker /\ ROLE_ORDER[j] # w
      BY <1>8, <2>2, RoleOrder
    <3>2. versions'[ROLE_ORDER[j]] = versions[ROLE_ORDER[j]]
      BY <1>6, <3>1
    <3>3. QED
      BY <1>5, <3>1, <3>2 DEF CeremonyInv, FinalsOnRecord
  <2>3. QED
    BY <2>1, <2>2
<1>10. JournalSound'
  <2>1. Len(Last.ids) \in Nat
    BY <1>2, <1>4
  <2>2. Named(versions', Last.ids)
    BY <1>4, <1>7, <2>1, GrownKeeps DEF CeremonyInv, JournalSound
  <2>3. QED
    BY <1>4, <1>5, <2>2 DEF CeremonyInv, JournalSound
<1>11. ToldSound'
  BY <1>4, <1>5 DEF ToldSound
<1>12. QED
  BY <1>6, <1>7, <1>8, <1>9, <1>10, <1>11

\* The answer to an upload is named next.
LEMMA UploadReturnsInv ==
  ASSUME CeremonyInv, UploadReturns
  PROVE  CeremonyInv'
<1>1. /\ run \in Command /\ run # None /\ ~run.save /\ run.phase = "roles"
      /\ run.ids \in Seq(Nat) /\ Role \in 1..Roles /\ Role = Len(run.ids) + 1
      /\ UNCHANGED <<reviewed, deployed, boot, report, journal, told, clock, faults>>
  BY NextRole DEF UploadReturns, Wrangler
<1>2. PICK k \in 1..Roles : k = Role
  BY <1>1
<1>3. PICK id \in Nat : id = Newest(ROLE_ORDER[k]) + 1
  BY <1>2, FinalUploaded DEF UploadReturns
<1>4. /\ versions' \in [Worker -> Seq(ProviderVersion)] /\ Grown(versions, versions')
      /\ id \in DOMAIN versions'[ROLE_ORDER[k]]
      /\ \A j \in 1..Roles : j # k => Finals(j)' = Finals(j)
      /\ FinalsOnRecord' /\ JournalSound' /\ ToldSound'
  BY <1>2, <1>3, FinalUploaded DEF UploadReturns
<1>5. /\ Written /\ Written' /\ Last' = Last
      /\ Last.input = run.input /\ Last.absent <= run.absent
  BY <1>1 DEF CeremonyInv, CommandSound, Written, Last
<1>6. /\ Append(run.ids, id) \in Seq(Nat) /\ Len(Append(run.ids, id)) = Len(run.ids) + 1
      /\ \A j \in 1..Len(run.ids) : Append(run.ids, id)[j] = run.ids[j]
      /\ Append(run.ids, id)[Len(run.ids) + 1] = id
  BY <1>1
<1>7. /\ run' \in Command /\ run'.save /\ ~run'.looked
      /\ run'.phase = "roles" /\ run'.input = run.input /\ run'.absent = run.absent
      /\ run'.recover = run.recover /\ run'.known = run.known
      /\ run'.config = run.config /\ run'.ids = Append(run.ids, id)
  <2>1. run' = [run EXCEPT !.ids = Append(run.ids, id), !.looked = FALSE, !.save = TRUE]
    BY <1>2, <1>3 DEF UploadReturns
  <2>2. QED
    BY <1>1, <1>6, <2>1 DEF Command
<1>8. CeremonyTypeOK'
  BY <1>1, <1>4, <1>7 DEF CeremonyInv, CeremonyTypeOK
<1>9. BootstrapOver'
  BY <1>1 DEF CeremonyInv, BootstrapOver
<1>10. Named(versions', run'.ids)
  <2>1. \A j \in 1..Len(run.ids) : run.ids[j] \in DOMAIN versions'[ROLE_ORDER[j]]
    <3>1. Named(versions, run.ids) /\ Len(run.ids) <= Roles
      BY <1>1 DEF CeremonyInv, CommandSound
    <3>2. Named(versions', run.ids)
      BY <1>1, <1>4, <3>1, GrownKeeps
    <3>3. QED
      BY <3>2 DEF Named
  <2>2. \A j \in 1..Len(run'.ids) : j \in 1..Len(run.ids) \/ j = k
    BY <1>1, <1>2, <1>6, <1>7
  <2>3. QED
    BY <1>1, <1>2, <1>4, <1>6, <1>7, <2>1, <2>2 DEF Named
<1>11. CommandSound'
  <2>1. \A j \in (Len(run'.ids) + 1)..Roles : j \in (Len(run.ids) + 1)..Roles /\ j # k
    BY <1>1, <1>2, <1>6, <1>7, RoleOrder
  <2>2. Len(run'.ids) <= Roles
    BY <1>1, <1>6, <1>7, RoleOrder
  <2>3. \A j \in (Len(run'.ids) + 1)..Roles : Finals(j)' # {} => run'.recover /\ j <= run'.known
    <3>1. \A j \in (Len(run.ids) + 1)..Roles : j \in 1..Roles
      BY <1>1, RoleOrder
    <3>2. QED
      BY <1>1, <1>4, <1>7, <2>1, <3>1 DEF CeremonyInv, CommandSound
  <2>4. QED
    BY <1>1, <1>5, <1>7, <1>10, <2>2, <2>3 DEF CeremonyInv, CommandSound
<1>12. PhaseSound'
  BY <1>1, <1>5, <1>7 DEF CeremonyInv, PhaseSound
<1>13. QED
  BY <1>4, <1>8, <1>9, <1>11, <1>12 DEF CeremonyInv

\* An upload whose answer is lost ends its command.
LEMMA UploadLostInv ==
  ASSUME CeremonyInv, UploadLost
  PROVE  CeremonyInv'
<1>1. /\ Role \in 1..Roles /\ run' = None /\ Fault
      /\ UNCHANGED <<reviewed, deployed, boot, report, journal, told, clock>>
  BY NextRole DEF UploadLost, Wrangler, Dies
<1>2. PICK k \in 1..Roles : k = Role
  BY <1>1
<1>3. /\ versions' \in [Worker -> Seq(ProviderVersion)]
      /\ FinalsOnRecord' /\ JournalSound' /\ ToldSound'
  BY <1>2, FinalUploaded DEF UploadLost
<1>4. CeremonyTypeOK' /\ BootstrapOver'
  BY <1>1, <1>3 DEF CeremonyInv, CeremonyTypeOK, BootstrapOver, Fault
<1>5. CommandSound' /\ PhaseSound'
  BY <1>1 DEF CommandSound, PhaseSound
<1>6. QED
  BY <1>3, <1>4, <1>5 DEF CeremonyInv

----------------------------------------------------------------------------
(* The versions are read back. *)

\* A complete set is read back from its first version.
LEMMA ResetInv ==
  ASSUME CeremonyInv, ResetObservations
  PROVE  CeremonyInv'
<1>1. /\ run \in Command /\ run # None /\ ~run.save /\ run.phase = "roles"
      /\ Len(run.ids) <= Roles /\ Len(run.ids) + 1 > Roles /\ Len(run.ids) \in Nat
      /\ UNCHANGED <<bootVars, journal, told, clock>>
  BY DEF ResetObservations, Role, CeremonyInv, CeremonyTypeOK, CommandSound, Command
<1>2. /\ run' \in Command /\ run'.save /\ run'.observed = 0 /\ run'.phase = "requery"
      /\ run'.input = run.input /\ run'.absent = run.absent
      /\ run'.recover = run.recover /\ run'.known = run.known /\ run'.looked = run.looked
      /\ run'.config = run.config /\ run'.ids = run.ids
  BY <1>1 DEF ResetObservations, Command, Phase
<1>3. Len(run'.ids) = Roles
  <2>1. Roles = 4
    BY RoleOrder
  <2>2. Len(run.ids) = Roles
    <3>1. \A n \in Nat : n <= 4 /\ n + 1 > 4 => n = 4
      OBVIOUS
    <3>2. Len(run.ids) <= 4 /\ Len(run.ids) + 1 > 4 /\ Len(run.ids) \in Nat
      BY <1>1, <2>1, Zenon
    <3>3. QED
      BY <2>1, <3>1, <3>2, Zenon
  <2>3. QED
    BY <1>2, <2>2
<1>4. CommandSound'
  BY <1>1, <1>2 DEF CeremonyInv, CommandSound, Written, Last, Finals, bootVars
<1>5. PhaseSound'
  <2>1. Verified(versions', run'.ids, run'.config, run'.observed)
    BY <1>2 DEF Verified
  <2>2. Written' => Last'.status # "READY"
    BY <1>1 DEF CeremonyInv, PhaseSound, Written, Last
  <2>3. QED
    BY <1>2, <1>3, <2>1, <2>2, RoleOrder DEF PhaseSound
<1>6. QED
  BY <1>1, <1>2, <1>4, <1>5, MemoryInv

\* One more version reads back as it should, or the command gives up.
LEMMA RequeryInv ==
  ASSUME CeremonyInv, Requery
  PROVE  CeremonyInv'
<1>1. /\ run \in Command /\ run # None /\ ~run.save
      /\ run.phase \in {"requery", "terminal"} /\ run.observed \in Nat
      /\ run.observed < Roles /\ Len(run.ids) = Roles
      /\ Verified(versions, run.ids, run.config, run.observed)
      /\ UNCHANGED <<bootVars, journal, told, clock>>
  BY DEF Requery, CeremonyInv, CeremonyTypeOK, PhaseSound, Command
<1>2. PICK k \in 1..Roles : k = run.observed + 1
  BY <1>1, RoleOrder
<1>3. CASE /\ Matches(ROLE_ORDER[k], run.ids[k], k)
           /\ run' = [run EXCEPT !.observed = k, !.save = run.phase = "requery"]
  <2>1. /\ run' \in Command /\ run'.save = (run.phase = "requery") /\ run'.observed = k
        /\ run'.phase = run.phase /\ run'.input = run.input /\ run'.absent = run.absent
        /\ run'.recover = run.recover /\ run'.known = run.known /\ run'.looked = run.looked
        /\ run'.config = run.config /\ run'.ids = run.ids
    <3>1. k \in Nat
      BY RoleOrder
    <3>2. PICK save \in BOOLEAN : save = (run.phase = "requery")
      OBVIOUS
    <3>3. run' = [run EXCEPT !.observed = k, !.save = save]
      BY <1>3, <3>2
    <3>4. QED
      BY <1>1, <3>1, <3>2, <3>3 DEF Command
  <2>2. CommandSound'
    BY <1>1, <2>1 DEF CeremonyInv, CommandSound, Written, Last, Finals, bootVars
  <2>3. Verified(versions', run'.ids, run'.config, run'.observed)
    <3>1. k \in 1..Len(run.ids)
      BY <1>1
    <3>2. run.ids[k] \in DOMAIN versions[ROLE_ORDER[k]]
      BY <1>1, <3>1 DEF CeremonyInv, CommandSound, Named
    <3>3. Projected(versions[ROLE_ORDER[k]][run.ids[k]], "AUTHORITY", run.config,
                    Pins(k, run.ids))
      BY <1>3 DEF Matches
    <3>4. \A j \in 1..k : j \in 1..run.observed \/ j = k
      BY <1>1, <1>2
    <3>5. versions' = versions
      BY <1>1 DEF bootVars
    <3>6. QED
      BY <1>1, <2>1, <3>2, <3>3, <3>4, <3>5 DEF Verified
  <2>4. PhaseSound'
    <3>1. k <= Roles
      BY RoleOrder
    <3>2. Written' /\ Last'.status = "READY" => run.phase = "terminal"
      BY <1>1 DEF CeremonyInv, PhaseSound, Written, Last
    <3>3. run.phase = "terminal" => Last'.status = "READY"
      BY <1>1 DEF CeremonyInv, PhaseSound, Last
    <3>4. QED
      BY <1>1, <2>1, <2>3, <3>1, <3>2, <3>3 DEF PhaseSound
  <2>5. QED
    BY <1>1, <2>1, <2>2, <2>4, MemoryInv
<1>4. QED
  BY <1>1, <1>2, <1>3, EndsInv DEF Requery

\* All four were read back.
LEMMA ReadyInv ==
  ASSUME CeremonyInv, Ready
  PROVE  CeremonyInv'
<1>1. /\ run \in Command /\ run # None /\ ~run.save /\ run.observed = Roles
      /\ run.phase \in {"requery", "terminal"}
      /\ UNCHANGED <<bootVars, journal, told, clock>>
  BY DEF Ready, CeremonyInv, CeremonyTypeOK
<1>2. /\ run' \in Command /\ run'.observed = run.observed
      /\ run'.save = (run.phase = "requery")
      /\ run'.phase = IF run.phase = "terminal" THEN "output" ELSE "ready"
      /\ run'.input = run.input /\ run'.absent = run.absent
      /\ run'.recover = run.recover /\ run'.known = run.known /\ run'.looked = run.looked
      /\ run'.config = run.config /\ run'.ids = run.ids
  <2>1. CASE run.phase = "terminal"
    <3>1. run' = [run EXCEPT !.phase = "output"]
      BY <2>1 DEF Ready
    <3>2. QED
      BY <1>1, <2>1, <3>1 DEF Command, Phase
  <2>2. CASE run.phase = "requery"
    <3>1. run' = [run EXCEPT !.phase = "ready", !.save = TRUE]
      BY <2>2 DEF Ready
    <3>2. QED
      BY <1>1, <2>2, <3>1 DEF Command, Phase
  <2>3. QED
    BY <1>1, <2>1, <2>2
<1>3. CommandSound'
  BY <1>1, <1>2 DEF CeremonyInv, CommandSound, Written, Last, Finals, bootVars
<1>4. PhaseSound'
  <2>1. /\ Len(run'.ids) = Roles /\ run'.observed <= Roles
        /\ Verified(versions', run'.ids, run'.config, run'.observed)
    BY <1>1, <1>2 DEF CeremonyInv, PhaseSound, bootVars
  <2>2. Written' /\ Last'.status = "READY" => run.phase = "terminal"
    BY <1>1 DEF CeremonyInv, PhaseSound, Written, Last
  <2>3. run.phase = "terminal" => Last'.status = "READY"
    BY <1>1 DEF CeremonyInv, PhaseSound, Last
  <2>4. QED
    BY <1>1, <1>2, <2>1, <2>2, <2>3 DEF PhaseSound
<1>5. QED
  BY <1>1, <1>2, <1>3, <1>4, MemoryInv

\* What is told is the set that the journal calls ready.
LEMMA OutputInv ==
  ASSUME CeremonyInv, Output
  PROVE  CeremonyInv'
<1>1. /\ run \in Command /\ run # None /\ ~run.save /\ run.phase = "output"
      /\ told' = told \cup {[ids |-> run.ids, keys |-> run.input.keys]}
      /\ run' = None /\ UNCHANGED <<bootVars, journal, clock>>
  BY DEF Output, Dies, CeremonyInv, CeremonyTypeOK
<1>2. /\ Written /\ Last.ids = run.ids /\ Last.input = run.input /\ Last.status = "READY"
      /\ run.config = report.config /\ Verified(versions, run.ids, run.config, Roles)
  BY <1>1 DEF CeremonyInv, CommandSound, PhaseSound
<1>3. CeremonyTypeOK'
  <2>1. [ids |-> run.ids, keys |-> run.input.keys] \in [ids : Seq(Nat), keys : Keys]
    BY <1>1 DEF Command, Input
  <2>2. QED
    BY <1>1, <2>1 DEF CeremonyInv, CeremonyTypeOK, bootVars
<1>4. BootstrapOver' /\ FinalsOnRecord' /\ JournalSound'
  BY <1>1
  DEF CeremonyInv, BootstrapOver, FinalsOnRecord, JournalSound, Finals, Written, Last,
     bootVars
<1>5. ToldSound'
  BY <1>1, <1>2 DEF CeremonyInv, ToldSound, Written, Last, bootVars
<1>6. CommandSound' /\ PhaseSound'
  BY <1>1 DEF CommandSound, PhaseSound
<1>7. QED
  BY <1>3, <1>4, <1>5, <1>6 DEF CeremonyInv

\* A command that fails, or dies with a line half written.
LEMMA FailsInv ==
  ASSUME CeremonyInv, UploadFails \/ Crash
  PROVE  CeremonyInv'
<1>1. /\ Dies /\ UNCHANGED <<reviewed, versions, deployed, boot, report, told, clock>>
      /\ faults' = faults + 1
      /\ \/ journal' = journal
         \/ run # None /\ journal' = [journal EXCEPT !.torn = TRUE]
  BY DEF UploadFails, Crash, Wrangler, Fault
<1>2. /\ reviewed' \in Nat /\ faults' \in Nat /\ clock' \in 0..MaxTime
      /\ run # None => journal # None
  BY <1>1 DEF CeremonyInv, CeremonyTypeOK, CommandSound
<1>3. QED
  BY <1>1, <1>2, DiesInv

\* Time passes.
LEMMA TickInv ==
  ASSUME CeremonyInv, Tick
  PROVE  CeremonyInv'
<1>1. clock' \in 0..MaxTime /\ UNCHANGED <<bootVars, journal, run, told>>
  BY CeremonyAssumption DEF Tick, CeremonyInv, CeremonyTypeOK
<1>2. CeremonyTypeOK' /\ BootstrapOver'
  BY <1>1 DEF CeremonyInv, CeremonyTypeOK, BootstrapOver, bootVars
<1>3. QED
  BY <1>1, <1>2, ElsewhereInv DEF bootVars

----------------------------------------------------------------------------
(* Theorems. *)

\* The invariant holds before anything has been done.
LEMMA InitInv ==
  ASSUME Init
  PROVE  CeremonyInv
<1>1. /\ reviewed = 0 /\ faults = 0 /\ boot = None /\ report = None
      /\ versions = [w \in Worker |-> <<>>] /\ deployed = [w \in Worker |-> 0]
      /\ journal = None /\ run = None /\ told = {} /\ clock = 0
  BY DEF Init, BootInit
<1>2. CeremonyTypeOK
  <2>1. versions \in [Worker -> Seq(ProviderVersion)]
    BY <1>1
  <2>2. deployed \in [Worker -> Nat]
    BY <1>1
  <2>3. 0 \in 0..MaxTime
    BY CeremonyAssumption
  <2>4. QED
    BY <1>1, <2>1, <2>2, <2>3 DEF CeremonyTypeOK
<1>3. \A k \in 1..Roles : Finals(k) = {}
  <2>1. \A k \in 1..Roles : DOMAIN versions[ROLE_ORDER[k]] = {}
    BY <1>1, RoleOrder
  <2>2. QED
    BY <2>1 DEF Finals
<1>4. ~Written
  BY <1>1 DEF Written
<1>5. QED
  BY <1>1, <1>2, <1>3, <1>4
  DEF CeremonyInv, BootstrapOver, FinalsOnRecord, JournalSound, CommandSound, PhaseSound,
      ToldSound

\* Every step keeps the invariant.
LEMMA StepInv ==
  ASSUME CeremonyInv, [Next]_vars
  PROVE  CeremonyInv'
<1>1. CASE BootNext /\ UNCHANGED ceremonyVars
  BY <1>1, BootInv
<1>2. CASE Commands
  BY <1>2, ApplyInv, RecoverInv DEF Commands
<1>3. CASE Step
  BY <1>3, PersistInv, CheckAbsentInv, DiscoverInv, UploadReturnsInv, ResetInv, RequeryInv,
     ReadyInv, OutputInv DEF Step
<1>4. CASE UploadLost \/ UploadFails \/ Crash \/ Tick
  BY <1>4, UploadLostInv, FailsInv, TickInv
<1>5. CASE UNCHANGED vars
  <2>1. UNCHANGED <<reviewed, versions, deployed, boot, report, faults, journal, run, told, clock>>
    BY <1>5 DEF vars, bootVars, ceremonyVars
  <2>2. CeremonyTypeOK' /\ BootstrapOver'
    BY <2>1 DEF CeremonyInv, CeremonyTypeOK, BootstrapOver
  <2>3. QED
    BY <2>1, <2>2, ElsewhereInv
<1>6. QED
  BY <1>1, <1>2, <1>3, <1>4, <1>5 DEF Next

\* The inductive invariant of the bootstrap and the ceremony: what the journal, the
\* command's memory and the provider's versions say of each other.
THEOREM CeremonyInvariant == Spec => []CeremonyInv
<1>1. Init => CeremonyInv
  BY InitInv
<1>2. CeremonyInv /\ [Next]_vars => CeremonyInv'
  BY StepInv
<1>3. QED
  BY <1>1, <1>2, PTL DEF Spec

\* Types: every line of the journal is an entry, none is malformed.
THEOREM CeremonyTypeCorrect == Spec => []CeremonyTypeOK
<1>1. CeremonyInv => CeremonyTypeOK
  BY DEF CeremonyInv
<1>2. QED
  BY <1>1, CeremonyInvariant, PTL

\* A worker's final version is the last that the ceremony or a bootstrap gives it.
THEOREM FinalVersionStaysLast == Spec => []FinalVersionIsLast
<1>1. ASSUME CeremonyInv PROVE FinalVersionIsLast
  <2> SUFFICES ASSUME NEW w \in Worker, NEW id \in DOMAIN versions[w],
                      NEW other \in DOMAIN versions[w],
                      versions[w][id].kind = "AUTHORITY",
                      versions[w][other].kind \in {"AUTHORITY", "BOOTSTRAP"}
               PROVE  other <= id
    BY DEF FinalVersionIsLast
  <2>1. PICK k \in 1..Roles : w = ROLE_ORDER[k]
    BY RoleOrder
  <2>2. QED
    BY <1>1, <2>1 DEF CeremonyInv, FinalsOnRecord, Finals
<1>2. QED
  BY <1>1, CeremonyInvariant, PTL

\* There is one set of versions that is ever reported ready, and it is closed.
THEOREM ReadyStaysClosed == Spec => []ReadyIsClosed
<1>1. ASSUME CeremonyInv PROVE ReadyIsClosed
  <2>1. told \subseteq {[ids |-> Last.ids, keys |-> Last.input.keys]}
    BY <1>1 DEF CeremonyInv, ToldSound
  <2>2. Cardinality(told) <= 1
    <3>1. told = {} \/ \E set : told = {set}
      BY <2>1
    <3>2. CASE told = {}
      BY <3>2, FS_EmptySet
    <3>3. CASE \E set : told = {set}
      <4>1. PICK set : told = {set}
        BY <3>3
      <4>2. Cardinality({set}) = 1
        BY FS_Singleton
      <4>3. QED
        BY <4>1, <4>2
    <3>4. QED
      BY <3>1, <3>2, <3>3
  <2>3. ASSUME NEW set \in told, NEW k \in 1..Roles
        PROVE  versions[ROLE_ORDER[k]][set.ids[k]] =
                 Version("AUTHORITY", report.config, set.keys, Pins(k, set.ids))
    <3>1. set.ids = Last.ids /\ set.keys = Last.input.keys
      BY <2>1
    <3>2. Verified(versions, set.ids, report.config, Roles)
      BY <1>1, <3>1 DEF CeremonyInv, ToldSound
    <3>3. PICK v : v = versions[ROLE_ORDER[k]][set.ids[k]]
      OBVIOUS
    <3>4. /\ set.ids[k] \in DOMAIN versions[ROLE_ORDER[k]]
          /\ Projected(v, "AUTHORITY", report.config, Pins(k, set.ids))
      BY <3>2, <3>3 DEF Verified
    <3>5. v \in ProviderVersion
      <4>1. versions[ROLE_ORDER[k]] \in Seq(ProviderVersion)
        BY <1>1, RoleOrder DEF CeremonyInv, CeremonyTypeOK
      <4>2. \A all \in Seq(ProviderVersion) : \A id \in DOMAIN all : all[id] \in ProviderVersion
        OBVIOUS
      <4>3. QED
        BY <3>3, <3>4, <4>1, <4>2
    <3>6. /\ v.kind = "AUTHORITY" /\ v.config = report.config /\ v.pins = Pins(k, set.ids)
      BY <3>4 DEF Projected, Projection
    <3>7. v.keys = set.keys
      BY <1>1, <3>1, <3>3, <3>4, <3>6 DEF CeremonyInv, FinalsOnRecord, Finals
    <3>8. QED
      BY <3>3, <3>5, <3>6, <3>7, VersionParts
  <2>4. QED
    BY <2>2, <2>3 DEF ReadyIsClosed
<1>2. QED
  BY <1>1, CeremonyInvariant, PTL

-----------------------------------------------------------------------------
(* The admission of a candidate. *)

Came(c) == stage[c] # "IDLE"
\* The controller's run was observed, and the token used up.
Admitted(c) == stage[c] \in {"ADMITTED", "CANDIDATE", "PEELED", "SIGNED", "OPENED", "STREAMING"}
\* The candidate was observed.
CandidateObserved(c) == stage[c] \in {"PEELED", "SIGNED", "OPENED", "STREAMING"}
Past(c) == CandidateObserved(c) \/ c \in opened

\* A token is of an attempt that has begun its job; an archive of an attempt
\* that has begun; what is not uploaded is not listed.
GitHubSound ==
  /\ Len(jobs) > 0 /\ Len(builds) > 0
  /\ \A t \in Tokens : minted[t] <= Len(jobs) /\ (minted[t] # 0 => jobs[minted[t]] # "QUEUED")
  /\ \A a \in Archives : uploaded[a] <= Len(builds) /\ (a \in listed => uploaded[a] # 0)

\* A call that came names a token and an archive that exist; what still runs
\* or is listed did and was when it came; what holds is seen.
CallsSound ==
  \A c \in Calls :
    /\ Came(c) =>
         /\ JobOf(c) # 0 /\ uploaded[ask[c].archive] # 0
         /\ jobs[JobOf(c)] = "IN_PROGRESS" => atArrival[c].live
         /\ ask[c].archive \in listed => atArrival[c].listed
         /\ Standing \subseteq seen[c]
    /\ c \in opened => stage[c] \in {"OPENED", "STREAMING", "REFUSED"}

\* The attempt that a call selects succeeded and is not older than its archive.
Selected(c) ==
  /\ uploaded[ask[c].archive] <= ask[c].attempt
  /\ ask[c].attempt \in DOMAIN builds /\ builds[ask[c].attempt] = "SUCCESS"

\* What each read that is back has found.
ReadsSound ==
  \A c \in Calls :
    /\ stage[c] = "CONTROLLER" =>
         /\ "job" \notin pending[c] => atArrival[c].live
         /\ Facts \subseteq seen[c] \cup pending[c]
    /\ Admitted(c) \/ c \in opened => atArrival[c].live /\ Facts \subseteq seen[c]
    /\ stage[c] = "CANDIDATE" =>
         /\ "build" \notin pending[c] => Selected(c)
         /\ "archive" \notin pending[c] => atArrival[c].listed
         /\ "tag" \notin pending[c] => tagRead[c] \in seen[c]
    /\ Past(c) => Selected(c) /\ atArrival[c].listed /\ tagRead[c] \in seen[c] \cap Peels

\* Each admitted call has a row of its own.
RowsSound ==
  \A c \in Calls :
    Admitted(c) \/ c \in opened =>
      /\ ask[c] \in rows
      /\ \A d \in Calls \ {c} :
           Admitted(d) \/ d \in opened =>
             ask[c].token # ask[d].token /\ ask[c].request # ask[d].request

AdmissionInv ==
  AdmissionTypeOK /\ GitHubSound /\ CallsSound /\ ReadsSound /\ RowsSound


\* What may change in the repositories while a call is under way: no token or
\* archive is issued anew, no job goes back to running, no archive comes back,
\* no success is taken back, and what holds is seen.
Moves ==
  /\ UNCHANGED <<brokerVars, atArrival>>
  /\ \A t \in Tokens : minted[t] # 0 =>
       /\ minted'[t] = minted[t]
       /\ jobs'[minted[t]] = "IN_PROGRESS" => jobs[minted[t]] = "IN_PROGRESS"
  /\ \A a \in Archives : uploaded[a] # 0 =>
       uploaded'[a] = uploaded[a] /\ (a \in listed' => a \in listed)
  /\ \A k \in DOMAIN builds :
       k \in DOMAIN builds' /\ (builds[k] = "SUCCESS" => builds'[k] = "SUCCESS")
  /\ \A c \in Calls : Came(c) => seen[c] \subseteq seen'[c]
  /\ \A c \in Calls : Came(c) /\ Standing \subseteq seen[c] => Standing' \subseteq seen'[c]

\* Nothing that was found out about a call is lost when the repositories move.
LEMMA RepositoriesMove ==
  AdmissionInv /\ Moves => CallsSound' /\ ReadsSound' /\ RowsSound'
<1> SUFFICES ASSUME AdmissionInv, Moves
             PROVE  CallsSound' /\ ReadsSound' /\ RowsSound'
  OBVIOUS
<1> USE DEF AdmissionInv
<1>1. /\ stage' = stage /\ ask' = ask /\ pending' = pending /\ tagRead' = tagRead
      /\ rows' = rows /\ opened' = opened /\ atArrival' = atArrival
  BY DEF Moves, brokerVars
<1>2. ASSUME NEW c \in Calls
      PROVE  ask[c].token \in Tokens /\ ask[c].archive \in Archives
  BY DEF AdmissionTypeOK, Ask
<1>3. CallsSound'
  <2> SUFFICES ASSUME NEW c \in Calls
               PROVE  /\ Came(c) =>
                           /\ JobOf(c)' # 0 /\ uploaded'[ask[c].archive] # 0
                           /\ jobs'[JobOf(c)'] = "IN_PROGRESS" => atArrival[c].live
                           /\ ask[c].archive \in listed' => atArrival[c].listed
                           /\ Standing' \subseteq seen'[c]
                      /\ c \in opened => stage[c] \in {"OPENED", "STREAMING", "REFUSED"}
    BY <1>1 DEF CallsSound, Came, JobOf
  <2>1. ASSUME Came(c)
        PROVE  /\ JobOf(c)' # 0 /\ uploaded'[ask[c].archive] # 0
               /\ jobs'[JobOf(c)'] = "IN_PROGRESS" => atArrival[c].live
               /\ ask[c].archive \in listed' => atArrival[c].listed
               /\ Standing' \subseteq seen'[c]
    <3>1. /\ JobOf(c) # 0 /\ uploaded[ask[c].archive] # 0
          /\ jobs[JobOf(c)] = "IN_PROGRESS" => atArrival[c].live
          /\ ask[c].archive \in listed => atArrival[c].listed
          /\ Standing \subseteq seen[c]
      BY <2>1 DEF CallsSound
    <3>2. JobOf(c)' = JobOf(c)
      BY <1>1, <1>2, <3>1 DEF Moves, JobOf
    <3>3. jobs'[JobOf(c)] = "IN_PROGRESS" => jobs[JobOf(c)] = "IN_PROGRESS"
      BY <1>2, <3>1 DEF Moves, JobOf
    <3>4. /\ uploaded'[ask[c].archive] = uploaded[ask[c].archive]
          /\ ask[c].archive \in listed' => ask[c].archive \in listed
      BY <1>2, <3>1 DEF Moves
    <3>5. Standing' \subseteq seen'[c]
      BY <2>1, <3>1 DEF Moves
    <3> QED
      BY <3>1, <3>2, <3>3, <3>4, <3>5
  <2> QED
    BY <2>1 DEF CallsSound
<1>4. ReadsSound'
  <2> SUFFICES ASSUME NEW c \in Calls, Came(c)
               PROVE  /\ stage[c] = "CONTROLLER" =>
                           /\ "job" \notin pending[c] => atArrival[c].live
                           /\ Facts \subseteq seen'[c] \cup pending[c]
                      /\ Admitted(c) \/ c \in opened =>
                           atArrival[c].live /\ Facts \subseteq seen'[c]
                      /\ stage[c] = "CANDIDATE" =>
                           /\ "build" \notin pending[c] => Selected(c)'
                           /\ "archive" \notin pending[c] => atArrival[c].listed
                           /\ "tag" \notin pending[c] => tagRead[c] \in seen'[c]
                      /\ Past(c) =>
                           Selected(c)' /\ atArrival[c].listed /\ tagRead[c] \in seen'[c] \cap Peels
    <3>1. ASSUME NEW c \in Calls, ~Came(c)
          PROVE  stage[c] = "IDLE" /\ c \notin opened
      BY <3>1 DEF Came, CallsSound
    <3> QED
      BY <1>1, <3>1 DEF ReadsSound, Admitted, Past, CandidateObserved, Came
  <2>1. seen[c] \subseteq seen'[c]
    BY DEF Moves
  <2>2. uploaded[ask[c].archive] # 0
    BY DEF CallsSound
  <2>3. Selected(c) => Selected(c)'
    <3> SUFFICES ASSUME Selected(c) PROVE Selected(c)'
      OBVIOUS
    <3>1. uploaded'[ask[c].archive] = uploaded[ask[c].archive]
      BY <1>2, <2>2 DEF Moves
    <3>2. ask[c].attempt \in DOMAIN builds' /\ builds'[ask[c].attempt] = "SUCCESS"
      BY DEF Moves, Selected
    <3> QED
      BY <1>1, <3>1, <3>2 DEF Selected
  <2>4. /\ stage[c] = "CONTROLLER" =>
             /\ "job" \notin pending[c] => atArrival[c].live
             /\ Facts \subseteq seen[c] \cup pending[c]
        /\ Admitted(c) \/ c \in opened => atArrival[c].live /\ Facts \subseteq seen[c]
        /\ stage[c] = "CANDIDATE" =>
             /\ "build" \notin pending[c] => Selected(c)
             /\ "archive" \notin pending[c] => atArrival[c].listed
             /\ "tag" \notin pending[c] => tagRead[c] \in seen[c]
        /\ Past(c) => Selected(c) /\ atArrival[c].listed /\ tagRead[c] \in seen[c] \cap Peels
    BY DEF ReadsSound
  <2> QED
    BY <2>1, <2>3, <2>4
<1>5. RowsSound'
  BY <1>1 DEF RowsSound, Admitted
<1> QED
  BY <1>3, <1>4, <1>5

\* The repositories' part of the type, of the soundness and of the history.
GitHubTyped ==
  /\ jobs \in Seq(JobStatus) /\ builds \in Seq(BuildOutcome)
  /\ minted \in [Tokens -> Nat] /\ uploaded \in [Archives -> Nat]
  /\ listed \subseteq Archives /\ holding \subseteq Facts /\ tag \in TagObjects
  /\ seen \in [Calls -> SUBSET (Facts \cup TagObjects)]

\* A change of the jobs that a lemma on sequences describes: one more attempt,
\* or the last one's status.
LEMMA LastChanges ==
  ASSUME NEW S, NEW s \in Seq(S), Len(s) > 0, NEW e \in S
  PROVE  LET t == [s EXCEPT ![Len(s)] = e] IN
         /\ t \in Seq(S) /\ Len(t) = Len(s) /\ t[Len(s)] = e
         /\ \A k \in 1..Len(s) : k # Len(s) => t[k] = s[k]
<1> Len(s) \in 1..Len(s)
  BY LenProperties
<1> QED
  BY ExceptSeq

LEMMA SeqDomain ==
  ASSUME NEW S, NEW s \in Seq(S)
  PROVE  DOMAIN s = 1..Len(s) /\ Len(s) \in Nat /\ \A k \in 1..Len(s) : s[k] \in S
  BY LenProperties, ElementOfSeq

\* Every step of the repositories keeps their part of the invariant, and moves
\* them only as Moves says.
GitHubSafe == GitHubTyped' /\ GitHubSound' /\ Moves

LEMMA JobsStep ==
  AdmissionInv /\ (JobStarts \/ JobEnds \/ RunAgain) => GitHubSafe
<1> SUFFICES ASSUME AdmissionInv, JobStarts \/ JobEnds \/ RunAgain PROVE GitHubSafe
  OBVIOUS
<1> USE DEF AdmissionInv
<1>1. /\ UNCHANGED <<minted, builds, uploaded, listed, holding, tag, brokerVars, history>>
      /\ \/ /\ jobs[Len(jobs)] = "QUEUED"
            /\ jobs' = [jobs EXCEPT ![Len(jobs)] = "IN_PROGRESS"]
         \/ /\ jobs[Len(jobs)] = "IN_PROGRESS"
            /\ jobs' = [jobs EXCEPT ![Len(jobs)] = "COMPLETED"]
         \/ jobs' = Append(jobs, "QUEUED")
  BY DEF JobStarts, JobEnds, RunAgain
<1>2. jobs \in Seq(JobStatus) /\ Len(jobs) > 0
  BY DEF AdmissionTypeOK, GitHubSound
<1>3. Len(jobs) \in Nat
  BY <1>2, SeqDomain
<1>4. /\ jobs' \in Seq(JobStatus) /\ Len(jobs') >= Len(jobs)
      /\ \A k \in 1..Len(jobs) :
           /\ jobs'[k] = "IN_PROGRESS" => jobs[k] # "COMPLETED"
           /\ jobs'[k] = "IN_PROGRESS" /\ jobs[k] # "QUEUED" => jobs[k] = "IN_PROGRESS"
           /\ jobs[k] # "QUEUED" => jobs'[k] # "QUEUED"
  <2>1. ASSUME NEW e \in {"IN_PROGRESS", "COMPLETED"},
               jobs' = [jobs EXCEPT ![Len(jobs)] = e],
               e = "IN_PROGRESS" => jobs[Len(jobs)] = "QUEUED"
        PROVE  <1>4!1 /\ <1>4!2
    <3>1. e \in JobStatus
      BY DEF JobStatus
    <3>2. /\ jobs' \in Seq(JobStatus) /\ Len(jobs') = Len(jobs) /\ jobs'[Len(jobs)] = e
          /\ \A k \in 1..Len(jobs) : k # Len(jobs) => jobs'[k] = jobs[k]
      BY <1>2, <2>1, <3>1, LastChanges
    <3>3. \A k \in 1..Len(jobs) : jobs[k] \in JobStatus
      BY <1>2, SeqDomain
    <3>4. \/ e = "COMPLETED"
          \/ e = "IN_PROGRESS" /\ jobs[Len(jobs)] = "QUEUED"
      BY <2>1
    <3> QED
      BY <1>3, <3>2, <3>3, <3>4
  <2>2. ASSUME jobs' = Append(jobs, "QUEUED")
        PROVE  <1>4!1 /\ <1>4!2
    <3>1. "QUEUED" \in JobStatus
      BY DEF JobStatus
    <3>2. /\ jobs' \in Seq(JobStatus) /\ Len(jobs') = Len(jobs) + 1
          /\ \A k \in 1..Len(jobs) : jobs'[k] = jobs[k]
      BY <1>2, <2>2, <3>1, AppendProperties
    <3> QED
      BY <1>3, <3>2
  <2> QED
    BY <1>1, <2>1, <2>2
<1>5. GitHubTyped' /\ GitHubSound'
  <2>1. Len(jobs') \in Nat
    BY <1>4, SeqDomain
  <2> QED
    BY <1>1, <1>2, <1>3, <1>4, <2>1 DEF GitHubTyped, GitHubSound, AdmissionTypeOK, history
<1>6. Moves
  <2>1. \A t \in Tokens : minted[t] # 0 => minted[t] \in 1..Len(jobs) /\ jobs[minted[t]] # "QUEUED"
    BY <1>3 DEF GitHubSound, AdmissionTypeOK
  <2> QED
    BY <1>1, <1>4, <2>1 DEF Moves, history, Standing
<1> QED
  BY <1>5, <1>6 DEF GitHubSafe

LEMMA MintStep ==
  ASSUME AdmissionInv, NEW t \in Tokens, Mint(t)
  PROVE  GitHubSafe
<1> USE DEF AdmissionInv
<1>1. jobs \in Seq(JobStatus) /\ Len(jobs) \in Nat /\ Len(jobs) > 0
  BY SeqDomain DEF AdmissionTypeOK, GitHubSound
<1>2. /\ minted[t] = 0 /\ jobs[Len(jobs)] = "IN_PROGRESS"
      /\ minted' = [minted EXCEPT ![t] = Len(jobs)]
      /\ UNCHANGED <<jobs, builds, uploaded, listed, holding, tag, brokerVars, history>>
  BY DEF Mint
<1>3. GitHubTyped' /\ GitHubSound'
  BY <1>1, <1>2 DEF GitHubTyped, GitHubSound, AdmissionTypeOK, history
<1>4. Moves
  BY <1>1, <1>2 DEF Moves, AdmissionTypeOK, history, Standing
<1> QED
  BY <1>3, <1>4 DEF GitHubSafe

LEMMA BuildsStep ==
  AdmissionInv /\ (BuildEnds \/ BuildAgain) => GitHubSafe
<1> SUFFICES ASSUME AdmissionInv, BuildEnds \/ BuildAgain PROVE GitHubSafe
  OBVIOUS
<1> USE DEF AdmissionInv
<1>1. /\ UNCHANGED <<jobs, minted, uploaded, listed, holding, tag, brokerVars, history>>
      /\ \/ /\ builds[Len(builds)] = "RUNNING"
            /\ \E outcome \in {"SUCCESS", "FAILURE"} :
                 builds' = [builds EXCEPT ![Len(builds)] = outcome]
         \/ builds' = Append(builds, "RUNNING")
  BY DEF BuildEnds, BuildAgain
<1>2. builds \in Seq(BuildOutcome) /\ Len(builds) > 0 /\ Len(builds) \in Nat
  BY SeqDomain DEF AdmissionTypeOK, GitHubSound
<1>3. /\ builds' \in Seq(BuildOutcome) /\ Len(builds') >= Len(builds)
      /\ \A k \in 1..Len(builds) : builds[k] = "SUCCESS" => builds'[k] = "SUCCESS"
  <2>1. ASSUME builds[Len(builds)] = "RUNNING", NEW e \in {"SUCCESS", "FAILURE"},
               builds' = [builds EXCEPT ![Len(builds)] = e]
        PROVE  <1>3!1 /\ <1>3!2
    <3>1. e \in BuildOutcome
      BY DEF BuildOutcome
    <3>2. /\ builds' \in Seq(BuildOutcome) /\ Len(builds') = Len(builds)
          /\ \A k \in 1..Len(builds) : k # Len(builds) => builds'[k] = builds[k]
      BY <1>2, <2>1, <3>1, LastChanges
    <3>3. builds[Len(builds)] # "SUCCESS"
      BY <2>1
    <3> QED
      BY <1>2, <3>2, <3>3
  <2>2. ASSUME builds' = Append(builds, "RUNNING")
        PROVE  <1>3!1 /\ <1>3!2
    <3>1. "RUNNING" \in BuildOutcome
      BY DEF BuildOutcome
    <3>2. /\ builds' \in Seq(BuildOutcome) /\ Len(builds') = Len(builds) + 1
          /\ \A k \in 1..Len(builds) : builds'[k] = builds[k]
      BY <1>2, <2>2, <3>1, AppendProperties
    <3> QED
      BY <1>2, <3>2
  <2> QED
    BY <1>1, <2>1, <2>2
<1>4. /\ Len(builds') \in Nat
      /\ DOMAIN builds' = 1..Len(builds') /\ DOMAIN builds = 1..Len(builds)
  BY <1>2, <1>3, SeqDomain
<1>5. UNCHANGED <<jobs, minted, uploaded, listed, holding, tag, brokerVars, history>>
  BY <1>1
<1>6. GitHubTyped' /\ GitHubSound'
  BY <1>2, <1>3, <1>4, <1>5 DEF GitHubTyped, GitHubSound, AdmissionTypeOK, history
<1>7. Moves
  BY <1>2, <1>3, <1>4, <1>5 DEF Moves, history, Standing
<1> QED
  BY <1>6, <1>7 DEF GitHubSafe

LEMMA ArchiveStep ==
  ASSUME AdmissionInv, NEW a \in Archives, UploadArchive(a) \/ ExpireArchive(a)
  PROVE  GitHubSafe
<1> USE DEF AdmissionInv
<1>1. Len(builds) \in Nat /\ Len(builds) > 0
  BY SeqDomain DEF AdmissionTypeOK, GitHubSound
<1>2. /\ UNCHANGED <<jobs, minted, builds, holding, tag, brokerVars, history>>
      /\ \/ /\ uploaded[a] = 0 /\ uploaded' = [uploaded EXCEPT ![a] = Len(builds)]
            /\ listed' = listed \cup {a}
         \/ uploaded' = uploaded /\ listed' = listed \ {a}
  BY DEF UploadArchive, ExpireArchive
<1>3. GitHubTyped' /\ GitHubSound'
  BY <1>1, <1>2 DEF GitHubTyped, GitHubSound, AdmissionTypeOK, history
<1>4. Moves
  BY <1>1, <1>2 DEF Moves, AdmissionTypeOK, history, Standing
<1> QED
  BY <1>3, <1>4 DEF GitHubSafe

LEMMA WitnessStep ==
  ASSUME AdmissionInv, Witness,
         holding' \subseteq Facts, tag' \in TagObjects,
         UNCHANGED <<jobs, minted, builds, uploaded, listed, brokerVars, atArrival>>
  PROVE  GitHubSafe
<1> USE DEF AdmissionInv
<1>1. Standing' \subseteq Facts \cup TagObjects
  BY DEF Standing
<1>2. seen' \in [Calls -> SUBSET (Facts \cup TagObjects)]
  BY <1>1 DEF Witness, AdmissionTypeOK
<1>3. GitHubTyped' /\ GitHubSound'
  BY <1>2 DEF GitHubTyped, GitHubSound, AdmissionTypeOK
<1>4. \A c \in Calls : Came(c) => seen'[c] = seen[c] \cup Standing'
  BY DEF Witness, Came
<1>5. Moves
  BY <1>4 DEF Moves
<1> QED
  BY <1>3, <1>5 DEF GitHubSafe

LEMMA GitHubStep == AdmissionInv /\ GitHub => GitHubSafe
<1> SUFFICES ASSUME AdmissionInv, GitHub PROVE GitHubSafe
  OBVIOUS
<1>1. CASE JobStarts \/ JobEnds \/ RunAgain
  BY <1>1, JobsStep
<1>2. CASE \E t \in Tokens : Mint(t)
  BY <1>2, MintStep
<1>3. CASE BuildEnds \/ BuildAgain
  BY <1>3, BuildsStep
<1>4. CASE \E a \in Archives : UploadArchive(a) \/ ExpireArchive(a)
  BY <1>4, ArchiveStep
<1>5. ASSUME NEW f \in Facts, FactChanges(f) PROVE GitHubSafe
  <2>1. holding' \subseteq Facts /\ tag' \in TagObjects
    BY <1>5 DEF FactChanges, AdmissionInv, AdmissionTypeOK
  <2> QED
    BY <1>5, <2>1, WitnessStep DEF FactChanges
<1>6. ASSUME NEW o \in TagObjects, TagMoves(o) PROVE GitHubSafe
  <2>1. holding' \subseteq Facts /\ tag' \in TagObjects
    BY <1>6 DEF TagMoves, AdmissionInv, AdmissionTypeOK
  <2> QED
    BY <1>6, <2>1, WitnessStep DEF TagMoves
<1> QED
  BY <1>1, <1>2, <1>3, <1>4, <1>5, <1>6 DEF GitHub

LEMMA GitHubInv == AdmissionInv /\ GitHub => AdmissionInv'
<1> SUFFICES ASSUME AdmissionInv, GitHub PROVE AdmissionInv'
  OBVIOUS
<1>1. GitHubSafe
  BY GitHubStep
<1>2. CallsSound' /\ ReadsSound' /\ RowsSound'
  BY <1>1, RepositoriesMove DEF GitHubSafe
<1>3. AdmissionTypeOK'
  BY <1>1 DEF GitHubSafe, GitHubTyped, Moves, brokerVars, AdmissionInv, AdmissionTypeOK
<1> QED
  BY <1>1, <1>2, <1>3 DEF AdmissionInv, GitHubSafe

-----------------------------------------------------------------------------
(* The steps of a call. *)

\* What is there to show of one call, when only it moves and the repositories
\* stand still: its own part of each conjunct.
CallSafe(c) ==
  /\ c \in opened => stage[c] \in {"OPENED", "STREAMING", "REFUSED"}
  /\ stage[c] = "CONTROLLER" =>
       /\ "job" \notin pending[c] => atArrival[c].live
       /\ Facts \subseteq seen[c] \cup pending[c]
  /\ Admitted(c) \/ c \in opened => atArrival[c].live /\ Facts \subseteq seen[c]
  /\ stage[c] = "CANDIDATE" =>
       /\ "build" \notin pending[c] => Selected(c)
       /\ "archive" \notin pending[c] => atArrival[c].listed
       /\ "tag" \notin pending[c] => tagRead[c] \in seen[c]
  /\ Past(c) => Selected(c) /\ atArrival[c].listed /\ tagRead[c] \in seen[c] \cap Peels

\* A step that only moves one call on, which had its row if it has one to have.
CallMoves(c) ==
  /\ UNCHANGED <<repositories, history, ask, rows>>
  /\ stage[c] # "IDLE"
  /\ \E s \in Stage \ {"IDLE"} : stage' = [stage EXCEPT ![c] = s]
  /\ \A d \in Calls : d # c => pending'[d] = pending[d] /\ tagRead'[d] = tagRead[d]
  /\ opened \subseteq opened' /\ opened' \subseteq opened \cup {c}
  /\ (Admitted(c) \/ c \in opened)' => Admitted(c) \/ c \in opened

LEMMA CallInv ==
  ASSUME AdmissionInv, NEW c \in Calls, CallMoves(c), AdmissionTypeOK', CallSafe(c)'
  PROVE  AdmissionInv'
<1> USE DEF AdmissionInv
<1>1. /\ UNCHANGED <<repositories, history, ask, rows>>
      /\ \A d \in Calls : d # c =>
           /\ stage'[d] = stage[d] /\ pending'[d] = pending[d] /\ tagRead'[d] = tagRead[d]
           /\ d \in opened' <=> d \in opened
  BY DEF CallMoves, AdmissionTypeOK
<1>2. stage[c] # "IDLE" /\ stage'[c] # "IDLE"
  BY DEF CallMoves, AdmissionTypeOK
<1>3. GitHubSound'
  BY <1>1 DEF GitHubSound, repositories
<1>4. \A d \in Calls : Came(d)' <=> Came(d)
  BY <1>1, <1>2 DEF Came
<1>5. CallsSound'
  BY <1>1, <1>4 DEF CallsSound, CallSafe, repositories, history, JobOf, Standing
<1>6. \A d \in Calls : d # c =>
        (Admitted(d)' <=> Admitted(d)) /\ (Past(d)' <=> Past(d)) /\ (Selected(d)' <=> Selected(d))
  BY <1>1 DEF Admitted, Past, CandidateObserved, Selected, repositories
<1>7. ReadsSound'
  BY <1>1, <1>6 DEF ReadsSound, CallSafe, repositories, history
<1>8. RowsSound'
  BY <1>1, <1>6 DEF RowsSound, CallMoves
<1> QED
  BY <1>3, <1>5, <1>7, <1>8

LEMMA ArriveStep ==
  ASSUME AdmissionInv, NEW c \in Calls, Arrive(c)
  PROVE  AdmissionInv'
<1> USE DEF AdmissionInv
<1>1. /\ stage[c] = "IDLE" /\ JobOf(c) # 0 /\ uploaded[ask[c].archive] # 0
      /\ stage' = [stage EXCEPT ![c] = "ARRIVED"]
      /\ atArrival' = [atArrival EXCEPT ![c] = [live |-> jobs[JobOf(c)] = "IN_PROGRESS",
                                                listed |-> ask[c].archive \in listed]]
      /\ seen' = [seen EXCEPT ![c] = Standing]
      /\ UNCHANGED <<repositories, ask, pending, tagRead, tries, rows, opened>>
  BY DEF Arrive, Enters
<1>2. Standing \subseteq Facts \cup TagObjects
  BY DEF Standing, AdmissionTypeOK
<1>3. /\ stage'[c] = "ARRIVED" /\ c \notin opened
      /\ atArrival'[c].live = (jobs[JobOf(c)] = "IN_PROGRESS")
      /\ atArrival'[c].listed = (ask[c].archive \in listed)
      /\ seen'[c] = Standing
      /\ \A d \in Calls : d # c =>
           stage'[d] = stage[d] /\ atArrival'[d] = atArrival[d] /\ seen'[d] = seen[d]
  BY <1>1 DEF AdmissionTypeOK, CallsSound
<1>4. AdmissionTypeOK'
  BY <1>1, <1>2 DEF AdmissionTypeOK, repositories, Stage
<1>5. GitHubSound'
  BY <1>1 DEF GitHubSound, repositories
<1>6. CallsSound'
  BY <1>1, <1>3 DEF CallsSound, Came, JobOf, Standing, repositories
<1>7. \A d \in Calls : d # c =>
        (Admitted(d)' <=> Admitted(d)) /\ (Past(d)' <=> Past(d)) /\ (Selected(d)' <=> Selected(d))
  BY <1>1, <1>3 DEF Admitted, Past, CandidateObserved, Selected, repositories
<1>8. ~Admitted(c)' /\ ~Past(c)'
  BY <1>1, <1>3 DEF Admitted, Past, CandidateObserved
<1>9. ReadsSound'
  BY <1>1, <1>3, <1>7, <1>8 DEF ReadsSound
<1>10. RowsSound'
  BY <1>1, <1>3, <1>7, <1>8 DEF RowsSound
<1> QED
  BY <1>4, <1>5, <1>6, <1>9, <1>10

LEMMA ControllerReaderStep ==
  ASSUME AdmissionInv, NEW c \in Calls, ControllerReader(c)
  PROVE  AdmissionInv'
<1> USE DEF AdmissionInv
<1>1. /\ stage[c] = "ARRIVED" /\ stage' = [stage EXCEPT ![c] = "CONTROLLER"]
      /\ pending' = [pending EXCEPT ![c] = JobReads \cup Facts]
      /\ UNCHANGED <<repositories, history, ask, tagRead, tries, rows, opened>>
  BY DEF ControllerReader, Enters, ReadsBegin
<1>2. stage'[c] = "CONTROLLER" /\ pending'[c] = JobReads \cup Facts /\ c \notin opened
  BY <1>1 DEF AdmissionTypeOK, CallsSound
<1>3. AdmissionTypeOK'
  BY <1>1 DEF AdmissionTypeOK, repositories, history, Stage
<1>4. CallMoves(c)
  BY <1>1, <1>2 DEF CallMoves, Admitted, AdmissionTypeOK, Stage
<1>5. CallSafe(c)'
  BY <1>1, <1>2 DEF CallSafe, Admitted, Past, CandidateObserved, JobReads
<1> QED
  BY <1>3, <1>4, <1>5, CallInv

LEMMA ReadControllerStep ==
  ASSUME AdmissionInv, NEW c \in Calls, NEW r \in JobReads \cup Facts, ReadController(c, r)
  PROVE  AdmissionInv'
<1> USE DEF AdmissionInv
<1>1. /\ stage[c] = "CONTROLLER" /\ r \in pending[c]
      /\ pending' = [pending EXCEPT ![c] = @ \ {r}]
      /\ \/ ControllerHolds(c, r) /\ stage' = stage
         \/ stage' = [stage EXCEPT ![c] = "REFUSED"]
      /\ UNCHANGED <<repositories, history, ask, tagRead, tries, rows, opened>>
  BY DEF ReadController, Refused, Enters
<1>2. pending'[c] = pending[c] \ {r} /\ c \notin opened
  BY <1>1 DEF AdmissionTypeOK, CallsSound
<1>3. \/ stage'[c] = "CONTROLLER" /\ ControllerHolds(c, r)
      \/ stage'[c] = "REFUSED"
  BY <1>1 DEF AdmissionTypeOK
<1>4. AdmissionTypeOK'
  BY <1>1 DEF AdmissionTypeOK, repositories, history, Stage
<1>5. CallMoves(c)
  <2>1. \E s \in Stage \ {"IDLE"} : stage' = [stage EXCEPT ![c] = s]
    <3>1. stage' = stage => stage' = [stage EXCEPT ![c] = "CONTROLLER"]
      BY <1>1 DEF AdmissionTypeOK
    <3> QED
      BY <1>1, <3>1 DEF Stage
  <2> QED
    BY <1>1, <1>2, <1>3, <2>1 DEF CallMoves, Admitted, AdmissionTypeOK
<1>6. ControllerHolds(c, r) =>
        /\ r = "job" => atArrival[c].live
        /\ r \in Facts => r \in seen[c]
  <2>1. /\ jobs[JobOf(c)] = "IN_PROGRESS" => atArrival[c].live
        /\ holding \subseteq seen[c]
    BY <1>1 DEF CallsSound, Came, Standing
  <2>2. r \in Facts => r \notin JobReads
    BY AdmissionAssumption
  <2> QED
    BY <2>1, <2>2 DEF ControllerHolds, InProgress, JobReads
<1>7. CallSafe(c)'
  <2>1. /\ "job" \notin pending[c] => atArrival[c].live
        /\ Facts \subseteq seen[c] \cup pending[c]
    BY <1>1 DEF ReadsSound
  <2> QED
    BY <1>1, <1>2, <1>3, <1>6, <2>1 DEF CallSafe, Admitted, Past, CandidateObserved, history
<1> QED
  BY <1>4, <1>5, <1>7, CallInv

LEMMA AdmitStep ==
  ASSUME AdmissionInv, NEW c \in Calls, Admit(c)
  PROVE  AdmissionInv'
<1> USE DEF AdmissionInv
<1>1. /\ stage[c] = "CONTROLLER" /\ pending[c] = {} /\ ~Replayed(c)
      /\ stage' = [stage EXCEPT ![c] = "ADMITTED"] /\ rows' = rows \cup {ask[c]}
      /\ UNCHANGED <<repositories, history, ask, pending, tagRead, tries, opened>>
  BY DEF Admit, Observed, Enters
<1>2. /\ stage'[c] = "ADMITTED" /\ c \notin opened /\ ~Admitted(c)
      /\ \A d \in Calls : d # c => stage'[d] = stage[d]
  BY <1>1 DEF AdmissionTypeOK, CallsSound, Admitted
<1>3. AdmissionTypeOK'
  BY <1>1 DEF AdmissionTypeOK, repositories, history, Stage
<1>4. GitHubSound'
  BY <1>1 DEF GitHubSound, repositories
<1>5. CallsSound'
  BY <1>1, <1>2 DEF CallsSound, Came, JobOf, Standing, repositories, history
<1>6. \A d \in Calls : d # c =>
        (Admitted(d)' <=> Admitted(d)) /\ (Past(d)' <=> Past(d)) /\ (Selected(d)' <=> Selected(d))
  BY <1>1, <1>2 DEF Admitted, Past, CandidateObserved, Selected, repositories
<1>7. Admitted(c)' /\ ~Past(c)'
  BY <1>1, <1>2 DEF Admitted, Past, CandidateObserved
<1>8. ReadsSound'
  <2>1. atArrival[c].live /\ Facts \subseteq seen[c]
    BY <1>1 DEF ReadsSound
  <2> QED
    BY <1>1, <1>2, <1>6, <1>7, <2>1 DEF ReadsSound, history
<1>9. RowsSound'
  <2>1. \A d \in Calls \ {c} : Admitted(d) \/ d \in opened =>
          ask[c].token # ask[d].token /\ ask[c].request # ask[d].request
    BY <1>1 DEF RowsSound, Replayed
  <2> QED
    BY <1>1, <1>2, <1>6, <1>7, <2>1 DEF RowsSound
<1> QED
  BY <1>3, <1>4, <1>5, <1>8, <1>9

\* A refusal takes nothing with it.
LEMMA RefusalSafe ==
  ASSUME AdmissionInv, NEW c \in Calls, stage[c] # "IDLE",
         stage' = [stage EXCEPT ![c] = "REFUSED"],
         UNCHANGED <<repositories, history, ask, pending, tagRead, tries, rows, opened>>
  PROVE  AdmissionInv'
<1> USE DEF AdmissionInv
<1>1. stage'[c] = "REFUSED"
  BY DEF AdmissionTypeOK
<1>2. AdmissionTypeOK'
  BY DEF AdmissionTypeOK, repositories, history, Stage
<1>3. CallMoves(c)
  BY <1>1 DEF CallMoves, Admitted, Stage
<1>4. Past(c)' => Past(c)
  BY <1>1 DEF Past, CandidateObserved
<1>5. CallSafe(c)'
  BY <1>1, <1>4 DEF CallSafe, Admitted, ReadsSound, CallsSound, Selected, repositories, history
<1> QED
  BY <1>2, <1>3, <1>5, CallInv

LEMMA ReplayRefusedStep ==
  ASSUME AdmissionInv, NEW c \in Calls, ReplayRefused(c)
  PROVE  AdmissionInv'
BY RefusalSafe DEF ReplayRefused, Observed, Refused, Enters

LEMMA FailsStep ==
  ASSUME AdmissionInv, NEW c \in Calls, Fails(c)
  PROVE  AdmissionInv'
BY RefusalSafe DEF Fails, Refused, Enters

LEMMA CandidateReaderStep ==
  ASSUME AdmissionInv, NEW c \in Calls, CandidateReader(c)
  PROVE  AdmissionInv'
<1> USE DEF AdmissionInv
<1>1. /\ stage[c] = "ADMITTED" /\ stage' = [stage EXCEPT ![c] = "CANDIDATE"]
      /\ pending' = [pending EXCEPT ![c] = CandidateReads]
      /\ UNCHANGED <<repositories, history, ask, tagRead, tries, rows, opened>>
  BY DEF CandidateReader, Enters, ReadsBegin
<1>2. /\ stage'[c] = "CANDIDATE" /\ pending'[c] = CandidateReads
      /\ c \notin opened /\ Admitted(c)
  BY <1>1 DEF AdmissionTypeOK, CallsSound, Admitted
<1>3. AdmissionTypeOK'
  BY <1>1 DEF AdmissionTypeOK, repositories, history, Stage
<1>4. CallMoves(c)
  BY <1>1, <1>2 DEF CallMoves, AdmissionTypeOK, Stage
<1>5. CallSafe(c)'
  BY <1>1, <1>2 DEF CallSafe, ReadsSound, Past, CandidateObserved, CandidateReads, history
<1> QED
  BY <1>3, <1>4, <1>5, CallInv

LEMMA ReadCandidateStep ==
  ASSUME AdmissionInv, NEW c \in Calls, NEW r \in CandidateReads, ReadCandidate(c, r)
  PROVE  AdmissionInv'
<1> USE DEF AdmissionInv
<1>1. /\ stage[c] = "CANDIDATE" /\ r \in pending[c]
      /\ pending' = [pending EXCEPT ![c] = @ \ {r}]
      /\ tagRead' = IF r = "tag" THEN [tagRead EXCEPT ![c] = tag] ELSE tagRead
      /\ \/ CandidateHolds(c, r) /\ stage' = stage
         \/ stage' = [stage EXCEPT ![c] = "REFUSED"]
      /\ UNCHANGED <<repositories, history, ask, tries, rows, opened>>
  BY DEF ReadCandidate, Refused, Enters
<1>2. /\ pending'[c] = pending[c] \ {r} /\ c \notin opened /\ Admitted(c)
      /\ tagRead'[c] = IF r = "tag" THEN tag ELSE tagRead[c]
  BY <1>1 DEF AdmissionTypeOK, CallsSound, Admitted
<1>3. \/ stage'[c] = "CANDIDATE" /\ CandidateHolds(c, r)
      \/ stage'[c] = "REFUSED"
  BY <1>1 DEF AdmissionTypeOK
<1>4. AdmissionTypeOK'
  BY <1>1 DEF AdmissionTypeOK, repositories, history, Stage
<1>5. CallMoves(c)
  <2>1. \E s \in Stage \ {"IDLE"} : stage' = [stage EXCEPT ![c] = s]
    <3>1. stage' = stage => stage' = [stage EXCEPT ![c] = "CANDIDATE"]
      BY <1>1 DEF AdmissionTypeOK
    <3> QED
      BY <1>1, <3>1 DEF Stage
  <2> QED
    BY <1>1, <1>2, <2>1 DEF CallMoves, AdmissionTypeOK
<1>6. /\ uploaded[ask[c].archive] # 0 /\ tag \in seen[c]
      /\ ask[c].archive \in listed => atArrival[c].listed
  BY <1>1 DEF CallsSound, Came, Standing
<1>7. CandidateHolds(c, "build") => Selected(c)
  <2>1. /\ ask[c].archive \in Archives /\ ask[c].attempt \in Nat \ {0}
        /\ builds \in Seq(BuildOutcome)
    BY DEF AdmissionTypeOK, Ask, Attempts
  <2>2. DOMAIN builds = 1..Len(builds) /\ Len(builds) \in Nat
    BY <2>1, SeqDomain
  <2> QED
    BY <2>1, <2>2 DEF CandidateHolds, Succeeded, Selected, GitHubSound
<1>8. CandidateHolds(c, "archive") => atArrival[c].listed
  BY <1>6 DEF CandidateHolds
<1>9. CallSafe(c)'
  <2>1. /\ "build" \notin pending[c] => Selected(c)
        /\ "archive" \notin pending[c] => atArrival[c].listed
        /\ "tag" \notin pending[c] => tagRead[c] \in seen[c]
        /\ atArrival[c].live /\ Facts \subseteq seen[c]
    BY <1>1, <1>2 DEF ReadsSound
  <2>2. Selected(c)' <=> Selected(c)
    BY <1>1 DEF Selected, repositories
  <2> QED
    BY <1>1, <1>2, <1>3, <1>6, <1>7, <1>8, <2>1, <2>2
       DEF CallSafe, Admitted, Past, CandidateObserved, history
<1> QED
  BY <1>4, <1>5, <1>9, CallInv

LEMMA PeelTagStep ==
  ASSUME AdmissionInv, NEW c \in Calls, PeelTag(c)
  PROVE  AdmissionInv'
<1> USE DEF AdmissionInv
<1>1. /\ stage[c] = "CANDIDATE" /\ pending[c] = {}
      /\ \/ Annotated(c) /\ stage' = [stage EXCEPT ![c] = "PEELED"]
         \/ stage' = [stage EXCEPT ![c] = "REFUSED"]
      /\ UNCHANGED <<repositories, history, ask, pending, tagRead, tries, rows, opened>>
  BY DEF PeelTag, Refused, Enters
<1>2. CASE stage' = [stage EXCEPT ![c] = "REFUSED"]
  BY <1>1, <1>2, RefusalSafe
<1>3. CASE Annotated(c) /\ stage' = [stage EXCEPT ![c] = "PEELED"]
  <2>1. stage'[c] = "PEELED" /\ c \notin opened /\ Admitted(c)
    BY <1>1, <1>3 DEF AdmissionTypeOK, CallsSound, Admitted
  <2>2. AdmissionTypeOK'
    BY <1>1, <1>3 DEF AdmissionTypeOK, repositories, history, Stage
  <2>3. CallMoves(c)
    BY <1>1, <1>3, <2>1 DEF CallMoves, Stage
  <2>4. Selected(c)' <=> Selected(c)
    BY <1>1 DEF Selected, repositories
  <2>5. CallSafe(c)'
    BY <1>1, <1>3, <2>1, <2>4 DEF CallSafe, ReadsSound, Annotated, history
  <2> QED
    BY <2>2, <2>3, <2>5, CallInv
<1> QED
  BY <1>1, <1>2, <1>3

\* Of a verified call only the stage, the tries and that it was opened change.
LEMMA VerifiedStep ==
  ASSUME AdmissionInv, NEW c \in Calls, Redirect(c) \/ OpenArchive(c) \/ Stream(c)
  PROVE  AdmissionInv'
<1> USE DEF AdmissionInv
<1>1. /\ stage[c] \in {"PEELED", "SIGNED", "OPENED"}
      /\ \E s \in {"PEELED", "SIGNED", "OPENED", "STREAMING"} :
           /\ stage' = [stage EXCEPT ![c] = s]
           /\ opened' = opened \/ (opened' = opened \cup {c} /\ s = "OPENED")
           /\ c \in opened => s \in {"OPENED", "STREAMING"}
      /\ UNCHANGED <<repositories, history, ask, pending, tagRead, rows>>
  <2>1. CASE Redirect(c)
    <3>1. stage' = stage => stage' = [stage EXCEPT ![c] = "PEELED"]
      BY <2>1 DEF Redirect, AdmissionTypeOK
    <3> QED
      BY <2>1, <3>1 DEF Redirect, Enters, CallsSound
  <2>2. CASE OpenArchive(c)
    BY <2>2 DEF OpenArchive, Enters
  <2>3. CASE Stream(c)
    BY <2>3 DEF Stream, Enters
  <2> QED
    BY <2>1, <2>2, <2>3
<1>2. /\ stage'[c] \in {"PEELED", "SIGNED", "OPENED", "STREAMING"}
      /\ c \in opened' => stage'[c] \in {"OPENED", "STREAMING"}
  BY <1>1 DEF AdmissionTypeOK
<1>3. Admitted(c) /\ Past(c)
  BY <1>1 DEF Admitted, Past, CandidateObserved
<1>4. AdmissionTypeOK'
  <2>1. tries' \in [Calls -> 0..1]
    <3>1. tries \in [Calls -> 0..1]
      BY DEF AdmissionTypeOK
    <3>2. tries' = tries \/ tries' = [tries EXCEPT ![c] = 1]
      BY DEF Redirect, OpenArchive, Stream
    <3> QED
      BY <3>1, <3>2
  <2>2. stage' \in [Calls -> Stage] /\ opened' \subseteq Calls
    BY <1>1 DEF AdmissionTypeOK, Stage
  <2> QED
    BY <1>1, <2>1, <2>2 DEF AdmissionTypeOK, repositories, history
<1>5. CallMoves(c)
  BY <1>1, <1>3 DEF CallMoves, Stage
<1>6. Selected(c)' <=> Selected(c)
  BY <1>1 DEF Selected, repositories
<1>7. CallSafe(c)'
  BY <1>1, <1>2, <1>3, <1>6 DEF CallSafe, ReadsSound, history
<1> QED
  BY <1>4, <1>5, <1>7, CallInv

LEMMA AdmissionStarts == AdmissionInit => AdmissionInv
<1> SUFFICES ASSUME AdmissionInit PROVE AdmissionInv
  OBVIOUS
<1>1. /\ jobs \in Seq(JobStatus) /\ Len(jobs) = 1
      /\ builds \in Seq(BuildOutcome) /\ Len(builds) = 1
  BY DEF AdmissionInit, JobStatus, BuildOutcome
<1>2. AdmissionTypeOK
  BY <1>1 DEF AdmissionInit, AdmissionTypeOK, Stage
<1>3. GitHubSound
  BY <1>1 DEF AdmissionInit, GitHubSound
<1>4. CallsSound /\ ReadsSound /\ RowsSound
  BY DEF AdmissionInit, CallsSound, ReadsSound, RowsSound, Came, Admitted, Past, CandidateObserved
<1> QED
  BY <1>2, <1>3, <1>4 DEF AdmissionInv

LEMMA AdmissionStep ==
  AdmissionInv /\ [AdmissionNext]_admissionVars => AdmissionInv'
<1> SUFFICES ASSUME AdmissionInv, [AdmissionNext]_admissionVars PROVE AdmissionInv'
  OBVIOUS
<1>1. CASE GitHub
  BY <1>1, GitHubInv
<1>2. ASSUME NEW c \in Calls, Arrive(c) \/ CallStep(c) \/ Fails(c) PROVE AdmissionInv'
  BY <1>2, ArriveStep, FailsStep, ControllerReaderStep, ReadControllerStep, AdmitStep,
     ReplayRefusedStep, CandidateReaderStep, ReadCandidateStep, PeelTagStep, VerifiedStep
     DEF CallStep
<1>3. CASE UNCHANGED admissionVars
  BY <1>3 DEF admissionVars, repositories, brokerVars, history, AdmissionInv, AdmissionTypeOK,
              GitHubSound, CallsSound, ReadsSound, RowsSound, Came, Admitted, CandidateObserved, Past,
              Selected, JobOf, Standing
<1> QED
  BY <1>1, <1>2, <1>3 DEF AdmissionNext

\* Candidate admission keeps its inductive invariant: what every read that is
\* back has found is still true of the moment the call came, or of one since.
THEOREM AdmissionInvariant == AdmissionSpec => []AdmissionInv
<1>1. AdmissionInit => AdmissionInv
  BY AdmissionStarts
<1>2. AdmissionInv /\ [AdmissionNext]_admissionVars => AdmissionInv'
  BY AdmissionStep
<1> QED
  BY <1>1, <1>2, PTL DEF AdmissionSpec

\* Every reachable state of candidate admission has the types it should.
THEOREM AdmissionTypeCorrect == AdmissionSpec => []AdmissionTypeOK
<1>1. AdmissionInv => AdmissionTypeOK
  BY DEF AdmissionInv
<1> QED
  BY <1>1, AdmissionInvariant, PTL

\* A token and a request id open one archive, for exactly what was asked
\* (candidate-route.ts:75).
THEOREM TokenOpensOneArchive == AdmissionSpec => []OneArchivePerToken
<1>1. AdmissionInv => OneArchivePerToken
  BY DEF AdmissionInv, AdmissionTypeOK, RowsSound, OneArchivePerToken
<1> QED
  BY <1>1, AdmissionInvariant, PTL

\* Everything an archive was opened on was so at some moment since the call
\* came, and its attempt succeeded and is not older than it
\* (controller-run-reader.ts:71, candidate-provider.ts:73).
THEOREM OpensOnWhatStood == AdmissionSpec => []OpenedOnWhatStood
<1>1. AdmissionInv => OpenedOnWhatStood
  BY DEF AdmissionInv, AdmissionTypeOK, ReadsSound, OpenedOnWhatStood, Past, Selected
<1> QED
  BY <1>1, AdmissionInvariant, PTL

-----------------------------------------------------------------------------
(* The candidate's bytes. *)

\* The provider closed its body after exactly the announced bytes, and the
\* first pipe has them.
AllSent == sent = Size /\ taken[0] = Size /\ ending[0] # "OPEN"

\* What a pipe took it counts; what it counted was taken from it, but for the
\* chunk on offer.
CountsSound ==
  \A p \in Pipes :
    /\ taken[p - 1] = total[p] /\ taken[p] <= total[p] /\ taken[p] <= Size
    /\ pump[p] # "FAILED" => total[p] <= Size
    /\ pump[p] \in {"READ", "CLOSE", "DONE"} => taken[p] = total[p] /\ offer[p] = NoChunk
    /\ pump[p] = "WRITE" =>
         taken[p] + (IF offer[p] = NoChunk THEN 0 ELSE offer[p]) = total[p]
    /\ pump[p] = "FAILED" => ending[p] = "ERROR"

BodySound == sent = taken[0] + (IF offer[0] = NoChunk THEN 0 ELSE offer[0])

\* A stream is closed only by a pipe that was given everything.
ClosingsSound ==
  /\ \A p \in Pipes :
       /\ ending[p] = "CLOSED" => pump[p] \in {"CLOSE", "DONE"}
       /\ pump[p] \in {"CLOSE", "DONE"} =>
            AllSent /\ total[p] = Size /\ ending[p] # "OPEN" /\ ending[p - 1] # "OPEN"
       /\ pump[p] = "FAILED" => ending[p - 1] # "OPEN"
  /\ caller = "ENDED" => taken[2] = Size /\ AllSent

StreamInv == StreamTypeOK /\ CountsSound /\ BodySound /\ ClosingsSound

LEMMA PipeStreams ==
  ASSUME NEW p \in Pipes
  PROVE  p \in Streams /\ p - 1 \in Streams /\ p # p - 1 /\ p \in Nat
BY DEF Pipes, Streams

LEMMA ChunkOffered == NoChunk \in Nat /\ Chunk \subseteq 0..NoChunk /\ NoChunk \notin Chunk
BY StreamAssumption DEF Chunk, NoChunk

LEMMA StreamInvInit == StreamInit => StreamInv
<1> SUFFICES ASSUME StreamInit PROVE StreamInv
  OBVIOUS
<1>1. StreamTypeOK
  BY ChunkOffered DEF StreamInit, StreamTypeOK, Ending, Pump
<1>2. CountsSound /\ BodySound /\ ClosingsSound
  BY StreamAssumption, PipeStreams
  DEF StreamInit, CountsSound, BodySound, ClosingsSound, Streams
<1>3. QED
  BY <1>1, <1>2 DEF StreamInv

\* What breaking two streams leaves of them.
LEMMA BrokenEndings ==
  ASSUME StreamTypeOK, NEW S \in SUBSET Streams
  PROVE  /\ Broken(S) \in [Streams -> Ending]
         /\ \A s \in Streams : Broken(S)[s] = IF s \in S THEN "ERROR" ELSE ending[s]
BY DEF StreamTypeOK, Broken, Ending

LEMMA OffersKeeps == ASSUME StreamInv, NEW n \in Chunk, Offers(n) PROVE StreamInv'
<1>1. n \in Nat /\ n # NoChunk /\ n \in 0..NoChunk
  BY ChunkOffered DEF Chunk
<1>2. StreamTypeOK'
  BY <1>1, StreamAssumption DEF Offers, StreamInv, StreamTypeOK, Streams
<1>3. CountsSound'
  BY PipeStreams DEF Offers, StreamInv, StreamTypeOK, CountsSound, Pipes, Streams
<1>4. BodySound'
  BY <1>1 DEF Offers, StreamInv, StreamTypeOK, BodySound, Streams
<1>5. ClosingsSound'
  BY DEF Offers, StreamInv, ClosingsSound, AllSent
<1>6. QED
  BY <1>2, <1>3, <1>4, <1>5 DEF StreamInv

LEMMA ProviderEndsKeeps == ASSUME StreamInv, ProviderEnds PROVE StreamInv'
<1>1. StreamTypeOK'
  BY DEF ProviderEnds, StreamInv, StreamTypeOK, Streams, Ending
<1>2. CountsSound' /\ BodySound'
  BY PipeStreams
  DEF ProviderEnds, StreamInv, StreamTypeOK, CountsSound, BodySound, Pipes, Streams
<1>3. ClosingsSound'
  BY PipeStreams
  DEF ProviderEnds, StreamInv, StreamTypeOK, ClosingsSound, AllSent, Pipes, Streams
<1>4. QED
  BY <1>1, <1>2, <1>3 DEF StreamInv

\* The chunk that a pipe is handed was on offer by a pipe that still writes.
LEMMA HandedOver ==
  ASSUME StreamInv, Offered(1)
  PROVE  pump[1] = "WRITE" /\ taken[1] + offer[1] = total[1] /\ total[1] <= Size
BY ChunkOffered
DEF Offered, StreamInv, StreamTypeOK, CountsSound, Pipes, Streams, Pump

LEMMA PumpReadsKeeps == ASSUME StreamInv, NEW p \in Pipes, PumpReads(p) PROVE StreamInv'
<1> DEFINE n == offer[p - 1]
<1>0. /\ p \in Streams /\ p - 1 \in Streams /\ n \in 0..NoChunk /\ n # NoChunk /\ n \in Nat
      /\ NoChunk \in Nat
      /\ pump[p] = "READ" /\ ending[p - 1] # "ERROR"
      /\ taken' = [taken EXCEPT ![p - 1] = @ + n]
      /\ total' = [total EXCEPT ![p] = @ + n]
      /\ chunks' = [chunks EXCEPT ![p] = @ + 1]
      /\ caller' = caller /\ sent' = sent
  BY PipeStreams, ChunkOffered DEF PumpReads, Offered, StreamInv, StreamTypeOK
<1>1. CASE Passes(p, n)
  <2>1. /\ offer' = [offer EXCEPT ![p - 1] = NoChunk, ![p] = n]
        /\ pump' = [pump EXCEPT ![p] = "WRITE"] /\ ending' = ending
    BY <1>1 DEF PumpReads, Awaits
  <2>2. StreamTypeOK'
    BY <1>0, <2>1 DEF StreamInv, StreamTypeOK, Pump
  <2>3. CountsSound' /\ BodySound'
    <3>1. CASE p = 1
      <4>1. /\ taken'[0] = taken[0] + n /\ total'[1] = total[1] + n
            /\ offer'[0] = NoChunk /\ taken[1] = total[1]
            /\ taken[0] = total[1] /\ taken[1] <= Size
            /\ \A s \in Streams \ {0} : taken'[s] = taken[s]
            /\ \A s \in Streams \ {0, 1} : offer'[s] = offer[s] /\ ending'[s] = ending[s]
            /\ \A q \in Pipes \ {1} : pump'[q] = pump[q] /\ total'[q] = total[q]
        BY <1>0, <2>1, <3>1 DEF StreamInv, StreamTypeOK, CountsSound, Pipes, Streams
      <4>2. offer'[1] = n /\ pump'[1] = "WRITE" /\ total[1] + n <= Size
        BY <1>0, <1>1, <2>1, <3>1 DEF PumpReads, Passes, StreamInv, StreamTypeOK, Streams
      <4>3. CountsSound'
        BY <1>0, <2>1, <3>1, <4>1, <4>2
        DEF StreamInv, StreamTypeOK, CountsSound, Pipes, Streams
      <4>4. BodySound'
        BY <1>0, <2>1, <3>1, <4>1 DEF StreamInv, StreamTypeOK, BodySound, Streams
      <4>5. QED
        BY <4>3, <4>4
    <3>2. CASE p = 2
      <4>1. /\ taken'[1] = taken[1] + n /\ total'[2] = total[2] + n
            /\ offer'[1] = NoChunk /\ taken[2] = total[2]
            /\ taken[1] = total[2] /\ taken[2] <= Size
            /\ \A s \in Streams \ {1} : taken'[s] = taken[s]
            /\ \A s \in Streams \ {1, 2} : offer'[s] = offer[s] /\ ending'[s] = ending[s]
            /\ \A q \in Pipes \ {2} : pump'[q] = pump[q] /\ total'[q] = total[q]
        BY <1>0, <2>1, <3>2 DEF StreamInv, StreamTypeOK, CountsSound, Pipes, Streams
      <4>2. offer'[2] = n /\ pump'[2] = "WRITE" /\ total[2] + n <= Size /\ pump[1] = "WRITE" /\ taken[1] + n = total[1] /\ total[1] <= Size
        BY <1>0, <1>1, <2>1, <3>2, HandedOver DEF PumpReads, Passes, StreamInv, StreamTypeOK, Streams
      <4>3. CountsSound'
        BY <1>0, <2>1, <3>2, <4>1, <4>2
        DEF StreamInv, StreamTypeOK, CountsSound, Pipes, Streams
      <4>4. BodySound'
        BY <1>0, <2>1, <3>2, <4>1 DEF StreamInv, StreamTypeOK, BodySound, Streams
      <4>5. QED
        BY <4>3, <4>4
    <3>3. QED
      BY <3>1, <3>2 DEF Pipes
  <2>4. ClosingsSound'
    BY <1>0, <2>1
    DEF StreamInv, StreamTypeOK, CountsSound, BodySound, ClosingsSound, AllSent, Pipes, Streams
  <2>5. QED
    BY <2>2, <2>3, <2>4 DEF StreamInv
<1>2. CASE ~Passes(p, n)
  <2>1. /\ offer' = [offer EXCEPT ![p - 1] = NoChunk]
        /\ pump' = [pump EXCEPT ![p] = "FAILED"]
        /\ ending' \in [Streams -> Ending]
        /\ \A s \in Streams : ending'[s] = IF s \in {p - 1, p} THEN "ERROR" ELSE ending[s]
    BY <1>0, <1>2, BrokenEndings DEF PumpReads, Awaits, BrokenBy, StreamInv
  <2>2. StreamTypeOK'
    BY <1>0, <2>1 DEF StreamInv, StreamTypeOK, Pump
  <2>3. CountsSound' /\ BodySound'
    <3>1. CASE p = 1
      <4>1. /\ taken'[0] = taken[0] + n /\ total'[1] = total[1] + n
            /\ offer'[0] = NoChunk /\ taken[1] = total[1]
            /\ taken[0] = total[1] /\ taken[1] <= Size
            /\ \A s \in Streams \ {0} : taken'[s] = taken[s]
            /\ \A s \in Streams \ {0, 1} : offer'[s] = offer[s] /\ ending'[s] = ending[s]
            /\ \A q \in Pipes \ {1} : pump'[q] = pump[q] /\ total'[q] = total[q]
        BY <1>0, <2>1, <3>1 DEF StreamInv, StreamTypeOK, CountsSound, Pipes, Streams
      <4>2. pump'[1] = "FAILED" /\ ending'[1] = "ERROR"
        BY <1>0, <2>1, <3>1 DEF PumpReads, StreamInv, StreamTypeOK, Streams
      <4>3. CountsSound'
        BY <1>0, <2>1, <3>1, <4>1, <4>2
        DEF StreamInv, StreamTypeOK, CountsSound, Pipes, Streams
      <4>4. BodySound'
        BY <1>0, <2>1, <3>1, <4>1 DEF StreamInv, StreamTypeOK, BodySound, Streams
      <4>5. QED
        BY <4>3, <4>4
    <3>2. CASE p = 2
      <4>1. /\ taken'[1] = taken[1] + n /\ total'[2] = total[2] + n
            /\ offer'[1] = NoChunk /\ taken[2] = total[2]
            /\ taken[1] = total[2] /\ taken[2] <= Size
            /\ \A s \in Streams \ {1} : taken'[s] = taken[s]
            /\ \A s \in Streams \ {1, 2} : offer'[s] = offer[s] /\ ending'[s] = ending[s]
            /\ \A q \in Pipes \ {2} : pump'[q] = pump[q] /\ total'[q] = total[q]
        BY <1>0, <2>1, <3>2 DEF StreamInv, StreamTypeOK, CountsSound, Pipes, Streams
      <4>2. pump'[2] = "FAILED" /\ ending'[2] = "ERROR" /\ pump[1] = "WRITE" /\ taken[1] + n = total[1] /\ total[1] <= Size
        BY <1>0, <2>1, <3>2, HandedOver DEF PumpReads, StreamInv, StreamTypeOK, Streams
      <4>3. CountsSound'
        BY <1>0, <2>1, <3>2, <4>1, <4>2
        DEF StreamInv, StreamTypeOK, CountsSound, Pipes, Streams
      <4>4. BodySound'
        BY <1>0, <2>1, <3>2, <4>1 DEF StreamInv, StreamTypeOK, BodySound, Streams
      <4>5. QED
        BY <4>3, <4>4
    <3>3. QED
      BY <3>1, <3>2 DEF Pipes
  <2>4. ClosingsSound'
    BY <1>0, <2>1
    DEF StreamInv, StreamTypeOK, CountsSound, BodySound, ClosingsSound, AllSent, Pipes, Streams
  <2>5. QED
    BY <2>2, <2>3, <2>4 DEF StreamInv
<1>3. QED
  BY <1>1, <1>2

LEMMA PumpWritesKeeps == ASSUME StreamInv, NEW p \in Pipes, PumpWrites(p) PROVE StreamInv'
<1>1. StreamTypeOK'
  BY DEF PumpWrites, Awaits, StreamInv, StreamTypeOK, Pump
<1>2. CountsSound' /\ BodySound'
  BY PipeStreams
  DEF PumpWrites, Awaits, StreamInv, StreamTypeOK, CountsSound, BodySound
<1>3. ClosingsSound'
  BY PipeStreams DEF PumpWrites, Awaits, StreamInv, StreamTypeOK, ClosingsSound, AllSent
<1>4. QED
  BY <1>1, <1>2, <1>3 DEF StreamInv

\* A pipe stops before its end: both of its streams are broken.
LEMMA FailingKeeps ==
  ASSUME StreamInv, NEW p \in Pipes, pump[p] \in {"READ", "WRITE", "CLOSE"},
         Awaits(p, "FAILED"), ending' = Broken(BrokenBy(p)),
         UNCHANGED <<offer, taken, total, chunks, caller, sent>>
  PROVE  StreamInv'
<1>1. /\ ending' \in [Streams -> Ending] /\ p \in Streams /\ p - 1 \in Streams
      /\ \A s \in Streams : ending'[s] = IF s \in {p - 1, p} THEN "ERROR" ELSE ending[s]
  BY BrokenEndings, PipeStreams DEF BrokenBy, StreamInv
<1>2. StreamTypeOK'
  BY <1>1 DEF Awaits, StreamInv, StreamTypeOK, Pump
<1>3. CountsSound' /\ BodySound'
  BY <1>1 DEF Awaits, StreamInv, StreamTypeOK, CountsSound, BodySound, Pipes, Streams
<1>4. ClosingsSound'
  BY <1>1 DEF Awaits, StreamInv, StreamTypeOK, ClosingsSound, AllSent, Pipes, Streams
<1>5. QED
  BY <1>2, <1>3, <1>4 DEF StreamInv

LEMMA PumpClosesKeeps == ASSUME StreamInv, NEW p \in Pipes, PumpCloses(p) PROVE StreamInv'
<1>0. p \in Streams /\ p - 1 \in Streams /\ pump[p] = "READ"
  BY PipeStreams DEF PumpCloses
<1>1. CASE Whole(p) /\ ending[p] # "ERROR"
  <2>1. /\ pump' = [pump EXCEPT ![p] = "CLOSE"] /\ ending' = [ending EXCEPT ![p] = "CLOSED"]
        /\ offer[p - 1] = NoChunk /\ ending[p - 1] = "CLOSED" /\ total[p] = Size
        /\ UNCHANGED <<offer, taken, total, chunks, caller, sent>>
    BY <1>1 DEF PumpCloses, Awaits, Whole, AtEnd
  <2>2. StreamTypeOK'
    BY <1>0, <2>1 DEF StreamInv, StreamTypeOK, Pump, Ending
  <2>3. CountsSound' /\ BodySound'
    BY <1>0, <2>1 DEF StreamInv, StreamTypeOK, CountsSound, BodySound
  <2>4. AllSent
    BY <1>0, <2>1
    DEF StreamInv, StreamTypeOK, CountsSound, BodySound, ClosingsSound, AllSent, Pipes, Streams
  <2>5. ClosingsSound'
    BY <1>0, <2>1, <2>4
    DEF StreamInv, StreamTypeOK, ClosingsSound, AllSent, Pipes, Streams
  <2>6. QED
    BY <2>2, <2>3, <2>5 DEF StreamInv
<1>2. CASE ~(Whole(p) /\ ending[p] # "ERROR")
  BY <1>0, <1>2, FailingKeeps DEF PumpCloses
<1>3. QED
  BY <1>1, <1>2

LEMMA PumpEndsKeeps == ASSUME StreamInv, NEW p \in Pipes, PumpEnds(p) PROVE StreamInv'
<1>1. StreamTypeOK'
  BY DEF PumpEnds, Awaits, StreamInv, StreamTypeOK, Pump
<1>2. CountsSound' /\ BodySound'
  BY PipeStreams DEF PumpEnds, Awaits, StreamInv, StreamTypeOK, CountsSound, BodySound
<1>3. ClosingsSound'
  BY PipeStreams DEF PumpEnds, Awaits, StreamInv, StreamTypeOK, ClosingsSound, AllSent
<1>4. QED
  BY <1>1, <1>2, <1>3 DEF StreamInv

LEMMA PumpFailsKeeps == ASSUME StreamInv, NEW p \in Pipes, PumpFails(p) PROVE StreamInv'
BY FailingKeeps DEF PumpFails, Deadline

LEMMA CallerTakesKeeps == ASSUME StreamInv, CallerTakes PROVE StreamInv'
<1>1. offer[2] \in Nat /\ offer[2] # NoChunk /\ NoChunk \in Nat /\ pump[2] # "READ"
      /\ ending[2] # "ERROR" /\ 2 \in Pipes
  BY ChunkOffered
  DEF CallerTakes, Offered, StreamInv, StreamTypeOK, CountsSound, Streams, Pipes
<1>2. pump[2] = "WRITE" /\ taken[2] + offer[2] = total[2] /\ total[2] <= Size
  BY <1>1 DEF StreamInv, StreamTypeOK, CountsSound, Pump
<1>3. StreamTypeOK'
  BY <1>1, ChunkOffered DEF CallerTakes, StreamInv, StreamTypeOK, Streams
<1>4. CountsSound' /\ BodySound'
  BY <1>1, <1>2, StreamAssumption
  DEF CallerTakes, StreamInv, StreamTypeOK, CountsSound, BodySound, Pipes, Streams
<1>5. ClosingsSound'
  BY <1>1, <1>2
  DEF CallerTakes, StreamInv, StreamTypeOK, ClosingsSound, AllSent, Pipes, Streams
<1>6. QED
  BY <1>3, <1>4, <1>5 DEF StreamInv

LEMMA CallerEndsKeeps == ASSUME StreamInv, CallerEnds PROVE StreamInv'
<1>1. StreamTypeOK' /\ CountsSound' /\ BodySound'
  BY DEF CallerEnds, StreamInv, StreamTypeOK, CountsSound, BodySound
<1>2. ClosingsSound'
  BY DEF CallerEnds, AtEnd, StreamInv, StreamTypeOK, CountsSound, ClosingsSound, AllSent, Pipes
<1>3. QED
  BY <1>1, <1>2 DEF StreamInv

LEMMA CallerLeavesKeeps == ASSUME StreamInv, CallerLeaves PROVE StreamInv'
<1>1. /\ ending' \in [Streams -> Ending]
      /\ \A s \in Streams : ending'[s] = IF s = 2 THEN "ERROR" ELSE ending[s]
      /\ caller' = "LEFT" /\ UNCHANGED <<offer, taken, pump, total, chunks, sent>>
  BY BrokenEndings DEF CallerLeaves, StreamInv, Streams
<1>2. StreamTypeOK'
  BY <1>1 DEF StreamInv, StreamTypeOK
<1>3. CountsSound' /\ BodySound'
  BY <1>1, PipeStreams DEF StreamInv, StreamTypeOK, CountsSound, BodySound
<1>4. ClosingsSound'
  BY <1>1, PipeStreams DEF StreamInv, StreamTypeOK, ClosingsSound, AllSent, Streams
<1>5. QED
  BY <1>2, <1>3, <1>4 DEF StreamInv

LEMMA StreamStepKeeps == ASSUME StreamInv, [StreamNext]_streamVars PROVE StreamInv'
<1>1. CASE StreamNext
  BY <1>1, OffersKeeps, ProviderEndsKeeps, PumpReadsKeeps, PumpWritesKeeps, PumpClosesKeeps,
     PumpEndsKeeps, PumpFailsKeeps, CallerTakesKeeps, CallerEndsKeeps, CallerLeavesKeeps
  DEF StreamNext, PumpStep
<1>2. CASE UNCHANGED streamVars
  BY <1>2
  DEF streamVars, StreamInv, StreamTypeOK, CountsSound, BodySound, ClosingsSound, AllSent
<1>3. QED
  BY <1>1, <1>2

\* The invariant of the two pipes: their counts agree with what went through
\* and a stream is closed only by a pipe that was given everything.
THEOREM StreamInvariant == StreamSpec => []StreamInv
<1>1. StreamInit => StreamInv
  BY StreamInvInit
<1>2. StreamInv /\ [StreamNext]_streamVars => StreamInv'
  BY StreamStepKeeps
<1>3. QED
  BY <1>1, <1>2, PTL DEF StreamSpec

\* A caller who sees the end has the whole archive, and nobody gets more
\* (bounded.ts:129).
THEOREM StreamsWhole == StreamSpec => []EndMeansWhole
<1>1. StreamInv => EndMeansWhole
  BY DEF StreamInv, CountsSound, ClosingsSound, AllSent, EndMeansWhole, Pipes
<1>2. QED
  BY <1>1, StreamInvariant, PTL

\* A pipe that stopped leaves no stream open (bounded.ts:188).
THEOREM StreamsClosed == StreamSpec => []NothingLeftOpen
<1>1. StreamInv => NothingLeftOpen
  BY DEF StreamInv, CountsSound, ClosingsSound, NothingLeftOpen, Stopped
<1>2. QED
  BY <1>1, StreamInvariant, PTL
===============================================================================
