------------------------ MODULE ReleaseReceiptChain ------------------------
(***************************************************************************)
(* The state a verifier rebuilds from one release's receipts, in order:    *)
(* verify_chain of tools/evidence/release_receipt_chain.py with its        *)
(* _chain_lease, _chain_gate, _chain_publication, _chain_recovery and      *)
(* _chain_closure parts, the intent ledger, and the payload contracts that *)
(* bound what a receipt may say.                                           *)
(*                                                                         *)
(* A step is one receipt the verifier accepts (a refused one ends the      *)
(* stream and is no step), or the passage of time between two receipts.    *)
(* A receipt says anything its payload contract and the state allow: the   *)
(* verifier has no other source of truth.  Identities that are only        *)
(* compared with the one the state holds (stream, tag, candidate, body,    *)
(* digests, producer) always match here.  now is the last committed_at,    *)
(* and a receipt's own times are the latest its rules allow.  An intent    *)
(* whose outcome is bound or that is invalidated is spent for good and is  *)
(* dropped.  recovery_id is known by whether it is set.                    *)
(***************************************************************************)
EXTENDS Integers, FiniteSets

CONSTANTS
  Files,      \* the candidate's distributions
  Assets,     \* assets of the public bundle
  Releases,   \* ids of GitHub releases
  Ttl,        \* LEASE_TTL_SECONDS
  Cadence,    \* LEASE_RENEW_INTERVAL_SECONDS
  GuardTtl,   \* life of an authority guard
  MaxFence,   \* bound of the fencing token
  MaxNow    \* bound of the clock

ASSUME ChainAssumption ==
  /\ IsFiniteSet(Files) /\ Files # {}
  /\ IsFiniteSet(Assets)
  /\ 0 \notin Releases
  /\ Ttl \in Nat \ {0} /\ Cadence \in Nat /\ GuardTtl \in Nat
  /\ MaxFence \in Nat /\ MaxNow \in Nat

VARIABLES
  phase,      \* ChainState.phase
  now,        \* last_committed_at
  lease,      \* lease_id, fencing_token, lease_last_renewed_at, lease_expires_at
  rolled,     \* previous_attempt is set
  draft,      \* draft_release_id (0: none)
  assets,     \* draft_assets
  authorized, \* authorization_id is set
  gate,       \* fence of gate_binding (0: none)
  ambiguous,  \* gate_ambiguity_decision
  files,      \* pypi_files
  verified,   \* pypi_verified_count
  immutable,  \* immutable_release_verified
  recovery,   \* recovery_id, _pypi_exact, _github_release, _next_action
  intents     \* intent_ledger.by_id

draftVars == <<draft, assets, authorized, immutable>>
gateVars == <<gate, ambiguous>>
fileVars == <<files, verified>>
chainVars == <<phase, now, lease, rolled, draftVars, gateVars, fileVars, recovery, intents>>

Operations ==
  {"ATTESTATION_CREATE", "GITHUB_DRAFT_CREATE", "GITHUB_DRAFT_ASSET_UPLOAD", "GITHUB_DRAFT_UPDATE",
   "PYPI_DEPLOYMENT_APPROVE", "PYPI_DEPLOYMENT_REJECT", "PYPI_FILE_UPLOAD_SET",
   "GITHUB_RELEASE_PUBLISH"}

\* What an intent's subject distinguishes.
Subject == [release : Releases \cup {0}, asset : SUBSET Assets, files : SUBSET Files]

NoSubject == [release |-> 0, asset |-> {}, files |-> {}]

Intent == [op : Operations, fence : Nat, subject : Subject, consumed : BOOLEAN,
           expires : Nat]     \* authority_guard_expires_at, once consumed

FileState == {"NONE", "PENDING_UPLOAD", "SEALED_FOR_UPLOAD", "UPLOAD_ACCEPTED",
              "INTEGRITY_VERIFIED", "CONFLICT"}

ChainInit ==
  /\ phase = "START"
  /\ now = 0
  /\ lease = [held |-> FALSE, fence |-> 0, renewed |-> 0, expires |-> 0]
  /\ rolled = FALSE
  /\ draft = 0 /\ assets = {} /\ authorized = FALSE /\ immutable = FALSE
  /\ gate = 0 /\ ambiguous = "NONE"
  /\ files = [f \in Files |-> "NONE"] /\ verified = 0
  /\ recovery = [id |-> FALSE, exact |-> {}, github |-> "NONE", action |-> "NONE"]
  /\ intents = {}

\* Time passes between two receipts.
ChainTick ==
  /\ now < MaxNow
  /\ now' = now + 1
  /\ UNCHANGED <<phase, lease, rolled, draftVars, gateVars, fileVars, recovery, intents>>

-----------------------------------------------------------------------------
(* The successful lifecycle. *)

\* Receipts that carry no lease.
UnleasedRules ==
  {[from |-> "START",        to |-> "QUEUED"],              \* REQUEST_ENQUEUED
   [from |-> "QUEUED",       to |-> "GOVERNANCE_A"],        \* GOVERNANCE_SNAPSHOT A
   [from |-> "GOVERNANCE_A", to |-> "CANDIDATE_READY"]}     \* CANDIDATE_HANDOFF

\* Leased receipts that bind nothing but identities.
LeasedRules ==
  {[from |-> "LEASED",         to |-> "HYGIENE_VERIFIED"],       \* TENANT_HYGIENE_VERIFIED
   [from |-> "ATTESTED",       to |-> "PUBLIC_BUNDLE_VERIFIED"],
   [from |-> "DRAFT_VERIFIED", to |-> "GOVERNANCE_B"],
   [from |-> "GITHUB_IMMUTABLE", to |-> "GOVERNANCE_C"]}

\* Where an operation's intent may be recorded.
IntentFrom(op) ==
  CASE op = "ATTESTATION_CREATE"        -> {"HYGIENE_VERIFIED"}
    [] op = "GITHUB_DRAFT_CREATE"       -> {"PUBLIC_BUNDLE_VERIFIED"}
    [] op = "GITHUB_DRAFT_ASSET_UPLOAD" -> {"DRAFT_CREATED", "DRAFT_ASSETS"}
    [] op = "GITHUB_DRAFT_UPDATE"       -> {"DRAFT_ASSETS"}
    [] op = "PYPI_DEPLOYMENT_APPROVE"   -> {"PYPI_GATE_PENDING"}
    [] op = "PYPI_DEPLOYMENT_REJECT"    -> {"PYPI_GATE_PENDING"}
    [] op = "PYPI_FILE_UPLOAD_SET"      -> {"PYPI_SEALED", "PYPI_RECOVERY"}
    [] op = "GITHUB_RELEASE_PUBLISH"    -> {"PYPI_VERIFIED"}

\* Where it leads, and where it is consumed and answered.
ConsumptionPhase(op) ==
  CASE op = "ATTESTATION_CREATE"        -> "ATTESTATION_INTENT"
    [] op = "GITHUB_DRAFT_CREATE"       -> "DRAFT_CREATE_INTENT"
    [] op = "GITHUB_DRAFT_ASSET_UPLOAD" -> "DRAFT_ASSET_INTENT"
    [] op = "GITHUB_DRAFT_UPDATE"       -> "DRAFT_UPDATE_INTENT"
    [] op = "PYPI_DEPLOYMENT_APPROVE"   -> "PYPI_GATE_DECISION_INTENT"
    [] op = "PYPI_DEPLOYMENT_REJECT"    -> "PYPI_GATE_DECISION_INTENT"
    [] op = "PYPI_FILE_UPLOAD_SET"      -> "PYPI_UPLOAD_INTENT"
    [] op = "GITHUB_RELEASE_PUBLISH"    -> "GITHUB_PUBLISH_INTENT"

\* A leased receipt is committed under the active lease, before it expires.
UnderLease == lease.held /\ now < lease.expires

Go(from, to) == phase = from /\ phase' = to

Unleased ==
  /\ \E r \in UnleasedRules : Go(r.from, r.to)
  /\ UNCHANGED <<now, lease, rolled, draftVars, gateVars, fileVars, recovery, intents>>

Leased ==
  /\ UnderLease
  /\ \E r \in LeasedRules : Go(r.from, r.to)
  /\ UNCHANGED <<now, lease, rolled, draftVars, gateVars, fileVars, recovery, intents>>

AssetsComplete == assets = Assets

DraftVerified ==
  /\ UnderLease
  /\ Go("DRAFT_STAGED", "DRAFT_VERIFIED")
  /\ AssetsComplete
  /\ UNCHANGED <<now, lease, rolled, draftVars, gateVars, fileVars, recovery, intents>>

Authorize ==
  /\ UnderLease
  /\ Go("GOVERNANCE_B", "AUTHORIZED")
  /\ authorized' = TRUE
  /\ UNCHANGED <<now, lease, rolled, draft, assets, immutable, gateVars, fileVars, recovery, intents>>

ImmutableVerified ==
  /\ UnderLease
  /\ Go("GITHUB_PUBLISHING", "GITHUB_IMMUTABLE")
  /\ immutable' = TRUE
  /\ UNCHANGED <<now, lease, rolled, draft, assets, authorized, gateVars, fileVars, recovery, intents>>

\* Mutant of Closed: the files are not counted again.
ClosedUncounted ==
  /\ UnderLease
  /\ Go("GOVERNANCE_C", "TERMINAL")
  /\ immutable
  /\ lease' = [lease EXCEPT !.held = FALSE]
  /\ UNCHANGED <<now, rolled, draftVars, gateVars, fileVars, recovery, intents>>

Closed ==
  /\ UnderLease
  /\ Go("GOVERNANCE_C", "TERMINAL")
  /\ verified = Cardinality(Files)
  /\ immutable
  /\ lease' = [lease EXCEPT !.held = FALSE]
  /\ UNCHANGED <<now, rolled, draftVars, gateVars, fileVars, recovery, intents>>

-----------------------------------------------------------------------------
(* Mutation intents, their one-use consumption, and their outcomes. *)

Open(op) == \E i \in intents : i.op = op /\ ~i.consumed

\* Mutant of Unpublished: what recovery found published is uploaded again.
UnpublishedSealed == {f \in Files : files[f] = "SEALED_FOR_UPLOAD"}

\* The files an upload intent must name.
Unpublished == {f \in Files : files[f] = "SEALED_FOR_UPLOAD"} \ recovery.exact

SubjectFor(op, s) ==
  CASE op = "PYPI_FILE_UPLOAD_SET" ->
         gate # 0 /\ Unpublished # {} /\ s = [NoSubject EXCEPT !.files = Unpublished]
    [] op \in {"PYPI_DEPLOYMENT_APPROVE", "PYPI_DEPLOYMENT_REJECT"} -> gate # 0 /\ s = NoSubject
    [] op = "GITHUB_DRAFT_ASSET_UPLOAD" ->
         \E r \in Releases, a \in Assets : s = [NoSubject EXCEPT !.release = r, !.asset = {a}]
    [] op \in {"GITHUB_DRAFT_UPDATE", "GITHUB_RELEASE_PUBLISH"} ->
         \E r \in Releases : s = [NoSubject EXCEPT !.release = r]
    [] OTHER -> s = NoSubject

RecordIntent(op, s) ==
  /\ UnderLease
  /\ phase \in IntentFrom(op)
  /\ phase' = ConsumptionPhase(op)
  /\ SubjectFor(op, s)
  /\ ~Open(op)
  /\ intents' = intents \cup {[op |-> op, fence |-> lease.fence, subject |-> s, consumed |-> FALSE,
                               expires |-> 0]}
  /\ UNCHANGED <<now, lease, rolled, draftVars, gateVars, fileVars, recovery>>

Consumed(i) == [i EXCEPT !.consumed = TRUE, !.expires = now + GuardTtl]

MayConsume(i) == ~i.consumed /\ phase = ConsumptionPhase(i.op) /\ i.fence = lease.fence

Consume(i) ==
  /\ UnderLease
  /\ MayConsume(i)
  /\ intents' = (intents \ {i}) \cup {Consumed(i)}
  /\ UNCHANGED <<phase, now, lease, rolled, draftVars, gateVars, fileVars, recovery>>

\* A private mutator's outcome is committed within its guard; the runner's may be later.
WithinGuard(i) == i.op = "PYPI_FILE_UPLOAD_SET" \/ now <= i.expires

\* require_outcome
Answers(i, op) == i.op = op /\ i.consumed /\ WithinGuard(i)

Answer(i, op) ==
  /\ UnderLease
  /\ phase = ConsumptionPhase(op)
  /\ Answers(i, op)
  /\ intents' = intents \ {i}

Attested(i) ==
  /\ Answer(i, "ATTESTATION_CREATE")
  /\ phase' = "ATTESTED"
  /\ UNCHANGED <<now, lease, rolled, draftVars, gateVars, fileVars, recovery>>

DraftCreated(i, r) ==
  /\ Answer(i, "GITHUB_DRAFT_CREATE")
  /\ phase' = "DRAFT_CREATED"
  /\ draft' = r
  /\ UNCHANGED <<now, lease, rolled, assets, authorized, immutable, gateVars, fileVars, recovery>>

DraftAssetUploaded(i) ==
  /\ Answer(i, "GITHUB_DRAFT_ASSET_UPLOAD")
  /\ i.subject.release = draft
  /\ i.subject.asset \cap assets = {}
  /\ phase' = "DRAFT_ASSETS"
  /\ assets' = assets \cup i.subject.asset
  /\ UNCHANGED <<now, lease, rolled, draft, authorized, immutable, gateVars, fileVars, recovery>>

DraftStaged(i) ==
  /\ Answer(i, "GITHUB_DRAFT_UPDATE")
  /\ i.subject.release = draft
  /\ AssetsComplete
  /\ phase' = "DRAFT_STAGED"
  /\ UNCHANGED <<now, lease, rolled, draftVars, gateVars, fileVars, recovery>>

PublishAccepted(i) ==
  /\ Answer(i, "GITHUB_RELEASE_PUBLISH")
  /\ i.subject.release = draft
  /\ phase' = "GITHUB_PUBLISHING"
  /\ UNCHANGED <<now, lease, rolled, draftVars, gateVars, fileVars, recovery>>

-----------------------------------------------------------------------------
(* The deployment gate. *)

GateRequested ==
  /\ UnderLease
  /\ Go("AUTHORIZED", "PYPI_GATE_PENDING")
  /\ gate' = lease.fence
  /\ UNCHANGED <<now, lease, rolled, draftVars, ambiguous, fileVars, recovery, intents>>

\* The gate binding names the lease and fence of the request.
GateDecided(i) ==
  /\ gate = lease.fence
  /\ \/ Answer(i, "PYPI_DEPLOYMENT_APPROVE") /\ phase' = "PYPI_READY"
     \/ Answer(i, "PYPI_DEPLOYMENT_REJECT") /\ phase' = "RECOVERY_REQUIRED"
  /\ UNCHANGED <<now, lease, rolled, draftVars, gateVars, fileVars, recovery>>

GateAmbiguous(i) ==
  /\ gate = lease.fence
  /\ \E op \in {"PYPI_DEPLOYMENT_APPROVE", "PYPI_DEPLOYMENT_REJECT"} :
       Answer(i, op) /\ ambiguous' = op
  /\ phase' = "PYPI_GATE_RECONCILIATION"
  /\ UNCHANGED <<now, lease, rolled, draftVars, gate, fileVars, recovery>>

\* What the provider is found to have decided, or nothing.
GateReconciled ==
  /\ UnderLease
  /\ gate = lease.fence
  /\ phase = "PYPI_GATE_RECONCILIATION"
  /\ \/ phase' = "PYPI_GATE_PENDING"
     \/ ambiguous = "PYPI_DEPLOYMENT_APPROVE" /\ phase' = "PYPI_READY"
     \/ ambiguous = "PYPI_DEPLOYMENT_REJECT" /\ phase' = "RECOVERY_REQUIRED"
  /\ UNCHANGED <<now, lease, rolled, draftVars, gateVars, fileVars, recovery, intents>>

-----------------------------------------------------------------------------
(* The files on PyPI. *)

FilePhase == {"PYPI_READY", "PYPI_PREPARING", "PYPI_ACTIVE", "PYPI_PARTIAL", "PYPI_RECOVERY"}

AllVerified(n, otherwise) == IF n = Cardinality(Files) THEN "PYPI_VERIFIED" ELSE otherwise

FileReceipt(f, to) ==
  /\ UnderLease
  /\ phase \in FilePhase
  /\ authorized
  /\ files' = [files EXCEPT ![f] = to]
  /\ UNCHANGED <<now, lease, rolled, draftVars, gateVars, recovery, intents>>

FilePending(f) ==
  /\ files[f] = "NONE"
  /\ FileReceipt(f, "PENDING_UPLOAD")
  /\ phase' = "PYPI_PREPARING"
  /\ verified' = verified

FileSealed(f) ==
  /\ files[f] = "PENDING_UPLOAD"
  /\ FileReceipt(f, "SEALED_FOR_UPLOAD")
  /\ phase' = IF \A g \in Files \ {f} : files[g] = "SEALED_FOR_UPLOAD"
                THEN "PYPI_SEALED" ELSE "PYPI_PREPARING"
  /\ verified' = verified

FileVerified(f) ==
  /\ files[f] = "UPLOAD_ACCEPTED"
  /\ FileReceipt(f, "INTEGRITY_VERIFIED")
  /\ verified' = verified + 1
  /\ phase' = AllVerified(verified', "PYPI_PARTIAL")

AlreadyPublishedExact(f) ==
  /\ phase = "PYPI_RECOVERY"
  /\ f \in recovery.exact
  /\ files[f] \in {"SEALED_FOR_UPLOAD", "UPLOAD_ACCEPTED"}
  /\ FileReceipt(f, "INTEGRITY_VERIFIED")
  /\ verified' = verified + 1
  /\ phase' = AllVerified(verified', "PYPI_RECOVERY")

FileConflict(f) ==
  /\ FileReceipt(f, "CONFLICT")
  /\ phase' = "RECOVERY_REQUIRED"
  /\ verified' = verified

\* What the index was found to hold of one consumed upload set.
UploadSetObserved(i, accepted) ==
  /\ Answer(i, "PYPI_FILE_UPLOAD_SET")
  /\ accepted \subseteq i.subject.files
  /\ \A f \in accepted : files[f] = "SEALED_FOR_UPLOAD"
  /\ files' = [f \in Files |-> IF f \in accepted THEN "UPLOAD_ACCEPTED" ELSE files[f]]
  /\ IF accepted = i.subject.files
       THEN phase' = "PYPI_ACTIVE" /\ recovery' = recovery
       ELSE phase' = "RECOVERY_REQUIRED" /\ recovery' = [recovery EXCEPT !.id = TRUE]
  /\ UNCHANGED <<now, lease, rolled, draftVars, gateVars, verified>>

-----------------------------------------------------------------------------
(* The lease. *)

Acquire(fence) ==
  /\ ~lease.held
  /\ phase \in {"CANDIDATE_READY", "RECOVERY_REQUIRED", "RECOVERY_OBSERVED"}
  /\ lease.fence < fence
  /\ lease' = [held |-> TRUE, fence |-> fence, renewed |-> now, expires |-> now + Ttl]
  /\ \/ phase = "CANDIDATE_READY" /\ phase' = "LEASED" /\ rolled' = rolled
     \/ /\ phase # "CANDIDATE_READY"
        /\ recovery.id
        /\ rolled \/ phase = "RECOVERY_REQUIRED"   \* the attempt is rolled over, or was before
        /\ phase' = "RECOVERY_LEASED" /\ rolled' = TRUE
  /\ UNCHANGED <<now, draftVars, gateVars, fileVars, recovery, intents>>

Renew ==
  /\ UnderLease
  /\ lease.renewed < now
  /\ now - lease.renewed <= Cadence
  /\ lease' = [lease EXCEPT !.renewed = now, !.expires = now + Ttl]
  /\ UNCHANGED <<phase, now, rolled, draftVars, gateVars, fileVars, recovery, intents>>

\* invalidate_unconsumed of the active fence
StillAuthority == {i \in intents : i.consumed \/ i.fence # lease.fence}

Expire ==
  /\ lease.held
  /\ lease.expires <= now
  /\ phase' = CASE phase = "CANCELLED" -> "ABORTED"
                [] phase = "INCIDENT_HOLD" -> "INCIDENT_HOLD"
                [] OTHER -> "RECOVERY_REQUIRED"
  /\ recovery' = IF phase = "CANCELLED" THEN recovery ELSE [recovery EXCEPT !.id = TRUE]
  /\ intents' = StillAuthority
  /\ lease' = [lease EXCEPT !.held = FALSE]
  /\ UNCHANGED <<now, rolled, draftVars, gateVars, fileVars>>

Release ==
  /\ UnderLease
  /\ phase \in {"CANCELLED", "RECOVERY_REQUIRED", "INCIDENT_HOLD"}
  /\ phase' = IF phase = "CANCELLED" THEN "ABORTED" ELSE phase
  /\ lease' = [lease EXCEPT !.held = FALSE]
  /\ UNCHANGED <<now, rolled, draftVars, gateVars, fileVars, recovery, intents>>

-----------------------------------------------------------------------------
(* Cancellation, recovery and incident holds. *)

CANCELLABLE_PHASES ==
  {"LEASED", "HYGIENE_VERIFIED", "ATTESTATION_INTENT", "ATTESTED", "PUBLIC_BUNDLE_VERIFIED",
   "DRAFT_CREATE_INTENT", "DRAFT_CREATED", "DRAFT_ASSET_INTENT", "DRAFT_ASSETS",
   "DRAFT_UPDATE_INTENT", "DRAFT_STAGED", "DRAFT_VERIFIED", "GOVERNANCE_B", "AUTHORIZED",
   "PYPI_GATE_PENDING", "PYPI_GATE_DECISION_INTENT", "PYPI_GATE_RECONCILIATION", "PYPI_READY",
   "PYPI_PREPARING", "PYPI_ACTIVE", "PYPI_SEALED", "PYPI_UPLOAD_INTENT", "PYPI_VERIFIED",
   "GITHUB_PUBLISH_INTENT", "GITHUB_PUBLISHING", "GITHUB_IMMUTABLE", "GOVERNANCE_C"}

\* A capability was handed out and its outcome is not known.
AmbiguousConsumption == \E i \in intents : i.consumed

\* Mutant of KnownExternal: only answered effects count.
KnownExternalAnswered ==
  \/ draft # 0
  \/ \E f \in Files : files[f] \in {"UPLOAD_ACCEPTED", "INTEGRITY_VERIFIED"}
  \/ immutable

\* require_external_observation_truth
KnownExternal ==
  \/ draft # 0
  \/ \E f \in Files : files[f] \in {"UPLOAD_ACCEPTED", "INTEGRITY_VERIFIED"}
  \/ immutable
  \/ AmbiguousConsumption

Cancel ==
  /\ UnderLease
  /\ phase \in CANCELLABLE_PHASES
  /\ \/ /\ ~KnownExternal
        /\ phase' = "CANCELLED"
        /\ UNCHANGED <<recovery, intents>>
     \/ /\ phase' = "RECOVERY_REQUIRED"       \* external_commit_observed
        /\ recovery' = [recovery EXCEPT !.id = TRUE]
        /\ intents' = StillAuthority
  /\ UNCHANGED <<now, lease, rolled, draftVars, gateVars, fileVars>>

\* What the payload contract lets an observation conclude.
ActionAllowed(exact, github, action) ==
  CASE action = "CLOSE_EXACT" -> exact = Files /\ github = "PUBLISHED"
    [] action = "RESUME_ORIGINAL_CANDIDATE" -> github = "DRAFT" \/ (github = "NONE" /\ exact = {})
    [] action = "INCIDENT_HOLD" -> TRUE

\* Mutant of AuthorizationNamed: a receipt that names none is never asked for it.
AuthorizationNamedTruly(named) == named => authorized

\* A receipt of the recovery names the authorization there is, or none if there is none.
AuthorizationNamed(named) == named <=> authorized

Observe(exact, github, action) ==
  /\ UnderLease
  /\ Go("RECOVERY_LEASED", "RECOVERY_OBSERVED")
  /\ recovery.id
  /\ AuthorizationNamed(exact # {} \/ github # "NONE")
  /\ \A f \in exact : files[f] \in {"SEALED_FOR_UPLOAD", "UPLOAD_ACCEPTED", "INTEGRITY_VERIFIED"}
  /\ github = "NONE" \/ draft # 0
  /\ ActionAllowed(exact, github, action)
  /\ recovery' = [recovery EXCEPT !.exact = exact, !.github = github, !.action = action]
  /\ UNCHANGED <<now, lease, rolled, draftVars, gateVars, fileVars, intents>>

Resume ==
  /\ UnderLease
  /\ phase = "RECOVERY_OBSERVED"
  /\ recovery.action = "RESUME_ORIGINAL_CANDIDATE"
  /\ IF recovery.exact = {} /\ recovery.github = "NONE"
       THEN AuthorizationNamed(FALSE) /\ phase' = "LEASED"
       ELSE AuthorizationNamed(TRUE) /\ phase' = AllVerified(verified, "PYPI_RECOVERY")
  /\ UNCHANGED <<now, lease, rolled, draftVars, gateVars, fileVars, recovery, intents>>

CloseExact ==
  /\ UnderLease
  /\ Go("RECOVERY_OBSERVED", "GITHUB_IMMUTABLE")
  /\ recovery.action = "CLOSE_EXACT"
  /\ AuthorizationNamed(TRUE)
  /\ immutable' = TRUE
  /\ UNCHANGED <<now, lease, rolled, draft, assets, authorized, gateVars, fileVars, recovery, intents>>

IncidentHold ==
  /\ UnderLease
  /\ phase \in {"RECOVERY_REQUIRED", "RECOVERY_OBSERVED"}
  /\ recovery.id
  /\ phase' = "INCIDENT_HOLD"
  /\ UNCHANGED <<now, lease, rolled, draftVars, gateVars, fileVars, recovery, intents>>

\* A maintainer's receipt, without a lease.
HoldReleased ==
  /\ Go("INCIDENT_HOLD", "RECOVERY_REQUIRED")
  /\ UNCHANGED <<now, lease, rolled, draftVars, gateVars, fileVars, recovery, intents>>

-----------------------------------------------------------------------------
Outcome(i) ==
  \/ Attested(i)
  \/ \E r \in Releases : DraftCreated(i, r)
  \/ DraftAssetUploaded(i)
  \/ DraftStaged(i)
  \/ PublishAccepted(i)
  \/ GateDecided(i)
  \/ GateAmbiguous(i)
  \/ \E accepted \in SUBSET Files : UploadSetObserved(i, accepted)

FileStep(f) ==
  FilePending(f) \/ FileSealed(f) \/ FileVerified(f) \/ AlreadyPublishedExact(f) \/ FileConflict(f)

ChainNext ==
  \/ ChainTick \/ Unleased \/ Leased \/ DraftVerified \/ Authorize \/ ImmutableVerified \/ Closed
  \/ \E op \in Operations, s \in Subject : RecordIntent(op, s)
  \/ \E i \in intents : Consume(i) \/ Outcome(i)
  \/ GateRequested \/ GateReconciled
  \/ \E f \in Files : FileStep(f)
  \/ (\E fence \in 1..MaxFence : Acquire(fence)) \/ Renew \/ Expire \/ Release
  \/ Cancel
  \/ \E exact \in SUBSET Files, github \in {"NONE", "DRAFT", "PUBLISHED"},
        action \in {"CLOSE_EXACT", "INCIDENT_HOLD", "RESUME_ORIGINAL_CANDIDATE"} :
       Observe(exact, github, action)
  \/ Resume \/ CloseExact \/ IncidentHold \/ HoldReleased

ChainSpec == ChainInit /\ [][ChainNext]_chainVars
-----------------------------------------------------------------------------
(* Properties. *)

Phases ==
  {"START", "QUEUED", "GOVERNANCE_A", "CANDIDATE_READY", "RECOVERY_REQUIRED", "RECOVERY_LEASED",
   "RECOVERY_OBSERVED", "INCIDENT_HOLD", "PYPI_PARTIAL", "PYPI_RECOVERY", "CANCELLED", "ABORTED",
   "TERMINAL"} \cup CANCELLABLE_PHASES

ChainTypeOK ==
  /\ phase \in Phases
  /\ now \in Nat
  /\ lease \in [held : BOOLEAN, fence : Nat, renewed : Nat, expires : Nat]
  /\ rolled \in BOOLEAN
  /\ draft \in Releases \cup {0} /\ assets \subseteq Assets
  /\ authorized \in BOOLEAN /\ immutable \in BOOLEAN
  /\ gate \in Nat /\ ambiguous \in Operations \cup {"NONE"}
  /\ files \in [Files -> FileState] /\ verified \in Nat
  /\ recovery \in [id : BOOLEAN, exact : SUBSET Files, github : {"NONE", "DRAFT", "PUBLISHED"},
                   action : {"NONE", "CLOSE_EXACT", "INCIDENT_HOLD", "RESUME_ORIGINAL_CANDIDATE"}]
  /\ intents \subseteq Intent

\* A release that was cancelled or aborted left nothing outside: no draft, no accepted file, and no
\* capability handed out whose outcome is unknown, whatever order its failures came in.
NothingExternalAbandoned ==
  phase \in {"CANCELLED", "ABORTED"} =>
    /\ draft = 0
    /\ ~ immutable
    /\ \A f \in Files : files[f] \notin {"UPLOAD_ACCEPTED", "INTEGRITY_VERIFIED"}
    /\ ~ AmbiguousConsumption

\* A closed release was authorized on a draft that held every asset, and as many file verifications
\* were counted as there are files.
ClosedIsPublished ==
  phase = "TERMINAL" =>
    authorized /\ draft # 0 /\ assets = Assets /\ immutable /\ verified = Cardinality(Files)

\* What was authorized stays what is published: once a draft is authorized no recovery goes back to
\* building one, so its release, its assets and the authorization never change again.
AuthorizationIsFinal ==
  [][authorized => authorized' /\ draft' = draft /\ assets' = assets /\ phase' # "LEASED"]_chainVars

\* The capability to upload is handed out for exactly what is sealed and not known to be published,
\* also when it was asked for before other outcomes came in.
UploadsOnlyUnpublished ==
  [][\A i \in intents :
       Consume(i) /\ i.op = "PYPI_FILE_UPLOAD_SET" =>
         /\ i.subject.files # {}
         /\ \A f \in i.subject.files : files[f] = "SEALED_FOR_UPLOAD" /\ f \notin recovery.exact]_chainVars

\* docs/controller-v2-recovery.md: the requery of an upload may finish after its guard "only while
\* the same attempt, lease, and fence remained active".
RequeryWithinFence ==
  [][\A i \in intents, accepted \in SUBSET Files :
       UploadSetObserved(i, accepted) => i.fence = lease.fence]_chainVars

\* "PyPI inventory is not complete" (release_receipt_chain_closure.py): a closed release has every
\* file verified.
ClosedFilesVerified == phase = "TERMINAL" => \A f \in Files : files[f] = "INTEGRITY_VERIFIED"
=============================================================================
