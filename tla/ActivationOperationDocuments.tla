--------------------- MODULE ActivationOperationDocuments ---------------------
(***************************************************************************)
(* The documents of an activation operation: the plan of a sequence and    *)
(* the request to the observer, the delegation that authorizes it, the     *)
(* evidence batch and its result, what is confirmed of a result, and the   *)
(* activation records; and how a pair of records is verified when it is to *)
(* become the global head.                                                 *)
(* activation-operation-*.ts, cloudflare-evidence-batch-*.ts,              *)
(* activation-record-builders.ts, activation-snapshot-*.ts.                *)
(*                                                                         *)
(* A digest, an id and a key are the document, the fields and the path     *)
(* they are of.  A sequence is 0 (provision) or 1 (finalize).  The other   *)
(* provider evidence of a provision is the instant "readAt" of its last    *)
(* read.  Approvals and the target of a finalize are left out.             *)
(***************************************************************************)
EXTENDS ServiceAuthorityObservation

Sequences == {0, 1}

Phase(n) == IF n = 0 THEN "A0_PRE" ELSE "A1_PRECOMMIT"

-----------------------------------------------------------------------------
(* The plan. *)

\* authorityPlan of a broker's services
BatchPins(services) ==
  [cloudflare |-> PinOf(services[CloudflareObserver]), worm |-> PinOf(services[Executor]),
   b2 |-> PinOf(services[Observer])]

\* materializeA1PrecommitDeployments
Promoted(a1, deployment) == [a1 EXCEPT ![Ingress].id = deployment]

Plan(doc, deployments, services) ==
  [doc |-> doc, deployments |-> deployments, pins |-> BatchPins(services)]

\* provisionAuthorityPlan
ProvisionPlan(q) == Plan(q.doc, q.doc.a0, q.broker.services)

ProvisionPlans(q, trust) == RequestParses(q, trust)

\* finalizeAuthorityPlan, of the confirmed provisioned record
FinalizePlan(q, envelope) ==
  LET e == envelope.evidence IN
  Plan(e.doc, Promoted(e.doc.a1, q.promotion.deployment), e.broker.services)

\* and assertPromotionBinding
FinalizePlans(q, envelope, trust) ==
  LET e == envelope.evidence
      ingress == Promoted(e.doc.a1, q.promotion.deployment)[Ingress] IN
  /\ ExpectationParses(e.doc, e.digest, trust.account, e.broker.row.source)
  /\ MatchesBroker(e.doc, e.broker)
  /\ ingress.id = q.promotion.deployment
  /\ \A m \in ingress.members : m.version = q.promotion.worker
  /\ q.promotion.worker = trust.worker

\* authorityObserverRequest
ObserverRequest(plan, issuance, n, at) ==
  [deployments |-> plan.deployments, expectation |-> plan.doc, host |-> plan.doc.host,
   phase |-> Phase(n), id |-> issuance.id, requestedAt |-> at, inventory |-> plan.doc.rows]

-----------------------------------------------------------------------------
(* The delegation. *)

\* cloudflareEvidenceBatchBindingV2 and, of the direct path, cloudflareEvidenceBatchBinding
BatchId(issuance, n) == <<issuance.id, issuance.ordinal, n>>
LegacyBatchId(doc, observer, phase) == <<doc, observer, phase>>

\* buildActivationOperationCloudflareRequest
Delegation(plan, issuance, n, request, at) ==
  [batch |-> BatchId(issuance, n), committedAt |-> at, issuance |-> issuance, sequence |-> n,
   request |-> request, pins |-> plan.pins]

\* assertInventoryPins
InventoryPins(rows, pins, worker) ==
  /\ pins = BatchPins(rows)
  /\ rows[Ingress].version = worker

\* parseActivationOperationCloudflareRequest, of the issuance it is expected for
DelegationParses(d, issuance, n, worker, account) ==
  LET request == d.request IN
  /\ d.issuance = issuance
  /\ d.sequence = n
  /\ d.batch = BatchId(issuance, n)
  /\ ObserverRequestParses(request, account)
  /\ request.phase = Phase(n)
  /\ request.id = issuance.id
  /\ issuance.issuedAt <= request.requestedAt
  /\ Within(request.requestedAt, d.committedAt)
  /\ d.committedAt <= issuance.freshUntil
  /\ InventoryPins(request.inventory, d.pins, worker)

\* parseEmbeddedActivationOperationCloudflareRequest: the private side expects what it says
EmbeddedParses(d, account) ==
  DelegationParses(d, d.issuance, d.sequence, d.request.inventory[Ingress].version, account)

\* assertOperationDelegationChronology, of every read of a provision as well
DelegationInTime(issuance, readAt, committedAt, at) ==
  /\ issuance.issuedAt <= readAt /\ readAt <= committedAt
  /\ Within(committedAt, at)
  /\ committedAt <= issuance.freshUntil
  /\ at <= issuance.freshUntil

-----------------------------------------------------------------------------
(* The batch. *)

\* prepareBatchEvidence and prepareCloudflareEvidenceBatchV2
SealParses(d, observation, entries, at, account) ==
  /\ EmbeddedParses(d, account)
  /\ EvidenceSetStands(observation, entries)
  /\ observation.expectation = d.request.expectation
  /\ observation.observer = d.pins.cloudflare.identity
  /\ observation.phase = d.request.phase
  /\ d.committedAt <= observation.at
  /\ observation.at <= at
  /\ at <= d.issuance.freshUntil
  /\ Within(d.issuance.issuedAt, at)

\* The objects of a batch, each the only version of its key.
StoredEvidence(entries, keys, batch, at) ==
  [s \in Slots |-> Stored(Sanitized(s, entries[s]), keys[s], <<batch, s>>, at + Term)]

\* buildCloudflareEvidenceBatchResultV2
BatchResult(d, observation, stored, at) ==
  [batch |-> d.batch, delegation |-> d, delegatedAt |-> d.committedAt, sealedAt |-> at,
   observation |-> observation, pins |-> d.pins, stored |-> stored]

\* parseCloudflareEvidenceBatchResultV2: the stored delegation is all that is expected of it
ResultParses(result, d) ==
  LET observation == result.observation IN
  /\ result.batch = d.batch
  /\ result.delegation = d
  /\ result.pins = d.pins
  /\ result.delegatedAt = d.committedAt
  /\ d.issuance.issuedAt <= d.committedAt
  /\ d.committedAt <= observation.at
  /\ observation.at <= result.sealedAt
  /\ result.sealedAt <= d.issuance.freshUntil
  /\ Within(d.issuance.issuedAt, result.sealedAt)
  /\ observation.expectation = d.request.expectation
  /\ observation.observer = d.pins.cloudflare.identity
  /\ observation.phase = d.request.phase
  /\ \A s \in Slots :
       /\ result.stored[s].digest = Sanitized(s, Entry(observation, s, {}))
       /\ result.stored[s].key = BatchKey(d.pins.cloudflare.version, d.batch, s)
       /\ result.stored[s].retained >= result.sealedAt + Term
  /\ \A s, t \in Slots : result.stored[s].version = result.stored[t].version => s = t

-----------------------------------------------------------------------------
(* The records. *)

\* The compact observation of a batch: buildServiceAuthorityObservationFromV2
CompactOfBatch(result) ==
  Compact(result.observation, result.stored,
          [executor |-> result.pins.worm.identity, b2Observer |-> result.pins.b2.identity],
          result.sealedAt)

\* assertAuthorityObservationCommitFreshness
CommitFresh(compact, at) ==
  compact.observedAt <= compact.acceptedAt /\ Within(compact.acceptedAt, at)

\* Mutant of ActivationChronology: the promotion may begin as the first record is committed.
ActivationChronologyAtOnce(provisionedAt, promotion, compact, at) ==
  /\ provisionedAt <= promotion.started
  /\ promotion.started <= promotion.completed
  /\ promotion.completed <= compact.observedAt
  /\ CommitFresh(compact, at)

\* assertActivationChronology
ActivationChronology(provisionedAt, promotion, compact, at) ==
  /\ provisionedAt < promotion.started
  /\ promotion.started <= promotion.completed
  /\ promotion.completed <= compact.observedAt
  /\ CommitFresh(compact, at)

\* buildProvisionedRecord, and the object that holds it
ProvisionedRecord(q, request, compact, at) ==
  [sequence |-> 0, previous |-> "GENESIS", request |-> request, committedAt |-> at,
   evidence |-> q, observation |-> compact]

\* buildActivatedRecord
ActivatedRecord(q, previous, request, compact, at) ==
  [sequence |-> 1, previous |-> previous, request |-> request, committedAt |-> at,
   promotion |-> q.promotion, provisioned |-> q.provisioned,
   digest |-> previous.evidence.digest, observation |-> compact]

\* assertProvisionedPointer
PointerStands(pointer, record, trust) ==
  /\ pointer.record = record
  /\ pointer.worker = trust.worker

-----------------------------------------------------------------------------
(* The verification of a snapshot. *)

\* verifyActivationSnapshot, but for the two observations
SnapshotStands(a0, a1, trust) ==
  LET q == a0.evidence ingress == a1.observation.services[Ingress] IN
  /\ RequestParses(q, trust)
  /\ a1.previous = a0
  /\ PointerStands(a1.provisioned, a0, trust)
  /\ a1.digest = q.digest
  /\ CommitFresh(a0.observation, a0.committedAt)
  /\ ActivationChronology(a0.committedAt, a1.promotion, a1.observation, a1.committedAt)
  /\ a1.promotion.worker = q.doc.rows[Ingress].version
  /\ a1.promotion.deployment = ingress.id

\* The deployments that the observation of one of its records is parsed against
DeploymentsOf(n, a0, record) ==
  LET doc == a0.evidence.doc IN
  IF n = 0 THEN doc.a0 ELSE Promoted(doc.a1, record.promotion.deployment)
=============================================================================
