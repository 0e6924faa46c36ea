--------------------- MODULE ActivationRecordMaterializer ---------------------
(***************************************************************************)
(* The two records of an activation, from an accepted request to the row:  *)
(* an operation plans, delegates, has the provider observed under its      *)
(* issuance and sealed as an evidence batch, confirms the batch's result   *)
(* and makes the record of it (activation-operation-*.ts); the direct path *)
(* of the registry asks the observer and accepts its answer at once        *)
(* (activation-registry.ts, cloudflare-deployment-observer-client.ts).     *)
(*                                                                         *)
(* A behaviour follows one path.  The provider is read a service at a time *)
(* and may be redeployed, opened or routed meanwhile; the ingress is       *)
(* promoted once; the observer may misreport one service.  What the        *)
(* journals of the operation and of the batch do under calls that fail is  *)
(* ActivationOperationRunner's and CloudflareEvidenceBatch's.              *)
(***************************************************************************)
EXTENDS ActivationOperationDocuments

CONSTANTS
  Paths,          \* the paths that behaviours follow, of "operation" and "direct"
  Trust,          \* the configuration of the broker version
  Requests,       \* provision requests
  Start,          \* the provider at first
  Promotions,     \* deployments that may promote the ingress
  Redeployments,  \* [Roles -> deployments that may replace a service's]
  Together,       \* a partition of the slots: bound on those that are read at an instant of their own
  Exposed,        \* the services that may be opened, or misreported
  MaxClock,       \* bound on the clock
  MaxFaults,      \* bound on redeployments, openings, routes and misreports
  None

\* What the provider serves: the deployments and the surface of each service, the
\* resources of each version, a domain and the routes.
ProviderShaped(p) ==
  /\ Has(p, {"deployments", "resources", "surface", "domain", "routes"})
  /\ Has(p.deployments, Roles) /\ Has(p.surface, Roles)

ASSUME MaterializerAssumption ==
  /\ Paths \subseteq {"operation", "direct"}
  /\ Exposed \subseteq Roles /\ UNION Together = Slots
  /\ MaxClock \in Nat /\ MaxFaults \in Nat
  /\ \A q \in Requests : Shaped(q)
  /\ ProviderShaped(Start)

ASSUME NoneAssumption ==
  /\ None \notin Nat
  /\ None \notin [deployment : {d.id : d \in Promotions}, started : Nat, completed : Nat,
                 worker : UNION {{m.version : m \in d.members} : d \in Promotions}]

VARIABLES now, faults, provider, promotion, served, path, ops, batches, records

world == <<provider, promotion, served>>
vars == <<now, faults, world, path, ops, batches, records>>

Account == Trust.account

Unread == [s \in Slots |-> None]

Init ==
  /\ now = 0 /\ faults = 0
  /\ provider = Start /\ promotion = None /\ served = {[provider |-> Start, at |-> 0]}
  /\ path \in Paths
  /\ ops = [n \in Sequences |-> None] /\ batches = {}
  /\ records = [n \in Sequences |-> None]

Fault == faults < MaxFaults /\ faults' = faults + 1

-----------------------------------------------------------------------------
(* The provider, the operators and time. *)

\* What the provider served, and when.
Serves(p) ==
  /\ provider' = p
  /\ served' = served \cup {[provider |-> p, at |-> now]}

Newest(r, d) == [provider EXCEPT !.deployments[r] = <<d>> \o @]

\* Bound: nothing happens after the second record.
Running == records[1] = None

Tick ==
  /\ Running
  /\ now < MaxClock /\ now' = now + 1
  /\ served' = served \cup {[provider |-> provider, at |-> now + 1]}
  /\ UNCHANGED <<faults, provider, promotion, path, ops, batches, records>>

Disturb ==
  /\ Running
  /\ Fault
  /\ \/ \E r \in Roles : \E d \in Redeployments[r] : Serves(Newest(r, d))
     \/ \E r \in Exposed : Serves([provider EXCEPT !.surface[r] = "open"])
     \/ Serves([provider EXCEPT !.routes = {"route"}])
  /\ UNCHANGED <<now, promotion, path, ops, batches, records>>

StartPromotion ==
  /\ promotion = None
  /\ promotion' = [started |-> now, completed |-> None]
  /\ UNCHANGED <<now, faults, provider, served, path, ops, batches, records>>

\* The promotion report names the deployment, its version and the two instants.
CompletePromotion(d) ==
  /\ promotion # None /\ promotion.completed = None
  /\ Serves(Newest(Ingress, d))
  /\ \E m \in d.members :
       promotion' = [deployment |-> d.id, worker |-> m.version,
                     started |-> promotion.started, completed |-> now]
  /\ UNCHANGED <<now, faults, path, ops, batches, records>>

-----------------------------------------------------------------------------
(* Admission. *)

\* A finalize quotes the record it was answered with and the promotion report.
FinalizeRequests ==
  {[promotion |-> promotion, provisioned |-> [record |-> records[0], worker |-> w]] :
     w \in {Trust.worker, "other"}}

\* validateAdmission
Admits(n, q) ==
  IF n = 0 THEN ProvisionPlans(q, Trust)
  ELSE /\ PointerStands(q.provisioned, records[0], Trust)
       /\ FinalizePlans(q, records[0], Trust)

PlanOf(n, q) == IF n = 0 THEN ProvisionPlan(q) ELSE FinalizePlan(q, records[0])

Issuance(n, ordinal) ==
  [id |-> n, ordinal |-> ordinal, issuedAt |-> now, freshUntil |-> now + Window]

Operation(n, q, ordinal) ==
  [at |-> "issued", request |-> q, issuance |-> Issuance(n, ordinal), readAt |-> now,
   asked |-> None, reading |-> Unread, observation |-> None, answer |-> None,
   acceptedAt |-> None]

Start0Or1(n) ==
  /\ ops[n] = None /\ records[n] = None
  /\ n = 1 => records[0] # None /\ promotion # None /\ promotion.completed # None

\* ActivationOperationRunner.run, or provision and finalize of the registry
Begin(n, q) ==
  /\ Start0Or1(n)
  /\ Admits(n, q)
  /\ ops' = [ops EXCEPT ![n] = Operation(n, q, 0)]
  /\ UNCHANGED <<now, faults, world, path, batches, records>>

Step(n, at) == ops[n] # None /\ ops[n].at = at
Becomes(n, op) == ops' = [ops EXCEPT ![n] = op]

\* reissueStale of an issuance that delegated nothing
Reissue(n) ==
  /\ Step(n, "issued") \/ Step(n, "planned")
  /\ now > ops[n].issuance.freshUntil
  /\ Becomes(n, Operation(n, ops[n].request, ops[n].issuance.ordinal + 1))
  /\ UNCHANGED <<now, faults, world, path, batches, records>>

-----------------------------------------------------------------------------
(* The operation: its delegation. *)

\* The other evidence of a provision is read and frozen before the delegation.
ReadEvidence ==
  /\ path = "operation" /\ Step(0, "issued") /\ ops[0].readAt < now
  /\ Becomes(0, [ops[0] EXCEPT !.readAt = now])
  /\ UNCHANGED <<now, faults, world, path, batches, records>>

\* executeCloudflare: the delegation is derived at one instant
Derive(n) ==
  LET op == ops[n] plan == PlanOf(n, op.request) IN
  /\ path = "operation" /\ Step(n, "issued")
  /\ Becomes(n, [op EXCEPT !.at = "planned",
                   !.asked = Delegation(plan, op.issuance, n,
                                        ObserverRequest(plan, op.issuance, n, now), now)])
  /\ UNCHANGED <<now, faults, world, path, batches, records>>

\* and sealed into the journal at another
Delegate(n) ==
  LET op == ops[n] IN
  /\ Step(n, "planned")
  /\ DelegationParses(op.asked, op.issuance, n, Trust.worker, Account)
  /\ DelegationInTime(op.issuance, op.readAt, op.asked.committedAt, now)
  /\ Becomes(n, [op EXCEPT !.at = "delegated"])
  /\ UNCHANGED <<now, faults, world, path, batches, records>>

-----------------------------------------------------------------------------
(* The observer. *)

Asked(n) == IF path = "operation" THEN ops[n].asked.request ELSE ops[n].asked

\* observeCloudflareDeploymentV2: only a missing batch, and only soon after the delegation
ObserveDelegated(n) ==
  LET d == ops[n].asked IN
  /\ path = "operation" /\ Step(n, "delegated")
  /\ \A b \in batches : b.batch # d.batch
  /\ EmbeddedParses(d, Account)
  /\ RequestFresh(d.request, now)
  /\ Within(d.committedAt, now) /\ now <= d.issuance.freshUntil
  /\ Becomes(n, [ops[n] EXCEPT !.at = "reading"])
  /\ UNCHANGED <<now, faults, world, path, batches, records>>

\* The direct path asks the observer at once.
ObserveDirectly(n) ==
  LET op == ops[n]
      request == ObserverRequest(PlanOf(n, op.request), op.issuance, n, now) IN
  /\ path = "direct" /\ Step(n, "issued")
  /\ ObserverRequestParses(request, Account)
  /\ Becomes(n, [op EXCEPT !.at = "reading", !.asked = request])
  /\ UNCHANGED <<now, faults, world, path, batches, records>>

\* A call of the observer that fails: the delegation is observed again, a direct call ends.
CallFails(n) ==
  Becomes(n, IF path = "direct" THEN None
             ELSE [ops[n] EXCEPT !.at = "delegated", !.reading = Unread, !.observation = None])

\* observeService and observeNetworkSurface, in any order
Read(n, S) ==
  LET responses == [s \in S |-> Responses(provider, Account, s)] op == ops[n] IN
  /\ Step(n, "reading") /\ \A s \in S : op.reading[s] = None
  /\ IF \A s \in S : Observes(Account, Asked(n), s, responses[s])
     THEN Becomes(n, [op EXCEPT !.reading =
                        [s \in Slots |-> IF s \in S THEN responses[s] ELSE @[s]]])
     ELSE CallFails(n)
  /\ UNCHANGED <<now, faults, world, path, batches, records>>

ObserverOf(n) == Asked(n).inventory[CloudflareObserver]

Honest(n) ==
  Observation(Account, Asked(n), ObserverOf(n).identity, ops[n].reading, now)

\* The observation is dated after the last read.
Observe(n) ==
  /\ Step(n, "reading") /\ \A s \in Slots : ops[n].reading[s] # None
  /\ Becomes(n, [ops[n] EXCEPT !.at = "observed", !.observation = Honest(n)])
  /\ UNCHANGED <<now, faults, world, path, batches, records>>

\* An observer that says of a service what it did not read.
Misreport(n, r) ==
  /\ Fault
  /\ Step(n, "reading") /\ \A s \in Slots : ops[n].reading[s] # None
  /\ Becomes(n, [ops[n] EXCEPT !.at = "observed",
                   !.observation = [Honest(n) EXCEPT !.services[r].surface = "unread"]])
  /\ UNCHANGED <<now, world, path, batches, records>>

-----------------------------------------------------------------------------
(* The operation: its evidence batch and its record. *)

SealedBatch(n) ==
  LET d == ops[n].asked
      entries == Entries(ops[n].observation, ops[n].reading) IN
  BatchResult(d, ops[n].observation,
    StoredEvidence(entries, [s \in Slots |-> BatchKey(d.pins.cloudflare.version, d.batch, s)],
                   d.batch, now),
    now)

\* The batch is sealed once, of evidence that stands; its answer may be lost.
Seal(n) ==
  LET d == ops[n].asked op == ops[n] IN
  /\ path = "operation" /\ Step(n, "observed")
  /\ IF SealParses(d, op.observation, Entries(op.observation, op.reading), now, Account)
     THEN batches' = batches \cup {SealedBatch(n)}
     ELSE UNCHANGED batches
  /\ CallFails(n)
  /\ UNCHANGED <<now, faults, world, path, records>>

\* Mutant of CommittedAt: a record is dated when its result is confirmed.
ConfirmedAt(result) == now

\* The instant of the record is the batch's.
CommittedAt(result) == result.sealedAt

\* ActivationOperationCloudflareConfirmation.confirm, of a resumed batch
Confirm(n) ==
  /\ path = "operation" /\ Step(n, "delegated")
  /\ \E result \in batches :
       /\ ResultParses(result, ops[n].asked)
       /\ Becomes(n, [ops[n] EXCEPT !.at = "confirmed", !.answer = result,
                                    !.acceptedAt = CommittedAt(result)])
  /\ UNCHANGED <<now, faults, world, path, batches, records>>

\* operationServiceAuthorityObservation: the confirmed result is parsed again
ResultStands(n) ==
  LET op == ops[n] plan == PlanOf(n, op.request) d == op.asked IN
  /\ DelegationParses(d, op.issuance, n, Trust.worker, Account)
  /\ ResultParses(op.answer, d)
  /\ op.answer.sealedAt = op.acceptedAt
  /\ d.request.expectation = plan.doc
  /\ d.request.deployments = plan.deployments
  /\ d.request.inventory = plan.doc.rows
  /\ d.request.host = plan.doc.host

\* provisioned and activated
RecordStands(n) ==
  LET op == ops[n] compact == CompactOfBatch(op.answer) IN
  /\ Admits(n, op.request)
  /\ ResultStands(n)
  /\ IF n = 0 THEN CommitFresh(compact, op.acceptedAt)
     ELSE ActivationChronology(records[0].committedAt, op.request.promotion, compact, op.acceptedAt)

RecordOf(n, q, request, compact, at) ==
  IF n = 0 THEN ProvisionedRecord(q, request, compact, at)
  ELSE ActivatedRecord(q, records[0], request, compact, at)

\* StoredActivationOperationRecordMaterializer.materialize
Materialize(n) ==
  LET op == ops[n] IN
  /\ Step(n, "confirmed")
  /\ RecordStands(n)
  /\ records' = [records EXCEPT ![n] = RecordOf(n, op.request, op.issuance.id,
                                                CompactOfBatch(op.answer), op.acceptedAt)]
  /\ Becomes(n, [op EXCEPT !.at = "recorded", !.answer = None])
  /\ UNCHANGED <<now, faults, world, path, batches>>

-----------------------------------------------------------------------------
(* The direct path. *)

\* A batch of version 1 is of the expectation, the observer and the phase alone.
DirectBatch(n) ==
  LegacyBatchId(Asked(n).expectation, ObserverOf(n).version, Asked(n).phase)

DirectAnswer(n) ==
  LET observation == ops[n].observation rows == Asked(n).inventory IN
  [batch |-> DirectBatch(n), observation |-> observation,
   executor |-> rows[Executor].identity, b2Observer |-> rows[Observer].identity,
   stored |-> StoredEvidence(Entries(observation, ops[n].reading),
                [s \in Slots |-> LegacyKey(ObserverOf(n).version, s)],
                DirectBatch(n), now)]

\* An answer ends what was read for it.
Answers(n, answer) ==
  Becomes(n, [ops[n] EXCEPT !.at = "answered", !.answer = answer,
                            !.reading = Unread, !.observation = None])

\* mirrorEvidenceSet: a batch that exists already is the answer, whatever was read now
Mirror(n) ==
  LET old == {b \in batches : b.batch = DirectBatch(n)}
      op == ops[n] IN
  /\ path = "direct" /\ Step(n, "observed")
  /\ IF old # {}
     THEN /\ \E b \in old : Answers(n, b)
          /\ UNCHANGED batches
     ELSE IF EvidenceSetStands(op.observation, Entries(op.observation, op.reading))
     THEN /\ batches' = batches \cup {DirectAnswer(n)}
          /\ Answers(n, DirectAnswer(n))
     ELSE CallFails(n) /\ UNCHANGED batches
  /\ UNCHANGED <<now, faults, world, path, records>>

\* CloudflareDeploymentObserverClient.observe, at the end
Accept(n) ==
  LET op == ops[n] IN
  /\ Step(n, "answered")
  /\ IF AnswerAccepted(op.answer, op.asked, Account, now)
     THEN Becomes(n, [op EXCEPT !.at = "accepted", !.acceptedAt = now])
     ELSE CallFails(n)
  /\ UNCHANGED <<now, faults, world, path, batches, records>>

\* buildServiceAuthorityObservation
CompactOfAnswer(op) ==
  Compact(op.answer.observation, op.answer.stored,
          [executor |-> op.answer.executor, b2Observer |-> op.answer.b2Observer], op.acceptedAt)

\* The record is committed at an instant of its own.
Commit(n) ==
  LET op == ops[n] compact == CompactOfAnswer(op) IN
  /\ Step(n, "accepted")
  /\ IF IF n = 0 THEN CommitFresh(compact, now)
        ELSE ActivationChronology(records[0].committedAt, op.request.promotion, compact, now)
     THEN /\ records' = [records EXCEPT ![n] = RecordOf(n, op.request, op.issuance.id, compact, now)]
          /\ Becomes(n, [op EXCEPT !.at = "recorded", !.answer = None])
     ELSE CallFails(n) /\ UNCHANGED records
  /\ UNCHANGED <<now, faults, world, path, batches>>

-----------------------------------------------------------------------------
Admission ==
  \/ \E q \in Requests : Begin(0, q)
  \/ \E q \in FinalizeRequests : Begin(1, q)

Observing(n) ==
  \/ ObserveDelegated(n) \/ ObserveDirectly(n) \/ Observe(n)
  \/ \E S \in Together : Read(n, S)
  \/ \E r \in Exposed : Misreport(n, r)

Recording(n) ==
  \/ Reissue(n) \/ Derive(n) \/ Delegate(n) \/ Seal(n) \/ Confirm(n) \/ Materialize(n)
  \/ Mirror(n) \/ Accept(n) \/ Commit(n)

Next ==
  \/ Tick \/ Disturb \/ StartPromotion \/ \E d \in Promotions : CompletePromotion(d)
  \/ Admission \/ ReadEvidence
  \/ \E n \in Sequences : Observing(n) \/ Recording(n)

Spec == Init /\ [][Next]_vars

-----------------------------------------------------------------------------
\* A service as a record would have it, of what a provider serves.
Served(p, r) == CompactService(ServiceObservation(r, ServiceResponses(p, Account, r)))

(* What a record says of a service the provider did serve, and not before    *)
(* the delegation of the very operation the record is of: no batch of        *)
(* another issuance, no report of an observer and no answer kept from        *)
(* earlier gets into a record (activation-operation-record-materializer.ts,  *)
(* cloudflare-deployment-observation-evidence.ts).                           *)
RecordIsOwnObservation ==
  \A n \in Sequences : records[n] # None =>
    LET compact == records[n].observation IN
    \A r \in Roles : \E h \in served :
      /\ Served(h.provider, r) = compact.services[r]
      /\ h.at <= compact.observedAt
      /\ path = "operation" => ops[n].asked.committedAt <= h.at

(* The two records are one activation: they say the same of every private    *)
(* service, the ingress was read on the promoted deployment, and the first   *)
(* record is older than the promotion, which is older than what the second   *)
(* observed (activation-registry-codec.ts:101).                              *)
ChainBinds ==
  (\A n \in Sequences : records[n] # None) =>
    LET a0 == records[0] a1 == records[1] p == a1.promotion IN
    /\ \A r \in Private : a0.observation.services[r] = a1.observation.services[r]
    /\ a1.observation.services[Ingress].id = p.deployment
    /\ a0.committedAt < p.started /\ p.completed <= a1.observation.observedAt

(* What an operation was admitted, delegated and confirmed for is not        *)
(* refused when its record is made, however late that is: only a promotion   *)
(* that began before the first record was committed is, since nothing looks  *)
(* at it earlier (activation-operation-record-materializer.ts:129).          *)
NoLateRefusal ==
  \A n \in Sequences : Step(n, "confirmed") =>
    \/ RecordStands(n)
    \/ n = 1 /\ ops[1].request.promotion.started <= records[0].committedAt

\* An expectation that states what the provider has of the versions it names
Truthful(doc) ==
  \A r \in Roles : \A m \in doc.a0[r].members \cup doc.a1[r].members :
    provider.resources[m.version] = [code |-> m.code, record |-> m.record]

(* What is recorded passes the verification of a snapshot, but for the form  *)
(* of the deployments' members: each record's observation and the pair.  The *)
(* operation does not compare the versions it observed with those that the   *)
(* expectation states, as the direct path does: there the expectation has to *)
(* be truthful (activation-snapshot-verifier.ts,                             *)
(* service-authority-observation-projections.ts).                            *)
VerifiesButMembership ==
  /\ \A n \in Sequences : records[n] # None =>
       LET a0 == records[0] record == records[n] IN
       path = "direct" \/ Truthful(a0.evidence.doc) =>
         ParsesButMembership(record.observation, a0.evidence.doc, DeploymentsOf(n, a0, record),
                             Phase(n))
  /\ records[1] # None => SnapshotStands(records[0], records[1], Trust)

(* The compact observation that a record is built with can be parsed again:  *)
(* service-authority-observation.ts:27 parses "the complete compact          *)
(* 14-service plus network authority observation".  It is not so: the        *)
(* members are built with worker_version_id and parsed with version_id.      *)
BuiltObservationParses ==
  \A n \in Sequences : records[n] # None =>
    LET a0 == records[0] record == records[n] IN
       CompactParses(record.observation, a0.evidence.doc, DeploymentsOf(n, a0, record), Phase(n))
=============================================================================
