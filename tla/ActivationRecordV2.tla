--------------------------- MODULE ActivationRecordV2 ---------------------------
(***************************************************************************)
(* The compact records of version 2, which are to replace those of         *)
(* ActivationRecordMaterializer and are not yet served: a record commits   *)
(* to the selected component set, to one issuance of the operation that    *)
(* the set or the finalize request names, to that issuance's evidence      *)
(* batch and to four direct objects; the second record commits to the      *)
(* first, and a chain is two records that agree.                           *)
(* activation-record-v2-*.ts, admin-activation-v2-*.ts.                    *)
(*                                                                         *)
(* A record is parsed of its own content: here its sections come from what *)
(* a behaviour of ActivationRecordMaterializer issued, delegated and       *)
(* sealed, and from component sets and requests that were confirmed        *)
(* elsewhere, mixed in every way.  A digest and an id are what they are    *)
(* of.                                                                     *)
(***************************************************************************)
EXTENDS ActivationRecordMaterializer

CONSTANTS
  Selections,      \* component authorities of confirmed sets, of this and another worker
  DirectSlots,     \* the four direct objects of a provision
  SelectionTerm,   \* how long the selection of a set is fresh
  MaxOrdinal       \* the largest ordinal of a session and of an issuance

\* Every object is retained for the term from what it attests.
Retained(worm, digest, key, at) ==
  worm.digest = digest /\ worm.key = key /\ worm.retained >= at + Term

Distinct(f) == \A s, t \in DOMAIN f : f[s] = f[t] => s = t

-----------------------------------------------------------------------------
(* The component authority and the direct evidence of a provision. *)

SetFields == {"descriptor", "pointer", "pointerDigest", "projection", "session"}
SessionFields == {"state", "generation", "ordinal", "predecessor", "freshUntil", "id"}

SessionId(descriptor, session) ==
  <<descriptor, session.generation, session.ordinal, session.predecessor>>

ManifestKey(descriptor, manifest) == <<"manifest", descriptor.worker, descriptor.set, manifest>>

\* validateActivationRecordV2ComponentAuthority
ComponentStands(a, worker) ==
  LET d == a.descriptor session == a.session IN
  /\ DOMAIN a = SetFields
  /\ d.worker = worker
  /\ Retained(a.pointer.worm, a.pointer.manifest, ManifestKey(d, a.pointer.manifest), d.committedAt)
  /\ a.pointerDigest = a.pointer
  /\ session.state = "SELECTED"
  /\ session.generation \in 1..MaxOrdinal /\ session.ordinal \in 1..MaxOrdinal
  /\ (session.generation = 1) <=> (session.predecessor = None)
  /\ session.freshUntil = d.committedAt + SelectionTerm
  /\ session.id = SessionId(d, session)

\* A selection is one that a set was confirmed with, under the worker of its descriptor.
ASSUME SelectionsAssumption ==
  /\ MaxOrdinal \in Nat /\ MaxClock < MaxOrdinal
  /\ DirectSlots # {}
  /\ \A a \in Selections :
       /\ Has(a, SetFields) /\ Has(a.session, SessionFields)
       /\ ComponentStands(a, a.descriptor.worker)

DirectKey(worker, slot, evidence) == <<"direct", worker, slot, evidence>>

\* validateActivationRecordV2DirectEvidence
DirectStands(rows, worker, at) ==
  /\ DOMAIN rows = DirectSlots
  /\ \A s \in DirectSlots :
       Retained(rows[s].worm, rows[s].evidence, DirectKey(worker, s, rows[s].evidence), at)
  /\ Distinct([s \in DirectSlots |-> rows[s].worm.version])

-----------------------------------------------------------------------------
(* The operation. *)

\* activationRecordV2IntentSha256, of a component authority or of a finalize request
ProvisionIntent(a) == <<a.descriptor, a.pointer, a.projection, a.session.id>>
FinalizeIntent(f) == <<f.approvals, f.promotion, f.provisioned, f.target>>

\* activationRecordV2AttemptId and activationRecordV2IssuanceId
AttemptId(intent, n, worker) == <<intent, n, worker>>
IssuanceId(attempt, ordinal) == <<attempt, ordinal>>

\* Mutant of OperationStands: whose attempt it is, is not looked at.
OperationOfAnyIntent(o, intent, n, worker) ==
  /\ o.issuance = IssuanceId(o.attempt, o.ordinal)
  /\ o.request = o.issuance
  /\ o.issuedAt < o.freshUntil

\* validateActivationRecordV2Operation
OperationStands(o, intent, n, worker) ==
  /\ o.intent = intent
  /\ o.attempt = AttemptId(intent, n, worker)
  /\ o.ordinal \in 1..MaxOrdinal
  /\ o.issuance = IssuanceId(o.attempt, o.ordinal)
  /\ o.request = o.issuance
  /\ o.issuedAt < o.freshUntil

-----------------------------------------------------------------------------
(* The service authority: the anchors of a sealed batch. *)

\* activationRecordV2BatchId
BatchIdV2(issuance, ordinal, n) == <<issuance, ordinal, n>>

\* A record of the batch, in an object that its key names.
AnchorStands(row, observer, batch, s, at) ==
  Retained(row, row.digest, BatchKey(observer, batch, s), at)

\* validateActivationRecordV2ServiceAuthority; at is the instant of the record
ServiceStands(v, n, at, o) ==
  /\ v.phase = Phase(n)
  /\ v.batch = BatchIdV2(o.issuance, o.ordinal, n)
  /\ v.sealedAt = at
  /\ o.issuedAt <= v.delegatedAt /\ v.delegatedAt <= v.observedAt
  /\ v.observedAt <= v.sealedAt /\ v.sealedAt <= o.freshUntil
  /\ Within(o.issuedAt, v.sealedAt)
  /\ DOMAIN v.anchors = Slots
  /\ \E observer \in {v.anchors[s].key.observer : s \in Slots} :
       \A s \in Slots : AnchorStands(v.anchors[s], observer, v.batch, s, v.sealedAt)
  /\ v.anchorsDigest = v.anchors
  /\ Distinct([s \in Slots |-> v.anchors[s].digest])
  /\ Distinct([s \in Slots |-> v.anchors[s].version])
  /\ v.delegation # v.expectation

-----------------------------------------------------------------------------
(* The finalize request, which the second record carries. *)

\* activationRecordV2WormKey
RecordKey(worker, n, record) == <<"record", worker, n, record>>

TargetStands(t) ==
  t.rehearsal.workflow = t.commit /\ t.rehearsal.repository = t.repository

\* validateActivationRecordV2Finalize
FinalizeStands(f, worker) ==
  LET p == f.promotion a0 == f.provisioned IN
  /\ p.worker = worker /\ p.started <= p.completed
  /\ Retained(p.worm, p.report, <<"report", p.report>>, p.completed)
  /\ a0.worker = worker
  /\ a0.worm.digest = a0.record /\ a0.worm.key = RecordKey(worker, 0, a0.record)
  /\ TargetStands(f.target)

\* parseAdminActivationV2Ingress, of a body that is posted to finalize: the other schemas of
\* version 2 are the provision route's, and those of version 1 are of neither
AsksToFinalize(body, route, worker) ==
  /\ route = "finalize"
  /\ body.schema = "finalize v2"
  /\ FinalizeStands(body.request, worker)

-----------------------------------------------------------------------------
(* Records and chains. *)

ProvisionedFields ==
  {"sequence", "previous", "worker", "committedAt", "observedAt", "component", "operation",
   "evidence", "service"}
ActivatedFields ==
  {"sequence", "previous", "worker", "committedAt", "observedAt", "finalize", "operation",
   "service"}

\* validateProvisioned
ProvisionedStands(b) ==
  /\ DOMAIN b = ProvisionedFields
  /\ b.sequence = 0 /\ b.previous = "GENESIS"
  /\ b.observedAt = b.committedAt
  /\ ComponentStands(b.component, b.worker)
  /\ OperationStands(b.operation, ProvisionIntent(b.component), 0, b.worker)
  /\ ServiceStands(b.service, 0, b.committedAt, b.operation)
  /\ DirectStands(b.evidence, b.worker, b.service.delegatedAt)
  /\ b.component.descriptor.committedAt <= b.operation.issuedAt

\* validateActivated
ActivatedStands(b) ==
  /\ DOMAIN b = ActivatedFields
  /\ b.sequence = 1
  /\ b.observedAt = b.committedAt
  /\ FinalizeStands(b.finalize, b.worker)
  /\ b.previous = b.finalize.provisioned.record
  /\ OperationStands(b.operation, FinalizeIntent(b.finalize), 1, b.worker)
  /\ ServiceStands(b.service, 1, b.committedAt, b.operation)
  /\ b.finalize.promotion.completed <= b.operation.issuedAt

\* Mutant of ChainStands: the second record may be of another component set.
ChainOfAnySet(a0, a1) ==
  LET p == a1.finalize IN
  /\ a1.previous = a0
  /\ p.provisioned.record = a0
  /\ a1.worker = a0.worker
  /\ a0.committedAt < p.promotion.started
  /\ p.provisioned.worm.retained >= a0.committedAt + Term

\* validateChain, of two records that parse; the id of a record is its body
ChainStands(a0, a1) ==
  LET p == a1.finalize set == a0.component IN
  /\ a1.previous = a0
  /\ p.provisioned.record = a0
  /\ p.provisioned.set = set.descriptor.set
  /\ p.provisioned.pointer = set.pointerDigest
  /\ p.provisioned.projection = set.projection
  /\ p.provisioned.worker = a0.worker
  /\ a1.worker = a0.worker
  /\ a0.committedAt < p.promotion.started
  /\ p.provisioned.worm.retained >= a0.committedAt + Term

\* parseActivationRecordV2Chain
ChainParses(a0, a1) == ProvisionedStands(a0) /\ ActivatedStands(a1) /\ ChainStands(a0, a1)

-----------------------------------------------------------------------------
(* What a behaviour could make records of, mixed. *)

\* An issuance of an operation, as the attempt at an intent.
IssuedFor(n, intent) ==
  LET issuance == ops[n].issuance
      attempt == AttemptId(intent, n, Trust.worker)
      id == IssuanceId(attempt, issuance.ordinal + 1) IN
  [intent |-> intent, attempt |-> attempt, ordinal |-> issuance.ordinal + 1, issuance |-> id,
   request |-> id, issuedAt |-> issuance.issuedAt, freshUntil |-> issuance.freshUntil]

ResultOf(n) == CHOOSE result \in batches : result.batch = ops[n].asked.batch

\* The operation's sealed batch, as the batch of an issuance.
SealedFor(n, o) ==
  LET result == ResultOf(n)
      batch == BatchIdV2(o.issuance, o.ordinal, n)
      anchors == [s \in Slots |->
        [result.stored[s] EXCEPT !.key = BatchKey(result.pins.cloudflare.version, batch, s)]] IN
  [phase |-> result.observation.phase, batch |-> batch, sealedAt |-> result.sealedAt,
   delegatedAt |-> result.delegatedAt, observedAt |-> result.observation.at,
   anchors |-> anchors, anchorsDigest |-> anchors, delegation |-> result.delegation,
   expectation |-> result.observation.expectation]

\* Direct evidence for a worker, written at an instant.
DirectFor(worker, at) ==
  [s \in DirectSlots |->
     [evidence |-> s, worm |-> Stored(s, DirectKey(worker, s, s), <<"direct", s>>, at + Term)]]

\* buildActivationProvisionedRecordV2
ProvisionedV2(component, o, service, evidence, at) ==
  [sequence |-> 0, previous |-> "GENESIS", worker |-> Trust.worker, committedAt |-> at,
   observedAt |-> at, component |-> component, operation |-> o, evidence |-> evidence,
   service |-> service]

\* buildActivationActivatedRecordV2
ActivatedV2(finalize, o, service, at) ==
  [sequence |-> 1, previous |-> finalize.provisioned.record, worker |-> Trust.worker,
   committedAt |-> at, observedAt |-> at, finalize |-> finalize, operation |-> o,
   service |-> service]

OwnProvisioned(component) ==
  LET o == IssuedFor(0, ProvisionIntent(component)) IN
  ProvisionedV2(component, o, SealedFor(0, o),
                DirectFor(Trust.worker, ResultOf(0).delegatedAt), ResultOf(0).sealedAt)

\* A request to finalize a record as one of a component set, of the promotion of an operation
\* and a rehearsal of the runtime's workflow
FinalizeFor(record, component, rehearsed) ==
  LET p == ops[1].request.promotion IN
  [approvals |-> "approvals",
   promotion |-> [worker |-> p.worker, deployment |-> p.deployment, started |-> p.started,
                  completed |-> p.completed, report |-> p,
                  worm |-> Stored(p, <<"report", p>>, "report", p.completed + Term)],
   provisioned |-> [set |-> component.descriptor.set, pointer |-> component.pointerDigest,
                    projection |-> component.projection, record |-> record,
                    worker |-> Trust.worker,
                    worm |-> Stored(record, RecordKey(Trust.worker, 0, record), "record",
                                    record.committedAt + Term)],
   target |-> [commit |-> "commit", repository |-> "repository",
               rehearsal |-> [workflow |-> rehearsed, repository |-> "repository"]]]

Confirmed(n) == path = "operation" /\ Step(n, "confirmed")

Mine == {c \in Selections : c.descriptor.worker = Trust.worker}

-----------------------------------------------------------------------------
(* Properties. *)

(* A provisioned record of version 2 is accepted of exactly the sections     *)
(* that one operation has made of one component set, selected by the time it *)
(* was issued: an issuance, a batch or a set of another intent, an instant   *)
(* that is not the batch's, and direct evidence of another worker or older   *)
(* than the delegation are refused (activation-record-v2-builder.ts:187).    *)
ProvisionedIsOneOperation ==
  Confirmed(0) =>
    \A set, issued, sealed \in Selections, worker \in {Trust.worker, "other"},
       written \in {0, ResultOf(0).delegatedAt}, at \in {ResultOf(0).sealedAt, now} :
      LET o == IssuedFor(0, ProvisionIntent(issued)) result == ResultOf(0) IN
      ProvisionedStands(ProvisionedV2(set, o,
          SealedFor(0, IssuedFor(0, ProvisionIntent(sealed))), DirectFor(worker, written), at))
      <=> /\ set \in Mine /\ issued = set /\ sealed = set /\ worker = Trust.worker
          /\ written >= result.delegatedAt /\ at = result.sealedAt
          /\ set.descriptor.committedAt <= o.issuedAt

(* A chain of version 2 is accepted of exactly one activation: the record    *)
(* that was finalized, as one of its own component set, by the operation of  *)
(* that request, after a promotion that began after the record; and what is  *)
(* recorded as version 1 can be recorded so (activation-record-v2-builder.ts *)
(* :268).                                                                    *)
ChainIsOneActivation ==
  Confirmed(1) =>
    \A first, finalized, set, issued, sealed \in Mine, rehearsed \in {"commit", "other"} :
      LET Of(c) == FinalizeFor(OwnProvisioned(finalized), c, rehearsed)
          IssuedOf(c) == IssuedFor(1, FinalizeIntent(Of(c)))
          a0 == OwnProvisioned(first)
          a1 == ActivatedV2(Of(set), IssuedOf(issued), SealedFor(1, IssuedOf(sealed)),
                            ResultOf(1).sealedAt) IN
      (/\ ChainParses(a0, a1)
       /\ AsksToFinalize([schema |-> "finalize v2", request |-> Of(set)], "finalize", Trust.worker))
      <=> /\ finalized = first
          /\ Of(set) = Of(first) /\ Of(issued) = Of(set) /\ Of(sealed) = Of(set)
          /\ rehearsed = "commit"
          /\ first.descriptor.committedAt <= ops[0].issuance.issuedAt
          /\ RecordStands(1)
=============================================================================
