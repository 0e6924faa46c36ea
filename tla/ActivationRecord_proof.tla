------------------------ MODULE ActivationRecord_proof ------------------------
(***************************************************************************)
(* Proofs about the two records of an activation, for any roles, requests, *)
(* deployments, promotions, redeployments, clock, window, term and number  *)
(* of faults: a record says what the provider served for its own           *)
(* operation, the two are one activation, what was confirmed is recorded   *)
(* however late, what is recorded verifies, and the records of version 2   *)
(* are accepted of exactly what one operation and one activation made.     *)
(*                                                                         *)
(* The invariant says of every stage of an operation where the responses   *)
(* it holds come from: each is what the provider served at an instant      *)
(* between the delegation and the observation, and was found as expected;  *)
(* a batch has its id for itself, and a record is of one of them.          *)
(***************************************************************************)
EXTENDS ActivationRecordV2, TLAPS

-----------------------------------------------------------------------------
(* The inductive invariant. *)

\* The promotion is reported: nothing changes it any more.
Settled(pr) ==
  pr \in [deployment : {d.id : d \in Promotions}, started : Nat, completed : Nat,
          worker : UNION {{m.version : m \in d.members} : d \in Promotions}]

PromotionIn(pr, t) ==
  \/ pr = None
  \/ pr.completed = None /\ pr.started \in Nat /\ pr.started <= t
  \/ Settled(pr) /\ pr.started <= pr.completed /\ pr.completed <= t

\* PlanOf and Admits, of the first record
PlanIn(n, q, a0) == IF n = 0 THEN ProvisionPlan(q) ELSE FinalizePlan(q, a0)

AdmittedIn(n, q, a0) ==
  IF n = 0 THEN ProvisionPlans(q, Trust)
  ELSE PointerStands(q.provisioned, a0, Trust) /\ FinalizePlans(q, a0, Trust)

\* What an operation asks the observer, and since when it may be answered.
RequestIn(p, op) == IF p = "operation" THEN op.asked.request ELSE op.asked
FromIn(p, op) == IF p = "operation" THEN op.asked.committedAt ELSE 0

\* The responses of a slot are those of a provider that served what is expected, in time.
ServedIn(h, D, H, from, to, s, responses) ==
  /\ responses = Responses(h.provider, Account, s)
  /\ Observes(Account, [deployments |-> D, host |-> H], s, responses)
  /\ from <= h.at /\ h.at <= to

ReadIn(S, D, H, from, to, s, responses) ==
  \E h \in S : ServedIn(h, D, H, from, to, s, responses)

\* An observation, or a compact one, says of each service what was read of it.
SeenIn(S, D, H, from, to, r, part) ==
  \E h \in S :
    LET responses == Responses(h.provider, Account, r) IN
    ServedIn(h, D, H, from, to, r, responses) /\ part = ServiceObservation(r, responses)

CompactSeenIn(S, D, H, from, to, r, service) ==
  \E h \in S :
    LET responses == Responses(h.provider, Account, r) IN
    /\ ServedIn(h, D, H, from, to, r, responses)
    /\ service = CompactService(ServiceObservation(r, responses))

ObservationIn(S, D, H, from, observation) ==
  /\ observation.at \in Nat
  /\ \A r \in Roles : SeenIn(S, D, H, from, observation.at, r, observation.services[r])
  /\ observation.network.domain = H /\ observation.network.routes = {}

-----------------------------------------------------------------------------
(* An operation. *)

OpFields ==
  {"at", "request", "issuance", "readAt", "asked", "reading", "observation", "answer",
   "acceptedAt"}

Steps == {"issued", "planned", "delegated", "reading", "observed", "answered", "accepted",
          "confirmed", "recorded"}

\* What was planned is asked, at an instant after the issuance.
AskedIn(n, p, op, t, plan) ==
  IF p = "operation"
  THEN /\ op.asked = Delegation(plan, op.issuance, n,
                       ObserverRequest(plan, op.issuance, n, op.asked.committedAt),
                       op.asked.committedAt)
       /\ op.asked.committedAt \in Nat
       /\ op.issuance.issuedAt <= op.asked.committedAt /\ op.asked.committedAt <= t
  ELSE op.asked = ObserverRequest(plan, op.issuance, n, op.asked.requestedAt)

\* When it was issued, and how often.
TimedIn(n, op, t, pr) ==
  /\ op.issuance.id = n
  /\ op.issuance.issuedAt \in Nat /\ op.issuance.issuedAt <= t
  /\ op.issuance.freshUntil = op.issuance.issuedAt + Window
  /\ op.issuance.ordinal \in Nat /\ op.issuance.ordinal <= op.issuance.issuedAt
  /\ op.readAt \in Nat /\ op.issuance.issuedAt <= op.readAt /\ op.readAt <= t
  /\ n = 1 => pr.completed <= op.issuance.issuedAt

\* A finalize is of the first record and of the promotion.
AdmissionIn(n, op, pr, a0) ==
  /\ AdmittedIn(n, op.request, a0)
  /\ n = 0 => op.request \in Requests
  /\ n = 1 => a0 # None /\ Settled(pr) /\ op.request.promotion = pr

ReadingIn(n, p, op, t, S, plan) ==
  /\ Has(op.reading, Slots)
  /\ \A s \in Slots : op.reading[s] # None =>
       ReadIn(S, plan.deployments, plan.doc.host, FromIn(p, op), t, s, op.reading[s])

ObservedIn(n, p, op, t, S, plan) ==
  LET observation == op.observation IN
  /\ observation.at \in Nat /\ observation.at <= t
  /\ \A s \in Slots :
       ReadIn(S, plan.deployments, plan.doc.host, FromIn(p, op), observation.at, s, op.reading[s])
  /\ observation.account = Account
  /\ observation.expectation = plan.doc
  /\ observation.phase = Phase(n)
  /\ observation.observer = plan.doc.rows[CloudflareObserver].identity

OpIn(n, p, op, t, S, pr, a0, B) ==
  LET plan == PlanIn(n, op.request, a0) IN
  /\ Has(op, OpFields) /\ op.at \in Steps
  /\ TimedIn(n, op, t, pr)
  /\ AdmissionIn(n, op, pr, a0)
  /\ op.at \in {"planned", "delegated", "confirmed"} => p = "operation"
  /\ op.at \in {"answered", "accepted"} => p = "direct"
  /\ op.at # "issued" => AskedIn(n, p, op, t, plan)
  /\ p = "operation" /\ op.at \notin {"issued", "planned"} =>
       DelegationParses(op.asked, op.issuance, n, Trust.worker, Account)
  /\ op.at \in {"issued", "planned", "delegated"} => op.reading = Unread
  /\ op.at = "reading" => ReadingIn(n, p, op, t, S, plan)
  /\ op.at = "observed" => ObservedIn(n, p, op, t, S, plan)
  /\ op.at = "confirmed" =>
       op.answer \in B /\ ResultParses(op.answer, op.asked) /\ op.acceptedAt = op.answer.sealedAt
  /\ op.at \in {"answered", "accepted"} =>
       /\ op.answer \in B
       /\ op.answer.batch = LegacyBatchId(plan.doc, plan.doc.rows[CloudflareObserver].version,
                                          Phase(n))
  /\ op.at = "accepted" =>
       /\ op.acceptedAt \in Nat /\ op.acceptedAt <= t
       /\ AnswerAccepted(op.answer, op.asked, Account, op.acceptedAt)

-----------------------------------------------------------------------------
(* A batch and a record. *)

\* The deployments expected of a phase
DeploymentsIn(doc, phase, pr) ==
  IF phase = Phase(0) THEN doc.a0 ELSE Promoted(doc.a1, pr.deployment)

BatchIn(p, b, t, S, pr) ==
  LET d == b.delegation observation == b.observation IN
  IF p = "operation"
  THEN /\ b.batch = BatchId(d.issuance, d.sequence)
       /\ b.sealedAt \in Nat /\ b.sealedAt <= t
       /\ \A s \in Slots : b.stored[s] = Stored(b.stored[s].digest, b.stored[s].key, <<b.batch, s>>,
                                               b.sealedAt + Term)
       /\ ObservationIn(S, d.request.deployments, d.request.host, d.committedAt, observation)
  ELSE /\ b.batch = LegacyBatchId(observation.expectation,
                      observation.expectation.rows[CloudflareObserver].version, observation.phase)
       /\ observation.phase \in {Phase(n) : n \in Sequences}
       /\ observation.phase = Phase(1) => Settled(pr)
       /\ ObservationIn(S, DeploymentsIn(observation.expectation, observation.phase, pr),
                        observation.expectation.host, 0, observation)
       /\ \A s \in Slots : b.stored[s].version = <<b.batch, s>>

\* A version of a member is what the provider has of it, where that is looked at.
VersionsIn(D, c) ==
  \A r \in Roles : \A m \in D[r].members :
    c.services[r].versions[m.version] = [code |-> m.code, record |-> m.record]

CompactIn(n, p, c, plan, S, from) ==
  LET rows == plan.doc.rows IN
  /\ c.phase = Phase(n) /\ c.expectation = plan.doc
  /\ c.observedAt \in Nat /\ c.acceptedAt \in Nat /\ Within(c.observedAt, c.acceptedAt)
  /\ c.observer = rows[CloudflareObserver].identity
  /\ c.executor = rows[Executor].identity /\ c.b2Observer = rows[Observer].identity
  /\ \A r \in Roles :
       CompactSeenIn(S, plan.deployments, plan.doc.host, from, c.observedAt, r, c.services[r])
  /\ c.network = [domain |-> plan.doc.host, routes |-> {}]
  /\ AnchorsStand(c.anchors, rows[CloudflareObserver].version, c.observedAt)
  /\ p = "direct" => VersionsIn(plan.deployments, c)

RecIn(n, q, a0, request, c, at) ==
  IF n = 0 THEN ProvisionedRecord(q, request, c, at) ELSE ActivatedRecord(q, a0, request, c, at)

ChronologyIn(n, q, a0, c, at) ==
  IF n = 0 THEN CommitFresh(c, at) ELSE ActivationChronology(a0.committedAt, q.promotion, c, at)

RecordIn(n, p, op, record, S, a0, B) ==
  LET plan == PlanIn(n, op.request, a0) c == record.observation IN
  /\ op.at = "recorded"
  /\ record = RecIn(n, op.request, a0, op.issuance.id, c, record.committedAt)
  /\ record.committedAt \in Nat
  /\ ChronologyIn(n, op.request, a0, c, record.committedAt)
  /\ CompactIn(n, p, c, plan, S, FromIn(p, op))
  /\ p = "operation" =>
       \E b \in B : ResultParses(b, op.asked) /\ record.committedAt = b.sealedAt

-----------------------------------------------------------------------------
\* What the provider served, and the promotion
WorldInv ==
  /\ now \in Nat /\ now <= MaxClock
  /\ path \in {"operation", "direct"}
  /\ PromotionIn(promotion, now)
  /\ ProviderShaped(provider) /\ provider.resources = Start.resources
  /\ [provider |-> provider, at |-> now] \in served
  /\ \A h \in served : h.at \in Nat /\ h.at <= now /\ h.provider.resources = Start.resources

OpsInv ==
  /\ Has(ops, Sequences)
  /\ \A n \in Sequences : ops[n] # None =>
       OpIn(n, path, ops[n], now, served, promotion, records[0], batches)

\* An operation that may still seal has no batch yet, and a batch has its id for itself.
BatchesInv ==
  /\ \A b \in batches : BatchIn(path, b, now, served, promotion)
  /\ path = "operation" =>
       /\ \A b, c \in batches : b.batch = c.batch => b = c
       /\ \A n \in Sequences : ops[n] # None /\ ops[n].at \in {"reading", "observed"} =>
            \A b \in batches : b.batch # ops[n].asked.batch

RecordsInv ==
  /\ Has(records, Sequences)
  /\ \A n \in Sequences : records[n] # None =>
       /\ OpIn(n, path, ops[n], now, served, promotion, records[0], batches)
       /\ RecordIn(n, path, ops[n], records[n], served, records[0], batches)

RecordInv == WorldInv /\ OpsInv /\ BatchesInv /\ RecordsInv

-----------------------------------------------------------------------------
(* What is known of an operation, a batch and a record stays so. *)

\* Time went on, and what the provider served, the batches and the reports are kept.
Later(t, S, pr, a0, B, t2, S2, pr2, a02, B2) ==
  /\ t \in Nat /\ t2 \in Nat /\ t <= t2
  /\ S \subseteq S2 /\ \A h \in S : h.at \in Nat
  /\ Settled(pr) => pr2 = pr
  /\ a0 # None => a02 = a0
  /\ B \subseteq B2

LEMMA ReadGrows ==
  ASSUME NEW S, NEW S2, S \subseteq S2, NEW D, NEW H, NEW from, NEW to, NEW s, NEW responses,
         ReadIn(S, D, H, from, to, s, responses)
  PROVE  ReadIn(S2, D, H, from, to, s, responses)
BY DEF ReadIn

LEMMA ReadLater ==
  ASSUME NEW S, NEW S2, S \subseteq S2, \A h \in S : h.at \in Nat,
         NEW D, NEW H, NEW from, NEW to \in Nat, NEW to2 \in Nat, to <= to2, NEW s, NEW responses,
         ReadIn(S, D, H, from, to, s, responses)
  PROVE  ReadIn(S2, D, H, from, to2, s, responses)
BY DEF ReadIn, ServedIn

\* What an operation plans is fixed by its request and by the first record.
LEMMA PlanStays ==
  ASSUME NEW n \in Sequences, NEW q, NEW a0, NEW a02, n = 1 => a0 = a02
  PROVE  /\ PlanIn(n, q, a0) = PlanIn(n, q, a02)
         /\ AdmittedIn(n, q, a0) <=> AdmittedIn(n, q, a02)
BY DEF PlanIn, AdmittedIn, Sequences

LEMMA OpGrows ==
  ASSUME NEW n \in Sequences, NEW p, NEW op, NEW t, NEW S, NEW pr, NEW a0, NEW B,
         NEW t2, NEW S2, NEW pr2, NEW a02, NEW B2,
         Later(t, S, pr, a0, B, t2, S2, pr2, a02, B2),
         OpIn(n, p, op, t, S, pr, a0, B)
  PROVE  OpIn(n, p, op, t2, S2, pr2, a02, B2)
<1> DEFINE plan == PlanIn(n, op.request, a0)
           plan2 == PlanIn(n, op.request, a02)
<1>1. n = 1 => a0 # None /\ a02 = a0 /\ Settled(pr) /\ pr2 = pr
  BY DEF OpIn, AdmissionIn, Later
<1>2. plan2 = plan /\ (AdmittedIn(n, op.request, a0) <=> AdmittedIn(n, op.request, a02))
  BY <1>1, PlanStays
<1>3. TimedIn(n, op, t2, pr2)
  <2>1. TimedIn(n, op, t, pr)
    BY DEF OpIn
  <2>2. QED
    BY <2>1, <1>1 DEF TimedIn, Later
<1>4. AdmissionIn(n, op, pr2, a02)
  <2>1. AdmissionIn(n, op, pr, a0)
    BY DEF OpIn
  <2>2. QED
    BY <2>1, <1>1, <1>2 DEF AdmissionIn
<1>5. ASSUME op.at # "issued" PROVE AskedIn(n, p, op, t2, plan2)
  <2>1. AskedIn(n, p, op, t, plan)
    BY <1>5 DEF OpIn
  <2>2. QED
    BY <2>1, <1>2 DEF AskedIn, Later
<1>6. ASSUME op.at = "reading" PROVE ReadingIn(n, p, op, t2, S2, plan2)
  <2>1. ReadingIn(n, p, op, t, S, plan)
    BY <1>6 DEF OpIn
  <2>2. QED
    BY <2>1, <1>2, ReadLater DEF ReadingIn, Later
<1>7. ASSUME op.at = "observed" PROVE ObservedIn(n, p, op, t2, S2, plan2)
  <2>1. ObservedIn(n, p, op, t, S, plan)
    BY <1>7 DEF OpIn
  <2>2. QED
    BY <2>1, <1>2, ReadGrows DEF ObservedIn, Later
<1>8. ASSUME op.at \in {"confirmed", "answered", "accepted"} PROVE op.answer \in B2
  BY <1>8 DEF OpIn, Later
<1>9. ASSUME op.at = "accepted" PROVE op.acceptedAt \in Nat /\ op.acceptedAt <= t2
  BY <1>9 DEF OpIn, Later
<1>10. QED
  BY <1>2, <1>3, <1>4, <1>5, <1>6, <1>7, <1>8, <1>9 DEF OpIn

LEMMA BatchGrows ==
  ASSUME NEW p, NEW b, NEW t, NEW S, NEW pr, NEW a0, NEW B,
         NEW t2, NEW S2, NEW pr2, NEW a02, NEW B2,
         Later(t, S, pr, a0, B, t2, S2, pr2, a02, B2),
         BatchIn(p, b, t, S, pr)
  PROVE  BatchIn(p, b, t2, S2, pr2)
<1>1. ASSUME NEW D, NEW H, NEW from, NEW o, ObservationIn(S, D, H, from, o)
      PROVE  ObservationIn(S2, D, H, from, o)
  BY <1>1 DEF ObservationIn, SeenIn, Later
<1>2. CASE p = "operation"
  BY <1>1, <1>2 DEF BatchIn, Later
<1>3. CASE p # "operation"
  <2> DEFINE o == b.observation
  <2>1. DeploymentsIn(o.expectation, o.phase, pr2) = DeploymentsIn(o.expectation, o.phase, pr)
    BY <1>3 DEF BatchIn, DeploymentsIn, Later, Sequences, Phase
  <2>2. QED
    BY <1>1, <1>3, <2>1 DEF BatchIn, Later
<1>4. QED
  BY <1>2, <1>3

LEMMA RecordGrows ==
  ASSUME NEW n \in Sequences, NEW p, NEW op, NEW record, NEW t, NEW S, NEW pr, NEW a0, NEW B,
         NEW t2, NEW S2, NEW pr2, NEW a02, NEW B2,
         Later(t, S, pr, a0, B, t2, S2, pr2, a02, B2),
         OpIn(n, p, op, t, S, pr, a0, B),
         RecordIn(n, p, op, record, S, a0, B)
  PROVE  RecordIn(n, p, op, record, S2, a02, B2)
<1>1. n = 1 => a02 = a0
  BY DEF OpIn, AdmissionIn, Later
<1>2. PlanIn(n, op.request, a0) = PlanIn(n, op.request, a02)
  BY <1>1, PlanStays
<1>3. ASSUME NEW c, NEW plan, NEW from, CompactIn(n, p, c, plan, S, from)
      PROVE  CompactIn(n, p, c, plan, S2, from)
  BY <1>3 DEF CompactIn, CompactSeenIn, Later
<1>4. \A c, at : /\ RecIn(n, op.request, a0, op.issuance.id, c, at) =
                     RecIn(n, op.request, a02, op.issuance.id, c, at)
                 /\ ChronologyIn(n, op.request, a0, c, at) <=> ChronologyIn(n, op.request, a02, c, at)
  BY <1>1 DEF RecIn, ChronologyIn, Sequences
<1>5. QED
  BY <1>2, <1>3, <1>4 DEF RecordIn, Later

-----------------------------------------------------------------------------
(* An action of the world, and one of an operation that leaves the rest alone. *)

LEMMA Laters ==
  ASSUME RecordInv, now' \in Nat, now <= now', served \subseteq served',
         Settled(promotion) => promotion' = promotion,
         records[0] # None => records'[0] = records[0],
         batches \subseteq batches'
  PROVE  Later(now, served, promotion, records[0], batches,
               now', served', promotion', records'[0], batches')
BY DEF Later, RecordInv, WorldInv

LEMMA WorldKeeps ==
  ASSUME RecordInv, WorldInv', UNCHANGED <<path, ops, batches, records>>,
         now <= now', served \subseteq served',
         Settled(promotion) => promotion' = promotion
  PROVE  RecordInv'
<1>1. Later(now, served, promotion, records[0], batches,
            now', served', promotion', records'[0], batches')
  BY Laters DEF WorldInv
<1>2. OpsInv'
  <2>1. Has(ops', Sequences)
    BY DEF RecordInv, OpsInv
  <2>2. ASSUME NEW n \in Sequences, ops'[n] # None
        PROVE  OpIn(n, path', ops'[n], now', served', promotion', records'[0], batches')
    BY <2>2, <1>1, OpGrows DEF RecordInv, OpsInv
  <2>3. QED
    BY <2>1, <2>2 DEF OpsInv
<1>3. BatchesInv'
  <2>1. ASSUME NEW b \in batches' PROVE BatchIn(path', b, now', served', promotion')
    BY <1>1, BatchGrows DEF RecordInv, BatchesInv
  <2>2. QED
    BY <2>1 DEF RecordInv, BatchesInv
<1>4. RecordsInv'
  <2>1. ASSUME NEW n \in Sequences, records'[n] # None
        PROVE  /\ OpIn(n, path', ops'[n], now', served', promotion', records'[0], batches')
               /\ RecordIn(n, path', ops'[n], records'[n], served', records'[0], batches')
    <3>1. /\ OpIn(n, path, ops[n], now, served, promotion, records[0], batches)
          /\ RecordIn(n, path, ops[n], records[n], served, records[0], batches)
      BY <2>1 DEF RecordInv, RecordsInv
    <3>2. QED
      BY <3>1, <1>1, OpGrows, RecordGrows
  <2>2. QED
    BY <2>1 DEF RecordInv, RecordsInv
<1>5. QED
  BY <1>2, <1>3, <1>4 DEF RecordInv

LEMMA TickKeeps == ASSUME RecordInv, Tick PROVE RecordInv'
<1>1. WorldInv'
  <2>1. now \in Nat /\ now' = now + 1 /\ now' <= MaxClock
    BY MaterializerAssumption DEF RecordInv, WorldInv, Tick
  <2>2. PromotionIn(promotion, now')
    <3>1. PromotionIn(promotion, now)
      BY DEF RecordInv, WorldInv
    <3>2. QED
      BY <2>1, <3>1 DEF PromotionIn, Settled
  <2>3. QED
    BY <2>1, <2>2 DEF RecordInv, WorldInv, Tick
<1>2. QED
  BY <1>1, WorldKeeps DEF RecordInv, WorldInv, Tick

\* A provider that differs in one service serves the same versions.
LEMMA ServesKeeps ==
  ASSUME RecordInv, NEW p, Serves(p), ProviderShaped(p), p.resources = provider.resources,
         UNCHANGED <<now, path>>, PromotionIn(promotion', now)
  PROVE  WorldInv' /\ served \subseteq served'
BY DEF RecordInv, WorldInv, Serves

LEMMA NewestShaped ==
  ASSUME RecordInv, NEW r \in Roles, NEW d
  PROVE  ProviderShaped(Newest(r, d)) /\ Newest(r, d).resources = provider.resources
BY DEF RecordInv, WorldInv, ProviderShaped, Newest, Has

LEMMA DisturbKeeps == ASSUME RecordInv, Disturb PROVE RecordInv'
<1>1. PICK p : Serves(p) /\ ProviderShaped(p) /\ p.resources = provider.resources
  <2>1. ASSUME NEW r \in Roles
        PROVE  LET p == [provider EXCEPT !.surface[r] = "open"] IN
               ProviderShaped(p) /\ p.resources = provider.resources
    BY DEF RecordInv, WorldInv, ProviderShaped, Has
  <2>2. LET p == [provider EXCEPT !.routes = {"route"}] IN
        ProviderShaped(p) /\ p.resources = provider.resources
    BY DEF RecordInv, WorldInv, ProviderShaped, Has
  <2>3. CASE \E r \in Roles : \E d \in Redeployments[r] : Serves(Newest(r, d))
    BY <2>3, NewestShaped
  <2>4. CASE \E r \in Exposed : Serves([provider EXCEPT !.surface[r] = "open"])
    BY <2>1, <2>4, MaterializerAssumption
  <2>5. CASE Serves([provider EXCEPT !.routes = {"route"}])
    BY <2>2, <2>5
  <2>6. QED
    BY <2>3, <2>4, <2>5 DEF Disturb
<1>2. WorldInv' /\ served \subseteq served'
  BY <1>1, ServesKeeps DEF Disturb, RecordInv, WorldInv
<1>3. QED
  BY <1>2, WorldKeeps DEF Disturb, RecordInv, WorldInv

LEMMA StartPromotionKeeps == ASSUME RecordInv, StartPromotion PROVE RecordInv'
<1>1. ~ Settled(promotion)
  BY NoneAssumption DEF StartPromotion, Settled
<1>2. WorldInv'
  BY DEF StartPromotion, RecordInv, WorldInv, PromotionIn
<1>3. QED
  BY <1>1, <1>2, WorldKeeps DEF StartPromotion, RecordInv, WorldInv

LEMMA CompletePromotionKeeps ==
  ASSUME RecordInv, NEW d \in Promotions, CompletePromotion(d) PROVE RecordInv'
<1>1. ~ Settled(promotion)
  BY NoneAssumption DEF CompletePromotion, Settled
<1>2. promotion.started \in Nat /\ promotion.started <= now
  BY <1>1 DEF CompletePromotion, RecordInv, WorldInv, PromotionIn
<1>3. PromotionIn(promotion', now)
  BY <1>2 DEF CompletePromotion, PromotionIn, Settled, RecordInv, WorldInv
<1>4. Ingress \in Roles
  BY RolesAssumption
<1>5. WorldInv' /\ served \subseteq served'
  BY <1>3, <1>4, NewestShaped, ServesKeeps DEF CompletePromotion
<1>6. QED
  BY <1>1, <1>5, WorldKeeps DEF CompletePromotion, RecordInv, WorldInv

\* An operation that has a record goes no further.
LEMMA Recorded ==
  ASSUME RecordInv, NEW n \in Sequences, records[n] # None
  PROVE  ops[n].at = "recorded"
BY DEF RecordInv, RecordsInv, RecordIn

\* A step of an operation that has no record yet: it is what it should be, and so the rest.
LEMMA Local ==
  ASSUME RecordInv, UNCHANGED <<now, world, path, batches, records>>,
         NEW n \in Sequences, records[n] = None, NEW op, Becomes(n, op),
         op # None => OpIn(n, path, op, now, served, promotion, records[0], batches),
         op # None /\ path = "operation" /\ op.at \in {"reading", "observed"} =>
           \A b \in batches : b.batch # op.asked.batch
  PROVE  RecordInv'
<1>1. \A m \in Sequences : ops'[m] = IF m = n THEN op ELSE ops[m]
  BY DEF RecordInv, OpsInv, Has, Becomes
<1>2. Has(ops', Sequences)
  BY DEF RecordInv, OpsInv, Has, Becomes
<1>3. WorldInv'
  BY DEF RecordInv, WorldInv, world
<1>4. OpsInv'
  <2>1. ASSUME NEW m \in Sequences, ops'[m] # None
        PROVE  OpIn(m, path', ops'[m], now', served', promotion', records'[0], batches')
    BY <1>1, <2>1 DEF RecordInv, OpsInv, world
  <2>2. QED
    BY <1>2, <2>1 DEF OpsInv
<1>5. BatchesInv'
  <2>1. \A b \in batches' : BatchIn(path', b, now', served', promotion')
    BY DEF RecordInv, BatchesInv, world
  <2>2. QED
    BY <2>1, <1>1 DEF RecordInv, BatchesInv
<1>6. RecordsInv'
  <2>1. ASSUME NEW m \in Sequences, records'[m] # None PROVE m # n /\ records[m] # None
    BY <2>1
  <2>2. QED
    BY <2>1, <1>1 DEF RecordInv, RecordsInv, world
<1>7. QED
  BY <1>3, <1>4, <1>5, <1>6 DEF RecordInv

-----------------------------------------------------------------------------
(* The steps of an operation before a batch. *)

LEMMA OpenOp ==
  ASSUME RecordInv, NEW n \in Sequences, NEW at, at # "recorded", Step(n, at)
  PROVE  /\ records[n] = None
         /\ OpIn(n, path, ops[n], now, served, promotion, records[0], batches)
         /\ Has(ops[n], OpFields)
         /\ ops[n].at = at
BY Recorded DEF Step, RecordInv, OpsInv, OpIn

\* PlanOf is the plan of the invariant.
LEMMA PlanOfIn ==
  ASSUME NEW n \in Sequences, NEW q
  PROVE  /\ PlanOf(n, q) = PlanIn(n, q, records[0])
         /\ Admits(n, q) <=> AdmittedIn(n, q, records[0])
BY DEF PlanOf, PlanIn, Admits, AdmittedIn, Sequences

LEMMA BeginKeeps ==
  ASSUME RecordInv, NEW n \in Sequences, NEW q, Begin(n, q),
         n = 0 => q \in Requests, n = 1 => q \in FinalizeRequests
  PROVE  RecordInv'
<1> DEFINE op == Operation(n, q, 0)
<1>1. now \in Nat /\ PromotionIn(promotion, now)
  BY DEF RecordInv, WorldInv
<1>2. n = 1 => Settled(promotion) /\ promotion.completed <= now
  BY <1>1 DEF Begin, Start0Or1, PromotionIn
<1>3. TimedIn(n, op, now, promotion)
  BY <1>1, <1>2, WindowAssumption DEF TimedIn, Operation, Issuance
<1>4. AdmissionIn(n, op, promotion, records[0])
  BY <1>2, PlanOfIn DEF AdmissionIn, Begin, Start0Or1, Operation, FinalizeRequests
<1>5. Has(op, OpFields) /\ op.at = "issued" /\ op.reading = Unread
  BY DEF Operation, Has, OpFields
<1>6. OpIn(n, path, op, now, served, promotion, records[0], batches)
  BY <1>3, <1>4, <1>5 DEF OpIn, Steps
<1>7. records[n] = None /\ Becomes(n, op)
  BY DEF Begin, Start0Or1, Becomes
<1>8. QED
  BY <1>5, <1>6, <1>7, Local DEF Begin

LEMMA ReissueKeeps ==
  ASSUME RecordInv, NEW n \in Sequences, Reissue(n) PROVE RecordInv'
<1> DEFINE old == ops[n]
           op == Operation(n, old.request, old.issuance.ordinal + 1)
<1>1. records[n] = None /\ OpIn(n, path, old, now, served, promotion, records[0], batches)
  BY OpenOp DEF Reissue
<1>2. TimedIn(n, old, now, promotion) /\ AdmissionIn(n, old, promotion, records[0])
  BY <1>1 DEF OpIn
<1>3. now \in Nat
  BY DEF RecordInv, WorldInv
<1>4. TimedIn(n, op, now, promotion)
  <2>1. now > old.issuance.issuedAt + Window
    BY <1>2 DEF Reissue, TimedIn
  <2>2. n = 1 => promotion.completed <= now
    <3>1. n = 1 => Settled(promotion)
      BY <1>2 DEF AdmissionIn
    <3>2. QED
      BY <3>1, <2>1, <1>2, <1>3, WindowAssumption DEF TimedIn, Settled
  <2>3. QED
    BY <1>2, <1>3, <2>1, <2>2, WindowAssumption DEF TimedIn, Operation, Issuance
<1>5. AdmissionIn(n, op, promotion, records[0])
  BY <1>2 DEF AdmissionIn, Operation
<1>6. Has(op, OpFields) /\ op.at = "issued" /\ op.reading = Unread
  BY DEF Operation, Has, OpFields
<1>7. OpIn(n, path, op, now, served, promotion, records[0], batches)
  BY <1>4, <1>5, <1>6 DEF OpIn, Steps
<1>8. QED
  BY <1>1, <1>6, <1>7, Local DEF Reissue

\* What an operation was issued and admitted for stays while it goes on.
LEMMA SameIssue ==
  ASSUME NEW n, NEW old, NEW op, NEW t, NEW pr, NEW a0,
         op.request = old.request, op.issuance = old.issuance, op.readAt = old.readAt
  PROVE  /\ TimedIn(n, old, t, pr) => TimedIn(n, op, t, pr)
         /\ AdmissionIn(n, old, pr, a0) => AdmissionIn(n, op, pr, a0)
BY DEF TimedIn, AdmissionIn

LEMMA ReadEvidenceKeeps == ASSUME RecordInv, ReadEvidence PROVE RecordInv'
<1> DEFINE old == ops[0]
           op == [old EXCEPT !.readAt = now]
<1>1. /\ records[0] = None /\ OpIn(0, path, old, now, served, promotion, records[0], batches)
      /\ Has(old, OpFields) /\ old.at = "issued"
  BY OpenOp DEF ReadEvidence, Sequences
<1>2. /\ Has(op, OpFields) /\ op.readAt = now
      /\ \A f \in OpFields \ {"readAt"} : op[f] = old[f]
  BY <1>1 DEF Has, OpFields
<1>3. /\ op.at = "issued" /\ op.request = old.request /\ op.issuance = old.issuance
      /\ op.reading = old.reading
  BY <1>1, <1>2 DEF OpFields
<1>4. now \in Nat
  BY DEF RecordInv, WorldInv
<1>5. TimedIn(0, op, now, promotion) /\ AdmissionIn(0, op, promotion, records[0])
  BY <1>1, <1>2, <1>3, <1>4 DEF OpIn, TimedIn, AdmissionIn
<1>6. OpIn(0, path, op, now, served, promotion, records[0], batches)
  BY <1>1, <1>2, <1>3, <1>5 DEF OpIn, Steps
<1>7. QED
  BY <1>1, <1>3, <1>6, Local DEF ReadEvidence, Sequences

LEMMA DeriveKeeps ==
  ASSUME RecordInv, NEW n \in Sequences, Derive(n) PROVE RecordInv'
<1> DEFINE old == ops[n]
           plan == PlanIn(n, old.request, records[0])
           asked == Delegation(plan, old.issuance, n, ObserverRequest(plan, old.issuance, n, now), now)
           op == [old EXCEPT !.at = "planned", !.asked = asked]
<1>1. /\ records[n] = None /\ OpIn(n, path, old, now, served, promotion, records[0], batches)
      /\ Has(old, OpFields) /\ old.at = "issued" /\ path = "operation"
  BY OpenOp DEF Derive
<1>2. /\ Has(op, OpFields) /\ op.at = "planned" /\ op.asked = asked
      /\ op.request = old.request /\ op.issuance = old.issuance /\ op.readAt = old.readAt
      /\ op.reading = old.reading
  BY <1>1 DEF Has, OpFields
<1>3. TimedIn(n, op, now, promotion) /\ AdmissionIn(n, op, promotion, records[0])
  BY <1>1, <1>2, SameIssue DEF OpIn
<1>4. AskedIn(n, path, op, now, plan)
  <2>1. op.asked.committedAt = now
    BY <1>2 DEF Delegation
  <2>2. QED
    BY <1>1, <1>2, <1>3, <2>1 DEF AskedIn, TimedIn, RecordInv, WorldInv
<1>5. OpIn(n, path, op, now, served, promotion, records[0], batches)
  BY <1>1, <1>2, <1>3, <1>4 DEF OpIn, Steps
<1>6. Becomes(n, op)
  BY PlanOfIn DEF Derive
<1>7. QED
  BY <1>1, <1>2, <1>5, <1>6, Local DEF Derive

LEMMA DelegateKeeps ==
  ASSUME RecordInv, NEW n \in Sequences, Delegate(n) PROVE RecordInv'
<1> DEFINE old == ops[n]
           op == [old EXCEPT !.at = "delegated"]
<1>1. /\ records[n] = None /\ OpIn(n, path, old, now, served, promotion, records[0], batches)
      /\ Has(old, OpFields) /\ old.at = "planned"
  BY OpenOp DEF Delegate
<1>2. /\ Has(op, OpFields) /\ op.at = "delegated" /\ op.asked = old.asked
      /\ op.request = old.request /\ op.issuance = old.issuance /\ op.readAt = old.readAt
      /\ op.reading = old.reading
  BY <1>1 DEF Has, OpFields
<1>3. TimedIn(n, op, now, promotion) /\ AdmissionIn(n, op, promotion, records[0])
  BY <1>1, <1>2, SameIssue DEF OpIn
<1>4. AskedIn(n, path, op, now, PlanIn(n, op.request, records[0]))
  BY <1>1, <1>2 DEF OpIn, AskedIn
<1>5. DelegationParses(op.asked, op.issuance, n, Trust.worker, Account)
  BY <1>2 DEF Delegate
<1>6. OpIn(n, path, op, now, served, promotion, records[0], batches)
  BY <1>1, <1>2, <1>3, <1>4, <1>5 DEF OpIn, Steps
<1>7. Becomes(n, op)
  BY DEF Delegate
<1>8. QED
  BY <1>1, <1>2, <1>6, <1>7, Local DEF Delegate

-----------------------------------------------------------------------------
(* The steps of the observer. *)

LEMMA UnreadRead ==
  ASSUME NEW n, NEW p, NEW op, NEW t, NEW S, NEW plan, op.reading = Unread
  PROVE  ReadingIn(n, p, op, t, S, plan)
BY DEF ReadingIn, Unread, Has

LEMMA ObserveDelegatedKeeps ==
  ASSUME RecordInv, NEW n \in Sequences, ObserveDelegated(n) PROVE RecordInv'
<1> DEFINE old == ops[n]
           op == [old EXCEPT !.at = "reading"]
<1>1. /\ records[n] = None /\ OpIn(n, path, old, now, served, promotion, records[0], batches)
      /\ Has(old, OpFields) /\ old.at = "delegated" /\ path = "operation"
  BY OpenOp DEF ObserveDelegated
<1>2. /\ Has(op, OpFields) /\ op.at = "reading" /\ op.asked = old.asked
      /\ op.request = old.request /\ op.issuance = old.issuance /\ op.readAt = old.readAt
      /\ op.reading = old.reading
  BY <1>1 DEF Has, OpFields
<1>3. TimedIn(n, op, now, promotion) /\ AdmissionIn(n, op, promotion, records[0])
  BY <1>1, <1>2, SameIssue DEF OpIn
<1>4. /\ AskedIn(n, path, op, now, PlanIn(n, op.request, records[0]))
      /\ DelegationParses(op.asked, op.issuance, n, Trust.worker, Account)
      /\ op.reading = Unread
  BY <1>1, <1>2 DEF OpIn, AskedIn
<1>5. OpIn(n, path, op, now, served, promotion, records[0], batches)
  BY <1>1, <1>2, <1>3, <1>4, UnreadRead DEF OpIn, Steps
<1>6. Becomes(n, op) /\ \A b \in batches : b.batch # op.asked.batch
  BY <1>2 DEF ObserveDelegated
<1>7. QED
  BY <1>1, <1>2, <1>5, <1>6, Local DEF ObserveDelegated

LEMMA ObserveDirectlyKeeps ==
  ASSUME RecordInv, NEW n \in Sequences, ObserveDirectly(n) PROVE RecordInv'
<1> DEFINE old == ops[n]
           plan == PlanIn(n, old.request, records[0])
           request == ObserverRequest(plan, old.issuance, n, now)
           op == [old EXCEPT !.at = "reading", !.asked = request]
<1>1. /\ records[n] = None /\ OpIn(n, path, old, now, served, promotion, records[0], batches)
      /\ Has(old, OpFields) /\ old.at = "issued" /\ path = "direct"
  BY OpenOp DEF ObserveDirectly
<1>2. /\ Has(op, OpFields) /\ op.at = "reading" /\ op.asked = request
      /\ op.request = old.request /\ op.issuance = old.issuance /\ op.readAt = old.readAt
      /\ op.reading = old.reading
  BY <1>1 DEF Has, OpFields
<1>3. TimedIn(n, op, now, promotion) /\ AdmissionIn(n, op, promotion, records[0])
  BY <1>1, <1>2, SameIssue DEF OpIn
<1>4. AskedIn(n, path, op, now, plan) /\ op.reading = Unread
  BY <1>1, <1>2 DEF OpIn, AskedIn, ObserverRequest
<1>5. OpIn(n, path, op, now, served, promotion, records[0], batches)
  BY <1>1, <1>2, <1>3, <1>4, UnreadRead DEF OpIn, Steps
<1>6. Becomes(n, op)
  BY PlanOfIn DEF ObserveDirectly
<1>7. QED
  BY <1>1, <1>5, <1>6, Local DEF ObserveDirectly

\* A request to the observer says what is planned.
LEMMA AskedOf ==
  ASSUME RecordInv, NEW n \in Sequences, ops[n].at # "issued",
         OpIn(n, path, ops[n], now, served, promotion, records[0], batches)
  PROVE  LET plan == PlanIn(n, ops[n].request, records[0]) IN
         /\ Asked(n).deployments = plan.deployments /\ Asked(n).expectation = plan.doc
         /\ Asked(n).host = plan.doc.host /\ Asked(n).inventory = plan.doc.rows
         /\ Asked(n).phase = Phase(n) /\ Asked(n) = RequestIn(path, ops[n])
         /\ FromIn(path, ops[n]) \in Nat /\ FromIn(path, ops[n]) <= now
<1>1. AskedIn(n, path, ops[n], now, PlanIn(n, ops[n].request, records[0])) /\ now \in Nat
  BY DEF OpIn, RecordInv, WorldInv
<1>2. CASE path = "operation"
  BY <1>1, <1>2 DEF AskedIn, Asked, Delegation, ObserverRequest, FromIn, RequestIn
<1>3. CASE path # "operation"
  BY <1>1, <1>3 DEF AskedIn, Asked, ObserverRequest, FromIn, RequestIn
<1>4. QED
  BY <1>2, <1>3

\* A call that fails leaves nothing, or the delegation as it was.
LEMMA FailsTo ==
  ASSUME RecordInv, NEW n \in Sequences, CallFails(n),
         OpIn(n, path, ops[n], now, served, promotion, records[0], batches),
         path = "operation" => ops[n].at \in {"reading", "observed"}
  PROVE  \E op : /\ Becomes(n, op)
                 /\ path = "direct" => op = None
                 /\ path = "operation" =>
                      /\ op.at = "delegated"
                      /\ OpIn(n, path, op, now, served, promotion, records[0], batches)
<1> DEFINE old == ops[n]
           op == [old EXCEPT !.at = "delegated", !.reading = Unread, !.observation = None]
<1>1. CASE path = "direct"
  BY <1>1 DEF CallFails
<1>2. CASE path = "operation"
  <2>1. Has(old, OpFields)
    BY DEF OpIn
  <2>2. /\ Has(op, OpFields) /\ op.at = "delegated" /\ op.asked = old.asked
        /\ op.request = old.request /\ op.issuance = old.issuance /\ op.readAt = old.readAt
        /\ op.reading = Unread
    BY <2>1 DEF Has, OpFields
  <2>3. TimedIn(n, op, now, promotion) /\ AdmissionIn(n, op, promotion, records[0])
    BY <2>2, SameIssue DEF OpIn
  <2>4. /\ AskedIn(n, path, op, now, PlanIn(n, op.request, records[0]))
        /\ DelegationParses(op.asked, op.issuance, n, Trust.worker, Account)
    BY <1>2, <2>2 DEF OpIn, AskedIn
  <2>5. OpIn(n, path, op, now, served, promotion, records[0], batches)
    BY <1>2, <2>2, <2>3, <2>4 DEF OpIn, Steps
  <2>6. Becomes(n, op)
    BY <1>2 DEF CallFails
  <2>7. QED
    BY <1>2, <2>2, <2>5, <2>6
<1>3. QED
  BY <1>1, <1>2 DEF RecordInv, WorldInv

LEMMA FailsKeeps ==
  ASSUME RecordInv, UNCHANGED <<now, world, path, batches, records>>,
         NEW n \in Sequences, records[n] = None, CallFails(n),
         OpIn(n, path, ops[n], now, served, promotion, records[0], batches),
         path = "operation" => ops[n].at \in {"reading", "observed"}
  PROVE  RecordInv'
<1>1. PICK op : /\ Becomes(n, op)
                /\ path = "direct" => op = None
                /\ path = "operation" =>
                     /\ op.at = "delegated"
                     /\ OpIn(n, path, op, now, served, promotion, records[0], batches)
  BY FailsTo
<1>2. path \in {"operation", "direct"}
  BY DEF RecordInv, WorldInv
<1>3. QED
  BY <1>1, <1>2, Local

LEMMA ReadKeeps ==
  ASSUME RecordInv, NEW n \in Sequences, NEW S \in Together, Read(n, S) PROVE RecordInv'
<1> DEFINE old == ops[n]
           plan == PlanIn(n, old.request, records[0])
           responses == [s \in S |-> Responses(provider, Account, s)]
           reading == [s \in Slots |-> IF s \in S THEN responses[s] ELSE old.reading[s]]
           op == [old EXCEPT !.reading = reading]
           passes == \A s \in S : Observes(Account, Asked(n), s, responses[s])
<1>1. /\ records[n] = None /\ OpIn(n, path, old, now, served, promotion, records[0], batches)
      /\ Has(old, OpFields) /\ old.at = "reading"
  BY OpenOp DEF Read
<1>2. CASE ~ passes
  BY <1>1, <1>2, FailsKeeps DEF Read
<1>3. CASE passes
  <2>1. /\ Has(op, OpFields) /\ op.at = "reading" /\ op.asked = old.asked
        /\ op.request = old.request /\ op.issuance = old.issuance /\ op.readAt = old.readAt
        /\ op.reading = reading
    BY <1>1 DEF Has, OpFields
  <2>2. TimedIn(n, op, now, promotion) /\ AdmissionIn(n, op, promotion, records[0])
    BY <1>1, <2>1, SameIssue DEF OpIn
  <2>3. /\ AskedIn(n, path, op, now, plan)
        /\ path = "operation" => DelegationParses(op.asked, op.issuance, n, Trust.worker, Account)
    BY <1>1, <2>1 DEF OpIn, AskedIn
  <2>4. ReadingIn(n, path, op, now, served, plan)
    <3>1. ASSUME NEW s \in Slots, op.reading[s] # None
          PROVE  ReadIn(served, plan.deployments, plan.doc.host, FromIn(path, op), now, s, op.reading[s])
      <4>1. CASE s \in S
        <5>1. op.reading[s] = Responses(provider, Account, s)
          BY <2>1, <4>1
        <5>2. Observes(Account, [deployments |-> plan.deployments, host |-> plan.doc.host], s,
                       Responses(provider, Account, s))
          BY <1>1, <1>3, <4>1, AskedOf DEF Observes
        <5>3. FromIn(path, op) <= now
          BY <1>1, <2>1, AskedOf DEF FromIn
        <5>4. [provider |-> provider, at |-> now] \in served /\ now \in Nat
          BY DEF RecordInv, WorldInv
        <5>5. PICK h \in served : h.provider = provider /\ h.at = now
          BY <5>4
        <5>6. ServedIn(h, plan.deployments, plan.doc.host, FromIn(path, op), now, s, op.reading[s])
          <6> HIDE DEF op
          <6>1. QED
            BY <5>1, <5>2, <5>3, <5>4, <5>5 DEF ServedIn
        <5>7. QED
          BY <5>6 DEF ReadIn
      <4>2. CASE s \notin S
        BY <1>1, <2>1, <3>1, <4>2 DEF OpIn, ReadingIn, FromIn
      <4>3. QED
        BY <4>1, <4>2
    <3>2. Has(op.reading, Slots)
      BY <2>1 DEF Has
    <3>3. QED
      BY <3>1, <3>2 DEF ReadingIn
  <2>5. OpIn(n, path, op, now, served, promotion, records[0], batches)
    BY <1>1, <2>1, <2>2, <2>3, <2>4 DEF OpIn, Steps
  <2>6. path = "operation" => \A b \in batches : b.batch # op.asked.batch
    BY <1>1, <2>1 DEF RecordInv, BatchesInv, Step, Read
  <2>7. Becomes(n, op)
    BY <1>3 DEF Read
  <2>8. QED
    BY <1>1, <2>5, <2>6, <2>7, Local DEF Read
<1>4. QED
  BY <1>2, <1>3

\* What an observer reports of complete readings, of a service truly or not.
LEMMA ReportKeeps ==
  ASSUME RecordInv, UNCHANGED <<now, world, path, batches, records>>,
         NEW n \in Sequences, Step(n, "reading"), \A s \in Slots : ops[n].reading[s] # None,
         NEW o, o.at = now, o.account = Account, o.expectation = Asked(n).expectation,
         o.phase = Asked(n).phase, o.observer = ObserverOf(n).identity,
         Becomes(n, [ops[n] EXCEPT !.at = "observed", !.observation = o])
  PROVE  RecordInv'
<1> DEFINE old == ops[n]
           plan == PlanIn(n, old.request, records[0])
           op == [old EXCEPT !.at = "observed", !.observation = o]
<1>1. /\ records[n] = None /\ OpIn(n, path, old, now, served, promotion, records[0], batches)
      /\ Has(old, OpFields) /\ old.at = "reading"
  BY OpenOp
<1>2. /\ Has(op, OpFields) /\ op.at = "observed" /\ op.asked = old.asked
      /\ op.request = old.request /\ op.issuance = old.issuance /\ op.readAt = old.readAt
      /\ op.reading = old.reading /\ op.observation = o
  BY <1>1 DEF Has, OpFields
<1>3. TimedIn(n, op, now, promotion) /\ AdmissionIn(n, op, promotion, records[0])
  BY <1>1, <1>2, SameIssue DEF OpIn
<1>4. /\ AskedIn(n, path, op, now, plan)
      /\ path = "operation" => DelegationParses(op.asked, op.issuance, n, Trust.worker, Account)
  BY <1>1, <1>2 DEF OpIn, AskedIn
<1>5. ObservedIn(n, path, op, now, served, plan)
  <2>1. \A s \in Slots :
          ReadIn(served, plan.deployments, plan.doc.host, FromIn(path, op), o.at, s, op.reading[s])
    BY <1>1, <1>2 DEF OpIn, ReadingIn, FromIn
  <2>2. now \in Nat
    BY DEF RecordInv, WorldInv
  <2>3. /\ o.expectation = plan.doc /\ o.phase = Phase(n)
        /\ o.observer = plan.doc.rows[CloudflareObserver].identity
    BY <1>1, AskedOf DEF ObserverOf
  <2> HIDE DEF plan, op, old
  <2>4. QED
    BY <1>2, <2>1, <2>2, <2>3, SMTT(40) DEF ObservedIn
<1>6. OpIn(n, path, op, now, served, promotion, records[0], batches)
  BY <1>1, <1>2, <1>3, <1>4, <1>5 DEF OpIn, Steps
<1>7. path = "operation" => \A b \in batches : b.batch # op.asked.batch
  BY <1>1, <1>2 DEF RecordInv, BatchesInv, Step
<1>8. QED
  BY <1>1, <1>6, <1>7, Local

LEMMA ObserveKeeps ==
  ASSUME RecordInv, NEW n \in Sequences, Observe(n) PROVE RecordInv'
<1>1. LET o == Honest(n) IN
      /\ o.at = now /\ o.account = Account /\ o.expectation = Asked(n).expectation
      /\ o.phase = Asked(n).phase /\ o.observer = ObserverOf(n).identity
  BY DEF Honest, Observation
<1>2. QED
  BY <1>1, ReportKeeps DEF Observe

LEMMA MisreportKeeps ==
  ASSUME RecordInv, NEW n \in Sequences, NEW r, Misreport(n, r) PROVE RecordInv'
<1>1. LET o == [Honest(n) EXCEPT !.services[r].surface = "unread"] IN
      /\ o.at = now /\ o.account = Account /\ o.expectation = Asked(n).expectation
      /\ o.phase = Asked(n).phase /\ o.observer = ObserverOf(n).identity
  BY DEF Honest, Observation
<1>2. QED
  BY <1>1, ReportKeeps DEF Misreport

-----------------------------------------------------------------------------
(* The steps to and from a batch. *)

LEMMA ConfirmKeeps ==
  ASSUME RecordInv, NEW n \in Sequences, Confirm(n) PROVE RecordInv'
<1> DEFINE old == ops[n]
<1>1. /\ records[n] = None /\ OpIn(n, path, old, now, served, promotion, records[0], batches)
      /\ Has(old, OpFields) /\ old.at = "delegated" /\ path = "operation"
  BY OpenOp DEF Confirm
<1>2. PICK result \in batches :
        /\ ResultParses(result, old.asked)
        /\ Becomes(n, [old EXCEPT !.at = "confirmed", !.answer = result,
                                  !.acceptedAt = CommittedAt(result)])
  BY DEF Confirm
<1> DEFINE op == [old EXCEPT !.at = "confirmed", !.answer = result,
                             !.acceptedAt = CommittedAt(result)]
<1>3. /\ Has(op, OpFields) /\ op.at = "confirmed" /\ op.asked = old.asked
      /\ op.request = old.request /\ op.issuance = old.issuance /\ op.readAt = old.readAt
      /\ op.answer = result /\ op.acceptedAt = result.sealedAt
  BY <1>1 DEF Has, OpFields, CommittedAt
<1>4. TimedIn(n, op, now, promotion) /\ AdmissionIn(n, op, promotion, records[0])
  BY <1>1, <1>3, SameIssue DEF OpIn
<1>5. /\ AskedIn(n, path, op, now, PlanIn(n, op.request, records[0]))
      /\ DelegationParses(op.asked, op.issuance, n, Trust.worker, Account)
  BY <1>1, <1>3 DEF OpIn, AskedIn
<1>6. OpIn(n, path, op, now, served, promotion, records[0], batches)
  BY <1>1, <1>2, <1>3, <1>4, <1>5 DEF OpIn, Steps
<1>7. QED
  BY <1>1, <1>2, <1>3, <1>6, Local DEF Confirm

LEMMA AcceptKeeps ==
  ASSUME RecordInv, NEW n \in Sequences, Accept(n) PROVE RecordInv'
<1> DEFINE old == ops[n]
           op == [old EXCEPT !.at = "accepted", !.acceptedAt = now]
           passes == AnswerAccepted(old.answer, old.asked, Account, now)
<1>1. /\ records[n] = None /\ OpIn(n, path, old, now, served, promotion, records[0], batches)
      /\ Has(old, OpFields) /\ old.at = "answered"
  BY OpenOp DEF Accept
<1>2. path = "direct"
  BY <1>1 DEF OpIn
<1>3. CASE ~ passes
  BY <1>1, <1>2, <1>3, FailsKeeps DEF Accept
<1>4. CASE passes
  <2>1. /\ Has(op, OpFields) /\ op.at = "accepted" /\ op.asked = old.asked
        /\ op.request = old.request /\ op.issuance = old.issuance /\ op.readAt = old.readAt
        /\ op.answer = old.answer /\ op.acceptedAt = now
    BY <1>1 DEF Has, OpFields
  <2>2. TimedIn(n, op, now, promotion) /\ AdmissionIn(n, op, promotion, records[0])
    BY <1>1, <2>1, SameIssue DEF OpIn
  <2>3. AskedIn(n, path, op, now, PlanIn(n, op.request, records[0])) /\ now \in Nat
    BY <1>1, <2>1 DEF OpIn, AskedIn, RecordInv, WorldInv
  <2>4. OpIn(n, path, op, now, served, promotion, records[0], batches)
    BY <1>1, <1>2, <1>4, <2>1, <2>2, <2>3 DEF OpIn, Steps
  <2>5. Becomes(n, op)
    BY <1>4 DEF Accept
  <2>6. QED
    BY <1>1, <1>2, <2>4, <2>5, Local DEF Accept
<1>5. QED
  BY <1>3, <1>4

\* Evidence that stands is of what was read, whatever an observer says.
LEMMA EvidenceSeen ==
  ASSUME NEW n, NEW p, NEW op, NEW t, NEW S, NEW plan, ObservedIn(n, p, op, t, S, plan),
         EvidenceSetStands(op.observation, Entries(op.observation, op.reading))
  PROVE  ObservationIn(S, plan.deployments, plan.doc.host, FromIn(p, op), op.observation)
<1> DEFINE o == op.observation
           from == FromIn(p, op)
<1>1. \A s \in Slots :
        ReadIn(S, plan.deployments, plan.doc.host, from, o.at, s, op.reading[s])
  BY DEF ObservedIn
<1>2. \A s \in Slots : EntryStands(Entry(o, s, op.reading[s]), s, o)
  BY DEF EvidenceSetStands, Entries
<1>3. ASSUME NEW r \in Roles
      PROVE  SeenIn(S, plan.deployments, plan.doc.host, from, o.at, r, o.services[r])
  <2>1. r \in Slots /\ r # NetworkSlot
    BY ObserverAssumption DEF Slots
  <2>2. o.services[r] = ServiceObservation(r, op.reading[r])
    BY <1>2, <2>1 DEF EntryStands, Entry
  <2>3. QED
    BY <1>1, <2>1, <2>2 DEF ReadIn, SeenIn, ServedIn
<1>4. o.network = NetworkObservation(op.reading[NetworkSlot])
  BY <1>2 DEF EntryStands, Entry, Slots
<1>5. /\ op.reading[NetworkSlot].list.body = plan.doc.host
      /\ op.reading[NetworkSlot].routes.body = {}
  BY <1>1 DEF ReadIn, ServedIn, Observes, NetworkResponsesStand, Slots
<1>6. o.network.domain = plan.doc.host /\ o.network.routes = {}
  BY <1>4, <1>5 DEF NetworkObservation
<1>7. QED
  BY <1>3, <1>6 DEF ObservationIn, ObservedIn

\* A step of an operation that has no record yet, with a batch that is added.
LEMMA LocalBatch ==
  ASSUME RecordInv, UNCHANGED <<now, world, path, records>>, BatchesInv', batches \subseteq batches',
         NEW n \in Sequences, records[n] = None, NEW op, Becomes(n, op),
         op # None => OpIn(n, path, op, now, served, promotion, records[0], batches')
  PROVE  RecordInv'
<1>1. \A m \in Sequences : ops'[m] = IF m = n THEN op ELSE ops[m]
  BY DEF RecordInv, OpsInv, Has, Becomes
<1>2. Has(ops', Sequences)
  BY DEF RecordInv, OpsInv, Has, Becomes
<1>3. WorldInv'
  BY DEF RecordInv, WorldInv, world
<1>4. Later(now, served, promotion, records[0], batches,
            now', served', promotion', records'[0], batches')
  BY Laters DEF RecordInv, WorldInv, world
<1>5. OpsInv'
  <2>1. ASSUME NEW m \in Sequences, ops'[m] # None
        PROVE  OpIn(m, path', ops'[m], now', served', promotion', records'[0], batches')
    <3>1. CASE m = n
      BY <1>1, <2>1, <3>1 DEF world
    <3>2. CASE m # n
      BY <1>1, <1>4, <2>1, <3>2, OpGrows DEF RecordInv, OpsInv
    <3>3. QED
      BY <3>1, <3>2
  <2>2. QED
    BY <1>2, <2>1 DEF OpsInv
<1>6. RecordsInv'
  <2>1. ASSUME NEW m \in Sequences, records'[m] # None
        PROVE  /\ OpIn(m, path', ops'[m], now', served', promotion', records'[0], batches')
               /\ RecordIn(m, path', ops'[m], records'[m], served', records'[0], batches')
    <3>1. /\ ops'[m] = ops[m] /\ records'[m] = records[m]
          /\ OpIn(m, path, ops[m], now, served, promotion, records[0], batches)
          /\ RecordIn(m, path, ops[m], records[m], served, records[0], batches)
      BY <1>1, <2>1 DEF RecordInv, RecordsInv
    <3>2. QED
      BY <3>1, <1>4, OpGrows, RecordGrows
  <2>2. QED
    BY <2>1 DEF RecordInv, RecordsInv
<1>7. QED
  BY <1>3, <1>5, <1>6 DEF RecordInv

LEMMA SealKeeps ==
  ASSUME RecordInv, NEW n \in Sequences, Seal(n) PROVE RecordInv'
<1> DEFINE old == ops[n]
           d == old.asked
           plan == PlanIn(n, old.request, records[0])
           entries == Entries(old.observation, old.reading)
           passes == SealParses(d, old.observation, entries, now, Account)
           b == SealedBatch(n)
<1>1. /\ records[n] = None /\ OpIn(n, path, old, now, served, promotion, records[0], batches)
      /\ Has(old, OpFields) /\ old.at = "observed" /\ path = "operation"
  BY OpenOp DEF Seal
<1>2. CASE ~ passes
  BY <1>1, <1>2, FailsKeeps DEF Seal
<1>3. CASE passes
  <2>1. AskedIn(n, path, old, now, plan) /\ ObservedIn(n, path, old, now, served, plan)
    BY <1>1 DEF OpIn
  <2>2. /\ d.batch = BatchId(d.issuance, d.sequence) /\ d.batch[3] = n
        /\ d.request.deployments = plan.deployments /\ d.request.host = plan.doc.host
        /\ FromIn(path, old) = d.committedAt
    BY <1>1, <2>1 DEF AskedIn, Delegation, ObserverRequest, BatchId, FromIn
  <2>3. /\ b.batch = d.batch /\ b.delegation = d /\ b.observation = old.observation
        /\ b.sealedAt = now
        /\ \A s \in Slots : b.stored[s] = Stored(b.stored[s].digest, b.stored[s].key,
                                                <<b.batch, s>>, b.sealedAt + Term)
    BY DEF SealedBatch, BatchResult, StoredEvidence, Stored
  <2>4. ObservationIn(served, plan.deployments, plan.doc.host, d.committedAt, old.observation)
    BY <1>3, <2>1, <2>2, EvidenceSeen DEF SealParses
  <2>5. BatchIn(path, b, now, served, promotion)
    <3>1. now \in Nat
      BY DEF RecordInv, WorldInv
    <3>2. QED
      BY <1>1, <2>2, <2>3, <2>4, <3>1 DEF BatchIn
  <2>6. PICK op : /\ Becomes(n, op) /\ op.at = "delegated"
                  /\ OpIn(n, path, op, now, served, promotion, records[0], batches)
    BY <1>1, FailsTo DEF Seal
  <2>7. \A m \in Sequences : ops'[m] = IF m = n THEN op ELSE ops[m]
    BY <2>6 DEF RecordInv, OpsInv, Has, Becomes
  <2>8. batches' = batches \cup {b}
    BY <1>3 DEF Seal
  <2>9. BatchesInv'
    <3>1. \A c \in batches' : BatchIn(path', c, now', served', promotion')
      BY <2>5, <2>8 DEF Seal, world, RecordInv, BatchesInv
    <3>2. \A c \in batches : c.batch # b.batch
      BY <1>1, <2>3 DEF RecordInv, BatchesInv, Seal, Step
    <3>3. \A c, e \in batches' : c.batch = e.batch => c = e
      BY <1>1, <2>8, <3>2 DEF RecordInv, BatchesInv
    <3>4. ASSUME NEW m \in Sequences, ops'[m] # None, ops'[m].at \in {"reading", "observed"},
                 NEW c \in batches'
          PROVE  c.batch # ops'[m].asked.batch
      <4>1. m # n /\ ops'[m] = ops[m]
        BY <2>6, <2>7, <3>4
      <4>2. AskedIn(m, path, ops[m], now, PlanIn(m, ops[m].request, records[0]))
        BY <3>4, <4>1 DEF RecordInv, OpsInv, OpIn
      <4>3. ops[m].asked.batch[3] = m
        BY <1>1, <4>2 DEF AskedIn, Delegation, BatchId
      <4>4. CASE c = b
        BY <2>2, <2>3, <4>1, <4>3, <4>4
      <4>5. CASE c \in batches
        BY <1>1, <3>4, <4>1, <4>5 DEF RecordInv, BatchesInv
      <4>6. QED
        BY <2>8, <4>4, <4>5
    <3>5. QED
      BY <3>1, <3>3, <3>4 DEF BatchesInv
  <2>10. OpIn(n, path, op, now, served, promotion, records[0], batches')
    <3>1. Later(now, served, promotion, records[0], batches,
                now, served, promotion, records[0], batches')
      BY <2>8 DEF Later, RecordInv, WorldInv
    <3>2. QED
      BY <2>6, <3>1, OpGrows
  <2>11. QED
    BY <1>1, <2>6, <2>8, <2>9, <2>10, LocalBatch DEF Seal
<1>4. QED
  BY <1>2, <1>3

\* What a phase expects is what is planned of it.
LEMMA PlannedIn ==
  ASSUME NEW n \in Sequences, NEW op, NEW pr, NEW a0, AdmissionIn(n, op, pr, a0)
  PROVE  LET plan == PlanIn(n, op.request, a0) IN
         /\ DeploymentsIn(plan.doc, Phase(n), pr) = plan.deployments
         /\ Phase(n) \in {Phase(m) : m \in Sequences}
         /\ Phase(n) = Phase(1) => Settled(pr)
BY DEF AdmissionIn, PlanIn, DeploymentsIn, ProvisionPlan, FinalizePlan, Plan, Phase, Sequences

LEMMA MirrorKeeps ==
  ASSUME RecordInv, NEW n \in Sequences, Mirror(n) PROVE RecordInv'
<1> DEFINE old == ops[n]
           plan == PlanIn(n, old.request, records[0])
           olds == {b \in batches : b.batch = DirectBatch(n)}
           stands == EvidenceSetStands(old.observation, Entries(old.observation, old.reading))
           Answered(b) == [old EXCEPT !.at = "answered", !.answer = b,
                                      !.reading = Unread, !.observation = None]
<1>1. /\ records[n] = None /\ OpIn(n, path, old, now, served, promotion, records[0], batches)
      /\ Has(old, OpFields) /\ old.at = "observed" /\ path = "direct"
  BY OpenOp DEF Mirror
<1>2. DirectBatch(n) = LegacyBatchId(plan.doc, plan.doc.rows[CloudflareObserver].version, Phase(n))
  BY <1>1, AskedOf DEF DirectBatch, ObserverOf
<1>3. ASSUME NEW B, NEW b \in B, b.batch = DirectBatch(n)
      PROVE  OpIn(n, path, Answered(b), now, served, promotion, records[0], B)
  <2> DEFINE op == Answered(b)
  <2>1. /\ Has(op, OpFields) /\ op.at = "answered" /\ op.asked = old.asked
        /\ op.request = old.request /\ op.issuance = old.issuance /\ op.readAt = old.readAt
        /\ op.answer = b
    BY <1>1 DEF Has, OpFields
  <2>2. TimedIn(n, op, now, promotion) /\ AdmissionIn(n, op, promotion, records[0])
    BY <1>1, <2>1, SameIssue DEF OpIn
  <2>3. AskedIn(n, path, op, now, plan)
    BY <1>1, <2>1 DEF OpIn, AskedIn
  <2>4. QED
    BY <1>1, <1>2, <1>3, <2>1, <2>2, <2>3 DEF OpIn, Steps
<1>4. CASE olds # {}
  <2>1. PICK b \in batches : b.batch = DirectBatch(n) /\ Becomes(n, Answered(b))
    BY <1>4 DEF Mirror, Answers
  <2>2. QED
    BY <1>1, <1>3, <1>4, <2>1, Local DEF Mirror
<1>5. CASE olds = {} /\ ~ stands
  BY <1>1, <1>5, FailsKeeps DEF Mirror
<1>6. CASE olds = {} /\ stands
  <2> DEFINE b == DirectAnswer(n)
             o == old.observation
  <2>1. batches' = batches \cup {b} /\ Becomes(n, Answered(b))
    BY <1>6 DEF Mirror, Answers
  <2>2. ObservedIn(n, path, old, now, served, plan) /\ AdmissionIn(n, old, promotion, records[0])
    BY <1>1 DEF OpIn
  <2>3. ObservationIn(served, plan.deployments, plan.doc.host, 0, o)
    BY <1>1, <1>6, <2>2, EvidenceSeen DEF FromIn
  <2>4. o.expectation = plan.doc /\ o.phase = Phase(n)
    BY <2>2 DEF ObservedIn
  <2>5. /\ b.batch = DirectBatch(n) /\ b.observation = o
        /\ \A s \in Slots : b.stored[s].version = <<b.batch, s>>
    BY DEF DirectAnswer, StoredEvidence, Stored
  <2>6. BatchIn(path, b, now, served, promotion)
    <3>1. /\ DeploymentsIn(plan.doc, Phase(n), promotion) = plan.deployments
          /\ Phase(n) \in {Phase(m) : m \in Sequences}
          /\ Phase(n) = Phase(1) => Settled(promotion)
      BY <2>2, PlannedIn
    <3> HIDE DEF b, plan, o
    <3>2. b.batch = LegacyBatchId(o.expectation, o.expectation.rows[CloudflareObserver].version,
                                  o.phase)
      BY <1>2, <2>4, <2>5
    <3>3. /\ o.phase \in {Phase(m) : m \in Sequences}
          /\ o.phase = Phase(1) => Settled(promotion)
          /\ ObservationIn(served, DeploymentsIn(o.expectation, o.phase, promotion),
                           o.expectation.host, 0, o)
      BY <2>3, <2>4, <3>1
    <3>4. path # "operation" /\ b.observation = o
      BY <1>1, <2>5
    <3>5. QED
      BY <2>5, <3>2, <3>3, <3>4 DEF BatchIn
  <2>7. BatchesInv'
    BY <1>1, <2>1, <2>6 DEF Mirror, world, RecordInv, BatchesInv
  <2>8. QED
    BY <1>1, <1>3, <2>1, <2>5, <2>7, LocalBatch DEF Mirror
<1>7. QED
  BY <1>4, <1>5, <1>6

-----------------------------------------------------------------------------
(* The step that makes a record. *)

LEMMA LocalRecord ==
  ASSUME RecordInv, UNCHANGED <<now, world, path, batches>>,
         NEW n \in Sequences, records[n] = None, NEW op, Becomes(n, op), op.at = "recorded",
         OpIn(n, path, op, now, served, promotion, records[0], batches),
         NEW record, records' = [records EXCEPT ![n] = record],
         RecordIn(n, path, op, record, served, records[0], batches)
  PROVE  RecordInv'
<1>1. \A m \in Sequences : ops'[m] = IF m = n THEN op ELSE ops[m]
  BY DEF RecordInv, OpsInv, Has, Becomes
<1>2. \A m \in Sequences : records'[m] = IF m = n THEN record ELSE records[m]
  BY DEF RecordInv, RecordsInv, Has
<1>3. Has(ops', Sequences) /\ Has(records', Sequences)
  BY DEF RecordInv, OpsInv, RecordsInv, Has, Becomes
<1>4. WorldInv'
  BY DEF RecordInv, WorldInv, world
<1>5. Later(now, served, promotion, records[0], batches,
            now', served', promotion', records'[0], batches')
  <2>1. records[0] # None => records'[0] = records[0]
    BY <1>2 DEF Sequences
  <2>2. QED
    BY <2>1, Laters DEF RecordInv, WorldInv, world
<1>6. OpIn(n, path', op, now', served', promotion', records'[0], batches')
  BY <1>5, OpGrows
<1>7. OpsInv'
  <2>1. ASSUME NEW m \in Sequences, ops'[m] # None
        PROVE  OpIn(m, path', ops'[m], now', served', promotion', records'[0], batches')
    BY <1>1, <1>5, <1>6, <2>1, OpGrows DEF RecordInv, OpsInv
  <2>2. QED
    BY <1>3, <2>1 DEF OpsInv
<1>8. BatchesInv'
  <2>1. \A b \in batches' : BatchIn(path', b, now', served', promotion')
    BY DEF RecordInv, BatchesInv, world
  <2>2. QED
    BY <2>1, <1>1 DEF RecordInv, BatchesInv
<1>9. RecordsInv'
  <2>1. ASSUME NEW m \in Sequences, records'[m] # None
        PROVE  /\ OpIn(m, path', ops'[m], now', served', promotion', records'[0], batches')
               /\ RecordIn(m, path', ops'[m], records'[m], served', records'[0], batches')
    <3>1. CASE m = n
      BY <1>1, <1>2, <1>5, <1>6, <3>1, RecordGrows
    <3>2. CASE m # n
      <4>1. /\ ops'[m] = ops[m] /\ records'[m] = records[m]
            /\ OpIn(m, path, ops[m], now, served, promotion, records[0], batches)
            /\ RecordIn(m, path, ops[m], records[m], served, records[0], batches)
        BY <1>1, <1>2, <2>1, <3>2 DEF RecordInv, RecordsInv
      <4>2. QED
        BY <4>1, <1>5, OpGrows, RecordGrows
    <3>3. QED
      BY <3>1, <3>2
  <2>2. QED
    BY <1>3, <2>1 DEF RecordsInv
<1>10. QED
  BY <1>4, <1>7, <1>8, <1>9 DEF RecordInv

\* What is left of an operation when its record is made.
LEMMA OpDone ==
  ASSUME RecordInv, NEW n \in Sequences, ops[n].at \in {"confirmed", "accepted"},
         OpIn(n, path, ops[n], now, served, promotion, records[0], batches)
  PROVE  LET op == [ops[n] EXCEPT !.at = "recorded", !.answer = None] IN
         /\ op.at = "recorded" /\ op.asked = ops[n].asked
         /\ op.request = ops[n].request /\ op.issuance = ops[n].issuance
         /\ OpIn(n, path, op, now, served, promotion, records[0], batches)
<1> DEFINE old == ops[n]
           op == [old EXCEPT !.at = "recorded", !.answer = None]
<1>1. Has(old, OpFields)
  BY DEF OpIn
<1>2. /\ Has(op, OpFields) /\ op.at = "recorded" /\ op.asked = old.asked
      /\ op.request = old.request /\ op.issuance = old.issuance /\ op.readAt = old.readAt
  BY <1>1 DEF Has, OpFields
<1>3. TimedIn(n, op, now, promotion) /\ AdmissionIn(n, op, promotion, records[0])
  BY <1>2, SameIssue DEF OpIn
<1>4. /\ AskedIn(n, path, op, now, PlanIn(n, op.request, records[0]))
      /\ path = "operation" => DelegationParses(op.asked, op.issuance, n, Trust.worker, Account)
  BY <1>2 DEF OpIn, AskedIn
<1>5. OpIn(n, path, op, now, served, promotion, records[0], batches)
  BY <1>2, <1>3, <1>4 DEF OpIn, Steps
<1>6. QED
  BY <1>2, <1>5

\* A batch whose result parses is of what its delegation was planned for.
LEMMA ResultOfPlan ==
  ASSUME RecordInv, NEW n \in Sequences, path = "operation",
         NEW op, op.at \notin {"issued", "planned"},
         OpIn(n, path, op, now, served, promotion, records[0], batches),
         NEW b \in batches, ResultParses(b, op.asked)
  PROVE  LET plan == PlanIn(n, op.request, records[0])
             rows == plan.doc.rows
             d == op.asked
             o == b.observation IN
         /\ d.request.deployments = plan.deployments /\ d.request.expectation = plan.doc
         /\ d.request.host = plan.doc.host /\ d.request.inventory = rows
         /\ d.batch = BatchId(op.issuance, n)
         /\ b.batch = d.batch /\ b.delegation = d /\ b.pins = BatchPins(rows)
         /\ b.delegatedAt = d.committedAt
         /\ op.issuance.issuedAt \in Nat /\ d.committedAt \in Nat /\ o.at \in Nat /\ b.sealedAt \in Nat
         /\ op.issuance.issuedAt <= d.committedAt /\ d.committedAt <= o.at /\ o.at <= b.sealedAt
         /\ b.sealedAt <= op.issuance.freshUntil
         /\ Within(op.issuance.issuedAt, b.sealedAt)
         /\ o.expectation = plan.doc /\ o.phase = Phase(n)
         /\ o.observer = rows[CloudflareObserver].identity
         /\ ObservationIn(served, plan.deployments, plan.doc.host, d.committedAt, o)
         /\ \A s \in Slots :
              b.stored[s] = Stored(Sanitized(s, Entry(o, s, {})),
                                   BatchKey(rows[CloudflareObserver].version, d.batch, s),
                                   <<b.batch, s>>, b.sealedAt + Term)
<1> DEFINE plan == PlanIn(n, op.request, records[0])
           rows == plan.doc.rows
           d == op.asked
           o == b.observation
<1>1. AskedIn(n, path, op, now, plan) /\ DelegationParses(d, op.issuance, n, Trust.worker, Account)
  BY DEF OpIn
<1>2. /\ d.request.deployments = plan.deployments /\ d.request.expectation = plan.doc
      /\ d.request.host = plan.doc.host /\ d.request.inventory = rows
      /\ d.request.phase = Phase(n) /\ d.issuance = op.issuance
      /\ d.batch = BatchId(op.issuance, n)
      /\ d.committedAt \in Nat
  BY <1>1 DEF AskedIn, Delegation, ObserverRequest
<1>3. d.pins = BatchPins(rows)
  BY <1>1, <1>2 DEF DelegationParses, InventoryPins
<1>4. BatchIn(path, b, now, served, promotion)
  BY DEF RecordInv, BatchesInv
<1>5. /\ b.batch = d.batch /\ b.delegation = d /\ b.pins = BatchPins(rows)
      /\ b.delegatedAt = d.committedAt
      /\ o.expectation = plan.doc /\ o.phase = Phase(n)
      /\ d.pins.cloudflare = PinOf(rows[CloudflareObserver])
      /\ o.observer = rows[CloudflareObserver].identity
  <2> HIDE DEF plan
  <2>1. QED
    BY <1>2, <1>3, SMTT(40) DEF ResultParses, BatchPins, PinOf
<1>6. op.issuance.issuedAt \in Nat
  BY DEF OpIn, TimedIn
<1>7. /\ ObservationIn(served, plan.deployments, plan.doc.host, d.committedAt, o)
      /\ b.sealedAt \in Nat
  BY <1>2, <1>4, <1>5 DEF BatchIn
<1>8. ASSUME NEW s \in Slots
      PROVE  b.stored[s] = Stored(Sanitized(s, Entry(o, s, {})),
                                  BatchKey(rows[CloudflareObserver].version, d.batch, s),
                                  <<b.batch, s>>, b.sealedAt + Term)
  <2>1. b.stored[s] = Stored(b.stored[s].digest, b.stored[s].key, <<b.batch, s>>, b.sealedAt + Term)
    BY <1>4 DEF BatchIn
  <2>2. /\ b.stored[s].digest = Sanitized(s, Entry(o, s, {}))
        /\ b.stored[s].key = BatchKey(rows[CloudflareObserver].version, d.batch, s)
    <3> HIDE DEF plan
    <3>1. QED
      BY <1>5, SMTT(40) DEF ResultParses, PinOf
  <2>3. QED
    BY <2>1, <2>2
<1>9. /\ op.issuance.issuedAt <= d.committedAt /\ d.committedAt <= o.at /\ o.at <= b.sealedAt
      /\ b.sealedAt <= op.issuance.freshUntil
      /\ Within(op.issuance.issuedAt, b.sealedAt)
  BY <1>2 DEF ResultParses
<1>10. o.at \in Nat
  BY <1>7 DEF ObservationIn
<1>11. QED
  BY <1>2, <1>5, <1>6, <1>7, <1>8, <1>9, <1>10

\* What an observation was, its compact form is.
LEMMA CompactSeen ==
  ASSUME NEW S, NEW D, NEW H, NEW from, NEW o, ObservationIn(S, D, H, from, o),
         NEW stored, NEW pins, NEW at
  PROVE  LET c == Compact(o, stored, pins, at) IN
         /\ c.observedAt = o.at /\ o.at \in Nat /\ c.acceptedAt = at
         /\ c.phase = o.phase /\ c.expectation = o.expectation /\ c.observer = o.observer
         /\ c.executor = pins.executor /\ c.b2Observer = pins.b2Observer
         /\ c.anchors = stored
         /\ \A r \in Roles : c.services[r] = CompactService(o.services[r])
         /\ \A r \in Roles : CompactSeenIn(S, D, H, from, c.observedAt, r, c.services[r])
         /\ c.network = [domain |-> H, routes |-> {}]
<1> DEFINE c == Compact(o, stored, pins, at)
<1>1. /\ c.observedAt = o.at /\ o.at \in Nat /\ c.acceptedAt = at
      /\ c.phase = o.phase /\ c.expectation = o.expectation /\ c.observer = o.observer
      /\ c.executor = pins.executor /\ c.b2Observer = pins.b2Observer
      /\ c.anchors = stored
      /\ \A r \in Roles : c.services[r] = CompactService(o.services[r])
      /\ c.network = CompactNetwork(o.network)
  BY DEF Compact, ObservationIn
<1>2. ASSUME NEW r \in Roles PROVE CompactSeenIn(S, D, H, from, c.observedAt, r, c.services[r])
  <2>1. SeenIn(S, D, H, from, o.at, r, o.services[r])
    BY DEF ObservationIn
  <2>2. QED
    BY <1>1, <2>1 DEF SeenIn, CompactSeenIn
<1>3. c.network = [domain |-> H, routes |-> {}]
  BY <1>1 DEF ObservationIn, CompactNetwork
<1>4. QED
  BY <1>1, <1>2, <1>3

LEMMA CompactOfBatchIn ==
  ASSUME RecordInv, NEW n \in Sequences, path = "operation",
         NEW op, op.at \notin {"issued", "planned"},
         OpIn(n, path, op, now, served, promotion, records[0], batches),
         NEW b \in batches, ResultParses(b, op.asked)
  PROVE  /\ CompactIn(n, path, CompactOfBatch(b), PlanIn(n, op.request, records[0]), served,
                      FromIn(path, op))
         /\ CompactOfBatch(b).acceptedAt = b.sealedAt
         /\ CompactOfBatch(b).observedAt = b.observation.at
<1> DEFINE plan == PlanIn(n, op.request, records[0])
           rows == plan.doc.rows
           d == op.asked
           o == b.observation
           c == CompactOfBatch(b)
           pins == [executor |-> b.pins.worm.identity, b2Observer |-> b.pins.b2.identity]
           stored(s) == Stored(Sanitized(s, Entry(o, s, {})),
                               BatchKey(rows[CloudflareObserver].version, d.batch, s),
                               <<b.batch, s>>, b.sealedAt + Term)
<1>1. /\ d.batch = BatchId(op.issuance, n)
      /\ b.batch = d.batch /\ b.pins = BatchPins(rows)
      /\ op.issuance.issuedAt \in Nat /\ d.committedAt \in Nat /\ o.at \in Nat /\ b.sealedAt \in Nat
      /\ op.issuance.issuedAt <= d.committedAt /\ d.committedAt <= o.at /\ o.at <= b.sealedAt
      /\ Within(op.issuance.issuedAt, b.sealedAt)
      /\ o.expectation = plan.doc /\ o.phase = Phase(n)
      /\ o.observer = rows[CloudflareObserver].identity
      /\ ObservationIn(served, plan.deployments, plan.doc.host, d.committedAt, o)
      /\ \A s \in Slots : b.stored[s] = stored(s)
  BY ResultOfPlan
<1> HIDE DEF plan
<1>2. /\ c.observedAt = o.at /\ o.at \in Nat /\ c.acceptedAt = b.sealedAt
      /\ c.phase = o.phase /\ c.expectation = o.expectation /\ c.observer = o.observer
      /\ c.executor = pins.executor /\ c.b2Observer = pins.b2Observer
      /\ c.anchors = b.stored
      /\ \A r \in Roles :
           CompactSeenIn(served, plan.deployments, plan.doc.host, d.committedAt, c.observedAt, r,
                         c.services[r])
      /\ c.network = [domain |-> plan.doc.host, routes |-> {}]
  <2>1. ObservationIn(served, plan.deployments, plan.doc.host, d.committedAt, o)
    BY <1>1
  <2>2. c = Compact(o, b.stored, pins, b.sealedAt)
    BY DEF CompactOfBatch
  <2> DEFINE k == Compact(o, b.stored, pins, b.sealedAt)
  <2>3. /\ k.observedAt = o.at /\ o.at \in Nat /\ k.acceptedAt = b.sealedAt
        /\ k.phase = o.phase /\ k.expectation = o.expectation /\ k.observer = o.observer
        /\ k.executor = pins.executor /\ k.b2Observer = pins.b2Observer
        /\ k.anchors = b.stored
        /\ \A r \in Roles :
             CompactSeenIn(served, plan.deployments, plan.doc.host, d.committedAt, k.observedAt, r,
                           k.services[r])
        /\ k.network = [domain |-> plan.doc.host, routes |-> {}]
    <3> HIDE DEF o, d, pins
    <3>1. QED
      BY <2>1, CompactSeen
  <2> HIDE DEF c, o, d, pins, k
  <2>4. c = k
    BY <2>2 DEF k
  <2>5. QED
    BY <2>3, <2>4
<1>3. c.executor = rows[Executor].identity /\ c.b2Observer = rows[Observer].identity
  BY <1>1, <1>2 DEF BatchPins, PinOf
<1>4. Within(c.observedAt, c.acceptedAt)
  BY <1>1, <1>2, WindowAssumption DEF Within
<1>5. AnchorsStand(c.anchors, rows[CloudflareObserver].version, c.observedAt)
  <2>1. ASSUME NEW s \in Slots
        PROVE  /\ c.anchors[s].key.observer = rows[CloudflareObserver].version
               /\ c.anchors[s].key.slot = s /\ c.anchors[s].key.family = "v2"
               /\ c.anchors[s].key.batch = d.batch
               /\ c.anchors[s].version = <<b.batch, s>>
               /\ c.anchors[s].retained >= c.observedAt + Term
    <3>1. /\ c.anchors[s].key = BatchKey(rows[CloudflareObserver].version, d.batch, s)
          /\ c.anchors[s].version = <<b.batch, s>>
          /\ c.anchors[s].retained = b.sealedAt + Term
      <4>1. c.anchors[s] = stored(s)
        BY <1>1, <1>2
      <4>2. QED
        BY <4>1 DEF Stored
    <3>2. b.sealedAt + Term >= c.observedAt + Term
      BY <1>1, <1>2, TermAssumption
    <3>3. QED
      BY <3>1, <3>2 DEF BatchKey
  <2>2. PICK s \in Slots : TRUE
    BY DEF Slots
  <2>3. QED
    BY <2>1, <2>2 DEF AnchorsStand
<1>6. CompactIn(n, path, c, plan, served, FromIn(path, op))
  BY <1>1, <1>2, <1>3, <1>4, <1>5 DEF CompactIn, FromIn
<1>7. QED
  BY <1>2, <1>6 DEF plan

\* A record is of its compact observation and of the instant it was committed.
LEMMA RecFields ==
  ASSUME NEW n, NEW q, NEW a0, NEW request, NEW c, NEW at
  PROVE  LET record == RecIn(n, q, a0, request, c, at) IN
         record.observation = c /\ record.committedAt = at
BY DEF RecIn, ProvisionedRecord, ActivatedRecord

LEMMA MaterializeKeeps ==
  ASSUME RecordInv, NEW n \in Sequences, Materialize(n) PROVE RecordInv'
<1> DEFINE old == ops[n]
           op == [old EXCEPT !.at = "recorded", !.answer = None]
           plan == PlanIn(n, old.request, records[0])
           b == old.answer
           c == CompactOfBatch(b)
           record == RecIn(n, old.request, records[0], old.issuance.id, c, old.acceptedAt)
<1>1. /\ records[n] = None /\ OpIn(n, path, old, now, served, promotion, records[0], batches)
      /\ old.at = "confirmed"
  BY OpenOp DEF Materialize
<1>2. /\ path = "operation" /\ b \in batches /\ ResultParses(b, old.asked)
      /\ old.acceptedAt = b.sealedAt
  BY <1>1 DEF OpIn
<1>3. /\ op.at = "recorded" /\ op.asked = old.asked
      /\ op.request = old.request /\ op.issuance = old.issuance
      /\ OpIn(n, path, op, now, served, promotion, records[0], batches)
  BY <1>1, OpDone
<1>4. /\ CompactIn(n, path, c, plan, served, FromIn(path, old))
      /\ c.acceptedAt = b.sealedAt
  BY <1>1, <1>2, CompactOfBatchIn
<1>5. ChronologyIn(n, old.request, records[0], c, old.acceptedAt)
  BY DEF Materialize, RecordStands, ChronologyIn
<1>6. record.observation = c /\ record.committedAt = old.acceptedAt
  BY RecFields
<1>7. old.acceptedAt \in Nat
  BY <1>2, <1>4 DEF CompactIn
<1>8. RecordIn(n, path, op, record, served, records[0], batches)
  <2> HIDE DEF op, plan, b, c, record
  <2>1. FromIn(path, op) = FromIn(path, old)
    BY <1>3 DEF FromIn
  <2>2. plan = PlanIn(n, op.request, records[0])
    BY <1>3 DEF plan
  <2>3. record = RecIn(n, op.request, records[0], op.issuance.id, record.observation,
                       record.committedAt)
    BY <1>3, <1>6 DEF record
  <2>4. QED
    BY <1>2, <1>3, <1>4, <1>5, <1>6, <1>7, <2>1, <2>2, <2>3 DEF RecordIn
<1>9. records' = [records EXCEPT ![n] = record] /\ Becomes(n, op)
  <2>1. RecordOf(n, old.request, old.issuance.id, c, old.acceptedAt) = record
    BY DEF RecordOf, RecIn
  <2>2. Becomes(n, op)
    BY DEF Materialize
  <2>3. records' = [records EXCEPT ![n] = RecordOf(n, old.request, old.issuance.id, c, old.acceptedAt)]
    BY DEF Materialize
  <2> HIDE DEF record, op, c
  <2>4. QED
    BY <2>1, <2>2, <2>3
<1>10. QED
  BY <1>1, <1>3, <1>8, <1>9, LocalRecord DEF Materialize

\* What compact services and the keys of objects are made of.
LEMMA CompactParts ==
  ASSUME NEW part
  PROVE  LET service == CompactService(part) IN
         /\ service.role = part.role /\ service.id = part.id
         /\ service.membership = part.membership
         /\ service.versions = part.versions /\ service.surface = part.surface
BY DEF CompactService

\* Objects of one batch of the direct path are anchors of an observation.
LEMMA LegacyAnchors ==
  ASSUME NEW anchors, NEW observer, NEW at, NEW batch,
         \A s \in Slots : /\ anchors[s].key = LegacyKey(observer, s)
                          /\ anchors[s].retained >= at + Term
                          /\ anchors[s].version = <<batch, s>>
  PROVE  AnchorsStand(anchors, observer, at)
<1>1. ASSUME NEW s \in Slots
      PROVE  /\ anchors[s].key.family = "legacy" /\ anchors[s].key.observer = observer
             /\ anchors[s].key.slot = s
  <2>1. anchors[s].key = LegacyKey(observer, s)
    OBVIOUS
  <2>2. QED
    BY <2>1 DEF LegacyKey
<1>2. ASSUME NEW s \in Slots, NEW r \in Slots, anchors[s].version = anchors[r].version
      PROVE  s = r
  <2>1. anchors[s].version = <<batch, s>> /\ anchors[r].version = <<batch, r>>
    OBVIOUS
  <2>2. <<batch, s>> = <<batch, r>>
    BY <1>2, <2>1
  <2>3. QED
    BY ONLY <2>2
<1>3. \A s \in Slots : anchors[s].retained >= at + Term
  OBVIOUS
<1>4. QED
  BY <1>1, <1>2, <1>3 DEF AnchorsStand

\* The compact observation of an answer that is accepted
LEMMA CompactOfAccepted ==
  ASSUME NEW S, NEW n, NEW plan, NEW b, NEW o, o = b.observation, NEW at \in Nat,
         ObservationIn(S, plan.deployments, plan.doc.host, 0, o),
         o.expectation = plan.doc, o.phase = Phase(n),
         o.observer = plan.doc.rows[CloudflareObserver].identity,
         b.executor = plan.doc.rows[Executor].identity,
         b.b2Observer = plan.doc.rows[Observer].identity,
         Within(o.at, at),
         MatchesInventory(o, plan.doc.rows, plan.deployments, plan.doc.host),
         \A s \in Slots : /\ b.stored[s].key = LegacyKey(plan.doc.rows[CloudflareObserver].version, s)
                          /\ b.stored[s].retained >= o.at + Term
                          /\ b.stored[s].version = <<b.batch, s>>,
         NEW c,
         c = Compact(o, b.stored, [executor |-> b.executor, b2Observer |-> b.b2Observer], at)
  PROVE  CompactIn(n, "direct", c, plan, S, 0)
<1>1. /\ c.observedAt = o.at /\ o.at \in Nat /\ c.acceptedAt = at
      /\ c.phase = o.phase /\ c.expectation = o.expectation /\ c.observer = o.observer
      /\ c.executor = b.executor /\ c.b2Observer = b.b2Observer
      /\ c.anchors = b.stored
      /\ c.network = [domain |-> plan.doc.host, routes |-> {}]
  BY DEF Compact, ObservationIn, CompactNetwork
<1>2. \A r \in Roles : c.services[r] = CompactService(o.services[r])
  BY DEF Compact
<1>3. \A r \in Roles :
        CompactSeenIn(S, plan.deployments, plan.doc.host, 0, c.observedAt, r, c.services[r])
  BY <1>1, <1>2 DEF ObservationIn, SeenIn, CompactSeenIn
<1>4. AnchorsStand(c.anchors, plan.doc.rows[CloudflareObserver].version, c.observedAt)
  <2>1. AnchorsStand(b.stored, plan.doc.rows[CloudflareObserver].version, o.at)
    BY LegacyAnchors
  <2>2. QED
    BY <1>1, <2>1
<1>5. VersionsIn(plan.deployments, c)
  <2>1. \A r \in Roles : c.services[r].versions = o.services[r].versions
    BY <1>2, CompactParts
  <2>2. ASSUME NEW r \in Roles, NEW m \in plan.deployments[r].members
        PROVE  o.services[r].versions[m.version] = [code |-> m.code, record |-> m.record]
    BY DEF MatchesInventory
  <2>3. QED
    BY <2>1, <2>2, ZenonT(60) DEF VersionsIn
<1>6. QED
  BY <1>1, <1>3, <1>4, <1>5 DEF CompactIn

LEMMA CompactOfAnswerIn ==
  ASSUME RecordInv, NEW n \in Sequences, ops[n].at = "accepted",
         OpIn(n, path, ops[n], now, served, promotion, records[0], batches)
  PROVE  CompactIn(n, path, CompactOfAnswer(ops[n]), PlanIn(n, ops[n].request, records[0]), served,
                   FromIn(path, ops[n]))
<1> DEFINE op == ops[n]
           plan == PlanIn(n, op.request, records[0])
           rows == plan.doc.rows
           b == op.answer
           o == b.observation
           c == CompactOfAnswer(op)
<1>1. /\ path = "direct" /\ b \in batches /\ op.acceptedAt \in Nat
      /\ AnswerAccepted(b, op.asked, Account, op.acceptedAt)
      /\ b.batch = LegacyBatchId(plan.doc, rows[CloudflareObserver].version, Phase(n))
      /\ AdmissionIn(n, op, promotion, records[0])
  BY DEF OpIn
<1>2. BatchIn(path, b, now, served, promotion)
  BY <1>1 DEF RecordInv, BatchesInv
<1>3. /\ Asked(n) = op.asked /\ op.asked.inventory = rows /\ op.asked.deployments = plan.deployments
      /\ op.asked.host = plan.doc.host
  BY <1>1, AskedOf DEF Asked
<1>4. o.expectation = plan.doc /\ o.phase = Phase(n)
  <2>1. b.batch = LegacyBatchId(o.expectation, o.expectation.rows[CloudflareObserver].version, o.phase)
    <3>1. path # "operation"
      BY <1>1
    <3>2. QED
      BY <1>2, <3>1 DEF BatchIn
  <2> HIDE DEF plan, o
  <2>2. QED
    BY <1>1, <2>1 DEF LegacyBatchId
<1>5. DeploymentsIn(plan.doc, Phase(n), promotion) = plan.deployments
  BY <1>1, PlannedIn
<1> HIDE DEF plan
<1>6. ObservationIn(served, plan.deployments, plan.doc.host, 0, o)
  <2>1. path # "operation"
    BY <1>1
  <2>2. ObservationIn(served, DeploymentsIn(o.expectation, o.phase, promotion), o.expectation.host, 0, o)
    BY <1>2, <2>1 DEF BatchIn
  <2>3. QED
    BY <1>4, <1>5, <2>2
<1>7. /\ o.observer = rows[CloudflareObserver].identity
      /\ b.executor = rows[Executor].identity /\ b.b2Observer = rows[Observer].identity
      /\ Within(o.at, op.acceptedAt)
      /\ MatchesInventory(o, rows, plan.deployments, plan.doc.host)
      /\ \A s \in Slots : /\ b.stored[s].key = LegacyKey(rows[CloudflareObserver].version, s)
                          /\ b.stored[s].retained >= o.at + Term
  BY <1>1, <1>3 DEF AnswerAccepted
<1>8. \A s \in Slots : b.stored[s].version = <<b.batch, s>>
  BY <1>1, <1>2 DEF BatchIn
<1>9. c = Compact(o, b.stored, [executor |-> b.executor, b2Observer |-> b.b2Observer], op.acceptedAt)
  BY DEF CompactOfAnswer
<1>10. CompactIn(n, "direct", c, plan, served, 0)
  BY <1>1, <1>4, <1>6, <1>7, <1>8, <1>9, CompactOfAccepted
<1>11. QED
  BY <1>1, <1>10 DEF plan, FromIn

LEMMA CommitKeeps ==
  ASSUME RecordInv, NEW n \in Sequences, Commit(n) PROVE RecordInv'
<1> DEFINE old == ops[n]
           op == [old EXCEPT !.at = "recorded", !.answer = None]
           plan == PlanIn(n, old.request, records[0])
           c == CompactOfAnswer(old)
           record == RecIn(n, old.request, records[0], old.issuance.id, c, now)
           passes == ChronologyIn(n, old.request, records[0], c, now)
<1>1. /\ records[n] = None /\ OpIn(n, path, old, now, served, promotion, records[0], batches)
      /\ old.at = "accepted"
  BY OpenOp DEF Commit
<1>2. path = "direct"
  BY <1>1 DEF OpIn
<1>3. passes <=> IF n = 0 THEN CommitFresh(c, now)
                 ELSE ActivationChronology(records[0].committedAt, old.request.promotion, c, now)
  BY DEF ChronologyIn
<1>4. CASE ~ passes
  BY <1>1, <1>2, <1>3, <1>4, FailsKeeps DEF Commit
<1>5. CASE passes
  <2>1. /\ op.at = "recorded" /\ op.asked = old.asked
        /\ op.request = old.request /\ op.issuance = old.issuance
        /\ OpIn(n, path, op, now, served, promotion, records[0], batches)
    BY <1>1, OpDone
  <2>2. CompactIn(n, path, c, plan, served, FromIn(path, old))
    BY <1>1, CompactOfAnswerIn
  <2>3. record.observation = c /\ record.committedAt = now
    BY RecFields
  <2>4. now \in Nat
    BY DEF RecordInv, WorldInv
  <2>5. RecordIn(n, path, op, record, served, records[0], batches)
    <3> HIDE DEF op, plan, c, record
    <3>1. FromIn(path, op) = FromIn(path, old)
      BY <2>1 DEF FromIn
    <3>2. plan = PlanIn(n, op.request, records[0])
      BY <2>1 DEF plan
    <3>3. record = RecIn(n, op.request, records[0], op.issuance.id, record.observation,
                         record.committedAt)
      BY <2>1, <2>3 DEF record
    <3>4. QED
      BY <1>2, <1>5, <2>1, <2>2, <2>3, <2>4, <3>1, <3>2, <3>3 DEF RecordIn
  <2>6. records' = [records EXCEPT ![n] = record] /\ Becomes(n, op)
    <3>1. RecordOf(n, old.request, old.issuance.id, c, now) = record
      BY DEF RecordOf, RecIn
    <3>2. Becomes(n, op)
      BY <1>3, <1>5 DEF Commit
    <3>3. records' = [records EXCEPT ![n] = RecordOf(n, old.request, old.issuance.id, c, now)]
      BY <1>3, <1>5 DEF Commit
    <3> HIDE DEF record, op, c
    <3>4. QED
      BY <3>1, <3>2, <3>3
  <2>7. QED
    BY <1>1, <2>1, <2>5, <2>6, LocalRecord DEF Commit
<1>6. QED
  BY <1>4, <1>5

-----------------------------------------------------------------------------
(* The invariant. *)

LEMMA RecordInit == ASSUME Init PROVE RecordInv
<1>1. WorldInv
  BY MaterializerAssumption DEF Init, WorldInv, PromotionIn
<1>2. OpsInv /\ BatchesInv /\ RecordsInv
  BY DEF Init, OpsInv, BatchesInv, RecordsInv, Has
<1>3. QED
  BY <1>1, <1>2 DEF RecordInv

LEMMA RecordNext == ASSUME RecordInv, [Next]_vars PROVE RecordInv'
<1>1. CASE Tick
  BY <1>1, TickKeeps
<1>2. CASE Disturb
  BY <1>2, DisturbKeeps
<1>3. CASE StartPromotion
  BY <1>3, StartPromotionKeeps
<1>4. CASE \E d \in Promotions : CompletePromotion(d)
  BY <1>4, CompletePromotionKeeps
<1>5. CASE Admission
  BY <1>5, BeginKeeps DEF Admission, Sequences
<1>6. CASE ReadEvidence
  BY <1>6, ReadEvidenceKeeps
<1>7. ASSUME NEW n \in Sequences, Observing(n) PROVE RecordInv'
  BY <1>7, ObserveDelegatedKeeps, ObserveDirectlyKeeps, ObserveKeeps, ReadKeeps, MisreportKeeps
     DEF Observing
<1>8. ASSUME NEW n \in Sequences, Recording(n) PROVE RecordInv'
  BY <1>8, ReissueKeeps, DeriveKeeps, DelegateKeeps, SealKeeps, ConfirmKeeps, MaterializeKeeps,
     MirrorKeeps, AcceptKeeps, CommitKeeps DEF Recording
<1>9. CASE UNCHANGED vars
  <2>1. WorldInv'
    BY <1>9 DEF vars, world, RecordInv, WorldInv
  <2>2. QED
    BY <1>9, <2>1, WorldKeeps DEF vars, world, RecordInv, WorldInv
<1>10. QED
  BY <1>1, <1>2, <1>3, <1>4, <1>5, <1>6, <1>7, <1>8, <1>9 DEF Next

(* The invariant of both paths: operations, batches and records are of what  *)
(* was admitted, asked and served, at every step from the admission to the   *)
(* row (activation-operation-*.ts, activation-registry.ts).                  *)
THEOREM RecordInvariant == Spec => []RecordInv
BY RecordInit, RecordNext, PTL DEF Spec

-----------------------------------------------------------------------------
(* What the records say. *)

\* What is expected of a service's deployment, and what the provider has of its versions
SaysOf(d, r) ==
  [role |-> r, id |-> d.id, membership |-> Membership(d),
   versions |-> [v \in {m.worker_version_id : m \in Membership(d)} |-> Start.resources[v]],
   surface |-> "closed"]

\* The versions of a deployment are those its members are projected to.
LEMMA VersionsNamed ==
  ASSUME NEW d
  PROVE  {m.version : m \in d.members} = {m.worker_version_id : m \in Membership(d)}
<1> DEFINE projected(m) == [percentage |-> m.percentage, worker_version_id |-> m.version]
<1>1. \A m : projected(m).worker_version_id = m.version
  OBVIOUS
<1>2. Membership(d) = {projected(m) : m \in d.members}
  BY DEF Membership
<1> HIDE DEF projected
<1>3. QED
  BY <1>1, <1>2

\* A service that was read as expected is compacted to what was expected.
LEMMA SeenSays ==
  ASSUME RecordInv, NEW D, NEW H, NEW from, NEW to, NEW r \in Roles, NEW service,
         CompactSeenIn(served, D, H, from, to, r, service)
  PROVE  service = SaysOf(D[r], r)
<1>1. PICK h \in served :
        /\ ServedIn(h, D, H, from, to, r, Responses(h.provider, Account, r))
        /\ service = CompactService(ServiceObservation(r, Responses(h.provider, Account, r)))
  BY DEF CompactSeenIn
<1> DEFINE p == h.provider
           responses == ServiceResponses(p, Account, r)
           current == p.deployments[r][1]
           o == ServiceObservation(r, responses)
<1>2. r # NetworkSlot
  BY ObserverAssumption
<1>3. Responses(p, Account, r) = responses
  BY <1>2 DEF Responses
<1>4. p.resources = Start.resources
  BY DEF RecordInv, WorldInv
<1>5. /\ responses.list.body[1] = current
      /\ responses.versions = [v \in {m.version : m \in current.members} |->
                                 Response(<<<<Account, r>>, v>>, Start.resources[v])]
  BY <1>4 DEF ServiceResponses, Response
<1>6. ServiceResponsesStand(Account, r, responses) /\ MatchesExpected(current, D[r])
  BY <1>1, <1>2, <1>3, <1>5 DEF ServedIn, Observes
<1>7. responses.surface.body = "closed"
  BY <1>6 DEF ServiceResponsesStand
<1>8. current.id = D[r].id /\ Membership(current) = Membership(D[r])
  BY <1>6 DEF MatchesExpected
<1>9. {m.version : m \in current.members} = {m.worker_version_id : m \in Membership(current)}
  BY VersionsNamed
<1>10. o.versions = [v \in {m.version : m \in current.members} |-> Start.resources[v]]
  <2>1. o.versions = [v \in DOMAIN responses.versions |-> responses.versions[v].body]
    BY DEF ServiceObservation
  <2> HIDE DEF responses, current, p, o
  <2>2. QED
    BY <1>5, <2>1, SMTT(40) DEF Response
<1>11. o.role = r /\ o.id = current.id /\ o.membership = Membership(current)
       /\ o.surface = "closed"
  BY <1>5, <1>7 DEF ServiceObservation
<1>12. service = [role |-> o.role, id |-> o.id, membership |-> o.membership,
                  versions |-> o.versions, surface |-> o.surface]
  BY <1>1, <1>3 DEF CompactService
<1> HIDE DEF o, current, responses
<1>13. QED
  BY <1>8, <1>9, <1>10, <1>11, <1>12 DEF SaysOf

\* The first record is of an accepted request.
LEMMA FirstRecord ==
  ASSUME RecordInv, records[0] # None
  PROVE  LET a0 == records[0] q == a0.evidence IN
         /\ q = ops[0].request /\ q \in Requests /\ Shaped(q) /\ RequestParses(q, Trust)
         /\ ExpectationParses(q.doc, q.digest, Trust.account, q.broker.row.source)
         /\ a0.committedAt \in Nat /\ CommitFresh(a0.observation, a0.committedAt)
         /\ CompactIn(0, path, a0.observation, ProvisionPlan(q), served, FromIn(path, ops[0]))
<1> DEFINE a0 == records[0]
           op == ops[0]
<1>1. /\ OpIn(0, path, op, now, served, promotion, a0, batches)
      /\ RecordIn(0, path, op, a0, served, a0, batches)
  BY DEF RecordInv, RecordsInv, Sequences
<1>2. AdmissionIn(0, op, promotion, a0)
  BY <1>1 DEF OpIn
<1>3. op.request \in Requests /\ RequestParses(op.request, Trust) /\ Shaped(op.request)
  BY <1>2, MaterializerAssumption DEF AdmissionIn, AdmittedIn, ProvisionPlans
<1>4. /\ a0 = ProvisionedRecord(op.request, op.issuance.id, a0.observation, a0.committedAt)
      /\ a0.committedAt \in Nat /\ CommitFresh(a0.observation, a0.committedAt)
      /\ CompactIn(0, path, a0.observation, ProvisionPlan(op.request), served, FromIn(path, op))
  BY <1>1 DEF RecordIn, RecIn, ChronologyIn, PlanIn
<1>5. a0.evidence = op.request
  BY <1>4 DEF ProvisionedRecord
<1>6. QED
  BY <1>3, <1>4, <1>5 DEF RequestParses

\* The second is of a finalize request that quotes the first and the promotion.
LEMMA SecondRecord ==
  ASSUME RecordInv, records[1] # None
  PROVE  LET a0 == records[0] a1 == records[1] q == ops[1].request IN
         /\ a0 # None
         /\ Settled(promotion) /\ q.promotion = promotion
         /\ PointerStands(q.provisioned, a0, Trust) /\ FinalizePlans(q, a0, Trust)
         /\ a1.previous = a0 /\ a1.promotion = promotion /\ a1.provisioned = q.provisioned
         /\ a1.digest = a0.evidence.digest
         /\ a1.committedAt \in Nat
         /\ ActivationChronology(a0.committedAt, promotion, a1.observation, a1.committedAt)
         /\ CompactIn(1, path, a1.observation, FinalizePlan(q, a0), served, FromIn(path, ops[1]))
<1> DEFINE a0 == records[0]
           a1 == records[1]
           op == ops[1]
<1>1. /\ OpIn(1, path, op, now, served, promotion, a0, batches)
      /\ RecordIn(1, path, op, a1, served, a0, batches)
  BY DEF RecordInv, RecordsInv, Sequences
<1>2. AdmissionIn(1, op, promotion, a0)
  BY <1>1 DEF OpIn
<1>3. /\ a0 # None /\ Settled(promotion) /\ op.request.promotion = promotion
      /\ PointerStands(op.request.provisioned, a0, Trust) /\ FinalizePlans(op.request, a0, Trust)
  BY <1>2 DEF AdmissionIn, AdmittedIn
<1>4. /\ a1 = ActivatedRecord(op.request, a0, op.issuance.id, a1.observation, a1.committedAt)
      /\ a1.committedAt \in Nat
      /\ ActivationChronology(a0.committedAt, promotion, a1.observation, a1.committedAt)
      /\ CompactIn(1, path, a1.observation, FinalizePlan(op.request, a0), served, FromIn(path, op))
  BY <1>1, <1>3 DEF RecordIn, RecIn, ChronologyIn, PlanIn
<1>5. /\ a1.previous = a0 /\ a1.promotion = op.request.promotion
      /\ a1.provisioned = op.request.provisioned /\ a1.digest = a0.evidence.digest
  BY <1>4 DEF ActivatedRecord
<1>6. QED
  BY <1>3, <1>4, <1>5

LEMMA OwnObservation == ASSUME RecordInv PROVE RecordIsOwnObservation
<1>1. SUFFICES ASSUME NEW n \in Sequences, records[n] # None, NEW r \in Roles
               PROVE  \E h \in served :
                        /\ Served(h.provider, r) = records[n].observation.services[r]
                        /\ h.at <= records[n].observation.observedAt
                        /\ path = "operation" => ops[n].asked.committedAt <= h.at
  BY DEF RecordIsOwnObservation
<1> DEFINE c == records[n].observation
           plan == PlanIn(n, ops[n].request, records[0])
<1>2. CompactIn(n, path, c, plan, served, FromIn(path, ops[n]))
  BY <1>1 DEF RecordInv, RecordsInv, RecordIn
<1>3. CompactSeenIn(served, plan.deployments, plan.doc.host, FromIn(path, ops[n]), c.observedAt, r,
                    c.services[r])
  BY <1>2 DEF CompactIn
<1>4. r # NetworkSlot
  BY ObserverAssumption
<1>5. QED
  BY <1>3, <1>4 DEF CompactSeenIn, ServedIn, Served, Responses, FromIn

\* A deployment of one final version at all traffic is known by that version.
LEMMA WholeMembership ==
  ASSUME NEW d, NEW e, Whole(d.members), Whole(e.members),
         Immutable(FinalOf(d)) = Immutable(FinalOf(e))
  PROVE  Membership(d) = Membership(e)
<1>1. PICK f : d.members = {f} /\ IsFinal(f) /\ f.percentage = 100
  BY DEF Whole
<1>2. PICK g : e.members = {g} /\ IsFinal(g) /\ g.percentage = 100
  BY DEF Whole
<1>3. FinalOf(d) = f /\ FinalOf(e) = g
  BY <1>1, <1>2 DEF FinalOf
<1>4. f.version = g.version
  BY <1>3 DEF Immutable
<1>5. /\ Membership(d) = {[percentage |-> 100, worker_version_id |-> f.version]}
      /\ Membership(e) = {[percentage |-> 100, worker_version_id |-> g.version]}
  BY <1>1, <1>2 DEF Membership
<1>6. QED
  BY <1>4, <1>5

\* Nothing but the ingress' deployment is materialized.
LEMMA PromotedElsewhere ==
  ASSUME NEW d, Has(d, Roles), \A r \in Roles : Has(d[r], {"id", "members"}), NEW id, NEW r \in Roles
  PROVE  /\ Promoted(d, id)[r].members = d[r].members
         /\ r # Ingress => Promoted(d, id)[r] = d[r]
BY DEF Promoted, Has

LEMMA Bound == ASSUME RecordInv PROVE ChainBinds
<1>1. SUFFICES ASSUME records[0] # None, records[1] # None
               PROVE  LET a0 == records[0] a1 == records[1] p == a1.promotion IN
                      /\ \A r \in Private : a0.observation.services[r] = a1.observation.services[r]
                      /\ a1.observation.services[Ingress].id = p.deployment
                      /\ a0.committedAt < p.started /\ p.completed <= a1.observation.observedAt
  BY DEF ChainBinds, Sequences
<1> DEFINE a0 == records[0]
           a1 == records[1]
           doc == a0.evidence.doc
           q == ops[1].request
           later == Promoted(doc.a1, promotion.deployment)
<1>2. /\ Shaped(a0.evidence)
      /\ ExpectationParses(doc, a0.evidence.digest, Trust.account, a0.evidence.broker.row.source)
      /\ CompactIn(0, path, a0.observation, ProvisionPlan(a0.evidence), served, FromIn(path, ops[0]))
  BY <1>1, FirstRecord
<1>3. /\ q.promotion = promotion /\ a1.promotion = promotion
      /\ FinalizePlans(q, a0, Trust)
      /\ ActivationChronology(a0.committedAt, promotion, a1.observation, a1.committedAt)
      /\ CompactIn(1, path, a1.observation, FinalizePlan(q, a0), served, FromIn(path, ops[1]))
  BY <1>1, SecondRecord
<1>4. /\ ProvisionPlan(a0.evidence).deployments = doc.a0
      /\ FinalizePlan(q, a0).deployments = later
  BY <1>3 DEF ProvisionPlan, FinalizePlan, Plan
<1>5. ASSUME NEW r \in Roles
      PROVE  /\ a0.observation.services[r] = SaysOf(doc.a0[r], r)
             /\ a1.observation.services[r] = SaysOf(later[r], r)
  <2>1. CompactSeenIn(served, doc.a0, ProvisionPlan(a0.evidence).doc.host, FromIn(path, ops[0]),
                      a0.observation.observedAt, r, a0.observation.services[r])
    BY <1>2, <1>4 DEF CompactIn
  <2>2. CompactSeenIn(served, later, FinalizePlan(q, a0).doc.host, FromIn(path, ops[1]),
                      a1.observation.observedAt, r, a1.observation.services[r])
    BY <1>3, <1>4 DEF CompactIn
  <2> HIDE DEF later
  <2>3. QED
    BY <2>1, <2>2, SeenSays
<1>6. ASSUME NEW r \in Private PROVE a0.observation.services[r] = a1.observation.services[r]
  <2>1. r \in Roles /\ r # Ingress
    BY DEF Private
  <2>2. later[r] = doc.a1[r]
    BY <1>2, <2>1, PromotedElsewhere DEF Shaped, DeploymentsShaped
  <2>3. /\ Whole(doc.a0[r].members) /\ Whole(doc.a1[r].members)
        /\ Immutable(FinalOf(doc.a0[r])) = Immutable(FinalOf(doc.a1[r]))
        /\ doc.a0[r].id = doc.a1[r].id
    BY <1>2, <2>1 DEF ExpectationParses, DeploymentsParse, CrossBound
  <2>4. Membership(doc.a0[r]) = Membership(doc.a1[r])
    BY <2>3, WholeMembership
  <2>5. SaysOf(doc.a0[r], r) = SaysOf(doc.a1[r], r)
    BY <2>3, <2>4 DEF SaysOf
  <2>6. /\ a0.observation.services[r] = SaysOf(doc.a0[r], r)
        /\ a1.observation.services[r] = SaysOf(later[r], r)
    BY <1>5, <2>1
  <2> HIDE DEF later
  <2>7. QED
    BY <2>2, <2>5, <2>6
<1>7. a1.observation.services[Ingress].id = promotion.deployment
  <2>1. later[Ingress].id = promotion.deployment
    BY <1>3 DEF FinalizePlans
  <2>2. Ingress \in Roles
    BY RolesAssumption
  <2> HIDE DEF later
  <2>3. a1.observation.services[Ingress] = SaysOf(later[Ingress], Ingress)
    BY <1>5, <2>2
  <2>4. QED
    BY <2>1, <2>3 DEF SaysOf
<1>8. QED
  BY <1>3, <1>6, <1>7 DEF ActivationChronology

(* What a record says of a service is what the provider served between the   *)
(* delegation of that record's own operation and the observation: nothing of *)
(* another issuance, of an observer that misreports, or kept from earlier is *)
(* recorded (cloudflare-deployment-observation-evidence.ts,                  *)
(* activation-operation-record-materializer.ts).                             *)
THEOREM RecordsOwn == Spec => []RecordIsOwnObservation
BY RecordInvariant, OwnObservation, PTL

(* The two records are of one activation: they say the same of every private *)
(* service, the ingress was read on the promoted deployment, and the         *)
(* promotion lies between the first record and the second observation        *)
(* (activation-registry-codec.ts, service-authority-expectation.ts).         *)
THEOREM ChainsBind == Spec => []ChainBinds
BY RecordInvariant, Bound, PTL

\* The last parse of what was confirmed finds what was delegated and sealed.
LEMMA NotRefused == ASSUME RecordInv PROVE NoLateRefusal
<1>1. SUFFICES ASSUME NEW n \in Sequences, Step(n, "confirmed")
               PROVE  \/ RecordStands(n)
                      \/ n = 1 /\ ops[1].request.promotion.started <= records[0].committedAt
  BY DEF NoLateRefusal
<1> DEFINE op == ops[n]
           plan == PlanOf(n, op.request)
           compact == CompactOfBatch(op.answer)
<1>2. op.at = "confirmed" /\ OpIn(n, path, op, now, served, promotion, records[0], batches)
  BY <1>1 DEF Step, RecordInv, OpsInv
<1>3. /\ path = "operation" /\ op.answer \in batches /\ ResultParses(op.answer, op.asked)
      /\ op.acceptedAt = op.answer.sealedAt
      /\ DelegationParses(op.asked, op.issuance, n, Trust.worker, Account)
      /\ AdmissionIn(n, op, promotion, records[0]) /\ TimedIn(n, op, now, promotion)
  BY <1>2 DEF OpIn
<1>4. plan = PlanIn(n, op.request, records[0])
  BY DEF PlanOf, PlanIn
<1>5. Admits(n, op.request)
  BY <1>3 DEF Admits, AdmissionIn, AdmittedIn
<1>6. /\ op.asked.request.deployments = plan.deployments
      /\ op.asked.request.expectation = plan.doc
      /\ op.asked.request.host = plan.doc.host /\ op.asked.request.inventory = plan.doc.rows
      /\ op.issuance.issuedAt \in Nat /\ op.asked.committedAt \in Nat
      /\ op.answer.observation.at \in Nat /\ op.answer.sealedAt \in Nat
      /\ op.issuance.issuedAt <= op.asked.committedAt
      /\ op.asked.committedAt <= op.answer.observation.at
      /\ op.answer.observation.at <= op.answer.sealedAt
  BY <1>2, <1>3, <1>4, ResultOfPlan, SMTT(40)
<1>7. ResultStands(n)
  BY <1>3, <1>6 DEF ResultStands
<1>8. compact.observedAt = op.answer.observation.at /\ compact.acceptedAt = op.acceptedAt
  BY <1>3 DEF CompactOfBatch, Compact
<1>9. CommitFresh(compact, op.acceptedAt)
  BY <1>3, <1>6, <1>8, WindowAssumption DEF CommitFresh, Within
<1>10. CASE n = 0
  BY <1>5, <1>7, <1>9, <1>10 DEF RecordStands
<1>11. ASSUME n = 1, ~(op.request.promotion.started <= records[0].committedAt)
       PROVE  ActivationChronology(records[0].committedAt, op.request.promotion, compact, op.acceptedAt)
  <2>1. /\ records[0] # None /\ Settled(promotion) /\ op.request.promotion = promotion
        /\ promotion.completed <= op.issuance.issuedAt
    BY <1>3, <1>11 DEF AdmissionIn, TimedIn
  <2>2. records[0].committedAt \in Nat
    BY <2>1, FirstRecord
  <2>3. promotion.started \in Nat /\ promotion.completed \in Nat
    BY <2>1 DEF Settled
  <2>4. promotion.started <= promotion.completed
    BY <2>1, <2>3, NoneAssumption DEF RecordInv, WorldInv, PromotionIn, Settled
  <2>5. promotion.completed <= compact.observedAt
    BY <1>6, <1>8, <2>1, <2>3
  <2>6. records[0].committedAt < promotion.started
    BY <1>11, <2>1, <2>2, <2>3
  <2>7. QED
    BY <1>9, <2>1, <2>4, <2>5, <2>6 DEF ActivationChronology
<1>12. QED
  BY <1>5, <1>7, <1>10, <1>11 DEF RecordStands, Sequences

(* A confirmed operation gets its record however late it is made; a          *)
(* promotion that began before the first record is the one cause of refusal  *)
(* (activation-operation-record-materializer.ts).                            *)
THEOREM NothingRefusedLate == Spec => []NoLateRefusal
BY RecordInvariant, NotRefused, PTL
\* What a service was read to have, is what is parsed, when it has what is stated.
LEMMA EntryOfSays ==
  ASSUME NEW d, NEW r, NEW service, service = SaysOf(d, r),
         \A m \in d.members : service.versions[m.version] = [code |-> m.code, record |-> m.record]
  PROVE  ServiceEntryParses(service, d)
<1>1. DOMAIN service.versions = {m.worker_version_id : m \in Membership(d)}
  BY DEF SaysOf
<1>2. service.id = d.id /\ service.surface = "closed"
  BY DEF SaysOf
<1>3. QED
  BY <1>1, <1>2, VersionsNamed DEF ServiceEntryParses

\* So much of a compact observation is parsed on either path.
LEMMA ParsesOfCompact ==
  ASSUME RecordInv, NEW n, NEW plan, NEW c, NEW from,
         CompactIn(n, path, c, plan, served, from),
         \/ path = "direct"
         \/ \A r \in Roles : \A m \in plan.deployments[r].members :
              provider.resources[m.version] = [code |-> m.code, record |-> m.record]
  PROVE  ParsesButMembership(c, plan.doc, plan.deployments, Phase(n))
<1> DEFINE D == plan.deployments
<1>1. ASSUME NEW r \in Roles PROVE ServiceEntryParses(c.services[r], D[r])
  <2>1. CompactSeenIn(served, D, plan.doc.host, from, c.observedAt, r, c.services[r])
    BY DEF CompactIn
  <2>2. c.services[r] = SaysOf(D[r], r)
    BY <2>1, SeenSays
  <2>3. ASSUME NEW m \in D[r].members
        PROVE  c.services[r].versions[m.version] = [code |-> m.code, record |-> m.record]
    <3>1. CASE path = "direct"
      BY <3>1 DEF CompactIn, VersionsIn
    <3>2. CASE path # "direct"
      <4>1. provider.resources[m.version] = [code |-> m.code, record |-> m.record]
        BY <3>2
      <4>2. provider.resources = Start.resources
        BY DEF RecordInv, WorldInv
      <4>3. m.version \in {k.version : k \in D[r].members}
        BY <2>3
      <4>4. m.version \in {k.worker_version_id : k \in Membership(D[r])}
        BY <4>3, VersionsNamed
      <4>5. SaysOf(D[r], r).versions =
              [v \in {k.worker_version_id : k \in Membership(D[r])} |-> Start.resources[v]]
        BY DEF SaysOf
      <4>6. QED
        BY <2>2, <4>1, <4>2, <4>4, <4>5
    <3>3. QED
      BY <3>1, <3>2
  <2>4. QED
    BY <2>2, <2>3, EntryOfSays
<1>2. QED
  BY <1>1 DEF CompactIn, ParsesButMembership

\* What a record is parsed against is what its operation planned.
LEMMA Verified == ASSUME RecordInv PROVE VerifiesButMembership
<1>1. ASSUME NEW n \in Sequences, records[n] # None,
             path = "direct" \/ Truthful(records[0].evidence.doc)
      PROVE  ParsesButMembership(records[n].observation, records[0].evidence.doc,
                                 DeploymentsOf(n, records[0], records[n]), Phase(n))
  <2> DEFINE a0 == records[0]
             doc == a0.evidence.doc
             D == DeploymentsOf(n, a0, records[n])
             plan == PlanIn(n, ops[n].request, a0)
  <2>1. a0 # None
    BY <1>1, SecondRecord DEF Sequences
  <2>2. /\ Shaped(a0.evidence) /\ a0.evidence = ops[0].request
    BY <2>1, FirstRecord
  <2>3. n = 1 => records[1].promotion = ops[1].request.promotion
    BY <1>1, SecondRecord
  <2>4. plan.doc = doc /\ plan.deployments = D
    BY <2>2, <2>3 DEF PlanIn, DeploymentsOf, ProvisionPlan, FinalizePlan, Plan, Sequences
  <2>5. CompactIn(n, path, records[n].observation, plan, served, FromIn(path, ops[n]))
    BY <1>1 DEF RecordInv, RecordsInv, RecordIn
  <2>6. ASSUME path # "direct", NEW r \in Roles, NEW m \in D[r].members
        PROVE  provider.resources[m.version] = [code |-> m.code, record |-> m.record]
    <3>1. Truthful(doc)
      BY <1>1, <2>6
    <3>2. D[r].members = doc.a0[r].members \/ D[r].members = doc.a1[r].members
      BY <2>2, PromotedElsewhere DEF DeploymentsOf, Shaped, DeploymentsShaped
    <3>3. m \in doc.a0[r].members \cup doc.a1[r].members
      BY <2>6, <3>2
    <3> HIDE DEF D, doc
    <3>4. QED
      BY <3>1, <3>3 DEF Truthful
  <2> HIDE DEF D, plan, doc
  <2>7. ParsesButMembership(records[n].observation, plan.doc, plan.deployments, Phase(n))
    BY <2>4, <2>5, <2>6, ParsesOfCompact
  <2>8. QED
    BY <2>4, <2>7 DEF D, doc
<1>2. ASSUME records[1] # None PROVE SnapshotStands(records[0], records[1], Trust)
  <2> DEFINE a0 == records[0]
             a1 == records[1]
             f == ops[1].request
  <2>1. /\ a0 # None /\ f.promotion = promotion /\ PointerStands(f.provisioned, a0, Trust)
        /\ FinalizePlans(f, a0, Trust)
        /\ a1.previous = a0 /\ a1.promotion = promotion /\ a1.provisioned = f.provisioned
        /\ a1.digest = a0.evidence.digest
        /\ ActivationChronology(a0.committedAt, promotion, a1.observation, a1.committedAt)
    BY <1>2, SecondRecord
  <2>2. RequestParses(a0.evidence, Trust) /\ CommitFresh(a0.observation, a0.committedAt)
    BY <2>1, FirstRecord
  <2>3. promotion.worker = a0.evidence.doc.rows[Ingress].version
    BY <2>1, <2>2 DEF FinalizePlans, RequestParses, MatchesBroker
  <2>4. ChainBinds
    BY Bound
  <2>5. a1.observation.services[Ingress].id = promotion.deployment
    <3>1. \A n \in Sequences : records[n] # None
      BY <1>2, <2>1 DEF Sequences
    <3>2. QED
      BY <2>1, <2>4, <3>1 DEF ChainBinds
  <2>6. QED
    BY <2>1, <2>2, <2>3, <2>5 DEF SnapshotStands
<1>3. QED
  BY <1>1, <1>2 DEF VerifiesButMembership

(* Whatever is recorded passes the verification of a snapshot but for the    *)
(* form of the members, on the operation's path when the expectation states  *)
(* what the provider has of its versions (activation-snapshot-verifier.ts,   *)
(* service-authority-observation-projections.ts).                            *)
THEOREM RecordsVerify == Spec => []VerifiesButMembership
BY RecordInvariant, Verified, PTL
-----------------------------------------------------------------------------
(* The records of version 2. *)

\* The sealed batch of an operation is the one that answers its delegation.
LEMMA ResultIs ==
  ASSUME RecordInv, path = "operation", NEW n, NEW b \in batches,
         ResultParses(b, ops[n].asked)
  PROVE  ResultOf(n) = b
<1>1. b.batch = ops[n].asked.batch
  BY DEF ResultParses
<1>2. \A c \in batches : c.batch = ops[n].asked.batch => c = b
  BY <1>1 DEF RecordInv, BatchesInv
<1>3. QED
  BY <1>1, <1>2 DEF ResultOf

\* An issuance, as the attempt at an intent, is an operation of that intent and of no other.
LEMMA IssuedStands ==
  ASSUME RecordInv, NEW n, TimedIn(n, ops[n], now, promotion), NEW intent, NEW other
  PROVE  OperationStands(IssuedFor(n, other), intent, n, Trust.worker) <=> other = intent
<1> DEFINE o == IssuedFor(n, other)
           issuance == ops[n].issuance
<1>1. /\ issuance.ordinal + 1 \in 1..MaxOrdinal
      /\ issuance.issuedAt < issuance.freshUntil
  BY MaterializerAssumption, SelectionsAssumption, WindowAssumption
     DEF TimedIn, RecordInv, WorldInv
<1>2. /\ o.intent = other /\ o.attempt = AttemptId(other, n, Trust.worker)
      /\ o.ordinal = issuance.ordinal + 1 /\ o.issuance = IssuanceId(o.attempt, o.ordinal)
      /\ o.request = o.issuance
      /\ o.issuedAt = issuance.issuedAt /\ o.freshUntil = issuance.freshUntil
  BY DEF IssuedFor
<1>3. OperationStands(o, intent, n, Trust.worker) <=> other = intent
  <2> HIDE DEF o
  <2>1. o.issuedAt < o.freshUntil /\ o.ordinal \in 1..MaxOrdinal
    BY <1>1, <1>2
  <2>2. QED
    BY <1>2, <2>1 DEF OperationStands
<1>4. QED
  BY <1>3

\* Batches of an issuance are told apart by its intent.
LEMMA BatchOfIntent ==
  ASSUME NEW n, NEW intent, NEW other,
         BatchIdV2(IssuedFor(n, intent).issuance, IssuedFor(n, intent).ordinal, n) =
         BatchIdV2(IssuedFor(n, other).issuance, IssuedFor(n, other).ordinal, n)
  PROVE  intent = other
<1>1. /\ IssuedFor(n, intent).issuance = <<<<intent, n, Trust.worker>>, ops[n].issuance.ordinal + 1>>
      /\ IssuedFor(n, other).issuance = <<<<other, n, Trust.worker>>, ops[n].issuance.ordinal + 1>>
  BY DEF IssuedFor, IssuanceId, AttemptId
<1>2. IssuedFor(n, intent).issuance = IssuedFor(n, other).issuance
  BY DEF BatchIdV2
<1>3. QED
  BY <1>1, <1>2

LEMMA StoredFields ==
  ASSUME NEW digest, NEW key, NEW version, NEW retained, NEW key2
  PROVE  /\ Stored(digest, key, version, retained).digest = digest
         /\ Stored(digest, key, version, retained).key = key
         /\ Stored(digest, key, version, retained).version = version
         /\ Stored(digest, key, version, retained).retained = retained
         /\ [Stored(digest, key, version, retained) EXCEPT !.key = key2] =
              Stored(digest, key2, version, retained)
BY DEF Stored

LEMMA KeyOf ==
  ASSUME NEW observer, NEW batch, NEW s, NEW entry
  PROVE  BatchKey(observer, batch, s).observer = observer /\ Sanitized(s, entry).slot = s
BY DEF BatchKey, Sanitized

\* The objects of a batch; the same under the keys of another; and as a record has them.
StoredOf(stored, o, observer, batch, at) ==
  \A s \in Slots : stored[s] = Stored(Sanitized(s, Entry(o, s, {})), BatchKey(observer, batch, s),
                                      <<batch, s>>, at + Term)
Rekeyed(stored, observer, batch) ==
  [s \in Slots |-> [stored[s] EXCEPT !.key = BatchKey(observer, batch, s)]]
AnchorsOf(anchors, batch, at) ==
  /\ DOMAIN anchors = Slots
  /\ \E from \in {anchors[s].key.observer : s \in Slots} :
       \A s \in Slots : AnchorStands(anchors[s], from, batch, s, at)
  /\ Distinct([s \in Slots |-> anchors[s].digest])
  /\ Distinct([s \in Slots |-> anchors[s].version])

\* The objects of a batch are the objects of it as the batch of an issuance.
LEMMA AnchorsOfBatch ==
  ASSUME NEW stored, NEW o, NEW observer, NEW old, NEW batch, NEW at \in Nat,
         StoredOf(stored, o, observer, old, at),
         NEW anchors, anchors = Rekeyed(stored, observer, batch)
  PROVE  AnchorsOf(anchors, batch, at)
<1>1. ASSUME NEW s \in Slots
      PROVE  /\ anchors[s].digest = Sanitized(s, Entry(o, s, {}))
             /\ anchors[s].key = BatchKey(observer, batch, s)
             /\ anchors[s].version = <<old, s>>
             /\ anchors[s].retained = at + Term
  <2>1. anchors[s] = [stored[s] EXCEPT !.key = BatchKey(observer, batch, s)]
    BY DEF Rekeyed
  <2>2. stored[s] = Stored(Sanitized(s, Entry(o, s, {})), BatchKey(observer, old, s), <<old, s>>,
                           at + Term)
    BY DEF StoredOf
  <2>3. anchors[s] = Stored(Sanitized(s, Entry(o, s, {})), BatchKey(observer, batch, s), <<old, s>>,
                            at + Term)
    BY <2>1, <2>2, StoredFields
  <2>4. QED
    BY <2>3, StoredFields
<1>2. ASSUME NEW s \in Slots
      PROVE  AnchorStands(anchors[s], observer, batch, s, at)
  BY <1>1, TermAssumption DEF AnchorStands, Retained
<1>3. observer \in {anchors[s].key.observer : s \in Slots}
  <2>1. NetworkSlot \in Slots
    BY DEF Slots
  <2>2. anchors[NetworkSlot].key.observer = observer
    BY <1>1, <2>1, KeyOf
  <2>3. QED
    BY <2>1, <2>2
<1>4. ASSUME NEW s \in Slots, NEW t \in Slots,
             anchors[s].digest = anchors[t].digest \/ anchors[s].version = anchors[t].version
      PROVE  s = t
  <2>1. anchors[s].digest.slot = s /\ anchors[t].digest.slot = t
    BY <1>1, KeyOf
  <2>2. anchors[s].version[2] = s /\ anchors[t].version[2] = t
    BY <1>1
  <2>3. QED
    BY <1>4, <2>1, <2>2
<1>5. Distinct([s \in Slots |-> anchors[s].digest]) /\ Distinct([s \in Slots |-> anchors[s].version])
  <2> DEFINE digests == [s \in Slots |-> anchors[s].digest]
             versions == [s \in Slots |-> anchors[s].version]
  <2>1. \A s, t \in Slots : digests[s] = digests[t] => s = t
    BY <1>4
  <2>2. \A s, t \in Slots : versions[s] = versions[t] => s = t
    BY <1>4
  <2>3. DOMAIN digests = Slots /\ DOMAIN versions = Slots
    OBVIOUS
  <2> HIDE DEF digests, versions
  <2>4. Distinct(digests) /\ Distinct(versions)
    BY <2>1, <2>2, <2>3 DEF Distinct
  <2>5. QED
    BY <2>4 DEF digests, versions
<1>6. DOMAIN anchors = Slots
  BY DEF Rekeyed
<1>7. QED
  BY <1>2, <1>3, <1>5, <1>6 DEF AnchorsOf
\* A delegation is not the document that it is of.
LEMMA NotTheDocument ==
  ASSUME RecordInv, NEW n \in Sequences, path = "operation", ops[n].at \notin {"issued"},
         OpIn(n, path, ops[n], now, served, promotion, records[0], batches)
  PROVE  ops[n].asked # PlanIn(n, ops[n].request, records[0]).doc
<1> DEFINE op == ops[n]
           plan == PlanIn(n, op.request, records[0])
           fields == {"account", "source", "rows", "a0", "a1", "host"}
<1>1. AdmissionIn(n, op, promotion, records[0]) /\ AskedIn(n, path, op, now, plan)
  BY DEF OpIn
<1>2. Has(plan.doc, fields)
  <2>1. CASE n = 0
    BY <1>1, <2>1, MaterializerAssumption DEF AdmissionIn, PlanIn, ProvisionPlan, Plan, Shaped
  <2>2. CASE n = 1
    <3>1. records[0] # None
      BY <1>1, <2>2 DEF AdmissionIn
    <3>2. Shaped(records[0].evidence)
      BY <3>1, FirstRecord
    <3>3. QED
      BY <2>2, <3>2 DEF PlanIn, FinalizePlan, Plan, Shaped
  <2>3. QED
    BY <2>1, <2>2 DEF Sequences
<1>3. DOMAIN plan.doc = fields
  BY <1>2 DEF Has
<1>4. "batch" \in DOMAIN op.asked
  BY <1>1 DEF AskedIn, Delegation
<1> HIDE DEF plan
<1>5. QED
  BY <1>3, <1>4 DEF plan

\* What a sealed batch says, as the batch of an issuance.
LEMMA SealedOf ==
  ASSUME NEW n, NEW o, NEW b, ResultOf(n) = b
  PROVE  LET v == SealedFor(n, o) IN
         /\ v.phase = b.observation.phase /\ v.batch = BatchIdV2(o.issuance, o.ordinal, n)
         /\ v.sealedAt = b.sealedAt /\ v.delegatedAt = b.delegatedAt
         /\ v.observedAt = b.observation.at
         /\ v.anchors = Rekeyed(b.stored, b.pins.cloudflare.version, v.batch)
         /\ v.anchorsDigest = v.anchors
         /\ v.delegation = b.delegation /\ v.expectation = b.observation.expectation
BY DEF SealedFor, Rekeyed

\* A batch that answers an operation's delegation stands as the batch of an issuance of that
\* operation, when it is said to be that issuance's and the record is of its instant.
LEMMA SealedStands ==
  ASSUME RecordInv, NEW n \in Sequences, path = "operation", ops[n].at \notin {"issued", "planned"},
         OpIn(n, path, ops[n], now, served, promotion, records[0], batches),
         NEW b \in batches, ResultParses(b, ops[n].asked),
         NEW intent, NEW other, NEW at
  PROVE  ServiceStands(SealedFor(n, IssuedFor(n, other)), n, at, IssuedFor(n, intent))
         <=> other = intent /\ at = b.sealedAt
<1> DEFINE op == ops[n]
           plan == PlanIn(n, op.request, records[0])
           o == IssuedFor(n, intent)
           io == IssuedFor(n, other)
           v == SealedFor(n, io)
<1>1. ResultOf(n) = b
  BY ResultIs
<1>2. /\ v.phase = b.observation.phase /\ v.batch = BatchIdV2(io.issuance, io.ordinal, n)
      /\ v.sealedAt = b.sealedAt /\ v.delegatedAt = b.delegatedAt
      /\ v.observedAt = b.observation.at
      /\ v.anchors = Rekeyed(b.stored, b.pins.cloudflare.version, v.batch)
      /\ v.anchorsDigest = v.anchors
      /\ v.delegation = b.delegation /\ v.expectation = b.observation.expectation
  BY <1>1, SealedOf
<1>3. /\ b.delegation = op.asked /\ b.delegatedAt = op.asked.committedAt
      /\ b.pins = BatchPins(plan.doc.rows)
      /\ op.issuance.issuedAt <= b.delegatedAt /\ b.delegatedAt <= b.observation.at
      /\ b.observation.at <= b.sealedAt /\ b.sealedAt <= op.issuance.freshUntil
      /\ Within(op.issuance.issuedAt, b.sealedAt) /\ b.sealedAt \in Nat
      /\ b.observation.expectation = plan.doc /\ b.observation.phase = Phase(n)
      /\ \A s \in Slots :
           b.stored[s] = Stored(Sanitized(s, Entry(b.observation, s, {})),
                                BatchKey(plan.doc.rows[CloudflareObserver].version, op.asked.batch, s),
                                <<b.batch, s>>, b.sealedAt + Term)
      /\ b.batch = op.asked.batch
  BY ResultOfPlan, SMTT(40)
<1>4. b.pins.cloudflare.version = plan.doc.rows[CloudflareObserver].version
  <2> HIDE DEF plan, op, v
  <2>1. QED
    BY <1>3, SMTT(40) DEF BatchPins, PinOf
<1>5. AnchorsOf(v.anchors, v.batch, b.sealedAt)
  <2> HIDE DEF v, plan
  <2>1. StoredOf(b.stored, b.observation, b.pins.cloudflare.version, b.batch, b.sealedAt)
    BY <1>3, <1>4 DEF StoredOf
  <2>2. QED
    BY <1>2, <1>3, <2>1, AnchorsOfBatch
<1>6. v.delegation # v.expectation
  BY <1>2, <1>3, NotTheDocument
<1>7. o.issuedAt = op.issuance.issuedAt /\ o.freshUntil = op.issuance.freshUntil
  BY DEF IssuedFor
<1>8. v.batch = BatchIdV2(o.issuance, o.ordinal, n) <=> other = intent
  BY <1>2, BatchOfIntent
<1>9. ServiceStands(v, n, at, o) <=> other = intent /\ at = b.sealedAt
  <2> HIDE DEF v, o, plan
  <2>1. ASSUME ServiceStands(v, n, at, o) PROVE other = intent /\ at = b.sealedAt
    BY <1>2, <1>8, <2>1 DEF ServiceStands
  <2>2. ASSUME other = intent, at = b.sealedAt PROVE ServiceStands(v, n, at, o)
    BY <1>2, <1>3, <1>5, <1>6, <1>7, <1>8, <2>2 DEF ServiceStands, AnchorsOf
  <2>3. QED
    BY <2>1, <2>2
<1>10. QED
  BY <1>9
\* A selection is known by the intent to provision it.
LEMMA SelectionOfIntent ==
  ASSUME NEW a \in Selections, NEW c \in Selections, ProvisionIntent(a) = ProvisionIntent(c)
  PROVE  a = c
<1>1. /\ a.descriptor = c.descriptor /\ a.pointer = c.pointer /\ a.projection = c.projection
      /\ a.session.id = c.session.id
  BY DEF ProvisionIntent
<1>2. /\ Has(a, SetFields) /\ Has(a.session, SessionFields)
      /\ Has(c, SetFields) /\ Has(c.session, SessionFields)
      /\ ComponentStands(a, a.descriptor.worker) /\ ComponentStands(c, c.descriptor.worker)
  BY SelectionsAssumption
<1>3. /\ a.session.state = c.session.state /\ a.session.freshUntil = c.session.freshUntil
      /\ a.pointerDigest = c.pointerDigest
  BY <1>1, <1>2 DEF ComponentStands
<1>4. /\ a.session.generation = c.session.generation /\ a.session.ordinal = c.session.ordinal
      /\ a.session.predecessor = c.session.predecessor
  <2>1. SessionId(a.descriptor, a.session) = SessionId(c.descriptor, c.session)
    BY <1>1, <1>2 DEF ComponentStands
  <2>2. QED
    BY ONLY <2>1 DEF SessionId
<1>5. a.session = c.session
  BY <1>1, <1>2, <1>3, <1>4 DEF Has, SessionFields
<1>6. QED
  BY <1>1, <1>2, <1>3, <1>5 DEF Has, SetFields

\* Direct evidence stands that was written for the worker, after the delegation.
LEMMA DirectOf ==
  ASSUME NEW worker, NEW written \in Nat, NEW at \in Nat
  PROVE  DirectStands(DirectFor(worker, written), Trust.worker, at)
         <=> worker = Trust.worker /\ written >= at
<1> DEFINE rows == DirectFor(worker, written)
<1>1. DOMAIN rows = DirectSlots
  BY DEF DirectFor
<1>2. ASSUME NEW s \in DirectSlots
      PROVE  /\ rows[s].evidence = s /\ rows[s].worm.digest = s
             /\ rows[s].worm.key = DirectKey(worker, s, s)
             /\ rows[s].worm.version = <<"direct", s>>
             /\ rows[s].worm.retained = written + Term
  BY StoredFields DEF DirectFor
<1>3. Distinct([s \in DirectSlots |-> rows[s].worm.version])
  <2> DEFINE versions == [s \in DirectSlots |-> rows[s].worm.version]
  <2>1. \A s, t \in DirectSlots : versions[s] = versions[t] => s = t
    BY <1>2
  <2>2. DOMAIN versions = DirectSlots
    OBVIOUS
  <2> HIDE DEF versions
  <2>3. Distinct(versions)
    BY <2>1, <2>2 DEF Distinct
  <2>4. QED
    BY <2>3 DEF versions
<1> HIDE DEF rows
<1>4. ASSUME DirectStands(rows, Trust.worker, at) PROVE worker = Trust.worker /\ written >= at
  <2>1. PICK s \in DirectSlots : TRUE
    BY SelectionsAssumption
  <2>2. Retained(rows[s].worm, rows[s].evidence, DirectKey(Trust.worker, s, rows[s].evidence), at)
    BY <1>4 DEF DirectStands
  <2>3. DirectKey(worker, s, s) = DirectKey(Trust.worker, s, s) /\ written + Term >= at + Term
    BY <1>2, <2>2 DEF Retained
  <2>4. QED
    BY <2>3, TermAssumption DEF DirectKey
<1>5. ASSUME worker = Trust.worker, written >= at PROVE DirectStands(rows, Trust.worker, at)
  <2>1. written + Term >= at + Term
    BY <1>5, TermAssumption
  <2>2. \A s \in DirectSlots :
          Retained(rows[s].worm, rows[s].evidence, DirectKey(Trust.worker, s, rows[s].evidence), at)
    BY <1>2, <1>5, <2>1 DEF Retained
  <2>3. QED
    BY <1>1, <1>3, <2>2 DEF DirectStands
<1>6. QED
  BY <1>4, <1>5 DEF rows

\* A record of these sections has these sections.
LEMMA SectionsOfProvisioned ==
  ASSUME NEW set, NEW o, NEW service, NEW evidence, NEW at
  PROVE  LET b == ProvisionedV2(set, o, service, evidence, at) IN
         /\ DOMAIN b = ProvisionedFields
         /\ b.sequence = 0 /\ b.previous = "GENESIS" /\ b.worker = Trust.worker
         /\ b.committedAt = at /\ b.observedAt = at
         /\ b.component = set /\ b.operation = o /\ b.service = service /\ b.evidence = evidence
BY DEF ProvisionedV2, ProvisionedFields

\* What a provisioned record is accepted of, when a batch answers the operation's delegation.
LEMMA ProvisionedOf ==
  ASSUME RecordInv, path = "operation", ops[0].at \notin {"issued", "planned"},
         OpIn(0, path, ops[0], now, served, promotion, records[0], batches),
         NEW b \in batches, ResultParses(b, ops[0].asked),
         NEW set \in Selections, NEW issued \in Selections, NEW sealed \in Selections,
         NEW worker, NEW written \in Nat, NEW at
  PROVE  ProvisionedStands(ProvisionedV2(set, IssuedFor(0, ProvisionIntent(issued)),
           SealedFor(0, IssuedFor(0, ProvisionIntent(sealed))), DirectFor(worker, written), at))
         <=> /\ set \in Mine /\ issued = set /\ sealed = set /\ worker = Trust.worker
             /\ written >= b.delegatedAt /\ at = b.sealedAt
             /\ set.descriptor.committedAt <= ops[0].issuance.issuedAt
<1> DEFINE o == IssuedFor(0, ProvisionIntent(issued))
           v == SealedFor(0, IssuedFor(0, ProvisionIntent(sealed)))
           e == DirectFor(worker, written)
           record == ProvisionedV2(set, o, v, e, at)
<1>1. /\ DOMAIN record = ProvisionedFields
      /\ record.sequence = 0 /\ record.previous = "GENESIS" /\ record.worker = Trust.worker
      /\ record.committedAt = at /\ record.observedAt = at
      /\ record.component = set /\ record.operation = o /\ record.service = v /\ record.evidence = e
  BY SectionsOfProvisioned
<1>2. 0 \in Sequences /\ TimedIn(0, ops[0], now, promotion)
  BY DEF Sequences, OpIn
<1>3. OperationStands(o, ProvisionIntent(set), 0, Trust.worker) <=> issued = set
  <2>1. OperationStands(o, ProvisionIntent(set), 0, Trust.worker)
        <=> ProvisionIntent(issued) = ProvisionIntent(set)
    BY <1>2, IssuedStands
  <2>2. QED
    BY <2>1, SelectionOfIntent
<1>4. ServiceStands(v, 0, at, o) <=> sealed = issued /\ at = b.sealedAt
  <2>1. ServiceStands(v, 0, at, o)
        <=> ProvisionIntent(sealed) = ProvisionIntent(issued) /\ at = b.sealedAt
    BY <1>2, SealedStands
  <2>2. QED
    BY <2>1, SelectionOfIntent
<1>5. DirectStands(e, Trust.worker, v.delegatedAt) <=> worker = Trust.worker /\ written >= b.delegatedAt
  <2>1. v.delegatedAt = b.delegatedAt
    BY ResultIs, SealedOf
  <2>2. b.delegatedAt \in Nat
    BY <1>2, ResultOfPlan
  <2>3. QED
    BY <2>1, <2>2, DirectOf
<1>6. ComponentStands(set, Trust.worker) <=> set \in Mine
  BY SelectionsAssumption DEF Mine, ComponentStands
<1>7. o.issuedAt = ops[0].issuance.issuedAt
  BY DEF IssuedFor
<1> HIDE DEF o, v, e
<1>8. ProvisionedStands(record)
      <=> /\ ComponentStands(set, Trust.worker)
          /\ OperationStands(o, ProvisionIntent(set), 0, Trust.worker)
          /\ ServiceStands(v, 0, at, o)
          /\ DirectStands(e, Trust.worker, v.delegatedAt)
          /\ set.descriptor.committedAt <= o.issuedAt
  <2> HIDE DEF record
  <2>1. QED
    BY <1>1 DEF ProvisionedStands
<1>9. QED
  BY <1>3, <1>4, <1>5, <1>6, <1>7, <1>8 DEF o, v, e

\* A confirmed operation is answered by the batch that it was confirmed of.
LEMMA ConfirmedOf ==
  ASSUME RecordInv, NEW n \in Sequences, Confirmed(n)
  PROVE  /\ path = "operation" /\ ops[n].at = "confirmed"
         /\ OpIn(n, path, ops[n], now, served, promotion, records[0], batches)
         /\ ResultOf(n) \in batches /\ ResultParses(ResultOf(n), ops[n].asked)
<1>1. /\ path = "operation" /\ ops[n].at = "confirmed"
      /\ OpIn(n, path, ops[n], now, served, promotion, records[0], batches)
  BY DEF Confirmed, Step, RecordInv, OpsInv
<1>2. ops[n].answer \in batches /\ ResultParses(ops[n].answer, ops[n].asked)
  BY <1>1 DEF OpIn
<1>3. ResultOf(n) = ops[n].answer
  BY <1>1, <1>2, ResultIs
<1>4. QED
  BY <1>1, <1>2, <1>3

LEMMA OneOperation == ASSUME RecordInv PROVE ProvisionedIsOneOperation
<1>1. SUFFICES ASSUME Confirmed(0),
                      NEW set \in Selections, NEW issued \in Selections, NEW sealed \in Selections,
                      NEW worker \in {Trust.worker, "other"},
                      NEW written \in {0, ResultOf(0).delegatedAt},
                      NEW at \in {ResultOf(0).sealedAt, now}
               PROVE  LET o == IssuedFor(0, ProvisionIntent(issued)) result == ResultOf(0) IN
                      ProvisionedStands(ProvisionedV2(set, o,
                          SealedFor(0, IssuedFor(0, ProvisionIntent(sealed))),
                          DirectFor(worker, written), at))
                      <=> /\ set \in Mine /\ issued = set /\ sealed = set /\ worker = Trust.worker
                          /\ written >= result.delegatedAt /\ at = result.sealedAt
                          /\ set.descriptor.committedAt <= o.issuedAt
  BY DEF ProvisionedIsOneOperation
<1>2. 0 \in Sequences
  BY DEF Sequences
<1>3. /\ path = "operation" /\ ops[0].at = "confirmed"
      /\ OpIn(0, path, ops[0], now, served, promotion, records[0], batches)
      /\ ResultOf(0) \in batches /\ ResultParses(ResultOf(0), ops[0].asked)
  BY <1>1, <1>2, ConfirmedOf
<1>4. written \in Nat
  BY <1>2, <1>3, ResultOfPlan
<1>5. IssuedFor(0, ProvisionIntent(issued)).issuedAt = ops[0].issuance.issuedAt
  BY DEF IssuedFor
<1>6. QED
  BY <1>3, <1>4, <1>5, ProvisionedOf

(* A provisioned record of version 2 is accepted of exactly the issuance,    *)
(* the batch, the instants and the direct evidence that one operation made   *)
(* of one selected component set (activation-record-v2-builder.ts).          *)
THEOREM ProvisionedOne == Spec => []ProvisionedIsOneOperation
BY RecordInvariant, OneOperation, PTL
\* What a request to finalize says.
LEMMA SectionsOfFinalize ==
  ASSUME NEW record, NEW c, NEW rehearsed
  PROVE  LET f == FinalizeFor(record, c, rehearsed) p == ops[1].request.promotion IN
         /\ f.promotion.worker = p.worker /\ f.promotion.started = p.started
         /\ f.promotion.completed = p.completed /\ f.promotion.report = p
         /\ f.promotion.worm = Stored(p, <<"report", p>>, "report", p.completed + Term)
         /\ f.provisioned.set = c.descriptor.set /\ f.provisioned.pointer = c.pointerDigest
         /\ f.provisioned.projection = c.projection
         /\ f.provisioned.record = record /\ f.provisioned.worker = Trust.worker
         /\ f.provisioned.worm = Stored(record, RecordKey(Trust.worker, 0, record), "record",
                                        record.committedAt + Term)
         /\ f.target.commit = "commit" /\ f.target.repository = "repository"
         /\ f.target.rehearsal.workflow = rehearsed
         /\ f.target.rehearsal.repository = "repository"
BY DEF FinalizeFor

\* It is known by its intent.
LEMMA FinalizeOfIntent ==
  ASSUME NEW record, NEW c, NEW d, NEW rehearsed,
         FinalizeIntent(FinalizeFor(record, c, rehearsed)) =
         FinalizeIntent(FinalizeFor(record, d, rehearsed))
  PROVE  FinalizeFor(record, c, rehearsed) = FinalizeFor(record, d, rehearsed)
<1> DEFINE f == FinalizeFor(record, c, rehearsed)
           g == FinalizeFor(record, d, rehearsed)
<1>1. f.provisioned = g.provisioned
  BY DEF FinalizeIntent
<1>2. f = [approvals |-> "approvals", promotion |-> f.promotion, provisioned |-> f.provisioned,
           target |-> f.target]
  BY DEF FinalizeFor
<1>3. g = [approvals |-> "approvals", promotion |-> g.promotion, provisioned |-> g.provisioned,
           target |-> g.target]
  BY DEF FinalizeFor
<1>4. f.promotion = g.promotion /\ f.target = g.target
  BY DEF FinalizeFor
<1> HIDE DEF f, g
<1>5. f = g
  BY <1>1, <1>2, <1>3, <1>4
<1>6. QED
  BY <1>5 DEF f, g

\* Requests of one record are one when they name the same set, pointer and projection.
LEMMA FinalizeOfSet ==
  ASSUME NEW record, NEW c, NEW d, NEW rehearsed
  PROVE  FinalizeFor(record, c, rehearsed) = FinalizeFor(record, d, rehearsed)
         <=> /\ c.descriptor.set = d.descriptor.set /\ c.pointerDigest = d.pointerDigest
             /\ c.projection = d.projection
<1>1. ASSUME FinalizeFor(record, c, rehearsed) = FinalizeFor(record, d, rehearsed)
      PROVE  /\ c.descriptor.set = d.descriptor.set /\ c.pointerDigest = d.pointerDigest
             /\ c.projection = d.projection
  BY <1>1, SectionsOfFinalize
<1>2. ASSUME c.descriptor.set = d.descriptor.set, c.pointerDigest = d.pointerDigest,
             c.projection = d.projection
      PROVE  FinalizeFor(record, c, rehearsed) = FinalizeFor(record, d, rehearsed)
  BY <1>2 DEF FinalizeFor
<1>3. QED
  BY <1>1, <1>2

\* A request of a promotion of this worker stands when it was rehearsed on its own workflow.
LEMMA FinalizeStandsOf ==
  ASSUME NEW record, NEW c, NEW rehearsed,
         ops[1].request.promotion.worker = Trust.worker,
         ops[1].request.promotion.completed \in Nat,
         ops[1].request.promotion.started <= ops[1].request.promotion.completed
  PROVE  FinalizeStands(FinalizeFor(record, c, rehearsed), Trust.worker) <=> rehearsed = "commit"
<1> DEFINE f == FinalizeFor(record, c, rehearsed)
           p == ops[1].request.promotion
<1>1. /\ f.promotion.worker = p.worker /\ f.promotion.started = p.started
      /\ f.promotion.completed = p.completed /\ f.promotion.report = p
      /\ f.promotion.worm = Stored(p, <<"report", p>>, "report", p.completed + Term)
      /\ f.provisioned.record = record /\ f.provisioned.worker = Trust.worker
      /\ f.provisioned.worm = Stored(record, RecordKey(Trust.worker, 0, record), "record",
                                     record.committedAt + Term)
      /\ f.target.commit = "commit" /\ f.target.repository = "repository"
      /\ f.target.rehearsal.workflow = rehearsed
      /\ f.target.rehearsal.repository = "repository"
  BY SectionsOfFinalize
<1> HIDE DEF f
<1>2. TargetStands(f.target) <=> rehearsed = "commit"
  BY <1>1 DEF TargetStands
<1>3. Retained(f.promotion.worm, f.promotion.report, <<"report", f.promotion.report>>,
               f.promotion.completed)
  <2>1. p.completed + Term >= p.completed + Term
    BY TermAssumption
  <2>2. QED
    BY <1>1, <2>1, StoredFields, SMTT(40) DEF Retained
<1>4. /\ f.provisioned.worm.digest = f.provisioned.record
      /\ f.provisioned.worm.key = RecordKey(Trust.worker, 0, f.provisioned.record)
  BY <1>1, StoredFields
<1>5. FinalizeStands(f, Trust.worker) <=> rehearsed = "commit"
  BY <1>1, <1>2, <1>3, <1>4 DEF FinalizeStands
<1>6. QED
  BY <1>5 DEF f

LEMMA SectionsOfActivated ==
  ASSUME NEW f, NEW o, NEW service, NEW at
  PROVE  LET b == ActivatedV2(f, o, service, at) IN
         /\ DOMAIN b = ActivatedFields
         /\ b.sequence = 1 /\ b.previous = f.provisioned.record /\ b.worker = Trust.worker
         /\ b.committedAt = at /\ b.observedAt = at
         /\ b.finalize = f /\ b.operation = o /\ b.service = service
BY DEF ActivatedV2, ActivatedFields

\* What the second operation was admitted for, and the first record's batch.
LEMMA SecondOf ==
  ASSUME RecordInv, Confirmed(1)
  PROVE  LET p == ops[1].request.promotion IN
         /\ path = "operation" /\ ops[0].at = "recorded" /\ records[0] # None
         /\ OpIn(0, path, ops[0], now, served, promotion, records[0], batches)
         /\ ResultOf(0) \in batches /\ ResultParses(ResultOf(0), ops[0].asked)
         /\ records[0].committedAt = ResultOf(0).sealedAt /\ records[0].committedAt \in Nat
         /\ p.worker = Trust.worker /\ p.started \in Nat /\ p.completed \in Nat
         /\ p.started <= p.completed /\ p.completed <= ops[1].issuance.issuedAt
<1> DEFINE p == ops[1].request.promotion
<1>1. /\ path = "operation" /\ OpIn(1, path, ops[1], now, served, promotion, records[0], batches)
  BY ConfirmedOf DEF Sequences
<1>2. AdmissionIn(1, ops[1], promotion, records[0]) /\ TimedIn(1, ops[1], now, promotion)
  BY <1>1 DEF OpIn
<1>3. /\ records[0] # None /\ Settled(promotion) /\ p = promotion
      /\ p.completed <= ops[1].issuance.issuedAt
      /\ FinalizePlans(ops[1].request, records[0], Trust)
  BY <1>2 DEF AdmissionIn, AdmittedIn, TimedIn
<1>4. p.worker = Trust.worker
  BY <1>3 DEF FinalizePlans
<1>5. p.started \in Nat /\ p.completed \in Nat
  BY <1>3 DEF Settled
<1>6. p.started <= p.completed
  BY <1>3, <1>5, NoneAssumption DEF RecordInv, WorldInv, PromotionIn, Settled
<1>7. /\ OpIn(0, path, ops[0], now, served, promotion, records[0], batches)
      /\ RecordIn(0, path, ops[0], records[0], served, records[0], batches)
  BY <1>3 DEF RecordInv, RecordsInv, Sequences
<1>8. PICK b \in batches : ResultParses(b, ops[0].asked) /\ records[0].committedAt = b.sealedAt
  BY <1>1, <1>7 DEF RecordIn
<1>9. ResultOf(0) = b
  BY <1>1, <1>8, ResultIs
<1>10. ops[0].at = "recorded" /\ records[0].committedAt \in Nat
  BY <1>7 DEF RecordIn
<1>11. QED
  BY <1>1, <1>3, <1>4, <1>5, <1>6, <1>7, <1>8, <1>9, <1>10
\* An activated record of version 2, of a request to finalize one record.
LEMMA ActivatedOf ==
  ASSUME RecordInv, Confirmed(1), NEW record, NEW set, NEW issued, NEW sealed, NEW rehearsed
  PROVE  LET Of(c) == FinalizeFor(record, c, rehearsed)
             IssuedOf(c) == IssuedFor(1, FinalizeIntent(Of(c))) IN
         ActivatedStands(ActivatedV2(Of(set), IssuedOf(issued), SealedFor(1, IssuedOf(sealed)),
                                     ResultOf(1).sealedAt))
         <=> rehearsed = "commit" /\ Of(issued) = Of(set) /\ Of(sealed) = Of(set)
<1> DEFINE Of(c) == FinalizeFor(record, c, rehearsed)
           f == Of(set)
           fi == Of(issued)
           fs == Of(sealed)
           o == IssuedFor(1, FinalizeIntent(fi))
           v == SealedFor(1, IssuedFor(1, FinalizeIntent(fs)))
           at == ResultOf(1).sealedAt
           b == ActivatedV2(f, o, v, at)
<1>1. 1 \in Sequences
  BY DEF Sequences
<1>2. /\ path = "operation" /\ ops[1].at = "confirmed"
      /\ OpIn(1, path, ops[1], now, served, promotion, records[0], batches)
      /\ ResultOf(1) \in batches /\ ResultParses(ResultOf(1), ops[1].asked)
  BY <1>1, ConfirmedOf
<1>3. /\ DOMAIN b = ActivatedFields
      /\ b.sequence = 1 /\ b.previous = f.provisioned.record /\ b.worker = Trust.worker
      /\ b.committedAt = at /\ b.observedAt = at
      /\ b.finalize = f /\ b.operation = o /\ b.service = v
  BY SectionsOfActivated
<1>4. OperationStands(o, FinalizeIntent(f), 1, Trust.worker) <=> fi = f
  <2>1. TimedIn(1, ops[1], now, promotion)
    BY <1>2 DEF OpIn
  <2>2. OperationStands(o, FinalizeIntent(f), 1, Trust.worker)
        <=> FinalizeIntent(fi) = FinalizeIntent(f)
    BY <2>1, IssuedStands
  <2>3. FinalizeIntent(fi) = FinalizeIntent(f) => fi = f
    BY FinalizeOfIntent
  <2> HIDE DEF f, fi, fs, o
  <2>4. QED
    BY <2>2, <2>3
<1>5. ServiceStands(v, 1, at, o) <=> fs = fi
  <2>1. ServiceStands(v, 1, at, o) <=> FinalizeIntent(fs) = FinalizeIntent(fi) /\ at = at
    BY <1>1, <1>2, SealedStands
  <2>2. FinalizeIntent(fs) = FinalizeIntent(fi) => fs = fi
    BY FinalizeOfIntent
  <2> HIDE DEF f, fi, fs, o, v
  <2>3. QED
    BY <2>1, <2>2
<1>6. FinalizeStands(f, Trust.worker) <=> rehearsed = "commit"
  BY SecondOf, FinalizeStandsOf
<1>7. f.promotion.completed <= o.issuedAt
  BY SecondOf, SectionsOfFinalize DEF IssuedFor
<1>8. ActivatedStands(b) <=> rehearsed = "commit" /\ fi = f /\ fs = f
  <2> HIDE DEF f, fi, fs, o, v, at, b
  <2>1. ActivatedStands(b)
        <=> /\ FinalizeStands(f, Trust.worker)
            /\ OperationStands(o, FinalizeIntent(f), 1, Trust.worker)
            /\ ServiceStands(v, 1, at, o)
    BY <1>3, <1>7 DEF ActivatedStands
  <2>2. QED
    BY <2>1, <1>4, <1>5, <1>6
<1>9. QED
  BY <1>8

\* Two records of version 2 agree when the second finalizes the first, of its own set.
LEMMA ChainOf ==
  ASSUME RecordInv, Confirmed(1), NEW first, NEW finalized, NEW set, NEW rehearsed, NEW o, NEW v
  PROVE  LET Of(c) == FinalizeFor(OwnProvisioned(finalized), c, rehearsed) IN
         ChainStands(OwnProvisioned(first), ActivatedV2(Of(set), o, v, ResultOf(1).sealedAt))
         <=> /\ finalized = first /\ Of(set) = Of(first)
             /\ records[0].committedAt < ops[1].request.promotion.started
<1> DEFINE Of(c) == FinalizeFor(OwnProvisioned(finalized), c, rehearsed)
           f == Of(set)
           a0 == OwnProvisioned(first)
           prior == OwnProvisioned(finalized)
           a1 == ActivatedV2(f, o, v, ResultOf(1).sealedAt)
           p == ops[1].request.promotion
<1>1. /\ a0.component = first /\ a0.worker = Trust.worker /\ a0.committedAt = ResultOf(0).sealedAt
      /\ prior.component = finalized
  BY SectionsOfProvisioned DEF OwnProvisioned
<1>2. prior = a0 <=> finalized = first
  <2>1. prior = a0 => finalized = first
    <3> HIDE DEF prior, a0
    <3>1. QED
      BY <1>1
  <2>2. QED
    BY <2>1
<1>3. a1.previous = prior /\ a1.worker = Trust.worker /\ a1.finalize = f
  BY SectionsOfActivated, SectionsOfFinalize
<1>4. /\ f.provisioned.record = prior /\ f.provisioned.worker = Trust.worker
      /\ f.provisioned.set = set.descriptor.set /\ f.provisioned.pointer = set.pointerDigest
      /\ f.provisioned.projection = set.projection
      /\ f.promotion.started = p.started
      /\ f.provisioned.worm = Stored(prior, RecordKey(Trust.worker, 0, prior), "record",
                                     prior.committedAt + Term)
  BY SectionsOfFinalize
<1>5. f.provisioned.worm.retained = prior.committedAt + Term
  BY <1>4, StoredFields
<1>6. Of(set) = Of(first)
      <=> /\ set.descriptor.set = first.descriptor.set /\ set.pointerDigest = first.pointerDigest
          /\ set.projection = first.projection
  BY FinalizeOfSet
<1>7. a0.committedAt = records[0].committedAt /\ a0.committedAt \in Nat
  BY <1>1, SecondOf
<1>8. a0.committedAt + Term >= a0.committedAt + Term
  BY <1>7, TermAssumption
<1>9. ChainStands(a0, a1)
      <=> finalized = first /\ Of(set) = Of(first) /\ records[0].committedAt < p.started
  <2> HIDE DEF Of, f, a0, prior, a1, p
  <2>1. ASSUME ChainStands(a0, a1)
        PROVE  finalized = first /\ Of(set) = Of(first) /\ records[0].committedAt < p.started
    BY <1>1, <1>2, <1>3, <1>4, <1>6, <1>7, <2>1 DEF ChainStands
  <2>2. ASSUME finalized = first, Of(set) = Of(first), records[0].committedAt < p.started
        PROVE  ChainStands(a0, a1)
    BY <1>1, <1>2, <1>3, <1>4, <1>5, <1>6, <1>7, <1>8, <2>2 DEF ChainStands
  <2>3. QED
    BY <2>1, <2>2
<1>10. QED
  BY <1>9

LEMMA OneActivation == ASSUME RecordInv PROVE ChainIsOneActivation
<1>1. SUFFICES ASSUME Confirmed(1), NEW first \in Mine, NEW finalized \in Mine, NEW set \in Mine,
                      NEW issued \in Mine, NEW sealed \in Mine, NEW rehearsed \in {"commit", "other"}
               PROVE  LET Of(c) == FinalizeFor(OwnProvisioned(finalized), c, rehearsed)
                          IssuedOf(c) == IssuedFor(1, FinalizeIntent(Of(c)))
                          a0 == OwnProvisioned(first)
                          a1 == ActivatedV2(Of(set), IssuedOf(issued),
                                            SealedFor(1, IssuedOf(sealed)), ResultOf(1).sealedAt) IN
                      (/\ ChainParses(a0, a1)
                       /\ AsksToFinalize([schema |-> "finalize v2", request |-> Of(set)],
                                         "finalize", Trust.worker))
                      <=> /\ finalized = first
                          /\ Of(set) = Of(first) /\ Of(issued) = Of(set) /\ Of(sealed) = Of(set)
                          /\ rehearsed = "commit"
                          /\ first.descriptor.committedAt <= ops[0].issuance.issuedAt
                          /\ RecordStands(1)
  BY DEF ChainIsOneActivation
<1> DEFINE Of(c) == FinalizeFor(OwnProvisioned(finalized), c, rehearsed)
           IssuedOf(c) == IssuedFor(1, FinalizeIntent(Of(c)))
           a0 == OwnProvisioned(first)
           a1 == ActivatedV2(Of(set), IssuedOf(issued), SealedFor(1, IssuedOf(sealed)),
                             ResultOf(1).sealedAt)
           p == ops[1].request.promotion
           body == [schema |-> "finalize v2", request |-> Of(set)]
<1>2. /\ path = "operation" /\ ops[0].at = "recorded" /\ records[0] # None
      /\ OpIn(0, path, ops[0], now, served, promotion, records[0], batches)
      /\ ResultOf(0) \in batches /\ ResultParses(ResultOf(0), ops[0].asked)
      /\ records[0].committedAt \in Nat /\ p.started \in Nat
      /\ p.worker = Trust.worker /\ p.completed \in Nat /\ p.started <= p.completed
  BY <1>1, SecondOf
<1>3. ProvisionedStands(a0) <=> first.descriptor.committedAt <= ops[0].issuance.issuedAt
  <2>1. ResultOf(0).delegatedAt \in Nat
    BY <1>2, ResultOfPlan DEF Sequences
  <2>2. first \in Selections
    BY DEF Mine
  <2>3. ProvisionedStands(ProvisionedV2(first, IssuedFor(0, ProvisionIntent(first)),
          SealedFor(0, IssuedFor(0, ProvisionIntent(first))),
          DirectFor(Trust.worker, ResultOf(0).delegatedAt), ResultOf(0).sealedAt))
        <=> first.descriptor.committedAt <= ops[0].issuance.issuedAt
    BY <1>2, <2>1, <2>2, ProvisionedOf
  <2>4. QED
    BY <2>3 DEF OwnProvisioned
<1>4. ActivatedStands(a1) <=> rehearsed = "commit" /\ Of(issued) = Of(set) /\ Of(sealed) = Of(set)
  BY <1>1, ActivatedOf
<1>5. ChainStands(a0, a1)
      <=> finalized = first /\ Of(set) = Of(first) /\ records[0].committedAt < p.started
  BY <1>1, ChainOf
<1>6. AsksToFinalize(body, "finalize", Trust.worker) <=> rehearsed = "commit"
  <2>1. FinalizeStands(Of(set), Trust.worker) <=> rehearsed = "commit"
    BY <1>2, FinalizeStandsOf
  <2> HIDE DEF Of
  <2>2. QED
    BY <2>1 DEF AsksToFinalize
<1>7. records[0].committedAt < p.started <=> RecordStands(1)
  <2>1. RecordStands(1) \/ p.started <= records[0].committedAt
    BY <1>1, NotRefused DEF NoLateRefusal, Confirmed, Sequences
  <2>2. RecordStands(1) => records[0].committedAt < p.started
    BY DEF RecordStands, ActivationChronology
  <2>3. QED
    BY <1>2, <2>1, <2>2
<1> HIDE DEF Of, IssuedOf, a0, a1, p, body
<1>8. (ChainParses(a0, a1) /\ AsksToFinalize(body, "finalize", Trust.worker))
      <=> /\ finalized = first
          /\ Of(set) = Of(first) /\ Of(issued) = Of(set) /\ Of(sealed) = Of(set)
          /\ rehearsed = "commit"
          /\ first.descriptor.committedAt <= ops[0].issuance.issuedAt
          /\ RecordStands(1)
  BY <1>3, <1>4, <1>5, <1>6, <1>7 DEF ChainParses
<1>9. QED
  BY <1>8 DEF Of, IssuedOf, a0, a1, body

(* A chain of version 2 is accepted of exactly one activation, and then the  *)
(* activation can be recorded as version 1 too                               *)
(* (activation-record-v2-builder.ts, admin-activation-v2-codec.ts).          *)
THEOREM ChainOne == Spec => []ChainIsOneActivation
BY RecordInvariant, OneActivation, PTL

=============================================================================
