----------------------- MODULE ActivationRegistry_proof -----------------------
(***************************************************************************)
(* Proofs about the registry of one worker version, for any services,      *)
(* requests, window and number of deployments and faults: it implements    *)
(* one activation, and the activated record brackets the promotion.        *)
(***************************************************************************)
EXTENDS ActivationRegistry, TLAPS

\* The first row is mirrored before the second is asked for, and a call keeps to
\* the row that its request made.
CallsInOrder ==
  /\ call # None =>
       /\ call.request \in RequestOf(call.sequence)
       /\ call.sequence = 1 => RequireConfirmed(0) /\ call.request.promotion \in promotions
       /\ call.at \in {"read", "accept", "commit"} => rows[call.sequence] = None
       /\ call.at = "read" /\ call.sequence = 0 => CrossBound(call.request)
       /\ call.at \in {"accept", "commit"} =>
            /\ call.seen \in [Service -> Seen]
            /\ call.sequence = 0 => CrossBound(call.request)
       /\ call.at \in {"mirror", "sent", "advance"} =>
            rows[call.sequence] # None /\ rows[call.sequence].request = call.request
       /\ call.at = "advance" => call.sequence = 1 /\ RequireConfirmed(1)
  /\ rows[0] # None => rows[0].request \in ProvisionRequest /\ CrossBound(rows[0].request)
  /\ rows[1] # None => /\ RequireConfirmed(0)
                       /\ rows[1].request \in AnyFinalizeRequest
                       /\ rows[1].request.promotion \in promotions
  /\ \A a \in answers : a.sequence = 0 => a.record \in ProvisionRequest

\* Every upload of a record after the first was paid for by a fault.
InTransit(n) ==
  call # None /\ call.at = "sent" /\ call.sequence = n /\ <<n, sent[n]>> \in transit

UploadsPaid ==
  \A n \in Sequence :
    /\ sent[n] <= faults + 1
    /\ bucket[n] = {} /\ ~InTransit(n) => sent[n] <= faults

\* What was read of a service, at an instant t of a history d of deployments: it
\* was made before it was read, and those that followed were made after.
ReadIn(d, t, s, e) ==
  /\ e.id \in 1..Len(d[s]) /\ d[s][e.id].at <= e.at /\ e.at <= t
  /\ \A id \in 1..Len(d[s]) : id > e.id => e.at <= d[s][id].at

\* An observation for the record n: every service was read, before it was dated,
\* and the private services on the deployments that the provision expects.
SoundIn(d, t, r, n, seen, date) ==
  /\ date <= t
  /\ \A s \in Service : ReadIn(d, t, s, seen[s]) /\ seen[s].at <= date
  /\ \A s \in Private : seen[s].id = IF n = 0 THEN r.before[s] ELSE r.after[s]

Provisioning == IF call.sequence = 0 THEN call.request ELSE rows[0].request

\* What a call read, what the observer keeps and what the rows hold is sound.
Readings ==
  /\ call # None /\ call.at = "read" =>
       \A s \in Service : call.seen[s] # None =>
         ReadIn(deployments, now, s, call.seen[s]) /\ call.seen[s].id = Expected(s).id
  /\ call # None /\ call.at \in {"accept", "commit"} =>
       SoundIn(deployments, now, Provisioning, call.sequence, call.seen, call.observedAt)
  /\ \A b \in batches : SoundIn(deployments, now, b.key, b.key.phase, b.seen, b.observedAt)
  /\ \A n \in Sequence : rows[n] # None =>
       SoundIn(deployments, now, rows[0].request, n, rows[n].seen, rows[n].observedAt)

\* A report of a promotion is of a deployment of the ingress, and dated by it.
PromotionsMade ==
  \A p \in promotions :
    /\ p.deployment \in 1..Len(deployments[Ingress])
    /\ deployments[Ingress][p.deployment].at = p.completedAt

\* Every service was deployed by its bootstrap, and nothing in the future.
Opened ==
  \A s \in Service :
    /\ Len(deployments[s]) > 0
    /\ \A id \in 1..Len(deployments[s]) : deployments[s][id].at <= now

\* The head was advanced to a record of the promoted deployment, made after the
\* ingress was first read.
HeadVerified ==
  head # None =>
    /\ rows[0] # None /\ rows[1] # None /\ PromotionBinding
    /\ rows[0].seen[Ingress].at < rows[1].request.promotion.completedAt

RegistryInv ==
  TypeOK /\ CallsInOrder /\ UploadsPaid /\ Readings /\ PromotionsMade /\ Opened /\ HeadVerified

-----------------------------------------------------------------------------
(* Typed parts. *)

LEMMA Constants ==
  /\ Window \in Nat /\ MaxClock \in Nat /\ MaxDeploys \in Nat /\ MaxFaults \in Nat
  /\ MaxIngress \in Nat /\ Ingress \in Service /\ Private \subseteq Service
  /\ Instant \subseteq Nat /\ Sequence = {0, 1} /\ \A s \in Service : Bound(s) \in Nat
  /\ Ingress \notin Private
BY RegistryAssumption DEF Service, Instant, Sequence, Bound

LEMMA Parts ==
  ASSUME TypeOK
  PROVE  /\ now \in Nat /\ faults \in Nat
         /\ call # None => call \in CallState
         /\ \A n \in Sequence : rows[n] # None => rows[n] \in RowState
         /\ \A n \in Sequence : sent[n] \in Nat
BY Constants DEF TypeOK

\* The rest of the state stays.
LEMMA CallChanges ==
  ASSUME RegistryInv, UNCHANGED <<now, faults, provider, rows, worm, head, answers>>,
         call' \in CallState \cup {None},
         CallsInOrder',
         ~\E n \in Sequence : InTransit(n),
         call' # None /\ call'.at = "read" =>
           \A s \in Service : call'.seen[s] # None =>
             ReadIn(deployments, now, s, call'.seen[s]) /\ call'.seen[s].id = Expected(s)'.id,
         call' # None /\ call'.at \in {"accept", "commit"} =>
           SoundIn(deployments, now, Provisioning', call'.sequence, call'.seen, call'.observedAt)
  PROVE  RegistryInv'
<1>1. TypeOK'
  BY DEF RegistryInv, TypeOK, provider, worm
<1>2. UploadsPaid'
  BY DEF RegistryInv, UploadsPaid, provider, worm
<1>3. Readings'
  BY DEF RegistryInv, Readings, provider, worm
<1>4. PromotionsMade' /\ Opened' /\ HeadVerified'
  BY DEF RegistryInv, PromotionsMade, Opened, HeadVerified, PromotionBinding, Promoted, provider, worm
<1>5. QED
  BY <1>1, <1>2, <1>3, <1>4 DEF RegistryInv

\* A call ends: what is not in a row is forgotten.
LEMMA CallEnds ==
  ASSUME RegistryInv, UNCHANGED <<now, provider, rows, worm, head, answers>>, call' = None,
         faults' \in 0..MaxFaults, faults <= faults',
         \A n \in Sequence : InTransit(n) => faults' = faults + 1
  PROVE  RegistryInv'
<1>1. TypeOK'
  BY DEF RegistryInv, TypeOK, provider, worm
<1>2. CallsInOrder'
  BY DEF RegistryInv, CallsInOrder, RequireConfirmed, provider, worm
<1>3. UploadsPaid'
  <2> SUFFICES ASSUME NEW n \in Sequence
               PROVE  sent[n] <= faults' + 1 /\ (bucket[n] = {} => sent[n] <= faults')
    BY DEF UploadsPaid, worm
  <2>1. faults \in Nat /\ faults' \in Nat /\ sent[n] \in Nat
    BY Parts, Constants DEF RegistryInv
  <2>2. QED
    BY <2>1 DEF RegistryInv, UploadsPaid
<1>4. Readings'
  BY DEF RegistryInv, Readings, provider, worm
<1>5. PromotionsMade' /\ Opened' /\ HeadVerified'
  BY DEF RegistryInv, PromotionsMade, Opened, HeadVerified, PromotionBinding, Promoted, provider, worm
<1>6. QED
  BY <1>1, <1>2, <1>3, <1>4, <1>5 DEF RegistryInv

-----------------------------------------------------------------------------
(* The provider and time. *)

Extends(d, e, t) ==
  \A s \in Service :
    /\ Len(d[s]) <= Len(e[s])
    /\ \A id \in 1..Len(e[s]) : IF id <= Len(d[s]) THEN e[s][id] = d[s][id] ELSE e[s][id].at = t

LEMMA ReadingsStay ==
  ASSUME NEW d \in [Service -> Seq(Deployment)], NEW e \in [Service -> Seq(Deployment)],
         NEW t \in Nat, NEW u \in Nat, t <= u, Extends(d, e, t),
         NEW s \in Service, NEW seen \in Seen, ReadIn(d, t, s, seen)
  PROVE  ReadIn(e, u, s, seen)
<1>1. Len(d[s]) \in Nat /\ Len(e[s]) \in Nat /\ seen.id \in Nat /\ seen.at \in Nat
  <2>1. d[s] \in Seq(Deployment) /\ e[s] \in Seq(Deployment)
    OBVIOUS
  <2>2. seen.id \in Nat /\ seen.at \in Nat
    BY Constants DEF Seen
  <2>3. Len(d[s]) \in Nat /\ Len(e[s]) \in Nat
    BY <2>1
  <2>4. QED
    BY <2>2, <2>3
<1>2. seen.id \in 1..Len(e[s]) /\ e[s][seen.id] = d[s][seen.id]
  BY <1>1 DEF Extends, ReadIn
<1>3. ASSUME NEW id \in 1..Len(e[s]), id > seen.id PROVE seen.at <= e[s][id].at
  <2>1. CASE id <= Len(d[s])
    <3>1. e[s][id] = d[s][id] /\ id \in 1..Len(d[s])
      BY <2>1, <1>1 DEF Extends
    <3>2. QED
      BY <3>1, <1>3 DEF ReadIn
  <2>2. CASE ~(id <= Len(d[s]))
    <3>1. e[s][id].at = t
      BY <2>2 DEF Extends
    <3>2. QED
      BY <3>1 DEF ReadIn
  <2>3. QED
    BY <2>1, <2>2
<1>4. seen.at <= u
  BY <1>1 DEF ReadIn
<1>5. QED
  BY <1>2, <1>3, <1>4 DEF ReadIn

LEMMA ObservationsStay ==
  ASSUME NEW d \in [Service -> Seq(Deployment)], NEW e \in [Service -> Seq(Deployment)],
         NEW t \in Nat, NEW u \in Nat, t <= u, Extends(d, e, t),
         NEW seen \in [Service -> Seen], NEW r, NEW n, NEW date \in Nat,
         SoundIn(d, t, r, n, seen, date)
  PROVE  SoundIn(e, u, r, n, seen, date)
<1>1. \A s \in Service : ReadIn(e, u, s, seen[s])
  BY ReadingsStay DEF SoundIn
<1>2. date <= u
  BY DEF SoundIn
<1>3. QED
  BY <1>1, <1>2 DEF SoundIn

\* The world goes on: deployments are only added, and dated by the clock.
LEMMA WorldGoesOn ==
  ASSUME RegistryInv, TypeOK', PromotionsMade',
         UNCHANGED <<faults, call, rows, worm, head, answers>>,
         now <= now', Extends(deployments, deployments', now), promotions \subseteq promotions'
  PROVE  RegistryInv'
<1>1. /\ deployments \in [Service -> Seq(Deployment)] /\ deployments' \in [Service -> Seq(Deployment)]
      /\ now \in Nat /\ now' \in Nat
  BY Constants DEF RegistryInv, TypeOK
<1>2. CallsInOrder'
  BY DEF RegistryInv, CallsInOrder, RequireConfirmed
<1>3. UploadsPaid'
  BY DEF RegistryInv, UploadsPaid, InTransit, worm
<1>4. Readings'
  <2>0. ASSUME NEW r, NEW n, NEW seen \in [Service -> Seen], NEW date \in Nat,
               SoundIn(deployments, now, r, n, seen, date)
        PROVE  SoundIn(deployments', now', r, n, seen, date)
    BY <1>1, <2>0, ObservationsStay
  <2>1. ASSUME call # None, call.at = "read", NEW s \in Service, call.seen[s] # None
        PROVE  ReadIn(deployments', now', s, call.seen[s]) /\ call.seen[s].id = Expected(s)'.id
    <3>1. call.seen[s] \in Seen
      BY <2>1, Parts DEF RegistryInv, CallState
    <3>2. ReadIn(deployments, now, s, call.seen[s]) /\ call.seen[s].id = Expected(s).id
      BY <2>1 DEF RegistryInv, Readings
    <3>3. Expected(s)' = Expected(s)
      BY DEF Expected
    <3>4. QED
      BY <1>1, <3>1, <3>2, <3>3, ReadingsStay
  <2>2. ASSUME call # None, call.at \in {"accept", "commit"}
        PROVE  SoundIn(deployments', now', Provisioning, call.sequence, call.seen, call.observedAt)
    <3>1. call.seen \in [Service -> Seen] /\ call.observedAt \in Nat
      BY <2>2, Parts, Constants DEF RegistryInv, CallsInOrder, CallState
    <3>2. SoundIn(deployments, now, Provisioning, call.sequence, call.seen, call.observedAt)
      BY <2>2 DEF RegistryInv, Readings
    <3>3. QED
      BY <2>0, <3>1, <3>2
  <2>3. ASSUME NEW b \in batches
        PROVE  SoundIn(deployments', now', b.key, b.key.phase, b.seen, b.observedAt)
    <3>1. b.seen \in [Service -> Seen] /\ b.observedAt \in Nat
      BY Constants DEF RegistryInv, TypeOK, BatchOf
    <3>2. SoundIn(deployments, now, b.key, b.key.phase, b.seen, b.observedAt)
      BY DEF RegistryInv, Readings
    <3>3. QED
      BY <2>0, <3>1, <3>2
  <2>4. ASSUME NEW n \in Sequence, rows[n] # None
        PROVE  SoundIn(deployments', now', rows[0].request, n, rows[n].seen, rows[n].observedAt)
    <3>1. rows[n].seen \in [Service -> Seen] /\ rows[n].observedAt \in Nat
      BY <2>4, Parts, Constants DEF RegistryInv, RowState
    <3>2. SoundIn(deployments, now, rows[0].request, n, rows[n].seen, rows[n].observedAt)
      BY <2>4 DEF RegistryInv, Readings
    <3>3. QED
      BY <2>0, <3>1, <3>2
  <2>5. Provisioning' = Provisioning
    BY DEF Provisioning
  <2>6. QED
    BY <2>1, <2>2, <2>3, <2>4, <2>5 DEF Readings, worm
<1>5. HeadVerified'
  BY DEF RegistryInv, HeadVerified, PromotionBinding, Promoted
<1>6. Opened'
  <2> SUFFICES ASSUME NEW s \in Service
               PROVE  /\ Len(deployments'[s]) > 0
                      /\ \A id \in 1..Len(deployments'[s]) : deployments'[s][id].at <= now'
    BY DEF Opened
  <2>1. /\ deployments[s] \in Seq(Deployment) /\ deployments'[s] \in Seq(Deployment)
        /\ Len(deployments[s]) \in Nat /\ Len(deployments'[s]) \in Nat
    BY <1>1
  <2>2. Len(deployments'[s]) > 0
    BY <2>1 DEF RegistryInv, Opened, Extends
  <2>3. ASSUME NEW id \in 1..Len(deployments'[s]) PROVE deployments'[s][id].at <= now'
    <3>1. deployments'[s][id].at \in Nat
      <4>1. deployments'[s][id] \in Deployment
        BY <2>1
      <4>2. QED
        BY <4>1, Constants DEF Deployment
    <3>2. deployments'[s][id].at <= now
      BY <2>1, <1>1 DEF RegistryInv, Opened, Extends
    <3>3. QED
      BY <1>1, <3>1, <3>2
  <2>4. QED
    BY <2>2, <2>3
<1>7. QED
  BY <1>2, <1>3, <1>4, <1>5, <1>6 DEF RegistryInv

LEMMA Appended ==
  ASSUME TypeOK, NEW s \in Service, NEW made \in Deployment, made.at = now,
         deployments' = [deployments EXCEPT ![s] = Append(@, made)]
  PROVE  /\ deployments' \in [Service -> Seq(Deployment)]
         /\ Extends(deployments, deployments', now)
         /\ Len(deployments'[s]) = Current(s) + 1 /\ deployments'[s][Current(s) + 1] = made
         /\ Current(s) \in Nat
<1>1. deployments \in [Service -> Seq(Deployment)] /\ deployments[s] \in Seq(Deployment)
  BY DEF TypeOK
<1>2. /\ Append(deployments[s], made) \in Seq(Deployment)
      /\ Len(Append(deployments[s], made)) = Len(deployments[s]) + 1
      /\ \A id \in 1..Len(deployments[s]) : Append(deployments[s], made)[id] = deployments[s][id]
      /\ Append(deployments[s], made)[Len(deployments[s]) + 1] = made
      /\ Len(deployments[s]) \in Nat
  BY <1>1
<1>3. \A x \in Service : Len(deployments[x]) \in Nat
  BY <1>1
<1>4. deployments' \in [Service -> Seq(Deployment)]
  BY <1>1, <1>2
<1>5. Extends(deployments, deployments', now)
  <2> SUFFICES ASSUME NEW x \in Service
               PROVE  /\ Len(deployments[x]) <= Len(deployments'[x])
                      /\ \A id \in 1..Len(deployments'[x]) :
                           IF id <= Len(deployments[x]) THEN deployments'[x][id] = deployments[x][id]
                           ELSE deployments'[x][id].at = now
    BY DEF Extends
  <2>1. CASE x = s
    <3>1. deployments'[x] = Append(deployments[s], made)
      BY <1>1, <2>1
    <3>2. QED
      BY <1>2, <2>1, <3>1
  <2>2. CASE x # s
    <3>1. deployments'[x] = deployments[x]
      BY <1>1, <2>2
    <3>2. QED
      BY <1>3, <3>1
  <2>3. QED
    BY <2>1, <2>2
<1>6. QED
  BY <1>1, <1>2, <1>4, <1>5 DEF Current

LEMMA PromotionsStay ==
  ASSUME RegistryInv, deployments' \in [Service -> Seq(Deployment)],
         Extends(deployments, deployments', now), NEW p \in promotions
  PROVE  p.deployment \in 1..Len(deployments'[Ingress])
         /\ deployments'[Ingress][p.deployment].at = p.completedAt
<1>1. Len(deployments[Ingress]) \in Nat /\ Len(deployments'[Ingress]) \in Nat
  BY Constants DEF RegistryInv, TypeOK
<1>2. p.deployment \in 1..Len(deployments[Ingress])
      /\ deployments[Ingress][p.deployment].at = p.completedAt
  BY DEF RegistryInv, PromotionsMade
<1>3. QED
  BY <1>1, <1>2, Constants DEF Extends

LEMMA DeployKeeps ==
  ASSUME RegistryInv, NEW s \in Service, NEW serves \in {"FINAL", "OTHER"}, Deploy(s, serves)
  PROVE  RegistryInv'
<1>1. Made(serves) \in Deployment /\ Made(serves).at = now
  BY DEF RegistryInv, TypeOK, Made, Deployment
<1>2. deployments' = [deployments EXCEPT ![s] = Append(@, Made(serves))]
  BY DEF Deploy
<1>3. deployments' \in [Service -> Seq(Deployment)] /\ Extends(deployments, deployments', now)
  BY <1>1, <1>2, Appended DEF RegistryInv
<1>4. TypeOK'
  BY <1>3 DEF RegistryInv, TypeOK, Deploy, worm
<1>5. PromotionsMade'
  BY <1>3, PromotionsStay DEF PromotionsMade, Deploy
<1>6. QED
  BY <1>3, <1>4, <1>5, Parts, WorldGoesOn DEF RegistryInv, Deploy

LEMMA PromotionKeeps ==
  ASSUME RegistryInv, FinishPromotion
  PROVE  RegistryInv'
<1> DEFINE p == [deployment |-> Current(Ingress) + 1, startedAt |-> promoting, completedAt |-> now]
<1>1. Made("FINAL") \in Deployment /\ Made("FINAL").at = now
  BY DEF RegistryInv, TypeOK, Made, Deployment
<1>2. deployments' = [deployments EXCEPT ![Ingress] = Append(@, Made("FINAL"))]
  BY DEF FinishPromotion
<1>3. /\ deployments' \in [Service -> Seq(Deployment)] /\ Extends(deployments, deployments', now)
      /\ Len(deployments'[Ingress]) = Current(Ingress) + 1
      /\ deployments'[Ingress][Current(Ingress) + 1] = Made("FINAL") /\ Current(Ingress) \in Nat
  BY <1>1, <1>2, Constants, Appended DEF RegistryInv
<1>4. p \in Promotion /\ promotions' = promotions \cup {p}
  <2>1. Current(Ingress) + 1 \in Id(Ingress)
    BY <1>3, Constants DEF FinishPromotion, Id, Bound
  <2>2. QED
    BY <2>1 DEF FinishPromotion, RegistryInv, TypeOK, Promotion
<1>5. TypeOK'
  BY <1>3, <1>4 DEF RegistryInv, TypeOK, FinishPromotion, worm
<1>6. p.deployment \in 1..Len(deployments'[Ingress])
      /\ deployments'[Ingress][p.deployment].at = p.completedAt
  BY <1>1, <1>3
<1> HIDE DEF p
<1>7. PromotionsMade'
  BY <1>3, <1>4, <1>6, PromotionsStay DEF PromotionsMade
<1>8. QED
  BY <1>3, <1>4, <1>5, <1>7, Parts, WorldGoesOn DEF RegistryInv, FinishPromotion

LEMMA TimeKeeps ==
  ASSUME RegistryInv, Tick \/ StartPromotion
  PROVE  RegistryInv'
<1>1. deployments' = deployments /\ promotions' = promotions
  BY DEF Tick, StartPromotion, provider
<1>2. Extends(deployments, deployments', now)
  <2>1. \A s \in Service : Len(deployments[s]) \in Nat
    BY DEF RegistryInv, TypeOK
  <2>2. QED
    BY <1>1, <2>1 DEF Extends
<1>3. now' \in Instant /\ now <= now' /\ promoting' \in Instant \cup {None}
  BY Constants DEF RegistryInv, TypeOK, Tick, StartPromotion, Instant, provider
<1>4. TypeOK'
  BY <1>1, <1>3 DEF RegistryInv, TypeOK, Tick, StartPromotion, worm
<1>5. PromotionsMade'
  BY <1>1 DEF RegistryInv, PromotionsMade
<1>6. QED
  BY <1>1, <1>2, <1>3, <1>4, <1>5, WorldGoesOn DEF Tick, StartPromotion

-----------------------------------------------------------------------------
(* Requests and the observation. *)

LEMMA Requested ==
  ASSUME RegistryInv, NEW r \in FinalizeRequest
  PROVE  r \in AnyFinalizeRequest /\ r.promotion \in promotions
<1>1. r.promotion \in promotions /\ r.provisioned \in answers /\ r.provisioned.sequence = 0
      /\ r = [name |-> r.name, promotion |-> r.promotion, provisioned |-> r.provisioned]
      /\ r.name \in Request
  BY DEF FinalizeRequest
<1>2. r.promotion \in Promotion /\ r.provisioned \in AnswerOf
      /\ r.provisioned.record \in ProvisionRequest
  BY <1>1 DEF RegistryInv, TypeOK, CallsInOrder
<1>3. r.provisioned \in [sequence: {0}, record: ProvisionRequest, version: Version]
  BY <1>1, <1>2 DEF AnswerOf
<1>4. QED
  BY <1>1, <1>2, <1>3 DEF AnyFinalizeRequest

LEMMA StartKeeps ==
  ASSUME RegistryInv, call = None, NEW n \in Sequence, NEW r \in RequestOf(n),
         n = 0 /\ rows[0] = None => CrossBound(r),
         n = 1 => RequireConfirmed(0) /\ r.promotion \in promotions,
         Resolve(n, r)
  PROVE  RegistryInv'
<1> DEFINE at == IF rows[n] = None THEN "read" ELSE "mirror"
<1>1. call' = Started(n, r, at)
  BY DEF Resolve
<1>2. Started(n, r, at) \in CallState
  BY Constants DEF Started, Unread, CallState, RequestOf, AnyRequest, Instant
<1>3. call'.sequence = n /\ call'.request = r /\ call'.at = at /\ call' # None
      /\ \A s \in Service : call'.seen[s] = None
  BY <1>1, <1>2, NoneAssumption DEF Started, Unread
<1>4. CallsInOrder'
  <2>1. call'.at \in {"mirror", "sent", "advance"} =>
          rows[n] # None /\ rows[n].request = r /\ call'.at = "mirror"
    BY <1>3 DEF Resolve, Idempotent
  <2>2. call'.at = "read" => rows[n] = None
    BY <1>3
  <2>3. call'.at \in {"read", "mirror"}
    BY <1>3
  <2>4. /\ rows' = rows /\ promotions' = promotions /\ answers' = answers
    BY DEF Resolve, provider
  <2>5. /\ call'.request \in RequestOf(call'.sequence)
        /\ call'.sequence = 1 => RequireConfirmed(0) /\ call'.request.promotion \in promotions
        /\ call'.at \in {"read", "accept", "commit"} => rows[call'.sequence] = None
        /\ call'.at = "read" /\ call'.sequence = 0 => CrossBound(call'.request)
        /\ call'.at \notin {"accept", "commit", "advance"}
        /\ call'.at \in {"mirror", "sent", "advance"} =>
             rows[call'.sequence] # None /\ rows[call'.sequence].request = call'.request
    BY <1>3, <2>1, <2>2, <2>3
  <2>6. QED
    BY <2>4, <2>5 DEF RegistryInv, CallsInOrder, RequireConfirmed
<1>5. QED
  BY <1>1, <1>2, <1>3, <1>4, CallChanges DEF Resolve, InTransit

LEMMA RequestsKeep ==
  ASSUME RegistryInv,
         (\E r \in ProvisionRequest : Provision(r)) \/ (\E r \in FinalizeRequest : Finalize(r))
  PROVE  RegistryInv'
<1>1. ASSUME NEW r \in ProvisionRequest, Provision(r) PROVE RegistryInv'
  BY <1>1, StartKeeps, Constants DEF Provision, RequestOf
<1>2. ASSUME NEW r \in FinalizeRequest, Finalize(r) PROVE RegistryInv'
  BY <1>2, StartKeeps, Constants, Requested DEF Finalize, RequestOf
<1>3. QED
  BY <1>1, <1>2

LEMMA ReadKeeps ==
  ASSUME RegistryInv, NEW s \in Service, ReadService(s)
  PROVE  RegistryInv'
<1>1. call \in CallState /\ call.at = "read" /\ call # None
  BY Parts DEF RegistryInv, ReadService
<1>2. CASE ~Matches(s, Expected(s))
  BY <1>1, <1>2, CallEnds, Parts DEF ReadService, InTransit, RegistryInv, TypeOK
<1>3. CASE Matches(s, Expected(s))
  <2> DEFINE e == [id |-> Current(s), at |-> now]
  <2>1. call' = [call EXCEPT !.seen[s] = e]
    BY <1>3 DEF ReadService
  <2>2. deployments[s] \in Seq(Deployment) /\ Current(s) \in Nat /\ now \in Instant
    BY DEF RegistryInv, TypeOK, Current
  <2>3. e \in Seen
    BY <2>2 DEF Seen
  <2>4. ReadIn(deployments, now, s, e) /\ e.id = Expected(s).id
    <3>1. e.id \in 1..Len(deployments[s]) /\ deployments[s][e.id].at \in Nat
          /\ deployments[s][e.id].at <= now
      <4>1. Current(s) \in 1..Len(deployments[s])
        BY <2>2 DEF RegistryInv, Opened, Current
      <4>2. deployments[s][Current(s)] \in Deployment
        BY <2>2, <4>1
      <4>3. deployments[s][Current(s)].at \in Nat
        BY <4>2, Constants DEF Deployment
      <4>4. deployments[s][Current(s)].at <= now
        BY <4>1 DEF RegistryInv, Opened
      <4>5. QED
        BY <4>1, <4>3, <4>4
    <3>2. QED
      BY <3>1, <2>2, <1>3, Constants DEF ReadIn, Matches, Current
  <2> HIDE DEF e
  <2>5. /\ call' \in CallState /\ call' # None /\ call'.at = "read"
        /\ call'.sequence = call.sequence /\ call'.request = call.request
        /\ call'.seen = [call.seen EXCEPT ![s] = e]
    BY <1>1, <2>1, <2>3, NoneAssumption DEF CallState
  <2>6. CallsInOrder'
    BY <1>1, <2>5 DEF RegistryInv, CallsInOrder, ReadService, RequireConfirmed, provider
  <2>7. ASSUME NEW x \in Service, call'.seen[x] # None
        PROVE  ReadIn(deployments, now, x, call'.seen[x]) /\ call'.seen[x].id = Expected(x)'.id
    <3>1. Expected(x)' = Expected(x)
      BY <2>5 DEF Expected, ReadService
    <3>2. CASE x = s
      BY <1>1, <2>4, <2>5, <3>1, <3>2 DEF CallState
    <3>3. CASE x # s
      BY <1>1, <2>5, <2>7, <3>1, <3>3 DEF RegistryInv, Readings, CallState
    <3>4. QED
      BY <3>2, <3>3
  <2>8. QED
    BY <1>1, <2>5, <2>6, <2>7, CallChanges DEF ReadService, InTransit
<1>4. QED
  BY <1>2, <1>3

LEMMA AcceptKeeps ==
  ASSUME RegistryInv, Accept
  PROVE  RegistryInv'
<1>1. call \in CallState /\ call.at = "accept" /\ call # None /\ now \in Instant
  BY Parts DEF RegistryInv, Accept, TypeOK
<1>2. CASE ~(now - call.observedAt <= Window)
  BY <1>1, <1>2, CallEnds, Parts DEF Accept, InTransit, RegistryInv, TypeOK
<1>3. CASE now - call.observedAt <= Window
  <2>1. /\ call' \in CallState /\ call' # None /\ call'.at = "commit"
        /\ call'.sequence = call.sequence /\ call'.request = call.request
        /\ call'.seen = call.seen /\ call'.observedAt = call.observedAt
    BY <1>1, <1>3, NoneAssumption DEF CallState, Accept
  <2>2. CallsInOrder'
    BY <1>1, <2>1 DEF RegistryInv, CallsInOrder, Accept, RequireConfirmed, provider
  <2>3. SoundIn(deployments, now, Provisioning', call'.sequence, call'.seen, call'.observedAt)
    BY <1>1, <2>1 DEF RegistryInv, Readings, Provisioning, Accept
  <2>4. QED
    BY <1>1, <2>1, <2>2, <2>3, CallChanges DEF Accept, InTransit
<1>4. QED
  BY <1>2, <1>3

\* What every service was read on, when the last was read.
LEMMA ReadThrough ==
  ASSUME RegistryInv, call # None, call.at = "read", \A s \in Service : call.seen[s] # None
  PROVE  /\ call.seen \in [Service -> Seen]
         /\ SoundIn(deployments, now, Provisioning, call.sequence, call.seen, now)
         /\ BatchKey \in Key /\ BatchKey.phase = call.sequence
         /\ \A n, t, seen, date :
              SoundIn(deployments, t, BatchKey, n, seen, date)
                <=> SoundIn(deployments, t, Provisioning, n, seen, date)
<1>1. call \in CallState /\ call.sequence \in Sequence
  BY Parts DEF RegistryInv, CallState
<1>2. call.seen \in [Service -> Seen]
  BY <1>1 DEF CallState
<1>3. Provisioning \in ProvisionRequest
  BY <1>1, Constants DEF RegistryInv, CallsInOrder, RequestOf, RequireConfirmed, Provisioning
<1>4. /\ BatchKey = [phase |-> call.sequence, ingress |-> Provisioning.ingress,
                     before |-> Provisioning.before, after |-> Provisioning.after]
      /\ BatchKey \in Key
  BY <1>1, <1>3 DEF BatchKey, Provisioning, Key, ProvisionRequest
<1>5. \A s \in Service : ReadIn(deployments, now, s, call.seen[s]) /\ call.seen[s].at <= now
  BY DEF RegistryInv, Readings, ReadIn
<1>6. \A s \in Private : call.seen[s].id = IF call.sequence = 0 THEN Provisioning.before[s]
                                           ELSE Provisioning.after[s]
  BY Constants DEF RegistryInv, Readings, Expected, Provisioning
<1>7. SoundIn(deployments, now, Provisioning, call.sequence, call.seen, now)
  BY <1>5, <1>6, Parts DEF SoundIn, RegistryInv
<1>8. BatchKey.before = Provisioning.before /\ BatchKey.after = Provisioning.after
  BY <1>4
<1>9. QED
  BY <1>2, <1>4, <1>7, <1>8 DEF SoundIn

LEMMA StampKeeps ==
  ASSUME RegistryInv, Stamp
  PROVE  RegistryInv'
<1> DEFINE old  == {b \in batches : b.key = BatchKey}
           read == [call EXCEPT !.at = "accept", !.observedAt = now]
<1>1. call \in CallState /\ call.at = "read" /\ call # None /\ now \in Instant
      /\ \A s \in Service : call.seen[s] # None
  BY Parts DEF RegistryInv, Stamp, TypeOK
<1>2. /\ call.seen \in [Service -> Seen]
      /\ SoundIn(deployments, now, Provisioning, call.sequence, call.seen, now)
      /\ BatchKey \in Key /\ BatchKey.phase = call.sequence
      /\ \A n, t, seen, date :
           SoundIn(deployments, t, BatchKey, n, seen, date)
             <=> SoundIn(deployments, t, Provisioning, n, seen, date)
  BY <1>1, ReadThrough
<1>3. /\ read \in CallState /\ read.at = "accept" /\ read.sequence = call.sequence
      /\ read.request = call.request /\ read.seen = call.seen /\ read.observedAt = now
  BY <1>1 DEF CallState
<1> DEFINE b == Batch(read)
<1>4. /\ b \in BatchOf /\ b.key = BatchKey /\ b.seen = call.seen /\ b.observedAt = now
  BY <1>1, <1>2, <1>3 DEF Batch, BatchOf
<1>5. PICK seen \in [Service -> Seen], date \in Instant :
        /\ SoundIn(deployments, now, Provisioning, call.sequence, seen, date)
        /\ call' = [read EXCEPT !.seen = seen, !.observedAt = date]
        /\ batches' = batches \/ batches' = batches \cup {b}
  <2>1. CASE old = {}
    <3>1. call' = [read EXCEPT !.seen = call.seen, !.observedAt = now]
      BY <1>1, <1>3, <2>1 DEF Stamp, CallState
    <3>2. batches' = batches \cup {b}
      BY <2>1 DEF Stamp
    <3>3. QED
      BY <1>1, <1>2, <3>1, <3>2
  <2>2. CASE old # {}
    <3>1. PICK o \in old : call' = [read EXCEPT !.seen = o.seen, !.observedAt = o.observedAt]
      BY <2>2 DEF Stamp
    <3>2. o \in BatchOf /\ o.key = BatchKey
          /\ SoundIn(deployments, now, o.key, o.key.phase, o.seen, o.observedAt)
      BY DEF RegistryInv, TypeOK, Readings
    <3>3. o.seen \in [Service -> Seen] /\ o.observedAt \in Instant
      BY <3>2 DEF BatchOf
    <3>4. SoundIn(deployments, now, Provisioning, call.sequence, o.seen, o.observedAt)
      BY <1>2, <3>2
    <3>5. batches' = batches
      BY <2>2 DEF Stamp
    <3>6. QED
      BY <3>1, <3>3, <3>4, <3>5
  <2>3. QED
    BY <2>1, <2>2
<1>6. SoundIn(deployments, now, b.key, b.key.phase, b.seen, b.observedAt)
  BY <1>2, <1>4
<1> HIDE DEF old, b
<1>7. /\ call' \in CallState /\ call' # None /\ call'.at = "accept"
      /\ call'.sequence = call.sequence /\ call'.request = call.request
      /\ call'.seen = seen /\ call'.observedAt = date
  BY <1>3, <1>5, NoneAssumption DEF CallState
<1> HIDE DEF read
<1>8. CallsInOrder'
  BY <1>1, <1>7 DEF RegistryInv, CallsInOrder, Stamp, RequireConfirmed, provider
<1>9. TypeOK'
  BY <1>4, <1>5, <1>7 DEF RegistryInv, TypeOK, Stamp, provider
<1>10. UploadsPaid'
  BY <1>1, <1>7 DEF RegistryInv, UploadsPaid, InTransit, Stamp
<1>11. Readings'
  <2>1. Provisioning' = Provisioning
    BY <1>7 DEF Provisioning, Stamp
  <2>2. \A x \in batches' : SoundIn(deployments, now, x.key, x.key.phase, x.seen, x.observedAt)
    BY <1>5, <1>6 DEF RegistryInv, Readings
  <2>3. QED
    BY <1>5, <1>7, <2>1, <2>2 DEF RegistryInv, Readings, Stamp, provider
<1>12. PromotionsMade' /\ Opened' /\ HeadVerified'
  BY DEF RegistryInv, PromotionsMade, Opened, HeadVerified, PromotionBinding, Promoted, Stamp, provider
<1>13. QED
  BY <1>8, <1>9, <1>10, <1>11, <1>12 DEF RegistryInv

LEMMA AppendKeeps ==
  ASSUME RegistryInv, AppendRecord
  PROVE  RegistryInv'
<1> DEFINE n == call.sequence
<1>1. call \in CallState /\ call.at = "commit" /\ call # None /\ now \in Instant
      /\ n \in Sequence
  BY Parts DEF RegistryInv, AppendRecord, TypeOK, CallState
<1>2. CASE ~Commits
  BY <1>1, <1>2, CallEnds, Parts DEF AppendRecord, InTransit, RegistryInv, TypeOK
<1>3. CASE Commits
  <2>1. /\ rows[n] = None /\ call.request \in RequestOf(n) /\ call.seen \in [Service -> Seen]
        /\ n = 1 => RequireConfirmed(0) /\ call.request.promotion \in promotions
        /\ n = 0 => CrossBound(call.request)
    BY <1>1 DEF RegistryInv, CallsInOrder
  <2>2. rows \in [Sequence -> RowState \cup {None}]
    BY DEF RegistryInv, TypeOK
  <2>3. Record \in RowState /\ Record # None
    BY <1>1, <2>1, NoneAssumption DEF Record, RowState, CallState
  <2>4. rows' = [rows EXCEPT ![n] = Record] /\ call' = [call EXCEPT !.at = "mirror"]
    BY <1>3, <2>1 DEF AppendRecord, AppendRow
  <2>5. /\ Record.request = call.request /\ Record.seen = call.seen
        /\ Record.observedAt = call.observedAt /\ Record.worm = None
    BY DEF Record
  <2> HIDE DEF n
  <2>6. /\ rows'[n] = Record /\ \A m \in Sequence : m # n => rows'[m] = rows[m]
        /\ rows' \in [Sequence -> RowState \cup {None}]
    BY <1>1, <2>2, <2>3, <2>4
  <2>7. /\ call' \in CallState /\ call' # None /\ call'.at = "mirror"
        /\ call'.sequence = n /\ call'.request = call.request
    BY <1>1, <2>4, NoneAssumption DEF CallState, n
  <2>8. n = 1 => rows'[0] = rows[0] /\ rows[0] # None
    BY <2>1, <2>6, Constants DEF RequireConfirmed
  <2>9. n = 0 => rows[1] = None /\ rows'[1] = None
    BY <2>1, <2>6, Constants DEF RegistryInv, CallsInOrder, RequireConfirmed
  <2>10. CallsInOrder'
    <3>1. /\ promotions' = promotions /\ answers' = answers
          /\ n \in {0, 1} /\ rows'[n].request = call.request /\ rows'[n] # None
      BY <1>1, <2>3, <2>5, <2>6, Constants DEF AppendRecord, provider
    <3>2. /\ call.request \in RequestOf(n)
          /\ \A a \in answers : a.sequence = 0 => a.record \in ProvisionRequest
          /\ rows[0] # None => rows[0].request \in ProvisionRequest /\ CrossBound(rows[0].request)
      BY <2>1 DEF RegistryInv, CallsInOrder
    <3>3. CASE n = 0
      BY <2>1, <2>7, <2>9, <3>1, <3>2, <3>3 DEF CallsInOrder, RequestOf, RequireConfirmed
    <3>4. CASE n = 1
      BY <2>1, <2>7, <2>8, <3>1, <3>2, <3>4 DEF CallsInOrder, RequestOf, RequireConfirmed
    <3>5. QED
      BY <3>1, <3>3, <3>4
  <2>11. TypeOK'
    BY <2>6, <2>7 DEF RegistryInv, TypeOK, AppendRecord, provider, worm
  <2>12. UploadsPaid'
    BY <1>1, <2>7 DEF RegistryInv, UploadsPaid, InTransit, AppendRecord, worm
  <2>13. Readings'
    <3>1. SoundIn(deployments, now, Provisioning, n, call.seen, call.observedAt)
      BY <1>1 DEF RegistryInv, Readings, n
    <3>2. Provisioning = rows'[0].request
      BY <2>5, <2>6, <2>8, <1>1, Constants DEF Provisioning, n
    <3>3. \A m \in Sequence : rows'[m] # None =>
            SoundIn(deployments, now, rows'[0].request, m, rows'[m].seen, rows'[m].observedAt)
      <4>1. TAKE m \in Sequence
      <4>2. CASE m = n
        BY <2>5, <2>6, <3>1, <3>2, <4>2
      <4>3. CASE m # n
        <5>1. (n = 1 /\ m = 0) \/ (n = 0 /\ m = 1)
          BY <1>1, <4>3, Constants
        <5>2. QED
          BY <2>8, <2>9, <5>1 DEF RegistryInv, Readings
      <4>4. QED
        BY <4>2, <4>3
    <3>4. QED
      BY <2>7, <3>3 DEF RegistryInv, Readings, AppendRecord, provider, worm
  <2>14. PromotionsMade' /\ Opened'
    BY DEF RegistryInv, PromotionsMade, Opened, AppendRecord, provider
  <2>15. HeadVerified'
    <3>1. head = None
      BY <1>1, <2>1, Constants DEF RegistryInv, HeadVerified
    <3>2. QED
      BY <3>1 DEF HeadVerified, AppendRecord
  <2>16. QED
    BY <2>10, <2>11, <2>12, <2>13, <2>14, <2>15 DEF RegistryInv
<1>4. QED
  BY <1>2, <1>3

-----------------------------------------------------------------------------
(* The mirror. *)

\* What a call that may bind its record knows of the rows.
LEMMA Mirrored ==
  ASSUME RegistryInv, call # None, call.at \in {"mirror", "sent", "advance"}
  PROVE  /\ call \in CallState /\ call.sequence \in Sequence
         /\ call.request \in RequestOf(call.sequence) /\ call.request \in AnyRequest
         /\ rows[call.sequence] # None /\ rows[call.sequence] \in RowState
         /\ rows[call.sequence].request = call.request
         /\ call.sequence = 1 => RequireConfirmed(0)
<1>1. call \in CallState /\ call.sequence \in Sequence
  BY Parts DEF RegistryInv, CallState
<1>2. /\ call.request \in RequestOf(call.sequence) /\ rows[call.sequence] # None
      /\ rows[call.sequence].request = call.request
      /\ call.sequence = 1 => RequireConfirmed(0)
  BY DEF RegistryInv, CallsInOrder
<1>3. QED
  BY <1>1, <1>2, Parts DEF RegistryInv, CallState

\* A binding touches nothing but the version of the row.
LEMMA RowBound ==
  ASSUME TypeOK, NEW n \in Sequence, NEW v \in Version, rows[n] # None, rows' = Bind(n, v)
  PROVE  /\ rows' \in [Sequence -> RowState \cup {None}]
         /\ \A m \in Sequence :
              /\ rows'[m] = None <=> rows[m] = None
              /\ rows[m] # None =>
                   /\ rows'[m].request = rows[m].request /\ rows'[m].seen = rows[m].seen
                   /\ rows'[m].observedAt = rows[m].observedAt
                   /\ rows[m].worm # None => rows'[m].worm = rows[m].worm
              /\ m # n => rows'[m] = rows[m]
         /\ rows'[n].worm = IF rows[n].worm = None THEN v ELSE rows[n].worm
         /\ rows'[n].worm \in Version
<1>1. rows \in [Sequence -> RowState \cup {None}] /\ rows[n] \in RowState
  BY Parts DEF TypeOK
<1>2. CASE rows[n].worm = None
  <2> DEFINE r == [rows[n] EXCEPT !.worm = v]
  <2>1. rows' = [rows EXCEPT ![n] = r]
    BY <1>1, <1>2 DEF Bind
  <2>2. /\ r \in RowState /\ r # None /\ r.request = rows[n].request /\ r.seen = rows[n].seen
        /\ r.observedAt = rows[n].observedAt /\ r.worm = v
    BY <1>1, NoneAssumption DEF RowState
  <2> HIDE DEF r
  <2>3. rows'[n] = r /\ \A m \in Sequence : m # n => rows'[m] = rows[m]
    BY <1>1, <2>1
  <2>4. rows' \in [Sequence -> RowState \cup {None}]
    BY <1>1, <2>1, <2>2
  <2>5. QED
    BY <1>2, <2>2, <2>3, <2>4
<1>3. CASE rows[n].worm # None
  <2>1. rows' = rows
    BY <1>3 DEF Bind
  <2>2. rows[n].worm \in Version
    BY <1>1, <1>3 DEF RowState
  <2>3. QED
    BY <1>1, <1>3, <2>1, <2>2
<1>4. QED
  BY <1>2, <1>3

LEMMA DoneKeeps ==
  ASSUME RegistryInv, call # None, call.at \in {"mirror", "sent"}, NEW v \in Version,
         SameWorm(call.sequence, v), Done(v), UNCHANGED <<now, provider, worm, head>>,
         faults' \in 0..MaxFaults, faults <= faults',
         \A m \in Sequence : InTransit(m) => faults' = faults + 1
  PROVE  RegistryInv'
<1> DEFINE n == call.sequence
<1>1. /\ call \in CallState /\ n \in Sequence
      /\ call.request \in RequestOf(n) /\ call.request \in AnyRequest
      /\ rows[n] # None /\ rows[n] \in RowState
      /\ rows[n].request = call.request
      /\ n = 1 => RequireConfirmed(0)
  BY Mirrored
<1>2. TypeOK /\ rows' = Bind(n, v)
  BY DEF RegistryInv, Done
<1> HIDE DEF n
<1>3. /\ rows' \in [Sequence -> RowState \cup {None}]
      /\ \A m \in Sequence :
           /\ rows'[m] = None <=> rows[m] = None
           /\ rows[m] # None =>
                /\ rows'[m].request = rows[m].request /\ rows'[m].seen = rows[m].seen
                /\ rows'[m].observedAt = rows[m].observedAt
                /\ rows[m].worm # None => rows'[m].worm = rows[m].worm
           /\ m # n => rows'[m] = rows[m]
      /\ rows'[n].worm \in Version
  BY <1>1, <1>2, RowBound
<1>4. /\ rows'[n] # None /\ rows'[n].request = call.request /\ rows'[n].worm # None
      /\ \A m \in Sequence : RequireConfirmed(m) => RequireConfirmed(m)'
      /\ n = 1 => RequireConfirmed(0)'
  BY <1>1, <1>3, NoneAssumption, Constants DEF RequireConfirmed
<1>5. \/ /\ n = 1 /\ answers' = answers
         /\ call' \in CallState /\ call' # None /\ call'.at = "advance" /\ call'.sequence = n
         /\ call'.request = call.request
      \/ /\ n = 0 /\ call' = None
         /\ answers' = answers \cup {[sequence |-> n, record |-> call.request, version |-> v]}
  BY <1>1, Constants, NoneAssumption DEF Done, HeadNext, Answered, CallState, n
<1>6. /\ n = 0 => [sequence |-> n, record |-> call.request, version |-> v] \in AnswerOf
      /\ n = 0 => call.request \in ProvisionRequest
  BY <1>1 DEF AnswerOf, RequestOf
<1>7. TypeOK'
  <2>1. answers' \in SUBSET AnswerOf /\ call' \in CallState \cup {None}
    BY <1>5, <1>6 DEF RegistryInv, TypeOK
  <2>2. QED
    BY <1>3, <2>1 DEF RegistryInv, TypeOK, provider, worm
<1>8. CallsInOrder'
  <2>1. \A a \in answers' : a.sequence = 0 => a.record \in ProvisionRequest
    BY <1>5, <1>6 DEF RegistryInv, CallsInOrder
  <2>2. /\ rows'[0] # None => rows'[0].request \in ProvisionRequest /\ CrossBound(rows'[0].request)
        /\ rows'[1] # None => /\ RequireConfirmed(0)'
                              /\ rows'[1].request \in AnyFinalizeRequest
                              /\ rows'[1].request.promotion \in promotions
    BY <1>3, <1>4, Constants DEF RegistryInv, CallsInOrder
  <2>3. promotions' = promotions
    BY DEF provider
  <2>4. n = 1 => call.request.promotion \in promotions
    BY DEF RegistryInv, CallsInOrder, n
  <2>5. CASE n = 1
    <3>1. RequireConfirmed(1)'
      BY <1>4, <2>5 DEF RequireConfirmed
    <3>2. QED
      BY <1>1, <1>4, <1>5, <2>1, <2>2, <2>3, <2>4, <2>5, <3>1 DEF CallsInOrder
  <2>6. CASE n = 0
    BY <1>5, <2>1, <2>2, <2>3, <2>6 DEF CallsInOrder
  <2>7. QED
    BY <1>1, <2>5, <2>6, Constants
<1>9. UploadsPaid'
  <2> SUFFICES ASSUME NEW m \in Sequence
               PROVE  sent[m] <= faults' + 1 /\ (bucket[m] = {} => sent[m] <= faults')
    BY DEF UploadsPaid, worm
  <2>1. faults \in Nat /\ faults' \in Nat /\ sent[m] \in Nat
    BY Parts, Constants DEF RegistryInv
  <2>2. QED
    BY <2>1 DEF RegistryInv, UploadsPaid
<1>10. Readings'
  <2>1. call' # None => call'.at = "advance"
    BY <1>5
  <2>2. \A m \in Sequence : rows'[m] # None =>
          SoundIn(deployments, now, rows'[0].request, m, rows'[m].seen, rows'[m].observedAt)
    <3>1. TAKE m \in Sequence
    <3>2. HAVE rows'[m] # None
    <3>3. rows[0] # None
      BY <1>3, <3>2, Constants DEF RegistryInv, CallsInOrder, RequireConfirmed
    <3>4. QED
      BY <1>3, <3>2, <3>3, Constants DEF RegistryInv, Readings
  <2>3. QED
    BY <2>1, <2>2 DEF RegistryInv, Readings, provider, worm
<1>11. PromotionsMade' /\ Opened'
  BY DEF RegistryInv, PromotionsMade, Opened, provider
<1>12. HeadVerified'
  BY <1>3, Constants DEF RegistryInv, HeadVerified, PromotionBinding, Promoted
<1>13. QED
  BY <1>7, <1>8, <1>9, <1>10, <1>11, <1>12 DEF RegistryInv

LEMMA LookKeeps ==
  ASSUME RegistryInv, ConfirmedAlready \/ Look
  PROVE  RegistryInv'
<1> DEFINE n == call.sequence
<1>1. /\ call # None /\ call.at = "mirror" /\ call \in CallState /\ n \in Sequence
      /\ rows[n] # None /\ rows[n] \in RowState /\ faults \in 0..MaxFaults /\ faults <= faults
  BY Mirrored, Constants DEF ConfirmedAlready, Look, RegistryInv, TypeOK
<1>2. \A m \in Sequence : ~InTransit(m)
  BY <1>1 DEF InTransit
<1>3. CASE ConfirmedAlready
  <2>1. rows[n].worm \in Version /\ SameWorm(n, rows[n].worm)
    BY <1>1, <1>3 DEF ConfirmedAlready, RequireConfirmed, RowState, SameWorm
  <2>2. QED
    BY <1>1, <1>2, <1>3, <2>1, DoneKeeps DEF ConfirmedAlready
<1>4. CASE Look /\ Several(n) /\ call' = None /\ UNCHANGED <<rows, worm, answers>>
  BY <1>1, <1>2, <1>4, CallEnds DEF Look
<1>5. CASE /\ Look /\ UNCHANGED worm
           /\ \E v \in bucket[n] : Single(n) /\ SameWorm(n, v) /\ Done(v)
  <2>1. bucket[n] \subseteq Version
    BY <1>1 DEF RegistryInv, TypeOK
  <2>2. QED
    BY <1>1, <1>2, <1>5, <2>1, DoneKeeps DEF Look
<1>6. CASE /\ Look /\ bucket[n] = {}
           /\ sent' = [sent EXCEPT ![n] = @ + 1]
           /\ transit' = transit \cup {<<n, sent'[n]>>}
           /\ call' = [call EXCEPT !.at = "sent"]
           /\ UNCHANGED <<rows, bucket, batches, answers>>
  <2>1. /\ UNCHANGED <<now, faults, provider, head>>
    BY <1>6 DEF Look
  <2>2. /\ call' \in CallState /\ call' # None /\ call'.at = "sent"
        /\ call'.sequence = n /\ call'.request = call.request
    BY <1>1, <1>6, NoneAssumption DEF CallState
  <2> HIDE DEF n
  <2>3. sent[n] \in Nat /\ sent[n] <= faults /\ faults \in Nat /\ faults <= MaxFaults
    BY <1>1, <1>2, <1>6, Parts, Constants DEF RegistryInv, UploadsPaid
  <2>4. /\ sent \in [Sequence -> 0..(MaxFaults + 1)] /\ sent' \in [Sequence -> 0..(MaxFaults + 1)]
        /\ sent'[n] = sent[n] + 1 /\ sent'[n] \in 1..(MaxFaults + 1)
        /\ \A m \in Sequence : m # n => sent'[m] = sent[m]
    BY <1>1, <1>6, <2>3, Constants, SMTT(40) DEF RegistryInv, TypeOK
  <2>5. transit' \in SUBSET Version
    BY <1>1, <1>6, <2>4 DEF RegistryInv, TypeOK, Version
  <2>6. TypeOK'
    BY <1>6, <2>1, <2>2, <2>4, <2>5 DEF RegistryInv, TypeOK, provider
  <2>7. CallsInOrder'
    <3>1. /\ call.request \in RequestOf(n) /\ rows[n].request = call.request
          /\ n = 1 => RequireConfirmed(0) /\ call.request.promotion \in promotions
      BY <1>1 DEF RegistryInv, CallsInOrder, n
    <3>2. QED
      BY <1>1, <1>6, <2>1, <2>2, <3>1 DEF RegistryInv, CallsInOrder, RequireConfirmed, provider
  <2>8. UploadsPaid'
    <3> SUFFICES ASSUME NEW m \in Sequence
                 PROVE  /\ sent'[m] <= faults + 1
                        /\ bucket[m] = {} /\ ~InTransit(m)' => sent'[m] <= faults
      BY <1>6, <2>1 DEF UploadsPaid
    <3>1. CASE m = n
      <4>1. InTransit(m)'
        BY <1>6, <2>2, <3>1 DEF InTransit
      <4>2. QED
        BY <2>3, <2>4, <3>1, <4>1
    <3>2. CASE m # n
      BY <1>2, <2>4, <3>2 DEF RegistryInv, UploadsPaid
    <3>3. QED
      BY <3>1, <3>2
  <2>9. Readings'
    BY <1>6, <2>1, <2>2 DEF RegistryInv, Readings, provider
  <2>10. PromotionsMade' /\ Opened' /\ HeadVerified'
    BY <1>6, <2>1 DEF RegistryInv, PromotionsMade, Opened, HeadVerified, PromotionBinding, Promoted, provider
  <2>11. QED
    BY <2>6, <2>7, <2>8, <2>9, <2>10 DEF RegistryInv
<1>7. Look => \/ Several(n) /\ call' = None /\ UNCHANGED <<rows, worm, answers>>
              \/ /\ UNCHANGED worm
                 /\ \E v \in bucket[n] : Single(n) /\ SameWorm(n, v) /\ Done(v)
              \/ /\ bucket[n] = {}
                 /\ sent' = [sent EXCEPT ![n] = @ + 1]
                 /\ transit' = transit \cup {<<n, sent'[n]>>}
                 /\ call' = [call EXCEPT !.at = "sent"]
                 /\ UNCHANGED <<rows, bucket, batches, answers>>
  BY DEF Look
<1>8. QED
  BY <1>3, <1>4, <1>5, <1>6, <1>7

LEMMA ReconcileKeeps ==
  ASSUME RegistryInv, Reconcile \/ ReconcileEarly
  PROVE  RegistryInv'
<1> DEFINE n == call.sequence
<1>1. /\ call # None /\ call.at = "sent" /\ Reread
      /\ UNCHANGED <<now, provider, worm, head>>
  BY DEF Reconcile, ReconcileEarly, Reread
<1>2. n \in Sequence /\ bucket[n] \subseteq Version
  BY <1>1, Mirrored DEF RegistryInv, TypeOK
<1>3. /\ faults' \in 0..MaxFaults /\ faults <= faults'
      /\ \A m \in Sequence : InTransit(m) => faults' = faults + 1
  <2>1. faults \in 0..MaxFaults
    BY DEF RegistryInv, TypeOK
  <2>2. CASE Reconcile
    BY <2>1, <2>2, Constants DEF Reconcile, InTransit
  <2>3. CASE ReconcileEarly
    BY <2>1, <2>3, Constants DEF ReconcileEarly, Fault
  <2>4. QED
    BY <2>2, <2>3
<1>4. CASE call' = None /\ UNCHANGED <<rows, answers>>
  BY <1>1, <1>3, <1>4, CallEnds
<1>5. ASSUME NEW v \in bucket[n], SameWorm(n, v), Done(v) PROVE RegistryInv'
  BY <1>1, <1>2, <1>3, <1>5, DoneKeeps
<1>6. QED
  BY <1>1, <1>4, <1>5 DEF Reread

LEMMA UploadKeeps ==
  ASSUME RegistryInv, NEW u \in transit, Land(u) \/ Lose(u)
  PROVE  RegistryInv'
<1>1. u \in Version /\ u[1] \in Sequence
  BY DEF RegistryInv, TypeOK, Version
<1>2. UNCHANGED <<now, provider, call, rows, sent, batches, head, answers>>
      /\ transit' = transit \ {u}
  BY DEF Land, Lose
<1>3. /\ faults' \in 0..MaxFaults /\ faults <= faults' /\ faults \in Nat
      /\ Land(u) \/ faults' = faults + 1
  BY Constants DEF Land, Lose, Fault, RegistryInv, TypeOK
<1>4. /\ bucket' \in [Sequence -> SUBSET Version]
      /\ \A n \in Sequence : bucket[n] \subseteq bucket'[n]
      /\ Land(u) => bucket'[u[1]] # {}
  <2>1. bucket \in [Sequence -> SUBSET Version]
    BY DEF RegistryInv, TypeOK
  <2>2. CASE Lose(u) /\ ~Land(u)
    <3>1. bucket' = bucket
      BY <2>2 DEF Lose
    <3>2. QED
      BY <2>1, <2>2, <3>1
  <2>3. CASE Land(u)
    <3>1. bucket' = [bucket EXCEPT ![u[1]] = @ \cup {u}]
      BY <2>3 DEF Land
    <3>2. QED
      BY <1>1, <2>1, <3>1
  <2>4. QED
    BY <2>2, <2>3
<1>5. TypeOK'
  BY <1>2, <1>3, <1>4 DEF RegistryInv, TypeOK, provider
<1>6. CallsInOrder'
  BY <1>2 DEF RegistryInv, CallsInOrder, RequireConfirmed, provider
<1>7. UploadsPaid'
  <2> SUFFICES ASSUME NEW n \in Sequence
               PROVE  /\ sent[n] <= faults' + 1
                      /\ bucket'[n] = {} /\ ~InTransit(n)' => sent[n] <= faults'
    BY <1>2 DEF UploadsPaid
  <2>1. sent[n] \in Nat /\ faults' \in Nat /\ sent[n] <= faults + 1
        /\ (bucket[n] = {} /\ ~InTransit(n) => sent[n] <= faults)
    BY <1>3, Parts, Constants DEF RegistryInv, UploadsPaid
  <2>2. CASE faults' = faults + 1
    BY <1>3, <2>1, <2>2
  <2>3. CASE Land(u)
    <3>1. CASE n = u[1]
      BY <1>3, <1>4, <2>1, <2>3, <3>1
    <3>2. CASE n # u[1]
      <4>1. InTransit(n) => InTransit(n)'
        BY <1>1, <1>2, <3>2 DEF InTransit, Version
      <4>2. QED
        BY <1>3, <1>4, <2>1, <4>1
    <3>3. QED
      BY <3>1, <3>2
  <2>4. QED
    BY <1>3, <2>2, <2>3
<1>8. Readings'
  BY <1>2 DEF RegistryInv, Readings, Provisioning, Expected, provider
<1>9. PromotionsMade' /\ Opened' /\ HeadVerified'
  BY <1>2 DEF RegistryInv, PromotionsMade, Opened, HeadVerified, PromotionBinding, Promoted, provider
<1>10. QED
  BY <1>5, <1>6, <1>7, <1>8, <1>9 DEF RegistryInv

-----------------------------------------------------------------------------
(* The head. *)

\* A pair that verifies is of the promoted deployment, first read before it.
LEMMA Verified ==
  ASSUME RegistryInv, rows[0] # None, rows[1] # None, SnapshotVerifies
  PROVE  PromotionBinding /\ rows[0].seen[Ingress].at < rows[1].request.promotion.completedAt
<1>1. rows[0] \in RowState /\ rows[1].request \in AnyFinalizeRequest
  BY Parts, Constants DEF RegistryInv, CallsInOrder
<1>2. /\ rows[0].seen[Ingress].at \in Nat /\ rows[0].observedAt \in Nat
      /\ rows[0].acceptedAt \in Nat /\ rows[0].committedAt \in Nat
  BY <1>1, Constants DEF RowState, Seen
<1>3. rows[1].request.promotion.startedAt \in Nat /\ rows[1].request.promotion.completedAt \in Nat
  BY <1>1, Constants DEF AnyFinalizeRequest, Promotion
<1>4. rows[0].seen[Ingress].at <= rows[0].observedAt
  BY Constants DEF RegistryInv, Readings, SoundIn
<1>5. /\ rows[0].observedAt <= rows[0].acceptedAt /\ rows[0].acceptedAt <= rows[0].committedAt
      /\ rows[0].committedAt < rows[1].request.promotion.startedAt
      /\ rows[1].request.promotion.startedAt <= rows[1].request.promotion.completedAt
  BY DEF SnapshotVerifies, ObservationParses, Fresh, Chronology
<1>6. QED
  BY <1>2, <1>3, <1>4, <1>5 DEF SnapshotVerifies

LEMMA HeadKeeps ==
  ASSUME RegistryInv, AdvanceHead \/ AdvanceFails \/ Evict
  PROVE  RegistryInv'
<1>1. /\ call' = None /\ UNCHANGED <<now, provider, rows, worm>>
      /\ faults' \in 0..MaxFaults /\ faults <= faults'
      /\ \A n \in Sequence : InTransit(n) => faults' = faults + 1
  BY Constants DEF AdvanceHead, AdvanceFails, Evict, Fault, InTransit, RegistryInv, TypeOK
<1>2. CASE UNCHANGED <<head, answers>>
  BY <1>1, <1>2, CallEnds
<1>3. CASE /\ call # None /\ call.at = "advance" /\ SnapshotVerifies /\ head' = Pair
           /\ answers' = answers \/ Answered(1, rows[1].worm)
  <2>1. /\ call.request \in AnyRequest /\ rows[1] # None /\ rows[1].worm # None
        /\ rows[0] # None /\ rows[0].worm # None
    BY <1>3, Mirrored DEF RegistryInv, CallsInOrder, RequireConfirmed
  <2>2. rows[0].worm \in Version /\ rows[1].worm \in Version
    BY <2>1, Parts, Constants DEF RegistryInv, RowState
  <2>3. head' \in [Sequence -> Version]
    BY <1>3, <2>2, Constants DEF Pair
  <2>4. /\ answers' \in SUBSET AnswerOf
        /\ \A a \in answers' : a.sequence = 0 => a.record \in ProvisionRequest
    BY <1>3, <2>1, <2>2, Constants DEF RegistryInv, TypeOK, CallsInOrder, Answered, AnswerOf
  <2>5. TypeOK'
    BY <1>1, <2>3, <2>4 DEF RegistryInv, TypeOK, provider, worm
  <2>6. CallsInOrder'
    BY <1>1, <2>4 DEF RegistryInv, CallsInOrder, RequireConfirmed, provider
  <2>7. UploadsPaid'
    <3> SUFFICES ASSUME NEW n \in Sequence
                 PROVE  sent[n] <= faults' + 1 /\ (bucket[n] = {} => sent[n] <= faults')
      BY <1>1 DEF UploadsPaid, worm
    <3>1. faults \in Nat /\ faults' \in Nat /\ sent[n] \in Nat
      BY <1>1, Parts, Constants DEF RegistryInv
    <3>2. QED
      BY <1>1, <3>1 DEF RegistryInv, UploadsPaid
  <2>8. Readings'
    BY <1>1 DEF RegistryInv, Readings, provider, worm
  <2>9. PromotionsMade' /\ Opened'
    BY <1>1 DEF RegistryInv, PromotionsMade, Opened, provider
  <2>10. HeadVerified'
    BY <1>1, <1>3, <2>1, Verified DEF HeadVerified, PromotionBinding, Promoted
  <2>11. QED
    BY <2>5, <2>6, <2>7, <2>8, <2>9, <2>10 DEF RegistryInv
<1>4. QED
  BY <1>2, <1>3 DEF AdvanceHead, AdvanceFails, Evict

-----------------------------------------------------------------------------
(* The invariant. *)

LEMMA RegistryInit == Init => RegistryInv
<1> SUFFICES ASSUME Init PROVE RegistryInv
  OBVIOUS
<1>1. deployments \in [Service -> Seq(Deployment)]
      /\ \A s \in Service : Len(deployments[s]) = 1 /\ deployments[s][1].at = 0
  <2>1. \A s \in Service : Bootstrapped(s) \in Seq(Deployment) /\ Len(Bootstrapped(s)) = 1
                           /\ Bootstrapped(s)[1].at = 0
    BY Constants DEF Bootstrapped, Deployment, Instant
  <2>2. QED
    BY <2>1 DEF Init
<1>2. TypeOK
  BY <1>1, Constants DEF Init, TypeOK, Instant
<1>3. CallsInOrder
  BY Constants DEF Init, CallsInOrder
<1>4. UploadsPaid
  BY Constants DEF Init, UploadsPaid
<1>5. Readings /\ PromotionsMade /\ HeadVerified
  BY DEF Init, Readings, PromotionsMade, HeadVerified
<1>6. Opened
  BY <1>1 DEF Init, Opened
<1>7. QED
  BY <1>2, <1>3, <1>4, <1>5, <1>6 DEF RegistryInv

LEMMA RegistryStep == RegistryInv /\ [Next]_vars => RegistryInv'
<1> SUFFICES ASSUME RegistryInv, [Next]_vars PROVE RegistryInv'
  OBVIOUS
<1>1. CASE \/ \E r \in ProvisionRequest : Provision(r)
           \/ \E r \in FinalizeRequest : Finalize(r)
  BY <1>1, RequestsKeep
<1>2. CASE Observation
  BY <1>2, ReadKeeps, StampKeeps, AcceptKeeps, AppendKeeps DEF Observation
<1>3. CASE Mirroring \/ ReconcileEarly
  BY <1>3, LookKeeps, ReconcileKeeps DEF Mirroring
<1>4. CASE AdvanceHead \/ AdvanceFails \/ Evict
  BY <1>4, HeadKeeps
<1>5. CASE \E s \in Service, serves \in {"FINAL", "OTHER"} : Deploy(s, serves)
  BY <1>5, DeployKeeps
<1>6. CASE StartPromotion \/ FinishPromotion \/ Tick
  BY <1>6, PromotionKeeps, TimeKeeps
<1>7. CASE \E u \in transit : Land(u) \/ Lose(u)
  BY <1>7, UploadKeeps
<1>8. CASE UNCHANGED vars
  <2>1. TypeOK' /\ CallsInOrder' /\ UploadsPaid'
    BY <1>8 DEF RegistryInv, TypeOK, CallsInOrder, UploadsPaid, InTransit, RequireConfirmed, vars, provider, worm
  <2>2. Readings'
    BY <1>8 DEF RegistryInv, Readings, Provisioning, Expected, vars, provider, worm
  <2>3. PromotionsMade' /\ Opened' /\ HeadVerified'
    BY <1>8 DEF RegistryInv, PromotionsMade, Opened, HeadVerified, PromotionBinding, Promoted, vars, provider
  <2>4. QED
    BY <2>1, <2>2, <2>3 DEF RegistryInv
<1>9. QED
  BY <1>1, <1>2, <1>3, <1>4, <1>5, <1>6, <1>7, <1>8 DEF Next, CallStep

LEMMA RegistryInvariant == Spec => []RegistryInv
BY RegistryInit, RegistryStep, PTL DEF Spec

\* Every variable keeps its type: rows, answers, uploads and the head.
THEOREM RegistryTypeCorrect == Spec => []TypeOK
<1>1. RegistryInv => TypeOK
  BY DEF RegistryInv
<1>2. QED
  BY <1>1, RegistryInvariant, PTL

(* An activated record brackets the promotion: no private service was       *)
(* redeployed between its two reads, and a head is only advanced to a record *)
(* whose ingress was read on the promoted deployment, made after the first  *)
(* read of the ingress (activation-registry.ts, activation-snapshot-         *)
(* verifier.ts).                                                            *)
THEOREM RecordsBracketPromotion == Spec => []ActivationBracketsPromotion
<1>1. RegistryInv => ActivationBracketsPromotion
  <2> SUFFICES ASSUME RegistryInv PROVE ActivationBracketsPromotion
    OBVIOUS
  <2>1. ASSUME rows[1] # None, NEW s \in Private, NEW id \in DOMAIN deployments[s],
               id > rows[0].seen[s].id
        PROVE  ~(deployments[s][id].at < rows[1].seen[s].at)
    <3>1. s \in Service /\ rows[0] # None /\ CrossBound(rows[0].request)
          /\ rows[1] \in RowState
      BY <2>1, Constants, Parts DEF RegistryInv, CallsInOrder, RequireConfirmed
    <3>2. /\ SoundIn(deployments, now, rows[0].request, 0, rows[0].seen, rows[0].observedAt)
          /\ SoundIn(deployments, now, rows[0].request, 1, rows[1].seen, rows[1].observedAt)
      BY <2>1, <3>1, Constants DEF RegistryInv, Readings
    <3>3. rows[1].seen[s].id = rows[0].seen[s].id
      BY <3>1, <3>2 DEF SoundIn, CrossBound
    <3>4. deployments[s] \in Seq(Deployment)
      BY <3>1 DEF RegistryInv, TypeOK
    <3>5. id \in 1..Len(deployments[s]) /\ deployments[s][id] \in Deployment
      BY <2>1, <3>4
    <3>6. deployments[s][id].at \in Nat /\ rows[1].seen[s].at \in Nat
      BY <3>1, <3>5, Constants DEF Deployment, RowState, Seen
    <3>7. rows[1].seen[s].at <= deployments[s][id].at
      BY <2>1, <3>1, <3>2, <3>3, <3>5 DEF SoundIn, ReadIn
    <3>8. QED
      BY <3>6, <3>7
  <2>2. ASSUME head # None PROVE Bracketed
    <3>1. /\ rows[0] # None /\ rows[1] # None /\ PromotionBinding
          /\ rows[0].seen[Ingress].at < rows[1].request.promotion.completedAt
          /\ rows[1].request.promotion \in promotions
      BY <2>2 DEF RegistryInv, HeadVerified, CallsInOrder
    <3>2. deployments[Ingress][Promoted(rows[1].request)].at = rows[1].request.promotion.completedAt
      BY <3>1 DEF RegistryInv, PromotionsMade, Promoted
    <3>3. ReadIn(deployments, now, Ingress, rows[1].seen[Ingress])
      BY <3>1, Constants DEF RegistryInv, Readings, SoundIn
    <3>4. QED
      BY <3>1, <3>2, <3>3 DEF Bracketed, PromotionBinding, ReadIn
  <2>3. QED
    BY <2>1, <2>2 DEF ActivationBracketsPromotion, Undisturbed
<1>2. QED
  BY <1>1, RegistryInvariant, PTL

-----------------------------------------------------------------------------
(* The registry implements one activation. *)

Records  == [n \in Sequence |-> IF rows[n] = None THEN None ELSE rows[n].request]
Versions == [n \in Sequence |-> IF rows[n] = None THEN None ELSE rows[n].worm]

LEMMA OneStutters ==
  ASSUME UNCHANGED <<rows, answers, head>>
  PROVE  UNCHANGED One!vars
BY DEF One!vars

LEMMA OneAppends ==
  ASSUME RegistryInv, RegistryInv', AppendRecord
  PROVE  [One!Next]_(One!vars)
<1> DEFINE n == call.sequence
<1>1. call # None /\ call.at = "commit" /\ answers' = answers /\ head' = head
  BY DEF AppendRecord
<1>2. CASE rows' = rows
  BY <1>1, <1>2, OneStutters
<1>3. CASE rows' # rows
  <2>1. /\ n \in Sequence /\ rows[n] = None /\ call.request \in AnyRequest
        /\ n = 1 => RequireConfirmed(0)
    BY <1>1, Parts DEF RegistryInv, CallsInOrder, CallState
  <2>2. rows' = [rows EXCEPT ![n] = Record]
    BY <1>3 DEF AppendRecord, AppendRow
  <2>3. Record.request = call.request /\ Record.worm = None
    BY DEF Record
  <2> HIDE DEF n
  <2>4. /\ rows'[n] = Record /\ \A m \in Sequence : m # n => rows'[m] = rows[m]
        /\ rows' \in [Sequence -> RowState \cup {None}] /\ rows' # rows
    BY <1>3, <2>1, <2>2 DEF RegistryInv, TypeOK
  <2>5. rows'[n] # None
    <3>1. rows \in [Sequence -> RowState \cup {None}]
      BY DEF RegistryInv, TypeOK
    <3>2. QED
      BY <2>1, <2>4, <3>1
  <2>6. /\ Records[n] = None /\ Records'[n] = call.request
        /\ Records' = [Records EXCEPT ![n] = Records'[n]]
    BY <2>1, <2>3, <2>4, <2>5 DEF Records
  <2>7. Versions' = Versions
    BY <2>1, <2>3, <2>4 DEF Versions
  <2>8. n = 1 => Versions[0] # None
    BY <2>1, Constants DEF Versions, RequireConfirmed
  <2>9. \E m \in 0..1 : /\ Records[m] = None
                        /\ m = 1 => Versions[0] # None
                        /\ Records'[m] \in AnyRequest
                        /\ Records' = [Records EXCEPT ![m] = Records'[m]]
                        /\ UNCHANGED <<Versions, answers, head>>
    BY <1>1, <2>1, <2>6, <2>7, <2>8 DEF Sequence
  <2>10. \E m \in One!Sequence : One!Append(m)
    BY <2>9 DEF One!Append, One!Sequence, Records, Versions
  <2>11. QED
    BY <2>10 DEF One!Next
<1>4. QED
  BY <1>2, <1>3

LEMMA OneBinds ==
  ASSUME RegistryInv, call # None, call.at \in {"mirror", "sent"}, NEW v \in Version,
         SameWorm(call.sequence, v), Done(v), head' = head
  PROVE  [One!Next]_(One!vars)
<1> DEFINE n == call.sequence
<1>1. /\ n \in Sequence /\ rows[n] # None /\ rows[n] \in RowState
      /\ rows[n].request = call.request
  BY Mirrored
<1>2. TypeOK /\ rows' = Bind(n, v) /\ rows[n].worm \in {None, v}
  BY DEF RegistryInv, Done, SameWorm
<1> HIDE DEF n
<1>3. /\ \A m \in Sequence :
           /\ rows'[m] = None <=> rows[m] = None
           /\ rows[m] # None => rows'[m].request = rows[m].request
           /\ m # n => rows'[m] = rows[m]
      /\ rows'[n].worm = v /\ v # None
  BY <1>1, <1>2, RowBound, NoneAssumption
<1>4. Records' = Records /\ Records[n] = call.request
  BY <1>1, <1>3 DEF Records
<1>5. Versions'[n] = v /\ Versions' = [Versions EXCEPT ![n] = Versions'[n]]
      /\ Versions[n] = rows[n].worm
  BY <1>1, <1>3 DEF Versions
<1>6. answers' = answers
      \/ answers' = answers \cup {[sequence |-> n, record |-> Records[n], version |-> Versions'[n]]}
  BY <1>4, <1>5 DEF Done, Answered, n
<1>7. CASE rows[n].worm = None
  <2>1. \E m \in 0..1 :
          /\ Records[m] # None /\ Versions[m] = None
          /\ Versions'[m] \in Version
          /\ Versions' = [Versions EXCEPT ![m] = Versions'[m]]
          /\ UNCHANGED <<Records, head>>
          /\ \/ answers' = answers
             \/ /\ Versions'[m] # None
                /\ answers' = answers \cup
                     {[sequence |-> m, record |-> Records[m], version |-> Versions'[m]]}
    <3>1. Records[n] # None
      <4>1. call.request \in AnyRequest
        BY <1>1 DEF RowState
      <4>2. QED
        BY <1>4, <4>1, NoneAssumption
    <3>2. QED
      BY <1>1, <1>3, <1>4, <1>5, <1>6, <1>7, <3>1 DEF Sequence
  <2>2. \E m \in One!Sequence : One!Bind(m) /\ (UNCHANGED answers \/ One!Answer(m))
    BY <2>1 DEF One!Bind, One!Answer, One!View, One!Sequence, Records, Versions
  <2>3. QED
    BY <2>2 DEF One!Next
<1>8. CASE rows[n].worm = v
  <2>1. rows' = rows
    BY <1>2, <1>3, <1>8 DEF Bind
  <2>2. CASE answers' = answers
    BY <2>1, <2>2, OneStutters
  <2>3. CASE answers' # answers
    <3>1. \E m \in 0..1 :
            /\ Versions'[m] # None
            /\ answers' = answers \cup
                 {[sequence |-> m, record |-> Records[m], version |-> Versions'[m]]}
            /\ UNCHANGED <<Records, Versions, head>>
      BY <1>1, <1>3, <1>4, <1>5, <1>6, <2>1, <2>3 DEF Sequence, Versions
    <3>2. \E m \in One!Sequence : One!Tell(m)
      BY <3>1 DEF One!Tell, One!Answer, One!View, One!Sequence, Records, Versions
    <3>3. QED
      BY <3>2 DEF One!Next
  <2>4. QED
    BY <2>2, <2>3
<1>9. QED
  BY <1>2, <1>7, <1>8

LEMMA OneAdvances ==
  ASSUME RegistryInv, call # None, call.at = "advance", head' = Pair, rows' = rows,
         answers' = answers \/ Answered(1, rows[1].worm)
  PROVE  One!Next
<1>1. /\ rows[0] # None /\ rows[0].worm # None /\ rows[1] # None /\ rows[1].worm # None
      /\ rows[1].request = call.request
  BY DEF RegistryInv, CallsInOrder, RequireConfirmed
<1>2. /\ Versions = Pair /\ Versions' = Versions /\ Records' = Records
      /\ \A m \in Sequence : Versions[m] # None
      /\ Versions[1] = rows[1].worm /\ Records[1] = call.request
  BY <1>1, Constants DEF Versions, Records, Pair
<1>3. /\ \A m \in 0..1 : Versions[m] # None
      /\ head' = Versions
      /\ \/ answers' = answers
         \/ /\ Versions'[1] # None
            /\ answers' = answers \cup
                 {[sequence |-> 1, record |-> Records[1], version |-> Versions'[1]]}
      /\ UNCHANGED <<Records, Versions>>
  BY <1>2, Constants DEF Sequence, Answered
<1>4. One!Advance
  BY <1>3 DEF One!Advance, One!Answer, One!View, One!Sequence, Records, Versions
<1>5. QED
  BY <1>4 DEF One!Next

LEMMA OneStep == RegistryInv /\ RegistryInv' /\ [Next]_vars => [One!Next]_(One!vars)
<1> SUFFICES ASSUME RegistryInv, RegistryInv', [Next]_vars PROVE [One!Next]_(One!vars)
  OBVIOUS
<1> DEFINE n == call.sequence
<1>1. CASE UNCHANGED <<rows, answers, head>>
  BY <1>1, OneStutters
<1>2. CASE AppendRecord
  BY <1>2, OneAppends
<1>3. ASSUME call # None, call.at \in {"mirror", "sent"}, NEW v \in bucket[n],
             SameWorm(n, v), Done(v), head' = head
      PROVE  [One!Next]_(One!vars)
  <2>1. bucket[n] \subseteq Version
    BY <1>3, Mirrored DEF RegistryInv, TypeOK
  <2>2. QED
    BY <1>3, <2>1, OneBinds
<1>4. CASE ConfirmedAlready
  <2>1. /\ call # None /\ call.at = "mirror" /\ n \in Sequence /\ rows[n] \in RowState
        /\ rows[n].worm # None
    BY <1>4, Mirrored DEF ConfirmedAlready, RequireConfirmed
  <2>2. rows[n].worm \in Version /\ SameWorm(n, rows[n].worm)
    BY <2>1 DEF RowState, SameWorm
  <2>3. QED
    BY <1>4, <2>1, <2>2, OneBinds DEF ConfirmedAlready
<1>5. CASE Look
  BY <1>1, <1>3, <1>5 DEF Look
<1>6. CASE Reconcile \/ ReconcileEarly
  BY <1>1, <1>3, <1>6 DEF Reconcile, ReconcileEarly, Reread
<1>7. CASE AdvanceHead \/ AdvanceFails
  BY <1>1, <1>7, OneAdvances DEF AdvanceHead, AdvanceFails
<1>8. CASE (\E s \in Service : ReadService(s)) \/ Stamp \/ Accept \/ Evict
  BY <1>1, <1>8 DEF ReadService, Stamp, Accept, Evict
<1>9. CASE \/ \E r \in ProvisionRequest : Provision(r)
           \/ \E r \in FinalizeRequest : Finalize(r)
  BY <1>1, <1>9 DEF Provision, Finalize, Resolve
<1>10. CASE \/ \E s \in Service, serves \in {"FINAL", "OTHER"} : Deploy(s, serves)
            \/ StartPromotion \/ FinishPromotion \/ Tick
            \/ \E u \in transit : Land(u) \/ Lose(u)
  BY <1>1, <1>10 DEF Deploy, StartPromotion, FinishPromotion, Tick, Land, Lose
<1>11. CASE UNCHANGED vars
  BY <1>1, <1>11 DEF vars
<1>12. QED
  BY <1>2, <1>4, <1>5, <1>6, <1>7, <1>8, <1>9, <1>10, <1>11 DEF Next, CallStep, Observation, Mirroring

(* Provision and finalize make one activation: one record of each, bound to  *)
(* one stored version for good, answers only of bound records, and a head    *)
(* that only ever receives the bound pair, whatever is retried, evicted,     *)
(* lost or late (activation-registry.ts, activation-record-store.ts).        *)
THEOREM RegistryIsOneActivation == Spec => ImplementsOneActivation
<1>1. Init => One!Init
  <2>1. Init => /\ Records = [s \in 0..1 |-> None] /\ Versions = [s \in 0..1 |-> None]
                /\ answers = {} /\ head = None
    BY DEF Init, Records, Versions, Sequence
  <2>2. QED
    BY <2>1 DEF One!Init, One!Sequence, Records, Versions
<1>2. QED
  BY <1>1, OneStep, RegistryInvariant, PTL DEF Spec, ImplementsOneActivation, One!Spec
=============================================================================
