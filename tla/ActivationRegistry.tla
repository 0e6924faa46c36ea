------------------------- MODULE ActivationRegistry -------------------------
(* The registry of one worker version: an administrator provisions, the     *)
(* release is promoted, an administrator finalizes.  Each record rests on   *)
(* an observation of every service's current deployment, made one service   *)
(* at a time while anybody may redeploy; it is appended once, mirrored to    *)
(* the WORM bucket, and the pair is handed to the global head.  Calls are    *)
(* evicted anywhere, uploads arrive late or not at all, the head refuses or  *)
(* its answer is lost, and administrators repeat or change their requests.  *)
EXTENDS Naturals, Sequences, FiniteSets

CONSTANTS Private,    \* the private services
          Ingress,    \* the service that is promoted
          Request,    \* names of requests: a retry has the name of the first
          Window,     \* how long an observation may be acted on
          MaxClock,   \* bound on the clock
          MaxDeploys, \* bound on the deployments of a private service
          MaxIngress, \* bound on those of the ingress
          MaxFaults,  \* bound on evictions, timeouts, lost uploads and answers
          Verifiable, \* whether the verification parses the observations that are built: at
                      \* this commit it does not (BuiltObservationParses); TRUE is for the rest
          None

ASSUME RegistryAssumption ==
  /\ Ingress \notin Private
  /\ Window \in Nat /\ MaxClock \in Nat /\ MaxFaults \in Nat
  /\ MaxDeploys \in Nat \ {0} /\ MaxIngress \in Nat \ {0}
  /\ Verifiable \in BOOLEAN

VARIABLES now, faults, deployments, promoting, promotions, call, rows, bucket,
          transit, sent, batches, head, answers

provider == <<deployments, promoting, promotions>>
worm     == <<bucket, transit, sent, batches>>
vars == <<now, faults, provider, call, rows, worm, head, answers>>

Service  == Private \cup {Ingress}
Sequence == 0..1
Bound(s) == IF s = Ingress THEN MaxIngress ELSE MaxDeploys
Id(s)    == 1..Bound(s)
Instant  == 0..MaxClock
\* A stored version is named for its record and the upload that made it.
Version  == Sequence \X (1..(MaxFaults + 1))

\* A deployment: what it serves and when it was made; its place is its id,
\* which the provider never uses again.
Made(serves) == [serves |-> serves, at |-> now]
Current(s) == Len(deployments[s])

\* The deployments of the bootstrap: the ingress still denies everything.
Bootstrapped(s) == <<[serves |-> IF s = Ingress THEN "BOOTSTRAP" ELSE "FINAL", at |-> 0]>>

Init ==
  /\ now = 0 /\ faults = 0
  /\ deployments = [s \in Service |-> Bootstrapped(s)]
  /\ promoting = None /\ promotions = {}
  /\ call = None
  /\ rows = [n \in Sequence |-> None]
  /\ bucket = [n \in Sequence |-> {}] /\ transit = {} /\ sent = [n \in Sequence |-> 0]
  /\ batches = {}
  /\ head = None /\ answers = {}

Fault == faults < MaxFaults /\ faults' = faults + 1

----------------------------------------------------------------------------
(* The provider, the operators and time *)

Deploy(s, serves) ==
  /\ Current(s) < Bound(s)
  /\ deployments' = [deployments EXCEPT ![s] = Append(@, Made(serves))]
  /\ UNCHANGED <<now, faults, promoting, promotions, call, rows, worm, head, answers>>

StartPromotion ==
  /\ promoting = None /\ promoting' = now
  /\ UNCHANGED <<now, faults, deployments, promotions, call, rows, worm, head, answers>>

\* The promotion report names the deployment it made and its two instants.
FinishPromotion ==
  /\ promoting # None /\ Current(Ingress) < MaxIngress
  /\ deployments' = [deployments EXCEPT ![Ingress] = Append(@, Made("FINAL"))]
  /\ promotions' = promotions \cup
       {[deployment |-> Current(Ingress) + 1, startedAt |-> promoting, completedAt |-> now]}
  /\ promoting' = None
  /\ UNCHANGED <<now, faults, call, rows, worm, head, answers>>

Tick ==
  /\ now < MaxClock /\ now' = now + 1
  /\ UNCHANGED <<faults, provider, call, rows, worm, head, answers>>

----------------------------------------------------------------------------
(* Requests *)

\* The deployments a provision request expects of its private services before
\* and after the promotion, and of the ingress before it.
ProvisionRequest ==
  [name: Request, ingress: Id(Ingress),
   before: [Private -> 1..MaxDeploys], after: [Private -> 1..MaxDeploys]]

\* A private service is expected on one deployment throughout.
CrossBound(r) == r.before = r.after

\* A finalize request quotes an answer to the provision and a promotion report.
FinalizeRequest ==
  [name: Request, promotion: promotions,
   provisioned: {a \in answers : a.sequence = 0}]

Promotion == [deployment: Id(Ingress), startedAt: Instant, completedAt: Instant]
AnyFinalizeRequest ==
  [name: Request, promotion: Promotion,
   provisioned: [sequence: {0}, record: ProvisionRequest, version: Version]]

Promoted(r) == r.promotion.deployment

\* What a call expects every service to be deployed as.
Expected(s) ==
  IF call.sequence = 0
  THEN IF s = Ingress THEN [id |-> call.request.ingress, serves |-> "BOOTSTRAP"]
       ELSE [id |-> call.request.before[s], serves |-> "FINAL"]
  ELSE [id |-> IF s = Ingress THEN Promoted(call.request)
               ELSE rows[0].request.after[s], serves |-> "FINAL"]

----------------------------------------------------------------------------
(* Admission: one call at a time *)

Unread == [s \in Service |-> None]

Started(n, r, at) ==
  [sequence |-> n, request |-> r, at |-> at, seen |-> Unread, observedAt |-> 0, acceptedAt |-> 0]

SameName(n, r) == rows[n].request.name = r.name
Idempotent(n, r) == rows[n].request = r

RequireConfirmed(n) == rows[n] # None /\ rows[n].worm # None

\* A request for a row that exists goes straight to its mirror or is refused.
Resolve(n, r) ==
  /\ call' = Started(n, r, IF rows[n] = None THEN "read" ELSE "mirror")
  /\ rows[n] # None => Idempotent(n, r)
  /\ UNCHANGED <<now, faults, provider, rows, worm, head, answers>>

Provision(r) ==
  /\ call = None
  /\ rows[0] = None => CrossBound(r)
  /\ Resolve(0, r)

View(n) == [sequence |-> n, record |-> rows[n].request, version |-> rows[n].worm]

PointerMatches(r) == r.provisioned = View(0)

Finalize(r) ==
  /\ call = None
  /\ RequireConfirmed(0) /\ PointerMatches(r)
  /\ Resolve(1, r)

----------------------------------------------------------------------------
(* The observation *)

MatchesVersion(s, expected) == deployments[s][Current(s)].serves = expected.serves
Matches(s, expected) ==
  /\ Current(s) = expected.id
  /\ deployments[s][Current(s)].serves = expected.serves

\* One service is read; a deployment other than the expected one ends the call.
ReadService(s) ==
  /\ call # None /\ call.at = "read" /\ call.seen[s] = None
  /\ call' = IF Matches(s, Expected(s))
             THEN [call EXCEPT !.seen[s] = [id |-> Current(s), at |-> now]] ELSE None
  /\ UNCHANGED <<now, faults, provider, rows, worm, head, answers>>

\* The evidence batch of the observer is of an expectation and a phase: what was
\* observed first is the answer to every later call.
BatchKey ==
  LET r == IF call.sequence = 0 THEN call.request ELSE rows[0].request IN
  [phase |-> call.sequence, ingress |-> r.ingress, before |-> r.before, after |-> r.after]

Batch(b) == [key |-> BatchKey, seen |-> b.seen, observedAt |-> b.observedAt]

\* The observation is dated after the last read, not at each.
Stamp ==
  LET old == {b \in batches : b.key = BatchKey}
      read == [call EXCEPT !.at = "accept", !.observedAt = now] IN
  /\ call # None /\ call.at = "read"
  /\ \A s \in Service : call.seen[s] # None
  /\ IF old = {}
     THEN call' = read /\ batches' = batches \cup {Batch(read)}
     ELSE /\ \E b \in old : call' = [read EXCEPT !.seen = b.seen, !.observedAt = b.observedAt]
          /\ UNCHANGED batches
  /\ UNCHANGED <<now, faults, provider, rows, bucket, transit, sent, head, answers>>

\* The broker accepts an answer that is not older than the window.
Accept ==
  /\ call # None /\ call.at = "accept"
  /\ call' = IF now - call.observedAt <= Window
             THEN [call EXCEPT !.at = "commit", !.acceptedAt = now] ELSE None
  /\ UNCHANGED <<now, faults, provider, rows, worm, head, answers>>

----------------------------------------------------------------------------
(* The record *)

Fresh(acceptedAt, at) == acceptedAt <= at /\ at - acceptedAt <= Window

\* The promotion lies between the two records, the second observation after it.
Chronology(promotion, observedAt, acceptedAt, at) ==
  /\ rows[0].committedAt < promotion.startedAt
  /\ promotion.startedAt <= promotion.completedAt
  /\ promotion.completedAt <= observedAt
  /\ observedAt <= acceptedAt
  /\ Fresh(acceptedAt, at)

Commits ==
  IF call.sequence = 0 THEN Fresh(call.acceptedAt, now)
  ELSE Chronology(call.request.promotion, call.observedAt, call.acceptedAt, now)

Record ==
  [request |-> call.request, seen |-> call.seen, observedAt |-> call.observedAt,
   acceptedAt |-> call.acceptedAt, committedAt |-> now, worm |-> None]

\* A row is written once.
AppendRow(n) == IF rows[n] = None THEN [rows EXCEPT ![n] = Record] ELSE rows

AppendRecord ==
  /\ call # None /\ call.at = "commit"
  /\ IF Commits
     THEN rows' = AppendRow(call.sequence) /\ call' = [call EXCEPT !.at = "mirror"]
     ELSE UNCHANGED rows /\ call' = None
  /\ UNCHANGED <<now, faults, provider, worm, head, answers>>

----------------------------------------------------------------------------
(* The mirror *)

Single(n)  == Cardinality(bucket[n]) = 1
Several(n) == Cardinality(bucket[n]) > 1

\* A pointer is bound once; one that is there already must be the same.
Bind(n, v) == IF rows[n].worm = None THEN [rows EXCEPT ![n].worm = v] ELSE rows
SameWorm(n, v) == rows[n].worm \in {None, v}

\* What a bound record leads to: an answer, or for the second the global head.
Answered(n, v) ==
  answers' = answers \cup {[sequence |-> n, record |-> call.request, version |-> v]}
HeadNextOnce == call.sequence = 1 /\ rows[1].worm = None
HeadNext == call.sequence = 1

Done(v) ==
  LET n == call.sequence IN
  /\ rows' = Bind(n, v)
  /\ IF HeadNext
     THEN call' = [call EXCEPT !.at = "advance"] /\ UNCHANGED answers
     ELSE /\ call' = None
          /\ Answered(n, v)

\* A record bound before is not mirrored again.
ConfirmedAlready ==
  /\ call # None /\ call.at = "mirror" /\ RequireConfirmed(call.sequence)
  /\ Done(rows[call.sequence].worm)
  /\ UNCHANGED <<now, faults, provider, worm, head>>

Look ==
  /\ call # None /\ call.at = "mirror" /\ ~RequireConfirmed(call.sequence)
  /\ LET n == call.sequence IN
     \/ /\ Several(n) /\ call' = None /\ UNCHANGED <<rows, worm, answers>>
     \/ /\ \E v \in bucket[n] : Single(n) /\ SameWorm(n, v) /\ Done(v)
        /\ UNCHANGED worm
     \/ /\ bucket[n] = {}
        /\ sent' = [sent EXCEPT ![n] = @ + 1]
        /\ transit' = transit \cup {<<n, sent'[n]>>}
        /\ call' = [call EXCEPT !.at = "sent"]
        /\ UNCHANGED <<rows, bucket, batches, answers>>
  /\ UNCHANGED <<now, faults, provider, head>>

\* Whatever the writer said, the key is read again and must hold one version.
Reread ==
  LET n == call.sequence IN
  /\ call.at = "sent"
  /\ \/ ~Single(n) /\ call' = None /\ UNCHANGED <<rows, answers>>
     \/ \E v \in bucket[n] : Single(n) /\ SameWorm(n, v) /\ Done(v)
  /\ UNCHANGED <<now, provider, worm, head>>

Reconcile ==
  /\ call # None /\ <<call.sequence, sent[call.sequence]>> \notin transit
  /\ Reread /\ UNCHANGED faults

\* The writer fails or times out while its upload is still under way.
ReconcileEarly ==
  /\ Fault
  /\ call # None /\ <<call.sequence, sent[call.sequence]>> \in transit
  /\ Reread

Land(u) ==
  /\ u \in transit
  /\ transit' = transit \ {u}
  /\ bucket' = [bucket EXCEPT ![u[1]] = @ \cup {u}]
  /\ UNCHANGED <<now, faults, provider, call, rows, sent, batches, head, answers>>

Lose(u) ==
  /\ Fault
  /\ u \in transit /\ transit' = transit \ {u}
  /\ UNCHANGED <<now, provider, call, rows, bucket, sent, batches, head, answers>>

----------------------------------------------------------------------------
(* The global head *)

\* What is checked again of the two records before the head may hear of them.
PromotionBinding == rows[1].seen[Ingress].id = Promoted(rows[1].request)
EntryParses(row, s, id) == Verifiable /\ row.seen[s].id = id
ObservationParses(row, expected) ==
  /\ row.observedAt <= row.acceptedAt /\ row.acceptedAt - row.observedAt <= Window
  /\ \A s \in DOMAIN expected : EntryParses(row, s, expected[s])
SnapshotVerifies ==
  /\ CrossBound(rows[0].request)
  /\ ObservationParses(rows[0], rows[0].request.before)
  /\ ObservationParses(rows[1], rows[0].request.after)
  /\ Fresh(rows[0].acceptedAt, rows[0].committedAt)
  /\ Chronology(rows[1].request.promotion, rows[1].observedAt, rows[1].acceptedAt,
                rows[1].committedAt)
  /\ PromotionBinding

Pair == [n \in Sequence |-> rows[n].worm]

AdvanceHead ==
  /\ call # None /\ call.at = "advance"
  /\ call' = None
  /\ IF SnapshotVerifies
     THEN /\ head' = Pair
          /\ Answered(1, rows[1].worm)
     ELSE UNCHANGED <<head, answers>>
  /\ UNCHANGED <<now, faults, provider, rows, worm>>

\* The head refuses for now, or took the pair and its answer is lost.
AdvanceFails ==
  /\ Fault
  /\ call # None /\ call.at = "advance"
  /\ call' = None
  /\ (UNCHANGED head \/ (SnapshotVerifies /\ head' = Pair))
  /\ UNCHANGED <<now, provider, rows, worm, answers>>

\* The object is evicted, or a private service fails: only the rows remain.
Evict ==
  /\ Fault
  /\ call # None /\ call' = None
  /\ UNCHANGED <<now, provider, rows, worm, head, answers>>

----------------------------------------------------------------------------
Observation == (\E s \in Service : ReadService(s)) \/ Stamp \/ Accept \/ AppendRecord
Mirroring   == ConfirmedAlready \/ Look \/ Reconcile
CallStep    == Observation \/ Mirroring \/ AdvanceHead

Next ==
  \/ \E r \in ProvisionRequest : Provision(r)
  \/ \E r \in FinalizeRequest : Finalize(r)
  \/ CallStep \/ ReconcileEarly \/ AdvanceFails \/ Evict
  \/ \E s \in Service, serves \in {"FINAL", "OTHER"} : Deploy(s, serves)
  \/ StartPromotion \/ FinishPromotion \/ Tick
  \/ \E u \in transit : Land(u) \/ Lose(u)

Spec == Init /\ [][Next]_vars

\* The administrator repeats the finalize request that was appended.
Retry == rows[1] # None /\ head = None /\ Finalize(rows[1].request)

Fairness ==
  /\ WF_vars(CallStep) /\ SF_vars(Retry)
  /\ WF_vars(\E u \in transit : Land(u))

FairSpec == Spec /\ Fairness

----------------------------------------------------------------------------
RequestOf(n) == IF n = 0 THEN ProvisionRequest ELSE AnyFinalizeRequest
AnyRequest == ProvisionRequest \cup AnyFinalizeRequest

Deployment == [serves: {"BOOTSTRAP", "FINAL", "OTHER"}, at: Instant]
Seen == [id: Nat, at: Instant]
Key  == [phase: Sequence, ingress: Id(Ingress),
         before: [Private -> 1..MaxDeploys], after: [Private -> 1..MaxDeploys]]
BatchOf == [key: Key, seen: [Service -> Seen], observedAt: Instant]
CallState == [sequence: Sequence, request: AnyRequest,
              at: {"read", "accept", "commit", "mirror", "sent", "advance"},
              seen: [Service -> Seen \cup {None}], observedAt: Instant, acceptedAt: Instant]
RowState == [request: AnyRequest, seen: [Service -> Seen], observedAt: Instant,
             acceptedAt: Instant, committedAt: Instant, worm: Version \cup {None}]
AnswerOf == [sequence: Sequence, record: AnyRequest, version: Version]

\* Nothing is not one of the things.
ASSUME NoneAssumption ==
  None \notin Seen \cup CallState \cup RowState \cup AnyRequest \cup Version

TypeOK ==
  /\ now \in Instant /\ faults \in 0..MaxFaults
  /\ deployments \in [Service -> Seq(Deployment)]
  /\ promoting \in Instant \cup {None} /\ promotions \in SUBSET Promotion
  /\ call \in CallState \cup {None}
  /\ rows \in [Sequence -> RowState \cup {None}]
  /\ bucket \in [Sequence -> SUBSET Version] /\ transit \in SUBSET Version
  /\ sent \in [Sequence -> 0..(MaxFaults + 1)]
  /\ batches \in SUBSET BatchOf
  /\ head \in [Sequence -> Version] \cup {None}
  /\ answers \in SUBSET AnswerOf

(* An activated record is evidence about an interval, although no read is a  *)
(* snapshot: no private service was redeployed between its two reads.  The   *)
(* ingress may be that of an earlier promotion, since what was observed      *)
(* first answers later calls; but the head is only ever advanced to a record *)
(* whose ingress was read on the promoted deployment, made after the first   *)
(* read of it, once the promotion was complete (activation-registry.ts,      *)
(* cloudflare-deployment-observer.ts, activation-snapshot-verifier.ts:192).  *)
Undisturbed ==
  \A s \in Private : ~\E id \in DOMAIN deployments[s] :
    /\ id > rows[0].seen[s].id
    /\ deployments[s][id].at < rows[1].seen[s].at

Bracketed ==
  LET first == rows[0].seen[Ingress] second == rows[1].seen[Ingress] IN
  /\ second.id = Promoted(rows[1].request)
  /\ first.at < deployments[Ingress][second.id].at
  /\ rows[1].request.promotion.completedAt <= second.at

ActivationBracketsPromotion ==
  /\ rows[1] # None => Undisturbed
  /\ head # None => Bracketed

(* The registry implements one activation.                                   *)
One == INSTANCE OneActivation WITH
  Record   <- AnyRequest,
  records  <- [n \in Sequence |-> IF rows[n] = None THEN None ELSE rows[n].request],
  versions <- [n \in Sequence |-> IF rows[n] = None THEN None ELSE rows[n].worm],
  answered <- answers

ImplementsOneActivation == One!Spec

(* Once the activated record exists, repeating the finalize request brings   *)
(* the head to it, whatever died after the append, unless two uploads of one *)
(* record landed (activation-registry.ts:261) or its observation is that of  *)
(* an earlier promotion, if what is built is Verifiable.                     *)
Wedged == \/ \E n \in Sequence : Several(n)
          \/ rows[1] # None /\ ~PromotionBinding

FinalizeReachesHead == []<>(rows[1] = None \/ head # None \/ Wedged)
=============================================================================
