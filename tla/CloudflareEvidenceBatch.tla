---------------------- MODULE CloudflareEvidenceBatch ----------------------
(* The evidence batch of one Cloudflare delegation: observers that resume   *)
(* the batch or read the provider and mirror it, the durable object that    *)
(* seals one observation and copies its slots to the WORM bucket with       *)
(* concurrent workers, and the bucket itself.  Callers give up, isolates    *)
(* are evicted, uploads arrive late or never, and the workers are           *)
(* redeployed under a running batch.                                        *)
EXTENDS Naturals, FiniteSets

CONSTANTS Caller,       \* observer calls of the delegation: a broker's retries
          Worker,       \* runner workers (private/cloudflare-evidence-batch-runner.ts:15)
          Slots,        \* how many records a batch has
          Shared,       \* slots under whose key somebody else may write too
          Observation,  \* what a read of the provider may return
          Fresh,        \* last instant the delegation may be acted on
          Admission,    \* longest wait between the delegation and its admission
          MaxClock,     \* bound on the clock
          MaxFaults,    \* bound on evictions, refused reads, deadlines and calls given up
          MayLose,      \* whether an upload may vanish on its way
          None

ASSUME BatchAssumption ==
  /\ Slots \in Nat \ {0} /\ Shared \subseteq 1..Slots
  /\ Fresh \in Nat /\ Admission \in Nat /\ MaxClock \in Nat /\ MaxFaults \in Nat
  /\ MayLose \in BOOLEAN

VARIABLES now, deployed, faults, observers, queue, call, workers, batch, slots,
          bucket, transit, sent, answers

caller  == <<observers, queue, answers>>
durable == <<batch, slots>>
world   == <<bucket, transit, sent>>
vars == <<now, deployed, faults, caller, call, workers, durable, world>>

Slot    == 1..Slots
Instant == 0..MaxClock
\* A version is named for its key and the upload that made it; 0 is a stranger's.
Version == Slot \X (0..2)
Stranger(s) == <<s, 0>>

\* The delegation: committed at 0, fresh for a while, bound to one deployment.
Delegation == [committedAt |-> 0, freshUntil |-> Fresh, pins |-> 1]

SlotStatus == {"PREPARED", "ABSENT", "IN_FLIGHT", "ACCEPTED", "CONFIRMED", "HOLD"}
BatchStatus == {"SEALED", "CONFIRMED", "HOLD"}

ReadOf == [observation: Observation, observedAt: Instant]
SealOf == [observation: Observation, observedAt: Instant, sealedAt: Instant]

ObserverState == [at: {"idle", "waiting", "missing", "reading", "sealing"}, read: ReadOf \cup {None}]
CallState == [caller: Caller \cup {None}, seal: SealOf \cup {None}, at: {"resume", "seal", "run"},
              next: Nat, failed: BOOLEAN]
WorkerState == [at: {"take", "next", "absence", "upload", "answer", "reconcile"},
                slot: 0..Slots, read: [found: SUBSET Version] \cup {None}]
BatchState == [seal: SealOf, execution: {1, 2}, status: BatchStatus]

ASSUME NoneAssumption ==
  None \notin Version \cup SealOf \cup CallState \cup BatchState

PreparedSlots == [s \in Slot |-> [status |-> "PREPARED", writer |-> None, worm |-> None]]

Init ==
  /\ now = 0 /\ deployed = Delegation.pins /\ faults = 0
  /\ observers = [c \in Caller |-> [at |-> "idle", read |-> None]]
  /\ queue = {} /\ call = None
  /\ workers = [w \in Worker |-> [at |-> "take", slot |-> 0, read |-> None]]
  /\ batch = None
  /\ slots = PreparedSlots
  /\ bucket = [s \in Slot |-> {}] /\ transit = {}
  /\ sent = [s \in Slot |-> 0]
  /\ answers = {}

Fault == faults < MaxFaults /\ faults' = faults + 1

----------------------------------------------------------------------------
(* Observers *)

Settled(c) == [observers EXCEPT ![c] = [at |-> "idle", read |-> None]]

\* Every call of the delegation first asks for the batch it may already have.
Resume(c) ==
  /\ observers[c].at = "idle"
  /\ observers' = [observers EXCEPT ![c].at = "waiting"]
  /\ queue' = queue \cup {[caller |-> c, seal |-> None]}
  /\ UNCHANGED <<now, deployed, faults, answers, call, workers, durable, world>>

Admissible ==
  /\ now \in Delegation.committedAt..Delegation.freshUntil
  /\ now - Delegation.committedAt <= Admission

\* Only a proven-missing batch is observed, and only soon after the delegation.
Admit(c) ==
  /\ observers[c].at = "missing"
  /\ observers' = IF Admissible
                  THEN [observers EXCEPT ![c].at = "reading"] ELSE Settled(c)
  /\ UNCHANGED <<now, deployed, faults, queue, answers, call, workers, durable, world>>

Observe(c, o) ==
  /\ observers[c].at = "reading"
  /\ observers' = [observers EXCEPT ![c] =
                     [at |-> "sealing", read |-> [observation |-> o, observedAt |-> now]]]
  /\ UNCHANGED <<now, deployed, faults, queue, answers, call, workers, durable, world>>

\* What the client derives of a request before it sends it, and the durable
\* object again of the request it receives.
RequestValid(seal) ==
  /\ Delegation.committedAt <= seal.observedAt
  /\ seal.observedAt <= seal.sealedAt
  /\ seal.sealedAt <= Delegation.freshUntil
  /\ seal.sealedAt - Delegation.committedAt <= Admission

Request(read) ==
  [observation |-> read.observation, observedAt |-> read.observedAt, sealedAt |-> now]

Mirror(c) ==
  LET seal == Request(observers[c].read) IN
  /\ observers[c].at = "sealing"
  /\ IF RequestValid(seal)
     THEN /\ observers' = [observers EXCEPT ![c] = [at |-> "waiting", read |-> None]]
          /\ queue' = queue \cup {[caller |-> c, seal |-> seal]}
     ELSE observers' = Settled(c) /\ UNCHANGED queue
  /\ UNCHANGED <<now, deployed, faults, answers, call, workers, durable, world>>

\* The caller's own deadline passes; the durable object keeps working.
Orphaned(r, c) == IF r # None /\ r.caller = c THEN [r EXCEPT !.caller = None] ELSE r

GiveUp(c) ==
  /\ Fault
  /\ observers[c].at # "idle"
  /\ observers' = Settled(c)
  /\ queue' = {Orphaned(r, c) : r \in queue}
  /\ call' = Orphaned(call, c)
  /\ UNCHANGED <<now, deployed, answers, workers, durable, world>>

----------------------------------------------------------------------------
(* The durable object *)

\* The answer to the caller of the call that ends; an orphan has none.
Tell(at) ==
  observers' = IF call.caller = None THEN observers
               ELSE [observers EXCEPT ![call.caller] = [at |-> at, read |-> None]]

EndCall == call' = None /\ workers' = [w \in Worker |-> [at |-> "take", slot |-> 0, read |-> None]]

\* One call at a time: the others wait behind it.
Serve(r) ==
  /\ call = None /\ r \in queue
  /\ queue' = queue \ {r}
  /\ call' = [caller |-> r.caller, seal |-> r.seal, at |-> "resume", next |-> 1, failed |-> FALSE]
  /\ UNCHANGED <<now, deployed, faults, observers, answers, workers, durable, world>>

ExecutionMatches == batch.execution = deployed

\* What is sealed is all a later run or answer is made of.
Context == [seal |-> batch.seal, execution |-> batch.execution]

RunWorkers == 
  /\ call' = [call EXCEPT !.at = "run"]
  /\ UNCHANGED workers

\* An existing batch is run whatever the request observed.
ResumeBatch ==
  /\ call # None /\ call.at = "resume" /\ batch # None
  /\ IF ExecutionMatches
     THEN RunWorkers /\ UNCHANGED observers
     ELSE Tell("idle") /\ EndCall
  /\ UNCHANGED <<now, deployed, faults, queue, answers, durable, world>>

\* A resume of no batch is answered MISSING; a mirror prepares its seal.
NoBatch ==
  /\ call # None /\ call.at = "resume" /\ batch = None
  /\ IF call.seal = None
     THEN Tell("missing") /\ EndCall
     ELSE call' = [call EXCEPT !.at = "seal"] /\ UNCHANGED <<observers, workers>>
  /\ UNCHANGED <<now, deployed, faults, queue, answers, durable, world>>

\* The instants again, and the delegation's pins are those of this executor.
SealBinds(seal) ==
  /\ Delegation.pins = deployed
  /\ Delegation.committedAt <= seal.observedAt
  /\ seal.observedAt <= seal.sealedAt
  /\ seal.sealedAt <= Delegation.freshUntil

SealedBatch(seal) == [seal |-> seal, execution |-> deployed, status |-> "SEALED"]

Seal ==
  /\ call # None /\ call.at = "seal"
  /\ IF batch = None /\ RequestValid(call.seal) /\ SealBinds(call.seal)
     THEN /\ batch' = SealedBatch(call.seal)
          /\ slots' = PreparedSlots
          /\ RunWorkers /\ UNCHANGED observers
     ELSE Tell("idle") /\ EndCall /\ UNCHANGED durable
  /\ UNCHANGED <<now, deployed, faults, queue, answers, world>>

Records == [s \in Slot |-> slots[s].worm]
Confirmed == \A s \in Slot : slots[s].status = "CONFIRMED"
Result == [seal |-> Context.seal, pins |-> Context.execution, versions |-> Records]

\* What the observer checks of the answer before it hands it on.
ResultChronology(r) == RequestValid(r.seal)
ResultPins(r) == r.pins = Delegation.pins
ResultRecords(r) == \A s, o \in Slot : s # o => r.versions[s] # r.versions[o]
ResultValid(r) == ResultChronology(r) /\ ResultPins(r) /\ ResultRecords(r)

Finish ==
  /\ call # None /\ call.at = "run"
  /\ \A w \in Worker : workers[w].at = "take"
  /\ call.next > Slots
  /\ IF /\ ~call.failed /\ batch.status = "CONFIRMED" /\ Confirmed
        /\ call.caller # None /\ ResultValid(Result)
     THEN answers' = answers \cup {Result} ELSE UNCHANGED answers
  /\ Tell("idle") /\ EndCall
  /\ UNCHANGED <<now, deployed, faults, queue, durable, world>>

\* The isolate is evicted: its call and everything queued at it is gone, what
\* it wrote and what it sent is not.
Evicted ==
  /\ observers' = [c \in Caller |-> IF observers[c].at = "waiting"
                                    THEN [at |-> "idle", read |-> None] ELSE observers[c]]
  /\ queue' = {} /\ EndCall

Evict ==
  /\ Fault /\ Evicted
  /\ UNCHANGED <<now, deployed, answers, durable, world>>

Redeploy ==
  /\ deployed = Delegation.pins /\ deployed' = deployed + 1
  /\ Evicted
  /\ UNCHANGED <<now, faults, answers, durable, world>>

----------------------------------------------------------------------------
(* The workers of a call *)

Active(w, at) == workers[w].at = at
Go(w, at) ==
  workers' = [workers EXCEPT ![w] =
                [at |-> at, slot |-> IF at = "take" THEN 0 ELSE @.slot, read |-> None]]

\* A retryable failure ends the slot's turn, nothing more.
Fail(w) ==
  /\ call' = [call EXCEPT !.failed = TRUE]
  /\ Go(w, "take")

\* Any other failure puts the slot and the batch on hold unless confirmed.
Held(status) == IF status = "CONFIRMED" THEN status ELSE "HOLD"

HoldSlot(w) ==
  /\ slots' = [slots EXCEPT ![workers[w].slot].status = Held(@)]
  /\ batch' = [batch EXCEPT !.status = Held(@)]
  /\ Fail(w)

Take(w) ==
  /\ call # None /\ call.at = "run" /\ call.next <= Slots
  /\ Active(w, "take")
  /\ workers' = [workers EXCEPT ![w] = [@ EXCEPT !.at = "next", !.slot = call.next]]
  /\ call' = [call EXCEPT !.next = @ + 1]
  /\ UNCHANGED <<now, deployed, faults, caller, durable, world>>

\* A held batch is never dispatched again; what was sent is still reconciled.
DispatchableHeld(s) == slots[s].status = "ABSENT"
Dispatchable(s) == batch.status # "HOLD" /\ slots[s].status = "ABSENT"
Checkable(s)    == batch.status # "HOLD" /\ slots[s].status = "PREPARED"
ReconcilableAccepted(s) == slots[s].status = "ACCEPTED"
Reconcilable(s) == slots[s].status \in {"IN_FLIGHT", "ACCEPTED"}

\* The transition is durable before the writer is called.
Dispatching(s) == [slots EXCEPT ![s].status = "IN_FLIGHT"]

NextAction(w) ==
  LET s == workers[w].slot IN
  /\ Active(w, "next")
  /\ \/ /\ Checkable(s) /\ Go(w, "absence") /\ UNCHANGED <<call, slots>>
     \/ /\ Dispatchable(s)
        /\ slots' = Dispatching(s) /\ Go(w, "upload") /\ UNCHANGED call
     \/ /\ Reconcilable(s) /\ Go(w, "reconcile") /\ UNCHANGED <<call, slots>>
     \/ /\ slots[s].status = "CONFIRMED" /\ Go(w, "take") /\ UNCHANGED <<call, slots>>
     \/ /\ ~Checkable(s) /\ ~Dispatchable(s) /\ ~Reconcilable(s)
        /\ slots[s].status # "CONFIRMED"
        /\ Fail(w) /\ UNCHANGED slots
  /\ UNCHANGED <<now, deployed, faults, caller, batch, world>>

\* The call's own deadline is only looked at between two steps of a slot.
Deadline(w) ==
  /\ Fault
  /\ Active(w, "next") /\ Fail(w)
  /\ UNCHANGED <<now, deployed, caller, durable, world>>

\* The observer's read of the key, taken now and acted on later.
Inspect(w) ==
  LET s == workers[w].slot IN
  /\ workers[w].at \in {"absence", "reconcile"} /\ workers[w].read = None
  /\ workers' = [workers EXCEPT ![w].read = [found |-> bucket[s]]]
  /\ UNCHANGED <<now, deployed, faults, caller, call, durable, world>>

\* The observer is unavailable, or what it lists is refused for good.
InspectFails(w) ==
  /\ Fault
  /\ workers[w].at \in {"absence", "reconcile"} /\ workers[w].read = None
  /\ \/ Fail(w) /\ UNCHANGED durable
     \/ HoldSlot(w)
  /\ UNCHANGED <<now, deployed, caller, world>>

AbsenceProven(read) == read.found = {}

MarkAbsent(w) ==
  LET s == workers[w].slot IN
  /\ Active(w, "absence") /\ workers[w].read # None
  /\ IF AbsenceProven(workers[w].read) /\ slots[s].status = "PREPARED"
     THEN /\ slots' = [slots EXCEPT ![s].status = "ABSENT"]
          /\ Go(w, "next") /\ UNCHANGED <<call, batch>>
     ELSE HoldSlot(w)
  /\ UNCHANGED <<now, deployed, faults, caller, world>>

\* The upload leaves, or fails before it does; either way the slot is in flight.
Upload(w) ==
  LET s == workers[w].slot IN
  /\ Active(w, "upload") /\ sent[s] < 2
  /\ sent' = [sent EXCEPT ![s] = @ + 1]
  /\ transit' = transit \cup {<<s, sent'[s]>>}
  /\ Go(w, "answer")
  /\ UNCHANGED <<now, deployed, faults, caller, call, durable, bucket>>

UploadRefused(w) ==
  /\ MayLose /\ Fault
  /\ Active(w, "upload") /\ Go(w, "next")
  /\ UNCHANGED <<now, deployed, caller, call, durable, world>>

Aliased(v) == \E s \in Slot : slots[s].writer = v \/ slots[s].worm = v

Accept(w) ==
  LET s == workers[w].slot v == <<s, sent[s]>> IN
  /\ Active(w, "answer") /\ v \in bucket[s]
  /\ slots' = IF slots[s].status = "IN_FLIGHT" /\ ~Aliased(v)
              THEN [slots EXCEPT ![s].status = "ACCEPTED", ![s].writer = v] ELSE slots
  /\ Go(w, "next")
  /\ UNCHANGED <<now, deployed, faults, caller, call, batch, world>>

\* No answer, or one that cannot be read: only the observer may tell.
Unanswered(w) ==
  /\ Fault
  /\ Active(w, "answer") /\ Go(w, "next")
  /\ UNCHANGED <<now, deployed, caller, call, durable, world>>

Underway(s) == \E v \in transit : v[1] = s

UploadVanished(w) ==
  LET s == workers[w].slot IN
  /\ Active(w, "answer") /\ ~Underway(s) /\ <<s, sent[s]>> \notin bucket[s]
  /\ Go(w, "next")
  /\ UNCHANGED <<now, deployed, faults, caller, call, durable, world>>

Confirming(s, v) == [slots EXCEPT ![s].status = "CONFIRMED", ![s].worm = v]
RemainingUnaccepted(rows) == {s \in Slot : rows[s].status \notin {"CONFIRMED", "ACCEPTED"}}
Remaining(rows) == {s \in Slot : rows[s].status # "CONFIRMED"}

\* Exactly one version is the object's; none yet is worth asking again.
Pending(read)    == read.found = {}
Duplicated(read) == Cardinality(read.found) > 1
Reconciled(read) == {v \in read.found : read.found = {v}}

\* A version another slot holds aborts the transaction without a hold.
Confirm(w) ==
  LET s == workers[w].slot IN
  /\ Active(w, "reconcile") /\ workers[w].read # None
  /\ \/ Pending(workers[w].read) /\ Fail(w) /\ UNCHANGED durable
     \/ Duplicated(workers[w].read) /\ HoldSlot(w)
     \/ \E v \in Reconciled(workers[w].read) :
          /\ IF slots[s].status = "ACCEPTED" /\ slots[s].writer # v
             THEN HoldSlot(w)
             ELSE IF \E o \in Slot \ {s} : slots[o].worm = v
             THEN Fail(w) /\ UNCHANGED durable
             ELSE /\ slots' = Confirming(s, v)
                  /\ batch' = IF Remaining(slots') = {} /\ batch.status = "SEALED"
                              THEN [batch EXCEPT !.status = "CONFIRMED"] ELSE batch
                  /\ Go(w, "next") /\ UNCHANGED call
  /\ UNCHANGED <<now, deployed, faults, caller, world>>

----------------------------------------------------------------------------
(* The bucket, other writers, and time *)

Land(v) ==
  /\ v \in transit
  /\ transit' = transit \ {v}
  /\ bucket' = [bucket EXCEPT ![v[1]] = @ \cup {v}]
  /\ UNCHANGED <<now, deployed, faults, caller, call, workers, durable, sent>>

Lose(v) ==
  /\ MayLose /\ Fault
  /\ v \in transit
  /\ transit' = transit \ {v}
  /\ UNCHANGED <<now, deployed, caller, call, workers, durable, bucket, sent>>

StrangerWrites(s) ==
  /\ s \in Shared
  /\ bucket' = [bucket EXCEPT ![s] = @ \cup {Stranger(s)}]
  /\ UNCHANGED <<now, deployed, faults, caller, call, workers, durable, transit, sent>>

Tick ==
  /\ now < MaxClock /\ now' = now + 1
  /\ UNCHANGED <<deployed, faults, caller, call, workers, durable, world>>

----------------------------------------------------------------------------
ObserverStep(c) == Resume(c) \/ Admit(c) \/ (\E o \in Observation : Observe(c, o)) \/ Mirror(c)
ObjectStep == (\E r \in queue : Serve(r)) \/ ResumeBatch \/ NoBatch \/ Seal \/ Finish
WorkerStep(w) == Take(w) \/ NextAction(w) \/ Inspect(w) \/ MarkAbsent(w) \/ Upload(w)
                 \/ Accept(w) \/ UploadVanished(w) \/ Confirm(w)

Next ==
  \/ \E c \in Caller : ObserverStep(c) \/ GiveUp(c)
  \/ ObjectStep \/ Evict \/ Redeploy
  \/ \E w \in Worker : WorkerStep(w) \/ Deadline(w) \/ InspectFails(w) \/ UploadRefused(w)
                       \/ Unanswered(w)
  \/ (\E v \in transit : Land(v) \/ Lose(v))
  \/ (\E s \in Slot : StrangerWrites(s)) \/ Tick

Spec == Init /\ [][Next]_vars

(* The observer worker's caller retries (activation-operation-runner.ts), a  *)
(* served call runs to its end, and an upload under way lands unless lost.   *)
FairSpec ==
  /\ Spec
  /\ WF_vars(ObjectStep)
  /\ \A c \in Caller : WF_vars(ObserverStep(c))
  /\ \A w \in Worker : WF_vars(WorkerStep(w))
  /\ WF_vars(\E v \in transit : Land(v))

----------------------------------------------------------------------------
TypeOK ==
  /\ now \in Instant /\ deployed \in {1, 2} /\ faults \in 0..MaxFaults
  /\ observers \in [Caller -> ObserverState]
  /\ queue \in SUBSET [caller: Caller \cup {None}, seal: SealOf \cup {None}]
  /\ call \in CallState \cup {None}
  /\ workers \in [Worker -> WorkerState]
  /\ batch \in BatchState \cup {None}
  /\ slots \in [Slot -> [status: SlotStatus, writer: Version \cup {None},
                         worm: Version \cup {None}]]
  /\ bucket \in [Slot -> SUBSET Version] /\ transit \in SUBSET Version
  /\ sent \in [Slot -> 0..2]

(* No slot is ever uploaded twice, whatever call, eviction, lost answer or   *)
(* retry comes between: store.next makes IN_FLIGHT durable before the writer *)
(* is called, and nothing leads back from it.                                *)
UploadedOnce == \A s \in Slot : sent[s] <= 1

(* From the moment one slot puts the batch on hold, no other slot is handed  *)
(* to the writer, by the workers still running or by any later call          *)
(* (store.next, store.hold).                                                 *)
HoldStopsDispatch ==
  [][\A s \in Slot : batch # None /\ batch.status = "HOLD" /\ slots[s].status # "IN_FLIGHT"
                     => slots'[s].status # "IN_FLIGHT"]_vars

(* The durable object and its observers implement one evidence batch.        *)
One == INSTANCE OneEvidenceBatch WITH
  sealed   <- IF batch = None THEN None ELSE batch.seal,
  versions <- [s \in Slot |-> slots[s].worm],
  outcome  <- IF batch = None \/ batch.status = "SEALED" THEN "OPEN" ELSE batch.status,
  answered <- {[seal |-> r.seal, versions |-> r.versions] : r \in answers}

ImplementsOneBatch == One!Spec

(* The upload of a slot in flight was lost, or an eviction came before it:   *)
(* nobody will send it again.                                                *)
UploadLost(s) ==
  /\ slots[s].status = "IN_FLIGHT" /\ bucket[s] = {} /\ ~Underway(s)
  /\ \A w \in Worker : workers[w].slot = s => workers[w].at \notin {"upload", "answer"}

(* A sealed batch ends confirmed or on hold however late its callers come    *)
(* back, unless an upload was lost or its workers were redeployed: resume    *)
(* asks for no freshness (private/cloudflare-deployment-observer-v2.ts:54).  *)
SealedBatchSettles ==
  LET Unsettled == /\ batch # None /\ batch.status = "SEALED" /\ deployed = batch.execution
                   /\ \A s \in Slot : ~UploadLost(s)
  IN []<>~Unsettled
=============================================================================
