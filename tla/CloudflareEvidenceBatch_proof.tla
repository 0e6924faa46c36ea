-------------------- MODULE CloudflareEvidenceBatch_proof --------------------
(***************************************************************************)
(* Proofs about the evidence batch of a Cloudflare delegation, for any     *)
(* number of callers, workers and slots: no slot is uploaded twice, a held *)
(* batch dispatches nothing more, and the durable object with its          *)
(* observers implements one evidence batch.                                *)
(***************************************************************************)
EXTENDS CloudflareEvidenceBatch, TLAPS

Busy(w) == workers[w].at # "take"

\* The workers of a call share its slots out, each slot to one of them.
OneWorkerPerSlot ==
  /\ call # None => call.next \in Nat \ {0}
  /\ call # None /\ call.at = "run" => batch # None
  /\ \A w \in Worker : Busy(w) =>
       /\ call # None /\ call.at = "run"
       /\ workers[w].slot \in Slot /\ workers[w].slot < call.next
  /\ \A w, u \in Worker : Busy(w) /\ Busy(u) /\ workers[w].slot = workers[u].slot => w = u

\* What a slot's status says of its upload, and of the step its worker is at.
SlotStates ==
  /\ batch = None => slots = PreparedSlots
  /\ \A s \in Slot : slots[s].status \in {"PREPARED", "ABSENT"} => sent[s] = 0
  /\ \A w \in Worker :
       /\ workers[w].at = "upload" =>
            slots[workers[w].slot].status = "IN_FLIGHT" /\ sent[workers[w].slot] = 0
       /\ workers[w].at = "reconcile" =>
            slots[workers[w].slot].status \in {"IN_FLIGHT", "ACCEPTED"}
  /\ UploadedOnce

\* A version is confirmed for exactly the confirmed slots, and an answer is of the
\* one batch that was confirmed.
VersionsFinal ==
  /\ \A s \in Slot : slots[s].worm # None <=> slots[s].status = "CONFIRMED"
  /\ batch # None => batch.seal.observedAt <= batch.seal.sealedAt
  /\ batch # None /\ batch.status = "CONFIRMED" => Confirmed
  /\ \A r \in answers :
       /\ batch # None /\ batch.status = "CONFIRMED"
       /\ r.seal = batch.seal /\ r.versions = Records

\* What is about to be sealed is a reading.
Readings ==
  /\ \A c \in Caller : observers[c].at = "sealing" => observers[c].read \in ReadOf
  /\ call # None /\ call.at = "seal" => call.seal # None

BatchInv == TypeOK /\ Readings /\ OneWorkerPerSlot /\ SlotStates /\ VersionsFinal

-----------------------------------------------------------------------------
(* Types. *)

LEMMA BatchParts ==
  ASSUME TypeOK
  PROVE  /\ call # None => call \in CallState
         /\ batch # None => batch \in BatchState
BY DEF TypeOK

LEMMA FaultTyped == ASSUME TypeOK, Fault PROVE faults' \in 0..MaxFaults
BY BatchAssumption DEF TypeOK, Fault

LEMMA ObserverTyped ==
  ASSUME TypeOK, Readings, NEW c \in Caller, ObserverStep(c)
  PROVE  TypeOK' /\ Readings'
<1> USE BatchAssumption
<1>1. observers \in [Caller -> ObserverState] /\ observers[c] \in ObserverState /\ now \in Instant
  BY DEF TypeOK
<1>2. CASE Resume(c)
  <2>1. [observers[c] EXCEPT !.at = "waiting"] \in ObserverState
    BY <1>1 DEF ObserverState
  <2>2. observers' = [observers EXCEPT ![c] = [observers[c] EXCEPT !.at = "waiting"]]
    BY <1>2 DEF Resume
  <2>3. queue' \in SUBSET [caller: Caller \cup {None}, seal: SealOf \cup {None}]
    BY <1>2 DEF TypeOK, Resume
  <2>4. TypeOK'
    BY <1>1, <1>2, <2>1, <2>2, <2>3 DEF TypeOK, Resume, caller, durable, world
  <2>5. Readings'
    BY <1>1, <1>2, <2>2 DEF Readings, Resume, ObserverState
  <2>6. QED
    BY <2>4, <2>5
<1>3. CASE Admit(c)
  <2>1. PICK new \in ObserverState : observers' = [observers EXCEPT ![c] = new] /\ new.at # "sealing"
    <3>1. [observers[c] EXCEPT !.at = "reading"] \in ObserverState
          /\ [at |-> "idle", read |-> None] \in ObserverState
      BY <1>1 DEF ObserverState
    <3>2. QED
      BY <1>1, <1>3, <3>1 DEF Admit, Settled, ObserverState
  <2>2. TypeOK'
    BY <1>1, <1>3, <2>1 DEF TypeOK, Admit, caller, durable, world
  <2>3. Readings'
    BY <1>1, <1>3, <2>1 DEF Readings, Admit
  <2>4. QED
    BY <2>2, <2>3
<1>4. ASSUME NEW o \in Observation, Observe(c, o)
      PROVE  TypeOK' /\ Readings'
  <2> DEFINE r == [observation |-> o, observedAt |-> now]
  <2>1. r \in ReadOf
    BY <1>1 DEF ReadOf
  <2> HIDE DEF r
  <2>2. [at |-> "sealing", read |-> r] \in ObserverState
    BY <2>1 DEF ObserverState
  <2>3. observers' = [observers EXCEPT ![c] = [at |-> "sealing", read |-> r]]
    BY <1>4 DEF Observe, r
  <2>4. TypeOK'
    BY <1>1, <1>4, <2>2, <2>3 DEF TypeOK, Observe, durable, world
  <2>5. Readings'
    BY <1>1, <1>4, <2>1, <2>3 DEF Readings, Observe
  <2>6. QED
    BY <2>4, <2>5
<1>5. CASE Mirror(c)
  <2> DEFINE seal == Request(observers[c].read)
  <2>1. seal \in SealOf
    BY <1>1, <1>5 DEF Mirror, Readings, Request, ReadOf, SealOf
  <2> HIDE DEF seal
  <2>2. queue' \in SUBSET [caller: Caller \cup {None}, seal: SealOf \cup {None}]
    <3>1. [caller |-> c, seal |-> seal] \in [caller: Caller \cup {None}, seal: SealOf \cup {None}]
      BY <2>1
    <3>2. queue' = queue \/ queue' = queue \cup {[caller |-> c, seal |-> seal]}
      BY <1>5 DEF Mirror, seal
    <3>3. QED
      BY <3>1, <3>2 DEF TypeOK
  <2>3. PICK new \in ObserverState : observers' = [observers EXCEPT ![c] = new] /\ new.at # "sealing"
    <3>1. [at |-> "waiting", read |-> None] \in ObserverState
          /\ [at |-> "idle", read |-> None] \in ObserverState
      BY DEF ObserverState
    <3>2. QED
      BY <1>5, <3>1 DEF Mirror, Settled
  <2>4. TypeOK'
    BY <1>1, <1>5, <2>2, <2>3 DEF TypeOK, Mirror, durable, world
  <2>5. Readings'
    BY <1>1, <1>5, <2>3 DEF Readings, Mirror
  <2>6. QED
    BY <2>4, <2>5
<1>6. QED
  BY <1>2, <1>3, <1>4, <1>5 DEF ObserverStep

LEMMA OrphanedTyped ==
  ASSUME NEW r, NEW c,
         r = None \/ r \in [caller: Caller \cup {None}, seal: SealOf \cup {None}] \/ r \in CallState
  PROVE  /\ r \in [caller: Caller \cup {None}, seal: SealOf \cup {None}] =>
              Orphaned(r, c) \in [caller: Caller \cup {None}, seal: SealOf \cup {None}]
         /\ r \in CallState => /\ Orphaned(r, c) \in CallState
                               /\ Orphaned(r, c).at = r.at /\ Orphaned(r, c).seal = r.seal
                               /\ Orphaned(r, c).next = r.next
         /\ r = None => Orphaned(r, c) = None
<1>1. ASSUME r \in CallState
      PROVE  /\ Orphaned(r, c) \in CallState
             /\ Orphaned(r, c).at = r.at /\ Orphaned(r, c).seal = r.seal
             /\ Orphaned(r, c).next = r.next
  BY <1>1 DEF Orphaned, CallState
<1>2. QED
  BY <1>1 DEF Orphaned

LEMMA GiveUpTyped ==
  ASSUME TypeOK, Readings, NEW c \in Caller, GiveUp(c)
  PROVE  TypeOK' /\ Readings'
<1>1. faults' \in 0..MaxFaults
  BY FaultTyped DEF GiveUp
<1>2. observers' \in [Caller -> ObserverState]
      /\ \A d \in Caller : observers'[d].at = "sealing" => observers'[d] = observers[d]
  <2>1. [at |-> "idle", read |-> None] \in ObserverState
    BY DEF ObserverState
  <2>2. QED
    BY <2>1 DEF GiveUp, TypeOK, Settled
<1>3. queue' \in SUBSET [caller: Caller \cup {None}, seal: SealOf \cup {None}]
  BY OrphanedTyped DEF GiveUp, TypeOK
<1>4. call' \in CallState \cup {None}
      /\ (call' # None => call # None /\ call'.at = call.at /\ call'.seal = call.seal)
  BY OrphanedTyped DEF GiveUp, TypeOK
<1>5. TypeOK'
  BY <1>1, <1>2, <1>3, <1>4 DEF TypeOK, GiveUp, durable, world
<1>6. Readings'
  BY <1>2, <1>4 DEF Readings
<1>7. QED
  BY <1>5, <1>6

LEMMA TellTyped ==
  ASSUME TypeOK, Readings, NEW at \in {"idle", "missing"}, Tell(at)
  PROVE  /\ observers' \in [Caller -> ObserverState]
         /\ \A d \in Caller : observers'[d].at = "sealing" => observers'[d] = observers[d]
<1>1. [at |-> at, read |-> None] \in ObserverState /\ [at |-> at, read |-> None].at # "sealing"
  BY DEF ObserverState
<1>2. QED
  BY <1>1 DEF Tell, TypeOK

LEMMA EndCallTyped ==
  ASSUME EndCall
  PROVE  /\ call' = None
         /\ workers' \in [Worker -> WorkerState]
         /\ \A w \in Worker : workers'[w].at = "take"
BY BatchAssumption DEF EndCall, WorkerState

LEMMA RecordingTyped ==
  ASSUME TypeOK, NEW s \in Slot, NEW t \in SlotStatus
  PROVE  [slots EXCEPT ![s].status = t]
           \in [Slot -> [status: SlotStatus, writer: Version \cup {None}, worm: Version \cup {None}]]
<1>1. [slots[s] EXCEPT !.status = t]
        \in [status: SlotStatus, writer: Version \cup {None}, worm: Version \cup {None}]
  BY DEF TypeOK
<1>2. [slots EXCEPT ![s].status = t] = [slots EXCEPT ![s] = [slots[s] EXCEPT !.status = t]]
  BY DEF TypeOK
<1>3. QED
  BY <1>1, <1>2 DEF TypeOK

LEMMA HeldStatus ==
  /\ \A t \in SlotStatus : Held(t) \in SlotStatus
  /\ \A t \in BatchStatus : Held(t) \in BatchStatus
BY DEF Held, SlotStatus, BatchStatus

LEMMA PreparedTyped ==
  PreparedSlots \in [Slot -> [status: SlotStatus, writer: Version \cup {None},
                             worm: Version \cup {None}]]
BY DEF PreparedSlots, SlotStatus

LEMMA ServeTyped ==
  ASSUME TypeOK, Readings, NEW r \in queue, Serve(r)
  PROVE  TypeOK' /\ Readings'
<1>1. r \in [caller: Caller \cup {None}, seal: SealOf \cup {None}]
  BY DEF TypeOK
<1> DEFINE new == [caller |-> r.caller, seal |-> r.seal, at |-> "resume", next |-> 1, failed |-> FALSE]
<1>2. new \in CallState /\ new.at = "resume"
  BY <1>1 DEF CallState
<1>3. call' = new
  BY DEF Serve
<1> HIDE DEF new
<1>4. TypeOK'
  BY <1>2, <1>3 DEF TypeOK, Serve, durable, world
<1>5. Readings'
  BY <1>2, <1>3 DEF Readings, Serve
<1>6. QED
  BY <1>4, <1>5

\* A step that ends the call, or takes it further.
LEMMA CallAtTyped ==
  ASSUME TypeOK, call # None, NEW at \in {"resume", "seal", "run"}, call' = [call EXCEPT !.at = at]
  PROVE  /\ call' \in CallState /\ call' # None /\ call'.at = at
         /\ call'.seal = call.seal /\ call'.next = call.next
BY BatchParts, NoneAssumption DEF CallState

LEMMA ResumeBatchTyped ==
  ASSUME TypeOK, Readings, ResumeBatch \/ NoBatch
  PROVE  TypeOK' /\ Readings'
<1>1. observers' \in [Caller -> ObserverState]
      /\ \A d \in Caller : observers'[d].at = "sealing" => observers'[d] = observers[d]
  BY TellTyped DEF ResumeBatch, NoBatch, RunWorkers, TypeOK
<1>2. workers' \in [Worker -> WorkerState]
  BY EndCallTyped DEF ResumeBatch, NoBatch, RunWorkers, TypeOK
<1>3. call' \in CallState \cup {None}
      /\ (call' # None /\ call'.at = "seal" => call'.seal # None)
  BY CallAtTyped, EndCallTyped DEF ResumeBatch, NoBatch, RunWorkers
<1>4. TypeOK'
  BY <1>1, <1>2, <1>3 DEF TypeOK, ResumeBatch, NoBatch, durable, world
<1>5. Readings'
  BY <1>1, <1>3 DEF Readings
<1>6. QED
  BY <1>4, <1>5

LEMMA SealTyped ==
  ASSUME TypeOK, Readings, Seal
  PROVE  TypeOK' /\ Readings'
<1>1. call \in CallState /\ call.at = "seal" /\ call.seal \in SealOf
  BY BatchParts DEF Seal, Readings, CallState
<1>2. observers' \in [Caller -> ObserverState]
      /\ \A d \in Caller : observers'[d].at = "sealing" => observers'[d] = observers[d]
  BY TellTyped DEF Seal, TypeOK
<1>3. workers' \in [Worker -> WorkerState]
  BY EndCallTyped DEF Seal, RunWorkers, TypeOK
<1>4. call' \in CallState \cup {None} /\ (call' # None => call'.at = "run")
  BY <1>1, CallAtTyped, EndCallTyped DEF Seal, RunWorkers
<1>5. batch' \in BatchState \cup {None}
  BY <1>1 DEF Seal, SealedBatch, BatchState, BatchStatus, TypeOK, durable
<1>6. slots' \in [Slot -> [status: SlotStatus, writer: Version \cup {None},
                           worm: Version \cup {None}]]
  BY PreparedTyped DEF Seal, TypeOK, durable
<1>7. TypeOK'
  BY <1>2, <1>3, <1>4, <1>5, <1>6 DEF TypeOK, Seal, world
<1>8. Readings'
  BY <1>2, <1>4 DEF Readings
<1>9. QED
  BY <1>7, <1>8

LEMMA FinishTyped ==
  ASSUME TypeOK, Readings, Finish
  PROVE  TypeOK' /\ Readings'
<1>1. observers' \in [Caller -> ObserverState]
      /\ \A d \in Caller : observers'[d].at = "sealing" => observers'[d] = observers[d]
  BY TellTyped DEF Finish
<1>2. workers' \in [Worker -> WorkerState] /\ call' = None
  BY EndCallTyped DEF Finish
<1>3. TypeOK'
  BY <1>1, <1>2 DEF TypeOK, Finish, durable, world
<1>4. Readings'
  BY <1>1, <1>2 DEF Readings
<1>5. QED
  BY <1>3, <1>4

LEMMA EvictedTyped ==
  ASSUME TypeOK, Readings, Evict \/ Redeploy
  PROVE  TypeOK' /\ Readings'
<1>1. observers' \in [Caller -> ObserverState]
      /\ \A d \in Caller : observers'[d].at = "sealing" => observers'[d] = observers[d]
  <2>1. [at |-> "idle", read |-> None] \in ObserverState
    BY DEF ObserverState
  <2>2. QED
    BY <2>1 DEF Evict, Redeploy, Evicted, TypeOK
<1>2. workers' \in [Worker -> WorkerState] /\ call' = None /\ queue' = {}
  BY EndCallTyped DEF Evict, Redeploy, Evicted
<1>3. faults' \in 0..MaxFaults /\ deployed' \in {1, 2}
  BY FaultTyped DEF Evict, Redeploy, Delegation, TypeOK
<1>4. TypeOK'
  BY <1>1, <1>2, <1>3 DEF TypeOK, Evict, Redeploy, durable, world
<1>5. Readings'
  BY <1>1, <1>2 DEF Readings
<1>6. QED
  BY <1>4, <1>5

\* The bucket's steps, and time.
LEMMA WorldTyped ==
  ASSUME TypeOK, Readings,
         \/ \E v \in transit : Land(v) \/ Lose(v)
         \/ (\E s \in Slot : StrangerWrites(s)) \/ Tick
  PROVE  TypeOK' /\ Readings'
<1>1. ASSUME NEW v \in transit, Land(v)
      PROVE  TypeOK' /\ Readings'
  <2>1. v \in Version /\ v[1] \in Slot
    BY DEF TypeOK, Version
  <2>2. bucket' \in [Slot -> SUBSET Version] /\ transit' \in SUBSET Version
    BY <1>1, <2>1 DEF TypeOK, Land
  <2>3. QED
    BY <1>1, <2>2 DEF TypeOK, Readings, Land, caller, durable
<1>2. ASSUME NEW v \in transit, Lose(v)
      PROVE  TypeOK' /\ Readings'
  BY <1>2, FaultTyped DEF TypeOK, Readings, Lose, caller, durable
<1>3. ASSUME NEW s \in Slot, StrangerWrites(s)
      PROVE  TypeOK' /\ Readings'
  <2>1. Stranger(s) \in Version
    BY DEF Stranger, Version
  <2>2. bucket' \in [Slot -> SUBSET Version]
    BY <1>3, <2>1 DEF TypeOK, StrangerWrites
  <2>3. QED
    BY <1>3, <2>2 DEF TypeOK, Readings, StrangerWrites, caller, durable
<1>4. CASE Tick
  <2>1. now' \in Instant
    BY <1>4, BatchAssumption DEF TypeOK, Tick, Instant
  <2>2. QED
    BY <1>4, <2>1 DEF TypeOK, Readings, Tick, caller, durable, world
<1>5. QED
  BY <1>1, <1>2, <1>3, <1>4

-----------------------------------------------------------------------------
(* The workers of a call. *)

At == {"take", "next", "absence", "upload", "answer", "reconcile"}

LEMMA WentOn ==
  ASSUME TypeOK, NEW w \in Worker, NEW at \in At, Go(w, at)
  PROVE  /\ workers' \in [Worker -> WorkerState]
         /\ workers'[w].at = at /\ (at # "take" => workers'[w].slot = workers[w].slot)
         /\ \A u \in Worker \ {w} : workers'[u] = workers[u]
<1> DEFINE new == [at |-> at, slot |-> IF at = "take" THEN 0 ELSE workers[w].slot, read |-> None]
<1>1. workers \in [Worker -> WorkerState] /\ workers[w] \in WorkerState
  BY DEF TypeOK
<1>2. new \in WorkerState
  BY <1>1, BatchAssumption DEF WorkerState, At
<1>3. workers' = [workers EXCEPT ![w] = new]
  BY DEF Go
<1>4. new.at = at /\ (at # "take" => new.slot = workers[w].slot)
  OBVIOUS
<1> HIDE DEF new
<1>5. QED
  BY <1>1, <1>2, <1>3, <1>4

LEMMA Failed ==
  ASSUME TypeOK, call # None, NEW w \in Worker, Fail(w)
  PROVE  /\ call' \in CallState /\ call' # None /\ call'.at = call.at
         /\ call'.seal = call.seal /\ call'.next = call.next
         /\ Go(w, "take")
BY BatchParts, NoneAssumption DEF Fail, CallState

LEMMA HoldsSlot ==
  ASSUME TypeOK, OneWorkerPerSlot, NEW w \in Worker, Busy(w), HoldSlot(w)
  PROVE  /\ slots' = [slots EXCEPT ![workers[w].slot].status = Held(slots[workers[w].slot].status)]
         /\ slots' \in [Slot -> [status: SlotStatus, writer: Version \cup {None},
                                worm: Version \cup {None}]]
         /\ batch \in BatchState /\ batch' \in BatchState /\ batch' # None
         /\ batch' = [batch EXCEPT !.status = Held(batch.status)]
         /\ Fail(w)
<1> DEFINE s == workers[w].slot
<1>1. s \in Slot /\ batch # None
  BY DEF OneWorkerPerSlot
<1>2. slots[s].status \in SlotStatus
  BY <1>1 DEF TypeOK
<1>3. slots' = [slots EXCEPT ![s].status = Held(slots[s].status)]
  BY <1>1 DEF HoldSlot, TypeOK
<1>4. slots' \in [Slot -> [status: SlotStatus, writer: Version \cup {None},
                          worm: Version \cup {None}]]
  BY <1>1, <1>2, <1>3, HeldStatus, RecordingTyped
<1>5. batch \in BatchState /\ batch' = [batch EXCEPT !.status = Held(batch.status)]
  BY <1>1, BatchParts DEF HoldSlot
<1>6. batch' \in BatchState /\ batch' # None
  BY <1>5, HeldStatus, NoneAssumption DEF BatchState
<1>7. QED
  BY <1>3, <1>4, <1>5, <1>6 DEF HoldSlot

\* What a step of a worker may change, and how.
WorkerMoves(w) ==
  /\ workers' \in [Worker -> WorkerState]
  /\ \A u \in Worker \ {w} : workers'[u] = workers[u]
  /\ call' \in CallState /\ call' # None /\ call'.at = call.at /\ call'.seal = call.seal
  /\ UNCHANGED <<now, deployed, caller>>

LEMMA WorkerMovesTyped ==
  ASSUME TypeOK, Readings, call # None, NEW w \in Worker, WorkerMoves(w),
         faults' \in 0..MaxFaults, batch' \in BatchState \cup {None},
         slots' \in [Slot -> [status: SlotStatus, writer: Version \cup {None},
                            worm: Version \cup {None}]],
         bucket' = bucket, transit' \in SUBSET Version, sent' \in [Slot -> 0..2]
  PROVE  TypeOK' /\ Readings'
<1>1. TypeOK'
  BY DEF TypeOK, WorkerMoves, caller
<1>2. Readings'
  BY DEF Readings, WorkerMoves, caller
<1>3. QED
  BY <1>1, <1>2

LEMMA BusyOn ==
  ASSUME TypeOK, OneWorkerPerSlot, NEW w \in Worker, Busy(w)
  PROVE  /\ call # None /\ call \in CallState /\ call.at = "run"
         /\ workers[w].slot \in Slot /\ workers[w] \in WorkerState
         /\ batch # None /\ batch \in BatchState
BY BatchParts DEF OneWorkerPerSlot, TypeOK

\* A worker that went on, within a call that did not.
LEMMA GoMoves ==
  ASSUME TypeOK, OneWorkerPerSlot, NEW w \in Worker, NEW at \in At, Go(w, at), Busy(w),
         UNCHANGED <<now, deployed, caller, call>>
  PROVE  WorkerMoves(w)
BY WentOn, BusyOn DEF WorkerMoves

LEMMA FailMoves ==
  ASSUME TypeOK, OneWorkerPerSlot, NEW w \in Worker, Fail(w), Busy(w),
         UNCHANGED <<now, deployed, caller>>
  PROVE  WorkerMoves(w)
BY WentOn, BusyOn, Failed DEF WorkerMoves, At

LEMMA TakeTyped ==
  ASSUME TypeOK, Readings, OneWorkerPerSlot, NEW w \in Worker, Take(w)
  PROVE  /\ TypeOK' /\ Readings' /\ WorkerMoves(w)
         /\ call'.next = call.next + 1
         /\ call.next \in Slot
         /\ workers'[w].at = "next" /\ workers'[w].slot = call.next
<1>1. call \in CallState /\ call # None /\ call.next \in Nat \ {0} /\ call.next <= Slots
  BY BatchParts DEF Take, OneWorkerPerSlot
<1>2. call.next \in Slot /\ call.next \in 0..Slots
  BY <1>1, BatchAssumption DEF Slot
<1>3. workers \in [Worker -> WorkerState] /\ workers[w] \in WorkerState
  BY DEF TypeOK
<1> DEFINE new == [workers[w] EXCEPT !.at = "next", !.slot = call.next]
<1>4. new \in WorkerState /\ new.at = "next" /\ new.slot = call.next
  BY <1>2, <1>3 DEF WorkerState
<1>5. workers' = [workers EXCEPT ![w] = new]
  BY DEF Take
<1> HIDE DEF new
<1>6. call' = [call EXCEPT !.next = call.next + 1]
  BY <1>1 DEF Take
<1>7. /\ call' \in CallState /\ call' # None /\ call'.at = call.at /\ call'.seal = call.seal
      /\ call'.next = call.next + 1
  BY <1>1, <1>6, NoneAssumption DEF CallState
<1>8. WorkerMoves(w)
  BY <1>3, <1>4, <1>5, <1>7 DEF WorkerMoves, Take
<1>9. TypeOK' /\ Readings'
  BY <1>1, <1>8, WorkerMovesTyped DEF Take, TypeOK, durable, world
<1>10. QED
  BY <1>2, <1>3, <1>4, <1>5, <1>7, <1>8, <1>9

\* The worker keeps its slot, or has done with it; no slot is handed out.
Keeps(w) ==
  /\ TypeOK' /\ Readings' /\ WorkerMoves(w) /\ call'.next = call.next
  /\ workers'[w].at = "take" \/ workers'[w].slot = workers[w].slot

LEMMA GoKeeps ==
  ASSUME TypeOK, Readings, OneWorkerPerSlot, NEW w \in Worker, Busy(w), NEW at \in At,
         (Go(w, at) /\ call' = call) \/ (at = "take" /\ Fail(w)),
         UNCHANGED <<now, deployed, caller>>,
         faults' \in 0..MaxFaults, batch' \in BatchState \cup {None},
         slots' \in [Slot -> [status: SlotStatus, writer: Version \cup {None},
                            worm: Version \cup {None}]],
         bucket' = bucket, transit' \in SUBSET Version, sent' \in [Slot -> 0..2]
  PROVE  Keeps(w)
<1>1. WorkerMoves(w)
  BY GoMoves, FailMoves
<1>2. Go(w, at) /\ call'.next = call.next
  BY BusyOn, Failed
<1>3. workers'[w].at = "take" \/ workers'[w].slot = workers[w].slot
  BY <1>2, WentOn
<1>4. TypeOK' /\ Readings'
  BY <1>1, WorkerMovesTyped, BusyOn
<1>5. QED
  BY <1>1, <1>2, <1>3, <1>4 DEF Keeps

LEMMA NextActionKeeps ==
  ASSUME TypeOK, Readings, OneWorkerPerSlot, NEW w \in Worker, NextAction(w)
  PROVE  Keeps(w)
<1> DEFINE s == workers[w].slot
<1>1. Busy(w) /\ s \in Slot
  BY DEF NextAction, Active, Busy, OneWorkerPerSlot
<1>2. slots' \in [Slot -> [status: SlotStatus, writer: Version \cup {None},
                          worm: Version \cup {None}]]
  <2>1. Dispatching(s) \in [Slot -> [status: SlotStatus, writer: Version \cup {None},
                                   worm: Version \cup {None}]]
    BY <1>1, RecordingTyped DEF Dispatching, SlotStatus
  <2>2. slots' = slots \/ slots' = Dispatching(s)
    BY DEF NextAction
  <2>3. QED
    BY <2>1, <2>2 DEF TypeOK
<1>3. \E at \in At : (Go(w, at) /\ call' = call) \/ (at = "take" /\ Fail(w))
  BY DEF NextAction, At
<1>4. QED
  BY <1>1, <1>2, <1>3, GoKeeps DEF NextAction, world, TypeOK

LEMMA InspectKeeps ==
  ASSUME TypeOK, Readings, OneWorkerPerSlot, NEW w \in Worker, Inspect(w)
  PROVE  Keeps(w) /\ workers'[w].at = workers[w].at
<1> DEFINE s == workers[w].slot
           new == [workers[w] EXCEPT !.read = [found |-> bucket[s]]]
<1>1. Busy(w) /\ s \in Slot /\ workers[w] \in WorkerState /\ call \in CallState /\ call # None
  BY BusyOn DEF Inspect, Busy
<1>2. new \in WorkerState /\ new.at = workers[w].at /\ new.slot = s
  BY <1>1 DEF WorkerState, TypeOK
<1>3. workers' = [workers EXCEPT ![w] = new]
  BY DEF Inspect, TypeOK
<1> HIDE DEF new
<1>4. /\ workers' \in [Worker -> WorkerState] /\ workers'[w] = new
      /\ \A u \in Worker \ {w} : workers'[u] = workers[u]
  BY <1>2, <1>3 DEF TypeOK
<1>5. WorkerMoves(w)
  BY <1>1, <1>4 DEF WorkerMoves, Inspect
<1>6. TypeOK' /\ Readings'
  BY <1>1, <1>5, WorkerMovesTyped DEF Inspect, TypeOK, durable, world
<1>7. QED
  BY <1>2, <1>4, <1>5, <1>6 DEF Keeps, Inspect

\* A slot that is put on hold, with its batch.
LEMMA HoldSlotKeeps ==
  ASSUME TypeOK, Readings, OneWorkerPerSlot, NEW w \in Worker, Busy(w), HoldSlot(w),
         UNCHANGED <<now, deployed, caller, world>>, faults' \in 0..MaxFaults
  PROVE  Keeps(w)
<1>1. "take" \in At
  BY DEF At
<1>2. QED
  BY <1>1, HoldsSlot, GoKeeps DEF world, TypeOK

LEMMA MarkAbsentKeeps ==
  ASSUME TypeOK, Readings, OneWorkerPerSlot, NEW w \in Worker, MarkAbsent(w)
  PROVE  Keeps(w)
<1> DEFINE s == workers[w].slot
<1>1. Busy(w) /\ s \in Slot
  BY DEF MarkAbsent, Active, Busy, OneWorkerPerSlot
<1>2. CASE HoldSlot(w)
  BY <1>1, <1>2, HoldSlotKeeps DEF MarkAbsent, TypeOK
<1>3. CASE slots' = [slots EXCEPT ![s].status = "ABSENT"] /\ Go(w, "next")
           /\ UNCHANGED <<call, batch>>
  <2>1. slots' \in [Slot -> [status: SlotStatus, writer: Version \cup {None},
                            worm: Version \cup {None}]]
    BY <1>1, <1>3, RecordingTyped DEF SlotStatus
  <2>2. QED
    BY <1>1, <1>3, <2>1, GoKeeps DEF MarkAbsent, At, world, TypeOK
<1>4. QED
  BY <1>2, <1>3 DEF MarkAbsent

LEMMA UploadKeeps ==
  ASSUME TypeOK, Readings, OneWorkerPerSlot, NEW w \in Worker, Upload(w)
  PROVE  Keeps(w)
<1> DEFINE s == workers[w].slot
<1>1. Busy(w) /\ s \in Slot
  BY DEF Upload, Active, Busy, OneWorkerPerSlot
<1>2. sent[s] \in 0..2 /\ sent[s] < 2
  BY <1>1 DEF TypeOK, Upload
<1>3. sent' \in [Slot -> 0..2] /\ sent'[s] = sent[s] + 1
  BY <1>1, <1>2 DEF TypeOK, Upload
<1>4. <<s, sent'[s]>> \in Version
  BY <1>1, <1>3 DEF Version
<1>5. transit' \in SUBSET Version
  BY <1>4 DEF Upload, TypeOK
<1>6. QED
  BY <1>1, <1>3, <1>5, GoKeeps DEF Upload, At, durable, TypeOK

LEMMA AcceptKeeps ==
  ASSUME TypeOK, Readings, OneWorkerPerSlot, NEW w \in Worker, Accept(w)
  PROVE  Keeps(w)
<1> DEFINE s == workers[w].slot
           v == <<s, sent[s]>>
           new == [slots[s] EXCEPT !.status = "ACCEPTED", !.writer = v]
<1>1. Busy(w) /\ s \in Slot
  BY DEF Accept, Active, Busy, OneWorkerPerSlot
<1>2. v \in Version
  BY <1>1 DEF Version, TypeOK
<1> HIDE DEF v
<1>3. new \in [status: SlotStatus, writer: Version \cup {None}, worm: Version \cup {None}]
  <2>1. slots[s] \in [status: SlotStatus, writer: Version \cup {None}, worm: Version \cup {None}]
    BY <1>1 DEF TypeOK
  <2>2. "ACCEPTED" \in SlotStatus
    BY DEF SlotStatus
  <2>3. QED
    BY <1>2, <2>1, <2>2
<1>4. slots' = slots \/ slots' = [slots EXCEPT ![s] = new]
  BY <1>1 DEF Accept, TypeOK, v
<1> HIDE DEF new
<1>5. slots' \in [Slot -> [status: SlotStatus, writer: Version \cup {None},
                          worm: Version \cup {None}]]
  BY <1>3, <1>4 DEF TypeOK
<1>6. QED
  BY <1>1, <1>5, GoKeeps DEF Accept, At, world, TypeOK

LEMMA ConfirmingTyped ==
  ASSUME TypeOK, NEW s \in Slot, NEW v \in Version
  PROVE  /\ Confirming(s, v) \in [Slot -> [status: SlotStatus, writer: Version \cup {None},
                                          worm: Version \cup {None}]]
         /\ Confirming(s, v)[s].status = "CONFIRMED" /\ Confirming(s, v)[s].worm = v
         /\ \A o \in Slot \ {s} : Confirming(s, v)[o] = slots[o]
<1> DEFINE new == [slots[s] EXCEPT !.status = "CONFIRMED", !.worm = v]
<1>1. new \in [status: SlotStatus, writer: Version \cup {None}, worm: Version \cup {None}]
      /\ new.status = "CONFIRMED" /\ new.worm = v
  BY DEF TypeOK, SlotStatus
<1>2. Confirming(s, v) = [slots EXCEPT ![s] = new]
  BY DEF Confirming, TypeOK
<1> HIDE DEF new
<1>3. QED
  BY <1>1, <1>2 DEF TypeOK

\* What a reconciliation confirms is a version.
LEMMA ReconciledTyped ==
  ASSUME TypeOK, NEW w \in Worker, workers[w].read # None, NEW v \in Reconciled(workers[w].read)
  PROVE  v \in Version
BY DEF TypeOK, WorkerState, Reconciled

LEMMA ConfirmKeeps ==
  ASSUME TypeOK, Readings, OneWorkerPerSlot, NEW w \in Worker, Confirm(w)
  PROVE  Keeps(w)
<1> DEFINE s == workers[w].slot
<1>1. Busy(w) /\ s \in Slot /\ batch \in BatchState /\ faults' = faults
  BY BusyOn DEF Confirm, Active, Busy
<1>2. CASE Fail(w) /\ UNCHANGED durable
  BY <1>1, <1>2, GoKeeps DEF Confirm, At, durable, world, TypeOK
<1>3. CASE HoldSlot(w)
  BY <1>1, <1>3, HoldSlotKeeps DEF Confirm, TypeOK
<1>4. ASSUME NEW v \in Reconciled(workers[w].read), slots' = Confirming(s, v),
             batch' = IF Remaining(slots') = {} /\ batch.status = "SEALED"
                      THEN [batch EXCEPT !.status = "CONFIRMED"] ELSE batch,
             Go(w, "next"), UNCHANGED call
      PROVE  Keeps(w)
  <2>1. v \in Version
    BY ReconciledTyped DEF Confirm
  <2>2. slots' \in [Slot -> [status: SlotStatus, writer: Version \cup {None},
                            worm: Version \cup {None}]]
    BY <1>1, <1>4, <2>1, ConfirmingTyped
  <2>3. batch' \in BatchState
    BY <1>1, <1>4 DEF BatchState, BatchStatus
  <2>4. QED
    BY <1>1, <1>4, <2>2, <2>3, GoKeeps DEF Confirm, At, world, TypeOK
<1>5. QED
  BY <1>2, <1>3, <1>4 DEF Confirm

LEMMA FaultsKeep ==
  ASSUME TypeOK, Readings, OneWorkerPerSlot, NEW w \in Worker,
         Deadline(w) \/ InspectFails(w) \/ UploadRefused(w) \/ Unanswered(w) \/ UploadVanished(w)
  PROVE  Keeps(w)
<1>1. Busy(w) /\ faults' \in 0..MaxFaults
  BY FaultTyped DEF Deadline, InspectFails, UploadRefused, Unanswered, UploadVanished,
                    Active, Busy, TypeOK
<1>2. CASE HoldSlot(w) /\ InspectFails(w)
  BY <1>1, <1>2, HoldSlotKeeps DEF InspectFails
<1>3. CASE UNCHANGED durable
  <2>1. \E at \in At : (Go(w, at) /\ call' = call) \/ (at = "take" /\ Fail(w))
    BY <1>3, HoldsSlot, <1>1 DEF Deadline, InspectFails, UploadRefused, Unanswered,
                                UploadVanished, At, HoldSlot
  <2>2. QED
    BY <1>1, <1>3, <2>1, GoKeeps DEF Deadline, InspectFails, UploadRefused, Unanswered,
                                    UploadVanished, durable, world, TypeOK
<1>4. QED
  BY <1>2, <1>3 DEF Deadline, InspectFails, UploadRefused, Unanswered, UploadVanished

-----------------------------------------------------------------------------
(* The invariant: steps outside the workers. *)

\* Steps that leave the object alone, its call's caller excepted.
LEMMA ObjectAlone ==
  ASSUME BatchInv, TypeOK', Readings',
         call' = None <=> call = None,
         call # None => call'.at = call.at /\ call'.next = call.next,
         UNCHANGED <<workers, durable, sent, answers>>
  PROVE  BatchInv'
<1>1. OneWorkerPerSlot'
  BY DEF BatchInv, OneWorkerPerSlot, Busy, durable
<1>2. SlotStates'
  BY DEF BatchInv, SlotStates, UploadedOnce, durable
<1>3. VersionsFinal'
  BY DEF BatchInv, VersionsFinal, Confirmed, Records, durable
<1>4. QED
  BY <1>1, <1>2, <1>3 DEF BatchInv

LEMMA AloneInv ==
  ASSUME BatchInv,
         \/ \E c \in Caller : ObserverStep(c) \/ GiveUp(c)
         \/ \E v \in transit : Land(v) \/ Lose(v)
         \/ (\E s \in Slot : StrangerWrites(s)) \/ Tick
  PROVE  BatchInv'
<1>1. ASSUME NEW c \in Caller, ObserverStep(c)
      PROVE  BatchInv'
  BY <1>1, ObserverTyped, ObjectAlone
  DEF BatchInv, ObserverStep, Resume, Admit, Observe, Mirror, world
<1>2. ASSUME NEW c \in Caller, GiveUp(c)
      PROVE  BatchInv'
  <2>1. /\ call' = None <=> call = None
        /\ call # None => call'.at = call.at /\ call'.next = call.next
    BY <1>2, BatchParts, OrphanedTyped, NoneAssumption DEF BatchInv, GiveUp
  <2>2. QED
    BY <1>2, <2>1, GiveUpTyped, ObjectAlone DEF BatchInv, GiveUp, world
<1>3. CASE \/ \E v \in transit : Land(v) \/ Lose(v)
           \/ (\E s \in Slot : StrangerWrites(s)) \/ Tick
  BY <1>3, WorldTyped, ObjectAlone
  DEF BatchInv, Land, Lose, StrangerWrites, Tick, caller, world
<1>4. QED
  BY <1>1, <1>2, <1>3

\* With no worker at a slot, and nothing of the batch changed.
LEMMA NoneBusy ==
  ASSUME BatchInv, TypeOK', Readings', UNCHANGED <<durable, sent, answers>>,
         \A w \in Worker : workers'[w].at = "take",
         call' # None => call'.next \in Nat \ {0},
         call' # None /\ call'.at = "run" => batch # None
  PROVE  BatchInv'
<1>1. OneWorkerPerSlot'
  BY DEF OneWorkerPerSlot, Busy, durable
<1>2. SlotStates'
  BY DEF BatchInv, SlotStates, UploadedOnce, durable
<1>3. VersionsFinal'
  BY DEF BatchInv, VersionsFinal, Confirmed, Records, durable
<1>4. QED
  BY <1>1, <1>2, <1>3 DEF BatchInv

\* Before a call runs, and when it has run, no worker is at a slot.
LEMMA IdleWorkers ==
  ASSUME BatchInv, call = None \/ call.at # "run"
  PROVE  \A w \in Worker : workers[w].at = "take"
BY DEF BatchInv, OneWorkerPerSlot, Busy

LEMMA ServeInv ==
  ASSUME BatchInv, NEW r \in queue, Serve(r)
  PROVE  BatchInv'
<1>1. \A w \in Worker : workers'[w].at = "take"
  BY IdleWorkers DEF Serve
<1>2. call'.next = 1 /\ call'.at = "resume"
  BY DEF Serve
<1>3. QED
  BY <1>1, <1>2, ServeTyped, NoneBusy DEF BatchInv, Serve, world

LEMMA EvictedInv ==
  ASSUME BatchInv, Evict \/ Redeploy
  PROVE  BatchInv'
BY EvictedTyped, EndCallTyped, NoneBusy DEF BatchInv, Evict, Redeploy, Evicted, world

LEMMA ResumeBatchInv ==
  ASSUME BatchInv, ResumeBatch \/ NoBatch
  PROVE  BatchInv'
<1>1. call # None /\ call.at = "resume" /\ \A w \in Worker : workers[w].at = "take"
  BY IdleWorkers DEF ResumeBatch, NoBatch
<1>2. \A w \in Worker : workers'[w].at = "take"
  BY <1>1, EndCallTyped DEF ResumeBatch, NoBatch, RunWorkers
<1>3. /\ call' # None => call'.next = call.next /\ call'.at \in {"run", "seal"}
      /\ call' # None /\ call'.at = "run" => batch # None
  BY <1>1, CallAtTyped, EndCallTyped DEF BatchInv, ResumeBatch, NoBatch, RunWorkers
<1>4. QED
  BY <1>1, <1>2, <1>3, ResumeBatchTyped, NoneBusy
  DEF BatchInv, OneWorkerPerSlot, ResumeBatch, NoBatch, world

LEMMA SealInv ==
  ASSUME BatchInv, Seal
  PROVE  BatchInv'
<1>1. call # None /\ call.at = "seal" /\ \A w \in Worker : workers[w].at = "take"
  BY IdleWorkers DEF Seal
<1>2. \A w \in Worker : workers'[w].at = "take"
  BY <1>1, EndCallTyped DEF Seal, RunWorkers
<1>3. call' # None => call'.next = call.next
  BY <1>1, CallAtTyped, EndCallTyped DEF BatchInv, Seal, RunWorkers
<1>4. CASE UNCHANGED durable
  <2>1. call' # None => batch # None
    <3>1. CASE batch = None /\ batch' = SealedBatch(call.seal)
      <4>1. call.seal \in SealOf
        BY <1>1, BatchParts DEF BatchInv, Readings, CallState
      <4>2. SealedBatch(call.seal) \in BatchState
        BY <4>1 DEF SealedBatch, BatchState, BatchStatus, BatchInv, TypeOK
      <4>3. QED
        BY <1>4, <3>1, <4>2, NoneAssumption DEF durable
    <3>2. CASE ~(batch = None /\ batch' = SealedBatch(call.seal))
      BY <3>2, EndCallTyped DEF Seal
    <3>3. QED
      BY <3>1, <3>2
  <2>2. QED
    BY <1>1, <1>2, <1>3, <1>4, <2>1, SealTyped, NoneBusy DEF BatchInv, OneWorkerPerSlot, Seal, world
<1>5. CASE ~UNCHANGED durable
  <2>1. /\ batch = None /\ batch' = SealedBatch(call.seal) /\ slots' = PreparedSlots
        /\ RequestValid(call.seal) /\ UNCHANGED <<answers, sent>>
    BY <1>5 DEF Seal, world
  <2>2. call.seal \in SealOf
    BY <1>1, BatchParts DEF BatchInv, Readings, CallState
  <2>3. batch' \in BatchState /\ batch' # None
    BY <2>1, <2>2, NoneAssumption DEF SealedBatch, BatchState, BatchStatus, BatchInv, TypeOK
  <2>4. slots = PreparedSlots /\ slots' = slots
    BY <2>1 DEF BatchInv, SlotStates
  <2>5. OneWorkerPerSlot'
    BY <1>1, <1>2, <1>3, <2>3 DEF BatchInv, OneWorkerPerSlot, Busy
  <2>6. SlotStates'
    BY <1>2, <2>1, <2>3, <2>4 DEF BatchInv, SlotStates, UploadedOnce
  <2>7. answers = {}
    BY <2>1 DEF BatchInv, VersionsFinal
  <2>8. VersionsFinal'
    <3>1. batch'.status = "SEALED" /\ batch'.seal = call.seal
      BY <2>1 DEF SealedBatch
    <3>2. call.seal.observedAt <= call.seal.sealedAt
      BY <2>1 DEF RequestValid
    <3>3. QED
      BY <2>1, <2>4, <2>7, <3>1, <3>2 DEF BatchInv, VersionsFinal
  <2>9. QED
    BY <2>5, <2>6, <2>8, SealTyped DEF BatchInv
<1>6. QED
  BY <1>4, <1>5

\* The answer of a call is of the batch that was confirmed.
LEMMA FinishInv ==
  ASSUME BatchInv, Finish
  PROVE  BatchInv'
<1>1. call' = None /\ \A w \in Worker : workers'[w].at = "take"
  BY EndCallTyped DEF Finish
<1>2. TypeOK' /\ Readings' /\ UNCHANGED <<durable, sent>>
  BY FinishTyped DEF BatchInv, Finish, world
<1>3. OneWorkerPerSlot'
  BY <1>1 DEF OneWorkerPerSlot, Busy
<1>4. SlotStates'
  BY <1>1, <1>2 DEF BatchInv, SlotStates, UploadedOnce, durable
<1>5. VersionsFinal'
  <2>1. batch # None
    BY DEF BatchInv, OneWorkerPerSlot, Finish
  <2>2. ASSUME NEW r \in answers'
        PROVE  batch.status = "CONFIRMED" /\ r.seal = batch.seal /\ r.versions = Records
    <3>1. CASE r \in answers
      BY <3>1 DEF BatchInv, VersionsFinal
    <3>2. CASE r \notin answers
      BY <2>2, <3>2 DEF Finish, Result, Context
    <3>3. QED
      BY <3>1, <3>2
  <2>3. QED
    BY <1>2, <2>1, <2>2 DEF BatchInv, VersionsFinal, Confirmed, Records, durable
<1>6. QED
  BY <1>2, <1>3, <1>4, <1>5 DEF BatchInv

-----------------------------------------------------------------------------
(* The invariant: steps of the workers. *)

LEMMA HandedOut ==
  ASSUME BatchInv, NEW w \in Worker, Busy(w), Keeps(w), batch' # None
  PROVE  OneWorkerPerSlot'
<1>1. \A u \in Worker : Busy(u)' => Busy(u) /\ workers'[u].slot = workers[u].slot
  BY DEF Keeps, WorkerMoves, Busy
<1>2. call' # None /\ call'.at = call.at /\ call'.next = call.next
  BY DEF Keeps, WorkerMoves
<1>3. QED
  BY <1>1, <1>2 DEF BatchInv, OneWorkerPerSlot, Busy

\* A worker's step changes only the slot it is at: what must hold of that slot.
LEMMA OwnSlot ==
  ASSUME BatchInv, NEW w \in Worker, Busy(w), Keeps(w), batch' # None,
         NEW mine, mine = workers[w].slot,
         \A o \in Slot \ {mine} : slots'[o] = slots[o] /\ sent'[o] = sent[o],
         sent'[mine] <= 1,
         slots'[mine].status \in {"PREPARED", "ABSENT"} => sent'[mine] = 0,
         workers'[w].at = "upload" => slots'[mine].status = "IN_FLIGHT" /\ sent'[mine] = 0,
         workers'[w].at = "reconcile" => slots'[mine].status \in {"IN_FLIGHT", "ACCEPTED"}
  PROVE  SlotStates'
<1>1. \A o \in Slot : /\ slots'[o].status \in {"PREPARED", "ABSENT"} => sent'[o] = 0
                      /\ sent'[o] <= 1
  BY DEF BatchInv, SlotStates, UploadedOnce
<1>2. ASSUME NEW u \in Worker, workers'[u].at = "upload" \/ workers'[u].at = "reconcile"
      PROVE  /\ workers'[u].at = "upload" =>
                  slots'[workers'[u].slot].status = "IN_FLIGHT" /\ sent'[workers'[u].slot] = 0
             /\ workers'[u].at = "reconcile" =>
                  slots'[workers'[u].slot].status \in {"IN_FLIGHT", "ACCEPTED"}
  <2>1. CASE u = w
    BY <1>2, <2>1 DEF Keeps
  <2>2. CASE u # w
    <3>1. workers'[u] = workers[u] /\ Busy(u)
      BY <1>2, <2>2 DEF Keeps, WorkerMoves, Busy
    <3>2. workers[u].slot \in Slot \ {mine}
      BY <2>2, <3>1 DEF BatchInv, OneWorkerPerSlot
    <3>3. QED
      BY <3>1, <3>2 DEF BatchInv, SlotStates
  <2>3. QED
    BY <2>1, <2>2
<1>3. (batch = None => slots = PreparedSlots)'
  OBVIOUS
<1>4. \A u \in Worker :
        /\ workers'[u].at = "upload" =>
             slots'[workers'[u].slot].status = "IN_FLIGHT" /\ sent'[workers'[u].slot] = 0
        /\ workers'[u].at = "reconcile" =>
             slots'[workers'[u].slot].status \in {"IN_FLIGHT", "ACCEPTED"}
  BY <1>2
<1>5. UploadedOnce'
  BY <1>1 DEF UploadedOnce
<1>6. (\A o \in Slot : slots[o].status \in {"PREPARED", "ABSENT"} => sent[o] = 0)'
  BY <1>1
<1>7. QED
  BY <1>3, <1>4, <1>5, <1>6 DEF SlotStates

\* Nothing confirmed, and nothing taken back.
LEMMA NoneConfirmed ==
  ASSUME BatchInv, batch # None, batch' # None, batch'.seal = batch.seal,
         batch'.status = "CONFIRMED" <=> batch.status = "CONFIRMED", answers' = answers,
         \A s \in Slot : /\ slots'[s].worm = slots[s].worm
                         /\ slots'[s].status = "CONFIRMED" <=> slots[s].status = "CONFIRMED"
  PROVE  VersionsFinal'
<1>1. Records' = Records
  BY DEF Records
<1>2. QED
  BY <1>1 DEF BatchInv, VersionsFinal, Confirmed

LEMMA TakeInv ==
  ASSUME BatchInv, NEW w \in Worker, Take(w)
  PROVE  BatchInv'
<1>1. /\ TypeOK' /\ Readings' /\ WorkerMoves(w)
      /\ call'.next = call.next + 1 /\ call.next \in Slot
      /\ workers'[w].at = "next" /\ workers'[w].slot = call.next
  BY TakeTyped DEF BatchInv
<1>2. \A u \in Worker \ {w} : workers'[u] = workers[u]
  BY <1>1 DEF WorkerMoves
<1>3. call # None /\ call.at = "run" /\ call' # None /\ call'.at = "run" /\ batch' = batch
      /\ UNCHANGED <<slots, sent, answers>>
  BY <1>1 DEF Take, WorkerMoves, durable, world, caller
<1>4. OneWorkerPerSlot'
  <2>1. call.next \in Nat \ {0} /\ call'.next \in Nat \ {0} /\ call.next < call'.next
    BY <1>1, <1>3 DEF BatchInv, OneWorkerPerSlot
  <2>2. ASSUME NEW u \in Worker, Busy(u)'
        PROVE  workers'[u].slot \in Slot /\ workers'[u].slot < call'.next
               /\ (u # w => workers'[u].slot < call.next)
    <3>1. CASE u = w
      BY <1>1, <2>1, <3>1
    <3>2. CASE u # w
      <4>1. Busy(u) /\ workers'[u] = workers[u]
        BY <1>2, <2>2, <3>2 DEF Busy
      <4>2. workers[u].slot \in Slot /\ workers[u].slot < call.next
        BY <4>1 DEF BatchInv, OneWorkerPerSlot
      <4>3. QED
        BY <1>1, <2>1, <4>1, <4>2, BatchAssumption DEF Slot
    <3>3. QED
      BY <3>1, <3>2
  <2>3. ASSUME NEW u \in Worker, NEW x \in Worker, Busy(u)', Busy(x)',
               workers'[u].slot = workers'[x].slot
        PROVE  u = x
    <3>1. CASE u # w /\ x # w
      BY <1>2, <2>3, <3>1 DEF BatchInv, OneWorkerPerSlot, Busy
    <3>2. CASE u = w \/ x = w
      BY <1>1, <2>1, <2>2, <2>3, <3>2
    <3>3. QED
      BY <3>1, <3>2
  <2>4. QED
    BY <1>3, <2>1, <2>2, <2>3 DEF BatchInv, OneWorkerPerSlot
<1>5. SlotStates'
  <2>1. \A u \in Worker : workers'[u].at \in {"upload", "reconcile"} => workers'[u] = workers[u]
    BY <1>1, <1>2
  <2>2. QED
    BY <1>3, <2>1 DEF BatchInv, SlotStates, UploadedOnce
<1>6. VersionsFinal'
  BY <1>3 DEF BatchInv, VersionsFinal, Confirmed, Records
<1>7. QED
  BY <1>1, <1>4, <1>5, <1>6 DEF BatchInv

\* A worker's step that records nothing.
LEMMA NothingRecorded ==
  ASSUME BatchInv, NEW w \in Worker, Busy(w), Keeps(w), UNCHANGED <<durable, sent>>,
         workers'[w].at # "upload",
         workers'[w].at = "reconcile" => slots[workers[w].slot].status \in {"IN_FLIGHT", "ACCEPTED"}
  PROVE  BatchInv'
<1> DEFINE s == workers[w].slot
<1>1. s \in Slot /\ batch # None /\ UNCHANGED <<batch, slots, sent, answers>>
  BY BusyOn DEF BatchInv, Keeps, WorkerMoves, durable, caller
<1>2. /\ slots'[s].status \in {"PREPARED", "ABSENT"} => sent'[s] = 0
      /\ sent'[s] <= 1
  BY <1>1 DEF BatchInv, SlotStates, UploadedOnce
<1>3. OneWorkerPerSlot'
  BY <1>1, HandedOut
<1>4. SlotStates'
  BY <1>1, <1>2, OwnSlot
<1>5. VersionsFinal'
  BY <1>1, NoneConfirmed
<1>6. QED
  BY <1>3, <1>4, <1>5 DEF BatchInv, Keeps

LEMMA HoldInv ==
  ASSUME BatchInv, NEW w \in Worker, Busy(w), Keeps(w), HoldSlot(w), sent' = sent
  PROVE  BatchInv'
<1> DEFINE s == workers[w].slot
<1>1. s \in Slot /\ batch # None /\ call # None /\ answers' = answers
  BY BusyOn DEF BatchInv, Keeps, WorkerMoves, caller
<1>2. /\ slots' = [slots EXCEPT ![s].status = Held(slots[s].status)]
      /\ batch \in BatchState /\ batch' # None
      /\ batch' = [batch EXCEPT !.status = Held(batch.status)]
      /\ Fail(w)
  BY HoldsSlot DEF BatchInv
<1>3. workers'[w].at = "take"
  BY <1>1, <1>2, Failed, WentOn DEF BatchInv, At
<1>4. /\ slots'[s].status = Held(slots[s].status) /\ slots'[s].worm = slots[s].worm
      /\ \A o \in Slot \ {s} : slots'[o] = slots[o]
  BY <1>1, <1>2 DEF BatchInv, TypeOK
<1>5. /\ batch'.seal = batch.seal /\ batch'.status = Held(batch.status)
  BY <1>2 DEF BatchState
<1>6. \A t : /\ Held(t) = "CONFIRMED" <=> t = "CONFIRMED"
             /\ Held(t) # "PREPARED" /\ Held(t) # "ABSENT"
  BY DEF Held
<1>7. OneWorkerPerSlot'
  BY <1>2, HandedOut
<1>8. SlotStates'
  <2>1. sent'[s] <= 1
    BY <1>1 DEF BatchInv, SlotStates, UploadedOnce
  <2>2. QED
    BY <1>1, <1>2, <1>3, <1>4, <1>6, <2>1, OwnSlot
<1>9. VersionsFinal'
  <2>1. \A o \in Slot : /\ slots'[o].worm = slots[o].worm
                        /\ slots'[o].status = "CONFIRMED" <=> slots[o].status = "CONFIRMED"
    BY <1>4, <1>6
  <2>2. batch'.status = "CONFIRMED" <=> batch.status = "CONFIRMED"
    BY <1>5, <1>6
  <2>3. QED
    BY <1>1, <1>2, <1>5, <2>1, <2>2, NoneConfirmed
<1>10. QED
  BY <1>7, <1>8, <1>9 DEF BatchInv, Keeps

LEMMA NextActionInv ==
  ASSUME BatchInv, NEW w \in Worker, NextAction(w)
  PROVE  BatchInv'
<1> DEFINE s == workers[w].slot
<1>1. Busy(w) /\ s \in Slot /\ batch # None /\ call # None /\ batch' = batch /\ UNCHANGED <<sent, answers>>
  BY DEF NextAction, Active, Busy, BatchInv, OneWorkerPerSlot, caller, world
<1>2. Keeps(w) /\ TypeOK
  BY NextActionKeeps DEF BatchInv
<1>3. CASE /\ Dispatchable(s) /\ slots' = Dispatching(s) /\ Go(w, "upload")
  <2>1. workers'[w].at = "upload"
    BY <1>2, <1>3, WentOn DEF At
  <2>2. /\ slots'[s].status = "IN_FLIGHT" /\ slots'[s].worm = slots[s].worm
        /\ slots[s].status = "ABSENT" /\ \A o \in Slot \ {s} : slots'[o] = slots[o]
    BY <1>1, <1>2, <1>3 DEF Dispatching, Dispatchable, TypeOK
  <2>3. sent[s] = 0
    BY <1>1, <2>2 DEF BatchInv, SlotStates
  <2>4. OneWorkerPerSlot'
    BY <1>1, <1>2, HandedOut
  <2>5. SlotStates'
    BY <1>1, <1>2, <2>1, <2>2, <2>3, OwnSlot
  <2>6. VersionsFinal'
    <3>1. \A o \in Slot : /\ slots'[o].worm = slots[o].worm
                          /\ slots'[o].status = "CONFIRMED" <=> slots[o].status = "CONFIRMED"
      BY <2>2
    <3>2. QED
      BY <1>1, <3>1, NoneConfirmed
  <2>7. QED
    BY <1>2, <2>4, <2>5, <2>6 DEF BatchInv, Keeps
<1>4. CASE slots' = slots /\ ~(Dispatchable(s) /\ Go(w, "upload"))
  <2>1. workers'[w].at # "upload"
        /\ (workers'[w].at = "reconcile" => slots[s].status \in {"IN_FLIGHT", "ACCEPTED"})
    <3>1. \/ Go(w, "absence") \/ (Reconcilable(s) /\ Go(w, "reconcile")) \/ Go(w, "take")
      BY <1>1, <1>2, <1>4, Failed DEF NextAction
    <3>2. QED
      BY <1>2, <3>1, WentOn DEF At, Reconcilable
  <2>2. QED
    BY <1>1, <1>2, <1>4, <2>1, NothingRecorded DEF durable
<1>5. QED
  BY <1>3, <1>4 DEF NextAction, Dispatchable, Checkable, Reconcilable

LEMMA InspectInv ==
  ASSUME BatchInv, NEW w \in Worker, Inspect(w)
  PROVE  BatchInv'
<1>1. Busy(w) /\ Keeps(w) /\ workers'[w].at = workers[w].at
  BY InspectKeeps DEF BatchInv, Inspect, Busy
<1>2. workers[w].at # "upload"
  BY DEF Inspect
<1>3. workers[w].at = "reconcile" => slots[workers[w].slot].status \in {"IN_FLIGHT", "ACCEPTED"}
  BY DEF BatchInv, SlotStates
<1>4. QED
  BY <1>1, <1>2, <1>3, NothingRecorded DEF Inspect, durable, world

LEMMA MarkAbsentInv ==
  ASSUME BatchInv, NEW w \in Worker, MarkAbsent(w)
  PROVE  BatchInv'
<1> DEFINE s == workers[w].slot
<1>1. Busy(w) /\ s \in Slot /\ batch # None /\ UNCHANGED <<sent, answers>>
  BY DEF MarkAbsent, Active, Busy, BatchInv, OneWorkerPerSlot, caller, world
<1>2. Keeps(w) /\ TypeOK
  BY MarkAbsentKeeps DEF BatchInv
<1>3. CASE HoldSlot(w)
  BY <1>1, <1>2, <1>3, HoldInv
<1>4. CASE /\ slots[s].status = "PREPARED" /\ slots' = [slots EXCEPT ![s].status = "ABSENT"]
           /\ Go(w, "next") /\ batch' = batch
  <2>1. workers'[w].at = "next"
    BY <1>2, <1>4, WentOn DEF At
  <2>2. /\ slots'[s].status = "ABSENT" /\ slots'[s].worm = slots[s].worm
        /\ \A o \in Slot \ {s} : slots'[o] = slots[o]
    BY <1>1, <1>2, <1>4 DEF TypeOK
  <2>3. sent[s] = 0
    BY <1>1, <1>4 DEF BatchInv, SlotStates
  <2>4. OneWorkerPerSlot'
    BY <1>1, <1>2, <1>4, HandedOut
  <2>5. SlotStates'
    BY <1>1, <1>2, <1>4, <2>1, <2>2, <2>3, OwnSlot
  <2>6. VersionsFinal'
    <3>1. \A o \in Slot : /\ slots'[o].worm = slots[o].worm
                          /\ slots'[o].status = "CONFIRMED" <=> slots[o].status = "CONFIRMED"
      BY <1>4, <2>2
    <3>2. QED
      BY <1>1, <1>4, <3>1, NoneConfirmed
  <2>7. QED
    BY <1>2, <2>4, <2>5, <2>6 DEF BatchInv, Keeps
<1>5. QED
  BY <1>3, <1>4 DEF MarkAbsent

\* An upload is the slot's first: what made it IN_FLIGHT was this worker's own step.
LEMMA UploadInv ==
  ASSUME BatchInv, NEW w \in Worker, Upload(w)
  PROVE  BatchInv'
<1> DEFINE s == workers[w].slot
<1>1. Busy(w) /\ s \in Slot /\ batch # None /\ UNCHANGED <<batch, slots, answers>>
  BY DEF Upload, Active, Busy, BatchInv, OneWorkerPerSlot, caller, durable
<1>2. Keeps(w) /\ TypeOK
  BY UploadKeeps DEF BatchInv
<1>3. slots[s].status = "IN_FLIGHT" /\ sent[s] = 0
  BY <1>1 DEF BatchInv, SlotStates, Upload, Active
<1>4. sent'[s] = 1 /\ \A o \in Slot \ {s} : sent'[o] = sent[o]
  BY <1>1, <1>2, <1>3 DEF Upload, TypeOK
<1>5. workers'[w].at = "answer"
  BY <1>2, WentOn DEF Upload, At
<1>6. OneWorkerPerSlot'
  BY <1>1, <1>2, HandedOut
<1>7. SlotStates'
  BY <1>1, <1>2, <1>3, <1>4, <1>5, OwnSlot
<1>8. VersionsFinal'
  BY <1>1, NoneConfirmed
<1>9. QED
  BY <1>2, <1>6, <1>7, <1>8 DEF BatchInv, Keeps

LEMMA AcceptInv ==
  ASSUME BatchInv, NEW w \in Worker, Accept(w)
  PROVE  BatchInv'
<1> DEFINE s == workers[w].slot
<1>1. Busy(w) /\ s \in Slot /\ batch # None /\ UNCHANGED <<batch, sent, answers>>
  BY DEF Accept, Active, Busy, BatchInv, OneWorkerPerSlot, caller, world
<1>2. Keeps(w) /\ TypeOK
  BY AcceptKeeps DEF BatchInv
<1>3. workers'[w].at = "next"
  BY <1>2, WentOn DEF Accept, At
<1>4. CASE slots' = slots
  BY <1>1, <1>2, <1>3, <1>4, NothingRecorded DEF durable
<1>5. CASE slots' # slots
  <2>1. /\ slots[s].status = "IN_FLIGHT" /\ slots'[s].status = "ACCEPTED"
        /\ slots'[s].worm = slots[s].worm /\ \A o \in Slot \ {s} : slots'[o] = slots[o]
    BY <1>1, <1>2, <1>5 DEF Accept, TypeOK
  <2>2. sent[s] <= 1
    BY <1>1 DEF BatchInv, SlotStates, UploadedOnce
  <2>3. OneWorkerPerSlot'
    BY <1>1, <1>2, HandedOut
  <2>4. SlotStates'
    BY <1>1, <1>2, <1>3, <2>1, <2>2, OwnSlot
  <2>5. VersionsFinal'
    <3>1. \A o \in Slot : /\ slots'[o].worm = slots[o].worm
                          /\ slots'[o].status = "CONFIRMED" <=> slots[o].status = "CONFIRMED"
      BY <2>1
    <3>2. QED
      BY <1>1, <3>1, NoneConfirmed
  <2>6. QED
    BY <1>2, <2>3, <2>4, <2>5 DEF BatchInv, Keeps
<1>6. QED
  BY <1>4, <1>5

\* A slot is reconciled while in flight or accepted, so its batch was not confirmed.
LEMMA ConfirmInv ==
  ASSUME BatchInv, NEW w \in Worker, Confirm(w)
  PROVE  BatchInv'
<1> DEFINE s == workers[w].slot
<1>1. Busy(w) /\ s \in Slot /\ batch # None /\ call # None /\ UNCHANGED <<sent, answers>>
  BY DEF Confirm, Active, Busy, BatchInv, OneWorkerPerSlot, caller, world
<1>2. Keeps(w) /\ TypeOK
  BY ConfirmKeeps DEF BatchInv
<1>3. CASE HoldSlot(w)
  BY <1>1, <1>2, <1>3, HoldInv
<1>4. CASE Fail(w) /\ UNCHANGED durable
  <2>1. workers'[w].at = "take"
    BY <1>1, <1>2, <1>4, Failed, WentOn DEF At
  <2>2. QED
    BY <1>1, <1>2, <1>4, <2>1, NothingRecorded
<1>5. ASSUME NEW v \in Reconciled(workers[w].read), slots' = Confirming(s, v),
             batch' = IF Remaining(slots') = {} /\ batch.status = "SEALED"
                      THEN [batch EXCEPT !.status = "CONFIRMED"] ELSE batch,
             Go(w, "next")
      PROVE  BatchInv'
  <2>1. v \in Version /\ v # None /\ workers'[w].at = "next"
    BY <1>2, <1>5, ReconciledTyped, WentOn, NoneAssumption DEF Confirm, At
  <2>2. /\ slots'[s].status = "CONFIRMED" /\ slots'[s].worm = v
        /\ \A o \in Slot \ {s} : slots'[o] = slots[o]
    BY <1>1, <1>2, <1>5, <2>1, ConfirmingTyped
  <2>3. slots[s].status \in {"IN_FLIGHT", "ACCEPTED"}
    BY <1>1 DEF BatchInv, SlotStates, Confirm, Active
  <2>4. batch.status # "CONFIRMED" /\ answers = {}
    BY <1>1, <2>3 DEF BatchInv, VersionsFinal, Confirmed
  <2>5. batch \in BatchState /\ batch' # None
    BY <1>1, <1>2, <1>5, BatchParts, NoneAssumption DEF BatchState, BatchStatus
  <2>6. batch'.seal = batch.seal /\ (batch'.status = "CONFIRMED" => Remaining(slots') = {})
    BY <1>5, <2>4, <2>5 DEF BatchState
  <2>7. sent[s] <= 1
    BY <1>1 DEF BatchInv, SlotStates, UploadedOnce
  <2>8. OneWorkerPerSlot'
    BY <1>1, <1>2, <2>5, HandedOut
  <2>9. SlotStates'
    BY <1>1, <1>2, <2>1, <2>2, <2>5, <2>7, OwnSlot
  <2>10. VersionsFinal'
    <3>1. \A o \in Slot : slots'[o].worm # None <=> slots'[o].status = "CONFIRMED"
      BY <2>1, <2>2 DEF BatchInv, VersionsFinal
    <3>2. Remaining(slots') = {} => Confirmed'
      BY DEF Remaining, Confirmed
    <3>3. QED
      BY <1>1, <2>4, <2>6, <3>1, <3>2 DEF BatchInv, VersionsFinal
  <2>11. QED
    BY <1>2, <2>8, <2>9, <2>10 DEF BatchInv, Keeps
<1>6. QED
  BY <1>3, <1>4, <1>5 DEF Confirm

LEMMA FaultInv ==
  ASSUME BatchInv, NEW w \in Worker,
         Deadline(w) \/ InspectFails(w) \/ UploadRefused(w) \/ Unanswered(w) \/ UploadVanished(w)
  PROVE  BatchInv'
<1>1. Busy(w) /\ Keeps(w) /\ call # None /\ TypeOK /\ UNCHANGED sent
  BY FaultsKeep DEF BatchInv, OneWorkerPerSlot, Busy, Active, world,
                    Deadline, InspectFails, UploadRefused, Unanswered, UploadVanished
<1>2. CASE HoldSlot(w)
  BY <1>1, <1>2, HoldInv
<1>3. CASE UNCHANGED durable /\ (Fail(w) \/ Go(w, "next"))
  <2>1. workers'[w].at \in {"take", "next"}
    BY <1>1, <1>3, Failed, WentOn DEF At
  <2>2. QED
    BY <1>1, <1>3, <2>1, NothingRecorded
<1>4. QED
  BY <1>2, <1>3 DEF Deadline, InspectFails, UploadRefused, Unanswered, UploadVanished

LEMMA BatchInvInit == Init => BatchInv
<1> SUFFICES ASSUME Init PROVE BatchInv
  OBVIOUS
<1> USE BatchAssumption
<1>1. TypeOK
  <2>1. observers \in [Caller -> ObserverState]
    BY DEF Init, ObserverState
  <2>2. workers \in [Worker -> WorkerState]
    BY DEF Init, WorkerState
  <2>3. QED
    BY <2>1, <2>2, PreparedTyped DEF Init, TypeOK, Instant, Delegation
<1>2. \A w \in Worker : workers[w].at = "take"
  BY DEF Init
<1>3. Readings
  BY DEF Init, Readings
<1>4. OneWorkerPerSlot
  BY <1>2 DEF Init, OneWorkerPerSlot, Busy
<1>5. SlotStates
  BY <1>2 DEF Init, SlotStates, UploadedOnce
<1>6. VersionsFinal
  BY DEF Init, VersionsFinal, PreparedSlots
<1>7. QED
  BY <1>1, <1>3, <1>4, <1>5, <1>6 DEF BatchInv

LEMMA BatchInvNext == BatchInv /\ [Next]_vars => BatchInv'
<1> SUFFICES ASSUME BatchInv, [Next]_vars PROVE BatchInv'
  OBVIOUS
<1>1. CASE UNCHANGED vars
  <2>1. TypeOK' /\ Readings'
    BY <1>1 DEF BatchInv, TypeOK, Readings, vars, caller, durable, world
  <2>2. QED
    BY <1>1, <2>1, ObjectAlone DEF vars, caller, durable, world
<1>2. CASE ObjectStep \/ Evict \/ Redeploy
  BY <1>2, ServeInv, ResumeBatchInv, SealInv, FinishInv, EvictedInv DEF ObjectStep
<1>3. ASSUME NEW w \in Worker, WorkerStep(w) \/ Deadline(w) \/ InspectFails(w)
                               \/ UploadRefused(w) \/ Unanswered(w)
      PROVE  BatchInv'
  BY <1>3, TakeInv, NextActionInv, InspectInv, MarkAbsentInv, UploadInv, AcceptInv, ConfirmInv,
     FaultInv DEF WorkerStep
<1>4. QED
  BY <1>1, <1>2, <1>3, AloneInv DEF Next

(* Every value the batch, its slots, its callers and its workers hold is one *)
(* the code can write.                                                       *)
THEOREM BatchTypeCorrect == Spec => []TypeOK
<1>1. BatchInv => TypeOK
  BY DEF BatchInv
<1>2. QED
  BY <1>1, BatchInvInit, BatchInvNext, PTL DEF Spec

(* However many callers, workers and slots, and whatever is lost, answered   *)
(* late or evicted: no slot of the delegation's batch is uploaded twice.     *)
THEOREM SlotsUploadedOnce == Spec => []UploadedOnce
<1>1. BatchInv => UploadedOnce
  BY DEF BatchInv, SlotStates
<1>2. QED
  BY <1>1, BatchInvInit, BatchInvNext, PTL DEF Spec

-----------------------------------------------------------------------------
(* A held batch dispatches nothing. *)

\* No step but the store's next action puts a slot in flight.
LEMMA OnlyNextDispatches ==
  ASSUME BatchInv, [Next]_vars, NEW s \in Slot, slots[s].status # "IN_FLIGHT",
         slots'[s].status = "IN_FLIGHT"
  PROVE  batch = None \/ \E w \in Worker : NextAction(w) /\ Dispatchable(s)
<1> SUFFICES ASSUME batch # None
             PROVE  \E w \in Worker : NextAction(w) /\ Dispatchable(s)
  OBVIOUS
<1>1. TypeOK /\ slots' # slots
  BY DEF BatchInv
<1>2. PICK w \in Worker : NextAction(w) \/ MarkAbsent(w) \/ Accept(w) \/ Confirm(w) \/ InspectFails(w)
  BY <1>1 DEF Next, vars, durable, ObserverStep, ObjectStep, WorkerStep, Resume, Admit, Observe, Mirror,
     GiveUp, Serve, ResumeBatch, NoBatch, Seal, Finish, Evict, Redeploy, Take, Inspect, Upload,
     UploadVanished, Deadline, UploadRefused, Unanswered, Land, Lose, StrangerWrites, Tick
<1>3. Busy(w) /\ workers[w].slot \in Slot
  BY <1>2 DEF BatchInv, OneWorkerPerSlot, Busy, Active, NextAction, MarkAbsent, Accept, Confirm, InspectFails
<1>4. \A t \in SlotStatus : [slots EXCEPT ![workers[w].slot].status = t][s].status
                              \in {slots[s].status, t}
  BY <1>1, <1>3 DEF TypeOK
<1>5. ~HoldSlot(w)
  <2>1. ASSUME HoldSlot(w)
        PROVE  slots'[s].status \in {slots[s].status, Held(slots[workers[w].slot].status)}
    BY <1>1, <1>3, <1>4, <2>1, HoldsSlot, HeldStatus DEF BatchInv, TypeOK
  <2>2. \A t : Held(t) # "IN_FLIGHT"
    BY DEF Held
  <2>3. QED
    BY <2>1, <2>2
<1>6. ~MarkAbsent(w) /\ ~InspectFails(w)
  BY <1>1, <1>3, <1>4, <1>5 DEF MarkAbsent, InspectFails, durable, TypeOK
<1>7. ~Accept(w)
  BY <1>1, <1>3 DEF Accept, TypeOK
<1>8. ~Confirm(w)
  <2>1. \A v : Confirming(workers[w].slot, v)[s].status \in {slots[s].status, "CONFIRMED"}
    BY <1>1, <1>3 DEF Confirming, TypeOK
  <2>2. QED
    BY <1>1, <1>5, <2>1 DEF Confirm, durable
<1>9. NextAction(w) /\ slots' = Dispatching(workers[w].slot) /\ Dispatchable(workers[w].slot)
  BY <1>1, <1>2, <1>6, <1>7, <1>8 DEF NextAction
<1>10. workers[w].slot = s
  BY <1>1, <1>3, <1>9 DEF Dispatching, TypeOK
<1>11. QED
  BY <1>9, <1>10

(* From the moment one slot puts the batch on hold, no worker of this call   *)
(* or a later one hands another slot to the writer.                          *)
THEOREM HeldBatchStops == Spec => HoldStopsDispatch
<1> DEFINE Stops == \A s \in Slot :
                      batch # None /\ batch.status = "HOLD" /\ slots[s].status # "IN_FLIGHT"
                      => slots'[s].status # "IN_FLIGHT"
<1>1. BatchInv /\ [Next]_vars => [Stops]_vars
  BY OnlyNextDispatches DEF Dispatchable
<1> HIDE DEF Stops
<1>2. Spec => [][Stops]_vars
  BY <1>1, BatchInvInit, BatchInvNext, PTL DEF Spec
<1>3. QED
  BY <1>2 DEF Stops, HoldStopsDispatch

-----------------------------------------------------------------------------
(* The refinement: what of the state the one evidence batch sees. *)

LEMMA BatchUnseen ==
  ASSUME UNCHANGED <<batch, answers>>,
         \A s \in Slot : slots'[s].worm = slots[s].worm
  PROVE  UNCHANGED One!vars
BY DEF One!vars

LEMMA InitOne ==
  ASSUME Init
  PROVE  One!Init
BY DEF Init, PreparedSlots, One!Init

\* The seal of a batch is not nothing.
LEMMA SealNotNone ==
  ASSUME BatchInv
  PROVE  batch # None => batch.seal \in SealOf /\ batch.seal # None
BY BatchParts, NoneAssumption DEF BatchInv, BatchState

LEMMA SealOne ==
  ASSUME BatchInv, Seal
  PROVE  One!Seal \/ UNCHANGED One!vars
<1>1. CASE UNCHANGED durable
  BY <1>1, BatchUnseen DEF Seal, durable
<1>2. CASE ~UNCHANGED durable
  <2>1. /\ batch = None /\ batch' = SealedBatch(call.seal) /\ slots' = PreparedSlots
        /\ RequestValid(call.seal) /\ answers' = answers
    BY <1>2 DEF Seal
  <2>2. slots' = slots
    BY <2>1 DEF BatchInv, SlotStates
  <2>3. call.seal \in SealOf
    BY BatchParts DEF BatchInv, Readings, CallState, Seal
  <2>4. call.seal \in One!Seals
    BY <2>1, <2>3 DEF RequestValid, Delegation, SealOf, One!Seals
  <2>5. batch' # None /\ batch'.seal = call.seal /\ batch'.status = "SEALED"
    <3>1. SealedBatch(call.seal) \in BatchState
      BY <2>3 DEF SealedBatch, BatchState, BatchStatus, BatchInv, TypeOK
    <3>2. QED
      BY <2>1, <3>1, NoneAssumption DEF SealedBatch
  <2>6. answers = {}
    BY <2>1 DEF BatchInv, VersionsFinal
  <2>7. QED
    BY <2>1, <2>2, <2>4, <2>5, <2>6 DEF One!Seal
<1>3. QED
  BY <1>1, <1>2

LEMMA HoldOne ==
  ASSUME BatchInv, NEW w \in Worker, Busy(w), HoldSlot(w), answers' = answers
  PROVE  One!Hold \/ UNCHANGED One!vars
<1>1. /\ slots' = [slots EXCEPT ![workers[w].slot].status = Held(slots[workers[w].slot].status)]
      /\ batch \in BatchState /\ batch' # None /\ batch # None
      /\ batch' = [batch EXCEPT !.status = Held(batch.status)]
  BY HoldsSlot, BusyOn DEF BatchInv
<1>2. \A s \in Slot : slots'[s].worm = slots[s].worm
  BY <1>1 DEF BatchInv, TypeOK
<1>3. batch'.seal = batch.seal /\ batch'.status = Held(batch.status) /\ batch.status \in BatchStatus
  BY <1>1 DEF BatchState
<1>4. [s \in Slot |-> slots'[s].worm] = [s \in Slot |-> slots[s].worm]
  BY <1>2
<1>5. CASE batch.status = "SEALED"
  <2>1. batch'.status = "HOLD" /\ batch.seal # None
    BY <1>1, <1>3, <1>5, SealNotNone DEF Held
  <2>2. QED
    BY <1>1, <1>3, <1>4, <1>5, <2>1 DEF One!Hold
<1>6. CASE batch.status # "SEALED"
  <2>1. batch'.status = batch.status
    BY <1>3, <1>6 DEF Held, BatchStatus
  <2>2. QED
    BY <1>1, <1>3, <1>4, <2>1 DEF One!vars
<1>7. QED
  BY <1>5, <1>6

LEMMA ConfirmOne ==
  ASSUME BatchInv, NEW w \in Worker, Confirm(w)
  PROVE  One!Hold \/ (\E s \in Slot, v \in Version : One!Confirm(s, v)) \/ UNCHANGED One!vars
<1> DEFINE s == workers[w].slot
<1>1. Busy(w) /\ s \in Slot /\ batch \in BatchState /\ batch # None /\ answers' = answers /\ TypeOK
  BY BatchParts DEF Confirm, Active, Busy, BatchInv, OneWorkerPerSlot, caller
<1>2. CASE HoldSlot(w)
  BY <1>1, <1>2, HoldOne
<1>3. CASE UNCHANGED durable
  BY <1>1, <1>3, BatchUnseen DEF durable
<1>4. ASSUME NEW v \in Reconciled(workers[w].read), slots' = Confirming(s, v),
             ~\E o \in Slot \ {s} : slots[o].worm = v,
             batch' = IF Remaining(slots') = {} /\ batch.status = "SEALED"
                      THEN [batch EXCEPT !.status = "CONFIRMED"] ELSE batch
      PROVE  One!Confirm(s, v) /\ v \in Version
  <2>1. v \in Version /\ v # None
    BY <1>1, ReconciledTyped, NoneAssumption DEF Confirm
  <2>2. /\ slots'[s].status = "CONFIRMED" /\ slots'[s].worm = v
        /\ \A o \in Slot \ {s} : slots'[o] = slots[o]
    BY <1>1, <1>4, <2>1, ConfirmingTyped
  <2>3. slots[s].status \in {"IN_FLIGHT", "ACCEPTED"}
    BY DEF BatchInv, SlotStates, Confirm, Active
  <2>4. slots[s].worm = None /\ batch.status # "CONFIRMED"
    BY <1>1, <2>3 DEF BatchInv, VersionsFinal, Confirmed
  <2>5. [o \in Slot |-> slots'[o].worm] = [[o \in Slot |-> slots[o].worm] EXCEPT ![s] = v]
    BY <1>1, <2>2
  <2>6. Remaining(slots') = {} <=> \A o \in Slot : slots'[o].worm # None
    <3>1. \A o \in Slot : slots'[o].worm # None <=> slots'[o].status = "CONFIRMED"
      BY <2>1, <2>2 DEF BatchInv, VersionsFinal
    <3>2. QED
      BY <3>1 DEF Remaining
  <2>7. batch' # None /\ batch'.seal = batch.seal
        /\ batch'.status = IF Remaining(slots') = {} /\ batch.status = "SEALED"
                           THEN "CONFIRMED" ELSE batch.status
    <3>1. [batch EXCEPT !.status = "CONFIRMED"] \in BatchState
      BY <1>1 DEF BatchState, BatchStatus
    <3>2. QED
      BY <1>1, <1>4, <3>1, NoneAssumption DEF BatchState
  <2>8. batch.status \in {"SEALED", "HOLD"}
    BY <1>1, <2>4 DEF BatchState, BatchStatus
  <2>9. batch.seal # None /\ \A o \in Slot : slots[o].worm # v
    BY <1>1, <1>4, <2>1, <2>4, SealNotNone
  <2>10. QED
    BY <1>1, <2>1, <2>4, <2>5, <2>6, <2>7, <2>8, <2>9 DEF One!Confirm
<1>5. QED
  BY <1>1, <1>2, <1>3, <1>4 DEF Confirm

LEMMA FinishOne ==
  ASSUME BatchInv, Finish
  PROVE  One!Answer \/ UNCHANGED One!vars
<1>1. batch # None /\ UNCHANGED <<batch, slots>>
  BY DEF Finish, durable, BatchInv, OneWorkerPerSlot
<1>2. CASE answers' = answers
  BY <1>1, <1>2, BatchUnseen
<1>3. CASE answers' # answers
  <2>1. answers' = answers \cup {Result} /\ batch.status = "CONFIRMED"
    BY <1>3 DEF Finish
  <2>2. \A r \in answers' : r.seal = batch.seal /\ r.versions = Records
    BY <2>1 DEF BatchInv, VersionsFinal, Result, Context
  <2>3. {[seal |-> r.seal, versions |-> r.versions] : r \in answers'}
          = {[seal |-> batch.seal, versions |-> Records]}
    <3>1. Result \in answers'
      BY <2>1
    <3>2. QED
      BY <2>2, <3>1
  <2>4. QED
    BY <1>1, <2>1, <2>3 DEF One!Answer, Records
<1>4. QED
  BY <1>2, <1>3

\* The other steps of a worker confirm nothing and hold nothing, or hold the slot.
LEMMA WorkerOne ==
  ASSUME BatchInv, NEW w \in Worker,
         WorkerStep(w) \/ Deadline(w) \/ InspectFails(w) \/ UploadRefused(w) \/ Unanswered(w)
  PROVE  One!Next \/ UNCHANGED One!vars
<1>1. TypeOK
  BY DEF BatchInv
<1>2. CASE NextAction(w)
  <2>1. workers[w].slot \in Slot
    BY <1>2 DEF BatchInv, OneWorkerPerSlot, Busy, NextAction, Active
  <2>2. \A s \in Slot : slots'[s].worm = slots[s].worm
    BY <1>1, <1>2, <2>1 DEF NextAction, Dispatching, TypeOK
  <2>3. QED
    BY <1>2, <2>2, BatchUnseen DEF NextAction, caller
<1>3. CASE MarkAbsent(w) \/ InspectFails(w)
  <2>1. workers[w].slot \in Slot /\ Busy(w) /\ answers' = answers
    BY <1>3 DEF BatchInv, OneWorkerPerSlot, Busy, MarkAbsent, InspectFails, Active, caller
  <2>2. CASE HoldSlot(w)
    BY <2>1, <2>2, HoldOne DEF One!Next
  <2>3. CASE ~HoldSlot(w)
    <3>1. batch' = batch /\ \A s \in Slot : slots'[s].worm = slots[s].worm
      BY <1>1, <1>3, <2>1, <2>3 DEF MarkAbsent, InspectFails, durable, TypeOK
    <3>2. QED
      BY <2>1, <3>1, BatchUnseen
  <2>4. QED
    BY <2>2, <2>3
<1>4. CASE Accept(w)
  <2>1. workers[w].slot \in Slot
    BY <1>4 DEF BatchInv, OneWorkerPerSlot, Busy, Accept, Active
  <2>2. \A s \in Slot : slots'[s].worm = slots[s].worm
    BY <1>1, <1>4, <2>1 DEF Accept, TypeOK
  <2>3. QED
    BY <1>4, <2>2, BatchUnseen DEF Accept, caller
<1>5. CASE Confirm(w)
  BY <1>5, ConfirmOne DEF One!Next
<1>6. CASE UNCHANGED <<durable, answers>>
  BY <1>6, BatchUnseen DEF durable
<1>7. QED
  BY <1>2, <1>3, <1>4, <1>5, <1>6
  DEF WorkerStep, Take, Inspect, Upload, UploadVanished, Deadline, UploadRefused, Unanswered,
      caller, durable

LEMMA StepOne ==
  ASSUME BatchInv, [Next]_vars
  PROVE  [One!Next]_One!vars
<1>1. ASSUME NEW w \in Worker, WorkerStep(w) \/ Deadline(w) \/ InspectFails(w)
                               \/ UploadRefused(w) \/ Unanswered(w)
      PROVE  One!Next \/ UNCHANGED One!vars
  BY <1>1, WorkerOne
<1>2. CASE Seal \/ Finish
  BY <1>2, SealOne, FinishOne DEF One!Next
<1>3. CASE UNCHANGED <<durable, answers>>
  BY <1>3, BatchUnseen DEF durable
<1>4. QED
  BY <1>1, <1>2, <1>3
  DEF Next, ObserverStep, ObjectStep, Resume, Admit, Observe, Mirror, GiveUp, Serve, ResumeBatch,
      NoBatch, Evict, Redeploy, Land, Lose, StrangerWrites, Tick, vars, caller

(* Whatever the callers, workers, evictions and lost uploads do, they behave *)
(* as one evidence batch: one observation sealed while the delegation was    *)
(* fresh, at most one version for each slot, and one answer for everybody.   *)
THEOREM BatchIsOne == Spec => ImplementsOneBatch
<1>1. BatchInv /\ [Next]_vars => [One!Next]_One!vars
  BY StepOne
<1>2. Spec => One!Init /\ [][One!Next]_One!vars
  BY <1>1, InitOne, BatchInvInit, BatchInvNext, PTL DEF Spec
<1>3. QED
  BY <1>2 DEF ImplementsOneBatch, One!Spec
=============================================================================
