-------------------- MODULE ActivationOperationJournal --------------------
(***************************************************************************)
(* The durable journal of activation operations, one database per worker   *)
(* version: for the provisioned record (sequence 0) and the activated one  *)
(* (sequence 1) an intent, its issuances, their evidence slots, and the    *)
(* record appended from them.  broker/src/activation-operation-store.ts,   *)
(* activation-operation-effects.ts, activation-operation-provision-        *)
(* delegation.ts, activation-operation-readiness.ts, activation-operation- *)
(* cloudflare-confirmation.ts and activation-operation-record-lifecycle.ts *)
(* over activation-record-store.ts.                                        *)
(*                                                                         *)
(* Each action is one transaction of those classes, for any caller; a call *)
(* that is refused changes nothing and is no step.  One that finds its     *)
(* issuance overdue marks it and then throws, which is a step.  A nullable *)
(* column is a set of at most one value.  Bytes are abstracted to what     *)
(* they are compared for: a frozen payload is known by its observed_at, a  *)
(* request to the Cloudflare observer by its committed_at.  States and     *)
(* dispositions that no code writes (FROZEN and SUPERSEDED_STALE           *)
(* issuances, HOLD) are left out.                                          *)
(***************************************************************************)
EXTENDS Integers, Sequences

CONSTANTS
  Requests,     \* semantic requests
  Promotion,    \* [Requests -> [started, completed]] of an activation request
  DirectSlots,  \* slots of kind DIRECT_WORM
  Freshness,    \* ISSUANCE_FRESHNESS_MS
  MaxOrdinal,   \* bound of an issuance's ordinal
  MaxClock      \* bound of the clock

ASSUME JournalAssumption ==
  /\ Promotion \in [Requests -> [started : Nat, completed : Nat]]
  /\ DirectSlots \cap {"CONTROLLER_ACTION", "CLOUDFLARE_BATCH"} = {}
  /\ Freshness \in Nat
  /\ MaxOrdinal \in Nat \ {0}
  /\ MaxClock \in Nat

VARIABLES
  now,        \* Date.now()
  intents,    \* activation_operation_intents, by sequence
  issuances,  \* activation_operation_issuances and _slots, by sequence and ordinal
  records     \* activation_records, by sequence

journalVars == <<now, intents, issuances, records>>

Sequence == {0, 1}

Roster(s) ==
  IF s = 0 THEN {"CONTROLLER_ACTION", "CLOUDFLARE_BATCH"} \cup DirectSlots
           ELSE {"CLOUDFLARE_BATCH"}

SlotState == {"PREPARED", "READ_IN_FLIGHT", "FROZEN", "DELEGATED_IN_FLIGHT", "CONFIRMED"}

Slot == [state : SlotState, observed : SUBSET Nat, committed : SUBSET Nat]

IssuanceState == {"RESERVED", "COLLECTING", "EFFECTS_PENDING", "READY_TO_APPEND",
                  "RECORD_APPENDED", "CONFIRMED", "EXPIRED_UNDISPATCHED", "DISPATCHED_HOLD"}

Issuance(s) == [issued    : Nat,
                state     : IssuanceState,
                committed : SUBSET Nat,  \* record_committed_at
                slots     : [Roster(s) -> Slot]]

Intent == [state : {"MISSING", "OPEN", "CONFIRMED"}, request : SUBSET Requests]

Record == [state : {"MISSING", "APPENDED", "CONFIRMED"}, ordinal : Nat, committed : SUBSET Nat]

JournalInit ==
  /\ now = 0
  /\ intents = [s \in Sequence |-> [state |-> "MISSING", request |-> {}]]
  /\ issuances = [s \in Sequence |-> <<>>]
  /\ records = [s \in Sequence |-> [state |-> "MISSING", ordinal |-> 0, committed |-> {}]]

JournalTick ==
  /\ now < MaxClock
  /\ now' = now + 1
  /\ UNCHANGED <<intents, issuances, records>>

-----------------------------------------------------------------------------
(* Issuances. *)

NewIssuance(s, at) ==
  [issued |-> at, state |-> "RESERVED", committed |-> {},
   slots |-> [x \in Roster(s) |-> [state |-> "PREPARED", observed |-> {}, committed |-> {}]]]

FreshUntil(i) == i.issued + Freshness

InEffect(slot) == slot.state \in {"DELEGATED_IN_FLIGHT", "CONFIRMED"}

Dispatched(i) == \E x \in DOMAIN i.slots : InEffect(i.slots[x])

Expired(i) ==
  [i EXCEPT !.state = IF Dispatched(i) THEN "DISPATCHED_HOLD" ELSE "EXPIRED_UNDISPATCHED"]

Latest(s) == issuances[s][Len(issuances[s])]

\* The issuance is the last of its attempt and in one of the given states.
CurrentIn(s, n, states) ==
  /\ n \in DOMAIN issuances[s]
  /\ n = Len(issuances[s])
  /\ issuances[s][n].state \in states

\* requireCurrent(issuance, false)
Current(s, n) ==
  CurrentIn(s, n, {"RESERVED", "COLLECTING", "EFFECTS_PENDING", "READY_TO_APPEND"})

\* requireCurrent(issuance, true)
CurrentOrHeld(s, n) ==
  CurrentIn(s, n, {"RESERVED", "COLLECTING", "EFFECTS_PENDING", "READY_TO_APPEND",
                   "DISPATCHED_HOLD"})

\* requireCurrentLiveIssuance
Live(s, n) == CurrentIn(s, n, {"RESERVED", "COLLECTING", "EFFECTS_PENDING"})

Put(s, n, i) ==
  /\ issuances' = [issuances EXCEPT ![s] = [@ EXCEPT ![n] = i]]
  /\ UNCHANGED <<now, intents, records>>

\* The time at is the caller's: it was read when its run was admitted.
Reserve(s, q, at) ==
  /\ intents[s].state = "MISSING"
  /\ intents' = [intents EXCEPT ![s] = [state |-> "OPEN", request |-> {q}]]
  /\ issuances' = [issuances EXCEPT ![s] = <<NewIssuance(s, at)>>]
  /\ UNCHANGED <<now, records>>

\* Mutant of MayReissue: the state alone is looked at.
MayReissueByState(i) == i.state \notin {"RECORD_APPENDED", "CONFIRMED"}

\* classifyStaleActivationIssuance
MayReissue(i) == i.state \notin {"RECORD_APPENDED", "CONFIRMED"} /\ ~Dispatched(i)

\* The old issuance is closed, the new one opened.
Superseded(i) == [i EXCEPT !.state = "EXPIRED_UNDISPATCHED"]

ReissueStale(s, n, at) ==
  /\ n \in DOMAIN issuances[s]
  /\ n = Len(issuances[s])
  /\ at > FreshUntil(issuances[s][n])
  /\ MayReissue(issuances[s][n])
  /\ n < MaxOrdinal
  /\ LET closed == [issuances[s] EXCEPT ![n] = Superseded(issuances[s][n])] IN
       issuances' = [issuances EXCEPT ![s] = Append(closed, NewIssuance(s, at))]
  /\ UNCHANGED <<now, intents, records>>

-----------------------------------------------------------------------------
(* Evidence reads. *)

\* Mutant of Fresh: the observation is not bounded by the issuance.
FreshNow(i, observed) == observed <= now /\ now <= FreshUntil(i)

\* requireFreshIssuance, but for the issuance being live
Fresh(i, observed) ==
  /\ i.issued <= observed
  /\ observed <= now
  /\ now - observed <= Freshness
  /\ now <= FreshUntil(i)

\* prepareRead, on a slot nobody has prepared
PrepareRead(s, n, x) ==
  /\ Live(s, n)
  /\ x \in Roster(s) \ {"CLOUDFLARE_BATCH"}
  /\ LET i == issuances[s][n] IN
       /\ Fresh(i, now)
       /\ i.slots[x].state = "PREPARED"
       /\ Put(s, n, [i EXCEPT !.slots[x].state = "READ_IN_FLIGHT",
                              !.state = IF @ = "RESERVED" THEN "COLLECTING" ELSE @])

\* Mutant of MayFreeze: an answer replaces the one already frozen.
MayFreezeAgain(slot) == slot.state \in {"READ_IN_FLIGHT", "FROZEN"}

MayFreeze(slot) == slot.state = "READ_IN_FLIGHT"

FreezeRead(s, n, x, observed) ==
  /\ Live(s, n)
  /\ x \in Roster(s) \ {"CLOUDFLARE_BATCH"}
  /\ LET i == issuances[s][n] IN
       /\ Fresh(i, observed)
       /\ MayFreeze(i.slots[x])
       /\ Put(s, n, [i EXCEPT !.slots[x] = [state |-> "FROZEN", observed |-> {observed},
                                            committed |-> {}]])

\* Either read, on an issuance it finds not fresh: expireIssuance.
ReadExpires(s, n, observed) ==
  /\ Live(s, n)
  /\ ~Fresh(issuances[s][n], observed)
  /\ Put(s, n, Expired(issuances[s][n]))

-----------------------------------------------------------------------------
(* Delegated effects. *)

NoLaterThan(times, t) == \A u \in times : u <= t

\* assertOperationDelegationChronology, of a slot observed at the given times
Chronological(i, observed, committed) ==
  /\ i.issued <= committed
  /\ committed <= now
  /\ now - committed <= Freshness
  /\ committed <= FreshUntil(i)
  /\ now <= FreshUntil(i)
  /\ \A t \in observed : i.issued <= t /\ t <= committed

Delegated(slot, committed) ==
  [slot EXCEPT !.state = "DELEGATED_IN_FLIGHT", !.committed = {committed}]

\* The slots xs of the issuance are sealed.
WithDelegated(i, xs, committed) ==
  [i EXCEPT
     !.state = IF @ \in {"RESERVED", "COLLECTING"} THEN "EFFECTS_PENDING" ELSE @,
     !.slots = [x \in DOMAIN i.slots |->
                  IF x \in xs THEN Delegated(i.slots[x], committed) ELSE i.slots[x]]]

\* The effects xs are sealed together, or the issuance is found overdue.
SealEffects(s, n, xs, committed) ==
  LET i == issuances[s][n] IN
  \/ /\ now > FreshUntil(i) \/ committed > FreshUntil(i)
     /\ Put(s, n, Expired(i))
  \/ /\ \A x \in xs : Chronological(i, i.slots[x].observed, committed)
     /\ Put(s, n, WithDelegated(i, xs, committed))

\* delegate: one direct effect
Delegate(n, x, committed) ==
  /\ Current(0, n)
  /\ x \in DirectSlots
  /\ issuances[0][n].slots[x].state = "FROZEN"
  /\ SealEffects(0, n, {x}, committed)

\* assertCloudflarePredecessors
PredecessorsDelegated(i, committed) ==
  /\ i.slots["CONTROLLER_ACTION"].state = "FROZEN"
  /\ \A x \in DirectSlots :
       /\ InEffect(i.slots[x])
       /\ NoLaterThan(i.slots[x].committed, committed)

\* parseActivationOperationCloudflareRequest: what the request's bytes bind
WellTimed(i, committed) == i.issued <= committed /\ committed <= FreshUntil(i)

DelegateCloudflare(s, n, committed) ==
  /\ Current(s, n)
  /\ WellTimed(issuances[s][n], committed)
  /\ issuances[s][n].slots["CLOUDFLARE_BATCH"].state = "PREPARED"
  /\ s = 0 => PredecessorsDelegated(issuances[s][n], committed)
  /\ SealEffects(s, n, {"CLOUDFLARE_BATCH"}, committed)

ReadsFrozen(i) ==
  \A x \in Roster(0) \ {"CLOUDFLARE_BATCH"} : i.slots[x].state = "FROZEN"

\* delegateProvision: the whole plan of the provisioned record
DelegateProvision(n, committed) ==
  /\ Current(0, n)
  /\ WellTimed(issuances[0][n], committed)
  /\ ReadsFrozen(issuances[0][n])
  /\ issuances[0][n].slots["CLOUDFLARE_BATCH"].state = "PREPARED"
  /\ \/ now > FreshUntil(issuances[0][n])
     \/ NoLaterThan(issuances[0][n].slots["CONTROLLER_ACTION"].observed, committed)
  /\ SealEffects(0, n, DirectSlots \cup {"CLOUDFLARE_BATCH"}, committed)

ConfirmDirect(n, x) ==
  /\ CurrentOrHeld(0, n)
  /\ x \in DirectSlots
  /\ issuances[0][n].slots[x].state = "DELEGATED_IN_FLIGHT"
  /\ Put(0, n, [issuances[0][n] EXCEPT !.slots[x].state = "CONFIRMED"])

\* assertCloudflareEvidenceBatchResultChronology: no result says otherwise
SealedInTime(i, sealed) ==
  /\ NoLaterThan(i.slots["CLOUDFLARE_BATCH"].committed, sealed)
  /\ sealed <= FreshUntil(i)

\* confirmCloudflare, of a result sealed at the given time
ConfirmCloudflare(s, n, sealed) ==
  /\ CurrentOrHeld(s, n)
  /\ LET i == issuances[s][n] IN
       /\ i.slots["CLOUDFLARE_BATCH"].state = "DELEGATED_IN_FLIGHT"
       /\ SealedInTime(i, sealed)
       /\ i.committed \subseteq {sealed}
       /\ Put(s, n, [i EXCEPT !.slots["CLOUDFLARE_BATCH"].state = "CONFIRMED",
                              !.committed = {sealed}])

-----------------------------------------------------------------------------
(* The record. *)

\* Mutant of RosterFinal: only the Cloudflare batch is waited for.
BatchFinal(i) == i.slots["CLOUDFLARE_BATCH"].state = "CONFIRMED"

RosterFinal(i) ==
  \A x \in DOMAIN i.slots :
    i.slots[x].state = IF x = "CONTROLLER_ACTION" THEN "FROZEN" ELSE "CONFIRMED"

\* Whether readyToAppend answers true of a current issuance.
ReadyForRecord(i) ==
  /\ RosterFinal(i)
  /\ \E t \in i.committed :
       \A x \in DOMAIN i.slots :
         NoLaterThan(i.slots[x].observed, t) /\ NoLaterThan(i.slots[x].committed, t)

ReadyToAppend(s, n) ==
  /\ CurrentIn(s, n, {"COLLECTING", "EFFECTS_PENDING", "DISPATCHED_HOLD"})
  /\ ReadyForRecord(issuances[s][n])
  /\ Put(s, n, [issuances[s][n] EXCEPT !.state = "READY_TO_APPEND"])

\* assertActivationChronology, for a batch sealed at the given time; its observation is
\* taken to be as young as its seal.
PromotionInOrder(q, sealed) ==
  /\ \A t \in records[0].committed : t < Promotion[q].started
  /\ Promotion[q].started <= Promotion[q].completed
  /\ Promotion[q].completed <= sealed

\* What materialize checks that the journal has not already made sure of.
Materializes(s, n) ==
  s = 1 => /\ records[0].state = "CONFIRMED"
           /\ \A q \in intents[1].request, t \in issuances[1][n].committed : PromotionInOrder(q, t)

FreezeAndAppend(s, n) ==
  /\ CurrentIn(s, n, {"READY_TO_APPEND"})
  /\ RosterFinal(issuances[s][n])
  /\ Materializes(s, n)
  /\ records[s].state = "MISSING"
  /\ records' = [records EXCEPT ![s] = [state |-> "APPENDED", ordinal |-> n,
                                        committed |-> issuances[s][n].committed]]
  /\ issuances' = [issuances EXCEPT ![s] = [@ EXCEPT ![n].state = "RECORD_APPENDED"]]
  /\ UNCHANGED <<now, intents>>

IntentConfirmed(s) == [intents EXCEPT ![s].state = "CONFIRMED"]

\* confirmRecordWorm
ConfirmRecordWorm(s, n) ==
  /\ CurrentIn(s, n, {"RECORD_APPENDED"})
  /\ intents[s].state = "OPEN"
  /\ records[s].state # "MISSING"
  /\ s = 1 => records[0].state = "CONFIRMED"
  /\ records' = [records EXCEPT ![s].state = "CONFIRMED"]
  /\ issuances' = [issuances EXCEPT ![s] = [@ EXCEPT ![n].state = "CONFIRMED"]]
  /\ intents' = IntentConfirmed(s)
  /\ UNCHANGED now

-----------------------------------------------------------------------------
(* Any caller: every operation, with any arguments a caller may hold.      *)

Ordinals == 1 .. MaxOrdinal
Times == 0 .. MaxClock

\* A caller passes times that have been; a provider's clock may be ahead.
ReadStep ==
  \E s \in Sequence, n \in Ordinals :
    \/ \E x \in Roster(s) : PrepareRead(s, n, x)
    \/ \E x \in Roster(s), t \in Times : FreezeRead(s, n, x, t)
    \/ \E t \in Times : ReadExpires(s, n, t)

EffectStep ==
  \E n \in Ordinals :
    \/ \E x \in DirectSlots, t \in Times : Delegate(n, x, t)
    \/ \E s \in Sequence, t \in Times : DelegateCloudflare(s, n, t)
    \/ \E t \in Times : DelegateProvision(n, t)
    \/ \E x \in DirectSlots : ConfirmDirect(n, x)
    \/ \E s \in Sequence, t \in Times : ConfirmCloudflare(s, n, t)

RecordStep ==
  \E s \in Sequence, n \in Ordinals :
    \/ ReadyToAppend(s, n)
    \/ FreezeAndAppend(s, n)
    \/ ConfirmRecordWorm(s, n)

IssuanceStep ==
  \E s \in Sequence, at \in 0 .. now :
    \/ \E q \in Requests : Reserve(s, q, at)
    \/ \E n \in Ordinals : ReissueStale(s, n, at)

JournalNext == JournalTick \/ IssuanceStep \/ ReadStep \/ EffectStep \/ RecordStep

JournalSpec == JournalInit /\ [][JournalNext]_journalVars

-----------------------------------------------------------------------------
(* Properties. *)

\* Tables hold what their column types allow.
JournalTypeOK ==
  /\ now \in Nat
  /\ intents \in [Sequence -> Intent]
  /\ DOMAIN issuances = Sequence
  /\ \A s \in Sequence : issuances[s] \in Seq(Issuance(s))
  /\ records \in [Sequence -> Record]

\* Closed: outside the index activation_operation_one_live_issuance.
Closed(i) == i.state \in {"CONFIRMED", "EXPIRED_UNDISPATCHED"}

\* The unique index never fires: whatever callers race, expire or reissue, every
\* issuance but the last of its attempt is closed.
OneLiveIssuance ==
  \A s \in Sequence : \A n \in DOMAIN issuances[s] :
    n < Len(issuances[s]) => Closed(issuances[s][n])

\* "A new ordinal is safe only before the first durable dispatch": an issuance of which
\* any effect was dispatched is the last of its attempt, and is not closed as undispatched.
DispatchedIsFinal ==
  \A s \in Sequence : \A n \in DOMAIN issuances[s] :
    Dispatched(issuances[s][n]) =>
      /\ n = Len(issuances[s])
      /\ issuances[s][n].state # "EXPIRED_UNDISPATCHED"

\* Whoever interleaves, and however a provider's clock is set: a dispatched effect was
\* sealed within the life of its issuance, a direct one after it was observed; and the
\* Cloudflare request of a provisioning closes reads and effects that all exist, belong to
\* this issuance's time and, the effects, are not younger.
EvidenceChronology ==
  \A s \in Sequence : \A n \in DOMAIN issuances[s] :
    LET i == issuances[s][n] IN
    \A x \in DOMAIN i.slots : InEffect(i.slots[x]) =>
      \E c \in i.slots[x].committed :
        /\ i.issued <= c /\ c <= FreshUntil(i)
        /\ x \in DirectSlots => \E t \in i.slots[x].observed : i.issued <= t /\ t <= c
        /\ x = "CLOUDFLARE_BATCH" =>
             \A y \in DOMAIN i.slots \ {x} :
               /\ \E t \in i.slots[y].observed : i.issued <= t
               /\ y \in DirectSlots => \E u \in i.slots[y].committed : u <= c

\* An appended record is made from the last issuance of its attempt and stays so; its
\* roster is complete and confirmed, no evidence in it is younger than the record, and
\* the record is no younger than the issuance allows.
RecordHasEvidence ==
  \A s \in Sequence : records[s].state # "MISSING" =>
    LET n == records[s].ordinal
        i == issuances[s][n] IN
    /\ n \in DOMAIN issuances[s]
    /\ n = Len(issuances[s])
    /\ i.committed = records[s].committed
    /\ \E t \in records[s].committed :
         /\ i.issued <= t
         /\ t <= FreshUntil(i)
         /\ \A x \in Roster(s) :
              /\ i.slots[x].state = IF x = "CONTROLLER_ACTION" THEN "FROZEN" ELSE "CONFIRMED"
              /\ NoLaterThan(i.slots[x].observed \cup i.slots[x].committed, t)

\* Intent, last issuance and record, which three tables keep, always tell the same story.
StatesAgree ==
  \A s \in Sequence :
    /\ intents[s].state = "MISSING" <=> issuances[s] = <<>>
    /\ issuances[s] # <<>> =>
         /\ Latest(s).state = "RECORD_APPENDED" <=> records[s].state = "APPENDED"
         /\ Latest(s).state = "CONFIRMED" <=> records[s].state = "CONFIRMED"
         /\ Latest(s).state = "CONFIRMED" <=> intents[s].state = "CONFIRMED"

\* The activated record follows a confirmed provisioned one, and its commit is later.
RecordsInOrder ==
  records[1].state # "MISSING" =>
    /\ records[0].state = "CONFIRMED"
    /\ \A t \in records[0].committed, u \in records[1].committed : t < u

\* Evidence is immutable: no issuance disappears, what a slot has frozen, sealed or
\* confirmed stays as it is, and so does a record.
EvidenceIsKept ==
  /\ \A s \in Sequence : \A n \in DOMAIN issuances[s] :
       /\ n \in DOMAIN issuances'[s]
       /\ \A x \in DOMAIN issuances[s][n].slots :
            LET old == issuances[s][n].slots[x]
                new == issuances'[s][n].slots[x] IN
            /\ old.observed # {} => new.observed = old.observed
            /\ old.committed # {} => new.committed = old.committed
            /\ old.state = "CONFIRMED" => new.state = "CONFIRMED"
  /\ \A s \in Sequence : records[s].state # "MISSING" =>
       /\ records'[s].committed = records[s].committed
       /\ records'[s].ordinal = records[s].ordinal

\* No step of any caller takes evidence back.
EvidenceImmutable == [][EvidenceIsKept]_journalVars
=============================================================================
