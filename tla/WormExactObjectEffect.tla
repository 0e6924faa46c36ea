----------------------- MODULE WormExactObjectEffect -----------------------
(***************************************************************************)
(* The exact object effect: a Durable Object per effect that writes one    *)
(* immutable object, dispatching the writer at most once and afterwards    *)
(* only observing.  broker/src/worm-exact-object-effect-store.ts (the      *)
(* journal), worm-exact-object-effect-runner.ts (one execution of it) and  *)
(* private/worm-exact-object-effect-do.ts (which runs one at a time).      *)
(*                                                                         *)
(* An effect's identity includes the pinned worker versions, so several    *)
(* effects may be about one object key; the key holds the digest of the    *)
(* bytes, so their bytes are equal.  Retention dates are taken to be long  *)
(* enough: a bad one is an invalid inventory, ObserverInvalid.  hold_code  *)
(* only picks the error a stopped run throws, and is left out.             *)
(***************************************************************************)
EXTENDS Integers

CONSTANTS
  Effects,          \* effect identifiers
  Keys,             \* object keys
  Runs,             \* executions of the runner that may be under way
  KeyOf,            \* [Effects -> Keys]
  EffectOf,         \* [Runs -> Effects]
  Exclusive,        \* TRUE: the object's exclusive(); FALSE: the runner alone
  MAX_TRANSITIONS,  \* turns of the runner's loop
  MaxFaults         \* bound: observer outages, lost uploads and evictions

ASSUME EffectAssumption ==
  /\ KeyOf \in [Effects -> Keys]
  /\ EffectOf \in [Runs -> Effects]
  /\ Exclusive \in BOOLEAN
  /\ MAX_TRANSITIONS \in Nat
  /\ MaxFaults \in Nat

VARIABLES
  row,        \* the singleton row of each effect's journal
  pc,         \* where each run is suspended
  seen,       \* the inventory a run was answered with
  turns,      \* how many turns of its loop a run has taken
  sent,       \* history: uploads sent by each effect
  inTransit,  \* versions on their way to the bucket
  stored,     \* versions in the bucket: object lock keeps them for good
  invalid,    \* history: effects whose run was told of an invalid inventory
  faults

effectVars == <<row, pc, seen, turns, sent, inTransit, stored, invalid, faults>>

\* The n-th upload of effect e, as the version id the bucket gives it.
Version == Effects \X Nat

Status == {"MISSING", "PREPARED", "ABSENT", "IN_FLIGHT", "ACCEPTED", "DISPATCHED_HOLD",
           "CONFIRMED", "HOLD"}

Row == [status : Status,
        absent : BOOLEAN,         \* absence_inventory_digest IS NOT NULL
        writer : SUBSET Version,  \* {} is NULL, as in worm
        worm   : SUBSET Version]

MissingRow == [status |-> "MISSING", absent |-> FALSE, writer |-> {}, worm |-> {}]

EffectTypeOK ==
  /\ row \in [Effects -> Row]
  /\ pc \in [Runs -> {"idle", "next", "absence", "absenceSeen", "upload", "uploading",
                      "reconcile", "reconcileSeen"}]
  /\ seen \in [Runs -> SUBSET Version]
  /\ turns \in [Runs -> Nat]
  /\ sent \in [Effects -> Nat]
  /\ inTransit \subseteq Version
  /\ stored \subseteq Version
  /\ invalid \subseteq Effects
  /\ faults \in Nat

EffectInit ==
  /\ row = [e \in Effects |-> MissingRow]
  /\ pc = [r \in Runs |-> "idle"]
  /\ seen = [r \in Runs |-> {}]
  /\ turns = [r \in Runs |-> 0]
  /\ sent = [e \in Effects |-> 0]
  /\ inTransit = {}
  /\ stored = {}
  /\ invalid = {}
  /\ faults = 0

\* All the bucket holds, or is about to hold, under e's key.
AtKey(e, versions) == {v \in versions : KeyOf[v[1]] = KeyOf[e]}

-----------------------------------------------------------------------------
(* The journal's transactions, as what they make of a row.  One that       *)
(* throws leaves the row as it was.                                        *)

Absent(w) == [w EXCEPT !.status = "ABSENT", !.absent = TRUE]

\* Mutant of InFlight: the claim is answered but not persisted.
InFlightUnsaved(w) == w

InFlight(w) == [w EXCEPT !.status = "IN_FLIGHT"]

Accepts(w, v) ==
  /\ w.status \in {"IN_FLIGHT", "DISPATCHED_HOLD"}
  /\ w.writer \subseteq {v}

Accepted(w, v) ==
  IF Accepts(w, v) THEN [w EXCEPT !.writer = {v}, !.status = "ACCEPTED"] ELSE w

\* Mutants of DispatchedHold: an unanswered dispatch is not put on hold; an upload that
\* cannot be seen is done again.
DispatchedHoldRearmed(w) == [w EXCEPT !.status = "ABSENT"]
DispatchedHoldOfAccepted(w) ==
  IF w.status = "ACCEPTED" THEN [w EXCEPT !.status = "DISPATCHED_HOLD"] ELSE w

DispatchedHold(w) ==
  IF w.status \in {"IN_FLIGHT", "ACCEPTED"} THEN [w EXCEPT !.status = "DISPATCHED_HOLD"] ELSE w


Held(w) ==
  IF w.status \in {"CONFIRMED", "HOLD"} THEN w ELSE [w EXCEPT !.status = "HOLD"]

Confirms(w, v) ==
  /\ w.status \in {"IN_FLIGHT", "ACCEPTED", "DISPATCHED_HOLD"}
  /\ w.writer \subseteq {v}

Confirmed(w, v) == [w EXCEPT !.worm = {v}, !.status = "CONFIRMED"]

-----------------------------------------------------------------------------
(* One execution of the runner. *)

\* The run r throws: it is over, and its row becomes w.
EndRun(r, w) ==
  /\ row' = [row EXCEPT ![EffectOf[r]] = w]
  /\ pc' = [pc EXCEPT ![r] = "idle"]
  /\ seen' = [seen EXCEPT ![r] = {}]
  /\ turns' = [turns EXCEPT ![r] = 0]

\* The run r goes on at p, and its row becomes w.
GoOn(r, p, w) ==
  /\ row' = [row EXCEPT ![EffectOf[r]] = w]
  /\ pc' = [pc EXCEPT ![r] = p]
  /\ seen' = [seen EXCEPT ![r] = {}]
  /\ UNCHANGED turns

Outside == <<sent, inTransit, stored, invalid, faults>>

SealedRow(w) == IF w.status = "MISSING" THEN [w EXCEPT !.status = "PREPARED"] ELSE w

\* Mutant of Admitted: the serial queue does not wait for its predecessor.
AdmittedUnqueued(r) == TRUE

\* exclusive: a run is let in once no other of its effect is under way.
Admitted(r) == Exclusive => \A q \in Runs : EffectOf[q] = EffectOf[r] => pc[q] = "idle"

Seal(r) ==
  /\ pc[r] = "idle"
  /\ Admitted(r)
  /\ GoOn(r, "next", SealedRow(row[EffectOf[r]]))
  /\ UNCHANGED Outside

\* A turn of the loop: next() answered, and the run goes on at p.
Turn(r, p, w) ==
  /\ pc[r] = "next"
  /\ turns[r] < MAX_TRANSITIONS
  /\ row' = [row EXCEPT ![EffectOf[r]] = w]
  /\ pc' = [pc EXCEPT ![r] = p]
  /\ turns' = [turns EXCEPT ![r] = @ + 1]
  /\ UNCHANGED <<seen, sent, inTransit, stored, invalid, faults>>

NextCheckAbsence(r) ==
  LET w == row[EffectOf[r]] IN w.status = "PREPARED" /\ Turn(r, "absence", w)

\* ABSENT is consumed into IN_FLIGHT by the very call that answers DISPATCH.
NextDispatch(r) ==
  LET w == row[EffectOf[r]] IN w.status = "ABSENT" /\ Turn(r, "upload", InFlight(w))

NextReconcile(r) ==
  LET w == row[EffectOf[r]] IN
    /\ w.status \in {"IN_FLIGHT", "ACCEPTED", "DISPATCHED_HOLD"}
    /\ Turn(r, "reconcile", w)

\* COMPLETE returns the confirmed object, STOP_HOLD throws.
NextStop(r) ==
  /\ pc[r] = "next"
  /\ turns[r] < MAX_TRANSITIONS
  /\ row[EffectOf[r]].status \in {"CONFIRMED", "HOLD"}
  /\ EndRun(r, row[EffectOf[r]])
  /\ UNCHANGED Outside

\* The observer answers; the bucket may change before the answer is used.
Observe(r) ==
  /\ pc[r] \in {"absence", "reconcile"}
  /\ pc' = [pc EXCEPT ![r] = IF @ = "absence" THEN "absenceSeen" ELSE "reconcileSeen"]
  /\ seen' = [seen EXCEPT ![r] = AtKey(EffectOf[r], stored)]
  /\ UNCHANGED <<row, turns, sent, inTransit, stored, invalid, faults>>

MarkAbsent(r) ==
  LET w == row[EffectOf[r]] IN
    /\ pc[r] = "absenceSeen"
    /\ UNCHANGED Outside
    /\ \/ seen[r] = {} /\ w.status = "PREPARED" /\ GoOn(r, "next", Absent(w))
       \/ seen[r] = {} /\ w.status # "PREPARED" /\ w.absent /\ GoOn(r, "next", w)
       \/ seen[r] = {} /\ w.status # "PREPARED" /\ ~w.absent /\ EndRun(r, Held(w))
       \/ seen[r] # {} /\ EndRun(r, Held(w))

UploadSend(r) ==
  LET e == EffectOf[r] IN
    /\ pc[r] = "upload"
    /\ pc' = [pc EXCEPT ![r] = "uploading"]
    /\ sent' = [sent EXCEPT ![e] = @ + 1]
    /\ inTransit' = inTransit \cup {<<e, sent[e] + 1>>}
    /\ UNCHANGED <<row, seen, turns, stored, invalid, faults>>

UploadAnswer(r) ==
  /\ pc[r] = "uploading"
  /\ \E v \in stored : /\ v[1] = EffectOf[r]
                       /\ GoOn(r, "next", Accepted(row[EffectOf[r]], v))
  /\ UNCHANGED Outside

\* Whatever the upload throws is swallowed: before the request was sent, or
\* after, with the object stored or not.
UploadThrows(r) ==
  /\ pc[r] \in {"upload", "uploading"}
  /\ GoOn(r, "next", row[EffectOf[r]])
  /\ UNCHANGED Outside

\* Mutant of Sole: the latest version is taken, however many there are.
SoleLatest(versions, v) == v \in versions

\* The one version of an inventory, which is then also its latest.
Sole(versions, v) == versions = {v}

\* No version yet, or another one than the writer's: the run throws.
Reconcile(r) ==
  LET w == row[EffectOf[r]] IN
    /\ pc[r] = "reconcileSeen"
    /\ UNCHANGED Outside
    /\ \/ seen[r] = {} /\ EndRun(r, DispatchedHold(w))
       \/ \E v \in seen[r] :
            /\ Sole(seen[r], v)
            /\ \/ Confirms(w, v) /\ GoOn(r, "next", Confirmed(w, v))
               \/ w.status = "CONFIRMED" /\ w.worm = {v} /\ GoOn(r, "next", w)
               \/ /\ ~Confirms(w, v)
                  /\ ~(w.status = "CONFIRMED" /\ w.worm = {v})
                  /\ EndRun(r, Held(w))
       \/ (\E u, v \in seen[r] : u # v) /\ EndRun(r, Held(w))

-----------------------------------------------------------------------------
(* The world: faults, and uploads that arrive whoever still waits.         *)

Fault == faults < MaxFaults /\ faults' = faults + 1

\* A retryable observer error.
ObserverUnavailable(r) ==
  LET w == row[EffectOf[r]] IN
    /\ Fault
    /\ \/ pc[r] = "absence" /\ EndRun(r, w)
       \/ pc[r] = "reconcile" /\ EndRun(r, DispatchedHold(w))
    /\ UNCHANGED <<sent, inTransit, stored, invalid>>

\* A final one: the inventory is not what the bucket must hold.
ObserverInvalid(r) ==
  /\ pc[r] \in {"absence", "reconcile"}
  /\ EndRun(r, Held(row[EffectOf[r]]))
  /\ invalid' = invalid \cup {EffectOf[r]}
  /\ UNCHANGED <<sent, inTransit, stored, faults>>

Evict(e) ==
  /\ Fault
  /\ \E r \in Runs : EffectOf[r] = e /\ pc[r] # "idle"
  /\ pc' = [r \in Runs |-> IF EffectOf[r] = e THEN "idle" ELSE pc[r]]
  /\ seen' = [r \in Runs |-> IF EffectOf[r] = e THEN {} ELSE seen[r]]
  /\ turns' = [r \in Runs |-> IF EffectOf[r] = e THEN 0 ELSE turns[r]]
  /\ UNCHANGED <<row, sent, inTransit, stored, invalid>>

UploadLands(v) ==
  /\ v \in inTransit
  /\ inTransit' = inTransit \ {v}
  /\ stored' = stored \cup {v}
  /\ UNCHANGED <<row, pc, seen, turns, sent, invalid, faults>>

UploadLost(v) ==
  /\ Fault
  /\ v \in inTransit
  /\ inTransit' = inTransit \ {v}
  /\ UNCHANGED <<row, pc, seen, turns, sent, stored, invalid>>

RunStep(r) ==
  \/ NextCheckAbsence(r) \/ NextDispatch(r) \/ NextReconcile(r) \/ NextStop(r)
  \/ Observe(r) \/ MarkAbsent(r) \/ Reconcile(r)
  \/ UploadSend(r) \/ UploadAnswer(r) \/ UploadThrows(r)

EffectNext ==
  \/ \E r \in Runs : \/ Seal(r) \/ RunStep(r)
                     \/ ObserverUnavailable(r) \/ ObserverInvalid(r)
  \/ \E e \in Effects : Evict(e)
  \/ \E v \in inTransit : UploadLands(v) \/ UploadLost(v)

EffectSpec == EffectInit /\ [][EffectNext]_effectVars

\* A run that is not evicted goes on, its caller retries, and an upload not
\* lost arrives.
EffectFairness ==
  /\ \A r \in Runs : WF_effectVars(Seal(r)) /\ WF_effectVars(RunStep(r))
  /\ WF_effectVars(\E v \in inTransit : UploadLands(v))

EffectFairSpec == EffectSpec /\ EffectFairness

-----------------------------------------------------------------------------
(* What the effect promises. *)

\* The writer is called at most once per effect, whatever is evicted, retried
\* or run concurrently.
DispatchedOnce == \A e \in Effects : sent[e] <= 1

\* Effects about one key never confirm different versions of it, although they
\* check, dispatch and observe in any order, on answers that may be stale; and
\* a confirmed version is in the bucket.
ConfirmedAgree ==
  \A e, f \in Effects :
    row[e].status = "CONFIRMED" =>
      /\ row[e].worm \subseteq stored
      /\ row[f].status = "CONFIRMED" /\ KeyOf[e] = KeyOf[f] => row[f].worm = row[e].worm

\* The table's CHECK, and that a confirmed version is the writer's.
SatisfiesSchema(w) ==
  /\ w.status \in {"MISSING", "PREPARED"} => ~w.absent
  /\ w.status \notin {"MISSING", "PREPARED", "HOLD"} => w.absent
  /\ w.writer # {} => w.status \in {"ACCEPTED", "DISPATCHED_HOLD", "CONFIRMED", "HOLD"}
  /\ w.status = "ACCEPTED" => w.writer # {}
  /\ w.worm # {} <=> w.status = "CONFIRMED"
  /\ w.status = "CONFIRMED" => w.writer \subseteq w.worm

\* SQLite never has to refuse a write half-way through a run, and no effect
\* confirms another version than the one its writer was told.
RowsSatisfySchema == \A e \in Effects : SatisfiesSchema(row[e])

\* With the serial queue, an effect is held for good only for cause: an invalid
\* inventory, or an upload of another effect about its key.  No eviction, lost
\* answer or retry of its own makes it take its own object for a conflict.
HeldForCause ==
  \A e \in Effects :
    row[e].status = "HOLD" =>
      \/ e \in invalid
      \/ \E f \in Effects \ {e} : KeyOf[f] = KeyOf[e] /\ sent[f] > 0

\* A dispatched effect never becomes dispatchable again, and a confirmed or
\* held one never changes.
FinalKept(w, new) ==
  /\ w.status \in {"CONFIRMED", "HOLD"} => new = w
  /\ w.status \notin {"MISSING", "PREPARED", "ABSENT"} =>
       new.status \notin {"MISSING", "PREPARED", "ABSENT"}

KeepsFinal == \A e \in Effects : FinalKept(row[e], row'[e])
NeverRearmed == [][KeepsFinal]_effectVars

\* An effect that was sealed is, again and again retried, confirmed or held,
\* or waits for an object that nobody is uploading any more.
Settled(e) ==
  \/ row[e].status \in {"CONFIRMED", "HOLD"}
  \/ row[e].status = "DISPATCHED_HOLD" /\ AtKey(e, stored \cup inTransit) = {}

EffectsSettle == \A e \in Effects : row[e].status # "MISSING" ~> Settled(e)

=============================================================================
