----------------------------- MODULE Worm_proof -----------------------------
(***************************************************************************)
(* Proofs about what writes the WORM bucket, each component by itself.     *)
(*                                                                         *)
(* WormExactObjectEffect, for any number of effects, keys and concurrent   *)
(* runs, with and without the object's serial queue: the writer is called  *)
(* at most once per effect, effects of one key never disagree, and a       *)
(* dispatched effect is never rearmed.                                     *)
(*                                                                         *)
(* B2ExactObjectMirror, for any callers and objects: whoever is told of a  *)
(* version is told of the only one.                                        *)
(***************************************************************************)
EXTENDS WormExactObjectEffect, B2ExactObjectMirror, TLAPS


Undispatched == {"MISSING", "PREPARED", "ABSENT"}

\* What is still to be sent, and by whom: the one run that was answered
\* DISPATCH, as long as it has not called the writer.
OneClaim ==
  /\ \A e \in Effects : row[e].status \in Undispatched => sent[e] = 0
  /\ \A r \in Runs : pc[r] \in {"upload", "uploading", "reconcile", "reconcileSeen"} =>
       row[EffectOf[r]].status \notin Undispatched
  /\ \A r \in Runs : pc[r] = "upload" => sent[EffectOf[r]] = 0
  /\ \A r, q \in Runs :
       pc[r] = "upload" /\ pc[q] = "upload" /\ EffectOf[r] = EffectOf[q] => r = q
  /\ DispatchedOnce

\* Some run or some confirmed row holds {v} for the whole history of key k.
Witnessed(k, S) ==
  \/ \E r \in Runs : KeyOf[EffectOf[r]] = k /\ seen[r] = S
  \/ \E e \in Effects : KeyOf[e] = k /\ row[e].status = "CONFIRMED" /\ row[e].worm = S

\* An answer is part of what the bucket holds, and no two answers or confirmed
\* rows of one key are different single versions, however old they are.
SingleAgree ==
  /\ \A k \in Keys, S \in SUBSET Version :
       Witnessed(k, S) => S \subseteq {v \in stored : KeyOf[v[1]] = k}
  /\ \A k \in Keys, u, v \in Version : Witnessed(k, {u}) /\ Witnessed(k, {v}) => u = v
  /\ \A e \in Effects : row[e].status = "CONFIRMED" => \E v \in Version : row[e].worm = {v}

EffectInv ==
  /\ EffectTypeOK
  /\ OneClaim
  /\ SingleAgree

-----------------------------------------------------------------------------

\* Without rows, runs and versions the invariant holds.
LEMMA EffectInitInv == EffectInit => EffectInv
<1> SUFFICES ASSUME EffectInit PROVE EffectInv
  OBVIOUS
<1> USE EffectAssumption
<1>1. EffectTypeOK
  BY DEF EffectInit, EffectTypeOK, Row, MissingRow, Status
<1>2. OneClaim
  BY DEF EffectInit, OneClaim, DispatchedOnce, Undispatched, MissingRow
<1>3. \A k \in Keys, S \in SUBSET Version : Witnessed(k, S) => S = {}
  BY DEF EffectInit, Witnessed, MissingRow
<1>4. SingleAgree
  BY <1>3 DEF EffectInit, SingleAgree, MissingRow
<1>5. QED
  BY <1>1, <1>2, <1>4 DEF EffectInv

\* How one row may change in one step, seen from outside the run.
RowStep(w, new, v) ==
  \/ new = w
  \/ w.status = "MISSING" /\ new = [w EXCEPT !.status = "PREPARED"]
  \/ w.status = "PREPARED" /\ new = Absent(w)
  \/ w.status = "ABSENT" /\ new = InFlight(w)
  \/ new = Accepted(w, v)
  \/ new = DispatchedHold(w)
  \/ new = Held(w)
  \/ Confirms(w, v) /\ new = Confirmed(w, v)

\* Such a step keeps the row typed, final rows final and dispatched rows
\* dispatched, and confirms exactly the version it is about.
LEMMA RowStepTyped ==
  ASSUME NEW w \in Row, NEW new, NEW v \in Version, RowStep(w, new, v)
  PROVE  /\ new \in Row
         /\ w.status \notin Undispatched => new.status \notin Undispatched
         /\ w.status \in {"CONFIRMED", "HOLD"} => new = w
         /\ new.status \in Undispatched => w.status \in Undispatched
         /\ new.status = "CONFIRMED" /\ w.status # "CONFIRMED" => new.worm = {v}
         /\ new.status = "CONFIRMED" /\ w.status = "CONFIRMED" => new = w
<1>1. CASE new = w
  BY <1>1
<1>2. CASE w.status = "MISSING" /\ new = [w EXCEPT !.status = "PREPARED"]
  BY <1>2 DEF Row, Status, Undispatched
<1>3. CASE w.status = "PREPARED" /\ new = Absent(w)
  BY <1>3 DEF Row, Status, Undispatched, Absent
<1>4. CASE w.status = "ABSENT" /\ new = InFlight(w)
  BY <1>4 DEF Row, Status, Undispatched, InFlight
<1>5. CASE new # w /\ new = Accepted(w, v)
  <2>1. w.status \in {"IN_FLIGHT", "DISPATCHED_HOLD"}
        /\ new = [w EXCEPT !.writer = {v}, !.status = "ACCEPTED"]
    BY <1>5 DEF Accepted, Accepts
  <2>2. QED
    BY <2>1 DEF Row, Status, Undispatched
<1>6. CASE new # w /\ new = DispatchedHold(w)
  BY <1>6 DEF Row, Status, Undispatched, DispatchedHold
<1>7. CASE new # w /\ new = Held(w)
  BY <1>7 DEF Row, Status, Undispatched, Held
<1>8. CASE Confirms(w, v) /\ new = Confirmed(w, v)
  BY <1>8 DEF Row, Status, Undispatched, Confirms, Confirmed
<1>9. QED
  BY <1>1, <1>2, <1>3, <1>4, <1>5, <1>6, <1>7, <1>8 DEF RowStep

Answering == {"upload", "uploading", "reconcile", "reconcileSeen"}

\* A step that neither claims nor calls the writer, and learns nothing new,
\* keeps the invariant.
LEMMA QuietInv ==
  ASSUME EffectInv, EffectTypeOK', stored \subseteq stored', sent' = sent,
         \A e \in Effects : row'[e].status \in Undispatched => row[e].status \in Undispatched,
         \A r \in Runs : pc'[r] \in Answering =>
           pc[r] \in Answering \/ row'[EffectOf[r]].status \notin Undispatched,
         \A r \in Runs : pc'[r] = "upload" => pc[r] = "upload",
         \A r \in Runs : seen'[r] \in {seen[r], {}},
         \A e \in Effects : row'[e].status = "CONFIRMED" =>
           \/ row[e].status = "CONFIRMED" /\ row'[e].worm = row[e].worm
           \/ \E r \in Runs, v \in Version :
                EffectOf[r] = e /\ seen[r] = {v} /\ row'[e].worm = {v}
  PROVE  EffectInv'
<1> USE EffectAssumption
<1>1. OneClaim'
  <2>1. \A r \in Runs : EffectOf[r] \in Effects
    OBVIOUS
  <2>2. QED
    BY <2>1 DEF EffectInv, OneClaim, DispatchedOnce, Answering
<1>2. ASSUME NEW k \in Keys, NEW S \in SUBSET Version, Witnessed(k, S)', S # {}
      PROVE  Witnessed(k, S)
  <2>1. CASE \E r \in Runs : KeyOf[EffectOf[r]] = k /\ seen'[r] = S
    BY <1>2, <2>1 DEF Witnessed
  <2>2. CASE \E e \in Effects : KeyOf[e] = k /\ row'[e].status = "CONFIRMED" /\ row'[e].worm = S
    <3>1. PICK e \in Effects :
            KeyOf[e] = k /\ row'[e].status = "CONFIRMED" /\ row'[e].worm = S
      BY <2>2
    <3>2. CASE row[e].status = "CONFIRMED" /\ row'[e].worm = row[e].worm
      BY <3>1, <3>2 DEF Witnessed
    <3>3. CASE \E r \in Runs, v \in Version :
                 EffectOf[r] = e /\ seen[r] = {v} /\ row'[e].worm = {v}
      BY <3>1, <3>3 DEF Witnessed
    <3>4. QED
      BY <3>1, <3>2, <3>3
  <2>3. QED
    BY <1>2, <2>1, <2>2 DEF Witnessed
<1>3. SingleAgree'
  <2>1. ASSUME NEW k \in Keys, NEW S \in SUBSET Version, Witnessed(k, S)'
        PROVE  S \subseteq {v \in stored' : KeyOf[v[1]] = k}
    BY <1>2, <2>1 DEF EffectInv, SingleAgree
  <2>2. ASSUME NEW k \in Keys, NEW u \in Version, NEW v \in Version,
               Witnessed(k, {u})', Witnessed(k, {v})'
        PROVE  u = v
    <3>1. {u} \in SUBSET Version /\ {u} # {} /\ {v} \in SUBSET Version /\ {v} # {}
      OBVIOUS
    <3>2. Witnessed(k, {u}) /\ Witnessed(k, {v})
      BY <1>2, <2>2, <3>1
    <3>3. QED
      BY <3>2 DEF EffectInv, SingleAgree
  <2>3. ASSUME NEW e \in Effects, row'[e].status = "CONFIRMED"
        PROVE  \E v \in Version : row'[e].worm = {v}
    BY <2>3 DEF EffectInv, SingleAgree
  <2>4. QED
    BY <2>1, <2>2, <2>3 DEF SingleAgree
<1>4. QED
  BY <1>1, <1>3 DEF EffectInv

\* A step of run r that gives its row a legal new value, and goes on anywhere
\* but to the writer.
LEMMA RunInv ==
  ASSUME EffectInv, NEW r \in Runs, NEW new, NEW v \in Version, NEW p,
         RowStep(row[EffectOf[r]], new, v),
         Confirms(row[EffectOf[r]], v) /\ new = Confirmed(row[EffectOf[r]], v) => seen[r] = {v},
         row' = [row EXCEPT ![EffectOf[r]] = new],
         pc' = [pc EXCEPT ![r] = p],
         p \in {"idle", "next", "absence"} \/ (p = "reconcile" /\ new.status \notin Undispatched),
         seen' = seen \/ seen' = [seen EXCEPT ![r] = {}],
         turns' \in [Runs -> Nat], invalid' \in SUBSET Effects, faults' \in Nat,
         UNCHANGED <<sent, inTransit, stored>>
  PROVE  EffectInv'
<1> USE EffectAssumption
<1> DEFINE e == EffectOf[r]
<1> DEFINE w == row[e]
<1>1. e \in Effects /\ w \in Row
  BY DEF EffectInv, EffectTypeOK
<1>2. /\ new \in Row
      /\ w.status \notin Undispatched => new.status \notin Undispatched
      /\ new.status = "CONFIRMED" /\ w.status = "CONFIRMED" => new = w
  BY <1>1, RowStepTyped
<1>3. new.status = "CONFIRMED" /\ w.status # "CONFIRMED" => seen[r] = {v} /\ new.worm = {v}
  <2> SUFFICES ASSUME new.status = "CONFIRMED", w.status # "CONFIRMED"
               PROVE  seen[r] = {v} /\ new.worm = {v}
    OBVIOUS
  <2>1. new.worm = {v}
    BY <1>1, RowStepTyped
  <2>2. Confirms(w, v) /\ new = Confirmed(w, v)
    BY <1>1 DEF RowStep, Row, Absent, InFlight, Accepted, DispatchedHold, Held
  <2>3. QED
    BY <2>1, <2>2
<1>4. EffectTypeOK'
  BY <1>1, <1>2 DEF EffectInv, EffectTypeOK
<1>5. row'[e] = new /\ \A f \in Effects \ {e} : row'[f] = row[f]
  BY <1>1 DEF EffectInv, EffectTypeOK
<1>6. \A f \in Effects : row'[f].status \in Undispatched => row[f].status \in Undispatched
  BY <1>2, <1>5
<1>7. pc'[r] = p /\ \A q \in Runs \ {r} : pc'[q] = pc[q]
  BY DEF EffectInv, EffectTypeOK
<1>8. \A q \in Runs : pc'[q] \in Answering =>
        pc[q] \in Answering \/ row'[EffectOf[q]].status \notin Undispatched
  BY <1>5, <1>7 DEF Answering
<1>9. \A q \in Runs : pc'[q] = "upload" => pc[q] = "upload"
  BY <1>7
<1>10. \A q \in Runs : seen'[q] \in {seen[q], {}}
  BY DEF EffectInv, EffectTypeOK
<1>11. \A f \in Effects : row'[f].status = "CONFIRMED" =>
         \/ row[f].status = "CONFIRMED" /\ row'[f].worm = row[f].worm
         \/ \E q \in Runs, u \in Version :
              EffectOf[q] = f /\ seen[q] = {u} /\ row'[f].worm = {u}
  BY <1>2, <1>3, <1>5
<1>12. QED
  BY <1>4, <1>6, <1>8, <1>9, <1>10, <1>11, QuietInv

-----------------------------------------------------------------------------
(* The actions. *)

\* A version to instantiate RunInv with where the step is about none.
LEMMA SomeVersion == ASSUME NEW r \in Runs PROVE <<EffectOf[r], 0>> \in Version
  BY EffectAssumption DEF Version

\* Sealing starts a run and at most fills in a missing row.
LEMMA SealInv == ASSUME EffectInv, NEW r \in Runs, Seal(r) PROVE EffectInv'
<1>1. RowStep(row[EffectOf[r]], SealedRow(row[EffectOf[r]]), <<EffectOf[r], 0>>)
  BY DEF RowStep, SealedRow
<1>2. ~(Confirms(row[EffectOf[r]], <<EffectOf[r], 0>>)
        /\ SealedRow(row[EffectOf[r]]) = Confirmed(row[EffectOf[r]], <<EffectOf[r], 0>>))
  <2>1. row[EffectOf[r]] \in Row
    BY EffectAssumption DEF EffectInv, EffectTypeOK
  <2>2. QED
    BY <2>1 DEF SealedRow, Confirms, Confirmed, Row
<1>3. QED
  BY <1>1, <1>2, SomeVersion, RunInv
  DEF Seal, GoOn, Outside, EffectInv, EffectTypeOK

\* A step that leaves the row as it is.
LEMMA SameRowInv ==
  ASSUME EffectInv, NEW r \in Runs, NEW p,
         row' = [row EXCEPT ![EffectOf[r]] = row[EffectOf[r]]],
         pc' = [pc EXCEPT ![r] = p],
         \/ p \in {"idle", "next", "absence"}
         \/ p = "reconcile" /\ row[EffectOf[r]].status \notin Undispatched,
         seen' = seen \/ seen' = [seen EXCEPT ![r] = {}],
         turns' \in [Runs -> Nat], invalid' \in SUBSET Effects, faults' \in Nat,
         UNCHANGED <<sent, inTransit, stored>>
  PROVE  EffectInv'
<1> DEFINE w == row[EffectOf[r]]
<1>1. w \in Row
  BY EffectAssumption DEF EffectInv, EffectTypeOK
<1>2. ~(Confirms(w, <<EffectOf[r], 0>>) /\ w = Confirmed(w, <<EffectOf[r], 0>>))
  BY <1>1 DEF Confirms, Confirmed, Row
<1>3. RowStep(w, w, <<EffectOf[r], 0>>)
  BY DEF RowStep
<1>4. QED
  BY <1>2, <1>3, SomeVersion, RunInv

\* A turn of the loop keeps the counters typed.
LEMMA TurnTyped ==
  ASSUME EffectInv, NEW r \in Runs, NEW p, NEW w, Turn(r, p, w)
  PROVE  /\ turns' \in [Runs -> Nat]
         /\ invalid' \in SUBSET Effects
         /\ faults' \in Nat
  BY DEF Turn, EffectInv, EffectTypeOK

\* The answers of next() other than DISPATCH leave the row as it is.
LEMMA NextInv ==
  ASSUME EffectInv, NEW r \in Runs,
         NextCheckAbsence(r) \/ NextReconcile(r) \/ NextStop(r)
  PROVE  EffectInv'
<1>1. CASE NextCheckAbsence(r)
  <2>1. Turn(r, "absence", row[EffectOf[r]])
    BY <1>1 DEF NextCheckAbsence
  <2>2. QED
    BY <2>1, TurnTyped, SameRowInv DEF Turn
<1>2. CASE NextReconcile(r)
  <2>1. Turn(r, "reconcile", row[EffectOf[r]])
        /\ row[EffectOf[r]].status \notin Undispatched
    BY <1>2 DEF NextReconcile, Undispatched
  <2>2. QED
    BY <2>1, TurnTyped, SameRowInv DEF Turn
<1>3. CASE NextStop(r)
  BY <1>3, SameRowInv DEF NextStop, EndRun, Outside, EffectInv, EffectTypeOK
<1>4. QED
  BY <1>1, <1>2, <1>3

\* The claim: the one step that sets a run on its way to the writer.
LEMMA NextDispatchInv ==
  ASSUME EffectInv, NEW r \in Runs, NextDispatch(r) PROVE EffectInv'
<1> USE EffectAssumption
<1> DEFINE e == EffectOf[r]
<1> DEFINE w == row[e]
<1>1. e \in Effects /\ w \in Row /\ w.status = "ABSENT" /\ Turn(r, "upload", InFlight(w))
  BY DEF NextDispatch, EffectInv, EffectTypeOK
<1>2. InFlight(w) \in Row /\ InFlight(w).status = "IN_FLIGHT"
  BY <1>1 DEF InFlight, Row, Status
<1>3. /\ row' = [row EXCEPT ![e] = InFlight(w)]
      /\ pc' = [pc EXCEPT ![r] = "upload"]
      /\ turns' = [turns EXCEPT ![r] = @ + 1]
      /\ UNCHANGED <<seen, sent, inTransit, stored, invalid, faults>>
  BY <1>1 DEF Turn
<1>4. EffectTypeOK'
  BY <1>1, <1>2, <1>3 DEF EffectInv, EffectTypeOK
<1>5. row'[e].status = "IN_FLIGHT" /\ \A f \in Effects \ {e} : row'[f] = row[f]
  BY <1>1, <1>2, <1>3 DEF EffectInv, EffectTypeOK
<1>6. pc'[r] = "upload" /\ \A q \in Runs \ {r} : pc'[q] = pc[q]
  BY <1>3 DEF EffectInv, EffectTypeOK
<1>7. sent[e] = 0 /\ \A q \in Runs : EffectOf[q] = e => pc[q] \notin Answering
  BY <1>1 DEF EffectInv, OneClaim, Undispatched, Answering
<1>8. OneClaim'
  <2>1. \A f \in Effects : row'[f].status \in Undispatched => sent'[f] = 0
    BY <1>3, <1>5 DEF EffectInv, OneClaim, Undispatched
  <2>2. \A q \in Runs : pc'[q] \in Answering => row'[EffectOf[q]].status \notin Undispatched
    BY <1>5, <1>6 DEF EffectInv, OneClaim, Undispatched, Answering
  <2>3. \A q \in Runs : pc'[q] = "upload" => sent'[EffectOf[q]] = 0
    BY <1>3, <1>6, <1>7 DEF EffectInv, OneClaim
  <2>4. \A q, o \in Runs :
          pc'[q] = "upload" /\ pc'[o] = "upload" /\ EffectOf[q] = EffectOf[o] => q = o
    BY <1>6, <1>7 DEF EffectInv, OneClaim, Answering
  <2>5. DispatchedOnce'
    BY <1>3 DEF EffectInv, OneClaim, DispatchedOnce
  <2>6. QED
    BY <2>1, <2>2, <2>3, <2>4, <2>5 DEF OneClaim, Answering
<1>9. \A f \in Effects : row'[f].status = "CONFIRMED" => row'[f] = row[f]
  BY <1>5
<1>10. \A k \in Keys, S \in SUBSET Version : Witnessed(k, S)' => Witnessed(k, S)
  BY <1>3, <1>9 DEF Witnessed
<1>11. SingleAgree'
  <2>1. \A k \in Keys, S \in SUBSET Version :
          Witnessed(k, S)' => S \subseteq {v \in stored' : KeyOf[v[1]] = k}
    BY <1>3, <1>10 DEF EffectInv, SingleAgree
  <2>2. \A v \in Version : {v} \in SUBSET Version
    OBVIOUS
  <2>3. \A k \in Keys, u, v \in Version : Witnessed(k, {u})' /\ Witnessed(k, {v})' => u = v
    BY <1>10, <2>2 DEF EffectInv, SingleAgree
  <2>4. \A f \in Effects : row'[f].status = "CONFIRMED" => \E v \in Version : row'[f].worm = {v}
    BY <1>9 DEF EffectInv, SingleAgree
  <2>5. QED
    BY <2>1, <2>3, <2>4 DEF SingleAgree
<1>12. QED
  BY <1>4, <1>8, <1>11 DEF EffectInv

\* The one call of the writer.
LEMMA UploadSendInv ==
  ASSUME EffectInv, NEW r \in Runs, UploadSend(r) PROVE EffectInv'
<1> USE EffectAssumption
<1> DEFINE e == EffectOf[r]
<1>1. e \in Effects /\ pc[r] = "upload" /\ sent[e] = 0
  BY DEF UploadSend, EffectInv, OneClaim
<1>2. /\ pc' = [pc EXCEPT ![r] = "uploading"]
      /\ sent' = [sent EXCEPT ![e] = @ + 1]
      /\ inTransit' = inTransit \cup {<<e, sent[e] + 1>>}
      /\ UNCHANGED <<row, seen, turns, stored, invalid, faults>>
  BY DEF UploadSend
<1>3. sent'[e] = 1 /\ \A f \in Effects \ {e} : sent'[f] = sent[f]
  BY <1>1, <1>2 DEF EffectInv, EffectTypeOK
<1>4. <<e, sent[e] + 1>> \in Version
  BY <1>1 DEF Version
<1>5. EffectTypeOK'
  BY <1>1, <1>2, <1>4 DEF EffectInv, EffectTypeOK
<1>6. pc'[r] = "uploading" /\ \A q \in Runs \ {r} : pc'[q] = pc[q]
  BY <1>2 DEF EffectInv, EffectTypeOK
<1>7. OneClaim'
  <2>1. row[e].status \notin Undispatched
    BY <1>1 DEF EffectInv, OneClaim
  <2>2. \A f \in Effects : row'[f].status \in Undispatched => sent'[f] = 0
    BY <1>2, <1>3, <2>1 DEF EffectInv, OneClaim
  <2>3. \A q \in Runs : pc'[q] \in Answering => row'[EffectOf[q]].status \notin Undispatched
    BY <1>2, <1>6, <2>1 DEF EffectInv, OneClaim, Answering
  <2>4. \A q \in Runs \ {r} : pc[q] = "upload" => EffectOf[q] # e
    BY <1>1 DEF EffectInv, OneClaim
  <2>5. \A q \in Runs : pc'[q] = "upload" => sent'[EffectOf[q]] = 0
    BY <1>3, <1>6, <2>4 DEF EffectInv, OneClaim
  <2>6. \A q, o \in Runs :
          pc'[q] = "upload" /\ pc'[o] = "upload" /\ EffectOf[q] = EffectOf[o] => q = o
    BY <1>6 DEF EffectInv, OneClaim
  <2>7. DispatchedOnce'
    BY <1>3 DEF EffectInv, OneClaim, DispatchedOnce
  <2>8. QED
    BY <2>2, <2>3, <2>5, <2>6, <2>7 DEF OneClaim, Answering
<1>8. \A k, S : Witnessed(k, S)' <=> Witnessed(k, S)
  BY <1>2 DEF Witnessed
<1>9. SingleAgree'
  BY <1>2, <1>8 DEF EffectInv, SingleAgree
<1>10. QED
  BY <1>5, <1>7, <1>9 DEF EffectInv

\* An upload that answers or throws only moves its own row to ACCEPTED.
LEMMA UploadEndInv ==
  ASSUME EffectInv, NEW r \in Runs, UploadAnswer(r) \/ UploadThrows(r) PROVE EffectInv'
<1>1. CASE UploadAnswer(r)
  <2>1. PICK v \in stored : GoOn(r, "next", Accepted(row[EffectOf[r]], v))
    BY <1>1 DEF UploadAnswer
  <2>2. v \in Version /\ row[EffectOf[r]] \in Row
    BY EffectAssumption DEF EffectInv, EffectTypeOK
  <2>3. RowStep(row[EffectOf[r]], Accepted(row[EffectOf[r]], v), v)
    BY DEF RowStep
  <2>4. ~(Confirms(row[EffectOf[r]], v)
          /\ Accepted(row[EffectOf[r]], v) = Confirmed(row[EffectOf[r]], v))
    BY <2>2 DEF Confirms, Accepted, Confirmed, Row
  <2>5. QED
    BY <1>1, <2>1, <2>2, <2>3, <2>4, RunInv
    DEF UploadAnswer, GoOn, Outside, EffectInv, EffectTypeOK
<1>2. CASE UploadThrows(r)
  BY <1>2, SameRowInv DEF UploadThrows, GoOn, Outside, EffectInv, EffectTypeOK
<1>3. QED
  BY <1>1, <1>2

\* A run that is over, whatever its last write.
LEMMA EndRunInv ==
  ASSUME EffectInv, NEW r \in Runs, NEW new, EndRun(r, new),
         new \in {row[EffectOf[r]], Held(row[EffectOf[r]]), DispatchedHold(row[EffectOf[r]])},
         invalid' \in SUBSET Effects, faults' \in Nat, UNCHANGED <<sent, inTransit, stored>>
  PROVE  EffectInv'
<1> DEFINE w == row[EffectOf[r]]
<1> DEFINE v == <<EffectOf[r], 0>>
<1>1. w \in Row
  BY EffectAssumption DEF EffectInv, EffectTypeOK
<1>2. RowStep(w, new, v)
  BY DEF RowStep
<1>3. ~(Confirms(w, v) /\ new = Confirmed(w, v))
  BY <1>1 DEF Confirms, Confirmed, Held, DispatchedHold, Row
<1>4. turns' \in [Runs -> Nat]
  BY DEF EndRun, EffectInv, EffectTypeOK
<1>5. QED
  BY <1>2, <1>3, <1>4, SomeVersion, RunInv DEF EndRun

\* An absence answer makes a PREPARED row ABSENT, holds the row, or does nothing.
LEMMA MarkAbsentInv ==
  ASSUME EffectInv, NEW r \in Runs, MarkAbsent(r) PROVE EffectInv'
<1> DEFINE w == row[EffectOf[r]]
<1> DEFINE v == <<EffectOf[r], 0>>
<1>1. w \in Row
  BY EffectAssumption DEF EffectInv, EffectTypeOK
<1>2. UNCHANGED Outside /\ invalid \in SUBSET Effects /\ faults \in Nat
  BY DEF MarkAbsent, EffectInv, EffectTypeOK
<1>3. CASE w.status = "PREPARED" /\ GoOn(r, "next", Absent(w))
  <2>1. RowStep(w, Absent(w), v)
    BY <1>3 DEF RowStep
  <2>2. ~(Confirms(w, v) /\ Absent(w) = Confirmed(w, v))
    BY <1>3 DEF Confirms
  <2>3. QED
    BY <1>2, <1>3, <2>1, <2>2, SomeVersion, RunInv DEF GoOn, Outside, EffectInv, EffectTypeOK
<1>4. CASE GoOn(r, "next", w)
  BY <1>2, <1>4, SameRowInv DEF GoOn, Outside, EffectInv, EffectTypeOK
<1>5. CASE EndRun(r, Held(w))
  BY <1>2, <1>5, EndRunInv DEF Outside
<1>6. QED
  BY <1>3, <1>4, <1>5 DEF MarkAbsent

\* A reconciliation confirms the one version it was answered with, or ends its
\* run with the row on hold.
LEMMA ReconcileInv ==
  ASSUME EffectInv, NEW r \in Runs, Reconcile(r) PROVE EffectInv'
<1> DEFINE w == row[EffectOf[r]]
<1>1. UNCHANGED Outside /\ invalid \in SUBSET Effects /\ faults \in Nat
  BY DEF Reconcile, EffectInv, EffectTypeOK
<1>2. CASE \E new \in {Held(w), DispatchedHold(w)} : EndRun(r, new)
  BY <1>1, <1>2, EndRunInv DEF Outside
<1>3. CASE GoOn(r, "next", w)
  BY <1>1, <1>3, SameRowInv DEF GoOn, Outside, EffectInv, EffectTypeOK
<1>4. CASE \E v \in seen[r] : /\ Sole(seen[r], v)
                              /\ Confirms(w, v)
                              /\ GoOn(r, "next", Confirmed(w, v))
  <2>1. PICK v \in seen[r] : /\ seen[r] = {v}
                             /\ Confirms(w, v)
                             /\ GoOn(r, "next", Confirmed(w, v))
    BY <1>4 DEF Sole
  <2>2. v \in Version
    BY DEF EffectInv, EffectTypeOK
  <2>3. RowStep(w, Confirmed(w, v), v)
    BY <2>1 DEF RowStep
  <2>4. QED
    BY <1>1, <2>1, <2>2, <2>3, RunInv DEF GoOn, Outside, EffectInv, EffectTypeOK
<1>5. QED
  BY <1>2, <1>3, <1>4 DEF Reconcile

\* The one step that learns something.  Its answer is the whole inventory, so
\* a single version in it is the one any older answer or confirmed row holds.
LEMMA ObserveInv ==
  ASSUME EffectInv, NEW r \in Runs, Observe(r) PROVE EffectInv'
<1> USE EffectAssumption
<1> DEFINE e == EffectOf[r]
<1> DEFINE A == AtKey(e, stored)
<1>1. /\ e \in Effects
      /\ KeyOf[e] \in Keys
      /\ pc[r] \in {"absence", "reconcile"}
      /\ seen' = [seen EXCEPT ![r] = A]
      /\ UNCHANGED <<row, turns, sent, inTransit, stored, invalid, faults>>
  BY DEF Observe
<1>2. A = {v \in stored : KeyOf[v[1]] = KeyOf[e]} /\ A \in SUBSET Version
  BY DEF AtKey, EffectInv, EffectTypeOK
<1>3. pc' = [pc EXCEPT ![r] = IF @ = "absence" THEN "absenceSeen" ELSE "reconcileSeen"]
  BY DEF Observe
<1>4. EffectTypeOK'
  BY <1>1, <1>2, <1>3 DEF EffectInv, EffectTypeOK
<1>5. OneClaim'
  BY <1>1, <1>3, <1>4 DEF EffectInv, EffectTypeOK, OneClaim, DispatchedOnce
<1>6. seen'[r] = A /\ \A q \in Runs \ {r} : seen'[q] = seen[q]
  BY <1>1 DEF EffectInv, EffectTypeOK
<1>7. ASSUME NEW k \in Keys, NEW S \in SUBSET Version, Witnessed(k, S)'
      PROVE  Witnessed(k, S) \/ (k = KeyOf[e] /\ S = A)
  BY <1>1, <1>6, <1>7 DEF Witnessed
<1>8. \A k \in Keys, S \in SUBSET Version :
        Witnessed(k, S)' => S \subseteq {v \in stored : KeyOf[v[1]] = k}
  BY <1>2, <1>7 DEF EffectInv, SingleAgree
<1>9. ASSUME NEW k \in Keys, NEW u \in Version, NEW v \in Version,
             Witnessed(k, {u})', Witnessed(k, {v})'
      PROVE  u = v
  <2>1. {u} \in SUBSET Version /\ {v} \in SUBSET Version
    OBVIOUS
  <2>2. u \in {o \in stored : KeyOf[o[1]] = k} /\ v \in {o \in stored : KeyOf[o[1]] = k}
    BY <1>8, <1>9, <2>1
  <2>3. CASE Witnessed(k, {u}) /\ Witnessed(k, {v})
    BY <2>3 DEF EffectInv, SingleAgree
  <2>4. CASE k = KeyOf[e] /\ {u} = A
    BY <1>2, <2>2, <2>4
  <2>5. CASE k = KeyOf[e] /\ {v} = A
    BY <1>2, <2>2, <2>5
  <2>6. QED
    BY <1>7, <1>9, <2>1, <2>3, <2>4, <2>5
<1>10. SingleAgree'
  BY <1>1, <1>8, <1>9 DEF EffectInv, SingleAgree
<1>11. QED
  BY <1>4, <1>5, <1>10 DEF EffectInv

\* An eviction forgets the runs of an effect and none of its durable state.
LEMMA EvictInv ==
  ASSUME EffectInv, NEW e \in Effects, Evict(e) PROVE EffectInv'
<1> USE EffectAssumption
<1>1. /\ pc' = [r \in Runs |-> IF EffectOf[r] = e THEN "idle" ELSE pc[r]]
      /\ seen' = [r \in Runs |-> IF EffectOf[r] = e THEN {} ELSE seen[r]]
      /\ turns' = [r \in Runs |-> IF EffectOf[r] = e THEN 0 ELSE turns[r]]
      /\ faults' = faults + 1
      /\ UNCHANGED <<row, sent, inTransit, stored, invalid>>
  BY DEF Evict, Fault
<1>2. EffectTypeOK'
  BY <1>1 DEF EffectInv, EffectTypeOK
<1>3. \A r \in Runs : pc'[r] \in {pc[r], "idle"}
  BY <1>1
<1>4. \A r \in Runs : seen'[r] \in {seen[r], {}}
  BY <1>1
<1>5. \A f \in Effects : row'[f].status = "CONFIRMED" =>
        row[f].status = "CONFIRMED" /\ row'[f].worm = row[f].worm
  BY <1>1
<1>6. \A r \in Runs : pc'[r] \in Answering => pc[r] \in Answering
  BY <1>3 DEF Answering
<1>7. QED
  BY <1>1, <1>2, <1>3, <1>4, <1>5, <1>6, QuietInv

\* Uploads land or get lost: the bucket only grows.
LEMMA UploadMovesInv ==
  ASSUME EffectInv, NEW v \in inTransit, UploadLands(v) \/ UploadLost(v) PROVE EffectInv'
<1>1. /\ stored \subseteq stored'
      /\ UNCHANGED <<row, pc, seen, sent>>
  BY DEF UploadLands, UploadLost
<1>2. EffectTypeOK'
  BY DEF UploadLands, UploadLost, Fault, EffectInv, EffectTypeOK
<1>3. QED
  BY <1>1, <1>2, QuietInv

\* An observer error ends the run, with its row kept or put on hold.
LEMMA ObserverFailsInv ==
  ASSUME EffectInv, NEW r \in Runs, ObserverUnavailable(r) \/ ObserverInvalid(r)
  PROVE  EffectInv'
<1> DEFINE w == row[EffectOf[r]]
<1>1. /\ \E new \in {w, Held(w), DispatchedHold(w)} : EndRun(r, new)
      /\ invalid' \in SUBSET Effects
      /\ faults' \in Nat
      /\ UNCHANGED <<sent, inTransit, stored>>
  BY EffectAssumption
  DEF ObserverUnavailable, ObserverInvalid, Fault, EffectInv, EffectTypeOK
<1>2. QED
  BY <1>1, EndRunInv

\* A step that changes nothing keeps the invariant.
LEMMA EffectStutterInv == ASSUME EffectInv, UNCHANGED effectVars PROVE EffectInv'
<1>1. EffectTypeOK'
  BY DEF effectVars, EffectInv, EffectTypeOK
<1>2. UNCHANGED <<row, pc, seen, sent, stored>>
  BY DEF effectVars
<1>3. QED
  BY <1>1, <1>2, QuietInv

-----------------------------------------------------------------------------
(* The theorems. *)

\* Every step of the system keeps the invariant.
LEMMA EffectStepInv == ASSUME EffectInv, [EffectNext]_effectVars PROVE EffectInv'
<1>1. ASSUME NEW r \in Runs, Seal(r) PROVE EffectInv'
  BY <1>1, SealInv
<1>2. ASSUME NEW r \in Runs, RunStep(r) PROVE EffectInv'
  BY <1>2, NextInv, NextDispatchInv, ObserveInv, MarkAbsentInv, ReconcileInv,
     UploadSendInv, UploadEndInv
  DEF RunStep
<1>3. ASSUME NEW r \in Runs, ObserverUnavailable(r) \/ ObserverInvalid(r) PROVE EffectInv'
  BY <1>3, ObserverFailsInv
<1>4. ASSUME NEW e \in Effects, Evict(e) PROVE EffectInv'
  BY <1>4, EvictInv
<1>5. ASSUME NEW v \in inTransit, UploadLands(v) \/ UploadLost(v) PROVE EffectInv'
  BY <1>5, UploadMovesInv
<1>6. CASE UNCHANGED effectVars
  BY <1>6, EffectStutterInv
<1>7. QED
  BY <1>1, <1>2, <1>3, <1>4, <1>5, <1>6 DEF EffectNext

\* The invariant: one claim on the writer, and one version per key.
THEOREM EffectInvariant == EffectSpec => []EffectInv
<1>1. EffectInv /\ [EffectNext]_effectVars => EffectInv'
  BY EffectStepInv
<1>2. QED
  BY EffectInitInv, <1>1, PTL DEF EffectSpec

\* Every journal row, run and version stays of its type.
THEOREM EffectTypeCorrect == EffectSpec => []EffectTypeOK
<1>1. EffectInv => EffectTypeOK
  BY DEF EffectInv
<1>2. QED
  BY EffectInvariant, <1>1, PTL

\* No effect ever calls the writer twice, with any number of concurrent runs,
\* evictions, retries and lost answers.
THEOREM WriterCalledOnce == EffectSpec => []DispatchedOnce
<1>1. EffectInv => DispatchedOnce
  BY DEF EffectInv, OneClaim
<1>2. QED
  BY EffectInvariant, <1>1, PTL

\* Effects of one key confirm one version, and it is in the bucket.
THEOREM EffectsOfOneKeyAgree == EffectSpec => []ConfirmedAgree
<1>1. EffectInv => ConfirmedAgree
  <2> USE EffectAssumption
  <2> SUFFICES ASSUME EffectInv, NEW e \in Effects, NEW f \in Effects,
                      row[e].status = "CONFIRMED"
               PROVE  /\ row[e].worm \subseteq stored
                      /\ row[f].status = "CONFIRMED" /\ KeyOf[e] = KeyOf[f] =>
                           row[f].worm = row[e].worm
    BY DEF ConfirmedAgree
  <2>1. PICK u \in Version : row[e].worm = {u}
    BY DEF EffectInv, SingleAgree
  <2>2. {u} \in SUBSET Version /\ Witnessed(KeyOf[e], {u}) /\ KeyOf[e] \in Keys
    BY <2>1 DEF Witnessed
  <2>3. row[e].worm \subseteq stored
    BY <2>1, <2>2 DEF EffectInv, SingleAgree
  <2>4. ASSUME row[f].status = "CONFIRMED", KeyOf[e] = KeyOf[f]
        PROVE  row[f].worm = row[e].worm
    <3>1. PICK v \in Version : row[f].worm = {v}
      BY <2>4 DEF EffectInv, SingleAgree
    <3>2. Witnessed(KeyOf[e], {v})
      BY <2>4, <3>1 DEF Witnessed
    <3>3. u = v
      BY <2>2, <3>2 DEF EffectInv, SingleAgree
    <3>4. QED
      BY <2>1, <3>1, <3>3
  <2>5. QED
    BY <2>3, <2>4
<1>2. QED
  BY EffectInvariant, <1>1, PTL

\* Seen from its row, every step of the system is one of RowStep.
LEMMA StepsAreRowSteps ==
  ASSUME EffectInv, [EffectNext]_effectVars, NEW e \in Effects
  PROVE  \E v \in Version : RowStep(row[e], row'[e], v)
<1> USE EffectAssumption
<1> DEFINE Goal == \E v \in Version : RowStep(row[e], row'[e], v)
<1>1. <<e, 0>> \in Version
  BY DEF Version
<1>2. ASSUME row'[e] = row[e] PROVE Goal
  BY <1>1, <1>2 DEF RowStep
<1>3. ASSUME NEW r \in Runs, NEW new, NEW v \in Version,
             RowStep(row[EffectOf[r]], new, v), row' = [row EXCEPT ![EffectOf[r]] = new]
      PROVE  Goal
  <2>1. CASE e = EffectOf[r]
    BY <1>3, <2>1 DEF EffectInv, EffectTypeOK
  <2>2. CASE e # EffectOf[r]
    BY <1>2, <1>3, <2>2 DEF EffectInv, EffectTypeOK
  <2>3. QED
    BY <2>1, <2>2
<1>4. ASSUME NEW r \in Runs, NEW new, row' = [row EXCEPT ![EffectOf[r]] = new],
             \/ new \in {row[EffectOf[r]], SealedRow(row[EffectOf[r]]),
                         Held(row[EffectOf[r]]), DispatchedHold(row[EffectOf[r]])}
             \/ row[EffectOf[r]].status = "PREPARED" /\ new = Absent(row[EffectOf[r]])
             \/ row[EffectOf[r]].status = "ABSENT" /\ new = InFlight(row[EffectOf[r]])
      PROVE  Goal
  <2>1. RowStep(row[EffectOf[r]], new, <<EffectOf[r], 0>>)
    BY <1>4 DEF RowStep, SealedRow
  <2>2. QED
    BY <1>3, <1>4, <2>1, SomeVersion
<1>5. ASSUME NEW r \in Runs, Seal(r) PROVE Goal
  BY <1>4, <1>5 DEF Seal, GoOn
<1>6. ASSUME NEW r \in Runs, NextCheckAbsence(r) \/ NextDispatch(r) \/ NextReconcile(r)
      PROVE Goal
  BY <1>4, <1>6 DEF NextCheckAbsence, NextDispatch, NextReconcile, Turn
<1>7. ASSUME NEW r \in Runs, NextStop(r) \/ UploadThrows(r) PROVE Goal
  BY <1>4, <1>7 DEF NextStop, UploadThrows, EndRun, GoOn
<1>8. ASSUME NEW r \in Runs, Observe(r) \/ UploadSend(r) PROVE Goal
  BY <1>2, <1>8 DEF Observe, UploadSend
<1>9. ASSUME NEW r \in Runs, MarkAbsent(r) PROVE Goal
  BY <1>4, <1>9 DEF MarkAbsent, EndRun, GoOn
<1>10. ASSUME NEW r \in Runs, UploadAnswer(r) PROVE Goal
  <2>1. PICK v \in stored : GoOn(r, "next", Accepted(row[EffectOf[r]], v))
    BY <1>10 DEF UploadAnswer
  <2>2. v \in Version
    BY DEF EffectInv, EffectTypeOK
  <2>3. RowStep(row[EffectOf[r]], Accepted(row[EffectOf[r]], v), v)
    BY DEF RowStep
  <2>4. QED
    BY <1>3, <2>1, <2>2, <2>3 DEF GoOn
<1>11. ASSUME NEW r \in Runs, Reconcile(r) PROVE Goal
  <2> DEFINE w == row[EffectOf[r]]
  <2>1. CASE \E new \in {w, Held(w), DispatchedHold(w)} : row' = [row EXCEPT ![EffectOf[r]] = new]
    BY <1>4, <2>1
  <2>2. CASE \E v \in seen[r] :
               Confirms(w, v) /\ row' = [row EXCEPT ![EffectOf[r]] = Confirmed(w, v)]
    <3>1. PICK v \in seen[r] :
            Confirms(w, v) /\ row' = [row EXCEPT ![EffectOf[r]] = Confirmed(w, v)]
      BY <2>2
    <3>2. v \in Version
      BY DEF EffectInv, EffectTypeOK
    <3>3. RowStep(w, Confirmed(w, v), v)
      BY <3>1 DEF RowStep
    <3>4. QED
      BY <1>3, <3>1, <3>2, <3>3
  <2>3. QED
    BY <1>11, <2>1, <2>2 DEF Reconcile, EndRun, GoOn
<1>12. ASSUME NEW r \in Runs, ObserverUnavailable(r) \/ ObserverInvalid(r) PROVE Goal
  BY <1>4, <1>12 DEF ObserverUnavailable, ObserverInvalid, EndRun
<1>13. CASE UNCHANGED row
  BY <1>2, <1>13
<1>14. QED
  BY <1>5, <1>6, <1>7, <1>8, <1>9, <1>10, <1>11, <1>12, <1>13
  DEF EffectNext, RunStep, Evict, UploadLands, UploadLost, effectVars

\* A confirmed or held effect is final, and a dispatched one never becomes
\* dispatchable again.
THEOREM EffectsNeverRearmed == EffectSpec => NeverRearmed
<1>1. EffectInv /\ [EffectNext]_effectVars => [KeepsFinal]_effectVars
  <2> SUFFICES ASSUME EffectInv, [EffectNext]_effectVars, NEW e \in Effects
               PROVE  FinalKept(row[e], row'[e])
    BY DEF KeepsFinal
  <2>1. PICK v \in Version : RowStep(row[e], row'[e], v)
    BY StepsAreRowSteps
  <2>2. row[e] \in Row
    BY DEF EffectInv, EffectTypeOK
  <2>3. QED
    BY <2>1, <2>2, RowStepTyped DEF FinalKept, Undispatched
<1>2. QED
  BY EffectInvariant, <1>1, PTL DEF EffectSpec, NeverRearmed

\* Every such step keeps the CHECK of the table.
LEMMA RowStepKeepsSchema ==
  ASSUME NEW w \in Row, NEW new, NEW v \in Version, RowStep(w, new, v), SatisfiesSchema(w)
  PROVE  SatisfiesSchema(new)
<1>1. CASE w.status = "MISSING" /\ new = [w EXCEPT !.status = "PREPARED"]
  BY <1>1 DEF Row, SatisfiesSchema
<1>2. CASE w.status = "PREPARED" /\ new = Absent(w)
  BY <1>2 DEF Row, SatisfiesSchema, Absent
<1>3. CASE w.status = "ABSENT" /\ new = InFlight(w)
  BY <1>3 DEF Row, SatisfiesSchema, InFlight
<1>4. CASE new # w /\ new = Accepted(w, v)
  <2>1. w.status \in {"IN_FLIGHT", "DISPATCHED_HOLD"}
        /\ new = [w EXCEPT !.writer = {v}, !.status = "ACCEPTED"]
    BY <1>4 DEF Accepted, Accepts
  <2>2. QED
    BY <2>1 DEF Row, SatisfiesSchema
<1>5. CASE new # w /\ new = DispatchedHold(w)
  BY <1>5 DEF Row, SatisfiesSchema, DispatchedHold
<1>6. CASE new # w /\ new = Held(w)
  BY <1>6 DEF Row, SatisfiesSchema, Held
<1>7. CASE Confirms(w, v) /\ new = Confirmed(w, v)
  BY <1>7 DEF Row, SatisfiesSchema, Confirms, Confirmed
<1>8. QED
  BY <1>1, <1>2, <1>3, <1>4, <1>5, <1>6, <1>7 DEF RowStep

\* Every write of the journal satisfies the CHECK of its table.
THEOREM JournalSatisfiesSchema == EffectSpec => []RowsSatisfySchema
<1>1. EffectInit => RowsSatisfySchema
  <2>1. SatisfiesSchema(MissingRow)
    BY DEF MissingRow, SatisfiesSchema
  <2>2. QED
    BY <2>1 DEF EffectInit, RowsSatisfySchema
<1>2. EffectInv /\ RowsSatisfySchema /\ [EffectNext]_effectVars => RowsSatisfySchema'
  <2> SUFFICES ASSUME EffectInv, RowsSatisfySchema, [EffectNext]_effectVars, NEW e \in Effects
               PROVE  SatisfiesSchema(row'[e])
    BY DEF RowsSatisfySchema
  <2>1. PICK v \in Version : RowStep(row[e], row'[e], v)
    BY StepsAreRowSteps
  <2>2. row[e] \in Row /\ SatisfiesSchema(row[e])
    BY DEF EffectInv, EffectTypeOK, RowsSatisfySchema
  <2>3. QED
    BY <2>1, <2>2, RowStepKeepsSchema
<1>3. QED
  BY EffectInvariant, <1>1, <1>2, PTL DEF EffectSpec

-----------------------------------------------------------------------------
(* What the serial queue adds: an effect is held for cause only.           *)

Unconfirmed == {"IN_FLIGHT", "ACCEPTED", "DISPATCHED_HOLD"}

\* An upload of another effect about e's key, or an inventory that was refused.
Cause(e) == e \in invalid \/ \E f \in Effects \ {e} : KeyOf[f] = KeyOf[e] /\ sent[f] > 0

\* One run of an effect at a time, which finds the row where it left it.
OneRun ==
  /\ \A r, q \in Runs :
       EffectOf[r] = EffectOf[q] /\ pc[r] # "idle" /\ pc[q] # "idle" => r = q
  /\ \A r \in Runs :
       /\ pc[r] \in {"absence", "absenceSeen"} => row[EffectOf[r]].status = "PREPARED"
       /\ pc[r] \in {"reconcile", "reconcileSeen"} => row[EffectOf[r]].status \in Unconfirmed

\* Every version was sent by its effect, and what a run or a row has of it was
\* in the bucket.
Sent ==
  /\ \A v \in stored \cup inTransit : v[2] \in 1..sent[v[1]]
  /\ \A r \in Runs : seen[r] \subseteq AtKey(EffectOf[r], stored)
  /\ \A e \in Effects : \A v \in row[e].writer : v \in stored /\ v[1] = e

CauseInv == OneRun /\ Sent /\ HeldForCause

LEMMA CauseInitInv == EffectInit => CauseInv
<1> SUFFICES ASSUME EffectInit PROVE CauseInv
  OBVIOUS
<1>1. OneRun
  BY DEF EffectInit, OneRun
<1>2. Sent
  BY EffectAssumption DEF EffectInit, Sent, MissingRow
<1>3. HeldForCause
  BY DEF EffectInit, HeldForCause, MissingRow
<1>4. QED
  BY <1>1, <1>2, <1>3 DEF CauseInv

\* A version of an effect's key that is not its first upload is another's.
LEMMA AnotherIsCause ==
  ASSUME EffectInv, CauseInv, NEW e \in Effects, NEW v \in AtKey(e, stored), v # <<e, 1>>
  PROVE  Cause(e)
<1>1. v \in Version /\ v[2] \in 1..sent[v[1]] /\ KeyOf[v[1]] = KeyOf[e]
  BY DEF EffectInv, EffectTypeOK, CauseInv, Sent, AtKey
<1>2. v[1] \in Effects /\ v[2] \in Nat /\ v = <<v[1], v[2]>>
  BY <1>1 DEF Version
<1>3. sent[v[1]] \in Nat /\ sent[v[1]] <= 1
  BY <1>2 DEF EffectInv, EffectTypeOK, OneClaim, DispatchedOnce
<1>4. sent[v[1]] > 0 /\ v[2] = 1
  BY <1>1, <1>2, <1>3
<1>5. v[1] # e
  BY <1>2, <1>4
<1>6. QED
  BY <1>1, <1>2, <1>4, <1>5 DEF Cause

\* An effect that has sent nothing finds only versions of others.
LEMMA UnsentFindsOthers ==
  ASSUME EffectInv, CauseInv, NEW e \in Effects, sent[e] = 0, NEW v \in AtKey(e, stored)
  PROVE  Cause(e)
<1>1. v \in Version /\ v[2] \in 1..sent[v[1]]
  BY DEF EffectInv, EffectTypeOK, CauseInv, Sent, AtKey
<1>2. v # <<e, 1>>
  BY <1>1
<1>3. QED
  BY <1>2, AnotherIsCause

LEMMA CauseGrows ==
  ASSUME EffectInv, NEW e \in Effects, Cause(e), invalid \subseteq invalid',
         \A f \in Effects : sent'[f] >= sent[f] /\ sent'[f] \in Nat
  PROVE  Cause(e)'
<1>1. CASE e \in invalid
  BY <1>1 DEF Cause
<1>2. CASE \E f \in Effects \ {e} : KeyOf[f] = KeyOf[e] /\ sent[f] > 0
  <2>1. PICK f \in Effects \ {e} : KeyOf[f] = KeyOf[e] /\ sent[f] > 0
    BY <1>2
  <2>2. sent[f] \in Nat /\ sent'[f] \in Nat /\ sent'[f] >= sent[f]
    BY DEF EffectInv, EffectTypeOK
  <2>3. QED
    BY <2>1, <2>2 DEF Cause
<1>3. QED
  BY <1>1, <1>2 DEF Cause

\* A step of one run that sends nothing and makes its row new.
LEMMA RunCauseInv ==
  ASSUME EffectInv, CauseInv, NEW r \in Runs, NEW new \in Row, NEW p,
         NEW found \in SUBSET AtKey(EffectOf[r], stored),
         pc[r] = "idle" => \A q \in Runs : EffectOf[q] = EffectOf[r] => pc[q] = "idle",
         row' = [row EXCEPT ![EffectOf[r]] = new],
         pc' = [pc EXCEPT ![r] = p],
         seen' = [seen EXCEPT ![r] = found],
         p \in {"absence", "absenceSeen"} => new.status = "PREPARED",
         p \in {"reconcile", "reconcileSeen"} => new.status \in Unconfirmed,
         \A v \in new.writer : v \in stored /\ v[1] = EffectOf[r],
         invalid \subseteq invalid', UNCHANGED <<sent, inTransit, stored>>,
         new.status = "HOLD" =>
           row[EffectOf[r]].status = "HOLD" \/ Cause(EffectOf[r]) \/ EffectOf[r] \in invalid'
  PROVE  CauseInv'
<1> USE EffectAssumption
<1> DEFINE e == EffectOf[r]
<1>1. e \in Effects /\ row'[e] = new /\ \A f \in Effects \ {e} : row'[f] = row[f]
  BY DEF EffectInv, EffectTypeOK
<1>2. pc'[r] = p /\ \A q \in Runs \ {r} : pc'[q] = pc[q]
  BY DEF EffectInv, EffectTypeOK
<1>3. seen'[r] = found /\ \A q \in Runs \ {r} : seen'[q] = seen[q]
  BY DEF EffectInv, EffectTypeOK
<1>4. \A q \in Runs \ {r} : EffectOf[q] = e => pc[q] = "idle"
  BY DEF CauseInv, OneRun
<1>5. OneRun'
  <2>1. ASSUME NEW q \in Runs, NEW s \in Runs, EffectOf[q] = EffectOf[s],
               pc'[q] # "idle", pc'[s] # "idle"
        PROVE  q = s
    BY <1>2, <1>4, <2>1 DEF CauseInv, OneRun
  <2>2. ASSUME NEW q \in Runs
        PROVE  /\ pc'[q] \in {"absence", "absenceSeen"} => row'[EffectOf[q]].status = "PREPARED"
               /\ pc'[q] \in {"reconcile", "reconcileSeen"} =>
                    row'[EffectOf[q]].status \in Unconfirmed
    BY <1>1, <1>2, <1>4 DEF CauseInv, OneRun
  <2>3. QED
    BY <2>1, <2>2 DEF OneRun
<1>6. Sent'
  <2>1. \A q \in Runs : seen'[q] \subseteq AtKey(EffectOf[q], stored)
    BY <1>3 DEF CauseInv, Sent
  <2>2. \A f \in Effects : \A v \in row'[f].writer : v \in stored /\ v[1] = f
    BY <1>1 DEF CauseInv, Sent
  <2>3. QED
    BY <2>1, <2>2 DEF CauseInv, Sent, AtKey
<1>7. HeldForCause'
  <2> SUFFICES ASSUME NEW f \in Effects, row'[f].status = "HOLD"
               PROVE  Cause(f)'
    BY DEF HeldForCause, Cause
  <2>1. CASE f \in invalid'
    BY <2>1 DEF Cause
  <2>2. CASE Cause(f)
    BY <2>2, CauseGrows DEF EffectInv, EffectTypeOK
  <2>3. row[f].status = "HOLD" => Cause(f)
    BY DEF CauseInv, HeldForCause, Cause
  <2>4. QED
    BY <1>1, <2>1, <2>2, <2>3
<1>8. QED
  BY <1>5, <1>6, <1>7 DEF CauseInv

\* The row of a run, and what each transaction makes of its writer and status.
LEMMA RowOfRun ==
  ASSUME EffectInv, CauseInv, NEW r \in Runs
  PROVE  /\ EffectOf[r] \in Effects /\ row[EffectOf[r]] \in Row
         /\ \A v \in row[EffectOf[r]].writer : v \in stored /\ v[1] = EffectOf[r]
         /\ seen[r] \in SUBSET AtKey(EffectOf[r], stored)
BY EffectAssumption DEF EffectInv, EffectTypeOK, CauseInv, Sent

LEMMA WritersKept ==
  ASSUME NEW w \in Row
  PROVE  /\ Held(w) \in Row /\ Held(w).writer = w.writer
         /\ DispatchedHold(w) \in Row /\ DispatchedHold(w).writer = w.writer
         /\ DispatchedHold(w).status = "HOLD" => w.status = "HOLD"
         /\ Absent(w) \in Row /\ Absent(w).writer = w.writer /\ Absent(w).status = "ABSENT"
         /\ InFlight(w) \in Row /\ InFlight(w).writer = w.writer
         /\ InFlight(w).status = "IN_FLIGHT"
         /\ SealedRow(w) \in Row /\ SealedRow(w).writer = w.writer
         /\ SealedRow(w).status = "HOLD" => w.status = "HOLD"
<1>1. Held(w) \in Row /\ Held(w).writer = w.writer
  BY DEF Row, Status, Held
<1>2. /\ DispatchedHold(w) \in Row /\ DispatchedHold(w).writer = w.writer
      /\ DispatchedHold(w).status = "HOLD" => w.status = "HOLD"
  BY DEF Row, Status, DispatchedHold
<1>3. Absent(w) \in Row /\ Absent(w).writer = w.writer /\ Absent(w).status = "ABSENT"
  BY DEF Row, Status, Absent
<1>4. InFlight(w) \in Row /\ InFlight(w).writer = w.writer /\ InFlight(w).status = "IN_FLIGHT"
  BY DEF Row, Status, InFlight
<1>5. /\ SealedRow(w) \in Row /\ SealedRow(w).writer = w.writer
      /\ SealedRow(w).status = "HOLD" => w.status = "HOLD"
  BY DEF Row, Status, SealedRow
<1>6. QED
  BY <1>1, <1>2, <1>3, <1>4, <1>5

LEMMA EndRunCause ==
  ASSUME EffectInv, CauseInv, NEW r \in Runs, NEW new \in Row, EndRun(r, new),
         pc[r] # "idle", new.writer = row[EffectOf[r]].writer,
         invalid \subseteq invalid', UNCHANGED <<sent, inTransit, stored>>,
         new.status = "HOLD" =>
           row[EffectOf[r]].status = "HOLD" \/ Cause(EffectOf[r]) \/ EffectOf[r] \in invalid'
  PROVE  CauseInv'
<1>1. {} \in SUBSET AtKey(EffectOf[r], stored)
  OBVIOUS
<1>2. \A v \in new.writer : v \in stored /\ v[1] = EffectOf[r]
  BY RowOfRun
<1>3. row' = [row EXCEPT ![EffectOf[r]] = new] /\ pc' = [pc EXCEPT ![r] = "idle"]
      /\ seen' = [seen EXCEPT ![r] = {}]
  BY DEF EndRun
<1>4. QED
  BY <1>1, <1>2, <1>3, RunCauseInv

LEMMA GoOnCause ==
  ASSUME EffectInv, CauseInv, NEW r \in Runs, NEW new \in Row, NEW p, GoOn(r, p, new),
         p \notin {"absence", "absenceSeen", "reconcile", "reconcileSeen"},
         pc[r] = "idle" => \A q \in Runs : EffectOf[q] = EffectOf[r] => pc[q] = "idle",
         \A v \in new.writer : v \in stored /\ v[1] = EffectOf[r],
         UNCHANGED Outside,
         new.status = "HOLD" => row[EffectOf[r]].status = "HOLD"
  PROVE  CauseInv'
BY RowOfRun, RunCauseInv DEF GoOn, Outside

LEMMA TurnCause ==
  ASSUME EffectInv, CauseInv, NEW r \in Runs,
         NextCheckAbsence(r) \/ NextDispatch(r) \/ NextReconcile(r)
  PROVE  CauseInv'
<1> DEFINE w == row[EffectOf[r]]
<1>1. w \in Row /\ seen[r] \in SUBSET AtKey(EffectOf[r], stored)
      /\ \A v \in w.writer : v \in stored /\ v[1] = EffectOf[r]
  BY RowOfRun
<1>2. ASSUME NEW new \in Row, NEW p, Turn(r, p, new), new.writer = w.writer,
             new.status # "HOLD",
             p \in {"absence", "absenceSeen"} => new.status = "PREPARED",
             p \in {"reconcile", "reconcileSeen"} => new.status \in Unconfirmed
      PROVE  CauseInv'
  <2>1. seen' = [seen EXCEPT ![r] = seen[r]]
    BY <1>2 DEF Turn, EffectInv, EffectTypeOK
  <2>2. /\ row' = [row EXCEPT ![EffectOf[r]] = new] /\ pc' = [pc EXCEPT ![r] = p]
        /\ pc[r] # "idle" /\ UNCHANGED <<sent, inTransit, stored>> /\ invalid' = invalid
    BY <1>2 DEF Turn
  <2>3. QED
    BY <1>1, <1>2, <2>1, <2>2, RunCauseInv
<1>3. CASE NextCheckAbsence(r)
  BY <1>1, <1>2, <1>3 DEF NextCheckAbsence
<1>4. CASE NextDispatch(r)
  BY <1>1, <1>2, <1>4, WritersKept DEF NextDispatch
<1>5. CASE NextReconcile(r)
  BY <1>1, <1>2, <1>5 DEF NextReconcile, Unconfirmed
<1>6. QED
  BY <1>3, <1>4, <1>5

LEMMA ObserveCause ==
  ASSUME EffectInv, CauseInv, NEW r \in Runs, Observe(r)
  PROVE  CauseInv'
<1> DEFINE w == row[EffectOf[r]]
           p == IF pc[r] = "absence" THEN "absenceSeen" ELSE "reconcileSeen"
<1>1. w \in Row /\ \A v \in w.writer : v \in stored /\ v[1] = EffectOf[r]
  BY RowOfRun
<1>2. row' = [row EXCEPT ![EffectOf[r]] = w] /\ pc' = [pc EXCEPT ![r] = p]
  BY DEF Observe, EffectInv, EffectTypeOK
<1>3. /\ p = "absenceSeen" => w.status = "PREPARED"
      /\ p = "reconcileSeen" => w.status \in Unconfirmed
      /\ p \in {"absenceSeen", "reconcileSeen"} /\ pc[r] # "idle"
  BY DEF Observe, CauseInv, OneRun
<1> HIDE DEF p
<1>4. QED
  BY <1>1, <1>2, <1>3, RunCauseInv, ZenonT(60) DEF Observe

\* An unexpected inventory is one with a version of another effect.
LEMMA MarkAbsentCause ==
  ASSUME EffectInv, CauseInv, NEW r \in Runs, MarkAbsent(r)
  PROVE  CauseInv'
<1> DEFINE e == EffectOf[r]
           w == row[e]
<1>1. /\ e \in Effects /\ w \in Row /\ \A v \in w.writer : v \in stored /\ v[1] = e
      /\ seen[r] \in SUBSET AtKey(e, stored)
  BY RowOfRun
<1>2. pc[r] = "absenceSeen" /\ w.status = "PREPARED" /\ UNCHANGED Outside
  BY DEF MarkAbsent, CauseInv, OneRun
<1>3. CASE GoOn(r, "next", Absent(w))
  BY <1>1, <1>2, <1>3, WritersKept, GoOnCause
<1>4. CASE seen[r] # {} /\ EndRun(r, Held(w))
  <2>1. sent[e] = 0
    BY <1>1, <1>2 DEF EffectInv, OneClaim, Undispatched
  <2>2. Cause(e)
    BY <1>1, <1>4, <2>1, UnsentFindsOthers
  <2>3. QED
    BY <1>1, <1>2, <1>4, <2>2, WritersKept, EndRunCause DEF Outside
<1>5. QED
  BY <1>2, <1>3, <1>4 DEF MarkAbsent

\* So is one with two versions, or with another than the writer's.
LEMMA ReconcileCause ==
  ASSUME EffectInv, CauseInv, NEW r \in Runs, Reconcile(r)
  PROVE  CauseInv'
<1> DEFINE e == EffectOf[r]
           w == row[e]
<1>1. /\ e \in Effects /\ w \in Row /\ \A v \in w.writer : v \in stored /\ v[1] = e
      /\ seen[r] \in SUBSET AtKey(e, stored)
  BY RowOfRun
<1>2. pc[r] = "reconcileSeen" /\ w.status \in Unconfirmed /\ UNCHANGED Outside
  BY DEF Reconcile, CauseInv, OneRun
<1>3. CASE EndRun(r, DispatchedHold(w))
  BY <1>1, <1>2, <1>3, WritersKept, EndRunCause DEF Outside
<1>4. ASSUME NEW v \in seen[r], Confirms(w, v), GoOn(r, "next", Confirmed(w, v))
      PROVE  CauseInv'
  <2>1. v \in Version
    BY <1>1 DEF EffectInv, EffectTypeOK, AtKey
  <2>2. Confirmed(w, v) \in Row /\ Confirmed(w, v).writer = w.writer
        /\ Confirmed(w, v).status = "CONFIRMED"
    BY <1>1, <2>1 DEF Confirmed, Row, Status
  <2>3. QED
    BY <1>1, <1>2, <1>4, <2>2, GoOnCause
<1>5. ASSUME NEW v \in seen[r], ~Confirms(w, v), EndRun(r, Held(w))
      PROVE  CauseInv'
  <2>1. PICK u \in w.writer : u # v
    BY <1>2, <1>5 DEF Confirms, Unconfirmed
  <2>2. u \in AtKey(e, stored)
    BY <1>1, <2>1 DEF AtKey
  <2>3. Cause(e)
    BY <1>1, <1>5, <2>1, <2>2, AnotherIsCause
  <2>4. QED
    BY <1>1, <1>2, <1>5, <2>3, WritersKept, EndRunCause DEF Outside
<1>6. CASE (\E u, v \in seen[r] : u # v) /\ EndRun(r, Held(w))
  <2>1. Cause(e)
    BY <1>1, <1>6, AnotherIsCause
  <2>2. QED
    BY <1>1, <1>2, <1>6, <2>1, WritersKept, EndRunCause DEF Outside
<1>7. w.status # "CONFIRMED"
  BY <1>2 DEF Unconfirmed
<1>8. QED
  BY <1>2, <1>3, <1>4, <1>5, <1>6, <1>7 DEF Reconcile

\* The writer's answer names the effect's own upload.
LEMMA UploadAnswerCause ==
  ASSUME EffectInv, CauseInv, NEW r \in Runs, UploadAnswer(r)
  PROVE  CauseInv'
<1> DEFINE e == EffectOf[r]
           w == row[e]
<1>1. e \in Effects /\ w \in Row /\ \A v \in w.writer : v \in stored /\ v[1] = e
  BY RowOfRun
<1>2. PICK v \in stored : v[1] = e /\ GoOn(r, "next", Accepted(w, v))
  BY DEF UploadAnswer
<1>3. v \in Version
  BY DEF EffectInv, EffectTypeOK
<1>4. /\ Accepted(w, v) \in Row /\ Accepted(w, v).writer \in {w.writer, {v}}
      /\ Accepted(w, v).status = "HOLD" => w.status = "HOLD"
  BY <1>1, <1>3 DEF Accepted, Row, Status
<1>5. \A u \in Accepted(w, v).writer : u \in stored /\ u[1] = e
  BY <1>1, <1>2, <1>4
<1>6. QED
  BY <1>2, <1>4, <1>5, GoOnCause DEF UploadAnswer

LEMMA RunStepCause ==
  ASSUME EffectInv, CauseInv, NEW r \in Runs,
         NextStop(r) \/ UploadThrows(r) \/ ObserverUnavailable(r) \/ ObserverInvalid(r)
  PROVE  CauseInv'
<1> DEFINE e == EffectOf[r]
           w == row[e]
<1>1. e \in Effects /\ w \in Row /\ \A v \in w.writer : v \in stored /\ v[1] = e
  BY RowOfRun
<1>2. CASE NextStop(r)
  BY <1>1, <1>2, EndRunCause DEF NextStop, Outside
<1>3. CASE UploadThrows(r)
  BY <1>1, <1>3, GoOnCause DEF UploadThrows
<1>4. CASE ObserverUnavailable(r)
  BY <1>1, <1>4, WritersKept, EndRunCause DEF ObserverUnavailable
<1>5. CASE ObserverInvalid(r)
  BY <1>1, <1>5, WritersKept, EndRunCause DEF ObserverInvalid
<1>6. QED
  BY <1>2, <1>3, <1>4, <1>5

LEMMA SealCause ==
  ASSUME Exclusive, EffectInv, CauseInv, NEW r \in Runs, Seal(r)
  PROVE  CauseInv'
<1>1. row[EffectOf[r]] \in Row
      /\ \A v \in row[EffectOf[r]].writer : v \in stored /\ v[1] = EffectOf[r]
  BY RowOfRun
<1>2. \A q \in Runs : EffectOf[q] = EffectOf[r] => pc[q] = "idle"
  BY DEF Seal, Admitted
<1>3. QED
  BY <1>1, <1>2, WritersKept, GoOnCause DEF Seal

LEMMA UploadSendCause ==
  ASSUME EffectInv, CauseInv, NEW r \in Runs, UploadSend(r)
  PROVE  CauseInv'
<1> USE EffectAssumption
<1> DEFINE e == EffectOf[r]
           u == <<e, sent[e] + 1>>
<1>1. e \in Effects /\ sent \in [Effects -> Nat]
      /\ stored \cup inTransit \subseteq Version
  BY DEF EffectInv, EffectTypeOK
<1>2. /\ pc[r] = "upload" /\ pc' = [pc EXCEPT ![r] = "uploading"]
      /\ sent' = [sent EXCEPT ![e] = sent[e] + 1] /\ inTransit' = inTransit \cup {u}
      /\ UNCHANGED <<row, seen, stored, invalid>>
  BY DEF UploadSend
<1>3. \A f \in Effects : sent'[f] \in Nat /\ sent'[f] >= sent[f]
  BY <1>1, <1>2
<1>4. OneRun'
  BY <1>2 DEF CauseInv, OneRun, EffectInv, EffectTypeOK
<1>5. Sent'
  <2>1. u[2] \in 1..sent'[u[1]]
    BY <1>1, <1>2
  <2>2. \A v \in stored \cup inTransit : v[2] \in 1..sent'[v[1]]
    <3> TAKE v \in stored \cup inTransit
    <3>1. v[1] \in Effects /\ v[2] \in Nat /\ v[2] \in 1..sent[v[1]]
      BY <1>1 DEF Version, CauseInv, Sent
    <3>2. QED
      BY <1>1, <1>3, <3>1
  <2>3. \A v \in stored' \cup inTransit' : v[2] \in 1..sent'[v[1]]
    BY <1>2, <2>1, <2>2
  <2>4. QED
    BY <1>2, <2>3 DEF CauseInv, Sent, AtKey
<1>6. HeldForCause'
  <2> SUFFICES ASSUME NEW f \in Effects, row[f].status = "HOLD"
               PROVE  Cause(f)'
    BY <1>2 DEF HeldForCause, Cause
  <2>1. Cause(f)
    BY DEF CauseInv, HeldForCause, Cause
  <2>2. QED
    BY <1>2, <1>3, <2>1, CauseGrows
<1>7. QED
  BY <1>4, <1>5, <1>6 DEF CauseInv

LEMMA EvictCause ==
  ASSUME EffectInv, CauseInv, NEW e \in Effects, Evict(e)
  PROVE  CauseInv'
<1>1. /\ \A r \in Runs : pc'[r] \in {pc[r], "idle"} /\ seen'[r] \in {seen[r], {}}
      /\ UNCHANGED <<row, sent, inTransit, stored, invalid>>
  BY DEF Evict
<1>2. OneRun'
  BY <1>1 DEF CauseInv, OneRun
<1>3. Sent'
  BY <1>1 DEF CauseInv, Sent, AtKey
<1>4. HeldForCause'
  BY <1>1 DEF CauseInv, HeldForCause
<1>5. QED
  BY <1>2, <1>3, <1>4 DEF CauseInv

LEMMA VersionsMoveCause ==
  ASSUME EffectInv, CauseInv,
         stored \subseteq stored', stored' \cup inTransit' \subseteq stored \cup inTransit,
         UNCHANGED <<row, pc, seen, sent, invalid>>
  PROVE  CauseInv'
<1>1. OneRun'
  BY DEF CauseInv, OneRun
<1>2. Sent'
  BY DEF CauseInv, Sent, AtKey
<1>3. HeldForCause'
  BY DEF CauseInv, HeldForCause
<1>4. QED
  BY <1>1, <1>2, <1>3 DEF CauseInv

LEMMA CauseStepInv ==
  ASSUME Exclusive, EffectInv, CauseInv, [EffectNext]_effectVars
  PROVE  CauseInv'
<1>1. ASSUME NEW r \in Runs,
             Seal(r) \/ RunStep(r) \/ ObserverUnavailable(r) \/ ObserverInvalid(r)
      PROVE  CauseInv'
  BY <1>1, SealCause, TurnCause, RunStepCause, ObserveCause, MarkAbsentCause, ReconcileCause,
     UploadSendCause, UploadAnswerCause DEF RunStep
<1>2. ASSUME NEW v \in inTransit, UploadLands(v) \/ UploadLost(v)
      PROVE  CauseInv'
  BY <1>2, VersionsMoveCause DEF UploadLands, UploadLost
<1>3. CASE UNCHANGED effectVars
  BY <1>3, VersionsMoveCause DEF effectVars
<1>4. QED
  BY <1>1, <1>2, <1>3, EvictCause DEF EffectNext

\* With its serial queue (Exclusive, as private/worm-exact-object-effect-do.ts runs
\* it) an effect is held for good only for cause, with any number of effects, keys,
\* callers, evictions and lost answers.
THEOREM HeldOnlyForCause == Exclusive => (EffectSpec => []HeldForCause)
<1> SUFFICES ASSUME Exclusive PROVE EffectSpec => []HeldForCause
  OBVIOUS
<1>1. CauseInv /\ EffectInv /\ [EffectNext]_effectVars => CauseInv'
  BY CauseStepInv
<1>2. CauseInv => HeldForCause
  BY DEF CauseInv
<1>3. QED
  BY CauseInitInv, EffectInvariant, <1>1, <1>2, PTL DEF EffectSpec

-----------------------------------------------------------------------------
(* The mirror of an exact object. *)


\* What a call knows of its object's key at each step, although the key's
\* versions change meanwhile: a version keeps its place and its bytes, and its
\* retention only grows.
Known(c, e) ==
  LET v == bucket[ObjectOf[c]][e.id] IN
  /\ e.id \in 1..call[c].listed
  /\ e.what = v.what /\ e.until <= v.until
  /\ e.latest => e.id = call[c].listed

OnlyVersion(c) ==
  LET v == bucket[ObjectOf[c]][1] IN
  /\ call[c].listed = 1 /\ Len(bucket[ObjectOf[c]]) >= 1
  /\ v.what = "own" /\ Retained(v.until)

Complete(c) == \A n \in 1..call[c].listed : \E e \in call[c].inventory : e.id = n

CallInv(c) ==
  /\ call[c].at \in {"info", "download", "answered"} =>
       call[c].listed <= Len(bucket[ObjectOf[c]])
  /\ call[c].at \in {"download", "answered"} => \A e \in call[c].inventory : Known(c, e)
  /\ call[c].at = "download" => Complete(c)
  /\ call[c].at = "answered" /\ call[c].by = 0 => Complete(c)
  /\ call[c].at \in {"replied", "done"} /\ call[c].server = 0 =>
       IF call[c].action = "absence"
       THEN call[c].listed = 0
       ELSE call[c].result = 1 /\ OnlyVersion(c)
  /\ call[c].at = "done" => call[c].server = 0

MirrorInv == MirrorTypeOK /\ \A c \in Calls : CallInv(c)

Grown(before, after) ==
  /\ Len(before) <= Len(after)
  /\ \A n \in 1..Len(before) :
       after[n].what = before[n].what /\ before[n].until <= after[n].until

-----------------------------------------------------------------------------
(* The bucket. *)

MirrorVersion == [what : Content, behind : Nat, until : Int]

BucketKept == bucket' \in [Objects -> Seq(MirrorVersion)] /\ \A o \in Objects : Grown(bucket[o], bucket'[o])

LEMMA StoredVersion ==
  ASSUME NEW what \in Content, NEW behind \in Nat
  PROVE  Stored(what, behind) \in MirrorVersion
BY MirrorAssumption DEF Stored, MirrorVersion

LEMMA GrownItself ==
  ASSUME NEW s \in Seq(MirrorVersion)
  PROVE  Grown(s, s)
<1>1. \A n \in 1..Len(s) : s[n] \in MirrorVersion
  OBVIOUS
<1>2. \A n \in 1..Len(s) : s[n].until <= s[n].until
  BY <1>1 DEF MirrorVersion
<1>3. QED
  BY <1>2 DEF Grown

LEMMA GrownByOne ==
  ASSUME NEW s \in Seq(MirrorVersion), NEW v \in MirrorVersion
  PROVE  Grown(s, Append(s, v))
<1>1. \A n \in 1..Len(s) : Append(s, v)[n] = s[n]
  OBVIOUS
<1>2. Len(s) <= Len(Append(s, v))
  OBVIOUS
<1>3. QED
  BY <1>1, <1>2, GrownItself DEF Grown

LEMMA BucketUnchanged ==
  ASSUME MirrorTypeOK, UNCHANGED bucket
  PROVE  BucketKept
BY GrownItself DEF MirrorTypeOK, BucketKept, MirrorVersion

\* A version that is stored is a new one, at the end.
LEMMA BucketAppend ==
  ASSUME MirrorTypeOK, NEW o \in Objects, NEW v \in MirrorVersion,
         bucket' = [bucket EXCEPT ![o] = Append(@, v)]
  PROVE  BucketKept
<1>1. bucket \in [Objects -> Seq(MirrorVersion)]
  BY DEF MirrorTypeOK, MirrorVersion
<1>2. bucket' \in [Objects -> Seq(MirrorVersion)]
  BY <1>1
<1>3. ASSUME NEW p \in Objects
      PROVE  Grown(bucket[p], bucket'[p])
  <2>1. bucket[p] \in Seq(MirrorVersion)
    BY <1>1
  <2>2. CASE p = o
    BY <1>1, <2>1, <2>2, GrownByOne
  <2>3. CASE p # o
    BY <1>1, <2>1, <2>3, GrownItself
  <2>4. QED
    BY <2>2, <2>3
<1>4. QED
  BY <1>2, <1>3 DEF BucketKept

LEMMA BucketRetained ==
  ASSUME MirrorTypeOK, NEW o \in Objects, NEW n \in Versions(o),
         bucket' = [bucket EXCEPT ![o][n].until = @ + 1]
  PROVE  BucketKept
<1>1. bucket \in [Objects -> Seq(MirrorVersion)]
  BY DEF MirrorTypeOK, MirrorVersion
<1> DEFINE v == bucket[o][n]
<1>2. v \in MirrorVersion /\ n \in 1..Len(bucket[o])
  BY <1>1 DEF Versions
<1>3. bucket' = [bucket EXCEPT ![o] = [bucket[o] EXCEPT ![n] = [v EXCEPT !.until = v.until + 1]]]
  OBVIOUS
<1>4. [v EXCEPT !.until = v.until + 1] \in MirrorVersion
  BY <1>2 DEF MirrorVersion
<1> DEFINE w == [v EXCEPT !.until = v.until + 1]
<1>5. w.what = v.what /\ v.until <= w.until
  BY <1>2 DEF MirrorVersion
<1> HIDE DEF w
<1>6. [bucket[o] EXCEPT ![n] = w] \in Seq(MirrorVersion)
  BY <1>1, <1>2, <1>4 DEF w
<1>7. bucket' = [bucket EXCEPT ![o] = [bucket[o] EXCEPT ![n] = w]]
  BY <1>3 DEF w
<1>8. bucket' \in [Objects -> Seq(MirrorVersion)]
  BY <1>1, <1>6, <1>7
<1>9. ASSUME NEW p \in Objects
      PROVE  Grown(bucket[p], bucket'[p])
  <2>1. bucket[p] \in Seq(MirrorVersion)
    BY <1>1
  <2>2. CASE p = o
    <3>1. bucket'[o] = [bucket[o] EXCEPT ![n] = w]
      BY <1>1, <1>7
    <3>2. Len(bucket'[o]) = Len(bucket[o])
      BY <2>1, <2>2, <3>1
    <3>3. \A m \in 1..Len(bucket[o]) :
            bucket'[o][m].what = bucket[o][m].what /\ bucket[o][m].until <= bucket'[o][m].until
      <4> TAKE m \in 1..Len(bucket[o])
      <4>1. bucket[o] \in Seq(MirrorVersion)
        BY <1>1
      <4>2. CASE m = n
        <5>1. bucket'[o][n] = w
          BY <1>2, <3>1, <4>1
        <5>2. QED
          BY <1>5, <4>2, <5>1
      <4>3. CASE m # n
        BY <3>1, <4>1, <4>3, GrownItself DEF Grown
      <4>4. QED
        BY <4>2, <4>3
    <3>4. QED
      BY <2>1, <2>2, <3>2, <3>3 DEF Grown
  <2>3. CASE p # o
    BY <1>1, <1>7, <2>1, <2>3, GrownItself
  <2>4. QED
    BY <2>2, <2>3
<1>10. QED
  BY <1>8, <1>9 DEF BucketKept

-----------------------------------------------------------------------------
(* The calls. *)

LEMMA CallUndisturbed ==
  ASSUME MirrorInv, BucketKept, NEW c \in Calls, call'[c] = call[c]
  PROVE  CallInv(c)'
<1> DEFINE o == ObjectOf[c]
<1>1. o \in Objects /\ call[c] \in CallRecord /\ bucket[o] \in Seq(MirrorVersion)
  BY MirrorAssumption DEF MirrorInv, MirrorTypeOK, MirrorVersion
<1>2. Grown(bucket[o], bucket'[o]) /\ bucket'[o] \in Seq(MirrorVersion)
  BY <1>1 DEF BucketKept
<1>3. CallInv(c)
  BY DEF MirrorInv
<1>4. call[c].listed \in Nat /\ Len(bucket[o]) \in Nat /\ Len(bucket'[o]) \in Nat
  BY <1>1, <1>2 DEF CallRecord
<1>5. ASSUME NEW e \in call[c].inventory, call[c].listed <= Len(bucket[o]), Known(c, e)
      PROVE  Known(c, e)'
  <2>1. e.id \in 1..Len(bucket[o])
    BY <1>4, <1>5 DEF Known
  <2>2. e.until \in Int /\ bucket[o][e.id] \in MirrorVersion /\ bucket'[o][e.id] \in MirrorVersion
    BY <1>1, <1>2, <1>4, <2>1 DEF CallRecord, Listed, Grown
  <2>3. bucket'[o][e.id].what = bucket[o][e.id].what
        /\ bucket[o][e.id].until <= bucket'[o][e.id].until
    BY <1>2, <2>1 DEF Grown
  <2>4. QED
    BY <1>5, <2>2, <2>3, SMTT(40) DEF Known, MirrorVersion
<1>6. ASSUME OnlyVersion(c)
      PROVE  OnlyVersion(c)'
  <2>1. 1 \in 1..Len(bucket[o])
    BY <1>4, <1>6 DEF OnlyVersion
  <2>2. bucket[o][1] \in MirrorVersion /\ bucket'[o][1] \in MirrorVersion
    BY <1>1, <1>2, <1>4, <2>1 DEF Grown
  <2>3. bucket'[o][1].what = bucket[o][1].what /\ bucket[o][1].until <= bucket'[o][1].until
    BY <1>2, <2>1 DEF Grown
  <2>4. QED
    BY <1>2, <1>4, <1>6, <2>2, <2>3, MirrorAssumption, SMTT(40)
    DEF OnlyVersion, Retained, Grown, MirrorVersion
<1>7. Complete(c) => Complete(c)'
  BY DEF Complete
<1>8. call[c].listed <= Len(bucket[o]) => call[c].listed <= Len(bucket'[o])
  BY <1>2, <1>4 DEF Grown
<1>9. QED
  BY <1>3, <1>5, <1>6, <1>7, <1>8 DEF CallInv

\* The rest of the state, which has no invariant but its type.
Surroundings ==
  /\ longer \subseteq Objects
  /\ reviewed \in BOOLEAN
  /\ late \in [Objects -> Nat]
  /\ worker \in [version : {0, 1}, observer : {0, 1}] /\ observer \in {0, 1}
  /\ mishaps \in 0..MaxMishaps

LEMMA CallMoved ==
  ASSUME MirrorInv, BucketKept, Surroundings',
         NEW c \in Calls, NEW r \in CallRecord, Move(c, r), CallInv(c)'
  PROVE  MirrorInv'
<1>1. call' \in [Calls -> CallRecord]
  BY DEF MirrorInv, MirrorTypeOK, Move
<1>2. \A d \in Calls \ {c} : call'[d] = call[d]
  BY DEF MirrorInv, MirrorTypeOK, Move
<1>3. \A d \in Calls : CallInv(d)'
  BY <1>2, CallUndisturbed
<1>4. MirrorTypeOK'
  BY <1>1 DEF MirrorTypeOK, Surroundings, BucketKept, MirrorVersion
<1>5. QED
  BY <1>3, <1>4 DEF MirrorInv

LEMMA CallsKept ==
  ASSUME MirrorInv, BucketKept, Surroundings', UNCHANGED call
  PROVE  MirrorInv'
<1>1. \A d \in Calls : CallInv(d)'
  BY CallUndisturbed
<1>2. MirrorTypeOK'
  BY DEF MirrorInv, MirrorTypeOK, Surroundings, BucketKept, MirrorVersion
<1>3. QED
  BY <1>1, <1>2 DEF MirrorInv

LEMMA NothingElse ==
  ASSUME MirrorInv, UNCHANGED Elsewhere
  PROVE  BucketKept /\ Surroundings'
BY BucketUnchanged DEF MirrorInv, MirrorTypeOK, Surroundings, Elsewhere

LEMMA CallFailed ==
  ASSUME MirrorInv, BucketKept, Surroundings', NEW c \in Calls, NEW code \in Codes, Fail(c, code)
  PROVE  MirrorInv'
<1> DEFINE r == [Idle EXCEPT !.at = "failed", !.action = call[c].action, !.code = code]
<1>1. call[c] \in CallRecord /\ call \in [Calls -> CallRecord]
  BY DEF MirrorInv, MirrorTypeOK
<1>2. r \in CallRecord
  BY <1>1 DEF CallRecord, Codes, Idle, NoVersion
<1>3. Move(c, r) /\ call'[c] = r
  BY <1>1 DEF Fail, Move
<1>4. r.at = "failed"
  BY DEF Idle
<1>5. CallInv(c)'
  BY <1>3, <1>4 DEF CallInv
<1> HIDE DEF r
<1>6. QED
  BY <1>2, <1>3, <1>5, CallMoved

-----------------------------------------------------------------------------
(* The steps of a call, up to its inspections. *)

LEMMA AsksKeeps ==
  ASSUME MirrorInv, NEW c \in Calls, NEW action \in Actions, Asks(c, action)
  PROVE  MirrorInv'
<1> DEFINE r == [Idle EXCEPT !.at = "sent", !.action = action]
<1>1. call \in [Calls -> CallRecord]
  BY DEF MirrorInv, MirrorTypeOK
<1>2. r \in CallRecord
  BY DEF CallRecord, Codes, Idle, NoVersion
<1>3. Move(c, r) /\ UNCHANGED Elsewhere /\ call'[c] = r
  BY <1>1 DEF Asks, Move
<1>4. r.at = "sent"
  BY DEF Idle
<1>5. CallInv(c)'
  BY <1>3, <1>4 DEF CallInv
<1> HIDE DEF r
<1>6. QED
  BY <1>2, <1>3, <1>5, CallMoved, NothingElse

LEMMA SendKeeps ==
  ASSUME MirrorInv, NEW c \in Calls, Send(c)
  PROVE  MirrorInv'
BY AsksKeeps DEF Send, AskMirror, AskObservations, AskHead, AskObserver, Actions

LEMMA BeginKeeps ==
  ASSUME MirrorInv, NEW c \in Calls, Begin(c)
  PROVE  MirrorInv'
<1> DEFINE r == [call[c] EXCEPT !.at = "inspect"]
<1>1. call \in [Calls -> CallRecord] /\ UNCHANGED Elsewhere
  BY DEF MirrorInv, MirrorTypeOK, Begin
<1>2. CASE Fail(c, "MIRROR_COMMITTED_AT_INVALID")
  BY <1>1, <1>2, CallFailed, NothingElse DEF Codes
<1>3. CASE Move(c, r)
  <2>1. r \in CallRecord /\ r.at = "inspect"
    BY <1>1 DEF CallRecord
  <2>2. call'[c] = r
    BY <1>1, <1>3 DEF Move
  <2>3. CallInv(c)'
    BY <2>1, <2>2 DEF CallInv
  <2> HIDE DEF r
  <2>4. QED
    BY <1>1, <1>3, <2>1, <2>3, CallMoved, NothingElse
<1>4. QED
  BY <1>2, <1>3 DEF Begin

\* What an unpinned worker replied is not taken.
LEMMA FallBackKeeps ==
  ASSUME MirrorInv, NEW c \in Calls, FallBack(c)
  PROVE  MirrorInv'
<1> DEFINE r == [call[c] EXCEPT !.at = "replied", !.server = worker.version, !.result = 1]
<1>1. call \in [Calls -> CallRecord] /\ UNCHANGED Elsewhere
      /\ worker \in [version : {0, 1}, observer : {0, 1}] /\ worker.version # 0
  BY DEF MirrorInv, MirrorTypeOK, FallBack, CalleePinned
<1>2. CASE Fail(c, "PRIVATE_SERVICE_VERSION_FALLBACK")
  BY <1>1, <1>2, CallFailed, NothingElse DEF Codes
<1>3. CASE Move(c, r)
  <2>1. r \in CallRecord /\ r.at = "replied" /\ r.server # 0
    BY <1>1, ZenonT(60) DEF CallRecord
  <2>2. call'[c] = r
    BY <1>1, <1>3 DEF Move
  <2>3. CallInv(c)'
    BY <2>1, <2>2 DEF CallInv
  <2> HIDE DEF r
  <2>4. QED
    BY <1>1, <1>3, <2>1, <2>3, CallMoved, NothingElse
<1>4. QED
  BY <1>2, <1>3 DEF FallBack

LEMMA AdmitKeeps ==
  ASSUME MirrorInv, NEW c \in Calls, Admit(c)
  PROVE  MirrorInv'
<1>1. CASE FallBack(c)
  BY <1>1, FallBackKeeps
<1>2. CASE RefuseObserver(c)
  BY <1>2, CallFailed, NothingElse DEF RefuseObserver, Codes
<1>3. CASE HandleRecord(c) \/ HandleObservation(c) \/ HandleHead(c)
  BY <1>3, BeginKeeps DEF HandleRecord, HandleObservation, HandleHead
<1>4. QED
  BY <1>1, <1>2, <1>3 DEF Admit

LEMMA ListKeeps ==
  ASSUME MirrorInv, NEW c \in Calls, List(c)
  PROVE  MirrorInv'
<1> DEFINE o == ObjectOf[c]
           r == [call[c] EXCEPT !.at = "info", !.listed = Len(bucket[o]), !.by = observer]
<1>1. call \in [Calls -> CallRecord] /\ UNCHANGED Elsewhere /\ observer \in {0, 1}
  BY DEF MirrorInv, MirrorTypeOK, List
<1>2. Len(bucket[o]) \in Nat
  BY MirrorAssumption DEF MirrorInv, MirrorTypeOK
<1>3. ASSUME NEW code \in Codes, Fail(c, code)
      PROVE  MirrorInv'
  BY <1>1, <1>3, CallFailed, NothingElse
<1>4. CASE Move(c, r)
  <2>1. r \in CallRecord /\ r.at = "info" /\ r.listed = Len(bucket[o])
    BY <1>1, <1>2, ZenonT(60) DEF CallRecord
  <2>2. call'[c] = r /\ bucket' = bucket
    BY <1>1, <1>4 DEF Move, Elsewhere
  <2>3. CallInv(c)'
    BY <1>2, <2>1, <2>2 DEF CallInv
  <2> HIDE DEF r
  <2>4. QED
    BY <1>1, <1>4, <2>1, <2>3, CallMoved, NothingElse
<1>5. QED
  BY <1>3, <1>4 DEF List, Codes

LEMMA InfoKeeps ==
  ASSUME MirrorInv, NEW c \in Calls, Info(c)
  PROVE  MirrorInv'
<1> DEFINE o == ObjectOf[c]
           n == call[c].listed
           entries == {Entry(o, i, n) : i \in 1..n}
           r == [call[c] EXCEPT !.at = "download", !.inventory = entries]
<1>1. call \in [Calls -> CallRecord] /\ UNCHANGED Elsewhere /\ call[c].at = "info"
  BY DEF MirrorInv, MirrorTypeOK, Info
<1>2. o \in Objects /\ bucket[o] \in Seq(MirrorVersion)
  BY MirrorAssumption DEF MirrorInv, MirrorTypeOK, MirrorVersion
<1>3. n \in Nat /\ n <= Len(bucket[o])
  BY <1>1 DEF MirrorInv, CallInv, CallRecord
<1>4. ASSUME NEW i \in 1..n
      PROVE  /\ Entry(o, i, n) \in Listed
             /\ Entry(o, i, n).id = i
             /\ Entry(o, i, n).what = bucket[o][i].what
             /\ Entry(o, i, n).until <= bucket[o][i].until
             /\ Entry(o, i, n).latest => i = n
  <2>1. i \in Nat /\ i \in 1..Len(bucket[o])
    BY <1>2, <1>3, <1>4
  <2>2. bucket[o][i] \in MirrorVersion
    BY <1>2, <2>1
  <2>3. /\ Entry(o, i, n).id = i /\ Entry(o, i, n).what = bucket[o][i].what
        /\ Entry(o, i, n).until = bucket[o][i].until
        /\ Entry(o, i, n).latest <=> i = n
    BY DEF Entry
  <2>4. Entry(o, i, n) \in Listed
    BY <2>1, <2>2 DEF Entry, Listed, MirrorVersion
  <2>5. QED
    BY <2>2, <2>3, <2>4 DEF MirrorVersion
<1>5. Move(c, r) /\ call'[c] = r /\ bucket' = bucket
  BY <1>1 DEF Info, Move, Elsewhere
<1>6. r \in CallRecord /\ r.at = "download" /\ r.listed = n /\ r.inventory = entries
  <2>1. entries \in SUBSET Listed
    BY <1>4
  <2> HIDE DEF entries
  <2>2. QED
    BY <1>1, <2>1 DEF CallRecord
<1>7. CallInv(c)'
  <2>1. \A e \in entries : Known(c, e)'
    BY <1>4, <1>5, <1>6 DEF Known
  <2>2. Complete(c)'
    BY <1>4, <1>5, <1>6 DEF Complete
  <2> HIDE DEF r, entries
  <2>3. QED
    BY <1>3, <1>5, <1>6, <2>1, <2>2 DEF CallInv
<1> HIDE DEF r
<1>8. QED
  BY <1>1, <1>5, <1>6, <1>7, CallMoved, NothingElse

LEMMA DownloadKeeps ==
  ASSUME MirrorInv, NEW c \in Calls, Download(c)
  PROVE  MirrorInv'
<1>1. call \in [Calls -> CallRecord] /\ UNCHANGED Elsewhere /\ call[c].at = "download"
  BY DEF MirrorInv, MirrorTypeOK, Download
<1>2. /\ call[c].listed <= Len(bucket[ObjectOf[c]])
      /\ \A e \in call[c].inventory : Known(c, e)
      /\ Complete(c)
  BY <1>1 DEF MirrorInv, CallInv
<1>3. CASE Fail(c, "B2_DOWNLOAD_BINDING_INVALID")
  BY <1>1, <1>3, CallFailed, NothingElse DEF Codes
<1>4. ASSUME NEW few \in SUBSET call[c].inventory,
             few = call[c].inventory \/ call[c].by # 0,
             Move(c, [call[c] EXCEPT !.at = "answered", !.inventory = few])
      PROVE  MirrorInv'
  <2> DEFINE r == [call[c] EXCEPT !.at = "answered", !.inventory = few]
  <2>1. /\ r \in CallRecord /\ r.at = "answered" /\ r.listed = call[c].listed
        /\ r.inventory = few /\ r.by = call[c].by
    BY <1>1, <1>4 DEF CallRecord
  <2>2. Move(c, r) /\ call'[c] = r /\ bucket' = bucket
    BY <1>1, <1>4 DEF Move, Elsewhere
  <2> HIDE DEF r
  <2>3. \A e \in few : Known(c, e)'
    BY <1>2, <2>1, <2>2 DEF Known
  <2>4. call[c].by = 0 => Complete(c)'
    BY <1>2, <1>4, <2>1, <2>2 DEF Complete
  <2>5. CallInv(c)'
    BY <1>2, <2>1, <2>2, <2>3, <2>4 DEF CallInv
  <2>6. QED
    BY <1>1, <2>1, <2>2, <2>5, CallMoved, NothingElse
<1>5. CASE Move(c, [call[c] EXCEPT !.at = "answered"])
  <2>1. [call[c] EXCEPT !.at = "answered"]
          = [call[c] EXCEPT !.at = "answered", !.inventory = call[c].inventory]
    BY <1>1 DEF CallRecord
  <2>2. QED
    BY <1>4, <1>5, <2>1
<1>6. QED
  BY <1>3, <1>4, <1>5 DEF Download

-----------------------------------------------------------------------------
(* What an answer is taken for. *)

\* An answer that is not refused comes from the pinned observer, which told of
\* every version it had listed: own ones only, all retained.
LEMMA AnswerTrusted ==
  ASSUME MirrorInv, NEW c \in Calls, call[c].at = "answered", Refusal(c) = "NONE"
  PROVE  /\ \A e \in call[c].inventory : e \in Listed /\ Known(c, e)
         /\ \A e \in call[c].inventory : e.what = "own" /\ Retained(e.until)
         /\ Complete(c)
         /\ call[c].listed \in Nat /\ call[c].listed <= Len(bucket[ObjectOf[c]])
<1>1. call[c] \in CallRecord
  BY DEF MirrorInv, MirrorTypeOK
<1>2. call[c].by = 0
  BY DEF Refusal, PinnedAnswer
<1>3. \A e \in call[c].inventory : e.what # "hide" /\ e.what # "other" /\ Retained(e.until)
  BY DEF Refusal
<1>4. \A e \in call[c].inventory : e \in Listed /\ e.what \in Content
  BY <1>1 DEF CallRecord, Listed
<1>5. QED
  BY <1>1, <1>2, <1>3, <1>4 DEF MirrorInv, CallInv, CallRecord, Content

\* An empty answer: the key held nothing when it was listed.
LEMMA EmptyIsAbsent ==
  ASSUME MirrorInv, NEW c \in Calls, call[c].at = "answered", Refusal(c) = "NONE",
         call[c].inventory = {}
  PROVE  call[c].listed = 0
<1>1. Complete(c) /\ call[c].listed \in Nat
  BY AnswerTrusted
<1>2. 1 \notin 1..call[c].listed
  BY <1>1 DEF Complete
<1>3. QED
  BY <1>1, <1>2

\* One version that is the latest: it is the key's first and only one.
LEMMA FoundIsOnly ==
  ASSUME MirrorInv, NEW c \in Calls, call[c].at = "answered", Refusal(c) = "NONE",
         NEW v, Only(c, v)
  PROVE  v = 1 /\ OnlyVersion(c)
<1>1. PICK e \in call[c].inventory : call[c].inventory = {e} /\ e.latest /\ e.id = v
  BY DEF Only
<1>2. /\ e \in Listed /\ Known(c, e) /\ e.what = "own" /\ Retained(e.until)
      /\ Complete(c)
      /\ call[c].listed \in Nat /\ call[c].listed <= Len(bucket[ObjectOf[c]])
  BY <1>1, AnswerTrusted
<1>3. e.id \in 1..call[c].listed /\ e.id = call[c].listed
  BY <1>1, <1>2 DEF Known
<1>4. 1 \in 1..call[c].listed
  BY <1>2, <1>3
<1>5. e.id = 1
  BY <1>1, <1>2, <1>4 DEF Complete
<1>6. bucket[ObjectOf[c]] \in Seq(MirrorVersion)
  BY MirrorAssumption DEF MirrorInv, MirrorTypeOK, MirrorVersion
<1>7. call[c].listed = 1 /\ Len(bucket[ObjectOf[c]]) \in Nat /\ 1 <= Len(bucket[ObjectOf[c]])
  BY <1>2, <1>3, <1>5, <1>6
<1>8. bucket[ObjectOf[c]][1] \in MirrorVersion
  BY <1>6, <1>7
<1>9. Retained(bucket[ObjectOf[c]][1].until)
  BY <1>2, <1>5, <1>8, MirrorAssumption DEF Known, Retained, Listed, MirrorVersion
<1>10. bucket[ObjectOf[c]][1].what = "own"
  BY <1>2, <1>5 DEF Known
<1>11. QED
  BY <1>1, <1>5, <1>7, <1>9, <1>10 DEF OnlyVersion

LEMMA ReturnKeeps ==
  ASSUME MirrorInv, NEW c \in Calls, UNCHANGED Elsewhere, NEW v \in Nat, Return(c, v),
         IF call[c].action = "absence" THEN call[c].listed = 0 ELSE v = 1 /\ OnlyVersion(c)
  PROVE  MirrorInv'
<1> DEFINE r == [call[c] EXCEPT !.at = "replied", !.result = v, !.inventory = {}, !.by = 0]
<1>1. call \in [Calls -> CallRecord] /\ call[c] \in CallRecord
  BY DEF MirrorInv, MirrorTypeOK
<1>2. /\ r \in CallRecord /\ r.at = "replied" /\ r.result = v /\ r.listed = call[c].listed
      /\ r.action = call[c].action
  BY <1>1 DEF CallRecord
<1>3. Move(c, r) /\ call'[c] = r /\ bucket' = bucket
  BY <1>1 DEF Return, Move, Elsewhere
<1> HIDE DEF r
<1>4. OnlyVersion(c) => OnlyVersion(c)'
  BY <1>2, <1>3 DEF OnlyVersion
<1>5. CallInv(c)'
  BY <1>2, <1>3, <1>4 DEF CallInv
<1>6. QED
  BY <1>2, <1>3, <1>5, CallMoved, NothingElse

LEMMA ReturnOnlyKeeps ==
  ASSUME MirrorInv, NEW c \in Calls, UNCHANGED Elsewhere, ReturnOnly(c),
         call[c].at = "answered", Refusal(c) = "NONE", call[c].action # "absence"
  PROVE  MirrorInv'
<1>1. CASE Found(c)
  <2>1. PICK e \in call[c].inventory : Return(c, e.id)
    BY <1>1 DEF ReturnOnly
  <2>2. PICK f \in call[c].inventory : Only(c, f.id)
    BY <1>1 DEF Found
  <2>3. f = e
    BY <2>1, <2>2 DEF Only
  <2>4. e.id = 1 /\ OnlyVersion(c)
    BY <2>2, <2>3, FoundIsOnly
  <2>5. QED
    BY <2>1, <2>4, ReturnKeeps
<1>2. CASE ~Found(c)
  BY <1>2, CallFailed, NothingElse DEF ReturnOnly, Codes
<1>3. QED
  BY <1>1, <1>2

LEMMA RefusedKeeps ==
  ASSUME MirrorInv, NEW c \in Calls, Refused(c)
  PROVE  MirrorInv'
<1>1. Refusal(c) \in Codes
  BY DEF Refusal, Codes
<1>2. QED
  BY <1>1, CallFailed, NothingElse DEF Refused

LEMMA TakeExistingKeeps ==
  ASSUME MirrorInv, NEW c \in Calls, TakeExisting(c)
  PROVE  MirrorInv'
<1> DEFINE r == [call[c] EXCEPT !.at = "uploading"]
<1>1. /\ call \in [Calls -> CallRecord] /\ UNCHANGED Elsewhere
      /\ call[c].at = "answered" /\ Refusal(c) = "NONE" /\ call[c].action # "absence"
  BY DEF MirrorInv, MirrorTypeOK, TakeExisting, Answered
<1>2. CASE ReturnOnly(c)
  BY <1>1, <1>2, ReturnOnlyKeeps
<1>3. CASE Move(c, r)
  <2>1. r \in CallRecord /\ r.at = "uploading"
    BY <1>1 DEF CallRecord
  <2>2. call'[c] = r
    BY <1>1, <1>3 DEF Move
  <2>3. CallInv(c)'
    BY <2>1, <2>2 DEF CallInv
  <2> HIDE DEF r
  <2>4. QED
    BY <1>1, <1>3, <2>1, <2>3, CallMoved, NothingElse
<1>4. QED
  BY <1>2, <1>3 DEF TakeExisting

LEMMA TakeLaterKeeps ==
  ASSUME MirrorInv, NEW c \in Calls, TakeConfirmed(c) \/ TakeRecovered(c) \/ TakeReconciled(c)
  PROVE  MirrorInv'
<1>1. /\ UNCHANGED Elsewhere
      /\ call[c].at = "answered" /\ Refusal(c) = "NONE" /\ call[c].action # "absence"
  BY DEF TakeConfirmed, TakeRecovered, TakeReconciled, Answered
<1>2. ReturnOnly(c) \/ \E code \in Codes : Fail(c, code)
  BY DEF TakeConfirmed, TakeRecovered, TakeReconciled, Codes
<1>3. QED
  BY <1>1, <1>2, ReturnOnlyKeeps, CallFailed, NothingElse

LEMMA TakeAbsentKeeps ==
  ASSUME MirrorInv, NEW c \in Calls, TakeAbsent(c)
  PROVE  MirrorInv'
<1>1. /\ UNCHANGED Elsewhere
      /\ call[c].at = "answered" /\ Refusal(c) = "NONE" /\ call[c].action = "absence"
  BY DEF TakeAbsent, Answered
<1>2. CASE call[c].inventory = {}
  BY <1>1, <1>2, EmptyIsAbsent, ReturnKeeps DEF TakeAbsent, NoVersion
<1>3. CASE call[c].inventory # {}
  BY <1>1, <1>3, CallFailed, NothingElse DEF TakeAbsent, Codes
<1>4. QED
  BY <1>2, <1>3

LEMMA ReceiveKeeps ==
  ASSUME MirrorInv, NEW c \in Calls, Receive(c)
  PROVE  MirrorInv'
<1> DEFINE r == [call[c] EXCEPT !.at = "done"]
<1>1. call \in [Calls -> CallRecord] /\ UNCHANGED Elsewhere /\ CallInv(c) /\ call[c].at = "replied"
  BY DEF MirrorInv, MirrorTypeOK, Receive
<1>2. CASE Fail(c, "SERVICE_VERSION_MISMATCH")
  BY <1>1, <1>2, CallFailed, NothingElse DEF Codes
<1>3. CASE PinnedReply(c) /\ Move(c, r)
  <2>1. r \in CallRecord /\ r = [call[c] EXCEPT !.at = "done"] /\ r.at = "done"
        /\ r.listed = call[c].listed /\ r.result = call[c].result /\ r.action = call[c].action
        /\ r.server = call[c].server
    BY <1>1 DEF CallRecord
  <2>2. call'[c] = r /\ bucket' = bucket
    BY <1>1, <1>3 DEF Move, Elsewhere
  <2>3. call[c].server = 0
    BY <1>3 DEF PinnedReply
  <2> HIDE DEF r
  <2>4. OnlyVersion(c) => OnlyVersion(c)'
    BY <2>1, <2>2 DEF OnlyVersion
  <2>5. CallInv(c)'
    BY <1>1, <2>1, <2>2, <2>3, <2>4 DEF CallInv
  <2>6. QED
    BY <1>1, <1>3, <2>1, <2>5, CallMoved, NothingElse DEF r
<1>4. QED
  BY <1>2, <1>3 DEF Receive

-----------------------------------------------------------------------------
(* The writer, and what happens around the calls. *)

LEMMA InspectsAgain ==
  ASSUME MirrorInv, BucketKept, Surroundings', NEW c \in Calls,
         NEW stage \in {"first", "confirm", "recover"}, NEW written \in Nat,
         Move(c, InspectAgain(c, stage, written))
  PROVE  MirrorInv'
<1> DEFINE r == InspectAgain(c, stage, written)
<1>1. call \in [Calls -> CallRecord]
  BY DEF MirrorInv, MirrorTypeOK
<1>2. r \in CallRecord /\ r.at = "inspect"
  BY <1>1, ZenonT(60) DEF CallRecord, InspectAgain
<1>3. call'[c] = r
  BY <1>1 DEF Move
<1> HIDE DEF r
<1>4. CallInv(c)'
  BY <1>2, <1>3 DEF CallInv
<1>5. QED
  BY <1>2, <1>4, CallMoved DEF r

LEMMA Happens ==
  ASSUME MirrorInv, Mishap
  PROVE  mishaps' \in 0..MaxMishaps
BY MirrorAssumption DEF MirrorInv, MirrorTypeOK, Mishap

LEMMA StoreKeeps ==
  ASSUME MirrorInv, NEW o \in Objects, NEW what \in Content, Store(o, what)
  PROVE  BucketKept
BY StoredVersion, BucketAppend DEF MirrorInv, Store

LEMMA WriterAnswersKeeps ==
  ASSUME MirrorInv, NEW c \in Calls, WriterAnswers(c)
  PROVE  MirrorInv'
<1> DEFINE o == ObjectOf[c]
<1>1. o \in Objects /\ Len(bucket[o]) + 1 \in Nat
  BY MirrorAssumption DEF MirrorInv, MirrorTypeOK
<1>2. BucketKept
  <2>1. CASE Store(o, "own")
    BY <1>1, <2>1, StoreKeeps DEF Content
  <2>2. CASE bucket' = [bucket EXCEPT ![o] = Append(@, Stored("own", 1))]
    BY <1>1, <2>2, StoredVersion, BucketAppend DEF MirrorInv, Content
  <2>3. QED
    BY <2>1, <2>2 DEF WriterAnswers
<1>3. Surroundings'
  BY Happens DEF MirrorInv, MirrorTypeOK, Surroundings, WriterAnswers
<1>4. QED
  BY <1>1, <1>2, <1>3, InspectsAgain DEF WriterAnswers

LEMMA UploadFailsKeeps ==
  ASSUME MirrorInv, NEW c \in Calls, UploadFails(c)
  PROVE  MirrorInv'
<1> DEFINE o == ObjectOf[c]
<1>1. o \in Objects
  BY MirrorAssumption
<1>2. BucketKept
  BY <1>1, StoreKeeps, BucketUnchanged DEF MirrorInv, UploadFails, Content
<1>3. late' \in [Objects -> Nat]
  <2>1. late \in [Objects -> Nat] /\ late[o] + 1 \in Nat
    BY <1>1 DEF MirrorInv, MirrorTypeOK
  <2>2. late' = late \/ late' = [late EXCEPT ![o] = late[o] + 1]
    BY DEF UploadFails
  <2>3. QED
    BY <2>1, <2>2
<1>4. Surroundings'
  BY <1>3, Happens DEF MirrorInv, MirrorTypeOK, Surroundings, UploadFails
<1>5. QED
  BY <1>2, <1>4, InspectsAgain DEF UploadFails, NoVersion

LEMMA LateUploadLandsKeeps ==
  ASSUME MirrorInv, NEW o \in Objects, LateUploadLands(o)
  PROVE  MirrorInv'
<1>1. BucketKept
  BY StoreKeeps DEF LateUploadLands, Content
<1>2. late' \in [Objects -> Nat]
  <2>1. late \in [Objects -> Nat] /\ late[o] > 0 /\ late[o] \in Nat
    BY DEF MirrorInv, MirrorTypeOK, LateUploadLands
  <2>2. late[o] - 1 \in Nat
    BY <2>1
  <2>3. QED
    BY <2>1, <2>2 DEF LateUploadLands
<1>3. Surroundings'
  BY <1>2 DEF MirrorInv, MirrorTypeOK, Surroundings, LateUploadLands
<1>4. QED
  BY <1>1, <1>3, CallsKept DEF LateUploadLands

LEMMA CallFailsKeeps ==
  ASSUME MirrorInv, NEW c \in Calls, CallFails(c)
  PROVE  MirrorInv'
<1>1. BucketKept
  BY BucketUnchanged DEF MirrorInv, CallFails
<1>2. Surroundings'
  BY Happens DEF MirrorInv, MirrorTypeOK, Surroundings, CallFails
<1>3. QED
  BY <1>1, <1>2, CallFailed DEF CallFails, Codes

LEMMA StrangerWritesKeeps ==
  ASSUME MirrorInv, NEW o \in Objects, StrangerWrites(o)
  PROVE  MirrorInv'
<1>1. BucketKept
  <2>1. ASSUME NEW what \in {"other", "hide"}, Store(o, what)
        PROVE  BucketKept
    BY <2>1, StoreKeeps DEF Content
  <2>2. CASE UNCHANGED bucket
    BY <2>2, BucketUnchanged DEF MirrorInv
  <2>3. ASSUME NEW n \in Versions(o), bucket' = [bucket EXCEPT ![o][n].until = @ + 1]
        PROVE  BucketKept
    BY <2>3, BucketRetained DEF MirrorInv
  <2>4. QED
    BY <2>1, <2>2, <2>3 DEF StrangerWrites
<1>2. Surroundings'
  BY Happens DEF MirrorInv, MirrorTypeOK, Surroundings, StrangerWrites
<1>3. QED
  BY <1>1, <1>2, CallsKept DEF StrangerWrites

LEMMA ConfigurationKeeps ==
  ASSUME MirrorInv, Reconfigure \/ RedeployObserver \/ RedeployMirror
  PROVE  MirrorInv'
<1>1. BucketKept /\ UNCHANGED call
  BY BucketUnchanged DEF MirrorInv, Reconfigure, RedeployObserver, RedeployMirror
<1>2. Surroundings'
  <2>1. CASE RedeployMirror
    <3>1. worker' \in [version : {0, 1}, observer : {0, 1}]
      BY <2>1 DEF MirrorInv, MirrorTypeOK, RedeployMirror
    <3>2. QED
      BY <2>1, <3>1, Happens DEF MirrorInv, MirrorTypeOK, Surroundings, RedeployMirror
  <2>2. CASE Reconfigure
    BY <2>2, Happens DEF MirrorInv, MirrorTypeOK, Surroundings, Reconfigure
  <2>3. CASE RedeployObserver
    BY <2>3, Happens DEF MirrorInv, MirrorTypeOK, Surroundings, RedeployObserver
  <2>4. QED
    BY <2>1, <2>2, <2>3
<1>3. QED
  BY <1>1, <1>2, CallsKept

-----------------------------------------------------------------------------
(* The theorems. *)

LEMMA MirrorInvInit == MirrorInit => MirrorInv
<1> SUFFICES ASSUME MirrorInit PROVE MirrorInv
  OBVIOUS
<1>1. bucket \in [Objects -> Seq([what : Content, behind : Nat, until : Int])]
  BY DEF MirrorInit
<1>2. Idle \in CallRecord /\ Idle.at = "idle"
  BY DEF Idle, CallRecord, Actions, Codes, NoVersion
<1>3. call \in [Calls -> CallRecord] /\ \A c \in Calls : call[c].at = "idle"
  BY <1>2 DEF MirrorInit
<1>4. MirrorTypeOK
  BY <1>1, <1>3, MirrorAssumption DEF MirrorInit, MirrorTypeOK
<1>5. \A c \in Calls : CallInv(c)
  BY <1>3 DEF CallInv
<1>6. QED
  BY <1>4, <1>5 DEF MirrorInv

LEMMA MirrorInvNext == MirrorInv /\ [MirrorNext]_mirrorVars => MirrorInv'
<1> SUFFICES ASSUME MirrorInv, [MirrorNext]_mirrorVars PROVE MirrorInv'
  OBVIOUS
<1>1. ASSUME NEW c \in Calls, CallStep(c)
      PROVE  MirrorInv'
  BY <1>1, AdmitKeeps, ListKeeps, InfoKeeps, DownloadKeeps, RefusedKeeps, TakeExistingKeeps,
     TakeLaterKeeps, TakeAbsentKeeps, WriterAnswersKeeps, ReceiveKeeps DEF CallStep
<1>2. ASSUME NEW o \in Objects, ObjectStep(o)
      PROVE  MirrorInv'
  BY <1>1, <1>2, SendKeeps, UploadFailsKeeps, CallFailsKeeps, LateUploadLandsKeeps,
     StrangerWritesKeeps DEF ObjectStep, CallsOf
<1>3. CASE UNCHANGED mirrorVars
  BY <1>3, CallsKept, NothingElse DEF mirrorVars, Elsewhere
<1>4. QED
  BY <1>2, <1>3, ConfigurationKeeps DEF MirrorNext

\* The mirror's state is always of its type.
THEOREM MirrorTypeCorrect == MirrorSpec => []MirrorTypeOK
<1>1. MirrorInv => MirrorTypeOK
  BY DEF MirrorInv
<1>2. QED
  BY <1>1, MirrorInvInit, MirrorInvNext, PTL DEF MirrorSpec

\* Whoever is told of a version is told of the only one that its key held, of the
\* object's bytes and retained (reconcileExactObject, putAndReconcile and the
\* pinned clients of both workers), for any objects, callers and retention.
THEOREM MirroredIsOnly == MirrorSpec => []MirroredWasOnly
<1>1. MirrorInv => MirroredWasOnly
  BY DEF MirrorInv, CallInv, MirroredWasOnly, Mirrored, OnlyVersion
<1>2. QED
  BY <1>1, MirrorInvInit, MirrorInvNext, PTL DEF MirrorSpec

=============================================================================
