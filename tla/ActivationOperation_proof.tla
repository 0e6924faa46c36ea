---------------------- MODULE ActivationOperation_proof ----------------------
(***************************************************************************)
(* Proofs about ActivationOperationJournal, for any requests, direct slots *)
(* and bounds, and any callers: issuances are replaced only before a       *)
(* dispatch, evidence is dated within its issuance and never changes, and  *)
(* the tables agree on the records made from it.  Then about the runs of   *)
(* ActivationOperationRunner: they are such callers, call out only for     *)
(* what the journal has sealed, answer only what it has stored, and carry  *)
(* out one plan of each record.                                            *)
(***************************************************************************)
EXTENDS ActivationOperationRunner, SequenceTheorems, TLAPS

\* What a slot of an issuance holds follows from its state.
ShapedSlot(issued, slot) ==
  /\ slot.state \in {"PREPARED", "READ_IN_FLIGHT"} => slot.observed = {} /\ slot.committed = {}
  /\ slot.state = "FROZEN" => slot.committed = {} /\ \E t \in slot.observed : issued <= t

SlotShaped(i) == \A x \in DOMAIN i.slots : ShapedSlot(i.issued, i.slots[x])

\* EvidenceChronology, of one slot of one issuance: an effect of slot x is
\* dated within the issuance, a direct one after it was observed.
Dated(i, x) ==
  \E c \in i.slots[x].committed :
    /\ i.issued <= c /\ c <= FreshUntil(i)
    /\ x \in DirectSlots => \E t \in i.slots[x].observed : i.issued <= t /\ t <= c
    /\ x = "CLOUDFLARE_BATCH" =>
         \A y \in DOMAIN i.slots \ {x} :
           /\ \E t \in i.slots[y].observed : i.issued <= t
           /\ y \in DirectSlots => \E u \in i.slots[y].committed : u <= c

Chronicled(i) == \A x \in DOMAIN i.slots : InEffect(i.slots[x]) => Dated(i, x)

\* The record's time is the issuance's, and a READY_TO_APPEND issuance stays ready.
RecordReady(i) ==
  /\ \A t \in i.committed : i.issued <= t /\ t <= FreshUntil(i)
  /\ i.state \in {"READY_TO_APPEND", "RECORD_APPENDED", "CONFIRMED"} => ReadyForRecord(i)

\* What holds of every issuance by itself.
Sound(i) == SlotShaped(i) /\ Chronicled(i) /\ RecordReady(i)

AllSound == \A s \in Sequence : \A n \in DOMAIN issuances[s] : Sound(issuances[s][n])

\* RecordHasEvidence, of one record of sequence s made from issuance i.
MadeFrom(s, record, i) ==
  /\ i.committed = record.committed
  /\ \E t \in record.committed :
       /\ i.issued <= t
       /\ t <= FreshUntil(i)
       /\ \A x \in Roster(s) :
            /\ i.slots[x].state = IF x = "CONTROLLER_ACTION" THEN "FROZEN" ELSE "CONFIRMED"
            /\ NoLaterThan(i.slots[x].observed \cup i.slots[x].committed, t)

AllMade ==
  \A s \in Sequence : records[s].state # "MISSING" =>
    /\ records[s].ordinal \in DOMAIN issuances[s]
    /\ records[s].ordinal = Len(issuances[s])
    /\ MadeFrom(s, records[s], issuances[s][records[s].ordinal])

\* StatesAgree with what it leaves open of a sequence without an intent.
TablesAgree ==
  /\ StatesAgree
  /\ \A s \in Sequence : issuances[s] = <<>> => records[s].state = "MISSING"
  /\ \A s \in Sequence : intents[s].state # "MISSING" => intents[s].request # {}

JournalInv ==
  /\ JournalTypeOK
  /\ AllSound
  /\ OneLiveIssuance
  /\ DispatchedIsFinal
  /\ TablesAgree
  /\ AllMade
  /\ RecordsInOrder

-----------------------------------------------------------------------------
(* Every step but the creation of an issuance rewrites the last issuance   *)
(* of a sequence.                                                          *)

\* No slot loses evidence.
SlotsKept(old, new) ==
  \A x \in DOMAIN old.slots :
    /\ old.slots[x].observed # {} => new.slots[x].observed = old.slots[x].observed
    /\ old.slots[x].committed # {} => new.slots[x].committed = old.slots[x].committed
    /\ old.slots[x].state = "CONFIRMED" => new.slots[x].state = "CONFIRMED"

Recorded == {"RECORD_APPENDED", "CONFIRMED"}

\* An issuance without a record becomes another one.
Rewrites(s, old, new) ==
  /\ new \in Issuance(s)
  /\ Sound(new)
  /\ SlotsKept(old, new)
  /\ old.state \notin Recorded
  /\ new.state \notin Recorded
  /\ Dispatched(new) => new.state # "EXPIRED_UNDISPATCHED"

\* Replacing one issuance changes that one only.
LEMMA PutChangesOne ==
  ASSUME JournalTypeOK, NEW s \in Sequence, NEW n \in DOMAIN issuances[s],
         NEW i \in Issuance(s),
         issuances' = [issuances EXCEPT ![s] = [@ EXCEPT ![n] = i]]
  PROVE  /\ DOMAIN issuances' = Sequence
         /\ \A z \in Sequence :
              /\ issuances'[z] \in Seq(Issuance(z))
              /\ Len(issuances'[z]) = Len(issuances[z])
              /\ DOMAIN issuances'[z] = DOMAIN issuances[z]
              /\ \A k \in DOMAIN issuances[z] :
                   issuances'[z][k] = IF z = s /\ k = n THEN i ELSE issuances[z][k]
<1>1. issuances[s] \in Seq(Issuance(s)) /\ n \in 1 .. Len(issuances[s])
  BY LenProperties DEF JournalTypeOK
<1>2. DOMAIN issuances' = Sequence
  BY DEF JournalTypeOK
<1>3. issuances'[s] = [issuances[s] EXCEPT ![n] = i]
  BY DEF JournalTypeOK
<1>4. /\ issuances'[s] \in Seq(Issuance(s))
      /\ Len(issuances'[s]) = Len(issuances[s])
      /\ \A k \in 1 .. Len(issuances[s]) :
           issuances'[s][k] = IF k = n THEN i ELSE issuances[s][k]
  BY <1>1, <1>3, ExceptSeq
<1>5. DOMAIN issuances'[s] = 1 .. Len(issuances[s]) /\ DOMAIN issuances[s] = 1 .. Len(issuances[s])
  BY <1>1, <1>4, LenProperties
<1>6. ASSUME NEW z \in Sequence, z # s
      PROVE  issuances'[z] = issuances[z] /\ issuances[z] \in Seq(Issuance(z))
  BY <1>6 DEF JournalTypeOK
<1>7. QED
  BY <1>2, <1>4, <1>5, <1>6

\* A rewritten last issuance keeps the invariant and all evidence.
LEMMA PutPreserves ==
  ASSUME JournalInv, NEW s \in Sequence, NEW n \in DOMAIN issuances[s],
         n = Len(issuances[s]), NEW i, Rewrites(s, issuances[s][n], i), Put(s, n, i)
  PROVE  JournalInv' /\ EvidenceIsKept
<1>0. /\ issuances' = [issuances EXCEPT ![s] = [@ EXCEPT ![n] = i]]
      /\ now' = now /\ intents' = intents /\ records' = records
      /\ i \in Issuance(s) /\ JournalTypeOK
  BY DEF Put, Rewrites, JournalInv
<1>1. /\ DOMAIN issuances' = Sequence
      /\ \A z \in Sequence :
           /\ issuances'[z] \in Seq(Issuance(z))
           /\ Len(issuances'[z]) = Len(issuances[z])
           /\ DOMAIN issuances'[z] = DOMAIN issuances[z]
           /\ \A k \in DOMAIN issuances[z] :
                issuances'[z][k] = IF z = s /\ k = n THEN i ELSE issuances[z][k]
  BY <1>0, PutChangesOne
<1>2. JournalTypeOK'
  BY <1>0, <1>1 DEF JournalTypeOK
<1>3. AllSound'
  BY <1>1 DEF JournalInv, AllSound, Rewrites
<1>4. \A z \in Sequence : issuances[z] \in Seq(Issuance(z)) /\ DOMAIN issuances[z] = 1 .. Len(issuances[z])
                          /\ Len(issuances[z]) \in Nat
  BY <1>0, LenProperties DEF JournalTypeOK
<1>5. OneLiveIssuance'
  BY <1>1, <1>4 DEF JournalInv, OneLiveIssuance
<1>6. DispatchedIsFinal'
  BY <1>1, <1>4 DEF JournalInv, DispatchedIsFinal, Rewrites
<1>7. issuances[s] # <<>>
  BY <1>4
<1>8. ASSUME NEW z \in Sequence, records[z].state # "MISSING" PROVE z # s
  <2>1. records[z].state \in {"APPENDED", "CONFIRMED"}
    BY <1>0, <1>8 DEF JournalTypeOK, Record
  <2>2. CASE z = s
    BY <2>1, <2>2, <1>7 DEF JournalInv, TablesAgree, StatesAgree, Latest, Rewrites, Recorded
  <2>3. QED
    BY <2>2
<1>9. TablesAgree'
  <2>1. \A z \in Sequence : issuances'[z] = <<>> <=> issuances[z] = <<>>
    BY <1>1, <1>4, EmptySeq
  <2>2. \A z \in Sequence : issuances[z] # <<>> => Len(issuances[z]) \in DOMAIN issuances[z]
    BY <1>4, EmptySeq
  <2>3. \A z \in Sequence \ {s} : issuances[z] # <<>> => Latest(z)' = Latest(z)
    BY <1>1, <2>2 DEF Latest
  <2>4. Latest(s)' = i /\ Latest(s) = issuances[s][n]
    BY <1>1 DEF Latest
  <2>5. ASSUME NEW z \in Sequence PROVE
          /\ intents'[z].state = "MISSING" <=> issuances'[z] = <<>>
          /\ issuances'[z] # <<>> =>
               /\ Latest(z)'.state = "RECORD_APPENDED" <=> records'[z].state = "APPENDED"
               /\ Latest(z)'.state = "CONFIRMED" <=> records'[z].state = "CONFIRMED"
               /\ Latest(z)'.state = "CONFIRMED" <=> intents'[z].state = "CONFIRMED"
    <3>1. CASE z = s
      BY <3>1, <2>1, <2>4, <1>0, <1>7 DEF JournalInv, TablesAgree, StatesAgree, Rewrites, Recorded
    <3>2. CASE z # s
      BY <3>2, <2>1, <2>3, <1>0 DEF JournalInv, TablesAgree, StatesAgree
    <3>3. QED
      BY <3>1, <3>2
  <2>6. StatesAgree'
    BY <2>5 DEF StatesAgree
  <2>7. QED
    BY <2>1, <2>6, <1>0 DEF JournalInv, TablesAgree
<1>10. AllMade'
  <2>1. ASSUME NEW z \in Sequence, records[z].state # "MISSING"
        PROVE  /\ Len(issuances'[z]) = Len(issuances[z])
               /\ DOMAIN issuances'[z] = DOMAIN issuances[z]
               /\ \A k \in DOMAIN issuances[z] : issuances'[z][k] = issuances[z][k]
    BY <2>1, <1>1, <1>8
  <2>2. QED
    BY <2>1, <1>0 DEF JournalInv, AllMade
<1>11. RecordsInOrder'
  BY <1>0 DEF JournalInv, RecordsInOrder
<1>12. EvidenceIsKept
  BY <1>0, <1>1, SMTT(40) DEF EvidenceIsKept, Rewrites, SlotsKept
<1>13. QED
  BY <1>2, <1>3, <1>5, <1>6, <1>9, <1>10, <1>11, <1>12 DEF JournalInv

-----------------------------------------------------------------------------
(* Each operation rewrites a sound issuance. *)

Ready == {"READY_TO_APPEND"} \cup Recorded

\* An effect stays dated while its issuance keeps its time and its evidence.
LEMMA DatedKept ==
  ASSUME NEW i, NEW new, NEW x, Dated(i, x), SlotsKept(i, new), new.issued = i.issued,
         DOMAIN new.slots = DOMAIN i.slots, x \in DOMAIN i.slots
  PROVE  Dated(new, x)
<1>1. PICK c \in i.slots[x].committed :
        /\ i.issued <= c /\ c <= FreshUntil(i)
        /\ x \in DirectSlots => \E t \in i.slots[x].observed : i.issued <= t /\ t <= c
        /\ x = "CLOUDFLARE_BATCH" =>
             \A y \in DOMAIN i.slots \ {x} :
               /\ \E t \in i.slots[y].observed : i.issued <= t
               /\ y \in DirectSlots => \E u \in i.slots[y].committed : u <= c
  BY DEF Dated
<1>2. c \in new.slots[x].committed
  BY <1>1 DEF SlotsKept
<1>3. new.issued <= c /\ c <= FreshUntil(new)
  BY <1>1 DEF FreshUntil
<1>4. x \in DirectSlots => \E t \in new.slots[x].observed : new.issued <= t /\ t <= c
  BY <1>1 DEF SlotsKept
<1>5. x = "CLOUDFLARE_BATCH" =>
        \A y \in DOMAIN new.slots \ {x} :
          /\ \E t \in new.slots[y].observed : new.issued <= t
          /\ y \in DirectSlots => \E u \in new.slots[y].committed : u <= c
  BY <1>1 DEF SlotsKept
<1>6. QED
  BY <1>2, <1>3, <1>4, <1>5 DEF Dated

\* What is to be shown of a new issuance that has no record and is not ready for one.
LEMMA SoundStep ==
  ASSUME NEW s \in Sequence, NEW i \in Issuance(s), Sound(i), NEW new \in Issuance(s),
         new.issued = i.issued, SlotsKept(i, new), SlotShaped(new),
         \A x \in Roster(s) :
           InEffect(new.slots[x]) /\ ~InEffect(i.slots[x]) => Dated(new, x),
         \A t \in new.committed : i.issued <= t /\ t <= FreshUntil(i),
         new.state \notin Ready
  PROVE  Sound(new)
<1>1. DOMAIN new.slots = Roster(s) /\ DOMAIN i.slots = Roster(s)
  BY DEF Issuance
<1>2. ASSUME NEW x \in Roster(s), InEffect(new.slots[x]) PROVE Dated(new, x)
  BY <1>1, <1>2, DatedKept DEF Sound, Chronicled
<1>3. RecordReady(new)
  BY DEF RecordReady, FreshUntil, Ready, Recorded
<1>4. QED
  BY <1>1, <1>2, <1>3 DEF Sound, Chronicled

\* A current issuance is typed and sound.
LEMMA CurrentIsSound ==
  ASSUME JournalInv, NEW s \in Sequence, NEW n, NEW states, CurrentIn(s, n, states)
  PROVE  /\ n \in DOMAIN issuances[s] /\ n = Len(issuances[s])
         /\ issuances[s][n] \in Issuance(s)
         /\ Sound(issuances[s][n])
         /\ issuances[s][n].state \in states
<1>1. n \in DOMAIN issuances[s] /\ n = Len(issuances[s]) /\ issuances[s][n].state \in states
  BY DEF CurrentIn
<1>2. issuances[s] \in Seq(Issuance(s))
  BY DEF JournalInv, JournalTypeOK
<1>3. issuances[s][n] \in Issuance(s)
  BY <1>1, <1>2, LenProperties
<1>4. QED
  BY <1>1, <1>3 DEF JournalInv, AllSound

\* An issuance found overdue.
LEMMA ExpiredRewrites ==
  ASSUME NEW s \in Sequence, NEW i \in Issuance(s), Sound(i), i.state \notin Recorded
  PROVE  Rewrites(s, i, Expired(i))
<1> DEFINE new == Expired(i)
<1>1. new.state = (IF Dispatched(i) THEN "DISPATCHED_HOLD" ELSE "EXPIRED_UNDISPATCHED")
  BY DEF Expired, Issuance
<1>2. /\ new \in Issuance(s)
      /\ new.slots = i.slots /\ new.issued = i.issued /\ new.committed = i.committed
  BY DEF Expired, Issuance, IssuanceState
<1>3. new.state \notin Ready
  BY <1>1 DEF Ready, Recorded
<1>4. SlotsKept(i, new) /\ SlotShaped(new)
  BY <1>2 DEF SlotsKept, Sound, SlotShaped
<1>5. \A t \in new.committed : i.issued <= t /\ t <= FreshUntil(i)
  BY <1>2 DEF Sound, RecordReady
<1>6. Sound(new)
  <2> HIDE DEF new
  <2>1. QED
    BY <1>2, <1>3, <1>4, <1>5, SoundStep
<1>7. Dispatched(new) => new.state # "EXPIRED_UNDISPATCHED"
  BY <1>1, <1>2 DEF Dispatched
<1>8. QED
  BY <1>2, <1>3, <1>4, <1>6, <1>7 DEF Rewrites, Ready

\* A step of one slot, of an issuance not yet ready for its record.
LEMMA OneSlotRewrites ==
  ASSUME NEW s \in Sequence, NEW i \in Issuance(s), Sound(i), NEW new \in Issuance(s),
         NEW x \in Roster(s),
         new.issued = i.issued,
         \A y \in Roster(s) \ {x} : new.slots[y] = i.slots[y],
         i.slots[x].observed # {} => new.slots[x].observed = i.slots[x].observed,
         i.slots[x].committed # {} => new.slots[x].committed = i.slots[x].committed,
         i.slots[x].state = "CONFIRMED" => new.slots[x].state = "CONFIRMED",
         ShapedSlot(i.issued, new.slots[x]),
         InEffect(new.slots[x]) => InEffect(i.slots[x]),
         \A t \in new.committed : i.issued <= t /\ t <= FreshUntil(i),
         i.state \notin Ready, new.state \notin Ready, new.state # "EXPIRED_UNDISPATCHED"
  PROVE  Rewrites(s, i, new)
<1>1. DOMAIN new.slots = Roster(s) /\ DOMAIN i.slots = Roster(s)
  BY DEF Issuance
<1>2. SlotsKept(i, new)
  BY <1>1 DEF SlotsKept
<1>3. SlotShaped(new)
  BY <1>1 DEF Sound, SlotShaped
<1>4. \A y \in Roster(s) : InEffect(new.slots[y]) => InEffect(i.slots[y])
  BY <1>1
<1>5. Sound(new)
  BY <1>2, <1>3, <1>4, SoundStep
<1>6. QED
  BY <1>2, <1>5 DEF Rewrites, Ready

\* prepareRead
LEMMA PrepareReadPreserves ==
  ASSUME JournalInv, NEW s \in Sequence, NEW n, NEW x, PrepareRead(s, n, x)
  PROVE  JournalInv' /\ EvidenceIsKept
<1> DEFINE i == issuances[s][n]
           new == [i EXCEPT !.slots[x].state = "READ_IN_FLIGHT",
                            !.state = IF @ = "RESERVED" THEN "COLLECTING" ELSE @]
<1>1. /\ CurrentIn(s, n, {"RESERVED", "COLLECTING", "EFFECTS_PENDING"})
      /\ x \in Roster(s) /\ i.slots[x].state = "PREPARED" /\ Put(s, n, new)
  BY DEF PrepareRead, Live
<1>2. /\ n \in DOMAIN issuances[s] /\ n = Len(issuances[s])
      /\ i \in Issuance(s) /\ Sound(i)
      /\ i.state \in {"RESERVED", "COLLECTING", "EFFECTS_PENDING"}
  BY <1>1, CurrentIsSound
<1> HIDE DEF i
<1>3. /\ new \in Issuance(s)
      /\ new.issued = i.issued /\ new.committed = i.committed
      /\ new.state \in {"COLLECTING", "EFFECTS_PENDING"}
      /\ new.slots[x] = [i.slots[x] EXCEPT !.state = "READ_IN_FLIGHT"]
      /\ \A y \in Roster(s) \ {x} : new.slots[y] = i.slots[y]
      /\ DOMAIN i.slots = Roster(s)
      /\ i.slots[x] \in Slot
  BY <1>1, <1>2, ZenonT(60) DEF Issuance, IssuanceState, Slot, SlotState
<1> HIDE DEF new
<1>4. /\ new.slots[x].state = "READ_IN_FLIGHT"
      /\ new.slots[x].observed = i.slots[x].observed
      /\ new.slots[x].committed = i.slots[x].committed
  BY <1>3 DEF Slot
<1>5. ShapedSlot(i.issued, i.slots[x])
  BY <1>1, <1>2, <1>3 DEF Sound, SlotShaped
<1>6. ShapedSlot(i.issued, new.slots[x])
  BY <1>1, <1>4, <1>5 DEF ShapedSlot
<1>7. ~InEffect(new.slots[x]) /\ i.slots[x].state # "CONFIRMED"
  BY <1>1, <1>4 DEF InEffect
<1>8. \A t \in new.committed : i.issued <= t /\ t <= FreshUntil(i)
  BY <1>2, <1>3 DEF Sound, RecordReady
<1>9. i.state \notin Ready /\ new.state \notin Ready /\ new.state # "EXPIRED_UNDISPATCHED"
  BY <1>2, <1>3 DEF Ready, Recorded
<1>10. Rewrites(s, i, new)
  BY <1>1, <1>2, <1>3, <1>4, <1>6, <1>7, <1>8, <1>9, OneSlotRewrites
<1>11. QED
  BY <1>1, <1>2, <1>10, PutPreserves DEF i

\* freezeRead
LEMMA FreezeReadPreserves ==
  ASSUME JournalInv, NEW s \in Sequence, NEW n, NEW x, NEW observed \in Nat,
         FreezeRead(s, n, x, observed)
  PROVE  JournalInv' /\ EvidenceIsKept
<1> DEFINE i == issuances[s][n]
           slot == [state |-> "FROZEN", observed |-> {observed}, committed |-> {}]
           new == [i EXCEPT !.slots[x] = slot]
<1>1. /\ CurrentIn(s, n, {"RESERVED", "COLLECTING", "EFFECTS_PENDING"})
      /\ x \in Roster(s) /\ i.slots[x].state = "READ_IN_FLIGHT" /\ Put(s, n, new)
      /\ i.issued <= observed
  BY DEF FreezeRead, Live, MayFreeze, Fresh
<1>2. /\ n \in DOMAIN issuances[s] /\ n = Len(issuances[s])
      /\ i \in Issuance(s) /\ Sound(i)
      /\ i.state \in {"RESERVED", "COLLECTING", "EFFECTS_PENDING"}
  BY <1>1, CurrentIsSound
<1> HIDE DEF i
<1>3. slot \in Slot
  BY DEF Slot, SlotState
<1>4. ~InEffect(slot) /\ ShapedSlot(i.issued, slot)
  BY <1>1 DEF InEffect, ShapedSlot
<1> HIDE DEF slot
<1>5. /\ new \in Issuance(s)
      /\ new.issued = i.issued /\ new.committed = i.committed /\ new.state = i.state
      /\ new.slots[x] = slot
      /\ \A y \in Roster(s) \ {x} : new.slots[y] = i.slots[y]
      /\ DOMAIN i.slots = Roster(s)
  BY <1>1, <1>2, <1>3 DEF Issuance
<1> HIDE DEF new
<1>6. i.slots[x].observed = {} /\ i.slots[x].committed = {} /\ i.slots[x].state # "CONFIRMED"
  BY <1>1, <1>2, <1>5 DEF Sound, SlotShaped, ShapedSlot
<1>7. \A t \in new.committed : i.issued <= t /\ t <= FreshUntil(i)
  BY <1>2, <1>5 DEF Sound, RecordReady
<1>8. i.state \notin Ready /\ new.state \notin Ready /\ new.state # "EXPIRED_UNDISPATCHED"
  BY <1>2, <1>5 DEF Ready, Recorded
<1>9. Rewrites(s, i, new)
  BY <1>1, <1>2, <1>4, <1>5, <1>6, <1>7, <1>8, OneSlotRewrites
<1>10. QED
  BY <1>1, <1>2, <1>9, PutPreserves DEF i

\* Either, on an overdue issuance.
LEMMA ReadExpiresPreserves ==
  ASSUME JournalInv, NEW s \in Sequence, NEW n, NEW observed, ReadExpires(s, n, observed)
  PROVE  JournalInv' /\ EvidenceIsKept
<1>1. /\ CurrentIn(s, n, {"RESERVED", "COLLECTING", "EFFECTS_PENDING"})
      /\ Put(s, n, Expired(issuances[s][n]))
  BY DEF ReadExpires, Live
<1>2. /\ n \in DOMAIN issuances[s] /\ n = Len(issuances[s])
      /\ issuances[s][n] \in Issuance(s) /\ Sound(issuances[s][n])
      /\ issuances[s][n].state \notin Recorded
  BY <1>1, CurrentIsSound DEF Recorded
<1>3. QED
  BY <1>1, <1>2, ExpiredRewrites, PutPreserves

\* Effects sealed together: each is dated by the request, in an issuance whose reads it
\* closes over.
LEMMA DelegatedRewrites ==
  ASSUME NEW s \in Sequence, NEW i \in Issuance(s), Sound(i),
         NEW xs \in SUBSET Roster(s), NEW committed \in Nat,
         i.state \in {"RESERVED", "COLLECTING", "EFFECTS_PENDING"},
         \A x \in xs : i.slots[x].state \in {"PREPARED", "FROZEN"},
         i.issued <= committed, committed <= FreshUntil(i),
         \A x \in xs : x \in DirectSlots =>
           \E t \in i.slots[x].observed : i.issued <= t /\ t <= committed,
         "CLOUDFLARE_BATCH" \in xs =>
           \A y \in Roster(s) \ {"CLOUDFLARE_BATCH"} :
             /\ \E t \in i.slots[y].observed : i.issued <= t
             /\ y \in DirectSlots => y \in xs \/ \E u \in i.slots[y].committed : u <= committed
  PROVE  Rewrites(s, i, WithDelegated(i, xs, committed))
<1> DEFINE new == WithDelegated(i, xs, committed)
<1>1. ASSUME NEW slot \in Slot
      PROVE  /\ Delegated(slot, committed) \in Slot
             /\ Delegated(slot, committed).state = "DELEGATED_IN_FLIGHT"
             /\ Delegated(slot, committed).observed = slot.observed
             /\ Delegated(slot, committed).committed = {committed}
  BY DEF Slot, SlotState, Delegated
<1>2. /\ new.issued = i.issued /\ new.committed = i.committed
      /\ new.state = "EFFECTS_PENDING"
      /\ DOMAIN i.slots = Roster(s)
      /\ new.slots = [x \in Roster(s) |->
                        IF x \in xs THEN Delegated(i.slots[x], committed) ELSE i.slots[x]]
  BY DEF WithDelegated, Issuance
<1>3. new \in Issuance(s)
  <2>1. new.slots \in [Roster(s) -> Slot]
    BY <1>1, <1>2 DEF Issuance
  <2>2. new = [i EXCEPT !.state = "EFFECTS_PENDING", !.slots = new.slots]
    BY <1>2 DEF WithDelegated, Issuance
  <2>3. QED
    BY <2>1, <2>2 DEF Issuance, IssuanceState
<1> HIDE DEF new
<1>4. \A x \in xs : /\ i.slots[x].committed = {}
                     /\ new.slots[x].state = "DELEGATED_IN_FLIGHT"
                     /\ new.slots[x].observed = i.slots[x].observed
                     /\ new.slots[x].committed = {committed}
  <2> SUFFICES ASSUME NEW x \in xs
               PROVE  /\ i.slots[x].committed = {}
                      /\ new.slots[x].state = "DELEGATED_IN_FLIGHT"
                      /\ new.slots[x].observed = i.slots[x].observed
                      /\ new.slots[x].committed = {committed}
    OBVIOUS
  <2>1. i.slots[x] \in Slot /\ new.slots[x] = Delegated(i.slots[x], committed)
    BY <1>2 DEF Issuance
  <2>2. i.slots[x].committed = {}
    BY <1>2 DEF Sound, SlotShaped, ShapedSlot
  <2>3. QED
    BY <2>1, <2>2, <1>1
<1>5. \A x \in Roster(s) \ xs : new.slots[x] = i.slots[x]
  BY <1>2
<1>6. SlotsKept(i, new)
  BY <1>2, <1>4, <1>5 DEF SlotsKept
<1>7. SlotShaped(new)
  BY <1>2, <1>4, <1>5 DEF Sound, SlotShaped, ShapedSlot
<1>8. ASSUME NEW x \in Roster(s), InEffect(new.slots[x]), ~InEffect(i.slots[x])
      PROVE  Dated(new, x)
  <2>1. x \in xs
    BY <1>5, <1>8
  <2>2. committed \in new.slots[x].committed
    BY <1>4, <2>1
  <2>3. x = "CLOUDFLARE_BATCH" =>
          \A y \in DOMAIN new.slots \ {x} :
            /\ \E t \in new.slots[y].observed : new.issued <= t
            /\ y \in DirectSlots => \E u \in new.slots[y].committed : u <= committed
    <3> SUFFICES ASSUME x = "CLOUDFLARE_BATCH", NEW y \in Roster(s) \ {x}
                 PROVE  /\ \E t \in new.slots[y].observed : new.issued <= t
                        /\ y \in DirectSlots => \E u \in new.slots[y].committed : u <= committed
      BY <1>2
    <3>1. /\ \E t \in i.slots[y].observed : i.issued <= t
          /\ y \in DirectSlots => y \in xs \/ \E u \in i.slots[y].committed : u <= committed
      BY <2>1
    <3>2. CASE y \in xs
      BY <3>1, <3>2, <1>2, <1>4
    <3>3. CASE y \notin xs
      BY <3>1, <3>3, <1>2, <1>5
    <3>4. QED
      BY <3>2, <3>3
  <2>4. x \in DirectSlots => \E t \in new.slots[x].observed : new.issued <= t /\ t <= committed
    BY <2>1, <1>2, <1>4
  <2>5. QED
    BY <2>2, <2>3, <2>4, <1>2 DEF Dated, FreshUntil
<1>9. new.state \notin Ready /\ new.state # "EXPIRED_UNDISPATCHED" /\ i.state \notin Recorded
  BY <1>2 DEF Ready, Recorded
<1>10. \A t \in new.committed : i.issued <= t /\ t <= FreshUntil(i)
  BY <1>2 DEF Sound, RecordReady
<1>11. Sound(new)
  BY <1>2, <1>3, <1>6, <1>7, <1>8, <1>9, <1>10, SoundStep
<1>12. QED
  BY <1>3, <1>6, <1>9, <1>11 DEF Rewrites, new, Ready

\* An issuance with an effect to confirm is not ready for its record.
LEMMA OpenIsNotReady ==
  ASSUME NEW s \in Sequence, NEW i \in Issuance(s), Sound(i), NEW x \in Roster(s),
         x # "CONTROLLER_ACTION", i.slots[x].state # "CONFIRMED"
  PROVE  i.state \notin Ready
<1>1. DOMAIN i.slots = Roster(s)
  BY DEF Issuance
<1>2. QED
  BY <1>1 DEF Sound, RecordReady, ReadyForRecord, RosterFinal, Ready, Recorded

\* Sealing effects, once its conditions are known to follow from the operation's guards.
LEMMA SealPreserves ==
  ASSUME JournalInv, NEW s \in Sequence, NEW n, Current(s, n),
         NEW xs \in SUBSET Roster(s), NEW committed \in Nat,
         SealEffects(s, n, xs, committed),
         xs # {}, "CONTROLLER_ACTION" \notin xs,
         \A x \in xs : issuances[s][n].slots[x].state \in {"PREPARED", "FROZEN"},
         \A x \in xs : x \in DirectSlots => issuances[s][n].slots[x].state = "FROZEN",
         "CLOUDFLARE_BATCH" \in xs =>
           \A y \in Roster(s) \ {"CLOUDFLARE_BATCH"} :
             /\ \E t \in issuances[s][n].slots[y].observed : issuances[s][n].issued <= t
             /\ y \in DirectSlots =>
                  y \in xs \/ \E u \in issuances[s][n].slots[y].committed : u <= committed
  PROVE  JournalInv' /\ EvidenceIsKept
<1> DEFINE i == issuances[s][n]
<1>1. /\ n \in DOMAIN issuances[s] /\ n = Len(issuances[s])
      /\ i \in Issuance(s) /\ Sound(i)
      /\ i.state \in {"RESERVED", "COLLECTING", "EFFECTS_PENDING", "READY_TO_APPEND"}
  BY CurrentIsSound DEF Current
<1>2. i.state \notin Ready
  BY <1>1, OpenIsNotReady
<1>3. CASE Put(s, n, Expired(i))
  BY <1>1, <1>2, <1>3, ExpiredRewrites, PutPreserves DEF Ready
<1>4. CASE /\ \A x \in xs : Chronological(i, i.slots[x].observed, committed)
           /\ Put(s, n, WithDelegated(i, xs, committed))
  <2>1. i.issued <= committed /\ committed <= FreshUntil(i)
    BY <1>4 DEF Chronological
  <2>2. ASSUME NEW x \in xs, x \in DirectSlots
        PROVE  \E t \in i.slots[x].observed : i.issued <= t /\ t <= committed
    <3>1. i.slots[x].state = "FROZEN" /\ x \in DOMAIN i.slots
      BY <2>2, <1>1 DEF Issuance
    <3>2. \E t \in i.slots[x].observed : i.issued <= t
      BY <3>1, <1>1 DEF Sound, SlotShaped, ShapedSlot
    <3>3. QED
      BY <3>2, <1>4 DEF Chronological
  <2>3. i.state \in {"RESERVED", "COLLECTING", "EFFECTS_PENDING"}
    BY <1>1, <1>2 DEF Ready, Recorded
  <2>4. Rewrites(s, i, WithDelegated(i, xs, committed))
    <3> HIDE DEF i
    <3>1. /\ \A x \in xs : i.slots[x].state \in {"PREPARED", "FROZEN"}
          /\ "CLOUDFLARE_BATCH" \in xs =>
               \A y \in Roster(s) \ {"CLOUDFLARE_BATCH"} :
                 /\ \E t \in i.slots[y].observed : i.issued <= t
                 /\ y \in DirectSlots => y \in xs \/ \E u \in i.slots[y].committed : u <= committed
      BY DEF i
    <3>2. QED
      BY <1>1, <2>1, <2>2, <2>3, <3>1, DelegatedRewrites
  <2>5. QED
    BY <1>1, <1>4, <2>4, PutPreserves
<1>5. QED
  BY <1>3, <1>4 DEF SealEffects

\* delegate
LEMMA DelegatePreserves ==
  ASSUME JournalInv, NEW n, NEW x, NEW committed \in Nat, Delegate(n, x, committed)
  PROVE  JournalInv' /\ EvidenceIsKept
<1>1. 0 \in Sequence /\ {x} \in SUBSET Roster(0)
  BY DEF Delegate, Roster, Sequence
<1>2. x \notin {"CONTROLLER_ACTION", "CLOUDFLARE_BATCH"}
  BY JournalAssumption DEF Delegate
<1>3. QED
  BY <1>1, <1>2, SealPreserves DEF Delegate

\* delegateCloudflare
LEMMA DelegateCloudflarePreserves ==
  ASSUME JournalInv, NEW s \in Sequence, NEW n, NEW committed \in Nat,
         DelegateCloudflare(s, n, committed)
  PROVE  JournalInv' /\ EvidenceIsKept
<1> DEFINE i == issuances[s][n]
<1>1. /\ Current(s, n)
      /\ i.slots["CLOUDFLARE_BATCH"].state = "PREPARED"
      /\ s = 0 => PredecessorsDelegated(i, committed)
      /\ SealEffects(s, n, {"CLOUDFLARE_BATCH"}, committed)
  BY DEF DelegateCloudflare
<1>2. i \in Issuance(s) /\ Sound(i)
  BY <1>1, CurrentIsSound DEF Current
<1>3. {"CLOUDFLARE_BATCH"} \in SUBSET Roster(s)
  BY DEF Roster
<1>4. "CLOUDFLARE_BATCH" \notin DirectSlots /\ "CONTROLLER_ACTION" \notin DirectSlots
  BY JournalAssumption
<1>5. ASSUME NEW y \in Roster(s) \ {"CLOUDFLARE_BATCH"}
      PROVE  /\ \E t \in i.slots[y].observed : i.issued <= t
             /\ y \in DirectSlots => \E u \in i.slots[y].committed : u <= committed
  <2>1. s = 0 /\ DOMAIN i.slots = Roster(s) /\ PredecessorsDelegated(i, committed)
    BY <1>1, <1>2 DEF Sequence, Roster, Issuance
  <2>2. CASE y = "CONTROLLER_ACTION"
    BY <2>1, <2>2, <1>2, <1>4 DEF PredecessorsDelegated, Sound, SlotShaped, ShapedSlot
  <2>3. CASE y \in DirectSlots
    <3>1. InEffect(i.slots[y]) /\ NoLaterThan(i.slots[y].committed, committed)
      BY <2>1, <2>3 DEF PredecessorsDelegated
    <3>2. Dated(i, y)
      BY <3>1, <2>1, <1>2 DEF Sound, Chronicled
    <3>3. QED
      BY <3>1, <3>2, <2>3 DEF Dated, NoLaterThan
  <2>4. QED
    BY <2>1, <2>2, <2>3 DEF Roster
<1>6. QED
  BY <1>1, <1>3, <1>4, <1>5, SealPreserves

\* delegateProvision
LEMMA DelegateProvisionPreserves ==
  ASSUME JournalInv, NEW n, NEW committed \in Nat, DelegateProvision(n, committed)
  PROVE  JournalInv' /\ EvidenceIsKept
<1> DEFINE i == issuances[0][n]
           xs == DirectSlots \cup {"CLOUDFLARE_BATCH"}
<1>1. /\ Current(0, n)
      /\ ReadsFrozen(i)
      /\ i.slots["CLOUDFLARE_BATCH"].state = "PREPARED"
      /\ SealEffects(0, n, xs, committed)
  BY DEF DelegateProvision
<1>2. 0 \in Sequence /\ i \in Issuance(0) /\ Sound(i)
  BY <1>1, CurrentIsSound DEF Current, Sequence
<1>3. xs \in SUBSET Roster(0)
  BY DEF Roster
<1>4. "CLOUDFLARE_BATCH" \notin DirectSlots /\ "CONTROLLER_ACTION" \notin xs
  BY JournalAssumption
<1>5. \A y \in Roster(0) \ {"CLOUDFLARE_BATCH"} :
        i.slots[y].state = "FROZEN" /\ \E t \in i.slots[y].observed : i.issued <= t
  <2>1. DOMAIN i.slots = Roster(0)
    BY <1>2 DEF Issuance
  <2>2. QED
    BY <2>1, <1>1, <1>2 DEF ReadsFrozen, Sound, SlotShaped, ShapedSlot
<1>6. \A x \in xs : /\ i.slots[x].state \in {"PREPARED", "FROZEN"}
                    /\ x \in DirectSlots => i.slots[x].state = "FROZEN"
  BY <1>1, <1>3, <1>4, <1>5
<1>7. QED
  BY <1>1, <1>2, <1>3, <1>4, <1>5, <1>6, SealPreserves

\* confirmDirect
LEMMA ConfirmDirectPreserves ==
  ASSUME JournalInv, NEW n, NEW x, ConfirmDirect(n, x)
  PROVE  JournalInv' /\ EvidenceIsKept
<1> DEFINE i == issuances[0][n]
           new == [i EXCEPT !.slots[x].state = "CONFIRMED"]
<1>1. /\ CurrentOrHeld(0, n) /\ x \in Roster(0) /\ x # "CONTROLLER_ACTION"
      /\ i.slots[x].state = "DELEGATED_IN_FLIGHT" /\ Put(0, n, new)
  BY JournalAssumption DEF ConfirmDirect, Roster
<1>2. /\ n \in DOMAIN issuances[0] /\ n = Len(issuances[0]) /\ 0 \in Sequence
      /\ i \in Issuance(0) /\ Sound(i)
      /\ i.state # "EXPIRED_UNDISPATCHED"
  BY <1>1, CurrentIsSound DEF CurrentOrHeld, Sequence
<1> HIDE DEF i
<1>3. /\ new \in Issuance(0)
      /\ new.issued = i.issued /\ new.committed = i.committed /\ new.state = i.state
      /\ new.slots[x] = [i.slots[x] EXCEPT !.state = "CONFIRMED"]
      /\ \A y \in Roster(0) \ {x} : new.slots[y] = i.slots[y]
      /\ i.slots[x] \in Slot
  BY <1>1, <1>2 DEF Issuance, Slot, SlotState
<1> HIDE DEF new
<1>4. /\ new.slots[x].state = "CONFIRMED"
      /\ new.slots[x].observed = i.slots[x].observed
      /\ new.slots[x].committed = i.slots[x].committed
  BY <1>3 DEF Slot
<1>5. ShapedSlot(i.issued, new.slots[x]) /\ InEffect(i.slots[x])
  BY <1>1, <1>4 DEF ShapedSlot, InEffect
<1>6. \A t \in new.committed : i.issued <= t /\ t <= FreshUntil(i)
  BY <1>2, <1>3 DEF Sound, RecordReady
<1>7. i.state \notin Ready
  BY <1>1, <1>2, OpenIsNotReady
<1>8. Rewrites(0, i, new)
  BY <1>1, <1>2, <1>3, <1>4, <1>5, <1>6, <1>7, OneSlotRewrites
<1>9. QED
  BY <1>1, <1>2, <1>8, PutPreserves DEF i

\* confirmCloudflare
LEMMA ConfirmCloudflarePreserves ==
  ASSUME JournalInv, NEW s \in Sequence, NEW n, NEW sealed \in Nat,
         ConfirmCloudflare(s, n, sealed)
  PROVE  JournalInv' /\ EvidenceIsKept
<1> DEFINE i == issuances[s][n]
           x == "CLOUDFLARE_BATCH"
           new == [i EXCEPT !.slots["CLOUDFLARE_BATCH"].state = "CONFIRMED",
                            !.committed = {sealed}]
<1>1. /\ CurrentOrHeld(s, n) /\ x \in Roster(s) /\ x # "CONTROLLER_ACTION"
      /\ i.slots[x].state = "DELEGATED_IN_FLIGHT" /\ SealedInTime(i, sealed)
      /\ Put(s, n, new)
  BY DEF ConfirmCloudflare, Roster
<1>2. /\ n \in DOMAIN issuances[s] /\ n = Len(issuances[s])
      /\ i \in Issuance(s) /\ Sound(i)
      /\ i.state # "EXPIRED_UNDISPATCHED"
  BY <1>1, CurrentIsSound DEF CurrentOrHeld
<1> HIDE DEF i
<1>3. /\ new \in Issuance(s)
      /\ new.issued = i.issued /\ new.committed = {sealed} /\ new.state = i.state
      /\ new.slots[x] = [i.slots[x] EXCEPT !.state = "CONFIRMED"]
      /\ \A y \in Roster(s) \ {x} : new.slots[y] = i.slots[y]
      /\ i.slots[x] \in Slot /\ DOMAIN i.slots = Roster(s)
  BY <1>1, <1>2 DEF Issuance, Slot, SlotState
<1> HIDE DEF new
<1>4. /\ new.slots[x].state = "CONFIRMED"
      /\ new.slots[x].observed = i.slots[x].observed
      /\ new.slots[x].committed = i.slots[x].committed
  BY <1>3 DEF Slot
<1>5. ShapedSlot(i.issued, new.slots[x]) /\ InEffect(i.slots[x])
  BY <1>1, <1>4 DEF ShapedSlot, InEffect
<1>6. \A t \in new.committed : i.issued <= t /\ t <= FreshUntil(i)
  <2>1. Dated(i, x)
    BY <1>1, <1>2, <1>3, <1>5 DEF Sound, Chronicled
  <2>2. PICK c \in i.slots[x].committed : i.issued <= c
    BY <2>1 DEF Dated
  <2>3. c <= sealed /\ sealed <= FreshUntil(i) /\ c \in Nat /\ i.issued \in Nat
    BY <1>1, <1>2, <1>3, <2>2 DEF SealedInTime, NoLaterThan, Slot, Issuance
  <2>4. QED
    BY <1>3, <2>2, <2>3
<1>7. i.state \notin Ready
  BY <1>1, <1>2, OpenIsNotReady
<1>8. Rewrites(s, i, new)
  BY <1>1, <1>2, <1>3, <1>4, <1>5, <1>6, <1>7, OneSlotRewrites
<1>9. QED
  BY <1>1, <1>2, <1>8, PutPreserves DEF i

\* readyToAppend
LEMMA ReadyToAppendPreserves ==
  ASSUME JournalInv, NEW s \in Sequence, NEW n, ReadyToAppend(s, n)
  PROVE  JournalInv' /\ EvidenceIsKept
<1> DEFINE i == issuances[s][n]
           new == [i EXCEPT !.state = "READY_TO_APPEND"]
<1>1. /\ CurrentIn(s, n, {"COLLECTING", "EFFECTS_PENDING", "DISPATCHED_HOLD"})
      /\ ReadyForRecord(i) /\ Put(s, n, new)
  BY DEF ReadyToAppend
<1>2. /\ n \in DOMAIN issuances[s] /\ n = Len(issuances[s])
      /\ i \in Issuance(s) /\ Sound(i) /\ i.state \notin Recorded
  BY <1>1, CurrentIsSound DEF Recorded
<1> HIDE DEF i
<1>3. /\ new \in Issuance(s)
      /\ new.issued = i.issued /\ new.committed = i.committed /\ new.slots = i.slots
      /\ new.state = "READY_TO_APPEND"
  BY <1>2 DEF Issuance, IssuanceState
<1> HIDE DEF new
<1>4. SlotsKept(i, new) /\ SlotShaped(new)
  BY <1>2, <1>3 DEF SlotsKept, Sound, SlotShaped
<1>5. ReadyForRecord(new)
  BY <1>1, <1>3 DEF ReadyForRecord, RosterFinal
<1>6. RecordReady(new)
  BY <1>2, <1>3, <1>5 DEF Sound, RecordReady, FreshUntil
<1>7. Chronicled(new)
  BY <1>2, <1>3, <1>4, DatedKept DEF Sound, Chronicled
<1>8. Rewrites(s, i, new)
  BY <1>2, <1>3, <1>4, <1>6, <1>7 DEF Rewrites, Sound, Recorded
<1>9. QED
  BY <1>1, <1>2, <1>8, PutPreserves DEF i

-----------------------------------------------------------------------------
(* The creation of an issuance.                                            *)

\* A new issuance has no evidence.
LEMMA NewIsSound ==
  ASSUME NEW s \in Sequence, NEW at \in Nat
  PROVE  /\ NewIssuance(s, at) \in Issuance(s)
         /\ Sound(NewIssuance(s, at))
         /\ ~Dispatched(NewIssuance(s, at))
         /\ NewIssuance(s, at).state = "RESERVED"
<1> DEFINE new == NewIssuance(s, at)
<1>1. /\ new \in Issuance(s) /\ new.state = "RESERVED" /\ new.committed = {}
      /\ DOMAIN new.slots = Roster(s)
  BY DEF NewIssuance, Issuance, IssuanceState, Slot, SlotState
<1>2. \A x \in Roster(s) : /\ new.slots[x].state = "PREPARED"
                            /\ new.slots[x].observed = {} /\ new.slots[x].committed = {}
  BY DEF NewIssuance
<1> HIDE DEF new
<1>3. SlotShaped(new)
  BY <1>1, <1>2 DEF SlotShaped, ShapedSlot
<1>4. ~Dispatched(new) /\ Chronicled(new)
  BY <1>1, <1>2 DEF Dispatched, Chronicled, InEffect
<1>5. RecordReady(new)
  BY <1>1 DEF RecordReady
<1>6. QED
  BY <1>1, <1>3, <1>4, <1>5 DEF Sound, new

\* reserve
LEMMA ReservePreserves ==
  ASSUME JournalInv, NEW s \in Sequence, NEW q \in Requests, NEW at \in Nat, Reserve(s, q, at)
  PROVE  JournalInv' /\ EvidenceIsKept
<1> DEFINE new == NewIssuance(s, at)
<1>1. new \in Issuance(s) /\ Sound(new) /\ ~Dispatched(new) /\ new.state = "RESERVED"
  BY NewIsSound
<1> HIDE DEF new
<1>2. /\ intents[s].state = "MISSING"
      /\ intents' = [intents EXCEPT ![s] = [state |-> "OPEN", request |-> {q}]]
      /\ issuances' = [issuances EXCEPT ![s] = <<new>>]
      /\ now' = now /\ records' = records
  BY DEF Reserve, new
<1>3. JournalTypeOK /\ StatesAgree /\ TablesAgree /\ AllMade
  BY DEF JournalInv, TablesAgree
<1>4. issuances[s] = <<>> /\ records[s].state = "MISSING"
  BY <1>2, <1>3 DEF StatesAgree, TablesAgree
<1>5. /\ issuances'[s] = <<new>> /\ issuances'[s] \in Seq(Issuance(s))
      /\ DOMAIN issuances'[s] = {1} /\ Len(issuances'[s]) = 1 /\ issuances'[s][1] = new
      /\ issuances'[s] # <<>>
  BY <1>1, <1>2, <1>3 DEF JournalTypeOK
<1>6. \A z \in Sequence \ {s} : issuances'[z] = issuances[z] /\ intents'[z] = intents[z]
  BY <1>2, <1>3 DEF JournalTypeOK
<1>7. intents'[s] = [state |-> "OPEN", request |-> {q}]
  BY <1>2, <1>3 DEF JournalTypeOK
<1>8. JournalTypeOK'
  <2>1. intents' \in [Sequence -> Intent]
    BY <1>2, <1>3 DEF JournalTypeOK, Intent
  <2>2. \A z \in Sequence : issuances'[z] \in Seq(Issuance(z))
    BY <1>3, <1>5, <1>6 DEF JournalTypeOK
  <2>3. DOMAIN issuances' = Sequence
    BY <1>2, <1>3 DEF JournalTypeOK
  <2>4. QED
    BY <1>2, <1>3, <2>1, <2>2, <2>3 DEF JournalTypeOK
<1>9. AllSound'
  BY <1>1, <1>5, <1>6 DEF JournalInv, AllSound
<1>10. OneLiveIssuance'
  <2>1. \A k \in DOMAIN issuances'[s] : ~(k < Len(issuances'[s]))
    BY <1>5
  <2>2. QED
    BY <2>1, <1>6 DEF JournalInv, OneLiveIssuance
<1>11. DispatchedIsFinal'
  BY <1>1, <1>5, <1>6 DEF JournalInv, DispatchedIsFinal
<1>12. TablesAgree'
  <2>1. Latest(s)' = new
    BY <1>5 DEF Latest
  <2>2. \A z \in Sequence \ {s} : Latest(z)' = Latest(z)
    BY <1>6 DEF Latest
  <2>3. StatesAgree'
    BY <1>1, <1>2, <1>3, <1>4, <1>5, <1>6, <1>7, <2>1, <2>2 DEF StatesAgree
  <2>4. QED
    BY <1>2, <1>3, <1>5, <1>6, <1>7, <2>3 DEF TablesAgree
<1>13. AllMade'
  BY <1>2, <1>3, <1>4, <1>6 DEF AllMade
<1>14. RecordsInOrder'
  BY <1>2 DEF JournalInv, RecordsInOrder
<1>15. EvidenceIsKept
  <2>1. ASSUME NEW z \in Sequence, NEW k \in DOMAIN issuances[z]
        PROVE  z # s
    BY <1>4
  <2>2. QED
    BY <2>1, <1>2, <1>6 DEF EvidenceIsKept
<1>16. QED
  BY <1>8, <1>9, <1>10, <1>11, <1>12, <1>13, <1>14, <1>15 DEF JournalInv

\* reissueStale
LEMMA ReissuePreserves ==
  ASSUME JournalInv, NEW s \in Sequence, NEW n, NEW at \in Nat, ReissueStale(s, n, at)
  PROVE  JournalInv' /\ EvidenceIsKept
<1> DEFINE i == issuances[s][n]
           old == Superseded(i)
           closed == [issuances[s] EXCEPT ![n] = old]
           new == NewIssuance(s, at)
<1>1. /\ n \in DOMAIN issuances[s] /\ n = Len(issuances[s])
      /\ i.state \notin Recorded /\ ~Dispatched(i)
      /\ now' = now /\ intents' = intents /\ records' = records
  BY DEF ReissueStale, MayReissue, Recorded
<1>2. JournalTypeOK /\ StatesAgree /\ TablesAgree /\ AllMade /\ AllSound
  BY DEF JournalInv, TablesAgree
<1>2a. /\ DOMAIN issuances' = Sequence
       /\ issuances'[s] = Append(closed, new)
       /\ \A z \in Sequence \ {s} : issuances'[z] = issuances[z]
  BY <1>2 DEF ReissueStale, JournalTypeOK
<1>3. /\ issuances[s] \in Seq(Issuance(s)) /\ Len(issuances[s]) \in Nat
      /\ DOMAIN issuances[s] = 1 .. Len(issuances[s])
      /\ i \in Issuance(s) /\ Sound(i)
  <2>1. issuances[s] \in Seq(Issuance(s))
    BY <1>2 DEF JournalTypeOK
  <2>2. i \in Issuance(s)
    BY <2>1, <1>1, LenProperties
  <2>3. QED
    BY <2>1, <2>2, <1>1, <1>2, LenProperties DEF AllSound
<1>4. new \in Issuance(s) /\ Sound(new) /\ ~Dispatched(new) /\ new.state = "RESERVED"
  BY NewIsSound
<1> HIDE DEF new, i
<1>5. /\ old \in Issuance(s) /\ old.slots = i.slots /\ old.issued = i.issued
      /\ old.committed = i.committed /\ old.state = "EXPIRED_UNDISPATCHED"
  BY <1>3 DEF Superseded, Issuance, IssuanceState
<1>6. Sound(old) /\ ~Dispatched(old)
  <2>1. SlotsKept(i, old) /\ SlotShaped(old)
    BY <1>3, <1>5 DEF Sound, SlotShaped, SlotsKept
  <2>2. \A x \in Roster(s) : InEffect(old.slots[x]) => InEffect(i.slots[x])
    BY <1>5
  <2>3. \A t \in old.committed : i.issued <= t /\ t <= FreshUntil(i)
    BY <1>3, <1>5 DEF Sound, RecordReady
  <2>4. old.state \notin Ready
    BY <1>5 DEF Ready, Recorded
  <2> HIDE DEF old
  <2>5. Sound(old)
    BY <1>3, <1>5, <2>1, <2>2, <2>3, <2>4, SoundStep
  <2>6. QED
    BY <1>1, <1>5, <2>5 DEF Dispatched
<1> HIDE DEF old
<1>7. /\ closed \in Seq(Issuance(s)) /\ Len(closed) = n
      /\ \A k \in 1 .. n : closed[k] = IF k = n THEN old ELSE issuances[s][k]
  BY <1>1, <1>3, <1>5, ExceptSeq
<1> HIDE DEF closed
<1>8. /\ issuances'[s] \in Seq(Issuance(s)) /\ Len(issuances'[s]) = n + 1
      /\ DOMAIN issuances'[s] = 1 .. (n + 1)
      /\ \A k \in 1 .. n : issuances'[s][k] = IF k = n THEN old ELSE issuances[s][k]
      /\ issuances'[s][n + 1] = new
  BY <1>2a, <1>4, <1>7, AppendProperties, LenProperties
<1>9. \A z \in Sequence \ {s} : issuances'[z] = issuances[z]
  BY <1>2a
<1>10. JournalTypeOK'
  BY <1>2a, <1>1, <1>2, <1>8 DEF JournalTypeOK
<1>11. AllSound'
  <2>1. ASSUME NEW k \in 1 .. (n + 1) PROVE Sound(issuances'[s][k])
    <3>1. n \in Nat /\ k \in Nat
      BY <1>1, <1>3
    <3>2. CASE k = n + 1
      BY <1>4, <1>8, <3>2
    <3>3. CASE k = n
      BY <1>6, <1>8, <3>1, <3>3
    <3>4. CASE k < n
      <4>1. k \in 1 .. n /\ k \in DOMAIN issuances[s] /\ k # n
        BY <1>1, <1>3, <3>1, <3>4
      <4>2. Sound(issuances[s][k])
        BY <1>2, <4>1 DEF AllSound
      <4>3. issuances'[s][k] = issuances[s][k]
        BY <1>8, <4>1
      <4>4. QED
        BY <4>2, <4>3
    <3>5. QED
      BY <3>1, <3>2, <3>3, <3>4
  <2>2. ASSUME NEW z \in Sequence, NEW k \in DOMAIN issuances'[z]
        PROVE  Sound(issuances'[z][k])
    <3>1. CASE z = s
      BY <1>8, <2>1, <3>1
    <3>2. CASE z # s
      BY <1>2, <1>9, <3>2 DEF AllSound
    <3>3. QED
      BY <3>1, <3>2
  <2>3. QED
    BY <2>2 DEF AllSound
<1>12. OneLiveIssuance'
  <2>1. ASSUME NEW k \in 1 .. n PROVE Closed(issuances'[s][k])
    <3>1. CASE k = n
      BY <3>1, <1>5, <1>8 DEF Closed
    <3>2. CASE k < n
      BY <3>2, <1>1, <1>3, <1>8 DEF JournalInv, OneLiveIssuance
    <3>3. n \in Nat
      BY <1>1, <1>3
    <3>4. QED
      BY <3>1, <3>2, <3>3
  <2>2. QED
    BY <2>1, <1>1, <1>3, <1>8, <1>9, SMTT(40) DEF JournalInv, OneLiveIssuance
<1>13. DispatchedIsFinal'
  <2>1. ASSUME NEW k \in 1 .. (n + 1), Dispatched(issuances'[s][k])
        PROVE  FALSE
    <3>1. CASE k = n + 1
      BY <3>1, <2>1, <1>4, <1>8
    <3>2. CASE k = n
      BY <3>2, <2>1, <1>1, <1>3, <1>6, <1>8
    <3>3. CASE k < n
      BY <3>3, <2>1, <1>1, <1>3, <1>8 DEF JournalInv, DispatchedIsFinal
    <3>4. QED
      BY <3>1, <3>2, <3>3, <1>1, <1>3
  <2>2. QED
    BY <2>1, <1>8, <1>9 DEF JournalInv, DispatchedIsFinal
<1>14. issuances[s] # <<>> /\ issuances'[s] # <<>>
  BY <1>1, <1>3, <1>8
<1>15. Latest(s) = i /\ Latest(s)' = new
  BY <1>1, <1>8 DEF Latest, i
<1>16. records[s].state = "MISSING" /\ intents[s].state # "CONFIRMED"
  BY <1>1, <1>2, <1>14, <1>15 DEF StatesAgree, JournalTypeOK, Record, Recorded
<1>17. TablesAgree'
  <2>1. \A z \in Sequence \ {s} : Latest(z)' = Latest(z)
    BY <1>9 DEF Latest
  <2>2. StatesAgree'
    BY <1>1, <1>2, <1>4, <1>9, <1>14, <1>15, <1>16, <2>1 DEF StatesAgree
  <2>3. QED
    BY <1>1, <1>2, <1>9, <1>14, <2>2 DEF TablesAgree
<1>18. AllMade'
  BY <1>1, <1>2, <1>9, <1>16 DEF AllMade
<1>19. RecordsInOrder'
  BY <1>1 DEF JournalInv, RecordsInOrder
<1>20. EvidenceIsKept
  <2>1. ASSUME NEW z \in Sequence, NEW k \in DOMAIN issuances[z]
        PROVE  /\ k \in DOMAIN issuances'[z]
               /\ issuances'[z][k].slots = issuances[z][k].slots
    <3>1. CASE z = s
      BY <3>1, <2>1, <1>1, <1>3, <1>5, <1>8 DEF i
    <3>2. CASE z # s
      BY <3>2, <1>9
    <3>3. QED
      BY <3>1, <3>2
  <2>2. QED
    BY <2>1, <1>1 DEF EvidenceIsKept
<1>21. QED
  BY <1>10, <1>11, <1>12, <1>13, <1>17, <1>18, <1>19, <1>20 DEF JournalInv

-----------------------------------------------------------------------------
(* The record.                                                             *)

\* freezeAndAppend
LEMMA FreezeAndAppendPreserves ==
  ASSUME JournalInv, NEW s \in Sequence, NEW n, FreezeAndAppend(s, n)
  PROVE  JournalInv' /\ EvidenceIsKept
<1> DEFINE i == issuances[s][n]
           new == [i EXCEPT !.state = "RECORD_APPENDED"]
           record == [state |-> "APPENDED", ordinal |-> n, committed |-> i.committed]
<1>1. /\ CurrentIn(s, n, {"READY_TO_APPEND"}) /\ RosterFinal(i) /\ Materializes(s, n)
      /\ records[s].state = "MISSING"
      /\ records' = [records EXCEPT ![s] = record]
      /\ now' = now /\ intents' = intents
  BY DEF FreezeAndAppend
<1>2. issuances' = [issuances EXCEPT ![s] = [@ EXCEPT ![n] = new]]
  BY DEF FreezeAndAppend
<1>3. JournalTypeOK /\ StatesAgree /\ TablesAgree /\ AllMade /\ AllSound
  BY DEF JournalInv, TablesAgree
<1>4. /\ n \in DOMAIN issuances[s] /\ n = Len(issuances[s])
      /\ i \in Issuance(s) /\ Sound(i) /\ i.state = "READY_TO_APPEND"
  BY <1>1, CurrentIsSound
<1>5. \A z \in Sequence : /\ issuances[z] \in Seq(Issuance(z)) /\ Len(issuances[z]) \in Nat
                           /\ DOMAIN issuances[z] = 1 .. Len(issuances[z])
  BY <1>3, LenProperties DEF JournalTypeOK
<1>6. n \in Nat /\ i.committed \in SUBSET Nat /\ record \in Record
  BY <1>4, <1>5 DEF Issuance, Record
<1> HIDE DEF i
<1>7. /\ new \in Issuance(s)
      /\ new.issued = i.issued /\ new.committed = i.committed /\ new.slots = i.slots
      /\ new.state = "RECORD_APPENDED"
  BY <1>4 DEF Issuance, IssuanceState
<1> HIDE DEF new
<1>8. Sound(new)
  <2>1. SlotsKept(i, new) /\ SlotShaped(new)
    BY <1>4, <1>7 DEF SlotsKept, Sound, SlotShaped
  <2>2. Chronicled(new)
    BY <1>4, <1>7, <2>1, DatedKept DEF Sound, Chronicled
  <2>3. RecordReady(new)
    BY <1>4, <1>7 DEF Sound, RecordReady, FreshUntil, ReadyForRecord, RosterFinal
  <2>4. QED
    BY <2>1, <2>2, <2>3 DEF Sound
<1>9. /\ DOMAIN issuances' = Sequence
      /\ \A z \in Sequence :
           /\ issuances'[z] \in Seq(Issuance(z))
           /\ Len(issuances'[z]) = Len(issuances[z])
           /\ DOMAIN issuances'[z] = DOMAIN issuances[z]
           /\ \A k \in DOMAIN issuances[z] :
                issuances'[z][k] = IF z = s /\ k = n THEN new ELSE issuances[z][k]
  BY <1>2, <1>3, <1>4, <1>7, PutChangesOne
<1>10. /\ records'[s] = record /\ records' \in [Sequence -> Record]
       /\ \A z \in Sequence \ {s} : records'[z] = records[z]
  BY <1>1, <1>3, <1>6 DEF JournalTypeOK
<1>11. JournalTypeOK'
  BY <1>1, <1>3, <1>9, <1>10 DEF JournalTypeOK
<1>12. AllSound'
  BY <1>3, <1>8, <1>9 DEF AllSound
<1>13. OneLiveIssuance'
  BY <1>4, <1>5, <1>9 DEF JournalInv, OneLiveIssuance
<1>14. DispatchedIsFinal'
  BY <1>4, <1>5, <1>7, <1>9 DEF JournalInv, DispatchedIsFinal, Dispatched
<1>15. TablesAgree'
  <2>1. \A z \in Sequence : issuances'[z] = <<>> <=> issuances[z] = <<>>
    BY <1>5, <1>9, EmptySeq
  <2>2. \A z \in Sequence \ {s} : issuances[z] # <<>> => Latest(z)' = Latest(z)
    BY <1>5, <1>9, EmptySeq DEF Latest
  <2>3. Latest(s)' = new /\ Latest(s) = i /\ issuances[s] # <<>>
    BY <1>4, <1>5, <1>9 DEF Latest, i
  <2>4. intents[s].state # "CONFIRMED"
    BY <2>3, <1>3, <1>4 DEF StatesAgree
  <2>5. StatesAgree'
    BY <1>1, <1>3, <1>7, <1>10, <2>1, <2>2, <2>3, <2>4 DEF StatesAgree
  <2>6. QED
    BY <1>1, <1>3, <1>10, <2>1, <2>3, <2>5 DEF TablesAgree
<1>16. AllMade'
  <2>1. MadeFrom(s, record, new)
    <3>1. ReadyForRecord(i) /\ \A t \in i.committed : i.issued <= t /\ t <= FreshUntil(i)
      BY <1>4 DEF Sound, RecordReady
    <3>2. DOMAIN i.slots = Roster(s)
      BY <1>4 DEF Issuance
    <3>3. PICK t \in i.committed : \A x \in DOMAIN i.slots :
            NoLaterThan(i.slots[x].observed, t) /\ NoLaterThan(i.slots[x].committed, t)
      BY <3>1 DEF ReadyForRecord
    <3>4. /\ new.issued <= t /\ t <= FreshUntil(new)
          /\ \A x \in Roster(s) :
               /\ new.slots[x].state = IF x = "CONTROLLER_ACTION" THEN "FROZEN" ELSE "CONFIRMED"
               /\ NoLaterThan(new.slots[x].observed \cup new.slots[x].committed, t)
      BY <3>1, <3>2, <3>3, <1>1, <1>7 DEF RosterFinal, NoLaterThan, FreshUntil
    <3>5. QED
      BY <3>3, <3>4, <1>7 DEF MadeFrom
  <2>2. records'[s].ordinal = n
    BY <1>10
  <2>3. ASSUME NEW z \in Sequence \ {s}
        PROVE  /\ Len(issuances'[z]) = Len(issuances[z])
               /\ DOMAIN issuances'[z] = DOMAIN issuances[z]
               /\ \A k \in DOMAIN issuances[z] : issuances'[z][k] = issuances[z][k]
               /\ records'[z] = records[z]
    BY <1>9, <1>10
  <2>4. /\ n \in DOMAIN issuances'[s] /\ n = Len(issuances'[s]) /\ issuances'[s][n] = new
    BY <1>4, <1>9
  <2>5. QED
    BY <2>1, <2>2, <2>3, <2>4, <1>3, <1>10 DEF AllMade
<1>17. RecordsInOrder'
  <2>1. CASE s = 0
    <3>1. records'[1] = records[1]
      BY <2>1, <1>10 DEF Sequence
    <3>2. records[1].state = "MISSING"
      BY <2>1, <1>1 DEF JournalInv, RecordsInOrder
    <3>3. QED
      BY <3>1, <3>2 DEF RecordsInOrder
  <2>2. CASE s = 1
    <3>1. records'[0] = records[0] /\ records'[1].committed = i.committed
      BY <2>2, <1>10 DEF Sequence
    <3>2. /\ records[0].state = "CONFIRMED"
          /\ \A q \in intents[1].request, t \in i.committed : PromotionInOrder(q, t)
      BY <2>2, <1>1 DEF Materializes, i
    <3>3. PICK q \in intents[1].request : q \in Requests
      <4>1. issuances[1] # <<>>
        BY <2>2, <1>4, <1>5
      <4>2. intents[1].state # "MISSING" /\ intents[1].request # {}
        BY <4>1, <1>3 DEF StatesAgree, TablesAgree, Sequence
      <4>3. intents[1].request \subseteq Requests
        BY <1>3 DEF JournalTypeOK, Intent, Sequence
      <4>4. QED
        BY <4>2, <4>3
    <3>4. Promotion[q].started \in Nat /\ Promotion[q].completed \in Nat
      BY <3>3, JournalAssumption
    <3>5. records[0].committed \subseteq Nat
      BY <1>3 DEF JournalTypeOK, Record, Sequence
    <3>6. ASSUME NEW t \in records[0].committed, NEW u \in i.committed PROVE t < u
      <4>1. t < Promotion[q].started /\ Promotion[q].started <= Promotion[q].completed
            /\ Promotion[q].completed <= u
        BY <3>2, <3>3 DEF PromotionInOrder
      <4>2. t \in Nat /\ u \in Nat
        BY <3>5, <1>6
      <4>3. QED
        BY <4>1, <4>2, <3>4
    <3>7. QED
      BY <3>1, <3>2, <3>6 DEF RecordsInOrder
  <2>3. QED
    BY <2>1, <2>2 DEF Sequence
<1>18. EvidenceIsKept
  <2>1. ASSUME NEW z \in Sequence, NEW k \in DOMAIN issuances[z]
        PROVE  /\ k \in DOMAIN issuances'[z]
               /\ issuances'[z][k].slots = issuances[z][k].slots
    BY <1>7, <1>9 DEF i
  <2>2. QED
    BY <2>1, <1>1, <1>10 DEF EvidenceIsKept
<1>19. QED
  BY <1>11, <1>12, <1>13, <1>14, <1>15, <1>16, <1>17, <1>18 DEF JournalInv

\* confirmRecordWorm
LEMMA ConfirmRecordPreserves ==
  ASSUME JournalInv, NEW s \in Sequence, NEW n, ConfirmRecordWorm(s, n)
  PROVE  JournalInv' /\ EvidenceIsKept
<1> DEFINE i == issuances[s][n]
           new == [i EXCEPT !.state = "CONFIRMED"]
<1>1. /\ CurrentIn(s, n, {"RECORD_APPENDED"})
      /\ records[s].state # "MISSING"
      /\ records' = [records EXCEPT ![s].state = "CONFIRMED"]
      /\ intents' = [intents EXCEPT ![s].state = "CONFIRMED"]
      /\ now' = now
  BY DEF ConfirmRecordWorm, IntentConfirmed
<1>2. issuances' = [issuances EXCEPT ![s] = [@ EXCEPT ![n] = new]]
  BY DEF ConfirmRecordWorm
<1>3. JournalTypeOK /\ StatesAgree /\ TablesAgree /\ AllMade /\ AllSound
  BY DEF JournalInv, TablesAgree
<1>4. /\ n \in DOMAIN issuances[s] /\ n = Len(issuances[s])
      /\ i \in Issuance(s) /\ Sound(i) /\ i.state = "RECORD_APPENDED"
  BY <1>1, CurrentIsSound
<1>5. \A z \in Sequence : /\ issuances[z] \in Seq(Issuance(z)) /\ Len(issuances[z]) \in Nat
                           /\ DOMAIN issuances[z] = 1 .. Len(issuances[z])
  BY <1>3, LenProperties DEF JournalTypeOK
<1> HIDE DEF i
<1>7. /\ new \in Issuance(s)
      /\ new.issued = i.issued /\ new.committed = i.committed /\ new.slots = i.slots
      /\ new.state = "CONFIRMED"
  BY <1>4 DEF Issuance, IssuanceState
<1> HIDE DEF new
<1>8. Sound(new)
  <2>1. SlotsKept(i, new) /\ SlotShaped(new)
    BY <1>4, <1>7 DEF SlotsKept, Sound, SlotShaped
  <2>2. Chronicled(new)
    BY <1>4, <1>7, <2>1, DatedKept DEF Sound, Chronicled
  <2>3. RecordReady(new)
    BY <1>4, <1>7 DEF Sound, RecordReady, FreshUntil, ReadyForRecord, RosterFinal
  <2>4. QED
    BY <2>1, <2>2, <2>3 DEF Sound
<1>9. /\ DOMAIN issuances' = Sequence
      /\ \A z \in Sequence :
           /\ issuances'[z] \in Seq(Issuance(z))
           /\ Len(issuances'[z]) = Len(issuances[z])
           /\ DOMAIN issuances'[z] = DOMAIN issuances[z]
           /\ \A k \in DOMAIN issuances[z] :
                issuances'[z][k] = IF z = s /\ k = n THEN new ELSE issuances[z][k]
  BY <1>2, <1>3, <1>4, <1>7, PutChangesOne
<1>10. /\ records' \in [Sequence -> Record] /\ records'[s].state = "CONFIRMED"
       /\ \A z \in Sequence \ {s} : records'[z] = records[z]
       /\ \A z \in Sequence : /\ records'[z].ordinal = records[z].ordinal
                               /\ records'[z].committed = records[z].committed
  BY <1>1, <1>3 DEF JournalTypeOK, Record
<1>11. /\ intents' \in [Sequence -> Intent] /\ intents'[s].state = "CONFIRMED"
       /\ \A z \in Sequence \ {s} : intents'[z] = intents[z]
       /\ intents'[s].request = intents[s].request
  BY <1>1, <1>3 DEF JournalTypeOK, Intent
<1>12. JournalTypeOK'
  BY <1>1, <1>3, <1>9, <1>10, <1>11 DEF JournalTypeOK
<1>13. AllSound'
  BY <1>3, <1>8, <1>9 DEF AllSound
<1>14. OneLiveIssuance'
  BY <1>4, <1>5, <1>9 DEF JournalInv, OneLiveIssuance
<1>15. DispatchedIsFinal'
  BY <1>4, <1>5, <1>7, <1>9 DEF JournalInv, DispatchedIsFinal, Dispatched
<1>16. TablesAgree'
  <2>1. \A z \in Sequence : issuances'[z] = <<>> <=> issuances[z] = <<>>
    BY <1>5, <1>9, EmptySeq
  <2>2. \A z \in Sequence \ {s} : issuances[z] # <<>> => Latest(z)' = Latest(z)
    BY <1>5, <1>9, EmptySeq DEF Latest
  <2>3. Latest(s)' = new /\ Latest(s) = i /\ issuances[s] # <<>>
    BY <1>4, <1>5, <1>9 DEF Latest, i
  <2>4. intents[s].state # "MISSING" /\ intents[s].request # {}
    BY <2>3, <1>3 DEF StatesAgree, TablesAgree
  <2>5. StatesAgree'
    BY <1>3, <1>7, <1>10, <1>11, <2>1, <2>2, <2>3 DEF StatesAgree
  <2>6. QED
    BY <1>3, <1>10, <1>11, <2>1, <2>3, <2>4, <2>5 DEF TablesAgree
<1>17. AllMade'
  <2>1. records[s].ordinal = n /\ MadeFrom(s, records[s], i)
    BY <1>1, <1>3, <1>4 DEF AllMade, i
  <2>2. MadeFrom(s, records'[s], new)
    BY <2>1, <1>7, <1>10 DEF MadeFrom, FreshUntil
  <2>3. ASSUME NEW z \in Sequence \ {s}
        PROVE  /\ Len(issuances'[z]) = Len(issuances[z])
               /\ DOMAIN issuances'[z] = DOMAIN issuances[z]
               /\ \A k \in DOMAIN issuances[z] : issuances'[z][k] = issuances[z][k]
               /\ records'[z] = records[z]
    BY <1>9, <1>10
  <2>4. /\ n \in DOMAIN issuances'[s] /\ n = Len(issuances'[s]) /\ issuances'[s][n] = new
        /\ records'[s].ordinal = n
    BY <1>4, <1>9, <1>10, <2>1
  <2>5. QED
    BY <2>2, <2>3, <2>4, <1>3 DEF AllMade
<1>18. RecordsInOrder'
  <2>1. records'[1].state # "MISSING" => records[1].state # "MISSING"
    BY <1>1, <1>10 DEF Sequence
  <2>2. records[0].state = "CONFIRMED" => records'[0].state = "CONFIRMED"
    BY <1>10 DEF Sequence
  <2>3. QED
    BY <2>1, <2>2, <1>10 DEF JournalInv, RecordsInOrder, Sequence
<1>19. EvidenceIsKept
  <2>1. ASSUME NEW z \in Sequence, NEW k \in DOMAIN issuances[z]
        PROVE  /\ k \in DOMAIN issuances'[z]
               /\ issuances'[z][k].slots = issuances[z][k].slots
    BY <1>7, <1>9 DEF i
  <2>2. QED
    BY <2>1, <1>10 DEF EvidenceIsKept
<1>20. QED
  BY <1>12, <1>13, <1>14, <1>15, <1>16, <1>17, <1>18, <1>19 DEF JournalInv

-----------------------------------------------------------------------------
(* The specification.                                                      *)

\* Empty tables satisfy the invariant.
LEMMA JournalInitInv == JournalInit => JournalInv
<1> SUFFICES ASSUME JournalInit PROVE JournalInv
  OBVIOUS
<1>1. \A s \in Sequence : /\ issuances[s] = <<>> /\ DOMAIN issuances[s] = {}
                           /\ issuances[s] \in Seq(Issuance(s))
                           /\ records[s].state = "MISSING" /\ intents[s].state = "MISSING"
  BY DEF JournalInit
<1>2. JournalTypeOK
  BY <1>1 DEF JournalInit, JournalTypeOK, Intent, Record
<1>3. AllSound /\ OneLiveIssuance /\ DispatchedIsFinal /\ AllMade
  BY <1>1 DEF AllSound, OneLiveIssuance, DispatchedIsFinal, AllMade
<1>4. TablesAgree
  BY <1>1 DEF TablesAgree, StatesAgree
<1>5. RecordsInOrder
  BY <1>1 DEF RecordsInOrder, Sequence
<1>6. QED
  BY <1>2, <1>3, <1>4, <1>5 DEF JournalInv

\* A step that changes no table.
LEMMA TablesUnchanged ==
  ASSUME JournalInv, now' \in Nat, UNCHANGED <<intents, issuances, records>>
  PROVE  JournalInv' /\ EvidenceIsKept
<1>1. JournalTypeOK'
  BY DEF JournalInv, JournalTypeOK
<1>2. AllSound' /\ OneLiveIssuance' /\ DispatchedIsFinal' /\ AllMade' /\ RecordsInOrder'
  BY DEF JournalInv, AllSound, OneLiveIssuance, DispatchedIsFinal, AllMade, RecordsInOrder
<1>3. TablesAgree'
  BY DEF JournalInv, TablesAgree, StatesAgree, Latest
<1>4. EvidenceIsKept
  BY DEF EvidenceIsKept
<1>5. QED
  BY <1>1, <1>2, <1>3, <1>4 DEF JournalInv

\* Every step of any caller keeps the invariant and all evidence.
LEMMA JournalStep ==
  ASSUME JournalInv, [JournalNext]_journalVars
  PROVE  JournalInv' /\ EvidenceIsKept
<1> USE JournalAssumption
<1>1. CASE JournalTick
  BY <1>1, TablesUnchanged DEF JournalTick, JournalInv, JournalTypeOK
<1>2. CASE IssuanceStep
  <2>1. PICK s \in Sequence, at \in 0 .. now :
          \/ \E q \in Requests : Reserve(s, q, at)
          \/ \E n \in Ordinals : ReissueStale(s, n, at)
    BY <1>2 DEF IssuanceStep
  <2>2. at \in Nat
    BY DEF JournalInv, JournalTypeOK
  <2>3. QED
    BY <2>1, <2>2, ReservePreserves, ReissuePreserves
<1>3. CASE ReadStep
  <2>1. PICK s \in Sequence, n \in Ordinals :
          \/ \E x \in Roster(s) : PrepareRead(s, n, x)
          \/ \E x \in Roster(s), t \in Times : FreezeRead(s, n, x, t)
          \/ \E t \in Times : ReadExpires(s, n, t)
    BY <1>3 DEF ReadStep
  <2>2. Times \subseteq Nat
    BY DEF Times
  <2>3. QED
    BY <2>1, <2>2, PrepareReadPreserves, FreezeReadPreserves, ReadExpiresPreserves
<1>4. CASE EffectStep
  <2>1. PICK n \in Ordinals :
          \/ \E x \in DirectSlots, t \in Times : Delegate(n, x, t)
          \/ \E s \in Sequence, t \in Times : DelegateCloudflare(s, n, t)
          \/ \E t \in Times : DelegateProvision(n, t)
          \/ \E x \in DirectSlots : ConfirmDirect(n, x)
          \/ \E s \in Sequence, t \in Times : ConfirmCloudflare(s, n, t)
    BY <1>4 DEF EffectStep
  <2>2. Times \subseteq Nat
    BY DEF Times
  <2>3. QED
    BY <2>1, <2>2, DelegatePreserves, DelegateCloudflarePreserves, DelegateProvisionPreserves,
       ConfirmDirectPreserves, ConfirmCloudflarePreserves
<1>5. CASE RecordStep
  BY <1>5, ReadyToAppendPreserves, FreezeAndAppendPreserves, ConfirmRecordPreserves DEF RecordStep
<1>6. CASE UNCHANGED journalVars
  BY <1>6, TablesUnchanged DEF journalVars, JournalInv, JournalTypeOK
<1>7. QED
  BY <1>1, <1>2, <1>3, <1>4, <1>5, <1>6 DEF JournalNext

\* The invariant holds in every reachable state.
THEOREM JournalInvariant == JournalSpec => []JournalInv
<1>1. JournalInv /\ [JournalNext]_journalVars => JournalInv'
  BY JournalStep
<1>2. QED
  BY JournalInitInv, <1>1, PTL DEF JournalSpec

\* Every table keeps its column types.
THEOREM JournalTypeCorrect == JournalSpec => []JournalTypeOK
<1>1. JournalInv => JournalTypeOK
  BY DEF JournalInv
<1>2. QED
  BY JournalInvariant, <1>1, PTL

\* Whatever callers race, expire or reissue, at most the last issuance of an attempt
\* is open: the unique index never fires.
THEOREM AtMostOneLiveIssuance == JournalSpec => []OneLiveIssuance
<1>1. JournalInv => OneLiveIssuance
  BY DEF JournalInv
<1>2. QED
  BY JournalInvariant, <1>1, PTL

\* An issuance is replaced only before its first durable dispatch.
THEOREM DispatchedNeverReplaced == JournalSpec => []DispatchedIsFinal
<1>1. JournalInv => DispatchedIsFinal
  BY DEF JournalInv
<1>2. QED
  BY JournalInvariant, <1>1, PTL

\* Whatever was dispatched was dated within its issuance, after the evidence it rests on.
THEOREM EvidenceDatedInOrder == JournalSpec => []EvidenceChronology
<1>1. JournalInv => EvidenceChronology
  BY DEF JournalInv, AllSound, Sound, Chronicled, Dated, EvidenceChronology
<1>2. QED
  BY JournalInvariant, <1>1, PTL

\* A record is made of complete, confirmed evidence that is not younger than it.
THEOREM RecordsRestOnEvidence == JournalSpec => []RecordHasEvidence
<1>1. JournalInv => RecordHasEvidence
  BY DEF JournalInv, AllMade, MadeFrom, RecordHasEvidence
<1>2. QED
  BY JournalInvariant, <1>1, PTL

\* Intent, last issuance and record never disagree.
THEOREM TablesNeverDisagree == JournalSpec => []StatesAgree
<1>1. JournalInv => StatesAgree
  BY DEF JournalInv, TablesAgree
<1>2. QED
  BY JournalInvariant, <1>1, PTL

\* The activated record follows a confirmed provisioned one and is later.
THEOREM RecordsFollowEachOther == JournalSpec => []RecordsInOrder
<1>1. JournalInv => RecordsInOrder
  BY DEF JournalInv
<1>2. QED
  BY JournalInvariant, <1>1, PTL

\* No step of any caller takes evidence back.
THEOREM EvidenceNeverChanges == JournalSpec => EvidenceImmutable
<1>1. JournalInv /\ [JournalNext]_journalVars => [EvidenceIsKept]_journalVars
  BY JournalStep
<1>2. QED
  BY JournalInvariant, <1>1, PTL DEF JournalSpec, EvidenceImmutable

-----------------------------------------------------------------------------
(* The runner: every step of every run is a step of the journal.           *)

\* What a run holds and what it may pass to the journal.
RunnerBounds ==
  /\ RunnerTypeOK
  /\ job \in Jobs
  /\ now \in Times
  /\ \A s \in Sequence : DOMAIN issuances[s] \subseteq Ordinals
  /\ \A s \in Sequence, n \in Ordinals : batches[s][n] \subseteq Times
  /\ \A r \in Runs : runs[r].at <= now /\ (runs[r].pc # "idle" => r \in DOMAIN job)

\* The run of r goes on, or ends.
Advances(r) ==
  \E run \in Run : /\ Becomes(r, run)
                   /\ run.at <= now
                   /\ run.pc # "idle" => r \in DOMAIN job

\* A caller's run and its job.
LEMMA RunIsTyped ==
  ASSUME RunnerBounds, NEW r \in Runs
  PROVE  /\ runs[r] \in Run /\ runs[r].at <= now /\ now \in Nat /\ now <= MaxClock
         /\ runs[r].pc # "idle" => r \in DOMAIN job
         /\ r \in DOMAIN job => SequenceOf(r) \in Sequence /\ job[r].request \in Requests
         /\ IdleRun \in Run /\ IdleRun.at = 0 /\ IdleRun.pc = "idle"
<1>1. runs[r] \in Run /\ runs[r].at <= now /\ (runs[r].pc # "idle" => r \in DOMAIN job)
  BY DEF RunnerBounds, RunnerTypeOK
<1>2. now \in Nat /\ now <= MaxClock
  BY JournalAssumption DEF RunnerBounds, Times
<1>3. r \in DOMAIN job => SequenceOf(r) \in Sequence /\ job[r].request \in Requests
  BY RunnerAssumption DEF RunnerBounds, SequenceOf
<1>4. IdleRun \in Run /\ IdleRun.at = 0 /\ IdleRun.pc = "idle"
  BY DEF IdleRun, Run
<1>5. QED
  BY <1>1, <1>2, <1>3, <1>4

\* A run that moves on, or fails.
LEMMA MoveAdvances ==
  ASSUME RunnerBounds, NEW r \in Runs, r \in DOMAIN job
  PROVE  /\ Fails(r) => Advances(r)
         /\ Answered(r) => Advances(r)
         /\ \A pc \in {"append", "worm", "mirror"} : MovesTo(r, pc) => Advances(r)
<1>1. /\ runs[r] \in Run /\ runs[r].at <= now /\ now \in Nat
      /\ IdleRun \in Run /\ IdleRun.at = 0
  BY RunIsTyped
<1>2. Fails(r) => Advances(r)
  BY <1>1 DEF Fails, Advances
<1>3. Answered(r) => Advances(r)
  <2> DEFINE run == [IdleRun EXCEPT !.pc = "done"]
  <2>1. run \in Run /\ run.at = 0
    BY <1>1 DEF Run
  <2>2. Answered(r) => Becomes(r, run)
    BY DEF Answered
  <2> HIDE DEF run
  <2>3. QED
    BY <2>1, <2>2, <1>1 DEF Advances
<1>4. ASSUME NEW pc \in {"append", "worm", "mirror"}, MovesTo(r, pc) PROVE Advances(r)
  <2>1. [runs[r] EXCEPT !.pc = pc] \in Run /\ [runs[r] EXCEPT !.pc = pc].at = runs[r].at
    BY <1>1 DEF Run
  <2>2. QED
    BY <2>1, <1>1, <1>4 DEF MovesTo, Advances
<1>5. QED
  BY <1>2, <1>3, <1>4

\* The runs that the helpers make.
LEMMA EnteredRun ==
  ASSUME RunnerBounds, NEW r \in Runs, NEW n \in Nat, NEW state
  PROVE  Entered(r, n, state) \in Run /\ Entered(r, n, state).at = runs[r].at
<1>1. runs[r] \in Run
  BY RunIsTyped
<1>2. QED
  BY <1>1 DEF Entered, Run

\* A run that a slot was prepared for.
LEMMA PreparedRun ==
  ASSUME RunnerBounds, NEW r \in Runs, NEW x, NEW reads \in SUBSET Roster(0)
  PROVE  Prepared(r, x, reads) \in Run /\ Prepared(r, x, reads).at = runs[r].at
<1>1. runs[r] \in Run /\ now \in Nat
  BY RunIsTyped
<1> DEFINE run == [runs[r] EXCEPT !.todo = @ \ {x}, !.under = @ \cup reads]
<1>2. run \in Run /\ run.at = runs[r].at
  BY <1>1 DEF Run
<1> HIDE DEF run
<1>3. Prepared(r, x, reads) = IF run.todo # {} THEN run
                              ELSE IF run.under = {} THEN [run EXCEPT !.pc = "request"]
                              ELSE [run EXCEPT !.pc = "read", !.since = now]
  BY DEF Prepared, run
<1>4. CASE run.todo # {}
  BY <1>2, <1>3, <1>4
<1>5. CASE run.todo = {} /\ run.under = {}
  <2>1. Prepared(r, x, reads) = [run EXCEPT !.pc = "request"]
    BY <1>3, <1>5
  <2>2. QED
    BY <1>2, <2>1, ZenonT(60) DEF Run
<1>6. CASE run.todo = {} /\ run.under # {}
  <2>1. Prepared(r, x, reads) = [run EXCEPT !.pc = "read", !.since = now]
    BY <1>3, <1>6
  <2>2. QED
    BY <1>1, <1>2, <2>1, ZenonT(60) DEF Run
<1>7. QED
  BY <1>4, <1>5, <1>6

\* A run that a call came back to.
LEMMA SettledRun ==
  ASSUME RunnerBounds, NEW r \in Runs, NEW x, NEW failed \in BOOLEAN,
         NEW next \in {"request", "ready"}
  PROVE  /\ Settled(r, x, failed, next) \in Run
         /\ Settled(r, x, failed, next).at <= now
<1>1. runs[r] \in Run /\ runs[r].at <= now /\ now \in Nat /\ IdleRun \in Run /\ IdleRun.at = 0
  BY RunIsTyped
<1> DEFINE run == [runs[r] EXCEPT !.under = @ \ {x}, !.failed = @ \/ failed]
<1>2. run \in Run /\ run.at = runs[r].at
  BY <1>1 DEF Run
<1> HIDE DEF run
<1>3. Settled(r, x, failed, next) = IF run.under # {} THEN run
                                    ELSE IF run.failed THEN IdleRun
                                    ELSE [run EXCEPT !.pc = next, !.since = 0]
  BY DEF Settled, run
<1>4. /\ [run EXCEPT !.pc = next, !.since = 0] \in Run
      /\ [run EXCEPT !.pc = next, !.since = 0].at = run.at
  BY <1>2 DEF Run
<1>5. QED
  BY <1>1, <1>2, <1>3, <1>4

\* Sequences and ordinals that the journal's operations act on.
LEMMA CurrentOrdinal ==
  ASSUME RunnerBounds, NEW s \in Sequence, NEW n, NEW states
  PROVE  CurrentIn(s, n, states) => n \in Ordinals
BY DEF CurrentIn, RunnerBounds

\* Evidence that tells whole seconds is not later than it was read.
LEMMA ObservedInTime ==
  ASSUME NEW x, NEW t \in Nat
  PROVE  ObservedAt(x, t) \in 0 .. t
<1>1. Second \in Nat \ {0}
  BY RunnerAssumption
<1>2. t % Second \in 0 .. (Second - 1) /\ t % Second <= t
  BY <1>1
<1>3. QED
  BY <1>2, <1>1 DEF ObservedAt

\* The journal's operations, as a run calls them, are those of JournalNext.
LEMMA CallsAreSteps ==
  ASSUME RunnerBounds, NEW s \in Sequence, NEW n
  PROVE  /\ \A x : PrepareRead(s, n, x) => JournalNext
         /\ \A x : \A t \in Times : FreezeRead(s, n, x, t) => JournalNext
         /\ \A t \in Times : ReadExpires(s, n, t) => JournalNext
         /\ \A t \in Times : DelegateProvision(n, t) => JournalNext
         /\ \A t \in Times : DelegateCloudflare(s, n, t) => JournalNext
         /\ \A x : ConfirmDirect(n, x) => JournalNext
         /\ \A t \in Times : ConfirmCloudflare(s, n, t) => JournalNext
         /\ ReadyToAppend(s, n) => JournalNext
         /\ FreezeAndAppend(s, n) => JournalNext
         /\ ConfirmRecordWorm(s, n) => JournalNext
         /\ \A q \in Requests, at \in 0 .. now : Reserve(s, q, at) => JournalNext
         /\ \A at \in 0 .. now : ReissueStale(s, n, at) => JournalNext
<1>1. \A z \in Sequence : \A states : CurrentIn(z, n, states) => n \in Ordinals
  BY CurrentOrdinal
<1>2. 0 \in Sequence
  BY DEF Sequence
<1>3. /\ \A x : PrepareRead(s, n, x) => JournalNext
      /\ \A x : \A t \in Times : FreezeRead(s, n, x, t) => JournalNext
      /\ \A t \in Times : ReadExpires(s, n, t) => JournalNext
  BY <1>1 DEF PrepareRead, FreezeRead, ReadExpires, Live, ReadStep, JournalNext
<1>4. /\ \A t \in Times : DelegateProvision(n, t) => JournalNext
      /\ \A t \in Times : DelegateCloudflare(s, n, t) => JournalNext
  <2>1. \A t : DelegateProvision(n, t) => n \in Ordinals
    BY <1>1, <1>2 DEF DelegateProvision, Current
  <2>2. \A t : DelegateCloudflare(s, n, t) => n \in Ordinals
    BY <1>1 DEF DelegateCloudflare, Current
  <2>3. QED
    BY <2>1, <2>2 DEF EffectStep, JournalNext
<1>5. /\ \A x : ConfirmDirect(n, x) => JournalNext
      /\ \A t \in Times : ConfirmCloudflare(s, n, t) => JournalNext
  <2>1. \A x : ConfirmDirect(n, x) => n \in Ordinals /\ x \in DirectSlots
    BY <1>1, <1>2 DEF ConfirmDirect, CurrentOrHeld
  <2>2. \A t : ConfirmCloudflare(s, n, t) => n \in Ordinals
    BY <1>1 DEF ConfirmCloudflare, CurrentOrHeld
  <2>3. QED
    BY <2>1, <2>2 DEF EffectStep, JournalNext
<1>6. /\ ReadyToAppend(s, n) => JournalNext
      /\ FreezeAndAppend(s, n) => JournalNext
      /\ ConfirmRecordWorm(s, n) => JournalNext
  <2>1. ReadyToAppend(s, n) \/ FreezeAndAppend(s, n) \/ ConfirmRecordWorm(s, n) => n \in Ordinals
    BY <1>1 DEF ReadyToAppend, FreezeAndAppend, ConfirmRecordWorm
  <2>2. QED
    BY <2>1 DEF RecordStep, JournalNext
<1>7. \A q \in Requests, at \in 0 .. now : Reserve(s, q, at) => JournalNext
  BY DEF IssuanceStep, JournalNext
<1>8. \A at \in 0 .. now : ReissueStale(s, n, at) => JournalNext
  <2>1. \A at : ReissueStale(s, n, at) => n \in Ordinals
    BY DEF ReissueStale, RunnerBounds
  <2>2. QED
    BY <2>1 DEF IssuanceStep, JournalNext
<1>9. QED
  BY <1>3, <1>4, <1>5, <1>6, <1>7, <1>8

\* A request that a run may seal is not later than the clock.
LEMMA SealsInTime ==
  ASSUME RunnerBounds, JournalInv, NEW s \in Sequence, NEW n, NEW c \in Nat,
         IF s = 0 THEN DelegateProvision(n, c) ELSE DelegateCloudflare(s, n, c)
  PROVE  c \in Times
<1> DEFINE i == issuances[s][n]
<1>1. \E xs : SealEffects(s, n, xs, c) /\ xs # {} /\ Current(s, n) /\ WellTimed(i, c)
  BY DEF DelegateProvision, DelegateCloudflare, Sequence
<1>2. i \in Issuance(s)
  BY <1>1, CurrentIsSound DEF Current
<1>3. FreshUntil(i) \in Nat
  BY <1>2, JournalAssumption DEF FreshUntil, Issuance
<1>4. now \in Nat /\ now <= MaxClock /\ MaxClock \in Nat
  BY JournalAssumption DEF RunnerBounds, Times
<1>5. c <= now
  BY <1>1, <1>3, <1>4 DEF SealEffects, Chronological, WellTimed
<1>6. QED
  BY <1>4, <1>5 DEF Times

\* A run takes a step, and the journal one or none.
Steps(r) == [JournalNext]_journalVars /\ Advances(r)

\* Every handler of a run advances it, and calls at most one operation of the journal:
\* the run is admitted,
LEMMA AdmitSteps ==
  ASSUME RunnerBounds, NEW r \in Runs, Admit(r)
  PROVE  Steps(r)
<1> DEFINE run == [IdleRun EXCEPT !.pc = "admitted", !.at = now]
<1>1. now \in Nat /\ IdleRun \in Run
  BY RunIsTyped
<1>2. run \in Run /\ run.at = now
  BY <1>1 DEF Run
<1>3. r \in DOMAIN job /\ Becomes(r, run) /\ UNCHANGED journalVars
  BY DEF Admit
<1> HIDE DEF run
<1>4. QED
  BY <1>1, <1>2, <1>3 DEF Steps, Advances

\* its issuance reserved,
LEMMA ReservesSteps ==
  ASSUME RunnerBounds, JournalInv, NEW r \in Runs, Reserves(r)
  PROVE  Steps(r)
<1> DEFINE s == SequenceOf(r)
<1>1. runs[r].pc = "admitted"
  BY DEF Reserves, At
<1>2. /\ runs[r] \in Run /\ runs[r].at \in 0 .. now /\ r \in DOMAIN job
      /\ s \in Sequence /\ job[r].request \in Requests
  BY <1>1, RunIsTyped DEF Run
<1>3. CASE Reserve(s, job[r].request, runs[r].at) /\ Becomes(r, Entered(r, 1, "RESERVED"))
  BY <1>2, <1>3, CallsAreSteps, EnteredRun DEF Steps, Advances
<1>4. CASE /\ Becomes(r, IF MustReissue(r, Latest(s)) THEN [runs[r] EXCEPT !.pc = "stale"]
                         ELSE Entered(r, Len(issuances[s]), Latest(s).state))
           /\ UNCHANGED journalVars
  <2> DEFINE run == [runs[r] EXCEPT !.pc = "stale"]
  <2>1. run \in Run /\ run.at = runs[r].at
    BY <1>2 DEF Run
  <2>2. Len(issuances[s]) \in Nat
    BY <1>2, LenProperties DEF JournalInv, JournalTypeOK
  <2>3. Becomes(r, run) \/ Becomes(r, Entered(r, Len(issuances[s]), Latest(s).state))
    BY <1>4
  <2> HIDE DEF run
  <2>4. Advances(r)
    BY <1>2, <2>1, <2>2, <2>3, EnteredRun DEF Advances
  <2>5. QED
    BY <1>4, <2>4 DEF Steps
<1>5. CASE Fails(r) /\ UNCHANGED journalVars
  BY <1>2, <1>5, MoveAdvances DEF Steps
<1>6. QED
  BY <1>3, <1>4, <1>5 DEF Reserves

\* found overdue,
LEMMA FindsStaleSteps ==
  ASSUME RunnerBounds, JournalInv, NEW r \in Runs, FindsStale(r)
  PROVE  Steps(r)
<1> DEFINE s == SequenceOf(r)
           run == [runs[r] EXCEPT !.pc = "reissue", !.n = Len(issuances[s])]
<1>1. runs[r].pc = "stale" /\ UNCHANGED journalVars /\ (Becomes(r, run) \/ Fails(r))
  BY DEF FindsStale, At
<1>2. /\ runs[r] \in Run /\ runs[r].at <= now /\ r \in DOMAIN job /\ s \in Sequence
  BY <1>1, RunIsTyped
<1>3. Len(issuances[s]) \in Nat
  BY <1>2, LenProperties DEF JournalInv, JournalTypeOK
<1>4. run \in Run /\ run.at = runs[r].at
  BY <1>2, <1>3 DEF Run
<1> HIDE DEF run
<1>5. Advances(r)
  BY <1>1, <1>2, <1>4, MoveAdvances DEF Advances
<1>6. QED
  BY <1>1, <1>5 DEF Steps

\* and replaced;
LEMMA ReissuesSteps ==
  ASSUME RunnerBounds, JournalInv, NEW r \in Runs, Reissues(r)
  PROVE  Steps(r)
<1> DEFINE s == SequenceOf(r)
<1>1. runs[r].pc = "reissue"
  BY DEF Reissues, At
<1>2. /\ runs[r] \in Run /\ runs[r].at \in 0 .. now /\ runs[r].n \in Nat /\ r \in DOMAIN job
      /\ s \in Sequence
  BY <1>1, RunIsTyped DEF Run
<1>3. Len(issuances[s]) \in Nat
  BY <1>2, LenProperties DEF JournalInv, JournalTypeOK
<1>4. CASE /\ Becomes(r, Entered(r, Len(issuances[s]), Latest(s).state))
           /\ UNCHANGED journalVars
  BY <1>2, <1>3, <1>4, EnteredRun DEF Steps, Advances
<1>5. CASE ReissueStale(s, runs[r].n, runs[r].at) /\ Becomes(r, Entered(r, runs[r].n + 1, "RESERVED"))
  BY <1>2, <1>5, EnteredRun, CallsAreSteps DEF Steps, Advances
<1>6. CASE Fails(r) /\ UNCHANGED journalVars
  BY <1>2, <1>6, MoveAdvances DEF Steps
<1>7. QED
  BY <1>4, <1>5, <1>6 DEF Reissues

\* its reads are collected,
LEMMA CollectsSteps ==
  ASSUME RunnerBounds, NEW r \in Runs, Collects(r)
  PROVE  Steps(r)
<1> DEFINE unread == {x \in Reads : IssuanceOf(r).slots[x].state \in {"PREPARED", "READ_IN_FLIGHT"}}
           run == [runs[r] EXCEPT !.pc = IF unread = {} THEN "request" ELSE "prepare",
                                  !.todo = unread]
<1>1. runs[r].pc = "collect" /\ UNCHANGED journalVars /\ Becomes(r, run)
  BY DEF Collects, At
<1>2. runs[r] \in Run /\ runs[r].at <= now /\ r \in DOMAIN job
  BY <1>1, RunIsTyped
<1>3. unread \in SUBSET Roster(0)
  BY DEF Reads
<1> HIDE DEF unread
<1>4. run \in Run /\ run.at = runs[r].at
  BY <1>2, <1>3 DEF Run
<1> HIDE DEF run
<1>5. QED
  BY <1>1, <1>2, <1>4 DEF Steps, Advances

\* prepared,
LEMMA PreparesSteps ==
  ASSUME RunnerBounds, NEW r \in Runs, NEW x \in Reads, Prepares(r, x)
  PROVE  Steps(r)
<1> DEFINE n == runs[r].n
<1>1. runs[r].pc = "prepare"
  BY DEF Prepares, At
<1>2. /\ runs[r] \in Run /\ runs[r].at <= now /\ now \in Nat /\ now \in Times /\ r \in DOMAIN job
      /\ 0 \in Sequence
  BY <1>1, RunIsTyped DEF RunnerBounds, Sequence
<1>3. {x} \in SUBSET Roster(0) /\ {} \in SUBSET Roster(0)
  BY DEF Reads
<1>4. \/ PrepareRead(0, n, x) /\ Becomes(r, Prepared(r, x, {x}))
      \/ /\ \E reads \in {{x}, {}} : Becomes(r, Prepared(r, x, reads))
         /\ UNCHANGED journalVars
      \/ ReadExpires(0, n, now) /\ Fails(r)
      \/ Fails(r) /\ UNCHANGED journalVars
  BY DEF Prepares
<1>5. CASE PrepareRead(0, n, x) /\ Becomes(r, Prepared(r, x, {x}))
  BY <1>2, <1>3, <1>5, PreparedRun, CallsAreSteps DEF Steps, Advances
<1>6. CASE /\ \E reads \in {{x}, {}} : Becomes(r, Prepared(r, x, reads))
           /\ UNCHANGED journalVars
  BY <1>2, <1>3, <1>6, PreparedRun DEF Steps, Advances
<1>7. CASE ReadExpires(0, n, now) /\ Fails(r)
  BY <1>2, <1>7, MoveAdvances, CallsAreSteps DEF Steps
<1>8. CASE Fails(r) /\ UNCHANGED journalVars
  BY <1>2, <1>8, MoveAdvances DEF Steps
<1>9. QED
  BY <1>4, <1>5, <1>6, <1>7, <1>8

\* and answered;
LEMMA ReadAnswersSteps ==
  ASSUME RunnerBounds, NEW r \in Runs, NEW x \in Reads, ReadAnswers(r, x)
  PROVE  Steps(r)
<1> DEFINE n == runs[r].n
           Ends == \E failed \in BOOLEAN : Becomes(r, Settled(r, x, failed, "request"))
<1>1. runs[r].pc = "read"
  BY DEF ReadAnswers, At
<1>2. /\ runs[r] \in Run /\ now \in Nat /\ now <= MaxClock /\ MaxClock \in Nat /\ r \in DOMAIN job
      /\ 0 \in Sequence /\ runs[r].since \in Nat
  BY <1>1, RunIsTyped, JournalAssumption DEF Sequence, Run
<1>3. PICK t \in runs[r].since .. now :
        /\ Ends
        /\ \/ FreezeRead(0, n, x, ObservedAt(x, t))
           \/ ReadExpires(0, n, ObservedAt(x, t))
           \/ UNCHANGED journalVars
  BY DEF ReadAnswers
<1>4. ObservedAt(x, t) \in Times
  BY <1>2, ObservedInTime DEF Times
<1>5. [JournalNext]_journalVars
  BY <1>2, <1>3, <1>4, CallsAreSteps
<1>6. Advances(r)
  BY <1>2, <1>3, SettledRun DEF Advances
<1>7. QED
  BY <1>5, <1>6 DEF Steps

\* its request is built,
LEMMA BuildsRequestSteps ==
  ASSUME RunnerBounds, JournalInv, NEW r \in Runs, BuildsRequest(r),
         runs[r].n \in DOMAIN issuances[SequenceOf(r)]
  PROVE  Steps(r)
<1> DEFINE i == IssuanceOf(r)
           run(c) == [runs[r] EXCEPT !.pc = "delegate", !.committed = c]
<1>1. /\ runs[r].pc = "request" /\ UNCHANGED journalVars
      /\ Fails(r) \/ \E c \in RequestTimes(i) : Becomes(r, run(c))
  BY DEF BuildsRequest, At
<1>2. runs[r] \in Run /\ runs[r].at <= now /\ now \in Nat /\ r \in DOMAIN job
  BY <1>1, RunIsTyped
<1>3. RequestTimes(i) \subseteq Nat
  <2>1. i \in Issuance(SequenceOf(r))
    BY <1>2, RunIsTyped, LenProperties DEF JournalInv, JournalTypeOK, IssuanceOf
  <2>2. QED
    BY <1>2, <2>1 DEF RequestTimes, Issuance, Slot, Roster
<1>4. \A c \in Nat : run(c) \in Run /\ run(c).at = runs[r].at
  BY <1>2 DEF Run
<1> HIDE DEF run
<1>5. Advances(r)
  BY <1>1, <1>2, <1>3, <1>4, MoveAdvances DEF Advances
<1>6. QED
  BY <1>1, <1>5 DEF Steps

\* its effects are called for,
LEMMA LaunchesAdvances ==
  ASSUME RunnerBounds, NEW r \in Runs, r \in DOMAIN job, Launches(r)
  PROVE  Advances(r)
<1> DEFINE s == SequenceOf(r)
           open == {x \in EffectSlots(s) : IssuanceOf(r).slots[x].state # "CONFIRMED"}
           run == [runs[r] EXCEPT !.pc = IF open = {} THEN "ready" ELSE "effects", !.under = open]
<1>1. runs[r] \in Run /\ runs[r].at <= now /\ Becomes(r, run)
  BY RunIsTyped DEF Launches
<1>2. open \in SUBSET Roster(0)
  BY DEF EffectSlots, Roster
<1> HIDE DEF open
<1>3. run \in Run /\ run.at = runs[r].at
  BY <1>1, <1>2 DEF Run
<1> HIDE DEF run
<1>4. QED
  BY <1>1, <1>3 DEF Advances

\* once they are sealed,
LEMMA DelegatesSteps ==
  ASSUME RunnerBounds, JournalInv, NEW r \in Runs, Delegates(r)
  PROVE  Steps(r)
<1> DEFINE s == SequenceOf(r)
           n == runs[r].n
           c == runs[r].committed
           Seal == IF s = 0 THEN DelegateProvision(n, c) ELSE DelegateCloudflare(s, n, c)
<1>1. runs[r].pc = "delegate"
  BY DEF Delegates, At
<1>2. r \in DOMAIN job /\ s \in Sequence /\ c \in Nat
  BY <1>1, RunIsTyped DEF Run
<1>3. (Seal \/ UNCHANGED journalVars) /\ (Launches(r) \/ Fails(r))
  BY DEF Delegates
<1>4. Seal => JournalNext
  BY <1>2, SealsInTime, CallsAreSteps
<1>5. Advances(r)
  BY <1>2, <1>3, LaunchesAdvances, MoveAdvances
<1>6. QED
  BY <1>3, <1>4, <1>5 DEF Steps

\* and answer;
LEMMA EffectAnswersSteps ==
  ASSUME RunnerBounds, JournalInv, NEW r \in Runs, NEW x, EffectAnswers(r, x)
  PROVE  Steps(r)
<1> DEFINE s == SequenceOf(r)
           n == runs[r].n
           Confirm == IF x = "CLOUDFLARE_BATCH" THEN \E t \in batches[s][n] : ConfirmCloudflare(s, n, t)
                      ELSE ConfirmDirect(n, x)
           Ends == \E failed \in BOOLEAN : Becomes(r, Settled(r, x, failed, "ready"))
<1>1. runs[r].pc = "effects"
  BY DEF EffectAnswers, At
<1>2. r \in DOMAIN job /\ s \in Sequence
  BY <1>1, RunIsTyped
<1>3. (Confirm \/ UNCHANGED journalVars) /\ Ends
  BY DEF EffectAnswers
<1>4. Confirm => JournalNext
  <2>1. \A t : ConfirmCloudflare(s, n, t) => n \in Ordinals
    BY <1>2, CurrentOrdinal DEF ConfirmCloudflare, CurrentOrHeld
  <2>2. n \in Ordinals => batches[s][n] \subseteq Times
    BY <1>2 DEF RunnerBounds
  <2>3. QED
    BY <1>2, <2>1, <2>2, CallsAreSteps
<1>5. Advances(r)
  BY <1>2, <1>3, SettledRun DEF Advances
<1>6. QED
  BY <1>3, <1>4, <1>5 DEF Steps

\* its record is made, found and stored;
LEMMA RecordSteps ==
  ASSUME RunnerBounds, NEW r \in Runs,
         Readies(r) \/ Appends(r) \/ FindsRecordWorm(r) \/ RecordWormAnswers(r)
  PROVE  Steps(r)
<1> DEFINE s == SequenceOf(r)
           n == runs[r].n
<1>1. runs[r].pc # "idle"
  BY DEF Readies, Appends, FindsRecordWorm, RecordWormAnswers, At
<1>2. r \in DOMAIN job /\ s \in Sequence
  BY <1>1, RunIsTyped
<1>3. Fails(r) \/ Answered(r) \/ \E pc \in {"append", "worm", "mirror"} : MovesTo(r, pc)
  BY DEF Readies, Appends, FindsRecordWorm, RecordWormAnswers
<1>4. \/ UNCHANGED journalVars
      \/ ReadyToAppend(s, n) \/ FreezeAndAppend(s, n) \/ ConfirmRecordWorm(s, n)
  BY DEF Readies, Appends, FindsRecordWorm, RecordWormAnswers
<1>5. QED
  BY <1>2, <1>3, <1>4, MoveAdvances, CallsAreSteps DEF Steps

\* or a call fails.
LEMMA RemoteCallFailsSteps ==
  ASSUME RunnerBounds, NEW r \in Runs, RemoteCallFails(r)
  PROVE  Steps(r)
<1>1. runs[r].pc # "idle"
  BY DEF RemoteCallFails, At
<1>2. r \in DOMAIN job
  BY <1>1, RunIsTyped
<1>3. /\ UNCHANGED journalVars
      /\ Fails(r) \/ \E x : \E next \in {"request", "ready"} : Becomes(r, Settled(r, x, TRUE, next))
  BY DEF RemoteCallFails
<1>4. QED
  BY <1>2, <1>3, MoveAdvances, SettledRun DEF Steps, Advances

-----------------------------------------------------------------------------
(* How the journal moves on.                                               *)

Lone(times) == \A t, u \in times : t = u

\* What was once confirmed is all that is committed: an issuance has one time at most.
OneCommit == \A s \in Sequence : \A n \in DOMAIN issuances[s] : Lone(issuances[s][n].committed)

Blank(s, i) ==
  \A x \in Roster(s) : i.slots[x].state = "PREPARED" /\ i.slots[x].committed = {}

\* Nothing that a run has seen is undone, and a new issuance is empty.
Onward ==
  /\ now <= now' /\ now' \in Times
  /\ \A s \in Sequence :
       /\ intents[s].state # "MISSING" =>
            intents'[s].state # "MISSING" /\ intents'[s].request = intents[s].request
       /\ intents'[s].state = "MISSING" => intents'[s] = intents[s]
       /\ records[s].state # "MISSING" => records'[s].state # "MISSING"
       /\ records[s].state = "CONFIRMED" => records'[s].state = "CONFIRMED"
       /\ \A n \in DOMAIN issuances[s] :
            /\ n \in DOMAIN issuances'[s]
            /\ \A x \in Roster(s) :
                 issuances[s][n].slots[x].state # "PREPARED" =>
                   issuances'[s][n].slots[x].state # "PREPARED"
       /\ \A n \in DOMAIN issuances'[s] \ DOMAIN issuances[s] :
            n \in Ordinals /\ Blank(s, issuances'[s][n])
       /\ \A n \in DOMAIN issuances'[s] : Lone(issuances'[s][n].committed)

SameEffect(old, new) ==
  /\ new.committed = old.committed
  /\ InEffect(new) <=> InEffect(old)
  /\ new.state = "CONFIRMED" <=> old.state = "CONFIRMED"

\* No effect is sealed or confirmed, but perhaps of issuance n.
QuietBut(s, n) ==
  \A z \in Sequence : \A k \in DOMAIN issuances[z] :
    \/ z = s /\ k = n
    \/ \A x \in EffectSlots(z) : SameEffect(issuances[z][k].slots[x], issuances'[z][k].slots[x])

Quiet ==
  \A z \in Sequence : \A k \in DOMAIN issuances[z] : \A x \in EffectSlots(z) :
    SameEffect(issuances[z][k].slots[x], issuances'[z][k].slots[x])

\* What the journal's moves are shown from.
JournalReady == JournalInv /\ OneCommit /\ now \in Times

\* A rewritten issuance.
LEMMA PutOnward ==
  ASSUME JournalReady, NEW s \in Sequence, NEW n \in DOMAIN issuances[s], NEW i, Put(s, n, i),
         \A x \in Roster(s) :
           issuances[s][n].slots[x].state # "PREPARED" => i.slots[x].state # "PREPARED",
         Lone(i.committed)
  PROVE  /\ Onward /\ QuietBut(s, n)
         /\ issuances'[s][n] = i
         /\ \A z \in Sequence : DOMAIN issuances'[z] = DOMAIN issuances[z]
         /\ (\A x \in EffectSlots(s) : SameEffect(issuances[s][n].slots[x], i.slots[x])) => Quiet
<1>1. /\ issuances' = [issuances EXCEPT ![s] = [@ EXCEPT ![n] = i]]
      /\ UNCHANGED <<now, intents, records>>
      /\ DOMAIN issuances = Sequence
      /\ now \in Nat /\ now \in Times
      /\ \A z \in Sequence : \A k \in DOMAIN issuances[z] : Lone(issuances[z][k].committed)
  BY DEF Put, JournalReady, JournalInv, JournalTypeOK, OneCommit
<1>2. \A z \in Sequence :
        /\ DOMAIN issuances'[z] = DOMAIN issuances[z]
        /\ \A k \in DOMAIN issuances[z] :
             issuances'[z][k] = IF z = s /\ k = n THEN i ELSE issuances[z][k]
  BY <1>1
<1>3. Onward
  BY <1>1, <1>2 DEF Onward
<1>4. QuietBut(s, n)
  BY <1>2 DEF QuietBut, SameEffect
<1>5. (\A x \in EffectSlots(s) : SameEffect(issuances[s][n].slots[x], i.slots[x])) => Quiet
  BY <1>2 DEF Quiet, SameEffect
<1>6. QED
  BY <1>2, <1>3, <1>4, <1>5

\* A current issuance, its slots and what they hold.
LEMMA CurrentSlots ==
  ASSUME JournalReady, NEW s \in Sequence, NEW n, NEW states, CurrentIn(s, n, states)
  PROVE  /\ n \in DOMAIN issuances[s]
         /\ issuances[s][n] \in Issuance(s)
         /\ DOMAIN issuances[s][n].slots = Roster(s)
         /\ Lone(issuances[s][n].committed)
         /\ \A x \in Roster(s) :
              /\ issuances[s][n].slots[x] \in Slot
              /\ ~InEffect(issuances[s][n].slots[x]) => issuances[s][n].slots[x].committed = {}
<1>1. n \in DOMAIN issuances[s] /\ issuances[s][n] \in Issuance(s) /\ Sound(issuances[s][n])
  BY CurrentIsSound DEF JournalReady
<1>2. DOMAIN issuances[s][n].slots = Roster(s)
      /\ \A x \in Roster(s) : issuances[s][n].slots[x] \in Slot
  BY <1>1 DEF Issuance
<1>3. Lone(issuances[s][n].committed)
  BY <1>1 DEF JournalReady, OneCommit
<1>4. QED
  BY <1>1, <1>2, <1>3 DEF Sound, SlotShaped, ShapedSlot, InEffect, Slot, SlotState

\* prepareRead
LEMMA PrepareReadMoves ==
  ASSUME JournalReady, NEW s \in Sequence, NEW n, NEW x, PrepareRead(s, n, x)
  PROVE  /\ Onward /\ Quiet
         /\ n \in DOMAIN issuances'[s] /\ issuances'[s][n].slots[x].state = "READ_IN_FLIGHT"
<1> DEFINE i == issuances[s][n]
           new == [i EXCEPT !.slots[x].state = "READ_IN_FLIGHT",
                            !.state = IF @ = "RESERVED" THEN "COLLECTING" ELSE @]
<1>1. /\ CurrentIn(s, n, {"RESERVED", "COLLECTING", "EFFECTS_PENDING"})
      /\ x \in Roster(s) /\ i.slots[x].state = "PREPARED" /\ Put(s, n, new)
  BY DEF PrepareRead, Live
<1>2. /\ n \in DOMAIN issuances[s] /\ i \in Issuance(s) /\ Lone(i.committed)
      /\ \A y \in Roster(s) : i.slots[y] \in Slot
  BY <1>1, CurrentSlots
<1> HIDE DEF i
<1>3. /\ new.committed = i.committed
      /\ new.slots[x] = [i.slots[x] EXCEPT !.state = "READ_IN_FLIGHT"]
      /\ \A y \in Roster(s) \ {x} : new.slots[y] = i.slots[y]
  BY <1>1, <1>2 DEF Issuance
<1> HIDE DEF new
<1>4. new.slots[x].state = "READ_IN_FLIGHT" /\ new.slots[x].committed = i.slots[x].committed
  BY <1>1, <1>2, <1>3 DEF Slot
<1>5. \A y \in Roster(s) : SameEffect(i.slots[y], new.slots[y])
  BY <1>1, <1>3, <1>4 DEF SameEffect, InEffect
<1>6. EffectSlots(s) \subseteq Roster(s)
  BY DEF EffectSlots
<1>7. \A y \in Roster(s) : i.slots[y].state # "PREPARED" => new.slots[y].state # "PREPARED"
  BY <1>3, <1>4
<1>8. /\ Onward /\ Quiet /\ issuances'[s][n] = new
      /\ \A z \in Sequence : DOMAIN issuances'[z] = DOMAIN issuances[z]
  BY <1>1, <1>2, <1>3, <1>5, <1>6, <1>7, PutOnward DEF i
<1>9. QED
  BY <1>2, <1>4, <1>8

\* freezeRead
LEMMA FreezeReadMoves ==
  ASSUME JournalReady, NEW s \in Sequence, NEW n, NEW x, NEW observed, FreezeRead(s, n, x, observed)
  PROVE  Onward /\ Quiet
<1> DEFINE i == issuances[s][n]
           slot == [state |-> "FROZEN", observed |-> {observed}, committed |-> {}]
           new == [i EXCEPT !.slots[x] = slot]
<1>1. /\ CurrentIn(s, n, {"RESERVED", "COLLECTING", "EFFECTS_PENDING"})
      /\ x \in Roster(s) /\ i.slots[x].state = "READ_IN_FLIGHT" /\ Put(s, n, new)
  BY DEF FreezeRead, Live, MayFreeze
<1>2. /\ n \in DOMAIN issuances[s] /\ i \in Issuance(s) /\ Lone(i.committed)
      /\ ~InEffect(i.slots[x]) => i.slots[x].committed = {}
  BY <1>1, CurrentSlots
<1> HIDE DEF i
<1>3. /\ new.committed = i.committed
      /\ new.slots[x] = slot
      /\ \A y \in Roster(s) \ {x} : new.slots[y] = i.slots[y]
  BY <1>1, <1>2 DEF Issuance
<1> HIDE DEF new
<1>4. new.slots[x].state = "FROZEN" /\ new.slots[x].committed = {} /\ ~InEffect(i.slots[x])
  BY <1>1, <1>3 DEF InEffect
<1>5. \A y \in Roster(s) : SameEffect(i.slots[y], new.slots[y])
  BY <1>1, <1>2, <1>3, <1>4 DEF SameEffect, InEffect
<1>6. \A y \in Roster(s) : i.slots[y].state # "PREPARED" => new.slots[y].state # "PREPARED"
  BY <1>3, <1>4
<1>7. EffectSlots(s) \subseteq Roster(s)
  BY DEF EffectSlots
<1>8. QED
  BY <1>1, <1>2, <1>3, <1>5, <1>6, <1>7, PutOnward DEF i

\* Whoever finds an issuance overdue.
LEMMA ExpiredMoves ==
  ASSUME JournalReady, NEW s \in Sequence, NEW n, NEW states, CurrentIn(s, n, states),
         Put(s, n, Expired(issuances[s][n]))
  PROVE  Onward /\ Quiet
<1> DEFINE i == issuances[s][n]
<1>1. n \in DOMAIN issuances[s] /\ i \in Issuance(s) /\ Lone(i.committed)
  BY CurrentSlots
<1>2. Expired(i).slots = i.slots /\ Expired(i).committed = i.committed
  BY <1>1 DEF Expired, Issuance
<1>3. QED
  BY <1>1, <1>2, PutOnward DEF SameEffect

\* readyToAppend
LEMMA ReadyMoves ==
  ASSUME JournalReady, NEW s \in Sequence, NEW n, ReadyToAppend(s, n)
  PROVE  Onward /\ Quiet
<1> DEFINE i == issuances[s][n]
           new == [i EXCEPT !.state = "READY_TO_APPEND"]
<1>1. /\ CurrentIn(s, n, {"COLLECTING", "EFFECTS_PENDING", "DISPATCHED_HOLD"})
      /\ Put(s, n, new)
  BY DEF ReadyToAppend
<1>2. n \in DOMAIN issuances[s] /\ i \in Issuance(s) /\ Lone(i.committed)
  BY <1>1, CurrentSlots
<1> HIDE DEF i
<1>3. new.slots = i.slots /\ new.committed = i.committed
  BY <1>2 DEF Issuance
<1> HIDE DEF new
<1>4. QED
  BY <1>1, <1>2, <1>3, PutOnward DEF SameEffect, i

\* An effect is confirmed, and with the Cloudflare batch the issuance's time is known.
LEMMA ConfirmDirectMoves ==
  ASSUME JournalReady, NEW n, NEW x, ConfirmDirect(n, x)
  PROVE  /\ Onward /\ QuietBut(0, n)
         /\ n \in DOMAIN issuances[0] /\ n = Len(issuances[0]) /\ x \in EffectSlots(0)
         /\ InEffect(issuances[0][n].slots[x])
         /\ \A z \in Sequence : DOMAIN issuances'[z] = DOMAIN issuances[z]
         /\ issuances'[0][n].slots[x].state = "CONFIRMED"
         /\ issuances'[0][n].slots[x].committed = issuances[0][n].slots[x].committed
         /\ \A y \in EffectSlots(0) \ {x} : issuances'[0][n].slots[y] = issuances[0][n].slots[y]
<1> DEFINE i == issuances[0][n]
           new == [i EXCEPT !.slots[x].state = "CONFIRMED"]
<1>1. /\ CurrentOrHeld(0, n) /\ x \in Roster(0) /\ x \in EffectSlots(0) /\ 0 \in Sequence
      /\ i.slots[x].state = "DELEGATED_IN_FLIGHT" /\ Put(0, n, new)
  BY JournalAssumption DEF ConfirmDirect, Roster, EffectSlots, Sequence
<1>2. /\ n \in DOMAIN issuances[0] /\ i \in Issuance(0) /\ Lone(i.committed)
      /\ n = Len(issuances[0])
      /\ \A y \in Roster(0) : i.slots[y] \in Slot
  BY <1>1, CurrentSlots DEF CurrentOrHeld, CurrentIn
<1> HIDE DEF i
<1>3. /\ new.committed = i.committed
      /\ new.slots[x] = [i.slots[x] EXCEPT !.state = "CONFIRMED"]
      /\ \A y \in Roster(0) \ {x} : new.slots[y] = i.slots[y]
  BY <1>1, <1>2 DEF Issuance
<1> HIDE DEF new
<1>4. new.slots[x].state = "CONFIRMED" /\ new.slots[x].committed = i.slots[x].committed
  BY <1>1, <1>2, <1>3 DEF Slot
<1>5. EffectSlots(0) \subseteq Roster(0)
  BY DEF EffectSlots
<1>6. InEffect(i.slots[x])
  BY <1>1 DEF InEffect
<1>7. \A y \in Roster(0) : i.slots[y].state # "PREPARED" => new.slots[y].state # "PREPARED"
  BY <1>3, <1>4
<1>8. /\ Onward /\ QuietBut(0, n) /\ issuances'[0][n] = new
      /\ \A z \in Sequence : DOMAIN issuances'[z] = DOMAIN issuances[z]
  BY <1>1, <1>2, <1>3, <1>4, <1>7, PutOnward, SMTT(40) DEF i
<1>9. QED
  BY <1>1, <1>2, <1>3, <1>4, <1>5, <1>6, <1>8 DEF i

\* The same, of the Cloudflare batch.
LEMMA ConfirmCloudflareMoves ==
  ASSUME JournalReady, NEW s \in Sequence, NEW n, NEW sealed, ConfirmCloudflare(s, n, sealed)
  PROVE  /\ Onward /\ QuietBut(s, n)
         /\ n \in DOMAIN issuances[s] /\ n = Len(issuances[s]) /\ "CLOUDFLARE_BATCH" \in EffectSlots(s)
         /\ InEffect(issuances[s][n].slots["CLOUDFLARE_BATCH"])
         /\ \A z \in Sequence : DOMAIN issuances'[z] = DOMAIN issuances[z]
         /\ issuances'[s][n].slots["CLOUDFLARE_BATCH"].state = "CONFIRMED"
         /\ issuances'[s][n].slots["CLOUDFLARE_BATCH"].committed =
              issuances[s][n].slots["CLOUDFLARE_BATCH"].committed
         /\ \A y \in EffectSlots(s) \ {"CLOUDFLARE_BATCH"} :
              issuances'[s][n].slots[y] = issuances[s][n].slots[y]
<1> DEFINE i == issuances[s][n]
           x == "CLOUDFLARE_BATCH"
           new == [i EXCEPT !.slots["CLOUDFLARE_BATCH"].state = "CONFIRMED",
                            !.committed = {sealed}]
<1>1. /\ CurrentOrHeld(s, n) /\ x \in Roster(s) /\ x \in EffectSlots(s)
      /\ i.slots[x].state = "DELEGATED_IN_FLIGHT" /\ Put(s, n, new)
  BY DEF ConfirmCloudflare, Roster, EffectSlots
<1>2. /\ n \in DOMAIN issuances[s] /\ i \in Issuance(s)
      /\ n = Len(issuances[s])
      /\ \A y \in Roster(s) : i.slots[y] \in Slot
  BY <1>1, CurrentSlots DEF CurrentOrHeld, CurrentIn
<1> HIDE DEF i
<1>3. /\ new.committed = {sealed}
      /\ new.slots[x] = [i.slots[x] EXCEPT !.state = "CONFIRMED"]
      /\ \A y \in Roster(s) \ {x} : new.slots[y] = i.slots[y]
  BY <1>1, <1>2 DEF Issuance
<1> HIDE DEF new, x
<1>4. /\ new.slots[x].state = "CONFIRMED" /\ new.slots[x].committed = i.slots[x].committed
      /\ Lone(new.committed)
  BY <1>1, <1>2, <1>3 DEF Slot, Lone
<1>5. EffectSlots(s) \subseteq Roster(s)
  BY DEF EffectSlots
<1>6. InEffect(i.slots[x])
  BY <1>1 DEF InEffect
<1>7. \A y \in Roster(s) : i.slots[y].state # "PREPARED" => new.slots[y].state # "PREPARED"
  BY <1>3, <1>4
<1>8. /\ Onward /\ QuietBut(s, n) /\ issuances'[s][n] = new
      /\ \A z \in Sequence : DOMAIN issuances'[z] = DOMAIN issuances[z]
  <2>1. Put(s, n, new) /\ Lone(new.committed) /\ n \in DOMAIN issuances[s]
    BY <1>1, <1>2, <1>4
  <2>2. \A y \in Roster(s) :
          issuances[s][n].slots[y].state # "PREPARED" => new.slots[y].state # "PREPARED"
    BY <1>7 DEF i
  <2>3. QED
    BY <2>1, <2>2, PutOnward
<1>9. QED
  BY <1>1, <1>2, <1>3, <1>4, <1>5, <1>6, <1>8 DEF i, x

\* A whole plan is sealed.
LEMMA PlanSealed ==
  ASSUME JournalReady, NEW s \in Sequence, NEW n, NEW c \in Nat,
         IF s = 0 THEN DelegateProvision(n, c) ELSE DelegateCloudflare(s, n, c),
         now <= FreshUntil(issuances[s][n])
  PROVE  /\ Onward /\ QuietBut(s, n)
         /\ n \in DOMAIN issuances[s] /\ n = Len(issuances[s]) /\ c \in 0 .. now
         /\ issuances[s][n].slots["CLOUDFLARE_BATCH"].state = "PREPARED"
         /\ \A z \in Sequence : DOMAIN issuances'[z] = DOMAIN issuances[z]
         /\ \A x \in EffectSlots(s) : /\ issuances'[s][n].slots[x].state = "DELEGATED_IN_FLIGHT"
                                       /\ issuances'[s][n].slots[x].committed = {c}
<1> DEFINE i == issuances[s][n]
           xs == EffectSlots(s)
           new == WithDelegated(i, xs, c)
<1>1. /\ CurrentIn(s, n, {"RESERVED", "COLLECTING", "EFFECTS_PENDING", "READY_TO_APPEND"})
      /\ i.slots["CLOUDFLARE_BATCH"].state = "PREPARED"
      /\ SealEffects(s, n, xs, c)
      /\ WellTimed(i, c)
  <2>1. CASE s = 0
    <3>1. EffectSlots(0) = DirectSlots \cup {"CLOUDFLARE_BATCH"}
      BY JournalAssumption DEF EffectSlots, Roster
    <3>2. QED
      BY <2>1, <3>1 DEF DelegateProvision, Current
  <2>2. CASE s # 0
    <3>1. EffectSlots(s) = {"CLOUDFLARE_BATCH"}
      BY <2>2 DEF EffectSlots, Roster
    <3>2. QED
      BY <2>2, <3>1 DEF DelegateCloudflare, Current
  <2>3. QED
    BY <2>1, <2>2
<1>2. /\ n \in DOMAIN issuances[s] /\ i \in Issuance(s) /\ n = Len(issuances[s]) /\ Lone(i.committed)
      /\ \A y \in Roster(s) : i.slots[y] \in Slot
      /\ DOMAIN i.slots = Roster(s)
  BY <1>1, CurrentSlots DEF CurrentIn
<1>3. xs \subseteq Roster(s) /\ "CLOUDFLARE_BATCH" \in xs
  BY DEF EffectSlots, Roster
<1>4. FreshUntil(i) \in Nat /\ now \in Nat /\ i.issued \in Nat
  BY <1>2, JournalAssumption DEF FreshUntil, Issuance, JournalReady, Times
<1>5. Put(s, n, new) /\ i.issued <= c /\ c <= now
  BY <1>1, <1>3, <1>4 DEF SealEffects, WellTimed, Chronological
<1> HIDE DEF i, xs
<1>6. /\ new.committed = i.committed
      /\ new.slots = [x \in Roster(s) |-> IF x \in xs THEN Delegated(i.slots[x], c) ELSE i.slots[x]]
  BY <1>2 DEF WithDelegated, Issuance
<1> HIDE DEF new
<1>7. \A x \in xs : new.slots[x].state = "DELEGATED_IN_FLIGHT" /\ new.slots[x].committed = {c}
  BY <1>2, <1>3, <1>6, ZenonT(60) DEF Delegated, Slot
<1>8. \A x \in Roster(s) : i.slots[x].state # "PREPARED" => new.slots[x].state # "PREPARED"
  BY <1>6, <1>7
<1>9. /\ Onward /\ QuietBut(s, n) /\ issuances'[s][n] = new
      /\ \A z \in Sequence : DOMAIN issuances'[z] = DOMAIN issuances[z]
  BY <1>2, <1>5, <1>6, <1>8, PutOnward, SMTT(40) DEF i
<1>10. QED
  BY <1>1, <1>2, <1>4, <1>5, <1>7, <1>9 DEF i, xs

\* The clock alone moves, or nothing does.
LEMMA ClockMoves ==
  ASSUME JournalReady, now <= now', now' \in Times, UNCHANGED <<intents, issuances, records>>
  PROVE  Onward /\ Quiet
<1>1. \A z \in Sequence : \A k \in DOMAIN issuances[z] : Lone(issuances[z][k].committed)
  BY DEF JournalReady, OneCommit
<1>2. QED
  BY <1>1 DEF Onward, Quiet, SameEffect

\* An unchanged journal.
LEMMA StandsStill ==
  ASSUME JournalReady, UNCHANGED journalVars
  PROVE  Onward /\ Quiet
<1>1. now \in Nat
  BY DEF JournalReady, JournalInv, JournalTypeOK
<1>2. QED
  BY <1>1, ClockMoves DEF journalVars, JournalReady

\* A first issuance.
LEMMA ReserveMoves ==
  ASSUME JournalReady, NEW s \in Sequence, NEW q, NEW at, Reserve(s, q, at)
  PROVE  /\ Onward /\ Quiet
         /\ intents'[s] = [state |-> "OPEN", request |-> {q}]
         /\ 1 \in DOMAIN issuances'[s]
<1> DEFINE new == NewIssuance(s, at)
<1>1. /\ intents[s].state = "MISSING"
      /\ intents' = [intents EXCEPT ![s] = [state |-> "OPEN", request |-> {q}]]
      /\ issuances' = [issuances EXCEPT ![s] = <<new>>]
      /\ now' = now /\ records' = records
  BY DEF Reserve
<1>2. JournalTypeOK /\ now \in Nat /\ now \in Times
      /\ \A z \in Sequence : \A k \in DOMAIN issuances[z] : Lone(issuances[z][k].committed)
  BY DEF JournalReady, JournalInv, JournalTypeOK, OneCommit
<1>3. issuances[s] = <<>> /\ DOMAIN issuances[s] = {}
  <2>1. issuances[s] = <<>>
    BY <1>1 DEF JournalReady, JournalInv, TablesAgree, StatesAgree
  <2>2. QED
    BY <2>1
<1>4. new.committed = {} /\ Blank(s, new)
  BY DEF NewIssuance, Blank
<1> HIDE DEF new
<1>5. /\ DOMAIN issuances'[s] = {1} /\ issuances'[s][1] = new
      /\ \A z \in Sequence \ {s} : issuances'[z] = issuances[z] /\ intents'[z] = intents[z]
      /\ intents'[s] = [state |-> "OPEN", request |-> {q}]
  BY <1>1, <1>2 DEF JournalTypeOK
<1>6. 1 \in Ordinals
  BY JournalAssumption DEF Ordinals
<1>7. Onward
  BY <1>1, <1>2, <1>3, <1>4, <1>5, <1>6 DEF Onward, Lone
<1>8. Quiet
  BY <1>3, <1>5 DEF Quiet, SameEffect
<1>9. QED
  BY <1>5, <1>7, <1>8

\* Another issuance.
LEMMA ReissueMoves ==
  ASSUME JournalReady, NEW s \in Sequence, NEW n, NEW at, ReissueStale(s, n, at)
  PROVE  /\ Onward /\ Quiet
         /\ n + 1 \in DOMAIN issuances'[s]
<1> DEFINE i == issuances[s][n]
           old == Superseded(i)
           closed == [issuances[s] EXCEPT ![n] = old]
           new == NewIssuance(s, at)
<1>1. /\ n \in DOMAIN issuances[s] /\ n = Len(issuances[s]) /\ n < MaxOrdinal
      /\ issuances' = [issuances EXCEPT ![s] = Append(closed, new)]
      /\ now' = now /\ intents' = intents /\ records' = records
  BY DEF ReissueStale
<1>2. JournalTypeOK /\ now \in Nat /\ now \in Times
      /\ \A z \in Sequence : \A k \in DOMAIN issuances[z] : Lone(issuances[z][k].committed)
  BY DEF JournalReady, JournalInv, JournalTypeOK, OneCommit
<1>3. /\ issuances[s] \in Seq(Issuance(s)) /\ DOMAIN issuances[s] = 1 .. n /\ n \in Nat
      /\ i \in Issuance(s)
  BY <1>1, <1>2, LenProperties DEF JournalTypeOK
<1>4. new.committed = {} /\ Blank(s, new)
  BY DEF NewIssuance, Blank
<1>5. old \in Issuance(s) /\ old.slots = i.slots /\ old.committed = i.committed
  BY <1>3 DEF Superseded, Issuance, IssuanceState
<1> HIDE DEF new, old
<1>6. /\ closed \in Seq(Issuance(s)) /\ Len(closed) = n
      /\ \A k \in 1 .. n : closed[k] = IF k = n THEN old ELSE issuances[s][k]
  BY <1>1, <1>3, <1>5, ExceptSeq
<1> HIDE DEF closed
<1>7. issuances'[s] = Append(closed, new) /\ \A z \in Sequence \ {s} : issuances'[z] = issuances[z]
  BY <1>1, <1>2 DEF JournalTypeOK
<1>8. new \in {new}
  OBVIOUS
<1>9. /\ DOMAIN issuances'[s] = 1 .. (n + 1)
      /\ \A k \in 1 .. n : issuances'[s][k] = IF k = n THEN old ELSE issuances[s][k]
      /\ issuances'[s][n + 1] = new
  <2>1. closed \in Seq(Issuance(s) \cup {new}) /\ new \in Issuance(s) \cup {new}
    BY <1>6
  <2>2. QED
    BY <2>1, <1>3, <1>6, <1>7, AppendProperties, LenProperties
<1>10. n + 1 \in Ordinals
  BY <1>1, <1>3, JournalAssumption DEF Ordinals
<1>11. \A k \in 1 .. n : /\ issuances'[s][k].slots = issuances[s][k].slots
                         /\ issuances'[s][k].committed = issuances[s][k].committed
  BY <1>1, <1>5, <1>9 DEF i
<1>12. \A k \in 1 .. (n + 1) : k \in 1 .. n \/ k = n + 1
  BY <1>3
<1>13. Onward
  <2>1. ASSUME NEW k \in 1 .. (n + 1) PROVE Lone(issuances'[s][k].committed)
    <3>1. CASE k \in 1 .. n
      <4>1. issuances'[s][k].committed = issuances[s][k].committed /\ k \in DOMAIN issuances[s]
        BY <1>3, <1>11, <3>1
      <4>2. Lone(issuances[s][k].committed)
        BY <1>2, <4>1
      <4>3. QED
        BY <4>1, <4>2
    <3>2. CASE k = n + 1
      <4>1. issuances'[s][k].committed = {}
        BY <1>4, <1>9, <3>2
      <4>2. QED
        BY <4>1 DEF Lone
    <3>3. QED
      BY <1>12, <3>1, <3>2
  <2>2. ASSUME NEW k \in 1 .. n, NEW x \in Roster(s), issuances[s][k].slots[x].state # "PREPARED"
        PROVE  issuances'[s][k].slots[x].state # "PREPARED"
    BY <2>2, <1>11
  <2>3. 1 .. n \subseteq 1 .. (n + 1) /\ \A k \in (1 .. (n + 1)) \ (1 .. n) : k = n + 1
    BY <1>3
  <2>4. QED
    BY <1>1, <1>2, <1>3, <1>4, <1>7, <1>9, <1>10, <2>1, <2>2, <2>3 DEF Onward
<1>14. Quiet
  BY <1>3, <1>7, <1>11 DEF Quiet, SameEffect
<1>15. QED
  BY <1>3, <1>9, <1>13, <1>14

\* A record is appended, or confirmed: no slot changes.
LEMMA RecordMoves ==
  ASSUME JournalReady, NEW s \in Sequence, NEW n, FreezeAndAppend(s, n) \/ ConfirmRecordWorm(s, n)
  PROVE  /\ Onward /\ Quiet
         /\ records'[s].state # "MISSING"
         /\ ConfirmRecordWorm(s, n) => records'[s].state = "CONFIRMED"
         /\ FreezeAndAppend(s, n) => records'[s].ordinal = n
<1> DEFINE i == issuances[s][n]
           new(state) == [i EXCEPT !.state = state]
<1>1. /\ \E states : CurrentIn(s, n, states)
      /\ \E state : issuances' = [issuances EXCEPT ![s] = [@ EXCEPT ![n] = new(state)]]
      /\ \/ /\ records[s].state = "MISSING" /\ intents' = intents
            /\ records' = [records EXCEPT ![s] = [state |-> "APPENDED", ordinal |-> n,
                                                  committed |-> i.committed]]
         \/ /\ records' = [records EXCEPT ![s].state = "CONFIRMED"]
            /\ intents' = [intents EXCEPT ![s].state = "CONFIRMED"]
      /\ now' = now
  BY DEF FreezeAndAppend, ConfirmRecordWorm, IntentConfirmed
<1>2. JournalTypeOK /\ now \in Nat /\ now \in Times
      /\ \A z \in Sequence : \A k \in DOMAIN issuances[z] : Lone(issuances[z][k].committed)
  BY DEF JournalReady, JournalInv, JournalTypeOK, OneCommit
<1>3. n \in DOMAIN issuances[s] /\ i \in Issuance(s)
  BY <1>1, CurrentSlots
<1>4. \A state : new(state).slots = i.slots /\ new(state).committed = i.committed
  BY <1>3 DEF Issuance
<1> HIDE DEF new
<1>5. \A z \in Sequence :
        /\ DOMAIN issuances'[z] = DOMAIN issuances[z]
        /\ \A k \in DOMAIN issuances[z] : /\ issuances'[z][k].slots = issuances[z][k].slots
                                          /\ issuances'[z][k].committed = issuances[z][k].committed
  BY <1>1, <1>2, <1>4 DEF JournalTypeOK
<1>6. \A z \in Sequence :
        /\ records[z].state # "MISSING" => records'[z].state # "MISSING"
        /\ records[z].state = "CONFIRMED" => records'[z].state = "CONFIRMED"
  BY <1>1, <1>2 DEF JournalTypeOK, Record
<1>6a. \A z \in Sequence : intents'[z].state = "MISSING" => intents'[z] = intents[z]
  <2>1. intents \in [Sequence -> Intent]
    BY <1>2 DEF JournalTypeOK
  <2>2. CASE intents' = [intents EXCEPT ![s].state = "CONFIRMED"]
    BY <2>1, <2>2 DEF Intent
  <2>3. QED
    BY <1>1, <2>2
<1>7. ASSUME NEW z \in Sequence, intents[z].state # "MISSING"
      PROVE  intents'[z].state # "MISSING" /\ intents'[z].request = intents[z].request
  <2>1. intents[z] \in Intent /\ intents \in [Sequence -> Intent]
    BY <1>2 DEF JournalTypeOK
  <2>2. CASE intents' = [intents EXCEPT ![s].state = "CONFIRMED"]
    BY <1>7, <2>1, <2>2 DEF Intent
  <2>3. CASE intents' = intents
    BY <1>7, <2>3
  <2>4. QED
    BY <1>1, <2>2, <2>3
<1>8. Onward
  <2>1. now <= now' /\ now' \in Times
    BY <1>1, <1>2
  <2>2. ASSUME NEW z \in Sequence
        PROVE  /\ \A k \in DOMAIN issuances[z] :
                    /\ k \in DOMAIN issuances'[z]
                    /\ \A x \in Roster(z) :
                         issuances[z][k].slots[x].state # "PREPARED" =>
                           issuances'[z][k].slots[x].state # "PREPARED"
               /\ \A k \in DOMAIN issuances'[z] \ DOMAIN issuances[z] :
                    k \in Ordinals /\ Blank(z, issuances'[z][k])
               /\ \A k \in DOMAIN issuances'[z] : Lone(issuances'[z][k].committed)
    BY <1>2, <1>5
  <2>3. QED
    BY <2>1, <2>2, <1>6, <1>6a, <1>7 DEF Onward
<1>9. Quiet
  BY <1>5 DEF Quiet, SameEffect
<1>10. /\ FreezeAndAppend(s, n) => (records'[s].state = "APPENDED" /\ records'[s].ordinal = n)
       /\ ConfirmRecordWorm(s, n) => (records'[s].state = "CONFIRMED")
  BY <1>2 DEF FreezeAndAppend, ConfirmRecordWorm, JournalTypeOK, Record
<1>11. QED
  BY <1>8, <1>9, <1>10

-----------------------------------------------------------------------------
(* The runner's invariant.                                                 *)

\* What a run knows of the journal, wherever it is cut: its intent and issuance are there,
\* its reads are prepared, its effects were called for, its record is made.
SoundRun(r, run) ==
  LET s == SequenceOf(r) IN
  run.pc # "idle" =>
    /\ s = 1 => records[0].state = "CONFIRMED"
    /\ run.pc # "admitted" =>
         intents[s].state # "MISSING" /\ intents[s].request = {job[r].request}
    /\ run.pc \notin {"admitted", "stale", "reissue", "done"} => run.n \in DOMAIN issuances[s]
    /\ run.pc \in {"collect", "prepare", "read"} => s = 0
    /\ run.pc \notin {"prepare", "read", "effects"} => run.under = {}
    /\ run.pc \in {"prepare", "read"} =>
         \A x \in run.under : x \in Reads /\ issuances[0][run.n].slots[x].state # "PREPARED"
    /\ run.pc = "effects" =>
         \A x \in run.under : x \in EffectSlots(s) /\ Call(s, run.n, x, run.committed) \in calls
    /\ run.pc \in {"worm", "mirror"} =>
         records[s].state # "MISSING" /\ records[s].ordinal = run.n
    /\ run.pc = "done" => records[s].state = "CONFIRMED"

RunSound(r) == SoundRun(r, runs[r])

\* The effects of an issuance are sealed together, and none is confirmed uncalled.
Unsealed(s, n) == \A x \in EffectSlots(s) : ~InEffect(issuances[s][n].slots[x])

SealedBy(s, n, c) ==
  \A x \in EffectSlots(s) :
    /\ InEffect(issuances[s][n].slots[x])
    /\ issuances[s][n].slots[x].committed = {c}
    /\ issuances[s][n].slots[x].state = "CONFIRMED" => Call(s, n, x, c) \in calls

PlanSound ==
  \A s \in Sequence : \A n \in DOMAIN issuances[s] :
    Unsealed(s, n) \/ \E c \in Times : SealedBy(s, n, c)

\* An effect that was called for is sealed by the call's request, a record appended.
CallSound(s, n, x, c) ==
  /\ s \in Sequence /\ n \in DOMAIN issuances[s]
  /\ \/ /\ x = "RECORD"
        /\ records[s].state # "MISSING" /\ records[s].ordinal = n /\ records[s].committed = {c}
     \/ /\ x \in EffectSlots(s)
        /\ InEffect(issuances[s][n].slots[x])
        /\ issuances[s][n].slots[x].committed = {c}

CallsSound ==
  \A call \in calls :
    /\ call = Call(call.sequence, call.ordinal, call.slot, call.committed)
    /\ CallSound(call.sequence, call.ordinal, call.slot, call.committed)

\* What was not asked for has no request.
NotAsked == \A s \in Sequence : intents[s].state = "MISSING" => intents[s].request = {}

RunnerInv ==
  /\ JournalInv
  /\ NotAsked
  /\ RunnerBounds
  /\ OneCommit
  /\ PlanSound
  /\ CallsSound
  /\ \A r \in Runs : RunSound(r)

\* What of the invariant the journal needs.
LEMMA RunnerInvReady ==
  ASSUME RunnerInv
  PROVE  JournalReady /\ JournalTypeOK /\ RunnerBounds
BY DEF RunnerInv, JournalReady, JournalInv, RunnerBounds

\* An effect that is sealed stays so.
LEMMA EffectStays ==
  ASSUME JournalInv, JournalInv', EvidenceIsKept, NEW s \in Sequence, NEW n \in DOMAIN issuances[s],
         NEW x \in Roster(s), NEW c, InEffect(issuances[s][n].slots[x]),
         issuances[s][n].slots[x].committed = {c}
  PROVE  /\ n \in DOMAIN issuances'[s]
         /\ InEffect(issuances'[s][n].slots[x])
         /\ issuances'[s][n].slots[x].committed = {c}
<1>1. /\ issuances[s][n] \in Issuance(s) /\ n \in DOMAIN issuances'[s]
      /\ issuances'[s][n] \in Issuance(s) /\ Sound(issuances'[s][n])
  <2>1. issuances[s] \in Seq(Issuance(s)) /\ issuances'[s] \in Seq(Issuance(s))
    BY DEF JournalInv, JournalTypeOK
  <2>2. n \in DOMAIN issuances'[s]
    BY DEF EvidenceIsKept
  <2>3. QED
    BY <2>1, <2>2, LenProperties DEF JournalInv, AllSound
<1>2. x \in DOMAIN issuances[s][n].slots /\ x \in DOMAIN issuances'[s][n].slots
      /\ issuances'[s][n].slots[x] \in Slot
  BY <1>1 DEF Issuance
<1>3. issuances'[s][n].slots[x].committed = {c}
  BY <1>2, SMTT(40) DEF EvidenceIsKept
<1>4. ShapedSlot(issuances'[s][n].issued, issuances'[s][n].slots[x])
  BY <1>1, <1>2 DEF Sound, SlotShaped
<1>5. InEffect(issuances'[s][n].slots[x])
  BY <1>2, <1>3, <1>4 DEF ShapedSlot, InEffect, Slot, SlotState
<1>6. QED
  BY <1>1, <1>3, <1>5

\* So what a call was made for stays as it is.
LEMMA CallStays ==
  ASSUME JournalInv, JournalInv', EvidenceIsKept, Onward,
         NEW s, NEW n, NEW x, NEW c, CallSound(s, n, x, c)
  PROVE  CallSound(s, n, x, c)'
<1>1. s \in Sequence /\ n \in DOMAIN issuances[s]
  BY DEF CallSound
<1>2. n \in DOMAIN issuances'[s]
  BY <1>1 DEF Onward
<1>3. CASE x = "RECORD" /\ records[s].state # "MISSING" /\ records[s].ordinal = n
           /\ records[s].committed = {c}
  <2>1. records'[s].state # "MISSING"
    BY <1>1, <1>3 DEF Onward
  <2>2. records'[s].ordinal = n /\ records'[s].committed = {c}
    BY <1>1, <1>3 DEF EvidenceIsKept
  <2>3. QED
    BY <1>1, <1>2, <1>3, <2>1, <2>2 DEF CallSound
<1>4. CASE /\ x \in EffectSlots(s)
           /\ InEffect(issuances[s][n].slots[x])
           /\ issuances[s][n].slots[x].committed = {c}
  <2>1. x \in Roster(s)
    BY <1>4 DEF EffectSlots
  <2>2. InEffect(issuances'[s][n].slots[x]) /\ issuances'[s][n].slots[x].committed = {c}
    BY <1>1, <1>4, <2>1, EffectStays
  <2>3. QED
    BY <1>1, <1>2, <1>4, <2>2 DEF CallSound
<1>5. QED
  BY <1>3, <1>4 DEF CallSound

\* No new calls.
LEMMA CallsStay ==
  ASSUME JournalInv, JournalInv', EvidenceIsKept, Onward, CallsSound, calls' = calls
  PROVE  CallsSound'
BY CallStays DEF CallsSound

\* No effect is sealed or confirmed.
LEMMA PlansStay ==
  ASSUME Onward, Quiet, PlanSound, calls \subseteq calls'
  PROVE  PlanSound'
<1> SUFFICES ASSUME NEW s \in Sequence, NEW n \in DOMAIN issuances'[s]
             PROVE  Unsealed(s, n)' \/ \E c \in Times : SealedBy(s, n, c)'
  BY DEF PlanSound
<1>1. CASE n \in DOMAIN issuances[s]
  <2>1. \A x \in EffectSlots(s) : SameEffect(issuances[s][n].slots[x], issuances'[s][n].slots[x])
    BY <1>1 DEF Quiet
  <2>2. CASE Unsealed(s, n)
    BY <2>1, <2>2 DEF Unsealed, SameEffect
  <2>3. ASSUME NEW c \in Times, SealedBy(s, n, c) PROVE SealedBy(s, n, c)'
    BY <2>1, <2>3 DEF SealedBy, SameEffect
  <2>4. QED
    BY <1>1, <2>2, <2>3 DEF PlanSound
<1>2. CASE n \notin DOMAIN issuances[s]
  <2>1. Blank(s, issuances'[s][n])
    BY <1>2 DEF Onward
  <2>2. Unsealed(s, n)'
    BY <2>1 DEF Blank, Unsealed, InEffect, EffectSlots
  <2>3. QED
    BY <2>2
<1>3. QED
  BY <1>1, <1>2

\* What a run knows of the journal stays true.
LEMMA RunStays ==
  ASSUME Onward, EvidenceIsKept, calls \subseteq calls', job' = job, NEW r, NEW run,
         run.pc # "idle" => SequenceOf(r) \in Sequence,
         SoundRun(r, run)
  PROVE  SoundRun(r, run)'
<1> SUFFICES ASSUME run.pc # "idle" PROVE SoundRun(r, run)'
  BY DEF SoundRun
<1> DEFINE s == SequenceOf(r)
<1>1. s' = s /\ s \in Sequence /\ 0 \in Sequence
  BY DEF SequenceOf, Sequence
<1> HIDE DEF s
<1>2. /\ s = 1 => records[0].state = "CONFIRMED"
      /\ run.pc # "admitted" => intents[s].state # "MISSING" /\ intents[s].request = {job[r].request}
      /\ run.pc \notin {"admitted", "stale", "reissue", "done"} => run.n \in DOMAIN issuances[s]
      /\ run.pc \in {"collect", "prepare", "read"} => s = 0
      /\ run.pc \notin {"prepare", "read", "effects"} => run.under = {}
      /\ run.pc \in {"prepare", "read"} =>
           \A x \in run.under : x \in Reads /\ issuances[0][run.n].slots[x].state # "PREPARED"
      /\ run.pc = "effects" =>
           \A x \in run.under : x \in EffectSlots(s) /\ Call(s, run.n, x, run.committed) \in calls
      /\ run.pc \in {"worm", "mirror"} => records[s].state # "MISSING" /\ records[s].ordinal = run.n
      /\ run.pc = "done" => records[s].state = "CONFIRMED"
  BY DEF SoundRun, s
<1>3. s = 1 => records'[0].state = "CONFIRMED"
  BY <1>1, <1>2 DEF Onward
<1>4. run.pc # "admitted" => intents'[s].state # "MISSING" /\ intents'[s].request = {job[r].request}
  BY <1>1, <1>2 DEF Onward
<1>5. run.pc \notin {"admitted", "stale", "reissue", "done"} => run.n \in DOMAIN issuances'[s]
  BY <1>1, <1>2 DEF Onward
<1>6. ASSUME run.pc \in {"prepare", "read"}, NEW x \in run.under
      PROVE  x \in Reads /\ issuances'[0][run.n].slots[x].state # "PREPARED"
  <2>1. /\ x \in Reads /\ x \in Roster(0) /\ run.n \in DOMAIN issuances[0]
        /\ issuances[0][run.n].slots[x].state # "PREPARED"
    BY <1>2, <1>6 DEF Reads
  <2>2. QED
    BY <1>1, <2>1 DEF Onward
<1>7. run.pc \in {"worm", "mirror"} => records'[s].state # "MISSING" /\ records'[s].ordinal = run.n
  BY <1>1, <1>2 DEF Onward, EvidenceIsKept
<1>8. run.pc = "done" => records'[s].state = "CONFIRMED"
  BY <1>1, <1>2 DEF Onward
<1>9. QED
  BY <1>1, <1>2, <1>3, <1>4, <1>5, <1>6, <1>7, <1>8 DEF SoundRun, s

\* The run that a step makes, and those it leaves alone.
LEMMA BecomesRun ==
  ASSUME RunnerBounds, NEW r \in Runs, NEW run, Becomes(r, run)
  PROVE  /\ runs'[r] = run /\ job' = job
         /\ \A z \in Runs \ {r} : runs'[z] = runs[z]
BY DEF RunnerBounds, RunnerTypeOK, Becomes

\* What a step of one run has to keep, besides what every step of the journal keeps.
Keeps(r) == Onward /\ RunSound(r)' /\ PlanSound' /\ CallsSound'

\* The journal's own invariant is kept by its own steps.
LEMMA JournalKept ==
  ASSUME RunnerInv, NEW r, Steps(r)
  PROVE  JournalInv' /\ EvidenceIsKept
BY JournalStep DEF RunnerInv, Steps

\* A journal that seals nothing keeps plans and calls sound.
LEMMA QuietKeeps ==
  ASSUME RunnerInv, JournalInv', EvidenceIsKept, Onward, Quiet, calls' = calls
  PROVE  PlanSound' /\ CallsSound'
BY PlansStay, CallsStay DEF RunnerInv

\* A run that a step ends or leaves where the journal knows it.
LEMMA FailsSound ==
  ASSUME RunnerBounds, NEW r \in Runs, Fails(r)
  PROVE  RunSound(r)'
<1>1. runs'[r] = IdleRun
  BY BecomesRun DEF Fails
<1>2. runs'[r].pc = "idle"
  BY <1>1 DEF IdleRun
<1>3. QED
  BY <1>2 DEF RunSound, SoundRun

\* A run that becomes what the journal knows.
LEMMA BecomesSound ==
  ASSUME RunnerBounds, NEW r \in Runs, NEW run, Becomes(r, run), SoundRun(r, run)'
  PROVE  RunSound(r)'
<1>1. runs'[r] = run
  BY BecomesRun
<1>2. QED
  BY <1>1 DEF RunSound, SoundRun

\* The same, when only the run and the calls change.
LEMMA StillSound ==
  ASSUME RunnerInv, NEW r \in Runs, NEW run, Becomes(r, run), SoundRun(r, run),
         r \in DOMAIN job, Onward, EvidenceIsKept, calls \subseteq calls'
  PROVE  RunSound(r)'
<1>1. RunnerBounds /\ SequenceOf(r) \in Sequence
  BY RunIsTyped DEF RunnerInv
<1>2. job' = job
  BY <1>1, BecomesRun
<1>3. SoundRun(r, run)'
  BY <1>1, <1>2, RunStays
<1>4. QED
  BY <1>1, <1>3, BecomesSound

\* What is known of a run that is under way.
LEMMA UnderWay ==
  ASSUME RunnerInv, NEW r \in Runs, runs[r].pc # "idle"
  PROVE  LET s == SequenceOf(r)
             run == runs[r] IN
         /\ run \in Run /\ r \in DOMAIN job /\ s \in Sequence
         /\ s = 1 => records[0].state = "CONFIRMED"
         /\ run.pc # "admitted" =>
              /\ intents[s].state # "MISSING" /\ intents[s].request = {job[r].request}
              /\ Len(issuances[s]) \in DOMAIN issuances[s]
         /\ run.pc \notin {"admitted", "stale", "reissue", "done"} => run.n \in DOMAIN issuances[s]
         /\ run.pc \in {"collect", "prepare", "read"} => s = 0
         /\ run.pc \notin {"prepare", "read", "effects"} => run.under = {}
         /\ run.pc \in {"prepare", "read"} =>
              \A x \in run.under : x \in Reads /\ issuances[0][run.n].slots[x].state # "PREPARED"
         /\ run.pc = "effects" =>
              \A x \in run.under : x \in EffectSlots(s) /\ Call(s, run.n, x, run.committed) \in calls
         /\ run.pc \in {"worm", "mirror"} => records[s].state # "MISSING" /\ records[s].ordinal = run.n
<1> DEFINE s == SequenceOf(r)
<1>1. RunnerBounds /\ SoundRun(r, runs[r])
  BY DEF RunnerInv, RunSound
<1>2. runs[r] \in Run /\ r \in DOMAIN job /\ s \in Sequence
  BY <1>1, RunIsTyped
<1>3. intents[s].state # "MISSING" => Len(issuances[s]) \in DOMAIN issuances[s]
  <2>1. issuances[s] \in Seq(Issuance(s)) /\ (intents[s].state # "MISSING" => issuances[s] # <<>>)
    BY <1>2 DEF RunnerInv, JournalInv, JournalTypeOK, TablesAgree, StatesAgree
  <2>2. QED
    BY <2>1, EmptySeq, LenProperties
<1>4. QED
  BY <1>1, <1>2, <1>3 DEF SoundRun

\* Admitted.
LEMMA AdmitKeeps ==
  ASSUME RunnerInv, NEW r \in Runs, Admit(r)
  PROVE  Steps(r) /\ Keeps(r)
<1>1. RunnerBounds /\ JournalReady
  BY RunnerInvReady
<1>2. Steps(r)
  BY <1>1, AdmitSteps
<1>3. JournalInv' /\ EvidenceIsKept
  BY <1>2, JournalKept
<1>4. Onward /\ Quiet /\ calls' = calls
  BY <1>1, StandsStill DEF Admit, externalVars
<1>5. PICK run : run = [IdleRun EXCEPT !.pc = "admitted", !.at = now] /\ Becomes(r, run)
  BY DEF Admit
<1>6. run.pc = "admitted" /\ run.under = {}
  BY <1>5 DEF IdleRun
<1>7. r \in DOMAIN job /\ SoundRun(r, run)
  BY <1>6 DEF SoundRun, Admit, Admissible
<1>8. RunSound(r)'
  BY <1>3, <1>4, <1>5, <1>7, StillSound
<1>9. QED
  BY <1>2, <1>3, <1>4, <1>8, QuietKeeps DEF Keeps

\* A run that goes on with an issuance.
LEMMA EnteredSound ==
  ASSUME RunnerBounds, NEW r \in Runs, NEW n \in Nat, NEW state,
         SequenceOf(r) \in Sequence, runs[r].under = {},
         SequenceOf(r) = 1 => records'[0].state = "CONFIRMED",
         intents'[SequenceOf(r)].state # "MISSING",
         intents'[SequenceOf(r)].request = {job[r].request},
         n \in DOMAIN issuances'[SequenceOf(r)],
         Becomes(r, Entered(r, n, state))
  PROVE  RunSound(r)'
<1>1. PICK run : run = Entered(r, n, state) /\ Becomes(r, run)
  OBVIOUS
<1>2. runs[r] \in Run
  BY RunIsTyped
<1>3. /\ run.n = n /\ run.under = {}
      /\ run.pc \in {"append", "collect", "request"}
      /\ run.pc = "collect" => SequenceOf(r) = 0
  BY <1>1, <1>2 DEF Entered, Run
<1>4. job' = job /\ SequenceOf(r)' = SequenceOf(r)
  BY <1>1, BecomesRun DEF SequenceOf
<1>5. SoundRun(r, run)'
  BY <1>3, <1>4 DEF SoundRun
<1>6. QED
  BY <1>1, <1>5, BecomesSound

\* The issuance is reserved, or joined.
LEMMA ReservesKeeps ==
  ASSUME RunnerInv, NEW r \in Runs, Reserves(r)
  PROVE  Steps(r) /\ Keeps(r)
<1> DEFINE s == SequenceOf(r)
<1>1. RunnerBounds /\ JournalReady /\ JournalInv
  BY RunnerInvReady DEF RunnerInv
<1>2. Steps(r)
  BY <1>1, ReservesSteps
<1>3. JournalInv' /\ EvidenceIsKept /\ calls' = calls
  BY <1>2, JournalKept DEF Reserves, externalVars
<1>4. runs[r].pc = "admitted"
  BY DEF Reserves, At
<1>5. /\ runs[r] \in Run /\ s \in Sequence /\ r \in DOMAIN job /\ runs[r].under = {}
      /\ s = 1 => records[0].state = "CONFIRMED"
  BY <1>4, UnderWay
<1>6. CASE Reserve(s, job[r].request, runs[r].at) /\ Becomes(r, Entered(r, 1, "RESERVED"))
  <2>1. /\ Onward /\ Quiet /\ 1 \in DOMAIN issuances'[s]
        /\ intents'[s] = [state |-> "OPEN", request |-> {job[r].request}]
    BY <1>1, <1>5, <1>6, ReserveMoves
  <2>2. /\ s = 1 => records'[0].state = "CONFIRMED"
        /\ intents'[s].state # "MISSING" /\ intents'[s].request = {job[r].request}
    BY <1>5, <2>1 DEF Onward, Sequence
  <2>3. RunSound(r)'
    BY <1>1, <1>5, <1>6, <2>1, <2>2, EnteredSound
  <2>4. QED
    BY <1>2, <1>3, <2>1, <2>3, QuietKeeps DEF Keeps
<1>7. CASE /\ UNCHANGED journalVars
           /\ \/ /\ SameIntent(s, job[r].request)
                 /\ Becomes(r, IF MustReissue(r, Latest(s)) THEN [runs[r] EXCEPT !.pc = "stale"]
                               ELSE Entered(r, Len(issuances[s]), Latest(s).state))
              \/ Fails(r)
  <2>1. Onward /\ Quiet
    BY <1>1, <1>7, StandsStill
  <2>2. CASE /\ SameIntent(s, job[r].request)
             /\ Becomes(r, IF MustReissue(r, Latest(s)) THEN [runs[r] EXCEPT !.pc = "stale"]
                           ELSE Entered(r, Len(issuances[s]), Latest(s).state))
    <3>1. intents[s].state # "MISSING" /\ intents[s].request = {job[r].request}
      <4>1. intents[s].state = "MISSING" => intents[s].request # {job[r].request}
        BY <1>5 DEF RunnerInv, NotAsked
      <4>2. QED
        BY <2>2, <4>1 DEF SameIntent
    <3>2. s = 1 => records'[0].state = "CONFIRMED"
      BY <1>5, <1>7 DEF journalVars
    <3>3. CASE Becomes(r, Entered(r, Len(issuances[s]), Latest(s).state))
      <4>1. Len(issuances[s]) \in DOMAIN issuances[s] /\ Len(issuances[s]) \in Nat
        <5>1. issuances[s] \in Seq(Issuance(s)) /\ issuances[s] # <<>>
          BY <1>1, <1>5, <3>1 DEF JournalInv, JournalTypeOK, TablesAgree, StatesAgree
        <5>2. QED
          BY <5>1, EmptySeq, LenProperties
      <4>2. RunSound(r)'
        BY <1>1, <1>5, <1>7, <3>1, <3>2, <3>3, <4>1, EnteredSound DEF journalVars
      <4>3. QED
        BY <1>2, <1>3, <2>1, <4>2, QuietKeeps DEF Keeps
    <3>4. CASE Becomes(r, [runs[r] EXCEPT !.pc = "stale"])
      <4>1. PICK run : run = [runs[r] EXCEPT !.pc = "stale"] /\ Becomes(r, run)
        BY <3>4
      <4>2. run.pc = "stale" /\ run.under = {}
        BY <1>5, <4>1 DEF Run
      <4>3. SoundRun(r, run)
        BY <1>5, <3>1, <4>2 DEF SoundRun
      <4>4. RunSound(r)'
        BY <1>3, <1>5, <2>1, <4>1, <4>3, StillSound
      <4>5. QED
        BY <1>2, <1>3, <2>1, <4>4, QuietKeeps DEF Keeps
    <3>5. QED
      BY <2>2, <3>3, <3>4
  <2>3. CASE Fails(r)
    BY <1>1, <1>2, <1>3, <2>1, <2>3, FailsSound, QuietKeeps DEF Keeps
  <2>4. QED
    BY <1>7, <2>2, <2>3
<1>8. QED
  BY <1>6, <1>7 DEF Reserves

\* A step that seals, confirms and calls nothing.
LEMMA QuietMoveKeeps ==
  ASSUME RunnerInv, NEW r \in Runs, Steps(r), Onward, Quiet, calls' = calls, RunSound(r)'
  PROVE  Keeps(r)
BY JournalKept, QuietKeeps DEF Keeps

\* A run that fails while the journal moves quietly, or goes on while it stands still.
LEMMA QuietFailKeeps ==
  ASSUME RunnerInv, NEW r \in Runs, Steps(r), Onward, Quiet, calls' = calls, Fails(r)
  PROVE  Keeps(r)
BY RunnerInvReady, FailsSound, QuietMoveKeeps

\* A run that goes on while the journal moves quietly.
LEMMA QuietRunKeeps ==
  ASSUME RunnerInv, NEW r \in Runs, Steps(r), Onward, Quiet, calls' = calls,
         r \in DOMAIN job, NEW run, Becomes(r, run), SoundRun(r, run)
  PROVE  Keeps(r)
BY JournalKept, StillSound, QuietMoveKeeps

\* The issuance is found overdue.
LEMMA FindsStaleKeeps ==
  ASSUME RunnerInv, NEW r \in Runs, FindsStale(r)
  PROVE  Steps(r) /\ Keeps(r)
<1> DEFINE s == SequenceOf(r)
<1>1. RunnerBounds /\ JournalReady /\ JournalInv
  BY RunnerInvReady DEF RunnerInv
<1>2. Steps(r)
  BY <1>1, FindsStaleSteps
<1>3. runs[r].pc = "stale" /\ UNCHANGED journalVars /\ calls' = calls
  BY DEF FindsStale, At, externalVars
<1>4. Onward /\ Quiet
  BY <1>1, <1>3, StandsStill
<1>5. CASE Fails(r)
  BY <1>2, <1>3, <1>4, <1>5, QuietFailKeeps
<1>6. CASE Becomes(r, [runs[r] EXCEPT !.pc = "reissue", !.n = Len(issuances[s])])
  <2>1. PICK run : /\ run = [runs[r] EXCEPT !.pc = "reissue", !.n = Len(issuances[s])]
                   /\ Becomes(r, run)
    BY <1>6
  <2>2. /\ runs[r] \in Run /\ r \in DOMAIN job /\ runs[r].under = {}
        /\ s = 1 => records[0].state = "CONFIRMED"
        /\ intents[s].state # "MISSING" /\ intents[s].request = {job[r].request}
    BY <1>3, UnderWay
  <2>3. run.pc = "reissue" /\ run.under = {}
    BY <2>1, <2>2 DEF Run
  <2>4. SoundRun(r, run)
    BY <2>2, <2>3 DEF SoundRun
  <2>5. QED
    BY <1>2, <1>3, <1>4, <2>1, <2>2, <2>4, QuietRunKeeps
<1>7. QED
  BY <1>2, <1>5, <1>6 DEF FindsStale

\* It is replaced, or another run has done so.
LEMMA ReissuesKeeps ==
  ASSUME RunnerInv, NEW r \in Runs, Reissues(r)
  PROVE  Steps(r) /\ Keeps(r)
<1> DEFINE s == SequenceOf(r)
           n == runs[r].n
<1>1. RunnerBounds /\ JournalReady /\ JournalInv
  BY RunnerInvReady DEF RunnerInv
<1>2. Steps(r)
  BY <1>1, ReissuesSteps
<1>3. runs[r].pc = "reissue" /\ calls' = calls
  BY DEF Reissues, At, externalVars
<1>4. /\ runs[r] \in Run /\ r \in DOMAIN job /\ runs[r].under = {} /\ s \in Sequence
      /\ s = 1 => records[0].state = "CONFIRMED"
      /\ intents[s].state # "MISSING" /\ intents[s].request = {job[r].request}
      /\ Len(issuances[s]) \in DOMAIN issuances[s]
  BY <1>3, UnderWay
<1>5. n \in Nat /\ Len(issuances[s]) \in Nat
  BY <1>1, <1>4, LenProperties DEF Run, JournalInv, JournalTypeOK
<1>6. CASE /\ Becomes(r, Entered(r, Len(issuances[s]), Latest(s).state)) /\ UNCHANGED journalVars
  <2>1. Onward /\ Quiet
    BY <1>1, <1>6, StandsStill
  <2>2. RunSound(r)'
    BY <1>1, <1>4, <1>5, <1>6, EnteredSound DEF journalVars
  <2>3. QED
    BY <1>2, <1>3, <2>1, <2>2, QuietMoveKeeps
<1>7. CASE ReissueStale(s, n, runs[r].at) /\ Becomes(r, Entered(r, n + 1, "RESERVED"))
  <2>1. Onward /\ Quiet /\ n + 1 \in DOMAIN issuances'[s]
    BY <1>1, <1>4, <1>7, ReissueMoves
  <2>2. /\ intents'[s].state # "MISSING" /\ intents'[s].request = {job[r].request}
        /\ s = 1 => records'[0].state = "CONFIRMED"
        /\ n + 1 \in Nat
    BY <1>4, <1>5, <2>1 DEF Onward, Sequence
  <2>3. RunSound(r)'
    BY <1>1, <1>4, <1>7, <2>1, <2>2, EnteredSound
  <2>4. QED
    BY <1>2, <1>3, <2>1, <2>3, QuietMoveKeeps
<1>8. CASE Fails(r) /\ UNCHANGED journalVars
  BY <1>1, <1>2, <1>3, <1>8, StandsStill, QuietFailKeeps
<1>9. QED
  BY <1>2, <1>6, <1>7, <1>8 DEF Reissues

\* The reads to make are collected.
LEMMA CollectsKeeps ==
  ASSUME RunnerInv, NEW r \in Runs, Collects(r)
  PROVE  Steps(r) /\ Keeps(r)
<1> DEFINE s == SequenceOf(r)
<1>1. RunnerBounds /\ JournalReady /\ JournalInv
  BY RunnerInvReady DEF RunnerInv
<1>2. Steps(r)
  BY <1>1, CollectsSteps
<1>3. runs[r].pc = "collect" /\ UNCHANGED journalVars /\ calls' = calls
  BY DEF Collects, At, externalVars
<1>4. /\ runs[r] \in Run /\ r \in DOMAIN job /\ runs[r].under = {} /\ s = 0
      /\ intents[s].state # "MISSING" /\ intents[s].request = {job[r].request}
      /\ runs[r].n \in DOMAIN issuances[s]
  BY <1>3, UnderWay
<1>5. PICK run, unread, pc :
        /\ run = [runs[r] EXCEPT !.pc = pc, !.todo = unread] /\ Becomes(r, run)
        /\ pc \in {"request", "prepare"}
  BY DEF Collects
<1>6. run.pc \in {"request", "prepare"} /\ run.under = {} /\ run.n = runs[r].n
  BY <1>4, <1>5 DEF Run
<1>7. SoundRun(r, run)
  BY <1>4, <1>6 DEF SoundRun
<1>8. QED
  BY <1>1, <1>2, <1>3, <1>4, <1>5, <1>7, StandsStill, QuietRunKeeps

\* A slot of the run's issuance that is prepared joins those to be read.
LEMMA PreparedSound ==
  ASSUME RunnerInv, NEW r \in Runs, NEW x, NEW reads \in SUBSET Reads,
         runs[r].pc = "prepare", Becomes(r, Prepared(r, x, reads)),
         Onward, EvidenceIsKept, calls' = calls,
         \A y \in reads : issuances'[0][runs[r].n].slots[y].state # "PREPARED"
  PROVE  RunSound(r)'
<1> DEFINE mid == [runs[r] EXCEPT !.todo = @ \ {x}, !.under = @ \cup reads]
<1>1. /\ runs[r] \in Run /\ r \in DOMAIN job /\ SequenceOf(r) = 0 /\ SequenceOf(r) \in Sequence
      /\ runs[r].n \in DOMAIN issuances[0] /\ RunnerBounds
  BY UnderWay, RunnerInvReady
<1>2. /\ mid.n = runs[r].n /\ mid.pc = "prepare" /\ mid.under = runs[r].under \cup reads
  BY <1>1 DEF Run
<1>3. PICK run : run = Prepared(r, x, reads) /\ Becomes(r, run)
  OBVIOUS
<1>4. \/ run = mid
      \/ run = [mid EXCEPT !.pc = "request"] /\ mid.under = {}
      \/ run = [mid EXCEPT !.pc = "read", !.since = now]
  BY <1>3 DEF Prepared
<1>5. mid \in Run
  <2>1. reads \subseteq Roster(0)
    BY DEF Reads
  <2>2. QED
    BY <1>1, <2>1 DEF Run
<1> HIDE DEF mid
<1>6. /\ run.n = runs[r].n
      /\ run.under \subseteq runs[r].under \cup reads
      /\ run.pc \in {"prepare", "read"} \/ (run.pc = "request" /\ run.under = {})
  BY <1>2, <1>4, <1>5 DEF Run
<1>7. job' = job /\ SequenceOf(r)' = 0
  BY <1>1, <1>3, BecomesRun DEF SequenceOf
<1>8. SoundRun(r, runs[r])
  BY DEF RunnerInv, RunSound
<1>9. /\ intents'[0].state # "MISSING" /\ intents'[0].request = {job[r].request}
      /\ run.n \in DOMAIN issuances'[0]
  BY <1>1, <1>6, <1>8 DEF SoundRun, Onward
<1>10. \A y \in run.under : y \in Reads /\ issuances'[0][run.n].slots[y].state # "PREPARED"
  <2>1. ASSUME NEW y \in runs[r].under
        PROVE  y \in Reads /\ issuances'[0][run.n].slots[y].state # "PREPARED"
    <3>1. y \in Reads /\ issuances[0][run.n].slots[y].state # "PREPARED"
      BY <1>6, <1>8, <2>1 DEF SoundRun
    <3>2. QED
      BY <1>1, <1>6, <3>1 DEF Onward, Reads
  <2>2. QED
    BY <1>6, <2>1
<1>11. SoundRun(r, run)'
  BY <1>6, <1>7, <1>9, <1>10, SMTT(40) DEF SoundRun
<1>12. QED
  BY <1>1, <1>3, <1>11, BecomesSound

\* A read is prepared.
LEMMA PreparesKeeps ==
  ASSUME RunnerInv, NEW r \in Runs, NEW x \in Reads, Prepares(r, x)
  PROVE  Steps(r) /\ Keeps(r)
<1> DEFINE n == runs[r].n
<1>1. RunnerBounds /\ JournalReady /\ JournalInv /\ 0 \in Sequence
  BY RunnerInvReady DEF RunnerInv, Sequence
<1>2. Steps(r)
  BY <1>1, PreparesSteps
<1>3. runs[r].pc = "prepare" /\ calls' = calls
  BY DEF Prepares, At, externalVars
<1>4. JournalInv' /\ EvidenceIsKept
  BY <1>2, JournalKept
<1>5. CASE PrepareRead(0, n, x) /\ Becomes(r, Prepared(r, x, {x}))
  <2>1. Onward /\ Quiet /\ issuances'[0][n].slots[x].state # "PREPARED"
    BY <1>1, <1>5, PrepareReadMoves
  <2>2. {x} \in SUBSET Reads
    OBVIOUS
  <2>3. RunSound(r)'
    BY <1>3, <1>4, <1>5, <2>1, <2>2, PreparedSound
  <2>4. QED
    BY <1>2, <1>3, <2>1, <2>3, QuietMoveKeeps
<1>6. CASE /\ UNCHANGED journalVars
           /\ Becomes(r, Prepared(r, x, IF IssuanceOf(r).slots[x].state = "READ_IN_FLIGHT" THEN {x} ELSE {}))
  <2>1. Onward /\ Quiet
    BY <1>1, <1>6, StandsStill
  <2>2. SequenceOf(r) = 0
    BY <1>3, UnderWay
  <2>3. PICK reads : /\ Becomes(r, Prepared(r, x, reads)) /\ reads \in SUBSET Reads
                     /\ \A y \in reads : issuances[0][n].slots[y].state = "READ_IN_FLIGHT"
    <3>1. CASE IssuanceOf(r).slots[x].state = "READ_IN_FLIGHT"
      <4>1. Becomes(r, Prepared(r, x, {x})) /\ {x} \in SUBSET Reads
        BY <1>6, <3>1
      <4>2. issuances[0][n].slots[x].state = "READ_IN_FLIGHT"
        BY <2>2, <3>1 DEF IssuanceOf
      <4>3. QED
        BY <4>1, <4>2
    <3>2. CASE IssuanceOf(r).slots[x].state # "READ_IN_FLIGHT"
      <4>1. Becomes(r, Prepared(r, x, {})) /\ {} \in SUBSET Reads
        BY <1>6, <3>2
      <4>2. QED
        BY <4>1
    <3>3. QED
      BY <3>1, <3>2
  <2>4. RunSound(r)'
    BY <1>3, <1>4, <1>6, <2>1, <2>3, PreparedSound DEF journalVars
  <2>5. QED
    BY <1>2, <1>3, <2>1, <2>4, QuietMoveKeeps
<1>7. CASE ReadExpires(0, n, now) /\ Fails(r)
  <2>1. Onward /\ Quiet
    BY <1>1, <1>7, ExpiredMoves DEF ReadExpires, Live
  <2>2. QED
    BY <1>2, <1>3, <1>7, <2>1, QuietFailKeeps
<1>8. CASE Fails(r) /\ UNCHANGED journalVars
  BY <1>1, <1>2, <1>3, <1>8, StandsStill, QuietFailKeeps
<1>9. QED
  BY <1>2, <1>5, <1>6, <1>7, <1>8 DEF Prepares

\* One call fewer is under way: of the same run, of none, or of one that has no other.
LEMMA LessSound ==
  ASSUME NEW r, NEW old, NEW run, SoundRun(r, old), old.pc \in {"read", "effects"},
         \/ run.pc = "idle"
         \/ /\ run.pc = old.pc /\ run.n = old.n /\ run.committed = old.committed
            /\ run.under \subseteq old.under
         \/ run.pc \in {"request", "ready"} /\ run.n = old.n /\ run.under = {}
  PROVE  SoundRun(r, run)
<1>1. CASE run.pc = "idle"
  BY <1>1 DEF SoundRun
<1>2. CASE /\ run.pc = old.pc /\ run.n = old.n /\ run.committed = old.committed
           /\ run.under \subseteq old.under
  BY <1>2 DEF SoundRun
<1>3. CASE run.pc \in {"request", "ready"} /\ run.n = old.n /\ run.under = {}
  BY <1>3 DEF SoundRun
<1>4. QED
  BY <1>1, <1>2, <1>3

\* A run that a call came back to.
LEMMA SettledSound ==
  ASSUME RunnerInv, NEW r \in Runs, NEW x, NEW failed \in BOOLEAN, NEW next \in {"request", "ready"},
         runs[r].pc \in {"read", "effects"}, Becomes(r, Settled(r, x, failed, next)),
         Onward, EvidenceIsKept, calls' = calls
  PROVE  RunSound(r)'
<1> DEFINE mid == [runs[r] EXCEPT !.under = @ \ {x}, !.failed = @ \/ failed]
<1>1. runs[r] \in Run /\ r \in DOMAIN job
  BY UnderWay
<1>2. /\ mid \in Run /\ mid.n = runs[r].n /\ mid.pc = runs[r].pc
      /\ mid.under = runs[r].under \ {x} /\ mid.committed = runs[r].committed
  BY <1>1 DEF Run
<1>3. PICK run : run = Settled(r, x, failed, next) /\ Becomes(r, run)
  OBVIOUS
<1>4. \/ run = mid
      \/ run = IdleRun
      \/ run = [mid EXCEPT !.pc = next, !.since = 0] /\ mid.under = {}
  BY <1>3 DEF Settled
<1> HIDE DEF mid
<1>5. SoundRun(r, runs[r])
  BY DEF RunnerInv, RunSound
<1>6. \/ run.pc = "idle"
      \/ /\ run.pc = runs[r].pc /\ run.n = runs[r].n /\ run.committed = runs[r].committed
         /\ run.under \subseteq runs[r].under
      \/ run.pc \in {"request", "ready"} /\ run.n = runs[r].n /\ run.under = {}
  <2>1. CASE run = mid
    BY <1>2, <2>1
  <2>2. CASE run = IdleRun
    BY <2>2 DEF IdleRun
  <2>3. CASE run = [mid EXCEPT !.pc = next, !.since = 0] /\ mid.under = {}
    BY <1>2, <2>3 DEF Run
  <2>4. QED
    BY <1>4, <2>1, <2>2, <2>3
<1>7. SoundRun(r, run)
  BY <1>5, <1>6, LessSound
<1>8. QED
  BY <1>1, <1>3, <1>7, StillSound

\* A read answers.
LEMMA ReadAnswersKeeps ==
  ASSUME RunnerInv, NEW r \in Runs, NEW x \in Reads, ReadAnswers(r, x)
  PROVE  Steps(r) /\ Keeps(r)
<1> DEFINE n == runs[r].n
<1>1. RunnerBounds /\ JournalReady /\ JournalInv /\ 0 \in Sequence
  BY RunnerInvReady DEF RunnerInv, Sequence
<1>2. Steps(r)
  BY <1>1, ReadAnswersSteps
<1>3. runs[r].pc = "read" /\ calls' = calls
  BY DEF ReadAnswers, At, externalVars
<1>4. JournalInv' /\ EvidenceIsKept
  BY <1>2, JournalKept
<1>5. PICK failed \in BOOLEAN : Becomes(r, Settled(r, x, failed, "request"))
  BY DEF ReadAnswers
<1>6. \/ \E t : FreezeRead(0, n, x, t)
      \/ \E t : ReadExpires(0, n, t)
      \/ UNCHANGED journalVars
  BY DEF ReadAnswers
<1>7. Onward /\ Quiet
  <2>1. CASE \E t : FreezeRead(0, n, x, t)
    BY <1>1, <2>1, FreezeReadMoves
  <2>2. CASE \E t : ReadExpires(0, n, t)
    BY <1>1, <2>2, ExpiredMoves DEF ReadExpires, Live
  <2>3. CASE UNCHANGED journalVars
    BY <1>1, <2>3, StandsStill
  <2>4. QED
    BY <1>6, <2>1, <2>2, <2>3
<1>8. RunSound(r)'
  BY <1>3, <1>4, <1>5, <1>7, SettledSound
<1>9. QED
  BY <1>2, <1>3, <1>7, <1>8, QuietMoveKeeps

\* The request is built.
LEMMA BuildsRequestKeeps ==
  ASSUME RunnerInv, NEW r \in Runs, BuildsRequest(r)
  PROVE  Steps(r) /\ Keeps(r)
<1>1. RunnerBounds /\ JournalReady /\ JournalInv
  BY RunnerInvReady DEF RunnerInv
<1>2. runs[r].pc = "request" /\ UNCHANGED journalVars /\ calls' = calls
  BY DEF BuildsRequest, At, externalVars
<1>3. runs[r] \in Run /\ r \in DOMAIN job /\ runs[r].n \in DOMAIN issuances[SequenceOf(r)]
      /\ runs[r].under = {}
  BY <1>2, UnderWay
<1>4. Steps(r)
  BY <1>1, <1>3, BuildsRequestSteps
<1>5. Onward /\ Quiet
  BY <1>1, <1>2, StandsStill
<1>6. CASE Fails(r)
  BY <1>2, <1>4, <1>5, <1>6, QuietFailKeeps
<1>7. CASE \E c : Becomes(r, [runs[r] EXCEPT !.pc = "delegate", !.committed = c])
  <2>1. PICK run, c : run = [runs[r] EXCEPT !.pc = "delegate", !.committed = c] /\ Becomes(r, run)
    BY <1>7
  <2>2. run.pc = "delegate" /\ run.n = runs[r].n /\ run.under = {}
    BY <1>3, <2>1 DEF Run
  <2>3. SoundRun(r, runs[r])
    BY DEF RunnerInv, RunSound
  <2>4. SoundRun(r, run)
    BY <1>2, <1>3, <2>2, <2>3 DEF SoundRun
  <2>5. QED
    BY <1>2, <1>3, <1>4, <1>5, <2>1, <2>4, QuietRunKeeps
<1>8. QED
  BY <1>4, <1>6, <1>7 DEF BuildsRequest

-----------------------------------------------------------------------------
(* Effects are sealed, called for and confirmed.                           *)

\* The effects of a sealed plan are called for by its request.
LEMMA LaunchesSound ==
  ASSUME RunnerInv, NEW r \in Runs, runs[r].pc = "delegate", Launches(r),
         JournalInv', EvidenceIsKept, Onward,
         \A x \in EffectSlots(SequenceOf(r)) :
           /\ InEffect(issuances'[SequenceOf(r)][runs[r].n].slots[x])
           /\ issuances'[SequenceOf(r)][runs[r].n].slots[x].committed = {runs[r].committed}
  PROVE  RunSound(r)' /\ CallsSound' /\ calls \subseteq calls'
<1> DEFINE s == SequenceOf(r)
           n == runs[r].n
           c == runs[r].committed
           open == {x \in EffectSlots(s) : IssuanceOf(r).slots[x].state # "CONFIRMED"}
<1>1. /\ runs[r] \in Run /\ r \in DOMAIN job /\ s \in Sequence /\ n \in DOMAIN issuances[s]
      /\ RunnerBounds /\ JournalInv
  BY UnderWay, RunnerInvReady DEF RunnerInv
<1>2. calls' = calls \cup {Call(s, n, x, c) : x \in open} /\ open \subseteq EffectSlots(s)
  BY DEF Launches
<1>3. PICK run : /\ run = [runs[r] EXCEPT !.pc = IF open = {} THEN "ready" ELSE "effects",
                                          !.under = open]
                 /\ Becomes(r, run)
  BY DEF Launches
<1> HIDE DEF open
<1>4. /\ run.n = n /\ run.committed = c /\ run.under = open
      /\ run.pc = "effects" \/ (run.pc = "ready" /\ open = {})
  BY <1>1, <1>3 DEF Run
<1>5. n \in DOMAIN issuances'[s]
  BY <1>1 DEF Onward
<1>6. CallsSound'
  <2>1. PICK z, k, b : z = s /\ k = n /\ b = c
    OBVIOUS
  <2>2. ASSUME NEW x \in open PROVE CallSound(z, k, x, b)'
    BY <1>1, <1>2, <1>5, <2>1, <2>2 DEF CallSound
  <2>3. ASSUME NEW x PROVE /\ Call(z, k, x, b).sequence = z /\ Call(z, k, x, b).ordinal = k
                           /\ Call(z, k, x, b).slot = x /\ Call(z, k, x, b).committed = b
    BY DEF Call
  <2>4. ASSUME NEW call \in calls'
        PROVE  /\ call = Call(call.sequence, call.ordinal, call.slot, call.committed)
               /\ CallSound(call.sequence, call.ordinal, call.slot, call.committed)'
    <3>1. CASE call \in calls
      BY <3>1, <1>1, CallStays DEF RunnerInv, CallsSound
    <3>2. ASSUME NEW x \in open, call = Call(z, k, x, b)
          PROVE  /\ call = Call(call.sequence, call.ordinal, call.slot, call.committed)
                 /\ CallSound(call.sequence, call.ordinal, call.slot, call.committed)'
      BY <3>2, <2>2, <2>3
    <3>3. QED
      BY <1>2, <2>1, <3>1, <3>2
  <2>5. QED
    BY <2>4 DEF CallsSound
<1>7. RunSound(r)'
  <2>1. SoundRun(r, runs[r])
    BY DEF RunnerInv, RunSound
  <2>2. job' = job /\ SequenceOf(r)' = s
    BY <1>1, <1>3, BecomesRun DEF SequenceOf
  <2>3. \A x \in run.under : x \in EffectSlots(s) /\ Call(s, run.n, x, run.committed) \in calls'
    BY <1>2, <1>4
  <2>4. /\ s = 1 => records'[0].state = "CONFIRMED"
        /\ intents'[s].state # "MISSING" /\ intents'[s].request = {job[r].request}
    BY <1>1, <2>1 DEF SoundRun, Onward, Sequence
  <2>5. SoundRun(r, run)'
    BY <1>4, <1>5, <2>2, <2>3, <2>4 DEF SoundRun
  <2>6. QED
    BY <1>1, <1>3, <2>5, BecomesSound
<1>8. QED
  BY <1>2, <1>6, <1>7

\* One issuance's effects change together.
LEMMA PlansMove ==
  ASSUME PlanSound, calls \subseteq calls', NEW s \in Sequence, NEW n, QuietBut(s, n),
         \A z \in Sequence : DOMAIN issuances'[z] = DOMAIN issuances[z],
         \E c \in Times : SealedBy(s, n, c)'
  PROVE  PlanSound'
<1> SUFFICES ASSUME NEW z \in Sequence, NEW k \in DOMAIN issuances[z]
             PROVE  Unsealed(z, k)' \/ \E c \in Times : SealedBy(z, k, c)'
  BY DEF PlanSound
<1>1. CASE z = s /\ k = n
  BY <1>1
<1>2. CASE ~(z = s /\ k = n)
  <2>1. \A x \in EffectSlots(z) : SameEffect(issuances[z][k].slots[x], issuances'[z][k].slots[x])
    BY <1>2 DEF QuietBut
  <2>2. CASE Unsealed(z, k)
    BY <2>1, <2>2 DEF Unsealed, SameEffect
  <2>3. ASSUME NEW c \in Times, SealedBy(z, k, c) PROVE SealedBy(z, k, c)'
    BY <2>1, <2>3 DEF SealedBy, SameEffect
  <2>4. QED
    BY <2>2, <2>3 DEF PlanSound
<1>3. QED
  BY <1>1, <1>2

\* The plan is sealed, or was, and its effects called for.
LEMMA DelegatesKeeps ==
  ASSUME RunnerInv, NEW r \in Runs, Delegates(r)
  PROVE  Steps(r) /\ Keeps(r)
<1> DEFINE Seal(s, n, c) == IF s = 0 THEN DelegateProvision(n, c) ELSE DelegateCloudflare(s, n, c)
<1>1. RunnerBounds /\ JournalReady /\ JournalInv /\ PlanSound
  BY RunnerInvReady DEF RunnerInv
<1>2. Steps(r)
  BY <1>1, DelegatesSteps
<1>3. JournalInv' /\ EvidenceIsKept
  BY <1>2, JournalKept
<1>4. runs[r].pc = "delegate"
  BY DEF Delegates, At
<1>5. PICK s, n, c : s = SequenceOf(r) /\ n = runs[r].n /\ c = runs[r].committed
  OBVIOUS
<1>6. /\ runs[r] \in Run /\ r \in DOMAIN job /\ s \in Sequence /\ n \in DOMAIN issuances[s]
      /\ c \in Nat /\ IssuanceOf(r) = issuances[s][n]
  BY <1>4, <1>5, UnderWay DEF Run, IssuanceOf
<1>7. CASE SealedAs(s, issuances[s][n], c) /\ UNCHANGED journalVars /\ Launches(r)
  <2>1. Onward /\ Quiet
    BY <1>1, <1>7, StandsStill
  <2>2. \A x \in EffectSlots(s) : InEffect(issuances'[s][n].slots[x])
                                  /\ issuances'[s][n].slots[x].committed = {c}
    BY <1>7 DEF SealedAs, journalVars
  <2>3. RunSound(r)' /\ CallsSound' /\ calls \subseteq calls'
    BY <1>3, <1>4, <1>5, <1>7, <2>1, <2>2, LaunchesSound
  <2>4. PlanSound'
    BY <1>1, <2>1, <2>3, PlansStay
  <2>5. QED
    BY <1>2, <2>1, <2>3, <2>4 DEF Keeps
<1>8. CASE Seal(s, n, c) /\ now <= FreshUntil(issuances[s][n]) /\ Launches(r)
  <2>1. /\ Onward /\ QuietBut(s, n) /\ c \in 0 .. now
        /\ \A z \in Sequence : DOMAIN issuances'[z] = DOMAIN issuances[z]
        /\ \A x \in EffectSlots(s) : /\ issuances'[s][n].slots[x].state = "DELEGATED_IN_FLIGHT"
                                      /\ issuances'[s][n].slots[x].committed = {c}
    BY <1>1, <1>6, <1>8, PlanSealed
  <2>2. \A x \in EffectSlots(s) : InEffect(issuances'[s][n].slots[x])
                                  /\ issuances'[s][n].slots[x].committed = {c}
    BY <2>1 DEF InEffect
  <2>3. RunSound(r)' /\ CallsSound' /\ calls \subseteq calls'
    BY <1>3, <1>4, <1>5, <1>8, <2>1, <2>2, LaunchesSound
  <2>4. SealedBy(s, n, c)'
    BY <2>1, <2>2 DEF SealedBy
  <2>5. c \in Times
    BY <1>1, <1>6, <2>1, JournalAssumption DEF JournalReady, Times
  <2>6. PlanSound'
    BY <1>1, <1>6, <2>1, <2>3, <2>4, <2>5, PlansMove
  <2>7. QED
    BY <1>2, <2>1, <2>3, <2>6 DEF Keeps
<1>9. CASE Seal(s, n, c) /\ now > FreshUntil(issuances[s][n]) /\ Fails(r) /\ calls' = calls
  <2>1. \E states : CurrentIn(s, n, states) /\ Put(s, n, Expired(issuances[s][n]))
    <3>1. FreshUntil(issuances[s][n]) \in Nat /\ now \in Nat
      <4>1. issuances[s][n] \in Issuance(s)
        BY <1>1, <1>6, LenProperties DEF JournalInv, JournalTypeOK
      <4>2. QED
        BY <1>1, <4>1, JournalAssumption DEF FreshUntil, Issuance, JournalReady, Times
    <3>2. /\ Current(s, n)
          /\ \E xs : SealEffects(s, n, xs, c) /\ xs # {}
      BY <1>6, <1>9 DEF DelegateProvision, DelegateCloudflare, Sequence
    <3>3. Put(s, n, Expired(issuances[s][n]))
      BY <1>9, <3>1, <3>2 DEF SealEffects, Chronological
    <3>4. QED
      BY <3>2, <3>3 DEF Current
  <2>2. Onward /\ Quiet
    BY <1>1, <1>6, <2>1, ExpiredMoves
  <2>3. QED
    BY <1>2, <1>9, <2>2, QuietFailKeeps
<1>10. CASE Fails(r) /\ UNCHANGED <<journalVars, calls>>
  <2>1. UNCHANGED journalVars /\ calls' = calls
    BY <1>10
  <2>2. QED
    BY <1>1, <1>2, <1>10, <2>1, StandsStill, QuietFailKeeps
<1>11. QED
  BY <1>2, <1>5, <1>6, <1>7, <1>8, <1>9, <1>10 DEF Delegates

\* A confirmed effect was called for.
LEMMA ConfirmKeepsPlans ==
  ASSUME RunnerInv, NEW s \in Sequence, NEW n \in DOMAIN issuances[s], NEW x, NEW c,
         Call(s, n, x, c) \in calls, x \in EffectSlots(s),
         InEffect(issuances[s][n].slots[x]), QuietBut(s, n), calls' = calls,
         \A z \in Sequence : DOMAIN issuances'[z] = DOMAIN issuances[z],
         issuances'[s][n].slots[x].state = "CONFIRMED",
         issuances'[s][n].slots[x].committed = issuances[s][n].slots[x].committed,
         \A y \in EffectSlots(s) \ {x} : issuances'[s][n].slots[y] = issuances[s][n].slots[y]
  PROVE  PlanSound'
<1>1. PlanSound /\ CallsSound
  BY DEF RunnerInv
<1>2. issuances[s][n].slots[x].committed = {c}
  <2>1. x # "RECORD"
    BY RunnerAssumption DEF EffectSlots, Roster
  <2>2. CallSound(s, n, x, c)
    BY <1>1 DEF CallsSound, Call
  <2>3. QED
    BY <2>1, <2>2 DEF CallSound
<1>3. PICK d \in Times : SealedBy(s, n, d)
  BY <1>1 DEF PlanSound, Unsealed
<1>4. d = c
  BY <1>2, <1>3 DEF SealedBy
<1>5. SealedBy(s, n, c)'
  <2>1. ASSUME NEW y \in EffectSlots(s)
        PROVE  /\ InEffect(issuances'[s][n].slots[y])
               /\ issuances'[s][n].slots[y].committed = {c}
               /\ issuances'[s][n].slots[y].state = "CONFIRMED" => Call(s, n, y, c) \in calls'
    <3>1. CASE y = x
      BY <3>1, <1>2 DEF InEffect
    <3>2. CASE y # x
      BY <3>2, <1>3, <1>4 DEF SealedBy
    <3>3. QED
      BY <3>1, <3>2
  <2>2. QED
    BY <2>1 DEF SealedBy
<1>6. QED
  BY <1>1, <1>3, <1>4, <1>5, PlansMove

\* An effect answers.
LEMMA EffectAnswersKeeps ==
  ASSUME RunnerInv, NEW r \in Runs, NEW x, EffectAnswers(r, x)
  PROVE  Steps(r) /\ Keeps(r)
<1>1. RunnerBounds /\ JournalReady /\ JournalInv
  BY RunnerInvReady DEF RunnerInv
<1>2. Steps(r)
  BY <1>1, EffectAnswersSteps
<1>3. JournalInv' /\ EvidenceIsKept
  BY <1>2, JournalKept
<1>4. runs[r].pc = "effects" /\ x \in runs[r].under /\ calls' = calls
  BY DEF EffectAnswers, At, externalVars
<1>5. PICK s, n, c : s = SequenceOf(r) /\ n = runs[r].n /\ c = runs[r].committed
  OBVIOUS
<1>6. /\ s \in Sequence /\ n \in DOMAIN issuances[s]
      /\ x \in EffectSlots(s) /\ Call(s, n, x, c) \in calls
  BY <1>4, <1>5, UnderWay
<1>7. PICK failed \in BOOLEAN : Becomes(r, Settled(r, x, failed, "ready"))
  BY DEF EffectAnswers
<1>8. \/ x = "CLOUDFLARE_BATCH" /\ \E t : ConfirmCloudflare(s, n, t)
      \/ x # "CLOUDFLARE_BATCH" /\ ConfirmDirect(n, x)
      \/ UNCHANGED journalVars
  BY <1>5 DEF EffectAnswers
<1>9. CASE x = "CLOUDFLARE_BATCH" /\ \E t : ConfirmCloudflare(s, n, t)
  <2>1. /\ Onward /\ QuietBut(s, n)
        /\ InEffect(issuances[s][n].slots[x])
        /\ \A z \in Sequence : DOMAIN issuances'[z] = DOMAIN issuances[z]
        /\ issuances'[s][n].slots[x].state = "CONFIRMED"
        /\ issuances'[s][n].slots[x].committed = issuances[s][n].slots[x].committed
        /\ \A y \in EffectSlots(s) \ {x} : issuances'[s][n].slots[y] = issuances[s][n].slots[y]
    BY <1>1, <1>6, <1>9, ConfirmCloudflareMoves
  <2>2. PlanSound'
    BY <1>4, <1>6, <2>1, ConfirmKeepsPlans
  <2>3. RunSound(r)'
    BY <1>3, <1>4, <1>7, <2>1, SettledSound
  <2>4. CallsSound'
    BY <1>1, <1>3, <1>4, <2>1, CallsStay DEF RunnerInv
  <2>5. QED
    BY <1>2, <2>1, <2>2, <2>3, <2>4 DEF Keeps
<1>10. CASE x # "CLOUDFLARE_BATCH" /\ ConfirmDirect(n, x)
  <2>1. s = 0
    BY <1>6, <1>10 DEF EffectSlots, Roster
  <2>2. /\ Onward /\ QuietBut(s, n)
        /\ InEffect(issuances[s][n].slots[x])
        /\ \A z \in Sequence : DOMAIN issuances'[z] = DOMAIN issuances[z]
        /\ issuances'[s][n].slots[x].state = "CONFIRMED"
        /\ issuances'[s][n].slots[x].committed = issuances[s][n].slots[x].committed
        /\ \A y \in EffectSlots(s) \ {x} : issuances'[s][n].slots[y] = issuances[s][n].slots[y]
    BY <1>1, <1>10, <2>1, ConfirmDirectMoves
  <2>3. PlanSound'
    BY <1>4, <1>6, <2>2, ConfirmKeepsPlans
  <2>4. RunSound(r)'
    BY <1>3, <1>4, <1>7, <2>2, SettledSound
  <2>5. CallsSound'
    BY <1>1, <1>3, <1>4, <2>2, CallsStay DEF RunnerInv
  <2>6. QED
    BY <1>2, <2>2, <2>3, <2>4, <2>5 DEF Keeps
<1>11. CASE UNCHANGED journalVars
  <2>1. Onward /\ Quiet
    BY <1>1, <1>11, StandsStill
  <2>2. RunSound(r)'
    BY <1>3, <1>4, <1>7, <2>1, SettledSound
  <2>3. QED
    BY <1>2, <1>4, <2>1, <2>2, QuietMoveKeeps
<1>12. QED
  BY <1>8, <1>9, <1>10, <1>11

-----------------------------------------------------------------------------
(* The record, as the runs make it.                                        *)

\* The record of an issuance: the issuance is the last, and they agree.
LEMMA RecordOf ==
  ASSUME RunnerInv, NEW s \in Sequence, NEW n, records[s].state # "MISSING", records[s].ordinal = n
  PROVE  /\ n \in DOMAIN issuances[s] /\ n = Len(issuances[s])
         /\ issuances[s][n].state = "CONFIRMED" => records[s].state = "CONFIRMED"
         /\ \A c \in records[s].committed : records[s].committed = {c}
<1>1. /\ n \in DOMAIN issuances[s] /\ n = Len(issuances[s])
      /\ MadeFrom(s, records[s], issuances[s][n])
  BY DEF RunnerInv, JournalInv, AllMade
<1>2. issuances[s] # <<>>
  BY <1>1, LenProperties DEF RunnerInv, JournalInv, JournalTypeOK
<1>3. issuances[s][n].state = "CONFIRMED" => records[s].state = "CONFIRMED"
  BY <1>1, <1>2 DEF RunnerInv, JournalInv, TablesAgree, StatesAgree, Latest
<1>4. Lone(records[s].committed)
  BY <1>1 DEF RunnerInv, OneCommit, MadeFrom
<1>5. \A c \in records[s].committed : records[s].committed = {c}
  BY <1>4 DEF Lone
<1>6. QED
  BY <1>1, <1>3, <1>5

\* An issuance past readyToAppend has its record.
LEMMA HasRecordOf ==
  ASSUME RunnerInv, NEW s \in Sequence, NEW n, HasRecord(s, n)
  PROVE  records[s].state # "MISSING" /\ records[s].ordinal = n
<1>1. /\ n \in DOMAIN issuances[s] /\ n = Len(issuances[s]) /\ JournalTypeOK
      /\ issuances[s][n].state \in {"RECORD_APPENDED", "CONFIRMED"}
  BY DEF HasRecord, CurrentIn, RunnerInv, JournalInv
<1>2. issuances[s] # <<>>
  BY <1>1, LenProperties DEF JournalTypeOK
<1>3. records[s].state \in {"APPENDED", "CONFIRMED"}
  BY <1>1, <1>2 DEF RunnerInv, JournalInv, TablesAgree, StatesAgree, Latest
<1>4. records[s].ordinal = Len(issuances[s])
  BY <1>3 DEF RunnerInv, JournalInv, AllMade
<1>5. QED
  BY <1>1, <1>3, <1>4

\* A run that moves on in the last part of its way.
LEMMA MovedSound ==
  ASSUME RunnerInv, NEW r \in Runs, NEW pc \in {"append", "worm", "mirror"},
         runs[r].pc \in {"ready", "append", "worm"}, MovesTo(r, pc),
         Onward, EvidenceIsKept, calls \subseteq calls',
         pc \in {"worm", "mirror"} =>
           /\ records'[SequenceOf(r)].state # "MISSING"
           /\ records'[SequenceOf(r)].ordinal = runs[r].n
  PROVE  RunSound(r)'
<1>1. /\ runs[r] \in Run /\ r \in DOMAIN job /\ SequenceOf(r) \in Sequence /\ RunnerBounds
      /\ runs[r].under = {}
  BY UnderWay, RunnerInvReady
<1>2. PICK old, run : old = runs[r] /\ run = [runs[r] EXCEPT !.pc = pc] /\ Becomes(r, run)
  BY DEF MovesTo
<1>3. run.pc = pc /\ run.n = old.n /\ run.under = {}
  BY <1>1, <1>2 DEF Run
<1>4. job' = job /\ SequenceOf(r)' = SequenceOf(r)
  BY <1>1, <1>2, BecomesRun DEF SequenceOf
<1>5. SoundRun(r, old)'
  <2>1. SoundRun(r, old)
    BY <1>2 DEF RunnerInv, RunSound
  <2>2. QED
    BY <1>1, <1>4, <2>1, RunStays
<1>6. SoundRun(r, run)'
  BY <1>2, <1>3, <1>4, <1>5 DEF SoundRun
<1>7. QED
  BY <1>1, <1>2, <1>6, BecomesSound

\* A run whose caller is answered.
LEMMA AnsweredSound ==
  ASSUME RunnerInv, NEW r \in Runs, runs[r].pc \in {"worm", "mirror"}, Answered(r),
         Onward, EvidenceIsKept, calls \subseteq calls',
         records'[SequenceOf(r)].state = "CONFIRMED"
  PROVE  RunSound(r)'
<1>1. r \in DOMAIN job /\ SequenceOf(r) \in Sequence /\ RunnerBounds
  BY UnderWay, RunnerInvReady
<1>2. PICK old, run : old = runs[r] /\ run = [IdleRun EXCEPT !.pc = "done"] /\ Becomes(r, run)
  BY DEF Answered
<1>3. run.pc = "done" /\ run.under = {}
  BY <1>2 DEF IdleRun
<1>4. job' = job /\ SequenceOf(r)' = SequenceOf(r)
  BY <1>1, <1>2, BecomesRun DEF SequenceOf
<1>5. SoundRun(r, old)'
  <2>1. SoundRun(r, old)
    BY <1>2 DEF RunnerInv, RunSound
  <2>2. QED
    BY <1>1, <1>4, <2>1, RunStays
<1>6. SoundRun(r, run)'
  BY <1>2, <1>3, <1>4, <1>5 DEF SoundRun
<1>7. QED
  BY <1>1, <1>2, <1>6, BecomesSound

\* The issuance is ready for its record.
LEMMA ReadiesKeeps ==
  ASSUME RunnerInv, NEW r \in Runs, Readies(r)
  PROVE  Steps(r) /\ Keeps(r)
<1>1. RunnerBounds /\ JournalReady
  BY RunnerInvReady
<1>2. Steps(r)
  BY <1>1, RecordSteps
<1>3. JournalInv' /\ EvidenceIsKept
  BY <1>2, JournalKept
<1>4. runs[r].pc = "ready" /\ calls' = calls
  BY DEF Readies, At, externalVars
<1>5. SequenceOf(r) \in Sequence
  BY <1>4, UnderWay
<1>6. /\ ReadyToAppend(SequenceOf(r), runs[r].n) \/ UNCHANGED journalVars
      /\ MovesTo(r, "append") \/ Fails(r)
  BY DEF Readies
<1>7. Onward /\ Quiet
  BY <1>1, <1>5, <1>6, ReadyMoves, StandsStill
<1>8. CASE MovesTo(r, "append")
  BY <1>2, <1>3, <1>4, <1>7, <1>8, MovedSound, QuietMoveKeeps
<1>9. CASE Fails(r)
  BY <1>2, <1>4, <1>7, <1>9, QuietFailKeeps
<1>10. QED
  BY <1>6, <1>8, <1>9

\* The record is made.
LEMMA AppendsKeeps ==
  ASSUME RunnerInv, NEW r \in Runs, Appends(r)
  PROVE  Steps(r) /\ Keeps(r)
<1> DEFINE s == SequenceOf(r)
           n == runs[r].n
<1>1. RunnerBounds /\ JournalReady
  BY RunnerInvReady
<1>2. Steps(r)
  BY <1>1, RecordSteps
<1>3. JournalInv' /\ EvidenceIsKept
  BY <1>2, JournalKept
<1>4. runs[r].pc = "append" /\ calls' = calls
  BY DEF Appends, At, externalVars
<1>5. s \in Sequence
  BY <1>4, UnderWay
<1>6. CASE FreezeAndAppend(s, n) /\ MovesTo(r, "worm")
  <2>1. Onward /\ Quiet /\ records'[s].state # "MISSING" /\ records'[s].ordinal = n
    BY <1>1, <1>5, <1>6, RecordMoves
  <2>2. RunSound(r)'
    BY <1>3, <1>4, <1>6, <2>1, MovedSound
  <2>3. QED
    BY <1>2, <1>4, <2>1, <2>2, QuietMoveKeeps
<1>7. CASE HasRecord(s, n) /\ MovesTo(r, "worm") /\ UNCHANGED journalVars
  <2>1. Onward /\ Quiet
    BY <1>1, <1>7, StandsStill
  <2>2. records'[s].state # "MISSING" /\ records'[s].ordinal = n
    BY <1>5, <1>7, HasRecordOf DEF journalVars
  <2>3. RunSound(r)'
    BY <1>3, <1>4, <1>7, <2>1, <2>2, MovedSound
  <2>4. QED
    BY <1>2, <1>4, <2>1, <2>3, QuietMoveKeeps
<1>8. CASE Fails(r) /\ UNCHANGED journalVars
  BY <1>1, <1>2, <1>4, <1>8, StandsStill, QuietFailKeeps
<1>9. QED
  BY <1>6, <1>7, <1>8 DEF Appends

\* The record is called out for.
LEMMA FindsRecordWormKeeps ==
  ASSUME RunnerInv, NEW r \in Runs, FindsRecordWorm(r)
  PROVE  Steps(r) /\ Keeps(r)
<1>1. RunnerBounds /\ JournalReady /\ JournalInv /\ CallsSound /\ PlanSound
  BY RunnerInvReady DEF RunnerInv
<1>2. Steps(r)
  BY <1>1, RecordSteps
<1>3. JournalInv' /\ EvidenceIsKept
  BY <1>2, JournalKept
<1>4. runs[r].pc = "worm" /\ UNCHANGED journalVars
  BY DEF FindsRecordWorm, At
<1>5. PICK s, n : s = SequenceOf(r) /\ n = runs[r].n
  OBVIOUS
<1>6. s \in Sequence /\ records[s].state # "MISSING" /\ records[s].ordinal = n
  BY <1>4, <1>5, UnderWay
<1>7. /\ n \in DOMAIN issuances[s]
      /\ issuances[s][n].state = "CONFIRMED" => records[s].state = "CONFIRMED"
      /\ \A c \in records[s].committed : records[s].committed = {c}
  BY <1>6, RecordOf
<1>8. Onward /\ Quiet
  BY <1>1, <1>4, StandsStill
<1>9. records' = records /\ issuances' = issuances
  BY <1>4 DEF journalVars
<1>10. CASE issuances[s][n].state = "CONFIRMED" /\ Answered(r) /\ calls' = calls
  <2>1. RunSound(r)'
    BY <1>3, <1>4, <1>5, <1>7, <1>8, <1>9, <1>10, AnsweredSound
  <2>2. QED
    BY <1>2, <1>8, <1>10, <2>1, QuietMoveKeeps
<1>11. CASE /\ MovesTo(r, "mirror")
            /\ calls' = calls \cup {Call(s, n, "RECORD", c) : c \in records[s].committed}
  <2>1. RunSound(r)'
    BY <1>3, <1>4, <1>5, <1>6, <1>8, <1>9, <1>11, MovedSound
  <2>2. PlanSound'
    BY <1>1, <1>8, <1>11, PlansStay
  <2>3. ASSUME NEW c \in records[s].committed PROVE CallSound(s, n, "RECORD", c)'
    BY <1>6, <1>7, <1>9, <2>3 DEF CallSound
  <2>4. ASSUME NEW c PROVE /\ Call(s, n, "RECORD", c).sequence = s
                           /\ Call(s, n, "RECORD", c).ordinal = n
                           /\ Call(s, n, "RECORD", c).slot = "RECORD"
                           /\ Call(s, n, "RECORD", c).committed = c
    BY DEF Call
  <2>5. ASSUME NEW call \in calls'
        PROVE  /\ call = Call(call.sequence, call.ordinal, call.slot, call.committed)
               /\ CallSound(call.sequence, call.ordinal, call.slot, call.committed)'
    <3>1. CASE call \in calls
      BY <3>1, <1>1, <1>3, <1>8, CallStays DEF CallsSound
    <3>2. ASSUME NEW c \in records[s].committed, call = Call(s, n, "RECORD", c)
          PROVE  /\ call = Call(call.sequence, call.ordinal, call.slot, call.committed)
                 /\ CallSound(call.sequence, call.ordinal, call.slot, call.committed)'
      BY <3>2, <2>3, <2>4
    <3>3. QED
      BY <1>11, <3>1, <3>2
  <2>6. CallsSound'
    BY <2>5 DEF CallsSound
  <2>7. QED
    BY <1>2, <1>8, <2>1, <2>2, <2>6 DEF Keeps
<1>12. QED
  BY <1>5, <1>10, <1>11 DEF FindsRecordWorm, IssuanceOf

\* The record is stored.
LEMMA RecordWormAnswersKeeps ==
  ASSUME RunnerInv, NEW r \in Runs, RecordWormAnswers(r)
  PROVE  Steps(r) /\ Keeps(r)
<1> DEFINE s == SequenceOf(r)
           n == runs[r].n
<1>1. RunnerBounds /\ JournalReady
  BY RunnerInvReady
<1>2. Steps(r)
  BY <1>1, RecordSteps
<1>3. JournalInv' /\ EvidenceIsKept
  BY <1>2, JournalKept
<1>4. runs[r].pc = "mirror" /\ calls' = calls /\ Answered(r)
  BY DEF RecordWormAnswers, At, externalVars
<1>5. s \in Sequence /\ records[s].state # "MISSING" /\ records[s].ordinal = n
  BY <1>4, UnderWay
<1>6. Onward /\ Quiet /\ records'[s].state = "CONFIRMED"
  <2>1. CASE ConfirmRecordWorm(s, n)
    BY <1>1, <1>5, <2>1, RecordMoves
  <2>2. CASE issuances[s][n].state = "CONFIRMED" /\ UNCHANGED journalVars
    BY <1>1, <1>5, <2>2, StandsStill, RecordOf DEF journalVars
  <2>3. QED
    BY <2>1, <2>2 DEF RecordWormAnswers, IssuanceOf
<1>7. RunSound(r)'
  BY <1>3, <1>4, <1>6, AnsweredSound
<1>8. QED
  BY <1>2, <1>4, <1>6, <1>7, QuietMoveKeeps

\* A call fails.
LEMMA RemoteCallFailsKeeps ==
  ASSUME RunnerInv, NEW r \in Runs, RemoteCallFails(r)
  PROVE  Steps(r) /\ Keeps(r)
<1>1. RunnerBounds /\ JournalReady
  BY RunnerInvReady
<1>2. Steps(r)
  BY <1>1, RemoteCallFailsSteps
<1>3. JournalInv' /\ EvidenceIsKept
  BY <1>2, JournalKept
<1>4. UNCHANGED journalVars /\ calls' = calls
  BY DEF RemoteCallFails
<1>5. Onward /\ Quiet
  BY <1>1, <1>4, StandsStill
<1>6. CASE Fails(r)
  BY <1>2, <1>4, <1>5, <1>6, QuietFailKeeps
<1>7. CASE \E x : \E next \in {"request", "ready"} :
             runs[r].pc \in {"read", "effects"} /\ Becomes(r, Settled(r, x, TRUE, next))
  <2>1. RunSound(r)'
    BY <1>3, <1>4, <1>5, <1>7, SettledSound
  <2>2. QED
    BY <1>2, <1>4, <1>5, <2>1, QuietMoveKeeps
<1>8. QED
  BY <1>6, <1>7 DEF RemoteCallFails, At

-----------------------------------------------------------------------------
(* All steps together.                                                     *)

\* What one caller's steps have in common.
CallerStep(r) == Admit(r) \/ RunStep(r) \/ RemoteCallFails(r)

\* They leave the batches alone and only add calls.
LEMMA CallerFrame ==
  ASSUME RunnerBounds, NEW r \in Runs, CallerStep(r)
  PROVE  batches' = batches /\ calls \subseteq calls' /\ faults' \in 0 .. MaxFaults
<1>1. faults \in 0 .. MaxFaults /\ MaxFaults \in Nat
  BY RunnerAssumption DEF RunnerBounds, RunnerTypeOK
<1>2. CASE Admit(r)
  BY <1>1, <1>2 DEF Admit, externalVars
<1>3. CASE RunStep(r)
  <2>1. CASE Reserves(r) \/ FindsStale(r) \/ Reissues(r) \/ Collects(r) \/ BuildsRequest(r)
    BY <1>1, <2>1 DEF Reserves, FindsStale, Reissues, Collects, BuildsRequest, externalVars
  <2>2. CASE \E x \in Reads : Prepares(r, x) \/ ReadAnswers(r, x)
    BY <1>1, <2>2 DEF Prepares, ReadAnswers, externalVars
  <2>3. CASE Delegates(r)
    BY <1>1, <2>3 DEF Delegates, Launches
  <2>4. CASE \E x \in EffectSlots(0) : EffectAnswers(r, x)
    BY <1>1, <2>4 DEF EffectAnswers, externalVars
  <2>5. CASE Readies(r) \/ Appends(r) \/ FindsRecordWorm(r) \/ RecordWormAnswers(r)
    BY <1>1, <2>5 DEF Readies, Appends, FindsRecordWorm, RecordWormAnswers, externalVars
  <2>6. QED
    BY <1>3, <2>1, <2>2, <2>3, <2>4, <2>5 DEF RunStep
<1>4. CASE RemoteCallFails(r)
  BY <1>1, <1>4 DEF RemoteCallFails, Fault
<1>5. QED
  BY <1>2, <1>3, <1>4 DEF CallerStep

\* So every step of a caller keeps what it has to.
LEMMA CallerKeeps ==
  ASSUME RunnerInv, NEW r \in Runs, CallerStep(r)
  PROVE  Steps(r) /\ Keeps(r)
<1>1. CASE Admit(r)
  BY <1>1, AdmitKeeps
<1>2. CASE RunStep(r)
  <2>1. CASE Reserves(r) \/ FindsStale(r) \/ Reissues(r) \/ Collects(r)
    BY <2>1, ReservesKeeps, FindsStaleKeeps, ReissuesKeeps, CollectsKeeps
  <2>2. CASE \E x \in Reads : Prepares(r, x) \/ ReadAnswers(r, x)
    BY <2>2, PreparesKeeps, ReadAnswersKeeps
  <2>3. CASE BuildsRequest(r) \/ Delegates(r) \/ \E x \in EffectSlots(0) : EffectAnswers(r, x)
    BY <2>3, BuildsRequestKeeps, DelegatesKeeps, EffectAnswersKeeps
  <2>4. CASE Readies(r) \/ Appends(r) \/ FindsRecordWorm(r) \/ RecordWormAnswers(r)
    BY <2>4, ReadiesKeeps, AppendsKeeps, FindsRecordWormKeeps, RecordWormAnswersKeeps
  <2>5. QED
    BY <1>2, <2>1, <2>2, <2>3, <2>4 DEF RunStep
<1>3. CASE RemoteCallFails(r)
  BY <1>3, RemoteCallFailsKeeps
<1>4. QED
  BY <1>1, <1>2, <1>3 DEF CallerStep

\* What is left to be shown of a step that takes the journal onward.
LEMMA InvariantKept ==
  ASSUME RunnerInv, JournalInv', Onward, PlanSound', CallsSound',
         job' = job, RunnerTypeOK',
         \A s \in Sequence, n \in Ordinals : batches'[s][n] \subseteq Times,
         \A r \in Runs : /\ RunSound(r)'
                         /\ runs'[r].at <= now' /\ (runs'[r].pc # "idle" => r \in DOMAIN job)
  PROVE  RunnerInv'
<1>1. NotAsked'
  BY DEF RunnerInv, NotAsked, Onward
<1>2. OneCommit'
  BY DEF Onward, OneCommit
<1>3. \A s \in Sequence : DOMAIN issuances'[s] \subseteq Ordinals
  BY DEF RunnerInv, RunnerBounds, Onward
<1>4. RunnerBounds'
  BY <1>3 DEF RunnerInv, RunnerBounds, Onward, Ordinals, Times
<1>5. QED
  BY <1>1, <1>2, <1>4 DEF RunnerInv

\* A run that a step leaves alone.
LEMMA OthersStay ==
  ASSUME RunnerInv, NEW r \in Runs, runs'[r] = runs[r], job' = job,
         Onward, EvidenceIsKept, calls \subseteq calls'
  PROVE  RunSound(r)' /\ runs'[r].at <= now' /\ (runs'[r].pc # "idle" => r \in DOMAIN job)
<1>1. runs[r] \in Run /\ runs[r].at <= now /\ now \in Nat
      /\ (runs[r].pc # "idle" => r \in DOMAIN job /\ SequenceOf(r) \in Sequence)
  BY RunIsTyped DEF RunnerInv
<1>2. SoundRun(r, runs[r])'
  <2> SUFFICES ASSUME NEW run, run = runs[r] PROVE SoundRun(r, run)'
    BY DEF SoundRun
  <2>1. SoundRun(r, run)
    BY DEF RunnerInv, RunSound
  <2>2. QED
    BY <1>1, <2>1, RunStays
<1>3. RunSound(r)'
  BY <1>2 DEF RunSound, SoundRun
<1>4. now <= now' /\ now' \in Nat
  BY JournalAssumption DEF Onward, Times
<1>5. QED
  BY <1>1, <1>3, <1>4 DEF Run

\* And with the other runs, which it leaves alone, the invariant.
LEMMA CallerInvariant ==
  ASSUME RunnerInv, NEW r \in Runs, CallerStep(r)
  PROVE  RunnerInv' /\ [JournalNext]_journalVars
<1>1. Steps(r) /\ Keeps(r)
  BY CallerKeeps
<1>2. JournalInv' /\ EvidenceIsKept
  BY <1>1, JournalKept
<1>3. /\ RunnerBounds /\ RunnerTypeOK /\ batches' = batches /\ calls \subseteq calls'
      /\ faults' \in 0 .. MaxFaults
  BY CallerFrame DEF RunnerInv, RunnerBounds
<1>4. PICK run : run \in Run /\ Becomes(r, run) /\ run.at <= now /\ (run.pc # "idle" => r \in DOMAIN job)
  BY <1>1 DEF Steps, Advances
<1>5. /\ runs'[r] = run /\ job' = job
      /\ \A z \in Runs \ {r} : runs'[z] = runs[z]
  BY <1>3, <1>4, BecomesRun
<1>6. runs' \in [Runs -> Run]
  BY <1>3, <1>4 DEF Becomes, RunnerTypeOK
<1>7. RunnerTypeOK'
  BY <1>3, <1>6 DEF RunnerTypeOK
<1>8. Onward /\ RunSound(r)' /\ PlanSound' /\ CallsSound'
  BY <1>1 DEF Keeps
<1>9. runs'[r].at <= now' /\ (runs'[r].pc # "idle" => r \in DOMAIN job)
  <2>1. now \in Nat /\ now' \in Nat /\ now <= now'
    BY <1>3, <1>8, RunIsTyped, JournalAssumption DEF Onward, Times
  <2>2. QED
    BY <1>4, <1>5, <2>1 DEF Run
<1>10. \A z \in Runs : /\ RunSound(z)'
                       /\ runs'[z].at <= now' /\ (runs'[z].pc # "idle" => z \in DOMAIN job)
  <2>1. \A z \in Runs \ {r} : /\ RunSound(z)'
                       /\ runs'[z].at <= now' /\ (runs'[z].pc # "idle" => z \in DOMAIN job)
    BY <1>2, <1>3, <1>5, <1>8, OthersStay
  <2>2. QED
    BY <1>8, <1>9, <2>1
<1>11. \A s \in Sequence, n \in Ordinals : batches'[s][n] \subseteq Times
  BY <1>3 DEF RunnerBounds
<1>12. RunnerInv'
  BY <1>2, <1>5, <1>7, <1>8, <1>10, <1>11, InvariantKept
<1>13. QED
  BY <1>1, <1>12 DEF Steps

\* A step that is nobody's: the journal moves quietly, runs end or stay.
LEMMA AloneInvariant ==
  ASSUME RunnerInv, [JournalNext]_journalVars, Onward, Quiet,
         job' = job, calls' = calls, RunnerTypeOK',
         \A s \in Sequence, n \in Ordinals : batches'[s][n] \subseteq Times,
         \A r \in Runs : runs'[r] = runs[r] \/ runs'[r] = IdleRun
  PROVE  RunnerInv'
<1>1. JournalInv' /\ EvidenceIsKept
  BY JournalStep DEF RunnerInv
<1>2. PlanSound' /\ CallsSound'
  BY <1>1, QuietKeeps
<1>3. ASSUME NEW r \in Runs
      PROVE  /\ RunSound(r)'
             /\ runs'[r].at <= now' /\ (runs'[r].pc # "idle" => r \in DOMAIN job)
  <2>1. CASE runs'[r] = runs[r]
    BY <1>1, <2>1, OthersStay
  <2>2. CASE runs'[r] = IdleRun
    <3>1. runs'[r].pc = "idle" /\ runs'[r].at = 0
      BY <2>2 DEF IdleRun
    <3>2. now' \in Nat
      BY JournalAssumption DEF Onward, Times
    <3>3. QED
      BY <3>1, <3>2 DEF RunSound, SoundRun
  <2>3. QED
    BY <1>3, <2>1, <2>2
<1>4. QED
  BY <1>1, <1>2, <1>3, InvariantKept

\* The clock.
LEMMA TickInvariant ==
  ASSUME RunnerInv, Tick
  PROVE  RunnerInv' /\ [JournalNext]_journalVars
<1>1. /\ JournalReady /\ RunnerBounds
  BY RunnerInvReady
<1>2. /\ now < MaxClock /\ now' = now + 1 /\ UNCHANGED <<intents, issuances, records>>
      /\ UNCHANGED <<job, runs, calls, batches, faults>> /\ JournalTick
  BY DEF Tick, JournalTick, externalVars
<1>3. now \in Nat /\ MaxClock \in Nat /\ now <= now' /\ now' \in Times
  BY <1>1, <1>2, JournalAssumption DEF RunnerBounds, Times
<1>4. Onward /\ Quiet
  BY <1>1, <1>2, <1>3, ClockMoves
<1>5. JournalNext
  BY <1>2 DEF JournalNext
<1>6. RunnerTypeOK'
  BY <1>1, <1>2 DEF RunnerBounds, RunnerTypeOK
<1>7. \A s \in Sequence, n \in Ordinals : batches'[s][n] \subseteq Times
  BY <1>1, <1>2 DEF RunnerBounds
<1>8. RunnerInv'
  BY <1>2, <1>4, <1>5, <1>6, <1>7, AloneInvariant
<1>9. QED
  BY <1>5, <1>8

\* The observer.
LEMMA BatchSealsInvariant ==
  ASSUME RunnerInv, NEW s \in Sequence, NEW n \in 1 .. MaxOrdinal, BatchSeals(s, n)
  PROVE  RunnerInv' /\ [JournalNext]_journalVars
<1>1. JournalReady /\ RunnerBounds /\ RunnerTypeOK
  BY RunnerInvReady DEF RunnerBounds
<1>2. /\ batches' = [batches EXCEPT ![s][n] = {now}] /\ now \in Times /\ now \in Nat
      /\ UNCHANGED <<journalVars, job, runs, calls, faults>>
  BY <1>1, JournalAssumption DEF BatchSeals, RunnerBounds, Times
<1>3. Onward /\ Quiet
  BY <1>1, <1>2, StandsStill
<1>4. /\ batches' \in [Sequence -> [1 .. MaxOrdinal -> SUBSET Nat]]
      /\ \A z \in Sequence, k \in Ordinals :
           batches'[z][k] = IF z = s /\ k = n THEN {now} ELSE batches[z][k]
  BY <1>1, <1>2 DEF RunnerTypeOK, Ordinals
<1>5. RunnerTypeOK'
  BY <1>1, <1>2, <1>4 DEF RunnerTypeOK
<1>6. \A z \in Sequence, k \in Ordinals : batches'[z][k] \subseteq Times
  BY <1>1, <1>2, <1>4 DEF RunnerBounds
<1>7. RunnerInv'
  BY <1>2, <1>3, <1>5, <1>6, AloneInvariant
<1>8. QED
  BY <1>2, <1>7

\* An eviction.
LEMMA EvictInvariant ==
  ASSUME RunnerInv, Evict
  PROVE  RunnerInv' /\ [JournalNext]_journalVars
<1>1. JournalReady /\ RunnerBounds /\ RunnerTypeOK
  BY RunnerInvReady DEF RunnerBounds
<1>2. /\ runs' = [r \in Runs |-> IF At(r, "done") THEN runs[r] ELSE IdleRun]
      /\ UNCHANGED <<journalVars, job, calls, batches>> /\ faults < MaxFaults /\ faults' = faults + 1
  BY DEF Evict, Fault
<1>3. Onward /\ Quiet
  BY <1>1, <1>2, StandsStill
<1>4. \A r \in Runs : runs'[r] = runs[r] \/ runs'[r] = IdleRun
  BY <1>2
<1>5. IdleRun \in Run
  BY DEF IdleRun, Run
<1>6. runs' \in [Runs -> Run]
  BY <1>1, <1>2, <1>5 DEF RunnerTypeOK
<1>7. faults' \in 0 .. MaxFaults
  BY <1>1, <1>2, RunnerAssumption DEF RunnerTypeOK
<1>8. RunnerTypeOK'
  BY <1>1, <1>2, <1>6, <1>7 DEF RunnerTypeOK
<1>9. \A s \in Sequence, n \in Ordinals : batches'[s][n] \subseteq Times
  BY <1>1, <1>2 DEF RunnerBounds
<1>10. RunnerInv'
  BY <1>2, <1>3, <1>4, <1>8, <1>9, AloneInvariant
<1>11. QED
  BY <1>2, <1>10

\* Nothing happens.
LEMMA StutterInvariant ==
  ASSUME RunnerInv, UNCHANGED runnerVars
  PROVE  RunnerInv' /\ [JournalNext]_journalVars
<1>1. JournalReady /\ RunnerBounds /\ RunnerTypeOK
  BY RunnerInvReady DEF RunnerBounds
<1>2. UNCHANGED <<journalVars, job, runs, calls, batches, faults>>
  BY DEF runnerVars, externalVars
<1>3. Onward /\ Quiet
  BY <1>1, <1>2, StandsStill
<1>4. RunnerTypeOK'
  BY <1>1, <1>2 DEF RunnerTypeOK
<1>5. \A s \in Sequence, n \in Ordinals : batches'[s][n] \subseteq Times
  BY <1>1, <1>2 DEF RunnerBounds
<1>6. RunnerInv'
  BY <1>2, <1>3, <1>4, <1>5, AloneInvariant
<1>7. QED
  BY <1>2, <1>6

\* Every step keeps the invariant and is a step of the journal, or none.
LEMMA RunnerStep ==
  ASSUME RunnerInv, [RunnerNext]_runnerVars
  PROVE  RunnerInv' /\ [JournalNext]_journalVars
BY TickInvariant, CallerInvariant, BatchSealsInvariant, EvictInvariant, StutterInvariant
   DEF RunnerNext, CallerStep

\* The invariant holds at first.
LEMMA RunnerInitInv == RunnerInit => RunnerInv
<1> SUFFICES ASSUME RunnerInit PROVE RunnerInv
  OBVIOUS
<1>1. JournalInit /\ JournalInv /\ JournalTypeOK
  BY JournalInitInv DEF RunnerInit, JournalInv
<1>2. \A s \in Sequence : /\ DOMAIN issuances[s] = {} /\ intents[s].request = {}
  BY <1>1 DEF JournalInit
<1>3. now = 0 /\ now \in Times
  BY <1>1, JournalAssumption DEF JournalInit, Times
<1>4. IdleRun \in Run /\ IdleRun.pc = "idle" /\ IdleRun.at = 0
  BY DEF IdleRun, Run
<1>5. /\ \A r \in Runs : runs[r] = IdleRun
      /\ runs \in [Runs -> Run]
      /\ \A r \in Runs : runs[r].at <= now /\ runs[r].pc = "idle"
  BY <1>3, <1>4 DEF RunnerInit
<1>6. /\ batches \in [Sequence -> [1 .. MaxOrdinal -> SUBSET Nat]]
      /\ \A s \in Sequence, n \in Ordinals : batches[s][n] = {}
  BY DEF RunnerInit, Ordinals
<1>7. faults \in 0 .. MaxFaults /\ job \in Jobs /\ calls = {}
  BY RunnerAssumption DEF RunnerInit
<1>8. RunnerBounds
  BY <1>2, <1>3, <1>5, <1>6, <1>7 DEF RunnerBounds, RunnerTypeOK
<1>9. NotAsked /\ OneCommit /\ PlanSound /\ CallsSound
  BY <1>2, <1>7 DEF NotAsked, OneCommit, PlanSound, CallsSound
<1>10. \A r \in Runs : RunSound(r)
  BY <1>5 DEF RunSound, SoundRun
<1>11. QED
  BY <1>1, <1>8, <1>9, <1>10 DEF RunnerInv

-----------------------------------------------------------------------------
(* What follows of the runner. *)

\* It holds throughout.
THEOREM RunnerInvariant == RunnerSpec => []RunnerInv
<1>1. RunnerInv /\ [RunnerNext]_runnerVars => RunnerInv'
  BY RunnerStep
<1>2. QED
  BY RunnerInitInv, <1>1, PTL DEF RunnerSpec

\* What the runs hold is as their locals are typed.
THEOREM RunnerTypeCorrect == RunnerSpec => []RunnerTypeOK
<1>1. RunnerInv => RunnerTypeOK
  BY DEF RunnerInv, RunnerBounds
<1>2. QED
  BY RunnerInvariant, <1>1, PTL

\* However runs interleave, fail and are evicted, they use the journal only as any caller
\* may: what holds of the journal under all callers holds under them.
THEOREM RunnerImplementsJournal == RunnerSpec => JournalSpec
<1>1. RunnerInit => JournalInit
  BY DEF RunnerInit
<1>2. RunnerInv /\ [RunnerNext]_runnerVars => [JournalNext]_journalVars
  BY RunnerStep
<1>3. QED
  BY <1>1, <1>2, RunnerInvariant, PTL DEF RunnerSpec, JournalSpec

\* Runs never leave two issuances of an attempt open.
THEOREM RunnerOneLiveIssuance == RunnerSpec => []OneLiveIssuance
BY RunnerImplementsJournal, AtMostOneLiveIssuance, PTL

\* What the port is called for was sealed in the journal before.
THEOREM RunnerCallsAuthorized == RunnerSpec => []CallsAuthorized
<1>1. RunnerInv => CallsAuthorized
  <2> SUFFICES ASSUME RunnerInv PROVE CallsAuthorized
    OBVIOUS
  <2>1. ASSUME NEW r \in Runs, At(r, "read"), NEW x \in runs[r].under
        PROVE  IssuanceOf(r).slots[x].state # "PREPARED"
    BY <2>1, UnderWay DEF At, IssuanceOf
  <2>2. ASSUME NEW call \in calls
        PROVE  LET i == issuances[call.sequence][call.ordinal] IN
               IF call.slot = "RECORD"
               THEN /\ records[call.sequence].state # "MISSING"
                    /\ records[call.sequence].ordinal = call.ordinal
                    /\ records[call.sequence].committed = {call.committed}
               ELSE InEffect(i.slots[call.slot]) /\ i.slots[call.slot].committed = {call.committed}
    <3>1. CallSound(call.sequence, call.ordinal, call.slot, call.committed)
      BY <2>2 DEF RunnerInv, CallsSound
    <3>2. "RECORD" \notin EffectSlots(call.sequence)
      BY RunnerAssumption DEF EffectSlots, Roster
    <3>3. QED
      BY <3>1, <3>2 DEF CallSound
  <2>3. QED
    BY <2>1, <2>2 DEF CallsAuthorized
<1>2. QED
  BY RunnerInvariant, <1>1, PTL

\* A caller that is answered finds its own request's record stored, then and ever after.
THEOREM AnswersDurable == RunnerSpec => []AnswersAreDurable
<1>1. RunnerInv => AnswersAreDurable
  BY DEF RunnerInv, RunSound, SoundRun, At, AnswersAreDurable
<1>2. QED
  BY RunnerInvariant, <1>1, PTL

-----------------------------------------------------------------------------
(* The runner carries out one plan. *)

CommittedOf(s, n) == issuances[s][n].slots["CLOUDFLARE_BATCH"].committed

\* No request is sealed.
RequestsStay ==
  \A s \in Sequence :
    /\ \A n \in DOMAIN issuances[s] : n \in DOMAIN issuances'[s] /\ CommittedOf(s, n)' = CommittedOf(s, n)
    /\ \A n \in DOMAIN issuances'[s] \ DOMAIN issuances[s] : CommittedOf(s, n)' = {}

\* Then the plans stay.
LEMMA SamePlans ==
  ASSUME RequestsStay, NEW s \in Sequence
  PROVE  PlanOf(s)' = PlanOf(s)
<1>1. \A p : p \in PlanOf(s) <=> \E n \in DOMAIN issuances[s] : \E c \in CommittedOf(s, n) : p = <<n, c>>
  BY DEF PlanOf, CommittedOf
<1>2. \A p : p \in PlanOf(s)' <=> \E n \in DOMAIN issuances'[s] : \E c \in CommittedOf(s, n)' : p = <<n, c>>
  BY DEF PlanOf, CommittedOf
<1>3. \A p : p \in PlanOf(s)' <=> p \in PlanOf(s)
  BY <1>1, <1>2 DEF RequestsStay
<1>4. QED
  BY <1>3

\* A step that seals no effect seals no request.
LEMMA QuietRequests ==
  ASSUME Onward, Quiet
  PROVE  RequestsStay
<1>1. \A s \in Sequence : "CLOUDFLARE_BATCH" \in EffectSlots(s) /\ "CLOUDFLARE_BATCH" \in Roster(s)
  BY DEF EffectSlots, Roster
<1>2. ASSUME NEW s \in Sequence, NEW n \in DOMAIN issuances[s]
      PROVE  n \in DOMAIN issuances'[s] /\ CommittedOf(s, n)' = CommittedOf(s, n)
  BY <1>1 DEF Onward, Quiet, SameEffect, CommittedOf
<1>3. ASSUME NEW s \in Sequence, NEW n \in DOMAIN issuances'[s] \ DOMAIN issuances[s]
      PROVE  CommittedOf(s, n)' = {}
  BY <1>1 DEF Onward, Blank, CommittedOf
<1>4. QED
  BY <1>2, <1>3 DEF RequestsStay

\* Nor does the confirmation of an effect.
LEMMA ConfirmRequests ==
  ASSUME NEW s \in Sequence, NEW n \in DOMAIN issuances[s], NEW x \in EffectSlots(s), QuietBut(s, n),
         \A z \in Sequence : DOMAIN issuances'[z] = DOMAIN issuances[z],
         issuances'[s][n].slots[x].committed = issuances[s][n].slots[x].committed,
         \A y \in EffectSlots(s) \ {x} : issuances'[s][n].slots[y] = issuances[s][n].slots[y]
  PROVE  RequestsStay
<1>1. \A z \in Sequence : "CLOUDFLARE_BATCH" \in EffectSlots(z)
  BY DEF EffectSlots, Roster
<1>2. ASSUME NEW z \in Sequence, NEW k \in DOMAIN issuances[z]
      PROVE  CommittedOf(z, k)' = CommittedOf(z, k)
  <2>1. CASE z = s /\ k = n
    BY <1>1, <2>1 DEF CommittedOf
  <2>2. CASE ~(z = s /\ k = n)
    BY <1>1, <2>2 DEF QuietBut, SameEffect, CommittedOf
  <2>3. QED
    BY <2>1, <2>2
<1>3. QED
  BY <1>2 DEF RequestsStay

\* The request of an attempt is its last issuance's.
LEMMA LastPlan ==
  ASSUME JournalInv, NEW s \in Sequence, NEW n \in DOMAIN issuances[s], n = Len(issuances[s])
  PROVE  /\ \A k \in DOMAIN issuances[s] : k # n => CommittedOf(s, k) = {}
         /\ ~InEffect(issuances[s][n].slots["CLOUDFLARE_BATCH"]) => CommittedOf(s, n) = {}
<1>1. "CLOUDFLARE_BATCH" \in Roster(s)
  BY DEF Roster
<1>2. ASSUME NEW k \in DOMAIN issuances[s], ~InEffect(issuances[s][k].slots["CLOUDFLARE_BATCH"])
      PROVE  CommittedOf(s, k) = {}
  <2>1. issuances[s][k] \in Issuance(s) /\ Sound(issuances[s][k])
    BY LenProperties DEF JournalInv, JournalTypeOK, AllSound
  <2>2. /\ issuances[s][k].slots["CLOUDFLARE_BATCH"] \in Slot
        /\ "CLOUDFLARE_BATCH" \in DOMAIN issuances[s][k].slots
    BY <1>1, <2>1 DEF Issuance
  <2>3. ShapedSlot(issuances[s][k].issued, issuances[s][k].slots["CLOUDFLARE_BATCH"])
    BY <2>1, <2>2 DEF Sound, SlotShaped
  <2>4. QED
    BY <1>2, <2>2, <2>3 DEF ShapedSlot, InEffect, Slot, SlotState, CommittedOf
<1>3. ASSUME NEW k \in DOMAIN issuances[s], k # n
      PROVE  ~InEffect(issuances[s][k].slots["CLOUDFLARE_BATCH"])
  <2>1. issuances[s][k] \in Issuance(s)
    BY LenProperties DEF JournalInv, JournalTypeOK
  <2>2. "CLOUDFLARE_BATCH" \in DOMAIN issuances[s][k].slots
    BY <1>1, <2>1 DEF Issuance
  <2>3. ~Dispatched(issuances[s][k])
    BY <1>3 DEF JournalInv, DispatchedIsFinal
  <2>4. QED
    BY <2>2, <2>3 DEF Dispatched
<1>4. QED
  BY <1>2, <1>3

\* Effects other than records are called for as before.
LEMMA SameCalls ==
  ASSUME NEW s, NEW n, NEW times, calls' = calls \/ calls' = calls \cup {Call(s, n, "RECORD", c) : c \in times},
         NEW z
  PROVE  CalledEffects(z)' = CalledEffects(z)
BY DEF CalledEffects, Call

\* What the abstract plan sees of a step.
NoPlanStep ==
  \A s \in Sequence : /\ PlanOf(s)' = PlanOf(s)
                      /\ CalledEffects(s)' = CalledEffects(s)
                      /\ records'[s].state = records[s].state

\* That is, nothing.
LEMMA NoPlanStepStutters ==
  ASSUME NoPlanStep
  PROVE  UNCHANGED Plan!planVars
BY DEF NoPlanStep, Plan!planVars

\* A step that seals no request and calls for nothing.
LEMMA StaysPut ==
  ASSUME RequestsStay, calls' = calls, records' = records
  PROVE  NoPlanStep
BY SamePlans, SameCalls DEF NoPlanStep

\* A step that leaves the journal alone.
LEMMA StandsPut ==
  ASSUME RunnerInv, UNCHANGED journalVars, calls' = calls
  PROVE  NoPlanStep
BY RunnerInvReady, StandsStill, QuietRequests, StaysPut DEF journalVars

-----------------------------------------------------------------------------
\* An issuance is made or joined.
LEMMA IssuancePlan ==
  ASSUME RunnerInv, NEW r \in Runs, Reserves(r) \/ Reissues(r)
  PROVE  NoPlanStep
<1>1. JournalReady
  BY RunnerInvReady
<1>2. runs[r].pc # "idle" /\ calls' = calls
  BY DEF Reserves, Reissues, At, externalVars
<1>3. PICK s : s = SequenceOf(r) /\ s \in Sequence
  BY <1>2, UnderWay
<1>4. \/ \E q, at : Reserve(s, q, at)
      \/ \E n, at : ReissueStale(s, n, at)
      \/ UNCHANGED journalVars
  BY <1>3 DEF Reserves, Reissues
<1>5. CASE \E q, at : Reserve(s, q, at)
  <2>1. Onward /\ Quiet /\ records' = records
    BY <1>1, <1>3, <1>5, ReserveMoves DEF Reserve
  <2>2. QED
    BY <1>2, <2>1, QuietRequests, StaysPut
<1>6. CASE \E n, at : ReissueStale(s, n, at)
  <2>1. Onward /\ Quiet /\ records' = records
    BY <1>1, <1>3, <1>6, ReissueMoves DEF ReissueStale
  <2>2. QED
    BY <1>2, <2>1, QuietRequests, StaysPut
<1>7. QED
  BY <1>2, <1>4, <1>5, <1>6, StandsPut

\* A read.
LEMMA ReadPlan ==
  ASSUME RunnerInv, NEW r \in Runs, NEW x \in Reads, Prepares(r, x) \/ ReadAnswers(r, x)
  PROVE  NoPlanStep
<1>1. JournalReady /\ 0 \in Sequence
  BY RunnerInvReady DEF Sequence
<1>2. calls' = calls
  BY DEF Prepares, ReadAnswers, externalVars
<1>3. PICK n : \/ PrepareRead(0, n, x)
               \/ \E t : FreezeRead(0, n, x, t)
               \/ \E t : ReadExpires(0, n, t)
               \/ UNCHANGED journalVars
  BY DEF Prepares, ReadAnswers
<1>4. CASE PrepareRead(0, n, x)
  <2>1. Onward /\ Quiet /\ records' = records
    BY <1>1, <1>4, PrepareReadMoves DEF PrepareRead, Put
  <2>2. QED
    BY <1>2, <2>1, QuietRequests, StaysPut
<1>5. CASE \E t : FreezeRead(0, n, x, t)
  <2>1. Onward /\ Quiet /\ records' = records
    BY <1>1, <1>5, FreezeReadMoves DEF FreezeRead, Put
  <2>2. QED
    BY <1>2, <2>1, QuietRequests, StaysPut
<1>6. CASE \E t : ReadExpires(0, n, t)
  <2>1. Onward /\ Quiet /\ records' = records
    BY <1>1, <1>6, ExpiredMoves DEF ReadExpires, Live, Put
  <2>2. QED
    BY <1>2, <2>1, QuietRequests, StaysPut
<1>7. QED
  BY <1>2, <1>3, <1>4, <1>5, <1>6, StandsPut

\* An effect answers.
LEMMA EffectPlan ==
  ASSUME RunnerInv, NEW r \in Runs, NEW x, EffectAnswers(r, x)
  PROVE  NoPlanStep
<1>1. JournalReady
  BY RunnerInvReady
<1>2. runs[r].pc = "effects" /\ x \in runs[r].under /\ calls' = calls
  BY DEF EffectAnswers, At, externalVars
<1>3. PICK s, n : s = SequenceOf(r) /\ n = runs[r].n
  OBVIOUS
<1>4. s \in Sequence /\ n \in DOMAIN issuances[s] /\ x \in EffectSlots(s)
  BY <1>2, <1>3, UnderWay
<1>5. \/ x = "CLOUDFLARE_BATCH" /\ \E t : ConfirmCloudflare(s, n, t)
      \/ x # "CLOUDFLARE_BATCH" /\ ConfirmDirect(n, x)
      \/ UNCHANGED journalVars
  BY <1>3 DEF EffectAnswers
<1>6. CASE x = "CLOUDFLARE_BATCH" /\ \E t : ConfirmCloudflare(s, n, t)
  <2>1. /\ QuietBut(s, n) /\ records' = records
        /\ \A z \in Sequence : DOMAIN issuances'[z] = DOMAIN issuances[z]
        /\ issuances'[s][n].slots[x].committed = issuances[s][n].slots[x].committed
        /\ \A y \in EffectSlots(s) \ {x} : issuances'[s][n].slots[y] = issuances[s][n].slots[y]
    BY <1>1, <1>4, <1>6, ConfirmCloudflareMoves DEF ConfirmCloudflare, Put
  <2>2. QED
    BY <1>2, <1>4, <2>1, ConfirmRequests, StaysPut
<1>7. CASE x # "CLOUDFLARE_BATCH" /\ ConfirmDirect(n, x)
  <2>1. s = 0
    BY <1>4, <1>7 DEF EffectSlots, Roster
  <2>2. /\ QuietBut(s, n) /\ records' = records
        /\ \A z \in Sequence : DOMAIN issuances'[z] = DOMAIN issuances[z]
        /\ issuances'[s][n].slots[x].committed = issuances[s][n].slots[x].committed
        /\ \A y \in EffectSlots(s) \ {x} : issuances'[s][n].slots[y] = issuances[s][n].slots[y]
    BY <1>1, <1>7, <2>1, ConfirmDirectMoves, ZenonT(60) DEF ConfirmDirect, Put
  <2>3. QED
    BY <1>2, <1>4, <2>2, ConfirmRequests, StaysPut
<1>8. QED
  BY <1>2, <1>5, <1>6, <1>7, StandsPut

\* Calls by one request carry out the plan.
LEMMA CarriesOut ==
  ASSUME NEW s \in Sequence, NEW n \in Ordinals, NEW c \in Times, NEW open \in SUBSET EffectSlots(s),
         "RECORD" \notin open,
         s = 1 => records[0].state = "CONFIRMED",
         PlanOf(s) \subseteq {<<n, c>>}, PlanOf(s)' = {<<n, c>>},
         calls' = calls \cup {Call(s, n, x, c) : x \in open},
         \A z \in Sequence \ {s} : PlanOf(z)' = PlanOf(z),
         records' = records
  PROVE  Plan!CarryOut(s)
<1>1. CalledEffects(s)' = CalledEffects(s) \cup (open \X {<<n, c>>})
  <2>1. \A e : e \in CalledEffects(s) <=>
                 \E k \in calls : /\ k.sequence = s /\ k.slot # "RECORD"
                                  /\ e = <<k.slot, <<k.ordinal, k.committed>>>>
    BY DEF CalledEffects
  <2>2. \A e : e \in CalledEffects(s)' <=>
                 \E k \in calls' : /\ k.sequence = s /\ k.slot # "RECORD"
                                   /\ e = <<k.slot, <<k.ordinal, k.committed>>>>
    BY DEF CalledEffects
  <2>3. \A x \in open : /\ Call(s, n, x, c).sequence = s /\ Call(s, n, x, c).slot = x
                        /\ Call(s, n, x, c).ordinal = n /\ Call(s, n, x, c).committed = c
                        /\ x # "RECORD"
    BY DEF Call
  <2>4. \A e : e \in open \X {<<n, c>>} <=> \E x \in open : e = <<x, <<n, c>>>>
    OBVIOUS
  <2>5. \A e : e \in CalledEffects(s)' <=> e \in CalledEffects(s) \/ e \in open \X {<<n, c>>}
    <3>1. ASSUME NEW e, e \in CalledEffects(s)' PROVE e \in CalledEffects(s) \/ e \in open \X {<<n, c>>}
      <4>1. PICK k \in calls' : /\ k.sequence = s /\ k.slot # "RECORD"
                                /\ e = <<k.slot, <<k.ordinal, k.committed>>>>
        BY <2>2, <3>1
      <4>2. CASE k \in calls
        BY <2>1, <4>1, <4>2
      <4>3. ASSUME NEW x \in open, k = Call(s, n, x, c) PROVE e \in open \X {<<n, c>>}
        BY <2>3, <2>4, <4>1, <4>3
      <4>4. QED
        BY <4>1, <4>2, <4>3
    <3>2. ASSUME NEW e, e \in CalledEffects(s) PROVE e \in CalledEffects(s)'
      BY <2>1, <2>2, <3>2
    <3>3. ASSUME NEW e, e \in open \X {<<n, c>>} PROVE e \in CalledEffects(s)'
      <4>1. PICK x \in open : e = <<x, <<n, c>>>>
        BY <2>4, <3>3
      <4>2. Call(s, n, x, c) \in calls'
        BY <4>1
      <4>3. QED
        BY <2>2, <2>3, <4>1, <4>2
    <3>4. QED
      BY <3>1, <3>2, <3>3
  <2>6. QED
    BY <2>5
<1>2. \A z \in Sequence \ {s} : CalledEffects(z)' = CalledEffects(z)
  BY DEF CalledEffects, Call
<1>3. <<n, c>> \in Ordinals \X Times
  OBVIOUS
<1>4. s = 1 => Progress[records[0].state] = "stored"
  BY DEF Progress
<1>5. 0 \in Sequence /\ 1 \in Sequence
  BY DEF Sequence
<1>6. [z \in Sequence |-> PlanOf(z)'] = [[z \in Sequence |-> PlanOf(z)] EXCEPT ![s] = {<<n, c>>}]
  OBVIOUS
<1>7. [z \in Sequence |-> CalledEffects(z)'] =
        [[z \in Sequence |-> CalledEffects(z)] EXCEPT ![s] = @ \cup (open \X {<<n, c>>})]
  BY <1>1, <1>2
<1>8. [z \in Sequence |-> Progress[records'[z].state]] = [z \in Sequence |-> Progress[records[z].state]]
  OBVIOUS
<1>9. [z \in Sequence |-> EffectSlots(z)][s] = EffectSlots(s)
  OBVIOUS
<1>10. QED
  BY <1>3, <1>4, <1>5, <1>6, <1>7, <1>8, <1>9 DEF Plan!CarryOut, Ordinals, Times

\* The plan of an attempt whose last issuance has the given request.
LEMMA PlanByLast ==
  ASSUME NEW s, NEW n \in DOMAIN issuances[s], NEW times,
         \A k \in DOMAIN issuances[s] : CommittedOf(s, k) = IF k = n THEN times ELSE {}
  PROVE  PlanOf(s) = {<<n, c>> : c \in times}
<1>1. \A p : p \in PlanOf(s) <=> \E k \in DOMAIN issuances[s] : \E c \in CommittedOf(s, k) : p = <<k, c>>
  BY DEF PlanOf, CommittedOf
<1>2. QED
  BY <1>1

\* The same of the next state.
LEMMA PlanByLastNext ==
  ASSUME NEW s, NEW n \in DOMAIN issuances'[s], NEW times,
         \A k \in DOMAIN issuances'[s] : CommittedOf(s, k)' = IF k = n THEN times ELSE {}
  PROVE  PlanOf(s)' = {<<n, c>> : c \in times}
<1>1. \A p : p \in PlanOf(s)' <=> \E k \in DOMAIN issuances'[s] : \E c \in CommittedOf(s, k)' : p = <<k, c>>
  BY DEF PlanOf, CommittedOf
<1>2. QED
  BY <1>1

\* Sealing a plan, or finding it sealed, carries it out.
LEMMA DelegatePlan ==
  ASSUME RunnerInv, NEW r \in Runs, Delegates(r)
  PROVE  NoPlanStep \/ \E s \in Sequence : Plan!CarryOut(s)
<1> DEFINE Seal(s, n, c) == IF s = 0 THEN DelegateProvision(n, c) ELSE DelegateCloudflare(s, n, c)
<1>1. RunnerBounds /\ JournalReady /\ JournalInv /\ PlanSound
  BY RunnerInvReady DEF RunnerInv
<1>2. runs[r].pc = "delegate"
  BY DEF Delegates, At
<1>3. PICK s, n, c : s = SequenceOf(r) /\ n = runs[r].n /\ c = runs[r].committed
  OBVIOUS
<1>4. /\ runs[r] \in Run /\ s \in Sequence /\ n \in DOMAIN issuances[s] /\ n \in Ordinals
      /\ c \in Nat
      /\ s = 1 => records[0].state = "CONFIRMED"
  BY <1>1, <1>2, <1>3, UnderWay DEF Run, RunnerBounds
<1>5. "CLOUDFLARE_BATCH" \in EffectSlots(s) /\ "RECORD" \notin EffectSlots(s)
  BY RunnerAssumption DEF EffectSlots, Roster
<1>6. Launches(r) => \E open \in SUBSET EffectSlots(s) : calls' = calls \cup {Call(s, n, x, c) : x \in open}
  <2> DEFINE open == {x \in EffectSlots(s) : IssuanceOf(r).slots[x].state # "CONFIRMED"}
  <2>1. open \in SUBSET EffectSlots(s)
    OBVIOUS
  <2>2. Launches(r) => calls' = calls \cup {Call(s, n, x, c) : x \in open}
    BY <1>3 DEF Launches
  <2>3. QED
    BY <2>1, <2>2
<1>7. CASE CurrentOrHeld(s, n) /\ SealedAs(s, issuances[s][n], c) /\ UNCHANGED journalVars /\ Launches(r)
  <2>1. n = Len(issuances[s]) /\ CommittedOf(s, n) = {c}
    BY <1>5, <1>7 DEF CurrentOrHeld, CurrentIn, SealedAs, CommittedOf
  <2>2. \A k \in DOMAIN issuances[s] : CommittedOf(s, k) = IF k = n THEN {c} ELSE {}
    BY <1>1, <1>4, <2>1, LastPlan
  <2>3. PlanOf(s) = {<<n, c>>}
    BY <1>4, <2>2, PlanByLast
  <2>4. RequestsStay /\ records' = records
    BY <1>1, <1>7, StandsStill, QuietRequests DEF journalVars
  <2>5. \A z \in Sequence : PlanOf(z)' = PlanOf(z)
    BY <2>4, SamePlans
  <2>6. c \in Times
    <3>1. PICK d \in Times : SealedBy(s, n, d)
      BY <1>1, <1>4, <1>5, <1>7 DEF PlanSound, Unsealed, SealedAs
    <3>2. d = c
      BY <1>5, <1>7, <3>1 DEF SealedAs, SealedBy
    <3>3. QED
      BY <3>1, <3>2
  <2>7. PICK open \in SUBSET EffectSlots(s) : calls' = calls \cup {Call(s, n, x, c) : x \in open}
    BY <1>6, <1>7
  <2>8. Plan!CarryOut(s)
    <3>1. "RECORD" \notin open /\ PlanOf(s) \subseteq {<<n, c>>} /\ PlanOf(s)' = {<<n, c>>}
      BY <1>4, <1>5, <2>3, <2>5
    <3>2. QED
      BY <1>4, <2>4, <2>5, <2>6, <2>7, <3>1, CarriesOut
  <2>9. QED
    BY <1>4, <2>8
<1>8. CASE Seal(s, n, c) /\ now <= FreshUntil(issuances[s][n]) /\ Launches(r)
  <2>1. /\ QuietBut(s, n) /\ c \in 0 .. now /\ n = Len(issuances[s])
        /\ issuances[s][n].slots["CLOUDFLARE_BATCH"].state = "PREPARED"
        /\ \A z \in Sequence : DOMAIN issuances'[z] = DOMAIN issuances[z]
        /\ \A x \in EffectSlots(s) : issuances'[s][n].slots[x].committed = {c}
    BY <1>1, <1>4, <1>8, PlanSealed
  <2>2. records' = records
    <3>1. \E xs : SealEffects(s, n, xs, c)
      BY <1>4, <1>8 DEF DelegateProvision, DelegateCloudflare, Sequence
    <3>2. QED
      BY <3>1 DEF SealEffects, Put
  <2>3. \A k \in DOMAIN issuances[s] : CommittedOf(s, k) = {}
    BY <1>1, <1>4, <2>1, LastPlan DEF InEffect
  <2>4. PlanOf(s) = {}
    <3>1. PlanOf(s) = {<<n, t>> : t \in {}}
      BY <1>4, <2>3, PlanByLast
    <3>2. QED
      BY <3>1
  <2>5. \A k \in DOMAIN issuances[s] : k # n => CommittedOf(s, k)' = CommittedOf(s, k)
    BY <1>4, <1>5, <2>1 DEF QuietBut, SameEffect, CommittedOf
  <2>6. CommittedOf(s, n)' = {c}
    BY <1>5, <2>1 DEF CommittedOf
  <2>7. \A k \in DOMAIN issuances'[s] : CommittedOf(s, k)' = IF k = n THEN {c} ELSE {}
    BY <1>4, <2>1, <2>3, <2>5, <2>6
  <2>8. PlanOf(s)' = {<<n, c>>}
    <3>1. n \in DOMAIN issuances'[s]
      BY <1>4, <2>1
    <3>2. PlanOf(s)' = {<<n, t>> : t \in {c}}
      BY <2>7, <3>1, PlanByLastNext
    <3>3. QED
      BY <3>2
  <2>9. ASSUME NEW z \in Sequence \ {s} PROVE PlanOf(z)' = PlanOf(z)
    <3>1. "CLOUDFLARE_BATCH" \in EffectSlots(z)
      BY DEF EffectSlots, Roster
    <3>2. \A k \in DOMAIN issuances[z] : CommittedOf(z, k)' = CommittedOf(z, k)
      BY <2>1, <3>1 DEF QuietBut, SameEffect, CommittedOf
    <3>3. DOMAIN issuances'[z] = DOMAIN issuances[z]
      BY <2>1
    <3>4. \A p : p \in PlanOf(z) <=> \E k \in DOMAIN issuances[z] : \E t \in CommittedOf(z, k) : p = <<k, t>>
      BY DEF PlanOf, CommittedOf
    <3>5. \A p : p \in PlanOf(z)' <=> \E k \in DOMAIN issuances'[z] : \E t \in CommittedOf(z, k)' : p = <<k, t>>
      BY DEF PlanOf, CommittedOf
    <3>6. \A p : p \in PlanOf(z)' <=> p \in PlanOf(z)
      BY <3>2, <3>3, <3>4, <3>5
    <3>7. QED
      BY <3>6
  <2>10. c \in Times
    BY <1>1, <1>4, <2>1, JournalAssumption DEF JournalReady, Times
  <2>11. PICK open \in SUBSET EffectSlots(s) : calls' = calls \cup {Call(s, n, x, c) : x \in open}
    BY <1>6, <1>8
  <2>12. Plan!CarryOut(s)
    <3>1. "RECORD" \notin open /\ PlanOf(s) \subseteq {<<n, c>>}
      BY <1>5, <2>4
    <3>2. QED
      BY <1>4, <2>2, <2>8, <2>9, <2>10, <2>11, <3>1, CarriesOut
  <2>13. QED
    BY <1>4, <2>12
<1>9. CASE Seal(s, n, c) /\ now > FreshUntil(issuances[s][n]) /\ calls' = calls
  <2>1. \E states : CurrentIn(s, n, states) /\ Put(s, n, Expired(issuances[s][n]))
    <3>1. FreshUntil(issuances[s][n]) \in Nat /\ now \in Nat
      <4>1. issuances[s][n] \in Issuance(s)
        BY <1>1, <1>4, LenProperties DEF JournalInv, JournalTypeOK
      <4>2. QED
        BY <1>1, <4>1, JournalAssumption DEF FreshUntil, Issuance, JournalReady, Times
    <3>2. /\ Current(s, n)
          /\ \E xs : SealEffects(s, n, xs, c) /\ xs # {}
      BY <1>4, <1>9 DEF DelegateProvision, DelegateCloudflare, Sequence
    <3>3. Put(s, n, Expired(issuances[s][n]))
      BY <1>9, <3>1, <3>2 DEF SealEffects, Chronological
    <3>4. QED
      BY <3>2, <3>3 DEF Current
  <2>2. Onward /\ Quiet /\ records' = records
    BY <1>1, <1>4, <2>1, ExpiredMoves DEF Put
  <2>3. QED
    BY <1>9, <2>2, QuietRequests, StaysPut
<1>10. CASE UNCHANGED <<journalVars, calls>>
  <2>1. UNCHANGED journalVars /\ calls' = calls
    BY <1>10
  <2>2. QED
    BY <2>1, StandsPut
<1>11. QED
  BY <1>3, <1>7, <1>8, <1>9, <1>10 DEF Delegates, IssuanceOf

\* A final issuance's effects were all called for, by the one request.
LEMMA FinalPlan ==
  ASSUME RunnerInv, NEW s \in Sequence, NEW n \in DOMAIN issuances[s], n = Len(issuances[s]),
         RosterFinal(issuances[s][n])
  PROVE  PlanOf(s) # {} /\ CalledEffects(s) = EffectSlots(s) \X PlanOf(s)
<1>1. JournalInv /\ PlanSound /\ CallsSound
  BY DEF RunnerInv
<1>2. issuances[s][n] \in Issuance(s) /\ \A k \in DOMAIN issuances[s] : issuances[s][k] \in Issuance(s)
  BY <1>1, LenProperties DEF JournalInv, JournalTypeOK
<1>3. "CLOUDFLARE_BATCH" \in EffectSlots(s) /\ EffectSlots(s) \subseteq Roster(s)
      /\ "CONTROLLER_ACTION" \notin EffectSlots(s) /\ "RECORD" \notin EffectSlots(s)
  BY RunnerAssumption DEF EffectSlots, Roster
<1>4. \A x \in EffectSlots(s) : issuances[s][n].slots[x].state = "CONFIRMED"
  BY <1>2, <1>3 DEF RosterFinal, Issuance
<1>5. PICK c \in Times : SealedBy(s, n, c)
  BY <1>1, <1>3, <1>4 DEF PlanSound, Unsealed, InEffect
<1>6. CommittedOf(s, n) = {c}
  BY <1>3, <1>5 DEF SealedBy, CommittedOf
<1>7. \A k \in DOMAIN issuances[s] : CommittedOf(s, k) = IF k = n THEN {c} ELSE {}
  BY <1>1, <1>6, LastPlan
<1>8. PlanOf(s) = {<<n, c>>}
  <2>1. PlanOf(s) = {<<n, t>> : t \in {c}}
    BY <1>7, PlanByLast
  <2>2. QED
    BY <2>1
<1>9. \A e : e \in CalledEffects(s) <=>
               \E k \in calls : /\ k.sequence = s /\ k.slot # "RECORD"
                                /\ e = <<k.slot, <<k.ordinal, k.committed>>>>
  BY DEF CalledEffects
<1>10. ASSUME NEW x \in EffectSlots(s) PROVE <<x, <<n, c>>>> \in CalledEffects(s)
  <2>1. Call(s, n, x, c) \in calls
    BY <1>4, <1>5 DEF SealedBy
  <2>2. /\ Call(s, n, x, c).sequence = s /\ Call(s, n, x, c).slot = x
        /\ Call(s, n, x, c).ordinal = n /\ Call(s, n, x, c).committed = c
    BY DEF Call
  <2>3. QED
    BY <1>3, <1>9, <2>1, <2>2
<1>11. ASSUME NEW k \in calls, k.sequence = s, k.slot # "RECORD"
       PROVE  k.slot \in EffectSlots(s) /\ k.ordinal = n /\ k.committed = c
  <2>1. /\ k.slot \in EffectSlots(s) /\ k.ordinal \in DOMAIN issuances[s]
        /\ InEffect(issuances[s][k.ordinal].slots[k.slot])
        /\ issuances[s][k.ordinal].slots[k.slot].committed = {k.committed}
    BY <1>1, <1>11 DEF CallsSound, CallSound
  <2>2. k.slot \in DOMAIN issuances[s][k.ordinal].slots
    BY <1>2, <1>3, <2>1 DEF Issuance
  <2>3. Dispatched(issuances[s][k.ordinal])
    BY <2>1, <2>2 DEF Dispatched
  <2>4. k.ordinal = n
    BY <1>1, <2>1, <2>3 DEF JournalInv, DispatchedIsFinal
  <2>5. issuances[s][n].slots[k.slot].committed = {c}
    BY <1>5, <2>1 DEF SealedBy
  <2>6. QED
    BY <2>1, <2>4, <2>5
<1>12. \A e : e \in CalledEffects(s) <=> \E x \in EffectSlots(s) : e = <<x, <<n, c>>>>
  BY <1>9, <1>10, <1>11
<1>13. CalledEffects(s) = EffectSlots(s) \X {<<n, c>>}
  BY <1>12
<1>14. QED
  BY <1>8, <1>13

\* A record that is made or stored, as the abstract plan sees it.
LEMMA RecordMovesOn ==
  ASSUME NEW s \in Sequence, NEW state \in {"APPENDED", "CONFIRMED"},
         \A z \in Sequence : PlanOf(z)' = PlanOf(z),
         calls' = calls,
         records'[s].state = state,
         \A z \in Sequence \ {s} : records'[z].state = records[z].state
  PROVE  /\ state = "APPENDED" /\ records[s].state = "MISSING" /\ PlanOf(s) # {}
              /\ CalledEffects(s) = EffectSlots(s) \X PlanOf(s) => Plan!Make(s)
         /\ state = "CONFIRMED" /\ records[s].state = "APPENDED" => Plan!Store(s)
<1>1. \A z \in Sequence : CalledEffects(z)' = CalledEffects(z)
  BY DEF CalledEffects
<1>2. [z \in Sequence |-> PlanOf(z)'] = [z \in Sequence |-> PlanOf(z)]
  OBVIOUS
<1>3. [z \in Sequence |-> CalledEffects(z)'] = [z \in Sequence |-> CalledEffects(z)]
  BY <1>1
<1>4. [z \in Sequence |-> Progress[records'[z].state]] =
        [[z \in Sequence |-> Progress[records[z].state]] EXCEPT ![s] = Progress[state]]
  OBVIOUS
<1>5. /\ Progress["MISSING"] = "none" /\ Progress["APPENDED"] = "made"
      /\ Progress["CONFIRMED"] = "stored"
  BY DEF Progress
<1>6. ASSUME state = "APPENDED", records[s].state = "MISSING", PlanOf(s) # {},
             CalledEffects(s) = EffectSlots(s) \X PlanOf(s)
      PROVE  Plan!Make(s)
  BY <1>2, <1>3, <1>4, <1>5, <1>6 DEF Plan!Make
<1>7. ASSUME state = "CONFIRMED", records[s].state = "APPENDED"
      PROVE  Plan!Store(s)
  BY <1>2, <1>3, <1>4, <1>5, <1>7 DEF Plan!Store
<1>8. QED
  BY <1>6, <1>7

\* The record is made of a plan carried out, and stored once made.
LEMMA RecordPlan ==
  ASSUME RunnerInv, NEW r \in Runs, Appends(r) \/ RecordWormAnswers(r)
  PROVE  NoPlanStep \/ \E s \in Sequence : Plan!Make(s) \/ Plan!Store(s)
<1>1. JournalReady /\ JournalInv /\ JournalTypeOK
  BY RunnerInvReady DEF RunnerInv
<1>2. runs[r].pc \in {"append", "mirror"} /\ calls' = calls
  BY DEF Appends, RecordWormAnswers, At, externalVars
<1>3. PICK s, n : s = SequenceOf(r) /\ n = runs[r].n
  OBVIOUS
<1>4. s \in Sequence
  BY <1>2, <1>3, UnderWay
<1>5. FreezeAndAppend(s, n) \/ ConfirmRecordWorm(s, n) \/ UNCHANGED journalVars
  BY <1>3 DEF Appends, RecordWormAnswers
<1>6. FreezeAndAppend(s, n) \/ ConfirmRecordWorm(s, n) => \A z \in Sequence : PlanOf(z)' = PlanOf(z)
  BY <1>1, <1>4, RecordMoves, QuietRequests, SamePlans
<1>7. CASE FreezeAndAppend(s, n)
  <2>1. /\ n \in DOMAIN issuances[s] /\ n = Len(issuances[s])
        /\ RosterFinal(issuances[s][n]) /\ records[s].state = "MISSING"
    BY <1>7 DEF FreezeAndAppend, CurrentIn
  <2>2. PlanOf(s) # {} /\ CalledEffects(s) = EffectSlots(s) \X PlanOf(s)
    BY <1>4, <2>1, FinalPlan
  <2>3. /\ records'[s].state = "APPENDED"
        /\ \A z \in Sequence \ {s} : records'[z].state = records[z].state
    BY <1>1, <1>4, <1>7 DEF FreezeAndAppend, JournalTypeOK
  <2>4. Plan!Make(s)
    BY <1>2, <1>4, <1>6, <1>7, <2>1, <2>2, <2>3, RecordMovesOn
  <2>5. QED
    BY <1>4, <2>4
<1>8. CASE ConfirmRecordWorm(s, n)
  <2>1. /\ n \in DOMAIN issuances[s] /\ n = Len(issuances[s])
        /\ issuances[s][n].state = "RECORD_APPENDED"
    BY <1>8 DEF ConfirmRecordWorm, CurrentIn
  <2>2. records[s].state = "APPENDED"
    <3>1. issuances[s] # <<>>
      BY <1>4, <2>1, <1>1, EmptySeq DEF JournalTypeOK
    <3>2. QED
      BY <1>1, <1>4, <2>1, <3>1 DEF JournalInv, TablesAgree, StatesAgree, Latest
  <2>3. /\ records'[s].state = "CONFIRMED"
        /\ \A z \in Sequence \ {s} : records'[z].state = records[z].state
    BY <1>1, <1>4, <1>8 DEF ConfirmRecordWorm, JournalTypeOK, Record
  <2>4. Plan!Store(s)
    BY <1>2, <1>4, <1>6, <1>8, <2>2, <2>3, RecordMovesOn
  <2>5. QED
    BY <1>4, <2>4
<1>9. QED
  BY <1>2, <1>5, <1>7, <1>8, StandsPut

\* The issuance is ready for its record.
LEMMA ReadiesPlan ==
  ASSUME RunnerInv, NEW r \in Runs, Readies(r)
  PROVE  NoPlanStep
<1>1. JournalReady
  BY RunnerInvReady
<1>2. runs[r].pc = "ready" /\ calls' = calls
  BY DEF Readies, At, externalVars
<1>3. SequenceOf(r) \in Sequence
  BY <1>2, UnderWay
<1>4. ReadyToAppend(SequenceOf(r), runs[r].n) \/ UNCHANGED journalVars
  BY DEF Readies
<1>5. CASE ReadyToAppend(SequenceOf(r), runs[r].n)
  <2>1. Onward /\ Quiet /\ records' = records
    BY <1>1, <1>3, <1>5, ReadyMoves DEF ReadyToAppend, Put
  <2>2. QED
    BY <1>2, <2>1, QuietRequests, StaysPut
<1>6. QED
  BY <1>2, <1>4, <1>5, StandsPut

\* Only the record itself is called for.
LEMMA FindsRecordPlan ==
  ASSUME RunnerInv, NEW r \in Runs, FindsRecordWorm(r)
  PROVE  NoPlanStep
<1>1. UNCHANGED journalVars /\ records' = records
  BY DEF FindsRecordWorm, journalVars
<1>2. RequestsStay
  BY <1>1, RunnerInvReady, StandsStill, QuietRequests
<1>3. \E s, n, times : calls' = calls \/ calls' = calls \cup {Call(s, n, "RECORD", c) : c \in times}
  BY DEF FindsRecordWorm
<1>4. QED
  BY <1>1, <1>2, <1>3, SamePlans, SameCalls DEF NoPlanStep

\* Steps that are nobody's.
LEMMA AlonePlan ==
  ASSUME RunnerInv, \/ UNCHANGED runnerVars \/ Evict \/ Tick
                    \/ \E s \in Sequence, n \in 1 .. MaxOrdinal : BatchSeals(s, n)
  PROVE  NoPlanStep
<1>1. calls' = calls /\ records' = records /\ issuances' = issuances
  BY DEF runnerVars, externalVars, journalVars, Evict, Tick, JournalTick, BatchSeals
<1>2. RequestsStay
  BY <1>1 DEF RequestsStay, CommittedOf
<1>3. QED
  BY <1>1, <1>2, StaysPut

\* Every step is one of the plan, or none.
LEMMA PlanStep ==
  ASSUME RunnerInv, [RunnerNext]_runnerVars
  PROVE  [Plan!PlanNext]_(Plan!planVars)
<1>1. ASSUME NEW r \in Runs, CallerStep(r) PROVE NoPlanStep \/ Plan!PlanNext
  <2>1. CASE \/ Admit(r) \/ FindsStale(r) \/ Collects(r) \/ BuildsRequest(r) \/ RemoteCallFails(r)
    <3>1. UNCHANGED journalVars /\ calls' = calls
      BY <2>1 DEF Admit, FindsStale, Collects, BuildsRequest, RemoteCallFails, externalVars
    <3>2. QED
      BY <3>1, StandsPut
  <2>2. CASE Reserves(r) \/ Reissues(r)
    BY <2>2, IssuancePlan
  <2>3. CASE \E x \in Reads : Prepares(r, x) \/ ReadAnswers(r, x)
    BY <2>3, ReadPlan
  <2>4. CASE Delegates(r)
    BY <2>4, DelegatePlan DEF Plan!PlanNext, Sequence
  <2>5. CASE \E x \in EffectSlots(0) : EffectAnswers(r, x)
    BY <2>5, EffectPlan
  <2>6. CASE Readies(r) \/ FindsRecordWorm(r)
    BY <2>6, ReadiesPlan, FindsRecordPlan
  <2>7. CASE Appends(r) \/ RecordWormAnswers(r)
    BY <2>7, RecordPlan DEF Plan!PlanNext, Sequence
  <2>8. QED
    BY <1>1, <2>1, <2>2, <2>3, <2>4, <2>5, <2>6, <2>7 DEF CallerStep, RunStep
<1>2. NoPlanStep \/ Plan!PlanNext
  BY <1>1, AlonePlan DEF RunnerNext, CallerStep
<1>3. QED
  BY <1>2, NoPlanStepStutters

\* There is no plan at first.
LEMMA PlanInitially == RunnerInit => Plan!PlanInit
<1> SUFFICES ASSUME RunnerInit PROVE Plan!PlanInit
  OBVIOUS
<1>1. \A s \in Sequence : DOMAIN issuances[s] = {} /\ records[s].state = "MISSING"
  BY DEF RunnerInit, JournalInit
<1>2. \A s \in Sequence : PlanOf(s) = {}
  BY <1>1 DEF PlanOf
<1>3. \A s \in Sequence : CalledEffects(s) = {}
  BY DEF RunnerInit, CalledEffects
<1>4. \A s \in Sequence : Progress[records[s].state] = "none"
  BY <1>1 DEF Progress
<1>5. QED
  BY <1>2, <1>3, <1>4 DEF Plan!PlanInit, Sequence

\* Runs, reissues, retries and evictions together carry out one plan.
THEOREM RunnerImplementsOnePlan == RunnerSpec => ImplementsOnePlan
<1>1. RunnerInv /\ [RunnerNext]_runnerVars => [Plan!PlanNext]_(Plan!planVars)
  BY PlanStep
<1>2. QED
  BY RunnerInvariant, PlanInitially, <1>1, PTL DEF RunnerSpec, ImplementsOnePlan, Plan!PlanSpec
=============================================================================
