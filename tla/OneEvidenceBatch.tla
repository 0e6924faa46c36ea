------------------------- MODULE OneEvidenceBatch -------------------------
(* What the Cloudflare evidence batch promises the operation that delegated *)
(* it: at most one observation is ever sealed, it was made and sealed while *)
(* the delegation was fresh, every slot gets at most one object version,    *)
(* the batch ends CONFIRMED only with a version for every slot, and every   *)
(* answer is that one batch.                                                *)
EXTENDS Naturals

CONSTANTS Slot, Version, Observation, Instant, Fresh, None

VARIABLES sealed,    \* None, or the sealed observation and its two instants
          versions,  \* the version confirmed for each slot, or None
          outcome,   \* "OPEN", "CONFIRMED" or "HOLD"
          answered   \* the results callers were given

vars == <<sealed, versions, outcome, answered>>

Seals == {s \in [observation: Observation, observedAt: Instant, sealedAt: Instant] :
            s.observedAt <= s.sealedAt /\ s.sealedAt <= Fresh}

TypeOK ==
  /\ sealed \in Seals \cup {None}
  /\ versions \in [Slot -> Version \cup {None}]
  /\ outcome \in {"OPEN", "CONFIRMED", "HOLD"}

Init ==
  /\ sealed = None
  /\ versions = [s \in Slot |-> None]
  /\ outcome = "OPEN"
  /\ answered = {}

Seal == 
  /\ sealed = None
  /\ sealed' \in Seals
  /\ UNCHANGED <<versions, outcome, answered>>

\* The last confirmation of an open batch closes it in the same step.
Confirm(s, v) ==
  /\ sealed # None /\ versions[s] = None
  /\ \A o \in Slot : versions[o] # v
  /\ versions' = [versions EXCEPT ![s] = v]
  /\ outcome' = IF outcome = "OPEN" /\ \A o \in Slot : versions'[o] # None
                THEN "CONFIRMED" ELSE outcome
  /\ UNCHANGED <<sealed, answered>>

Hold ==
  /\ sealed # None /\ outcome = "OPEN"
  /\ outcome' = "HOLD"
  /\ UNCHANGED <<sealed, versions, answered>>

Answer ==
  /\ outcome = "CONFIRMED"
  /\ answered' = {[seal |-> sealed, versions |-> versions]}
  /\ UNCHANGED <<sealed, versions, outcome>>

Next ==
  \/ Seal \/ Hold \/ Answer
  \/ \E s \in Slot, v \in Version : Confirm(s, v)

Spec == Init /\ [][Next]_vars
=============================================================================
