--------------------------- MODULE OneActivation ---------------------------
(* What the activation registry of one worker version promises: one         *)
(* provisioned record and then one activated record that names it, each     *)
(* bound to one stored version for good, answers only of bound records, and *)
(* a global head that only ever receives the bound pair.                    *)
EXTENDS Naturals

CONSTANTS Record, Version, None

VARIABLES records,   \* per sequence, None or the record chosen
          versions,  \* per sequence, None or the stored version it is bound to
          answered,  \* what the administrators were told
          head       \* None, or the pair the global head was advanced to

vars == <<records, versions, answered, head>>

Sequence == 0..1

TypeOK ==
  /\ records \in [Sequence -> Record \cup {None}]
  /\ versions \in [Sequence -> Version \cup {None}]

Init ==
  /\ records = [s \in Sequence |-> None]
  /\ versions = [s \in Sequence |-> None]
  /\ answered = {} /\ head = None

\* The second record needs the first one bound.
Append(s) ==
  /\ records[s] = None
  /\ s = 1 => versions[0] # None
  /\ records'[s] \in Record
  /\ records' = [records EXCEPT ![s] = records'[s]]
  /\ UNCHANGED <<versions, answered, head>>

Bind(s) ==
  /\ records[s] # None /\ versions[s] = None
  /\ versions'[s] \in Version
  /\ versions' = [versions EXCEPT ![s] = versions'[s]]
  /\ UNCHANGED <<records, head>>

View(s) == [sequence |-> s, record |-> records[s], version |-> versions'[s]]

Answer(s) == versions'[s] # None /\ answered' = answered \cup {View(s)}

Tell(s) == Answer(s) /\ UNCHANGED <<records, versions, head>>

\* The pair is answered for, if at all, in the step that advances the head.
Advance ==
  /\ \A s \in Sequence : versions[s] # None
  /\ head' = versions
  /\ (UNCHANGED answered \/ Answer(1))
  /\ UNCHANGED <<records, versions>>

Next ==
  \/ \E s \in Sequence : \/ Append(s) \/ Tell(s)
                         \/ Bind(s) /\ (UNCHANGED answered \/ Answer(s))
  \/ Advance

Spec == Init /\ [][Next]_vars
=============================================================================
