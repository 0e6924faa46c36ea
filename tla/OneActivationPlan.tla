-------------------------- MODULE OneActivationPlan --------------------------
(***************************************************************************)
(* What the activation operation promises of either record, without        *)
(* issuances, journal states, runs or retries: one plan is chosen and      *)
(* never changed; effects are called out to as it says, as often as it     *)
(* takes; the record is made from it after they all have been; and nothing *)
(* of the activated record begins before the provisioned one is stored.    *)
(***************************************************************************)
CONSTANTS
  Plans,    \* what a plan fixes
  Effects   \* the effects of each record's plan, in order of the records

VARIABLES
  plan,     \* the plan of each record: a set of at most one
  called,   \* the effects called out to, each with the plan it was called by
  record    \* "none", "made" or "stored"

planVars == <<plan, called, record>>

PlanInit ==
  /\ plan = [s \in {0, 1} |-> {}]
  /\ called = [s \in {0, 1} |-> {}]
  /\ record = [s \in {0, 1} |-> "none"]

\* Effects of the plan are called; the first time it is chosen with them.
CarryOut(s) ==
  /\ s = 1 => record[0] = "stored"
  /\ \E p \in Plans :
       /\ plan[s] \subseteq {p}
       /\ plan' = [plan EXCEPT ![s] = {p}]
       /\ \E xs \in SUBSET Effects[s] : called' = [called EXCEPT ![s] = @ \cup (xs \X {p})]
  /\ UNCHANGED record

Make(s) ==
  /\ plan[s] # {}
  /\ called[s] = Effects[s] \X plan[s]
  /\ record[s] = "none"
  /\ record' = [record EXCEPT ![s] = "made"]
  /\ UNCHANGED <<plan, called>>

Store(s) ==
  /\ record[s] = "made"
  /\ record' = [record EXCEPT ![s] = "stored"]
  /\ UNCHANGED <<plan, called>>

PlanNext == \E s \in {0, 1} : CarryOut(s) \/ Make(s) \/ Store(s)

PlanSpec == PlanInit /\ [][PlanNext]_planVars
=============================================================================
