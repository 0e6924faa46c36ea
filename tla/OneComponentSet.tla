---------------------------- MODULE OneComponentSet ----------------------------
(***************************************************************************)
(* What the component journal promises of a worker version, without        *)
(* sessions, staging, clocks or callers: one set is chosen, under one      *)
(* authority, and never another; every plan handed out is of that choice;  *)
(* what is learnt of an object written is never unlearnt; and the set ends *)
(* in one way, confirmed only when no two objects are the same version.    *)
(***************************************************************************)
CONSTANTS
  Choices,    \* what may be chosen
  Kinds,      \* the objects of a set
  Versions    \* what is learnt of an object

VARIABLES
  chosen,     \* at most one choice
  handed,     \* the choices handed out as plans
  learnt,     \* the versions learnt: pairs of an object and its version
  outcome     \* "none", "confirmed" or "held"

oneVars == <<chosen, handed, learnt, outcome>>

Objects == Kinds \cup {"manifest"}

Written(objects) == {x[1] : x \in objects}

Distinct(objects) == \A x, y \in objects : x[2] = y[2] => x = y

OneInit ==
  /\ chosen = {}
  /\ handed = {}
  /\ learnt = {}
  /\ outcome = "none"

Choose ==
  /\ chosen = {}
  /\ \E p \in Choices : chosen' = {p}
  /\ UNCHANGED <<learnt, outcome>>

Learn ==
  /\ chosen # {}
  /\ outcome = "none"
  /\ \E k \in Objects \ Written(learnt), v \in Versions :
       /\ k = "manifest" => Written(learnt) = Kinds /\ Distinct(learnt)
       /\ learnt' = learnt \cup {<<k, v>>}
       /\ outcome' = IF k # "manifest" THEN "none"
                     ELSE IF Distinct(learnt') THEN "confirmed" ELSE "held"
  /\ UNCHANGED chosen

\* Two components are the same version: no manifest is made of them.
Hold ==
  /\ Written(learnt) = Kinds
  /\ ~ Distinct(learnt)
  /\ outcome = "none"
  /\ outcome' = "held"
  /\ UNCHANGED <<chosen, learnt>>

\* A step may hand the choice out, whatever else it does.
OneNext ==
  /\ UNCHANGED <<chosen, learnt, outcome>> \/ Choose \/ Learn \/ Hold
  /\ handed' = handed \/ handed' = handed \cup chosen'

OneSpec == OneInit /\ [][OneNext]_oneVars
=============================================================================
