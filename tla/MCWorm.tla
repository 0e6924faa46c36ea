------------------------------- MODULE MCWorm -------------------------------
(* Instances for TLC of what writes the WORM bucket: the exact object      *)
(* effects, whose journal asks before it uploads, and the mirror, which    *)
(* keeps none.  A key is written by one of the two, so a behaviour follows *)
(* the effects' key or one object of the mirror.                           *)
EXTENDS WormExactObjectEffect, B2ExactObjectMirror, TLC

CONSTANTS e1, e2, k1, r1, r2, r3, o1, o2, o3, o4, c1, c2, c3, c4, c5

VARIABLE part

wormVars == <<effectVars, mirrorVars, part>>

\* Two effects, under two worker versions, about one key.
OneKey == [e \in Effects |-> k1]

\* Two runs of one effect, beside a run of the other.
TwoRunsOfOne == (r1 :> e1) @@ (r2 :> e1) @@ (r3 :> e2)

\* An activation record that two callers mirror, one that one caller does, a
\* provider's observation, a head.
RecordsObservationHead ==
  (o1 :> "activation") @@ (o2 :> "cloudflare-observations") @@ (o3 :> "activation-head")
    @@ (o4 :> "activation")
TwoCallsOfOne == (c1 :> o1) @@ (c2 :> o1) @@ (c3 :> o2) @@ (c4 :> o3) @@ (c5 :> o4)

\* Bound: two callers meet one mishap, a lone caller MaxMishaps.
Mishaps(o) == IF o = o1 THEN 1 ELSE MaxMishaps

Init == EffectInit /\ MirrorInit /\ part \in {"effect"} \cup Objects

InEffect(A) == part = "effect" /\ A /\ UNCHANGED <<mirrorVars, part>>
InMirror(A) == part \in Objects /\ A /\ UNCHANGED <<effectVars, part>>

Next ==
  \/ InEffect(EffectNext)
  \/ /\ InMirror(ObjectStep(part) \/ Reconfigure \/ RedeployObserver \/ RedeployMirror)
     /\ mishaps' <= Mishaps(part)

\* EffectFairness and MirrorFairness, of the part that is followed: of the
\* callers in a lane, only those of the followed object have a call under way,
\* and a run or a call either begins or goes on.
Lanes == {{c1, c3, c4, c5}, {c2}}

Fairness ==
  /\ \A r \in Runs : WF_wormVars(InEffect(Seal(r) \/ RunStep(r)))
  /\ WF_wormVars(InEffect(\E v \in inTransit : UploadLands(v)))
  /\ \A lane \in Lanes :
       WF_wormVars(InMirror(\E c \in lane \cap CallsOf(part) : Send(c) \/ CallStep(c)))
  /\ WF_wormVars(InMirror(LateUploadLands(part)))

Spec == Init /\ [][Next]_wormVars /\ Fairness
=============================================================================
