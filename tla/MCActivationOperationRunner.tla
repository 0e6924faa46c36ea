-------------------- MODULE MCActivationOperationRunner --------------------
(* Instances of ActivationOperationRunner for TLC. *)
EXTENDS ActivationOperationRunner, TLC

CONSTANTS q1, q2, d1, d2, r1, r2, r3

OnePromotion == q1 :> [started |-> 1, completed |-> 1]
TwoPromotions == OnePromotion @@ q2 :> [started |-> 2, completed |-> 2]

\* One run of a provisioning.
OneJob == r1 :> [sequence |-> 0, request |-> q1]

\* Two runs of one provisioning.
TwinJobs == [r \in {r1, r2} |-> [sequence |-> 0, request |-> q1]]

\* A provisioning, and two finalizes of different promotions.
ChainJobs == r1 :> [sequence |-> 0, request |-> q1] @@
             r2 :> [sequence |-> 1, request |-> q1] @@
             r3 :> [sequence |-> 1, request |-> q2]

\* What the callers of an instance may come with.
OneCaller == {OneJob}
TwinsOrChain == {TwinJobs, ChainJobs}
=============================================================================
