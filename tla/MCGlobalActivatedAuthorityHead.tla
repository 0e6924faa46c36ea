-------------------- MODULE MCGlobalActivatedAuthorityHead --------------------
(* Instances of GlobalActivatedAuthorityHead for TLC. *)
EXTENDS GlobalActivatedAuthorityHead, TLC

CONSTANTS a1, a2, a3, i1, i2, j1, j2, j3, r1, r2, r3, s1, s2, s3

\* One intent, two attempts with fresh ids and tokens.
RetryRequests == (a1 :> r1) @@ (a2 :> r2)
RetryJtis == (a1 :> j1) @@ (a2 :> j2)
RetryIntents == (a1 :> i1) @@ (a2 :> i1)
OneSnapshotIntents == (i1 :> s1)
OneVersion == (s1 :> "v1")

\* Two heads, an intent under each.  The third attempt retries the first one's
\* intent with the second one's token, which is fresh for it or used; a third
\* snapshot tries to go back to the ingress version of the first head.
ThreeRequests == RetryRequests @@ (a3 :> r3)
SharedJtis == RetryJtis @@ (a3 :> j2)
TwoHeadIntents == (a1 :> i1) @@ (a2 :> i2) @@ (a3 :> i1)
TwoSnapshotIntents == (i1 :> s1) @@ (i2 :> s2)
TwoVersions == (s1 :> "v1") @@ (s2 :> "v2") @@ (s3 :> "v1")

EffectIds == [generation : 1..Cardinality(Snapshots), intent : Intents]
Expiries == [j \in Jtis |-> 2]

\* The retry's token outlives the first one's tombstone.
LongExpiries == (j1 :> 1) @@ (j2 :> 4)
=============================================================================
