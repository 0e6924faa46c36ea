------------------------------ MODULE MCLedgers ------------------------------
(* Instances for TLC of AuthReplayLedger, as the two objects of the class   *)
(* that the controller names, of ReleaseReceiptChain, and of the admission  *)
(* and the stream of a candidate.  They have no state in common, so a       *)
(* behaviour follows one of them; LedgerName is the GitHub ledger's.        *)
EXTENDS AuthReplayLedger, ReleaseReceiptChain, CandidateAdmission, CandidateStream, TLC

CONSTANTS j1, j2, r1, r2, c1, c2, x1, x2, t1, q1, a1, o1

VARIABLE part  \* what is followed

candidateVars == <<admissionVars, streamVars>>
partsVars == <<ledgerVars, chainVars, candidateVars, part>>

\* The second token outlives the first and its grace: one is pruned while the
\* other can still be prepared.
TwoExpiries == (j1 :> 1) @@ (j2 :> 4)

PartsSymmetry ==
  Permutations({r1, r2}) \cup Permutations({c1, c2}) \cup Permutations(Files)

AdminLedger == INSTANCE AuthReplayLedger WITH LedgerName <- ADMIN_REPLAY_LEDGER_NAME

\* Of the two calls, one is made while the repositories move, or both while
\* they only go on to what is asked for; what comes after the answer is left out.
Plain == [token |-> t1, request |-> q1, attempt |-> 1, archive |-> a1]

Init ==
  /\ LedgerInit /\ ChainInit /\ AdmissionInit /\ StreamInit
  /\ part \in {GitHubLedger, ADMIN_REPLAY_LEDGER_NAME, "receipts", "moving", "twins", "stream"}
  /\ part # "moving" => holding = Facts /\ tag = o1
  /\ \A c \in Calls : ask[c].archive = a1
  /\ ask[x2].attempt = 1
  /\ part # "moving" => ask[x1] = Plain
  /\ ask[x1].token = t1 /\ ask[x1].request = q1
  /\ part # "twins" => ask[x2] = Plain

\* Nothing is undone, run again or moved.
GoesOn ==
  \/ JobStarts \/ JobEnds \/ (\E t \in Tokens : Mint(t)) \/ BuildEnds \/ UploadArchive(a1)

Alone(A) == A /\ UNCHANGED part

Next ==
  \/ /\ part \in {GitHubLedger, ADMIN_REPLAY_LEDGER_NAME}
     /\ Alone(\/ part = GitHubLedger /\ LedgerNext
              \/ part = ADMIN_REPLAY_LEDGER_NAME /\ AdminLedger!LedgerNext)
     /\ UNCHANGED <<chainVars, candidateVars>>
  \/ /\ part = "receipts" /\ Alone(ChainNext)
     /\ UNCHANGED <<ledgerVars, candidateVars>>
  \/ /\ part \in {"moving", "twins"}
     /\ Alone(\/ part = "moving" /\ ~Settled(x1) /\ GitHub /\ \A t \in Tokens \ {t1} : minted'[t] = 0
              \/ part = "twins" /\ (\E c \in Calls : ~Settled(c)) /\ GoesOn
              \/ \E c \in IF part = "twins" THEN Calls ELSE {x1} :
                   Arrive(c) \/ CallStep(c) \/ Fails(c))
     /\ UNCHANGED <<ledgerVars, chainVars, streamVars>>
  \/ /\ part = "stream" /\ Alone(StreamNext)
     /\ UNCHANGED <<ledgerVars, chainVars, admissionVars>>

Spec == Init /\ [][Next]_partsVars
=============================================================================
