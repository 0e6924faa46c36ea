------------------------ MODULE OneUseActivationProof ------------------------
(***************************************************************************)
(* What the activation-proof protocol promises, without head, journal,     *)
(* ledger tables or messages: an intent gets one proof, paid for with one  *)
(* token; the same proof may be handed out again, each time for another    *)
(* unused token; a fenced token buys nothing.                              *)
(***************************************************************************)
CONSTANTS Tokens, Intents, Proofs, NoProof

VARIABLES
  token,     \* what became of each token
  proof,     \* the proof each intent was given
  answers    \* the responses given: [token, intent, proof]

vars == <<token, proof, answers>>

Init ==
  /\ token = [t \in Tokens |-> "unused"]
  /\ proof = [i \in Intents |-> NoProof]
  /\ answers = {}

Use(t) == token[t] = "unused" /\ token' = [token EXCEPT ![t] = "used"]

Answered(t) == \E x \in answers : x.token = t

\* The token is used and the proof becomes the intent's; the answer is separate
\* and may never come.
Issue(i, t, p) ==
  /\ proof[i] = NoProof
  /\ Use(t)
  /\ proof' = [proof EXCEPT ![i] = p]
  /\ UNCHANGED answers

Answer(i, t) ==
  /\ proof[i] # NoProof
  /\ token[t] = "used"
  /\ ~Answered(t)
  /\ answers' = answers \cup {[token |-> t, intent |-> i, proof |-> proof[i]]}
  /\ UNCHANGED <<token, proof>>

\* A further response with the same proof, for a further token.
Recover(i, t) ==
  /\ proof[i] # NoProof
  /\ Use(t)
  /\ answers' \in {answers, answers \cup {[token |-> t, intent |-> i, proof |-> proof[i]]}}
  /\ UNCHANGED proof

Fence(t) ==
  /\ token[t] = "unused"
  /\ token' = [token EXCEPT ![t] = "fenced"]
  /\ UNCHANGED <<proof, answers>>

Next ==
  \E t \in Tokens :
    \/ Fence(t)
    \/ \E i \in Intents : \/ \E p \in Proofs : Issue(i, t, p)
                          \/ Answer(i, t)
                          \/ Recover(i, t)

Spec == Init /\ [][Next]_vars

=============================================================================
