------------------ MODULE GlobalActivatedAuthorityHead_proof ------------------
(***************************************************************************)
(* Proofs about AuthReplayLedger, for every set of tokens, requests and    *)
(* callers, every capacity, and every clock bound: the ledger uses a token *)
(* once, keeps its keys unique, honours its fences and its grants.  Then   *)
(* about GlobalActivatedAuthorityHead, for every set of attempts, tokens,  *)
(* intents and snapshots: the head's journal and the ledger stay in step,  *)
(* a token is only consumed under the current head, and the whole protocol *)
(* implements the one-use proof.                                           *)
(*                                                                         *)
(* None of the ledger's properties is inductive alone.  LedgerInv adds     *)
(* what a row, a missing row, a fence and a call in flight each say about  *)
(* the past.  HeadInv contains it.  What it adds is mostly about calls:    *)
(* what the operation inside `exclusive`, an abandoned call and an attempt *)
(* each may still do to the two journals.                                  *)
(***************************************************************************)
EXTENDS GlobalActivatedAuthorityHead, FiniteSetTheorems, TLAPS


\* The token is past its grace: its tombstone may be gone.
Forgettable(j) == TokenExpiry[j] + Grace < clock

\* A stored row says exactly how often its token was used.
RowsCountUses ==
  /\ \A r \in oidcJti : consumed[r.jti] = 1
  /\ \A r \in oidcEffectJti : consumed[r.jti] = IF r.state = "CONSUMED" THEN 1 ELSE 0

\* A used token has a row, unless no fresh copy of it can come any more.
UsesRemembered ==
  \A j \in Jtis : consumed[j] # 0 =>
    /\ consumed[j] = 1
    /\ \/ \E r \in oidcJti : r.jti = j
       \/ \E r \in oidcEffectJti : r.jti = j
       \/ Forgettable(j)

\* So has a fenced one, and the cancelled rows are those of fenced tokens.
FencesRemembered ==
  /\ \A j \in fenced : /\ consumed[j] = 0
                       /\ (\E r \in oidcEffectJti : r.jti = j) \/ Forgettable(j)
  /\ \A r \in oidcEffectJti : r.jti \in fenced <=> r.state = "CANCELLED"

\* A call in flight saw its token alive, not long ago.
InFlightFresh ==
  \A p \in inFlight : p.at < TokenExpiry[p.jti] /\ clock <= p.at + MaxGap

MarkedIsResolved ==
  \A r \in oidcEffectJti : r.terminal # NotTerminal => r.state # "PREPARED"

\* What was granted was used, and is what the stored row says.
GrantsKept ==
  /\ GrantsAgree
  /\ \A g \in granted : consumed[g.jti] = 1
  /\ \A g \in granted, r \in oidcJti : g.jti = r.jti => g = r

LedgerInv ==
  /\ LedgerTypeOK
  /\ KeysUnique
  /\ RowsCountUses
  /\ UsesRemembered
  /\ FencesRemembered
  /\ InFlightFresh
  /\ MarkedIsResolved
  /\ GrantsKept

-----------------------------------------------------------------------------
(* What one step does to the rows and the history. *)

\* An empty ledger satisfies the invariant.
LEMMA LedgerInitInv == LedgerInit => LedgerInv
  BY LedgerAssumption
  DEF LedgerInit, LedgerInv, LedgerTypeOK, KeysUnique, RowsCountUses, UsesRemembered,
      FencesRemembered, InFlightFresh, MarkedIsResolved, GrantsKept, GrantsAgree

\* A step that changes nothing of the ledger keeps the invariant.
LEMMA StutterInv == LedgerInv /\ UNCHANGED ledgerVars => LedgerInv'
  BY DEF ledgerVars, LedgerInv, LedgerTypeOK, KeysUnique, RowsCountUses, UsesRemembered,
         FencesRemembered, InFlightFresh, MarkedIsResolved, GrantsKept, GrantsAgree,
         Forgettable, SameKey

\* The exact row of a binding is the only row with its token or its request id.
LEMMA ExactRow ==
  ASSUME NEW b, NEW r, IsExactRow(EffectRows(b), b, r)
  PROVE  /\ r \in oidcEffectJti
         /\ r.jti = b.jti
         /\ r.request = b.request
         /\ r.claims = b.claims
         /\ \A q \in oidcEffectJti : SameKey(b, q) => q = r
  BY DEF IsExactRow, EffectRows, Exact

\* A call enters after its expiry check, so it is fresh when it starts to wait.
LEMMA BeginConsumeInv ==
  ASSUME LedgerInv, NEW k \in Callers, NEW exact \in BOOLEAN,
         NEW b, b.jti \in Jtis, b.request \in Requests, b.claims \in Claims,
         BeginConsume(k, b, exact)
  PROVE  LedgerInv'
<1> USE LedgerAssumption
<1> DEFINE p == [caller |-> k, jti |-> b.jti, request |-> b.request, claims |-> b.claims,
                 exact |-> exact, at |-> clock]
<1>1. p \in Call /\ p.at < TokenExpiry[p.jti] /\ p.at = clock
  BY DEF LedgerInv, LedgerTypeOK, Call, BeginConsume, Expired
<1>2. inFlight' = inFlight \cup {p}
  BY DEF BeginConsume
<1>3. LedgerTypeOK'
  BY <1>1, <1>2 DEF LedgerInv, LedgerTypeOK, BeginConsume
<1>4. InFlightFresh'
  BY <1>1, <1>2 DEF LedgerInv, LedgerTypeOK, InFlightFresh, BeginConsume, Call
<1>5. QED
  BY <1>3, <1>4
  DEF BeginConsume, LedgerInv, KeysUnique, RowsCountUses, UsesRemembered,
      FencesRemembered, MarkedIsResolved, GrantsKept, GrantsAgree, Forgettable, SameKey

\* Time keeps the invariant: what may be forgotten stays so, and no call
\* in flight outlives MaxGap.
LEMMA TickInv == LedgerInv /\ LedgerTick => LedgerInv'
<1> SUFFICES ASSUME LedgerInv, LedgerTick PROVE LedgerInv'
  OBVIOUS
<1> USE LedgerAssumption
<1>1. clock' \in Nat /\ clock' = clock + 1 /\ clock \in Nat
  BY DEF LedgerInv, LedgerTypeOK, LedgerTick
<1>2. LedgerTypeOK'
  BY <1>1 DEF LedgerInv, LedgerTypeOK, LedgerTick
<1>3. InFlightFresh'
  BY <1>1 DEF LedgerInv, LedgerTypeOK, InFlightFresh, LedgerTick, Call
<1>4. \A j \in Jtis : Forgettable(j) => Forgettable(j)'
  BY <1>1 DEF Forgettable
<1>5. UsesRemembered'
  BY <1>4 DEF LedgerInv, UsesRemembered, LedgerTick
<1>6. FencesRemembered'
  BY <1>4 DEF LedgerInv, LedgerTypeOK, FencesRemembered, LedgerTick
<1>7. QED
  BY <1>2, <1>3, <1>5, <1>6
  DEF LedgerTick, LedgerInv, KeysUnique, RowsCountUses, MarkedIsResolved, GrantsKept,
      GrantsAgree, SameKey

\* No row has the key of a call about to insert, so its token is fresh: unused,
\* unfenced and granted to nobody.  This is where MaxGap <= Grace is needed.
LEMMA InsertsFreshToken ==
  ASSUME LedgerInv, NEW p \in inFlight, ConsumeInserts(p)
  PROVE  /\ p.jti \in Jtis
         /\ consumed[p.jti] = 0
         /\ p.jti \notin fenced
         /\ \A g \in granted : g.jti # p.jti
         /\ \A r \in oidcJti : ~SameKey(p, r)
         /\ \A r \in oidcEffectJti : ~SameKey(p, r)
<1> USE LedgerAssumption
<1>1. p \in Call
  BY DEF LedgerInv, LedgerTypeOK
<1>2. p.jti \in Jtis /\ p.at \in Nat
  BY <1>1 DEF Call
<1>3. /\ \A r \in oidcJti : ~SameKey(p, r)
      /\ \A r \in oidcEffectJti : ~SameKey(p, r)
  BY DEF ConsumeInserts, EffectRows, OrdinaryRows
<1>4. ~Forgettable(p.jti)
  <2>1. p.at < TokenExpiry[p.jti] /\ clock <= p.at + MaxGap
    BY DEF LedgerInv, InFlightFresh
  <2>2. TokenExpiry[p.jti] \in Nat /\ clock \in Nat
    BY <1>2 DEF LedgerInv, LedgerTypeOK
  <2>3. QED
    BY <1>2, <2>1, <2>2 DEF Forgettable
<1>5. consumed[p.jti] = 0
  BY <1>2, <1>3, <1>4 DEF LedgerInv, UsesRemembered, SameKey
<1>6. p.jti \notin fenced
  BY <1>3, <1>4 DEF LedgerInv, FencesRemembered, SameKey
<1>7. \A g \in granted : g.jti # p.jti
  BY <1>5 DEF LedgerInv, GrantsKept
<1>8. QED
  BY <1>2, <1>3, <1>5, <1>6, <1>7

\* The first use of a token by an ordinary call keeps the invariant.
LEMMA ConsumeInsertInv ==
  ASSUME LedgerInv, NEW p \in inFlight, ConsumeInsert(p)
  PROVE  LedgerInv'
<1> USE LedgerAssumption
<1> DEFINE o == Ordinary(p)
<1>1. /\ p.jti \in Jtis
      /\ consumed[p.jti] = 0
      /\ p.jti \notin fenced
      /\ \A g \in granted : g.jti # p.jti
      /\ \A r \in oidcJti : ~SameKey(p, r)
      /\ \A r \in oidcEffectJti : ~SameKey(p, r)
  BY InsertsFreshToken DEF ConsumeInsert
<1>2. o \in OrdinaryRow /\ o.jti = p.jti /\ o.request = p.request
  BY DEF LedgerInv, LedgerTypeOK, Call, Ordinary, OrdinaryRow
<1>3. /\ oidcJti' = oidcJti \cup {o}
      /\ granted' = granted \cup {o}
      /\ inFlight' = inFlight \ {p}
      /\ UNCHANGED <<oidcEffectJti, clock, fenced>>
  BY DEF ConsumeInsert
<1>4. consumed'[p.jti] = 1 /\ \A j \in Jtis \ {p.jti} : consumed'[j] = consumed[j]
  BY <1>1 DEF LedgerInv, LedgerTypeOK, ConsumeInsert
<1>5. consumed' \in [Jtis -> Nat]
  BY <1>1 DEF LedgerInv, LedgerTypeOK, ConsumeInsert
<1>6. LedgerTypeOK'
  BY <1>2, <1>3, <1>5 DEF LedgerInv, LedgerTypeOK
<1>7. KeysUnique'
  BY <1>1, <1>2, <1>3 DEF LedgerInv, KeysUnique, SameKey
<1>8. \A r \in oidcJti : r.jti \in Jtis \ {p.jti}
  BY <1>1 DEF LedgerInv, LedgerTypeOK, OrdinaryRow, SameKey
<1>9. \A r \in oidcEffectJti : r.jti \in Jtis \ {p.jti}
  BY <1>1 DEF LedgerInv, LedgerTypeOK, EffectRow, SameKey
<1>10. RowsCountUses'
  BY <1>2, <1>3, <1>4, <1>8, <1>9 DEF LedgerInv, RowsCountUses
<1>11. UsesRemembered'
  <2> SUFFICES ASSUME NEW j \in Jtis, consumed'[j] # 0
               PROVE  /\ consumed'[j] = 1
                      /\ \/ \E r \in oidcJti' : r.jti = j
                         \/ \E r \in oidcEffectJti' : r.jti = j
                         \/ Forgettable(j)'
    BY DEF UsesRemembered
  <2>1. CASE j = p.jti
    BY <2>1, <1>2, <1>3, <1>4
  <2>2. CASE j # p.jti
    BY <2>2, <1>3, <1>4 DEF LedgerInv, UsesRemembered, Forgettable
  <2>3. QED
    BY <2>1, <2>2
<1>12. FencesRemembered'
  BY <1>1, <1>3, <1>4 DEF LedgerInv, LedgerTypeOK, FencesRemembered, Forgettable
<1>13. InFlightFresh'
  BY <1>3 DEF LedgerInv, InFlightFresh
<1>14. MarkedIsResolved'
  BY <1>3 DEF LedgerInv, MarkedIsResolved
<1>15. \A g \in granted : g.jti \in Jtis \ {p.jti}
  BY <1>1 DEF LedgerInv, LedgerTypeOK, OrdinaryRow
<1>16. GrantsKept'
  BY <1>2, <1>3, <1>4, <1>8, <1>15 DEF LedgerInv, GrantsKept, GrantsAgree
<1>17. QED
  BY <1>6, <1>7, <1>10, <1>11, <1>12, <1>13, <1>14, <1>16 DEF LedgerInv

\* An idempotent replay grants only what the stored row already says.
LEMMA ConsumeReplayInv ==
  ASSUME LedgerInv, NEW p \in inFlight, ConsumeReplay(p)
  PROVE  LedgerInv'
<1> DEFINE o == Ordinary(p)
<1>1. o \in oidcJti
  BY DEF ConsumeReplay, ConsumeReplays, OrdinaryRows
<1>2. /\ granted' = granted \cup {o}
      /\ inFlight' = inFlight \ {p}
      /\ UNCHANGED <<oidcJti, oidcEffectJti, clock, consumed, fenced>>
  BY DEF ConsumeReplay
<1>3. LedgerTypeOK'
  BY <1>1, <1>2 DEF LedgerInv, LedgerTypeOK
<1>4. consumed[o.jti] = 1
  BY <1>1 DEF LedgerInv, RowsCountUses
<1>5. GrantsKept'
  BY <1>1, <1>2, <1>4 DEF LedgerInv, GrantsKept, GrantsAgree, KeysUnique, SameKey
<1>6. InFlightFresh'
  BY <1>2 DEF LedgerInv, InFlightFresh
<1>7. QED
  BY <1>2, <1>3, <1>5, <1>6
  DEF LedgerInv, KeysUnique, RowsCountUses, UsesRemembered, FencesRemembered,
      MarkedIsResolved, Forgettable, SameKey

\* A refused or lost call only leaves.
LEMMA ConsumeDroppedInv ==
  ASSUME LedgerInv, NEW p \in inFlight, ConsumeDropped(p)
  PROVE  LedgerInv'
  BY DEF ConsumeDropped, LedgerInv, LedgerTypeOK, KeysUnique, RowsCountUses, UsesRemembered,
         FencesRemembered, InFlightFresh, MarkedIsResolved, GrantsKept, GrantsAgree,
         Forgettable, SameKey

-----------------------------------------------------------------------------
(* Effect-linked use. *)

\* A pruned row is terminal, marked, and of a token past its grace.
LEMMA PrunedIsForgettable ==
  ASSUME LedgerInv, NEW r \in oidcEffectJti, r \notin KeptRows
  PROVE  /\ r.jti \in Jtis
         /\ Forgettable(r.jti)
         /\ r.terminal # NotTerminal
         /\ r.state # "PREPARED"
<1> USE LedgerAssumption
<1>1. r.jti \in Jtis /\ clock \in Nat
  BY DEF LedgerInv, LedgerTypeOK, EffectRow
<1>2. r.terminal # NotTerminal /\ TokenExpiry[r.jti] < clock - Grace
  BY DEF KeptRows, Prunable
<1>3. Forgettable(r.jti)
  BY <1>1, <1>2 DEF Forgettable
<1>4. QED
  BY <1>1, <1>2, <1>3 DEF LedgerInv, MarkedIsResolved

\* Pruning alone keeps the invariant: it only forgets what may be forgotten.
LEMMA PruneInv ==
  ASSUME LedgerInv, oidcEffectJti' = KeptRows,
         UNCHANGED <<oidcJti, inFlight, clock, consumed, granted, fenced>>
  PROVE  LedgerInv'
<1>1. KeptRows \subseteq oidcEffectJti
  BY DEF KeptRows
<1>2. LedgerTypeOK' /\ KeysUnique' /\ RowsCountUses' /\ InFlightFresh' /\ MarkedIsResolved'
  BY <1>1 DEF LedgerInv, LedgerTypeOK, KeysUnique, RowsCountUses, InFlightFresh,
              MarkedIsResolved, SameKey
<1>3. \A r \in oidcEffectJti : r \in KeptRows \/ Forgettable(r.jti)
  BY PrunedIsForgettable
<1>4. UsesRemembered'
  BY <1>3 DEF LedgerInv, UsesRemembered, Forgettable
<1>5. FencesRemembered'
  BY <1>1, <1>3 DEF LedgerInv, FencesRemembered, Forgettable
<1>6. GrantsKept'
  BY DEF LedgerInv, GrantsKept, GrantsAgree
<1>7. QED
  BY <1>2, <1>4, <1>5, <1>6 DEF LedgerInv

\* After pruning, a live token without a row is fresh.
LEMMA PreparesFreshToken ==
  ASSUME LedgerInv, NEW b \in Binding, CanPrepare(b), PreparesAnew(b)
  PROVE  /\ consumed[b.jti] = 0
         /\ b.jti \notin fenced
         /\ \A r \in oidcJti : ~SameKey(b, r)
         /\ \A r \in KeptRows : ~SameKey(b, r)
<1> USE LedgerAssumption
<1>1. b.jti \in Jtis /\ clock \in Nat /\ TokenExpiry[b.jti] \in Nat
  BY DEF LedgerInv, LedgerTypeOK, Binding
<1>2. ~Forgettable(b.jti)
  BY <1>1 DEF CanPrepare, Expired, Forgettable
<1>3. \A r \in oidcJti : ~SameKey(b, r)
  BY DEF CanPrepare, OrdinaryRows
<1>4. \A r \in KeptRows : ~SameKey(b, r)
  BY DEF PreparesAnew
<1>5. \A r \in oidcEffectJti : r.jti # b.jti
  BY <1>2, <1>4, PrunedIsForgettable DEF SameKey
<1>6. consumed[b.jti] = 0
  BY <1>1, <1>2, <1>3, <1>5 DEF LedgerInv, UsesRemembered, SameKey
<1>7. b.jti \notin fenced
  BY <1>2, <1>5 DEF LedgerInv, FencesRemembered
<1>8. QED
  BY <1>3, <1>4, <1>6, <1>7

\* prepareEffectExact, with the pruning it starts with, keeps the invariant.
LEMMA PrepareInv ==
  ASSUME LedgerInv, NEW b \in Binding, PrepareEffectExact(b)
  PROVE  LedgerInv'
<1> USE LedgerAssumption
<1> DEFINE n == PreparedRow(b)
<1>1. CanPrepare(b) /\ UNCHANGED <<oidcJti, inFlight, clock, consumed, granted, fenced>>
  BY DEF PrepareEffectExact
<1>2. CASE PreparesAgain(b)
  BY <1>1, <1>2, PruneInv DEF PrepareEffectExact
<1>3. CASE ~PreparesAgain(b)
  <2>1. oidcEffectJti' = KeptRows \cup {n}
    BY <1>3 DEF PrepareEffectExact
  <2>2. PreparesAnew(b)
    BY <1>1, <1>3 DEF CanPrepare
  <2>3. /\ consumed[b.jti] = 0
        /\ b.jti \notin fenced
        /\ \A r \in oidcJti : ~SameKey(b, r)
        /\ \A r \in KeptRows : ~SameKey(b, r)
    BY <1>1, <2>2, PreparesFreshToken
  <2>4. /\ n \in EffectRow
        /\ n.jti = b.jti
        /\ n.request = b.request
        /\ n.state = "PREPARED"
        /\ n.terminal = NotTerminal
    BY DEF PreparedRow, EffectRow, Binding, NotTerminal
  <2>5. KeptRows \subseteq oidcEffectJti
    BY DEF KeptRows
  <2>6. \A r \in oidcEffectJti : r \in KeptRows \/ Forgettable(r.jti)
    BY PrunedIsForgettable
  <2>7. LedgerTypeOK'
    BY <1>1, <2>1, <2>4, <2>5 DEF LedgerInv, LedgerTypeOK
  <2>8. KeysUnique'
    BY <1>1, <2>1, <2>3, <2>4, <2>5 DEF LedgerInv, KeysUnique, SameKey
  <2>9. RowsCountUses'
    BY <1>1, <2>1, <2>3, <2>4, <2>5 DEF LedgerInv, RowsCountUses
  <2>10. UsesRemembered'
    BY <1>1, <2>1, <2>6 DEF LedgerInv, UsesRemembered, Forgettable
  <2>11. FencesRemembered'
    BY <1>1, <2>1, <2>3, <2>4, <2>5, <2>6 DEF LedgerInv, FencesRemembered, Forgettable
  <2>12. InFlightFresh' /\ GrantsKept'
    BY <1>1 DEF LedgerInv, InFlightFresh, GrantsKept, GrantsAgree
  <2>13. MarkedIsResolved'
    BY <2>1, <2>4, <2>5 DEF LedgerInv, MarkedIsResolved
  <2>14. QED
    BY <2>7, <2>8, <2>9, <2>10, <2>11, <2>12, <2>13 DEF LedgerInv
<1>4. QED
  BY <1>2, <1>3

\* Committing a prepared use keeps the invariant: its row counts it as unused
\* before and as used after.
LEMMA CommitInv ==
  ASSUME LedgerInv, NEW b \in Binding, CommitPreparedEffectExact(b)
  PROVE  LedgerInv'
<1>1. CASE UNCHANGED ledgerVars
  BY <1>1, StutterInv
<1>2. CASE ~(UNCHANGED ledgerVars)
  <2>1. /\ MovePrepared(b, "CONSUMED")
        /\ consumed' = [consumed EXCEPT ![b.jti] = @ + 1]
        /\ granted' = granted \cup {Ordinary(b)}
        /\ UNCHANGED <<oidcJti, inFlight, clock, fenced>>
    BY <1>2 DEF CommitPreparedEffectExact, AlreadyIn
  <2>2. PICK r \in oidcEffectJti :
          /\ IsExactRow(EffectRows(b), b, r)
          /\ r.state = "PREPARED"
          /\ oidcEffectJti' = (oidcEffectJti \ {r}) \cup {[r EXCEPT !.state = "CONSUMED"]}
    BY <2>1 DEF MovePrepared
  <2> DEFINE n == [r EXCEPT !.state = "CONSUMED"]
  <2> DEFINE o == Ordinary(b)
  <2>3. r.jti = b.jti /\ b.jti \in Jtis
    BY <2>2, ExactRow DEF Binding
  <2>4. r \in EffectRow
    BY DEF LedgerInv, LedgerTypeOK
  <2>5. /\ n \in EffectRow
        /\ n.jti = r.jti
        /\ n.request = r.request
        /\ n.state = "CONSUMED"
        /\ n.terminal = r.terminal
        /\ oidcEffectJti' = (oidcEffectJti \ {r}) \cup {n}
    BY <2>2, <2>4 DEF EffectRow
  <2> HIDE DEF n
  <2>6. o \in OrdinaryRow /\ o.jti = b.jti
    BY DEF Ordinary, OrdinaryRow, Binding
  <2>7. consumed[b.jti] = 0
    BY <2>2, <2>3 DEF LedgerInv, RowsCountUses
  <2>8. /\ consumed' \in [Jtis -> Nat]
        /\ consumed'[b.jti] = 1
        /\ \A j \in Jtis \ {b.jti} : consumed'[j] = consumed[j]
    BY <2>1, <2>3, <2>7 DEF LedgerInv, LedgerTypeOK
  <2>9. \A q \in oidcEffectJti \ {r} : q.jti \in Jtis \ {b.jti}
    BY <2>3 DEF LedgerInv, LedgerTypeOK, EffectRow, KeysUnique, SameKey
  <2>10. \A q \in oidcJti : q.jti \in Jtis \ {b.jti}
    BY <2>3 DEF LedgerInv, LedgerTypeOK, OrdinaryRow, KeysUnique, SameKey
  <2>11. \A g \in granted : g.jti \in Jtis \ {b.jti}
    BY <2>7 DEF LedgerInv, LedgerTypeOK, OrdinaryRow, GrantsKept
  <2>12. LedgerTypeOK'
    BY <2>1, <2>2, <2>5, <2>6, <2>8 DEF LedgerInv, LedgerTypeOK
  <2>13. KeysUnique'
    BY <2>1, <2>5 DEF LedgerInv, KeysUnique, SameKey
  <2>14. RowsCountUses'
    BY <2>1, <2>2, <2>3, <2>5, <2>8, <2>9, <2>10 DEF LedgerInv, RowsCountUses
  <2>15. UsesRemembered'
    <3> SUFFICES ASSUME NEW j \in Jtis, consumed'[j] # 0
                 PROVE  /\ consumed'[j] = 1
                        /\ \/ \E q \in oidcJti' : q.jti = j
                           \/ \E q \in oidcEffectJti' : q.jti = j
                           \/ Forgettable(j)'
      BY DEF UsesRemembered
    <3>1. CASE j = b.jti
      BY <3>1, <2>2, <2>3, <2>5, <2>8
    <3>2. CASE j # b.jti
      BY <3>2, <2>1, <2>2, <2>3, <2>5, <2>8 DEF LedgerInv, UsesRemembered, Forgettable
    <3>3. QED
      BY <3>1, <3>2
  <2>16. b.jti \notin fenced
    BY <2>2, <2>3 DEF LedgerInv, FencesRemembered
  <2>17. FencesRemembered'
    BY <2>1, <2>2, <2>3, <2>5, <2>8, <2>16
    DEF LedgerInv, LedgerTypeOK, FencesRemembered, Forgettable
  <2>18. InFlightFresh'
    BY <2>1 DEF LedgerInv, InFlightFresh
  <2>19. MarkedIsResolved'
    BY <2>2, <2>5 DEF LedgerInv, MarkedIsResolved
  <2>20. GrantsKept'
    BY <2>1, <2>6, <2>8, <2>10, <2>11 DEF LedgerInv, GrantsKept, GrantsAgree
  <2>21. QED
    BY <2>12, <2>13, <2>14, <2>15, <2>17, <2>18, <2>19, <2>20 DEF LedgerInv
<1>3. QED
  BY <1>1, <1>2

\* Cancelling a prepared use keeps the invariant: an unused token is fenced.
LEMMA CancelInv ==
  ASSUME LedgerInv, NEW b \in Binding, CancelPreparedEffectExact(b)
  PROVE  LedgerInv'
<1>1. CASE UNCHANGED ledgerVars
  BY <1>1, StutterInv
<1>2. CASE ~(UNCHANGED ledgerVars)
  <2>1. /\ MovePrepared(b, "CANCELLED")
        /\ fenced' = fenced \cup {b.jti}
        /\ UNCHANGED <<oidcJti, inFlight, clock, consumed, granted>>
    BY <1>2 DEF CancelPreparedEffectExact, AlreadyIn
  <2>2. PICK r \in oidcEffectJti :
          /\ IsExactRow(EffectRows(b), b, r)
          /\ r.state = "PREPARED"
          /\ oidcEffectJti' = (oidcEffectJti \ {r}) \cup {[r EXCEPT !.state = "CANCELLED"]}
    BY <2>1 DEF MovePrepared
  <2> DEFINE n == [r EXCEPT !.state = "CANCELLED"]
  <2>3. r.jti = b.jti /\ b.jti \in Jtis
    BY <2>2, ExactRow DEF Binding
  <2>4. r \in EffectRow
    BY DEF LedgerInv, LedgerTypeOK
  <2>5. /\ n \in EffectRow
        /\ n.jti = r.jti
        /\ n.request = r.request
        /\ n.state = "CANCELLED"
        /\ n.terminal = r.terminal
        /\ oidcEffectJti' = (oidcEffectJti \ {r}) \cup {n}
    BY <2>2, <2>4 DEF EffectRow
  <2> HIDE DEF n
  <2>6. consumed[b.jti] = 0
    BY <2>2, <2>3 DEF LedgerInv, RowsCountUses
  <2>7. \A q \in oidcEffectJti \ {r} : q.jti # b.jti
    BY <2>3 DEF LedgerInv, KeysUnique, SameKey
  <2>8. LedgerTypeOK'
    BY <2>1, <2>2, <2>3, <2>5 DEF LedgerInv, LedgerTypeOK
  <2>9. KeysUnique'
    BY <2>1, <2>5 DEF LedgerInv, KeysUnique, SameKey
  <2>10. RowsCountUses'
    BY <2>1, <2>2, <2>3, <2>5, <2>6 DEF LedgerInv, RowsCountUses
  <2>11. UsesRemembered'
    BY <2>1, <2>2, <2>5 DEF LedgerInv, UsesRemembered, Forgettable
  <2>12. FencesRemembered'
    BY <2>1, <2>2, <2>3, <2>5, <2>6, <2>7
    DEF LedgerInv, LedgerTypeOK, FencesRemembered, Forgettable
  <2>13. InFlightFresh' /\ GrantsKept'
    BY <2>1 DEF LedgerInv, InFlightFresh, GrantsKept, GrantsAgree
  <2>14. MarkedIsResolved'
    BY <2>2, <2>5 DEF LedgerInv, MarkedIsResolved
  <2>15. QED
    BY <2>8, <2>9, <2>10, <2>11, <2>12, <2>13, <2>14 DEF LedgerInv
<1>3. QED
  BY <1>1, <1>2

\* Marking a tombstone changes neither its key nor what it says of its token.
LEMMA MarkInv ==
  ASSUME LedgerInv, NEW b \in Binding, MarkEffectJournalTerminalExact(b)
  PROVE  LedgerInv'
<1> DEFINE Marked(r) == [r EXCEPT !.terminal = IF @ = NotTerminal THEN clock ELSE @]
<1>1. UNCHANGED <<oidcJti, inFlight, clock, consumed, granted, fenced>>
  BY DEF MarkEffectJournalTerminalExact
<1>2. PICK r \in oidcEffectJti :
        /\ IsExactRow(EffectRows(b), b, r)
        /\ oidcEffectJti' = (oidcEffectJti \ {r}) \cup {Marked(r)}
  BY DEF MarkEffectJournalTerminalExact
<1> DEFINE n == Marked(r)
<1>3. r.state # "PREPARED"
  BY <1>2 DEF CanMark, MarkEffectJournalTerminalExact, IsExactRow
<1>4. r \in EffectRow /\ clock \in Int
  BY DEF LedgerInv, LedgerTypeOK
<1>5. n \in EffectRow /\ n.jti = r.jti /\ n.request = r.request /\ n.state = r.state
  BY <1>4 DEF EffectRow
<1>6. oidcEffectJti' = (oidcEffectJti \ {r}) \cup {n}
  BY <1>2
<1> HIDE DEF n, Marked
<1>7. LedgerTypeOK'
  BY <1>1, <1>5, <1>6 DEF LedgerInv, LedgerTypeOK
<1>8. KeysUnique'
  BY <1>1, <1>5, <1>6 DEF LedgerInv, KeysUnique, SameKey
<1>9. RowsCountUses'
  BY <1>1, <1>5, <1>6 DEF LedgerInv, RowsCountUses
<1>10. UsesRemembered'
  BY <1>1, <1>5, <1>6 DEF LedgerInv, UsesRemembered, Forgettable
<1>11. FencesRemembered'
  BY <1>1, <1>5, <1>6 DEF LedgerInv, FencesRemembered, Forgettable
<1>12. InFlightFresh' /\ GrantsKept'
  BY <1>1 DEF LedgerInv, InFlightFresh, GrantsKept, GrantsAgree
<1>13. MarkedIsResolved'
  BY <1>3, <1>5, <1>6 DEF LedgerInv, MarkedIsResolved
<1>14. QED
  BY <1>7, <1>8, <1>9, <1>10, <1>11, <1>12, <1>13 DEF LedgerInv

-----------------------------------------------------------------------------
(* The theorems. *)

\* The invariant holds in every state the ledger can reach.
THEOREM LedgerInvariant == LedgerSpec => []LedgerInv
<1>1. LedgerInv /\ [LedgerNext]_ledgerVars => LedgerInv'
  <2> SUFFICES ASSUME LedgerInv, [LedgerNext]_ledgerVars PROVE LedgerInv'
    OBVIOUS
  <2>1. ASSUME NEW k \in Callers, NEW b \in Binding, NEW exact \in BOOLEAN,
               BeginConsume(k, b, exact)
        PROVE  LedgerInv'
    BY <2>1, BeginConsumeInv DEF Binding
  <2>2. ASSUME NEW p \in inFlight, ConsumeInsert(p) PROVE LedgerInv'
    BY <2>2, ConsumeInsertInv
  <2>3. ASSUME NEW p \in inFlight, ConsumeReplay(p) PROVE LedgerInv'
    BY <2>3, ConsumeReplayInv
  <2>4. ASSUME NEW p \in inFlight, ConsumeDropped(p) PROVE LedgerInv'
    BY <2>4, ConsumeDroppedInv
  <2>5. ASSUME NEW b \in Binding, PrepareEffectExact(b) PROVE LedgerInv'
    BY <2>5, PrepareInv
  <2>6. ASSUME NEW b \in Binding, CommitPreparedEffectExact(b) PROVE LedgerInv'
    BY <2>6, CommitInv
  <2>7. ASSUME NEW b \in Binding, CancelPreparedEffectExact(b) PROVE LedgerInv'
    BY <2>7, CancelInv
  <2>8. ASSUME NEW b \in Binding, MarkEffectJournalTerminalExact(b) PROVE LedgerInv'
    BY <2>8, MarkInv
  <2>9. CASE LedgerTick
    BY <2>9, TickInv
  <2>10. CASE UNCHANGED ledgerVars
    BY <2>10, StutterInv
  <2>11. QED
    BY <2>1, <2>2, <2>3, <2>4, <2>5, <2>6, <2>7, <2>8, <2>9, <2>10 DEF LedgerNext
<1>2. QED
  BY LedgerInitInv, <1>1, PTL DEF LedgerSpec

\* Every row, call and history value stays of its type.
THEOREM LedgerTypeCorrect == LedgerSpec => []LedgerTypeOK
<1>1. LedgerInv => LedgerTypeOK
  BY DEF LedgerInv
<1>2. QED
  BY LedgerInvariant, <1>1, PTL

\* No token is used twice, by whichever protocol, pruned or not, although the
\* only expiry check of an ordinary use comes before its await.
THEOREM TokensUsedOnce == LedgerSpec => []JtiUsedOnce
<1>1. LedgerInv => JtiUsedOnce
  BY DEF LedgerInv, LedgerTypeOK, UsesRemembered, JtiUsedOnce
<1>2. QED
  BY LedgerInvariant, <1>1, PTL

\* A cancelled token is never used: not by a late commit, not by an ordinary
\* use, not after its tombstone is gone.
THEOREM CancelFences == LedgerSpec => []CancelledNeverUsed
<1>1. LedgerInv => CancelledNeverUsed
  BY DEF LedgerInv, FencesRemembered, CancelledNeverUsed
<1>2. QED
  BY LedgerInvariant, <1>1, PTL

\* The code's own checks keep the keys of both tables unique, and the tables
\* disjoint in tokens and requests, so no SQL constraint ever has to refuse.
THEOREM LedgerKeysUnique == LedgerSpec => []KeysUnique
<1>1. LedgerInv => KeysUnique
  BY DEF LedgerInv
<1>2. QED
  BY LedgerInvariant, <1>1, PTL

\* No caller is ever told that another caller's request consumed the token.
THEOREM GrantsNeverDisagree == LedgerSpec => []GrantsAgree
<1>1. LedgerInv => GrantsAgree
  BY DEF LedgerInv, GrantsKept
<1>2. QED
  BY LedgerInvariant, <1>1, PTL

\* A tombstone disappears only once it is terminal, its journal is marked, and
\* its token is past its grace: rows are otherwise only replaced in place.
THEOREM ForgetsOnlyDeadTombstones == LedgerSpec => OnlyDeadTombstonesForgotten
<1>1. LedgerInv /\ [LedgerNext]_ledgerVars => [ForgetsOnlyDead]_ledgerVars
  <2> SUFFICES ASSUME LedgerInv, LedgerNext, NEW r \in oidcEffectJti,
                      \A q \in oidcEffectJti' : q.jti # r.jti
               PROVE  /\ r.state # "PREPARED"
                      /\ r.terminal # NotTerminal
                      /\ TokenExpiry[r.jti] + Grace < clock
    BY DEF ForgetsOnlyDead
  <2>1. oidcEffectJti' # oidcEffectJti
    OBVIOUS
  <2>2. PICK b \in Binding : \/ PrepareEffectExact(b)
                             \/ CommitPreparedEffectExact(b)
                             \/ CancelPreparedEffectExact(b)
                             \/ MarkEffectJournalTerminalExact(b)
    BY <2>1 DEF LedgerNext, BeginConsume, ConsumeInsert, ConsumeReplay, ConsumeDropped,
                LedgerTick
  <2>3. CASE PrepareEffectExact(b)
    <3>1. r \notin KeptRows
      BY <2>3 DEF PrepareEffectExact
    <3>2. QED
      BY <3>1, PrunedIsForgettable DEF Forgettable
  <2>4. ASSUME NEW s, MovePrepared(b, s) PROVE FALSE
    <3>1. PICK q \in oidcEffectJti :
            oidcEffectJti' = (oidcEffectJti \ {q}) \cup {[q EXCEPT !.state = s]}
      BY <2>4 DEF MovePrepared
    <3>2. q \in EffectRow
      BY DEF LedgerInv, LedgerTypeOK
    <3>3. [q EXCEPT !.state = s].jti = q.jti
      BY <3>2 DEF EffectRow
    <3>4. QED
      BY <3>1, <3>3
  <2>5. CASE CommitPreparedEffectExact(b)
    BY <2>1, <2>4, <2>5 DEF CommitPreparedEffectExact, AlreadyIn, ledgerVars
  <2>6. CASE CancelPreparedEffectExact(b)
    BY <2>1, <2>4, <2>6 DEF CancelPreparedEffectExact, AlreadyIn, ledgerVars
  <2>7. CASE MarkEffectJournalTerminalExact(b)
    <3>1. PICK q \in oidcEffectJti :
            oidcEffectJti' = (oidcEffectJti \ {q}) \cup
              {[q EXCEPT !.terminal = IF @ = NotTerminal THEN clock ELSE @]}
      BY <2>7 DEF MarkEffectJournalTerminalExact
    <3>2. q \in EffectRow
      BY DEF LedgerInv, LedgerTypeOK
    <3>3. [q EXCEPT !.terminal = IF @ = NotTerminal THEN clock ELSE @].jti = q.jti
      BY <3>2 DEF EffectRow
    <3>4. QED
      BY <3>1, <3>3
  <2>8. QED
    BY <2>2, <2>3, <2>5, <2>6, <2>7
<1>2. QED
  BY LedgerInvariant, <1>1, PTL DEF LedgerSpec, OnlyDeadTombstonesForgotten

-----------------------------------------------------------------------------
(* The inductive invariant. *)

Proof == [by : Attempts, at : 0..MaxClock]
Effect == [id : IdType, request : Requests, jti : Jtis, expires : Nat,
           status : AuthorityEffectStatus, result : Proof \cup {NoResult}]
ClientPc == {"new", "waiting", "reserved", "sealed", "dispatched", "recovering",
             "consuming"} \cup Finished
ClientState == [pc : ClientPc, id : IdType \cup {NoId}, proof : Proof \cup {NoResult}]
EffectPc == RemotePc \cup LocalPc
EffectOp == [pc : EffectPc, by : Attempts, row : Effect, next : Effect, reply : ClientState]
HeadOp == [pc : HeadPc, by : Snapshots]
EffectCall == [kind : RemotePc, binding : Binding]
MirrorCall == [kind : {"mirroring"}, snapshot : Snapshots]

HeadTypes ==
  /\ reservations \subseteq Effect
  /\ heads \in Seq(HeadRow)
  /\ client \in [Attempts -> ClientState]
  /\ op \in {Idle} \cup EffectOp \cup HeadOp
  /\ late \subseteq EffectCall \cup MirrorCall
  /\ worm \in [Snapshots -> Nat]
  /\ clock \in 0..MaxClock

\* A snapshot has one generation.
SnapshotsOnce ==
  \A g, h \in DOMAIN heads : heads[g].snapshot = heads[h].snapshot => g = h

\* An intent has one row, whichever head it is under, and a sealed row its proof.
RowsSound ==
  /\ \A r, q \in reservations : r.id.intent = q.id.intent => r = q
  /\ \A r \in reservations : r.status \in SealedStatus => r.result \in Proof

\* Open effects are pinned to the last head, which is confirmed.
EffectsPinned ==
  \A r \in reservations : r.status \in Nonterminal =>
    ~PendingHead /\ r.id.generation = Len(heads)

\* The ledger keeps the tombstone of r and may not forget it.
Kept(r) == \E e \in oidcEffectJti : Exact(BindingOf(r), e) /\ e.terminal = NotTerminal

Paying(r) == r.status \in {"DISPATCHED_HOLD", "CONFIRMED"}
Spent(j) == consumed[j] # 0 \/ j \in fenced

\* What a dispatched row and the ledger say of each other; and no two of the rows
\* that a token pays for share one.
LedgerInStep ==
  /\ \A r \in reservations : r.status = "DISPATCHED_HOLD" => Kept(r)
  /\ \A e \in oidcEffectJti : e.state = "CONSUMED" =>
       \E r \in reservations : Exact(BindingOf(r), e) /\ Paying(r)
  /\ \A r \in reservations : r.status = "CONFIRMED" => consumed[r.jti] = 1
  /\ \A r, q \in reservations : Paying(r) /\ Paying(q) /\ r.jti = q.jti => r = q

\* A commit on its way is for a row that still holds its proof, unless the use
\* was fenced; a mark on its way is for a spent token, never for the tombstone
\* of a row that is dispatched or about to be.
MayCommit(b) == b.jti \in fenced \/ \E r \in reservations : BindingOf(r) = b /\ Paying(r)
MarkDue(b) ==
  /\ Spent(b.jti)
  /\ \A r \in reservations : BindingOf(r) = b => r.status # "DISPATCHED_HOLD"
MayMark(b) == MarkDue(b) /\ (op.pc = "prepared" => BindingOf(op.row) # b)

LateCalls ==
  \A c \in late : /\ c.kind = "committing" => MayCommit(c.binding)
                  /\ c.kind = "marking" => MayMark(c.binding)

\* Attempt a's intent has a confirmed row, id, with this proof.
Holds(rows, id, proof, a) ==
  /\ id.intent = IntentOf[a]
  /\ \E r \in rows : r.id = id /\ r.status = "CONFIRMED" /\ r.result = proof

\* Client state c carries a proof that attempt a made for its own intent.
OwnProof(a, c) ==
  c.id \in IdType /\ c.id.intent = IntentOf[a] /\ c.proof \in Proof /\ c.proof.by = a

\* What the operation inside `exclusive` knows, by the point it has reached.
Reconciling ==
  /\ op.row \in reservations
  /\ op.row.status \in {"SEALED", "DISPATCHED_HOLD"}
  /\ op.next.id = op.row.id
  /\ op.next.status = "RESERVED"
  /\ op.reply.pc = "reserved" /\ op.reply.id = op.row.id
  /\ op.row.id.intent = IntentOf[op.by]

Dispatching ==
  /\ op.row \in reservations
  /\ op.row.status = "SEALED"
  /\ op.reply.pc = "dispatched"
  /\ OwnProof(op.by, op.reply)

Confirming ==
  /\ op.row \in reservations
  /\ Paying(op.row)
  /\ op.reply.pc = "done"
  /\ OwnProof(op.by, op.reply)
  /\ op.reply.id = op.row.id
  /\ op.next.result = op.reply.proof

Marking ==
  /\ MarkDue(BindingOf(op.row))
  /\ op.reply.id.intent = IntentOf[op.by]
  /\ op.reply.pc \in {"reserved", "recovering", "done"}
  /\ op.reply.pc # "reserved" => Holds(reservations, op.reply.id, op.reply.proof, op.by)
  /\ op.reply.pc = "done" => op.reply.proof.by = op.by

Operation ==
  /\ op.pc \in EffectPc => client[op.by].pc \in {"waiting", "failed"}
  /\ op.pc \in {"reconciling", "cancelling", "rearming", "rearmingAbsent", "refusing",
                "confirming"} => Reconciling
  /\ op.pc = "rearming" => op.row.jti \in fenced
  /\ op.pc = "rearmingAbsent" => op.row.status = "SEALED"
  /\ op.pc = "confirming" => op.row.status = "DISPATCHED_HOLD" /\ consumed[op.row.jti] = 1
  /\ op.pc \in {"preparing", "prepared"} => Dispatching
  /\ op.pc = "prepared" => Kept(op.row)
  /\ op.pc \in {"committing", "committed"} => Confirming
  /\ op.pc = "committed" => consumed[op.row.jti] = 1
  /\ op.pc = "marking" => Marking

\* What an attempt in client state c knows.
Knows(rows, a, c) ==
  /\ c.pc = "reserved" => c.id.intent = IntentOf[a]
  /\ c.pc \in {"sealed", "dispatched"} => OwnProof(a, c)
  /\ c.pc \in {"recovering", "consuming", "done"} => Holds(rows, c.id, c.proof, a)
  /\ c.pc = "consuming" => c.proof.by # a

\* The attempt was answered with another's proof, and its token pays for no row.
Recovered(a) == client[a].pc = "done" /\ client[a].proof.by # a
Apart(j) == consumed[j] = 1 /\ \A r \in reservations : Paying(r) => r.jti # j

ClientsSound ==
  /\ \A a \in Attempts : Knows(reservations, a, client[a])
  /\ \A a \in Attempts : Recovered(a) => Apart(JtiOf[a])
  /\ \A a, b \in Attempts : Recovered(a) /\ Recovered(b) /\ JtiOf[a] = JtiOf[b] => a = b

\* A recovery on its way is for a proof that is held, and its attempt's only one.
RecoveriesSound ==
  /\ \A p \in inFlight :
       /\ p.jti = JtiOf[p.caller]
       /\ client[p.caller].pc \in {"consuming", "failed"}
       /\ \E r \in reservations : /\ r.id.intent = IntentOf[p.caller]
                                 /\ r.status = "CONFIRMED"
  /\ \A p, q \in inFlight : p.caller = q.caller => p = q

HeadInv ==
  /\ LedgerInv
  /\ HeadTypes
  /\ SnapshotsOnce
  /\ RowsSound
  /\ EffectsPinned
  /\ LedgerInStep
  /\ LateCalls
  /\ Operation
  /\ ClientsSound
  /\ RecoveriesSound

-----------------------------------------------------------------------------
(* Rows, operations and heads. *)

\* A row's view in the ledger is a binding.
LEMMA BindingTyped ==
  ASSUME NEW r \in Effect
  PROVE  /\ BindingOf(r) \in Binding
         /\ BindingOf(r).jti = r.jti
         /\ BindingOf(r).reservation = r.id
  BY HeadAssumption DEF BindingOf, Binding, Effect, IdType

\* The point an operation has reached tells its kind.
LEMMA OperationTyped ==
  ASSUME HeadTypes
  PROVE  /\ op.pc \in EffectPc => op \in EffectOp
         /\ op.pc \in HeadPc => op \in HeadOp
         /\ op.pc \notin EffectPc \cup HeadPc => op = Idle
  BY DEF HeadTypes, EffectOp, HeadOp, Idle, EffectPc, RemotePc, LocalPc, HeadPc

\* When no head is pending the last one is the current one.
LEMMA LastIsCurrent ==
  ASSUME heads \in Seq(HeadRow), ~PendingHead
  PROVE  CurrentGeneration = Len(heads)
<1>1. DOMAIN heads = 1..Len(heads) /\ Len(heads) \in Nat
  OBVIOUS
<1>2. ConfirmedGenerations = 1..Len(heads)
  BY <1>1 DEF ConfirmedGenerations, PendingHead
<1>3. CASE Len(heads) = 0
  BY <1>2, <1>3 DEF CurrentGeneration
<1>4. CASE Len(heads) # 0
  <2>1. Len(heads) \in ConfirmedGenerations /\ \A h \in ConfirmedGenerations : h <= Len(heads)
    BY <1>1, <1>2, <1>4
  <2>2. \A g \in ConfirmedGenerations :
          (\A h \in ConfirmedGenerations : h <= g) => g = Len(heads)
    <3> SUFFICES ASSUME NEW g \in ConfirmedGenerations,
                        \A h \in ConfirmedGenerations : h <= g
                 PROVE  g = Len(heads)
      OBVIOUS
    <3> DEFINE n == Len(heads)
    <3>1. g \in 1..n /\ n <= g /\ n \in Nat
      BY <1>1, <1>2, <2>1
    <3> HIDE DEF n
    <3>2. g = n
      BY <3>1
    <3>3. QED
      BY <3>2 DEF n
  <2>3. ConfirmedGenerations # {}
    BY <2>1
  <2>4. QED
    BY <2>1, <2>2, <2>3 DEF CurrentGeneration
<1>5. QED
  BY <1>3, <1>4

\* Snapshots are not repeated, so the generations are no more than they are.
LEMMA GenerationsBounded ==
  ASSUME heads \in Seq(HeadRow), SnapshotsOnce
  PROVE  Cardinality(Snapshots) \in Nat /\ Len(heads) <= Cardinality(Snapshots)
<1> DEFINE f == [g \in 1..Len(heads) |-> heads[g].snapshot]
<1>1. DOMAIN heads = 1..Len(heads) /\ Len(heads) \in Nat
  OBVIOUS
<1>2. \A g \in 1..Len(heads) : heads[g].snapshot \in Snapshots
  <2>1. \A g \in 1..Len(heads) : heads[g] \in HeadRow
    OBVIOUS
  <2>2. QED
    BY <2>1 DEF HeadRow
<1>3. f \in Injection(1..Len(heads), Snapshots)
  BY <1>1, <1>2 DEF SnapshotsOnce, Injection, IsInjective
<1>4. Cardinality(1..Len(heads)) <= Cardinality(Snapshots)
  BY <1>3, FS_Injection, HeadAssumption
<1>5. Cardinality(1..Len(heads)) = Len(heads)
  BY <1>1, FS_Interval
<1>6. Cardinality(Snapshots) \in Nat
  BY FS_CardinalityType, HeadAssumption
<1>7. QED
  BY <1>4, <1>5, <1>6

\* The first expiry of the store: only reserved rows end, in place.
LEMMA ExpireReservedRows ==
  ASSUME NEW rows, rows \subseteq Effect, NEW now
  PROVE  LET left == ExpireReserved(rows, now) IN
         /\ left \subseteq Effect
         /\ \A x \in left : /\ \E r \in rows : x.id = r.id
                            /\ x \in rows \/ x.status = "EXPIRED_UNDISPATCHED"
         /\ \A r \in rows : r.status # "RESERVED" => r \in left
         /\ (\A r, q \in rows : r.id.intent = q.id.intent => r = q) =>
              \A x, y \in left : x.id.intent = y.id.intent => x = y
<1> DEFINE End(r) == IF r.status = "RESERVED" /\ r.expires < now
                       THEN [r EXCEPT !.status = "EXPIRED_UNDISPATCHED"] ELSE r
<1>1. ExpireReserved(rows, now) = {End(r) : r \in rows}
  BY DEF ExpireReserved
<1>2. \A r \in rows : /\ End(r) \in Effect
                      /\ End(r).id = r.id
                      /\ End(r) = r \/ End(r).status = "EXPIRED_UNDISPATCHED"
                      /\ r.status # "RESERVED" => End(r) = r
  BY DEF Effect, AuthorityEffectStatus, Replaceable
<1> HIDE DEF End
<1>3. QED
  BY <1>1, <1>2

\* The second expiry: only undispatched rows end, in place, without a result.
LEMMA ExpireUndispatchedRows ==
  ASSUME NEW rows, rows \subseteq Effect, NEW now
  PROVE  LET left == ExpireUndispatched(rows, now) IN
         /\ left \subseteq Effect
         /\ \A x \in left : x \in rows \/ x.status = "EXPIRED_UNDISPATCHED"
         /\ \A r \in rows : Paying(r) => r \in left
         /\ (\A r, q \in rows : r.id.intent = q.id.intent => r = q) =>
              \A x, y \in left : x.id.intent = y.id.intent => x = y
<1> DEFINE End(r) == IF r.status \in Undispatched /\ r.expires < now
                       THEN Ended(r, "EXPIRED_UNDISPATCHED") ELSE r
<1>1. ExpireUndispatched(rows, now) = {End(r) : r \in rows}
  BY DEF ExpireUndispatched
<1>2. \A r \in rows : /\ End(r) \in Effect
                      /\ End(r).id = r.id
                      /\ End(r) = r \/ End(r).status = "EXPIRED_UNDISPATCHED"
                      /\ Paying(r) => End(r) = r
  BY DEF Effect, AuthorityEffectStatus, Replaceable, Ended, Undispatched, Paying
<1> HIDE DEF End
<1>3. QED
  BY <1>1, <1>2

-----------------------------------------------------------------------------
(* What a step of the two journals carries over. *)

Carried ==
  /\ \A r \in reservations : r.status = "CONFIRMED" => r \in reservations'
  /\ \A j \in Jtis : consumed[j] = 1 => consumed'[j] = 1
  /\ fenced \subseteq fenced'
  /\ \A b \in Binding : MayCommit(b) => MayCommit(b)'
  /\ \A b \in Binding : MayMark(b) => MarkDue(b)'
  /\ \A j \in Jtis : Apart(j) => Apart(j)'

\* Intent i has a paid row with proof p.
Paid(i, p) == \E r \in PaidRows(i) : r.result = p

\* A step that the one-use proof does not see: no token changes its state, no intent
\* its proof, and no attempt is answered.
Quiet ==
  /\ UNCHANGED <<consumed, fenced>>
  /\ \A r \in reservations : r.status = "CONFIRMED" => r \in reservations'
  /\ \A i, p : Paid(i, p)' <=> Paid(i, p)
  /\ \A a \in Attempts :
       client'[a] = client[a] \/ (client[a].pc # "done" /\ client'[a].pc # "done")

\* Intents keep their proofs when the rows that tokens pay for stay.
LEMMA PaidKept ==
  ASSUME UNCHANGED consumed,
         \A r \in reservations : Paying(r) => r \in reservations',
         \A r \in reservations' : Paying(r) => r \in reservations
  PROVE  /\ \A r \in reservations : r.status = "CONFIRMED" => r \in reservations'
         /\ \A i, p : Paid(i, p)' <=> Paid(i, p)
  BY DEF Paid, PaidRows, Paying

\* A step that touches neither journal carries everything over.
LEMMA NothingCarried ==
  ASSUME HeadInv, UNCHANGED <<reservations, oidcEffectJti, consumed, fenced>>
  PROVE  LedgerInStep' /\ RowsSound' /\ Carried
<1>1. LedgerInStep' /\ RowsSound'
  BY DEF HeadInv, LedgerInStep, RowsSound, Kept, Paying
<1>2. Carried
  BY DEF Carried, MayCommit, MayMark, MarkDue, Spent, Apart, Paying
<1>3. QED
  BY <1>1, <1>2

\* A step that only changes rows no token pays for does, too.
LEMMA UnpaidCarried ==
  ASSUME HeadInv, UNCHANGED <<oidcEffectJti, consumed, fenced>>,
         \A r \in reservations : Paying(r) => r \in reservations',
         \A r \in reservations' : Paying(r) => r \in reservations
  PROVE  LedgerInStep' /\ Carried
<1>1. LedgerInStep'
  BY DEF HeadInv, LedgerInStep, Kept, Paying
<1>2. Carried
  BY DEF Carried, MayCommit, MayMark, MarkDue, Spent, Apart, Paying
<1>3. QED
  BY <1>1, <1>2

\* Calls that are still on their way stay harmless.
LEMMA LateCarried ==
  ASSUME HeadInv, Carried, late' \subseteq late, op'.pc # "prepared"
  PROVE  LateCalls'
<1> SUFFICES ASSUME NEW c \in late'
             PROVE  /\ c.kind = "committing" => MayCommit(c.binding)'
                    /\ c.kind = "marking" => MarkDue(c.binding)'
  BY DEF LateCalls, MayMark
<1>1. c \in late /\ (c.kind \in RemotePc => c.binding \in Binding)
  BY DEF HeadInv, HeadTypes, EffectCall, MirrorCall, RemotePc
<1>2. CASE c.kind = "committing"
  BY <1>1, <1>2 DEF HeadInv, LateCalls, Carried, RemotePc
<1>3. CASE c.kind = "marking"
  BY <1>1, <1>3 DEF HeadInv, LateCalls, Carried, RemotePc
<1>4. QED
  BY <1>2, <1>3

\* What an attempt knows stays true.
LEMMA KnowsCarried ==
  ASSUME Carried
  PROVE  /\ \A id, proof, a :
              Holds(reservations, id, proof, a) => Holds(reservations', id, proof, a)
         /\ \A a, c : Knows(reservations, a, c) => Knows(reservations', a, c)
<1>1. \A id, proof, a :
         Holds(reservations, id, proof, a) => Holds(reservations', id, proof, a)
  BY DEF Carried, Holds
<1>2. QED
  BY <1>1 DEF Knows

\* One attempt moves on, and not to the answer of a recovery.
LEMMA ClientCarried ==
  ASSUME HeadInv, Carried, NEW a \in Attempts, NEW c \in ClientState,
         client' \in {client, [client EXCEPT ![a] = c]},
         Knows(reservations', a, c), c.pc = "done" => c.proof.by = a
  PROVE  client' \in [Attempts -> ClientState] /\ ClientsSound'
<1>1. client \in [Attempts -> ClientState]
  BY DEF HeadInv, HeadTypes
<1>2. client' \in [Attempts -> ClientState]
  BY <1>1
<1>3. \A b \in Attempts : client'[b] = client[b] \/ (b = a /\ client'[b] = c)
  BY <1>1
<1>4. \A b \in Attempts : Knows(reservations', b, client'[b])
  BY <1>3, KnowsCarried DEF HeadInv, ClientsSound
<1>5. \A b \in Attempts : Recovered(b)' => Recovered(b) /\ client'[b] = client[b]
  BY <1>3 DEF Recovered
<1>6. \A b \in Attempts : Recovered(b)' => Apart(JtiOf[b])'
  BY <1>5, HeadAssumption DEF HeadInv, ClientsSound, Carried
<1>7. QED
  BY <1>2, <1>4, <1>5, <1>6 DEF HeadInv, ClientsSound

\* Recoveries on their way are still for a proof that is held.
LEMMA RecoveriesCarried ==
  ASSUME HeadInv, Carried, inFlight' \subseteq inFlight,
         \A a \in Attempts : client[a].pc \in {"consuming", "failed"} =>
                              client'[a].pc \in {"consuming", "failed"}
  PROVE  RecoveriesSound'
<1>1. \A p \in inFlight : p.caller \in Attempts
  BY HeadAssumption DEF HeadInv, LedgerInv, LedgerTypeOK, Call
<1>2. QED
  BY <1>1 DEF HeadInv, RecoveriesSound, Carried

\* An answer changes one attempt's state, and none that had ended.
LEMMA ReplyChanges ==
  ASSUME NEW a \in Attempts, NEW c, Reply(a, c)
  PROVE  /\ client' \in {client, [client EXCEPT ![a] = c]}
         /\ client[a].pc \in Finished => client' = client
  BY DEF Reply

\* A failure tells an attempt nothing.
LEMMA FailedKnows ==
  ASSUME NEW a
  PROVE  /\ Failed \in ClientState
         /\ Failed.pc = "failed"
         /\ Knows(reservations', a, Failed)
  BY DEF Failed, Client, ClientState, ClientPc, Finished, Knows

\* An attempt that fails or gives up while nothing else happens.
LEMMA FailInv ==
  ASSUME HeadInv, NEW a \in Attempts,
         client' \in {client, [client EXCEPT ![a] = Failed]},
         client' # client => client[a].pc \notin Finished,
         UNCHANGED <<ledgerVars, headVars, op, late, worm>>
  PROVE  HeadInv' /\ Quiet
<1>1. UNCHANGED <<oidcJti, oidcEffectJti, inFlight, clock, consumed, granted, fenced,
                  reservations, heads, op, late, worm>>
  BY DEF ledgerVars, headVars
<1>2. LedgerInv'
  BY StutterInv DEF HeadInv
<1>3. LedgerInStep' /\ RowsSound' /\ Carried
  BY <1>1, NothingCarried
<1>4. client' \in [Attempts -> ClientState] /\ ClientsSound'
  BY <1>3, FailedKnows, ClientCarried
<1>5. RecoveriesSound'
  <2>1. \A b \in Attempts : client[b].pc \in {"consuming", "failed"} =>
                             client'[b].pc \in {"consuming", "failed"}
    BY FailedKnows DEF HeadInv, HeadTypes
  <2>2. QED
    BY <1>1, <1>3, <2>1, RecoveriesCarried
<1>6. HeadTypes' /\ SnapshotsOnce' /\ EffectsPinned'
  BY <1>1, <1>4 DEF HeadInv, HeadTypes, SnapshotsOnce, EffectsPinned, PendingHead
<1>7. LateCalls'
  BY <1>1 DEF HeadInv, LateCalls, MayCommit, MayMark, MarkDue, Spent, Paying
<1>8. Operation'
  <2>1. op.pc \in EffectPc => client'[op.by].pc \in {"waiting", "failed"}
    <3>1. op.pc \in EffectPc => op.by \in Attempts
      BY OperationTyped DEF HeadInv, EffectOp
    <3>2. QED
      BY <3>1, FailedKnows DEF HeadInv, HeadTypes, Operation
  <2>2. QED
    BY <1>1, <2>1
    DEF HeadInv, Operation, Reconciling, Dispatching, Confirming, Marking, OwnProof, Holds,
        MarkDue, Spent, Kept, Paying
<1>9. Quiet
  BY <1>1, PaidKept, FailedKnows DEF Quiet, HeadInv, HeadTypes, Finished
<1>10. QED
  BY <1>2, <1>3, <1>4, <1>5, <1>6, <1>7, <1>8, <1>9 DEF HeadInv

-----------------------------------------------------------------------------
(* Calls an attempt makes of the head object. *)

\* While `exclusive` is free, an attempt changes rows no token pays for and
\* moves on, or begins an operation that waits for the ledger.
LEMMA CallInv ==
  ASSUME HeadInv, op = Idle,
         NEW a \in Attempts, NEW c \in ClientState,
         UNCHANGED <<ledgerVars, heads, late, worm>>,
         reservations' \subseteq Effect, RowsSound', EffectsPinned',
         \A r \in reservations : Paying(r) => r \in reservations',
         \A r \in reservations' : Paying(r) => r \in reservations,
         client' = [client EXCEPT ![a] = c],
         client[a].pc \notin {"consuming", "failed", "done"},
         Knows(reservations', a, c), c.pc # "done",
         op' \in {Idle} \cup EffectOp, op'.pc # "prepared", Operation'
  PROVE  HeadInv' /\ Quiet
<1>1. UNCHANGED <<oidcJti, oidcEffectJti, inFlight, clock, consumed, granted, fenced,
                  heads, late, worm>>
  BY DEF ledgerVars
<1>2. LedgerInv'
  BY StutterInv DEF HeadInv
<1>3. LedgerInStep' /\ Carried
  BY <1>1, UnpaidCarried
<1>4. client' \in [Attempts -> ClientState] /\ ClientsSound'
  BY <1>3, ClientCarried
<1>5. RecoveriesSound'
  <2>1. \A b \in Attempts : client[b].pc \in {"consuming", "failed"} =>
                             client'[b].pc \in {"consuming", "failed"}
    BY DEF HeadInv, HeadTypes
  <2>2. inFlight' \subseteq inFlight
    BY <1>1
  <2>3. QED
    BY <1>3, <2>1, <2>2, RecoveriesCarried
<1>6. HeadTypes' /\ SnapshotsOnce'
  BY <1>1, <1>4 DEF HeadInv, HeadTypes, SnapshotsOnce
<1>7. LateCalls'
  BY <1>1, <1>3, LateCarried
<1>8. Quiet
  BY <1>1, PaidKept DEF Quiet, HeadInv, HeadTypes
<1>9. QED
  BY <1>2, <1>3, <1>4, <1>5, <1>6, <1>7, <1>8 DEF HeadInv

\* No operation, nothing to know about one.
LEMMA IdleOperation ==
  ASSUME op' = Idle
  PROVE  op' \in {Idle} \cup EffectOp /\ op'.pc # "prepared" /\ Operation'
  BY DEF Idle, Operation, EffectPc, RemotePc, LocalPc

\* The row an attempt asks for is of its intent and of the head it matched.
LEMMA NewRowTyped ==
  ASSUME HeadInv, NEW a \in Attempts, NEW lag \in 0..Window, HeadMatches(a)
  PROVE  /\ NewRow(a, lag) \in Effect
         /\ NewRow(a, lag).id.intent = IntentOf[a]
         /\ NewRow(a, lag).id.generation = Len(heads)
         /\ NewRow(a, lag).status = "RESERVED"
<1>1. heads \in Seq(HeadRow) /\ clock \in 0..MaxClock
  BY DEF HeadInv, HeadTypes
<1>2. CurrentGeneration = Len(heads) /\ Len(heads) # 0 /\ Len(heads) \in Nat
  BY <1>1, LastIsCurrent DEF HeadMatches
<1>3. Len(heads) \in 1..Cardinality(Snapshots)
  BY <1>1, <1>2, GenerationsBounded DEF HeadInv
<1>4. clock + Window - lag \in Nat
  BY <1>1, HeadAssumption, LedgerAssumption
<1>5. QED
  BY <1>2, <1>3, <1>4, HeadAssumption
  DEF NewRow, Effect, IdType, AuthorityEffectStatus, Replaceable

\* A reserved row is added, or replaces an undispatched row of its intent.
LEMMA ReserveNewInv ==
  ASSUME HeadInv, NEW a \in Attempts, ReserveNew(a)
  PROVE  HeadInv' /\ Quiet
<1>1. PICK lag \in 0..Window :
        /\ \/ ReserveInsert(NewRow(a, lag), clock, CurrentGeneration, PendingHead)
           \/ ReserveReplace(NewRow(a, lag), clock)
        /\ Reply(a, Client("reserved", NewRow(a, lag).id, NoResult))
  BY DEF ReserveNew
<1> DEFINE n == NewRow(a, lag)
           c == Client("reserved", n.id, NoResult)
           others == {r \in reservations : r.id # n.id}
<1>2. /\ n \in Effect
      /\ n.id.intent = IntentOf[a]
      /\ n.id.generation = Len(heads)
      /\ n.status = "RESERVED"
  BY NewRowTyped DEF ReserveNew
<1>3. /\ HeadMatches(a) /\ op = Idle /\ client[a].pc = "new" /\ op' = Idle
      /\ UNCHANGED <<ledgerVars, heads, late, worm>>
  BY DEF ReserveNew, Free
<1>4. /\ reservations \subseteq Effect
      /\ \A r, q \in reservations : r.id.intent = q.id.intent => r = q
      /\ \A r \in reservations : r.status \in SealedStatus => r.result \in Proof
  BY DEF HeadInv, HeadTypes, RowsSound
<1> HIDE DEF n
<1>5. /\ reservations' = ExpireReserved(others, clock) \cup {n}
      /\ \A r \in others : r.id.intent # n.id.intent
      /\ \A r \in reservations : Paying(r) => r \in others
  <2>1. CASE ReserveInsert(n, clock, CurrentGeneration, PendingHead)
    <3>1. RowsOf(n.id) = {} /\ UniqueFor(n, reservations)
      BY <2>1 DEF ReserveInsert, CanInsert
    <3>2. others = reservations
      BY <3>1 DEF RowsOf
    <3>3. reservations' = ExpireReserved(reservations, clock) \cup {n}
      BY <2>1 DEF ReserveInsert
    <3>4. QED
      BY <3>1, <3>2, <3>3 DEF UniqueFor
  <2>2. CASE ReserveReplace(n, clock)
    <3>1. PICK old \in RowsOf(n.id) : old.status \in Replaceable
      BY <2>2 DEF ReserveReplace, CanReplace
    <3>2. \A r \in reservations : r.id = n.id => r = old
      BY <1>4, <3>1 DEF RowsOf
    <3>3. UniqueFor(n, reservations) /\ reservations' = ExpireReserved(others, clock) \cup {n}
      BY <2>2 DEF ReserveReplace, CanReplace
    <3>4. QED
      BY <3>1, <3>2, <3>3 DEF UniqueFor, Paying, Replaceable
  <2>3. QED
    BY <1>1, <2>1, <2>2 DEF n
<1> DEFINE left == ExpireReserved(others, clock)
<1>6. /\ left \subseteq Effect
      /\ \A x \in left : /\ \E r \in others : x.id = r.id
                         /\ x \in others \/ x.status = "EXPIRED_UNDISPATCHED"
      /\ \A r \in others : r.status # "RESERVED" => r \in left
      /\ \A x, y \in left : x.id.intent = y.id.intent => x = y
  <2>1. others \subseteq Effect /\ \A r, q \in others : r.id.intent = q.id.intent => r = q
    BY <1>4
  <2> HIDE DEF others
  <2>2. QED
    BY <2>1, ExpireReservedRows
<1> HIDE DEF left
<1>7. /\ \A r \in reservations : Paying(r) => r \in reservations'
      /\ \A r \in reservations' : Paying(r) => r \in reservations
  BY <1>2, <1>5, <1>6 DEF Paying, left
<1>8. RowsSound' /\ reservations' \subseteq Effect
  BY <1>2, <1>4, <1>5, <1>6 DEF RowsSound, left, SealedStatus
<1>9. EffectsPinned'
  BY <1>2, <1>3, <1>5, <1>6
  DEF left, EffectsPinned, HeadInv, HeadMatches, PendingHead, Nonterminal
<1>10. c \in ClientState /\ c.pc = "reserved" /\ c.id = n.id
  BY <1>2 DEF Client, ClientState, ClientPc, Effect
<1>11. client' = [client EXCEPT ![a] = c]
  BY <1>1, <1>3 DEF Reply, Finished, n
<1>12. Knows(reservations', a, c)
  BY <1>2, <1>10 DEF Knows
<1>13. QED
  BY <1>3, <1>7, <1>8, <1>9, <1>10, <1>11, <1>12, IdleOperation, CallInv

\* A waiting attempt knows nothing yet.
LEMMA WaitingKnows ==
  ASSUME HeadInv, NEW a \in Attempts, Wait(a)
  PROVE  LET c == [client[a] EXCEPT !.pc = "waiting"] IN
         /\ c \in ClientState
         /\ client' = [client EXCEPT ![a] = c]
         /\ client'[a].pc = "waiting"
         /\ Knows(reservations', a, c)
         /\ c.pc # "done"
<1>1. client \in [Attempts -> ClientState]
  BY DEF HeadInv, HeadTypes
<1>2. client[a] \in ClientState
  BY <1>1
<1> DEFINE c == [client[a] EXCEPT !.pc = "waiting"]
<1>3. c \in ClientState /\ c.pc = "waiting"
  BY <1>2 DEF ClientState, ClientPc
<1>4. client' = [client EXCEPT ![a] = c]
  BY <1>1 DEF Wait
<1>5. Knows(reservations', a, c)
  BY <1>3 DEF Knows
<1>6. QED
  BY <1>1, <1>3, <1>4, <1>5

\* A sealed row is returned; expiry only ends reserved ones.
LEMMA ReserveExistingInv ==
  ASSUME HeadInv, NEW a \in Attempts, ReserveExisting(a)
  PROVE  HeadInv' /\ Quiet
<1>1. PICK lag \in 0..Window :
        /\ ReserveReturn(NewRow(a, lag), clock)
        /\ \E r \in RowsOf(NewRow(a, lag).id) :
             IF r.status = "CONFIRMED"
               THEN Begin(a, "marking", r, r, Client("recovering", r.id, r.result))
               ELSE Begin(a, "reconciling", r, NewRow(a, lag),
                          Client("reserved", r.id, NoResult))
  BY DEF ReserveExisting
<1> DEFINE n == NewRow(a, lag)
<1>2. n \in Effect /\ n.id.intent = IntentOf[a] /\ n.status = "RESERVED"
  BY NewRowTyped DEF ReserveExisting
<1>3. /\ op = Idle /\ client[a].pc = "new" /\ Wait(a)
      /\ UNCHANGED <<ledgerVars, heads, late, worm>>
  BY DEF ReserveExisting, Free
<1> HIDE DEF n
<1>4. PICK r \in RowsOf(n.id) :
        IF r.status = "CONFIRMED"
          THEN Begin(a, "marking", r, r, Client("recovering", r.id, r.result))
          ELSE Begin(a, "reconciling", r, n, Client("reserved", r.id, NoResult))
  BY <1>1 DEF n
<1>5. /\ reservations \subseteq Effect
      /\ \A q, s \in reservations : q.id.intent = s.id.intent => q = s
      /\ \A q \in reservations : q.status \in SealedStatus => q.result \in Proof
  BY DEF HeadInv, HeadTypes, RowsSound
<1>6. r \in reservations /\ r.id = n.id /\ r.status \in SealedStatus /\ r \in Effect
  BY <1>1, <1>4, <1>5 DEF RowsOf, ReserveReturn, Returns, n
<1> DEFINE left == ExpireReserved(reservations, clock)
<1>7. /\ left \subseteq Effect
      /\ \A x \in left : /\ \E q \in reservations : x.id = q.id
                         /\ x \in reservations \/ x.status = "EXPIRED_UNDISPATCHED"
      /\ \A q \in reservations : q.status # "RESERVED" => q \in left
      /\ \A x, y \in left : x.id.intent = y.id.intent => x = y
  <2> HIDE DEF left
  <2>1. QED
    BY <1>5, ExpireReservedRows DEF left
<1>8. reservations' = left
  BY <1>1 DEF ReserveReturn
<1> HIDE DEF left
<1>9. /\ \A q \in reservations : Paying(q) => q \in reservations'
      /\ \A q \in reservations' : Paying(q) => q \in reservations
      /\ r \in reservations'
  BY <1>6, <1>7, <1>8 DEF Paying, SealedStatus
<1>10. RowsSound' /\ reservations' \subseteq Effect
  BY <1>5, <1>7, <1>8 DEF RowsSound, SealedStatus
<1>11. EffectsPinned'
  BY <1>3, <1>7, <1>8 DEF EffectsPinned, HeadInv, PendingHead, Nonterminal
<1>12. client'[a].pc = "waiting"
  BY <1>3, WaitingKnows
<1>13. /\ op' \in {Idle} \cup EffectOp
       /\ op'.pc # "prepared"
       /\ Operation'
  <2>1. CASE r.status = "CONFIRMED"
    <3>1. op' = [pc |-> "marking", by |-> a, row |-> r, next |-> r,
                 reply |-> Client("recovering", r.id, r.result)]
      BY <1>4, <2>1 DEF Begin
    <3>2. Client("recovering", r.id, r.result) \in ClientState
      BY <1>5, <1>6 DEF Client, ClientState, ClientPc, Effect
    <3>3. op' \in EffectOp
      BY <1>6, <3>1, <3>2 DEF EffectOp, EffectPc, RemotePc
    <3>4. MarkDue(BindingOf(r))'
      <4>1. consumed'[r.jti] = 1
        BY <1>3, <1>6, <2>1 DEF HeadInv, LedgerInStep, ledgerVars
      <4>2. \A q \in reservations' : BindingOf(q) = BindingOf(r) => q = r
        BY <1>7, <1>8, <1>9 DEF BindingOf
      <4>3. QED
        BY <2>1, <4>1, <4>2 DEF MarkDue, Spent, BindingOf
    <3>5. Holds(reservations', r.id, r.result, a)
      BY <1>2, <1>6, <1>9, <2>1 DEF Holds
    <3>6. Marking'
      BY <3>1, <3>4, <3>5 DEF Marking, Client, Holds, MarkDue, Spent, BindingOf
    <3>7. QED
      BY <1>12, <3>1, <3>3, <3>6 DEF Operation
  <2>2. CASE r.status # "CONFIRMED"
    <3>1. op' = [pc |-> "reconciling", by |-> a, row |-> r, next |-> n,
                 reply |-> Client("reserved", r.id, NoResult)]
      BY <1>4, <2>2 DEF Begin
    <3>2. Client("reserved", r.id, NoResult) \in ClientState
      BY <1>6 DEF Client, ClientState, ClientPc, Effect
    <3>3. op' \in EffectOp
      BY <1>2, <1>6, <3>1, <3>2 DEF EffectOp, EffectPc, LocalPc
    <3>4. Reconciling'
      BY <1>2, <1>6, <1>9, <2>2, <3>1 DEF Reconciling, Client, SealedStatus
    <3>5. QED
      BY <1>12, <3>1, <3>3, <3>4 DEF Operation
  <2>3. QED
    BY <2>1, <2>2
<1> DEFINE c == [client[a] EXCEPT !.pc = "waiting"]
<1>14. /\ c \in ClientState
       /\ client' = [client EXCEPT ![a] = c]
       /\ Knows(reservations', a, c)
       /\ c.pc # "done"
  BY <1>3, WaitingKnows
<1>15. QED
  BY <1>3, <1>9, <1>10, <1>11, <1>13, <1>14, CallInv

\* What rows become in a transaction on one of them.
LEMMA BecomeSound ==
  ASSUME HeadInv, NEW r \in reservations, NEW n \in Effect, Become(r, n), n.id = r.id,
         n.status \in SealedStatus => n.result \in Proof,
         n.status \in Nonterminal => r.status \in Nonterminal,
         UNCHANGED heads
  PROVE  /\ reservations' \subseteq Effect
         /\ RowsSound'
         /\ EffectsPinned'
<1>1. reservations \subseteq Effect /\ reservations' = (reservations \ {r}) \cup {n}
  BY DEF HeadInv, HeadTypes, Become
<1>2. RowsSound'
  BY <1>1 DEF HeadInv, RowsSound
<1>3. EffectsPinned'
  BY <1>1 DEF HeadInv, EffectsPinned, PendingHead
<1>4. QED
  BY <1>1, <1>2, <1>3

\* Sealing keeps the invariant: the attempt's proof is put in its reserved row.
LEMMA SealInv ==
  ASSUME HeadInv, NEW a \in Attempts, SealCall(a)
  PROVE  HeadInv' /\ Quiet
<1> DEFINE proof == [by |-> a, at |-> clock]
<1>1. PICK r \in OwnRows(a) :
        /\ r.status = "RESERVED"
        /\ Seal(r, proof)
        /\ Reply(a, Client("sealed", r.id, proof))
  BY DEF SealCall
<1>2. /\ op = Idle /\ op' = Idle /\ client[a].pc = "reserved"
      /\ UNCHANGED <<ledgerVars, heads, late, worm>>
  BY DEF SealCall, Free
<1> DEFINE n == [r EXCEPT !.status = "SEALED", !.result = proof]
           c == Client("sealed", r.id, proof)
<1>3. proof \in Proof /\ proof.by = a
  BY DEF HeadInv, HeadTypes, Proof
<1> HIDE DEF proof
<1>4. /\ r \in reservations /\ r \in Effect
      /\ r.id = client[a].id
  BY <1>1 DEF OwnRows, RowsOf, HeadInv, HeadTypes
<1>5. r.id.intent = IntentOf[a]
  BY <1>2, <1>4 DEF HeadInv, ClientsSound, Knows
<1>6. Become(r, n)
  BY <1>1 DEF Seal
<1>7. n \in Effect /\ n.id = r.id /\ n.status = "SEALED" /\ n.result = proof
  BY <1>3, <1>4 DEF Effect, AuthorityEffectStatus, SealedStatus
<1> HIDE DEF n
<1>8. reservations' \subseteq Effect /\ RowsSound' /\ EffectsPinned'
  BY <1>1, <1>2, <1>3, <1>4, <1>6, <1>7, BecomeSound DEF Nonterminal
<1>9. /\ \A q \in reservations : Paying(q) => q \in reservations'
      /\ \A q \in reservations' : Paying(q) => q \in reservations
  BY <1>1, <1>6, <1>7 DEF Become, Paying
<1>10. /\ c \in ClientState /\ c.pc = "sealed"
       /\ Knows(reservations', a, c)
  BY <1>3, <1>4, <1>5 DEF Client, ClientState, ClientPc, Effect, Knows, OwnProof
<1>11. client' = [client EXCEPT ![a] = c]
  BY <1>1, <1>2 DEF Reply, Finished
<1>12. QED
  BY <1>2, <1>8, <1>9, <1>10, <1>11, IdleOperation, CallInv

\* Cancelling keeps the invariant: the attempt gives an undispatched row up.
LEMMA CancelCallInv ==
  ASSUME HeadInv, NEW a \in Attempts, CancelCall(a)
  PROVE  HeadInv' /\ Quiet
<1>1. PICK r \in OwnRows(a) : CancelUndispatched(r)
  BY DEF CancelCall
<1>2. /\ op = Idle /\ op' = Idle /\ client[a].pc = "reserved" /\ Reply(a, Failed)
      /\ UNCHANGED <<ledgerVars, heads, late, worm>>
  BY DEF CancelCall, Free
<1> DEFINE n == Ended(r, "CANCELLED_UNDISPATCHED")
<1>3. r \in reservations /\ r \in Effect
  BY <1>1 DEF OwnRows, RowsOf, HeadInv, HeadTypes
<1>4. Become(r, n) /\ ~Paying(r)
  BY <1>1 DEF CancelUndispatched, CanCancel, Undispatched, Paying
<1>5. n \in Effect /\ n.id = r.id /\ n.status = "CANCELLED_UNDISPATCHED"
  BY <1>3 DEF Effect, AuthorityEffectStatus, Replaceable, Ended
<1> HIDE DEF n
<1>6. reservations' \subseteq Effect /\ RowsSound' /\ EffectsPinned'
  BY <1>2, <1>3, <1>4, <1>5, BecomeSound DEF Nonterminal, SealedStatus
<1>7. /\ \A q \in reservations : Paying(q) => q \in reservations'
      /\ \A q \in reservations' : Paying(q) => q \in reservations
  BY <1>4, <1>5 DEF Become, Paying
<1>8. client' = [client EXCEPT ![a] = Failed]
  BY <1>2 DEF Reply, Finished
<1>9. QED
  BY <1>2, <1>6, <1>7, <1>8, IdleOperation, FailedKnows, CallInv

\* Rows that do not change stay sound.
LEMMA RowsKept ==
  ASSUME HeadInv, UNCHANGED <<reservations, heads>>
  PROVE  /\ reservations' \subseteq Effect
         /\ RowsSound'
         /\ EffectsPinned'
         /\ \A r \in reservations : Paying(r) => r \in reservations'
         /\ \A r \in reservations' : Paying(r) => r \in reservations
  BY DEF HeadInv, HeadTypes, RowsSound, EffectsPinned, PendingHead

\* A sealed row waits for the ledger to prepare its token; a dispatched one is
\* the attempt's already.
LEMMA DispatchCallInv ==
  ASSUME HeadInv, NEW a \in Attempts, DispatchCall(a)
  PROVE  HeadInv' /\ Quiet
<1> DEFINE d == [client[a] EXCEPT !.pc = "dispatched"]
<1>1. PICK r \in OwnRows(a) :
        \/ /\ r.status = "SEALED"
           /\ Begin(a, "preparing", r, [r EXCEPT !.status = "DISPATCHED_HOLD"], d)
           /\ Wait(a)
        \/ /\ r.status = "DISPATCHED_HOLD"
           /\ Reply(a, d)
           /\ UNCHANGED op
  BY DEF DispatchCall
<1>2. /\ op = Idle /\ client[a].pc = "sealed"
      /\ UNCHANGED <<ledgerVars, reservations, heads, late, worm>>
  BY DEF DispatchCall, Free, headVars
<1>3. client[a] \in ClientState /\ OwnProof(a, client[a])
  BY <1>2 DEF HeadInv, HeadTypes, ClientsSound, Knows
<1>4. d \in ClientState /\ d.pc = "dispatched" /\ OwnProof(a, d)
  BY <1>3 DEF ClientState, ClientPc, OwnProof
<1> HIDE DEF d
<1>5. r \in reservations /\ r \in Effect
  BY DEF OwnRows, RowsOf, HeadInv, HeadTypes
<1>6. CASE r.status = "SEALED" /\ Wait(a) /\
           Begin(a, "preparing", r, [r EXCEPT !.status = "DISPATCHED_HOLD"], d)
  <2>1. op' = [pc |-> "preparing", by |-> a, row |-> r,
               next |-> [r EXCEPT !.status = "DISPATCHED_HOLD"], reply |-> d]
    BY <1>6 DEF Begin
  <2>2. [r EXCEPT !.status = "DISPATCHED_HOLD"] \in Effect
    BY <1>5 DEF Effect, AuthorityEffectStatus, SealedStatus
  <2>3. op' \in EffectOp
    BY <1>4, <1>5, <2>1, <2>2 DEF EffectOp, EffectPc, RemotePc
  <2>4. Dispatching'
    BY <1>2, <1>4, <1>5, <1>6, <2>1 DEF Dispatching, OwnProof
  <2>5. Operation'
    <3>1. client'[a].pc = "waiting"
      BY <1>6, WaitingKnows
    <3>2. QED
      BY <2>1, <2>4, <3>1 DEF Operation
  <2> DEFINE c == [client[a] EXCEPT !.pc = "waiting"]
  <2>6. /\ c \in ClientState
        /\ client' = [client EXCEPT ![a] = c]
        /\ Knows(reservations', a, c)
        /\ c.pc # "done"
    BY <1>6, WaitingKnows
  <2>7. QED
    BY <1>2, <2>1, <2>3, <2>5, <2>6, RowsKept, CallInv
<1>7. CASE Reply(a, d) /\ UNCHANGED op
  <2>1. client' = [client EXCEPT ![a] = d]
    BY <1>2, <1>7 DEF Reply, Finished
  <2>2. Knows(reservations', a, d)
    BY <1>4 DEF Knows, OwnProof
  <2>3. QED
    BY <1>2, <1>4, <1>7, <2>1, <2>2, RowsKept, IdleOperation, CallInv
<1>8. QED
  BY <1>1, <1>6, <1>7

\* A dispatched row waits for the ledger to consume its token.
LEMMA ConfirmCallInv ==
  ASSUME HeadInv, NEW a \in Attempts, ConfirmCall(a)
  PROVE  HeadInv' /\ Quiet
<1> DEFINE d == [client[a] EXCEPT !.pc = "done"]
<1>1. PICK r \in OwnRows(a) :
        /\ r.status \in {"DISPATCHED_HOLD", "CONFIRMED"}
        /\ Begin(a, "committing", r, [r EXCEPT !.result = client[a].proof], d)
  BY DEF ConfirmCall
<1>2. /\ op = Idle /\ client[a].pc = "dispatched" /\ Wait(a)
      /\ UNCHANGED <<ledgerVars, reservations, heads, late, worm>>
  BY DEF ConfirmCall, Free, headVars
<1>3. client[a] \in ClientState /\ OwnProof(a, client[a])
  BY <1>2 DEF HeadInv, HeadTypes, ClientsSound, Knows
<1>4. /\ d \in ClientState /\ d.pc = "done" /\ OwnProof(a, d)
      /\ d.id = client[a].id /\ d.proof = client[a].proof
  BY <1>3 DEF ClientState, ClientPc, Finished, OwnProof
<1> HIDE DEF d
<1>5. r \in reservations /\ r \in Effect /\ r.id = client[a].id
  BY DEF OwnRows, RowsOf, HeadInv, HeadTypes
<1> DEFINE n == [r EXCEPT !.result = client[a].proof]
<1>6. n \in Effect /\ n.result = client[a].proof
  BY <1>3, <1>5 DEF Effect, OwnProof
<1>7. op' = [pc |-> "committing", by |-> a, row |-> r, next |-> n, reply |-> d]
  BY <1>1 DEF Begin
<1> HIDE DEF n
<1>8. op' \in EffectOp
  BY <1>4, <1>5, <1>6, <1>7 DEF EffectOp, EffectPc, RemotePc
<1>9. Confirming'
  BY <1>1, <1>2, <1>4, <1>5, <1>6, <1>7 DEF Confirming, OwnProof, Paying
<1>10. client'[a].pc = "waiting"
  BY <1>2, WaitingKnows
<1>11. Operation'
  BY <1>7, <1>9, <1>10 DEF Operation
<1> DEFINE c == [client[a] EXCEPT !.pc = "waiting"]
<1>12. /\ c \in ClientState
       /\ client' = [client EXCEPT ![a] = c]
       /\ Knows(reservations', a, c)
       /\ c.pc # "done"
  BY <1>2, WaitingKnows
<1>13. QED
  BY <1>2, <1>7, <1>8, <1>11, <1>12, RowsKept, CallInv

\* Calls that are refused, and attempts that give up.
LEMMA RefusedInv ==
  ASSUME HeadInv, NEW a \in Attempts,
         ReserveRefused(a) \/ CallRefused(a) \/ RecoverRefused(a) \/ GiveUp(a)
  PROVE  HeadInv' /\ Quiet
<1>1. client' \in {client, [client EXCEPT ![a] = Failed]}
  BY DEF ReserveRefused, CallRefused, RecoverRefused, GiveUp, Reply
<1>2. UNCHANGED <<ledgerVars, headVars, op, late, worm>>
  BY DEF ReserveRefused, CallRefused, RecoverRefused, GiveUp
<1>3. client' # client => client[a].pc \notin Finished
  BY DEF ReserveRefused, CallRefused, RecoverRefused, GiveUp, Reply
<1>4. QED
  BY <1>1, <1>2, <1>3, FailInv

-----------------------------------------------------------------------------
(* Local steps of the operation. *)

\* The operation ends with an answer, or goes on to a point other than prepared.
\* Rows may have changed; the ledger has not.
LEMMA LocalInv ==
  ASSUME HeadInv, op \in EffectOp, NEW c \in ClientState,
         UNCHANGED <<ledgerVars, heads, late, worm>>,
         reservations' \subseteq Effect, RowsSound', EffectsPinned',
         LedgerInStep', Carried,
         client' \in {client, [client EXCEPT ![op.by] = c]},
         Knows(reservations', op.by, c), c.pc # "done",
         client[op.by].pc = "failed" => client' = client,
         \A i, p : Paid(i, p)' <=> Paid(i, p),
         op' \in {Idle} \cup EffectOp, op'.pc # "prepared", Operation'
  PROVE  HeadInv' /\ Quiet
<1>1. UNCHANGED <<oidcJti, oidcEffectJti, inFlight, clock, consumed, granted, fenced,
                  heads, late, worm>>
  BY DEF ledgerVars
<1>2. LedgerInv'
  BY StutterInv DEF HeadInv
<1>3. op.by \in Attempts /\ client[op.by].pc \in {"waiting", "failed"}
  BY DEF EffectOp, HeadInv, Operation
<1>4. client' \in [Attempts -> ClientState] /\ ClientsSound'
  BY <1>3, ClientCarried
<1>5. RecoveriesSound'
  <2>1. \A b \in Attempts : client[b].pc \in {"consuming", "failed"} =>
                             client'[b].pc \in {"consuming", "failed"}
    BY <1>3 DEF HeadInv, HeadTypes
  <2>2. inFlight' \subseteq inFlight
    BY <1>1
  <2>3. QED
    BY <2>1, <2>2, RecoveriesCarried
<1>6. HeadTypes' /\ SnapshotsOnce'
  BY <1>1, <1>4 DEF HeadInv, HeadTypes, SnapshotsOnce
<1>7. LateCalls'
  BY <1>1, LateCarried
<1>8. Quiet
  BY <1>1, <1>3 DEF Quiet, Carried, HeadInv, HeadTypes
<1>9. QED
  BY <1>2, <1>4, <1>5, <1>6, <1>7, <1>8 DEF HeadInv

\* A step of the operation that no row or attempt sees.
LEMMA StepInv ==
  ASSUME HeadInv, op \in EffectOp,
         UNCHANGED <<ledgerVars, reservations, heads, client, late, worm>>,
         op' \in EffectOp, op'.pc # "prepared", Operation'
  PROVE  HeadInv' /\ Quiet
<1>1. UNCHANGED <<oidcEffectJti, consumed, fenced>>
  BY DEF ledgerVars
<1>2. LedgerInStep' /\ Carried
  BY <1>1, NothingCarried
<1>3. op.by \in Attempts
  BY DEF EffectOp
<1>4. QED
  BY <1>1, <1>2, <1>3, RowsKept, PaidKept, FailedKnows, LocalInv DEF Failed, Client

\* The operation ends with an error.
LEMMA EndFailedInv ==
  ASSUME HeadInv, op \in EffectOp, Finish(Failed),
         UNCHANGED <<ledgerVars, reservations, heads, late, worm>>
  PROVE  HeadInv' /\ Quiet
<1>1. UNCHANGED <<oidcEffectJti, consumed, fenced>>
  BY DEF ledgerVars
<1>2. LedgerInStep' /\ Carried
  BY <1>1, NothingCarried
<1>3. op.by \in Attempts /\ op' = Idle /\ Reply(op.by, Failed)
  BY DEF EffectOp, Finish
<1>4. /\ client' \in {client, [client EXCEPT ![op.by] = Failed]}
      /\ client[op.by].pc = "failed" => client' = client
  BY <1>3, ReplyChanges DEF Finished
<1>5. QED
  BY <1>1, <1>2, <1>3, <1>4, RowsKept, PaidKept, FailedKnows, IdleOperation, LocalInv

\* What the ledger reports of a tombstone is what the tombstone says.
LEMMA ObservedState ==
  ASSUME NEW b, ObservePreparedEffectExact(b) \notin {"ABSENT", "CONFLICT"}
  PROVE  \E e \in oidcEffectJti :
           Exact(b, e) /\ e.state = ObservePreparedEffectExact(b)
<1>1. PICK e \in oidcEffectJti : IsExactRow(EffectRows(b), b, e)
  BY DEF ObservePreparedEffectExact
<1>2. EffectRows(b) = {e} /\ Exact(b, e)
  BY <1>1 DEF IsExactRow
<1>3. (CHOOSE r \in EffectRows(b) : TRUE) = e
  BY <1>2
<1>4. QED
  BY <1>1, <1>2, <1>3 DEF ObservePreparedEffectExact

\* The coordinator's decision, from what it observed.
LEMMA DecisionSound ==
  ASSUME NEW status, NEW seen
  PROVE  LET d == Decision(status, seen) IN
         /\ d \in {"confirming", "cancelling", "rearming", "rearmingAbsent", "refusing"}
         /\ d = "confirming" => status = "DISPATCHED_HOLD" /\ seen = "CONSUMED"
         /\ d = "rearming" => seen = "CANCELLED"
         /\ d = "rearmingAbsent" => status = "SEALED"
<1> DEFINE p1 == status = "DISPATCHED_HOLD" /\ seen = "CONSUMED"
           p4 == status = "SEALED" /\ seen = "ABSENT"
<1>1. CASE p1
  BY <1>1 DEF Decision
<1>2. CASE ~p1 /\ seen = "PREPARED"
  BY <1>2 DEF Decision
<1>3. CASE ~p1 /\ seen = "CANCELLED"
  BY <1>3 DEF Decision
<1>4. CASE ~p1 /\ p4
  BY <1>4 DEF Decision
<1>5. CASE ~p1 /\ seen # "PREPARED" /\ seen # "CANCELLED" /\ ~p4
  BY <1>5 DEF Decision
<1>6. QED
  BY <1>1, <1>2, <1>3, <1>4, <1>5

\* Observing the ledger decides how the operation goes on.
LEMMA ObserveInv ==
  ASSUME HeadInv, Observe
  PROVE  HeadInv' /\ Quiet
<1> DEFINE b == BindingOf(op.row)
           d == Decision(op.row.status, ObservePreparedEffectExact(b))
<1>1. /\ op.pc = "reconciling" /\ op' = [op EXCEPT !.pc = d]
      /\ UNCHANGED <<ledgerVars, reservations, heads, client, late, worm>>
  BY DEF Observe, Step, headVars
<1>2. op \in EffectOp
  BY <1>1, OperationTyped DEF HeadInv, EffectPc, LocalPc
<1>3. op.row \in Effect /\ b.jti = op.row.jti
  BY <1>2 DEF EffectOp, BindingOf
<1>4. d = "confirming" => op.row.status = "DISPATCHED_HOLD" /\ consumed[op.row.jti] = 1
  <2>1. SUFFICES ASSUME d = "confirming"
                 PROVE  op.row.status = "DISPATCHED_HOLD" /\ consumed[op.row.jti] = 1
    OBVIOUS
  <2>2. op.row.status = "DISPATCHED_HOLD" /\ ObservePreparedEffectExact(b) = "CONSUMED"
    BY <2>1, DecisionSound
  <2>3. PICK e \in oidcEffectJti : Exact(b, e) /\ e.state = "CONSUMED"
    BY <2>2, ObservedState
  <2>4. QED
    BY <1>3, <2>2, <2>3 DEF HeadInv, LedgerInv, RowsCountUses, Exact
<1>5. d = "rearming" => op.row.jti \in fenced
  <2>1. SUFFICES ASSUME d = "rearming" PROVE op.row.jti \in fenced
    OBVIOUS
  <2>2. ObservePreparedEffectExact(b) = "CANCELLED"
    BY <2>1, DecisionSound
  <2>3. PICK e \in oidcEffectJti : Exact(b, e) /\ e.state = "CANCELLED"
    BY <2>2, ObservedState
  <2>4. QED
    BY <1>3, <2>3 DEF HeadInv, LedgerInv, FencesRemembered, Exact
<1>6. /\ d \in {"confirming", "cancelling", "rearming", "rearmingAbsent", "refusing"}
      /\ d = "rearmingAbsent" => op.row.status = "SEALED"
  BY DecisionSound
<1> HIDE DEF d
<1>7. Reconciling
  BY <1>1 DEF HeadInv, Operation
<1>8. /\ op' \in EffectOp /\ op'.pc = d /\ op'.by = op.by /\ op'.row = op.row
      /\ op'.next = op.next /\ op'.reply = op.reply
  BY <1>1, <1>2, <1>6 DEF EffectOp, EffectPc, RemotePc, LocalPc
<1>9. Reconciling'
  BY <1>1, <1>7, <1>8 DEF Reconciling
<1>10. client[op.by].pc \in {"waiting", "failed"}
  BY <1>1 DEF HeadInv, Operation, EffectPc, LocalPc
<1>11. Operation'
  <2>1. UNCHANGED <<client, consumed, fenced>>
    BY <1>1 DEF ledgerVars
  <2>2. QED
    BY <1>4, <1>5, <1>6, <1>8, <1>9, <1>10, <2>1 DEF Operation
<1>12. QED
  BY <1>1, <1>2, <1>6, <1>8, <1>11, StepInv

\* A row that its token has paid for is confirmed.
LEMMA ConfirmedCarried ==
  ASSUME HeadInv, NEW r \in reservations, Paying(r), consumed[r.jti] = 1,
         Become(r, [r EXCEPT !.status = "CONFIRMED"]),
         UNCHANGED <<oidcEffectJti, consumed, fenced, heads>>
  PROVE  /\ reservations' \subseteq Effect
         /\ RowsSound'
         /\ EffectsPinned'
         /\ LedgerInStep'
         /\ Carried
         /\ MarkDue(BindingOf(r))'
<1> DEFINE n == [r EXCEPT !.status = "CONFIRMED"]
<1>1. r \in Effect /\ reservations \subseteq Effect
  BY DEF HeadInv, HeadTypes
<1>2. /\ n \in Effect /\ n.id = r.id /\ n.status = "CONFIRMED" /\ n.result = r.result
      /\ n.jti = r.jti /\ BindingOf(n) = BindingOf(r) /\ Paying(n)
      /\ r.status = "CONFIRMED" => n = r
  BY <1>1 DEF Effect, AuthorityEffectStatus, SealedStatus, BindingOf, Paying
<1>3. reservations' = (reservations \ {r}) \cup {n}
  BY DEF Become
<1> HIDE DEF n
<1>4. r.result \in Proof
  BY DEF HeadInv, RowsSound, Paying, SealedStatus
<1>5. reservations' \subseteq Effect /\ RowsSound' /\ EffectsPinned'
  <2>1. Become(r, n)
    BY DEF n
  <2>2. QED
    BY <1>2, <1>4, <2>1, BecomeSound DEF Nonterminal
<1>6. LedgerInStep'
  <2>1. \A q \in reservations' : q.status = "DISPATCHED_HOLD" => Kept(q)'
    BY <1>2, <1>3 DEF HeadInv, LedgerInStep, Kept
  <2>2. \A e \in oidcEffectJti' : e.state = "CONSUMED" =>
          \E q \in reservations' : Exact(BindingOf(q), e) /\ Paying(q)
    BY <1>2, <1>3 DEF HeadInv, LedgerInStep
  <2>3. \A q \in reservations' : q.status = "CONFIRMED" => consumed'[q.jti] = 1
    BY <1>2, <1>3 DEF HeadInv, LedgerInStep
  <2>4. \A q, s \in reservations' : Paying(q) /\ Paying(s) /\ q.jti = s.jti => q = s
    BY <1>2, <1>3 DEF HeadInv, LedgerInStep
  <2>5. QED
    BY <2>1, <2>2, <2>3, <2>4 DEF LedgerInStep, Paying
<1>7. Carried
  <2>1. \A b \in Binding : MayCommit(b) => MayCommit(b)'
    BY <1>2, <1>3 DEF MayCommit, Paying
  <2>2. \A b \in Binding : MayMark(b) => MarkDue(b)'
    BY <1>2, <1>3 DEF MayMark, MarkDue, Spent
  <2>3. \A j \in Jtis : Apart(j) => Apart(j)'
    BY <1>2, <1>3 DEF Apart, Paying
  <2>4. QED
    BY <1>2, <1>3, <2>1, <2>2, <2>3 DEF Carried
<1>8. MarkDue(BindingOf(r))'
  <2>1. \A q \in reservations' : BindingOf(q) = BindingOf(r) => q = n
    BY <1>3 DEF BindingOf, HeadInv, RowsSound
  <2>2. QED
    BY <1>2, <2>1 DEF MarkDue, Spent, BindingOf
<1>9. QED
  BY <1>5, <1>6, <1>7, <1>8


\* The operation goes on with the same row, next and reply, and its attempt waits.
LEMMA Stepped ==
  ASSUME HeadInv, op \in EffectOp, NEW pc \in EffectPc, Step(pc), UNCHANGED client
  PROVE  /\ op' \in EffectOp /\ op'.pc = pc /\ op'.by = op.by /\ op'.row = op.row
         /\ op'.next = op.next /\ op'.reply = op.reply
         /\ client'[op'.by].pc \in {"waiting", "failed"}
<1>1. op' = [op EXCEPT !.pc = pc]
  BY DEF Step
<1>2. /\ op' \in EffectOp /\ op'.pc = pc /\ op'.by = op.by /\ op'.row = op.row
      /\ op'.next = op.next /\ op'.reply = op.reply
  BY <1>1 DEF EffectOp
<1>3. op.pc \in EffectPc
  BY DEF EffectOp
<1>4. QED
  BY <1>2, <1>3 DEF HeadInv, Operation

\* The operation, its row confirmed, goes on to the mark.
LEMMA MarksConfirmed ==
  ASSUME HeadInv, op \in EffectOp,
         UNCHANGED <<ledgerVars, heads, client, late, worm>>,
         op.row \in reservations, Paying(op.row), consumed[op.row.jti] = 1,
         Become(op.row, [op.row EXCEPT !.status = "CONFIRMED"]),
         op' \in EffectOp, op'.pc = "marking", op'.by = op.by, op'.row = op.row,
         op'.reply.pc \in {"recovering", "done"},
         op'.reply.id = op.row.id, op'.reply.proof = op.row.result,
         op.row.id.intent = IntentOf[op.by],
         op'.reply.pc = "done" => op'.reply.proof.by = op.by
  PROVE  HeadInv' /\ Quiet
<1> DEFINE r == op.row
           n == [r EXCEPT !.status = "CONFIRMED"]
<1>1. UNCHANGED <<oidcEffectJti, consumed, fenced, heads>>
  BY DEF ledgerVars
<1>2. /\ reservations' \subseteq Effect
      /\ RowsSound'
      /\ EffectsPinned'
      /\ LedgerInStep'
      /\ Carried
      /\ MarkDue(BindingOf(r))'
  BY <1>1, ConfirmedCarried
<1>3. n \in reservations' /\ n.id = r.id /\ n.status = "CONFIRMED" /\ n.result = r.result
  BY DEF Become, EffectOp, Effect
<1> HIDE DEF n
<1>4. Holds(reservations', r.id, r.result, op.by)
  BY <1>3 DEF Holds
<1>5. Marking'
  BY <1>2, <1>4 DEF Marking, MarkDue, Spent, BindingOf
<1>6. op.by \in Attempts /\ client[op.by].pc \in {"waiting", "failed"}
  BY DEF EffectOp, HeadInv, Operation
<1>7. Operation'
  BY <1>5, <1>6 DEF Operation
<1>8. \A i, p : Paid(i, p)' <=> Paid(i, p)
  <2>1. /\ reservations' = (reservations \ {r}) \cup {n}
        /\ Paying(n) /\ n.jti = r.jti
    BY <1>3 DEF Become, EffectOp, Effect, Paying, n
  <2>2. QED
    BY <1>1, <1>3, <2>1 DEF Paid, PaidRows, Paying
<1>9. QED
  BY <1>2, <1>6, <1>7, <1>8, FailedKnows, LocalInv

\* A prepared use that was found consumed confirms its row.
LEMMA ReconcileConfirmInv ==
  ASSUME HeadInv, ReconcileConfirm
  PROVE  HeadInv' /\ Quiet
<1> DEFINE reply == Client("recovering", op.row.id, op.row.result)
<1>1. /\ op.pc = "confirming"
      /\ Become(op.row, [op.row EXCEPT !.status = "CONFIRMED"])
      /\ op' = [op EXCEPT !.pc = "marking", !.reply = reply]
      /\ UNCHANGED <<ledgerVars, heads, client, late, worm>>
  BY DEF ReconcileConfirm, Confirm
<1>2. op \in EffectOp
  BY <1>1, OperationTyped DEF HeadInv, EffectPc, LocalPc
<1>3. /\ op.row \in reservations
      /\ op.row.status = "DISPATCHED_HOLD"
      /\ consumed[op.row.jti] = 1
      /\ op.row.id.intent = IntentOf[op.by]
  BY <1>1 DEF HeadInv, Operation, Reconciling
<1>4. reply \in ClientState /\ reply.pc = "recovering" /\ reply.id = op.row.id
      /\ reply.proof = op.row.result
  BY <1>2 DEF EffectOp, Effect, Client, ClientState, ClientPc
<1> HIDE DEF reply
<1>5. /\ op' \in EffectOp /\ op'.pc = "marking" /\ op'.by = op.by /\ op'.row = op.row
      /\ op'.reply = reply
  BY <1>1, <1>2, <1>4 DEF EffectOp, EffectPc, RemotePc
<1>6. QED
  BY <1>1, <1>2, <1>3, <1>4, <1>5, MarksConfirmed DEF Paying

\* The attempt's own commit confirms its row, or finds another proof in it.
LEMMA ConfirmFinishInv ==
  ASSUME HeadInv, ConfirmFinish
  PROVE  HeadInv' /\ Quiet
<1>1. op.pc = "committed" /\ UNCHANGED <<ledgerVars, heads, late, worm>>
  BY DEF ConfirmFinish
<1>2. op \in EffectOp
  BY <1>1, OperationTyped DEF HeadInv, EffectPc, LocalPc
<1>3. Confirming /\ consumed[op.row.jti] = 1
  BY <1>1 DEF HeadInv, Operation
<1>4. CASE CanConfirm(op.row, op.next.result)
  <2>1. /\ Become(op.row, [op.row EXCEPT !.status = "CONFIRMED"])
        /\ op.row.result = op.next.result
        /\ Step("marking") /\ UNCHANGED client
    BY <1>4 DEF ConfirmFinish, Confirm, CanConfirm
  <2>2. /\ op' \in EffectOp /\ op'.pc = "marking" /\ op'.by = op.by /\ op'.row = op.row
        /\ op'.reply = op.reply
    BY <1>2, <2>1, Stepped DEF EffectPc, RemotePc
  <2>3. /\ op.reply.pc = "done" /\ op.reply.id = op.row.id
        /\ op.reply.proof = op.row.result
        /\ op.row.id.intent = IntentOf[op.by]
        /\ op.reply.proof.by = op.by
    BY <1>3, <2>1 DEF Confirming, OwnProof
  <2>4. QED
    BY <1>1, <1>2, <1>3, <2>1, <2>2, <2>3, MarksConfirmed DEF Confirming
<1>5. CASE ~CanConfirm(op.row, op.next.result)
  BY <1>1, <1>2, <1>5, EndFailedInv DEF ConfirmFinish
<1>6. QED
  BY <1>4, <1>5

\* A dispatched row whose use was fenced is replaced by the fresh attempt's.
LEMMA ReconcileRearmInv ==
  ASSUME HeadInv, ReconcileRearm
  PROVE  HeadInv' /\ Quiet
<1>1. /\ op.pc \in {"rearming", "rearmingAbsent"}
      /\ UNCHANGED <<ledgerVars, heads, late, worm>>
  BY DEF ReconcileRearm
<1>2. op \in EffectOp
  BY <1>1, OperationTyped DEF HeadInv, EffectPc, LocalPc
<1> DEFINE r == op.row
           n == op.next
<1>3. Reconciling
  BY <1>1 DEF HeadInv, Operation
<1>4. CASE ~CanRearm(r, n)
  BY <1>1, <1>2, <1>4, EndFailedInv DEF ReconcileRearm
<1>5. CASE CanRearm(r, n)
  <2>1. r.status = "DISPATCHED_HOLD"
    BY <1>5 DEF CanRearm
  <2>2. op.pc = "rearming" /\ r.jti \in fenced
    BY <1>1, <2>1 DEF HeadInv, Operation
  <2>3. Become(r, n) /\ Step("marking") /\ UNCHANGED client
    BY <1>5, <2>2 DEF ReconcileRearm, Rearm
  <2>4. /\ r \in reservations /\ n \in Effect /\ n.id = r.id /\ n.status = "RESERVED"
        /\ r \in Effect
    BY <1>2, <1>3 DEF Reconciling, EffectOp
  <2>5. reservations' \subseteq Effect /\ RowsSound' /\ EffectsPinned'
    BY <1>1, <2>1, <2>3, <2>4, BecomeSound DEF SealedStatus, Nonterminal
  <2>6. reservations' = (reservations \ {r}) \cup {n} /\ ~Paying(n)
    BY <2>3, <2>4 DEF Become, Paying
  <2>7. UNCHANGED <<oidcEffectJti, consumed, fenced>>
    BY <1>1 DEF ledgerVars
  <2>8. LedgerInStep'
    <3>1. \A e \in oidcEffectJti : e.state = "CONSUMED" => ~Exact(BindingOf(r), e)
      BY <2>2 DEF HeadInv, LedgerInv, FencesRemembered, Exact, BindingOf
    <3>2. \A e \in oidcEffectJti' : e.state = "CONSUMED" =>
            \E q \in reservations' : Exact(BindingOf(q), e) /\ Paying(q)
      BY <2>6, <2>7, <3>1 DEF HeadInv, LedgerInStep
    <3>3. \A q \in reservations' : Paying(q) => q \in reservations
      BY <2>6
    <3>4. QED
      BY <2>7, <3>2, <3>3 DEF HeadInv, LedgerInStep, Kept, Paying
  <2>9. Carried
    <3>1. \A b \in Binding : MayCommit(b) => MayCommit(b)'
      <4> SUFFICES ASSUME NEW b \in Binding, MayCommit(b), b.jti \notin fenced
                   PROVE  \E q \in reservations' : BindingOf(q) = b /\ Paying(q)
        BY <2>7 DEF MayCommit, Paying
      <4>1. PICK q \in reservations : BindingOf(q) = b /\ Paying(q)
        BY DEF MayCommit
      <4>2. q # r
        BY <2>2, <4>1 DEF BindingOf
      <4>3. QED
        BY <2>6, <4>1, <4>2
    <3>2. \A b \in Binding : MayMark(b) => MarkDue(b)'
      BY <2>4, <2>6, <2>7 DEF MayMark, MarkDue, Spent
    <3>3. \A j \in Jtis : Apart(j) => Apart(j)'
      BY <2>6, <2>7 DEF Apart, Paying
    <3>4. QED
      BY <2>1, <2>6, <2>7, <3>1, <3>2, <3>3 DEF Carried
  <2>10. /\ op' \in EffectOp /\ op'.pc = "marking" /\ op'.by = op.by /\ op'.row = op.row
         /\ op'.reply = op.reply /\ client'[op'.by].pc \in {"waiting", "failed"}
    BY <1>2, <2>3, Stepped DEF EffectPc, RemotePc
  <2>11. MarkDue(BindingOf(r))'
    <3>1. \A q \in reservations' : BindingOf(q) = BindingOf(r) => q = n
      BY <2>4, <2>6 DEF BindingOf, HeadInv, RowsSound
    <3>2. QED
      BY <2>2, <2>4, <2>7, <2>10, <3>1 DEF MarkDue, Spent, BindingOf
  <2>12. Marking'
    BY <1>3, <2>10, <2>11 DEF Marking, Reconciling, MarkDue, Spent, BindingOf
  <2>13. Operation'
    BY <2>10, <2>12 DEF Operation
  <2>14. op.by \in Attempts
    BY <1>2 DEF EffectOp
  <2>15. \A i, p : Paid(i, p)' <=> Paid(i, p)
    <3>1. consumed[r.jti] = 0
      BY <2>2 DEF HeadInv, LedgerInv, FencesRemembered
    <3>2. QED
      BY <2>6, <2>7, <3>1 DEF Paid, PaidRows, Paying
  <2>16. QED
    BY <1>1, <1>2, <2>3, <2>5, <2>8, <2>9, <2>10, <2>13, <2>14, <2>15, FailedKnows, LocalInv
<1>6. QED
  BY <1>4, <1>5

\* Reconcile refuses, or the ledger does: the attempt is told.
LEMMA RefusalInv ==
  ASSUME HeadInv, ReconcileRefused \/ LedgerRefuses
  PROVE  HeadInv' /\ Quiet
<1>1. /\ op.pc \in EffectPc /\ Finish(Failed)
      /\ UNCHANGED <<ledgerVars, reservations, heads, late, worm>>
  BY DEF ReconcileRefused, LedgerRefuses, headVars, EffectPc, LocalPc
<1>2. QED
  BY <1>1, OperationTyped, EndFailedInv DEF HeadInv

\* The token of a sealed row that the ledger has prepared is not used, and pays for
\* no other row.
LEMMA PreparedUnpaid ==
  ASSUME HeadInv, NEW r \in reservations, r.status = "SEALED", Kept(r)
  PROVE  /\ consumed[r.jti] = 0
         /\ \A q \in reservations : Paying(q) => q.jti # r.jti
<1>1. PICK e \in oidcEffectJti : Exact(BindingOf(r), e)
  BY DEF Kept
<1>2. e.jti = r.jti /\ e.reservation = r.id
  BY <1>1 DEF Exact, BindingOf
<1>3. \A q \in reservations : q.id = r.id => q = r
  BY DEF HeadInv, RowsSound
<1>4. e.state # "CONSUMED"
  <2>1. \A q \in reservations : Exact(BindingOf(q), e) => q = r
    BY <1>2, <1>3 DEF Exact, BindingOf
  <2>2. QED
    BY <2>1 DEF HeadInv, LedgerInStep, Paying
<1>5. consumed[r.jti] = 0
  BY <1>2, <1>4 DEF HeadInv, LedgerInv, RowsCountUses
<1>6. ASSUME NEW q \in reservations, Paying(q), q.jti = r.jti PROVE FALSE
  <2>1. q.status = "DISPATCHED_HOLD"
    BY <1>5, <1>6 DEF HeadInv, LedgerInStep, Paying
  <2>2. PICK d \in oidcEffectJti : Exact(BindingOf(q), d)
    BY <2>1 DEF HeadInv, LedgerInStep, Kept
  <2>3. d.jti = q.jti /\ d.reservation = q.id
    BY <2>2 DEF Exact, BindingOf
  <2>4. d = e
    BY <1>2, <1>6, <2>3 DEF HeadInv, LedgerInv, KeysUnique, SameKey
  <2>5. QED
    BY <1>2, <1>3, <2>1, <2>3, <2>4
<1>7. QED
  BY <1>5, <1>6

\* The prepared row is dispatched, or is stale and expires.
LEMMA DispatchFinishInv ==
  ASSUME HeadInv, DispatchFinish
  PROVE  HeadInv' /\ Quiet
<1> DEFINE r == op.row
           answer == IF Dispatchable(r, clock) THEN op.reply ELSE Failed
<1>1. /\ op.pc = "prepared" /\ Dispatch(r, clock)
      /\ op' = Idle /\ Reply(op.by, answer)
      /\ UNCHANGED <<ledgerVars, heads, late, worm>>
  BY DEF DispatchFinish, Finish
<1>2. op \in EffectOp
  BY <1>1, OperationTyped DEF HeadInv, EffectPc, LocalPc
<1>3. Dispatching /\ Kept(r)
  BY <1>1 DEF HeadInv, Operation
<1>4. r \in reservations /\ r \in Effect /\ r.status = "SEALED" /\ op.by \in Attempts
  BY <1>2, <1>3 DEF Dispatching, EffectOp
<1>5. UNCHANGED <<oidcEffectJti, consumed, fenced>>
  BY <1>1 DEF ledgerVars
<1>6. consumed[r.jti] = 0 /\ \A q \in reservations : Paying(q) => q.jti # r.jti
  BY <1>3, <1>4, PreparedUnpaid
<1>7. /\ op.reply \in ClientState /\ op.reply.pc = "dispatched"
      /\ Knows(reservations', op.by, op.reply)
  BY <1>2, <1>3 DEF Dispatching, EffectOp, Knows, OwnProof
<1>8. /\ answer \in ClientState
      /\ Knows(reservations', op.by, answer)
      /\ answer.pc # "done"
  <2>1. /\ Failed \in ClientState /\ Failed.pc = "failed"
        /\ Knows(reservations', op.by, Failed)
    BY <1>4, FailedKnows
  <2>2. CASE Dispatchable(r, clock)
    BY <1>7, <2>2
  <2>3. CASE ~Dispatchable(r, clock)
    BY <2>1, <2>3
  <2>4. QED
    BY <2>2, <2>3
<1> HIDE DEF answer
<1>9. /\ client' \in {client, [client EXCEPT ![op.by] = answer]}
      /\ client[op.by].pc = "failed" => client' = client
  BY <1>1, <1>4, ReplyChanges DEF Finished
<1>10. /\ reservations' \subseteq Effect /\ RowsSound' /\ EffectsPinned'
       /\ LedgerInStep' /\ Carried
       /\ \A i, p : Paid(i, p)' <=> Paid(i, p)
  <2>1. CASE Dispatchable(r, clock)
    <3> DEFINE n == [r EXCEPT !.status = "DISPATCHED_HOLD"]
    <3>1. Become(r, n)
      BY <1>1, <2>1 DEF Dispatch
    <3>2. /\ n \in Effect /\ n.id = r.id /\ n.status = "DISPATCHED_HOLD"
          /\ n.result = r.result /\ n.jti = r.jti /\ BindingOf(n) = BindingOf(r)
          /\ Paying(n)
      BY <1>4 DEF Effect, AuthorityEffectStatus, SealedStatus, BindingOf, Paying
    <3> HIDE DEF n
    <3>3. r.result \in Proof
      BY <1>4 DEF HeadInv, RowsSound, SealedStatus
    <3>4. reservations' \subseteq Effect /\ RowsSound' /\ EffectsPinned'
      BY <1>1, <1>4, <3>1, <3>2, <3>3, BecomeSound DEF Nonterminal
    <3>5. reservations' = (reservations \ {r}) \cup {n} /\ ~Paying(r)
      BY <1>4, <3>1 DEF Become, Paying
    <3>6. LedgerInStep'
      <4>1. \A q \in reservations' : q.status = "DISPATCHED_HOLD" => Kept(q)'
        BY <1>3, <1>5, <3>2, <3>5 DEF HeadInv, LedgerInStep, Kept
      <4>2. \A e \in oidcEffectJti' : e.state = "CONSUMED" =>
              \E q \in reservations' : Exact(BindingOf(q), e) /\ Paying(q)
        BY <1>5, <3>5 DEF HeadInv, LedgerInStep
      <4>3. \A q \in reservations' : q.status = "CONFIRMED" => consumed'[q.jti] = 1
        BY <1>5, <3>2, <3>5 DEF HeadInv, LedgerInStep
      <4>4. \A q, s \in reservations' : Paying(q) /\ Paying(s) /\ q.jti = s.jti => q = s
        BY <1>6, <3>2, <3>5 DEF HeadInv, LedgerInStep
      <4>5. QED
        BY <4>1, <4>2, <4>3, <4>4 DEF LedgerInStep, Paying
    <3>7. Carried
      <4>1. \A b \in Binding : MayCommit(b) => MayCommit(b)'
        BY <1>5, <3>5 DEF MayCommit, Paying
      <4>2. \A b \in Binding : MayMark(b) => MarkDue(b)'
        BY <1>1, <1>5, <3>2, <3>5 DEF MayMark, MarkDue, Spent
      <4>3. \A j \in Jtis : Apart(j) => Apart(j)'
        BY <1>5, <1>6, <3>2, <3>5 DEF Apart, Paying
      <4>4. QED
        BY <1>4, <1>5, <3>5, <4>1, <4>2, <4>3 DEF Carried
    <3>8. \A i, p : Paid(i, p)' <=> Paid(i, p)
      BY <1>5, <1>6, <3>2, <3>5 DEF Paid, PaidRows, Paying
    <3>9. QED
      BY <3>4, <3>6, <3>7, <3>8
  <2>2. CASE ~Dispatchable(r, clock)
    <3> DEFINE n == Ended(r, "EXPIRED_UNDISPATCHED")
    <3>1. Become(r, n) /\ ~Paying(r)
      BY <1>1, <1>4, <2>2 DEF Dispatch, Undispatched, Paying
    <3>2. n \in Effect /\ n.id = r.id /\ n.status = "EXPIRED_UNDISPATCHED"
      BY <1>4 DEF Effect, AuthorityEffectStatus, Replaceable, Ended
    <3> HIDE DEF n
    <3>3. reservations' \subseteq Effect /\ RowsSound' /\ EffectsPinned'
      BY <1>1, <1>4, <3>1, <3>2, BecomeSound DEF Nonterminal, SealedStatus
    <3>4. /\ \A q \in reservations : Paying(q) => q \in reservations'
          /\ \A q \in reservations' : Paying(q) => q \in reservations
      BY <3>1, <3>2 DEF Become, Paying
    <3>5. QED
      BY <1>5, <3>3, <3>4, UnpaidCarried, PaidKept
  <2>3. QED
    BY <2>1, <2>2
<1>11. QED
  BY <1>1, <1>2, <1>8, <1>9, <1>10, IdleOperation, LocalInv

-----------------------------------------------------------------------------
(* What the ledger does when a call reaches it, in time or late. *)

\* Uses are spent for good, and what attempts and late calls rely on is about that.
LEMMA SpentCarried ==
  ASSUME UNCHANGED reservations, fenced \subseteq fenced',
         \A j \in Jtis : consumed[j] = 1 => consumed'[j] = 1,
         \A j \in Jtis : consumed[j] # 0 => consumed'[j] # 0
  PROVE  Carried
<1>1. \A b \in Binding : MayCommit(b) => MayCommit(b)'
  BY DEF MayCommit, Paying
<1>2. \A b \in Binding : MayMark(b) => MarkDue(b)'
  BY DEF MayMark, MarkDue, Spent, Binding
<1>3. \A j \in Jtis : Apart(j) => Apart(j)'
  BY DEF Apart, Paying
<1>4. QED
  BY <1>1, <1>2, <1>3 DEF Carried

\* A prepare keeps every row that may not be forgotten, and the prepared token is
\* unspent, its tombstone kept.
LEMMA PrepareServed ==
  ASSUME HeadInv, NEW b \in Binding, PrepareEffectExact(b), UNCHANGED reservations
  PROVE  /\ LedgerInv' /\ LedgerInStep' /\ Carried
         /\ UNCHANGED <<inFlight, clock, consumed, fenced>>
         /\ \A r : Kept(r) => Kept(r)'
         /\ ~Spent(b.jti)
         /\ \E e \in oidcEffectJti' : Exact(b, e) /\ e.terminal = NotTerminal
<1>1. /\ CanPrepare(b)
      /\ oidcEffectJti' = KeptRows \cup (IF PreparesAgain(b) THEN {} ELSE {PreparedRow(b)})
      /\ UNCHANGED <<inFlight, clock, consumed, fenced>>
  BY DEF PrepareEffectExact
<1>2. LedgerInv'
  BY PrepareInv DEF HeadInv
<1>3. Carried
  BY <1>1, SpentCarried
<1>4. \A e \in oidcEffectJti : e.terminal = NotTerminal => e \in oidcEffectJti'
  BY <1>1 DEF KeptRows, Prunable
<1>5. \A r : Kept(r) => Kept(r)'
  BY <1>4 DEF Kept, BindingOf
<1>6. \A e \in oidcEffectJti' : e.state = "CONSUMED" => e \in oidcEffectJti
  BY <1>1 DEF KeptRows, PreparedRow
<1>7. LedgerInStep'
  BY <1>1, <1>5, <1>6 DEF HeadInv, LedgerInStep, Paying
<1>8. b.jti \in Jtis
  BY DEF Binding
<1>9. ~Spent(b.jti) /\ \E e \in oidcEffectJti' : Exact(b, e) /\ e.terminal = NotTerminal
  <2>1. CASE PreparesAgain(b)
    <3>1. PICK e \in KeptRows : Exact(b, e) /\ e.state = "PREPARED"
      BY <2>1 DEF PreparesAgain, IsExactRow
    <3>2. e \in oidcEffectJti /\ e.jti = b.jti
      BY <3>1 DEF KeptRows, Exact
    <3>3. e.terminal = NotTerminal
      BY <3>1, <3>2 DEF HeadInv, LedgerInv, MarkedIsResolved
    <3>4. consumed[b.jti] = 0 /\ b.jti \notin fenced
      BY <3>1, <3>2 DEF HeadInv, LedgerInv, RowsCountUses, FencesRemembered
    <3>5. QED
      BY <1>1, <3>1, <3>3, <3>4 DEF Spent
  <2>2. CASE ~PreparesAgain(b)
    <3>1. consumed[b.jti] = 0 /\ b.jti \notin fenced
      BY <1>1, <2>2, PreparesFreshToken DEF HeadInv, CanPrepare
    <3>2. PreparedRow(b) \in oidcEffectJti'
      BY <1>1, <2>2
    <3>3. QED
      BY <3>1, <3>2 DEF Spent, PreparedRow, Exact
  <2>3. QED
    BY <2>1, <2>2
<1>10. QED
  BY <1>1, <1>2, <1>3, <1>5, <1>7, <1>9

\* A commit for a row that still holds its proof uses the token, once; one for a
\* fenced use is refused by the ledger.
LEMMA CommitServed ==
  ASSUME HeadInv, NEW b \in Binding, CommitPreparedEffectExact(b), MayCommit(b),
         UNCHANGED reservations
  PROVE  /\ LedgerInv' /\ LedgerInStep' /\ Carried
         /\ UNCHANGED <<inFlight, clock, fenced>>
         /\ \A r : Kept(r) => Kept(r)'
         /\ consumed'[b.jti] = 1
<1>1. LedgerInv'
  BY CommitInv DEF HeadInv
<1>2. b.jti \in Jtis /\ consumed \in [Jtis -> Nat]
  BY DEF Binding, HeadInv, LedgerInv, LedgerTypeOK
<1>3. CASE AlreadyIn(b, "CONSUMED")
  <2>1. /\ UNCHANGED <<oidcEffectJti, inFlight, clock, consumed, fenced>>
        /\ \E r \in oidcEffectJti : IsExactRow(EffectRows(b), b, r) /\ r.state = "CONSUMED"
    BY <1>3 DEF AlreadyIn, ledgerVars
  <2>2. consumed[b.jti] = 1
    BY <2>1, ExactRow DEF HeadInv, LedgerInv, RowsCountUses
  <2>3. LedgerInStep' /\ Carried
    BY <2>1, NothingCarried
  <2>4. \A r : Kept(r) => Kept(r)'
    BY <2>1 DEF Kept
  <2>5. QED
    BY <1>1, <2>1, <2>2, <2>3, <2>4
<1>4. CASE ~AlreadyIn(b, "CONSUMED")
  <2>1. /\ MovePrepared(b, "CONSUMED")
        /\ consumed' = [consumed EXCEPT ![b.jti] = @ + 1]
        /\ UNCHANGED <<inFlight, clock, fenced>>
    BY <1>4 DEF CommitPreparedEffectExact
  <2>2. PICK e \in oidcEffectJti :
          /\ IsExactRow(EffectRows(b), b, e)
          /\ e.state = "PREPARED"
          /\ oidcEffectJti' = (oidcEffectJti \ {e}) \cup {[e EXCEPT !.state = "CONSUMED"]}
    BY <2>1 DEF MovePrepared
  <2> DEFINE d == [e EXCEPT !.state = "CONSUMED"]
  <2>3. e.jti = b.jti /\ consumed[b.jti] = 0 /\ b.jti \notin fenced /\ Exact(b, e)
    BY <2>2, ExactRow DEF HeadInv, LedgerInv, RowsCountUses, FencesRemembered, IsExactRow
  <2>4. /\ d.state = "CONSUMED" /\ d.terminal = e.terminal
        /\ \A x : Exact(x, e) => Exact(x, d)
    BY DEF HeadInv, LedgerInv, LedgerTypeOK, EffectRow, Exact
  <2>5. oidcEffectJti' = (oidcEffectJti \ {e}) \cup {d}
    BY <2>2
  <2> HIDE DEF d
  <2>6. /\ consumed'[b.jti] = 1
        /\ \A j \in Jtis : consumed[j] = 1 => consumed'[j] = 1
        /\ \A j \in Jtis : consumed[j] # 0 => consumed'[j] # 0
        /\ \A j \in Jtis : j # b.jti => consumed'[j] = consumed[j]
    BY <1>2, <2>1, <2>3
  <2>7. Carried
    BY <2>1, <2>6, SpentCarried
  <2>8. \A r : Kept(r) => Kept(r)'
    BY <2>4, <2>5 DEF Kept, BindingOf
  <2>9. PICK q \in reservations : BindingOf(q) = b /\ Paying(q)
    BY <2>3 DEF MayCommit
  <2>10. LedgerInStep'
    <3>1. \A x \in oidcEffectJti' : x.state = "CONSUMED" =>
            \E r \in reservations' : Exact(BindingOf(r), x) /\ Paying(r)
      BY <2>3, <2>4, <2>5, <2>9 DEF HeadInv, LedgerInStep
    <3>2. \A r \in reservations' : r.status = "CONFIRMED" => consumed'[r.jti] = 1
      BY <2>6 DEF HeadInv, LedgerInStep, HeadTypes, Effect
    <3>3. QED
      BY <2>8, <3>1, <3>2 DEF HeadInv, LedgerInStep, Paying
  <2>11. QED
    BY <1>1, <2>1, <2>6, <2>7, <2>8, <2>10
<1>5. QED
  BY <1>3, <1>4

\* A cancel fences the token.
LEMMA CancelServed ==
  ASSUME HeadInv, NEW b \in Binding, CancelPreparedEffectExact(b), UNCHANGED reservations
  PROVE  /\ LedgerInv' /\ LedgerInStep' /\ Carried
         /\ UNCHANGED <<inFlight, clock, consumed>>
         /\ \A r : Kept(r) => Kept(r)'
         /\ b.jti \in fenced'
<1>1. LedgerInv'
  BY CancelInv DEF HeadInv
<1>2. CASE AlreadyIn(b, "CANCELLED")
  <2>1. /\ UNCHANGED <<oidcEffectJti, inFlight, clock, consumed, fenced>>
        /\ \E r \in oidcEffectJti : IsExactRow(EffectRows(b), b, r) /\ r.state = "CANCELLED"
    BY <1>2 DEF AlreadyIn, ledgerVars
  <2>2. b.jti \in fenced
    BY <2>1, ExactRow DEF HeadInv, LedgerInv, FencesRemembered
  <2>3. LedgerInStep' /\ Carried
    BY <2>1, NothingCarried
  <2>4. \A r : Kept(r) => Kept(r)'
    BY <2>1 DEF Kept
  <2>5. QED
    BY <1>1, <2>1, <2>2, <2>3, <2>4
<1>3. CASE ~AlreadyIn(b, "CANCELLED")
  <2>1. /\ MovePrepared(b, "CANCELLED")
        /\ fenced' = fenced \cup {b.jti}
        /\ UNCHANGED <<inFlight, clock, consumed>>
    BY <1>3 DEF CancelPreparedEffectExact
  <2>2. PICK e \in oidcEffectJti :
          /\ IsExactRow(EffectRows(b), b, e)
          /\ e.state = "PREPARED"
          /\ oidcEffectJti' = (oidcEffectJti \ {e}) \cup {[e EXCEPT !.state = "CANCELLED"]}
    BY <2>1 DEF MovePrepared
  <2> DEFINE d == [e EXCEPT !.state = "CANCELLED"]
  <2>3. /\ d.state = "CANCELLED" /\ d.terminal = e.terminal
        /\ \A x : Exact(x, e) => Exact(x, d)
    BY DEF HeadInv, LedgerInv, LedgerTypeOK, EffectRow, Exact
  <2>4. oidcEffectJti' = (oidcEffectJti \ {e}) \cup {d}
    BY <2>2
  <2> HIDE DEF d
  <2>5. Carried
    BY <2>1, SpentCarried
  <2>6. \A r : Kept(r) => Kept(r)'
    BY <2>3, <2>4 DEF Kept, BindingOf
  <2>7. LedgerInStep'
    <3>1. \A x \in oidcEffectJti' : x.state = "CONSUMED" => x \in oidcEffectJti
      BY <2>3, <2>4
    <3>2. QED
      BY <2>1, <2>6, <3>1 DEF HeadInv, LedgerInStep, Paying
  <2>8. QED
    BY <1>1, <2>1, <2>5, <2>6, <2>7
<1>4. QED
  BY <1>2, <1>3

\* A mark that is due lets no tombstone go that a dispatched row, or one about to be
\* dispatched, still needs.
LEMMA MarkServed ==
  ASSUME HeadInv, NEW b \in Binding, MarkEffectJournalTerminalExact(b), MayMark(b),
         UNCHANGED reservations
  PROVE  /\ LedgerInv' /\ LedgerInStep' /\ Carried
         /\ UNCHANGED <<inFlight, clock, consumed, fenced>>
         /\ \A r \in reservations : Kept(r) /\ BindingOf(r) # b => Kept(r)'
<1>1. LedgerInv'
  BY MarkInv DEF HeadInv
<1>2. PICK e \in oidcEffectJti :
        /\ IsExactRow(EffectRows(b), b, e)
        /\ oidcEffectJti' = (oidcEffectJti \ {e}) \cup
             {[e EXCEPT !.terminal = IF @ = NotTerminal THEN clock ELSE @]}
  BY DEF MarkEffectJournalTerminalExact
<1>3. UNCHANGED <<inFlight, clock, consumed, fenced>>
  BY DEF MarkEffectJournalTerminalExact
<1> DEFINE d == [e EXCEPT !.terminal = IF @ = NotTerminal THEN clock ELSE @]
<1>4. d.state = e.state /\ \A x : Exact(x, d) <=> Exact(x, e)
  BY DEF HeadInv, LedgerInv, LedgerTypeOK, EffectRow, Exact
<1>5. oidcEffectJti' = (oidcEffectJti \ {e}) \cup {d}
  BY <1>2
<1> HIDE DEF d
<1>6. Carried
  BY <1>3, SpentCarried
<1>7. \A r \in reservations : Exact(BindingOf(r), e) => BindingOf(r) = b
  <2> SUFFICES ASSUME NEW r \in reservations, Exact(BindingOf(r), e)
               PROVE  BindingOf(r) = b
    OBVIOUS
  <2>1. Exact(b, e)
    BY <1>2 DEF IsExactRow
  <2>2. b = [jti |-> b.jti, request |-> b.request, claims |-> b.claims,
             reservation |-> b.reservation]
    BY DEF Binding
  <2>3. /\ BindingOf(r).jti = b.jti /\ BindingOf(r).request = b.request
        /\ BindingOf(r).claims = b.claims /\ BindingOf(r).reservation = b.reservation
    BY <2>1 DEF Exact
  <2>4. QED
    BY <2>2, <2>3 DEF BindingOf
<1>8. \A r \in reservations : Kept(r) /\ BindingOf(r) # b => Kept(r)'
  BY <1>5, <1>7 DEF Kept, BindingOf
<1>9. LedgerInStep'
  <2>1. \A r \in reservations : r.status = "DISPATCHED_HOLD" => Kept(r)'
    BY <1>8 DEF HeadInv, LedgerInStep, MayMark, MarkDue
  <2>2. \A x \in oidcEffectJti' : x.state = "CONSUMED" =>
          \E r \in reservations' : Exact(BindingOf(r), x) /\ Paying(r)
    BY <1>4, <1>5 DEF HeadInv, LedgerInStep
  <2>3. QED
    BY <1>3, <2>1, <2>2 DEF HeadInv, LedgerInStep, Paying
<1>10. QED
  BY <1>1, <1>3, <1>6, <1>8, <1>9

\* Whichever call the ledger serves.
LEMMA Served ==
  ASSUME HeadInv, NEW kind, NEW b \in Binding, Serve(kind, b), UNCHANGED reservations,
         kind = "committing" => MayCommit(b),
         kind = "marking" => MayMark(b)
  PROVE  /\ LedgerInv' /\ LedgerInStep' /\ Carried
         /\ UNCHANGED <<inFlight, clock>>
         /\ \A r \in reservations :
              Kept(r) /\ (kind = "marking" => BindingOf(r) # b) => Kept(r)'
         /\ kind = "preparing" =>
              /\ ~Spent(b.jti)'
              /\ \E e \in oidcEffectJti' : Exact(b, e) /\ e.terminal = NotTerminal
         /\ kind = "committing" => consumed'[b.jti] = 1
         /\ kind = "cancelling" => b.jti \in fenced'
<1>1. CASE kind = "preparing"
  <2>1. PrepareEffectExact(b)
    BY <1>1 DEF Serve
  <2>2. QED
    BY <1>1, <2>1, PrepareServed DEF Spent
<1>2. CASE kind = "committing"
  <2>1. CommitPreparedEffectExact(b)
    BY <1>2 DEF Serve
  <2>2. QED
    BY <1>2, <2>1, CommitServed
<1>3. CASE kind = "cancelling"
  <2>1. CancelPreparedEffectExact(b)
    BY <1>3 DEF Serve
  <2>2. QED
    BY <1>3, <2>1, CancelServed
<1>4. CASE kind = "marking"
  <2>1. MarkEffectJournalTerminalExact(b)
    BY <1>4 DEF Serve
  <2>2. QED
    BY <1>4, <2>1, MarkServed
<1>5. QED
  BY <1>1, <1>2, <1>3, <1>4 DEF Serve

\* What a step that leaves the head's journal alone has to show.
LEMMA FrameInv ==
  ASSUME HeadInv, LedgerInv', LedgerInStep', UNCHANGED <<reservations, heads>>,
         clock' \in 0..MaxClock,
         client' \in [Attempts -> ClientState], ClientsSound', RecoveriesSound',
         op' \in {Idle} \cup EffectOp \cup HeadOp, Operation',
         late' \subseteq EffectCall \cup MirrorCall, LateCalls',
         worm' \in [Snapshots -> Nat]
  PROVE  HeadInv'
<1>1. RowsSound' /\ EffectsPinned'
  BY RowsKept
<1>2. HeadTypes' /\ SnapshotsOnce'
  BY DEF HeadInv, HeadTypes, SnapshotsOnce
<1>3. QED
  BY <1>1, <1>2 DEF HeadInv

\* And one that begins and ends no recovery.
LEMMA ServedInv ==
  ASSUME HeadInv, LedgerInv', LedgerInStep', Carried,
         UNCHANGED <<inFlight, clock, reservations, heads>>,
         client' \in [Attempts -> ClientState], ClientsSound',
         \A a \in Attempts : client[a].pc \in {"consuming", "failed"} =>
                              client'[a].pc \in {"consuming", "failed"},
         op' \in {Idle} \cup EffectOp \cup HeadOp, Operation',
         late' \subseteq EffectCall \cup MirrorCall, LateCalls',
         worm' \in [Snapshots -> Nat]
  PROVE  HeadInv'
<1>1. RecoveriesSound'
  BY RecoveriesCarried
<1>2. clock' \in 0..MaxClock
  BY DEF HeadInv, HeadTypes
<1>3. QED
  BY <1>1, <1>2, FrameInv

\* Attempts that are not answered know what they knew.
LEMMA ClientsKept ==
  ASSUME HeadInv, Carried, UNCHANGED client
  PROVE  /\ client' \in [Attempts -> ClientState]
         /\ ClientsSound'
         /\ \A a \in Attempts : client[a].pc \in {"consuming", "failed"} =>
                                 client'[a].pc \in {"consuming", "failed"}
<1>1. \A a \in Attempts : Knows(reservations', a, client'[a])
  BY KnowsCarried DEF HeadInv, ClientsSound
<1>2. \A a \in Attempts : Recovered(a)' => Apart(JtiOf[a])'
  BY HeadAssumption DEF HeadInv, ClientsSound, Carried, Recovered
<1>3. QED
  BY <1>1, <1>2 DEF HeadInv, HeadTypes, ClientsSound, Recovered

\* An answered attempt of the operation.
LEMMA AnsweredKept ==
  ASSUME HeadInv, Carried, op \in EffectOp, NEW c \in ClientState, Reply(op.by, c),
         Knows(reservations', op.by, c), c.pc = "done" => c.proof.by = op.by
  PROVE  /\ client' \in [Attempts -> ClientState]
         /\ ClientsSound'
         /\ \A a \in Attempts : client[a].pc \in {"consuming", "failed"} =>
                                 client'[a].pc \in {"consuming", "failed"}
<1>1. op.by \in Attempts /\ client[op.by].pc \in {"waiting", "failed"}
  BY DEF EffectOp, HeadInv, Operation
<1>2. /\ client' \in {client, [client EXCEPT ![op.by] = c]}
      /\ client[op.by].pc = "failed" => client' = client
  BY <1>1, ReplyChanges DEF Finished
<1>3. QED
  BY <1>1, <1>2, ClientCarried DEF HeadInv, HeadTypes

\* The operation's call is served: it goes on, or ends with its answer.
LEMMA LedgerServesInv ==
  ASSUME HeadInv, LedgerServes
  PROVE  HeadInv'
<1> DEFINE b == BindingOf(op.row)
<1>1. /\ op.pc \in RemotePc /\ Serve(op.pc, b)
      /\ UNCHANGED <<reservations, heads, late, worm>>
  BY DEF LedgerServes, headVars
<1>2. op \in EffectOp
  BY <1>1, OperationTyped DEF HeadInv, EffectPc
<1>3. b \in Binding /\ b.jti = op.row.jti
  BY <1>2, BindingTyped DEF EffectOp
<1>4. /\ op.pc = "committing" => MayCommit(b)
      /\ op.pc = "marking" => MayMark(b)
  BY DEF HeadInv, Operation, Confirming, Marking, MayCommit, MayMark
<1>5. /\ LedgerInv' /\ LedgerInStep' /\ Carried
      /\ UNCHANGED <<inFlight, clock>>
      /\ op.pc = "preparing" =>
           /\ consumed'[b.jti] = 0 /\ b.jti \notin fenced'
           /\ \E e \in oidcEffectJti' : Exact(b, e) /\ e.terminal = NotTerminal
      /\ op.pc = "committing" => consumed'[b.jti] = 1
      /\ op.pc = "cancelling" => b.jti \in fenced'
  <2> HIDE DEF b
  <2>1. QED
    BY <1>1, <1>3, <1>4, Served DEF Spent
<1>6. CASE op.pc = "marking"
  <2>1. op' = Idle /\ Reply(op.by, op.reply)
    BY <1>6 DEF LedgerServes, Finish
  <2>2. op.reply \in ClientState /\ Marking
    BY <1>2, <1>6 DEF EffectOp, HeadInv, Operation
  <2>3. /\ Knows(reservations', op.by, op.reply)
        /\ op.reply.pc = "done" => op.reply.proof.by = op.by
    BY <1>1, <2>2 DEF Marking, Knows
  <2>4. LateCalls'
    BY <1>1, <1>5, <2>1, LateCarried DEF Idle
  <2>5. QED
    BY <1>1, <1>2, <1>5, <2>1, <2>2, <2>3, <2>4, AnsweredKept, IdleOperation, ServedInv
    DEF HeadInv, HeadTypes
<1>7. CASE op.pc = "preparing"
  <2>1. Step("prepared") /\ UNCHANGED client
    BY <1>7 DEF LedgerServes
  <2>2. /\ op' \in EffectOp /\ op'.pc = "prepared" /\ op'.by = op.by /\ op'.row = op.row
        /\ op'.reply = op.reply /\ client'[op'.by].pc \in {"waiting", "failed"}
    BY <1>2, <2>1, Stepped DEF EffectPc, LocalPc
  <2>3. Dispatching'
    BY <1>1, <1>7, <2>2 DEF HeadInv, Operation, Dispatching, OwnProof
  <2>4. Kept(op.row)'
    BY <1>5, <1>7, <2>2 DEF Kept, BindingOf
  <2>5. Operation'
    BY <2>2, <2>3, <2>4 DEF Operation
  <2>6. LateCalls'
    <3> SUFFICES ASSUME NEW c \in late'
                 PROVE  /\ c.kind = "committing" => MayCommit(c.binding)'
                        /\ c.kind = "marking" => MayMark(c.binding)'
      BY DEF LateCalls
    <3>1. c \in late /\ (c.kind \in RemotePc => c.binding \in Binding)
      BY <1>1 DEF HeadInv, HeadTypes, EffectCall, MirrorCall, RemotePc
    <3>2. CASE c.kind = "committing"
      BY <1>5, <3>1, <3>2 DEF HeadInv, LateCalls, Carried, RemotePc
    <3>3. CASE c.kind = "marking"
      <4>1. MarkDue(c.binding)'
        BY <1>5, <3>1, <3>3 DEF HeadInv, LateCalls, Carried, RemotePc
      <4>2. c.binding # b
        BY <1>5, <1>7, <4>1 DEF MarkDue, Spent
      <4>3. QED
        BY <2>2, <3>3, <4>1, <4>2 DEF MayMark, BindingOf
    <3>4. QED
      BY <3>2, <3>3
  <2>7. QED
    BY <1>1, <1>5, <2>1, <2>2, <2>5, <2>6, ClientsKept, ServedInv DEF HeadInv, HeadTypes
<1>8. CASE op.pc \in {"committing", "cancelling"}
  <2> DEFINE pc == IF op.pc = "committing" THEN "committed" ELSE "rearming"
  <2>1. Step(pc) /\ UNCHANGED client
    BY <1>8 DEF LedgerServes
  <2>2. /\ op' \in EffectOp /\ op'.pc = pc /\ op'.by = op.by /\ op'.row = op.row
        /\ op'.next = op.next /\ op'.reply = op.reply
        /\ client'[op'.by].pc \in {"waiting", "failed"}
    BY <1>2, <2>1, Stepped DEF EffectPc, LocalPc
  <2>3. Operation'
    <3>1. CASE op.pc = "committing"
      <4>1. Confirming'
        BY <1>1, <2>2, <3>1 DEF HeadInv, Operation, Confirming, OwnProof, Paying
      <4>2. QED
        BY <1>3, <1>5, <2>2, <3>1, <4>1 DEF Operation
    <3>2. CASE op.pc = "cancelling"
      <4>1. Reconciling'
        BY <1>1, <2>2, <3>2 DEF HeadInv, Operation, Reconciling
      <4>2. QED
        BY <1>3, <1>5, <2>2, <3>2, <4>1 DEF Operation
    <3>3. QED
      BY <1>8, <3>1, <3>2
  <2>4. LateCalls'
    BY <1>1, <1>5, <2>2, LateCarried
  <2>5. QED
    BY <1>1, <1>5, <2>1, <2>2, <2>3, <2>4, ClientsKept, ServedInv DEF HeadInv, HeadTypes
<1>9. QED
  BY <1>1, <1>6, <1>7, <1>8 DEF RemotePc

\* The operation knows what it knew when a late call is served, or a clock ticks.
LEMMA OperationKept ==
  ASSUME HeadInv, Carried, UNCHANGED <<op, reservations>>,
         op.pc \in EffectPc => client'[op.by].pc \in {"waiting", "failed"},
         op.pc = "prepared" => Kept(op.row)'
  PROVE  Operation'
<1>1. CASE op.pc \in EffectPc
  <2>1. op \in EffectOp
    BY <1>1, OperationTyped DEF HeadInv
  <2>2. BindingOf(op.row) \in Binding /\ op.row.jti \in Jtis
    BY <2>1, BindingTyped DEF EffectOp, Effect
  <2>3. op.pc = "marking" => Marking'
    <3>1. Marking => Spent(op.row.jti) /\ \A q \in reservations :
            BindingOf(q) = BindingOf(op.row) => q.status # "DISPATCHED_HOLD"
      BY DEF Marking, MarkDue, BindingOf
    <3>2. op.pc = "marking" => MayMark(BindingOf(op.row))
      BY DEF MayMark, HeadInv, Operation, Marking
    <3>3. op.pc = "marking" => MarkDue(BindingOf(op.row))'
      BY <2>2, <3>2 DEF Carried, MarkDue, Spent, BindingOf
    <3>4. QED
      BY <3>3 DEF HeadInv, Operation, Marking, Holds
  <2>4. QED
    BY <2>2, <2>3
    DEF HeadInv, Operation, Carried, Reconciling, Dispatching, Confirming, OwnProof, Paying
<1>2. CASE op.pc \notin EffectPc
  BY <1>2 DEF Operation, EffectPc, RemotePc, LocalPc
<1>3. QED
  BY <1>1, <1>2

\* Abandoned calls do no harm when they arrive.
LEMMA LateArrivesInv ==
  ASSUME HeadInv, LateArrives
  PROVE  HeadInv'
<1>1. PICK c \in late :
        /\ late' = late \ {c}
        /\ \/ c.kind \in RemotePc /\ Serve(c.kind, c.binding) /\ UNCHANGED worm
           \/ c.kind = "mirroring" /\ worm' = [worm EXCEPT ![c.snapshot] = @ + 1]
                                   /\ UNCHANGED ledgerVars
  BY DEF LateArrives
<1>2. UNCHANGED <<reservations, heads, client, op>>
  BY DEF LateArrives, headVars
<1>3. worm' \in [Snapshots -> Nat]
  BY <1>1 DEF HeadInv, HeadTypes, RemotePc
<1>4. /\ LedgerInv' /\ LedgerInStep' /\ Carried
      /\ UNCHANGED <<inFlight, clock>>
      /\ op.pc = "prepared" => Kept(op.row)'
  <2>1. CASE UNCHANGED ledgerVars
    <3>1. UNCHANGED <<oidcEffectJti, consumed, fenced, inFlight, clock>>
      BY <2>1 DEF ledgerVars
    <3>2. LedgerInv'
      BY <2>1, StutterInv DEF HeadInv
    <3>3. LedgerInStep' /\ Carried
      BY <1>2, <3>1, NothingCarried
    <3>4. op.pc = "prepared" => Kept(op.row)'
      BY <1>2, <3>1 DEF HeadInv, Operation, Kept, BindingOf
    <3>5. QED
      BY <3>1, <3>2, <3>3, <3>4
  <2>2. CASE c.kind \in RemotePc /\ Serve(c.kind, c.binding)
    <3>1. c.binding \in Binding
      BY <2>2 DEF HeadInv, HeadTypes, EffectCall, MirrorCall, RemotePc
    <3>2. /\ c.kind = "committing" => MayCommit(c.binding)
          /\ c.kind = "marking" => MayMark(c.binding)
      BY DEF HeadInv, LateCalls
    <3>3. /\ LedgerInv' /\ LedgerInStep' /\ Carried
          /\ UNCHANGED <<inFlight, clock>>
          /\ \A r \in reservations :
               Kept(r) /\ (c.kind = "marking" => BindingOf(r) # c.binding) => Kept(r)'
      BY <1>2, <2>2, <3>1, <3>2, Served
    <3>4. op.pc = "prepared" => Kept(op.row)'
      <4>1. SUFFICES ASSUME op.pc = "prepared" PROVE Kept(op.row)'
        OBVIOUS
      <4>2. /\ op.row \in reservations /\ Kept(op.row)
            /\ c.kind = "marking" => BindingOf(op.row) # c.binding
        BY <3>2, <4>1 DEF HeadInv, Operation, Dispatching, MayMark
      <4>3. PICK r \in reservations : r = op.row
        BY <4>2
      <4>4. Kept(r)'
        BY <3>3, <4>2, <4>3
      <4>5. QED
        BY <1>2, <4>3, <4>4 DEF Kept, BindingOf
    <3>5. QED
      BY <3>3, <3>4
  <2>3. QED
    BY <1>1, <2>1, <2>2
<1>5. Operation'
  <2>1. op.pc \in EffectPc => client'[op.by].pc \in {"waiting", "failed"}
    BY <1>2 DEF HeadInv, Operation
  <2>2. QED
    BY <1>2, <1>4, <2>1, OperationKept
<1>6. LateCalls'
  <2> SUFFICES ASSUME NEW d \in late'
               PROVE  /\ d.kind = "committing" => MayCommit(d.binding)'
                      /\ d.kind = "marking" => MayMark(d.binding)'
    BY DEF LateCalls
  <2>1. d \in late /\ (d.kind \in RemotePc => d.binding \in Binding)
    BY <1>1 DEF HeadInv, HeadTypes, EffectCall, MirrorCall, RemotePc
  <2>2. CASE d.kind = "committing"
    BY <1>4, <2>1, <2>2 DEF HeadInv, LateCalls, Carried, RemotePc
  <2>3. CASE d.kind = "marking"
    <3>1. MayMark(d.binding) /\ d.binding \in Binding
      BY <2>1, <2>3 DEF HeadInv, LateCalls, RemotePc
    <3>2. MarkDue(d.binding)'
      BY <1>4, <3>1 DEF Carried
    <3>3. QED
      BY <1>2, <2>3, <3>1, <3>2 DEF MayMark, BindingOf
  <2>4. QED
    BY <2>2, <2>3
<1>7. QED
  BY <1>1, <1>2, <1>3, <1>4, <1>5, <1>6, ClientsKept, ServedInv DEF HeadInv, HeadTypes

-----------------------------------------------------------------------------
(* Evictions, time and recoveries. *)

\* An operation that is cut off leaves its call behind.
LEMMA InterruptInv ==
  ASSUME HeadInv, Interrupt
  PROVE  HeadInv' /\ Quiet
<1>1. /\ op # Idle /\ op' = Idle
      /\ late' = late \cup
           (CASE op.pc \in RemotePc -> {RemoteCall}
              [] op.pc = "mirroring" -> {[kind |-> "mirroring", snapshot |-> op.by]}
              [] OTHER -> {})
      /\ UNCHANGED <<ledgerVars, reservations, heads, worm>>
  BY DEF Interrupt, headVars
<1>2. UNCHANGED <<oidcEffectJti, consumed, fenced, inFlight, clock>>
  BY <1>1 DEF ledgerVars
<1>3. LedgerInv'
  BY <1>1, StutterInv DEF HeadInv
<1>4. LedgerInStep' /\ Carried
  BY <1>1, <1>2, NothingCarried
<1>5. op' \in {Idle} \cup EffectOp /\ op'.pc # "prepared" /\ Operation'
  BY <1>1, IdleOperation
<1>6. /\ client' \in [Attempts -> ClientState]
      /\ ClientsSound'
      /\ \A a \in Attempts : client[a].pc \in {"consuming", "failed"} =>
                              client'[a].pc \in {"consuming", "failed"}
  <2>1. CASE op.pc \in HeadPc
    <3>1. UNCHANGED client
      BY <2>1 DEF Interrupt
    <3>2. QED
      BY <1>4, <3>1, ClientsKept
  <2>2. CASE op.pc \notin HeadPc
    <3>1. op \in EffectOp
      BY <1>1, <2>2, OperationTyped DEF HeadInv
    <3>2. Reply(op.by, Failed) /\ op.by \in Attempts
      BY <2>2, <3>1 DEF Interrupt, EffectOp
    <3>3. QED
      BY <1>4, <3>1, <3>2, FailedKnows, AnsweredKept
  <2>3. QED
    BY <2>1, <2>2
<1>7. \A c \in late' :
        \/ c \in late
        \/ /\ op.pc \in RemotePc /\ op \in EffectOp
           /\ c.kind = op.pc /\ c.binding = BindingOf(op.row) /\ c \in EffectCall
        \/ c \in MirrorCall
  <2>1. CASE op.pc \in RemotePc
    <3>1. late' = late \cup {RemoteCall}
      <4>1. op.pc # "mirroring"
        BY <2>1 DEF RemotePc
      <4>2. QED
        BY <1>1, <2>1, <4>1
    <3>2. op \in EffectOp
      BY <2>1, OperationTyped DEF HeadInv, EffectPc
    <3>3. RemoteCall.kind = op.pc /\ RemoteCall.binding = BindingOf(op.row)
      BY DEF RemoteCall
    <3>4. RemoteCall \in EffectCall
      <4>1. BindingOf(op.row) \in Binding
        BY <3>2, BindingTyped DEF EffectOp
      <4>2. QED
        BY <2>1, <4>1 DEF RemoteCall, EffectCall
    <3>5. QED
      BY <2>1, <3>1, <3>2, <3>3, <3>4
  <2>2. CASE op.pc = "mirroring"
    <3>1. late' = late \cup {[kind |-> "mirroring", snapshot |-> op.by]}
      BY <1>1, <2>2 DEF RemotePc
    <3>2. op.by \in Snapshots
      BY <2>2, OperationTyped DEF HeadInv, HeadPc, HeadOp
    <3>3. QED
      BY <3>1, <3>2 DEF MirrorCall
  <2>3. CASE op.pc \notin RemotePc /\ op.pc # "mirroring"
    BY <1>1, <2>3
  <2>4. QED
    BY <2>1, <2>2, <2>3
<1>8. late' \subseteq EffectCall \cup MirrorCall
  BY <1>7 DEF HeadInv, HeadTypes
<1>9. LateCalls'
  <2> SUFFICES ASSUME NEW c \in late'
               PROVE  /\ c.kind = "committing" => MayCommit(c.binding)'
                      /\ c.kind = "marking" => MarkDue(c.binding)'
    BY <1>5 DEF LateCalls, MayMark
  <2>1. CASE c \in late
    <3>1. c.kind \in RemotePc => c.binding \in Binding
      BY <2>1 DEF HeadInv, HeadTypes, EffectCall, MirrorCall, RemotePc
    <3>2. QED
      BY <1>4, <2>1, <3>1 DEF HeadInv, LateCalls, Carried, RemotePc
  <2>2. CASE op \in EffectOp /\ c.kind = op.pc /\ c.binding = BindingOf(op.row)
    <3>1. c.binding \in Binding
      BY <2>2, BindingTyped DEF EffectOp
    <3>2. c.kind = "committing" => MayCommit(c.binding)
      BY <2>2 DEF HeadInv, Operation, Confirming, MayCommit
    <3>3. c.kind = "marking" => MayMark(c.binding)
      BY <2>2 DEF HeadInv, Operation, Marking, MayMark
    <3>4. QED
      BY <1>4, <3>1, <3>2, <3>3 DEF Carried
  <2>3. CASE c \in MirrorCall
    BY <2>3 DEF MirrorCall
  <2>4. QED
    BY <1>7, <2>1, <2>2, <2>3
<1>10. Quiet
  <2>1. \/ client' = client
        \/ client' = [client EXCEPT ![op.by] = Failed] /\ client[op.by].pc \notin Finished
    BY DEF Interrupt, Reply
  <2>2. QED
    BY <1>1, <1>2, <2>1, PaidKept, FailedKnows DEF Quiet, HeadInv, HeadTypes, Finished
<1>11. QED
  BY <1>1, <1>2, <1>3, <1>4, <1>5, <1>6, <1>8, <1>9, <1>10, ServedInv
  DEF HeadInv, HeadTypes

\* Late calls, when only a recovery or the clock moves.
LEMMA LateKept ==
  ASSUME HeadInv, Carried, UNCHANGED <<op, late>>
  PROVE  LateCalls'
<1> SUFFICES ASSUME NEW c \in late
             PROVE  /\ c.kind = "committing" => MayCommit(c.binding)'
                    /\ c.kind = "marking" => MayMark(c.binding)'
  BY DEF LateCalls
<1>1. c.kind \in RemotePc => c.binding \in Binding
  BY DEF HeadInv, HeadTypes, EffectCall, MirrorCall, RemotePc
<1>2. QED
  BY <1>1 DEF HeadInv, LateCalls, Carried, RemotePc, MayMark, BindingOf

\* Time changes nothing but what may be forgotten.
LEMMA TicksInv ==
  ASSUME HeadInv, Tick
  PROVE  HeadInv' /\ Quiet
<1>1. /\ LedgerTick
      /\ UNCHANGED <<oidcEffectJti, consumed, fenced, inFlight, reservations, heads, client,
                     op, late, worm>>
  BY DEF Tick, LedgerTick, headVars
<1>2. LedgerInv'
  BY <1>1, TickInv DEF HeadInv
<1>3. LedgerInStep' /\ Carried
  BY <1>1, NothingCarried
<1>4. clock' \in 0..MaxClock
  BY <1>1, LedgerAssumption DEF LedgerTick, HeadInv, HeadTypes
<1>5. Operation' /\ LateCalls'
  <2>1. /\ op.pc \in EffectPc => client'[op.by].pc \in {"waiting", "failed"}
        /\ op.pc = "prepared" => Kept(op.row)'
    BY <1>1 DEF HeadInv, Operation, Kept, BindingOf
  <2>2. QED
    BY <1>1, <1>3, <2>1, OperationKept, LateKept
<1>6. ClientsSound' /\ client' \in [Attempts -> ClientState] /\ RecoveriesSound'
  BY <1>1, <1>3, ClientsKept, RecoveriesCarried
<1>7. Quiet
  BY <1>1, PaidKept DEF Quiet
<1>8. QED
  BY <1>1, <1>2, <1>3, <1>4, <1>5, <1>6, <1>7, FrameInv DEF HeadInv, HeadTypes

\* A recovery begins for a proof that is held, and another attempt's.
LEMMA RecoverBeginInv ==
  ASSUME HeadInv, NEW a \in Attempts, RecoverBegin(a)
  PROVE  HeadInv' /\ Quiet
<1> DEFINE b == [jti |-> JtiOf[a], request |-> RequestOf[a], claims |-> "recovery"]
           c == [client[a] EXCEPT !.pc = "consuming"]
<1>1. /\ client[a].pc = "recovering" /\ BeginConsume(a, b, FALSE)
      /\ RequestOf[a] # RequestOf[client[a].proof.by]
      /\ client' = [client EXCEPT ![a].pc = "consuming"]
      /\ UNCHANGED <<reservations, heads, op, late, worm>>
  BY DEF RecoverBegin, headVars
<1>2. client \in [Attempts -> ClientState] /\ client[a] \in ClientState
  BY DEF HeadInv, HeadTypes
<1>3. client' = [client EXCEPT ![a] = c] /\ client'[a] = c
  BY <1>1, <1>2
<1>4. /\ c \in ClientState /\ c.pc = "consuming" /\ c.id = client[a].id
      /\ c.proof = client[a].proof
  BY <1>2 DEF ClientState, ClientPc
<1> HIDE DEF c
<1>5. /\ UNCHANGED <<oidcEffectJti, consumed, fenced, clock>>
      /\ \A p \in inFlight : p.caller # a
      /\ inFlight' = inFlight \cup
           {[caller |-> a, jti |-> b.jti, request |-> b.request, claims |-> b.claims,
             exact |-> FALSE, at |-> clock]}
  BY <1>1 DEF BeginConsume
<1>6. LedgerInv'
  <2>1. b.jti \in Jtis /\ b.request \in Requests /\ b.claims \in Claims /\ a \in Callers
    BY HeadAssumption
  <2> HIDE DEF b
  <2>2. QED
    BY <1>1, <2>1, BeginConsumeInv DEF HeadInv
<1>7. LedgerInStep' /\ Carried
  BY <1>1, <1>5, NothingCarried
<1>8. Holds(reservations, client[a].id, client[a].proof, a)
  BY <1>1 DEF HeadInv, ClientsSound, Knows
<1>9. Knows(reservations', a, c)
  BY <1>1, <1>4, <1>8 DEF Knows
<1>10. client' \in [Attempts -> ClientState] /\ ClientsSound'
  BY <1>3, <1>4, <1>7, <1>9, ClientCarried
<1>11. RecoveriesSound'
  <2> DEFINE n == [caller |-> a, jti |-> b.jti, request |-> b.request, claims |-> b.claims,
                   exact |-> FALSE, at |-> clock]
  <2>1. n.caller = a /\ n.jti = JtiOf[a] /\ inFlight' = inFlight \cup {n}
    BY <1>5
  <2> HIDE DEF n
  <2>2. \E r \in reservations : r.id.intent = IntentOf[a] /\ r.status = "CONFIRMED"
    BY <1>8 DEF Holds
  <2>3. \A p \in inFlight : client'[p.caller].pc \in {"consuming", "failed"}
    <3> SUFFICES ASSUME NEW p \in inFlight
                 PROVE  client'[p.caller].pc \in {"consuming", "failed"}
      OBVIOUS
    <3>1. p.caller \in Attempts
      BY HeadAssumption DEF HeadInv, LedgerInv, LedgerTypeOK, Call
    <3>2. QED
      BY <1>2, <1>3, <1>5, <3>1 DEF HeadInv, RecoveriesSound
  <2>4. QED
    BY <1>1, <1>3, <1>4, <1>5, <2>1, <2>2, <2>3 DEF HeadInv, RecoveriesSound
<1>12. Operation' /\ LateCalls'
  <2>1. op.pc \in EffectPc => client'[op.by].pc \in {"waiting", "failed"}
    <3>1. op.pc \in EffectPc => op.by \in Attempts
      BY OperationTyped DEF HeadInv, EffectOp
    <3>2. QED
      BY <1>1, <1>2, <1>3, <3>1 DEF HeadInv, Operation
  <2>2. op.pc = "prepared" => Kept(op.row)'
    BY <1>1, <1>5 DEF HeadInv, Operation, Kept, BindingOf
  <2>3. QED
    BY <1>1, <1>7, <2>1, <2>2, OperationKept, LateKept
<1>13. Quiet
  BY <1>1, <1>2, <1>3, <1>4, <1>5, PaidKept DEF Quiet
<1>14. QED
  BY <1>1, <1>5, <1>6, <1>7, <1>10, <1>11, <1>12, <1>13, FrameInv DEF HeadInv, HeadTypes

\* A recovery ends: its token is used apart from every row, or it is dropped.
LEMMA RecoverEndInv ==
  ASSUME HeadInv, NEW a \in Attempts, RecoverEnd(a)
  PROVE  HeadInv'
<1> DEFINE d == [client[a] EXCEPT !.pc = "done"]
<1>1. PICK p \in inFlight :
        /\ p.caller = a
        /\ \/ ConsumeInsert(p) /\ Reply(a, d)
           \/ ConsumeDropped(p) /\ Reply(a, Failed)
  BY DEF RecoverEnd
<1>2. UNCHANGED <<reservations, heads, op, late, worm>>
  BY DEF RecoverEnd, headVars
<1>3. client \in [Attempts -> ClientState] /\ client[a] \in ClientState
  BY DEF HeadInv, HeadTypes
<1>4. /\ d \in ClientState /\ d.pc = "done" /\ d.id = client[a].id
      /\ d.proof = client[a].proof
  BY <1>3 DEF ClientState, ClientPc, Finished
<1> HIDE DEF d
<1>5. p.jti = JtiOf[a] /\ client[a].pc \in {"consuming", "failed"}
  BY <1>1 DEF HeadInv, RecoveriesSound
<1>6. UNCHANGED <<oidcEffectJti, clock, fenced>> /\ inFlight' = inFlight \ {p}
  BY <1>1 DEF ConsumeInsert, ConsumeDropped
<1>7. client' = client \/ (client[a].pc = "consuming" /\
                          client' \in {[client EXCEPT ![a] = d], [client EXCEPT ![a] = Failed]})
  BY <1>1, <1>5 DEF Reply, Finished
<1>8. RecoveriesSound'
  <2> SUFFICES ASSUME NEW q \in inFlight' PROVE client'[q.caller].pc \in {"consuming", "failed"}
    BY <1>2, <1>6 DEF HeadInv, RecoveriesSound
  <2>1. q \in inFlight /\ q # p /\ q.caller \in Attempts
    BY <1>6, HeadAssumption DEF HeadInv, LedgerInv, LedgerTypeOK, Call
  <2>2. q.caller # a
    BY <1>1, <2>1 DEF HeadInv, RecoveriesSound
  <2>3. client'[q.caller] = client[q.caller]
    BY <1>3, <1>7, <2>1, <2>2
  <2>4. QED
    BY <2>1, <2>3 DEF HeadInv, RecoveriesSound
<1>9. /\ LedgerInv' /\ LedgerInStep' /\ Carried
      /\ client' \in [Attempts -> ClientState]
      /\ ClientsSound'
  <2>1. CASE ConsumeDropped(p) /\ Reply(a, Failed)
    <3>1. UNCHANGED <<oidcEffectJti, consumed, fenced>>
      BY <2>1 DEF ConsumeDropped
    <3>2. LedgerInv'
      BY <2>1, ConsumeDroppedInv DEF HeadInv
    <3>3. LedgerInStep' /\ Carried
      BY <1>2, <3>1, NothingCarried
    <3>4. client' \in {client, [client EXCEPT ![a] = Failed]}
      BY <2>1 DEF Reply
    <3>5. QED
      BY <3>2, <3>3, <3>4, FailedKnows, ClientCarried
  <2>2. CASE ConsumeInsert(p) /\ Reply(a, d)
    <3>1. ConsumeInserts(p) /\ consumed' = [consumed EXCEPT ![p.jti] = @ + 1]
      BY <2>2 DEF ConsumeInsert
    <3>2. /\ p.jti \in Jtis
          /\ consumed[p.jti] = 0
          /\ \A e \in oidcEffectJti : ~SameKey(p, e)
      BY <3>1, InsertsFreshToken DEF HeadInv
    <3>3. LedgerInv'
      BY <2>2, ConsumeInsertInv DEF HeadInv
    <3>4. consumed \in [Jtis -> Nat]
      BY DEF HeadInv, LedgerInv, LedgerTypeOK
    <3>5. /\ consumed'[p.jti] = 1
          /\ \A j \in Jtis : consumed[j] = 1 => consumed'[j] = 1
          /\ \A j \in Jtis : consumed[j] # 0 => consumed'[j] # 0
      BY <3>1, <3>2, <3>4
    <3>6. Carried
      BY <1>2, <1>6, <3>5, SpentCarried
    <3>7. LedgerInStep'
      BY <1>2, <1>6, <3>5 DEF HeadInv, HeadTypes, Effect, LedgerInStep, Kept, Paying
    <3>8. Apart(JtiOf[a])' /\ ~Apart(JtiOf[a])
      <4>1. \A r \in reservations : Paying(r) => r.jti # p.jti
        BY <3>2 DEF HeadInv, LedgerInStep, Paying, Kept, Exact, BindingOf, SameKey
      <4>2. QED
        BY <1>2, <1>5, <3>2, <3>5, <4>1 DEF Apart, Paying
    <3>9. CASE client' = client
      BY <3>3, <3>6, <3>7, <3>9, ClientsKept
    <3>10. CASE client[a].pc = "consuming" /\ client' = [client EXCEPT ![a] = d]
      <4>1. /\ client' \in [Attempts -> ClientState]
            /\ client'[a] = d
            /\ \A b \in Attempts : b # a => client'[b] = client[b]
        BY <1>3, <1>4, <3>10
      <4>2. Holds(reservations, client[a].id, client[a].proof, a)
        BY <3>10 DEF HeadInv, ClientsSound, Knows
      <4>3. Knows(reservations', a, d)
        BY <1>2, <1>4, <4>2 DEF Knows
      <4>4. \A b \in Attempts : Knows(reservations', b, client'[b])
        BY <3>6, <4>1, <4>3, KnowsCarried DEF HeadInv, ClientsSound
      <4>5. \A b \in Attempts : b # a => (Recovered(b)' <=> Recovered(b))
        BY <4>1 DEF Recovered
      <4>6. \A b \in Attempts : Recovered(b)' => Apart(JtiOf[b])'
        BY <3>6, <3>8, <4>5, HeadAssumption DEF HeadInv, ClientsSound, Carried
      <4>7. \A b \in Attempts : b # a /\ Recovered(b) => JtiOf[b] # JtiOf[a]
        BY <3>8 DEF HeadInv, ClientsSound
      <4>8. \A b, x \in Attempts : Recovered(b)' /\ Recovered(x)' /\ JtiOf[b] = JtiOf[x]
                                    => b = x
        BY <4>5, <4>7 DEF HeadInv, ClientsSound
      <4>9. QED
        BY <3>3, <3>6, <3>7, <4>1, <4>4, <4>6, <4>8 DEF ClientsSound
    <3>11. QED
      BY <1>5, <2>2, <3>9, <3>10 DEF Reply, Finished
  <2>3. QED
    BY <1>1, <2>1, <2>2
<1>10. Operation' /\ LateCalls'
  <2>1. op.pc \in EffectPc => client'[op.by].pc \in {"waiting", "failed"}
    <3>1. op.pc \in EffectPc => op.by \in Attempts
      BY OperationTyped DEF HeadInv, EffectOp
    <3>2. QED
      BY <1>3, <1>7, <3>1, FailedKnows DEF HeadInv, Operation
  <2>2. op.pc = "prepared" => Kept(op.row)'
    BY <1>2, <1>6 DEF HeadInv, Operation, Kept, BindingOf
  <2>3. QED
    BY <1>2, <1>9, <2>1, <2>2, OperationKept, LateKept
<1>11. QED
  BY <1>2, <1>6, <1>8, <1>9, <1>10, FrameInv DEF HeadInv, HeadTypes

-----------------------------------------------------------------------------
(* The head. *)

\* A step of the head's own journal: the ledger, the attempts and the calls on
\* their way see nothing of it.
LEMMA HeadStepInv ==
  ASSUME HeadInv, op \in {Idle} \cup HeadOp, UNCHANGED <<ledgerVars, client, late>>,
         \A r \in reservations : Paying(r) => r \in reservations',
         \A r \in reservations' : Paying(r) => r \in reservations,
         reservations' \subseteq Effect, RowsSound', EffectsPinned',
         heads' \in Seq(HeadRow), SnapshotsOnce',
         op' \in {Idle} \cup HeadOp, worm' \in [Snapshots -> Nat]
  PROVE  HeadInv' /\ Quiet
<1>1. UNCHANGED <<oidcEffectJti, consumed, fenced, inFlight, clock>>
  BY DEF ledgerVars
<1>2. LedgerInv'
  BY StutterInv DEF HeadInv
<1>3. LedgerInStep' /\ Carried
  BY <1>1, UnpaidCarried
<1>4. ClientsSound' /\ RecoveriesSound'
  BY <1>1, <1>3, ClientsKept, RecoveriesCarried
<1>5. op'.pc \notin EffectPc
  BY DEF Idle, HeadOp, HeadPc, EffectPc, RemotePc, LocalPc
<1>6. Operation'
  BY <1>5 DEF Operation, EffectPc, RemotePc, LocalPc
<1>7. LateCalls'
  BY <1>3, <1>5, LateCarried DEF EffectPc, LocalPc
<1>8. HeadTypes'
  BY <1>1 DEF HeadInv, HeadTypes
<1>9. Quiet
  BY <1>1, PaidKept DEF Quiet
<1>10. QED
  BY <1>2, <1>3, <1>4, <1>6, <1>7, <1>8, <1>9 DEF HeadInv

\* A new head is appended when no effect is open any more.
LEMMA AdvanceInv ==
  ASSUME HeadInv, NEW s \in Snapshots, AdvanceStart(s)
  PROVE  HeadInv' /\ Quiet
<1>1. op = Idle /\ UNCHANGED <<ledgerVars, client, late, worm>>
  BY DEF AdvanceStart, Free
<1>2. op' \in HeadOp
  BY DEF AdvanceStart, HeadOp, HeadPc
<1>3. worm' \in [Snapshots -> Nat] /\ heads \in Seq(HeadRow)
  BY <1>1 DEF HeadInv, HeadTypes
<1>4. CASE UNCHANGED <<reservations, heads>>
  BY <1>1, <1>2, <1>3, <1>4, RowsKept, HeadStepInv DEF HeadInv, SnapshotsOnce
<1>5. CASE ReserveHead(s, clock)
  <2> DEFINE left == ExpireUndispatched(reservations, clock)
             row == [snapshot |-> s, state |-> "PREPARED"]
  <2>1. /\ reservations' = left /\ heads' = Append(heads, row)
        /\ GenerationsOf(s) = {} /\ ~HasNonterminalEffect(left)
    BY <1>5 DEF ReserveHead, CanReserveHead
  <2>2. /\ left \subseteq Effect
        /\ \A x \in left : x \in reservations \/ x.status = "EXPIRED_UNDISPATCHED"
        /\ \A r \in reservations : Paying(r) => r \in left
        /\ \A x, y \in left : x.id.intent = y.id.intent => x = y
    <3> HIDE DEF left
    <3>1. QED
      BY ExpireUndispatchedRows DEF left, HeadInv, HeadTypes, RowsSound
  <2> HIDE DEF left
  <2>3. /\ \A r \in reservations : Paying(r) => r \in reservations'
        /\ \A r \in reservations' : Paying(r) => r \in reservations
    BY <2>1, <2>2 DEF Paying
  <2>4. RowsSound' /\ reservations' \subseteq Effect
    BY <2>1, <2>2 DEF HeadInv, RowsSound, SealedStatus
  <2>5. EffectsPinned'
    BY <2>1 DEF EffectsPinned, HasNonterminalEffect
  <2>6. row \in HeadRow /\ row.snapshot = s
    BY DEF HeadRow, MirrorState
  <2> HIDE DEF row
  <2>7. heads' \in Seq(HeadRow)
    BY <1>3, <2>1, <2>6
  <2>8. SnapshotsOnce'
    <3>1. /\ \A g \in DOMAIN heads : heads[g].snapshot # s
          /\ \A g \in DOMAIN heads' :
               \/ g \in DOMAIN heads /\ heads'[g] = heads[g]
               \/ g = Len(heads) + 1 /\ heads'[g] = row
      BY <1>3, <2>1, <2>6 DEF GenerationsOf
    <3>2. QED
      BY <2>6, <3>1 DEF HeadInv, SnapshotsOnce
  <2>9. QED
    BY <1>1, <1>2, <1>3, <2>3, <2>4, <2>5, <2>7, <2>8, HeadStepInv
<1>6. QED
  BY <1>4, <1>5 DEF AdvanceStart, headVars

\* A pending head moves on: no effect is open meanwhile.
LEMMA PendingMoves ==
  ASSUME HeadInv, NEW g \in DOMAIN heads, NEW state \in MirrorState,
         heads[g].state # "CONFIRMED", heads' = [heads EXCEPT ![g].state = state],
         UNCHANGED reservations
  PROVE  heads' \in Seq(HeadRow) /\ SnapshotsOnce' /\ EffectsPinned'
<1>1. heads \in Seq(HeadRow) /\ heads[g] \in HeadRow
  BY DEF HeadInv, HeadTypes
<1> DEFINE n == [heads[g] EXCEPT !.state = state]
<1>2. n \in HeadRow /\ n.snapshot = heads[g].snapshot
  BY <1>1 DEF HeadRow
<1>3. heads' = [heads EXCEPT ![g] = n]
  OBVIOUS
<1> HIDE DEF n
<1>4. heads' \in Seq(HeadRow) /\ DOMAIN heads' = DOMAIN heads
  BY <1>1, <1>2, <1>3
<1>5. \A h \in DOMAIN heads : heads'[h].snapshot = heads[h].snapshot
  BY <1>1, <1>2, <1>3
<1>6. SnapshotsOnce'
  BY <1>4, <1>5 DEF HeadInv, SnapshotsOnce
<1>7. PendingHead
  BY DEF PendingHead
<1>8. EffectsPinned'
  BY <1>7 DEF HeadInv, EffectsPinned
<1>9. QED
  BY <1>4, <1>6, <1>8

\* The head is dispatched before its upload starts.
LEMMA HeadMarkInv ==
  ASSUME HeadInv, HeadMark
  PROVE  HeadInv' /\ Quiet
<1>1. /\ op.pc = "headPrepared" /\ op' = [op EXCEPT !.pc = "mirroring"]
      /\ UNCHANGED <<ledgerVars, reservations, client, late, worm>>
  BY DEF HeadMark, Step
<1>2. op \in HeadOp
  BY <1>1, OperationTyped DEF HeadInv, HeadPc
<1>3. op' \in HeadOp
  BY <1>1, <1>2 DEF HeadOp, HeadPc
<1>4. PICK g \in DOMAIN heads : MarkDispatched(g)
  BY DEF HeadMark, GenerationsOf
<1>5. heads' \in Seq(HeadRow) /\ SnapshotsOnce' /\ EffectsPinned'
  BY <1>1, <1>4, PendingMoves DEF MarkDispatched, MirrorState
<1>6. RowsSound' /\ reservations' \subseteq Effect /\ worm' \in [Snapshots -> Nat]
  BY <1>1 DEF HeadInv, HeadTypes, RowsSound
<1>7. QED
  BY <1>1, <1>2, <1>3, <1>5, <1>6, HeadStepInv

\* The upload touches no journal.
LEMMA MirrorInv ==
  ASSUME HeadInv, Mirror
  PROVE  HeadInv' /\ Quiet
<1>1. /\ op.pc = "mirroring" /\ op' = [op EXCEPT !.pc = "headDispatched"]
      /\ worm' = [worm EXCEPT ![op.by] = IF @ = 0 THEN 1 ELSE @]
      /\ UNCHANGED <<ledgerVars, reservations, heads, client, late>>
  BY DEF Mirror, Step, headVars
<1>2. op \in HeadOp
  BY <1>1, OperationTyped DEF HeadInv, HeadPc
<1>3. op' \in HeadOp
  BY <1>1, <1>2 DEF HeadOp, HeadPc
<1>4. worm' \in [Snapshots -> Nat]
  BY <1>1 DEF HeadInv, HeadTypes
<1>5. heads' \in Seq(HeadRow) /\ SnapshotsOnce'
  BY <1>1 DEF HeadInv, HeadTypes, SnapshotsOnce
<1>6. QED
  BY <1>1, <1>2, <1>3, <1>4, <1>5, RowsKept, HeadStepInv

\* A head that has exactly one version is confirmed.
LEMMA ObserveWormInv ==
  ASSUME HeadInv, ObserveWorm
  PROVE  HeadInv' /\ Quiet
<1>1. /\ op.pc = "headDispatched" /\ op' = Idle
      /\ UNCHANGED <<ledgerVars, reservations, client, late, worm>>
  BY DEF ObserveWorm
<1>2. op \in HeadOp
  BY <1>1, OperationTyped DEF HeadInv, HeadPc
<1>3. worm' \in [Snapshots -> Nat]
  BY <1>1 DEF HeadInv, HeadTypes
<1>4. CASE UNCHANGED heads
  <2>1. heads' \in Seq(HeadRow) /\ SnapshotsOnce'
    BY <1>4 DEF HeadInv, HeadTypes, SnapshotsOnce
  <2>2. QED
    BY <1>1, <1>2, <1>3, <1>4, <2>1, RowsKept, HeadStepInv
<1>5. ASSUME NEW g \in DOMAIN heads, ConfirmHead(g) PROVE HeadInv' /\ Quiet
  <2>1. heads' \in Seq(HeadRow) /\ SnapshotsOnce' /\ EffectsPinned'
    BY <1>1, <1>5, PendingMoves DEF ConfirmHead, MirrorState
  <2>2. RowsSound' /\ reservations' \subseteq Effect
    BY <1>1 DEF HeadInv, HeadTypes, RowsSound
  <2>3. QED
    BY <1>1, <1>2, <1>3, <2>1, <2>2, HeadStepInv
<1>6. QED
  BY <1>4, <1>5 DEF ObserveWorm, GenerationsOf

-----------------------------------------------------------------------------
(* The invariant. *)

\* The protocol starts with two empty journals and no attempt known.
LEMMA HeadInitInv == Init => HeadInv
<1> SUFFICES ASSUME Init PROVE HeadInv
  OBVIOUS
<1>1. LedgerInv
  BY LedgerInitInv DEF Init
<1>2. /\ oidcEffectJti = {} /\ inFlight = {} /\ clock = 0 /\ reservations = {}
      /\ heads = <<>> /\ op = Idle /\ late = {} /\ worm = [s \in Snapshots |-> 0]
      /\ client = [a \in Attempts |-> Client("new", NoId, NoResult)]
  BY DEF Init, LedgerInit
<1>3. Client("new", NoId, NoResult) \in ClientState
  BY DEF Client, ClientState, ClientPc
<1>4. HeadTypes
  BY <1>2, <1>3, LedgerAssumption DEF HeadTypes
<1>5. \A a \in Attempts : client[a].pc = "new"
  BY <1>2 DEF Client
<1>6. ClientsSound
  BY <1>5 DEF ClientsSound, Knows, Recovered
<1>7. Operation
  BY <1>2 DEF Operation, Idle, EffectPc, RemotePc, LocalPc
<1>8. QED
  BY <1>1, <1>2, <1>4, <1>6, <1>7
  DEF HeadInv, SnapshotsOnce, RowsSound, EffectsPinned, LedgerInStep, LateCalls,
      RecoveriesSound

\* Every step keeps the invariant, and the one-use proof only sees a recovery end and
\* the ledger serve a call.
LEMMA HeadStep ==
  ASSUME HeadInv, [Next]_vars
  PROVE  /\ HeadInv'
         /\ Quiet \/ (\E a \in Attempts : RecoverEnd(a)) \/ LedgerServes \/ LateArrives
<1>1. ASSUME NEW a \in Attempts, ClientCalls(a) PROVE HeadInv' /\ Quiet
  BY <1>1, ReserveNewInv, ReserveExistingInv, SealInv, DispatchCallInv, ConfirmCallInv,
     RefusedInv
  DEF ClientCalls
<1>2. ASSUME NEW a \in Attempts, ClientRecovers(a), ~RecoverEnd(a) PROVE HeadInv' /\ Quiet
  BY <1>2, RecoverBeginInv, RefusedInv DEF ClientRecovers
<1>3. ASSUME NEW a \in Attempts, RecoverEnd(a) PROVE HeadInv'
  BY <1>3, RecoverEndInv
<1>4. ASSUME NEW a \in Attempts, CancelCall(a) \/ GiveUp(a) PROVE HeadInv' /\ Quiet
  BY <1>4, CancelCallInv, RefusedInv
<1>5. CASE OperationStep /\ ~LedgerServes
  BY <1>5, ObserveInv, ReconcileConfirmInv, ReconcileRearmInv, RefusalInv,
     DispatchFinishInv, ConfirmFinishInv, HeadMarkInv, MirrorInv, ObserveWormInv
  DEF OperationStep
<1>6. CASE LedgerServes \/ LateArrives
  BY <1>6, LedgerServesInv, LateArrivesInv
<1>7. ASSUME NEW s \in Snapshots, AdvanceStart(s) PROVE HeadInv' /\ Quiet
  BY <1>7, AdvanceInv
<1>8. CASE Interrupt \/ Tick
  BY <1>8, InterruptInv, TicksInv
<1>9. CASE UNCHANGED vars
  <2>1. UNCHANGED <<ledgerVars, reservations, heads, op, late, worm>> /\ client' = client
    BY <1>9 DEF vars, headVars
  <2>2. UNCHANGED <<oidcEffectJti, consumed, fenced, inFlight, clock>>
    BY <2>1 DEF ledgerVars
  <2>3. LedgerInv'
    BY <2>1, StutterInv DEF HeadInv
  <2>4. LedgerInStep' /\ Carried
    BY <2>1, <2>2, NothingCarried
  <2>5. Operation'
    <3>1. /\ op.pc \in EffectPc => client'[op.by].pc \in {"waiting", "failed"}
          /\ op.pc = "prepared" => Kept(op.row)'
      BY <2>1, <2>2 DEF HeadInv, Operation, Kept, BindingOf
    <3>2. QED
      BY <2>1, <2>4, <3>1, OperationKept
  <2>6. LateCalls'
    BY <2>1, <2>4, LateKept
  <2>7. Quiet
    BY <2>1, <2>2, PaidKept DEF Quiet
  <2>8. QED
    BY <2>1, <2>2, <2>3, <2>4, <2>5, <2>6, <2>7, ClientsKept, ServedInv DEF HeadInv, HeadTypes
<1>10. QED
  BY <1>1, <1>2, <1>3, <1>4, <1>5, <1>6, <1>7, <1>8, <1>9 DEF Next, OperationStep

\* HeadInv holds however operations are cut off, abandoned calls arrive, attempts
\* retry and heads advance.
THEOREM HeadInvariant == Spec => []HeadInv
<1>1. HeadInv /\ [Next]_vars => HeadInv'
  BY HeadStep
<1>2. QED
  BY HeadInitInv, <1>1, PTL DEF Spec

-----------------------------------------------------------------------------
(* What the protocol promises. *)

\* The invariant has the types of the model.
LEMMA HeadTyped == HeadInv => TypeOK
<1> SUFFICES ASSUME HeadInv PROVE TypeOK
  OBVIOUS
<1>1. Effect \subseteq RowType
  BY LedgerAssumption DEF Effect, RowType, Proof, ProofType
<1>2. ASSUME NEW a \in Attempts
      PROVE  /\ client[a].pc \in {"new", "waiting", "reserved", "sealed", "dispatched",
                                  "recovering", "consuming"} \cup Finished
             /\ client[a].id \in IdType \cup {NoId}
             /\ client[a].proof \in ProofType
  <2>1. client[a] \in ClientState
    BY DEF HeadInv, HeadTypes
  <2>2. client[a].proof \in ProofType
    BY <2>1, LedgerAssumption DEF ClientState, Proof, ProofType
  <2>3. QED
    BY <2>1, <2>2 DEF ClientState, ClientPc
<1>3. op.pc \in {"idle"} \cup RemotePc \cup HeadPc \cup LocalPc
  BY DEF HeadInv, HeadTypes, Idle, EffectOp, HeadOp, EffectPc
<1>4. QED
  BY <1>1, <1>2, <1>3 DEF TypeOK, HeadInv, HeadTypes, LedgerInv

\* The head's journal and the ledger, which no transaction joins, stay in step: a
\* dispatched row has its tombstone, and a used token a row that holds its proof.
THEOREM JournalsStayInStep == Spec => []JournalsInStep
<1>1. HeadInv => JournalsInStep
  <2> SUFFICES ASSUME HeadInv PROVE JournalsInStep
    OBVIOUS
  <2>1. HoldHasTombstone
    <3> SUFFICES ASSUME NEW r \in reservations, r.status = "DISPATCHED_HOLD"
                 PROVE  ObservePreparedEffectExact(BindingOf(r)) \in
                          {"PREPARED", "CONSUMED", "CANCELLED"}
      BY DEF HoldHasTombstone
    <3> DEFINE b == BindingOf(r)
    <3>1. PICK e \in oidcEffectJti : Exact(b, e)
      BY DEF HeadInv, LedgerInStep, Kept
    <3>2. EffectRows(b) = {e}
      BY <3>1 DEF EffectRows, Exact, SameKey, HeadInv, LedgerInv, KeysUnique
    <3>3. IsExactRow(EffectRows(b), b, e)
      BY <3>1, <3>2 DEF IsExactRow
    <3>4. ObservePreparedEffectExact(b) = e.state
      BY <3>2, <3>3 DEF ObservePreparedEffectExact
    <3>5. e.state \in {"PREPARED", "CONSUMED", "CANCELLED"}
      BY DEF HeadInv, LedgerInv, LedgerTypeOK, EffectRow
    <3>6. QED
      BY <3>4, <3>5
  <2>2. UsedTokenIsSealed
    BY DEF UsedTokenIsSealed, HeadInv, LedgerInStep, Paying
  <2>3. QED
    BY <2>1, <2>2, HeadTyped DEF JournalsInStep
<1>2. QED
  BY HeadInvariant, <1>1, PTL

\* While an effect is open its head is the current one and none is pending.
THEOREM OpenEffectsStayPinned == Spec => []OpenEffectsPinHead
<1>1. HeadInv => OpenEffectsPinHead
  BY LastIsCurrent DEF HeadInv, HeadTypes, EffectsPinned, OpenEffectsPinHead
<1>2. QED
  BY HeadInvariant, <1>1, PTL

\* Only a commit turns a prepared tombstone into a used one, and it is for a row that
\* is dispatched and still holds its proof.
LEMMA CommitPays ==
  ASSUME HeadInv, NEW kind, NEW b \in Binding, Serve(kind, b),
         kind = "committing" => MayCommit(b),
         NEW d \in oidcEffectJti, d.state = "PREPARED",
         NEW e \in oidcEffectJti', e.state = "CONSUMED", e.jti = d.jti
  PROVE  /\ e.reservation = b.reservation
         /\ \E r \in reservations : BindingOf(r) = b /\ r.status = "DISPATCHED_HOLD"
<1>1. e \notin oidcEffectJti
  BY DEF HeadInv, LedgerInv, KeysUnique, SameKey
<1>2. \A s : MovePrepared(b, s) =>
        \E r \in oidcEffectJti : /\ IsExactRow(EffectRows(b), b, r)
                                 /\ r.state = "PREPARED"
                                 /\ e = [r EXCEPT !.state = s]
  BY <1>1 DEF MovePrepared
<1>3. CommitPreparedEffectExact(b) /\ kind = "committing"
  <2>1. ~PrepareEffectExact(b)
    BY <1>1 DEF PrepareEffectExact, KeptRows, PreparedRow
  <2>2. ~CancelPreparedEffectExact(b)
    <3>1. CancelPreparedEffectExact(b) => MovePrepared(b, "CANCELLED")
      BY <1>1 DEF CancelPreparedEffectExact, AlreadyIn, ledgerVars
    <3>2. \A r \in oidcEffectJti : [r EXCEPT !.state = "CANCELLED"].state = "CANCELLED"
      BY DEF HeadInv, LedgerInv, LedgerTypeOK, EffectRow
    <3>3. QED
      BY <1>2, <3>1, <3>2
  <2>3. ~MarkEffectJournalTerminalExact(b)
    <3> SUFFICES ASSUME MarkEffectJournalTerminalExact(b) PROVE FALSE
      OBVIOUS
    <3>1. PICK r \in oidcEffectJti :
            /\ IsExactRow(EffectRows(b), b, r)
            /\ oidcEffectJti' = (oidcEffectJti \ {r}) \cup
                 {[r EXCEPT !.terminal = IF @ = NotTerminal THEN clock ELSE @]}
      BY DEF MarkEffectJournalTerminalExact
    <3>2. r.state # "PREPARED"
      BY <3>1 DEF CanMark, MarkEffectJournalTerminalExact, IsExactRow
    <3>3. e = [r EXCEPT !.terminal = IF @ = NotTerminal THEN clock ELSE @]
      BY <1>1, <3>1
    <3>4. e.jti = r.jti
      BY <3>3 DEF HeadInv, LedgerInv, LedgerTypeOK, EffectRow
    <3>5. r = d
      BY <3>4 DEF HeadInv, LedgerInv, KeysUnique, SameKey
    <3>6. QED
      BY <3>2, <3>5
  <2>4. QED
    BY <2>1, <2>2, <2>3 DEF Serve
<1>4. PICK r \in oidcEffectJti : /\ IsExactRow(EffectRows(b), b, r)
                                 /\ r.state = "PREPARED"
                                 /\ e = [r EXCEPT !.state = "CONSUMED"]
  <2>1. MovePrepared(b, "CONSUMED")
    BY <1>1, <1>3 DEF CommitPreparedEffectExact, AlreadyIn, ledgerVars
  <2>2. QED
    BY <1>2, <2>1
<1>5. e.reservation = r.reservation /\ r.jti = b.jti /\ r.reservation = b.reservation
  BY <1>4 DEF HeadInv, LedgerInv, LedgerTypeOK, EffectRow, IsExactRow, Exact
<1>6. b.jti \notin fenced /\ consumed[b.jti] = 0
  BY <1>4, <1>5 DEF HeadInv, LedgerInv, FencesRemembered, RowsCountUses
<1>7. PICK q \in reservations : BindingOf(q) = b /\ Paying(q)
  BY <1>3, <1>6 DEF MayCommit
<1>8. q.jti = b.jti
  BY <1>7 DEF BindingOf
<1>9. q.status = "DISPATCHED_HOLD"
  BY <1>6, <1>7, <1>8 DEF HeadInv, LedgerInStep, Paying
<1>10. QED
  BY <1>5, <1>7, <1>9

\* The calls that the ledger serves are for a binding, and a commit for a row that may
\* still be paid for.
LEMMA ServesBinding ==
  ASSUME HeadInv, LedgerServes \/ LateArrives
  PROVE  \/ UNCHANGED ledgerVars
         \/ \E kind \in RemotePc, b \in Binding :
              /\ Serve(kind, b)
              /\ kind = "committing" => MayCommit(b)
<1>1. CASE LedgerServes
  <2>1. op.pc \in RemotePc /\ Serve(op.pc, BindingOf(op.row))
    BY <1>1 DEF LedgerServes
  <2>2. op \in EffectOp
    BY <2>1, OperationTyped DEF HeadInv, EffectPc
  <2>3. BindingOf(op.row) \in Binding
    BY <2>2, BindingTyped DEF EffectOp
  <2>4. op.pc = "committing" => MayCommit(BindingOf(op.row))
    BY DEF HeadInv, Operation, Confirming, MayCommit
  <2>5. QED
    BY <2>1, <2>3, <2>4
<1>2. CASE LateArrives
  <2>1. PICK c \in late : \/ c.kind \in RemotePc /\ Serve(c.kind, c.binding)
                          \/ UNCHANGED ledgerVars
    BY <1>2 DEF LateArrives
  <2>2. c.kind \in RemotePc => c.binding \in Binding
    BY DEF HeadInv, HeadTypes, EffectCall, MirrorCall, RemotePc
  <2>3. c.kind = "committing" => MayCommit(c.binding)
    BY DEF HeadInv, LateCalls
  <2>4. QED
    BY <2>1, <2>2, <2>3
<1>3. QED
  BY <1>1, <1>2

\* Only those touch the tombstones.
LEMMA TombstonesMove ==
  ASSUME [Next]_vars, oidcEffectJti' # oidcEffectJti
  PROVE  LedgerServes \/ LateArrives
<1>1. ASSUME NEW a \in Attempts PROVE ~ClientCalls(a)
  BY DEF ClientCalls, ReserveNew, ReserveExisting, ReserveRefused, SealCall, DispatchCall,
         ConfirmCall, CallRefused, ledgerVars
<1>2. ASSUME NEW a \in Attempts PROVE ~ClientRecovers(a)
  BY DEF ClientRecovers, RecoverBegin, RecoverRefused, RecoverEnd, BeginConsume,
         ConsumeInsert, ConsumeDropped, ledgerVars
<1>3. ASSUME NEW a \in Attempts PROVE ~CancelCall(a) /\ ~GiveUp(a)
  BY DEF CancelCall, GiveUp, ledgerVars
<1>4. OperationStep => LedgerServes
  BY DEF OperationStep, Observe, ReconcileConfirm, ReconcileRearm, ReconcileRefused,
         DispatchFinish, ConfirmFinish, LedgerRefuses, HeadMark, Mirror, ObserveWorm,
         ledgerVars
<1>5. ASSUME NEW s \in Snapshots PROVE ~AdvanceStart(s)
  BY DEF AdvanceStart, ledgerVars
<1>6. ~Interrupt /\ ~Tick /\ ~(UNCHANGED vars)
  BY DEF Interrupt, Tick, LedgerTick, vars, ledgerVars
<1>7. QED
  BY <1>1, <1>2, <1>3, <1>4, <1>5, <1>6 DEF Next

\* A token is only consumed for a proof while the head of that proof is the current
\* one and none is pending, even by a commit that arrives late.
THEOREM UsesAreOfCurrentHead == Spec => UsedOnlyUnderCurrentHead
<1>1. HeadInv /\ [Next]_vars =>
        [\A e \in oidcEffectJti', d \in oidcEffectJti :
           e.jti = d.jti /\ e.state = "CONSUMED" /\ d.state = "PREPARED" =>
             ~PendingHead /\ e.reservation.generation = CurrentGeneration]_vars
  <2> SUFFICES ASSUME HeadInv, [Next]_vars,
                      NEW e \in oidcEffectJti', NEW d \in oidcEffectJti,
                      e.jti = d.jti, e.state = "CONSUMED", d.state = "PREPARED"
               PROVE  ~PendingHead /\ e.reservation.generation = CurrentGeneration
    OBVIOUS
  <2>1. oidcEffectJti' # oidcEffectJti
    BY DEF HeadInv, LedgerInv, KeysUnique, SameKey
  <2>2. PICK kind \in RemotePc, b \in Binding : /\ Serve(kind, b)
                                                /\ kind = "committing" => MayCommit(b)
    BY <2>1, TombstonesMove, ServesBinding DEF ledgerVars
  <2>3. PICK r \in reservations : BindingOf(r) = b /\ r.status = "DISPATCHED_HOLD"
    BY <2>2, CommitPays
  <2>4. e.reservation = r.id
    BY <2>2, <2>3, CommitPays DEF BindingOf
  <2>5. ~PendingHead /\ r.id.generation = Len(heads)
    BY <2>3 DEF HeadInv, EffectsPinned, Nonterminal
  <2>6. CurrentGeneration = Len(heads)
    BY <2>5, LastIsCurrent DEF HeadInv, HeadTypes
  <2>7. QED
    BY <2>4, <2>5, <2>6
<1>2. QED
  BY HeadInvariant, <1>1, PTL DEF Spec, UsedOnlyUnderCurrentHead

-----------------------------------------------------------------------------
(* The protocol implements the one-use proof. *)

Given(i) ==
  IF PaidRows(i) = {} THEN NoResult ELSE (CHOOSE r \in PaidRows(i) : TRUE).result
Tokens == [j \in Jtis |-> TokenState(j)]
Proofs == [i \in Intents |-> Given(i)]
Answers == {AnswerOf(a) : a \in {b \in Attempts : client[b].pc = "done"}}

\* An intent has at most one proof, and it is one.
GivenIsPaid ==
  /\ \A i, p : Paid(i, p) => Given(i) = p /\ p \in Proof
  /\ \A i : (\A p : ~Paid(i, p)) => Given(i) = NoResult

\* So it is, before a step and after it.
LEMMA GivenOnce == HeadInv => GivenIsPaid
<1> SUFFICES ASSUME HeadInv, NEW i
             PROVE  /\ \A p : Paid(i, p) => Given(i) = p /\ p \in Proof
                    /\ (\A p : ~Paid(i, p)) => Given(i) = NoResult
  BY DEF GivenIsPaid
<1>1. \A r, q \in PaidRows(i) : r = q
  BY DEF HeadInv, RowsSound, PaidRows
<1>2. \A r \in PaidRows(i) : r.result \in Proof
  BY DEF HeadInv, RowsSound, PaidRows, SealedStatus
<1>3. ASSUME NEW p, Paid(i, p) PROVE Given(i) = p /\ p \in Proof
  <2>1. PICK r \in PaidRows(i) : r.result = p
    BY <1>3 DEF Paid
  <2>2. (CHOOSE q \in PaidRows(i) : TRUE) = r
    BY <1>1, <2>1
  <2>3. QED
    BY <1>2, <2>1, <2>2 DEF Given
<1>4. ASSUME \A p : ~Paid(i, p) PROVE Given(i) = NoResult
  BY <1>4 DEF Paid, Given
<1>5. QED
  BY <1>3, <1>4

\* The same of the next state.
LEMMA GivenOnceNext == HeadInv' => GivenIsPaid'
  BY GivenOnce, PTL

\* No proof is the missing one.
LEMMA ProofIsResult == NoResult \notin Proof
<1>1. \A p \in Proof : p.by \in Attempts
  BY DEF Proof
<1>2. NoResult.by = "none"
  BY DEF NoResult
<1>3. QED
  BY <1>1, <1>2, HeadAssumption

\* Intents that keep their paid rows keep their proofs.
LEMMA GivenKept ==
  ASSUME HeadInv, HeadInv', NEW i, \A p : Paid(i, p)' <=> Paid(i, p)
  PROVE  Given(i)' = Given(i)
  BY GivenOnce, GivenOnceNext DEF GivenIsPaid

\* A confirmed row gives its intent its proof.
LEMMA ConfirmedGives ==
  ASSUME HeadInv, NEW r \in reservations, r.status = "CONFIRMED"
  PROVE  Paid(r.id.intent, r.result)
  BY DEF HeadInv, LedgerInStep, Paid, PaidRows

\* An answered attempt holds the row of its intent.
LEMMA HeldRow ==
  ASSUME HeadInv, NEW a \in Attempts, NEW id, NEW proof,
         Holds(reservations, id, proof, a)
  PROVE  \E r \in reservations :
           /\ r.status = "CONFIRMED" /\ r.id = id /\ r.result = proof
           /\ RowsOf(id) = {r}
           /\ Paid(IntentOf[a], proof)
<1>1. PICK r \in reservations : r.id = id /\ r.status = "CONFIRMED" /\ r.result = proof
  BY DEF Holds
<1>2. RowsOf(id) = {r}
  BY <1>1 DEF RowsOf, HeadInv, RowsSound
<1>3. Paid(IntentOf[a], proof)
  BY <1>1, ConfirmedGives DEF Holds
<1>4. QED
  BY <1>1, <1>2, <1>3

\* Answers that were given stay as they were, and so do the attempts not answered.
LEMMA AnswersKept ==
  ASSUME HeadInv, HeadInv',
         \A r \in reservations : r.status = "CONFIRMED" => r \in reservations'
  PROVE  \A a \in Attempts : client[a].pc = "done" /\ client'[a] = client[a] =>
                              AnswerOf(a)' = AnswerOf(a)
<1> SUFFICES ASSUME NEW a \in Attempts, client[a].pc = "done", client'[a] = client[a]
             PROVE  AnswerOf(a)' = AnswerOf(a)
  OBVIOUS
<1>1. Holds(reservations, client[a].id, client[a].proof, a)
  BY DEF HeadInv, ClientsSound, Knows
<1>2. PICK r \in reservations : r.status = "CONFIRMED" /\ r.id = client[a].id
                                /\ RowsOf(client[a].id) = {r}
  BY <1>1, HeldRow
<1>3. r \in reservations' /\ \A q \in reservations' : q.id = r.id => q = r
  BY <1>2 DEF HeadInv, RowsSound
<1>4. RowsOf(client[a].id)' = {r}
  BY <1>2, <1>3 DEF RowsOf
<1>5. PaidWith(a)' = PaidWith(a)
  BY <1>2, <1>4 DEF PaidWith
<1>6. QED
  BY <1>5 DEF AnswerOf

\* A step that changes no use, no proof and no answer is a stutter.
LEMMA QuietMaps ==
  ASSUME HeadInv, HeadInv', Quiet
  PROVE  UNCHANGED OneUse!vars
<1>1. \A j \in Jtis : TokenState(j)' = TokenState(j)
  BY DEF Quiet, TokenState
<1>2. \A i \in Intents : Given(i)' = Given(i)
  BY GivenKept DEF Quiet
<1>3. \A a \in Attempts : /\ (client'[a].pc = "done") <=> (client[a].pc = "done")
                          /\ client[a].pc = "done" => AnswerOf(a)' = AnswerOf(a)
  BY AnswersKept DEF Quiet
<1>4. Tokens' = Tokens
  BY <1>1 DEF Tokens
<1>5. Proofs' = Proofs
  BY <1>2 DEF Proofs
<1>6. Answers' = Answers
  BY <1>3 DEF Answers
<1>7. QED
  BY <1>4, <1>5, <1>6 DEF OneUse!vars, Tokens, Proofs, Given, Answers

\* What the ledger does to a token that it commits or cancels.
LEMMA ServeMaps ==
  ASSUME HeadInv, HeadInv', NEW kind, NEW b \in Binding, Serve(kind, b),
         kind = "committing" => MayCommit(b),
         UNCHANGED <<reservations, client>>
  PROVE  [OneUse!Next]_(OneUse!vars)
<1>1. b.jti \in Jtis /\ consumed \in [Jtis -> Nat]
  BY DEF Binding, HeadInv, LedgerInv, LedgerTypeOK
<1>2. Answers' = Answers
  <2>1. \A a \in Attempts : client[a].pc = "done" => AnswerOf(a)' = AnswerOf(a)
    BY AnswersKept
  <2>2. QED
    BY <2>1 DEF Answers
<1>3. CASE UNCHANGED <<consumed, fenced>>
  BY <1>3, PaidKept, QuietMaps DEF Quiet
<1>4. CASE ~(UNCHANGED <<consumed, fenced>>)
  <2>1. (kind = "committing" /\ CommitPreparedEffectExact(b)) \/ CancelPreparedEffectExact(b)
    BY <1>4 DEF Serve, PrepareEffectExact, MarkEffectJournalTerminalExact
  <2>2. PICK e \in oidcEffectJti : IsExactRow(EffectRows(b), b, e) /\ e.state = "PREPARED"
    BY <1>4, <2>1
    DEF CommitPreparedEffectExact, CancelPreparedEffectExact, AlreadyIn, MovePrepared,
        ledgerVars
  <2>3. e.jti = b.jti /\ consumed[b.jti] = 0 /\ b.jti \notin fenced
    BY <2>2, ExactRow DEF HeadInv, LedgerInv, RowsCountUses, FencesRemembered
  <2>4. Tokens[b.jti] = "unused"
    BY <1>1, <2>3 DEF Tokens, TokenState
  <2>5. CASE kind = "committing" /\ CommitPreparedEffectExact(b)
    <3>1. consumed' = [consumed EXCEPT ![b.jti] = @ + 1] /\ UNCHANGED fenced
      BY <1>4, <2>5 DEF CommitPreparedEffectExact, AlreadyIn, ledgerVars
    <3>2. /\ consumed'[b.jti] # 0
          /\ \A j \in Jtis : j # b.jti => consumed'[j] = consumed[j]
      BY <1>1, <2>3, <3>1
    <3>3. Tokens' = [Tokens EXCEPT ![b.jti] = "used"]
      BY <1>1, <3>1, <3>2 DEF Tokens, TokenState
    <3>4. PICK q \in reservations : BindingOf(q) = b /\ Paying(q)
      BY <2>3, <2>5 DEF MayCommit
    <3>5. q.jti = b.jti /\ q.id.intent \in Intents /\ q.result \in Proof
      BY <3>4 DEF BindingOf, HeadInv, HeadTypes, Effect, IdType, RowsSound, Paying,
                  SealedStatus
    <3>6. Given(q.id.intent) = NoResult
      <4>1. \A p : ~Paid(q.id.intent, p)
        BY <2>3, <3>5 DEF Paid, PaidRows, HeadInv, RowsSound
      <4>2. QED
        BY <4>1, GivenOnce DEF GivenIsPaid
    <3>7. Given(q.id.intent)' = q.result
      <4>1. Paid(q.id.intent, q.result)'
        BY <3>2, <3>4, <3>5 DEF Paid, PaidRows, Paying
      <4>2. QED
        BY <4>1, GivenOnceNext DEF GivenIsPaid
    <3>8. \A i \in Intents : i # q.id.intent => Given(i)' = Given(i)
      <4> SUFFICES ASSUME NEW i \in Intents, i # q.id.intent PROVE Given(i)' = Given(i)
        OBVIOUS
      <4>1. \A r \in reservations : Paying(r) /\ r.id.intent = i => r.jti # b.jti
        BY <3>4, <3>5 DEF HeadInv, LedgerInStep, Paying
      <4>2. \A r \in reservations : r.jti \in Jtis
        BY DEF HeadInv, HeadTypes, Effect
      <4>3. \A p : Paid(i, p)' <=> Paid(i, p)
        BY <3>2, <4>1, <4>2 DEF Paid, PaidRows, Paying
      <4>4. QED
        BY <4>3, GivenKept
    <3>9. Proofs[q.id.intent] = NoResult /\ Proofs' = [Proofs EXCEPT ![q.id.intent] = q.result]
      BY <3>5, <3>6, <3>7, <3>8 DEF Proofs
    <3>10. \E i \in Intents, p \in Proof : OneUse!Issue(i, b.jti, p)
      <4>1. OneUse!Issue(q.id.intent, b.jti, q.result)
        BY <1>2, <2>4, <3>3, <3>9
        DEF OneUse!Issue, OneUse!Use, Tokens, Proofs, Given, Answers
      <4>2. QED
        BY <3>5, <4>1
    <3>11. QED
      BY <1>1, <3>10 DEF OneUse!Next, Proof
  <2>6. CASE CancelPreparedEffectExact(b)
    <3>1. fenced' = fenced \cup {b.jti} /\ UNCHANGED consumed
      BY <1>4, <2>6 DEF CancelPreparedEffectExact, AlreadyIn, ledgerVars
    <3>2. Tokens' = [Tokens EXCEPT ![b.jti] = "fenced"]
      BY <1>1, <2>3, <3>1 DEF Tokens, TokenState
    <3>3. \A i \in Intents : Given(i)' = Given(i)
      BY <3>1, PaidKept, GivenKept
    <3>4. Proofs' = Proofs
      BY <3>3 DEF Proofs
    <3>5. OneUse!Fence(b.jti)
      BY <1>2, <2>4, <3>2, <3>4 DEF OneUse!Fence, Tokens, Proofs, Given, Answers
    <3>6. QED
      BY <1>1, <3>5 DEF OneUse!Next
  <2>7. QED
    BY <2>1, <2>5, <2>6
<1>5. QED
  BY <1>3, <1>4

\* The answer of an attempt's own proof is the first for the token that paid for it.
LEMMA OwnTokenUnanswered ==
  ASSUME HeadInv, NEW a \in Attempts, client[a].pc # "done",
         NEW r \in reservations, r.status = "CONFIRMED", r.result.by = a
  PROVE  \A b \in Attempts : client[b].pc = "done" => PaidWith(b) # r.jti
<1> SUFFICES ASSUME NEW b \in Attempts, client[b].pc = "done" PROVE PaidWith(b) # r.jti
  OBVIOUS
<1>1. CASE client[b].proof.by # b
  <2>1. PaidWith(b) = JtiOf[b]
    BY <1>1 DEF PaidWith
  <2>2. Apart(JtiOf[b])
    BY <1>1 DEF HeadInv, ClientsSound, Recovered
  <2>3. QED
    BY <2>1, <2>2 DEF Apart, Paying
<1>2. CASE client[b].proof.by = b
  <2>1. Holds(reservations, client[b].id, client[b].proof, b)
    BY DEF HeadInv, ClientsSound, Knows
  <2>2. PICK q \in reservations :
          /\ q.status = "CONFIRMED" /\ q.result = client[b].proof
          /\ RowsOf(client[b].id) = {q}
    BY <2>1, HeldRow
  <2>3. PaidWith(b) = q.jti
    BY <1>2, <2>2 DEF PaidWith
  <2>4. q # r
    BY <1>2, <2>2
  <2>5. QED
    BY <2>2, <2>3, <2>4 DEF HeadInv, LedgerInStep, Paying
<1>3. QED
  BY <1>1, <1>2

\* One more attempt is answered, the others as before.
LEMMA AnswersGrow ==
  ASSUME HeadInv, HeadInv', NEW a \in Attempts, NEW c \in ClientState,
         \A r \in reservations : r.status = "CONFIRMED" => r \in reservations',
         client' = [client EXCEPT ![a] = c], client[a].pc # "done", c.pc = "done"
  PROVE  Answers' = Answers \cup {AnswerOf(a)'}
<1>1. /\ client'[a] = c
      /\ \A b \in Attempts : b # a => client'[b] = client[b]
  BY DEF HeadInv, HeadTypes
<1>2. \A b \in Attempts : client[b].pc = "done" =>
        client'[b].pc = "done" /\ AnswerOf(b)' = AnswerOf(b)
  BY <1>1, AnswersKept
<1>3. \A b \in Attempts : client'[b].pc = "done" => b = a \/ client[b].pc = "done"
  BY <1>1
<1>4. QED
  BY <1>1, <1>2, <1>3 DEF Answers

\* A mark that ends its operation answers the attempt, if it is still there.
LEMMA AnswerMaps ==
  ASSUME HeadInv, HeadInv', LedgerServes, op.pc = "marking"
  PROVE  [OneUse!Next]_(OneUse!vars)
<1>0. /\ op \in EffectOp /\ Marking
      /\ client[op.by].pc \in {"waiting", "failed"}
  BY OperationTyped DEF HeadInv, Operation, EffectPc, RemotePc
<1>a. PICK a \in Attempts : a = op.by
  BY <1>0 DEF EffectOp
<1>c. PICK c \in ClientState : c = op.reply
  BY <1>0 DEF EffectOp
<1>1. client[a].pc \in {"waiting", "failed"}
  BY <1>0, <1>a
<1>2. a \in Attempts /\ c \in ClientState
  OBVIOUS
<1>3. Reply(a, c) /\ UNCHANGED <<reservations, consumed, fenced>>
  BY <1>a, <1>c
  DEF LedgerServes, Finish, Serve, MarkEffectJournalTerminalExact, headVars, RemotePc
<1>4. /\ \A r \in reservations : r.status = "CONFIRMED" => r \in reservations'
      /\ \A i, p : Paid(i, p)' <=> Paid(i, p)
  BY <1>3, PaidKept
<1>5. client \in [Attempts -> ClientState]
  BY DEF HeadInv, HeadTypes
<1>6. CASE client' = client \/ (client' = [client EXCEPT ![a] = c] /\ c.pc # "done")
  <2>1. \A b \in Attempts : \/ client'[b] = client[b]
                            \/ client[b].pc # "done" /\ client'[b].pc # "done"
    BY <1>1, <1>2, <1>5, <1>6
  <2>2. QED
    BY <1>3, <1>4, <2>1, QuietMaps DEF Quiet
<1>7. CASE client' = [client EXCEPT ![a] = c] /\ client[a].pc # "failed" /\ c.pc = "done"
  <2>1. Holds(reservations, c.id, c.proof, a) /\ c.proof.by = a
    BY <1>0, <1>1, <1>7, <1>a, <1>c DEF Marking
  <2>2. PICK r \in reservations :
          /\ r.status = "CONFIRMED" /\ r.id = c.id /\ r.result = c.proof
          /\ RowsOf(c.id) = {r}
          /\ Paid(IntentOf[a], c.proof)
    BY <1>2, <2>1, HeldRow
  <2>3. client'[a] = c
    BY <1>2, <1>5, <1>7
  <2>4. AnswerOf(a)' = [token |-> r.jti, intent |-> IntentOf[a], proof |-> c.proof]
    <3>1. RowsOf(c.id)' = {r}
      BY <1>3, <2>2 DEF RowsOf
    <3>2. PaidWith(a)' = r.jti
      BY <2>1, <2>3, <3>1 DEF PaidWith
    <3>3. QED
      BY <2>3, <3>2 DEF AnswerOf
  <2>5. /\ Given(IntentOf[a]) = c.proof
        /\ c.proof # NoResult
        /\ IntentOf[a] \in Intents
    BY <1>2, <2>2, GivenOnce, ProofIsResult, HeadAssumption DEF GivenIsPaid
  <2>6. r.jti \in Jtis /\ TokenState(r.jti) = "used"
    BY <2>2 DEF HeadInv, HeadTypes, Effect, LedgerInStep, TokenState
  <2>7. \A b \in Attempts : client[b].pc = "done" => PaidWith(b) # r.jti
    BY <1>1, <1>2, <2>1, <2>2, OwnTokenUnanswered
  <2>8. Answers' = Answers \cup {AnswerOf(a)'}
    BY <1>1, <1>2, <1>4, <1>7, AnswersGrow
  <2>9. Tokens' = Tokens /\ Proofs' = Proofs
    BY <1>3, <1>4, GivenKept DEF Tokens, TokenState, Proofs
  <2>10. \A x \in Answers : x.token # r.jti
    BY <2>7 DEF Answers, AnswerOf
  <2>11. Proofs[IntentOf[a]] = c.proof /\ Tokens[r.jti] = "used"
    BY <2>5, <2>6 DEF Proofs, Tokens
  <2>12. OneUse!Answer(IntentOf[a], r.jti)
    BY <2>4, <2>5, <2>8, <2>9, <2>10, <2>11
    DEF OneUse!Answer, OneUse!Answered, Tokens, Proofs, Given, Answers
  <2>13. QED
    BY <2>5, <2>6, <2>12 DEF OneUse!Next
<1>8. QED
  BY <1>3, <1>6, <1>7 DEF Reply, Finished

\* A recovery uses its own token for the proof that the intent has.
LEMMA RecoverMaps ==
  ASSUME HeadInv, HeadInv', NEW a \in Attempts, RecoverEnd(a)
  PROVE  [OneUse!Next]_(OneUse!vars)
<1> DEFINE d == [client[a] EXCEPT !.pc = "done"]
<1>1. PICK p \in inFlight :
        /\ p.caller = a
        /\ \/ ConsumeInsert(p) /\ Reply(a, d)
           \/ ConsumeDropped(p) /\ Reply(a, Failed)
  BY DEF RecoverEnd
<1>2. UNCHANGED reservations
  BY DEF RecoverEnd, headVars
<1>3. client \in [Attempts -> ClientState] /\ client[a] \in ClientState
  BY DEF HeadInv, HeadTypes
<1>4. /\ d \in ClientState /\ d.pc = "done" /\ d.id = client[a].id
      /\ d.proof = client[a].proof
  BY <1>3 DEF ClientState, ClientPc, Finished
<1> HIDE DEF d
<1>5. p.jti = JtiOf[a] /\ client[a].pc \in {"consuming", "failed"}
  BY <1>1 DEF HeadInv, RecoveriesSound
<1>6. CASE ConsumeDropped(p) /\ Reply(a, Failed)
  <2>1. UNCHANGED <<consumed, fenced>>
    BY <1>6 DEF ConsumeDropped
  <2>2. \A b \in Attempts : \/ client'[b] = client[b]
                            \/ client[b].pc # "done" /\ client'[b].pc # "done"
    BY <1>3, <1>5, <1>6, FailedKnows DEF Reply
  <2>3. QED
    BY <1>2, <2>1, <2>2, PaidKept, QuietMaps DEF Quiet
<1>7. CASE ConsumeInsert(p) /\ Reply(a, d)
  <2>1. /\ ConsumeInserts(p) /\ consumed' = [consumed EXCEPT ![p.jti] = @ + 1]
        /\ UNCHANGED fenced
    BY <1>7 DEF ConsumeInsert
  <2>2. /\ p.jti \in Jtis
        /\ consumed[p.jti] = 0
        /\ p.jti \notin fenced
        /\ \A e \in oidcEffectJti : ~SameKey(p, e)
    BY <2>1, InsertsFreshToken DEF HeadInv
  <2>3. consumed \in [Jtis -> Nat]
    BY DEF HeadInv, LedgerInv, LedgerTypeOK
  <2>4. /\ consumed'[p.jti] # 0
        /\ \A j \in Jtis : j # p.jti => consumed'[j] = consumed[j]
    BY <2>1, <2>2, <2>3
  <2>5. Tokens[p.jti] = "unused" /\ Tokens' = [Tokens EXCEPT ![p.jti] = "used"]
    BY <2>1, <2>2, <2>4 DEF Tokens, TokenState
  <2>6. \A i, q : Paid(i, q)' <=> Paid(i, q)
    <3>1. \A r \in reservations : Paying(r) => r.jti # p.jti
      BY <2>2 DEF HeadInv, LedgerInStep, Paying, Kept, Exact, BindingOf, SameKey
    <3>2. \A r \in reservations : r.jti \in Jtis
      BY DEF HeadInv, HeadTypes, Effect
    <3>3. QED
      BY <1>2, <2>4, <3>1, <3>2 DEF Paid, PaidRows, Paying
  <2>7. Proofs' = Proofs
    BY <2>6, GivenKept DEF Proofs
  <2>8. /\ Given(IntentOf[a]) # NoResult
        /\ IntentOf[a] \in Intents
    <3>1. PICK r \in reservations : r.id.intent = IntentOf[a] /\ r.status = "CONFIRMED"
      BY <1>1 DEF HeadInv, RecoveriesSound
    <3>2. Paid(IntentOf[a], r.result)
      BY <3>1, ConfirmedGives
    <3>3. QED
      BY <3>2, GivenOnce, ProofIsResult, HeadAssumption DEF GivenIsPaid
  <2>9. Answers' = Answers \/
        Answers' = Answers \cup
          {[token |-> p.jti, intent |-> IntentOf[a], proof |-> Given(IntentOf[a])]}
    <3>1. CASE client' = client
      <4>1. \A b \in Attempts : client[b].pc = "done" => AnswerOf(b)' = AnswerOf(b)
        BY <1>2, <3>1, AnswersKept
      <4>2. QED
        BY <3>1, <4>1 DEF Answers
    <3>2. CASE client[a].pc = "consuming" /\ client' = [client EXCEPT ![a] = d]
      <4>1. Answers' = Answers \cup {AnswerOf(a)'}
        BY <1>2, <1>4, <3>2, AnswersGrow
      <4>2. client'[a] = d /\ d.proof.by # a /\ Holds(reservations, d.id, d.proof, a)
        BY <1>3, <1>4, <3>2 DEF HeadInv, ClientsSound, Knows
      <4>3. Given(IntentOf[a]) = d.proof
        BY <4>2, HeldRow, GivenOnce DEF GivenIsPaid
      <4>4. AnswerOf(a)' = [token |-> JtiOf[a], intent |-> IntentOf[a], proof |-> d.proof]
        BY <4>2 DEF AnswerOf, PaidWith
      <4>5. QED
        BY <1>5, <4>1, <4>3, <4>4
    <3>3. QED
      BY <1>5, <1>7, <3>1, <3>2 DEF Reply, Finished
  <2>10. Proofs[IntentOf[a]] = Given(IntentOf[a])
    BY <2>8 DEF Proofs
  <2>11. OneUse!Recover(IntentOf[a], p.jti)
    BY <2>5, <2>7, <2>8, <2>9, <2>10
    DEF OneUse!Recover, OneUse!Use, Tokens, Proofs, Given, Answers
  <2>12. QED
    BY <2>2, <2>8, <2>11 DEF OneUse!Next
<1>8. QED
  BY <1>1, <1>6, <1>7

\* Every step is one of the one-use proof, or a stutter of it.
LEMMA OneUseStep ==
  ASSUME HeadInv, HeadInv', [Next]_vars
  PROVE  [OneUse!Next]_(OneUse!vars)
<1>1. CASE Quiet
  BY <1>1, QuietMaps
<1>2. ASSUME NEW a \in Attempts, RecoverEnd(a) PROVE [OneUse!Next]_(OneUse!vars)
  BY <1>2, RecoverMaps
<1>3. CASE LedgerServes
  <2>1. CASE op.pc = "marking"
    BY <1>3, <2>1, AnswerMaps
  <2>2. CASE op.pc # "marking"
    <3>1. op.pc \in RemotePc /\ Serve(op.pc, BindingOf(op.row))
      BY <1>3 DEF LedgerServes
    <3>2. UNCHANGED <<reservations, client>>
      BY <1>3, <2>2, <3>1 DEF LedgerServes, headVars, RemotePc
    <3>3. op \in EffectOp
      BY <3>1, OperationTyped DEF HeadInv, EffectPc
    <3>4. BindingOf(op.row) \in Binding
      BY <3>3, BindingTyped DEF EffectOp
    <3>5. op.pc = "committing" => MayCommit(BindingOf(op.row))
      BY DEF HeadInv, Operation, Confirming, MayCommit
    <3>6. QED
      BY <3>1, <3>2, <3>4, <3>5, ServeMaps
  <2>3. QED
    BY <2>1, <2>2
<1>4. CASE LateArrives
  <2>1. UNCHANGED <<reservations, client>>
    BY <1>4 DEF LateArrives, headVars
  <2>2. CASE UNCHANGED ledgerVars
    BY <2>1, <2>2, PaidKept, QuietMaps DEF Quiet, ledgerVars
  <2>3. CASE \E kind \in RemotePc, b \in Binding :
               Serve(kind, b) /\ (kind = "committing" => MayCommit(b))
    BY <2>1, <2>3, ServeMaps
  <2>4. QED
    BY <1>4, <2>2, <2>3, ServesBinding
<1>5. QED
  BY <1>1, <1>2, <1>3, <1>4, HeadStep

\* The whole protocol implements the one-use proof: an intent gets one proof, paid for
\* with one token, and every further answer with another unused token.
THEOREM ProtocolIsOneUse == Spec => ImplementsOneUse
<1>1. Init => OneUse!Init
  <2> SUFFICES ASSUME Init PROVE OneUse!Init
    OBVIOUS
  <2>1. /\ reservations = {} /\ consumed = [j \in Jtis |-> 0] /\ fenced = {}
        /\ client = [a \in Attempts |-> Client("new", NoId, NoResult)]
    BY DEF Init, LedgerInit
  <2>2. \A j \in Jtis : TokenState(j) = "unused"
    BY <2>1 DEF TokenState
  <2>3. \A i \in Intents : Given(i) = NoResult
    BY <2>1 DEF Given, PaidRows
  <2>4. Answers = {}
    BY <2>1 DEF Answers, Client
  <2>5. Tokens = [j \in Jtis |-> "unused"]
    BY <2>2 DEF Tokens
  <2>6. Proofs = [i \in Intents |-> NoResult]
    BY <2>3 DEF Proofs
  <2>7. QED
    BY <2>4, <2>5, <2>6 DEF OneUse!Init, Tokens, Proofs, Given, Answers
<1>2. HeadInv /\ HeadInv' /\ [Next]_vars => [OneUse!Next]_(OneUse!vars)
  BY OneUseStep
<1>3. QED
  BY <1>1, <1>2, HeadInvariant, PTL DEF Spec, ImplementsOneUse, OneUse!Spec
=============================================================================
