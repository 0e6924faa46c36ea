-------------------------- MODULE AuthReplayLedger --------------------------
(***************************************************************************)
(* The replay ledger: one SQLite Durable Object that decides whether a     *)
(* verified token (a JTI) may still be used.  broker/src/                  *)
(* auth-replay-ledger.ts and auth-replay-effect-store.ts.                  *)
(*                                                                         *)
(* A table is the set of its rows.  PRIMARY KEY and UNIQUE are therefore   *)
(* not part of the type: that the code's own checks keep them is           *)
(* KeysUnique.  A refused call throws inside transactionSync, which rolls  *)
(* back, so a refusal is the absence of a step.                            *)
(*                                                                         *)
(* A token is signed, so its JTI fixes its expiry: TokenExpiry.            *)
(***************************************************************************)
EXTENDS Integers, FiniteSets

CONSTANTS
  Jtis,          \* token identifiers (their hashes)
  Requests,      \* x-request-id values
  Claims,        \* claims digests
  Reservations,  \* effect reservation identifiers
  Callers,       \* callers of an ordinary consume, one call in flight each
  TokenExpiry,   \* [Jtis -> Nat], the exp claim
  Grace,         \* TERMINAL_TOMBSTONE_GRACE_MS, in clock units
  Capacity,      \* EFFECT_REPLAY_MAX_ROWS
  MaxGap,        \* longest time a consume spends between its two halves
  MaxClock,      \* bound: the clock stops here
  LedgerName     \* the Durable Object's name

GitHubLedger == "github-oidc-v1"
ADMIN_REPLAY_LEDGER_NAME == "admin-access-v1"

ASSUME LedgerAssumption ==
  /\ TokenExpiry \in [Jtis -> Nat]
  /\ Grace \in Nat
  /\ MaxGap \in Nat
  /\ MaxClock \in Nat
  /\ Capacity \in Nat
  /\ MaxGap <= Grace

VARIABLES
  oidcJti,        \* table oidc_jti
  oidcEffectJti,  \* table oidc_effect_jti
  inFlight,       \* consumes between their expiry check and their transaction
  clock,          \* Date.now(), in units of the shortest lifetime modelled
  consumed,       \* history: how many times each JTI was used
  granted,        \* history: every binding a caller was told is consumed
  fenced          \* history: the JTIs whose prepared use was cancelled

ledgerVars == <<oidcJti, oidcEffectJti, inFlight, clock, consumed, granted, fenced>>

NotTerminal == -1   \* journal_terminal_at IS NULL

Binding == [jti : Jtis, request : Requests, claims : Claims, reservation : Reservations]
OrdinaryRow == [jti : Jtis, request : Requests, claims : Claims]
EffectRow == [jti : Jtis, request : Requests, claims : Claims, reservation : Reservations,
              state : {"PREPARED", "CONSUMED", "CANCELLED"},
              terminal : Int]
Call == [caller : Callers, jti : Jtis, request : Requests, claims : Claims,
         exact : BOOLEAN, at : Nat]

LedgerTypeOK ==
  /\ oidcJti \subseteq OrdinaryRow
  /\ oidcEffectJti \subseteq EffectRow
  /\ inFlight \subseteq Call
  /\ clock \in Nat
  /\ consumed \in [Jtis -> Nat]
  /\ granted \subseteq OrdinaryRow
  /\ fenced \subseteq Jtis

LedgerInit ==
  /\ oidcJti = {}
  /\ oidcEffectJti = {}
  /\ inFlight = {}
  /\ clock = 0
  /\ consumed = [j \in Jtis |-> 0]
  /\ granted = {}
  /\ fenced = {}

-----------------------------------------------------------------------------
(* Selections. *)

\* WHERE jti_hash = ? OR request_id = ?
SameKey(b, r) == r.jti = b.jti \/ r.request = b.request

\* The persisted part of a binding that an ordinary row keeps.
Ordinary(b) == [jti |-> b.jti, request |-> b.request, claims |-> b.claims]

Exact(b, r) ==
  /\ r.jti = b.jti
  /\ r.request = b.request
  /\ r.claims = b.claims
  /\ r.reservation = b.reservation

OrdinaryRows(b) == {r \in oidcJti : SameKey(b, r)}
EffectRows(b) == {r \in oidcEffectJti : SameKey(b, r)}

\* exactEffectRow: the selection is this one row, and it is b's.
IsExactRow(rows, b, r) == rows = {r} /\ Exact(b, r)

\* Mutants of Prunable: the token's expiry, or the journal mark, is ignored.
PrunableByJournal(r) == r.terminal # NotTerminal /\ r.terminal < clock - Grace
PrunableByExpiry(r) == TokenExpiry[r.jti] < clock - Grace

\* The rows pruneTerminalTombstones deletes.
Prunable(r) ==
  /\ r.terminal # NotTerminal
  /\ r.terminal < clock - Grace
  /\ TokenExpiry[r.jti] < clock - Grace

KeptRows == {r \in oidcEffectJti : ~Prunable(r)}

Expired(j) == TokenExpiry[j] <= clock

\* observePreparedEffectExact; "CONFLICT" is the error.
ObservePreparedEffectExact(b) ==
  IF EffectRows(b) = {} THEN "ABSENT"
  ELSE IF \E r \in oidcEffectJti : IsExactRow(EffectRows(b), b, r)
       THEN (CHOOSE r \in EffectRows(b) : TRUE).state
       ELSE "CONFLICT"

-----------------------------------------------------------------------------
(* Ordinary use: consumeOnce, and its exact-idempotent admin variant. The  *)
(* expiry check runs before the digest is awaited, the rest after it.      *)

BeginConsume(k, b, exact) ==
  /\ exact => LedgerName = ADMIN_REPLAY_LEDGER_NAME
  /\ \A p \in inFlight : p.caller # k
  /\ ~Expired(b.jti)
  /\ inFlight' = inFlight \cup
       {[caller |-> k, jti |-> b.jti, request |-> b.request, claims |-> b.claims,
         exact |-> exact, at |-> clock]}
  /\ UNCHANGED <<oidcJti, oidcEffectJti, clock, consumed, granted, fenced>>

\* Mutant of ConsumeInserts: a cancelled tombstone does not block.
ConsumeInsertsAfterCancel(p) ==
  {r \in EffectRows(p) : r.state # "CANCELLED"} = {} /\ OrdinaryRows(p) = {}

ConsumeInserts(p) == EffectRows(p) = {} /\ OrdinaryRows(p) = {}

\* Mutant of ConsumeReplays: the stored claims and request are not compared.
ConsumeReplaysByJti(p) ==
  EffectRows(p) = {} /\ p.exact /\ \E r \in OrdinaryRows(p) : r.jti = p.jti

ConsumeReplays(p) ==
  /\ EffectRows(p) = {}
  /\ p.exact
  /\ OrdinaryRows(p) = {Ordinary(p)}

ConsumeInsert(p) ==
  /\ p \in inFlight
  /\ ConsumeInserts(p)
  /\ oidcJti' = oidcJti \cup {Ordinary(p)}
  /\ consumed' = [consumed EXCEPT ![p.jti] = @ + 1]
  /\ granted' = granted \cup {Ordinary(p)}
  /\ inFlight' = inFlight \ {p}
  /\ UNCHANGED <<oidcEffectJti, clock, fenced>>

ConsumeReplay(p) ==
  /\ p \in inFlight
  /\ ConsumeReplays(p)
  /\ granted' = granted \cup {Ordinary(p)}
  /\ inFlight' = inFlight \ {p}
  /\ UNCHANGED <<oidcJti, oidcEffectJti, clock, consumed, fenced>>

\* OIDC_REPLAY, or the object is evicted before the transaction.
ConsumeDropped(p) ==
  /\ p \in inFlight
  /\ inFlight' = inFlight \ {p}
  /\ UNCHANGED <<oidcJti, oidcEffectJti, clock, consumed, granted, fenced>>

-----------------------------------------------------------------------------
(* Effect-linked use: prepare, then commit or cancel, then the journal     *)
(* mark that makes the tombstone eligible for pruning.                     *)

PreparesAgain(b) ==
  \E r \in KeptRows : /\ IsExactRow({q \in KeptRows : SameKey(b, q)}, b, r)
                      /\ r.state = "PREPARED"

PreparesAnew(b) ==
  /\ {q \in KeptRows : SameKey(b, q)} = {}
  /\ Cardinality(KeptRows) < Capacity

CanPrepare(b) ==
  /\ LedgerName = GitHubLedger
  /\ ~Expired(b.jti)
  /\ OrdinaryRows(b) = {}
  /\ PreparesAgain(b) \/ PreparesAnew(b)

PreparedRow(b) ==
  [jti |-> b.jti, request |-> b.request, claims |-> b.claims,
   reservation |-> b.reservation, state |-> "PREPARED", terminal |-> NotTerminal]

PrepareEffectExact(b) ==
  /\ CanPrepare(b)
  /\ oidcEffectJti' = KeptRows \cup (IF PreparesAgain(b) THEN {} ELSE {PreparedRow(b)})
  /\ UNCHANGED <<oidcJti, inFlight, clock, consumed, granted, fenced>>

CanTransition(b, terminal) ==
  /\ LedgerName = GitHubLedger
  /\ \E r \in oidcEffectJti : IsExactRow(EffectRows(b), b, r)
                              /\ r.state \in {"PREPARED", terminal}

\* The row of b moves from PREPARED to state s.
MovePrepared(b, s) ==
  \E r \in oidcEffectJti :
    /\ IsExactRow(EffectRows(b), b, r)
    /\ r.state = "PREPARED"
    /\ oidcEffectJti' = (oidcEffectJti \ {r}) \cup {[r EXCEPT !.state = s]}

AlreadyIn(b, s) ==
  /\ \E r \in oidcEffectJti : IsExactRow(EffectRows(b), b, r) /\ r.state = s
  /\ UNCHANGED ledgerVars

CommitPreparedEffectExact(b) ==
  /\ CanTransition(b, "CONSUMED")
  /\ \/ AlreadyIn(b, "CONSUMED")
     \/ /\ MovePrepared(b, "CONSUMED")
        /\ consumed' = [consumed EXCEPT ![b.jti] = @ + 1]
        /\ granted' = granted \cup {Ordinary(b)}
        /\ UNCHANGED <<oidcJti, inFlight, clock, fenced>>

CancelPreparedEffectExact(b) ==
  /\ CanTransition(b, "CANCELLED")
  /\ \/ AlreadyIn(b, "CANCELLED")
     \/ /\ MovePrepared(b, "CANCELLED")
        /\ fenced' = fenced \cup {b.jti}
        /\ UNCHANGED <<oidcJti, inFlight, clock, consumed, granted>>

CanMark(b) ==
  /\ LedgerName = GitHubLedger
  /\ \E r \in oidcEffectJti : IsExactRow(EffectRows(b), b, r) /\ r.state # "PREPARED"

MarkEffectJournalTerminalExact(b) ==
  /\ CanMark(b)
  /\ \E r \in oidcEffectJti :
       /\ IsExactRow(EffectRows(b), b, r)
       /\ oidcEffectJti' = (oidcEffectJti \ {r}) \cup
            {[r EXCEPT !.terminal = IF @ = NotTerminal THEN clock ELSE @]}
  /\ UNCHANGED <<oidcJti, inFlight, clock, consumed, granted, fenced>>

-----------------------------------------------------------------------------

\* No consume outlives MaxGap: a Durable Object request does not stay
\* suspended on one digest for the length of the tombstone grace.
LedgerTick ==
  /\ clock < MaxClock
  /\ \A p \in inFlight : clock < p.at + MaxGap
  /\ clock' = clock + 1
  /\ UNCHANGED <<oidcJti, oidcEffectJti, inFlight, consumed, granted, fenced>>

LedgerNext ==
  \/ \E k \in Callers, b \in Binding, exact \in BOOLEAN : BeginConsume(k, b, exact)
  \/ \E p \in inFlight : ConsumeInsert(p) \/ ConsumeReplay(p) \/ ConsumeDropped(p)
  \/ \E b \in Binding : \/ PrepareEffectExact(b)
                        \/ CommitPreparedEffectExact(b)
                        \/ CancelPreparedEffectExact(b)
                        \/ MarkEffectJournalTerminalExact(b)
  \/ LedgerTick

LedgerSpec == LedgerInit /\ [][LedgerNext]_ledgerVars

-----------------------------------------------------------------------------
(* What the ledger promises. *)

\* A JTI is used at most once, whichever of the two protocols uses it, and
\* also after its tombstone has been pruned (consumeReplay's check before the
\* await is still the only expiry check when its transaction runs).
JtiUsedOnce == \A j \in Jtis : consumed[j] <= 1

\* Cancelling fences: no commit delivered late, and no ordinary consume, ever
\* uses a JTI whose prepared use was cancelled, pruned or not.
CancelledNeverUsed == \A j \in fenced : consumed[j] = 0

\* The checks in the code keep PRIMARY KEY and UNIQUE in both tables, and the
\* two tables never hold the same JTI or the same request id.
KeysUnique ==
  /\ \A r, q \in oidcJti : SameKey(r, q) => r = q
  /\ \A r, q \in oidcEffectJti : SameKey(r, q) => r = q
  /\ \A r \in oidcJti, q \in oidcEffectJti : ~SameKey(r, q)

\* Every caller ever told that a JTI is consumed was told it of one and the
\* same request and claims: an idempotent replay never blesses another call.
GrantsAgree == \A g, h \in granted : g.jti = h.jti => g = h

\* A step forgets a token's tombstone only when that is terminal, its journal
\* marked, and the token past its grace.
ForgetsOnlyDead ==
  \A r \in oidcEffectJti :
    (\A q \in oidcEffectJti' : q.jti # r.jti) =>
      /\ r.state # "PREPARED"
      /\ r.terminal # NotTerminal
      /\ TokenExpiry[r.jti] + Grace < clock

\* Only dead tombstones are ever forgotten: a PREPARED row stays until it is
\* resolved, and a resolved one until no copy of its token can be accepted.
OnlyDeadTombstonesForgotten == [][ForgetsOnlyDead]_ledgerVars

=============================================================================
