--------------------- MODULE ActivatedAuthorityHeadStore ---------------------
(***************************************************************************)
(* The activated_authority_heads table: an append-only chain of head       *)
(* generations, each mirrored once to WORM storage.                        *)
(* broker/src/activated-authority-head-store.ts.                           *)
(*                                                                         *)
(* Generations are contiguous by their own guard, so the table is a        *)
(* sequence indexed by generation.  The chain's `previous` is the          *)
(* preceding entry, which is what assertPrevious demands.                  *)
(***************************************************************************)
EXTENDS ActivatedAuthorityEffectStore, Sequences

CONSTANTS
  Snapshots,        \* activated snapshots; each has its request digest
  SnapshotVersion   \* [Snapshots -> ingress worker versions]

VARIABLE heads   \* sequence of [snapshot, state]

MirrorState == {"PREPARED", "DISPATCHED_HOLD", "CONFIRMED"}
HeadRow == [snapshot : Snapshots, state : MirrorState]

PendingHead == \E g \in DOMAIN heads : heads[g].state # "CONFIRMED"

\* current: the highest confirmed generation, 0 when there is none.
ConfirmedGenerations == {g \in DOMAIN heads : heads[g].state = "CONFIRMED"}

CurrentGeneration ==
  IF ConfirmedGenerations = {} THEN 0
  ELSE CHOOSE g \in ConfirmedGenerations : \A h \in ConfirmedGenerations : h <= g

\* findByRequest
GenerationsOf(s) == {g \in DOMAIN heads : heads[g].snapshot = s}

\* Mutant of HasNonterminalEffect: a dispatched effect does not count.
HasUndispatchedEffect(rows) == \E r \in rows : r.status \in Undispatched

HasNonterminalEffect(rows) == \E r \in rows : r.status \in Nonterminal

HasIngressVersion(v) == \E g \in DOMAIN heads : SnapshotVersion[heads[g].snapshot] = v

\* The insert of reserveHead.  Expired undispatched effects stop blocking in
\* the same transaction; a refusal rolls their expiry back.
CanReserveHead(s, now) ==
  /\ GenerationsOf(s) = {}
  /\ ~PendingHead
  /\ ~HasNonterminalEffect(ExpireUndispatched(reservations, now))
  /\ ~HasIngressVersion(SnapshotVersion[s])

ReserveHead(s, now) ==
  /\ CanReserveHead(s, now)
  /\ reservations' = ExpireUndispatched(reservations, now)
  /\ heads' = Append(heads, [snapshot |-> s, state |-> "PREPARED"])

MarkDispatched(g) ==
  /\ heads[g].state = "PREPARED"
  /\ heads' = [heads EXCEPT ![g].state = "DISPATCHED_HOLD"]

ConfirmHead(g) ==
  /\ heads[g].state = "DISPATCHED_HOLD"
  /\ heads' = [heads EXCEPT ![g].state = "CONFIRMED"]

=============================================================================
