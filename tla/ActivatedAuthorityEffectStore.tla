-------------------- MODULE ActivatedAuthorityEffectStore --------------------
(***************************************************************************)
(* The authority_effect_reservations table of the global head: one row for *)
(* each (head, intent), which pins one activation proof to that head.      *)
(* broker/src/activated-authority-effect-store.ts and                      *)
(* activated-authority-effect-storage.ts.                                  *)
(*                                                                         *)
(* Every operator is one transactionSync.  A Can... predicate says when    *)
(* the transaction does not throw; a throw rolls back.                     *)
(***************************************************************************)
EXTENDS Integers, FiniteSets

VARIABLE reservations   \* the table, as the set of its rows

Undispatched == {"RESERVED", "SEALED"}
Nonterminal == {"RESERVED", "SEALED", "DISPATCHED_HOLD"}
SealedStatus == {"SEALED", "DISPATCHED_HOLD", "CONFIRMED"}
Replaceable == {"RESERVED", "EXPIRED_UNDISPATCHED", "CANCELLED_UNDISPATCHED"}
AuthorityEffectStatus == Replaceable \cup SealedStatus

\* result_bytes IS NULL, in a record like the sealed ones.
NoResult == [by |-> "none", at |-> 0]

RowsOf(id) == {r \in reservations : r.id = id}

\* UNIQUE(intent_sha256) and UNIQUE(request_id) against the other rows.
UniqueFor(n, rows) ==
  \A r \in rows : r.id # n.id => r.id.intent # n.id.intent /\ r.request # n.request

\* A row with its result dropped, as every undispatched end leaves it.
Ended(r, status) == [r EXCEPT !.status = status, !.result = NoResult]

Become(r, n) == reservations' = (reservations \ {r}) \cup {n}

\* expireUndispatched: RESERVED rows only, never a SEALED one.
ExpireReserved(rows, now) ==
  {IF r.status = "RESERVED" /\ r.expires < now
     THEN [r EXCEPT !.status = "EXPIRED_UNDISPATCHED"] ELSE r : r \in rows}

\* The head journal's own, wider expiry (reserveHead).
ExpireUndispatched(rows, now) ==
  {IF r.status \in Undispatched /\ r.expires < now
     THEN Ended(r, "EXPIRED_UNDISPATCHED") ELSE r : r \in rows}

\* The row a reserve finds decides what it does: insert, replace or return it.
CanInsert(n, current, pending) ==
  /\ RowsOf(n.id) = {}
  /\ ~pending
  /\ current = n.id.generation
  /\ UniqueFor(n, reservations)

CanReplace(n) ==
  /\ \E r \in RowsOf(n.id) : r.status \in Replaceable
  /\ UniqueFor(n, reservations)

Returns(n) == \E r \in RowsOf(n.id) : r.status \in SealedStatus

ReserveInsert(n, now, current, pending) ==
  /\ CanInsert(n, current, pending)
  /\ reservations' = ExpireReserved(reservations, now) \cup {n}

ReserveReplace(n, now) ==
  /\ CanReplace(n)
  /\ reservations' =
       ExpireReserved({r \in reservations : r.id # n.id}, now) \cup {n}

ReserveReturn(n, now) ==
  /\ Returns(n)
  /\ reservations' = ExpireReserved(reservations, now)

\* rearmAfterObservedAbsent: r is the stored row, n the replacement.
CanRearm(r, n) ==
  /\ r.status = "DISPATCHED_HOLD"
  /\ n.id = r.id
  /\ UniqueFor(n, reservations)

Rearm(r, n) == CanRearm(r, n) /\ Become(r, n)

CanSeal(r, result) ==
  \/ r.status = "RESERVED"
  \/ r.status \in SealedStatus /\ r.result = result

Seal(r, result) ==
  /\ CanSeal(r, result)
  /\ IF r.status = "RESERVED"
       THEN Become(r, [r EXCEPT !.status = "SEALED", !.result = result])
       ELSE UNCHANGED reservations

\* A stale or unsealed row is expired, and that is committed, before dispatch
\* reports the error.
Dispatchable(r, now) == r.status = "SEALED" /\ r.expires >= now

Dispatch(r, now) ==
  IF Dispatchable(r, now)
    THEN Become(r, [r EXCEPT !.status = "DISPATCHED_HOLD"])
    ELSE IF r.status \in Undispatched
      THEN Become(r, Ended(r, "EXPIRED_UNDISPATCHED"))
      ELSE UNCHANGED reservations

CanConfirm(r, result) ==
  r.status \in {"DISPATCHED_HOLD", "CONFIRMED"} /\ r.result = result

Confirm(r, result) ==
  /\ CanConfirm(r, result)
  /\ Become(r, [r EXCEPT !.status = "CONFIRMED"])

CanCancel(r) == r.status \in Undispatched \cup {"CANCELLED_UNDISPATCHED"}

CancelUndispatched(r) ==
  /\ CanCancel(r)
  /\ Become(r, Ended(r, "CANCELLED_UNDISPATCHED"))

=============================================================================
