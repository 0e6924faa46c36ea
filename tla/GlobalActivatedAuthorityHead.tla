--------------------- MODULE GlobalActivatedAuthorityHead ---------------------
(***************************************************************************)
(* The activation-proof protocol: ingress requests (handleActivationProof),*)
(* the account-global head object with its coordinator, the remote replay  *)
(* ledger and the WORM mirror.                                             *)
(*                                                                         *)
(* The head object runs one operation at a time (`exclusive`), in memory.  *)
(* An operation is cut at every remote call, because there                 *)
(*   - the object may be evicted or the call may fail: Interrupt;          *)
(*   - the abandoned call may still arrive, at any later time: `late`.     *)
(* A client that fails never sends another call; a retry of the same       *)
(* intent is another attempt, with its own request id and token.           *)
(***************************************************************************)
EXTENDS AuthReplayLedger, ActivatedAuthorityHeadStore

CONSTANTS
  Attempts,       \* activation-proof requests that reach the ingress
  Intents,        \* activationProofIntentDigest values
  RequestOf, JtiOf, IntentOf,   \* [Attempts -> ...]
  IntentSnapshot, \* [Intents -> Snapshots]: the intent binds its A1 record
  Window          \* 60 s: lifetime of a reservation and of a proof

ASSUME HeadAssumption ==
  /\ LedgerName = GitHubLedger
  /\ RequestOf \in [Attempts -> Requests]
  /\ JtiOf \in [Attempts -> Jtis]
  /\ IntentOf \in [Attempts -> Intents]
  /\ IntentSnapshot \in [Intents -> Snapshots]
  /\ Window \in Nat \ {0}
  /\ Callers = Attempts
  /\ "none" \notin Attempts
  /\ IsFiniteSet(Snapshots)
  /\ {"admission", "recovery"} \subseteq Claims
  /\ [generation : 1..Cardinality(Snapshots), intent : Intents] \subseteq Reservations

VARIABLES
  client,  \* the ingress side of each attempt
  op,      \* the operation inside `exclusive`
  late,    \* remote calls whose caller is gone
  worm     \* versions stored under each head's object key

headVars == <<reservations, heads>>
vars == <<ledgerVars, headVars, client, op, late, worm>>

Idle == [pc |-> "idle"]
NoId == [generation |-> 0, intent |-> "none"]
Client(pc, id, proof) == [pc |-> pc, id |-> id, proof |-> proof]
Failed == Client("failed", NoId, NoResult)

Finished == {"done", "failed"}
RemotePc == {"preparing", "committing", "cancelling", "marking"}
HeadPc == {"headPrepared", "mirroring", "headDispatched"}
LocalPc == {"reconciling", "confirming", "rearming", "rearmingAbsent", "refusing",
            "prepared", "committed"}

\* The ledger's view of a reservation row.
BindingOf(r) ==
  [jti |-> r.jti, request |-> r.request, claims |-> "admission", reservation |-> r.id]

Init ==
  /\ LedgerInit
  /\ reservations = {}
  /\ heads = <<>>
  /\ client = [a \in Attempts |-> Client("new", NoId, NoResult)]
  /\ op = Idle
  /\ late = {}
  /\ worm = [s \in Snapshots |-> 0]

-----------------------------------------------------------------------------
(* Replies. A client that gave up meanwhile hears nothing. *)

Reply(a, answer) ==
  client' = IF client[a].pc \in Finished THEN client ELSE [client EXCEPT ![a] = answer]

Free == op = Idle

Finish(answer) == op' = Idle /\ Reply(op.by, answer)

Wait(a) == client' = [client EXCEPT ![a].pc = "waiting"]

\* An operation on stored row r that means to leave n in its place, and then
\* to answer with client state `reply`.
Begin(a, pc, r, n, reply) ==
  op' = [pc |-> pc, by |-> a, row |-> r, next |-> n, reply |-> reply]

Step(pc) == op' = [op EXCEPT !.pc = pc]

-----------------------------------------------------------------------------
(* reserve *)

\* expires_at is the client's clock plus Window; the request may have queued
\* for up to Window before it runs.
NewRow(a, lag) ==
  [id |-> [generation |-> CurrentGeneration, intent |-> IntentOf[a]],
   request |-> RequestOf[a], jti |-> JtiOf[a], expires |-> clock + Window - lag,
   status |-> "RESERVED", result |-> NoResult]

\* Mutant of HeadMatches: the coordinator leaves the pending check to the store.
HeadMatchesConfirmed(a) ==
  CurrentGeneration # 0 /\ heads[CurrentGeneration].snapshot = IntentSnapshot[IntentOf[a]]

HeadMatches(a) ==
  /\ ~PendingHead
  /\ CurrentGeneration # 0
  /\ heads[CurrentGeneration].snapshot = IntentSnapshot[IntentOf[a]]

ReserveNew(a) ==
  /\ Free /\ client[a].pc = "new" /\ HeadMatches(a)
  /\ \E lag \in 0..Window :
       LET n == NewRow(a, lag) IN
       /\ ReserveInsert(n, clock, CurrentGeneration, PendingHead) \/ ReserveReplace(n, clock)
       /\ Reply(a, Client("reserved", n.id, NoResult))
  /\ UNCHANGED <<ledgerVars, heads, op, late, worm>>

\* The row is past RESERVED: a CONFIRMED one is returned once its tombstone is
\* marked, the others are reconciled against the ledger.
ReserveExisting(a) ==
  /\ Free /\ client[a].pc = "new" /\ HeadMatches(a)
  /\ \E lag \in 0..Window :
       LET n == NewRow(a, lag) IN
       /\ ReserveReturn(n, clock)
       /\ \E r \in RowsOf(n.id) :
            IF r.status = "CONFIRMED"
              THEN Begin(a, "marking", r, r, Client("recovering", r.id, r.result))
              ELSE Begin(a, "reconciling", r, n, Client("reserved", r.id, NoResult))
  /\ Wait(a)
  /\ UNCHANGED <<ledgerVars, heads, late, worm>>

ReserveRefused(a) ==
  /\ Free /\ client[a].pc = "new"
  /\ LET n == NewRow(a, 0) IN
       ~ /\ HeadMatches(a)
         /\ CanInsert(n, CurrentGeneration, PendingHead) \/ CanReplace(n) \/ Returns(n)
  /\ Reply(a, Failed)
  /\ UNCHANGED <<ledgerVars, headVars, op, late, worm>>

-----------------------------------------------------------------------------
(* reconcile *)

\* Mutant of Decision: a prepared use is rearmed without being cancelled.
DecisionUncancelled(status, seen) ==
  IF seen = "PREPARED" THEN "rearmingAbsent" ELSE "refusing"

\* What the coordinator does for a row status and an observed ledger state.
Decision(status, seen) ==
  CASE status = "DISPATCHED_HOLD" /\ seen = "CONSUMED" -> "confirming"
    [] seen = "PREPARED" -> "cancelling"
    [] seen = "CANCELLED" -> "rearming"
    [] status = "SEALED" /\ seen = "ABSENT" -> "rearmingAbsent"
    [] OTHER -> "refusing"

Observe ==
  /\ op.pc = "reconciling"
  /\ Step(Decision(op.row.status, ObservePreparedEffectExact(BindingOf(op.row))))
  /\ UNCHANGED <<ledgerVars, headVars, client, late, worm>>

ReconcileConfirm ==
  /\ op.pc = "confirming"
  /\ Confirm(op.row, op.row.result)
  /\ op' = [op EXCEPT !.pc = "marking",
                      !.reply = Client("recovering", op.row.id, op.row.result)]
  /\ UNCHANGED <<ledgerVars, heads, client, late, worm>>

\* A rearm after a cancelled tombstone marks it, one after an absent one not.
ReconcileRearm ==
  /\ op.pc \in {"rearming", "rearmingAbsent"}
  /\ IF CanRearm(op.row, op.next)
       THEN /\ Rearm(op.row, op.next)
            /\ IF op.pc = "rearming" THEN Step("marking") /\ UNCHANGED client
                                     ELSE Finish(op.reply)
       ELSE Finish(Failed) /\ UNCHANGED reservations
  /\ UNCHANGED <<ledgerVars, heads, late, worm>>

ReconcileRefused ==
  /\ op.pc = "refusing"
  /\ Finish(Failed)
  /\ UNCHANGED <<ledgerVars, headVars, late, worm>>

-----------------------------------------------------------------------------
(* The ingress drives its own reservation: seal, dispatch, confirm, or     *)
(* cancel when the proof cannot be built.  A row that now carries another  *)
(* attempt's request id is missing for this one.                           *)

OwnRows(a) == {r \in RowsOf(client[a].id) : r.request = RequestOf[a]}

\* The client's next call is refused: it has no row, or the row forbids it.
CallRefused(a) ==
  /\ Free
  /\ \/ client[a].pc = "reserved" /\ \A r \in OwnRows(a) : r.status # "RESERVED"
     \/ client[a].pc = "sealed" /\ \A r \in OwnRows(a) :
                                      r.status \notin {"SEALED", "DISPATCHED_HOLD"}
     \/ client[a].pc = "dispatched" /\ \A r \in OwnRows(a) :
                                      r.status \notin {"DISPATCHED_HOLD", "CONFIRMED"}
  /\ Reply(a, Failed)
  /\ UNCHANGED <<ledgerVars, headVars, op, late, worm>>

\* The attempt's proof is named by its maker and its admission time.
SealCall(a) ==
  /\ Free /\ client[a].pc = "reserved"
  /\ LET proof == [by |-> a, at |-> clock] IN
     \E r \in OwnRows(a) :
       /\ r.status = "RESERVED"
       /\ Seal(r, proof)
       /\ Reply(a, Client("sealed", r.id, proof))
  /\ UNCHANGED <<ledgerVars, heads, op, late, worm>>

CancelCall(a) ==
  /\ Free /\ client[a].pc = "reserved"
  /\ \E r \in OwnRows(a) : CancelUndispatched(r)
  /\ Reply(a, Failed)
  /\ UNCHANGED <<ledgerVars, heads, op, late, worm>>

\* Mutant of DispatchCall: the journal is dispatched before the ledger prepares.
DispatchCallUnprepared(a) ==
  /\ Free /\ client[a].pc = "sealed"
  /\ \E r \in OwnRows(a) :
       Begin(a, "prepared", r, r, [client[a] EXCEPT !.pc = "dispatched"])
  /\ Wait(a)
  /\ UNCHANGED <<ledgerVars, headVars, late, worm>>

DispatchCall(a) ==
  /\ Free /\ client[a].pc = "sealed"
  /\ \E r \in OwnRows(a) :
       \/ /\ r.status = "SEALED"
          /\ Begin(a, "preparing", r, [r EXCEPT !.status = "DISPATCHED_HOLD"],
                   [client[a] EXCEPT !.pc = "dispatched"])
          /\ Wait(a)
       \/ /\ r.status = "DISPATCHED_HOLD"
          /\ Reply(a, [client[a] EXCEPT !.pc = "dispatched"])
          /\ UNCHANGED op
  /\ UNCHANGED <<ledgerVars, headVars, late, worm>>

DispatchFinish ==
  /\ op.pc = "prepared"
  /\ Dispatch(op.row, clock)
  /\ Finish(IF Dispatchable(op.row, clock) THEN op.reply ELSE Failed)
  /\ UNCHANGED <<ledgerVars, heads, late, worm>>

ConfirmCall(a) ==
  /\ Free /\ client[a].pc = "dispatched"
  /\ \E r \in OwnRows(a) :
       /\ r.status \in {"DISPATCHED_HOLD", "CONFIRMED"}
       /\ Begin(a, "committing", r, [r EXCEPT !.result = client[a].proof],
                [client[a] EXCEPT !.pc = "done"])
  /\ Wait(a)
  /\ UNCHANGED <<ledgerVars, headVars, late, worm>>

ConfirmFinish ==
  /\ op.pc = "committed"
  /\ IF CanConfirm(op.row, op.next.result)
       THEN Confirm(op.row, op.next.result) /\ Step("marking") /\ UNCHANGED client
       ELSE Finish(Failed) /\ UNCHANGED reservations
  /\ UNCHANGED <<ledgerVars, heads, late, worm>>

-----------------------------------------------------------------------------
(* Remote calls to the ledger, while their operation waits and after it.   *)

RemoteCall == [kind |-> op.pc, binding |-> BindingOf(op.row)]

CanServe(kind, b) ==
  CASE kind = "preparing" -> CanPrepare(b)
    [] kind = "committing" -> CanTransition(b, "CONSUMED")
    [] kind = "cancelling" -> CanTransition(b, "CANCELLED")
    [] kind = "marking" -> CanMark(b)

Serve(kind, b) ==
  \/ kind = "preparing" /\ PrepareEffectExact(b)
  \/ kind = "committing" /\ CommitPreparedEffectExact(b)
  \/ kind = "cancelling" /\ CancelPreparedEffectExact(b)
  \/ kind = "marking" /\ MarkEffectJournalTerminalExact(b)

LedgerServes ==
  /\ op.pc \in RemotePc
  /\ Serve(op.pc, BindingOf(op.row))
  /\ CASE op.pc = "preparing" -> Step("prepared") /\ UNCHANGED client
       [] op.pc = "committing" -> Step("committed") /\ UNCHANGED client
       [] op.pc = "cancelling" -> Step("rearming") /\ UNCHANGED client
       [] op.pc = "marking" -> Finish(op.reply)
  /\ UNCHANGED <<headVars, late, worm>>

\* Mutant of LedgerRefuses: `exclusive` is not released when the operation throws.
LedgerRefusesHolding ==
  /\ op.pc \in RemotePc
  /\ ~CanServe(op.pc, BindingOf(op.row))
  /\ Reply(op.by, Failed)
  /\ UNCHANGED <<ledgerVars, headVars, op, late, worm>>

LedgerRefuses ==
  /\ op.pc \in RemotePc
  /\ ~CanServe(op.pc, BindingOf(op.row))
  /\ Finish(Failed)
  /\ UNCHANGED <<ledgerVars, headVars, late, worm>>

LateArrives ==
  \E c \in late :
    /\ late' = late \ {c}
    /\ \/ c.kind \in RemotePc /\ Serve(c.kind, c.binding) /\ UNCHANGED worm
       \/ c.kind = "mirroring" /\ worm' = [worm EXCEPT ![c.snapshot] = @ + 1]
                               /\ UNCHANGED ledgerVars
    /\ UNCHANGED <<headVars, client, op>>

\* Eviction of the head object, or a failed remote call: the operation is
\* gone, its caller gets an error, and its call may still be on the way.
Interrupt ==
  /\ op # Idle
  /\ op' = Idle
  /\ late' = late \cup
       (CASE op.pc \in RemotePc -> {RemoteCall}
          [] op.pc = "mirroring" -> {[kind |-> "mirroring", snapshot |-> op.by]}
          [] OTHER -> {})
  /\ IF op.pc \in HeadPc THEN UNCHANGED client ELSE Reply(op.by, Failed)
  /\ UNCHANGED <<ledgerVars, headVars, worm>>

\* The ingress worker dies or its caller disconnects.
GiveUp(a) ==
  /\ client[a].pc \notin Finished
  /\ client' = [client EXCEPT ![a] = Failed]
  /\ UNCHANGED <<ledgerVars, headVars, op, late, worm>>

-----------------------------------------------------------------------------
(* Recovery of a confirmed proof by a fresh token. *)

RecoverBegin(a) ==
  /\ client[a].pc = "recovering"
  /\ RequestOf[a] # RequestOf[client[a].proof.by]
  /\ clock < client[a].proof.at + Window
  /\ BeginConsume(a, [jti |-> JtiOf[a], request |-> RequestOf[a], claims |-> "recovery"],
                  FALSE)
  /\ client' = [client EXCEPT ![a].pc = "consuming"]
  /\ UNCHANGED <<headVars, op, late, worm>>

RecoverRefused(a) ==
  /\ client[a].pc = "recovering"
  /\ \/ RequestOf[a] = RequestOf[client[a].proof.by]
     \/ clock >= client[a].proof.at + Window
     \/ Expired(JtiOf[a])
  /\ Reply(a, Failed)
  /\ UNCHANGED <<ledgerVars, headVars, op, late, worm>>

RecoverEnd(a) ==
  \E p \in inFlight :
    /\ p.caller = a
    /\ \/ ConsumeInsert(p) /\ Reply(a, [client[a] EXCEPT !.pc = "done"])
       \/ ConsumeDropped(p) /\ Reply(a, Failed)
    /\ UNCHANGED <<headVars, op, late, worm>>

-----------------------------------------------------------------------------
(* advance *)

AdvanceStart(s) ==
  /\ Free
  /\ \/ /\ ReserveHead(s, clock)
        /\ op' = [pc |-> "headPrepared", by |-> s]
     \/ /\ \E g \in GenerationsOf(s) :
             \/ /\ heads[g].state = "PREPARED"
                /\ op' = [pc |-> "headPrepared", by |-> s]
             \/ /\ heads[g].state = "DISPATCHED_HOLD"
                /\ op' = [pc |-> "headDispatched", by |-> s]
        /\ UNCHANGED headVars
  /\ UNCHANGED <<ledgerVars, client, late, worm>>

HeadMark ==
  /\ op.pc = "headPrepared"
  /\ \E g \in GenerationsOf(op.by) : MarkDispatched(g)
  /\ Step("mirroring")
  /\ UNCHANGED <<ledgerVars, reservations, client, late, worm>>

\* The writer uploads only when it sees no version; an upload that was cut off
\* has looked already and lands whatever is there (LateArrives).
Mirror ==
  /\ op.pc = "mirroring"
  /\ worm' = [worm EXCEPT ![op.by] = IF @ = 0 THEN 1 ELSE @]
  /\ Step("headDispatched")
  /\ UNCHANGED <<ledgerVars, headVars, client, late>>

\* reconcileExactObject: only exactly one version confirms.
ObserveWorm ==
  /\ op.pc = "headDispatched"
  /\ IF worm[op.by] = 1 THEN \E g \in GenerationsOf(op.by) : ConfirmHead(g)
                        ELSE UNCHANGED heads
  /\ op' = Idle
  /\ UNCHANGED <<ledgerVars, reservations, client, late, worm>>

-----------------------------------------------------------------------------

Tick == LedgerTick /\ UNCHANGED <<headVars, client, op, late, worm>>

ClientCalls(a) ==
  \/ ReserveNew(a) \/ ReserveExisting(a) \/ ReserveRefused(a)
  \/ SealCall(a) \/ DispatchCall(a) \/ ConfirmCall(a) \/ CallRefused(a)

ClientRecovers(a) == RecoverBegin(a) \/ RecoverRefused(a) \/ RecoverEnd(a)

OperationStep ==
  \/ Observe \/ ReconcileConfirm \/ ReconcileRearm \/ ReconcileRefused
  \/ DispatchFinish \/ ConfirmFinish \/ LedgerServes \/ LedgerRefuses
  \/ HeadMark \/ Mirror \/ ObserveWorm

Next ==
  \/ \E a \in Attempts :
       ClientCalls(a) \/ ClientRecovers(a) \/ CancelCall(a) \/ GiveUp(a)
  \/ OperationStep
  \/ \E s \in Snapshots : AdvanceStart(s)
  \/ Interrupt
  \/ LateArrives
  \/ Tick

Spec == Init /\ [][Next]_vars

\* Promises settle, so a started operation goes on; `exclusive` is a FIFO, so
\* a waiting call is not overtaken for ever; an ingress keeps driving its own
\* request.  Nothing is assumed of late calls, advances or the clock.
Fairness ==
  /\ WF_vars(OperationStep)
  /\ \A a \in Attempts : SF_vars(ClientCalls(a)) /\ WF_vars(ClientRecovers(a))

FairSpec == Spec /\ Fairness

-----------------------------------------------------------------------------
(* Properties. *)

ProofType == [by : Attempts, at : Nat] \cup {NoResult}
IdType == [generation : 1..Cardinality(Snapshots), intent : Intents]
RowType == [id : IdType, request : Requests, jti : Jtis, expires : Nat,
            status : AuthorityEffectStatus, result : ProofType]

TypeOK ==
  /\ LedgerTypeOK
  /\ reservations \subseteq RowType
  /\ heads \in Seq(HeadRow)
  /\ \A a \in Attempts :
       /\ client[a].pc \in {"new", "waiting", "reserved", "sealed", "dispatched",
                            "recovering", "consuming"} \cup Finished
       /\ client[a].id \in IdType \cup {NoId}
       /\ client[a].proof \in ProofType
  /\ op.pc \in {"idle"} \cup RemotePc \cup HeadPc \cup LocalPc
  /\ worm \in [Snapshots -> Nat]

\* A dispatched reservation always has its own tombstone in the ledger, so the
\* AMBIGUOUS branch of reconcile is never reached by the protocol itself.
HoldHasTombstone ==
  \A r \in reservations : r.status = "DISPATCHED_HOLD" =>
    ObservePreparedEffectExact(BindingOf(r)) \in {"PREPARED", "CONSUMED", "CANCELLED"}

\* A token the ledger has consumed for an effect belongs to the current binding
\* of a row that still holds the proof it paid for; and a confirmed row's token
\* was used.
UsedTokenIsSealed ==
  /\ \A e \in oidcEffectJti : e.state = "CONSUMED" =>
       \E r \in reservations : /\ Exact(BindingOf(r), e)
                                /\ r.status \in {"DISPATCHED_HOLD", "CONFIRMED"}
  /\ \A r \in reservations : r.status = "CONFIRMED" => consumed[r.jti] = 1

\* The head's journal and the ledger, two objects that no transaction joins,
\* keep their rows' types and never contradict each other, wherever an operation
\* was cut off.
JournalsInStep == TypeOK /\ HoldHasTombstone /\ UsedTokenIsSealed

\* While an effect is open the head it is pinned to is the current one, and no
\* advance is pending.
OpenEffectsPinHead ==
  \A r \in reservations : r.status \in Nonterminal =>
    ~PendingHead /\ r.id.generation = CurrentGeneration

\* A token is never consumed for a proof under a head that has been replaced
\* or is being replaced, not even by a commit that arrives late.
UsedOnlyUnderCurrentHead ==
  [][\A e \in oidcEffectJti', d \in oidcEffectJti :
       e.jti = d.jti /\ e.state = "CONSUMED" /\ d.state = "PREPARED" =>
         ~PendingHead /\ e.reservation.generation = CurrentGeneration]_vars

\* Every attempt that reaches the ingress gets an answer or an error: nothing
\* ever holds `exclusive` for good.
AttemptsEnd == \A a \in Attempts : <>(client[a].pc \in Finished)

\* "Stable semantic key for recovery across fresh OIDC transport tokens"
\* (activation-proof.ts:65): once reconcile has decided that an interrupted
\* proof was not used, the store accepts the fresh attempt's reservation.
FreshTokenRecovers ==
  op.pc \in {"rearming", "rearmingAbsent"} => CanRearm(op.row, op.next)

-----------------------------------------------------------------------------
(* Refinement: an intent has its proof from the moment the ledger consumes *)
(* the token of its dispatched row.                                        *)

PaidRows(i) ==
  {r \in reservations : /\ r.id.intent = i
                        /\ r.status \in {"DISPATCHED_HOLD", "CONFIRMED"}
                        /\ consumed[r.jti] # 0}

TokenState(j) ==
  IF consumed[j] # 0 THEN "used" ELSE IF j \in fenced THEN "fenced" ELSE "unused"

\* The token an answered attempt was paid for with.  A proof of its own is paid
\* for with the token of its row: another attempt with the same request id may
\* have put its token there, since a transition only compares request ids.
PaidWith(a) ==
  IF client[a].proof.by = a THEN (CHOOSE r \in RowsOf(client[a].id) : TRUE).jti
                            ELSE JtiOf[a]

AnswerOf(a) == [token |-> PaidWith(a), intent |-> IntentOf[a], proof |-> client[a].proof]

OneUse == INSTANCE OneUseActivationProof WITH
  Tokens <- Jtis,
  Proofs <- [by : Attempts, at : 0..MaxClock],
  NoProof <- NoResult,
  token <- [j \in Jtis |-> TokenState(j)],
  proof <- [i \in Intents |-> IF PaidRows(i) = {} THEN NoResult
                              ELSE (CHOOSE r \in PaidRows(i) : TRUE).result],
  answers <- {AnswerOf(a) : a \in {b \in Attempts : client[b].pc = "done"}}

\* The whole protocol, with its crashes, late calls and retries, implements the
\* one-use proof.
ImplementsOneUse == OneUse!Spec

=============================================================================
