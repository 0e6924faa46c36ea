--------------------- MODULE ActivationOperationRunner ---------------------
(***************************************************************************)
(* The coordinator of an activation operation over its journal: runs of    *)
(* ActivationOperationRunner.run in one durable object, with the providers *)
(* behind ActivationOperationRuntimePort, which are external.              *)
(*                                                                         *)
(* A run is cut at its awaits of the journal and of the port, so runs      *)
(* interleave there.  The reads and the effects of a run are under way     *)
(* together and are all settled before a failure is reported.  A run that  *)
(* fails is as if it had never been, but for the journal and for what it   *)
(* called out to; its caller may call again.  An eviction ends all runs.   *)
(* The exact object effects behind the port have a module of their own:    *)
(* here one answers what it confirmed, or the call fails.                  *)
(***************************************************************************)
EXTENDS ActivationOperationJournal

CONSTANTS
  Runs,        \* callers of run
  Jobs,        \* what the callers may come with: functions from runs to [sequence, request]
  Second,      \* the provider evidence's unit of time
  MaxFaults    \* bound of failed remote calls and evictions

ASSUME RunnerAssumption ==
  /\ \A j \in Jobs : /\ DOMAIN j \subseteq Runs
                     /\ \A r \in DOMAIN j : j[r] \in [sequence : Sequence, request : Requests]
  /\ "RECORD" \notin DirectSlots
  /\ Second \in Nat \ {0}
  /\ MaxFaults \in Nat

VARIABLES
  job,       \* what each caller asks for
  runs,      \* the runs
  calls,     \* the effects the port was called with, ever
  batches,   \* when the Cloudflare observer sealed the batch of each issuance
  faults     \* faults so far

externalVars == <<calls, batches, faults>>
runnerVars == <<journalVars, job, runs, externalVars>>

Run ==
  [pc : {"idle", "admitted", "stale", "reissue", "collect", "prepare", "read", "request",
         "delegate", "effects", "ready", "append", "worm", "mirror", "done"},
   at : Nat, n : Nat, todo : SUBSET Roster(0), under : SUBSET Roster(0),
   since : Nat, committed : Nat, failed : BOOLEAN]

IdleRun == [pc |-> "idle", at |-> 0, n |-> 0, todo |-> {}, under |-> {}, since |-> 0,
            committed |-> 0, failed |-> FALSE]

RunnerInit ==
  /\ JournalInit
  /\ job \in Jobs
  /\ runs = [r \in Runs |-> IdleRun]
  /\ calls = {}
  /\ batches = [s \in Sequence |-> [n \in 1 .. MaxOrdinal |-> {}]]
  /\ faults = 0

SequenceOf(r) == job[r].sequence
IssuanceOf(r) == issuances[SequenceOf(r)][runs[r].n]

Becomes(r, run) == runs' = [runs EXCEPT ![r] = run] /\ UNCHANGED job
Fails(r) == Becomes(r, IdleRun)
MovesTo(r, pc) == Becomes(r, [runs[r] EXCEPT !.pc = pc])

At(r, pc) == runs[r].pc = pc

Fault == faults < MaxFaults /\ faults' = faults + 1

-----------------------------------------------------------------------------
(* Admission and the issuance. *)

\* Mutant of Admissible: a finalize is let in before there is a provisioned record.
AdmissibleAtOnce(s) == TRUE

\* validateAdmission; context checks it again
Admissible(s) == s = 1 => records[0].state = "CONFIRMED"

Admit(r) ==
  /\ r \in DOMAIN job
  /\ At(r, "idle")
  /\ Admissible(SequenceOf(r))
  /\ Becomes(r, [IdleRun EXCEPT !.pc = "admitted", !.at = now])
  /\ UNCHANGED <<journalVars, externalVars>>

\* The run goes on with an issuance which it was told is in the given state.
Entered(r, n, state) ==
  [runs[r] EXCEPT
     !.n = n,
     !.pc = IF state \in {"CONFIRMED", "READY_TO_APPEND", "RECORD_APPENDED"} THEN "append"
            ELSE IF SequenceOf(r) = 0 THEN "collect" ELSE "request"]

MustReissue(r, i) ==
  /\ runs[r].at > FreshUntil(i)
  /\ i.state \in {"COLLECTING", "EXPIRED_UNDISPATCHED", "RESERVED"}

\* Mutant of SameIntent: another request joins the attempt under way.
AnyIntent(s, q) == intents[s].state # "MISSING"

\* assertSameOperationIntent
SameIntent(s, q) == intents[s].request = {q}

\* reserve: a new issuance, or the one there is
Reserves(r) ==
  LET s == SequenceOf(r) IN
  /\ At(r, "admitted")
  /\ UNCHANGED externalVars
  /\ \/ /\ Reserve(s, job[r].request, runs[r].at)
        /\ Becomes(r, Entered(r, 1, "RESERVED"))
     \/ /\ SameIntent(s, job[r].request)
        /\ Becomes(r, IF MustReissue(r, Latest(s)) THEN [runs[r] EXCEPT !.pc = "stale"]
                      ELSE Entered(r, Len(issuances[s]), Latest(s).state))
        /\ UNCHANGED journalVars
     \/ /\ intents[s].state # "MISSING"
        /\ ~SameIntent(s, job[r].request)
        /\ Fails(r)
        /\ UNCHANGED journalVars

\* reissueStale up to its await: which issuance is to be replaced
FindsStale(r) ==
  LET s == SequenceOf(r) IN
  /\ At(r, "stale")
  /\ IF runs[r].at > FreshUntil(Latest(s)) /\ MayReissue(Latest(s))
     THEN Becomes(r, [runs[r] EXCEPT !.pc = "reissue", !.n = Len(issuances[s])])
     ELSE Fails(r)
  /\ UNCHANGED <<journalVars, externalVars>>

\* reissueStale after it: another run may have been faster
Reissues(r) ==
  LET s == SequenceOf(r) IN
  /\ At(r, "reissue")
  /\ UNCHANGED externalVars
  /\ \/ /\ runs[r].n # Len(issuances[s])
        /\ Becomes(r, Entered(r, Len(issuances[s]), Latest(s).state))
        /\ UNCHANGED journalVars
     \/ /\ ReissueStale(s, runs[r].n, runs[r].at)
        /\ Becomes(r, Entered(r, runs[r].n + 1, "RESERVED"))
     \/ /\ runs[r].n = Len(issuances[s])
        /\ ~MayReissue(Latest(s))
        /\ Fails(r)
        /\ UNCHANGED journalVars

-----------------------------------------------------------------------------
(* Reads. *)

Reads == Roster(0) \ {"CLOUDFLARE_BATCH"}

\* collectProvisionReads: the slots not yet read
Collects(r) ==
  LET unread == {x \in Reads : IssuanceOf(r).slots[x].state \in {"PREPARED", "READ_IN_FLIGHT"}} IN
  /\ At(r, "collect")
  /\ Becomes(r, [runs[r] EXCEPT !.pc = IF unread = {} THEN "request" ELSE "prepare",
                                !.todo = unread])
  /\ UNCHANGED <<journalVars, externalVars>>

\* A slot is prepared, to be read or not; after the last one the providers are called.
Prepared(r, x, reads) ==
  LET run == [runs[r] EXCEPT !.todo = @ \ {x}, !.under = @ \cup reads] IN
  IF run.todo # {} THEN run
  ELSE IF run.under = {} THEN [run EXCEPT !.pc = "request"]
  ELSE [run EXCEPT !.pc = "read", !.since = now]

\* A refused slot fails the run at once: the refusal is the issuance's, so the other
\* slots' prepareRead, still under way, are refused as well.
Prepares(r, x) ==
  LET n == runs[r].n
      i == IssuanceOf(r) IN
  /\ At(r, "prepare")
  /\ x \in runs[r].todo
  /\ UNCHANGED externalVars
  /\ \/ /\ PrepareRead(0, n, x)
        /\ Becomes(r, Prepared(r, x, {x}))
     \/ /\ Live(0, n)
        /\ Fresh(i, now)
        /\ i.slots[x].state \in {"READ_IN_FLIGHT", "FROZEN", "CONFIRMED"}
        /\ Becomes(r, Prepared(r, x, IF i.slots[x].state = "READ_IN_FLIGHT" THEN {x} ELSE {}))
        /\ UNCHANGED journalVars
     \/ /\ ReadExpires(0, n, now)
        /\ Fails(r)
     \/ /\ \/ ~Live(0, n)
           \/ Fresh(i, now) /\ i.slots[x].state = "DELEGATED_IN_FLIGHT"
        /\ Fails(r)
        /\ UNCHANGED journalVars

\* observedAt of a read made at time t: the readers' evidence tells the second.
ObservedAt(x, t) == IF x = "CONTROLLER_ACTION" THEN t ELSE t - (t % Second)

\* settleAuthorizedEffects, of one of the calls under way
Settled(r, x, failed, next) ==
  LET run == [runs[r] EXCEPT !.under = @ \ {x}, !.failed = @ \/ failed] IN
  IF run.under # {} THEN run
  ELSE IF run.failed THEN IdleRun
  ELSE [run EXCEPT !.pc = next, !.since = 0]

\* A provider answers and the answer is frozen, or compared with the one that was.
ReadAnswers(r, x) ==
  LET n == runs[r].n
      i == IssuanceOf(r)
      Ends(failed) == Becomes(r, Settled(r, x, failed, "request")) IN
  /\ At(r, "read")
  /\ x \in runs[r].under
  /\ UNCHANGED externalVars
  /\ \E t \in runs[r].since .. now :
       \/ FreezeRead(0, n, x, ObservedAt(x, t)) /\ Ends(FALSE)
       \/ /\ Live(0, n)
          /\ Fresh(i, ObservedAt(x, t))
          /\ i.slots[x].state = "FROZEN"
          /\ Ends(i.slots[x].observed # {ObservedAt(x, t)})
          /\ UNCHANGED journalVars
       \/ ReadExpires(0, n, ObservedAt(x, t)) /\ Ends(TRUE)
       \/ /\ ~Live(0, n) \/ (Fresh(i, ObservedAt(x, t)) /\ InEffect(i.slots[x]))
          /\ Ends(TRUE)
          /\ UNCHANGED journalVars

-----------------------------------------------------------------------------
(* Effects. *)

\* Mutant of RequestTimes: the request is always built anew.
RequestTimesAnew(i) == {now}

\* cloudflareRequest: the stored request, or a new one
RequestTimes(i) ==
  LET stored == i.slots["CLOUDFLARE_BATCH"].committed IN IF stored = {} THEN {now} ELSE stored

BuildsRequest(r) ==
  LET i == IssuanceOf(r) IN
  /\ At(r, "request")
  /\ \E c \in RequestTimes(i) :
       IF WellTimed(i, c) THEN Becomes(r, [runs[r] EXCEPT !.pc = "delegate", !.committed = c])
       ELSE Fails(r)
  /\ UNCHANGED <<journalVars, externalVars>>

EffectSlots(s) == Roster(s) \ {"CONTROLLER_ACTION"}

\* Mutant of SealedAs: by whatever request.
SealedAnyhow(s, i, c) == \A x \in EffectSlots(s) : InEffect(i.slots[x])

\* assertSealed and assertCloudflareBatchDelegation: all effects are, by this request.
SealedAs(s, i, c) ==
  \A x \in EffectSlots(s) : InEffect(i.slots[x]) /\ i.slots[x].committed = {c}

\* Whether sealing finds a whole plan of which nothing has been sealed.
Sealable(s, n, c) ==
  LET i == issuances[s][n] IN
  /\ Current(s, n)
  /\ i.slots["CLOUDFLARE_BATCH"].state = "PREPARED"
  /\ s = 0 => ReadsFrozen(i)
  /\ now > FreshUntil(i) \/ \A x \in EffectSlots(s) : Chronological(i, i.slots[x].observed, c)

Call(s, n, x, c) == [sequence |-> s, ordinal |-> n, slot |-> x, committed |-> c]

\* The effects not yet confirmed are called out to, all at once.
Launches(r) ==
  LET s == SequenceOf(r)
      open == {x \in EffectSlots(s) : IssuanceOf(r).slots[x].state # "CONFIRMED"} IN
  /\ calls' = calls \cup {Call(s, runs[r].n, x, runs[r].committed) : x \in open}
  /\ Becomes(r, [runs[r] EXCEPT !.pc = IF open = {} THEN "ready" ELSE "effects",
                                !.under = open])

\* delegateProvision or delegateCloudflare, and what it authorizes
Delegates(r) ==
  LET s == SequenceOf(r)
      n == runs[r].n
      i == IssuanceOf(r)
      c == runs[r].committed
      Seal == IF s = 0 THEN DelegateProvision(n, c) ELSE DelegateCloudflare(s, n, c)
      sealed == CurrentOrHeld(s, n) /\ SealedAs(s, i, c) IN
  /\ At(r, "delegate")
  /\ UNCHANGED <<batches, faults>>
  /\ \/ sealed /\ UNCHANGED journalVars /\ Launches(r)
     \/ Seal /\ now <= FreshUntil(i) /\ Launches(r)
     \/ Seal /\ now > FreshUntil(i) /\ Fails(r) /\ UNCHANGED calls
     \/ ~sealed /\ ~Sealable(s, n, c) /\ Fails(r) /\ UNCHANGED <<journalVars, calls>>

\* The observer seals a batch it was called for, once, in the issuance's time.
BatchSeals(s, n) ==
  /\ batches[s][n] = {}
  /\ \E call \in calls :
       /\ call.sequence = s /\ call.ordinal = n /\ call.slot = "CLOUDFLARE_BATCH"
       /\ call.committed <= now
  /\ now <= FreshUntil(issuances[s][n])
  /\ batches' = [batches EXCEPT ![s][n] = {now}]
  /\ UNCHANGED <<journalVars, job, runs, calls, faults>>

\* An effect answers; the observer refuses a batch it can no longer seal.
EffectAnswers(r, x) ==
  LET s == SequenceOf(r)
      n == runs[r].n
      i == IssuanceOf(r)
      Ends(failed) == Becomes(r, Settled(r, x, failed, "ready"))
      Confirm == IF x = "CLOUDFLARE_BATCH" THEN \E t \in batches[s][n] : ConfirmCloudflare(s, n, t)
                 ELSE ConfirmDirect(n, x)
      answered == x = "CLOUDFLARE_BATCH" => batches[s][n] # {} IN
  /\ At(r, "effects")
  /\ x \in runs[r].under
  /\ UNCHANGED externalVars
  /\ \/ Confirm /\ Ends(FALSE)
     \/ /\ answered
        /\ CurrentOrHeld(s, n)
        /\ i.slots[x].state = "CONFIRMED"
        /\ Ends(FALSE)
        /\ UNCHANGED journalVars
     \/ /\ IF answered THEN ~CurrentOrHeld(s, n) ELSE now > FreshUntil(i)
        /\ Ends(TRUE)
        /\ UNCHANGED journalVars

-----------------------------------------------------------------------------
(* The record. *)

\* readyToAppend
Readies(r) ==
  LET s == SequenceOf(r)
      n == runs[r].n
      ready == CurrentOrHeld(s, n) /\ ReadyForRecord(IssuanceOf(r)) IN
  /\ At(r, "ready")
  /\ UNCHANGED externalVars
  /\ \/ ReadyToAppend(s, n) /\ MovesTo(r, "append")
     \/ /\ ready
        /\ IssuanceOf(r).state = "READY_TO_APPEND"
        /\ MovesTo(r, "append")
        /\ UNCHANGED journalVars
     \/ ~ready /\ Fails(r) /\ UNCHANGED journalVars

HasRecord(s, n) == CurrentIn(s, n, {"RECORD_APPENDED", "CONFIRMED"})

\* freezeAndAppend
Appends(r) ==
  LET s == SequenceOf(r)
      n == runs[r].n IN
  /\ At(r, "append")
  /\ UNCHANGED externalVars
  /\ \/ FreezeAndAppend(s, n) /\ MovesTo(r, "worm")
     \/ HasRecord(s, n) /\ MovesTo(r, "worm") /\ UNCHANGED journalVars
     \/ /\ ~HasRecord(s, n)
        /\ ~(/\ CurrentIn(s, n, {"READY_TO_APPEND"})
             /\ RosterFinal(IssuanceOf(r))
             /\ Materializes(s, n))
        /\ Fails(r)
        /\ UNCHANGED journalVars

Answered(r) == Becomes(r, [IdleRun EXCEPT !.pc = "done"])

\* nextRecordWorm, and the call of executeWorm
FindsRecordWorm(r) ==
  LET s == SequenceOf(r) IN
  /\ At(r, "worm")
  /\ IF IssuanceOf(r).state = "CONFIRMED" THEN Answered(r) /\ UNCHANGED calls
     ELSE /\ MovesTo(r, "mirror")
          /\ calls' = calls \cup {Call(s, runs[r].n, "RECORD", c) : c \in records[s].committed}
  /\ UNCHANGED <<journalVars, batches, faults>>

\* The stored record is answered, and confirmed unless another run has done so.
RecordWormAnswers(r) ==
  LET s == SequenceOf(r)
      n == runs[r].n IN
  /\ At(r, "mirror")
  /\ \/ ConfirmRecordWorm(s, n)
     \/ IssuanceOf(r).state = "CONFIRMED" /\ UNCHANGED journalVars
  /\ Answered(r)
  /\ UNCHANGED externalVars

-----------------------------------------------------------------------------
(* Faults. *)

RemoteCallFails(r) ==
  /\ Fault
  /\ \/ At(r, "read") /\ \E x \in runs[r].under : Becomes(r, Settled(r, x, TRUE, "request"))
     \/ At(r, "effects") /\ \E x \in runs[r].under : Becomes(r, Settled(r, x, TRUE, "ready"))
     \/ At(r, "mirror") /\ Fails(r)
  /\ UNCHANGED <<journalVars, calls, batches>>

Evict ==
  /\ Fault
  /\ \E r \in Runs : runs[r].pc \notin {"idle", "done"}
  /\ runs' = [r \in Runs |-> IF At(r, "done") THEN runs[r] ELSE IdleRun]
  /\ UNCHANGED <<journalVars, job, calls, batches>>

-----------------------------------------------------------------------------
Tick == JournalTick /\ UNCHANGED <<job, runs, externalVars>>

RunStep(r) ==
  \/ Reserves(r) \/ FindsStale(r) \/ Reissues(r)
  \/ Collects(r)
  \/ \E x \in Reads : Prepares(r, x) \/ ReadAnswers(r, x)
  \/ BuildsRequest(r) \/ Delegates(r)
  \/ \E x \in EffectSlots(0) : EffectAnswers(r, x)
  \/ Readies(r) \/ Appends(r) \/ FindsRecordWorm(r) \/ RecordWormAnswers(r)

RunnerNext ==
  \/ Tick
  \/ \E r \in Runs : Admit(r) \/ RunStep(r) \/ RemoteCallFails(r)
  \/ \E s \in Sequence, n \in 1 .. MaxOrdinal : BatchSeals(s, n)
  \/ Evict

RunnerSpec == RunnerInit /\ [][RunnerNext]_runnerVars

\* A run goes on, and a caller that was not answered calls again.
RunnerFairSpec == RunnerSpec /\ \A r \in Runs : WF_runnerVars(Admit(r) \/ RunStep(r))

-----------------------------------------------------------------------------
(* Properties. *)

\* Runs keep what the code's locals hold.
RunnerTypeOK ==
  /\ runs \in [Runs -> Run]
  /\ batches \in [Sequence -> [1 .. MaxOrdinal -> SUBSET Nat]]
  /\ faults \in 0 .. MaxFaults

\* "Implementations may perform provider or WORM I/O only after the runner has persisted
\* the matching intent": whatever other runs did meanwhile, a read under way has its slot
\* prepared, an effect ever called out to is sealed in the journal with the same request,
\* and a record with its bytes.
CallsAuthorized ==
  /\ \A r \in Runs : At(r, "read") =>
       \A x \in runs[r].under : IssuanceOf(r).slots[x].state # "PREPARED"
  /\ \A call \in calls :
       LET i == issuances[call.sequence][call.ordinal] IN
       IF call.slot = "RECORD"
       THEN /\ records[call.sequence].state # "MISSING"
            /\ records[call.sequence].ordinal = call.ordinal
            /\ records[call.sequence].committed = {call.committed}
       ELSE InEffect(i.slots[call.slot]) /\ i.slots[call.slot].committed = {call.committed}

\* A caller that was answered was answered of its own request, whose record is stored.
AnswersAreDurable ==
  \A r \in Runs : At(r, "done") =>
    /\ records[SequenceOf(r)].state = "CONFIRMED"
    /\ intents[SequenceOf(r)].request = {job[r].request}

\* Only what assertActivationIssuanceExpired would call expired is marked as expired, so
\* that a caller who finds the mark can have the issuance replaced.
ExpiredIsStale ==
  \A s \in Sequence : \A n \in DOMAIN issuances[s] :
    issuances[s][n].state = "EXPIRED_UNDISPATCHED" => now > FreshUntil(issuances[s][n])

\* The plan a record's effects were sealed under.
PlanOf(s) ==
  UNION {{<<n, c>> : c \in issuances[s][n].slots["CLOUDFLARE_BATCH"].committed} :
           n \in DOMAIN issuances[s]}

CalledEffects(s) ==
  {<<call.slot, <<call.ordinal, call.committed>>>> :
     call \in {k \in calls : k.sequence = s /\ k.slot # "RECORD"}}

Progress == [MISSING |-> "none", APPENDED |-> "made", CONFIRMED |-> "stored"]

Plan == INSTANCE OneActivationPlan
  WITH Plans <- (1 .. MaxOrdinal) \X (0 .. MaxClock),
       Effects <- [s \in Sequence |-> EffectSlots(s)],
       plan <- [s \in Sequence |-> PlanOf(s)],
       called <- [s \in Sequence |-> CalledEffects(s)],
       record <- [s \in Sequence |-> Progress[records[s].state]]

\* Runs, reissues, retries and evictions together carry out one plan.
ImplementsOnePlan == Plan!PlanSpec

\* Once the observer has sealed a batch, callers who call again get their record stored,
\* also after the issuance's time, unless the promotion it tells of is out of order.
SealedBatchCompletes ==
  \A s \in Sequence :
    (\E n \in 1 .. MaxOrdinal :
       /\ batches[s][n] # {}
       /\ s = 1 => \A q \in intents[1].request, t \in batches[1][n] : PromotionInOrder(q, t))
      ~> records[s].state = "CONFIRMED"
=============================================================================
