-------------------------- MODULE CandidateAdmission --------------------------
(* The admission of a release candidate's archive (CandidateStreamRoute): a *)
(* workflow job's token is authenticated, its job is looked up in the       *)
(* controller repository, the token is used up in the replay ledger, and    *)
(* only then does a private Worker read the candidate in the target         *)
(* repository and open the archive.  Both repositories move all the while:  *)
(* jobs end, runs are run again, archives expire, tags and workflows        *)
(* change.  Each Worker's reads go out together and answer in any order.    *)
EXTENDS Naturals, Sequences

CONSTANTS Calls,      \* the HTTP calls
          Tokens,     \* OIDC tokens of the candidate-import job (their jti)
          RequestIds,
          Archives,   \* the target run's artifacts (id and digest)
          MaxAttempt, \* bound on how often a workflow run is run again
          Facts,      \* what else is read of the controller repository: the
                      \* workflow, its blob on the default branch, the tag
          TagObjects, \* what the release's tag may refer to
          Peels       \* the annotated tags that peel to the expected commit

\* What is read of the controller's run and of the target's.
JobReads == {"run", "job", "check"}
CandidateReads == {"build", "archive", "list", "tag"}

ASSUME AdmissionAssumption ==
  /\ MaxAttempt \in Nat \ {0}
  /\ TagObjects # {} /\ Peels \subseteq TagObjects
  /\ Facts \cap (JobReads \cup CandidateReads \cup TagObjects) = {}
  /\ "NONE" \notin TagObjects

VARIABLES jobs,     \* the status of the candidate-import job, per run attempt
          minted,   \* the attempt a token is of (0: not issued)
          builds,   \* the outcome of the target's release run, per attempt
          uploaded, \* the attempt that uploaded an archive (0: none has)
          listed,   \* the archives that are not deleted or expired
          holding,  \* the facts that are as activated
          tag,      \* what the release's tag refers to
          stage, ask, pending, tagRead, tries, \* per call
          rows,     \* the replay ledger
          opened,   \* the calls whose archive was opened at the provider
          atArrival, \* history: how the call's job and archive were when it came
          seen       \* history: the facts and tag objects that held since it came

repositories == <<jobs, minted, builds, uploaded, listed, holding, tag>>
brokerVars == <<stage, ask, pending, tagRead, tries, rows, opened>>
history == <<atArrival, seen>>
admissionVars == <<repositories, brokerVars, history>>

Attempts == 1..MaxAttempt
JobStatus == {"QUEUED", "IN_PROGRESS", "COMPLETED"}
BuildOutcome == {"RUNNING", "SUCCESS", "FAILURE"}
Stage == {"IDLE", "ARRIVED", "CONTROLLER", "ADMITTED", "CANDIDATE", "PEELED", "SIGNED",
          "OPENED", "STREAMING", "REFUSED"}
\* Whom a call says it is of and what it selects.  The claims digest binds
\* both, so this is also what a row of the ledger says.
Ask == [token : Tokens, request : RequestIds, attempt : Attempts, archive : Archives]

Standing == holding \cup {tag}
\* The attempt of the job that a call's token was issued to.
JobOf(c) == minted[ask[c].token]

AdmissionInit ==
  /\ jobs = <<"QUEUED">> /\ builds = <<"RUNNING">>
  /\ minted = [t \in Tokens |-> 0]
  /\ uploaded = [a \in Archives |-> 0] /\ listed = {}
  /\ holding \in SUBSET Facts /\ tag \in TagObjects
  /\ stage = [c \in Calls |-> "IDLE"]
  /\ ask \in [Calls -> Ask]
  /\ pending = [c \in Calls |-> {}]
  /\ tagRead = [c \in Calls |-> "NONE"]
  /\ tries = [c \in Calls |-> 0]
  /\ rows = {} /\ opened = {}
  /\ atArrival = [c \in Calls |-> [live |-> FALSE, listed |-> FALSE]]
  /\ seen = [c \in Calls |-> {}]

----------------------------------------------------------------------------
(* GitHub. *)

\* A run outlives its job; it is run again once it is over.
JobStarts ==
  /\ jobs[Len(jobs)] = "QUEUED"
  /\ jobs' = [jobs EXCEPT ![Len(jobs)] = "IN_PROGRESS"]
  /\ UNCHANGED <<minted, builds, uploaded, listed, holding, tag, brokerVars, history>>

JobEnds ==
  /\ jobs[Len(jobs)] = "IN_PROGRESS"
  /\ jobs' = [jobs EXCEPT ![Len(jobs)] = "COMPLETED"]
  /\ UNCHANGED <<minted, builds, uploaded, listed, holding, tag, brokerVars, history>>

RunAgain ==
  /\ jobs[Len(jobs)] = "COMPLETED" /\ Len(jobs) < MaxAttempt
  /\ jobs' = Append(jobs, "QUEUED")
  /\ UNCHANGED <<minted, builds, uploaded, listed, holding, tag, brokerVars, history>>

\* A token is issued to a job that runs.
Mint(t) ==
  /\ minted[t] = 0 /\ jobs[Len(jobs)] = "IN_PROGRESS"
  /\ minted' = [minted EXCEPT ![t] = Len(jobs)]
  /\ UNCHANGED <<jobs, builds, uploaded, listed, holding, tag, brokerVars, history>>

BuildEnds ==
  /\ builds[Len(builds)] = "RUNNING"
  /\ \E outcome \in {"SUCCESS", "FAILURE"} :
       builds' = [builds EXCEPT ![Len(builds)] = outcome]
  /\ UNCHANGED <<jobs, minted, uploaded, listed, holding, tag, brokerVars, history>>

BuildAgain ==
  /\ builds[Len(builds)] # "RUNNING" /\ Len(builds) < MaxAttempt
  /\ builds' = Append(builds, "RUNNING")
  /\ UNCHANGED <<jobs, minted, uploaded, listed, holding, tag, brokerVars, history>>

UploadArchive(a) ==
  /\ uploaded[a] = 0 /\ builds[Len(builds)] = "RUNNING"
  /\ uploaded' = [uploaded EXCEPT ![a] = Len(builds)]
  /\ listed' = listed \cup {a}
  /\ UNCHANGED <<jobs, minted, builds, holding, tag, brokerVars, history>>

ExpireArchive(a) ==
  /\ a \in listed /\ listed' = listed \ {a}
  /\ UNCHANGED <<jobs, minted, builds, uploaded, holding, tag, brokerVars, history>>

\* A workflow is disabled or edited, a tag is moved, and perhaps put back.
Witness == seen' = [c \in Calls |-> IF stage[c] = "IDLE" THEN {} ELSE seen[c] \cup Standing']

FactChanges(f) ==
  /\ holding' = IF f \in holding THEN holding \ {f} ELSE holding \cup {f}
  /\ UNCHANGED tag /\ Witness
  /\ UNCHANGED <<jobs, minted, builds, uploaded, listed, brokerVars, atArrival>>

TagMoves(o) ==
  /\ tag # o /\ tag' = o
  /\ UNCHANGED holding /\ Witness
  /\ UNCHANGED <<jobs, minted, builds, uploaded, listed, brokerVars, atArrival>>

GitHub ==
  \/ JobStarts \/ JobEnds \/ RunAgain \/ (\E t \in Tokens : Mint(t))
  \/ BuildEnds \/ BuildAgain
  \/ \E a \in Archives : UploadArchive(a) \/ ExpireArchive(a)
  \/ \E f \in Facts : FactChanges(f)
  \/ \E o \in TagObjects : TagMoves(o)

----------------------------------------------------------------------------
(* A call.  Expiry of a token or an answer, a failed request and a response *)
(* that is lost are all one: the call is refused where it stands.           *)

Enters(c, s) == stage' = [stage EXCEPT ![c] = s]
Refused(c) == Enters(c, "REFUSED")

\* Authenticated: the token is real, so it was issued; so is the digest the
\* caller selects by, so the archive was uploaded.
Arrive(c) ==
  /\ stage[c] = "IDLE" /\ JobOf(c) # 0 /\ uploaded[ask[c].archive] # 0
  /\ Enters(c, "ARRIVED")
  /\ atArrival' = [atArrival EXCEPT ![c] = [live |-> jobs[JobOf(c)] = "IN_PROGRESS",
                                          listed |-> ask[c].archive \in listed]]
  /\ seen' = [seen EXCEPT ![c] = Standing]
  /\ UNCHANGED <<repositories, ask, pending, tagRead, tries, rows, opened>>

\* A Worker has its installation token; its reads go out together.
ReadsBegin(c, reads) ==
  /\ pending' = [pending EXCEPT ![c] = reads]
  /\ UNCHANGED <<repositories, history, ask, tagRead, tries, rows, opened>>

ControllerReader(c) ==
  /\ stage[c] = "ARRIVED" /\ Enters(c, "CONTROLLER")
  /\ ReadsBegin(c, JobReads \cup Facts)

\* The attempt is the run's last.
LastAttempt(c) == JobOf(c) = Len(jobs)
\* A mutant: any job that has been started.
Started(c) == jobs[JobOf(c)] # "QUEUED"
\* The job's status is in_progress and it has no conclusion.
InProgress(c) == jobs[JobOf(c)] = "IN_PROGRESS"

ControllerHolds(c, r) ==
  CASE r = "run" -> LastAttempt(c)
    [] r \in {"job", "check"} -> InProgress(c)
    [] OTHER -> r \in holding

\* The answers are compared when all are there: one that does not fit refuses
\* the call whatever the others say.
ReadController(c, r) ==
  /\ stage[c] = "CONTROLLER" /\ r \in pending[c]
  /\ pending' = [pending EXCEPT ![c] = @ \ {r}]
  /\ IF ControllerHolds(c, r) THEN UNCHANGED stage ELSE Refused(c)
  /\ UNCHANGED <<repositories, history, ask, tagRead, tries, rows, opened>>

Observed(c) == stage[c] = "CONTROLLER" /\ pending[c] = {}

\* A mutant: an exact replay is let through, as in the admin ledger.
ReplayedOtherwise(c) ==
  \E row \in rows \ {ask[c]} : row.token = ask[c].token \/ row.request = ask[c].request
\* The token or the request id has a row already.
Replayed(c) == \E row \in rows : row.token = ask[c].token \/ row.request = ask[c].request

Admit(c) ==
  /\ Observed(c) /\ ~Replayed(c)
  /\ rows' = rows \cup {ask[c]}
  /\ Enters(c, "ADMITTED")
  /\ UNCHANGED <<repositories, history, ask, pending, tagRead, tries, opened>>

ReplayRefused(c) ==
  /\ Observed(c) /\ Replayed(c)
  /\ Refused(c)
  /\ UNCHANGED <<repositories, history, ask, pending, tagRead, tries, rows, opened>>

CandidateReader(c) ==
  /\ stage[c] = "ADMITTED" /\ Enters(c, "CANDIDATE")
  /\ ReadsBegin(c, CandidateReads)

\* The run's last attempt is the selected one and has succeeded.
Succeeded(c) == Len(builds) = ask[c].attempt /\ builds[ask[c].attempt] = "SUCCESS"

CandidateHolds(c, r) ==
  CASE r = "build" -> Succeeded(c)
    [] r = "archive" -> ask[c].archive \in listed
    [] r = "list" -> listed = {ask[c].archive}
    [] r = "tag" -> TRUE

\* What the tag refers to is kept for a read of its own; the policy is read
\* at the expected commit, where it cannot change.
ReadCandidate(c, r) ==
  /\ stage[c] = "CANDIDATE" /\ r \in pending[c]
  /\ pending' = [pending EXCEPT ![c] = @ \ {r}]
  /\ tagRead' = IF r = "tag" THEN [tagRead EXCEPT ![c] = tag] ELSE tagRead
  /\ IF CandidateHolds(c, r) THEN UNCHANGED stage ELSE Refused(c)
  /\ UNCHANGED <<repositories, history, ask, tries, rows, opened>>

Annotated(c) == tagRead[c] \in Peels

PeelTag(c) ==
  /\ stage[c] = "CANDIDATE" /\ pending[c] = {}
  /\ IF Annotated(c) THEN Enters(c, "PEELED") ELSE Refused(c)
  /\ UNCHANGED <<repositories, history, ask, pending, tagRead, tries, rows, opened>>

\* A redirect to a signed address that is about to expire is asked for again,
\* once.
Redirect(c) ==
  /\ stage[c] = "PEELED"
  /\ \/ Enters(c, "SIGNED") /\ UNCHANGED tries
     \/ tries[c] = 0 /\ tries' = [tries EXCEPT ![c] = 1] /\ UNCHANGED stage
  /\ UNCHANGED <<repositories, history, ask, pending, tagRead, rows, opened>>

OpenArchive(c) ==
  /\ stage[c] = "SIGNED" /\ opened' = opened \cup {c}
  /\ Enters(c, "OPENED")
  /\ UNCHANGED <<repositories, history, ask, pending, tagRead, tries, rows>>

\* The observation names what was asked and the length is the archive's.
Stream(c) ==
  /\ stage[c] = "OPENED" /\ Enters(c, "STREAMING")
  /\ UNCHANGED <<repositories, history, ask, pending, tagRead, tries, rows, opened>>

Settled(c) == stage[c] \in {"STREAMING", "REFUSED"}

Fails(c) ==
  /\ stage[c] # "IDLE" /\ ~Settled(c)
  /\ Refused(c)
  /\ UNCHANGED <<repositories, history, ask, pending, tagRead, tries, rows, opened>>

CallStep(c) ==
  \/ ControllerReader(c) \/ (\E r \in JobReads \cup Facts : ReadController(c, r))
  \/ Admit(c) \/ ReplayRefused(c)
  \/ CandidateReader(c) \/ (\E r \in CandidateReads : ReadCandidate(c, r))
  \/ PeelTag(c) \/ Redirect(c) \/ OpenArchive(c) \/ Stream(c)

AdmissionNext ==
  \/ GitHub
  \/ \E c \in Calls : Arrive(c) \/ CallStep(c) \/ Fails(c)

AdmissionSpec == AdmissionInit /\ [][AdmissionNext]_admissionVars

----------------------------------------------------------------------------

\* The types of the state.
AdmissionTypeOK ==
  /\ jobs \in Seq(JobStatus) /\ builds \in Seq(BuildOutcome)
  /\ minted \in [Tokens -> Nat] /\ uploaded \in [Archives -> Nat]
  /\ listed \subseteq Archives /\ holding \subseteq Facts /\ tag \in TagObjects
  /\ stage \in [Calls -> Stage] /\ ask \in [Calls -> Ask]
  /\ pending \in [Calls -> SUBSET (JobReads \cup CandidateReads \cup Facts)]
  /\ tagRead \in [Calls -> TagObjects \cup {"NONE"}]
  /\ tries \in [Calls -> 0..1]
  /\ rows \subseteq Ask /\ opened \subseteq Calls
  /\ atArrival \in [Calls -> [live : BOOLEAN, listed : BOOLEAN]]
  /\ seen \in [Calls -> SUBSET (Facts \cup TagObjects)]

\* An archive is opened only for a call that used its token and its request id
\* up for exactly what it selects, and for one such call only, however often
\* and at whatever moment a call is repeated (candidate-route.ts:75, :76).
OneArchivePerToken ==
  /\ \A c \in opened : ask[c] \in rows
  /\ \A c, d \in opened :
       c # d => ask[c].token # ask[d].token /\ ask[c].request # ask[d].request

\* Everything an archive was opened on was so at some moment since the call
\* came, although the reads are apart and both repositories move between them:
\* the job ran and the archive was there when it came, each fact held, the tag
\* referred to an annotated tag of the expected commit, and the selected
\* attempt has succeeded and is not older than the archive.  That all was so
\* at once is not promised (controller-run-reader.ts:71, candidate-provider.ts:73).
OpenedOnWhatStood ==
  \A c \in opened :
    /\ atArrival[c].live /\ atArrival[c].listed
    /\ Facts \subseteq seen[c] /\ tagRead[c] \in seen[c] \cap Peels
    /\ uploaded[ask[c].archive] <= ask[c].attempt
    /\ ask[c].attempt \in DOMAIN builds /\ builds[ask[c].attempt] = "SUCCESS"
=============================================================================
