------------------------- MODULE B2ExactObjectMirror -------------------------
(***************************************************************************)
(* The WORM mirror of an exact object: a pinned client asks the private    *)
(* mirror worker, which holds a key that can only write, to put one object *)
(* under the key its digest derives; everything that is read of the bucket *)
(* is read by a second private worker, the version observer.               *)
(* broker/src/b2.ts (the mirror), b2-inventory.ts, b2-exact-               *)
(* reconciliation.ts, the clients, and private/ (both workers, the native  *)
(* provider).                                                              *)
(*                                                                         *)
(* A key holds the digest of the bytes, so an object is its key and bytes. *)
(* It was committed at instant 0, on the broker's clock, and the bucket's  *)
(* clock may be behind; calls are pinned to version 0 of both workers, as  *)
(* an activation pins them, although the mirror that is deployed may       *)
(* expect another observer.  Signatures, envelopes and the provider's      *)
(* answers are taken to be well formed.                                    *)
(***************************************************************************)
EXTENDS Integers, Sequences

CONSTANTS
  Objects,        \* objects to be mirrored
  Kind,           \* [Objects -> Kinds]: the family of the object's key
  WholeSecond,    \* the objects that were committed on a whole second
  Calls,          \* calls of clients that may be under way
  ObjectOf,       \* [Calls -> Objects]
  VERSION_LIMIT,  \* versions of a key that the observer is ready to inspect
  RETENTION,      \* the bucket's default retention
  MaxMishaps      \* bound: strangers' writes, failures, redeployments, clocks behind

Kinds == {"receipt", "activation", "activation-evidence", "activation-head",
          "cloudflare-observations", "cloudflare-observations-v2"}

ASSUME MirrorAssumption ==
  /\ Kind \in [Objects -> Kinds]
  /\ WholeSecond \subseteq Objects
  /\ ObjectOf \in [Calls -> Objects]
  /\ VERSION_LIMIT \in Nat /\ RETENTION \in Nat
  /\ MaxMishaps \in Nat

VARIABLES
  bucket,    \* [Objects -> Seq]: the versions of each key, oldest first
  longer,    \* keys that a name in the bucket extends
  reviewed,  \* whether the bucket is still configured as it was reviewed
  late,      \* [Objects -> Nat]: uploads on their way that nobody waits for
  worker,    \* the mirror worker that is deployed, and the observer it expects
  observer,  \* the version of the observer that is deployed
  call,      \* [Calls -> record]: how far each call is
  mishaps

mirrorVars == <<bucket, longer, reviewed, late, worker, observer, call, mishaps>>

NoVersion == 0  \* a version is its place in the key's sequence

Actions == {"mirror", "reconcile", "absence"}

Idle == [at |-> "idle", action |-> "mirror", stage |-> "first", listed |-> 0, inventory |-> {},
         by |-> 0,       \* the version of the observer that listed
         written |-> NoVersion, result |-> NoVersion,
         server |-> 0,   \* the version of the mirror that replied
         code |-> "NONE"]

Content == {"own", "other", "hide"}

Listed == [id : Nat, what : Content, until : Int, latest : BOOLEAN]

Codes ==
  {"NONE", "UNAVAILABLE", "PRIVATE_SERVICE_VERSION_FALLBACK", "SERVICE_VERSION_MISMATCH",
   "MIRROR_COMMITTED_AT_INVALID", "B2_OBSERVER_PIN_INVALID", "B2_OBSERVER_KEY_INVALID",
   "B2_OBJECT_KEY_INVALID", "B2_BUCKET_CONFIGURATION_INVALID", "B2_VERSION_INVENTORY_INVALID",
   "B2_DOWNLOAD_BINDING_INVALID", "B2_OBSERVER_RESPONSE_INVALID", "B2_OBSERVER_VERSION_MISSING",
   "B2_VERSION_HISTORY_CONFLICT", "B2_DUPLICATE_DISPATCH_CONFLICT", "B2_ABSENCE_CONFLICT",
   "B2_PUT_AMBIGUOUS", "B2_RECONCILIATION_PENDING"}

CallRecord ==
  [at : {"idle", "sent", "inspect", "info", "download", "answered", "uploading", "replied",
         "done", "failed"},
   action : Actions, stage : {"first", "confirm", "recover"}, listed : Nat,
   inventory : SUBSET Listed, by : {0, 1}, written : Nat, result : Nat, server : {0, 1},
   code : Codes]

MirrorTypeOK ==
  /\ bucket \in [Objects -> Seq([what : Content, behind : Nat, until : Int])]
  /\ longer \subseteq Objects
  /\ reviewed \in BOOLEAN
  /\ late \in [Objects -> Nat]
  /\ worker \in [version : {0, 1}, observer : {0, 1}] /\ observer \in {0, 1}
  /\ call \in [Calls -> CallRecord]
  /\ mishaps \in 0..MaxMishaps

MirrorInit ==
  /\ bucket = [o \in Objects |-> <<>>]
  /\ longer = {}
  /\ reviewed = TRUE
  /\ late = [o \in Objects |-> 0]
  /\ worker \in [version : {0}, observer : {0, 1}]
  /\ observer = 0
  /\ call = [c \in Calls |-> Idle]
  /\ mishaps = 0

Versions(o) == DOMAIN bucket[o]

-----------------------------------------------------------------------------
(* The forms that the layers accept. *)

\* isAllowedB2ExactKey: the clients, the mirror and the observer worker
AllowedKey(o) == Kind[o] \in Kinds

\* validateObjectKey: the native writer and the native observer
NativeKey(o) == Kind[o] \in Kinds \ {"activation-head"}

\* Every instant in the program is spelled by toISOString, with its milliseconds.
\* The mirror's canonicalTimestampMillis wants a whole second without them; the
\* reconciliation's exactSummary wants toISOString's spelling.
MirrorReads(o) == o \notin WholeSecond

Retained(u) == u >= RETENTION

-----------------------------------------------------------------------------
(* The call and its admission. *)

Elsewhere == <<bucket, longer, reviewed, late, worker, observer, mishaps>>

Move(c, r) == call' = [call EXCEPT ![c] = r]
Fail(c, code) ==
  Move(c, [Idle EXCEPT !.at = "failed", !.action = call[c].action, !.code = code])

\* A client that begins, or calls again for what failed.
Asks(c, action) ==
  /\ call[c].at = "idle" \/ (call[c].at = "failed" /\ call[c].action = action)
  /\ Move(c, [Idle EXCEPT !.at = "sent", !.action = action])
  /\ UNCHANGED Elsewhere

\* mirrorActivation and mirrorEvidence
AskMirror(c) ==
  Kind[ObjectOf[c]] \in {"activation", "activation-evidence"} /\ Asks(c, "mirror")

\* The observations' client: mirror, reconcile and assertAbsent.
AskObservations(c) ==
  /\ Kind[ObjectOf[c]] = "cloudflare-observations"
  /\ \E action \in Actions : Asks(c, action)

\* The head's witness
AskHead(c) == Kind[ObjectOf[c]] = "activation-head" /\ Asks(c, "mirror")

\* The ingress reconciles a record or a head with the observer itself.
Reconciled(o) == Kind[o] \in {"activation", "activation-head"}

AskObserver(c) == Reconciled(ObjectOf[c]) /\ Asks(c, "reconcile")

Direct(c) == call[c].action = "reconcile" /\ Reconciled(ObjectOf[c])

Send(c) == AskMirror(c) \/ AskObservations(c) \/ AskHead(c) \/ AskObserver(c)

\* assertExpectedCallee
CalleePinned(c) == Direct(c) \/ worker.version = 0

\* assertExpectedB2ObserverPin
ObserverPinned(c) == Direct(c) \/ worker.observer = 0

Admits(c) == call[c].at = "sent" /\ CalleePinned(c) /\ ObserverPinned(c)

\* A worker that is not the one called refuses before it reads anything: this
\* program does, another version may reply anything.
FallBack(c) ==
  /\ call[c].at = "sent" /\ ~CalleePinned(c)
  /\ \/ Fail(c, "PRIVATE_SERVICE_VERSION_FALLBACK")
     \/ Move(c, [call[c] EXCEPT !.at = "replied", !.server = worker.version, !.result = 1])
  /\ UNCHANGED Elsewhere

\* One that expects another observer refuses before it touches the bucket.
RefuseObserver(c) ==
  /\ call[c].at = "sent" /\ CalleePinned(c) /\ ~ObserverPinned(c)
  /\ Fail(c, "B2_OBSERVER_PIN_INVALID")
  /\ UNCHANGED Elsewhere

Begin(c) ==
  /\ IF call[c].action = "mirror" /\ ~MirrorReads(ObjectOf[c])
     THEN Fail(c, "MIRROR_COMMITTED_AT_INVALID")
     ELSE Move(c, [call[c] EXCEPT !.at = "inspect"])
  /\ UNCHANGED Elsewhere

\* parseActivationBinding, parseActivationEvidenceBinding
HandleRecord(c) ==
  Admits(c) /\ Kind[ObjectOf[c]] \in {"activation", "activation-evidence"} /\ Begin(c)

\* handleCloudflareEvidence
HandleObservation(c) ==
  Admits(c) /\ Kind[ObjectOf[c]] = "cloudflare-observations" /\ Begin(c)

\* mirrorActivatedAuthorityHead
HandleHead(c) == Admits(c) /\ Kind[ObjectOf[c]] = "activation-head" /\ Begin(c)

Admit(c) ==
  FallBack(c) \/ RefuseObserver(c) \/ HandleRecord(c) \/ HandleObservation(c) \/ HandleHead(c)

-----------------------------------------------------------------------------
(* The observer: it lists the key's versions, then asks for the file info  *)
(* of each and downloads it.  The versions are read concurrently; each one *)
(* fails when its retention changed between its info and its download, so  *)
(* that all infos may be taken at one moment and all downloads at another. *)

\* The observer's worker, before it asks the bucket.
ObserverAllows(o) == AllowedKey(o)

\* What the inventory says of version n of those listed.
Entry(o, n, listed) ==
  [id |-> n, what |-> bucket[o][n].what, until |-> bucket[o][n].until, latest |-> n = listed]

List(c) ==
  /\ call[c].at = "inspect"
  /\ LET o == ObjectOf[c] IN
       CASE ~ObserverAllows(o) -> Fail(c, "B2_OBSERVER_KEY_INVALID")
         [] ~NativeKey(o) -> Fail(c, "B2_OBJECT_KEY_INVALID")
         [] ~reviewed -> Fail(c, "B2_BUCKET_CONFIGURATION_INVALID")
         [] o \in longer \/ Len(bucket[o]) > VERSION_LIMIT ->
              Fail(c, "B2_VERSION_INVENTORY_INVALID")
         [] OTHER -> Move(c, [call[c] EXCEPT !.at = "info", !.listed = Len(bucket[o]),
                                             !.by = observer])
  /\ UNCHANGED Elsewhere

Info(c) ==
  /\ call[c].at = "info"
  /\ LET listed == call[c].listed IN
       Move(c, [call[c] EXCEPT
         !.at = "download",
         !.inventory = {Entry(ObjectOf[c], n, listed) : n \in 1..listed}])
  /\ UNCHANGED Elsewhere

Changed(c) ==
  \E e \in call[c].inventory :
    e.what # "hide" /\ bucket[ObjectOf[c]][e.id].until # e.until

\* An observer of another version may answer anything.
Download(c) ==
  /\ call[c].at = "download"
  /\ IF Changed(c)
     THEN Fail(c, "B2_DOWNLOAD_BINDING_INVALID")
     ELSE \/ Move(c, [call[c] EXCEPT !.at = "answered"])
          \/ /\ call[c].by # 0
             /\ \E few \in SUBSET call[c].inventory :
                  Move(c, [call[c] EXCEPT !.at = "answered", !.inventory = few])
  /\ UNCHANGED Elsewhere

\* Mutant of PinnedAnswer: assertPinnedServiceVersion is not called.
PinnedAnswerAny(c) == TRUE

PinnedAnswer(c) == call[c].by = 0

\* What the caller makes of an answer, before it looks for its version: the
\* parse refuses a hide marker, which has no digest, and validateInventory a
\* version of other bytes or of a short retention.
Refusal(c) ==
  LET entries == call[c].inventory IN
  CASE ~PinnedAnswer(c) -> "SERVICE_VERSION_MISMATCH"
    [] \E e \in entries : e.what = "hide" -> "B2_OBSERVER_RESPONSE_INVALID"
    [] \E e \in entries : e.what = "other" \/ ~Retained(e.until) -> "B2_VERSION_HISTORY_CONFLICT"
    [] OTHER -> "NONE"

\* requireSingleExactVersion, and the same test in reconcileExactObject
Only(c, v) == \E e \in call[c].inventory : call[c].inventory = {e} /\ e.latest /\ e.id = v

Found(c) == \E e \in call[c].inventory : Only(c, e.id)

-----------------------------------------------------------------------------
(* The mirror's turns on an answer. *)

Answered(c, action, stage) ==
  call[c].at = "answered" /\ call[c].action = action /\ call[c].stage = stage

Return(c, v) == Move(c, [call[c] EXCEPT !.at = "replied", !.result = v, !.inventory = {}, !.by = 0])

ReturnOnly(c) ==
  IF Found(c) THEN \E e \in call[c].inventory : Return(c, e.id)
              ELSE Fail(c, "B2_DUPLICATE_DISPATCH_CONFLICT")

Refused(c) ==
  /\ call[c].at = "answered"
  /\ Refusal(c) # "NONE"
  /\ Fail(c, Refusal(c))
  /\ UNCHANGED Elsewhere

\* Mutant of TakeExisting: a version that is there is a conflict.
TakeExistingAbsent(c) ==
  /\ Answered(c, "mirror", "first") /\ Refusal(c) = "NONE"
  /\ IF call[c].inventory = {} THEN Move(c, [call[c] EXCEPT !.at = "uploading"])
                               ELSE Fail(c, "B2_ABSENCE_CONFLICT")
  /\ UNCHANGED Elsewhere

\* The key holds no version: upload.
TakeExisting(c) ==
  /\ Answered(c, "mirror", "first") /\ Refusal(c) = "NONE"
  /\ IF call[c].inventory = {} THEN Move(c, [call[c] EXCEPT !.at = "uploading"]) ELSE ReturnOnly(c)
  /\ UNCHANGED Elsewhere

TakeConfirmed(c) ==
  /\ Answered(c, "mirror", "confirm") /\ Refusal(c) = "NONE"
  /\ IF Found(c) /\ ~Only(c, call[c].written)
     THEN Fail(c, "B2_OBSERVER_VERSION_MISSING")
     ELSE ReturnOnly(c)
  /\ UNCHANGED Elsewhere

\* After a writer that failed: what it may have written counts.
TakeRecovered(c) ==
  /\ Answered(c, "mirror", "recover") /\ Refusal(c) = "NONE"
  /\ IF call[c].inventory = {} THEN Fail(c, "B2_PUT_AMBIGUOUS") ELSE ReturnOnly(c)
  /\ UNCHANGED Elsewhere

\* reconcileExactObject
TakeReconciled(c) ==
  /\ Answered(c, "reconcile", "first") /\ Refusal(c) = "NONE"
  /\ IF call[c].inventory = {} THEN Fail(c, "B2_RECONCILIATION_PENDING") ELSE ReturnOnly(c)
  /\ UNCHANGED Elsewhere

\* assertExactObjectAbsent
TakeAbsent(c) ==
  /\ Answered(c, "absence", "first") /\ Refusal(c) = "NONE"
  /\ IF call[c].inventory = {} THEN Return(c, NoVersion) ELSE Fail(c, "B2_ABSENCE_CONFLICT")
  /\ UNCHANGED Elsewhere

\* The client reads the reply, which may have been lost before.
PinnedReply(c) == call[c].server = 0

Receive(c) ==
  /\ call[c].at = "replied"
  /\ IF PinnedReply(c) THEN Move(c, [call[c] EXCEPT !.at = "done"])
                       ELSE Fail(c, "SERVICE_VERSION_MISMATCH")
  /\ UNCHANGED Elsewhere

-----------------------------------------------------------------------------
(* The writer: it authorizes, takes an upload URL and sends the bytes.     *)

InspectAgain(c, stage, written) ==
  [call[c] EXCEPT !.at = "inspect", !.stage = stage, !.written = written,
                  !.inventory = {}, !.listed = 0, !.by = 0]

Mishap == mishaps < MaxMishaps /\ mishaps' = mishaps + 1

\* The bucket's default retention, counted on the bucket's clock.
Stored(what, behind) == [what |-> what, behind |-> behind, until |-> RETENTION - behind]

Store(o, what) == bucket' = [bucket EXCEPT ![o] = Append(@, Stored(what, 0))]

WriterAnswers(c) ==
  LET o == ObjectOf[c] IN
  /\ call[c].at = "uploading"
  /\ \/ Store(o, "own") /\ UNCHANGED mishaps
     \/ bucket' = [bucket EXCEPT ![o] = Append(@, Stored("own", 1))] /\ Mishap
  /\ Move(c, InspectAgain(c, "confirm", Len(bucket[o]) + 1))
  /\ UNCHANGED <<longer, reviewed, late, worker, observer>>

\* It failed: before the bytes were sent, or with the answer, or it is still
\* on its way when the writer gives up.
UploadFails(c) ==
  LET o == ObjectOf[c] IN
  /\ call[c].at = "uploading" /\ Mishap
  /\ Move(c, InspectAgain(c, "recover", NoVersion))
  /\ \/ UNCHANGED <<bucket, late>>
     \/ Store(o, "own") /\ UNCHANGED late
     \/ late' = [late EXCEPT ![o] = @ + 1] /\ UNCHANGED bucket
  /\ UNCHANGED <<longer, reviewed, worker, observer>>

LateUploadLands(o) ==
  /\ late[o] > 0
  /\ late' = [late EXCEPT ![o] = @ - 1]
  /\ Store(o, "own")
  /\ UNCHANGED <<longer, reviewed, worker, observer, call, mishaps>>

-----------------------------------------------------------------------------
(* What happens around a call. *)

\* A provider call of the observer fails, one of the workers does, or the reply
\* is lost.  (A call whose client gave up goes on, beside the client's next one.)
CallFails(c) ==
  /\ call[c].at \in {"sent", "inspect", "info", "download", "answered", "replied"} /\ Mishap
  /\ Fail(c, "UNAVAILABLE")
  /\ UNCHANGED <<bucket, longer, reviewed, late, worker, observer>>

\* Whoever else may write under the prefix: other bytes under the key, a hide
\* marker, a name that extends the key, a longer retention.
StrangerWrites(o) ==
  /\ Mishap
  /\ \/ /\ \E what \in {"other", "hide"} : Store(o, what)
        /\ UNCHANGED longer
     \/ longer' = longer \cup {o} /\ o \notin longer /\ UNCHANGED bucket
     \/ /\ \E n \in Versions(o) : bucket[o][n].what = "own"
                                  /\ bucket' = [bucket EXCEPT ![o][n].until = @ + 1]
        /\ UNCHANGED longer
  /\ UNCHANGED <<reviewed, late, worker, observer, call>>

\* The bucket's default retention, lock or encryption is changed, or set back.
Reconfigure ==
  /\ Mishap /\ reviewed' = ~reviewed
  /\ UNCHANGED <<bucket, longer, late, worker, observer, call>>

\* A worker is deployed anew, the mirror with the identity of the observer that
\* is then deployed.  (A third version would be to a call as the second.)
RedeployObserver ==
  /\ Mishap /\ observer = 0 /\ observer' = 1
  /\ UNCHANGED <<bucket, longer, reviewed, late, worker, call>>

RedeployMirror ==
  /\ Mishap /\ worker.version = 0 /\ worker' = [version |-> 1, observer |-> observer]
  /\ UNCHANGED <<bucket, longer, reviewed, late, observer, call>>

CallStep(c) ==
  \/ Admit(c) \/ List(c) \/ Info(c) \/ Download(c) \/ Refused(c)
  \/ TakeExisting(c) \/ TakeConfirmed(c) \/ TakeRecovered(c) \/ TakeReconciled(c) \/ TakeAbsent(c)
  \/ WriterAnswers(c) \/ Receive(c)

CallsOf(o) == {c \in Calls : ObjectOf[c] = o}

ObjectStep(o) ==
  \/ \E c \in CallsOf(o) : Send(c) \/ CallStep(c) \/ UploadFails(c) \/ CallFails(c)
  \/ LateUploadLands(o) \/ StrangerWrites(o)

MirrorNext == (\E o \in Objects : ObjectStep(o)) \/ Reconfigure \/ RedeployObserver \/ RedeployMirror

MirrorSpec == MirrorInit /\ [][MirrorNext]_mirrorVars

-----------------------------------------------------------------------------
(* What the mirror promises. *)

Mirrored(c) == call[c].at = "done" /\ call[c].action # "absence"

\* A version that a mirror or a reconciliation returns is the object's bytes,
\* retained long enough, and when its caller last had the key listed it was the
\* only version: uploads, strangers, retries and other workers' deployments may
\* come between any two steps, but nothing else was there before it.  Hence all
\* callers are told of one version.  An absence was one when it was listed.
MirroredWasOnly ==
  \A c \in Calls :
    LET o == ObjectOf[c] IN
    /\ Mirrored(c) =>
         /\ call[c].result = 1 /\ call[c].listed = 1
         /\ bucket[o][1].what = "own" /\ Retained(bucket[o][1].until)
    /\ call[c].at = "done" /\ call[c].action = "absence" => call[c].listed = 0

\* What spoils a key: a stranger, an upload under a clock that was behind, a
\* second upload of the object.
Strange(o) == \E n \in Versions(o) : bucket[o][n].what # "own"

StoredBehind(o) == \E n \in Versions(o) : bucket[o][n].behind > 0

Spoilt(o) ==
  Strange(o) \/ o \in longer \/ Len(bucket[o]) > 1 \/ StoredBehind(o)

\* The workers go on, a caller whose mirror failed calls again, and an upload
\* on its way arrives.
MirrorFairness ==
  /\ \A c \in Calls : WF_mirrorVars(CallStep(c)) /\ WF_mirrorVars(Send(c))
  /\ \A o \in Objects : WF_mirrorVars(LateUploadLands(o))

MirrorFairSpec == MirrorSpec /\ MirrorFairness

Pinned == worker = [version |-> 0, observer |-> 0] /\ observer = 0

\* A mirror that is repeated returns, unless its key was spoilt, the workers it
\* is pinned to are gone, or the bucket is not as it was reviewed: a caller that
\* loses its answer, or whose upload fails, need only call again.
MirrorSettles ==
  \A c \in {d \in Calls : NativeKey(ObjectOf[d]) /\ MirrorReads(ObjectOf[d])} :
    call[c].at = "sent" /\ call[c].action = "mirror"
      ~> Mirrored(c) \/ Spoilt(ObjectOf[c]) \/ ~Pinned \/ ~reviewed

\* The head's witness is mirrored: its key is one that the bucket's workers take.
WitnessTaken ==
  \A c \in Calls :
    Kind[ObjectOf[c]] = "activation-head" => call[c].code # "B2_OBJECT_KEY_INVALID"

=============================================================================
