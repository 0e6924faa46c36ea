------------------------ MODULE BootstrapLiveWorkers ------------------------
(* The provider of the authority workers and their one-use bootstrap: a     *)
(* credential-free version of every worker is deployed, the ingress last,   *)
(* each is read back, and a report is written that nothing may overwrite.   *)
(* Operators edit the reviewed configs and others upload versions at any    *)
(* time.  Every function begins with the provider-mutation hold, which this *)
(* commit never releases; the model is of what comes after it.              *)
EXTENDS Integers, Sequences, FiniteSets

CONSTANTS MaxEdits,  \* bound on edits of the reviewed configs
          Misfits,   \* the edits whose configs are not of the live topology
          MaxOthers, \* bound on versions uploaded by others
          Touched,   \* bound: the workers others upload versions of
          MaxFaults, \* bound on processes that die and commands that fail
          None

ASSUME BootstrapAssumption ==
  MaxEdits \in Nat /\ MaxOthers \in Nat /\ MaxFaults \in Nat /\ Misfits \subseteq Nat

VARIABLES reviewed,  \* which edit of the reviewed configs is on disk
          versions,  \* per worker, its versions in the order they were made
          deployed,  \* per worker, the version with all its traffic, or 0
          boot,      \* None, or the bootstrap under way
          report,    \* None, or the bootstrap's report
          faults

bootVars == <<reviewed, versions, deployed, boot, report, faults>>

\* The private workers, then the ingress (the ten others are alike).
BootstrapOrder == <<"cloudflareObserver", "worm", "observer", "ingress">>
Worker == {BootstrapOrder[k] : k \in DOMAIN BootstrapOrder}

Version(kind, config, keys, pins) ==
  [kind |-> kind, config |-> config, keys |-> keys, pins |-> pins]
\* A bootstrap version has no binding to anything but its own objects.
CredentialFree(config) == Version("BOOTSTRAP", config, None, <<>>)
Stranger == Version("OTHER", 0, None, <<>>)

\* A config is loaded only if it is of the reviewed topology.
Loads(config) == config \notin Misfits

\* What the provider says of a version: all but its code and secret values.
Projection(version) ==
  [kind |-> version.kind, config |-> version.config, pins |-> version.pins]
Projected(version, kind, config, pins) ==
  Projection(version) = [kind |-> kind, config |-> config, pins |-> pins]

Upload(w, version) == versions' = [versions EXCEPT ![w] = Append(@, version)]
Newest(w) == Len(versions[w])
Fault == faults < MaxFaults /\ faults' = faults + 1

BootInit ==
  /\ reviewed = 0 /\ faults = 0 /\ boot = None /\ report = None
  /\ versions = [w \in Worker |-> <<>>] /\ deployed = [w \in Worker |-> 0]

----------------------------------------------------------------------------
\* The report's path is free: the bootstrap is used once.
Unreported == report = None

\* The plan pins the configs; what is deployed is built from the plan.
BootstrapStart ==
  /\ boot = None /\ Unreported /\ Loads(reviewed)
  /\ boot' = [config |-> reviewed, ids |-> <<>>, seen |-> 0]
  /\ UNCHANGED <<reviewed, versions, deployed, report, faults>>

BootstrapDeploy ==
  /\ boot # None /\ Len(boot.ids) < Len(BootstrapOrder)
  /\ LET w == BootstrapOrder[Len(boot.ids) + 1] IN
       /\ Upload(w, CredentialFree(boot.config))
       /\ deployed' = [deployed EXCEPT ![w] = Newest(w) + 1]
       /\ boot' = [boot EXCEPT !.ids = Append(@, Newest(w) + 1)]
  /\ UNCHANGED <<reviewed, report, faults>>

\* The version must have all the traffic and be what the plan says; the
\* config on disk is loaded once more, for its name.
Deployed(w, id, config) ==
  /\ deployed[w] = id
  /\ Projected(versions[w][id], "BOOTSTRAP", config, <<>>)
  /\ Loads(reviewed)

BootstrapRequery ==
  /\ boot # None /\ Len(boot.ids) = Len(BootstrapOrder)
  /\ boot.seen < Len(BootstrapOrder)
  /\ LET w == BootstrapOrder[boot.seen + 1] IN
       boot' = IF Deployed(w, boot.ids[boot.seen + 1], boot.config)
               THEN [boot EXCEPT !.seen = @ + 1] ELSE None
  /\ UNCHANGED <<reviewed, versions, deployed, report, faults>>

\* Requests reach the ingress that was deployed, which refuses them.
Smoked == deployed["ingress"] = boot.ids[Len(BootstrapOrder)]

\* The report is created, unless there is one.
BootstrapReport ==
  /\ boot # None /\ boot.seen = Len(BootstrapOrder)
  /\ boot' = None
  /\ report' = IF Unreported /\ Smoked
               THEN [config |-> boot.config, ids |-> boot.ids] ELSE report
  /\ UNCHANGED <<reviewed, versions, deployed, faults>>

BootstrapDies ==
  /\ boot # None /\ Fault /\ boot' = None
  /\ UNCHANGED <<reviewed, versions, deployed, report>>

----------------------------------------------------------------------------
Edit ==
  /\ reviewed < MaxEdits /\ reviewed' = reviewed + 1
  /\ UNCHANGED <<versions, deployed, boot, report, faults>>

Strangers(w) == {k \in DOMAIN versions[w] : versions[w][k].kind = "OTHER"}

\* Somebody uploads a version of a worker, and may deploy it.
OtherVersion(w) ==
  /\ w \in Touched /\ Cardinality(Strangers(w)) < MaxOthers
  /\ Upload(w, Stranger)
  /\ \/ deployed' = [deployed EXCEPT ![w] = Newest(w) + 1]
     \/ UNCHANGED deployed
  /\ UNCHANGED <<reviewed, boot, report, faults>>

BootNext ==
  \/ BootstrapStart \/ BootstrapDeploy \/ BootstrapRequery \/ BootstrapReport
  \/ BootstrapDies \/ Edit
  \/ \E w \in Worker : OtherVersion(w)
=============================================================================
