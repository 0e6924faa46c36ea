--------------------- MODULE ServiceAuthorityObservation ---------------------
(***************************************************************************)
(* What the provider says is deployed, from the reads of the deployment    *)
(* observer to the document a record holds: the observation and the        *)
(* responses it is reproduced from, the sanitized evidence that is stored  *)
(* of it, what is accepted of both, the compact observation of a record,   *)
(* and how the compact one is parsed when a snapshot is verified.          *)
(* cloudflare-deployment-observ*.ts, cloudflare-worker-topology.ts,        *)
(* service-authority-observation*.ts.                                      *)
(*                                                                         *)
(* A digest is the document it is of; responses are by operation, evidence *)
(* by role, and the network surface has the slot NetworkSlot.  A service's *)
(* settings and subdomain are "closed" or not.  A stored object is retained *)
(* for the required term from the instant "retained".  Sizes, encodings,   *)
(* authors and annotations are left out.                                   *)
(***************************************************************************)
EXTENDS ServiceAuthorityExpectation, Sequences, FiniteSetsExt

NetworkSlot == "cloudflare_network_surface"
Slots == Roles \cup {NetworkSlot}

CloudflareObserver == "cloudflare_deployment_observer"

ASSUME ObserverAssumption == CloudflareObserver \in Private /\ NetworkSlot \notin Roles

CONSTANTS
  Window,  \* how long an observation, a request or an issuance may be acted on: a minute
  Term     \* how long an object of the WORM bucket is retained

ASSUME WindowAssumption == Window \in Nat \ {0}
ASSUME TermAssumption == Term \in Nat

Within(from, at) == from <= at /\ at - from <= Window

-----------------------------------------------------------------------------
(* The reads. *)

Response(path, body) == [path |-> path, body |-> body]

\* CloudflareWorkersDeploymentReader of a service; the newest deployment is the first
ServiceResponses(provider, account, r) ==
  LET script == <<account, r>>
      listed == provider.deployments[r]
      current == listed[1] IN
  [list |-> Response(<<script, "deployments">>, listed),
   get |-> Response(<<script, current.id>>, current),
   versions |-> [v \in {m.version : m \in current.members} |->
                   Response(<<script, v>>, provider.resources[v])],
   surface |-> Response(<<script, "surface">>, provider.surface[r])]

NetworkResponses(provider, account) ==
  [list |-> Response(<<account, "domains">>, provider.domain),
   get |-> Response(<<account, provider.domain>>, provider.domain),
   routes |-> Response(<<provider.domain, "routes">>, provider.routes)]

\* parseDeployment
DeploymentParses(d) ==
  /\ Cardinality(d.members) \in 1..2
  /\ \A m, n \in d.members : m.version = n.version => m = n
  /\ MapThenSumSet(LAMBDA m : m.percentage, d.members) = 100

\* The projected members of a provider deployment, or of an expected one.
Membership(d) ==
  {[percentage |-> m.percentage, worker_version_id |-> m.version] : m \in d.members}

\* parseDeploymentList
ListParses(listed) ==
  /\ listed # <<>>
  /\ \A i, j \in DOMAIN listed : DeploymentParses(listed[i]) /\ (listed[i].id = listed[j].id => i = j)

\* Mutant of MatchesExpected: any deployment of the expected members will do.
MatchesMembers(d, expected) == Membership(d) = Membership(expected)

\* assertDeploymentMatchesExpected
MatchesExpected(d, expected) ==
  /\ expected.id # NoDeployment
  /\ d.id = expected.id
  /\ Membership(d) = Membership(expected)

\* What reproduceServiceObservation makes of the responses.
ServiceObservation(r, responses) ==
  LET current == responses.list.body[1] IN
  [role |-> r, id |-> current.id, membership |-> Membership(current),
   versions |-> [v \in DOMAIN responses.versions |-> responses.versions[v].body],
   surface |-> responses.surface.body,
   responses |-> responses]

\* Its checks, which the observer makes of each read as well
ServiceResponsesStand(account, r, responses) ==
  LET script == <<account, r>> IN
  /\ ListParses(responses.list.body)
  /\ LET current == responses.list.body[1] IN
     /\ responses.list.path = <<script, "deployments">>
     /\ responses.get.path = <<script, current.id>>
     /\ responses.get.body = current
     /\ DOMAIN responses.versions = {m.version : m \in current.members}
  /\ \A v \in DOMAIN responses.versions : responses.versions[v].path = <<script, v>>
  /\ responses.surface.path = <<script, "surface">>
  /\ responses.surface.body = "closed"

\* reproduceNetworkSurfaceObservation and its checks
NetworkObservation(responses) ==
  [domain |-> responses.list.body, routes |-> responses.routes.body, responses |-> responses]

NetworkResponsesStand(account, responses) ==
  LET domain == responses.list.body IN
  /\ responses.list.path = <<account, "domains">>
  /\ responses.get.path = <<account, domain>>
  /\ responses.get.body = domain
  /\ responses.routes.path = <<domain, "routes">>
  /\ responses.routes.body = {}

-----------------------------------------------------------------------------
(* The observer. *)

\* parseCloudflareDeploymentObservationRequest
ObserverRequestParses(request, account) ==
  /\ request.phase \in {"A0_PRE", "A1_PRECOMMIT"}
  /\ DeploymentsParse(request.deployments, request.phase)
  /\ InventoryParses(request.inventory, account)

\* assertCloudflareObserverRequestFreshness, of one clock
RequestFresh(request, at) == Within(request.requestedAt, at)

\* The responses to the reads of a slot
Responses(provider, account, s) ==
  IF s = NetworkSlot THEN NetworkResponses(provider, account)
  ELSE ServiceResponses(provider, account, s)

\* observeService and observeNetworkSurface: the provider serves what is expected
Observes(account, request, s, responses) ==
  IF s = NetworkSlot
  THEN /\ NetworkResponsesStand(account, responses)
       /\ responses.list.body = request.host
  ELSE /\ ServiceResponsesStand(account, s, responses)
       /\ MatchesExpected(responses.list.body[1], request.deployments[s])

\* CloudflareDeploymentObserver.observe, of the responses of every slot, dated after the last
Observation(account, request, observer, reading, at) ==
  [account |-> account, expectation |-> request.expectation, phase |-> request.phase,
   at |-> at, observer |-> observer,
   services |-> [r \in Roles |-> ServiceObservation(r, reading[r])],
   network |-> NetworkObservation(reading[NetworkSlot])]

-----------------------------------------------------------------------------
(* The evidence. *)

\* The transient entry of a slot: the observation, its part, and the responses.
Entry(observation, s, responses) ==
  [observation |-> observation,
   part |-> IF s = NetworkSlot THEN observation.network ELSE observation.services[s],
   responses |-> responses]

Entries(observation, reading) == [s \in Slots |-> Entry(observation, s, reading[s])]

\* Mutant of EntryStands: what the observer says it saw is not reproduced.
EntryTrusted(entry, s, observation) == entry.observation = observation

\* assertTransientCloudflareServiceEvidence and its twin: the part is what the responses
\* say, and parseEvidenceSetBinding: it is of this observation
EntryStands(entry, s, observation) ==
  LET account == observation.account IN
  /\ entry.observation = observation
  /\ IF s = NetworkSlot
     THEN /\ NetworkResponsesStand(account, entry.responses)
          /\ entry.part = NetworkObservation(entry.responses)
          /\ entry.part = observation.network
     ELSE /\ ServiceResponsesStand(account, s, entry.responses)
          /\ entry.part = ServiceObservation(s, entry.responses)
          /\ entry.part = observation.services[s]

\* assertCloudflareDeploymentEvidenceSet
EvidenceSetStands(observation, entries) ==
  \A s \in Slots : EntryStands(entries[s], s, observation)

\* sanitizeCloudflareServiceEvidence and its twin: what may be stored has no bodies
Sanitized(s, entry) ==
  [slot |-> s, observation |-> entry.observation, part |-> entry.part]

\* An object of the WORM bucket that holds a sanitized record.
Stored(record, key, version, retained) ==
  [digest |-> record, key |-> key, version |-> version, retained |-> retained]

\* The keys of version 1 are the observer's, those of version 2 a batch's; a key ends in
\* the digest of its object, which the object has anyway.
LegacyKey(observer, s) == [family |-> "legacy", observer |-> observer, slot |-> s]
BatchKey(observer, batch, s) ==
  [family |-> "v2", observer |-> observer, batch |-> batch, slot |-> s]

-----------------------------------------------------------------------------
(* What the broker accepts. *)

\* assertCloudflareObservationMatchesInventory
MatchesInventory(observation, rows, deployments, host) ==
  /\ \A r \in Roles :
       LET observed == observation.services[r] final == FinalOf(deployments[r]) IN
       /\ observed.role = r
       /\ observed.membership = Membership(deployments[r])
       /\ final.version = rows[r].version
       /\ final.code = rows[r].code
       /\ \A m \in deployments[r].members :
            /\ m.version \in DOMAIN observed.versions
            /\ observed.versions[m.version] = [code |-> m.code, record |-> m.record]
  /\ observation.network.domain = host
  /\ observation.network.routes = {}

\* CloudflareDeploymentObserverClient.observe, of the answer to its request
AnswerAccepted(answer, request, account, at) ==
  LET observation == answer.observation rows == request.inventory IN
  /\ answer.executor = rows[Executor].identity
  /\ answer.b2Observer = rows[Observer].identity
  /\ \A s \in Slots :
       /\ answer.stored[s].digest = Sanitized(s, Entry(observation, s, {}))
       /\ answer.stored[s].key = LegacyKey(rows[CloudflareObserver].version, s)
       /\ answer.stored[s].retained >= observation.at + Term
  /\ observation.account = account
  /\ observation.expectation = request.expectation
  /\ observation.phase = request.phase
  /\ observation.observer = rows[CloudflareObserver].identity
  /\ Within(observation.at, at)
  /\ MatchesInventory(observation, rows, request.deployments, request.host)

-----------------------------------------------------------------------------
(* The compact observation of a record. *)

\* compactDeploymentProjection
CompactService(part) ==
  [role |-> part.role, id |-> part.id, membership |-> part.membership,
   versions |-> part.versions, surface |-> part.surface]

\* compactNetworkProjection
CompactNetwork(part) == [domain |-> part.domain, routes |-> part.routes]

\* buildServiceAuthorityObservation, of accepted evidence
Compact(observation, stored, pins, acceptedAt) ==
  [expectation |-> observation.expectation, phase |-> observation.phase,
   observer |-> observation.observer, executor |-> pins.executor, b2Observer |-> pins.b2Observer,
   observedAt |-> observation.at, acceptedAt |-> acceptedAt,
   services |-> [r \in Roles |-> CompactService(observation.services[r])],
   network |-> CompactNetwork(observation.network),
   anchors |-> stored]

\* The members that parseServiceObservationEntry expects of a compact deployment.
ParsedMembership(d) ==
  {[percentage |-> m.percentage, version_id |-> m.version] : m \in d.members}

\* parseServiceObservationEntry and parseVersions, but for the membership
ServiceEntryParses(service, expected) ==
  /\ service.id = expected.id
  /\ service.surface = "closed"
  /\ DOMAIN service.versions = {m.version : m \in expected.members}
  /\ \A m \in expected.members : service.versions[m.version] = [code |-> m.code, record |-> m.record]

\* assertUniqueObservationAnchors and assertCoherentWormKeyFamily
AnchorsStand(anchors, observer, at) ==
  /\ \A s \in Slots :
       /\ anchors[s].key.observer = observer
       /\ anchors[s].key.slot = s
       /\ anchors[s].retained >= at + Term
  /\ \A s, t \in Slots : anchors[s].version = anchors[t].version => s = t
  /\ \/ \A s \in Slots : anchors[s].key.family = "legacy"
     \/ \E batch \in {anchors[s].key.batch : s \in Slots} :
          \A s \in Slots : anchors[s].key.family = "v2" /\ anchors[s].key.batch = batch

\* parseServiceAuthorityObservation, but for the membership of its deployments
ParsesButMembership(compact, doc, deployments, phase) ==
  /\ compact.phase = phase
  /\ compact.expectation = doc
  /\ Within(compact.observedAt, compact.acceptedAt)
  /\ compact.observer = doc.rows[CloudflareObserver].identity
  /\ compact.executor = doc.rows[Executor].identity
  /\ compact.b2Observer = doc.rows[Observer].identity
  /\ \A r \in Roles : ServiceEntryParses(compact.services[r], deployments[r])
  /\ compact.network = [domain |-> doc.host, routes |-> {}]
  /\ AnchorsStand(compact.anchors, doc.rows[CloudflareObserver].version, compact.observedAt)

\* parseServiceAuthorityObservation
CompactParses(compact, doc, deployments, phase) ==
  /\ ParsesButMembership(compact, doc, deployments, phase)
  /\ \A r \in Roles : compact.services[r].membership = ParsedMembership(deployments[r])
=============================================================================
