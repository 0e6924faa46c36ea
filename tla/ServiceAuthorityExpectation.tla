--------------------- MODULE ServiceAuthorityExpectation ---------------------
(***************************************************************************)
(* The service authority expectation of an activation and its component    *)
(* payloads: the inventory of Worker versions, the deployments expected    *)
(* before (A0) and after (A1) the ingress is promoted, how they are bound  *)
(* to each other and to the broker, how a parsed provision request is      *)
(* normalized into payloads that say each thing once, and how the request  *)
(* is reconstructed from them.                                             *)
(* broker/src/service-authority*.ts, activation-component-payload-*.ts,    *)
(* activation-component-authority-reconstruction.ts.                       *)
(*                                                                         *)
(* A digest is the document it is of.  Rows are by role, so a row's        *)
(* service, binding and place are its role's.  "code" stands for the three *)
(* digests of a version's configuration, source and resources, "record"    *)
(* for its provisioning record and etag, "access" for the administrators'  *)
(* access, which the configuration names too, and "bucket" for the bucket  *)
(* of the B2 document.  Documents that are bound to nothing here (OIDC,    *)
(* governance, publishers, the rest of the broker) are left out.           *)
(***************************************************************************)
EXTENDS Integers, FiniteSets

CONSTANTS
  Roles,   \* SERVICE_AUTHORITY_ROLES
  Apps     \* the private roles with a GitHub App

Ingress == "release_authority_ingress"
Executor == "worm_mirror"
Observer == "worm_version_observer"
Private == Roles \ {Ingress}

ASSUME RolesAssumption ==
  /\ {Ingress, Executor, Observer} \subseteq Roles
  /\ Apps \subseteq Private

NoDeployment == "null"

-----------------------------------------------------------------------------
(* The expectation. *)

Identity(account, r, version) == <<account, r, version>>

\* parseServiceAuthorityInventory
InventoryParses(rows, account) ==
  /\ \A r \in Roles : rows[r].identity = Identity(account, r, rows[r].version)
  /\ \A r, s \in Roles : rows[r].version = rows[s].version => r = s

IsFinal(m) == m.kind = "FINAL_AUTHORITY"

\* The ingress before its promotion: the deny version serves, the final one waits.
Canary(members) ==
  \E deny, final \in members :
    /\ members = {deny, final}
    /\ deny.kind = "BOOTSTRAP_DENY" /\ deny.percentage = 100
    /\ IsFinal(final) /\ final.percentage = 0

Whole(members) ==
  \E final \in members :
    /\ members = {final}
    /\ IsFinal(final) /\ final.percentage = 100

\* parseExpectedServiceDeployments
DeploymentsParse(deployments, phase) ==
  \A r \in Roles :
    LET members == deployments[r].members IN
    /\ Cardinality({m.version : m \in members}) = Cardinality(members)
    /\ IF phase = "A0_PRE" /\ r = Ingress THEN Canary(members) ELSE Whole(members)
    /\ deployments[r].id = NoDeployment => phase = "A1_PRECOMMIT" /\ r = Ingress

FinalOf(deployment) == CHOOSE m \in deployment.members : IsFinal(m)

Immutable(m) == [code |-> m.code, record |-> m.record, version |-> m.version]

\* crossBindExpectedDeployments
CrossBound(rows, a0, a1) ==
  \A r \in Roles :
    /\ Immutable(FinalOf(a0[r])) = Immutable(FinalOf(a1[r]))
    /\ IF r = Ingress THEN a1[r].id = NoDeployment ELSE a0[r].id = a1[r].id
    /\ FinalOf(a1[r]).version = rows[r].version
    /\ FinalOf(a1[r]).code = rows[r].code

\* parseServiceAuthorityExpectation
ExpectationParses(doc, digest, account, source) ==
  /\ doc.account = account
  /\ doc.source = source
  /\ InventoryParses(doc.rows, account)
  /\ \A r \in Roles : doc.rows[r].source = source
  /\ DeploymentsParse(doc.a0, "A0_PRE")
  /\ DeploymentsParse(doc.a1, "A1_PRECOMMIT")
  /\ CrossBound(doc.rows, doc.a0, doc.a1)
  /\ digest = doc

\* assertServiceAuthorityExpectationMatchesBroker
MatchesBroker(doc, broker) ==
  /\ doc.host = broker.host
  /\ broker.endpoint = broker.host
  /\ doc.rows[Ingress] = broker.row
  /\ \A r \in Private : doc.rows[r] = broker.services[r]

-----------------------------------------------------------------------------
(* The request. *)

Has(x, fields) == x = [f \in fields |-> x[f]]

RowShaped(row) == Has(row, {"identity", "source", "code", "version"})

DeploymentsShaped(deployments) ==
  /\ Has(deployments, Roles)
  /\ \A r \in Roles :
       /\ Has(deployments[r], {"id", "members"})
       /\ \A m \in deployments[r].members :
            IsFinal(m) => Has(m, {"kind", "percentage", "record", "code", "version"})

\* ProvisionRequest: what a request is made of, accepted or not.
Shaped(q) ==
  /\ Has(q, {"doc", "digest", "broker", "apps", "access", "bucket"})
  /\ Has(q.doc, {"account", "source", "rows", "a0", "a1", "host"})
  /\ Has(q.broker, {"account", "host", "endpoint", "row", "services"})
  /\ Has(q.broker.services, Private)
  /\ Has(q.apps, Apps)
  /\ RowShaped(q.doc.rows[Ingress])
  /\ DeploymentsShaped(q.doc.a0) /\ DeploymentsShaped(q.doc.a1)
  /\ \A r \in Apps : Has(q.apps[r], {"id", "version"})

\* validateBroker and validatePrivateServices
BrokerValid(broker) ==
  /\ broker.endpoint = broker.host
  /\ broker.row.identity = Identity(broker.account, Ingress, broker.row.version)
  /\ \A r \in Private :
       /\ broker.services[r].source = broker.row.source
       /\ broker.services[r].identity =
            Identity(broker.account, r, broker.services[r].version)

\* validateApps
AppsValid(apps, broker) ==
  /\ \A r \in Apps : apps[r].version = broker.services[r].version
  /\ \A r, s \in Apps : apps[r].id = apps[s].id => r = s

\* What provision accepts of a request, under the configuration of one broker version.
RequestParses(q, trust) ==
  /\ BrokerValid(q.broker)
  /\ q.broker.row.version = trust.worker
  /\ AppsValid(q.apps, q.broker)
  /\ q.access = trust.access
  /\ ExpectationParses(q.doc, q.digest, trust.account, q.broker.row.source)
  /\ MatchesBroker(q.doc, q.broker)

-----------------------------------------------------------------------------
(* The payloads. *)

\* normalizeDeployment of a member: a final one is the inventory's row
NormalMember(m) ==
  IF IsFinal(m) THEN [kind |-> m.kind, percentage |-> m.percentage, record |-> m.record]
  ELSE m

NormalDeployments(deployments) ==
  [r \in Roles |-> [id |-> deployments[r].id,
                    members |-> {NormalMember(m) : m \in deployments[r].members}]]

\* buildActivationComponentPayloads, after its checks
Payloads(q) ==
  [header |-> [account |-> q.doc.account, source |-> q.doc.source, digest |-> q.digest],
   inventory |-> q.doc.rows,
   a0 |-> NormalDeployments(q.doc.a0),
   a1 |-> NormalDeployments(q.doc.a1),
   network |-> q.doc.host,
   core |-> [host |-> q.broker.host, endpoint |-> q.broker.endpoint],
   apps |-> [r \in Apps |-> q.apps[r].id],
   access |-> q.access,
   bucket |-> q.bucket]

\* reconstructFinalMember
RestoredMember(m, row) ==
  IF IsFinal(m)
  THEN [kind |-> m.kind, percentage |-> m.percentage, record |-> m.record,
        code |-> row.code, version |-> row.version]
  ELSE m

RestoredDeployments(deployments, rows) ==
  [r \in Roles |-> [id |-> deployments[r].id,
                    members |-> {RestoredMember(m, rows[r]) : m \in deployments[r].members}]]

RestoredDocument(p) ==
  [account |-> p.header.account, source |-> p.header.source, rows |-> p.inventory,
   a0 |-> RestoredDeployments(p.a0, p.inventory),
   a1 |-> RestoredDeployments(p.a1, p.inventory),
   host |-> p.network]

\* reconstructBroker
RestoredBroker(p) ==
  [account |-> p.header.account, host |-> p.core.host, endpoint |-> p.core.endpoint,
   row |-> [p.inventory[Ingress] EXCEPT !.source = p.header.source],
   services |-> [r \in Private |-> p.inventory[r]]]

\* reconstructApps
RestoredApps(p) ==
  [r \in Apps |-> [id |-> p.apps[r], version |-> p.inventory[r].version]]

\* The request that validateAndReconstructActivationComponentSet goes on with.
Restored(p) ==
  [doc |-> RestoredDocument(p), digest |-> p.header.digest, broker |-> RestoredBroker(p),
   apps |-> RestoredApps(p), access |-> p.access, bucket |-> p.bucket]

\* validateAndReconstructActivationComponentSet, under the configuration of one broker version
Accepts(p, trust) ==
  LET q == Restored(p) IN
  /\ p.header.account = trust.account
  /\ InventoryParses(p.inventory, trust.account)
  /\ p.inventory[Ingress].version = trust.worker
  /\ ExpectationParses(q.doc, q.digest, trust.account, p.header.source)
  /\ MatchesBroker(q.doc, q.broker)
  /\ BrokerValid(q.broker)
  /\ AppsValid(q.apps, q.broker)
  /\ q.access = trust.access

-----------------------------------------------------------------------------
(* The pins. *)

PinOf(row) == [identity |-> row.identity, version |-> row.version]

\* semanticWormPins
SemanticPins(p) ==
  [executor |-> PinOf(p.inventory[Executor]), observer |-> PinOf(p.inventory[Observer])]

\* privateServiceProjection, in the runtime part of the resolver's projection
Runtime(p) ==
  [account |-> p.header.account, services |-> [r \in Private |-> PinOf(p.inventory[r])]]

\* servicePin: a projected pin must be of its role and account
PinStands(runtime, r) ==
  runtime.services[r].identity = Identity(runtime.account, r, runtime.services[r].version)

\* deriveActivationProvisionOperationProjection
OperationPins(runtime) ==
  [executor |-> runtime.services[Executor], observer |-> runtime.services[Observer]]
=============================================================================
