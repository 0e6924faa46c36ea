-------------------- MODULE MCActivationRecordMaterializer --------------------
(* Four services and the network surface, one of them redeployed on the same  *)
(* version or on another, one valid request and one that expects a deployment *)
(* that is not there, and misstates its code.                                 *)
EXTENDS ActivationRecordV2, TLC

MCRoles == {Ingress, Executor, Observer, CloudflareObserver}

Worker == "worker"

VersionOf(r) == IF r = Ingress THEN Worker ELSE r

Row(r) == [identity |-> Identity("account", r, VersionOf(r)), source |-> "commit",
           code |-> r, version |-> VersionOf(r)]

Final(r, percentage) ==
  [kind |-> "FINAL_AUTHORITY", percentage |-> percentage, record |-> "record",
   code |-> r, version |-> VersionOf(r)]

Deny == [kind |-> "BOOTSTRAP_DENY", percentage |-> 100, record |-> "deny record",
         code |-> "deny", version |-> "deny"]

Deployed(r) == [id |-> r, members |-> {Final(r, 100)}]
CanaryDeployed == [id |-> "canary", members |-> {Deny, Final(Ingress, 0)}]

Document ==
  [account |-> "account", source |-> "commit", host |-> "host",
   rows |-> [r \in Roles |-> Row(r)],
   a0 |-> [r \in Roles |-> IF r = Ingress THEN CanaryDeployed ELSE Deployed(r)],
   a1 |-> [r \in Roles |-> IF r = Ingress THEN [Deployed(r) EXCEPT !.id = NoDeployment]
                           ELSE Deployed(r)]]

Valid(doc) ==
  [doc |-> doc, digest |-> doc,
   broker |-> [account |-> "account", host |-> "host", endpoint |-> "host",
               row |-> Row(Ingress), services |-> [r \in Private |-> Row(r)]],
   apps |-> [r \in Apps |-> [id |-> r, version |-> r]],
   access |-> "access", bucket |-> "bucket"]

\* Of a deployment of the executor that is not there yet, and of other code than it has
Misstated ==
  LET deployment == [id |-> "again", members |-> {[Final(Executor, 100) EXCEPT !.code = "other"]}]
      doc == [Document EXCEPT !.rows[Executor].code = "other",
                              !.a0[Executor] = deployment, !.a1[Executor] = deployment] IN
  [Valid(doc) EXCEPT !.broker.services[Executor].code = "other"]

MCRequests == {Valid(Document), Misstated}

MCTrust == [worker |-> Worker, access |-> "access", account |-> "account"]

\* What a provider says of a version.
Resource(m) == [code |-> m.code, record |-> m.record]

Members == UNION {Deployed(r).members : r \in Roles} \cup {Deny}
Other == [Final(Executor, 100) EXCEPT !.version = "other"]

MCStart ==
  [deployments |-> [r \in Roles |-> <<IF r = Ingress THEN CanaryDeployed ELSE Deployed(r)>>],
   resources |-> [v \in {m.version : m \in Members \cup {Other}} |->
                    Resource(CHOOSE m \in Members \cup {Other} : m.version = v)],
   surface |-> [r \in Roles |-> "closed"], domain |-> "host", routes |-> {}]

MCPromotions == {[id |-> "promoted", members |-> {Final(Ingress, 100)}]}

MCTogether == {{Executor}, {Ingress}, {Observer, CloudflareObserver, NetworkSlot}}

MCExposed == {Observer}

MCRedeployments ==
  [r \in Roles |-> IF r = Executor
     THEN {[id |-> "again", members |-> {Final(Executor, 100)}], [id |-> "other", members |-> {Other}]}
     ELSE {}]

\* The set of a worker that was selected at an instant, in a generation.
SelectionOf(worker, set, at, generation) ==
  LET d == [worker |-> worker, set |-> set, committedAt |-> at]
      s == [state |-> "SELECTED", generation |-> generation, ordinal |-> 1,
            predecessor |-> IF generation = 1 THEN None ELSE "predecessor",
            freshUntil |-> at + SelectionTerm]
      p == [manifest |-> set, worm |-> Stored(set, ManifestKey(d, set), set, at + Term)] IN
  [descriptor |-> d, pointer |-> p, pointerDigest |-> p, projection |-> <<"projection", set>>,
   session |-> s @@ ("id" :> SessionId(d, s))]

MCSelections ==
  {SelectionOf(Worker, "first", 0, 1), SelectionOf(Worker, "second", 1, 2),
   SelectionOf("other", "first", 0, 1)}
=============================================================================
