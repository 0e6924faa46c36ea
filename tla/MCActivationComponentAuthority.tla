-------------------- MODULE MCActivationComponentAuthority --------------------
(* Two broker versions: the set of one is made of any of the requests below,  *)
(* which differ from a valid one in a field or in two, the other's is valid.  *)
EXTENDS ActivationComponentAuthority, Sequences, TLC

CONSTANTS One, Two

MCRoles == {Ingress, Executor, Observer, "controller_run_reader", "governance_reader"}
MCApps == {"controller_run_reader", "governance_reader"}

VersionOf(w, r) == IF r = Ingress THEN w ELSE r

Row(w, r) == [identity |-> Identity(Account, r, VersionOf(w, r)), source |-> "commit",
              code |-> r, version |-> VersionOf(w, r)]

Final(w, r, percentage) ==
  [kind |-> "FINAL_AUTHORITY", percentage |-> percentage, record |-> "record",
   code |-> r, version |-> VersionOf(w, r)]

Deny == [kind |-> "BOOTSTRAP_DENY", percentage |-> 100, record |-> "deny record",
         code |-> "deny", version |-> "deny"]

Deployment(w, r, phase) ==
  CASE r # Ingress -> [id |-> r, members |-> {Final(w, r, 100)}]
    [] phase = "A0" -> [id |-> "canary", members |-> {Deny, Final(w, r, 0)}]
    [] OTHER -> [id |-> NoDeployment, members |-> {Final(w, r, 100)}]

Document(w) ==
  [account |-> Account, source |-> "commit", host |-> "host",
   rows |-> [r \in Roles |-> Row(w, r)],
   a0 |-> [r \in Roles |-> Deployment(w, r, "A0")],
   a1 |-> [r \in Roles |-> Deployment(w, r, "A1")]]

Valid(w) ==
  [doc |-> Document(w), digest |-> Document(w),
   broker |-> [account |-> Account, host |-> "host", endpoint |-> "host",
               row |-> Row(w, Ingress), services |-> [r \in Private |-> Row(w, r)]],
   apps |-> [r \in Apps |-> [id |-> r, version |-> r]],
   access |-> "access", bucket |-> Bucket]

At(path, value) == [path |-> path, value |-> value]

\* What is changed of a document, and its digest with it,
DocumentEdits(w) ==
  <<At(<<"account">>, "other"), At(<<"source">>, "other"), At(<<"host">>, "other"),
   At(<<"rows", Executor, "identity">>, Identity(Account, Observer, Executor)),
   At(<<"rows", Executor, "code">>, "other"),
   At(<<"rows", Executor, "source">>, "other"),
   At(<<"rows", Ingress>>, Row(Two, Ingress)),
   At(<<"a0", Executor, "id">>, "other"),
   At(<<"a1", Ingress, "id">>, "canary"),
   At(<<"a0", Ingress, "members">>, {Deny, Final(w, Ingress, 10)}),
   At(<<"a0", Ingress, "members">>, {Deny}),
   At(<<"a0", Ingress, "members">>, {Final(w, Ingress, 100)}),
   At(<<"a1", Ingress, "members">>, {Final(w, Ingress, 0)}),
   At(<<"a0", Executor, "members">>, {[Final(w, Executor, 100) EXCEPT !.record = "other"]}),
   At(<<"a0", Ingress, "members">>, {Deny, [Final(w, Ingress, 0) EXCEPT !.record = "other"]}),
   At(<<"a0", Executor, "members">>, {[Final(w, Executor, 100) EXCEPT !.version = "other"]}),
   At(<<"a1", Executor, "members">>, {[Final(w, Executor, 100) EXCEPT !.code = "other"]}),
   At(<<"a0", Ingress, "members">>, {[Deny EXCEPT !.version = w], Final(w, Ingress, 0)})>>

\* or of the rest of a request.
RequestEdits(w) ==
  <<At(<<"digest">>, Document(Two)),
   At(<<"broker", "endpoint">>, "other"),
   At(<<"broker", "row">>, Row(Two, Ingress)),
   At(<<"broker", "services", Executor>>, Row(w, Observer)),
   At(<<"apps", "governance_reader", "version">>, "other"),
   At(<<"apps", "governance_reader", "id">>, "controller_run_reader"),
   At(<<"bucket">>, "other"),
   At(<<"doc", "a0", Executor>>, Deployment(w, Observer, "A0"))>>

Edit(x, e) ==
  LET p == e.path IN
  CASE Len(p) = 1 -> [x EXCEPT ![p[1]] = e.value]
    [] Len(p) = 2 -> [x EXCEPT ![p[1]][p[2]] = e.value]
    [] Len(p) = 3 -> [x EXCEPT ![p[1]][p[2]][p[3]] = e.value]

EditDocument(x, e) == LET doc == Edit(x.doc, e) IN [x EXCEPT !.doc = doc, !.digest = doc]

Edited(w) ==
  LET q == Valid(w) IN
  [i \in DOMAIN DocumentEdits(w) |-> EditDocument(q, DocumentEdits(w)[i])] \o
  [i \in DOMAIN RequestEdits(w) |-> Edit(q, RequestEdits(w)[i])]

\* One kind for the authorities of the services, one for the rest.
MCFieldsOf ==
  ("k1" :> {"header", "inventory", "a0", "a1", "network"}) @@
  ("k2" :> {"core", "apps", "access", "bucket"})

MCWorkers == {One, Two}
\* The first request is the other worker's.
MCContents == <<Valid(Two), Valid(One)>> \o Edited(One)
MCRequests == (One :> 2..Len(MCContents)) @@ (Two :> {1})
=============================================================================
