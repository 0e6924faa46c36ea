--------------------- MODULE ActivationComponentAuthority ---------------------
(***************************************************************************)
(* From a candidate component set to the authority of a provisioning: the  *)
(* validator accepts a set and names its WORM services, its objects and    *)
(* manifest are written and confirmed, a resolver reads them back by the   *)
(* manifest's pointer alone, and the binder mints an authority only of a   *)
(* journal and a resolved set that agree.                                  *)
(* activation-component-{semantic-validator,confirmation,manifest,         *)
(* resolver-*,operation-*}.ts and the contracts under them.                *)
(*                                                                         *)
(* The sessions of a set and the calls of an effect are                    *)
(* ActivationComponentJournal's and WormExactObjectEffect's; here a set is *)
(* judged once and an effect is an upload and the confirmation of exactly  *)
(* one version.  A version's body is "own", the document that the set of   *)
(* its worker has of its object, or another.  The namespace reader and the *)
(* bucket are outside the repository's code.                               *)
(***************************************************************************)
EXTENDS ActivationComponentDocuments

CONSTANTS
  Workers,          \* ingress versions, each with the journal of its set
  Requests,         \* [Workers -> names of the requests its set may be made of]
  Contents,         \* what the requests are, by their names
  Resolvers,        \* resolutions in progress
  Accesses,         \* configurations of the administrators' access
  Account,          \* the configured account
  Bucket,           \* the WORM bucket
  MaxFaults   \* bound of what happens to the bucket from outside

ASSUME AuthorityAssumption ==
  /\ MaxFaults \in Nat
  /\ \A w \in Workers : Requests[w] \subseteq DOMAIN Contents
  /\ \A n \in DOMAIN Contents : Shaped(Contents[n])

VARIABLES
  request,    \* the request each worker's candidate set is normalized from
  journal,    \* the selected set of each worker: its state, pins and results
  versions,   \* the versions in the bucket
  reviewed,   \* whether the bucket's settings are the reviewed ones
  runtime,    \* the deployed configuration: worker version and access
  sources,    \* what each resolution has read
  minted,     \* the authorities the binder minted
  disturbed,  \* the workers whose confirmed objects were disturbed
  faults      \* how much has happened to the bucket from outside

authorityVars ==
  <<request, journal, versions, reviewed, runtime, sources, minted, disturbed, faults>>

Objects == Kinds \cup {"manifest"}
NoObjects == [k \in {} |-> k]
Idle == [pc |-> "idle"]

\* The payloads of every request, and what is reconstructed of them.
Normalized == [n \in DOMAIN Contents |-> Payloads(Contents[n])]
Reconstructed == [n \in DOMAIN Contents |-> Restored(Normalized[n])]

Payload(w) == Normalized[request[w]]

Ids == Workers \X (Objects \cup {"stranger"}) \X Nat

JournalRow == [state : {"OPEN", "SEALED", "REJECTED", "CONFIRMED"}, parsed : BOOLEAN,
               pins : SUBSET {SemanticPins(Payload(w)) : w \in Workers},
               objects : UNION {[K -> [id : Ids, extended : Nat]] : K \in SUBSET Objects}]

Version == [worker : Workers, object : Objects \cup {"stranger"}, id : Ids,
            body : {"own", "other"}, marker : BOOLEAN, latest : BOOLEAN, extended : Nat]

Source == {Idle} \cup [pc : {"manifest", "failed", "resolved"}, worker : Workers,
                       access : Accesses, spoilt : BOOLEAN]

Minted == [journal : Workers, resolved : Workers,
           pins : {OperationPins(Runtime(Payload(w))) : w \in Workers}]

\* The journals, the bucket, the resolutions and what was minted of them.
AuthorityTypeOK ==
  /\ request \in [Workers -> DOMAIN Contents]
  /\ journal \in [Workers -> JournalRow]
  /\ versions \subseteq Version /\ IsFiniteSet(versions)
  /\ reviewed \in BOOLEAN
  /\ runtime \in [worker : Workers, access : Accesses]
  /\ sources \in [Resolvers -> Source]
  /\ minted \subseteq Minted
  /\ disturbed \subseteq Workers
  /\ faults \in Nat

AuthorityInit ==
  /\ request \in [Workers -> UNION {Requests[w] : w \in Workers}]
  /\ \A w \in Workers : request[w] \in Requests[w]
  /\ journal = [w \in Workers |-> [state |-> "OPEN", parsed |-> FALSE, pins |-> {},
                                  objects |-> NoObjects]]
  /\ versions = {}
  /\ reviewed = TRUE
  /\ runtime \in [worker : Workers, access : Accesses]
  /\ sources = [c \in Resolvers |-> Idle]
  /\ minted = {}
  /\ disturbed = {}
  /\ faults = 0

\* Another version of the broker is deployed, or its configuration changes.
Redeploy ==
  /\ runtime' \in [worker : Workers, access : Accesses]
  /\ UNCHANGED <<request, journal, versions, reviewed, sources, minted, disturbed, faults>>

-----------------------------------------------------------------------------
(* The set is accepted, written and confirmed. *)

\* ClosedActivationComponentSetSemanticValidator.validate, by the worker it is deployed
\* as, of payloads built of a parsed request or of one nobody parsed
Judge(w) ==
  LET trust == [account |-> Account, worker |-> w, access |-> runtime.access]
      descriptor == Descriptor(w, Payload(w))
      staged == [k \in Kinds |-> Envelope(descriptor, k)]
      accepted == /\ \A k \in Kinds : EnvelopeParses(staged[k], descriptor)
                  /\ Accepts(PayloadSet(staged), trust) IN
  /\ runtime.worker = w
  /\ journal[w].state = "OPEN"
  /\ journal' = [journal EXCEPT ![w] =
       [@ EXCEPT !.state = IF accepted THEN "SEALED" ELSE "REJECTED",
                 !.parsed = RequestParses(Contents[request[w]], trust),
                 !.pins = IF accepted THEN {SemanticPins(Payload(w))} ELSE {}]]
  /\ UNCHANGED <<request, versions, reviewed, runtime, sources, minted, disturbed, faults>>

DescriptorOf(w) == Descriptor(w, Payload(w))

\* The results that the journal holds of the set's objects.
StoredAs(w, k, body) ==
  Worm(body, <<w, k>>, journal[w].objects[k].id, journal[w].objects[k].extended)

\* buildActivationComponentManifest, of the confirmed components
ManifestOf(w) ==
  LET descriptor == DescriptorOf(w) IN
  Manifest(descriptor, [k \in Kinds |-> StoredAs(w, k, Envelope(descriptor, k))])

\* confirmedActivationComponentJournalAuthority
ConfirmedAuthority(w) ==
  LET manifest == ManifestOf(w) IN
  [descriptor |-> manifest.descriptor, pins |-> journal[w].pins,
   pointer |-> Pointer(manifest, StoredAs(w, "manifest", manifest))]

Body(v) ==
  IF v.body # "own" THEN Foreign
  ELSE IF v.object = "manifest" THEN ManifestOf(v.worker)
  ELSE Envelope(DescriptorOf(v.worker), v.object)

VersionsOf(w, k) == {v \in versions : v.worker = w /\ v.object = k}

\* A new version of an object becomes its latest; the bucket names no two alike.
WithVersion(w, k, body, marker) ==
  {IF v.worker = w /\ v.object = k THEN [v EXCEPT !.latest = FALSE] ELSE v : v \in versions}
    \cup {[worker |-> w, object |-> k, id |-> <<w, k, Cardinality(VersionsOf(w, k))>>,
           body |-> body, marker |-> marker, latest |-> TRUE, extended |-> 0]}

\* The mirror's upload of an object; the manifest's body has every component's version.
Upload(w, k) ==
  /\ journal[w].state = "SEALED"
  /\ k \in Objects \ DOMAIN journal[w].objects
  /\ k = "manifest" => Kinds \subseteq DOMAIN journal[w].objects
  /\ \A v \in VersionsOf(w, k) : v.body # "own"
  /\ versions' = WithVersion(w, k, "own", FALSE)
  /\ UNCHANGED <<request, journal, reviewed, runtime, sources, minted, disturbed, faults>>

\* confirmActivationComponentEnvelopeObject and its twin for the manifest, whose
\* pointer it completes: the only version of the key has the effect's body
Confirm(w, k) ==
  /\ journal[w].state = "SEALED"
  /\ k \notin DOMAIN journal[w].objects
  /\ \E v \in VersionsOf(w, k) :
       /\ VersionsOf(w, k) = {v}
       /\ v.body = "own"
       /\ ~ v.marker
       /\ journal' = [journal EXCEPT
            ![w].objects = [o \in DOMAIN @ \cup {k} |->
               IF o = k THEN [id |-> v.id, extended |-> v.extended] ELSE @[o]],
            ![w].state = IF k = "manifest" THEN "CONFIRMED" ELSE @]
  /\ UNCHANGED <<request, versions, reviewed, runtime, sources, minted, disturbed, faults>>

-----------------------------------------------------------------------------
(* What happens to the bucket from outside. *)

Fault ==
  /\ faults < MaxFaults
  /\ faults' = faults + 1
  /\ UNCHANGED <<request, journal, runtime, sources, minted>>

\* A late copy of an upload, another body, a hide marker, or an object of another name.
Disturb(w) ==
  /\ Fault
  /\ \E k \in Objects \cup {"stranger"}, body \in {"own", "other"}, marker \in BOOLEAN :
       /\ body = "own" => ~ marker /\ \E v \in VersionsOf(w, k) : v.body = "own"
       /\ versions' = WithVersion(w, k, body, marker)
  /\ disturbed' = disturbed \cup {w}
  /\ UNCHANGED reviewed

\* A compliance lock may be extended; a version that is reported later is reported so.
Extend ==
  /\ Fault
  /\ \E v \in versions :
       /\ versions' = (versions \ {v}) \cup {[v EXCEPT !.extended = @ + 1]}
       /\ disturbed' = IF v.object \in DOMAIN journal[v.worker].objects
                       THEN disturbed \cup {v.worker} ELSE disturbed
  /\ UNCHANGED reviewed

\* The bucket's settings are no longer the reviewed ones.
Reconfigure ==
  /\ Fault
  /\ reviewed' = FALSE
  /\ UNCHANGED <<versions, disturbed>>

-----------------------------------------------------------------------------
(* A resolution: the manifest's namespace, then the components'. *)

\* sameWorm, with the digest of the body
SameWorm(v, worm) == Worm(Body(v), <<v.worker, v.object>>, v.id, v.extended) = worm

\* Mutant of Exact: further versions in the namespace are ignored.
ExactAmongOthers(listing, worms) ==
  \A worm \in worms : \E v \in listing : SameWorm(v, worm) /\ v.latest /\ ~ v.marker

\* resolveExactActivationComponentNamespace
Exact(listing, worms) ==
  /\ Cardinality(listing) = Cardinality(worms)
  /\ \A v \in listing : v.latest /\ ~ v.marker /\ \E worm \in worms : SameWorm(v, worm)
  /\ \A worm \in worms : \E v \in listing : SameWorm(v, worm)

ManifestNamespace(descriptor) == VersionsOf(descriptor.worker, "manifest")
ComponentNamespace(descriptor) ==
  {v \in versions : v.worker = descriptor.worker /\ v.object # "manifest"}

\* resolvedManifest
ManifestResolves(listing, pointer) ==
  LET manifest == Body(CHOOSE v \in listing : TRUE) IN
  /\ ManifestParses(manifest)
  /\ manifest = pointer.manifest

\* readResolverAuthority to the manifest, of the pointer of one worker's set; what an
\* earlier resolution answered is let go
ReadManifest(c, w) ==
  LET pointer == ConfirmedAuthority(w).pointer
      listing == ManifestNamespace(pointer.manifest.descriptor) IN
  /\ sources[c].pc # "manifest"
  /\ journal[w].state = "CONFIRMED"
  /\ sources' = [sources EXCEPT ![c] =
       [pc |-> IF /\ PointerParses(pointer)
                  /\ reviewed
                  /\ Exact(listing, {pointer.worm})
                  /\ ManifestResolves(listing, pointer)
               THEN "manifest" ELSE "failed",
        worker |-> w, access |-> runtime.access, spoilt |-> w \in disturbed]]
  /\ UNCHANGED <<request, journal, versions, reviewed, runtime, minted, disturbed, faults>>

\* The pointer that a resolution was given, and the manifest it has read.
PointerOf(s) == ConfirmedAuthority(s.worker).pointer

\* The bodies that a resolution was answered, by the kind of their keys.
BodiesOf(listing) ==
  [k \in Kinds |-> Body(CHOOSE v \in listing : v.object = k)]

\* Mutant of HistoricalTrust: the deployed worker's configuration as it is.
DeployedTrust(s) == [account |-> Account, worker |-> runtime.worker, access |-> s.access]

\* historicalActivationComponentResolverTrust
HistoricalTrust(s) == [account |-> Account, worker |-> s.worker, access |-> s.access]

\* finalizeResolverAuthority, of the components' namespace, in the bucket they name
Finalizes(s, listing) ==
  LET manifest == PointerOf(s).manifest
      bodies == BodiesOf(listing)
      payloads == PayloadSet(bodies) IN
  /\ EnvelopesParse(bodies, manifest)
  /\ Accepts(payloads, HistoricalTrust(s))
  /\ payloads.bucket = Bucket

\* The second half of readResolverAuthority
ReadComponents(c) ==
  LET s == sources[c]
      pointer == PointerOf(s)
      listing == ComponentNamespace(pointer.manifest.descriptor) IN
  /\ s.pc = "manifest"
  /\ sources' = [sources EXCEPT ![c].pc =
       IF /\ reviewed
          /\ Exact(listing, {pointer.manifest.entries[k].worm : k \in Kinds})
          /\ \A v \in listing : v.id # pointer.worm.version
          /\ Finalizes(s, listing)
       THEN "resolved" ELSE "failed"]
  /\ UNCHANGED <<request, journal, versions, reviewed, runtime, minted, disturbed, faults>>

\* resolvedValue: what snapshots of the resolved set are replayed to
ProjectionOf(s) == Projection(Payload(s.worker), PointerOf(s))

-----------------------------------------------------------------------------
(* The binder. *)

\* Mutant of SameSet: the two are compared by their pins alone.
SamePins(authority, projection) == TRUE

\* deriveProvisionAuthority: the journal and the projection are of one set
SameSet(authority, projection) ==
  /\ authority.descriptor = projection.descriptor
  /\ authority.pointer = projection.pointer

\* assertJournalPins
SameJournalPins(authority, projection) ==
  authority.pins = {OperationPins(projection.runtime)}

\* bindActivationProvisionAuthority, of a resolved set and a worker's confirmed journal
Bind(c, w) ==
  LET s == sources[c]
      authority == ConfirmedAuthority(w)
      projection == ProjectionOf(s) IN
  /\ s.pc = "resolved"
  /\ journal[w].state = "CONFIRMED"
  /\ SameSet(authority, projection)
  /\ PinStands(projection.runtime, Executor)
  /\ PinStands(projection.runtime, Observer)
  /\ SameJournalPins(authority, projection)
  /\ minted' = minted \cup
       {[journal |-> w, resolved |-> s.worker, pins |-> OperationPins(projection.runtime)]}
  /\ UNCHANGED <<request, journal, versions, reviewed, runtime, sources, disturbed, faults>>

AuthorityNext ==
  \/ Redeploy \/ Extend \/ Reconfigure
  \/ \E w \in Workers :
       \/ Judge(w) \/ Disturb(w)
       \/ \E k \in Objects : Upload(w, k) \/ Confirm(w, k)
  \/ \E c \in Resolvers :
       \/ ReadComponents(c)
       \/ \E w \in Workers : ReadManifest(c, w) \/ Bind(c, w)

AuthoritySpec == AuthorityInit /\ [][AuthorityNext]_authorityVars

-----------------------------------------------------------------------------
(* Properties. *)

\* buildActivationComponentPayloads and validateAndReconstructActivationComponentSet:
\* what provision would accept is accepted as components, and is what they reconstruct.
RoundTrip ==
  \A w \in Workers : journal[w].parsed =>
    /\ journal[w].state # "REJECTED"
    /\ Reconstructed[request[w]] = Contents[request[w]]

\* bindActivationProvisionAuthority: an authority is of the objects its journal
\* confirmed, and its pins are the versions that serve all traffic of their services.
AuthoritiesAgree ==
  \A m \in minted :
    LET doc == Reconstructed[request[m.journal]].doc IN
    /\ journal[m.resolved].objects = journal[m.journal].objects
    /\ \A d \in {doc.a0, doc.a1} :
         /\ {n.version : n \in d[Executor].members} = {m.pins.executor.version}
         /\ {n.version : n \in d[Observer].members} = {m.pins.observer.version}

\* historicalActivationComponentResolverTrust: whatever version is deployed, a confirmed
\* set is resolved, but for a cause: its objects were disturbed, the bucket's settings
\* or the administrators' access changed, or the set names another bucket.
FailsForCause ==
  \A c \in Resolvers : sources[c].pc = "failed" =>
    \/ sources[c].worker \in disturbed
    \/ ~ reviewed
    \/ sources[c].access # Contents[request[sources[c].worker]].access
    \/ Contents[request[sources[c].worker]].bucket # Bucket

\* resolveExactActivationComponentNamespace: no set is resolved by a call that began
\* after one of its objects was shadowed, copied, hidden, joined or extended.
ResolvedWasExact ==
  \A c \in Resolvers : sources[c].pc = "resolved" => ~ sources[c].spoilt
=============================================================================
