---------------------- MODULE ActivationComponentDocuments ----------------------
(***************************************************************************)
(* The documents of a component set: its descriptor, the envelope of each  *)
(* component, the manifest of what the bucket stored of them, the pointer  *)
(* to the manifest, and what a resolver makes of them when it reads them   *)
(* back.  activation-component-{descriptor,envelope,manifest*,payload-*,   *)
(* resolver-validation,resolver-projection}.ts.                            *)
(*                                                                         *)
(* A digest is the document it is of, so a document holds those it names.  *)
(* A key is the worker and the object, since every id in it is a digest of *)
(* what the worker selected; the instant a set was committed is left out,  *)
(* since ActivationComponentJournal lets no worker select two sets.        *)
(***************************************************************************)
EXTENDS ServiceAuthorityExpectation

CONSTANTS
  Kinds,    \* ACTIVATION_COMPONENT_KINDS
  FieldsOf  \* [Kinds -> the parts of the payloads each kind carries]

ASSUME KindsAssumption ==
  /\ IsFiniteSet(Kinds) /\ Kinds # {}
  /\ Kinds \cap {"manifest", "stranger"} = {}
  /\ UNION {FieldsOf[k] : k \in Kinds} =
       {"header", "inventory", "a0", "a1", "network", "core", "apps", "access", "bucket"}

\* A document that is not of its key.
Foreign == [descriptor |-> "foreign"]

ComponentKey(descriptor, k) == <<descriptor.worker, k>>
ManifestKey(descriptor) == <<descriptor.worker, "manifest">>

\* orderedDigestRoster, of one payload for every kind
Roster(p) == [k \in Kinds |-> [f \in FieldsOf[k] |-> p[f]]]

\* buildActivationComponentSetDescriptor
Descriptor(w, p) == [worker |-> w, components |-> Roster(p)]

\* buildActivationComponentEnvelope
Envelope(descriptor, k) ==
  [descriptor |-> descriptor, kind |-> k, payload |-> descriptor.components[k]]

\* parseActivationComponentEnvelope: rebuilt of the descriptor, a body is itself
EnvelopeParses(body, descriptor) ==
  /\ body.descriptor = descriptor
  /\ body = Envelope(descriptor, body.kind)

\* parseActivationComponentPayloadSet: every kind's payload, of its envelope
PayloadSet(bodies) ==
  [f \in UNION {FieldsOf[k] : k \in Kinds} |->
     bodies[CHOOSE k \in Kinds : f \in FieldsOf[k]].payload[f]]

\* A stored version of a document, as receipts name it.
Worm(body, key, version, extended) ==
  [digest |-> body, key |-> key, version |-> version, extended |-> extended]

\* assembleActivationComponentManifest
Manifest(descriptor, worms) ==
  [descriptor |-> descriptor,
   entries |-> [k \in Kinds |-> [envelope |-> Envelope(descriptor, k), worm |-> worms[k]]]]

\* assertUniqueActivationComponentWorms
DistinctVersions(entries) ==
  \A k, l \in DOMAIN entries : entries[k].worm.version = entries[l].worm.version => k = l

\* parseActivationComponentManifest
ManifestParses(manifest) ==
  /\ DOMAIN manifest.entries = Kinds
  /\ \A k \in Kinds :
       /\ manifest.entries[k].worm.digest = manifest.entries[k].envelope
       /\ manifest.entries[k].worm.key = ComponentKey(manifest.descriptor, k)
  /\ DistinctVersions(manifest.entries)

\* buildActivationComponentManifestPointer
Pointer(manifest, worm) == [manifest |-> manifest, worm |-> worm]

\* parseActivationComponentManifestPointer and assertActivationComponentManifestKey
PointerParses(pointer) ==
  /\ pointer.worm.digest = pointer.manifest
  /\ pointer.worm.key = ManifestKey(pointer.manifest.descriptor)

\* parseActivationComponentResolverEnvelopes
EnvelopesParse(bodies, manifest) ==
  \A k \in Kinds :
    /\ EnvelopeParses(bodies[k], manifest.descriptor)
    /\ bodies[k].kind = k
    /\ bodies[k] = manifest.entries[k].envelope
    /\ manifest.entries[k].worm.key = ComponentKey(manifest.descriptor, k)

\* buildActivationComponentResolverProjection
Projection(p, pointer) ==
  [descriptor |-> pointer.manifest.descriptor, pointer |-> pointer, runtime |-> Runtime(p)]
=============================================================================
