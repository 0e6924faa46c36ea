---------------------- MODULE ActivationComponentJournal ----------------------
(***************************************************************************)
(* The component journal of one worker version: sessions in which a set of *)
(* components is staged envelope by envelope, the selection of one of them *)
(* whose effects are sealed, and the manifest made of their results.       *)
(* broker/src/activation-component-journal-*.ts.                           *)
(*                                                                         *)
(* A call loads the session, awaits (digests, the validator), and then     *)
(* runs its transaction; in between every other call may run.  So a call   *)
(* is a start and a commit, calls[c] holding what it read.  A call that is *)
(* refused, or whose answer nobody awaits, changes nothing: Drop.          *)
(*                                                                         *)
(* A session is its journal_ordinal (UNIQUE, part of its id).  A terminal  *)
(* code goes with its state one to one and is left out, as are the bytes   *)
(* of a descriptor (its set and committed_at), of an envelope (determined  *)
(* by descriptor and kind) and of an effect (envelope and pins).  A result *)
(* that fits its effect is known by its version id.                        *)
(***************************************************************************)
EXTENDS Integers, FiniteSets

CONSTANTS
  Callers,         \* calls in flight at once
  Sets,            \* component sets: a roster of payload digests each
  ComponentKinds,  \* ACTIVATION_COMPONENT_KINDS
  Pins,            \* executor and observer pins
  PinsOf,          \* [Sets -> Pins], the WORM authorities a set names
  Versions,        \* version ids the provider reports
  Ttl,             \* ACTIVATION_COMPONENT_JOURNAL_TTL_MS
  MaxLive,         \* ACTIVATION_COMPONENT_JOURNAL_MAX_LIVE_SESSIONS
  MaxLifetime,     \* ACTIVATION_COMPONENT_JOURNAL_MAX_LIFETIME_SESSIONS
  MaxClock         \* bound of the clock

ASSUME ComponentAssumption ==
  /\ PinsOf \in [Sets -> Pins]
  /\ Ttl \in Nat
  /\ MaxLive \in Nat
  /\ MaxLifetime \in Nat \ {0}
  /\ MaxClock \in Nat
  /\ IsFiniteSet(ComponentKinds) /\ ComponentKinds # {}
  /\ "manifest" \notin ComponentKinds

VARIABLES
  clock,      \* now()
  sessions,   \* activation_component_sessions_v2, by ordinal
  entries,    \* activation_component_session_entries_v2, by session
  selection,  \* activation_component_selection_v2
  manifest,   \* activation_component_manifest_authority_v2: at most one row
  calls,      \* what each call read before it awaited
  handed      \* the plans that were answered

componentVars == <<clock, sessions, entries, selection, manifest, calls, handed>>

Ordinals == 1 .. MaxLifetime

NoSession == [state |-> "NONE"]
NoEntries == [k \in {} |-> k]
NoManifest == [status |-> "NONE"]
NoCall == [op |-> "idle"]

SessionState == {"PROVISIONAL", "STAGED", "SELECTED", "REJECTED", "ABANDONED", "SUPERSEDED"}

Session == [set : Sets, generation : Ordinals, predecessor : {0} \cup Ordinals,
            committed : 0 .. MaxClock, state : SessionState]

Entry == [status : {"EXPECTED", "STAGED", "SEALED", "CONFIRMED"},
          pins : SUBSET Pins, result : SUBSET Versions]

SelectionState == {"OPEN", "COMPONENT_EFFECTS_SEALED", "COMPONENTS_CONFIRMED",
                   "MANIFEST_EFFECT_SEALED", "CONFIRMED", "HOLD"}

Selection == [state : SelectionState, session : {0} \cup Ordinals, pins : SUBSET Pins,
              hold : {"none", "components", "manifest"}]

ManifestRow == [status : {"SEALED", "RESULT_CONFIRMED", "CONFIRMED"}, session : Ordinals,
             objects : [ComponentKinds -> Versions], pins : SUBSET Pins, result : SUBSET Versions]

\* The rows of a session's entries, or none of them.
EntryRows == [ComponentKinds -> Entry] \cup {NoEntries}

\* What a call has read.
Views == [row : Session \cup {NoSession}, entries : EntryRows, selection : Selection]

\* A call between what admitted it and its transaction.
Call ==
  {NoCall}
  \cup [op : {"create"}, set : Sets, generation : Ordinals, predecessor : {0} \cup Ordinals,
        committed : 0 .. MaxClock, ordinal : Ordinals]
  \cup [op : {"abandon", "validate", "seal", "manifest"}, session : Ordinals, seen : Views]
  \cup [op : {"stage"}, session : Ordinals, kind : ComponentKinds]
  \cup [op : {"confirm"}, session : Ordinals, kind : ComponentKinds, version : Versions,
         seen : Views]
  \cup [op : {"pointer"}, session : Ordinals, version : Versions, row : ManifestRow, seen : Views]

\* The tables, the calls in flight and the plans handed out.
ComponentTypeOK ==
  /\ clock \in 0 .. MaxClock
  /\ sessions \in [Ordinals -> Session \cup {NoSession}]
  /\ entries \in [Ordinals -> EntryRows]
  /\ selection \in Selection
  /\ manifest \in ManifestRow \cup {NoManifest}
  /\ calls \in [Callers -> Call]
  /\ handed \subseteq Ordinals \X Sets \X SUBSET Pins

ComponentInit ==
  /\ clock = 0
  /\ sessions = [o \in Ordinals |-> NoSession]
  /\ entries = [o \in Ordinals |-> NoEntries]
  /\ selection = [state |-> "OPEN", session |-> 0, pins |-> {}, hold |-> "none"]
  /\ manifest = NoManifest
  /\ calls = [c \in Callers |-> NoCall]
  /\ handed = {}

\* The clock is a server's: it may be set back.
SetClock ==
  /\ \E t \in 0 .. MaxClock : clock' = t
  /\ UNCHANGED <<sessions, entries, selection, manifest, calls, handed>>

-----------------------------------------------------------------------------
(* Reading the journal. *)

Issued == {o \in Ordinals : sessions[o] # NoSession}

NextOrdinal == CHOOSE n \in 1 .. MaxLifetime + 1 :
                 /\ \A o \in Issued : o < n
                 /\ n = 1 \/ n - 1 \in Issued

LiveState == {"PROVISIONAL", "STAGED"}
TerminalState == {"REJECTED", "ABANDONED", "SUPERSEDED"}

Live == {o \in Issued : sessions[o].state \in LiveState}

FreshUntil(o) == sessions[o].committed + Ttl
Expired(o) == clock > FreshUntil(o)
Stale == {o \in Live : Expired(o)}

Initial(s) == {o \in Issued : sessions[o].set = s /\ sessions[o].generation = 1}
Successor(p) == {o \in Issued : sessions[o].predecessor = p}

\* The row of session o, its entries and the selection, as load reads them.
View(o) == [row |-> sessions[o], entries |-> entries[o], selection |-> selection]

Statuses(o) == {entries[o][k].status : k \in DOMAIN entries[o]}

HasRoster(o) == DOMAIN entries[o] = ComponentKinds

PredecessorReads(o) ==
  LET s == sessions[o]
      p == sessions[s.predecessor]
  IN IF s.predecessor = 0 THEN s.generation = 1
     ELSE /\ s.generation > 1
          /\ s.predecessor \in Issued
          /\ p.generation = s.generation - 1
          /\ p.state = "ABANDONED"
          /\ p.set = s.set
          /\ s.committed > p.committed + Ttl
          /\ o > s.predecessor

SelectionReads ==
  IF selection.state = "OPEN"
  THEN selection.session = 0 /\ selection.pins = {} /\ selection.hold = "none"
  ELSE /\ selection.session # 0
       /\ selection.pins # {}
       /\ selection.state = "HOLD" <=> selection.hold # "none"

EntriesRead(o) ==
  \A k \in ComponentKinds :
    LET e == entries[o][k] IN
    /\ e.status \in {"SEALED", "CONFIRMED"} =>
         /\ sessions[o].state = "SELECTED"
         /\ e.pins # {} /\ e.pins = selection.pins
    /\ e.status = "CONFIRMED" => e.result # {}

\* The states in which a session and its entries agree with the selection.
ActiveStateReads(o) ==
  \/ /\ sessions[o].state = "PROVISIONAL"
     /\ "EXPECTED" \in Statuses(o)
     /\ Statuses(o) \subseteq {"EXPECTED", "STAGED"}
  \/ /\ sessions[o].state = "STAGED"
     /\ Statuses(o) = {"STAGED"}
  \/ /\ sessions[o].state = "SELECTED"
     /\ selection.session = o
     /\ \/ /\ selection.state = "COMPONENT_EFFECTS_SEALED"
           /\ "SEALED" \in Statuses(o)
           /\ Statuses(o) \subseteq {"SEALED", "CONFIRMED"}
        \/ /\ selection.state \in SelectionState \ {"OPEN", "COMPONENT_EFFECTS_SEALED"}
           /\ Statuses(o) = {"CONFIRMED"}

\* What load checks of session o.
Reads(o) ==
  /\ PredecessorReads(o)
  /\ SelectionReads
  /\ IF sessions[o].state \in TerminalState
     THEN entries[o] = NoEntries /\ selection.session # o
     ELSE /\ HasRoster(o)
          /\ EntriesRead(o)
          /\ ActiveStateReads(o)

\* load reads a session's predecessor, and that one's, the same way.
Lineage(o) == {p \in Issued : /\ sessions[p].set = sessions[o].set
                              /\ sessions[p].generation <= sessions[o].generation}

Loads(o) == o \in Issued /\ \A p \in Lineage(o) : Reads(p)

-----------------------------------------------------------------------------
(* Identities: digests, unique as long as what they are made of is. *)

DescriptorId(o) == <<sessions[o].set, sessions[o].committed>>

\* The id, the key and the bytes of an envelope.
ComponentId(o, k) == <<DescriptorId(o), k>>

Staged ==
  {x \in Issued \X ComponentKinds : HasRoster(x[1]) /\ entries[x[1]][x[2]].status # "EXPECTED"}

-----------------------------------------------------------------------------
(* Calls. *)

Start(c, call) ==
  /\ calls[c] = NoCall
  /\ calls' = [calls EXCEPT ![c] = call]
  /\ UNCHANGED <<clock, sessions, entries, selection, manifest, handed>>

Finish(c) == calls' = [calls EXCEPT ![c] = NoCall]

\* The call is refused, or the isolate is evicted before its transaction.
Drop(c) ==
  /\ calls[c] # NoCall
  /\ Finish(c)
  /\ UNCHANGED <<clock, sessions, entries, selection, manifest, handed>>

\* What the call read is still so.
Unchanged(x) == View(x.session) = x.seen

\* sealedPlans: the answer of a selection that is sealed, in whichever later state.
HandOut(o) == handed' = handed \cup {<<o, sessions'[o].set, selection'.pins>>}

-----------------------------------------------------------------------------
(* Admission. *)

OpenUnsealed ==
  /\ selection.state = "OPEN"
  /\ selection.session = 0
  /\ \A o \in Ordinals : Statuses(o) \cap {"SEALED", "CONFIRMED"} = {}
  /\ \A o \in Issued : sessions[o].state # "SELECTED"

\* An existing session is answered as it is, unless its time is over.
ResolveExisting(c, o) ==
  /\ o \in Stale
  /\ Loads(o)
  /\ Start(c, [op |-> "abandon", session |-> o, seen |-> View(o)])

Creating(s, generation, predecessor, ordinal) ==
  [op |-> "create", set |-> s, generation |-> generation, predecessor |-> predecessor,
   committed |-> clock, ordinal |-> ordinal]

\* The descriptor is built with the clock of the call.
BeginInitial(c, s) ==
  \/ \E o \in Initial(s) : ResolveExisting(c, o)
  \/ /\ Initial(s) = {}
     /\ NextOrdinal <= MaxLifetime
     /\ Start(c, Creating(s, 1, 0, NextOrdinal))

ReissueExpired(c, p) ==
  /\ sessions[p].state = "ABANDONED"
  /\ Loads(p)
  /\ \/ \E o \in Successor(p) : ResolveExisting(c, o)
     \/ /\ Successor(p) = {}
        /\ sessions[p].generation < MaxLifetime
        /\ clock > FreshUntil(p)
        /\ NextOrdinal <= MaxLifetime
        /\ Start(c, Creating(sessions[p].set, sessions[p].generation + 1, p, NextOrdinal))

AbandonExpired(c, o) ==
  /\ o \in Stale
  /\ Loads(o)
  /\ Start(c, [op |-> "abandon", session |-> o, seen |-> View(o)])

Existing(x) == IF x.predecessor = 0 THEN Initial(x.set) ELSE Successor(x.predecessor)

\* Every session whose time is over is abandoned, before capacity is counted.
ExpireStale(table) == [o \in Ordinals |-> IF o \in Stale THEN [table[o] EXCEPT !.state = "ABANDONED"]
                                          ELSE table[o]]

\* Mutant of EntriesUnlessAbandoned: the entries are not deleted.
EntriesKept == entries

EntriesUnlessAbandoned == [o \in Ordinals |-> IF sessions'[o].state = "ABANDONED" THEN NoEntries
                                              ELSE entries[o]]

CapacityLeft ==
  /\ Cardinality(Live \ Stale) < MaxLive
  /\ Cardinality(Issued) < MaxLifetime

PredecessorExpired(x) ==
  x.predecessor # 0 =>
    LET p == sessions[x.predecessor] IN
    /\ p.state = "ABANDONED"
    /\ p.set = x.set
    /\ p.generation + 1 = x.generation
    /\ x.predecessor < x.ordinal
    /\ p.committed + Ttl < x.committed

Admits(x) ==
  /\ OpenUnsealed
  /\ CapacityLeft
  /\ clock <= x.committed + Ttl

NewSession(x) == [set |-> x.set, generation |-> x.generation, predecessor |-> x.predecessor,
                  committed |-> x.committed, state |-> "PROVISIONAL"]

NewEntries == [k \in ComponentKinds |-> [status |-> "EXPECTED", pins |-> {}, result |-> {}]]

\* Another call took the ordinal: what expired stays so, and the call tries the next one.
TakenOrdinal(c, x) ==
  /\ NextOrdinal # x.ordinal
  /\ sessions' = ExpireStale(sessions)
  /\ entries' = EntriesUnlessAbandoned
  /\ calls' = [calls EXCEPT ![c] = IF NextOrdinal <= MaxLifetime
                                   THEN [x EXCEPT !.ordinal = NextOrdinal] ELSE NoCall]

InsertSession(c, x) ==
  /\ NextOrdinal = x.ordinal
  /\ PredecessorExpired(x)
  /\ sessions' = ExpireStale([sessions EXCEPT ![x.ordinal] = NewSession(x)])
  /\ entries' = [EntriesUnlessAbandoned EXCEPT ![x.ordinal] = NewEntries]
  /\ Finish(c)

CreateSession(c) ==
  LET x == calls[c] IN
  /\ x.op = "create"
  /\ Existing(x) = {}
  /\ Admits(x)
  /\ TakenOrdinal(c, x) \/ InsertSession(c, x)
  /\ UNCHANGED <<clock, selection, manifest, handed>>

CommitAbandon(c) ==
  LET x == calls[c] IN
  /\ x.op = "abandon"
  /\ OpenUnsealed
  /\ Unchanged(x)
  /\ x.session \in Stale
  /\ sessions' = [sessions EXCEPT ![x.session].state = "ABANDONED"]
  /\ entries' = [entries EXCEPT ![x.session] = NoEntries]
  /\ Finish(c)
  /\ UNCHANGED <<clock, selection, manifest, handed>>

-----------------------------------------------------------------------------
(* Staging. *)

\* An envelope that is staged already is answered.
StageEnvelope(c, o, k) ==
  /\ HasRoster(o)
  /\ entries[o][k].status = "EXPECTED"
  /\ sessions[o].state = "PROVISIONAL"
  /\ Loads(o)
  /\ Start(c, [op |-> "stage", session |-> o, kind |-> k])

\* Only the identity of the row is compared, which never changes.
CommitStage(c) ==
  LET x == calls[c]
      o == x.session
  IN
  /\ x.op = "stage"
  /\ HasRoster(o)
  /\ entries[o][x.kind].status = "EXPECTED"
  /\ sessions[o].state = "PROVISIONAL"
  /\ selection.state = "OPEN"
  /\ ~ Expired(o)
  /\ entries' = [entries EXCEPT ![o][x.kind].status = "STAGED"]
  /\ sessions' = IF "EXPECTED" \in {entries'[o][k].status : k \in ComponentKinds} THEN sessions
                 ELSE [sessions EXCEPT ![o].state = "STAGED"]
  /\ Finish(c)
  /\ UNCHANGED <<clock, selection, manifest, handed>>

-----------------------------------------------------------------------------
(* Selection. *)

\* The validator runs between two loads of the session.
SelectAndSeal(c, o) ==
  /\ sessions[o].state \in {"STAGED", "SELECTED"}
  /\ Loads(o)
  /\ Start(c, [op |-> "validate", session |-> o, seen |-> View(o)])

\* reject follows the second load without an await.
Reject(c) ==
  LET x == calls[c] IN
  /\ x.op = "validate"
  /\ Loads(x.session)
  /\ x.seen.row.state = "STAGED"
  /\ Unchanged(x)
  /\ selection.state = "OPEN"
  /\ sessions' = [sessions EXCEPT ![x.session].state = "REJECTED"]
  /\ entries' = [entries EXCEPT ![x.session] = NoEntries]
  /\ Finish(c)
  /\ UNCHANGED <<clock, selection, manifest, handed>>

\* The set is selected already, by this call's twin or long ago.
AcceptSelected(c) ==
  LET x == calls[c] IN
  /\ x.op = "validate"
  /\ Loads(x.session)
  /\ sessions[x.session].state = "SELECTED"
  /\ selection.pins = {PinsOf[sessions[x.session].set]}
  /\ Finish(c)
  /\ UNCHANGED <<clock, sessions, entries, selection, manifest>>
  /\ HandOut(x.session)

\* The effects are prepared before the transaction.
AcceptStaged(c) ==
  LET x == calls[c] IN
  /\ x.op = "validate"
  /\ Loads(x.session)
  /\ sessions[x.session].state = "STAGED"
  /\ Unchanged(x)
  /\ calls' = [calls EXCEPT ![c].op = "seal"]
  /\ UNCHANGED <<clock, sessions, entries, selection, manifest, handed>>

\* Mutant of SealedByTwin: whose set is sealed is not looked at.
SealedByAnyone(x) ==
  /\ selection.state = "COMPONENT_EFFECTS_SEALED"
  /\ selection.pins = {PinsOf[x.seen.row.set]}

SealedByTwin(x) ==
  /\ selection.state = "COMPONENT_EFFECTS_SEALED"
  /\ selection.session = x.session
  /\ selection.pins = {PinsOf[x.seen.row.set]}

SealFence(x) ==
  /\ Unchanged(x)
  /\ ~ Expired(x.session)
  /\ selection.state = "OPEN"

\* One session is selected, and every other live one ends with it.
Selected(o) ==
  [p \in Ordinals |-> IF p = o THEN [sessions[p] EXCEPT !.state = "SELECTED"]
                      ELSE IF p \in Live THEN [sessions[p] EXCEPT !.state = "SUPERSEDED"]
                      ELSE sessions[p]]

SealedEntries(o, pins) ==
  [p \in Ordinals |->
     IF p = o
     THEN [k \in ComponentKinds |-> [entries[p][k] EXCEPT !.status = "SEALED", !.pins = {pins}]]
     ELSE IF sessions'[p].state = "SUPERSEDED" THEN NoEntries
     ELSE entries[p]]

Seal(c) ==
  LET x == calls[c]
      o == x.session
      pins == PinsOf[x.seen.row.set]
  IN
  /\ x.op = "seal"
  /\ \/ /\ SealedByTwin(x)
        /\ UNCHANGED <<sessions, entries, selection>>
     \/ /\ ~ SealedByTwin(x)
        /\ SealFence(x)
        /\ selection' = [selection EXCEPT !.state = "COMPONENT_EFFECTS_SEALED",
                                          !.session = o, !.pins = {pins}]
        /\ sessions' = Selected(o)
        /\ entries' = SealedEntries(o, pins)
  /\ Finish(c)
  /\ UNCHANGED <<clock, manifest>>
  /\ HandOut(o)

\* sealedPlans, and unresolvedComponentEffects, asked again at any time.
SealedPlans(o) ==
  /\ sessions[o].state = "SELECTED"
  /\ Loads(o)
  /\ UNCHANGED <<clock, sessions, entries, selection, manifest, calls>>
  /\ HandOut(o)

-----------------------------------------------------------------------------
(* Results of the components. *)

ConfirmComponent(c, o, k, v) ==
  /\ sessions[o].state = "SELECTED"
  /\ Loads(o)
  /\ Start(c, [op |-> "confirm", session |-> o, kind |-> k, version |-> v, seen |-> View(o)])

\* The transaction compares the row, this entry and the selection, not its sisters.
ConfirmFence(x) ==
  /\ sessions[x.session] = x.seen.row
  /\ entries[x.session][x.kind] = x.seen.entries[x.kind]
  /\ selection = x.seen.selection
  /\ entries[x.session][x.kind].status = "SEALED"
  /\ selection.state = "COMPONENT_EFFECTS_SEALED"

\* A result that is there already is compared and answered: no step.
CommitConfirm(c) ==
  LET x == calls[c]
      o == x.session
  IN
  /\ x.op = "confirm"
  /\ ConfirmFence(x)
  /\ entries' = [entries EXCEPT ![o][x.kind].status = "CONFIRMED",
                                ![o][x.kind].result = {x.version}]
  /\ selection' = IF "SEALED" \in {entries'[o][k].status : k \in ComponentKinds} THEN selection
                  ELSE [selection EXCEPT !.state = "COMPONENTS_CONFIRMED"]
  /\ Finish(c)
  /\ UNCHANGED <<clock, sessions, manifest, handed>>

-----------------------------------------------------------------------------
(* The manifest. *)

VersionOf(entry) == CHOOSE v \in entry.result : TRUE

ConfirmedObjects(view) == [k \in ComponentKinds |-> VersionOf(view.entries[k])]

HasDuplicateVersions(objects) == \E j, k \in ComponentKinds : j # k /\ objects[j] = objects[k]

SealManifest(c, o) ==
  /\ sessions[o].state = "SELECTED"
  /\ selection.state = "COMPONENTS_CONFIRMED"
  /\ Loads(o)
  /\ Start(c, [op |-> "manifest", session |-> o, seen |-> View(o)])

HoldComponents(c) ==
  LET x == calls[c] IN
  /\ x.op = "manifest"
  /\ HasDuplicateVersions(ConfirmedObjects(x.seen))
  /\ Unchanged(x)
  /\ manifest = NoManifest
  /\ selection' = [selection EXCEPT !.state = "HOLD", !.hold = "components"]
  /\ Finish(c)
  /\ UNCHANGED <<clock, sessions, entries, manifest, handed>>

\* A manifest that is there already is compared and answered: no step.
PersistSeal(c) ==
  LET x == calls[c] IN
  /\ x.op = "manifest"
  /\ ~ HasDuplicateVersions(ConfirmedObjects(x.seen))
  /\ manifest = NoManifest
  /\ Unchanged(x)
  /\ manifest' = [status |-> "SEALED", session |-> x.session,
                  objects |-> ConfirmedObjects(x.seen), pins |-> x.seen.selection.pins,
                  result |-> {}]
  /\ selection' = [selection EXCEPT !.state = "MANIFEST_EFFECT_SEALED"]
  /\ Finish(c)
  /\ UNCHANGED <<clock, sessions, entries, handed>>

Collides(v) == \E k \in ComponentKinds : manifest.objects[k] = v

\* The manifest is rebuilt from the confirmed components and compared with its row.
ManifestRebuilt(o) ==
  /\ manifest.session = o
  /\ Statuses(o) = {"CONFIRMED"}
  /\ manifest.objects = ConfirmedObjects(View(o))
  /\ ~ HasDuplicateVersions(manifest.objects)
  /\ manifest.pins = selection.pins

\* A pointer is stored with a result exactly when the result collides with no component.
ManifestResultReads ==
  CASE manifest.status = "SEALED" -> manifest.result = {}
    [] manifest.status = "CONFIRMED" -> \E v \in manifest.result : ~ Collides(v)
    [] manifest.status = "RESULT_CONFIRMED" -> \E v \in manifest.result : Collides(v)

ManifestSelectionReads ==
  \/ manifest.status = "SEALED" /\ selection.state = "MANIFEST_EFFECT_SEALED"
  \/ manifest.status = "CONFIRMED" /\ selection.state = "CONFIRMED"
  \/ /\ manifest.status = "RESULT_CONFIRMED"
     /\ selection.state = "HOLD"
     /\ selection.hold = "manifest"

ManifestReads(o) ==
  /\ manifest # NoManifest
  /\ ManifestRebuilt(o)
  /\ ManifestResultReads
  /\ ManifestSelectionReads

ConfirmManifest(c, o, v) ==
  /\ sessions[o].state = "SELECTED"
  /\ Loads(o)
  /\ ManifestReads(o)
  /\ manifest.status = "SEALED"
  /\ Start(c, [op |-> "pointer", session |-> o, version |-> v, row |-> manifest,
               seen |-> View(o)])

\* A result that is there already is compared and answered: no step.
PersistResult(c) ==
  LET x == calls[c]
      collision == Collides(x.version)
  IN
  /\ x.op = "pointer"
  /\ manifest.status = "SEALED"
  /\ Unchanged(x)
  /\ manifest = x.row
  /\ manifest' = [manifest EXCEPT !.status = IF collision THEN "RESULT_CONFIRMED" ELSE "CONFIRMED",
                                  !.result = {x.version}]
  /\ selection' = IF collision THEN [selection EXCEPT !.state = "HOLD", !.hold = "manifest"]
                  ELSE [selection EXCEPT !.state = "CONFIRMED"]
  /\ Finish(c)
  /\ UNCHANGED <<clock, sessions, entries, handed>>

-----------------------------------------------------------------------------
JournalStart(c) ==
  /\ calls[c] = NoCall
  /\ \/ \E s \in Sets : BeginInitial(c, s)
     \/ \E o \in Ordinals :
          \/ ReissueExpired(c, o)
          \/ AbandonExpired(c, o)
          \/ SelectAndSeal(c, o)
          \/ SealManifest(c, o)
          \/ \E k \in ComponentKinds : StageEnvelope(c, o, k)
          \/ \E v \in Versions : ConfirmManifest(c, o, v)
          \/ \E k \in ComponentKinds, v \in Versions : ConfirmComponent(c, o, k, v)

JournalCommit(c) ==
  \/ CreateSession(c) \/ CommitAbandon(c) \/ CommitStage(c)
  \/ Reject(c) \/ AcceptSelected(c) \/ AcceptStaged(c) \/ Seal(c)
  \/ CommitConfirm(c)
  \/ HoldComponents(c) \/ PersistSeal(c) \/ PersistResult(c)

ComponentNext ==
  \/ SetClock
  \/ \E c \in Callers : JournalStart(c) \/ JournalCommit(c) \/ Drop(c)
  \/ \E o \in Ordinals : SealedPlans(o)

ComponentSpec == ComponentInit /\ [][ComponentNext]_componentVars

-----------------------------------------------------------------------------
(* What the journal must keep. *)

SchemaLive(o) == sessions[o].state \in LiveState \cup {"SELECTED"}

\* The constraints and unique indexes of the session table hold whatever the
\* order of the calls: one live or selected session per set, one generation
\* once, one successor, one descriptor, one envelope and object key per entry,
\* the live capacity and the ordinals without a gap.  A row that broke one would
\* abort the call that wrote it
\* (activation-component-journal-schema.ts:104-228).
RowsSatisfySchema ==
  /\ \A o, p \in Issued :
       o # p /\ sessions[o].set = sessions[p].set =>
         /\ ~ (SchemaLive(o) /\ SchemaLive(p))
         /\ sessions[o].generation # sessions[p].generation
         /\ DescriptorId(o) # DescriptorId(p)
  /\ \A x, y \in Staged : x # y => ComponentId(x[1], x[2]) # ComponentId(y[1], y[2])
  /\ \A o, p \in Issued :
       sessions[o].predecessor = sessions[p].predecessor => o = p \/ sessions[o].predecessor = 0
  /\ \A o, p \in Issued : sessions[o].state = "SELECTED" /\ sessions[p].state = "SELECTED" => o = p
  /\ Cardinality(Live) <= MaxLive
  /\ Issued = 1 .. Cardinality(Issued)

\* Whatever the calls did, every session can be read: the reader rebuilds a
\* session from its rows, its predecessors and the selection and answers 500
\* when they disagree, and it would answer so for good
\* (activation-component-journal-authority.ts, -manifest-authority.ts).
AuthorityReadable ==
  /\ \A o \in Issued : Reads(o)
  /\ manifest # NoManifest => ManifestReads(selection.session)
  /\ selection.state \in {"MANIFEST_EFFECT_SEALED", "CONFIRMED"} => manifest # NoManifest
  /\ selection.hold = "components" =>
       manifest = NoManifest /\ HasDuplicateVersions(ConfirmedObjects(View(selection.session)))

\* No order of calls leaves rows the schema would refuse or the reader rejects.
TablesSound == RowsSatisfySchema /\ AuthorityReadable

Chosen == IF selection.session = 0 THEN {}
          ELSE {<<selection.session, sessions[selection.session].set, selection.pins>>}

LearntComponents ==
  IF selection.session = 0 THEN {}
  ELSE UNION {{<<k, v>> : v \in entries[selection.session][k].result} : k \in ComponentKinds}

LearntManifest ==
  IF manifest = NoManifest THEN {} ELSE {<<"manifest", v>> : v \in manifest.result}

Outcome == CASE selection.state = "CONFIRMED" -> "confirmed"
             [] selection.state = "HOLD" -> "held"
             [] OTHER -> "none"

One == INSTANCE OneComponentSet WITH
         Kinds <- ComponentKinds,
         Choices <- Ordinals \X Sets \X {{p} : p \in Pins},
         chosen <- Chosen,
         learnt <- LearntComponents \cup LearntManifest,
         outcome <- Outcome

\* Sessions, staging, expiry, twins and lost answers are the journal's own
\* affair: to its callers it is one component set, chosen once, whose plans are
\* those of that choice, whose results are kept, and which is confirmed only
\* when no two of its objects are one version.
ImplementsOneSet == One!OneSpec

=============================================================================
