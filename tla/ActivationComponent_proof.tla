----------------------- MODULE ActivationComponent_proof -----------------------
(***************************************************************************)
(* Proofs about activation components.                                     *)
(*                                                                         *)
(* The component journal, for any callers, sets, kinds, pins, versions,    *)
(* capacities, lifetime and clock: whatever order the calls come in, no    *)
(* row breaks the schema or its reader, and the journal is to its callers  *)
(* one component set, chosen once.  The invariant adds what the schema     *)
(* does not say: the sessions of a set are one chain in which only the     *)
(* last may be alive, and what a call in flight remembers is of the state  *)
(* it was admitted in.                                                     *)
(*                                                                         *)
(* The authority of a component set, for any workers, roles, kinds,        *)
(* requests, resolutions and faults: payloads give their request back, a   *)
(* resolution fails only for a cause and never of a disturbed set, and     *)
(* what is minted is what one journal confirmed.                           *)
(***************************************************************************)
EXTENDS ActivationComponentJournal, ActivationComponentAuthority, FiniteSetTheorems, TLAPS

-----------------------------------------------------------------------------
(* The journal. *)

\* What a call was admitted by.
Remembers(x) ==
  /\ x.op = "create" => (x.predecessor = 0 => x.generation = 1)
  /\ x.op = "seal" => x.seen.row.state = "STAGED"
  /\ x.op \in {"confirm", "manifest", "pointer"} => x.seen.row.state = "SELECTED"
  /\ x.op = "manifest" => x.seen.selection.state = "COMPONENTS_CONFIRMED"

CallsRemember == \A c \in Callers : Remembers(calls[c])

OrdinalsDense == \E n \in 0 .. MaxLifetime : Issued = 1 .. n

OneSet(o, p) == sessions[o].set = sessions[p].set

Earlier(o, p) == OneSet(o, p) /\ sessions[o].generation < sessions[p].generation

\* The sessions of a set are a chain, and only its last is not abandoned.
ChainsSound ==
  /\ \A o \in Issued : PredecessorReads(o)
  /\ \A o \in Issued : Initial(sessions[o].set) # {}
  /\ \A o, p \in Issued :
       OneSet(o, p) /\ sessions[o].generation = sessions[p].generation => o = p
  /\ \A o, p \in Issued :
       Earlier(o, p) => /\ sessions[o].state = "ABANDONED"
                        /\ sessions[o].committed < sessions[p].committed
                        /\ Successor(o) # {}

LiveBounded == Cardinality(Live) <= MaxLive

\* The entries of a session and the selection are what its state says.
BodyReads(o) ==
  IF sessions[o].state \in TerminalState
  THEN entries[o] = NoEntries /\ selection.session # o
  ELSE HasRoster(o) /\ EntriesRead(o) /\ ActiveStateReads(o)

\* A result is there exactly when it is confirmed, and there is one.
ResultsSound ==
  \A o \in Ordinals : HasRoster(o) =>
    \A k \in ComponentKinds :
      IF entries[o][k].status = "CONFIRMED" THEN \E v \in Versions : entries[o][k].result = {v}
      ELSE entries[o][k].result = {}

EntriesSound ==
  /\ \A o \in Ordinals \ Issued : entries[o] = NoEntries
  /\ \A o \in Issued : BodyReads(o)
  /\ ResultsSound

SelectionSound ==
  /\ SelectionReads
  /\ selection.session # 0 => /\ selection.session \in Issued
                              /\ sessions[selection.session].state = "SELECTED"

ManifestSound ==
  /\ manifest # NoManifest => ManifestReads(selection.session)
  /\ selection.state \in {"MANIFEST_EFFECT_SEALED", "CONFIRMED"} => manifest # NoManifest
  /\ selection.hold = "components" =>
       manifest = NoManifest /\ HasDuplicateVersions(ConfirmedObjects(View(selection.session)))

\* The part that is about the tables alone.
TablesInv ==
  /\ OrdinalsDense
  /\ ChainsSound
  /\ LiveBounded
  /\ EntriesSound
  /\ SelectionSound
  /\ ManifestSound

ComponentInv == ComponentTypeOK /\ CallsRemember /\ TablesInv

-----------------------------------------------------------------------------
(* Sessions and calls. *)

\* An issued ordinal has a session, the others have the row of none.
LEMMA IssuedRow ==
  ASSUME ComponentTypeOK
  PROVE  /\ Issued \subseteq Ordinals
         /\ \A o \in Issued : /\ sessions[o] \in Session
                              /\ sessions[o].set \in Sets
                              /\ sessions[o].generation \in Ordinals
                              /\ sessions[o].predecessor \in {0} \cup Ordinals
                              /\ sessions[o].committed \in 0 .. MaxClock
                              /\ sessions[o].state \in SessionState
         /\ \A o \in Ordinals \ Issued : sessions[o] = NoSession /\ sessions[o].state = "NONE"
         /\ \A o \in Ordinals : o \in Issued <=> sessions[o] \in Session
<1>1. \A r \in Session : r.state \in SessionState /\ r # NoSession
  BY DEF Session, NoSession, SessionState
<1>2. \A o \in Ordinals : sessions[o] \in Session \cup {NoSession}
  BY DEF ComponentTypeOK
<1>3. \A o \in Ordinals : o \in Issued <=> sessions[o] \in Session
  BY <1>1, <1>2 DEF Issued
<1>4. QED
  BY <1>1, <1>2, <1>3 DEF Issued, NoSession, Session

\* The bounds are numbers, and no ordinal is 0.
LEMMA Bounds ==
  /\ Ordinals \subseteq Nat
  /\ 0 .. MaxClock \subseteq Nat
  /\ Ttl \in Nat /\ MaxLive \in Nat /\ MaxLifetime \in Nat \ {0}
  /\ 0 \notin Ordinals
BY ComponentAssumption DEF Ordinals

\* The next ordinal is the one above those issued.
LEMMA NextOrdinalIs ==
  ASSUME OrdinalsDense
  PROVE  \E n \in 0 .. MaxLifetime : Issued = 1 .. n /\ NextOrdinal = n + 1
<1>1. PICK n \in 0 .. MaxLifetime : Issued = 1 .. n
  BY DEF OrdinalsDense
<1>2. n \in Nat
  BY <1>1, Bounds
<1> DEFINE Q(m) == (\A o \in Issued : o < m) /\ (m = 1 \/ m - 1 \in Issued)
<1>3. n + 1 \in 1 .. MaxLifetime + 1 /\ Q(n + 1)
  BY <1>1, <1>2, Bounds
<1>4. \A m \in 1 .. MaxLifetime + 1 : Q(m) => m = n + 1
  BY <1>1, <1>2, Bounds
<1>5. NextOrdinal = n + 1
  BY <1>3, <1>4 DEF NextOrdinal
<1>6. QED
  BY <1>1, <1>5

\* Which data a call carries is told by its operation.
LEMMA CallShapes ==
  ASSUME NEW x \in Call
  PROVE  /\ x = NoCall \/ x.op \in {"create", "abandon", "validate", "seal", "manifest", "stage",
                                  "confirm", "pointer"}
         /\ x.op = "create" =>
              x \in [op : {"create"}, set : Sets, generation : Ordinals,
                     predecessor : {0} \cup Ordinals, committed : 0 .. MaxClock,
                     ordinal : Ordinals]
         /\ x.op \in {"abandon", "validate", "seal", "manifest"} =>
              x \in [op : {"abandon", "validate", "seal", "manifest"}, session : Ordinals,
                     seen : Views]
         /\ x.op = "stage" => x \in [op : {"stage"}, session : Ordinals, kind : ComponentKinds]
         /\ x.op = "confirm" =>
              x \in [op : {"confirm"}, session : Ordinals, kind : ComponentKinds, version : Versions,
                     seen : Views]
         /\ x.op = "pointer" =>
              x \in [op : {"pointer"}, session : Ordinals, version : Versions, row : ManifestRow,
                     seen : Views]
BY DEF Call, NoCall

\* A call that is over remembers nothing.
LEMMA IdleRemembers == NoCall \in Call /\ Remembers(NoCall)
BY DEF Call, NoCall, Remembers

\* What load read is a view.
LEMMA ViewType ==
  ASSUME ComponentTypeOK, NEW o \in Ordinals
  PROVE  View(o) \in Views
BY DEF ComponentTypeOK, View, Views

\* A call replaced by one that is remembered leaves the calls as they must be.
LEMMA CallReplaced ==
  ASSUME ComponentTypeOK, CallsRemember, NEW c \in Callers, NEW x \in Call, Remembers(x),
         calls' = [calls EXCEPT ![c] = x]
  PROVE  calls' \in [Callers -> Call] /\ CallsRemember'
<1>1. calls \in [Callers -> Call] /\ calls' \in [Callers -> Call]
  BY DEF ComponentTypeOK
<1>2. \A d \in Callers : calls'[d] = IF d = c THEN x ELSE calls[d]
  BY <1>1
<1>3. \A d \in Callers : Remembers(calls'[d])
  BY <1>2 DEF CallsRemember
<1>4. QED
  BY <1>1, <1>3 DEF CallsRemember

\* The end of a call leaves the calls well formed.
LEMMA CallFinished ==
  ASSUME ComponentTypeOK, CallsRemember, NEW c \in Callers, Finish(c)
  PROVE  calls' \in [Callers -> Call] /\ CallsRemember'
BY IdleRemembers, CallReplaced DEF Finish

\* The tables are all that TablesInv is about.
LEMMA TablesUntouched ==
  ASSUME TablesInv, UNCHANGED <<sessions, entries, selection, manifest>>
  PROVE  TablesInv'
<1>1. Issued' = Issued /\ Live' = Live
  BY DEF Issued, Live
<1>2. \A o : /\ Successor(o)' = Successor(o) /\ Initial(o)' = Initial(o)
             /\ View(o)' = View(o) /\ Statuses(o)' = Statuses(o) /\ HasRoster(o)' = HasRoster(o)
  BY <1>1 DEF Successor, Initial, View, Statuses, HasRoster
<1>3. OrdinalsDense' /\ LiveBounded'
  BY <1>1 DEF TablesInv, OrdinalsDense, LiveBounded
<1>4. ChainsSound'
  BY <1>1, <1>2 DEF TablesInv, ChainsSound, PredecessorReads, OneSet, Earlier
<1>5. EntriesSound'
  BY <1>1, <1>2 DEF TablesInv, EntriesSound, BodyReads, EntriesRead, ActiveStateReads, ResultsSound
<1>6. SelectionSound'
  BY <1>1 DEF TablesInv, SelectionSound, SelectionReads
<1>7. ManifestSound'
  BY <1>2 DEF TablesInv, ManifestSound, ManifestReads, ManifestRebuilt, ManifestResultReads,
              ManifestSelectionReads, Collides
<1>8. QED
  BY <1>3, <1>4, <1>5, <1>6, <1>7 DEF TablesInv

-----------------------------------------------------------------------------
(* The calls that only read. *)

\* A call that starts with what admitted it preserves the invariant.
LEMMA StartKeeps ==
  ASSUME ComponentInv, NEW c \in Callers, NEW x \in Call, Remembers(x), Start(c, x)
  PROVE  ComponentInv'
<1>1. ComponentTypeOK /\ CallsRemember /\ TablesInv
  BY DEF ComponentInv
<1>2. calls' \in [Callers -> Call] /\ CallsRemember'
  BY <1>1, CallReplaced DEF Start
<1>3. ComponentTypeOK'
  BY <1>1, <1>2 DEF ComponentTypeOK, Start
<1>4. TablesInv'
  BY <1>1, TablesUntouched DEF Start
<1>5. QED
  BY <1>2, <1>3, <1>4 DEF ComponentInv

\* A new session is asked for with an ordinal and a generation of the schema.
LEMMA CreatingCall ==
  ASSUME ComponentTypeOK, NEW s \in Sets, NEW g \in Ordinals, NEW p \in {0} \cup Ordinals,
         p = 0 => g = 1, NEW n \in Ordinals
  PROVE  Creating(s, g, p, n) \in Call /\ Remembers(Creating(s, g, p, n))
<1>1. clock \in 0 .. MaxClock
  BY DEF ComponentTypeOK
<1>2. QED
  BY <1>1 DEF Creating, Call, Remembers

\* A call that carries a view of its session has the shape of its operation.
LEMMA SeenCall ==
  ASSUME ComponentTypeOK, NEW o \in Ordinals
  PROVE  /\ LET x == [op |-> "abandon", session |-> o, seen |-> View(o)] IN
            x \in Call /\ Remembers(x)
         /\ LET x == [op |-> "validate", session |-> o, seen |-> View(o)] IN
            x \in Call /\ Remembers(x)
         /\ sessions[o].state = "SELECTED" /\ selection.state = "COMPONENTS_CONFIRMED" =>
              LET x == [op |-> "manifest", session |-> o, seen |-> View(o)] IN
              x \in Call /\ Remembers(x)
         /\ sessions[o].state = "SELECTED" =>
              /\ \A k \in ComponentKinds, v \in Versions :
                   LET x == [op |-> "confirm", session |-> o, kind |-> k, version |-> v,
                             seen |-> View(o)] IN
                   x \in Call /\ Remembers(x)
              /\ \A v \in Versions :
                   manifest # NoManifest =>
                     LET x == [op |-> "pointer", session |-> o, version |-> v, row |-> manifest,
                               seen |-> View(o)] IN
                     x \in Call /\ Remembers(x)
<1>1. View(o) \in Views /\ View(o).row = sessions[o] /\ View(o).selection = selection
  BY ViewType DEF View
<1>2. manifest # NoManifest => manifest \in ManifestRow
  BY DEF ComponentTypeOK
<1> HIDE DEF View
<1>3. QED
  BY <1>1, <1>2 DEF Call, Remembers

\* A create is given an ordinal there is room for.
LEMMA NextOrdinalType ==
  ASSUME ComponentInv, NextOrdinal <= MaxLifetime
  PROVE  NextOrdinal \in Ordinals
<1>1. OrdinalsDense
  BY DEF ComponentInv, TablesInv
<1>2. PICK n \in 0 .. MaxLifetime : NextOrdinal = n + 1
  BY <1>1, NextOrdinalIs
<1>3. QED
  BY <1>2, Bounds DEF Ordinals

\* Every start preserves the invariant: it reads the tables and writes none.
LEMMA StartsKeep ==
  ASSUME ComponentInv, NEW c \in Callers, JournalStart(c)
  PROVE  ComponentInv'
<1>1. ComponentTypeOK
  BY DEF ComponentInv
<1>2. Issued \subseteq Ordinals /\ 1 \in Ordinals
  BY Bounds DEF Issued, Ordinals
<1>3. ASSUME NEW o \in Ordinals, ResolveExisting(c, o)
      PROVE  ComponentInv'
  BY <1>1, <1>3, SeenCall, StartKeeps DEF ResolveExisting
<1>4. ASSUME NEW s \in Sets, BeginInitial(c, s)
      PROVE  ComponentInv'
  <2>1. CASE \E o \in Initial(s) : ResolveExisting(c, o)
    BY <1>2, <1>3, <2>1 DEF Initial
  <2>2. CASE NextOrdinal <= MaxLifetime /\ Start(c, Creating(s, 1, 0, NextOrdinal))
    <3>1. NextOrdinal \in Ordinals
      BY <2>2, NextOrdinalType
    <3>2. Creating(s, 1, 0, NextOrdinal) \in Call /\ Remembers(Creating(s, 1, 0, NextOrdinal))
      BY <1>1, <1>2, <3>1, CreatingCall
    <3>3. QED
      BY <2>2, <3>2, StartKeeps
  <2>3. QED
    BY <1>4, <2>1, <2>2 DEF BeginInitial
<1>5. ASSUME NEW p \in Ordinals, ReissueExpired(c, p)
      PROVE  ComponentInv'
  <2>1. CASE \E o \in Successor(p) : ResolveExisting(c, o)
    BY <1>2, <1>3, <2>1 DEF Successor
  <2> DEFINE x == Creating(sessions[p].set, sessions[p].generation + 1, p, NextOrdinal)
  <2>2. CASE /\ sessions[p].generation < MaxLifetime /\ NextOrdinal <= MaxLifetime
             /\ Start(c, x)
    <3>1. NextOrdinal \in Ordinals
      BY <2>2, NextOrdinalType
    <3>2. p \in Issued
      BY <1>5 DEF ReissueExpired, Loads
    <3>3. sessions[p].set \in Sets /\ sessions[p].generation + 1 \in Ordinals
      BY <1>1, <2>2, <3>2, IssuedRow, Bounds DEF Ordinals
    <3>4. x \in Call /\ Remembers(x)
      BY <1>1, <3>1, <3>3, CreatingCall, Bounds
    <3>5. QED
      BY <2>2, <3>4, StartKeeps
  <2>3. QED
    BY <1>5, <2>1, <2>2 DEF ReissueExpired
<1>6. ASSUME NEW o \in Ordinals,
             \/ AbandonExpired(c, o) \/ SelectAndSeal(c, o) \/ SealManifest(c, o)
             \/ \E v \in Versions : ConfirmManifest(c, o, v)
             \/ \E k \in ComponentKinds, v \in Versions : ConfirmComponent(c, o, k, v)
      PROVE  ComponentInv'
  BY <1>1, <1>6, SeenCall, StartKeeps
     DEF AbandonExpired, SelectAndSeal, SealManifest, ConfirmManifest, ConfirmComponent,
         ManifestReads
<1>7. ASSUME NEW o \in Ordinals, NEW k \in ComponentKinds, StageEnvelope(c, o, k)
      PROVE  ComponentInv'
  <2>1. LET x == [op |-> "stage", session |-> o, kind |-> k] IN x \in Call /\ Remembers(x)
    BY DEF Call, Remembers
  <2>2. QED
    BY <1>7, <2>1, StartKeeps DEF StageEnvelope
<1>8. QED
  BY <1>4, <1>5, <1>6, <1>7 DEF JournalStart

-----------------------------------------------------------------------------
(* Sessions: what a step may do to them. *)

\* Sessions keep their set, generation, predecessor and time, and what is
\* abandoned stays so: the chains are kept.
LEMMA SessionsKeepTheirPast ==
  ASSUME TablesInv, Issued' = Issued,
         \A o \in Issued : /\ sessions'[o].set = sessions[o].set
                           /\ sessions'[o].generation = sessions[o].generation
                           /\ sessions'[o].predecessor = sessions[o].predecessor
                           /\ sessions'[o].committed = sessions[o].committed
                           /\ sessions[o].state = "ABANDONED" => sessions'[o].state = "ABANDONED"
  PROVE  OrdinalsDense' /\ ChainsSound'
<1>1. OrdinalsDense'
  BY DEF TablesInv, OrdinalsDense
<1>2. \A o \in Issued : PredecessorReads(o)'
  <2>1. \A o \in Issued : PredecessorReads(o)
    BY DEF TablesInv, ChainsSound
  <2>2. QED
    BY <2>1 DEF PredecessorReads
<1>3. /\ \A s : Initial(s)' = Initial(s)
      /\ \A o : Successor(o)' = Successor(o)
  BY DEF Initial, Successor
<1>4. \A o, p \in Issued : /\ OneSet(o, p)' <=> OneSet(o, p)
                           /\ Earlier(o, p)' <=> Earlier(o, p)
  BY DEF OneSet, Earlier
<1>5. QED
  BY <1>1, <1>2, <1>3, <1>4 DEF TablesInv, ChainsSound

\* No more sessions live: there are no more than before.
LEMMA LiveShrinks ==
  ASSUME ComponentInv, Live' \subseteq Live
  PROVE  LiveBounded'
<1>1. IsFiniteSet(Ordinals) /\ IsFiniteSet(Live) /\ IsFiniteSet(Live')
  <2>1. IsFiniteSet(Ordinals)
    BY FS_Interval, Bounds DEF Ordinals
  <2>2. Live \subseteq Ordinals
    BY DEF Live, Issued
  <2>3. QED
    BY <2>1, <2>2, FS_Subset
<1>2. Cardinality(Live') <= Cardinality(Live) /\ Cardinality(Live) \in Nat /\ Cardinality(Live') \in Nat
  BY <1>1, FS_Subset, FS_CardinalityType
<1>3. QED
  BY <1>2, Bounds DEF ComponentInv, TablesInv, LiveBounded

\* Nothing is selected while the selection is open, and no manifest is there.
LEMMA OpenFacts ==
  ASSUME ComponentInv, selection.state = "OPEN"
  PROVE  /\ selection.session = 0 /\ selection.hold = "none" /\ selection.pins = {}
         /\ manifest = NoManifest
         /\ \A o \in Issued : sessions[o].state # "SELECTED"
<1>1. selection.session = 0 /\ selection.hold = "none" /\ selection.pins = {}
  BY DEF ComponentInv, TablesInv, SelectionSound, SelectionReads
<1>2. manifest = NoManifest
  BY DEF ComponentInv, TablesInv, ManifestSound, ManifestReads, ManifestSelectionReads
<1>3. \A o \in Issued : sessions[o].state # "SELECTED"
  <2>1. SUFFICES ASSUME NEW o \in Issued, sessions[o].state = "SELECTED" PROVE FALSE
    OBVIOUS
  <2>2. ActiveStateReads(o)
    BY <2>1 DEF ComponentInv, TablesInv, EntriesSound, BodyReads, TerminalState
  <2>3. QED
    BY <1>1, <2>1, <2>2, Bounds DEF ActiveStateReads, Issued
<1>4. QED
  BY <1>1, <1>2, <1>3

\* While the selection is open, nothing of it or of a manifest depends on the sessions.
LEMMA OpenStays ==
  ASSUME ComponentInv, selection.state = "OPEN", UNCHANGED <<selection, manifest>>
  PROVE  SelectionSound' /\ ManifestSound'
<1>1. /\ selection.session = 0 /\ selection.hold = "none" /\ selection.pins = {}
      /\ manifest = NoManifest
  BY OpenFacts
<1>2. SelectionSound'
  BY <1>1 DEF SelectionSound, SelectionReads
<1>3. ManifestSound'
  BY <1>1 DEF ManifestSound
<1>4. QED
  BY <1>2, <1>3

\* A session left alone still reads, when it is not the one that is selected.
LEMMA BodyAlone ==
  ASSUME NEW o, BodyReads(o), sessions'[o] = sessions[o], entries'[o] = entries[o],
         sessions[o].state # "SELECTED", selection'.session # o
  PROVE  BodyReads(o)'
<1>1. CASE sessions[o].state \in TerminalState
  BY <1>1 DEF BodyReads
<1>2. CASE sessions[o].state \notin TerminalState
  <2>1. HasRoster(o) /\ EntriesRead(o) /\ ActiveStateReads(o)
    BY <1>2 DEF BodyReads
  <2>2. HasRoster(o)' /\ Statuses(o)' = Statuses(o)
    BY <2>1 DEF HasRoster, Statuses
  <2>3. EntriesRead(o)'
    BY <2>1 DEF EntriesRead
  <2>4. ActiveStateReads(o)'
    BY <2>1, <2>2 DEF ActiveStateReads
  <2>5. QED
    BY <1>2, <2>2, <2>3, <2>4 DEF BodyReads
<1>3. QED
  BY <1>1, <1>2

\* A session that is over reads when its entries are gone.
LEMMA BodyOver ==
  ASSUME NEW o, sessions'[o].state \in TerminalState, entries'[o] = NoEntries,
         selection'.session # o
  PROVE  BodyReads(o)'
BY DEF BodyReads

\* A session without entries has no roster.
LEMMA NoRoster == DOMAIN NoEntries # ComponentKinds
<1>1. DOMAIN NoEntries = {}
  BY DEF NoEntries
<1>2. QED
  BY <1>1, ComponentAssumption

\* A session that ends keeps everything but its state.
LEMMA SessionEnds ==
  ASSUME NEW r \in Session, NEW s \in SessionState, NEW e, e = [r EXCEPT !.state = s]
  PROVE  /\ e \in Session /\ e # NoSession /\ e.state = s
         /\ e.set = r.set /\ e.generation = r.generation
         /\ e.predecessor = r.predecessor /\ e.committed = r.committed
BY DEF Session, SessionState, NoSession

\* What is done to live sessions alone, while nothing is selected: some end
\* and lose their entries, the others stay.
LEMMA SomeEnd ==
  ASSUME ComponentInv, selection.state = "OPEN", UNCHANGED <<selection, manifest>>,
         NEW dead \in SUBSET Live, NEW state \in TerminalState,
         \A o \in Ordinals : sessions'[o] = IF o \in dead THEN [sessions[o] EXCEPT !.state = state]
                                            ELSE sessions[o],
         \A o \in Ordinals : entries'[o] = IF o \in dead THEN NoEntries ELSE entries[o]
  PROVE  /\ TablesInv'
         /\ \A o \in Ordinals : /\ sessions'[o] \in Session \cup {NoSession}
                                /\ entries'[o] \in EntryRows
         /\ Issued' = Issued /\ Live' = Live \ dead
<1>0. ComponentTypeOK /\ TablesInv
  BY DEF ComponentInv
<1>1. \A o \in dead : /\ o \in Ordinals /\ o \in Issued /\ sessions[o] \in Session
                      /\ sessions[o].state \in LiveState /\ sessions[o] # NoSession
  BY <1>0, IssuedRow DEF Live, Issued
<1>2. /\ \A o \in dead : /\ sessions'[o] \in Session /\ sessions'[o] # NoSession
                         /\ sessions'[o].state = state
                         /\ sessions'[o].set = sessions[o].set
                         /\ sessions'[o].generation = sessions[o].generation
                         /\ sessions'[o].predecessor = sessions[o].predecessor
                         /\ sessions'[o].committed = sessions[o].committed
      /\ \A o \in Ordinals \ dead : sessions'[o] = sessions[o]
  <2>1. state \in SessionState
    BY DEF TerminalState, SessionState
  <2>2. ASSUME NEW o \in dead
        PROVE  /\ sessions'[o] \in Session /\ sessions'[o] # NoSession
               /\ sessions'[o].state = state
               /\ sessions'[o].set = sessions[o].set
               /\ sessions'[o].generation = sessions[o].generation
               /\ sessions'[o].predecessor = sessions[o].predecessor
               /\ sessions'[o].committed = sessions[o].committed
    <3>1. sessions'[o] = [sessions[o] EXCEPT !.state = state] /\ sessions[o] \in Session
      BY <1>1
    <3>2. QED
      BY <2>1, <3>1, SessionEnds
  <2>3. QED
    BY <2>2
<1>3. Issued' = Issued
  BY <1>1, <1>2 DEF Issued
<1>4. Live' = Live \ dead
  BY <1>1, <1>2, <1>3 DEF Live, Issued, LiveState, TerminalState
<1>5. LiveBounded'
  BY <1>4, LiveShrinks
<1>6. OrdinalsDense' /\ ChainsSound'
  <2>1. \A o \in Issued : /\ sessions'[o].set = sessions[o].set
                          /\ sessions'[o].generation = sessions[o].generation
                          /\ sessions'[o].predecessor = sessions[o].predecessor
                          /\ sessions'[o].committed = sessions[o].committed
                          /\ sessions[o].state = "ABANDONED" => sessions'[o].state = "ABANDONED"
    BY <1>1, <1>2 DEF Issued, LiveState
  <2>2. QED
    BY <1>0, <1>3, <2>1, SessionsKeepTheirPast
<1>7. SelectionSound' /\ ManifestSound'
  BY OpenStays
<1>8. EntriesSound'
  <2>1. selection'.session = 0 /\ \A o \in Issued : sessions[o].state # "SELECTED"
    BY OpenFacts
  <2>2. \A o \in Issued : BodyReads(o)'
    <3>1. SUFFICES ASSUME NEW o \in Issued PROVE BodyReads(o)'
      OBVIOUS
    <3>2. o \in Ordinals /\ o # 0 /\ BodyReads(o)
      BY <1>0, <3>1, Bounds DEF TablesInv, EntriesSound, Issued
    <3>3. CASE o \in dead
      BY <1>2, <2>1, <3>2, <3>3, BodyOver
    <3>4. CASE o \notin dead
      BY <1>2, <2>1, <3>2, <3>4, BodyAlone
    <3>5. QED
      BY <3>3, <3>4
  <2>3. \A o \in Ordinals \ Issued' : entries'[o] = NoEntries
    BY <1>0, <1>1, <1>3 DEF TablesInv, EntriesSound
  <2>4. ResultsSound'
    BY <1>0, NoRoster DEF TablesInv, EntriesSound, ResultsSound, HasRoster
  <2>5. QED
    BY <1>3, <2>2, <2>3, <2>4 DEF EntriesSound
<1>9. \A o \in Ordinals : sessions'[o] \in Session \cup {NoSession} /\ entries'[o] \in EntryRows
  BY <1>0, <1>2 DEF ComponentTypeOK, EntryRows
<1>10. QED
  BY <1>3, <1>4, <1>5, <1>6, <1>7, <1>8, <1>9 DEF TablesInv

-----------------------------------------------------------------------------
(* Sessions that end. *)

\* An abandon ends the last session of a chain.
LEMMA AbandonKeeps ==
  ASSUME ComponentInv, NEW c \in Callers, CommitAbandon(c)
  PROVE  ComponentInv'
<1> DEFINE o == calls[c].session
<1>0. ComponentTypeOK /\ CallsRemember
  BY DEF ComponentInv
<1>1. /\ selection.state = "OPEN" /\ o \in Live
      /\ sessions' = [sessions EXCEPT ![o].state = "ABANDONED"]
      /\ entries' = [entries EXCEPT ![o] = NoEntries]
      /\ Finish(c) /\ UNCHANGED <<clock, selection, manifest, handed>>
  BY DEF CommitAbandon, OpenUnsealed, Stale
<1>2. o \in Ordinals
  BY <1>1 DEF Live, Issued
<1>3. /\ \A p \in Ordinals :
           sessions'[p] = IF p \in {o} THEN [sessions[p] EXCEPT !.state = "ABANDONED"] ELSE sessions[p]
      /\ \A p \in Ordinals : entries'[p] = IF p \in {o} THEN NoEntries ELSE entries[p]
  BY <1>0, <1>1, <1>2 DEF ComponentTypeOK
<1>4. /\ TablesInv'
      /\ \A p \in Ordinals : sessions'[p] \in Session \cup {NoSession} /\ entries'[p] \in EntryRows
  <2>1. {o} \in SUBSET Live /\ "ABANDONED" \in TerminalState
    BY <1>1 DEF TerminalState
  <2>2. QED
    BY <1>1, <1>3, <2>1, SomeEnd
<1>5. calls' \in [Callers -> Call] /\ CallsRemember'
  BY <1>0, <1>1, CallFinished
<1>6. ComponentTypeOK'
  BY <1>0, <1>1, <1>4, <1>5 DEF ComponentTypeOK
<1>7. QED
  BY <1>4, <1>5, <1>6 DEF ComponentInv

\* A validation that fails ends a session that was not selected.
LEMMA RejectKeeps ==
  ASSUME ComponentInv, NEW c \in Callers, Reject(c)
  PROVE  ComponentInv'
<1> DEFINE o == calls[c].session
<1>0. ComponentTypeOK /\ CallsRemember
  BY DEF ComponentInv
<1>1. /\ selection.state = "OPEN"
      /\ o \in Issued /\ sessions[o].state = "STAGED"
      /\ sessions' = [sessions EXCEPT ![o].state = "REJECTED"]
      /\ entries' = [entries EXCEPT ![o] = NoEntries]
      /\ Finish(c) /\ UNCHANGED <<clock, selection, manifest, handed>>
  BY DEF Reject, Loads, Unchanged, View
<1>2. o \in Ordinals /\ o \in Live
  BY <1>1 DEF Live, Issued, LiveState
<1>3. /\ \A p \in Ordinals :
           sessions'[p] = IF p \in {o} THEN [sessions[p] EXCEPT !.state = "REJECTED"] ELSE sessions[p]
      /\ \A p \in Ordinals : entries'[p] = IF p \in {o} THEN NoEntries ELSE entries[p]
  BY <1>0, <1>1, <1>2 DEF ComponentTypeOK
<1>4. /\ TablesInv'
      /\ \A p \in Ordinals : sessions'[p] \in Session \cup {NoSession} /\ entries'[p] \in EntryRows
  <2>1. {o} \in SUBSET Live /\ "REJECTED" \in TerminalState
    BY <1>2 DEF TerminalState
  <2>2. QED
    BY <1>1, <1>3, <2>1, SomeEnd
<1>5. calls' \in [Callers -> Call] /\ CallsRemember'
  BY <1>0, <1>1, CallFinished
<1>6. ComponentTypeOK'
  BY <1>0, <1>1, <1>4, <1>5 DEF ComponentTypeOK
<1>7. QED
  BY <1>4, <1>5, <1>6 DEF ComponentInv

-----------------------------------------------------------------------------
(* Admission. *)

\* Whoever is abandoned has no entries already, or loses them.
LEMMA EntriesOfAbandoned ==
  ASSUME ComponentInv, NEW o \in Ordinals, sessions'[o].state = "ABANDONED" => o \in Stale \/ sessions'[o] = sessions[o],
         o \in Stale => sessions'[o].state = "ABANDONED"
  PROVE  EntriesUnlessAbandoned[o] = IF o \in Stale THEN NoEntries ELSE entries[o]
<1>1. EntriesUnlessAbandoned[o] = IF sessions'[o].state = "ABANDONED" THEN NoEntries ELSE entries[o]
  BY DEF EntriesUnlessAbandoned
<1>2. ComponentTypeOK /\ EntriesSound
  BY DEF ComponentInv, TablesInv
<1>3. sessions[o].state = "ABANDONED" => entries[o] = NoEntries
  BY <1>2, IssuedRow DEF EntriesSound, BodyReads, TerminalState
<1>4. QED
  BY <1>1, <1>3

\* A create that finds its ordinal taken only lets stale sessions expire.
LEMMA TakenKeeps ==
  ASSUME ComponentInv, NEW c \in Callers, CreateSession(c), TakenOrdinal(c, calls[c])
  PROVE  ComponentInv'
<1> DEFINE x == calls[c]
<1>0. ComponentTypeOK /\ CallsRemember
  BY DEF ComponentInv
<1>1. /\ x.op = "create" /\ selection.state = "OPEN"
      /\ sessions' = ExpireStale(sessions) /\ entries' = EntriesUnlessAbandoned
      /\ calls' = [calls EXCEPT ![c] = IF NextOrdinal <= MaxLifetime
                                       THEN [x EXCEPT !.ordinal = NextOrdinal] ELSE NoCall]
      /\ UNCHANGED <<clock, selection, manifest, handed>>
  BY DEF CreateSession, TakenOrdinal, Admits, OpenUnsealed
<1>2. Stale \in SUBSET Live /\ "ABANDONED" \in TerminalState
  BY DEF Stale, TerminalState
<1>3. \A o \in Ordinals :
        sessions'[o] = IF o \in Stale THEN [sessions[o] EXCEPT !.state = "ABANDONED"] ELSE sessions[o]
  BY <1>1 DEF ExpireStale
<1>4. \A o \in Ordinals : entries'[o] = IF o \in Stale THEN NoEntries ELSE entries[o]
  <2>1. SUFFICES ASSUME NEW o \in Ordinals
                 PROVE  entries'[o] = IF o \in Stale THEN NoEntries ELSE entries[o]
    OBVIOUS
  <2>2. o \in Stale => sessions'[o].state = "ABANDONED"
    <3>1. SUFFICES ASSUME o \in Stale PROVE sessions'[o].state = "ABANDONED"
      OBVIOUS
    <3>2. sessions[o] \in Session
      BY <1>0, <1>2, <3>1, IssuedRow DEF Live
    <3>3. sessions'[o] = [sessions[o] EXCEPT !.state = "ABANDONED"]
      BY <1>3, <2>1, <3>1
    <3>4. "ABANDONED" \in SessionState
      BY DEF SessionState
    <3>5. QED
      BY <3>2, <3>3, <3>4, SessionEnds
  <2>3. o \notin Stale => sessions'[o] = sessions[o]
    BY <1>3, <2>1
  <2>4. QED
    BY <1>1, <2>2, <2>3, EntriesOfAbandoned
<1>5. /\ TablesInv'
      /\ \A o \in Ordinals : sessions'[o] \in Session \cup {NoSession} /\ entries'[o] \in EntryRows
  BY <1>1, <1>2, <1>3, <1>4, SomeEnd
<1>6. calls' \in [Callers -> Call] /\ CallsRemember'
  <2> DEFINE y == IF NextOrdinal <= MaxLifetime THEN [x EXCEPT !.ordinal = NextOrdinal] ELSE NoCall
  <2>1. y \in Call /\ Remembers(y)
    <3>1. CASE NextOrdinal <= MaxLifetime
      <4>1. NextOrdinal \in Ordinals
        BY <3>1, NextOrdinalType
      <4>2. /\ x \in [op : {"create"}, set : Sets, generation : Ordinals,
                      predecessor : {0} \cup Ordinals, committed : 0 .. MaxClock,
                      ordinal : Ordinals]
            /\ Remembers(x)
        BY <1>0, <1>1, CallShapes DEF ComponentTypeOK, CallsRemember
      <4>3. QED
        BY <3>1, <4>1, <4>2 DEF Call, Remembers
    <3>2. QED
      BY <3>1, IdleRemembers
  <2>2. calls' = [calls EXCEPT ![c] = y]
    BY <1>1
  <2> HIDE DEF y
  <2>3. QED
    BY <1>0, <2>1, <2>2, CallReplaced
<1>7. ComponentTypeOK'
  BY <1>0, <1>1, <1>5, <1>6 DEF ComponentTypeOK, ExpireStale, EntriesUnlessAbandoned
<1>8. QED
  BY <1>5, <1>6, <1>7 DEF ComponentInv

\* What a transaction that inserts a session finds and leaves.
LEMMA Inserted ==
  ASSUME ComponentInv, NEW c \in Callers, CreateSession(c), InsertSession(c, calls[c]),
         NEW x, x = calls[c]
  PROVE  /\ x.set \in Sets /\ x.generation \in Ordinals /\ x.predecessor \in {0} \cup Ordinals
         /\ x.committed \in 0 .. MaxClock /\ x.ordinal \in Ordinals
         /\ x.predecessor = 0 => x.generation = 1
         /\ Existing(x) = {} /\ PredecessorExpired(x) /\ CapacityLeft
         /\ selection.state = "OPEN"
         /\ Finish(c) /\ UNCHANGED <<clock, selection, manifest, handed>>
         /\ x.ordinal = NextOrdinal /\ x.ordinal \notin Issued
         /\ \E m \in 0 .. MaxLifetime : Issued = 1 .. m /\ x.ordinal = m + 1
         /\ sessions' \in [Ordinals -> Session \cup {NoSession}]
         /\ entries' \in [Ordinals -> EntryRows]
         /\ sessions'[x.ordinal] = NewSession(x) /\ entries'[x.ordinal] = NewEntries
         /\ \A o \in Stale : /\ sessions'[o] \in Session /\ sessions'[o].state = "ABANDONED"
                             /\ sessions'[o].set = sessions[o].set
                             /\ sessions'[o].generation = sessions[o].generation
                             /\ sessions'[o].predecessor = sessions[o].predecessor
                             /\ sessions'[o].committed = sessions[o].committed
                             /\ entries'[o] = NoEntries
         /\ \A o \in Ordinals \ (Stale \cup {x.ordinal}) :
              sessions'[o] = sessions[o] /\ entries'[o] = entries[o]
<1>0. ComponentTypeOK /\ CallsRemember /\ OrdinalsDense
  BY DEF ComponentInv, TablesInv
<1>1. /\ x.op = "create" /\ Existing(x) = {} /\ PredecessorExpired(x) /\ CapacityLeft
      /\ selection.state = "OPEN"
      /\ Finish(c) /\ UNCHANGED <<clock, selection, manifest, handed>>
      /\ x.ordinal = NextOrdinal
      /\ sessions' = ExpireStale([sessions EXCEPT ![x.ordinal] = NewSession(x)])
      /\ entries' = [EntriesUnlessAbandoned EXCEPT ![x.ordinal] = NewEntries]
  BY DEF CreateSession, InsertSession, Admits, OpenUnsealed
<1>2. /\ x \in [op : {"create"}, set : Sets, generation : Ordinals,
                predecessor : {0} \cup Ordinals, committed : 0 .. MaxClock,
                ordinal : Ordinals]
      /\ Remembers(x)
  BY <1>0, <1>1, CallShapes DEF ComponentTypeOK, CallsRemember
<1>3. /\ x.set \in Sets /\ x.generation \in Ordinals /\ x.predecessor \in {0} \cup Ordinals
      /\ x.committed \in 0 .. MaxClock /\ x.ordinal \in Ordinals
      /\ x.predecessor = 0 => x.generation = 1
  BY <1>1, <1>2 DEF Remembers
<1>4. PICK m \in 0 .. MaxLifetime : Issued = 1 .. m /\ NextOrdinal = m + 1
  BY <1>0, NextOrdinalIs
<1>5. x.ordinal \notin Issued /\ x.ordinal \notin Stale
  BY <1>1, <1>4, Bounds DEF Stale, Live
<1>6. \A o \in Ordinals :
        sessions'[o] = IF o \in Stale THEN [sessions[o] EXCEPT !.state = "ABANDONED"]
                       ELSE IF o = x.ordinal THEN NewSession(x) ELSE sessions[o]
  <2>1. DOMAIN sessions = Ordinals
    BY <1>0 DEF ComponentTypeOK
  <2>2. QED
    BY <1>1, <1>3, <1>5, <2>1 DEF ExpireStale
<1>7. \A o \in Stale : o \in Ordinals /\ sessions[o] \in Session
  BY <1>0, IssuedRow DEF Stale, Live, Issued
<1>8. ASSUME NEW o \in Stale
      PROVE  /\ sessions'[o] \in Session /\ sessions'[o].state = "ABANDONED"
             /\ sessions'[o].set = sessions[o].set
             /\ sessions'[o].generation = sessions[o].generation
             /\ sessions'[o].predecessor = sessions[o].predecessor
             /\ sessions'[o].committed = sessions[o].committed
  <2>1. sessions'[o] = [sessions[o] EXCEPT !.state = "ABANDONED"] /\ sessions[o] \in Session
    BY <1>6, <1>7
  <2>2. "ABANDONED" \in SessionState
    BY DEF SessionState
  <2>3. QED
    BY <2>1, <2>2, SessionEnds
<1>9. \A o \in Ordinals \ {x.ordinal} :
        entries'[o] = IF o \in Stale THEN NoEntries ELSE entries[o]
  <2>1. SUFFICES ASSUME NEW o \in Ordinals \ {x.ordinal}
                 PROVE  entries'[o] = IF o \in Stale THEN NoEntries ELSE entries[o]
    OBVIOUS
  <2>2. entries'[o] = EntriesUnlessAbandoned[o]
    BY <1>1, <2>1 DEF EntriesUnlessAbandoned
  <2>3. o \notin Stale => sessions'[o] = sessions[o]
    BY <1>6, <2>1
  <2>4. QED
    BY <1>8, <2>1, <2>2, <2>3, EntriesOfAbandoned
<1>10. entries' \in [Ordinals -> EntryRows] /\ entries'[x.ordinal] = NewEntries
  <2>1. NewEntries \in EntryRows
    BY DEF NewEntries, EntryRows, Entry
  <2>2. EntriesUnlessAbandoned \in [Ordinals -> EntryRows]
    BY <1>0 DEF EntriesUnlessAbandoned, EntryRows, ComponentTypeOK
  <2> HIDE DEF EntriesUnlessAbandoned, NewEntries, EntryRows
  <2>3. QED
    BY <1>1, <1>3, <2>1, <2>2
<1>11. sessions'[x.ordinal] = NewSession(x)
  BY <1>3, <1>5, <1>6
<1>12. \A o \in Ordinals \ (Stale \cup {x.ordinal}) :
         sessions'[o] = sessions[o] /\ entries'[o] = entries[o]
  BY <1>6, <1>9
<1>15. sessions' \in [Ordinals -> Session \cup {NoSession}]
  <2>1. NewSession(x) \in Session
    BY <1>3 DEF NewSession, Session, SessionState
  <2>2. \A o \in Ordinals : sessions'[o] \in Session \cup {NoSession}
    BY <1>0, <1>8, <1>11, <1>12, <2>1 DEF ComponentTypeOK
  <2>3. QED
    BY <1>1, <2>2 DEF ExpireStale
<1>13. \A o \in Stale : entries'[o] = NoEntries
  BY <1>5, <1>7, <1>9
<1>14. \E m_1 \in 0 .. MaxLifetime : Issued = 1 .. m_1 /\ x.ordinal = m_1 + 1
  BY <1>1, <1>4
<1>16. QED
  BY <1>1, <1>3, <1>5, <1>8, <1>10, <1>11, <1>12, <1>13, <1>14, <1>15

\* The inserted session continues the chain of its set.
LEMMA InsertedChains ==
  ASSUME ComponentInv, NEW c \in Callers, CreateSession(c), InsertSession(c, calls[c]),
         NEW x, x = calls[c], NEW n, n = x.ordinal, NEW p, p = x.predecessor
  PROVE  OrdinalsDense' /\ ChainsSound' /\ Issued' = Issued \cup {n}
<1>0. ComponentTypeOK /\ OrdinalsDense /\ ChainsSound
  BY DEF ComponentInv, TablesInv
<1>1. /\ x.set \in Sets /\ x.generation \in Ordinals /\ p \in {0} \cup Ordinals
      /\ x.committed \in 0 .. MaxClock /\ n \in Ordinals
      /\ p = 0 => x.generation = 1
      /\ Existing(x) = {} /\ PredecessorExpired(x)
      /\ n \notin Issued
      /\ \E m \in 0 .. MaxLifetime : Issued = 1 .. m /\ n = m + 1
      /\ sessions'[n] = NewSession(x)
  BY Inserted
<1>2. \A o \in Issued : /\ o \in Ordinals /\ o # n
                        /\ sessions'[o] \in Session
                        /\ sessions'[o].set = sessions[o].set
                        /\ sessions'[o].generation = sessions[o].generation
                        /\ sessions'[o].predecessor = sessions[o].predecessor
                        /\ sessions'[o].committed = sessions[o].committed
                        /\ sessions[o].state = "ABANDONED" => sessions'[o] = sessions[o]
  <2>1. \A o \in Issued : o \in Ordinals /\ sessions[o] \in Session
    BY <1>0, IssuedRow
  <2>2. \A o \in Stale : sessions[o].state # "ABANDONED"
    BY DEF Stale, Live, LiveState
  <2>3. \A o \in Stale : /\ sessions'[o] \in Session
                         /\ sessions'[o].set = sessions[o].set
                         /\ sessions'[o].generation = sessions[o].generation
                         /\ sessions'[o].predecessor = sessions[o].predecessor
                         /\ sessions'[o].committed = sessions[o].committed
    BY Inserted
  <2>4. \A o \in Ordinals \ (Stale \cup {n}) : sessions'[o] = sessions[o]
    BY Inserted
  <2>5. QED
    BY <1>1, <2>1, <2>2, <2>3, <2>4
<1>3. /\ sessions'[n].set = x.set /\ sessions'[n].generation = x.generation
      /\ sessions'[n].predecessor = p /\ sessions'[n].committed = x.committed
      /\ sessions'[n].state = "PROVISIONAL" /\ sessions'[n] # NoSession
  BY <1>1 DEF NewSession, NoSession
<1>4. Issued' = Issued \cup {n}
  <2>1. \A o \in Issued : sessions'[o] # NoSession
    BY <1>2 DEF Session, NoSession
  <2>2. \A o \in Ordinals \ (Issued \cup {n}) : sessions'[o] = NoSession
    <3>1. \A o \in Ordinals \ (Stale \cup {n}) : sessions'[o] = sessions[o]
      BY Inserted
    <3>2. QED
      BY <1>0, <3>1, IssuedRow DEF Stale, Live
  <2>3. QED
    BY <1>1, <1>3, <2>1, <2>2 DEF Issued
<1>5. OrdinalsDense'
  <2>1. PICK m \in 0 .. MaxLifetime : Issued = 1 .. m /\ n = m + 1
    BY <1>1
  <2>2. n \in 0 .. MaxLifetime /\ Issued' = 1 .. n
    BY <1>1, <1>4, <2>1, Bounds DEF Ordinals
  <2>3. QED
    BY <2>2 DEF OrdinalsDense
<1>6. p # 0 =>
        /\ p \in Issued /\ sessions[p].state = "ABANDONED" /\ sessions[p].set = x.set
        /\ sessions[p].generation + 1 = x.generation /\ p < n
        /\ sessions[p].committed + Ttl < x.committed
        /\ Successor(p) = {}
  <2>1. SUFFICES ASSUME p # 0 PROVE /\ p \in Issued /\ Successor(p) = {}
                                    /\ sessions[p].state = "ABANDONED" /\ sessions[p].set = x.set
                                    /\ sessions[p].generation + 1 = x.generation /\ p < n
                                    /\ sessions[p].committed + Ttl < x.committed
    OBVIOUS
  <2>2. /\ sessions[p].state = "ABANDONED" /\ sessions[p].set = x.set
        /\ sessions[p].generation + 1 = x.generation /\ p < n
        /\ sessions[p].committed + Ttl < x.committed
    BY <1>1, <2>1 DEF PredecessorExpired
  <2>3. p \in Issued
    BY <1>0, <1>1, <2>1, <2>2, IssuedRow
  <2>4. Successor(p) = {}
    BY <1>1, <2>1 DEF Existing
  <2>5. QED
    BY <2>2, <2>3, <2>4
<1>7. p = 0 => x.generation = 1 /\ Initial(x.set) = {}
  BY <1>1 DEF Existing
<1>8. /\ \A o \in Issued : /\ sessions[o].generation \in Nat \ {0}
                           /\ sessions[o].predecessor \in Nat
                           /\ sessions[o].committed \in Nat
      /\ x.generation \in Nat \ {0} /\ x.committed \in Nat /\ n \in Nat \ {0} /\ p \in Nat
      /\ Ttl \in Nat
  BY <1>0, <1>1, IssuedRow, Bounds
<1>9. \A o \in Issued' : PredecessorReads(o)'
  <2>1. ASSUME NEW o \in Issued PROVE PredecessorReads(o)'
    <3>1. PredecessorReads(o)
      BY <1>0 DEF ChainsSound
    <3>2. QED
      BY <1>2, <1>4, <3>1 DEF PredecessorReads
  <2>2. PredecessorReads(n)'
    <3>1. CASE p = 0
      BY <1>3, <1>7, <3>1 DEF PredecessorReads
    <3>2. CASE p # 0
      <4>1. /\ sessions'[p] = sessions[p] /\ p \in Issued' /\ x.generation > 1
        BY <1>1, <1>2, <1>4, <1>6, <1>8, <3>2
      <4>2. /\ sessions[p].generation = x.generation - 1
            /\ x.committed > sessions[p].committed + Ttl /\ n > p
        <5>1. /\ sessions[p].generation + 1 = x.generation /\ p < n
              /\ sessions[p].committed + Ttl < x.committed
              /\ sessions[p].generation \in Nat /\ sessions[p].committed \in Nat
          BY <1>6, <1>8, <3>2
        <5>2. x.generation \in Nat /\ x.committed \in Nat /\ n \in Nat /\ p \in Nat /\ Ttl \in Nat
          BY <1>8
        <5>3. QED
          BY <5>1, <5>2
      <4>3. QED
        BY <1>3, <1>6, <3>2, <4>1, <4>2 DEF PredecessorReads
    <3>3. QED
      BY <3>1, <3>2
  <2>3. QED
    BY <1>4, <2>1, <2>2
<1>10. /\ \A s : Initial(s) \subseteq Initial(s)'
       /\ \A o : Successor(o) \subseteq Successor(o)'
  BY <1>2, <1>4 DEF Initial, Successor
<1>11. \A o \in Issued' : Initial(sessions[o].set)' # {}
  <2>1. \A o \in Issued : Initial(sessions[o].set) # {}
    BY <1>0 DEF ChainsSound
  <2>2. \A o \in Issued : Initial(sessions[o].set)' # {}
    BY <1>2, <1>10, <2>1 DEF Initial
  <2>3. Initial(sessions[n].set)' # {}
    <3>1. CASE p = 0
      BY <1>3, <1>4, <1>7, <3>1 DEF Initial
    <3>2. CASE p # 0
      BY <1>2, <1>3, <1>6, <2>2, <3>2 DEF Initial
    <3>3. QED
      BY <3>1, <3>2
  <2>4. QED
    BY <1>4, <2>2, <2>3
\* No session of the set is of its generation or of a later one.
<1>12. \A o \in Issued : sessions[o].set = x.set => sessions[o].generation < x.generation
  <2>1. SUFFICES ASSUME NEW o \in Issued, sessions[o].set = x.set,
                        ~ (sessions[o].generation < x.generation)
                 PROVE  FALSE
    OBVIOUS
  <2>2. CASE p = 0
    <3>1. Initial(sessions[o].set) # {}
      BY <1>0, <2>1 DEF ChainsSound
    <3>2. QED
      BY <1>7, <2>1, <2>2, <3>1
  <2>3. CASE p # 0
    <3>1. CASE sessions[o].generation = x.generation
      <4> DEFINE q == sessions[o].predecessor
      <4>1. PredecessorReads(o)
        BY <1>0, <2>1 DEF ChainsSound
      <4>2. x.generation > 1
        BY <1>1, <1>6, <1>8, <2>3, SMTT(40)
      <4>3. q # 0
        BY <3>1, <4>1, <4>2 DEF PredecessorReads
      <4>4. /\ q \in Issued /\ sessions[q].generation = sessions[o].generation - 1
            /\ sessions[q].set = sessions[o].set
        BY <4>1, <4>3 DEF PredecessorReads
      <4>5. sessions[q].generation = sessions[p].generation
        <5>1. /\ sessions[p].generation + 1 = x.generation /\ sessions[p].generation \in Nat
              /\ sessions[q].generation = x.generation - 1 /\ x.generation \in Nat
          BY <1>6, <1>8, <2>3, <3>1, <4>4
        <5>2. QED
          BY <5>1
      <4>6. q = p
        BY <1>0, <1>6, <2>1, <2>3, <4>4, <4>5 DEF ChainsSound, OneSet
      <4>7. QED
        BY <1>6, <2>1, <2>3, <4>6 DEF Successor
    <3>2. CASE sessions[o].generation # x.generation
      <4>1. sessions[p].generation < sessions[o].generation
        BY <1>1, <1>6, <1>8, <2>1, <2>3, <3>2, SMTT(40)
      <4>2. Earlier(p, o)
        BY <1>6, <2>1, <2>3, <4>1 DEF Earlier, OneSet
      <4>3. QED
        BY <1>0, <1>6, <2>1, <2>3, <4>2 DEF ChainsSound
    <3>3. QED
      BY <3>1, <3>2
  <2>4. QED
    BY <2>2, <2>3
<1>13. \A o, q \in Issued' :
         OneSet(o, q)' /\ sessions'[o].generation = sessions'[q].generation => o = q
  <2>1. SUFFICES ASSUME NEW o \in Issued', NEW q \in Issued', OneSet(o, q)',
                        sessions'[o].generation = sessions'[q].generation, o # q
                 PROVE  FALSE
    OBVIOUS
  <2>2. CASE o \in Issued /\ q \in Issued
    BY <1>0, <1>2, <2>1, <2>2 DEF ChainsSound, OneSet
  <2>3. CASE o = n
    BY <1>1, <1>2, <1>3, <1>4, <1>8, <1>12, <2>1, <2>3 DEF OneSet
  <2>4. CASE q = n
    BY <1>1, <1>2, <1>3, <1>4, <1>8, <1>12, <2>1, <2>4 DEF OneSet
  <2>5. QED
    BY <1>4, <2>2, <2>3, <2>4
<1>14. \A o, q \in Issued' :
         Earlier(o, q)' => /\ sessions'[o].state = "ABANDONED"
                           /\ sessions'[o].committed < sessions'[q].committed
                           /\ Successor(o)' # {}
  <2>1. SUFFICES ASSUME NEW o \in Issued', NEW q \in Issued', Earlier(o, q)'
                 PROVE  /\ sessions'[o].state = "ABANDONED"
                        /\ sessions'[o].committed < sessions'[q].committed
                        /\ Successor(o)' # {}
    OBVIOUS
  <2>2. sessions'[o].set = sessions'[q].set /\ sessions'[o].generation < sessions'[q].generation
    BY <2>1 DEF Earlier, OneSet
  <2>3. CASE o \in Issued /\ q \in Issued
    <3>1. Earlier(o, q)
      BY <1>2, <2>2, <2>3 DEF Earlier, OneSet
    <3>2. /\ sessions[o].state = "ABANDONED" /\ Successor(o) # {}
          /\ sessions[o].committed < sessions[q].committed
      BY <1>0, <2>3, <3>1 DEF ChainsSound
    <3>3. QED
      BY <1>2, <1>10, <2>3, <3>2
  <2>4. CASE o = n
    <3>1. sessions'[q].set = x.set /\ x.generation < sessions'[q].generation
      BY <1>3, <2>2, <2>4
    <3>2. q # n
      BY <1>3, <1>8, <3>1
    <3>3. q \in Issued /\ sessions[q].set = x.set /\ x.generation < sessions[q].generation
      BY <1>2, <1>4, <2>1, <3>1, <3>2
    <3>4. sessions[q].generation < x.generation /\ sessions[q].generation \in Nat
      BY <1>8, <1>12, <3>3
    <3>5. QED
      BY <1>8, <3>3, <3>4
  <2>5. CASE o \in Issued /\ q = n
    <3>1. sessions[o].set = x.set /\ sessions[o].generation < x.generation
      BY <1>2, <1>3, <2>2, <2>5
    <3>2. p # 0
      BY <1>7, <1>8, <2>5, <3>1
    <3>3. n \in Successor(p)'
      BY <1>3, <1>4 DEF Successor
    <3>4. CASE o = p
      <4>1. sessions[p].committed < x.committed
        BY <1>1, <1>6, <1>8, <3>2
      <4>2. QED
        BY <1>2, <1>3, <1>6, <2>5, <3>2, <3>3, <3>4, <4>1
    <3>5. CASE o # p
      <4>1. sessions[o].generation # sessions[p].generation
        BY <1>0, <1>6, <2>5, <3>1, <3>2, <3>5 DEF ChainsSound, OneSet
      <4>2. Earlier(o, p)
        BY <1>1, <1>6, <1>8, <2>5, <3>1, <3>2, <4>1 DEF Earlier, OneSet
      <4>3. /\ sessions[o].state = "ABANDONED" /\ Successor(o) # {}
            /\ sessions[o].committed < sessions[p].committed
        BY <1>0, <1>6, <2>5, <3>2, <4>2 DEF ChainsSound
      <4>4. sessions[o].committed < x.committed
        BY <1>1, <1>6, <1>8, <2>5, <3>2, <4>3, SMTT(40)
      <4>5. QED
        BY <1>2, <1>3, <1>10, <2>5, <4>3, <4>4
    <3>6. QED
      BY <3>4, <3>5
  <2>6. QED
    BY <1>4, <2>3, <2>4, <2>5
<1>15. ChainsSound'
  BY <1>9, <1>11, <1>13, <1>14 DEF ChainsSound
<1>16. QED
  BY <1>4, <1>5, <1>15

\* The roster of a new session is complete and has no result.
LEMMA RosterOfNew == DOMAIN NewEntries = ComponentKinds /\ NewEntries \in [ComponentKinds -> Entry]
BY DEF NewEntries, Entry

\* A session that was just inserted reads.
LEMMA NewReads ==
  ASSUME NEW x, NEW n, sessions'[n] = NewSession(x), entries'[n] = NewEntries
  PROVE  BodyReads(n)'
<1>1. sessions'[n].state = "PROVISIONAL"
  BY DEF NewSession
<1>2. HasRoster(n)'
  BY RosterOfNew DEF HasRoster
<1>3. \A k \in ComponentKinds : entries'[n][k].status = "EXPECTED"
  BY DEF NewEntries
<1>4. EntriesRead(n)'
  BY <1>3 DEF EntriesRead
<1>5. Statuses(n)' = {"EXPECTED"}
  <2>1. DOMAIN entries'[n] = ComponentKinds
    BY RosterOfNew
  <2>2. QED
    BY <1>3, <2>1, ComponentAssumption DEF Statuses
<1>6. ActiveStateReads(n)'
  BY <1>1, <1>5 DEF ActiveStateReads
<1>7. QED
  BY <1>1, <1>2, <1>4, <1>6 DEF BodyReads, TerminalState

\* A new session is the next of its chain, and the only one alive in it.
LEMMA InsertKeeps ==
  ASSUME ComponentInv, NEW c \in Callers, CreateSession(c), InsertSession(c, calls[c])
  PROVE  ComponentInv'
<1>a. PICK x : x = calls[c]
  OBVIOUS
<1>b. PICK n : n = x.ordinal
  OBVIOUS
<1>c. PICK p : p = x.predecessor
  OBVIOUS
<1>0. ComponentTypeOK /\ CallsRemember /\ TablesInv
  BY DEF ComponentInv
<1>1. OrdinalsDense' /\ ChainsSound' /\ Issued' = Issued \cup {n}
  BY <1>a, <1>b, <1>c, InsertedChains
<1>2. /\ CapacityLeft /\ selection.state = "OPEN" /\ n \in Ordinals /\ n \notin Issued
      /\ Finish(c) /\ UNCHANGED <<clock, selection, manifest, handed>>
      /\ sessions' \in [Ordinals -> Session \cup {NoSession}]
      /\ entries' \in [Ordinals -> EntryRows]
      /\ sessions'[n] = NewSession(x) /\ entries'[n] = NewEntries
      /\ \A o \in Stale : sessions'[o].state = "ABANDONED" /\ entries'[o] = NoEntries
      /\ \A o \in Ordinals \ (Stale \cup {n}) : sessions'[o] = sessions[o] /\ entries'[o] = entries[o]
  BY <1>a, <1>b, Inserted
<1>3. Live' = (Live \ Stale) \cup {n}
  BY <1>1, <1>2 DEF Live, Issued, LiveState, NewSession
<1>4. LiveBounded'
  <2>1. IsFiniteSet(Ordinals) /\ Live \ Stale \subseteq Ordinals
    BY FS_Interval, Bounds DEF Ordinals, Live, Issued
  <2>2. IsFiniteSet(Live \ Stale) /\ Cardinality(Live \ Stale) \in Nat
    BY <2>1, FS_Subset, FS_CardinalityType
  <2>3. Cardinality(Live') <= Cardinality(Live \ Stale) + 1 /\ Cardinality(Live') \in Nat
    <3>1. /\ IsFiniteSet((Live \ Stale) \cup {n})
          /\ Cardinality((Live \ Stale) \cup {n}) =
               IF n \in Live \ Stale THEN Cardinality(Live \ Stale) ELSE Cardinality(Live \ Stale) + 1
      BY <2>2, FS_AddElement
    <3>2. QED
      BY <1>3, <2>2, <3>1
  <2>4. Cardinality(Live \ Stale) < MaxLive
    BY <1>2 DEF CapacityLeft
  <2>5. QED
    BY <2>2, <2>3, <2>4, Bounds DEF LiveBounded
<1>5. SelectionSound' /\ ManifestSound'
  BY <1>2, OpenStays
<1>6. EntriesSound'
  <2>1. selection'.session = 0 /\ \A o \in Issued : sessions[o].state # "SELECTED"
    BY <1>2, OpenFacts
  <2>2. \A o \in Issued' : BodyReads(o)'
    <3>1. SUFFICES ASSUME NEW o \in Issued' PROVE BodyReads(o)'
      OBVIOUS
    <3>2. CASE o = n
      BY <1>2, <3>2, NewReads
    <3>3. CASE o # n
      <4>1. o \in Issued /\ o \in Ordinals /\ o # 0 /\ BodyReads(o)
        BY <1>0, <1>1, <3>1, <3>3, Bounds DEF TablesInv, EntriesSound, Issued
      <4>2. CASE o \in Stale
        BY <1>2, <2>1, <4>1, <4>2, BodyOver DEF TerminalState
      <4>3. CASE o \notin Stale
        BY <1>2, <2>1, <3>3, <4>1, <4>3, BodyAlone
      <4>4. QED
        BY <4>2, <4>3
    <3>4. QED
      BY <3>2, <3>3
  <2>3. \A o \in Ordinals \ Issued' : entries'[o] = NoEntries
    BY <1>0, <1>1, <1>2 DEF TablesInv, EntriesSound, Stale, Live
  <2>4. ResultsSound'
    <3>1. \A k \in ComponentKinds : /\ entries'[n][k].status # "CONFIRMED"
                           /\ entries'[n][k].result = {}
      BY <1>2 DEF NewEntries
    <3>2. QED
      BY <1>0, <1>2, <3>1, NoRoster DEF TablesInv, EntriesSound, ResultsSound, HasRoster
  <2>5. QED
    BY <2>2, <2>3, <2>4 DEF EntriesSound
<1>7. calls' \in [Callers -> Call] /\ CallsRemember'
  BY <1>0, <1>2, CallFinished
<1>8. ComponentTypeOK'
  BY <1>0, <1>2, <1>7 DEF ComponentTypeOK
<1>9. QED
  BY <1>1, <1>4, <1>5, <1>6, <1>7, <1>8 DEF ComponentInv, TablesInv

\* A create inserts its session, or finds it there.
LEMMA CreateKeeps ==
  ASSUME ComponentInv, NEW c \in Callers, CreateSession(c)
  PROVE  ComponentInv'
BY TakenKeeps, InsertKeeps DEF CreateSession

-----------------------------------------------------------------------------
(* Staging. *)

\* A roster holds entries.
LEMMA RosterType ==
  ASSUME ComponentTypeOK, NEW o \in Ordinals, HasRoster(o)
  PROVE  /\ entries[o] \in [ComponentKinds -> Entry]
         /\ Statuses(o) = {entries[o][k].status : k \in ComponentKinds}
<1>1. entries[o] \in EntryRows /\ entries[o] # NoEntries
  BY NoRoster DEF ComponentTypeOK, HasRoster
<1>2. QED
  BY <1>1 DEF EntryRows, HasRoster, Statuses

\* A stage takes one entry from expected, and the session with the last of them.
LEMMA StageKeeps ==
  ASSUME ComponentInv, NEW c \in Callers, CommitStage(c)
  PROVE  ComponentInv'
<1>0. ComponentTypeOK /\ CallsRemember /\ TablesInv
  BY DEF ComponentInv
<1>a. PICK o : o = calls[c].session
  OBVIOUS
<1>b. PICK k : k = calls[c].kind
  OBVIOUS
<1>1. /\ calls[c].op = "stage" /\ HasRoster(o) /\ entries[o][k].status = "EXPECTED"
      /\ sessions[o].state = "PROVISIONAL" /\ selection.state = "OPEN"
      /\ entries' = [entries EXCEPT ![o][k].status = "STAGED"]
      /\ sessions' = IF "EXPECTED" \in {entries'[o][j].status : j \in ComponentKinds} THEN sessions
                     ELSE [sessions EXCEPT ![o].state = "STAGED"]
      /\ Finish(c) /\ UNCHANGED <<clock, selection, manifest, handed>>
  BY <1>a, <1>b DEF CommitStage
<1>2. o \in Ordinals /\ k \in ComponentKinds
  BY <1>0, <1>1, <1>a, <1>b, CallShapes DEF ComponentTypeOK
<1>3. o \in Issued /\ sessions[o] \in Session
  BY <1>0, <1>1, <1>2, IssuedRow
<1>4. entries[o] \in [ComponentKinds -> Entry] /\ Statuses(o) = {entries[o][j].status : j \in ComponentKinds}
  BY <1>0, <1>1, <1>2, RosterType
<1>5. /\ entries' \in [Ordinals -> EntryRows]
      /\ \A p \in Ordinals \ {o} : entries'[p] = entries[p]
      /\ entries'[o] \in [ComponentKinds -> Entry]
      /\ \A j \in ComponentKinds : /\ entries'[o][j].status = IF j = k THEN "STAGED" ELSE entries[o][j].status
                          /\ entries'[o][j].pins = entries[o][j].pins
                          /\ entries'[o][j].result = entries[o][j].result
  <2> DEFINE e == [entries[o] EXCEPT ![k].status = "STAGED"]
  <2>1. e \in [ComponentKinds -> Entry]
    BY <1>2, <1>4 DEF Entry
  <2>2. \A j \in ComponentKinds : /\ e[j].status = IF j = k THEN "STAGED" ELSE entries[o][j].status
                         /\ e[j].pins = entries[o][j].pins /\ e[j].result = entries[o][j].result
    BY <1>2, <1>4 DEF Entry
  <2>3. entries' = [entries EXCEPT ![o] = e]
    BY <1>1
  <2> HIDE DEF e
  <2>4. entries \in [Ordinals -> EntryRows]
    BY <1>0 DEF ComponentTypeOK
  <2>5. QED
    BY <1>2, <2>1, <2>2, <2>3, <2>4 DEF EntryRows
<1>6. /\ sessions' \in [Ordinals -> Session \cup {NoSession}]
      /\ \A p \in Ordinals \ {o} : sessions'[p] = sessions[p]
      /\ sessions'[o] \in Session
      /\ sessions'[o].set = sessions[o].set
      /\ sessions'[o].generation = sessions[o].generation
      /\ sessions'[o].predecessor = sessions[o].predecessor
      /\ sessions'[o].committed = sessions[o].committed
      /\ sessions'[o].state = IF "EXPECTED" \in {entries'[o][j].status : j \in ComponentKinds}
                              THEN "PROVISIONAL" ELSE "STAGED"
  BY <1>0, <1>1, <1>2, <1>3 DEF ComponentTypeOK, Session, SessionState
<1>7. Issued' = Issued
  BY <1>2, <1>3, <1>6 DEF Issued, Session, NoSession
<1>8. Live' = Live
  BY <1>1, <1>2, <1>3, <1>6, <1>7 DEF Live, Issued, LiveState
<1>9. LiveBounded'
  BY <1>8, LiveShrinks
<1>10. OrdinalsDense' /\ ChainsSound'
  <2>1. \A p \in Issued : /\ sessions'[p].set = sessions[p].set
                          /\ sessions'[p].generation = sessions[p].generation
                          /\ sessions'[p].predecessor = sessions[p].predecessor
                          /\ sessions'[p].committed = sessions[p].committed
                          /\ sessions[p].state = "ABANDONED" => sessions'[p].state = "ABANDONED"
    BY <1>1, <1>6 DEF Issued
  <2>2. QED
    BY <1>0, <1>7, <2>1, SessionsKeepTheirPast
<1>11. SelectionSound' /\ ManifestSound'
  BY <1>1, OpenStays
<1>12. EntriesSound'
  <2>1. selection'.session = 0 /\ \A p \in Issued : sessions[p].state # "SELECTED"
    BY <1>1, OpenFacts
  <2>2. BodyReads(o) /\ \A p \in Issued : BodyReads(p)
    BY <1>0, <1>3 DEF TablesInv, EntriesSound
  <2>3. Statuses(o) \subseteq {"EXPECTED", "STAGED"}
    BY <1>1, <2>2 DEF BodyReads, TerminalState, ActiveStateReads
  <2>4. HasRoster(o)'
    BY <1>5 DEF HasRoster
  <2>5. Statuses(o)' = {entries'[o][j].status : j \in ComponentKinds}
    BY <1>5 DEF Statuses
  <2>6. \A j \in ComponentKinds : entries'[o][j].status \in {"EXPECTED", "STAGED"}
    BY <1>4, <1>5, <2>3
  <2>7. EntriesRead(o)'
    BY <2>6 DEF EntriesRead
  <2>8. ActiveStateReads(o)'
    <3>1. CASE "EXPECTED" \in Statuses(o)'
      BY <1>6, <2>5, <2>6, <3>1 DEF ActiveStateReads
    <3>2. CASE "EXPECTED" \notin Statuses(o)'
      <4>1. Statuses(o)' = {"STAGED"}
        BY <1>2, <2>5, <2>6, <3>2
      <4>2. QED
        BY <1>6, <2>5, <3>2, <4>1 DEF ActiveStateReads
    <3>3. QED
      BY <3>1, <3>2
  <2>9. BodyReads(o)'
    BY <1>6, <2>4, <2>7, <2>8 DEF BodyReads, TerminalState
  <2>10. \A p \in Issued \ {o} : BodyReads(p)'
    <3>1. SUFFICES ASSUME NEW p \in Issued \ {o} PROVE BodyReads(p)'
      OBVIOUS
    <3>2. p \in Ordinals /\ p # 0
      BY Bounds DEF Issued
    <3>3. QED
      BY <1>5, <1>6, <2>1, <2>2, <3>1, <3>2, BodyAlone
  <2>11. \A p \in Ordinals \ Issued' : entries'[p] = entries[p]
    BY <1>3, <1>5, <1>7
  <2>12. ResultsSound'
    <3>1. ResultsSound
      BY <1>0 DEF TablesInv, EntriesSound
    <3>2. \A p \in Ordinals \ {o} : HasRoster(p)' <=> HasRoster(p)
      BY <1>5 DEF HasRoster
    <3>3. \A j \in ComponentKinds : entries[o][j].status # "CONFIRMED"
      BY <1>4, <2>3
    <3>4. \A j \in ComponentKinds : /\ entries'[o][j].status # "CONFIRMED"
                           /\ entries'[o][j].result = {}
      BY <1>1, <1>2, <1>5, <2>6, <3>1, <3>3 DEF ResultsSound
    <3>5. QED
      BY <1>5, <3>1, <3>2, <3>4 DEF ResultsSound
  <2>13. QED
    BY <1>0, <1>7, <2>9, <2>10, <2>11, <2>12 DEF TablesInv, EntriesSound
<1>13. calls' \in [Callers -> Call] /\ CallsRemember'
  BY <1>0, <1>1, CallFinished
<1>14. ComponentTypeOK'
  BY <1>0, <1>1, <1>5, <1>6, <1>13 DEF ComponentTypeOK
<1>15. QED
  BY <1>9, <1>10, <1>11, <1>12, <1>13, <1>14 DEF ComponentInv, TablesInv

-----------------------------------------------------------------------------
(* Selection. *)

\* What is handed out is typed when its session is issued.
LEMMA HandOutType ==
  ASSUME ComponentTypeOK, NEW o \in Issued', HandOut(o),
         sessions' \in [Ordinals -> Session \cup {NoSession}], selection' \in Selection
  PROVE  handed' \subseteq Ordinals \X Sets \X SUBSET Pins
<1>1. o \in Ordinals /\ sessions'[o] \in Session
  BY DEF Issued
<1>2. sessions'[o].set \in Sets /\ selection'.pins \in SUBSET Pins
  BY <1>1 DEF Session, Selection
<1>3. QED
  BY <1>1, <1>2 DEF HandOut, ComponentTypeOK

\* The set that is selected is answered, and nothing else is done.
LEMMA AnswersKeep ==
  ASSUME ComponentInv, NEW o \in Issued, HandOut(o),
         UNCHANGED <<clock, sessions, entries, selection, manifest>>,
         calls' \in [Callers -> Call] /\ CallsRemember'
  PROVE  ComponentInv'
<1>0. ComponentTypeOK /\ CallsRemember /\ TablesInv
  BY DEF ComponentInv
<1>1. o \in Issued'
  BY DEF Issued
<1>2. handed' \subseteq Ordinals \X Sets \X SUBSET Pins
  BY <1>0, <1>1, HandOutType DEF ComponentTypeOK
<1>3. ComponentTypeOK'
  BY <1>0, <1>2 DEF ComponentTypeOK
<1>4. TablesInv'
  BY <1>0, TablesUntouched
<1>5. QED
  BY <1>3, <1>4 DEF ComponentInv

\* A validation that succeeds preserves the invariant.
LEMMA AcceptedKeeps ==
  ASSUME ComponentInv, NEW c \in Callers, AcceptSelected(c) \/ AcceptStaged(c)
  PROVE  ComponentInv'
<1>0. ComponentTypeOK /\ CallsRemember /\ TablesInv
  BY DEF ComponentInv
<1>1. CASE AcceptSelected(c)
  <2>1. /\ calls[c].session \in Issued /\ HandOut(calls[c].session) /\ Finish(c)
        /\ UNCHANGED <<clock, sessions, entries, selection, manifest>>
    BY <1>1 DEF AcceptSelected, Loads
  <2>2. calls' \in [Callers -> Call] /\ CallsRemember'
    BY <1>0, <2>1, CallFinished
  <2>3. PICK o : o = calls[c].session
    OBVIOUS
  <2>4. HandOut(o)
    BY <2>1, <2>3 DEF HandOut
  <2>5. QED
    BY <2>1, <2>2, <2>3, <2>4, AnswersKeep
<1>2. CASE AcceptStaged(c)
  <2> DEFINE x == calls[c]
             y == [x EXCEPT !.op = "seal"]
  <2>1. /\ x.op = "validate" /\ sessions[x.session].state = "STAGED" /\ View(x.session) = x.seen
        /\ calls' = [calls EXCEPT ![c].op = "seal"]
        /\ UNCHANGED <<clock, sessions, entries, selection, manifest, handed>>
    BY <1>2 DEF AcceptStaged, Unchanged
  <2>2. /\ x \in [op : {"abandon", "validate", "seal", "manifest"}, session : Ordinals, seen : Views]
    BY <1>0, <2>1, CallShapes DEF ComponentTypeOK
  <2>3. y \in [op : {"abandon", "validate", "seal", "manifest"}, session : Ordinals, seen : Views]
        /\ y.op = "seal" /\ y.seen = x.seen
    BY <2>2
  <2>4. y \in Call /\ Remembers(y)
    <3>1. x.seen.row.state = "STAGED"
      BY <2>1 DEF View
    <3>2. y \in Call
      BY <2>3 DEF Call
    <3> HIDE DEF y
    <3>3. QED
      BY <2>3, <3>1, <3>2 DEF Remembers
  <2>5. calls' = [calls EXCEPT ![c] = y]
    BY <2>1
  <2> HIDE DEF y
  <2>6. calls' \in [Callers -> Call] /\ CallsRemember'
    BY <1>0, <2>4, <2>5, CallReplaced
  <2>7. ComponentTypeOK' /\ TablesInv'
    BY <1>0, <2>1, <2>6, TablesUntouched DEF ComponentTypeOK
  <2>8. QED
    BY <2>6, <2>7 DEF ComponentInv
<1>3. QED
  BY <1>1, <1>2

\* What a seal that changes the tables finds and leaves.
LEMMA Sealed ==
  ASSUME ComponentInv, NEW c \in Callers, Seal(c), ~ SealedByTwin(calls[c])
  PROVE  \E o \in Issued, pins \in Pins :
         /\ o = calls[c].session
         /\ sessions[o] \in Session /\ sessions[o].state = "STAGED"
         /\ selection.state = "OPEN"
         /\ selection' = [selection EXCEPT !.state = "COMPONENT_EFFECTS_SEALED",
                                           !.session = o, !.pins = {pins}]
         /\ sessions' = Selected(o) /\ entries' = SealedEntries(o, pins)
         /\ UNCHANGED <<clock, manifest>>
<1>a. PICK o : o = calls[c].session
  OBVIOUS
<1>b. PICK pins : pins = PinsOf[calls[c].seen.row.set]
  OBVIOUS
<1>0. ComponentTypeOK /\ CallsRemember /\ TablesInv
  BY DEF ComponentInv
<1>1. /\ calls[c].op = "seal" /\ View(o) = calls[c].seen /\ selection.state = "OPEN"
      /\ selection' = [selection EXCEPT !.state = "COMPONENT_EFFECTS_SEALED",
                                        !.session = o, !.pins = {pins}]
      /\ sessions' = Selected(o) /\ entries' = SealedEntries(o, pins)
      /\ UNCHANGED <<clock, manifest>>
  BY <1>a, <1>b DEF Seal, SealFence, Unchanged
<1>3. sessions[o].state = "STAGED" /\ calls[c].seen.row = sessions[o]
  BY <1>0, <1>1 DEF View, CallsRemember, Remembers
<1>4. o \in Ordinals
  BY <1>0, <1>1, <1>a, CallShapes DEF ComponentTypeOK
<1>5. o \in Issued /\ sessions[o] \in Session
  BY <1>0, <1>3, <1>4, IssuedRow
<1>6. pins \in Pins
  BY <1>3, <1>5, <1>b, ComponentAssumption DEF Session
<1>7. QED
  BY <1>1, <1>3, <1>5, <1>6, <1>a

\* A sealed entry has its pins, and still no result.
LEMMA SealedEntry ==
  ASSUME NEW e \in Entry, e.result = {}, NEW pins \in Pins, NEW f,
         f = [e EXCEPT !.status = "SEALED", !.pins = {pins}]
  PROVE  f \in Entry /\ f.status = "SEALED" /\ f.pins = {pins} /\ f.result = {}
<1>1. {pins} \in SUBSET Pins
  OBVIOUS
<1>2. f = [status |-> "SEALED", pins |-> {pins}, result |-> e.result]
  BY DEF Entry
<1>3. QED
  BY <1>1, <1>2 DEF Entry

\* The sessions and entries after it.
LEMMA SealedTables ==
  ASSUME ComponentInv, NEW o \in Issued, sessions[o] \in Session, sessions[o].state = "STAGED",
         NEW pins \in Pins, sessions' = Selected(o), entries' = SealedEntries(o, pins)
  PROVE  /\ sessions' \in [Ordinals -> Session \cup {NoSession}]
         /\ entries' \in [Ordinals -> EntryRows]
         /\ Issued' = Issued /\ Live' = {}
         /\ \A p \in Issued : /\ sessions'[p].set = sessions[p].set
                              /\ sessions'[p].generation = sessions[p].generation
                              /\ sessions'[p].predecessor = sessions[p].predecessor
                              /\ sessions'[p].committed = sessions[p].committed
                              /\ sessions[p].state = "ABANDONED" => sessions'[p].state = "ABANDONED"
         /\ sessions'[o].state = "SELECTED"
         /\ \A p \in Live \ {o} : sessions'[p].state = "SUPERSEDED" /\ entries'[p] = NoEntries
         /\ \A p \in Ordinals \ Live : sessions'[p] = sessions[p] /\ entries'[p] = entries[p]
         /\ entries'[o] \in [ComponentKinds -> Entry]
         /\ \A k \in ComponentKinds : /\ entries'[o][k].status = "SEALED"
                             /\ entries'[o][k].pins = {pins}
                             /\ entries'[o][k].result = {}
<1>0. ComponentTypeOK /\ TablesInv
  BY DEF ComponentInv
<1>1. o \in Live /\ o \in Ordinals /\ Live \subseteq Issued /\ Issued \subseteq Ordinals
  BY DEF Live, Issued, LiveState
<1>2. \A p \in Issued : p \in Ordinals /\ sessions[p] \in Session
  BY <1>0, IssuedRow
<1>3. \A p \in Ordinals :
        sessions'[p] = IF p = o THEN [sessions[p] EXCEPT !.state = "SELECTED"]
                       ELSE IF p \in Live THEN [sessions[p] EXCEPT !.state = "SUPERSEDED"]
                       ELSE sessions[p]
  BY DEF Selected
<1>4. "SELECTED" \in SessionState /\ "SUPERSEDED" \in SessionState
  BY DEF SessionState
<1>5. ASSUME NEW p \in Live
      PROVE  /\ sessions'[p] \in Session /\ sessions'[p] # NoSession
             /\ sessions'[p].set = sessions[p].set
             /\ sessions'[p].generation = sessions[p].generation
             /\ sessions'[p].predecessor = sessions[p].predecessor
             /\ sessions'[p].committed = sessions[p].committed
             /\ sessions'[p].state = IF p = o THEN "SELECTED" ELSE "SUPERSEDED"
  <2>1. /\ sessions[p] \in Session /\ p \in Ordinals
        /\ sessions'[p] = [sessions[p] EXCEPT !.state = IF p = o THEN "SELECTED" ELSE "SUPERSEDED"]
    BY <1>1, <1>2, <1>3, <1>5
  <2>2. (IF p = o THEN "SELECTED" ELSE "SUPERSEDED") \in SessionState
    BY <1>4
  <2>3. QED
    BY <2>1, <2>2, SessionEnds
<1>6. \A p \in Ordinals \ Live : sessions'[p] = sessions[p]
  BY <1>1, <1>3
<1>7. Issued' = Issued
  BY <1>1, <1>5, <1>6 DEF Issued, Live
<1>8. Live' = {}
  BY <1>1, <1>5, <1>6, <1>7 DEF Live, LiveState
<1>9. sessions' \in [Ordinals -> Session \cup {NoSession}]
  <2>1. \A p \in Ordinals : sessions'[p] \in Session \cup {NoSession}
    BY <1>0, <1>5, <1>6 DEF ComponentTypeOK
  <2>2. QED
    BY <2>1 DEF Selected
<1>10. \A p \in Issued : /\ sessions'[p].set = sessions[p].set
                         /\ sessions'[p].generation = sessions[p].generation
                         /\ sessions'[p].predecessor = sessions[p].predecessor
                         /\ sessions'[p].committed = sessions[p].committed
                         /\ sessions[p].state = "ABANDONED" => sessions'[p].state = "ABANDONED"
  BY <1>1, <1>5, <1>6 DEF Live, LiveState
\* The entries of the session that is selected were all staged.
<1>11. /\ HasRoster(o) /\ Statuses(o) = {"STAGED"}
  BY <1>0 DEF TablesInv, EntriesSound, BodyReads, TerminalState, ActiveStateReads
<1>12. /\ entries[o] \in [ComponentKinds -> Entry]
       /\ \A k \in ComponentKinds : entries[o][k].status = "STAGED" /\ entries[o][k].result = {}
  <2>1. entries[o] \in [ComponentKinds -> Entry] /\ Statuses(o) = {entries[o][k].status : k \in ComponentKinds}
    BY <1>0, <1>1, <1>11, RosterType
  <2>2. \A k \in ComponentKinds : entries[o][k].status = "STAGED"
    BY <1>11, <2>1
  <2>3. QED
    BY <1>0, <1>1, <1>11, <2>1, <2>2 DEF TablesInv, EntriesSound, ResultsSound
<1>13. \A p \in Ordinals :
         entries'[p] = IF p = o
                       THEN [k \in ComponentKinds |-> [entries[p][k] EXCEPT !.status = "SEALED", !.pins = {pins}]]
                       ELSE IF sessions'[p].state = "SUPERSEDED" THEN NoEntries ELSE entries[p]
  BY DEF SealedEntries
<1>14. /\ entries'[o] \in [ComponentKinds -> Entry]
       /\ \A k \in ComponentKinds : /\ entries'[o][k].status = "SEALED"
                           /\ entries'[o][k].pins = {pins}
                           /\ entries'[o][k].result = {}
  <2>1. entries'[o] = [k \in ComponentKinds |-> [entries[o][k] EXCEPT !.status = "SEALED", !.pins = {pins}]]
    BY <1>1, <1>13
  <2>2. ASSUME NEW k \in ComponentKinds
        PROVE  /\ entries'[o][k] \in Entry
               /\ entries'[o][k].status = "SEALED"
               /\ entries'[o][k].pins = {pins}
               /\ entries'[o][k].result = {}
    <3>1. PICK e : e = entries[o][k]
      OBVIOUS
    <3>2. PICK f : f = entries'[o][k]
      OBVIOUS
    <3>3. f = [e EXCEPT !.status = "SEALED", !.pins = {pins}]
      BY <2>1, <3>1, <3>2
    <3>4. e \in Entry /\ e.result = {}
      BY <1>12, <3>1
    <3>5. f \in Entry /\ f.status = "SEALED" /\ f.pins = {pins} /\ f.result = {}
      BY <3>3, <3>4, SealedEntry
    <3>6. QED
      BY <3>2, <3>5
  <2>3. entries'[o] \in [ComponentKinds -> Entry]
    BY <2>1, <2>2
  <2>4. QED
    BY <2>2, <2>3
<1>15. \A p \in Live \ {o} : sessions'[p].state = "SUPERSEDED" /\ entries'[p] = NoEntries
  BY <1>1, <1>5, <1>13
<1>16. \A p \in Ordinals \ Live : entries'[p] = entries[p]
  <2>1. SUFFICES ASSUME NEW p \in Ordinals \ Live PROVE entries'[p] = entries[p]
    OBVIOUS
  <2>2. p # o /\ sessions'[p] = sessions[p]
    BY <1>1, <1>6, <2>1
  <2>3. sessions[p].state = "SUPERSEDED" => entries[p] = NoEntries
    BY <1>0, <2>1, IssuedRow DEF TablesInv, EntriesSound, BodyReads, TerminalState
  <2>4. QED
    BY <1>13, <2>1, <2>2, <2>3
<1>17. entries' \in [Ordinals -> EntryRows]
  <2>1. \A p \in Ordinals : entries'[p] \in EntryRows
    BY <1>0, <1>14, <1>15, <1>16 DEF ComponentTypeOK, EntryRows
  <2>2. QED
    BY <2>1 DEF SealedEntries
<1>18. QED
  BY <1>1, <1>5, <1>6, <1>7, <1>8, <1>9, <1>10, <1>14, <1>15, <1>16, <1>17

\* A seal preserves the invariant: no other session is selected.
LEMMA SealKeeps ==
  ASSUME ComponentInv, NEW c \in Callers, Seal(c)
  PROVE  ComponentInv'
<1>0. ComponentTypeOK /\ CallsRemember /\ TablesInv
  BY DEF ComponentInv
<1>1. calls' \in [Callers -> Call] /\ CallsRemember'
  <2>1. Finish(c)
    BY DEF Seal
  <2>2. QED
    BY <1>0, <2>1, CallFinished
<1>2. CASE SealedByTwin(calls[c])
  <2>a. PICK o : o = calls[c].session
    OBVIOUS
  <2>1. /\ selection.session = o /\ selection.state = "COMPONENT_EFFECTS_SEALED"
        /\ HandOut(o) /\ UNCHANGED <<clock, sessions, entries, selection, manifest>>
    BY <1>2, <2>a DEF Seal, SealedByTwin, HandOut
  <2>2. o \in Issued
    BY <1>0, <2>1 DEF TablesInv, SelectionSound, SelectionReads
  <2>3. QED
    BY <1>1, <2>1, <2>2, AnswersKeep
<1>3. CASE ~ SealedByTwin(calls[c])
  <2>1. PICK o \in Issued, pins \in Pins :
        /\ o = calls[c].session
        /\ sessions[o] \in Session /\ sessions[o].state = "STAGED"
        /\ selection.state = "OPEN"
        /\ selection' = [selection EXCEPT !.state = "COMPONENT_EFFECTS_SEALED",
                                          !.session = o, !.pins = {pins}]
        /\ sessions' = Selected(o) /\ entries' = SealedEntries(o, pins)
        /\ UNCHANGED <<clock, manifest>>
    BY <1>3, Sealed
  <2>h. HandOut(o)
    BY <2>1 DEF Seal, HandOut
  <2>2. /\ sessions' \in [Ordinals -> Session \cup {NoSession}]
        /\ entries' \in [Ordinals -> EntryRows]
        /\ Issued' = Issued /\ Live' = {}
        /\ \A p \in Issued : /\ sessions'[p].set = sessions[p].set
                             /\ sessions'[p].generation = sessions[p].generation
                             /\ sessions'[p].predecessor = sessions[p].predecessor
                             /\ sessions'[p].committed = sessions[p].committed
                             /\ sessions[p].state = "ABANDONED" => sessions'[p].state = "ABANDONED"
        /\ sessions'[o].state = "SELECTED"
        /\ \A p \in Live \ {o} : sessions'[p].state = "SUPERSEDED" /\ entries'[p] = NoEntries
        /\ \A p \in Ordinals \ Live : sessions'[p] = sessions[p] /\ entries'[p] = entries[p]
        /\ entries'[o] \in [ComponentKinds -> Entry]
        /\ \A k \in ComponentKinds : /\ entries'[o][k].status = "SEALED"
                            /\ entries'[o][k].pins = {pins}
                            /\ entries'[o][k].result = {}
    BY <2>1, SealedTables, SMTT(40)
  <2>3. o \in Ordinals /\ o # 0
    BY <2>1, Bounds DEF Issued
  <2>4. /\ selection' \in Selection /\ selection'.state = "COMPONENT_EFFECTS_SEALED"
        /\ selection'.session = o /\ selection'.pins = {pins} /\ selection'.hold = "none"
    <3>1. selection \in Selection /\ selection.hold = "none"
      BY <1>0, <2>1, OpenFacts DEF ComponentTypeOK
    <3>2. QED
      BY <2>1, <2>3, <3>1 DEF Selection, SelectionState
  <2>5. OrdinalsDense' /\ ChainsSound' /\ LiveBounded'
    BY <1>0, <2>2, SessionsKeepTheirPast, LiveShrinks
  <2>6. SelectionSound'
    <3>1. Live' = {} /\ sessions'[o].state = "SELECTED" /\ o \in Issued'
      BY <2>1, <2>2
    <3>2. QED
      BY <2>3, <2>4, <3>1, SMTT(40) DEF SelectionSound, SelectionReads
  <2>7. ManifestSound'
    <3>1. manifest' = NoManifest
      BY <2>1, OpenFacts
    <3>2. QED
      BY <2>4, <3>1 DEF ManifestSound
  <2>8. BodyReads(o)'
    <3>1. HasRoster(o)' /\ Statuses(o)' = {"SEALED"}
      <4>1. DOMAIN entries'[o] = ComponentKinds
        BY <2>2
      <4>2. QED
        BY <2>2, <4>1, ComponentAssumption DEF HasRoster, Statuses
    <3>2. EntriesRead(o)'
      BY <2>2, <2>4 DEF EntriesRead
    <3>3. ActiveStateReads(o)'
      BY <2>2, <2>4, <3>1 DEF ActiveStateReads
    <3>4. QED
      BY <2>2, <3>1, <3>2, <3>3 DEF BodyReads, TerminalState
  <2>9. \A p \in Issued \ {o} : BodyReads(p)'
    <3>1. SUFFICES ASSUME NEW p \in Issued \ {o} PROVE BodyReads(p)'
      OBVIOUS
    <3>2. p \in Ordinals /\ BodyReads(p) /\ sessions[p].state # "SELECTED"
      BY <1>0, <2>1, <3>1, OpenFacts DEF TablesInv, EntriesSound, Issued
    <3>3. CASE p \in Live
      BY <2>2, <2>4, <3>1, <3>3, BodyOver DEF TerminalState
    <3>4. CASE p \notin Live
      BY <2>2, <2>4, <3>1, <3>2, <3>4, BodyAlone
    <3>5. QED
      BY <3>3, <3>4
  <2>10. \A p \in Ordinals \ Issued' : entries'[p] = NoEntries
    BY <1>0, <2>2 DEF TablesInv, EntriesSound, Live
  <2>11. ResultsSound'
    <3>1. SUFFICES ASSUME NEW p \in Ordinals, HasRoster(p)', NEW k \in ComponentKinds
                   PROVE  IF entries'[p][k].status = "CONFIRMED"
                          THEN \E v \in Versions : entries'[p][k].result = {v}
                          ELSE entries'[p][k].result = {}
      BY DEF ResultsSound
    <3>2. CASE p = o
      BY <2>2, <3>1, <3>2
    <3>3. CASE p \in Live \ {o}
      BY <2>2, <3>1, <3>3, NoRoster DEF HasRoster
    <3>4. CASE p \notin Live
      <4>1. entries'[p] = entries[p] /\ HasRoster(p)
        BY <2>2, <3>1, <3>4 DEF HasRoster
      <4>2. QED
        BY <1>0, <3>1, <4>1 DEF TablesInv, EntriesSound, ResultsSound
    <3>5. QED
      BY <3>2, <3>3, <3>4
  <2>12. EntriesSound'
    BY <2>2, <2>8, <2>9, <2>10, <2>11 DEF EntriesSound
  <2>13. handed' \subseteq Ordinals \X Sets \X SUBSET Pins
    BY <1>0, <2>1, <2>2, <2>4, <2>h, HandOutType
  <2>14. ComponentTypeOK'
    BY <1>0, <1>1, <2>1, <2>2, <2>4, <2>13 DEF ComponentTypeOK
  <2>15. QED
    BY <1>1, <2>5, <2>6, <2>7, <2>12, <2>14 DEF ComponentInv, TablesInv
<1>4. QED
  BY <1>2, <1>3

-----------------------------------------------------------------------------
(* Results. *)

\* The session that is selected, its entries and the selection.
LEMMA SelectedFacts ==
  ASSUME ComponentInv, NEW o \in Ordinals, sessions[o].state = "SELECTED"
  PROVE  /\ o \in Issued /\ selection.session = o /\ o # 0
         /\ HasRoster(o) /\ EntriesRead(o) /\ ActiveStateReads(o)
         /\ entries[o] \in [ComponentKinds -> Entry]
         /\ Statuses(o) = {entries[o][k].status : k \in ComponentKinds}
         /\ \A k \in ComponentKinds : IF entries[o][k].status = "CONFIRMED"
                             THEN \E v \in Versions : entries[o][k].result = {v}
                             ELSE entries[o][k].result = {}
         /\ \A p \in Issued \ {o} : sessions[p].state # "SELECTED"
<1>0. ComponentTypeOK /\ TablesInv
  BY DEF ComponentInv
<1>1. o \in Issued
  BY <1>0, IssuedRow
<1>2. \A p \in Issued : sessions[p].state = "SELECTED" =>
                          HasRoster(p) /\ EntriesRead(p) /\ ActiveStateReads(p)
  BY <1>0 DEF TablesInv, EntriesSound, BodyReads, TerminalState
<1>3. \A p \in Issued : sessions[p].state = "SELECTED" => selection.session = p
  BY <1>2 DEF ActiveStateReads
<1>4. /\ entries[o] \in [ComponentKinds -> Entry] /\ Statuses(o) = {entries[o][k].status : k \in ComponentKinds}
  BY <1>0, <1>1, <1>2, RosterType
<1>5. QED
  BY <1>0, <1>1, <1>2, <1>3, <1>4, Bounds DEF TablesInv, EntriesSound, ResultsSound

\* A step about the selected session alone: what remains to be seen.
LEMMA SelectedStep ==
  ASSUME ComponentInv, NEW o \in Ordinals, sessions[o].state = "SELECTED",
         sessions' = sessions, selection'.session = o,
         \A p \in Ordinals \ {o} : entries'[p] = entries[p],
         BodyReads(o)', SelectionReads', ManifestSound',
         \A k \in ComponentKinds : IF entries'[o][k].status = "CONFIRMED"
                          THEN \E v \in Versions : entries'[o][k].result = {v}
                          ELSE entries'[o][k].result = {}
  PROVE  TablesInv'
<1>0. ComponentTypeOK /\ TablesInv
  BY DEF ComponentInv
<1>1. /\ o \in Issued /\ selection.session = o
      /\ \A p \in Issued \ {o} : sessions[p].state # "SELECTED"
  BY SelectedFacts
<1>2. Issued' = Issued /\ Live' = Live
  BY DEF Issued, Live
<1>3. OrdinalsDense' /\ ChainsSound' /\ LiveBounded'
  BY <1>0, <1>2, SessionsKeepTheirPast, LiveShrinks
<1>4. SelectionSound'
  BY <1>1, <1>2 DEF SelectionSound
<1>5. EntriesSound'
  <2>1. \A p \in Issued \ {o} : BodyReads(p)'
    <3>1. SUFFICES ASSUME NEW p \in Issued \ {o} PROVE BodyReads(p)'
      OBVIOUS
    <3>2. p \in Ordinals /\ BodyReads(p)
      BY <1>0 DEF Issued, TablesInv, EntriesSound
    <3>3. QED
      BY <1>1, <3>1, <3>2, BodyAlone
  <2>2. ResultsSound'
    <3>1. \A p \in Ordinals \ {o} : HasRoster(p)' <=> HasRoster(p)
      BY DEF HasRoster
    <3>2. QED
      BY <1>0, <3>1 DEF TablesInv, EntriesSound, ResultsSound
  <2>3. QED
    BY <1>0, <1>1, <1>2, <2>1, <2>2 DEF TablesInv, EntriesSound
<1>6. QED
  BY <1>3, <1>4, <1>5 DEF TablesInv

\* A confirmation writes the one result of its entry.
LEMMA ConfirmedEntry ==
  ASSUME NEW e \in Entry, NEW v \in Versions, NEW f,
         f = [e EXCEPT !.status = "CONFIRMED", !.result = {v}]
  PROVE  f \in Entry /\ f.status = "CONFIRMED" /\ f.pins = e.pins /\ f.result = {v}
<1>1. {v} \in SUBSET Versions
  OBVIOUS
<1>2. f = [status |-> "CONFIRMED", pins |-> e.pins, result |-> {v}]
  BY DEF Entry
<1>3. QED
  BY <1>1, <1>2 DEF Entry

\* What the confirmation of a component finds and leaves.
LEMMA Confirmed ==
  ASSUME ComponentInv, NEW c \in Callers, CommitConfirm(c)
  PROVE  \E o \in Issued, k \in ComponentKinds, v \in Versions :
         /\ sessions[o].state = "SELECTED" /\ selection.state = "COMPONENT_EFFECTS_SEALED"
         /\ entries[o][k].status = "SEALED"
         /\ entries' \in [Ordinals -> EntryRows]
         /\ entries'[o] \in [ComponentKinds -> Entry]
         /\ \A p \in Ordinals \ {o} : entries'[p] = entries[p]
         /\ entries'[o][k].status = "CONFIRMED" /\ entries'[o][k].result = {v}
         /\ entries'[o][k].pins = entries[o][k].pins
         /\ \A j \in ComponentKinds \ {k} : entries'[o][j] = entries[o][j]
         /\ selection' = IF "SEALED" \in {entries'[o][j].status : j \in ComponentKinds} THEN selection
                         ELSE [selection EXCEPT !.state = "COMPONENTS_CONFIRMED"]
         /\ Finish(c) /\ UNCHANGED <<clock, sessions, manifest, handed>>
<1>0. ComponentTypeOK /\ CallsRemember
  BY DEF ComponentInv
<1>1. PICK o : o = calls[c].session
  OBVIOUS
<1>2. PICK k : k = calls[c].kind
  OBVIOUS
<1>3. PICK v : v = calls[c].version
  OBVIOUS
<1>4. /\ calls[c].op = "confirm" /\ sessions[o] = calls[c].seen.row
      /\ entries[o][k].status = "SEALED" /\ selection.state = "COMPONENT_EFFECTS_SEALED"
      /\ entries' = [entries EXCEPT ![o][k].status = "CONFIRMED", ![o][k].result = {v}]
      /\ selection' = IF "SEALED" \in {entries'[o][j].status : j \in ComponentKinds} THEN selection
                      ELSE [selection EXCEPT !.state = "COMPONENTS_CONFIRMED"]
      /\ Finish(c) /\ UNCHANGED <<clock, sessions, manifest, handed>>
  BY <1>1, <1>2, <1>3 DEF CommitConfirm, ConfirmFence
<1>5. o \in Ordinals /\ k \in ComponentKinds /\ v \in Versions
  BY <1>0, <1>1, <1>2, <1>3, <1>4, CallShapes DEF ComponentTypeOK
<1>6. sessions[o].state = "SELECTED"
  BY <1>0, <1>4 DEF CallsRemember, Remembers
<1>7. o \in Issued /\ entries[o] \in [ComponentKinds -> Entry]
  BY <1>5, <1>6, SelectedFacts
<1>8. PICK f : f = [entries[o][k] EXCEPT !.status = "CONFIRMED", !.result = {v}]
  OBVIOUS
<1>9. f \in Entry /\ f.status = "CONFIRMED" /\ f.pins = entries[o][k].pins /\ f.result = {v}
  <2>1. PICK e : e = entries[o][k]
    OBVIOUS
  <2>2. e \in Entry
    BY <1>5, <1>7, <2>1
  <2>3. f = [e EXCEPT !.status = "CONFIRMED", !.result = {v}]
    BY <1>8, <2>1
  <2>4. f \in Entry /\ f.status = "CONFIRMED" /\ f.pins = e.pins /\ f.result = {v}
    BY <1>5, <2>2, <2>3, ConfirmedEntry
  <2>5. QED
    BY <2>1, <2>4
<1>10. PICK g : g = [entries[o] EXCEPT ![k] = f]
  OBVIOUS
<1>11. g \in [ComponentKinds -> Entry] /\ g[k] = f /\ \A j \in ComponentKinds \ {k} : g[j] = entries[o][j]
  BY <1>5, <1>7, <1>9, <1>10
<1>12. entries' = [entries EXCEPT ![o] = g]
  <2>1. entries \in [Ordinals -> EntryRows]
    BY <1>0 DEF ComponentTypeOK
  <2>2. entries' = [entries EXCEPT ![o] = [entries[o] EXCEPT ![k] =
                      [entries[o][k] EXCEPT !.status = "CONFIRMED", !.result = {v}]]]
    BY <1>4, <1>5, <1>7, <2>1
  <2>3. QED
    BY <1>8, <1>10, <2>2
<1>13. /\ entries' \in [Ordinals -> EntryRows] /\ entries'[o] = g
       /\ \A p \in Ordinals \ {o} : entries'[p] = entries[p]
  BY <1>0, <1>5, <1>11, <1>12 DEF ComponentTypeOK, EntryRows
<1>14. /\ sessions[o].state = "SELECTED" /\ selection.state = "COMPONENT_EFFECTS_SEALED"
       /\ entries[o][k].status = "SEALED"
       /\ entries' \in [Ordinals -> EntryRows]
       /\ entries'[o] \in [ComponentKinds -> Entry]
       /\ \A p \in Ordinals \ {o} : entries'[p] = entries[p]
       /\ entries'[o][k].status = "CONFIRMED" /\ entries'[o][k].result = {v}
       /\ entries'[o][k].pins = entries[o][k].pins
       /\ \A j \in ComponentKinds \ {k} : entries'[o][j] = entries[o][j]
  BY <1>4, <1>6, <1>9, <1>11, <1>13
<1>15. QED
  <2> o \in Issued /\ k \in ComponentKinds /\ v \in Versions
    BY <1>5, <1>7
  <2> WITNESS o \in Issued, k \in ComponentKinds, v \in Versions
  <2> QED
    BY <1>4, <1>14

\* A confirmation preserves the invariant.
LEMMA ConfirmComponentKeeps ==
  ASSUME ComponentInv, NEW c \in Callers, CommitConfirm(c)
  PROVE  ComponentInv'
<1>0. ComponentTypeOK /\ CallsRemember /\ TablesInv
  BY DEF ComponentInv
<1>1. PICK o \in Issued, k \in ComponentKinds, v \in Versions :
         /\ sessions[o].state = "SELECTED" /\ selection.state = "COMPONENT_EFFECTS_SEALED"
         /\ entries[o][k].status = "SEALED"
         /\ entries' \in [Ordinals -> EntryRows]
         /\ entries'[o] \in [ComponentKinds -> Entry]
         /\ \A p \in Ordinals \ {o} : entries'[p] = entries[p]
         /\ entries'[o][k].status = "CONFIRMED" /\ entries'[o][k].result = {v}
         /\ entries'[o][k].pins = entries[o][k].pins
         /\ \A j \in ComponentKinds \ {k} : entries'[o][j] = entries[o][j]
         /\ selection' = IF "SEALED" \in {entries'[o][j].status : j \in ComponentKinds} THEN selection
                         ELSE [selection EXCEPT !.state = "COMPONENTS_CONFIRMED"]
         /\ Finish(c) /\ UNCHANGED <<clock, sessions, manifest, handed>>
  BY Confirmed
<1>2. o \in Ordinals
  BY DEF Issued
<1>3. /\ selection.session = o /\ o # 0 /\ EntriesRead(o) /\ ActiveStateReads(o)
      /\ Statuses(o) = {entries[o][j].status : j \in ComponentKinds}
      /\ \A j \in ComponentKinds : IF entries[o][j].status = "CONFIRMED"
                          THEN \E w \in Versions : entries[o][j].result = {w}
                          ELSE entries[o][j].result = {}
  BY <1>1, <1>2, SelectedFacts
<1>4. /\ selection \in Selection /\ selection.pins # {} /\ selection.hold = "none"
      /\ manifest = NoManifest
  BY <1>0, <1>1 DEF ComponentTypeOK, TablesInv, SelectionSound, SelectionReads, ManifestSound,
                    ManifestReads, ManifestSelectionReads
<1>5. /\ selection' \in Selection /\ selection'.session = o /\ selection'.pins = selection.pins
      /\ selection'.hold = "none"
      /\ selection'.state = IF "SEALED" \in {entries'[o][j].status : j \in ComponentKinds}
                            THEN "COMPONENT_EFFECTS_SEALED" ELSE "COMPONENTS_CONFIRMED"
  BY <1>1, <1>3, <1>4 DEF Selection, SelectionState
<1>6. SelectionReads'
  BY <1>3, <1>4, <1>5 DEF SelectionReads
<1>7. ManifestSound'
  BY <1>1, <1>4, <1>5 DEF ManifestSound
<1>8. BodyReads(o)'
  <2>1. HasRoster(o)' /\ Statuses(o)' = {entries'[o][j].status : j \in ComponentKinds}
    BY <1>1 DEF HasRoster, Statuses
  <2>2. \A j \in ComponentKinds : entries[o][j].status \in {"SEALED", "CONFIRMED"}
    BY <1>1, <1>3 DEF ActiveStateReads
  <2>3. \A j \in ComponentKinds : entries'[o][j].status \in {"SEALED", "CONFIRMED"}
    BY <1>1, <2>2
  <2>4. EntriesRead(o)'
    BY <1>1, <1>3, <1>4, <1>5 DEF EntriesRead
  <2>5. ActiveStateReads(o)'
    <3>1. CASE "SEALED" \in Statuses(o)'
      BY <1>1, <1>5, <2>1, <2>3, <3>1 DEF ActiveStateReads
    <3>2. CASE "SEALED" \notin Statuses(o)'
      <4>1. Statuses(o)' = {"CONFIRMED"}
        BY <1>1, <2>1, <2>3, <3>2
      <4>2. /\ selection'.state = "COMPONENTS_CONFIRMED" /\ selection'.session = o
            /\ sessions'[o].state = "SELECTED"
        BY <1>1, <1>5, <2>1, <3>2
      <4>3. selection'.state \in SelectionState \ {"OPEN", "COMPONENT_EFFECTS_SEALED"}
        BY <4>2 DEF SelectionState
      <4>4. QED
        BY <4>1, <4>2, <4>3 DEF ActiveStateReads
    <3>3. QED
      BY <3>1, <3>2
  <2>6. QED
    BY <1>1, <2>1, <2>4, <2>5 DEF BodyReads, TerminalState
<1>9. TablesInv'
  <2>1. \A j \in ComponentKinds : IF entries'[o][j].status = "CONFIRMED"
                         THEN \E w \in Versions : entries'[o][j].result = {w}
                         ELSE entries'[o][j].result = {}
    BY <1>1, <1>3
  <2>2. QED
    BY <1>1, <1>2, <1>5, <1>6, <1>7, <1>8, <2>1, SelectedStep
<1>10. calls' \in [Callers -> Call] /\ CallsRemember'
  BY <1>0, <1>1, CallFinished
<1>11. ComponentTypeOK'
  BY <1>0, <1>1, <1>5, <1>10 DEF ComponentTypeOK
<1>12. QED
  BY <1>9, <1>10, <1>11 DEF ComponentInv

-----------------------------------------------------------------------------
(* The manifest. *)

\* The components that are confirmed have one version each.
LEMMA ConfirmedVersions ==
  ASSUME ComponentInv, NEW o \in Ordinals, sessions[o].state = "SELECTED",
         Statuses(o) = {"CONFIRMED"}
  PROVE  /\ ConfirmedObjects(View(o)) \in [ComponentKinds -> Versions]
         /\ \A k \in ComponentKinds : entries[o][k].result = {ConfirmedObjects(View(o))[k]}
<1>1. \A k \in ComponentKinds : \E v \in Versions : entries[o][k].result = {v}
  <2>1. /\ Statuses(o) = {entries[o][k].status : k \in ComponentKinds}
        /\ \A k \in ComponentKinds : IF entries[o][k].status = "CONFIRMED"
                            THEN \E v \in Versions : entries[o][k].result = {v}
                            ELSE entries[o][k].result = {}
    BY SelectedFacts
  <2>2. \A k \in ComponentKinds : entries[o][k].status = "CONFIRMED"
    BY <2>1
  <2>3. QED
    BY <2>1, <2>2
<1>2. \A k \in ComponentKinds : /\ VersionOf(entries[o][k]) \in Versions
                       /\ entries[o][k].result = {VersionOf(entries[o][k])}
  BY <1>1 DEF VersionOf
<1>3. ConfirmedObjects(View(o)) = [k \in ComponentKinds |-> VersionOf(entries[o][k])]
  BY DEF ConfirmedObjects, View
<1>4. QED
  BY <1>2, <1>3

\* What is confirmed is all there is once the effects are no longer sealed.
LEMMA LaterReads ==
  ASSUME ComponentInv, NEW o \in Ordinals, sessions[o].state = "SELECTED",
         UNCHANGED <<sessions, entries>>, Statuses(o) = {"CONFIRMED"},
         selection'.session = o, selection'.pins = selection.pins,
         selection'.state \in {"MANIFEST_EFFECT_SEALED", "CONFIRMED", "HOLD"},
         selection'.state = "HOLD" <=> selection'.hold # "none",
         ManifestSound'
  PROVE  TablesInv'
<1>0. ComponentTypeOK /\ TablesInv
  BY DEF ComponentInv
<1>1. /\ selection.session = o /\ o # 0 /\ HasRoster(o) /\ EntriesRead(o) /\ ActiveStateReads(o)
      /\ \A k \in ComponentKinds : IF entries[o][k].status = "CONFIRMED"
                          THEN \E v \in Versions : entries[o][k].result = {v}
                          ELSE entries[o][k].result = {}
  BY SelectedFacts
<1>2. selection.pins # {}
  BY <1>0, <1>1 DEF TablesInv, SelectionSound, SelectionReads
<1>3. SelectionReads'
  BY <1>1, <1>2 DEF SelectionReads
<1>4. HasRoster(o)' /\ Statuses(o)' = {"CONFIRMED"} /\ sessions'[o].state = "SELECTED"
  BY <1>1 DEF HasRoster, Statuses
<1>5. EntriesRead(o)'
  BY <1>1 DEF EntriesRead
<1>6. ActiveStateReads(o)'
  BY <1>4 DEF ActiveStateReads, SelectionState
<1>7. BodyReads(o)'
  BY <1>4, <1>5, <1>6 DEF BodyReads, TerminalState
<1>8. QED
  BY <1>1, <1>3, <1>7, SelectedStep

\* The components of one session are confirmed when its manifest is asked for,
\* and they are so until it is sealed.
LEMMA ManifestAsked ==
  ASSUME ComponentInv, NEW c \in Callers, calls[c].op = "manifest", Unchanged(calls[c])
  PROVE  \E o \in Ordinals :
           /\ o = calls[c].session /\ View(o) = calls[c].seen
           /\ sessions[o].state = "SELECTED" /\ selection.state = "COMPONENTS_CONFIRMED"
           /\ Statuses(o) = {"CONFIRMED"} /\ selection.session = o
           /\ selection \in Selection /\ selection.hold = "none"
           /\ calls[c].seen.selection.pins = selection.pins
<1>0. ComponentTypeOK /\ CallsRemember /\ TablesInv
  BY DEF ComponentInv
<1>1. PICK o : o = calls[c].session
  OBVIOUS
<1>2. o \in Ordinals
  BY <1>0, <1>1, CallShapes DEF ComponentTypeOK
<1>3. View(o) = calls[c].seen
  BY <1>1 DEF Unchanged
<1>4. /\ sessions[o] = calls[c].seen.row /\ selection = calls[c].seen.selection
  BY <1>3 DEF View
<1>5. sessions[o].state = "SELECTED" /\ selection.state = "COMPONENTS_CONFIRMED"
  BY <1>0, <1>4 DEF CallsRemember, Remembers
<1>6. ActiveStateReads(o) /\ selection.session = o
  BY <1>2, <1>5, SelectedFacts
<1>7. Statuses(o) = {"CONFIRMED"}
  BY <1>5, <1>6 DEF ActiveStateReads
<1>8. selection \in Selection /\ selection.hold = "none"
  BY <1>0, <1>5 DEF ComponentTypeOK, TablesInv, SelectionSound, SelectionReads
<1>9. QED
  BY <1>1, <1>2, <1>3, <1>4, <1>5, <1>6, <1>7, <1>8

\* A hold for duplicate versions is of the objects that were confirmed.
LEMMA HoldKeeps ==
  ASSUME ComponentInv, NEW c \in Callers, HoldComponents(c)
  PROVE  ComponentInv'
<1>0. ComponentTypeOK /\ CallsRemember /\ TablesInv
  BY DEF ComponentInv
<1>1. /\ calls[c].op = "manifest" /\ HasDuplicateVersions(ConfirmedObjects(calls[c].seen))
      /\ Unchanged(calls[c]) /\ manifest = NoManifest
      /\ selection' = [selection EXCEPT !.state = "HOLD", !.hold = "components"]
      /\ Finish(c) /\ UNCHANGED <<clock, sessions, entries, manifest, handed>>
  BY DEF HoldComponents
<1>2. PICK o \in Ordinals :
           /\ o = calls[c].session /\ View(o) = calls[c].seen
           /\ sessions[o].state = "SELECTED" /\ selection.state = "COMPONENTS_CONFIRMED"
           /\ Statuses(o) = {"CONFIRMED"} /\ selection.session = o
           /\ selection \in Selection /\ selection.hold = "none"
           /\ calls[c].seen.selection.pins = selection.pins
  BY <1>1, ManifestAsked
<1>3. /\ selection' \in Selection /\ selection'.state = "HOLD" /\ selection'.hold = "components"
      /\ selection'.session = o /\ selection'.pins = selection.pins
  BY <1>1, <1>2 DEF Selection, SelectionState
<1>4. HasDuplicateVersions(ConfirmedObjects(View(selection.session)))'
  <2>1. ConfirmedObjects(View(selection.session))' = ConfirmedObjects(View(o))
    BY <1>1, <1>3 DEF ConfirmedObjects, View
  <2>2. HasDuplicateVersions(ConfirmedObjects(View(o)))
    BY <1>1, <1>2
  <2>3. QED
    BY <2>1, <2>2 DEF HasDuplicateVersions
<1>5. ManifestSound'
  BY <1>1, <1>3, <1>4 DEF ManifestSound
<1>6. TablesInv'
  BY <1>1, <1>2, <1>3, <1>5, LaterReads
<1>7. calls' \in [Callers -> Call] /\ CallsRemember'
  BY <1>0, <1>1, CallFinished
<1>8. ComponentTypeOK'
  BY <1>0, <1>1, <1>3, <1>7 DEF ComponentTypeOK
<1>9. QED
  BY <1>6, <1>7, <1>8 DEF ComponentInv

\* A manifest made of the confirmed components reads back.
LEMMA SealedReads ==
  ASSUME ComponentInv, NEW o \in Ordinals, sessions[o].state = "SELECTED",
         Statuses(o) = {"CONFIRMED"}, UNCHANGED <<sessions, entries>>,
         ~ HasDuplicateVersions(ConfirmedObjects(View(o))),
         manifest' = [status |-> "SEALED", session |-> o, objects |-> ConfirmedObjects(View(o)),
                      pins |-> selection.pins, result |-> {}],
         selection'.session = o, selection'.pins = selection.pins, selection'.hold = "none",
         selection'.state = "MANIFEST_EFFECT_SEALED"
  PROVE  ManifestSound'
<1>1. Statuses(o)' = {"CONFIRMED"}
  BY DEF Statuses
<1>2. ConfirmedObjects(View(o))' = ConfirmedObjects(View(o))
  BY DEF ConfirmedObjects, View
<1>3. /\ manifest'.status = "SEALED" /\ manifest'.session = o /\ manifest'.pins = selection.pins
      /\ manifest'.objects = ConfirmedObjects(View(o)) /\ manifest'.result = {}
      /\ manifest' # NoManifest
  BY DEF NoManifest
<1>4. ManifestRebuilt(o)'
  BY <1>1, <1>2, <1>3 DEF ManifestRebuilt
<1>5. ManifestResultReads' /\ ManifestSelectionReads'
  BY <1>3 DEF ManifestResultReads, ManifestSelectionReads
<1>6. ManifestReads(selection.session)'
  BY <1>3, <1>4, <1>5 DEF ManifestReads, ManifestRebuilt
<1>7. QED
  BY <1>3, <1>6 DEF ManifestSound

\* The sealed manifest is of the objects that were confirmed.
LEMMA PersistSealKeeps ==
  ASSUME ComponentInv, NEW c \in Callers, PersistSeal(c)
  PROVE  ComponentInv'
<1>0. ComponentTypeOK /\ CallsRemember /\ TablesInv
  BY DEF ComponentInv
<1>1. /\ calls[c].op = "manifest" /\ ~ HasDuplicateVersions(ConfirmedObjects(calls[c].seen))
      /\ Unchanged(calls[c]) /\ manifest = NoManifest
      /\ manifest' = [status |-> "SEALED", session |-> calls[c].session,
                      objects |-> ConfirmedObjects(calls[c].seen),
                      pins |-> calls[c].seen.selection.pins, result |-> {}]
      /\ selection' = [selection EXCEPT !.state = "MANIFEST_EFFECT_SEALED"]
      /\ Finish(c) /\ UNCHANGED <<clock, sessions, entries, handed>>
  BY DEF PersistSeal
<1>2. PICK o \in Ordinals :
           /\ o = calls[c].session /\ View(o) = calls[c].seen
           /\ sessions[o].state = "SELECTED" /\ selection.state = "COMPONENTS_CONFIRMED"
           /\ Statuses(o) = {"CONFIRMED"} /\ selection.session = o
           /\ selection \in Selection /\ selection.hold = "none"
           /\ calls[c].seen.selection.pins = selection.pins
  BY <1>1, ManifestAsked
<1>3. /\ selection' \in Selection /\ selection'.state = "MANIFEST_EFFECT_SEALED"
      /\ selection'.hold = "none" /\ selection'.session = o /\ selection'.pins = selection.pins
  BY <1>1, <1>2 DEF Selection, SelectionState
<1>4. /\ ~ HasDuplicateVersions(ConfirmedObjects(View(o)))
      /\ manifest' = [status |-> "SEALED", session |-> o, objects |-> ConfirmedObjects(View(o)),
                      pins |-> selection.pins, result |-> {}]
  BY <1>1, <1>2
<1>5. manifest' \in ManifestRow
  <2>1. ConfirmedObjects(View(o)) \in [ComponentKinds -> Versions]
    BY <1>2, ConfirmedVersions
  <2>2. selection.pins \in SUBSET Pins
    BY <1>2 DEF Selection
  <2>3. QED
    BY <1>4, <2>1, <2>2 DEF ManifestRow
<1>6. ManifestSound'
  BY <1>1, <1>2, <1>3, <1>4, SealedReads
<1>7. TablesInv'
  BY <1>1, <1>2, <1>3, <1>6, LaterReads
<1>8. calls' \in [Callers -> Call] /\ CallsRemember'
  BY <1>0, <1>1, CallFinished
<1>9. ComponentTypeOK'
  BY <1>0, <1>1, <1>3, <1>5, <1>8 DEF ComponentTypeOK
<1>10. QED
  BY <1>7, <1>8, <1>9 DEF ComponentInv

\* The result of the manifest is kept, and tells whether it collides.
LEMMA ResultReads ==
  ASSUME ComponentInv, NEW o \in Ordinals, manifest.status = "SEALED", manifest # NoManifest,
         ManifestReads(o), UNCHANGED <<sessions, entries>>, NEW v \in Versions,
         manifest' = [manifest EXCEPT !.status = IF Collides(v) THEN "RESULT_CONFIRMED"
                                                 ELSE "CONFIRMED",
                                      !.result = {v}],
         selection'.session = o, selection'.pins = selection.pins,
         selection'.state = IF Collides(v) THEN "HOLD" ELSE "CONFIRMED",
         selection'.hold = IF Collides(v) THEN "manifest" ELSE "none"
  PROVE  manifest' \in ManifestRow /\ ManifestSound'
<1>0. manifest \in ManifestRow
  BY DEF ComponentInv, ComponentTypeOK
<1>1. /\ manifest'.session = manifest.session /\ manifest'.objects = manifest.objects
      /\ manifest'.pins = manifest.pins /\ manifest'.result = {v}
      /\ manifest'.status = IF Collides(v) THEN "RESULT_CONFIRMED" ELSE "CONFIRMED"
      /\ manifest' \in ManifestRow
  <2>1. {v} \in SUBSET Versions
    OBVIOUS
  <2>2. manifest' = [status |-> IF Collides(v) THEN "RESULT_CONFIRMED" ELSE "CONFIRMED",
                     session |-> manifest.session, objects |-> manifest.objects,
                     pins |-> manifest.pins, result |-> {v}]
    BY <1>0 DEF ManifestRow
  <2> HIDE DEF Collides
  <2>3. QED
    BY <1>0, <2>1, <2>2 DEF ManifestRow
<1>2. manifest' # NoManifest
  BY <1>1 DEF ManifestRow, NoManifest
<1>3. \A w : Collides(w)' <=> Collides(w)
  BY <1>1 DEF Collides
<1>4. ManifestRebuilt(o)'
  <2>1. Statuses(o)' = Statuses(o) /\ ConfirmedObjects(View(o))' = ConfirmedObjects(View(o))
    BY DEF Statuses, ConfirmedObjects, View
  <2>2. QED
    BY <1>1, <2>1 DEF ManifestReads, ManifestRebuilt
<1>5. ManifestResultReads'
  <2>1. CASE Collides(v)
    <3>1. manifest'.status = "RESULT_CONFIRMED" /\ \E w \in manifest'.result : Collides(w)'
      BY <1>1, <1>3, <2>1
    <3>2. QED
      BY <3>1 DEF ManifestResultReads
  <2>2. CASE ~ Collides(v)
    <3>1. manifest'.status = "CONFIRMED" /\ \E w \in manifest'.result : ~ Collides(w)'
      BY <1>1, <1>3, <2>2
    <3>2. QED
      BY <3>1 DEF ManifestResultReads
  <2>3. QED
    BY <2>1, <2>2
<1>6. ManifestSelectionReads'
  BY <1>1 DEF ManifestSelectionReads
<1>7. ManifestReads(selection.session)'
  BY <1>2, <1>4, <1>5, <1>6 DEF ManifestReads, ManifestRebuilt
<1>8. QED
  BY <1>1, <1>2, <1>7 DEF ManifestSound

\* The result of the manifest closes the selection, confirmed or held.
LEMMA PersistResultKeeps ==
  ASSUME ComponentInv, NEW c \in Callers, PersistResult(c)
  PROVE  ComponentInv'
<1>0. ComponentTypeOK /\ CallsRemember /\ TablesInv
  BY DEF ComponentInv
<1>1. PICK v : v = calls[c].version
  OBVIOUS
<1>2. /\ calls[c].op = "pointer" /\ manifest.status = "SEALED" /\ Unchanged(calls[c])
      /\ manifest' = [manifest EXCEPT !.status = IF Collides(v) THEN "RESULT_CONFIRMED"
                                                 ELSE "CONFIRMED",
                                      !.result = {v}]
      /\ selection' = IF Collides(v) THEN [selection EXCEPT !.state = "HOLD", !.hold = "manifest"]
                      ELSE [selection EXCEPT !.state = "CONFIRMED"]
      /\ Finish(c) /\ UNCHANGED <<clock, sessions, entries, handed>>
  BY <1>1 DEF PersistResult
<1>3. v \in Versions /\ calls[c].session \in Ordinals
  BY <1>0, <1>1, <1>2, CallShapes DEF ComponentTypeOK
<1>4. manifest # NoManifest
  BY <1>2 DEF NoManifest
<1>5. PICK o : o = selection.session
  OBVIOUS
<1>6. ManifestReads(o) /\ selection.state = "MANIFEST_EFFECT_SEALED"
  BY <1>0, <1>2, <1>4, <1>5 DEF TablesInv, ManifestSound, ManifestReads, ManifestSelectionReads
<1>7. o \in Ordinals /\ sessions[o].state = "SELECTED" /\ selection.hold = "none"
  BY <1>0, <1>5, <1>6 DEF TablesInv, SelectionSound, SelectionReads, Issued
<1>8. Statuses(o) = {"CONFIRMED"}
  BY <1>6 DEF ManifestReads, ManifestRebuilt
<1>9. /\ selection' \in Selection /\ selection'.session = o /\ selection'.pins = selection.pins
      /\ selection'.state = IF Collides(v) THEN "HOLD" ELSE "CONFIRMED"
      /\ selection'.hold = IF Collides(v) THEN "manifest" ELSE "none"
  <2>1. selection \in Selection
    BY <1>0 DEF ComponentTypeOK
  <2>2. QED
    BY <1>2, <1>5, <1>7, <2>1 DEF Selection, SelectionState
<1>10. manifest' \in ManifestRow /\ ManifestSound'
  BY <1>2, <1>3, <1>4, <1>6, <1>7, <1>9, ResultReads
<1>11. TablesInv'
  BY <1>2, <1>7, <1>8, <1>9, <1>10, LaterReads
<1>12. calls' \in [Callers -> Call] /\ CallsRemember'
  BY <1>0, <1>2, CallFinished
<1>13. ComponentTypeOK'
  BY <1>0, <1>2, <1>9, <1>10, <1>12 DEF ComponentTypeOK
<1>14. QED
  BY <1>11, <1>12, <1>13 DEF ComponentInv

-----------------------------------------------------------------------------
(* The invariant. *)

\* Empty tables satisfy the invariant.
LEMMA InitHolds == ComponentInit => ComponentInv
<1> SUFFICES ASSUME ComponentInit PROVE ComponentInv
  OBVIOUS
<1>1. ComponentTypeOK
  <2>1. NoCall \in Call
    BY IdleRemembers
  <2>2. selection \in Selection
    BY DEF ComponentInit, Selection, SelectionState
  <2>3. clock \in 0 .. MaxClock
    BY ComponentAssumption DEF ComponentInit
  <2>4. calls \in [Callers -> Call]
    BY <2>1 DEF ComponentInit
  <2>5. QED
    BY <2>2, <2>3, <2>4 DEF ComponentInit, ComponentTypeOK, EntryRows
<1>2. CallsRemember
  BY IdleRemembers DEF ComponentInit, CallsRemember
<1>3. Issued = {} /\ Live = {}
  BY DEF ComponentInit, Issued, Live
<1>4. OrdinalsDense
  BY <1>3, Bounds DEF OrdinalsDense
<1>5. ChainsSound
  BY <1>3 DEF ChainsSound
<1>6. LiveBounded
  BY <1>3, Bounds, FS_EmptySet DEF LiveBounded
<1>7. EntriesSound
  BY <1>3, NoRoster DEF ComponentInit, EntriesSound, ResultsSound, HasRoster
<1>8. SelectionSound /\ ManifestSound
  BY DEF ComponentInit, SelectionSound, SelectionReads, ManifestSound
<1>9. QED
  BY <1>1, <1>2, <1>4, <1>5, <1>6, <1>7, <1>8 DEF ComponentInv, TablesInv

\* The clock and a dropped call touch no table.
LEMMA DropKeeps ==
  ASSUME ComponentInv,
         \/ SetClock /\ clock' \in 0 .. MaxClock
         \/ \E c \in Callers : Drop(c)
  PROVE  ComponentInv'
<1>0. ComponentTypeOK /\ CallsRemember /\ TablesInv
  BY DEF ComponentInv
<1>1. calls' \in [Callers -> Call] /\ CallsRemember'
  BY <1>0, CallFinished DEF Drop, SetClock, ComponentTypeOK, CallsRemember
<1>2. UNCHANGED <<sessions, entries, selection, manifest, handed>>
  BY DEF Drop, SetClock
<1>3. clock' \in 0 .. MaxClock
  BY <1>0 DEF Drop, ComponentTypeOK
<1>4. TablesInv'
  BY <1>0, <1>2, TablesUntouched
<1>5. ComponentTypeOK'
  BY <1>0, <1>1, <1>2, <1>3 DEF ComponentTypeOK
<1>6. QED
  BY <1>1, <1>4, <1>5 DEF ComponentInv

\* Handing out the sealed plans writes nothing.
LEMMA PlansKeep ==
  ASSUME ComponentInv, NEW o \in Ordinals, SealedPlans(o)
  PROVE  ComponentInv'
<1>1. /\ o \in Issued /\ HandOut(o)
      /\ UNCHANGED <<clock, sessions, entries, selection, manifest, calls>>
  BY DEF SealedPlans, Loads
<1>2. calls' \in [Callers -> Call] /\ CallsRemember'
  BY <1>1 DEF ComponentInv, ComponentTypeOK, CallsRemember
<1>3. QED
  BY <1>1, <1>2, AnswersKeep

\* A stuttering step preserves the invariant.
LEMMA StutterKeeps == ComponentInv /\ UNCHANGED componentVars => ComponentInv'
<1> SUFFICES ASSUME ComponentInv, UNCHANGED componentVars PROVE ComponentInv'
  OBVIOUS
<1>1. UNCHANGED <<clock, sessions, entries, selection, manifest, calls, handed>>
  BY DEF componentVars
<1>2. ComponentTypeOK' /\ CallsRemember'
  BY <1>1 DEF ComponentInv, ComponentTypeOK, CallsRemember
<1>3. TablesInv'
  BY <1>1, TablesUntouched DEF ComponentInv
<1>4. QED
  BY <1>2, <1>3 DEF ComponentInv

\* Every step preserves the invariant.
LEMMA StepKeeps == ComponentInv /\ [ComponentNext]_componentVars => ComponentInv'
<1> SUFFICES ASSUME ComponentInv, [ComponentNext]_componentVars PROVE ComponentInv'
  OBVIOUS
<1>1. CASE SetClock
  BY <1>1, DropKeeps DEF SetClock
<1>2. ASSUME NEW c \in Callers, JournalStart(c) PROVE ComponentInv'
  BY <1>2, StartsKeep
<1>3. ASSUME NEW c \in Callers, JournalCommit(c) PROVE ComponentInv'
  BY <1>3, CreateKeeps, AbandonKeeps, StageKeeps, RejectKeeps, AcceptedKeeps, SealKeeps,
     ConfirmComponentKeeps, HoldKeeps, PersistSealKeeps, PersistResultKeeps DEF JournalCommit
<1>4. ASSUME NEW c \in Callers, Drop(c) PROVE ComponentInv'
  BY <1>4, DropKeeps
<1>5. ASSUME NEW o \in Ordinals, SealedPlans(o) PROVE ComponentInv'
  BY <1>5, PlansKeep
<1>6. CASE UNCHANGED componentVars
  BY <1>6, StutterKeeps
<1>7. QED
  BY <1>1, <1>2, <1>3, <1>4, <1>5, <1>6 DEF ComponentNext

(* The invariant holds in every behaviour.                                    *)
THEOREM ComponentInvariant == ComponentSpec => []ComponentInv
BY InitHolds, StepKeeps, PTL DEF ComponentSpec

-----------------------------------------------------------------------------
(* What the invariant says of the schema and of the reader. *)

\* Of two sessions of a set, the one of the lower generation is abandoned and older.
LEMMA ChainsApart ==
  ASSUME ComponentInv, NEW o \in Issued, NEW p \in Issued, o # p, OneSet(o, p)
  PROVE  /\ ~ (SchemaLive(o) /\ SchemaLive(p))
         /\ sessions[o].generation # sessions[p].generation
         /\ sessions[o].committed # sessions[p].committed
<1>0. ComponentTypeOK /\ ChainsSound
  BY DEF ComponentInv, TablesInv
<1>1. /\ sessions[o].generation \in Nat /\ sessions[p].generation \in Nat
      /\ sessions[o].committed \in Nat /\ sessions[p].committed \in Nat
  BY <1>0, IssuedRow, Bounds
<1>2. sessions[o].generation # sessions[p].generation
  BY <1>0 DEF ChainsSound
<1>3. Earlier(o, p) \/ Earlier(p, o)
  BY <1>1, <1>2 DEF Earlier, OneSet
<1>4. CASE Earlier(o, p)
  <2>1. sessions[o].state = "ABANDONED" /\ sessions[o].committed < sessions[p].committed
    BY <1>0, <1>4 DEF ChainsSound
  <2>2. QED
    BY <1>1, <1>2, <2>1 DEF SchemaLive, LiveState
<1>5. CASE Earlier(p, o)
  <2>1. sessions[p].state = "ABANDONED" /\ sessions[p].committed < sessions[o].committed
    BY <1>0, <1>5 DEF ChainsSound
  <2>2. QED
    BY <1>1, <1>2, <2>1 DEF SchemaLive, LiveState
<1>6. QED
  BY <1>3, <1>4, <1>5

\* The invariant implies the constraints of the schema.
LEMMA SchemaHolds == ComponentInv => RowsSatisfySchema
<1> SUFFICES ASSUME ComponentInv PROVE RowsSatisfySchema
  OBVIOUS
<1>0. ComponentTypeOK /\ TablesInv
  BY DEF ComponentInv
<1>1. \A o, p \in Issued :
        o # p /\ sessions[o].set = sessions[p].set =>
          /\ ~ (SchemaLive(o) /\ SchemaLive(p))
          /\ sessions[o].generation # sessions[p].generation
          /\ DescriptorId(o) # DescriptorId(p)
  BY ChainsApart DEF OneSet, DescriptorId
<1>2. \A x, y \in Staged : x # y => ComponentId(x[1], x[2]) # ComponentId(y[1], y[2])
  <2>1. SUFFICES ASSUME NEW x \in Staged, NEW y \in Staged, x # y,
                        ComponentId(x[1], x[2]) = ComponentId(y[1], y[2])
                 PROVE  FALSE
    OBVIOUS
  <2>2. x \in Issued \X ComponentKinds /\ y \in Issued \X ComponentKinds
    BY DEF Staged
  <2>3. x[2] = y[2] /\ DescriptorId(x[1]) = DescriptorId(y[1])
    BY <2>1 DEF ComponentId
  <2>4. x[1] = y[1]
    BY <1>1, <2>2, <2>3 DEF DescriptorId
  <2>5. QED
    BY <2>1, <2>2, <2>3, <2>4
<1>3. \A o, p \in Issued :
        sessions[o].predecessor = sessions[p].predecessor => o = p \/ sessions[o].predecessor = 0
  <2>1. SUFFICES ASSUME NEW o \in Issued, NEW p \in Issued,
                        sessions[o].predecessor = sessions[p].predecessor,
                        sessions[o].predecessor # 0
                 PROVE  o = p
    OBVIOUS
  <2>2. PICK q : q = sessions[o].predecessor
    OBVIOUS
  <2>3. /\ sessions[q].generation = sessions[o].generation - 1 /\ sessions[q].set = sessions[o].set
        /\ sessions[q].generation = sessions[p].generation - 1 /\ sessions[q].set = sessions[p].set
    BY <1>0, <2>1, <2>2 DEF TablesInv, ChainsSound, PredecessorReads
  <2>4. sessions[o].generation \in Nat /\ sessions[p].generation \in Nat
    BY <1>0, IssuedRow, Bounds
  <2>5. sessions[o].generation = sessions[p].generation
    BY <2>3, <2>4
  <2>6. QED
    BY <1>0, <2>3, <2>5 DEF TablesInv, ChainsSound, OneSet
<1>4. \A o, p \in Issued : sessions[o].state = "SELECTED" /\ sessions[p].state = "SELECTED" => o = p
  BY SelectedFacts DEF Issued
<1>5. Cardinality(Live) <= MaxLive
  BY <1>0 DEF TablesInv, LiveBounded
<1>6. Issued = 1 .. Cardinality(Issued)
  <2>1. PICK n \in 0 .. MaxLifetime : Issued = 1 .. n
    BY <1>0 DEF TablesInv, OrdinalsDense
  <2>2. Cardinality(1 .. n) = n
    BY <2>1, Bounds, FS_Interval
  <2>3. QED
    BY <2>1, <2>2
<1>7. QED
  BY <1>1, <1>2, <1>3, <1>4, <1>5, <1>6 DEF RowsSatisfySchema

\* The invariant implies that the reader accepts every session.
LEMMA ReaderHolds == ComponentInv => AuthorityReadable
<1> SUFFICES ASSUME ComponentInv PROVE AuthorityReadable
  OBVIOUS
<1>1. TablesInv
  BY DEF ComponentInv
<1>2. \A o \in Issued : Reads(o)
  BY <1>1 DEF TablesInv, ChainsSound, SelectionSound, EntriesSound, BodyReads, Reads
<1>3. QED
  BY <1>1, <1>2 DEF TablesInv, ManifestSound, AuthorityReadable

(* The variables hold what the tables' columns and the calls may hold.       *)
THEOREM ComponentTypeCorrect == ComponentSpec => []ComponentTypeOK
BY ComponentInvariant, PTL DEF ComponentInv

(* Whatever order the calls come in, and wherever one is dropped between     *)
(* what it read and its transaction, no row breaks a constraint of the       *)
(* schema and no session becomes unreadable                                  *)
(* (activation-component-journal-schema.ts, -authority.ts).                  *)
THEOREM ComponentTablesSound == ComponentSpec => []TablesSound
<1>1. ComponentInv => TablesSound
  BY SchemaHolds, ReaderHolds DEF TablesSound
<1>2. QED
  BY <1>1, ComponentInvariant, PTL

-----------------------------------------------------------------------------
(* One component set. *)

Learnt == LearntComponents \cup LearntManifest

\* What is learnt of a session whose objects have one version each.
PairsOf(objects) == {<<k, objects[k]>> : k \in ComponentKinds}

\* Objects have distinct versions exactly when nothing learnt of them is shared.
LEMMA PairsDistinct ==
  ASSUME NEW objects \in [ComponentKinds -> Versions]
  PROVE  /\ One!Written(PairsOf(objects)) = ComponentKinds
         /\ One!Distinct(PairsOf(objects)) <=> ~ HasDuplicateVersions(objects)
         /\ \A v \in Versions :
              One!Distinct(PairsOf(objects) \cup {<<"manifest", v>>}) <=>
                ~ HasDuplicateVersions(objects) /\ ~ \E k \in ComponentKinds : objects[k] = v
<1>1. \A x : x \in PairsOf(objects) <=> \E k \in ComponentKinds : x = <<k, objects[k]>>
  BY DEF PairsOf
<1>2. One!Written(PairsOf(objects)) = ComponentKinds
  <2>1. \A k \in One!Written(PairsOf(objects)) : k \in ComponentKinds
    BY <1>1 DEF One!Written
  <2>2. \A k \in ComponentKinds : k \in One!Written(PairsOf(objects))
    <3>1. SUFFICES ASSUME NEW k \in ComponentKinds PROVE k \in One!Written(PairsOf(objects))
      OBVIOUS
    <3>2. <<k, objects[k]>> \in PairsOf(objects) /\ <<k, objects[k]>>[1] = k
      BY <1>1
    <3>3. QED
      BY <3>2 DEF One!Written
  <2>3. QED
    BY <2>1, <2>2
<1>3. One!Distinct(PairsOf(objects)) <=> ~ HasDuplicateVersions(objects)
  <2>1. ASSUME One!Distinct(PairsOf(objects)), NEW j \in ComponentKinds, NEW k \in ComponentKinds,
               objects[j] = objects[k]
        PROVE  j = k
    <3>1. <<j, objects[j]>> \in PairsOf(objects) /\ <<k, objects[k]>> \in PairsOf(objects)
      BY <1>1
    <3>2. <<j, objects[j]>>[2] = <<k, objects[k]>>[2]
      BY <2>1
    <3>3. <<j, objects[j]>> = <<k, objects[k]>>
      BY <2>1, <3>1, <3>2 DEF One!Distinct
    <3>4. QED
      BY <3>3
  <2>2. ASSUME \A j, k \in ComponentKinds : objects[j] = objects[k] => j = k
        PROVE  One!Distinct(PairsOf(objects))
    <3>1. SUFFICES ASSUME NEW x \in PairsOf(objects), NEW y \in PairsOf(objects), x[2] = y[2]
                   PROVE  x = y
      BY DEF One!Distinct
    <3>2. PICK j \in ComponentKinds : x = <<j, objects[j]>>
      BY <1>1
    <3>3. PICK k \in ComponentKinds : y = <<k, objects[k]>>
      BY <1>1
    <3>4. objects[j] = objects[k]
      BY <3>1, <3>2, <3>3
    <3>5. QED
      BY <2>2, <3>2, <3>3, <3>4
  <2>3. QED
    BY <2>1, <2>2 DEF HasDuplicateVersions
<1>4. ASSUME NEW v \in Versions
      PROVE  One!Distinct(PairsOf(objects) \cup {<<"manifest", v>>}) <=>
               ~ HasDuplicateVersions(objects) /\ ~ \E k \in ComponentKinds : objects[k] = v
  <2> DEFINE L == PairsOf(objects) \cup {<<"manifest", v>>}
  <2>1. /\ \A k \in ComponentKinds : <<k, objects[k]>> \in L /\ <<k, objects[k]>>[2] = objects[k]
        /\ <<"manifest", v>> \in L /\ <<"manifest", v>>[2] = v
    BY <1>1
  <2>2. \A k \in ComponentKinds : <<k, objects[k]>> # <<"manifest", v>>
    BY ComponentAssumption
  <2>3. ASSUME One!Distinct(L) PROVE ~ HasDuplicateVersions(objects) /\ ~ \E k \in ComponentKinds : objects[k] = v
    <3>1. One!Distinct(PairsOf(objects))
      BY <2>3 DEF One!Distinct
    <3>2. ASSUME NEW k \in ComponentKinds, objects[k] = v PROVE FALSE
      BY <2>1, <2>2, <2>3, <3>2 DEF One!Distinct
    <3>3. QED
      BY <1>3, <3>1, <3>2
  <2>4. ASSUME ~ HasDuplicateVersions(objects), ~ \E k \in ComponentKinds : objects[k] = v
        PROVE  One!Distinct(L)
    <3>1. One!Distinct(PairsOf(objects))
      BY <1>3, <2>4
    <3>2. \A x \in PairsOf(objects) : x[2] # v
      BY <1>1, <2>4
    <3>3. QED
      BY <2>1, <3>1, <3>2 DEF One!Distinct
  <2>5. QED
    BY <2>3, <2>4
<1>5. QED
  BY <1>2, <1>3, <1>4

\* What is learnt of the components, one by one.
LEMMA LearntOf ==
  ASSUME NEW o \in Ordinals, selection.session = o, 0 \notin Ordinals
  PROVE  \A x : x \in LearntComponents <=>
                  \E k \in ComponentKinds : \E v \in entries[o][k].result : x = <<k, v>>
BY DEF LearntComponents

\* Once every component is confirmed, that is their versions.
LEMMA AllLearnt ==
  ASSUME ComponentInv, NEW o \in Ordinals, sessions[o].state = "SELECTED",
         Statuses(o) = {"CONFIRMED"}
  PROVE  LearntComponents = PairsOf(ConfirmedObjects(View(o)))
<1>1. selection.session = o
  BY SelectedFacts
<1>2. \A k \in ComponentKinds : entries[o][k].result = {ConfirmedObjects(View(o))[k]}
  BY ConfirmedVersions
<1>3. \A x : x \in LearntComponents <=>
               \E k \in ComponentKinds : \E v \in entries[o][k].result : x = <<k, v>>
  BY <1>1, LearntOf, Bounds
<1>4. PICK objects : objects = ConfirmedObjects(View(o))
  OBVIOUS
<1>5. \A x : x \in LearntComponents <=> x \in PairsOf(objects)
  BY <1>2, <1>3, <1>4 DEF PairsOf
<1>6. LearntComponents = PairsOf(objects)
  BY <1>5
<1>7. QED
  BY <1>4, <1>6

\* A step that changes nothing the callers learn is a stutter, or hands the
\* choice out.
LEMMA OneStays ==
  ASSUME Chosen' = Chosen, Learnt' = Learnt, Outcome' = Outcome,
         handed' = handed \/ handed' = handed \cup Chosen'
  PROVE  One!OneNext
BY DEF One!OneNext, Learnt

\* What the set is depends on the tables alone.
LEMMA TablesSame ==
  ASSUME UNCHANGED <<sessions, entries, selection, manifest>>
  PROVE  Chosen' = Chosen /\ Learnt' = Learnt /\ Outcome' = Outcome
BY DEF Chosen, Learnt, LearntComponents, LearntManifest, Outcome

\* While the selection is open, the sessions may change without any effect on the set.
LEMMA OpenSame ==
  ASSUME ComponentInv, selection.state = "OPEN", UNCHANGED <<selection, manifest>>
  PROVE  Chosen' = Chosen /\ Learnt' = Learnt /\ Outcome' = Outcome
<1>1. selection.session = 0
  BY OpenFacts
<1>2. QED
  BY <1>1 DEF Chosen, Learnt, LearntComponents, LearntManifest, Outcome

\* Whoever is handed a plan is handed the choice.
LEMMA HandsChoice ==
  ASSUME NEW o \in Ordinals, HandOut(o), selection'.session = o
  PROVE  handed' = handed \cup Chosen'
<1>1. o # 0
  BY Bounds
<1>2. QED
  BY <1>1 DEF HandOut, Chosen

\* Handing out the plans is a step of the set.
LEMMA OneAnswers ==
  ASSUME ComponentInv, NEW o \in Ordinals, HandOut(o), selection.session = o,
         UNCHANGED <<sessions, entries, selection, manifest>>
  PROVE  One!OneNext
<1>1. handed' = handed \cup Chosen'
  BY HandsChoice
<1>2. QED
  BY <1>1, TablesSame, OneStays

\* A seal is the choice of the set.
LEMMA OneSeals ==
  ASSUME ComponentInv, NEW c \in Callers, Seal(c)
  PROVE  One!OneNext
<1>1. CASE SealedByTwin(calls[c])
  <2>1. PICK o : o = calls[c].session
    OBVIOUS
  <2>2. /\ selection.session = o /\ selection.state = "COMPONENT_EFFECTS_SEALED" /\ HandOut(o)
        /\ UNCHANGED <<sessions, entries, selection, manifest>>
    BY <1>1, <2>1 DEF Seal, SealedByTwin, HandOut
  <2>3. o \in Ordinals
    BY <2>2 DEF ComponentInv, TablesInv, SelectionSound, SelectionReads, Issued
  <2>4. QED
    BY <2>2, <2>3, OneAnswers
<1>2. CASE ~ SealedByTwin(calls[c])
  <2>1. PICK o \in Issued, pins \in Pins :
        /\ o = calls[c].session
        /\ sessions[o] \in Session /\ sessions[o].state = "STAGED"
        /\ selection.state = "OPEN"
        /\ selection' = [selection EXCEPT !.state = "COMPONENT_EFFECTS_SEALED",
                                          !.session = o, !.pins = {pins}]
        /\ sessions' = Selected(o) /\ entries' = SealedEntries(o, pins)
        /\ UNCHANGED <<clock, manifest>>
    BY <1>2, Sealed
  <2>2. HandOut(o)
    BY <2>1 DEF Seal, HandOut
  <2>3. /\ selection.session = 0 /\ manifest = NoManifest /\ selection \in Selection
    BY <2>1, OpenFacts DEF ComponentInv, ComponentTypeOK
  <2>4. /\ selection'.session = o /\ selection'.pins = {pins}
        /\ selection'.state = "COMPONENT_EFFECTS_SEALED"
    BY <2>1, <2>3 DEF Selection
  <2>5. /\ sessions'[o].set = sessions[o].set
        /\ \A k \in ComponentKinds : entries'[o][k].result = {}
    BY <2>1, SealedTables
  <2>6. o \in Ordinals /\ o # 0 /\ sessions[o].set \in Sets
    BY <2>1, Bounds DEF Issued, Session
  <2>7. handed' = handed \cup Chosen'
    BY <2>2, <2>4, <2>6, HandsChoice
  <2>8. /\ Chosen = {} /\ Chosen' = {<<o, sessions[o].set, {pins}>>}
        /\ <<o, sessions[o].set, {pins}>> \in Ordinals \X Sets \X {{p} : p \in Pins}
    BY <2>3, <2>4, <2>5, <2>6 DEF Chosen
  <2>9. Learnt = {} /\ Learnt' = {}
    <3>1. LearntManifest = {} /\ LearntManifest' = {}
      BY <2>1, <2>3 DEF LearntManifest
    <3>2. LearntComponents = {}
      BY <2>3 DEF LearntComponents
    <3>3. LearntComponents' = {}
      BY <2>4, <2>5 DEF LearntComponents
    <3>4. QED
      BY <3>1, <3>2, <3>3 DEF Learnt
  <2>10. Outcome = "none" /\ Outcome' = "none"
    BY <2>1, <2>4 DEF Outcome
  <2>11. One!Choose
    BY <2>8, <2>9, <2>10 DEF One!Choose, Learnt
  <2>12. QED
    BY <2>7, <2>11 DEF One!OneNext
<1>3. QED
  BY <1>1, <1>2

\* A confirmation learns one object.
LEMMA OneConfirms ==
  ASSUME ComponentInv, NEW c \in Callers, CommitConfirm(c)
  PROVE  One!OneNext
<1>1. PICK o \in Issued, k \in ComponentKinds, v \in Versions :
         /\ sessions[o].state = "SELECTED" /\ selection.state = "COMPONENT_EFFECTS_SEALED"
         /\ entries[o][k].status = "SEALED"
         /\ entries' \in [Ordinals -> EntryRows]
         /\ entries'[o] \in [ComponentKinds -> Entry]
         /\ \A p \in Ordinals \ {o} : entries'[p] = entries[p]
         /\ entries'[o][k].status = "CONFIRMED" /\ entries'[o][k].result = {v}
         /\ entries'[o][k].pins = entries[o][k].pins
         /\ \A j \in ComponentKinds \ {k} : entries'[o][j] = entries[o][j]
         /\ selection' = IF "SEALED" \in {entries'[o][j].status : j \in ComponentKinds} THEN selection
                         ELSE [selection EXCEPT !.state = "COMPONENTS_CONFIRMED"]
         /\ Finish(c) /\ UNCHANGED <<clock, sessions, manifest, handed>>
  BY Confirmed
<1>2. o \in Ordinals /\ o # 0
  BY Bounds DEF Issued
<1>3. /\ selection.session = o
      /\ entries[o][k].result = {}
  BY <1>1, <1>2, SelectedFacts
<1>4. /\ selection \in Selection /\ manifest = NoManifest
  BY <1>1 DEF ComponentInv, ComponentTypeOK, TablesInv, ManifestSound, ManifestReads,
              ManifestSelectionReads
<1>5. /\ selection'.session = o /\ selection'.pins = selection.pins
      /\ selection'.state \in {"COMPONENT_EFFECTS_SEALED", "COMPONENTS_CONFIRMED"}
  BY <1>1, <1>3, <1>4 DEF Selection
<1>6. Chosen' = Chosen /\ Chosen # {}
  BY <1>1, <1>2, <1>3, <1>5 DEF Chosen
<1>7. Outcome = "none" /\ Outcome' = "none"
  BY <1>1, <1>5 DEF Outcome
<1>8. LearntManifest = {} /\ LearntManifest' = {}
  BY <1>1, <1>4 DEF LearntManifest
<1>9. LearntComponents' = LearntComponents \cup {<<k, v>>}
  <2>1. \A x : x \in LearntComponents <=>
                 \E j \in ComponentKinds : \E w \in entries[o][j].result : x = <<j, w>>
    BY <1>2, <1>3 DEF LearntComponents
  <2>2. \A x : x \in LearntComponents' <=>
                 \E j \in ComponentKinds : \E w \in entries'[o][j].result : x = <<j, w>>
    BY <1>2, <1>5 DEF LearntComponents
  <2>3. \A x : x \in LearntComponents' <=> x \in LearntComponents \cup {<<k, v>>}
    <3>1. ASSUME NEW x \in LearntComponents' PROVE x \in LearntComponents \cup {<<k, v>>}
      <4>1. PICK j \in ComponentKinds : \E w \in entries'[o][j].result : x = <<j, w>>
        BY <2>2
      <4>2. CASE j = k
        BY <1>1, <4>1, <4>2
      <4>3. CASE j # k
        BY <1>1, <2>1, <4>1, <4>3
      <4>4. QED
        BY <4>2, <4>3
    <3>2. ASSUME NEW x \in LearntComponents PROVE x \in LearntComponents'
      <4>1. PICK j \in ComponentKinds : \E w \in entries[o][j].result : x = <<j, w>>
        BY <2>1
      <4>2. j # k
        BY <1>3, <4>1
      <4>3. QED
        BY <1>1, <2>2, <4>1, <4>2
    <3>3. <<k, v>> \in LearntComponents'
      BY <1>1, <2>2
    <3>4. QED
      BY <3>1, <3>2, <3>3
  <2>4. QED
    BY <2>3
<1>10. k \notin One!Written(Learnt)
  <2>1. \A x \in LearntComponents : x[1] # k
    BY <1>2, <1>3, LearntOf, Bounds
  <2>2. QED
    BY <1>8, <2>1 DEF One!Written, Learnt
<1>11. k # "manifest" /\ k \in One!Objects
  BY ComponentAssumption DEF One!Objects
<1>12. Learnt' = Learnt \cup {<<k, v>>}
  BY <1>8, <1>9 DEF Learnt
<1>13. One!Learn
  BY <1>6, <1>7, <1>10, <1>11, <1>12 DEF One!Learn, Learnt
<1>14. QED
  BY <1>1, <1>13 DEF One!OneNext

\* A hold for duplicate versions ends the set, held.
LEMMA OneHolds ==
  ASSUME ComponentInv, NEW c \in Callers, HoldComponents(c)
  PROVE  One!OneNext
<1>1. /\ calls[c].op = "manifest" /\ HasDuplicateVersions(ConfirmedObjects(calls[c].seen))
      /\ Unchanged(calls[c]) /\ manifest = NoManifest
      /\ selection' = [selection EXCEPT !.state = "HOLD", !.hold = "components"]
      /\ UNCHANGED <<clock, sessions, entries, manifest, handed>>
  BY DEF HoldComponents
<1>2. PICK o \in Ordinals :
           /\ o = calls[c].session /\ View(o) = calls[c].seen
           /\ sessions[o].state = "SELECTED" /\ selection.state = "COMPONENTS_CONFIRMED"
           /\ Statuses(o) = {"CONFIRMED"} /\ selection.session = o
           /\ selection \in Selection /\ selection.hold = "none"
           /\ calls[c].seen.selection.pins = selection.pins
  BY <1>1, ManifestAsked
<1>3. /\ selection'.session = selection.session /\ selection'.pins = selection.pins
      /\ selection'.state = "HOLD"
  BY <1>1, <1>2 DEF Selection
<1>4. Chosen' = Chosen /\ Learnt' = Learnt
  BY <1>1, <1>3 DEF Chosen, Learnt, LearntComponents, LearntManifest
<1>5. Outcome = "none" /\ Outcome' = "held"
  BY <1>2, <1>3 DEF Outcome
<1>6. PICK objects : objects = ConfirmedObjects(View(o))
  OBVIOUS
<1>7. objects \in [ComponentKinds -> Versions] /\ LearntComponents = PairsOf(objects)
  BY <1>2, <1>6, AllLearnt, ConfirmedVersions
<1>8. Learnt = PairsOf(objects)
  BY <1>1, <1>7 DEF Learnt, LearntManifest
<1>9. One!Written(Learnt) = ComponentKinds /\ ~ One!Distinct(Learnt)
  BY <1>1, <1>2, <1>6, <1>7, <1>8, PairsDistinct
<1>10. One!Hold
  BY <1>4, <1>5, <1>9 DEF One!Hold, Learnt
<1>11. QED
  BY <1>1, <1>10 DEF One!OneNext

\* Sealing the manifest is invisible to the callers.
LEMMA OneSealsManifest ==
  ASSUME ComponentInv, NEW c \in Callers, PersistSeal(c)
  PROVE  One!OneNext
<1>1. /\ calls[c].op = "manifest" /\ Unchanged(calls[c]) /\ manifest = NoManifest
      /\ manifest' = [status |-> "SEALED", session |-> calls[c].session,
                      objects |-> ConfirmedObjects(calls[c].seen),
                      pins |-> calls[c].seen.selection.pins, result |-> {}]
      /\ selection' = [selection EXCEPT !.state = "MANIFEST_EFFECT_SEALED"]
      /\ UNCHANGED <<clock, sessions, entries, handed>>
  BY DEF PersistSeal
<1>2. PICK o \in Ordinals :
           /\ o = calls[c].session /\ View(o) = calls[c].seen
           /\ sessions[o].state = "SELECTED" /\ selection.state = "COMPONENTS_CONFIRMED"
           /\ Statuses(o) = {"CONFIRMED"} /\ selection.session = o
           /\ selection \in Selection /\ selection.hold = "none"
           /\ calls[c].seen.selection.pins = selection.pins
  BY <1>1, ManifestAsked
<1>3. /\ selection'.session = selection.session /\ selection'.pins = selection.pins
      /\ selection'.state = "MANIFEST_EFFECT_SEALED" /\ manifest'.result = {}
  BY <1>1, <1>2 DEF Selection
<1>4. Chosen' = Chosen
  BY <1>1, <1>3 DEF Chosen
<1>5. Learnt' = Learnt
  BY <1>1, <1>3 DEF Learnt, LearntComponents, LearntManifest
<1>6. Outcome = "none" /\ Outcome' = "none"
  BY <1>2, <1>3 DEF Outcome
<1>7. QED
  BY <1>1, <1>4, <1>5, <1>6, OneStays

\* The result of the manifest ends the set, one way or the other.
LEMMA OneLearnsManifest ==
  ASSUME ComponentInv, NEW c \in Callers, PersistResult(c)
  PROVE  One!OneNext
<1>1. PICK v : v = calls[c].version
  OBVIOUS
<1>2. /\ calls[c].op = "pointer" /\ manifest.status = "SEALED"
      /\ manifest' = [manifest EXCEPT !.status = IF Collides(v) THEN "RESULT_CONFIRMED"
                                                 ELSE "CONFIRMED",
                                      !.result = {v}]
      /\ selection' = IF Collides(v) THEN [selection EXCEPT !.state = "HOLD", !.hold = "manifest"]
                      ELSE [selection EXCEPT !.state = "CONFIRMED"]
      /\ UNCHANGED <<clock, sessions, entries, handed>>
  BY <1>1 DEF PersistResult
<1>3. ComponentTypeOK /\ TablesInv
  BY DEF ComponentInv
<1>4. v \in Versions
  BY <1>1, <1>2, <1>3, CallShapes DEF ComponentTypeOK
<1>5. manifest # NoManifest /\ manifest \in ManifestRow
  BY <1>2, <1>3 DEF NoManifest, ComponentTypeOK
<1>6. PICK o : o = selection.session
  OBVIOUS
<1>7. /\ ManifestRebuilt(o) /\ manifest.result = {} /\ selection.state = "MANIFEST_EFFECT_SEALED"
  BY <1>2, <1>3, <1>5, <1>6 DEF TablesInv, ManifestSound, ManifestReads, ManifestResultReads,
                                ManifestSelectionReads
<1>8. o \in Ordinals /\ sessions[o].state = "SELECTED" /\ o # 0
  BY <1>3, <1>6, <1>7 DEF TablesInv, SelectionSound, SelectionReads, Issued
<1>9. PICK objects : objects = manifest.objects
  OBVIOUS
<1>10. /\ Statuses(o) = {"CONFIRMED"} /\ objects = ConfirmedObjects(View(o))
       /\ ~ HasDuplicateVersions(objects)
  BY <1>7, <1>9 DEF ManifestRebuilt
<1>11. objects \in [ComponentKinds -> Versions] /\ LearntComponents = PairsOf(objects)
  BY <1>8, <1>10, AllLearnt, ConfirmedVersions
<1>12. Collides(v) <=> \E k \in ComponentKinds : objects[k] = v
  BY <1>9 DEF Collides
<1>13. /\ selection'.session = selection.session /\ selection'.pins = selection.pins
       /\ selection'.state = IF Collides(v) THEN "HOLD" ELSE "CONFIRMED"
  <2>1. selection \in Selection
    BY <1>3 DEF ComponentTypeOK
  <2> HIDE DEF Collides
  <2>2. QED
    BY <1>2, <2>1 DEF Selection
<1>14. manifest'.result = {v} /\ manifest' # NoManifest
  <2> HIDE DEF Collides
  <2>1. manifest'.result = {v} /\ manifest'.status \in {"RESULT_CONFIRMED", "CONFIRMED"}
    BY <1>2, <1>5 DEF ManifestRow
  <2>2. QED
    BY <2>1 DEF NoManifest
<1>15. Chosen' = Chosen /\ Chosen # {}
  BY <1>2, <1>6, <1>8, <1>13 DEF Chosen
<1>16. /\ Learnt = PairsOf(objects)
       /\ Learnt' = Learnt \cup {<<"manifest", v>>}
  <2>1. LearntManifest = {}
    BY <1>7 DEF LearntManifest
  <2>2. LearntManifest' = {<<"manifest", v>>}
    BY <1>14 DEF LearntManifest
  <2>3. LearntComponents' = LearntComponents
    BY <1>2, <1>13 DEF LearntComponents
  <2>4. QED
    BY <1>11, <2>1, <2>2, <2>3 DEF Learnt
<1>17. /\ One!Written(Learnt) = ComponentKinds /\ One!Distinct(Learnt)
       /\ One!Distinct(Learnt') <=> ~ Collides(v)
  BY <1>4, <1>10, <1>11, <1>12, <1>16, PairsDistinct
<1>18. /\ Outcome = "none"
       /\ Outcome' = IF One!Distinct(Learnt') THEN "confirmed" ELSE "held"
  BY <1>7, <1>13, <1>17 DEF Outcome
<1>19. "manifest" \in One!Objects \ One!Written(Learnt)
  BY <1>17, ComponentAssumption DEF One!Objects
<1>20. One!Learn
  BY <1>4, <1>15, <1>16, <1>17, <1>18, <1>19 DEF One!Learn, Learnt
<1>21. QED
  BY <1>2, <1>20 DEF One!OneNext

\* Every step is a step of the set or leaves it alone.
LEMMA OneStep == ComponentInv /\ [ComponentNext]_componentVars => [One!OneNext]_(One!oneVars)
<1> SUFFICES ASSUME ComponentInv, [ComponentNext]_componentVars PROVE One!OneNext
  OBVIOUS
<1>1. ASSUME UNCHANGED <<sessions, entries, selection, manifest, handed>> PROVE One!OneNext
  BY <1>1, TablesSame, OneStays
<1>2. ASSUME selection.state = "OPEN", UNCHANGED <<selection, manifest, handed>> PROVE One!OneNext
  BY <1>2, OpenSame, OneStays
<1>3. CASE SetClock \/ UNCHANGED componentVars
  BY <1>1, <1>3 DEF SetClock, componentVars
<1>4. ASSUME NEW c \in Callers, JournalStart(c) PROVE One!OneNext
  <2>1. UNCHANGED <<sessions, entries, selection, manifest, handed>>
    BY <1>4 DEF JournalStart, BeginInitial, ReissueExpired, ResolveExisting, AbandonExpired,
                SelectAndSeal, SealManifest, StageEnvelope, ConfirmManifest, ConfirmComponent, Start
  <2>2. QED
    BY <1>1, <2>1
<1>5. ASSUME NEW c \in Callers, Drop(c) PROVE One!OneNext
  BY <1>1, <1>5 DEF Drop
<1>6. ASSUME NEW c \in Callers, CreateSession(c) \/ CommitAbandon(c) \/ CommitStage(c) \/ Reject(c)
      PROVE  One!OneNext
  BY <1>2, <1>6 DEF CreateSession, Admits, CommitAbandon, OpenUnsealed, CommitStage, Reject
<1>7. ASSUME NEW o \in Ordinals, Loads(o), sessions[o].state = "SELECTED", HandOut(o),
             UNCHANGED <<sessions, entries, selection, manifest>>
      PROVE  One!OneNext
  BY <1>7, SelectedFacts, OneAnswers
<1>8. ASSUME NEW c \in Callers, AcceptSelected(c) \/ AcceptStaged(c) PROVE One!OneNext
  <2>1. CASE AcceptSelected(c)
    <3>1. PICK o : o = calls[c].session
      OBVIOUS
    <3>2. /\ Loads(o) /\ sessions[o].state = "SELECTED" /\ HandOut(o)
          /\ UNCHANGED <<sessions, entries, selection, manifest>>
      BY <2>1, <3>1 DEF AcceptSelected, HandOut
    <3>3. o \in Ordinals
      BY <3>2 DEF Loads, Issued
    <3>4. QED
      BY <1>7, <3>2, <3>3
  <2>2. CASE AcceptStaged(c)
    BY <1>1, <2>2 DEF AcceptStaged
  <2>3. QED
    BY <1>8, <2>1, <2>2
<1>9. ASSUME NEW o \in Ordinals, SealedPlans(o) PROVE One!OneNext
  BY <1>7, <1>9 DEF SealedPlans
<1>10. ASSUME NEW c \in Callers, JournalCommit(c) PROVE One!OneNext
  BY <1>6, <1>8, <1>10, OneSeals, OneConfirms, OneHolds, OneSealsManifest, OneLearnsManifest
     DEF JournalCommit
<1>11. QED
  BY <1>3, <1>4, <1>5, <1>9, <1>10 DEF ComponentNext

(* To its callers the journal is one component set: one choice for good, the *)
(* plans of that choice, results that are kept, and a confirmation only of   *)
(* objects that are distinct versions (activation-component-journal-         *)
(* selection.ts, -results.ts, -manifest.ts).                                 *)
THEOREM JournalIsOneSet == ComponentSpec => ImplementsOneSet
<1>1. ComponentInit => One!OneInit
  <2>1. ComponentInit => Chosen = {} /\ Learnt = {} /\ Outcome = "none" /\ handed = {}
    BY DEF ComponentInit, Chosen, Learnt, LearntComponents, LearntManifest, Outcome
  <2>2. QED
    BY <2>1 DEF One!OneInit, Learnt
<1>2. QED
  BY <1>1, OneStep, ComponentInvariant, PTL DEF ComponentSpec, ImplementsOneSet, One!OneSpec

-----------------------------------------------------------------------------
(* The authority. *)

Trust(w, access) == [account |-> Account, worker |-> w, access |-> access]

\* A set that was not rejected was accepted, and only such a set has objects.
SetsSound ==
  \A w \in Workers :
    /\ journal[w].state = "OPEN" => ~ journal[w].parsed
    /\ journal[w].state \in {"SEALED", "CONFIRMED"} =>
         \E access \in Accesses : Accepts(Payload(w), Trust(w, access))
    /\ journal[w].state \in {"OPEN", "REJECTED"} => DOMAIN journal[w].objects = {}
    /\ journal[w].state = "CONFIRMED" => DOMAIN journal[w].objects = Objects

\* A version is named by its key and a number, and one of a key is its latest.
VersionsSound ==
  /\ \A v \in versions : /\ v.id = <<v.worker, v.object, v.id[3]>>
                        /\ v.id[3] < Cardinality(VersionsOf(v.worker, v.object))
  /\ \A u, v \in versions : u.id = v.id => u = v
  /\ \A v \in versions : \E u \in VersionsOf(v.worker, v.object) : u.latest
  /\ \A u, v \in versions :
       u.worker = v.worker /\ u.object = v.object /\ u.latest /\ v.latest => u = v

\* What was confirmed is in the bucket, and the manifest is written last.
ObjectsSound ==
  \A w \in Workers :
    /\ \A k \in DOMAIN journal[w].objects :
         \E v \in VersionsOf(w, k) : /\ v.id = journal[w].objects[k].id
                                    /\ journal[w].objects[k].extended <= v.extended
    /\ \A v \in VersionsOf(w, "manifest") :
         v.body = "own" => Kinds \subseteq DOMAIN journal[w].objects

\* A version that no resolution of its set may pass over.
Spoils(v) ==
  \/ v.object = "stranger"
  \/ v.body # "own"
  \/ v.marker
  \/ \E u \in VersionsOf(v.worker, v.object) : u # v
  \/ /\ v.object \in DOMAIN journal[v.worker].objects
     /\ v.extended # journal[v.worker].objects[v.object].extended

Spoilt(w) == \E v \in versions : v.worker = w /\ Spoils(v)

\* Disturbed are exactly the workers that have such a version.
DisturbedSound == \A w \in Workers : w \in disturbed <=> Spoilt(w)

\* The components' part of it.
ComponentsSpoilt(w) == \E v \in versions : v.worker = w /\ v.object # "manifest" /\ Spoils(v)

SourcesSound ==
  \A c \in Resolvers :
    /\ sources[c].pc \in {"manifest", "resolved"} => journal[sources[c].worker].state = "CONFIRMED"
    /\ sources[c].pc = "manifest" /\ sources[c].spoilt => ComponentsSpoilt(sources[c].worker)

MintedSound ==
  \A m \in minted : /\ m.resolved = m.journal
                    /\ journal[m.journal].state = "CONFIRMED"
                    /\ m.pins = OperationPins(Runtime(Payload(m.journal)))

AuthorityInv ==
  /\ AuthorityTypeOK
  /\ RoundTrip
  /\ SetsSound
  /\ VersionsSound
  /\ ObjectsSound
  /\ DisturbedSound
  /\ SourcesSound
  /\ FailsForCause
  /\ ResolvedWasExact
  /\ MintedSound

-----------------------------------------------------------------------------
(* Requests and payloads. *)

\* A deployment that parses has one final version.
LEMMA OneFinal ==
  ASSUME NEW d, NEW phase, DeploymentsParse(d, phase), NEW r \in Roles
  PROVE  /\ FinalOf(d[r]) \in d[r].members /\ IsFinal(FinalOf(d[r]))
         /\ \A m \in d[r].members : IsFinal(m) => m = FinalOf(d[r])
<1> DEFINE members == d[r].members
<1>1. PICK f \in members : IsFinal(f) /\ \A m \in members : IsFinal(m) => m = f
  <2>1. CASE Canary(members)
    BY <2>1 DEF Canary, IsFinal
  <2>2. CASE Whole(members)
    BY <2>2 DEF Whole, IsFinal
  <2>3. QED
    BY <2>1, <2>2 DEF DeploymentsParse
<1>2. FinalOf(d[r]) = f
  BY <1>1 DEF FinalOf
<1>3. QED
  BY <1>1, <1>2

\* A normalized member is restored from its row.
LEMMA MemberBack ==
  ASSUME NEW m, NEW row,
         IsFinal(m) => /\ Has(m, {"kind", "percentage", "record", "code", "version"})
                       /\ m.code = row.code /\ m.version = row.version
  PROVE  RestoredMember(NormalMember(m), row) = m
<1>1. CASE IsFinal(m)
  <2>1. m = [kind |-> m.kind, percentage |-> m.percentage, record |-> m.record,
             code |-> m.code, version |-> m.version]
    BY <1>1 DEF Has
  <2>2. NormalMember(m) = [kind |-> m.kind, percentage |-> m.percentage, record |-> m.record]
    BY <1>1 DEF NormalMember
  <2>3. IsFinal(NormalMember(m))
    BY <1>1, <2>2 DEF IsFinal
  <2>4. RestoredMember(NormalMember(m), row) =
          [kind |-> m.kind, percentage |-> m.percentage, record |-> m.record,
           code |-> row.code, version |-> row.version]
    BY <2>2, <2>3 DEF RestoredMember
  <2>5. QED
    BY <1>1, <2>1, <2>4
<1>2. CASE ~ IsFinal(m)
  BY <1>2 DEF RestoredMember, NormalMember
<1>3. QED
  BY <1>1, <1>2

\* So are the deployments of a phase whose final versions are the inventory's.
LEMMA DeploymentsBack ==
  ASSUME NEW d, NEW rows, DeploymentsShaped(d),
         \A r \in Roles : \A m \in d[r].members :
           IsFinal(m) => m.code = rows[r].code /\ m.version = rows[r].version
  PROVE  RestoredDeployments(NormalDeployments(d), rows) = d
<1> DEFINE normal(r) == {NormalMember(m) : m \in d[r].members}
           back(r) == {RestoredMember(m, rows[r]) : m \in normal(r)}
<1>1. ASSUME NEW r \in Roles PROVE back(r) = d[r].members
  <2>1. \A m \in d[r].members : RestoredMember(NormalMember(m), rows[r]) = m
    BY MemberBack DEF DeploymentsShaped
  <2>2. QED
    BY <2>1
<1>2. \A r \in Roles : /\ NormalDeployments(d)[r].id = d[r].id
                       /\ NormalDeployments(d)[r].members = normal(r)
  BY DEF NormalDeployments
<1>3. \A r \in Roles : d[r] = [id |-> d[r].id, members |-> d[r].members]
  BY DEF DeploymentsShaped, Has
<1>4. RestoredDeployments(NormalDeployments(d), rows) =
        [r \in Roles |-> [id |-> d[r].id, members |-> back(r)]]
  BY <1>2 DEF RestoredDeployments
<1>5. d = [r \in Roles |-> d[r]]
  BY DEF DeploymentsShaped, Has
<1>6. QED
  BY <1>1, <1>3, <1>4, <1>5

\* An expectation's final versions are its inventory's, before the promotion and after.
LEMMA FinalsOfRows ==
  ASSUME NEW doc, NEW digest, NEW account, NEW source,
         ExpectationParses(doc, digest, account, source),
         NEW r \in Roles
  PROVE  /\ \A m \in doc.a0[r].members :
              IsFinal(m) => m.code = doc.rows[r].code /\ m.version = doc.rows[r].version
         /\ \A m \in doc.a1[r].members :
              IsFinal(m) => m.code = doc.rows[r].code /\ m.version = doc.rows[r].version
<1>1. /\ Immutable(FinalOf(doc.a0[r])) = Immutable(FinalOf(doc.a1[r]))
      /\ FinalOf(doc.a1[r]).version = doc.rows[r].version
      /\ FinalOf(doc.a1[r]).code = doc.rows[r].code
  BY DEF ExpectationParses, CrossBound
<1>2. /\ FinalOf(doc.a0[r]).code = FinalOf(doc.a1[r]).code
      /\ FinalOf(doc.a0[r]).version = FinalOf(doc.a1[r]).version
  BY <1>1 DEF Immutable
<1>3. /\ \A m \in doc.a0[r].members : IsFinal(m) => m = FinalOf(doc.a0[r])
      /\ \A m \in doc.a1[r].members : IsFinal(m) => m = FinalOf(doc.a1[r])
  BY OneFinal DEF ExpectationParses
<1>4. QED
  BY <1>1, <1>2, <1>3

\* Payloads give the request they are built of back.
LEMMA GivenBack ==
  ASSUME NEW q, Shaped(q), NEW trust, RequestParses(q, trust)
  PROVE  Restored(Payloads(q)) = q
<1> DEFINE p == Payloads(q)
<1>0. /\ p.header = [account |-> q.doc.account, source |-> q.doc.source, digest |-> q.digest]
      /\ p.inventory = q.doc.rows
      /\ p.a0 = NormalDeployments(q.doc.a0) /\ p.a1 = NormalDeployments(q.doc.a1)
      /\ p.network = q.doc.host
      /\ p.core = [host |-> q.broker.host, endpoint |-> q.broker.endpoint]
      /\ p.apps = [r \in Apps |-> q.apps[r].id]
      /\ p.access = q.access /\ p.bucket = q.bucket
  BY DEF Payloads
<1>1. ExpectationParses(q.doc, q.digest, trust.account, q.broker.row.source)
  BY DEF RequestParses
<1>2. RestoredDocument(p) = q.doc
  <2>1. RestoredDeployments(p.a0, p.inventory) = q.doc.a0
    BY <1>0, <1>1, DeploymentsBack, FinalsOfRows DEF Shaped
  <2>2. RestoredDeployments(p.a1, p.inventory) = q.doc.a1
    BY <1>0, <1>1, DeploymentsBack, FinalsOfRows DEF Shaped
  <2>3. q.doc = [account |-> q.doc.account, source |-> q.doc.source, rows |-> q.doc.rows,
                 a0 |-> q.doc.a0, a1 |-> q.doc.a1, host |-> q.doc.host]
    BY DEF Shaped, Has
  <2>4. p.header.account = q.doc.account /\ p.header.source = q.doc.source
    BY <1>0
  <2>5. QED
    BY <1>0, <2>1, <2>2, <2>3, <2>4 DEF RestoredDocument
<1>3. RestoredBroker(p) = q.broker
  <2>1. Ingress \in Roles /\ Private \subseteq Roles
    BY RolesAssumption DEF Private
  <2>2. q.doc.account = q.broker.account
    <3>1. q.doc.rows[Ingress].identity = Identity(trust.account, Ingress, q.doc.rows[Ingress].version)
      BY <1>1, <2>1 DEF ExpectationParses, InventoryParses
    <3>2. q.broker.row.identity = Identity(q.broker.account, Ingress, q.broker.row.version)
      BY DEF RequestParses, BrokerValid
    <3>3. q.doc.rows[Ingress] = q.broker.row /\ q.doc.account = trust.account
      BY <1>1 DEF RequestParses, MatchesBroker, ExpectationParses
    <3>4. QED
      BY <3>1, <3>2, <3>3 DEF Identity
  <2>3. [q.doc.rows[Ingress] EXCEPT !.source = q.doc.source] = q.broker.row
    <3>1. q.doc.rows[Ingress].source = q.doc.source
      BY <1>1, <2>1 DEF ExpectationParses
    <3>2. q.doc.rows[Ingress] = q.broker.row
      BY DEF RequestParses, MatchesBroker
    <3>3. q.doc.rows[Ingress] =
            [f \in {"identity", "source", "code", "version"} |-> q.doc.rows[Ingress][f]]
      BY DEF Shaped, RowShaped, Has
    <3>4. [q.doc.rows[Ingress] EXCEPT !.source = q.doc.source] = q.doc.rows[Ingress]
      BY <3>1, <3>3
    <3>5. QED
      BY <3>2, <3>4
  <2>4. [r \in Private |-> q.doc.rows[r]] = q.broker.services
    BY DEF RequestParses, MatchesBroker, Shaped, Has
  <2>5. q.broker = [account |-> q.broker.account, host |-> q.broker.host,
                    endpoint |-> q.broker.endpoint, row |-> q.broker.row,
                    services |-> q.broker.services]
    BY DEF Shaped, Has
  <2>6. /\ p.header.account = q.doc.account /\ p.header.source = q.doc.source
        /\ p.core.host = q.broker.host /\ p.core.endpoint = q.broker.endpoint
    BY <1>0
  <2>7. QED
    BY <1>0, <2>2, <2>3, <2>4, <2>5, <2>6 DEF RestoredBroker
<1>4. RestoredApps(p) = q.apps
  <2>1. Apps \subseteq Private
    BY RolesAssumption
  <2>2. \A r \in Apps : q.doc.rows[r].version = q.apps[r].version
    BY <2>1 DEF RequestParses, MatchesBroker, AppsValid
  <2>3. \A r \in Apps : q.apps[r] = [id |-> q.apps[r].id, version |-> q.apps[r].version]
    BY DEF Shaped, Has
  <2>4. q.apps = [r \in Apps |-> q.apps[r]]
    BY DEF Shaped, Has
  <2>5. RestoredApps(p) = [r \in Apps |-> [id |-> q.apps[r].id, version |-> q.doc.rows[r].version]]
    BY <1>0 DEF RestoredApps
  <2>6. QED
    BY <2>2, <2>3, <2>4, <2>5
<1>5. q = [doc |-> q.doc, digest |-> q.digest, broker |-> q.broker, apps |-> q.apps,
           access |-> q.access, bucket |-> q.bucket]
  BY DEF Shaped, Has
<1>6. p.header.digest = q.digest
  BY <1>0
<1>7. QED
  BY <1>0, <1>2, <1>3, <1>4, <1>5, <1>6 DEF Restored

\* So what provision accepts of a request is accepted as payloads.
LEMMA AcceptedAgain ==
  ASSUME NEW q, Shaped(q), NEW trust, RequestParses(q, trust)
  PROVE  Accepts(Payloads(q), trust)
<1>1. Restored(Payloads(q)) = q
  BY GivenBack
<1>2. /\ Payloads(q).header.account = q.doc.account /\ Payloads(q).header.source = q.doc.source
      /\ Payloads(q).inventory = q.doc.rows
  BY DEF Payloads
<1>3. q.doc.rows[Ingress].version = trust.worker
  BY DEF RequestParses, MatchesBroker
<1>4. QED
  BY <1>1, <1>2, <1>3 DEF Accepts, RequestParses, ExpectationParses

\* Every worker's payloads are those of a request.
LEMMA PayloadIs ==
  ASSUME AuthorityTypeOK, NEW w \in Workers
  PROVE  /\ request[w] \in DOMAIN Contents /\ Shaped(Contents[request[w]])
         /\ Payload(w) = Payloads(Contents[request[w]])
         /\ Reconstructed[request[w]] = Restored(Payload(w))
         /\ Payload(w).access = Contents[request[w]].access
         /\ Payload(w).bucket = Contents[request[w]].bucket
<1>1. request[w] \in DOMAIN Contents
  BY DEF AuthorityTypeOK
<1>2. Shaped(Contents[request[w]])
  BY <1>1, AuthorityAssumption
<1>3. Payload(w) = Payloads(Contents[request[w]])
  BY <1>1 DEF Payload, Normalized
<1>4. Reconstructed[request[w]] = Restored(Payload(w))
  BY <1>1 DEF Reconstructed, Payload, Normalized
<1>5. QED
  BY <1>1, <1>2, <1>3, <1>4 DEF Payloads

\* The envelopes of a set parse, and hold its payloads.
LEMMA EnvelopesWhole ==
  ASSUME AuthorityTypeOK, NEW w \in Workers
  PROVE  /\ PayloadSet([k \in Kinds |-> Envelope(DescriptorOf(w), k)]) = Payload(w)
         /\ \A k \in Kinds : EnvelopeParses(Envelope(DescriptorOf(w), k), DescriptorOf(w))
<1> DEFINE Fields == {"header", "inventory", "a0", "a1", "network", "core", "apps", "access",
                      "bucket"}
           bodies == [k \in Kinds |-> Envelope(DescriptorOf(w), k)]
           q == Contents[request[w]]
<1>1. \A k \in Kinds : \A f \in FieldsOf[k] : bodies[k].payload[f] = Payload(w)[f]
  BY DEF DescriptorOf, Descriptor, Envelope, Roster
<1>2. UNION {FieldsOf[k] : k \in Kinds} = Fields
  BY KindsAssumption
<1>3. Payload(w) = [f \in Fields |-> Payload(w)[f]]
  <2>1. Payload(w) = Payloads(q)
    BY PayloadIs
  <2>2. Payloads(q) = [f \in Fields |-> Payloads(q)[f]]
    BY DEF Payloads
  <2>3. QED
    BY <2>1, <2>2
<1>4. \A f \in Fields : bodies[CHOOSE k \in Kinds : f \in FieldsOf[k]].payload[f] = Payload(w)[f]
  <2>1. ASSUME NEW f \in Fields
        PROVE  bodies[CHOOSE k \in Kinds : f \in FieldsOf[k]].payload[f] = Payload(w)[f]
    <3>1. PICK c : c = CHOOSE k \in Kinds : f \in FieldsOf[k]
      OBVIOUS
    <3>2. \E k \in Kinds : f \in FieldsOf[k]
      BY <1>2
    <3>3. c \in Kinds /\ f \in FieldsOf[c]
      BY <3>1, <3>2
    <3>4. QED
      BY <1>1, <3>1, <3>3
  <2>2. QED
    BY <2>1
<1>5. PayloadSet(bodies) = [f \in Fields |-> Payload(w)[f]]
  BY <1>2, <1>4, ZenonT(60) DEF PayloadSet
<1>6. \A k \in Kinds : EnvelopeParses(Envelope(DescriptorOf(w), k), DescriptorOf(w))
  BY DEF EnvelopeParses, Envelope
<1>7. QED
  BY <1>3, <1>5, <1>6

\* Whether payloads are accepted depends on the access they name, and no more of it.
LEMMA AcceptedByAccess ==
  ASSUME NEW p, NEW w, NEW a, Accepts(p, Trust(w, a))
  PROVE  p.access = a /\ p.header.account = Account
BY DEF Accepts, Restored, Trust

-----------------------------------------------------------------------------
(* The bucket. *)

\* The same version, whatever became of its rank and its lock.
Kept(v, x) ==
  /\ x.id = v.id /\ x.worker = v.worker /\ x.object = v.object
  /\ x.body = v.body /\ x.marker = v.marker

\* An image of as many members.
LEMMA SameSize ==
  ASSUME NEW S, IsFiniteSet(S), NEW g, \A x, y \in S : g[x] = g[y] => x = y
  PROVE  /\ IsFiniteSet({g[x] : x \in S})
         /\ Cardinality({g[x] : x \in S}) = Cardinality(S)
<1> DEFINE T == {g[x] : x \in S}
           f == [x \in S |-> g[x]]
<1>1. f \in Bijection(S, T)
  BY DEF Bijection, Injection, Surjection, IsInjective
<1>2. ExistsBijection(S, T)
  BY <1>1 DEF ExistsBijection
<1>3. QED
  BY <1>2, FS_Bijection

\* The versions of a key are finitely many.
LEMMA VersionsFinite ==
  ASSUME AuthorityTypeOK
  PROVE  \A w, k : /\ VersionsOf(w, k) \subseteq versions /\ IsFiniteSet(VersionsOf(w, k))
                   /\ Cardinality(VersionsOf(w, k)) \in Nat
BY FS_Subset, FS_CardinalityType DEF AuthorityTypeOK, VersionsOf

\* A version is added to a key: the others stay but for their rank.
LEMMA VersionAdded ==
  ASSUME AuthorityTypeOK, VersionsSound,
         NEW w \in Workers, NEW k \in Objects \cup {"stranger"}, NEW body \in {"own", "other"},
         NEW marker \in BOOLEAN,
         versions' = WithVersion(w, k, body, marker)
  PROVE  /\ versions' \subseteq Version /\ IsFiniteSet(versions')
         /\ VersionsSound'
         /\ \A v \in versions : \E x \in versions' : Kept(v, x) /\ x.extended = v.extended
         /\ \E n \in versions' :
              /\ n.worker = w /\ n.object = k /\ n.body = body /\ n.marker = marker
              /\ \A v \in versions : v.id # n.id
              /\ \A x \in versions' : \/ x = n
                                      \/ \E v \in versions : Kept(v, x) /\ x.extended = v.extended
<1> DEFINE older(v) == IF v.worker = w /\ v.object = k THEN [v EXCEPT !.latest = FALSE] ELSE v
           size == Cardinality(VersionsOf(w, k))
           n == [worker |-> w, object |-> k, id |-> <<w, k, size>>, body |-> body,
                 marker |-> marker, latest |-> TRUE, extended |-> 0]
<1>1. versions' = {older(v) : v \in versions} \cup {n}
  BY DEF WithVersion
<1>2. size \in Nat
  BY VersionsFinite
<1>3. n \in Version
  BY <1>2 DEF Version, Ids
<1>4. \A v \in versions : /\ older(v) \in Version /\ Kept(v, older(v))
                          /\ older(v).extended = v.extended
                          /\ (v.worker = w /\ v.object = k) => ~ older(v).latest
                          /\ ~ (v.worker = w /\ v.object = k) => older(v) = v
  BY DEF AuthorityTypeOK, Version, Kept
<1>5. versions' \subseteq Version
  BY <1>1, <1>3, <1>4
<1>6. \A u, v \in versions : older(u).id = older(v).id => u = v
  BY <1>4 DEF VersionsSound, Kept
<1>7. /\ n.worker = w /\ n.object = k /\ n.body = body /\ n.marker = marker /\ n.latest
      /\ n.id = <<w, k, size>>
  OBVIOUS
<1> HIDE DEF older, n
<1>8. IsFiniteSet(versions')
  <2> DEFINE g == [v \in versions |-> older(v)]
  <2>1. \A u, v \in versions : g[u] = g[v] => u = v
    BY <1>6
  <2>2. {g[v] : v \in versions} = {older(v) : v \in versions}
    OBVIOUS
  <2>3. IsFiniteSet({g[v] : v \in versions})
    <3> HIDE DEF g
    <3>1. QED
      BY <2>1, SameSize DEF AuthorityTypeOK
  <2>4. QED
    BY <1>1, <2>2, <2>3, FS_AddElement
<1>9. \A v \in versions : v.id # n.id
  <2>1. SUFFICES ASSUME NEW v \in versions, v.id = n.id PROVE FALSE
    OBVIOUS
  <2>2. v.id = <<v.worker, v.object, v.id[3]>> /\ v.id[3] < Cardinality(VersionsOf(v.worker, v.object))
    BY DEF VersionsSound
  <2>3. v.worker = w /\ v.object = k /\ v.id[3] = size
    BY <1>7, <2>1, <2>2
  <2>4. QED
    BY <1>2, <2>2, <2>3
<1>10. \A x \in versions' : x = n \/ \E v \in versions : x = older(v)
  BY <1>1
<1>11. \A v \in versions : older(v) \in versions'
  BY <1>1
<1>12. n \in versions' /\ n.latest /\ n.worker = w /\ n.object = k
  BY <1>1, <1>7
<1>13. VersionsOf(w, k)' = {older(v) : v \in VersionsOf(w, k)} \cup {n}
  BY <1>1, <1>4, <1>12 DEF VersionsOf, Kept
<1>14. \A u, j : ~ (u = w /\ j = k) => VersionsOf(u, j)' = VersionsOf(u, j)
  BY <1>1, <1>4, <1>12 DEF VersionsOf, Kept
<1>15. Cardinality(VersionsOf(w, k)') = size + 1
  <2> DEFINE g == [v \in VersionsOf(w, k) |-> older(v)]
             T == {g[v] : v \in VersionsOf(w, k)}
  <2>1. \A u, v \in VersionsOf(w, k) : g[u] = g[v] => u = v
    BY <1>6 DEF VersionsOf
  <2>2. IsFiniteSet(T) /\ Cardinality(T) = size
    <3>1. IsFiniteSet(VersionsOf(w, k))
      BY VersionsFinite
    <3> HIDE DEF g
    <3>2. QED
      BY <2>1, <3>1, SameSize
  <2>3. T = {older(v) : v \in VersionsOf(w, k)}
    OBVIOUS
  <2>4. n \notin T
    BY <1>4, <1>9, <2>3 DEF VersionsOf, Kept
  <2>5. VersionsOf(w, k)' = T \cup {n}
    BY <1>13, <2>3
  <2>6. QED
    BY <2>2, <2>4, <2>5, FS_AddElement
<1>16. \A x \in versions' : /\ x.id = <<x.worker, x.object, x.id[3]>>
                            /\ x.id[3] < Cardinality(VersionsOf(x.worker, x.object)')
  <2>1. SUFFICES ASSUME NEW x \in versions'
                 PROVE  /\ x.id = <<x.worker, x.object, x.id[3]>>
                        /\ x.id[3] < Cardinality(VersionsOf(x.worker, x.object)')
    OBVIOUS
  <2>2. CASE x = n
    BY <1>2, <1>7, <1>15, <2>2
  <2>3. CASE \E v \in versions : x = older(v)
    <3>1. PICK v \in versions : x = older(v)
      BY <2>3
    <3>2. x.id = v.id /\ x.worker = v.worker /\ x.object = v.object
      BY <1>4, <3>1 DEF Kept
    <3>3. v.id = <<v.worker, v.object, v.id[3]>> /\ v.id[3] < Cardinality(VersionsOf(v.worker, v.object))
      BY DEF VersionsSound
    <3>4. v.id[3] \in Nat
      BY DEF AuthorityTypeOK, Version, Ids
    <3>5. CASE x.worker = w /\ x.object = k
      BY <1>2, <1>15, <3>2, <3>3, <3>4, <3>5
    <3>6. CASE ~ (x.worker = w /\ x.object = k)
      <4>1. VersionsOf(x.worker, x.object)' = VersionsOf(v.worker, v.object)
        BY <1>14, <3>2, <3>6
      <4>2. QED
        BY <3>2, <3>3, <4>1
    <3>7. QED
      BY <3>5, <3>6
  <2>4. QED
    BY <1>10, <2>2, <2>3
<1>17. \A x, y \in versions' : x.id = y.id => x = y
  BY <1>4, <1>6, <1>9, <1>10 DEF Kept
<1>18. \A x \in versions' : \E u \in VersionsOf(x.worker, x.object)' : u.latest
  <2>1. SUFFICES ASSUME NEW x \in versions'
                 PROVE  \E u \in versions' : /\ u.worker = x.worker /\ u.object = x.object
                                             /\ u.latest
    BY DEF VersionsOf
  <2>2. CASE x.worker = w /\ x.object = k
    BY <1>12, <2>2
  <2>3. CASE ~ (x.worker = w /\ x.object = k)
    <3>1. PICK v \in versions : x = older(v)
      BY <1>10, <1>12, <2>3
    <3>2. x.worker = v.worker /\ x.object = v.object
      BY <1>4, <3>1 DEF Kept
    <3>3. PICK u \in VersionsOf(v.worker, v.object) : u.latest
      BY DEF VersionsSound
    <3>4. u \in versions /\ u.worker = v.worker /\ u.object = v.object
      BY <3>3 DEF VersionsOf
    <3>5. older(u) = u
      BY <1>4, <2>3, <3>2, <3>4
    <3>6. QED
      BY <1>11, <3>2, <3>3, <3>4, <3>5
  <2>4. QED
    BY <2>2, <2>3
<1>19. \A x, y \in versions' :
         x.worker = y.worker /\ x.object = y.object /\ x.latest /\ y.latest => x = y
  <2>1. \A x \in versions' : x.latest /\ x.worker = w /\ x.object = k => x = n
    BY <1>4, <1>10 DEF Kept
  <2>2. \A x \in versions' : ~ (x.worker = w /\ x.object = k) => x \in versions
    BY <1>4, <1>10, <1>12 DEF Kept
  <2>3. QED
    BY <2>1, <2>2 DEF VersionsSound
<1>20. VersionsSound'
  BY <1>16, <1>17, <1>18, <1>19 DEF VersionsSound
<1>21. \A v \in versions : \E x \in versions' : Kept(v, x) /\ x.extended = v.extended
  BY <1>4, <1>11
<1>22. \A x \in versions' : x = n \/ \E v \in versions : Kept(v, x) /\ x.extended = v.extended
  BY <1>4, <1>10
<1>23. /\ n \in versions' /\ n.worker = w /\ n.object = k /\ n.body = body /\ n.marker = marker
       /\ \A v \in versions : v.id # n.id
  BY <1>7, <1>9, <1>12
<1>24. QED
  BY <1>5, <1>8, <1>20, <1>21, <1>22, <1>23

\* The lock of a version is extended: it stays, and so do the others.
LEMMA VersionExtended ==
  ASSUME AuthorityTypeOK, VersionsSound, NEW e \in versions,
         versions' = (versions \ {e}) \cup {[e EXCEPT !.extended = @ + 1]}
  PROVE  /\ versions' \subseteq Version /\ IsFiniteSet(versions')
         /\ VersionsSound'
         /\ \A v \in versions : \E x \in versions' :
              Kept(v, x) /\ x.extended = IF v = e THEN v.extended + 1 ELSE v.extended
         /\ \A x \in versions' : \E v \in versions :
              Kept(v, x) /\ x.extended = IF v = e THEN v.extended + 1 ELSE v.extended
<1> DEFINE later(v) == IF v = e THEN [e EXCEPT !.extended = @ + 1] ELSE v
<1>1. versions' = {later(v) : v \in versions}
  OBVIOUS
<1>2. \A v \in versions : /\ later(v) \in Version /\ Kept(v, later(v))
                          /\ later(v).latest = v.latest
                          /\ later(v).extended = IF v = e THEN v.extended + 1 ELSE v.extended
  BY DEF AuthorityTypeOK, Version, Kept
<1>3. versions' \subseteq Version
  BY <1>1, <1>2
<1>4. IsFiniteSet(versions')
  <2>1. IsFiniteSet(versions \ {e})
    BY FS_RemoveElement DEF AuthorityTypeOK
  <2>2. QED
    BY <2>1, FS_AddElement
<1> HIDE DEF later
<1>5. \A u, v \in versions : later(u).id = later(v).id => u = v
  BY <1>2 DEF VersionsSound, Kept
<1>6. \A w, k : VersionsOf(w, k)' = {later(v) : v \in VersionsOf(w, k)}
  BY <1>1, <1>2 DEF VersionsOf, Kept
<1>7. ASSUME NEW w, NEW k PROVE Cardinality(VersionsOf(w, k)') = Cardinality(VersionsOf(w, k))
  <2> DEFINE g == [v \in VersionsOf(w, k) |-> later(v)]
             T == {g[v] : v \in VersionsOf(w, k)}
  <2>1. \A u, v \in VersionsOf(w, k) : g[u] = g[v] => u = v
    BY <1>5 DEF VersionsOf
  <2>2. T = {later(v) : v \in VersionsOf(w, k)}
    OBVIOUS
  <2>3. IsFiniteSet(VersionsOf(w, k))
    BY VersionsFinite
  <2>4. Cardinality(T) = Cardinality(VersionsOf(w, k))
    <3> HIDE DEF g
    <3>1. QED
      BY <2>1, <2>3, SameSize
  <2>5. QED
    BY <1>6, <2>2, <2>4
<1>8. \A x \in versions' : /\ x.id = <<x.worker, x.object, x.id[3]>>
                           /\ x.id[3] < Cardinality(VersionsOf(x.worker, x.object)')
  BY <1>1, <1>2, <1>7 DEF VersionsSound, Kept
<1>9. \A x, y \in versions' : x.id = y.id => x = y
  BY <1>1, <1>5
<1>10. \A x \in versions' : \E u \in VersionsOf(x.worker, x.object)' : u.latest
  <2>1. SUFFICES ASSUME NEW v \in versions
                 PROVE  \E u \in VersionsOf(v.worker, v.object)' : u.latest
    BY <1>1, <1>2 DEF Kept
  <2>2. PICK u \in VersionsOf(v.worker, v.object) : u.latest
    BY DEF VersionsSound
  <2>3. u \in versions /\ u.worker = v.worker /\ u.object = v.object
    BY <2>2 DEF VersionsOf
  <2>4. PICK x : x = later(u)
    OBVIOUS
  <2>5. x \in versions' /\ x.worker = v.worker /\ x.object = v.object /\ x.latest
    BY <1>1, <1>2, <2>2, <2>3, <2>4 DEF Kept
  <2>6. QED
    BY <2>5 DEF VersionsOf
<1>11. \A x, y \in versions' :
         x.worker = y.worker /\ x.object = y.object /\ x.latest /\ y.latest => x = y
  BY <1>1, <1>2 DEF VersionsSound, Kept
<1>12. VersionsSound'
  BY <1>8, <1>9, <1>10, <1>11 DEF VersionsSound
<1>13. QED
  BY <1>1, <1>2, <1>3, <1>4, <1>12

-----------------------------------------------------------------------------
(* What spoils a set. *)

\* A spoilt version stays so when another is added, whoever writes it.
LEMMA SpoilsStay ==
  ASSUME NEW v \in versions, Spoils(v), UNCHANGED journal, VersionsSound,
         \A u \in versions : \E x \in versions' : Kept(u, x),
         NEW y \in versions', Kept(v, y), y.extended = v.extended
  PROVE  Spoils(y)'
<1>1. y.worker = v.worker /\ y.object = v.object /\ y.body = v.body /\ y.marker = v.marker
  BY DEF Kept
<1>2. CASE \E u \in VersionsOf(v.worker, v.object) : u # v
  <2>1. PICK u \in versions : u.worker = v.worker /\ u.object = v.object /\ u # v
    BY <1>2 DEF VersionsOf
  <2>2. PICK x \in versions' : Kept(u, x)
    OBVIOUS
  <2>3. x # y
    BY <2>1, <2>2 DEF Kept, VersionsSound
  <2>4. x \in VersionsOf(y.worker, y.object)'
    BY <1>1, <2>1, <2>2 DEF Kept, VersionsOf
  <2>5. QED
    BY <2>3, <2>4 DEF Spoils
<1>3. CASE ~ \E u \in VersionsOf(v.worker, v.object) : u # v
  BY <1>1, <1>3 DEF Spoils
<1>4. QED
  BY <1>2, <1>3

\* A version that is alone in its key, as it was before, is no more spoilt than it was.
LEMMA SpoiltBefore ==
  ASSUME NEW v \in versions, UNCHANGED journal,
         NEW y \in versions', Kept(v, y), y.extended = v.extended, Spoils(y)',
         \A x \in VersionsOf(y.worker, y.object)' : x = y
  PROVE  Spoils(v)
BY DEF Spoils, Kept

\* An extension spoils a version that was confirmed, and no other.
LEMMA SpoilsByExtension ==
  ASSUME AuthorityTypeOK, VersionsSound, ObjectsSound, UNCHANGED journal, NEW e \in versions,
         \A v \in versions : \E x \in versions' :
           Kept(v, x) /\ x.extended = IF v = e THEN v.extended + 1 ELSE v.extended,
         \A x \in versions' : \E v \in versions :
           Kept(v, x) /\ x.extended = IF v = e THEN v.extended + 1 ELSE v.extended,
         VersionsSound',
         NEW v \in versions, NEW y \in versions', Kept(v, y),
         y.extended = IF v = e THEN v.extended + 1 ELSE v.extended
  PROVE  Spoils(y)' <=> Spoils(v) \/ (v = e /\ v.object \in DOMAIN journal[v.worker].objects)
<1> DEFINE others == \E u \in VersionsOf(v.worker, v.object) : u # v
           confirmed == v.object \in DOMAIN journal[v.worker].objects
           then == journal[v.worker].objects[v.object].extended
<1>1. /\ y.worker = v.worker /\ y.object = v.object /\ y.body = v.body /\ y.marker = v.marker
      /\ journal' = journal
  BY DEF Kept
<1>2. (\E u \in VersionsOf(y.worker, y.object)' : u # y) <=> others
  <2>1. ASSUME others PROVE \E u \in VersionsOf(y.worker, y.object)' : u # y
    <3>1. PICK u \in versions : u.worker = v.worker /\ u.object = v.object /\ u # v
      BY <2>1 DEF VersionsOf
    <3>2. PICK x \in versions' : Kept(u, x)
      OBVIOUS
    <3>3. x # y
      BY <3>1, <3>2 DEF Kept, VersionsSound
    <3>4. QED
      BY <1>1, <3>1, <3>2, <3>3 DEF Kept, VersionsOf
  <2>2. ASSUME \E u \in VersionsOf(y.worker, y.object)' : u # y PROVE others
    <3>1. PICK x \in versions' : x.worker = y.worker /\ x.object = y.object /\ x # y
      BY <2>2 DEF VersionsOf
    <3>2. PICK u \in versions : Kept(u, x)
      OBVIOUS
    <3>3. x.id # y.id
      BY <3>1 DEF VersionsSound
    <3>4. u # v
      BY <3>2, <3>3 DEF Kept
    <3>5. QED
      BY <1>1, <3>1, <3>2, <3>4 DEF Kept, VersionsOf
  <2>3. QED
    BY <2>1, <2>2
<1>3. CASE others
  BY <1>2, <1>3 DEF Spoils
<1>4. CASE ~ others
  <2>1. v.worker \in Workers /\ v.extended \in Nat
    BY DEF AuthorityTypeOK, Version
  <2>2. confirmed => then <= v.extended
    <3>1. SUFFICES ASSUME confirmed PROVE then <= v.extended
      OBVIOUS
    <3>2. PICK u \in VersionsOf(v.worker, v.object) : then <= u.extended
      BY <2>1, <3>1 DEF ObjectsSound
    <3>3. u = v
      BY <1>4, <3>2
    <3>4. QED
      BY <3>2, <3>3
  <2>3. confirmed => then \in Nat
    <3>1. SUFFICES ASSUME confirmed PROVE then \in Nat
      OBVIOUS
    <3>2. journal[v.worker] \in JournalRow
      BY <2>1 DEF AuthorityTypeOK
    <3>3. PICK K \in SUBSET Objects : journal[v.worker].objects \in [K -> [id : Ids, extended : Nat]]
      BY <3>2 DEF JournalRow
    <3>4. QED
      BY <3>1, <3>3
  <2>4. Spoils(y)' <=> \/ v.object = "stranger" \/ v.body # "own" \/ v.marker
                       \/ confirmed /\ y.extended # then
    BY <1>1, <1>2, <1>4 DEF Spoils
  <2>5. Spoils(v) <=> \/ v.object = "stranger" \/ v.body # "own" \/ v.marker
                      \/ confirmed /\ v.extended # then
    BY <1>4 DEF Spoils
  <2>6. v = e /\ confirmed => y.extended # then
    BY <2>1, <2>2, <2>3
  <2>7. v # e => y.extended = v.extended
    OBVIOUS
  <2> HIDE DEF confirmed, then
  <2>8. QED
    BY <2>4, <2>5, <2>6, <2>7 DEF confirmed
<1>5. QED
  BY <1>3, <1>4

-----------------------------------------------------------------------------
(* The steps. *)

\* The types that are made of the payloads are the same ever after.
LEMMA TypesSame ==
  ASSUME UNCHANGED request
  PROVE  JournalRow' = JournalRow /\ Minted' = Minted /\ \A w : Payload(w)' = Payload(w)
<1>1. \A w : Payload(w)' = Payload(w)
  BY DEF Payload
<1>2. QED
  BY <1>1 DEF JournalRow, Minted

\* What a resolution has read stands, as long as nothing confirmed or spoilt is undone.
LEMMA SourcesStay ==
  ASSUME AuthorityInv, UNCHANGED <<request, sources>>,
         \A w \in Workers : journal[w].state = "CONFIRMED" => journal'[w].state = "CONFIRMED",
         disturbed \subseteq disturbed', reviewed' => reviewed,
         \A w \in Workers : ComponentsSpoilt(w) => ComponentsSpoilt(w)'
  PROVE  SourcesSound' /\ FailsForCause' /\ ResolvedWasExact'
<1>1. \A c \in Resolvers : sources[c].pc # "idle" => sources[c].worker \in Workers
  BY DEF AuthorityInv, AuthorityTypeOK, Source, Idle
<1>2. SourcesSound'
  BY <1>1 DEF AuthorityInv, SourcesSound
<1>3. FailsForCause'
  BY DEF AuthorityInv, FailsForCause
<1>4. ResolvedWasExact'
  BY DEF AuthorityInv, ResolvedWasExact
<1>5. QED
  BY <1>2, <1>3, <1>4

\* So does what was minted.
LEMMA MintedStay ==
  ASSUME AuthorityInv, UNCHANGED <<request, minted>>,
         \A w \in Workers : journal[w].state = "CONFIRMED" => journal'[w].state = "CONFIRMED"
  PROVE  MintedSound'
<1>1. \A m \in minted : m.journal \in Workers
  BY DEF AuthorityInv, AuthorityTypeOK, Minted
<1>2. \A w : Payload(w)' = Payload(w)
  BY DEF Payload
<1>3. QED
  BY <1>1, <1>2 DEF AuthorityInv, MintedSound

\* Where the bucket and the journals stay, so does all that is said of them.
LEMMA TablesStay ==
  ASSUME AuthorityInv, UNCHANGED <<request, journal, versions, disturbed>>
  PROVE  /\ RoundTrip' /\ SetsSound' /\ VersionsSound' /\ ObjectsSound' /\ DisturbedSound'
         /\ \A w : ComponentsSpoilt(w)' = ComponentsSpoilt(w)
<1>1. \A w : Payload(w)' = Payload(w)
  BY DEF Payload
<1>2. \A w, k : VersionsOf(w, k)' = VersionsOf(w, k)
  BY DEF VersionsOf
<1>3. \A v : Spoils(v)' = Spoils(v)
  BY <1>2 DEF Spoils
<1>4. RoundTrip'
  BY DEF AuthorityInv, RoundTrip
<1>5. SetsSound'
  BY <1>1 DEF AuthorityInv, SetsSound
<1>6. VersionsSound'
  BY <1>2 DEF AuthorityInv, VersionsSound
<1>7. ObjectsSound'
  BY <1>2 DEF AuthorityInv, ObjectsSound
<1>8. DisturbedSound'
  BY <1>3 DEF AuthorityInv, DisturbedSound, Spoilt
<1>9. \A w : ComponentsSpoilt(w)' = ComponentsSpoilt(w)
  BY <1>3 DEF ComponentsSpoilt
<1>10. QED
  BY <1>4, <1>5, <1>6, <1>7, <1>8, <1>9

\* A redeployment or a reconfiguration touches no set.
LEMMA OutsideKeeps ==
  ASSUME AuthorityInv, Redeploy \/ Reconfigure
  PROVE  AuthorityInv'
<1>1. /\ UNCHANGED <<request, journal, versions, sources, minted, disturbed>>
      /\ reviewed' => reviewed
  BY DEF Redeploy, Reconfigure, Fault
<1>2. AuthorityTypeOK'
  <2>1. faults' \in Nat
    BY DEF AuthorityInv, AuthorityTypeOK, Redeploy, Reconfigure, Fault
  <2>3. reviewed' \in BOOLEAN
    <3>1. reviewed \in BOOLEAN
      BY DEF AuthorityInv, AuthorityTypeOK
    <3>2. reviewed' = reviewed \/ reviewed' = FALSE
      BY DEF Redeploy, Reconfigure
    <3>3. QED
      BY <3>1, <3>2, Zenon
  <2>2. runtime' \in [worker : Workers, access : Accesses]
    BY DEF AuthorityInv, AuthorityTypeOK, Redeploy, Reconfigure, Fault
  <2>4. QED
    BY <1>1, <2>1, <2>2, <2>3, TypesSame DEF AuthorityInv, AuthorityTypeOK
<1>3. RoundTrip' /\ SetsSound' /\ VersionsSound' /\ ObjectsSound' /\ DisturbedSound'
  BY <1>1, TablesStay
<1>4. SourcesSound' /\ FailsForCause' /\ ResolvedWasExact'
  BY <1>1, TablesStay, SourcesStay
<1>5. MintedSound'
  BY <1>1, MintedStay
<1>6. QED
  BY <1>2, <1>3, <1>4, <1>5 DEF AuthorityInv

\* A judgement accepts whatever provision accepts, once.
LEMMA JudgeKeeps ==
  ASSUME AuthorityInv, NEW w \in Workers, Judge(w)
  PROVE  AuthorityInv'
<1> DEFINE trust == Trust(w, runtime.access)
           parses == RequestParses(Contents[request[w]], trust)
           accepts == Accepts(Payload(w), trust)
<1>0. AuthorityTypeOK
  BY DEF AuthorityInv
<1>1. UNCHANGED <<request, versions, reviewed, runtime, sources, minted, disturbed, faults>>
  BY DEF Judge
<1>2. /\ journal[w].state = "OPEN"
      /\ journal' = [journal EXCEPT ![w] =
           [@ EXCEPT !.state = IF accepts THEN "SEALED" ELSE "REJECTED",
                     !.parsed = parses,
                     !.pins = IF accepts THEN {SemanticPins(Payload(w))} ELSE {}]]
  <2> DEFINE descriptor == Descriptor(w, Payload(w))
             staged == [k \in Kinds |-> Envelope(descriptor, k)]
             accepted == /\ \A k \in Kinds : EnvelopeParses(staged[k], descriptor)
                         /\ Accepts(PayloadSet(staged), trust)
  <2>1. descriptor = DescriptorOf(w)
    BY DEF DescriptorOf
  <2>2. PayloadSet(staged) = Payload(w)
    BY <1>0, <2>1, EnvelopesWhole
  <2>3. \A k \in Kinds : EnvelopeParses(staged[k], descriptor)
    BY <1>0, <2>1, EnvelopesWhole
  <2>4. accepted <=> accepts
    BY <2>2, <2>3
  <2>5. /\ journal[w].state = "OPEN"
        /\ journal' = [journal EXCEPT ![w] =
             [@ EXCEPT !.state = IF accepted THEN "SEALED" ELSE "REJECTED",
                       !.parsed = parses,
                       !.pins = IF accepted THEN {SemanticPins(Payload(w))} ELSE {}]]
    BY DEF Judge, Trust
  <2> HIDE DEF accepted, accepts
  <2>6. QED
    BY <2>4, <2>5
<1>3. parses => accepts /\ Restored(Payload(w)) = Contents[request[w]]
  BY <1>0, PayloadIs, AcceptedAgain, GivenBack
<1> HIDE DEF parses, accepts
<1>4. \A u \in Workers : u # w => journal'[u] = journal[u]
  BY <1>0, <1>2 DEF AuthorityTypeOK
<1>5. /\ journal'[w].state = IF accepts THEN "SEALED" ELSE "REJECTED"
      /\ journal'[w].parsed = parses
      /\ journal'[w].objects = journal[w].objects
      /\ journal'[w] \in JournalRow
  <2>1. journal[w] \in JournalRow /\ DOMAIN journal = Workers
    BY <1>0 DEF AuthorityTypeOK
  <2>2. (IF accepts THEN {SemanticPins(Payload(w))} ELSE {}) \in
          SUBSET {SemanticPins(Payload(u)) : u \in Workers}
    OBVIOUS
  <2>3. parses \in BOOLEAN
    BY DEF parses, RequestParses
  <2>4. QED
    BY <1>2, <2>1, <2>2, <2>3 DEF JournalRow
<1>6. \A u : Payload(u)' = Payload(u) /\ \A k : VersionsOf(u, k)' = VersionsOf(u, k)
  BY <1>1 DEF Payload, VersionsOf
<1>7. AuthorityTypeOK'
  <2>1. journal' \in [Workers -> JournalRow]
    BY <1>0, <1>2, <1>4, <1>5 DEF AuthorityTypeOK
  <2>2. QED
    BY <1>0, <1>1, <2>1, TypesSame DEF AuthorityTypeOK
<1>8. RoundTrip'
  <2>1. \A u \in Workers : u # w => (journal'[u].parsed =>
          journal'[u].state # "REJECTED" /\ Reconstructed[request'[u]] = Contents[request'[u]])
    BY <1>1, <1>4 DEF AuthorityInv, RoundTrip
  <2>2. journal'[w].parsed =>
          journal'[w].state # "REJECTED" /\ Reconstructed[request'[w]] = Contents[request'[w]]
    BY <1>0, <1>1, <1>3, <1>5, PayloadIs
  <2>3. QED
    BY <2>1, <2>2 DEF RoundTrip
<1>9. SetsSound'
  <2>1. runtime.access \in Accesses
    BY <1>0 DEF AuthorityTypeOK
  <2>2. accepts => Accepts(Payload(w), Trust(w, runtime.access))
    BY DEF accepts
  <2>3. DOMAIN journal[w].objects = {}
    BY <1>2 DEF AuthorityInv, SetsSound
  <2>4. \A u \in Workers : u # w =>
          /\ journal'[u].state = "OPEN" => ~ journal'[u].parsed
          /\ journal'[u].state \in {"SEALED", "CONFIRMED"} =>
               \E access \in Accesses : Accepts(Payload(u), Trust(u, access))
          /\ journal'[u].state \in {"OPEN", "REJECTED"} => DOMAIN journal'[u].objects = {}
          /\ journal'[u].state = "CONFIRMED" => DOMAIN journal'[u].objects = Objects
    BY <1>4 DEF AuthorityInv, SetsSound
  <2>5. /\ journal'[w].state = "OPEN" => ~ journal'[w].parsed
        /\ journal'[w].state \in {"SEALED", "CONFIRMED"} =>
             \E access \in Accesses : Accepts(Payload(w), Trust(w, access))
        /\ journal'[w].state \in {"OPEN", "REJECTED"} => DOMAIN journal'[w].objects = {}
        /\ journal'[w].state = "CONFIRMED" => DOMAIN journal'[w].objects = Objects
    BY <1>5, <2>1, <2>2, <2>3
  <2>6. QED
    BY <1>6, <2>4, <2>5 DEF SetsSound
<1>10. \A u \in Workers : journal'[u].objects = journal[u].objects
  BY <1>4, <1>5
<1>11. VersionsSound' /\ ObjectsSound'
  BY <1>1, <1>6, <1>10 DEF AuthorityInv, VersionsSound, ObjectsSound
<1>12. \A v \in versions : Spoils(v)' <=> Spoils(v)
  <2>1. \A v \in versions : v.worker \in Workers
    BY <1>0 DEF AuthorityTypeOK, Version
  <2>2. QED
    BY <1>6, <1>10, <2>1 DEF Spoils
<1>13. DisturbedSound' /\ \A u : ComponentsSpoilt(u)' <=> ComponentsSpoilt(u)
  BY <1>1, <1>12 DEF AuthorityInv, DisturbedSound, Spoilt, ComponentsSpoilt
<1>14. \A u \in Workers : journal[u].state = "CONFIRMED" => journal'[u].state = "CONFIRMED"
  BY <1>2, <1>4
<1>15. SourcesSound' /\ FailsForCause' /\ ResolvedWasExact' /\ MintedSound'
  BY <1>1, <1>13, <1>14, SourcesStay, MintedStay
<1>16. QED
  BY <1>7, <1>8, <1>9, <1>11, <1>13, <1>15 DEF AuthorityInv

\* What a version that is added does to the sets, if it spoils those that it disturbs.
LEMMA AddedKeeps ==
  ASSUME AuthorityInv,
         NEW w \in Workers, NEW k \in Objects \cup {"stranger"}, NEW body \in {"own", "other"},
         NEW marker \in BOOLEAN,
         versions' = WithVersion(w, k, body, marker),
         UNCHANGED <<request, journal, sources, minted>>,
         reviewed' => reviewed,
         k = "manifest" /\ body = "own" => Kinds \subseteq DOMAIN journal[w].objects,
         disturbed \subseteq disturbed', disturbed' \subseteq disturbed \cup {w},
         w \in disturbed' /\ w \notin disturbed =>
           \/ k = "stranger" \/ body # "own" \/ marker \/ VersionsOf(w, k) # {},
         w \notin disturbed' =>
           /\ k # "stranger" /\ body = "own" /\ ~ marker /\ VersionsOf(w, k) = {}
           /\ k \notin DOMAIN journal[w].objects
  PROVE  /\ versions' \subseteq Version /\ IsFiniteSet(versions')
         /\ RoundTrip' /\ SetsSound' /\ VersionsSound' /\ ObjectsSound' /\ DisturbedSound'
         /\ SourcesSound' /\ FailsForCause' /\ ResolvedWasExact' /\ MintedSound'
<1>0. AuthorityTypeOK /\ VersionsSound /\ ObjectsSound /\ DisturbedSound
  BY DEF AuthorityInv
<1>1. /\ versions' \subseteq Version /\ IsFiniteSet(versions') /\ VersionsSound'
      /\ \A v \in versions : \E x \in versions' : Kept(v, x) /\ x.extended = v.extended
  BY <1>0, VersionAdded
<1>2. PICK n \in versions' :
        /\ n.worker = w /\ n.object = k /\ n.body = body /\ n.marker = marker
        /\ \A v \in versions : v.id # n.id
        /\ \A x \in versions' : \/ x = n
                                \/ \E v \in versions : Kept(v, x) /\ x.extended = v.extended
  BY <1>0, VersionAdded
<1>3. RoundTrip' /\ SetsSound'
  BY TypesSame DEF AuthorityInv, RoundTrip, SetsSound
<1>4. ObjectsSound'
  <2>1. \A u \in Workers : \A j \in DOMAIN journal'[u].objects :
          \E x \in VersionsOf(u, j)' : /\ x.id = journal'[u].objects[j].id
                                      /\ journal'[u].objects[j].extended <= x.extended
    <3>1. SUFFICES ASSUME NEW u \in Workers, NEW j \in DOMAIN journal[u].objects
                   PROVE  \E x \in VersionsOf(u, j)' : /\ x.id = journal[u].objects[j].id
                                                      /\ journal[u].objects[j].extended <= x.extended
      OBVIOUS
    <3>2. PICK v \in VersionsOf(u, j) : /\ v.id = journal[u].objects[j].id
                                       /\ journal[u].objects[j].extended <= v.extended
      BY <1>0 DEF ObjectsSound
    <3>3. v \in versions /\ v.worker = u /\ v.object = j
      BY <3>2 DEF VersionsOf
    <3>4. PICK x \in versions' : Kept(v, x) /\ x.extended = v.extended
      BY <1>1, <3>3
    <3>5. x \in VersionsOf(u, j)'
      BY <3>3, <3>4 DEF VersionsOf, Kept
    <3>6. QED
      BY <3>2, <3>4, <3>5 DEF Kept
  <2>2. \A u \in Workers : \A x \in VersionsOf(u, "manifest")' :
          x.body = "own" => Kinds \subseteq DOMAIN journal'[u].objects
    <3>1. SUFFICES ASSUME NEW u \in Workers, NEW x \in versions', x.worker = u,
                          x.object = "manifest", x.body = "own"
                   PROVE  Kinds \subseteq DOMAIN journal[u].objects
      BY DEF VersionsOf
    <3>2. CASE x = n
      BY <1>2, <3>1, <3>2
    <3>3. CASE x # n
      <4>1. PICK v \in versions : Kept(v, x)
        BY <1>2, <3>3
      <4>2. v \in VersionsOf(u, "manifest") /\ v.body = "own"
        BY <3>1, <4>1 DEF Kept, VersionsOf
      <4>3. QED
        BY <1>0, <4>2 DEF ObjectsSound
    <3>4. QED
      BY <3>2, <3>3
  <2>3. QED
    BY <2>1, <2>2 DEF ObjectsSound
<1>5. \A v \in versions : Spoils(v) =>
        \E x \in versions' : x.worker = v.worker /\ x.object = v.object /\ Spoils(x)'
  <2>1. SUFFICES ASSUME NEW v \in versions, Spoils(v)
                 PROVE  \E x \in versions' : /\ x.worker = v.worker /\ x.object = v.object
                                             /\ Spoils(x)'
    OBVIOUS
  <2>2. PICK x \in versions' : Kept(v, x) /\ x.extended = v.extended
    BY <1>1
  <2>3. Spoils(x)'
    BY <1>0, <1>1, <2>1, <2>2, SpoilsStay
  <2>4. QED
    BY <2>2, <2>3 DEF Kept
<1>6. DisturbedSound'
  <2>1. ASSUME NEW u \in Workers, u \in disturbed' PROVE Spoilt(u)'
    <3>1. CASE u \in disturbed
      BY <1>0, <1>5, <3>1 DEF DisturbedSound, Spoilt
    <3>2. CASE u \notin disturbed
      <4>1. /\ u = w
            /\ k = "stranger" \/ body # "own" \/ marker \/ VersionsOf(w, k) # {}
        BY <2>1, <3>2
      <4>2. VersionsOf(w, k) # {} => \E x \in VersionsOf(n.worker, n.object)' : x # n
        <5>1. SUFFICES ASSUME NEW v \in VersionsOf(w, k)
                       PROVE  \E x \in VersionsOf(n.worker, n.object)' : x # n
          OBVIOUS
        <5>2. v \in versions /\ v.worker = w /\ v.object = k
          BY <5>1 DEF VersionsOf
        <5>3. PICK x \in versions' : Kept(v, x)
          BY <1>1, <5>2
        <5>4. x # n /\ x.worker = n.worker /\ x.object = n.object
          BY <1>2, <5>2, <5>3 DEF Kept
        <5>5. QED
          BY <5>4 DEF VersionsOf
      <4>3. Spoils(n)'
        BY <1>2, <4>1, <4>2 DEF Spoils
      <4>4. QED
        BY <1>2, <4>1, <4>3 DEF Spoilt
    <3>3. QED
      BY <3>1, <3>2
  <2>2. ASSUME NEW u \in Workers, u \notin disturbed', NEW x \in versions', x.worker = u,
               Spoils(x)'
        PROVE  FALSE
    <3>1. u \notin disturbed /\ \A v \in versions : v.worker = u => ~ Spoils(v)
      BY <1>0, <2>2 DEF DisturbedSound, Spoilt
    <3>2. \A v \in versions : v.worker = u => \A y \in VersionsOf(v.worker, v.object) : y = v
      BY <3>1 DEF Spoils
    <3>3. CASE x = n
      <4>1. /\ u = w /\ k # "stranger" /\ body = "own" /\ ~ marker /\ VersionsOf(w, k) = {}
            /\ k \notin DOMAIN journal[w].objects
        BY <1>2, <2>2, <3>3
      <4>2. \A y \in VersionsOf(x.worker, x.object)' : y = x
        <5>1. SUFFICES ASSUME NEW y \in versions', y.worker = w, y.object = k, y # n PROVE FALSE
          BY <1>2, <3>3 DEF VersionsOf
        <5>2. PICK v \in versions : Kept(v, y)
          BY <1>2, <5>1
        <5>3. v \in VersionsOf(w, k)
          BY <5>1, <5>2 DEF Kept, VersionsOf
        <5>4. QED
          BY <4>1, <5>3
      <4>3. QED
        BY <1>2, <2>2, <3>3, <4>1, <4>2 DEF Spoils
    <3>4. CASE x # n
      <4>1. PICK v \in versions : Kept(v, x) /\ x.extended = v.extended
        BY <1>2, <3>4
      <4>2. v.worker = u /\ v.object = x.object
        BY <2>2, <4>1 DEF Kept
      <4>3. \A y \in VersionsOf(x.worker, x.object)' : y = x
        <5>1. SUFFICES ASSUME NEW y \in versions', y.worker = u, y.object = x.object
                       PROVE  y = x
          BY <2>2 DEF VersionsOf
        <5>2. CASE y = n
          <6>1. u = w /\ x.object = k /\ VersionsOf(w, k) = {}
            BY <1>2, <2>2, <5>1, <5>2
          <6>2. v \in VersionsOf(w, k)
            BY <4>2, <6>1 DEF VersionsOf
          <6>3. QED
            BY <6>1, <6>2
        <5>3. CASE y # n
          <6>1. PICK z \in versions : Kept(z, y)
            BY <1>2, <5>3
          <6>2. z \in VersionsOf(v.worker, v.object)
            BY <4>2, <5>1, <6>1 DEF Kept, VersionsOf
          <6>3. z = v
            BY <3>2, <4>2, <6>2
          <6>4. y.id = x.id
            BY <4>1, <6>1, <6>3 DEF Kept
          <6>5. QED
            BY <1>1, <6>4 DEF VersionsSound
        <5>4. QED
          BY <5>2, <5>3
      <4>4. Spoils(v)
        BY <2>2, <4>1, <4>3, SpoiltBefore
      <4>5. QED
        BY <3>1, <4>2, <4>4
    <3>5. QED
      BY <3>3, <3>4
  <2>3. QED
    BY <2>1, <2>2 DEF DisturbedSound, Spoilt
<1>7. \A u \in Workers : ComponentsSpoilt(u) => ComponentsSpoilt(u)'
  BY <1>5 DEF ComponentsSpoilt
<1>8. SourcesSound' /\ FailsForCause' /\ ResolvedWasExact' /\ MintedSound'
  BY <1>7, SourcesStay, MintedStay
<1>9. QED
  BY <1>1, <1>3, <1>4, <1>6, <1>8

\* An upload spoils no set.
LEMMA UploadKeeps ==
  ASSUME AuthorityInv, NEW w \in Workers, NEW k \in Objects, Upload(w, k)
  PROVE  AuthorityInv'
<1>1. /\ k \in Objects \ DOMAIN journal[w].objects
      /\ k = "manifest" => Kinds \subseteq DOMAIN journal[w].objects
      /\ \A v \in VersionsOf(w, k) : v.body # "own"
      /\ versions' = WithVersion(w, k, "own", FALSE)
      /\ UNCHANGED <<request, journal, reviewed, runtime, sources, minted, disturbed, faults>>
  BY DEF Upload
<1>2. k # "stranger"
  BY KindsAssumption DEF Objects
<1>3. w \notin disturbed => VersionsOf(w, k) = {}
  <2>1. SUFFICES ASSUME w \notin disturbed, NEW v \in VersionsOf(w, k) PROVE FALSE
    OBVIOUS
  <2>2. v \in versions /\ v.worker = w /\ v.body # "own"
    BY <1>1, <2>1 DEF VersionsOf
  <2>3. QED
    BY <2>1, <2>2 DEF AuthorityInv, DisturbedSound, Spoilt, Spoils
<1>4. /\ versions' \subseteq Version /\ IsFiniteSet(versions')
      /\ RoundTrip' /\ SetsSound' /\ VersionsSound' /\ ObjectsSound' /\ DisturbedSound'
      /\ SourcesSound' /\ FailsForCause' /\ ResolvedWasExact' /\ MintedSound'
  BY <1>1, <1>2, <1>3, AddedKeeps
<1>5. AuthorityTypeOK'
  BY <1>1, <1>4, TypesSame DEF AuthorityInv, AuthorityTypeOK
<1>6. QED
  BY <1>4, <1>5 DEF AuthorityInv

\* A disturbance spoils the set of its worker.
LEMMA DisturbKeeps ==
  ASSUME AuthorityInv, NEW w \in Workers, Disturb(w)
  PROVE  AuthorityInv'
<1>1. PICK k \in Objects \cup {"stranger"}, body \in {"own", "other"}, marker \in BOOLEAN :
        /\ body = "own" => ~ marker /\ \E v \in VersionsOf(w, k) : v.body = "own"
        /\ versions' = WithVersion(w, k, body, marker)
  BY DEF Disturb
<1>2. /\ UNCHANGED <<request, journal, reviewed, runtime, sources, minted>>
      /\ disturbed' = disturbed \cup {w} /\ faults' = faults + 1
  BY DEF Disturb, Fault
<1>3. k = "manifest" /\ body = "own" => Kinds \subseteq DOMAIN journal[w].objects
  BY <1>1 DEF AuthorityInv, ObjectsSound
<1>4. body # "own" \/ VersionsOf(w, k) # {}
  BY <1>1
<1>5. /\ versions' \subseteq Version /\ IsFiniteSet(versions')
      /\ RoundTrip' /\ SetsSound' /\ VersionsSound' /\ ObjectsSound' /\ DisturbedSound'
      /\ SourcesSound' /\ FailsForCause' /\ ResolvedWasExact' /\ MintedSound'
  BY <1>1, <1>2, <1>3, <1>4, AddedKeeps
<1>6. AuthorityTypeOK'
  BY <1>2, <1>5, TypesSame DEF AuthorityInv, AuthorityTypeOK
<1>7. QED
  BY <1>5, <1>6 DEF AuthorityInv

\* An extension spoils a set of which the version was confirmed.
LEMMA ExtendKeeps ==
  ASSUME AuthorityInv, Extend
  PROVE  AuthorityInv'
<1>0. AuthorityTypeOK /\ VersionsSound /\ ObjectsSound /\ DisturbedSound
  BY DEF AuthorityInv
<1>1. PICK e \in versions :
        /\ versions' = (versions \ {e}) \cup {[e EXCEPT !.extended = @ + 1]}
        /\ disturbed' = IF e.object \in DOMAIN journal[e.worker].objects
                        THEN disturbed \cup {e.worker} ELSE disturbed
  BY DEF Extend
<1>2. /\ UNCHANGED <<request, journal, reviewed, runtime, sources, minted>> /\ faults' = faults + 1
  BY DEF Extend, Fault
<1>3. /\ versions' \subseteq Version /\ IsFiniteSet(versions')
      /\ VersionsSound'
      /\ \A v \in versions : \E x \in versions' :
           Kept(v, x) /\ x.extended = IF v = e THEN v.extended + 1 ELSE v.extended
      /\ \A x \in versions' : \E v \in versions :
           Kept(v, x) /\ x.extended = IF v = e THEN v.extended + 1 ELSE v.extended
  BY <1>0, <1>1, VersionExtended
<1>4. e.worker \in Workers /\ \A v \in versions : v.extended \in Nat
  BY <1>0 DEF AuthorityTypeOK, Version
<1>5. AuthorityTypeOK'
  BY <1>0, <1>1, <1>2, <1>3, <1>4, TypesSame DEF AuthorityTypeOK
<1>6. RoundTrip' /\ SetsSound'
  BY <1>2, TypesSame DEF AuthorityInv, RoundTrip, SetsSound
<1>7. ObjectsSound'
  <2>1. ASSUME NEW u \in Workers, NEW j \in DOMAIN journal[u].objects
        PROVE  \E x \in VersionsOf(u, j)' : /\ x.id = journal[u].objects[j].id
                                           /\ journal[u].objects[j].extended <= x.extended
    <3>1. PICK v \in versions : /\ v.worker = u /\ v.object = j
                               /\ v.id = journal[u].objects[j].id
                               /\ journal[u].objects[j].extended <= v.extended
      BY <1>0 DEF ObjectsSound, VersionsOf
    <3>2. PICK x \in versions' :
            Kept(v, x) /\ x.extended = IF v = e THEN v.extended + 1 ELSE v.extended
      BY <1>3
    <3>3. journal[u] \in JournalRow
      BY <1>0 DEF AuthorityTypeOK
    <3>4. PICK K \in SUBSET Objects : journal[u].objects \in [K -> [id : Ids, extended : Nat]]
      BY <3>3 DEF JournalRow
    <3>5. journal[u].objects[j].extended \in Nat
      BY <2>1, <3>4
    <3>6. journal[u].objects[j].extended <= x.extended
      BY <1>4, <3>1, <3>2, <3>5
    <3>7. QED
      BY <3>1, <3>2, <3>6 DEF Kept, VersionsOf
  <2>2. ASSUME NEW u \in Workers, NEW x \in versions', x.worker = u, x.object = "manifest",
               x.body = "own"
        PROVE  Kinds \subseteq DOMAIN journal[u].objects
    <3>1. PICK v \in versions : Kept(v, x)
      BY <1>3
    <3>2. QED
      BY <1>0, <2>2, <3>1 DEF Kept, VersionsOf, ObjectsSound
  <2>3. QED
    BY <1>2, <2>1, <2>2 DEF ObjectsSound, VersionsOf
<1>8. ASSUME NEW v \in versions, NEW x \in versions', Kept(v, x),
             x.extended = IF v = e THEN v.extended + 1 ELSE v.extended
      PROVE  Spoils(x)' <=> Spoils(v) \/ (v = e /\ v.object \in DOMAIN journal[v.worker].objects)
  BY <1>0, <1>2, <1>3, <1>8, SpoilsByExtension
<1>9. DisturbedSound'
  <2>1. ASSUME NEW u \in Workers, u \in disturbed' PROVE Spoilt(u)'
    <3>1. PICK v \in versions :
            /\ v.worker = u
            /\ Spoils(v) \/ (v = e /\ v.object \in DOMAIN journal[v.worker].objects)
      BY <1>0, <1>1, <2>1 DEF DisturbedSound, Spoilt
    <3>2. PICK x \in versions' :
            Kept(v, x) /\ x.extended = IF v = e THEN v.extended + 1 ELSE v.extended
      BY <1>3
    <3>3. Spoils(x)' /\ x.worker = u
      BY <1>8, <3>1, <3>2 DEF Kept
    <3>4. QED
      BY <3>3 DEF Spoilt
  <2>2. ASSUME NEW u \in Workers, NEW x \in versions', x.worker = u, Spoils(x)'
        PROVE  u \in disturbed'
    <3>1. PICK v \in versions :
            Kept(v, x) /\ x.extended = IF v = e THEN v.extended + 1 ELSE v.extended
      BY <1>3
    <3>2. /\ v.worker = u
          /\ Spoils(v) \/ (v = e /\ v.object \in DOMAIN journal[v.worker].objects)
      BY <1>8, <2>2, <3>1 DEF Kept
    <3>3. Spoils(v) => u \in disturbed
      BY <1>0, <3>2 DEF DisturbedSound, Spoilt
    <3>4. QED
      BY <1>1, <3>2, <3>3
  <2>3. QED
    BY <2>1, <2>2 DEF DisturbedSound, Spoilt
<1>10. ASSUME NEW u \in Workers, ComponentsSpoilt(u) PROVE ComponentsSpoilt(u)'
  <2>1. PICK v \in versions : v.worker = u /\ v.object # "manifest" /\ Spoils(v)
    BY <1>10 DEF ComponentsSpoilt
  <2>2. PICK x \in versions' :
          Kept(v, x) /\ x.extended = IF v = e THEN v.extended + 1 ELSE v.extended
    BY <1>3
  <2>3. Spoils(x)' /\ x.worker = u /\ x.object # "manifest"
    BY <1>8, <2>1, <2>2 DEF Kept
  <2>4. QED
    BY <2>3 DEF ComponentsSpoilt
<1>11. disturbed \subseteq disturbed'
  BY <1>1
<1>12. SourcesSound' /\ FailsForCause' /\ ResolvedWasExact' /\ MintedSound'
  BY <1>2, <1>10, <1>11, SourcesStay, MintedStay
<1>13. QED
  BY <1>3, <1>5, <1>6, <1>7, <1>9, <1>12 DEF AuthorityInv

\* A confirmation records the only version of its key as it is.
LEMMA ConfirmKeeps ==
  ASSUME AuthorityInv, NEW w \in Workers, NEW k \in Objects, Confirm(w, k)
  PROVE  AuthorityInv'
<1>0. AuthorityTypeOK /\ VersionsSound /\ ObjectsSound /\ DisturbedSound /\ SetsSound
  BY DEF AuthorityInv
<1>1. PICK v \in VersionsOf(w, k) :
        /\ VersionsOf(w, k) = {v}
        /\ v.body = "own"
        /\ ~ v.marker
        /\ journal' = [journal EXCEPT
             ![w].objects = [o \in DOMAIN @ \cup {k} |->
                IF o = k THEN [id |-> v.id, extended |-> v.extended] ELSE @[o]],
             ![w].state = IF k = "manifest" THEN "CONFIRMED" ELSE @]
  BY DEF Confirm
<1>2. /\ journal[w].state = "SEALED" /\ k \notin DOMAIN journal[w].objects
      /\ UNCHANGED <<request, versions, reviewed, runtime, sources, minted, disturbed, faults>>
  BY DEF Confirm
<1>3. v \in versions /\ v.worker = w /\ v.object = k /\ v.id \in Ids /\ v.extended \in Nat
  BY <1>0 DEF VersionsOf, AuthorityTypeOK, Version
<1>4. journal[w] \in JournalRow /\ DOMAIN journal = Workers
  BY <1>0 DEF AuthorityTypeOK
<1>5. PICK K \in SUBSET Objects : journal[w].objects \in [K -> [id : Ids, extended : Nat]]
  BY <1>4 DEF JournalRow
<1> DEFINE objects == [o \in DOMAIN journal[w].objects \cup {k} |->
                         IF o = k THEN [id |-> v.id, extended |-> v.extended]
                         ELSE journal[w].objects[o]]
<1>6. /\ journal'[w].objects = objects
      /\ journal'[w].state = IF k = "manifest" THEN "CONFIRMED" ELSE "SEALED"
      /\ journal'[w].parsed = journal[w].parsed
      /\ journal'[w].pins = journal[w].pins
      /\ \A u \in Workers : u # w => journal'[u] = journal[u]
      /\ DOMAIN journal' = Workers
      /\ journal'[w] = [state |-> journal'[w].state, parsed |-> journal[w].parsed,
                        pins |-> journal[w].pins, objects |-> objects]
  BY <1>1, <1>2, <1>4 DEF JournalRow
<1>7. /\ objects \in [K \cup {k} -> [id : Ids, extended : Nat]] /\ K \cup {k} \subseteq Objects
      /\ DOMAIN objects = DOMAIN journal[w].objects \cup {k}
      /\ objects[k] = [id |-> v.id, extended |-> v.extended]
      /\ \A o \in DOMAIN journal[w].objects : objects[o] = journal[w].objects[o]
  BY <1>2, <1>3, <1>5
<1> HIDE DEF objects
<1>8. AuthorityTypeOK'
  <2>1. journal'[w] \in JournalRow
    BY <1>4, <1>6, <1>7 DEF JournalRow
  <2>2. journal' \in [Workers -> JournalRow]
    <3>1. \A u \in Workers : journal'[u] \in JournalRow
      BY <1>0, <1>6, <2>1 DEF AuthorityTypeOK
    <3>2. journal' = [u \in Workers |-> journal'[u]]
      BY <1>1, <1>4
    <3>3. QED
      BY <3>1, <3>2
  <2>3. QED
    BY <1>0, <1>2, <2>2, TypesSame DEF AuthorityTypeOK
<1>9. RoundTrip'
  BY <1>2, <1>6 DEF AuthorityInv, RoundTrip
<1>10. SetsSound'
  <2>1. ASSUME k = "manifest" PROVE DOMAIN objects = Objects
    <3>1. Kinds \subseteq DOMAIN journal[w].objects
      BY <1>0, <1>1, <2>1 DEF ObjectsSound
    <3>2. DOMAIN journal[w].objects \subseteq Objects
      BY <1>5
    <3>3. QED
      BY <1>7, <2>1, <3>1, <3>2 DEF Objects
  <2>2. \E access \in Accesses : Accepts(Payload(w), Trust(w, access))
    BY <1>0, <1>2 DEF SetsSound
  <2>3. \A u : Payload(u)' = Payload(u)
    BY <1>2, TypesSame
  <2>4. /\ journal'[w].state = "OPEN" => ~ journal'[w].parsed
        /\ journal'[w].state \in {"SEALED", "CONFIRMED"} =>
             \E access \in Accesses : Accepts(Payload(w)', Trust(w, access))
        /\ journal'[w].state \in {"OPEN", "REJECTED"} => DOMAIN journal'[w].objects = {}
        /\ journal'[w].state = "CONFIRMED" => DOMAIN journal'[w].objects = Objects
    BY <1>6, <2>1, <2>2, <2>3
  <2>5. QED
    BY <1>0, <1>6, <2>3, <2>4 DEF SetsSound
<1>11. \A u, j : VersionsOf(u, j)' = VersionsOf(u, j)
  BY <1>2 DEF VersionsOf
<1>12. VersionsSound'
  BY <1>0, <1>2, <1>11 DEF VersionsSound
<1>13. ObjectsSound'
  <2>1. \A j \in DOMAIN objects : \E x \in VersionsOf(w, j) :
          x.id = objects[j].id /\ objects[j].extended <= x.extended
    <3>1. ASSUME NEW j \in DOMAIN objects
          PROVE  \E x \in VersionsOf(w, j) : x.id = objects[j].id /\ objects[j].extended <= x.extended
      <4>1. CASE j = k
        BY <1>1, <1>3, <1>7, <4>1
      <4>2. CASE j # k
        BY <1>0, <1>7, <4>2 DEF ObjectsSound
      <4>3. QED
        BY <4>1, <4>2
    <3>2. QED
      BY <3>1
  <2>2. DOMAIN journal[w].objects \subseteq DOMAIN objects
    BY <1>7
  <2>3. QED
    BY <1>0, <1>6, <1>11, <2>1, <2>2 DEF ObjectsSound
<1>14. ASSUME NEW x \in versions PROVE Spoils(x)' <=> Spoils(x)
  <2>1. x.worker \in Workers
    BY <1>0 DEF AuthorityTypeOK, Version
  <2>2. CASE x.worker = w /\ x.object = k
    <3>1. x = v
      BY <1>1, <2>2 DEF VersionsOf
    <3>2. QED
      BY <1>2, <1>3, <1>6, <1>7, <1>11, <3>1 DEF Spoils
  <2>3. CASE x.worker = w /\ x.object # k
    BY <1>6, <1>7, <1>11, <2>3 DEF Spoils
  <2>4. CASE x.worker # w
    BY <1>6, <1>11, <2>1, <2>4 DEF Spoils
  <2>5. QED
    BY <2>2, <2>3, <2>4
<1>15. DisturbedSound'
  BY <1>0, <1>2, <1>14 DEF DisturbedSound, Spoilt
<1>16. \A u \in Workers : journal[u].state = "CONFIRMED" => journal'[u].state = "CONFIRMED"
  BY <1>2, <1>6
<1>17. \A u \in Workers : ComponentsSpoilt(u) => ComponentsSpoilt(u)'
  BY <1>2, <1>14 DEF ComponentsSpoilt
<1>18. SourcesSound' /\ FailsForCause' /\ ResolvedWasExact' /\ MintedSound'
  BY <1>2, <1>16, <1>17, SourcesStay, MintedStay
<1>19. QED
  BY <1>8, <1>9, <1>10, <1>12, <1>13, <1>15, <1>18 DEF AuthorityInv


-----------------------------------------------------------------------------
(* The namespaces. *)

\* The stored version that a resolution expects of an object.
WormOf(w, k) ==
  StoredAs(w, k, IF k = "manifest" THEN ManifestOf(w) ELSE Envelope(DescriptorOf(w), k))

\* What a confirmed journal's pointer names.
LEMMA PointerNames ==
  ASSUME NEW w
  PROVE  LET pointer == ConfirmedAuthority(w).pointer IN
         /\ pointer.manifest = ManifestOf(w)
         /\ pointer.manifest.descriptor = DescriptorOf(w)
         /\ pointer.manifest.descriptor.worker = w
         /\ pointer.worm = WormOf(w, "manifest")
         /\ PointerParses(pointer)
         /\ DOMAIN pointer.manifest.entries = Kinds
         /\ \A k \in Kinds : /\ pointer.manifest.entries[k].worm = WormOf(w, k)
                             /\ pointer.manifest.entries[k].envelope = Envelope(DescriptorOf(w), k)
<1> DEFINE pointer == ConfirmedAuthority(w).pointer
           assembled == ManifestOf(w)
<1>1. pointer = [manifest |-> assembled, worm |-> StoredAs(w, "manifest", assembled)]
  BY DEF ConfirmedAuthority, Pointer
<1>2. assembled = [descriptor |-> DescriptorOf(w),
                  entries |-> [k \in Kinds |->
                    [envelope |-> Envelope(DescriptorOf(w), k),
                     worm |-> StoredAs(w, k, Envelope(DescriptorOf(w), k))]]]
  BY DEF ManifestOf, Manifest
<1>3. DescriptorOf(w).worker = w
  BY DEF DescriptorOf, Descriptor
<1>4. \A k \in Kinds : k # "manifest"
  BY KindsAssumption
<1>5. PointerParses(pointer)
  <2>1. StoredAs(w, "manifest", assembled).digest = assembled
    BY DEF StoredAs, Worm
  <2>2. StoredAs(w, "manifest", assembled).key = <<w, "manifest">>
    BY DEF StoredAs, Worm
  <2> HIDE DEF assembled
  <2>3. assembled.descriptor.worker = w
    BY <1>2, <1>3
  <2>4. QED
    BY <1>1, <2>1, <2>2, <2>3 DEF PointerParses, ManifestKey
<1> HIDE DEF assembled
<1>6. pointer.manifest = assembled /\ pointer.worm = StoredAs(w, "manifest", assembled)
  BY <1>1
<1>7. \A k \in Kinds : WormOf(w, k) = StoredAs(w, k, Envelope(DescriptorOf(w), k))
  BY <1>4 DEF WormOf
<1>8. WormOf(w, "manifest") = StoredAs(w, "manifest", assembled)
  BY DEF WormOf, assembled
<1>9. /\ DOMAIN assembled.entries = Kinds
      /\ \A k \in Kinds : /\ assembled.entries[k].worm = StoredAs(w, k, Envelope(DescriptorOf(w), k))
                          /\ assembled.entries[k].envelope = Envelope(DescriptorOf(w), k)
  BY <1>2
<1>10. QED
  BY <1>2, <1>3, <1>5, <1>6, <1>7, <1>8, <1>9 DEF assembled

\* A document that is not of its key is none of a set's.
LEMMA ForeignIsNone ==
  ASSUME NEW w, NEW k
  PROVE  /\ Envelope(DescriptorOf(w), k) # Foreign
         /\ ManifestOf(w) # Foreign
<1>1. "kind" \in DOMAIN Envelope(DescriptorOf(w), k)
  BY DEF Envelope
<1>2. "entries" \in DOMAIN ManifestOf(w)
  BY DEF ManifestOf, Manifest
<1>3. "kind" \notin DOMAIN Foreign /\ "entries" \notin DOMAIN Foreign
  BY DEF Foreign
<1>4. QED
  BY <1>1, <1>2, <1>3

\* The version that a resolution expects is the one that was confirmed, as it was.
LEMMA SameWormMeans ==
  ASSUME NEW w \in Workers, NEW k \in Objects, NEW v \in versions
  PROVE  SameWorm(v, WormOf(w, k)) <=>
           /\ v.worker = w /\ v.object = k /\ v.body = "own"
           /\ v.id = journal[w].objects[k].id
           /\ v.extended = journal[w].objects[k].extended
<1> DEFINE document == IF k = "manifest" THEN ManifestOf(w) ELSE Envelope(DescriptorOf(w), k)
           row == journal[w].objects[k]
<1>1. SameWorm(v, WormOf(w, k)) <=>
        /\ Body(v) = document /\ v.worker = w /\ v.object = k
        /\ v.id = row.id /\ v.extended = row.extended
  <2>1. WormOf(w, k) = [digest |-> document, key |-> <<w, k>>, version |-> row.id,
                        extended |-> row.extended]
    BY DEF WormOf, StoredAs, Worm
  <2>2. Worm(Body(v), <<v.worker, v.object>>, v.id, v.extended) =
          [digest |-> Body(v), key |-> <<v.worker, v.object>>, version |-> v.id,
           extended |-> v.extended]
    BY DEF Worm
  <2> HIDE DEF document, row
  <2>3. QED
    BY <2>1, <2>2 DEF SameWorm
<1>2. ASSUME v.worker = w, v.object = k PROVE Body(v) = document <=> v.body = "own"
  <2>1. CASE v.body = "own"
    BY <1>2, <2>1 DEF Body
  <2>2. CASE v.body # "own"
    <3>1. Body(v) = Foreign
      BY <2>2 DEF Body
    <3>2. document # Foreign
      BY ForeignIsNone
    <3>3. QED
      BY <2>2, <3>1, <3>2
  <2>3. QED
    BY <2>1, <2>2
<1> HIDE DEF document
<1>3. QED
  BY <1>1, <1>2

\* A namespace that is exact has no version that spoils its set.
LEMMA ExactUnspoilt ==
  ASSUME VersionsSound, NEW w \in Workers, NEW K \in SUBSET Objects,
         NEW L \in SUBSET versions,
         \A v \in L : v.worker = w /\ VersionsOf(w, v.object) \subseteq L,
         Exact(L, {WormOf(w, k) : k \in K})
  PROVE  \A v \in L : ~ Spoils(v)
<1>1. SUFFICES ASSUME NEW v \in L PROVE ~ Spoils(v)
  OBVIOUS
<1>2. \A u \in L : u.latest /\ ~ u.marker
  BY DEF Exact
<1>3. PICK k \in K : SameWorm(v, WormOf(w, k))
  BY DEF Exact
<1>4. /\ v.worker = w /\ v.object = k /\ v.body = "own"
      /\ v.extended = journal[w].objects[k].extended
  BY <1>3, SameWormMeans
<1>5. \A u \in VersionsOf(v.worker, v.object) : u = v
  <2>1. SUFFICES ASSUME NEW u \in VersionsOf(w, k) PROVE u = v
    BY <1>4
  <2>2. u \in L /\ u.worker = w /\ u.object = k
    BY <1>4, <2>1 DEF VersionsOf
  <2>3. QED
    BY <1>2, <1>4, <2>2 DEF VersionsSound
<1>6. k # "stranger"
  BY KindsAssumption DEF Objects
<1>7. QED
  BY <1>2, <1>4, <1>5, <1>6 DEF Spoils

\* The set that nothing disturbed holds each object that was confirmed, once.
LEMMA Undisturbed ==
  ASSUME AuthorityTypeOK, VersionsSound, SetsSound, ObjectsSound, NEW w \in Workers,
         journal[w].state = "CONFIRMED",
         NEW k \in Objects, \A v \in VersionsOf(w, k) : ~ Spoils(v)
  PROVE  \E v \in versions :
           /\ VersionsOf(w, k) = {v}
           /\ v.worker = w /\ v.object = k /\ v.body = "own" /\ v.latest /\ ~ v.marker
           /\ SameWorm(v, WormOf(w, k))
<1>1. DOMAIN journal[w].objects = Objects
  BY DEF SetsSound
<1>2. PICK v \in VersionsOf(w, k) : v.id = journal[w].objects[k].id
  BY <1>1 DEF ObjectsSound
<1>3. v \in versions /\ v.worker = w /\ v.object = k
  BY <1>2 DEF VersionsOf
<1>4. /\ v.body = "own" /\ ~ v.marker
      /\ \A u \in VersionsOf(w, k) : u = v
      /\ v.extended = journal[w].objects[k].extended
  BY <1>1, <1>2, <1>3 DEF Spoils
<1>5. v.latest
  <2>1. PICK u \in VersionsOf(w, k) : u.latest
    BY <1>3 DEF VersionsSound
  <2>2. QED
    BY <1>4, <2>1
<1>6. SameWorm(v, WormOf(w, k))
  BY <1>2, <1>3, <1>4, SameWormMeans
<1>7. QED
  BY <1>2, <1>3, <1>4, <1>5, <1>6

\* So its namespace is exact.
LEMMA CleanExact ==
  ASSUME AuthorityTypeOK, VersionsSound, SetsSound, ObjectsSound, NEW w \in Workers,
         journal[w].state = "CONFIRMED",
         NEW K \in SUBSET Objects, NEW L \in SUBSET versions,
         \A v \in versions : v \in L <=> v.worker = w /\ v.object \in K,
         \A v \in L : ~ Spoils(v)
  PROVE  Exact(L, {WormOf(w, k) : k \in K})
<1> DEFINE worms == {WormOf(w, k) : k \in K}
           f == [k \in K |-> CHOOSE v \in L : v.object = k]
           g == [k \in K |-> WormOf(w, k)]
<1>1. \A k \in K : \E v \in L :
        /\ \A u \in L : u.object = k => u = v
        /\ v.object = k /\ v.latest /\ ~ v.marker /\ SameWorm(v, WormOf(w, k))
  <2>1. SUFFICES ASSUME NEW k \in K
                 PROVE  \E v \in L :
                          /\ \A u \in L : u.object = k => u = v
                          /\ v.object = k /\ v.latest /\ ~ v.marker /\ SameWorm(v, WormOf(w, k))
    OBVIOUS
  <2>2. \A v \in VersionsOf(w, k) : v \in L
    BY DEF VersionsOf
  <2>3. PICK v \in versions :
          /\ VersionsOf(w, k) = {v}
          /\ v.worker = w /\ v.object = k /\ v.latest /\ ~ v.marker
          /\ SameWorm(v, WormOf(w, k))
    BY <2>2, Undisturbed
  <2>4. \A u \in L : u.object = k => u \in VersionsOf(w, k)
    BY DEF VersionsOf
  <2>5. QED
    BY <2>3, <2>4
<1>2. \A k \in K : f[k] \in L /\ f[k].object = k
  BY <1>1
<1> HIDE DEF f
<1>3. L = {f[k] : k \in K}
  BY <1>1, <1>2
<1>4. IsFiniteSet(K)
  <2>1. IsFiniteSet(Objects)
    BY KindsAssumption, FS_AddElement DEF Objects
  <2>2. QED
    BY <2>1, FS_Subset
<1>5. Cardinality(L) = Cardinality(K)
  BY <1>2, <1>3, <1>4, SameSize
<1>6. \A k, l \in K : g[k] = g[l] => k = l
  <2>1. \A k \in K : g[k].key = <<w, k>>
    BY DEF WormOf, StoredAs, Worm
  <2> HIDE DEF g
  <2>2. QED
    BY <2>1
<1>7. Cardinality(worms) = Cardinality(K)
  <2>1. worms = {g[k] : k \in K}
    OBVIOUS
  <2> HIDE DEF g, worms
  <2>2. QED
    BY <1>4, <1>6, <2>1, SameSize
<1>8. \A v \in L : v.latest /\ ~ v.marker /\ \E worm \in worms : SameWorm(v, worm)
  BY <1>1
<1>9. \A worm \in worms : \E v \in L : SameWorm(v, worm)
  BY <1>1
<1> HIDE DEF worms
<1>10. QED
  BY <1>5, <1>7, <1>8, <1>9 DEF Exact, worms

\* The identifiers of what was confirmed are their objects'.
LEMMA IdsByObject ==
  ASSUME VersionsSound, SetsSound, ObjectsSound, NEW w \in Workers,
         journal[w].state = "CONFIRMED",
         NEW k \in Objects
  PROVE  \E n : journal[w].objects[k].id = <<w, k, n>>
<1>1. k \in DOMAIN journal[w].objects
  BY DEF SetsSound
<1>2. PICK v \in VersionsOf(w, k) : v.id = journal[w].objects[k].id
  BY <1>1 DEF ObjectsSound
<1>3. v \in versions /\ v.worker = w /\ v.object = k
  BY <1>2 DEF VersionsOf
<1>4. v.id = <<w, k, v.id[3]>>
  BY <1>3 DEF VersionsSound
<1>5. QED
  BY <1>2, <1>4

\* The manifest of a confirmed set parses.
LEMMA ManifestOfParses ==
  ASSUME VersionsSound, SetsSound, ObjectsSound, NEW w \in Workers,
         journal[w].state = "CONFIRMED"
  PROVE  ManifestParses(ManifestOf(w))
<1> DEFINE assembled == ManifestOf(w)
<1>1. /\ assembled.descriptor.worker = w
      /\ DOMAIN assembled.entries = Kinds
      /\ \A k \in Kinds : /\ assembled.entries[k].worm = WormOf(w, k)
                          /\ assembled.entries[k].envelope = Envelope(DescriptorOf(w), k)
  BY PointerNames
<1>2. \A k \in Kinds : /\ WormOf(w, k).digest = Envelope(DescriptorOf(w), k)
                       /\ WormOf(w, k).key = <<w, k>>
                       /\ WormOf(w, k).version = journal[w].objects[k].id
  BY KindsAssumption DEF WormOf, StoredAs, Worm
<1>3. \A k \in Kinds : \E n : journal[w].objects[k].id = <<w, k, n>>
  BY IdsByObject DEF Objects
<1> HIDE DEF assembled
<1>4. DistinctVersions(assembled.entries)
  BY <1>1, <1>2, <1>3 DEF DistinctVersions
<1>5. QED
  BY <1>1, <1>2, <1>4 DEF ManifestParses, ComponentKey, assembled

\* A resolution's first half fails only for a cause, and passes over nothing but components.
LEMMA ReadManifestKeeps ==
  ASSUME AuthorityInv, NEW c \in Resolvers, NEW w \in Workers, ReadManifest(c, w)
  PROVE  AuthorityInv'
<1> DEFINE pointer == ConfirmedAuthority(w).pointer
           listing == VersionsOf(w, "manifest")
           reads == /\ PointerParses(pointer)
                    /\ reviewed
                    /\ Exact(listing, {pointer.worm})
                    /\ ManifestResolves(listing, pointer)
<1>0. /\ AuthorityTypeOK /\ VersionsSound /\ ObjectsSound /\ DisturbedSound /\ SetsSound
      /\ "manifest" \in Objects
  BY DEF AuthorityInv, Objects
<1>1. /\ journal[w].state = "CONFIRMED"
      /\ UNCHANGED <<request, journal, versions, reviewed, runtime, minted, disturbed, faults>>
      /\ sources' = [sources EXCEPT ![c] =
           [pc |-> IF reads THEN "manifest" ELSE "failed",
            worker |-> w, access |-> runtime.access, spoilt |-> w \in disturbed]]
  <2>1. ManifestNamespace(pointer.manifest.descriptor) = listing
    BY PointerNames DEF ManifestNamespace
  <2>2. QED
    BY <2>1 DEF ReadManifest
<1>2. {pointer.worm} = {WormOf(w, k) : k \in {"manifest"}}
  BY PointerNames
<1>3. listing \subseteq versions /\ \A v \in listing : v.worker = w /\ v.object = "manifest"
  BY DEF VersionsOf
<1>4. reads => \A v \in listing : ~ Spoils(v)
  <2>1. SUFFICES ASSUME reads PROVE \A v \in listing : ~ Spoils(v)
    OBVIOUS
  <2>2. Exact(listing, {WormOf(w, k) : k \in {"manifest"}})
    BY <1>2, <2>1
  <2>3. \A v \in listing : v.worker = w /\ VersionsOf(w, v.object) \subseteq listing
    BY <1>3
  <2> HIDE DEF listing
  <2>4. QED
    BY <1>0, <1>3, <2>2, <2>3, ExactUnspoilt
<1>5. w \notin disturbed /\ reviewed => reads
  <2>1. SUFFICES ASSUME w \notin disturbed, reviewed PROVE reads
    OBVIOUS
  <2>2. \A v \in listing : ~ Spoils(v)
    BY <1>0, <1>3, <2>1 DEF DisturbedSound, Spoilt
  <2>3. Exact(listing, {pointer.worm})
    <3>1. \A v \in versions : v \in listing <=> v.worker = w /\ v.object \in {"manifest"}
      BY DEF VersionsOf
    <3> HIDE DEF listing, pointer
    <3>2. Exact(listing, {WormOf(w, k) : k \in {"manifest"}})
      BY <1>0, <1>1, <1>3, <2>2, <3>1, CleanExact
    <3>3. QED
      BY <1>2, <3>2
  <2>4. PICK v \in versions : listing = {v} /\ v.worker = w /\ v.object = "manifest" /\ v.body = "own"
    BY <1>0, <1>1, <2>2, Undisturbed
  <2>5. Body(v) = ManifestOf(w)
    BY <2>4 DEF Body
  <2>6. ManifestResolves(listing, pointer)
    <3>1. (CHOOSE u \in listing : TRUE) = v
      BY <2>4
    <3>2. pointer.manifest = ManifestOf(w)
      BY PointerNames
    <3>3. ManifestParses(ManifestOf(w))
      BY <1>0, <1>1, ManifestOfParses
    <3> HIDE DEF listing, pointer
    <3>4. QED
      BY <2>5, <3>1, <3>2, <3>3 DEF ManifestResolves
  <2>7. QED
    BY <2>1, <2>3, <2>6, PointerNames
<1> HIDE DEF reads, listing, pointer
<1>6. /\ sources'[c].pc = IF reads THEN "manifest" ELSE "failed"
      /\ sources'[c].worker = w /\ sources'[c].spoilt = (w \in disturbed)
      /\ \A d \in Resolvers : d # c => sources'[d] = sources[d]
  BY <1>0, <1>1 DEF AuthorityTypeOK
<1>7. AuthorityTypeOK'
  <2>1. runtime.access \in Accesses
    BY <1>0 DEF AuthorityTypeOK
  <2>2. [pc |-> IF reads THEN "manifest" ELSE "failed", worker |-> w,
         access |-> runtime.access, spoilt |-> w \in disturbed] \in Source
    BY <2>1 DEF Source
  <2>3. sources' \in [Resolvers -> Source]
    BY <1>0, <1>1, <2>2 DEF AuthorityTypeOK
  <2>4. QED
    BY <1>0, <1>1, <2>3, TypesSame DEF AuthorityTypeOK
<1>8. /\ RoundTrip' /\ SetsSound' /\ VersionsSound' /\ ObjectsSound' /\ DisturbedSound'
      /\ \A u : ComponentsSpoilt(u)' = ComponentsSpoilt(u)
  BY <1>1, TablesStay
<1>9. SourcesSound'
  <2>1. reads /\ w \in disturbed => ComponentsSpoilt(w)
    <3>1. SUFFICES ASSUME reads, w \in disturbed PROVE ComponentsSpoilt(w)
      OBVIOUS
    <3>2. PICK v \in versions : v.worker = w /\ Spoils(v)
      BY <1>0, <3>1 DEF DisturbedSound, Spoilt
    <3>3. v.object # "manifest"
      BY <1>4, <3>1, <3>2 DEF listing, VersionsOf
    <3>4. QED
      BY <3>2, <3>3 DEF ComponentsSpoilt
  <2>2. ASSUME NEW d \in Resolvers
        PROVE  /\ sources'[d].pc \in {"manifest", "resolved"} =>
                    journal'[sources'[d].worker].state = "CONFIRMED"
               /\ sources'[d].pc = "manifest" /\ sources'[d].spoilt =>
                    ComponentsSpoilt(sources[d].worker)'
    <3>1. ComponentsSpoilt(sources[d].worker)' = ComponentsSpoilt(sources'[d].worker)
      BY <1>8
    <3>2. CASE d = c
      <4>1. sources'[c].pc = "manifest" => reads
        BY <1>6
      <4>2. QED
        BY <1>1, <1>6, <2>1, <3>1, <3>2, <4>1
    <3>3. CASE d # c
      <4>1. sources'[d] = sources[d] /\ journal' = journal
        BY <1>1, <1>6, <3>3
      <4>2. QED
        BY <3>1, <4>1 DEF AuthorityInv, SourcesSound
    <3>4. QED
      BY <3>2, <3>3
  <2>3. QED
    BY <2>2 DEF SourcesSound
<1>10. FailsForCause'
  BY <1>1, <1>5, <1>6 DEF AuthorityInv, FailsForCause
<1>11. ResolvedWasExact'
  BY <1>6 DEF AuthorityInv, ResolvedWasExact
<1>12. MintedSound'
  BY <1>1, MintedStay DEF AuthorityInv
<1>13. QED
  BY <1>7, <1>8, <1>9, <1>10, <1>11, <1>12 DEF AuthorityInv

\* What a resolution finalizes, of components that are the set's.
LEMMA WholeFinalizes ==
  ASSUME AuthorityInv, NEW c \in Resolvers, sources[c].pc = "manifest",
         NEW w \in Workers, w = sources[c].worker,
         NEW listing, \A k \in Kinds : /\ \E v \in listing : v.object = k
                                       /\ \A v \in listing : v.object = k =>
                                            Body(v) = Envelope(DescriptorOf(w), k),
         sources[c].access = Contents[request[w]].access,
         Contents[request[w]].bucket = Bucket
  PROVE  Finalizes(sources[c], listing)
<1> DEFINE bodies == [k \in Kinds |-> Envelope(DescriptorOf(w), k)]
<1>0. AuthorityTypeOK
  BY DEF AuthorityInv
<1>1. BodiesOf(listing) = bodies
  <2>1. \A k \in Kinds : Body(CHOOSE v \in listing : v.object = k) = Envelope(DescriptorOf(w), k)
    OBVIOUS
  <2>2. QED
    BY <2>1 DEF BodiesOf
<1>2. PayloadSet(bodies) = Payload(w)
  BY <1>0, EnvelopesWhole
<1>3. EnvelopesParse(bodies, PointerOf(sources[c]).manifest)
  <2>1. /\ PointerOf(sources[c]).manifest.descriptor = DescriptorOf(w)
        /\ DescriptorOf(w).worker = w
        /\ \A k \in Kinds :
             /\ PointerOf(sources[c]).manifest.entries[k].worm = WormOf(w, k)
             /\ PointerOf(sources[c]).manifest.entries[k].envelope = Envelope(DescriptorOf(w), k)
    <3>1. ConfirmedAuthority(w).pointer.manifest.descriptor.worker = w
      BY PointerNames
    <3>2. QED
      BY <3>1, PointerNames DEF PointerOf
  <2>2. \A k \in Kinds : WormOf(w, k).key = <<w, k>>
    BY DEF WormOf, StoredAs, Worm
  <2>3. \A k \in Kinds : /\ EnvelopeParses(bodies[k], DescriptorOf(w))
                         /\ bodies[k].kind = k
    BY <1>0, EnvelopesWhole DEF Envelope
  <2>4. QED
    BY <2>1, <2>2, <2>3, SMTT(40) DEF EnvelopesParse, ComponentKey
<1>4. Accepts(Payload(w), HistoricalTrust(sources[c]))
  <2>1. journal[w].state = "CONFIRMED"
    BY DEF AuthorityInv, SourcesSound
  <2>2. PICK access \in Accesses : Accepts(Payload(w), Trust(w, access))
    BY <2>1 DEF AuthorityInv, SetsSound
  <2>3. access = sources[c].access
    BY <1>0, <2>2, AcceptedByAccess, PayloadIs
  <2>4. HistoricalTrust(sources[c]) = Trust(w, access)
    BY <2>3 DEF HistoricalTrust, Trust
  <2>5. QED
    BY <2>2, <2>4
<1>5. Payload(w).bucket = Bucket
  BY <1>0, PayloadIs
<1> HIDE DEF bodies
<1>6. QED
  BY <1>1, <1>2, <1>3, <1>4, <1>5 DEF Finalizes

\* Its second half: resolved is only what nothing spoilt.
LEMMA ReadComponentsKeeps ==
  ASSUME AuthorityInv, NEW c \in Resolvers, ReadComponents(c)
  PROVE  AuthorityInv'
<1> DEFINE s == sources[c]
           w == s.worker
           pointer == PointerOf(s)
           worms == {WormOf(w, k) : k \in Kinds}
           listing == {v \in versions : v.worker = w /\ v.object # "manifest"}
           resolves == /\ reviewed
                       /\ Exact(listing, worms)
                       /\ \A v \in listing : v.id # pointer.worm.version
                       /\ Finalizes(s, listing)
<1>0. /\ AuthorityTypeOK /\ VersionsSound /\ ObjectsSound /\ DisturbedSound /\ SetsSound
      /\ Kinds \subseteq Objects /\ "manifest" \in Objects /\ "manifest" \notin Kinds
  BY KindsAssumption DEF AuthorityInv, Objects
<1>1. /\ s.pc = "manifest"
      /\ UNCHANGED <<request, journal, versions, reviewed, runtime, minted, disturbed, faults>>
      /\ sources' = [sources EXCEPT ![c].pc = IF resolves THEN "resolved" ELSE "failed"]
  <2>1. /\ pointer.manifest.descriptor.worker = w
        /\ \A k \in Kinds : pointer.manifest.entries[k].worm = WormOf(w, k)
    BY PointerNames DEF PointerOf
  <2>2. {pointer.manifest.entries[k].worm : k \in Kinds} = worms
    BY <2>1
  <2>3. ComponentNamespace(pointer.manifest.descriptor) = listing
    BY <2>1 DEF ComponentNamespace
  <2>4. QED
    BY <2>2, <2>3 DEF ReadComponents
<1>2. w \in Workers /\ s \in Source
  BY <1>0, <1>1 DEF AuthorityTypeOK, Source, Idle
<1>3. journal[w].state = "CONFIRMED"
  BY <1>1 DEF AuthorityInv, SourcesSound
<1>4. listing \subseteq versions /\ \A v \in listing : v.worker = w /\ v.object # "manifest"
  OBVIOUS
<1>5. resolves => ~ s.spoilt
  <2>1. SUFFICES ASSUME resolves, s.spoilt PROVE FALSE
    BY <1>2 DEF Source, Idle
  <2>2. PICK v \in versions : v.worker = w /\ v.object # "manifest" /\ Spoils(v)
    BY <1>1, <2>1 DEF AuthorityInv, SourcesSound, ComponentsSpoilt
  <2>3. \A u \in listing : u.worker = w /\ VersionsOf(w, u.object) \subseteq listing
    BY DEF VersionsOf
  <2>4. v \in listing
    BY <2>2
  <2>5. Exact(listing, worms)
    BY <2>1
  <2> HIDE DEF listing, w
  <2>6. \A u \in listing : ~ Spoils(u)
    BY <1>0, <1>2, <1>4, <2>3, <2>5, ExactUnspoilt
  <2>7. QED
    BY <2>2, <2>4, <2>6
<1>6. /\ w \notin disturbed /\ reviewed
      /\ s.access = Contents[request[w]].access /\ Contents[request[w]].bucket = Bucket
      => resolves
  <2>1. SUFFICES ASSUME w \notin disturbed, reviewed, s.access = Contents[request[w]].access,
                        Contents[request[w]].bucket = Bucket
                 PROVE  resolves
    OBVIOUS
  <2>2. \A v \in versions : v.worker = w => ~ Spoils(v)
    BY <1>0, <1>2, <2>1 DEF DisturbedSound, Spoilt
  <2>3. \A v \in versions : v \in listing <=> v.worker = w /\ v.object \in Kinds
    <3>1. \A v \in versions : v.worker = w => v.object # "stranger"
      BY <2>2 DEF Spoils
    <3>2. \A v \in versions : v.object \in Objects \cup {"stranger"}
      BY <1>0 DEF AuthorityTypeOK, Version
    <3>3. QED
      BY <1>0, <3>1, <3>2 DEF Objects
  <2>4. Exact(listing, worms)
    <3>1. \A v \in listing : ~ Spoils(v)
      BY <2>2
    <3> HIDE DEF listing, w
    <3>2. QED
      BY <1>0, <1>2, <1>3, <1>4, <2>3, <3>1, CleanExact
  <2>5. ASSUME NEW k \in Kinds
        PROVE  /\ \E v \in listing : v.object = k
               /\ \A v \in listing : v.object = k => Body(v) = Envelope(DescriptorOf(w), k)
    <3>1. \A v \in VersionsOf(w, k) : ~ Spoils(v)
      BY <2>2 DEF VersionsOf
    <3>2. PICK v \in versions : /\ VersionsOf(w, k) = {v}
                               /\ v.worker = w /\ v.object = k /\ v.body = "own"
      BY <1>0, <1>2, <1>3, <3>1, Undisturbed
    <3>3. v \in listing
      BY <2>3, <3>2
    <3>4. Body(v) = Envelope(DescriptorOf(w), k)
      BY <1>0, <3>2 DEF Body
    <3>5. \A u \in listing : u.object = k => u = v
      BY <1>4, <3>2 DEF VersionsOf
    <3>6. QED
      BY <3>2, <3>3, <3>4, <3>5
  <2>6. Finalizes(s, listing)
    <3>1. \A k \in Kinds : /\ \E v \in listing : v.object = k
                           /\ \A v \in listing : v.object = k =>
                                Body(v) = Envelope(DescriptorOf(w), k)
      BY <2>5
    <3> HIDE DEF listing
    <3>2. QED
      BY <1>1, <1>2, <2>1, <3>1, WholeFinalizes
  <2>7. \A v \in listing : v.id # pointer.worm.version
    <3>1. pointer.worm.version = journal[w].objects["manifest"].id
      <4>1. pointer.worm = WormOf(w, "manifest")
        BY PointerNames DEF PointerOf
      <4>2. WormOf(w, "manifest").version = journal[w].objects["manifest"].id
        BY DEF WormOf, StoredAs, Worm
      <4>3. QED
        BY <4>1, <4>2
    <3>2. PICK n : journal[w].objects["manifest"].id = <<w, "manifest", n>>
      BY <1>0, <1>2, <1>3, IdsByObject
    <3>3. \A v \in listing : v.id = <<w, v.object, v.id[3]>>
      BY <1>0, <1>4 DEF VersionsSound
    <3> HIDE DEF listing, pointer, w
    <3>4. QED
      BY <1>4, <3>1, <3>2, <3>3
  <2>8. QED
    BY <2>1, <2>4, <2>6, <2>7
<1> HIDE DEF resolves, listing, pointer, worms
<1>7. /\ sources'[c].pc = IF resolves THEN "resolved" ELSE "failed"
      /\ sources'[c].worker = w /\ sources'[c].spoilt = s.spoilt /\ sources'[c].access = s.access
      /\ \A d \in Resolvers : d # c => sources'[d] = sources[d]
      /\ sources' \in [Resolvers -> Source]
  <2>1. s \in [pc : {"manifest", "failed", "resolved"}, worker : Workers, access : Accesses,
               spoilt : BOOLEAN]
    BY <1>1, <1>2 DEF Source, Idle
  <2>2. \A d \in Resolvers : sources[d] \in Source
    BY <1>0 DEF AuthorityTypeOK
  <2>3. DOMAIN sources = Resolvers
    BY <1>0 DEF AuthorityTypeOK
  <2>4. QED
    BY <1>1, <2>1, <2>2, <2>3 DEF Source
<1>8. AuthorityTypeOK'
  BY <1>0, <1>1, <1>7, TypesSame DEF AuthorityTypeOK
<1>9. /\ RoundTrip' /\ SetsSound' /\ VersionsSound' /\ ObjectsSound' /\ DisturbedSound'
      /\ \A u : ComponentsSpoilt(u)' = ComponentsSpoilt(u)
  BY <1>1, TablesStay
<1>10. SourcesSound'
  BY <1>1, <1>3, <1>7, <1>9 DEF AuthorityInv, SourcesSound
<1>11. FailsForCause'
  BY <1>1, <1>6, <1>7 DEF AuthorityInv, FailsForCause
<1>12. ResolvedWasExact'
  BY <1>5, <1>7 DEF AuthorityInv, ResolvedWasExact
<1>13. MintedSound'
  BY <1>1, MintedStay DEF AuthorityInv
<1>14. QED
  BY <1>8, <1>9, <1>10, <1>11, <1>12, <1>13 DEF AuthorityInv

-----------------------------------------------------------------------------
(* What is minted. *)

\* The binder takes no projection of another set than the journal's.
LEMMA BindsOne ==
  ASSUME NEW c \in Resolvers, NEW w \in Workers, Bind(c, w)
  PROVE  sources[c].worker = w
<1>1. ConfirmedAuthority(w).descriptor = ProjectionOf(sources[c]).descriptor
  BY DEF Bind, SameSet
<1>2. ConfirmedAuthority(w).descriptor = ManifestOf(w).descriptor
  BY DEF ConfirmedAuthority
<1>3. ManifestOf(w).descriptor.worker = w
  BY PointerNames
<1>4. ProjectionOf(sources[c]).descriptor = PointerOf(sources[c]).manifest.descriptor
  BY DEF ProjectionOf, Projection
<1>5. PointerOf(sources[c]).manifest.descriptor.worker = sources[c].worker
  BY PointerNames DEF PointerOf
<1>6. QED
  BY <1>1, <1>2, <1>3, <1>4, <1>5

\* So its pins are those of the set's payloads.
LEMMA BindKeeps ==
  ASSUME AuthorityInv, NEW c \in Resolvers, NEW w \in Workers, Bind(c, w)
  PROVE  AuthorityInv'
<1> DEFINE pins == OperationPins(Runtime(Payload(w)))
           bound == [journal |-> w, resolved |-> w, pins |-> pins]
<1>1. sources[c].worker = w
  BY BindsOne
<1>2. ProjectionOf(sources[c]).runtime = Runtime(Payload(w))
  BY <1>1 DEF ProjectionOf, Projection
<1>3. /\ journal[w].state = "CONFIRMED"
      /\ minted' = minted \cup {bound}
      /\ UNCHANGED <<request, journal, versions, reviewed, runtime, sources, disturbed, faults>>
  BY <1>1, <1>2 DEF Bind
<1>4. AuthorityTypeOK'
  <2>1. bound \in Minted
    BY DEF Minted
  <2>2. minted' \subseteq Minted
    BY <1>3, <2>1 DEF AuthorityInv, AuthorityTypeOK
  <2>3. QED
    BY <1>3, <2>2, TypesSame DEF AuthorityInv, AuthorityTypeOK
<1>5. /\ RoundTrip' /\ SetsSound' /\ VersionsSound' /\ ObjectsSound' /\ DisturbedSound'
      /\ \A u : ComponentsSpoilt(u)' = ComponentsSpoilt(u)
  BY <1>3, TablesStay
<1>6. SourcesSound' /\ FailsForCause' /\ ResolvedWasExact'
  BY <1>3, <1>5, SourcesStay
<1>7. MintedSound'
  <2>1. \A u : Payload(u)' = Payload(u)
    BY <1>3, TypesSame
  <2>2. \A m \in minted : /\ m.resolved = m.journal
                          /\ journal[m.journal].state = "CONFIRMED"
                          /\ m.pins = OperationPins(Runtime(Payload(m.journal)))
    BY DEF AuthorityInv, MintedSound
  <2>3. bound.resolved = w /\ bound.journal = w /\ bound.pins = pins
    OBVIOUS
  <2> HIDE DEF bound
  <2>4. QED
    BY <1>3, <2>1, <2>2, <2>3 DEF MintedSound
<1>8. QED
  BY <1>4, <1>5, <1>6, <1>7 DEF AuthorityInv

\* An authority's pins are what serves all traffic of their services.
LEMMA MintedAgree ==
  ASSUME AuthorityInv
  PROVE  AuthoritiesAgree
<1>0. AuthorityTypeOK
  BY DEF AuthorityInv
<1>1. SUFFICES ASSUME NEW m \in minted
               PROVE  LET doc == Reconstructed[request[m.journal]].doc IN
                      /\ journal[m.resolved].objects = journal[m.journal].objects
                      /\ \A d \in {doc.a0, doc.a1} :
                           /\ {n.version : n \in d[Executor].members} = {m.pins.executor.version}
                           /\ {n.version : n \in d[Observer].members} = {m.pins.observer.version}
  BY DEF AuthoritiesAgree
<1> DEFINE w == m.journal
           p == Payload(w)
           doc == RestoredDocument(p)
<1>2. /\ w \in Workers /\ m.resolved = w /\ journal[w].state = "CONFIRMED"
      /\ m.pins = OperationPins(Runtime(p))
  BY <1>0 DEF AuthorityInv, MintedSound, AuthorityTypeOK, Minted
<1>3. PICK access \in Accesses : Accepts(p, Trust(w, access))
  BY <1>2 DEF AuthorityInv, SetsSound
<1>4. ExpectationParses(doc, p.header.digest, Account, p.header.source)
  BY <1>3 DEF Accepts, Restored, Trust
<1>5. Reconstructed[request[w]].doc = doc
  <2>1. Reconstructed[request[w]] = Restored(p)
    BY <1>0, <1>2, PayloadIs
  <2>2. Restored(p).doc = doc
    BY DEF Restored
  <2>3. QED
    BY <2>1, <2>2
<1>6. doc.rows = p.inventory
  BY DEF RestoredDocument
<1> HIDE DEF doc, p
<1>7. ASSUME NEW r \in Private
      PROVE  /\ {n.version : n \in doc.a0[r].members} = {p.inventory[r].version}
             /\ {n.version : n \in doc.a1[r].members} = {p.inventory[r].version}
  <2>1. r \in Roles /\ r # Ingress
    BY DEF Private
  <2>2. Whole(doc.a0[r].members) /\ Whole(doc.a1[r].members)
    BY <1>4, <2>1 DEF ExpectationParses, DeploymentsParse
  <2>3. /\ \A n \in doc.a0[r].members : IsFinal(n) => n.version = p.inventory[r].version
        /\ \A n \in doc.a1[r].members : IsFinal(n) => n.version = p.inventory[r].version
    BY <1>4, <1>6, <2>1, FinalsOfRows
  <2>4. QED
    BY <2>2, <2>3 DEF Whole
<1>8. Executor \in Private /\ Observer \in Private
  BY RolesAssumption DEF Private, Executor, Observer, Ingress
<1>9. /\ m.pins.executor.version = p.inventory[Executor].version
      /\ m.pins.observer.version = p.inventory[Observer].version
  BY <1>2, <1>8 DEF OperationPins, Runtime, PinOf
<1>10. QED
  BY <1>2, <1>5, <1>7, <1>8, <1>9

-----------------------------------------------------------------------------
(* The theorems. *)

\* Before anything is judged or stored there is nothing to be sound of.
LEMMA AuthorityInvInit ==
  ASSUME AuthorityInit
  PROVE  AuthorityInv
<1> DEFINE row == [state |-> "OPEN", parsed |-> FALSE, pins |-> {}, objects |-> NoObjects]
<1>1. /\ journal = [w \in Workers |-> row]
      /\ versions = {} /\ reviewed = TRUE /\ minted = {} /\ disturbed = {} /\ faults = 0
      /\ sources = [c \in Resolvers |-> Idle]
      /\ runtime \in [worker : Workers, access : Accesses]
      /\ request \in [Workers -> UNION {Requests[w] : w \in Workers}]
      /\ \A w \in Workers : request[w] \in Requests[w]
  BY DEF AuthorityInit
<1>2. \A w \in Workers : journal[w] = row
  BY <1>1
<1>3. \A w \in Workers : /\ journal[w].state = "OPEN" /\ journal[w].parsed = FALSE
                         /\ DOMAIN journal[w].objects = {}
  BY <1>2 DEF NoObjects
<1>4. AuthorityTypeOK
  <2>1. request \in [Workers -> DOMAIN Contents]
    BY <1>1, AuthorityAssumption
  <2>2. NoObjects \in [{} -> [id : Ids, extended : Nat]]
    BY DEF NoObjects
  <2>3. row \in JournalRow
    BY <2>2 DEF JournalRow
  <2>4. journal \in [Workers -> JournalRow]
    <3> HIDE DEF row
    <3>1. QED
      BY <1>1, <2>3
  <2>5. sources \in [Resolvers -> Source]
    BY <1>1 DEF Source
  <2>6. IsFiniteSet({})
    BY FS_EmptySet
  <2>7. QED
    BY <1>1, <2>1, <2>4, <2>5, <2>6 DEF AuthorityTypeOK
<1> HIDE DEF row
<1>5. RoundTrip
  BY <1>3 DEF RoundTrip
<1>6. SetsSound
  BY <1>3 DEF SetsSound
<1>7. VersionsSound
  BY <1>1 DEF VersionsSound
<1>8. ObjectsSound
  BY <1>1, <1>3 DEF ObjectsSound, VersionsOf
<1>9. DisturbedSound
  BY <1>1 DEF DisturbedSound, Spoilt
<1>10. \A c \in Resolvers : sources[c].pc = "idle"
  BY <1>1 DEF Idle
<1>11. SourcesSound /\ FailsForCause /\ ResolvedWasExact
  BY <1>10 DEF SourcesSound, FailsForCause, ResolvedWasExact
<1>12. MintedSound
  BY <1>1 DEF MintedSound
<1>13. QED
  BY <1>4, <1>5, <1>6, <1>7, <1>8, <1>9, <1>11, <1>12 DEF AuthorityInv

\* Every step keeps it.
LEMMA AuthorityInvStep ==
  ASSUME AuthorityInv, [AuthorityNext]_authorityVars
  PROVE  AuthorityInv'
<1>1. CASE Redeploy \/ Reconfigure
  BY <1>1, OutsideKeeps
<1>2. CASE Extend
  BY <1>2, ExtendKeeps
<1>3. ASSUME NEW w \in Workers, Judge(w) PROVE AuthorityInv'
  BY <1>3, JudgeKeeps
<1>4. ASSUME NEW w \in Workers, Disturb(w) PROVE AuthorityInv'
  BY <1>4, DisturbKeeps
<1>5. ASSUME NEW w \in Workers, NEW k \in Objects, Upload(w, k) PROVE AuthorityInv'
  BY <1>5, UploadKeeps
<1>6. ASSUME NEW w \in Workers, NEW k \in Objects, Confirm(w, k) PROVE AuthorityInv'
  BY <1>6, ConfirmKeeps
<1>7. ASSUME NEW c \in Resolvers, ReadComponents(c) PROVE AuthorityInv'
  BY <1>7, ReadComponentsKeeps
<1>8. ASSUME NEW c \in Resolvers, NEW w \in Workers, ReadManifest(c, w) PROVE AuthorityInv'
  BY <1>8, ReadManifestKeeps
<1>9. ASSUME NEW c \in Resolvers, NEW w \in Workers, Bind(c, w) PROVE AuthorityInv'
  BY <1>9, BindKeeps
<1>10. CASE UNCHANGED authorityVars
  <2>1. UNCHANGED <<request, journal, versions, reviewed, runtime, sources, minted, disturbed, faults>>
    BY <1>10 DEF authorityVars
  <2>2. AuthorityTypeOK'
    BY <2>1, TypesSame DEF AuthorityInv, AuthorityTypeOK
  <2>3. /\ RoundTrip' /\ SetsSound' /\ VersionsSound' /\ ObjectsSound' /\ DisturbedSound'
        /\ \A u : ComponentsSpoilt(u)' = ComponentsSpoilt(u)
    BY <2>1, TablesStay
  <2>4. SourcesSound' /\ FailsForCause' /\ ResolvedWasExact' /\ MintedSound'
    BY <2>1, <2>3, SourcesStay, MintedStay
  <2>5. QED
    BY <2>2, <2>3, <2>4 DEF AuthorityInv
<1>11. QED
  BY <1>1, <1>2, <1>3, <1>4, <1>5, <1>6, <1>7, <1>8, <1>9, <1>10 DEF AuthorityNext

\* The sets, the bucket and the resolutions are sound in every state: a worker is
\* disturbed exactly when a version of its key space is not what was confirmed, and every
\* set that was accepted is still accepted as it stands.
THEOREM AuthorityInvariant == AuthoritySpec => []AuthorityInv
<1>1. AuthorityInit => AuthorityInv
  BY AuthorityInvInit
<1>2. AuthorityInv /\ [AuthorityNext]_authorityVars => AuthorityInv'
  BY AuthorityInvStep
<1>3. QED
  BY <1>1, <1>2, PTL DEF AuthoritySpec

\* buildActivationComponentPayloads and its reconstruction: what provision would accept is
\* accepted as components, and is what they reconstruct, for any request of any roles.
THEOREM AuthorityRoundTrip == AuthoritySpec => []RoundTrip
<1>1. AuthorityInv => RoundTrip
  BY DEF AuthorityInv
<1>2. QED
  BY <1>1, AuthorityInvariant, PTL

\* bindActivationProvisionAuthority: an authority is of the objects its journal confirmed,
\* and its pins are the versions that serve all traffic of their services.
THEOREM AuthorityAgrees == AuthoritySpec => []AuthoritiesAgree
<1>1. AuthorityInv => AuthoritiesAgree
  BY MintedAgree
<1>2. QED
  BY <1>1, AuthorityInvariant, PTL

\* historicalActivationComponentResolverTrust: a confirmed set that nothing disturbed is
\* resolved whatever worker is deployed, unless the settings, the access or the bucket differ.
THEOREM AuthorityFailsForCause == AuthoritySpec => []FailsForCause
<1>1. AuthorityInv => FailsForCause
  BY DEF AuthorityInv
<1>2. QED
  BY <1>1, AuthorityInvariant, PTL

\* resolveExactActivationComponentNamespace: no set is resolved by a call that began after
\* one of its objects was shadowed, copied, hidden, joined or extended.
THEOREM AuthorityResolvedWasExact == AuthoritySpec => []ResolvedWasExact
<1>1. AuthorityInv => ResolvedWasExact
  BY DEF AuthorityInv
<1>2. QED
  BY <1>1, AuthorityInvariant, PTL
=============================================================================
