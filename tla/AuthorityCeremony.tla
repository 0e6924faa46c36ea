-------------------------- MODULE AuthorityCeremony --------------------------
(* The paired authority-key ceremony: four final versions are uploaded in   *)
(* an order that lets each name the versions it trusts, under a tag used    *)
(* once, with a journal written before and after every upload.  A command   *)
(* that dies is run again with --recover, which adopts an upload whose      *)
(* answer was lost.  A wrangler child that outlives its command has ended   *)
(* before the next command starts (the exclusive upload window).            *)
EXTENDS BootstrapLiveWorkers

CONSTANTS Keys,     \* the secret files an operator may pass
          Window,   \* how many versions the provider lists: ten
          FreshFor, \* how old the provider's token policy may be: 60 s
          MaxTime   \* bound on the clock

ASSUME CeremonyAssumption ==
  /\ Window \in Nat \ {0} /\ FreshFor \in Nat /\ MaxTime \in Nat
  /\ None \notin Keys

VARIABLES journal, \* None, or the entries of the result file and its torn tail
          run,     \* None, or the command's memory
          told,    \* the ready reports written to standard output
          clock

ceremonyVars == <<journal, run, told, clock>>
vars == <<bootVars, ceremonyVars>>

ROLE_ORDER == <<"ingress", "observer", "cloudflareObserver", "worm">>
Roles == Len(ROLE_ORDER)
\* The roles (by position) whose versions a role's version names.
Trusted(k) == CASE k = 3 -> {1} [] k = 4 -> {1, 2, 3} [] OTHER -> {}
Pins(k, ids) == [j \in Trusted(k) |-> ids[j]]

Input == [keys : Keys, policy : 0..MaxTime]
Fresh(input) == input.policy <= clock /\ clock - input.policy <= FreshFor
\* The configs and entrypoints still are the ones the bootstrap reported.
Unchanged == report.config = reviewed
Provenance == Loads(reviewed) /\ report # None /\ Unchanged

----------------------------------------------------------------------------
(* The journal. *)

Entry(r, status) ==
  [input |-> r.input, ids |-> r.ids, absent |-> r.absent,
   observed |-> r.observed, recovered |-> r.recovered, status |-> status]

\* Appended after a torn line, an entry is part of that line.  An entry that
\* repeats the last is left out: no reader can tell.
Malformed == [status |-> "MALFORMED"]
AppendEntry(file, entry) ==
  LET written == IF file.torn THEN Malformed ELSE entry
      last == Len(file.entries) IN
    IF last > 0 /\ file.entries[last] = written THEN file
    ELSE [file EXCEPT !.entries = Append(@, written)]
Truncated(file) == [file EXCEPT !.torn = FALSE]

\* A mutant: a recovery may bring other keys.
AnyAuthority(entry, input) == entry.input.policy = input.policy
\* The same keys and evidence, byte for byte.
SameAuthority(entry, input) == entry.input = input

\* An upload's absence was on record before it; nothing observed is ahead.
Observations(entry) ==
  /\ entry.absent \in Len(entry.ids)..(Len(entry.ids) + 1)
  /\ entry.observed <= Len(entry.ids)
  /\ entry.recovered \subseteq 1..Len(entry.ids)

EntryRestores(entry, prior, input) ==
  /\ SameAuthority(entry, input)
  /\ Len(entry.ids) \in Len(prior)..(Len(prior) + 1)
  /\ SubSeq(entry.ids, 1, Len(prior)) = prior
  /\ Observations(entry)

\* One line per entry; only the last may say the set is ready.
Parses(entries) ==
  \A e \in DOMAIN entries :
    /\ entries[e].status # "MALFORMED"
    /\ entries[e].status = "READY" => e = Len(entries)

Restores(entries, input) ==
  /\ Parses(entries)
  /\ \A e \in DOMAIN entries :
       EntryRestores(entries[e], IF e = 1 THEN <<>> ELSE entries[e - 1].ids, input)

Last == journal.entries[Len(journal.entries)]
Terminal == Last.status = "READY"

Unstarted(input, recover) ==
  [input |-> input, recover |-> recover, known |-> 0, config |-> reviewed,
   ids |-> <<>>, absent |-> 0, observed |-> 0, recovered |-> {},
   save |-> TRUE, looked |-> FALSE, phase |-> "roles"]

\* The file is created exclusively; its first entry comes later.
Apply(input) ==
  /\ run = None /\ Fresh(input) /\ Provenance
  /\ journal = None
  /\ journal' = [entries |-> <<>>, torn |-> FALSE]
  /\ run' = Unstarted(input, FALSE)
  /\ UNCHANGED <<bootVars, told, clock>>

\* An unterminated tail is cut off; every entry must be this command's.
Recover(input) ==
  /\ run = None /\ Fresh(input) /\ Provenance
  /\ journal # None /\ journal.entries # <<>>
  /\ Restores(journal.entries, input)
  /\ journal' = Truncated(journal)
  /\ run' = [Unstarted(input, TRUE) EXCEPT
               !.known = Last.absent, !.ids = Last.ids, !.absent = Last.absent,
               !.observed = IF Terminal THEN 0 ELSE Last.observed,
               !.recovered = Last.recovered, !.save = ~Terminal,
               !.phase = IF Terminal THEN "terminal" ELSE "roles"]
  /\ UNCHANGED <<bootVars, told, clock>>

Persist ==
  /\ run # None /\ run.save
  /\ LET ready == run.phase = "ready" IN
       /\ journal' = AppendEntry(journal, Entry(run, IF ready THEN "READY" ELSE "HOLD"))
       /\ run' = [run EXCEPT !.save = FALSE,
                             !.phase = IF ready THEN "output" ELSE @]
  /\ UNCHANGED <<bootVars, told, clock>>

----------------------------------------------------------------------------
(* The uploads. *)

Role == Len(run.ids) + 1
Uploading == run # None /\ ~run.save /\ run.phase = "roles" /\ Role <= Roles
Dies == run' = None

Listed(w) == {id \in DOMAIN versions[w] : id > Newest(w) - Window}
Tagged(w) == {id \in Listed(w) : versions[w][id].kind = "AUTHORITY"}
Saturated(w) == Cardinality(Listed(w)) = Window

\* The tag is unused; this is on disk before the upload is attempted.
CheckAbsent ==
  /\ Uploading /\ run.absent < Role
  /\ LET w == ROLE_ORDER[Role] IN
       IF Tagged(w) = {} /\ ~Saturated(w)
       THEN run' = [run EXCEPT !.absent = @ + 1, !.save = TRUE]
       ELSE Dies
  /\ UNCHANGED <<bootVars, journal, told, clock>>

\* A mutant: a repeated command uploads again.
NeverRecovers == FALSE
\* Only an absence an earlier command recorded can hide a lost answer.
MayRecover == run.recover /\ Role <= run.known

Matches(w, id, k) ==
  Projected(versions[w][id], "AUTHORITY", run.config, Pins(k, run.ids))

\* A mutant: a version that exists is ambiguous.
OnlyNone(w, k) == Tagged(w) = {}
Adoptable(w, k) == Cardinality(Tagged(w)) = 1 /\ \A id \in Tagged(w) : Matches(w, id, k)

Discover ==
  /\ Uploading /\ run.absent >= Role /\ MayRecover /\ ~run.looked
  /\ LET w == ROLE_ORDER[Role] IN
       \/ /\ Tagged(w) = {}
          /\ IF Saturated(w) THEN Dies ELSE run' = [run EXCEPT !.looked = TRUE]
       \/ /\ Tagged(w) # {}
          /\ IF Adoptable(w, Role)
             THEN run' = [run EXCEPT !.ids = Append(@, CHOOSE id \in Tagged(w) : TRUE),
                                     !.recovered = @ \cup {Role}, !.save = TRUE]
             ELSE Dies
  /\ UNCHANGED <<bootVars, journal, told, clock>>

Wrangler ==
  /\ Uploading /\ run.absent >= Role /\ (MayRecover => run.looked)
  /\ UNCHANGED <<reviewed, deployed, boot, report, journal, told, clock>>

\* The config is read from disk again when it is uploaded.
Final == Version("AUTHORITY", reviewed, run.input.keys, Pins(Role, run.ids))

UploadReturns ==
  /\ Wrangler
  /\ Upload(ROLE_ORDER[Role], Final)
  /\ run' = [run EXCEPT !.ids = Append(@, Newest(ROLE_ORDER[Role]) + 1),
                        !.looked = FALSE, !.save = TRUE]
  /\ UNCHANGED faults

\* The command fails, or its output is not one version, or the parent dies.
UploadLost == Wrangler /\ Fault /\ Upload(ROLE_ORDER[Role], Final) /\ Dies
UploadFails == Wrangler /\ Fault /\ UNCHANGED versions /\ Dies

----------------------------------------------------------------------------
(* The versions are read back, then the set is ready. *)

ResetObservations ==
  /\ run # None /\ ~run.save /\ run.phase = "roles" /\ Role > Roles
  /\ run' = [run EXCEPT !.observed = 0, !.save = TRUE, !.phase = "requery"]
  /\ UNCHANGED <<bootVars, journal, told, clock>>

Requery ==
  /\ run # None /\ ~run.save /\ run.phase \in {"requery", "terminal"}
  /\ run.observed < Roles
  /\ LET k == run.observed + 1 IN
       IF Matches(ROLE_ORDER[k], run.ids[k], k)
       THEN run' = [run EXCEPT !.observed = k, !.save = run.phase = "requery"]
       ELSE Dies
  /\ UNCHANGED <<bootVars, journal, told, clock>>

Ready ==
  /\ run # None /\ ~run.save /\ run.observed = Roles
  /\ run' = IF run.phase = "terminal" THEN [run EXCEPT !.phase = "output"]
            ELSE [run EXCEPT !.phase = "ready", !.save = TRUE]
  /\ run.phase \in {"requery", "terminal"}
  /\ UNCHANGED <<bootVars, journal, told, clock>>

Output ==
  /\ run # None /\ ~run.save /\ run.phase = "output"
  /\ told' = told \cup {[ids |-> run.ids, keys |-> run.input.keys]}
  /\ Dies
  /\ UNCHANGED <<bootVars, journal, clock>>

\* The process dies or a command fails; a line being appended may be torn.
Crash ==
  /\ run # None /\ Fault /\ Dies
  /\ \/ UNCHANGED journal
     \/ run.save /\ journal' = [journal EXCEPT !.torn = TRUE]
  /\ UNCHANGED <<reviewed, versions, deployed, boot, report, told, clock>>

Tick == clock < MaxTime /\ clock' = clock + 1 /\ UNCHANGED <<bootVars, journal, run, told>>

Step ==
  \/ Persist \/ CheckAbsent \/ Discover \/ UploadReturns \/ ResetObservations
  \/ Requery \/ Ready \/ Output
Commands == \E input \in Input : Apply(input) \/ Recover(input)

Init == BootInit /\ journal = None /\ run = None /\ told = {} /\ clock = 0
Next ==
  \/ BootNext /\ UNCHANGED ceremonyVars
  \/ Commands \/ Step \/ UploadLost \/ UploadFails \/ Crash \/ Tick

\* A command runs on, and the operator repeats it until a report is written.
Spec == Init /\ [][Next]_vars /\ WF_vars(Step) /\ SF_vars(\E input \in Input : Recover(input))

----------------------------------------------------------------------------
(* Types. *)

AnyPins == [{} -> Nat] \cup [Trusted(3) -> Nat] \cup [Trusted(4) -> Nat]
ProviderVersion ==
  [kind : {"BOOTSTRAP", "AUTHORITY", "OTHER"}, config : Nat, keys : Keys \cup {None},
   pins : AnyPins]
JournalEntry ==
  [input : Input, ids : Seq(Nat), absent : Nat, observed : Nat,
   recovered : SUBSET Nat, status : {"HOLD", "READY"}]
JournalFile == [entries : Seq(JournalEntry), torn : BOOLEAN]
Phase == {"roles", "requery", "ready", "terminal", "output"}
Command ==
  [input : Input, recover : BOOLEAN, known : Nat, config : Nat, ids : Seq(Nat),
   absent : Nat, observed : Nat, recovered : SUBSET Nat, save : BOOLEAN,
   looked : BOOLEAN, phase : Phase]

\* No file is none.
ASSUME NoneAssumption == None \notin JournalFile

\* The types of the provider's versions, the journal, the command and the
\* reports: no line of the journal is ever malformed.
CeremonyTypeOK ==
  /\ reviewed \in Nat /\ faults \in Nat /\ clock \in 0..MaxTime
  /\ versions \in [Worker -> Seq(ProviderVersion)] /\ deployed \in [Worker -> Nat]
  /\ boot \in {None} \cup [config : Nat, ids : Seq(Nat), seen : Nat]
  /\ report \in {None} \cup [config : Nat, ids : Seq(Nat)]
  /\ journal \in {None} \cup JournalFile
  /\ run \in {None} \cup Command
  /\ told \subseteq [ids : Seq(Nat), keys : Keys]

----------------------------------------------------------------------------
(* Properties. *)

\* Once a worker got its final version it is never uploaded to again, by the
\* ceremony or by a late bootstrap, whatever answers are lost and however often
\* the commands are repeated.
FinalVersionIsLast ==
  \A w \in Worker : \A id, other \in DOMAIN versions[w] :
    /\ versions[w][id].kind = "AUTHORITY"
    /\ versions[w][other].kind \in {"AUTHORITY", "BOOTSTRAP"}
    => other <= id

\* Every set of versions reported ready is one set: made with one operator's
\* keys from the configs the bootstrap reported, each naming exactly the
\* versions of the set it trusts; and there is one such set.
ReadyIsClosed ==
  /\ Cardinality(told) <= 1
  /\ \A set \in told : \A k \in 1..Roles :
       versions[ROLE_ORDER[k]][set.ids[k]] =
         Version("AUTHORITY", report.config, set.keys, Pins(k, set.ids))

\* Why a ceremony may be at rest without a report: no entry was written, a
\* reviewed file was changed, the list of versions shows no trace of the
\* upload and is full, or the token policy is no longer fresh.
Unrecoverable == run = None /\ journal.entries = <<>>
Changed ==
  \/ reviewed # report.config
  \/ \E w \in Worker : \E id \in DOMAIN versions[w] :
       versions[w][id].kind = "AUTHORITY" /\ versions[w][id].config # report.config
Crowded ==
  journal.entries # <<>> /\ \E k \in (Len(Last.ids) + 1)..Roles :
    Saturated(ROLE_ORDER[k]) /\ Tagged(ROLE_ORDER[k]) = {}
Stale == journal.entries # <<>> /\ clock - Last.input.policy > FreshFor
Ended == journal = None \/ told # {} \/ Unrecoverable \/ Changed \/ Crowded

\* A ceremony that was begun ends with its report or is held for one of these.
CeremonySettles == []<>(Ended \/ Stale)
=============================================================================
