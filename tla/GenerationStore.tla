-------------------------- MODULE GenerationStore --------------------------
(***************************************************************************)
(* The encrypted wallet directory of dom-wallet-storage and the two        *)
(* callers that commit to it: the wallet service (dom-wallet-core) and the *)
(* synchronization sink, which reloads and retries after a conflict.       *)
(*                                                                         *)
(* A commit is a sequence of durable writes.  Every one of them is a step  *)
(* of its own here, and after every one of them the process may crash or   *)
(* the write may report an I/O error.  The calls themselves are serialized *)
(* (the service is behind one mutex, the directory behind one file lock),  *)
(* so at most one of them, op, is in progress.                             *)
(*                                                                         *)
(* The encrypted content of a generation is abstracted to the set of       *)
(* updates it contains.                                                    *)
(***************************************************************************)
EXTENDS Naturals, FiniteSets

CONSTANTS
    Updates,            \* units of work (a send, a scanned batch, ...)
    MaxGeneration,      \* u64::MAX: a commit past it is GenerationOverflow
    MaxAttempts,        \* GENERATION_CONFLICT_MAX_ATTEMPTS
    MaxFaults           \* bound on crashes and I/O errors of one behaviour

ASSUME MaxGenerationAssumption == MaxGeneration \in Nat
ASSUME MaxAttemptsAssumption == MaxAttempts \in Nat \ {0}
ASSUME MaxFaultsAssumption == MaxFaults \in Nat

VARIABLES
    active,             \* the number in ACTIVE_FILE
    metadata,           \* active_generation in METADATA_FILE
    generations,        \* the directories under GENERATIONS_DIR
    marker,             \* PRE_MIGRATION_SNAPSHOT_FILE
    view,               \* the decrypted state in memory (unlocked)
    op,                 \* the storage call in progress
    acked,              \* updates whose caller got Ok
    faults              \* crashes and I/O errors so far

vars == <<active, metadata, generations, marker, view, op, acked, faults>>
directoryVars == <<active, metadata, generations, marker>>

Gens == 0 .. MaxGeneration

\* LegacyV1 is written only by the previous builds of the wallet.
Encodings == {"v1", "v2"}

\* A directory is torn when remove_dir_all has unlinked the envelope in it
\* and not yet the directory itself.
Slots ==
    [status : {"absent", "torn", "complete"},
     content : SUBSET Updates, encoding : Encodings]

Absent == [status |-> "absent", content |-> {}, encoding |-> "v2"]
Torn == [Absent EXCEPT !.status = "torn"]
Complete(content, encoding) ==
    [status |-> "complete", content |-> content, encoding |-> encoding]

Markers == [kind : {"missing", "none", "released", "generation"}, gen : Gens]

Views ==
    [status : {"locked", "unlocked"}, generation : Gens, content : SUBSET Updates]

Locked == [status |-> "locked", generation |-> 0, content |-> {}]

\* Where the call in progress stands: the last thing it has done.
Phases ==
    {"idle", "begun", "checked", "removing", "cleared", "written", "recorded",
     "pointed", "published", "loading", "repaired", "sweeping"}

Calls ==
    [phase : Phases, kind : {"none", "service", "sync", "unlock", "api"},
     apply : SUBSET Updates, encoding : Encodings,
     attempts : 0 .. MaxAttempts, victims : SUBSET Gens]

Idle ==
    [phase |-> "idle", kind |-> "none", apply |-> {}, encoding |-> "v2",
     attempts |-> 0, victims |-> {}]

At(phase) == op.phase = phase
Goto(phase) == op' = [op EXCEPT !.phase = phase]

TypeOK ==
    /\ active \in Gens
    /\ metadata \in Gens
    /\ generations \in [Gens -> Slots]
    /\ marker \in Markers
    /\ view \in Views
    /\ op \in Calls
    /\ acked \in SUBSET Updates
    /\ faults \in 0 .. MaxFaults

-----------------------------------------------------------------------------
(* A new wallet, or one that the previous build left behind. *)

Init ==
    /\ active = 0
    /\ metadata = 0
    /\ \E encoding \in Encodings :
         /\ generations = [g \in Gens |->
                IF g = 0 THEN Complete({}, encoding) ELSE Absent]
         /\ marker = [kind |-> IF encoding = "v2" THEN "none" ELSE "missing",
                      gen |-> 0]
    /\ view = Locked
    /\ op = Idle
    /\ acked = {}
    /\ faults = 0

-----------------------------------------------------------------------------
(* Commit. *)

\* A caller clones its unlocked state, changes it and calls commit.
Begin(kind, u, encoding) ==
    /\ At("idle")
    /\ view.status = "unlocked"
    /\ u \notin acked
    /\ op' = [Idle EXCEPT !.phase = "begun", !.kind = kind, !.apply = {u},
                          !.encoding = encoding, !.attempts = 1]
    /\ UNCHANGED <<directoryVars, view, acked, faults>>

\* Mutant: only the metadata is compared.
ExpectedByMetadata == metadata = view.generation

\* Both the pointer and the metadata must name the expected generation.
Expected == active = view.generation /\ metadata = view.generation

CheckExpected ==
    /\ At("begun")
    /\ Expected
    /\ IF view.generation = MaxGeneration THEN op' = Idle ELSE Goto("checked")
    /\ UNCHANGED <<directoryVars, view, acked, faults>>

\* ExpectedGenerationConflict: the service reports it, the sink reloads.
Conflict ==
    /\ At("begun")
    /\ ~Expected
    /\ IF op.kind = "sync" THEN Goto("loading") ELSE op' = Idle
    /\ UNCHANGED <<directoryVars, view, acked, faults>>

\* The number the commit writes; CheckExpected has excluded the overflow.
Staged == view.generation + 1

\* A generation an earlier commit left unpublished is deleted, provided its
\* envelope is there and decodes.  remove_dir_all unlinks it first.
RemoveUnpublished ==
    /\ At("checked")
    /\ CASE generations[Staged].status = "absent" ->
              Goto("cleared") /\ UNCHANGED generations
         [] generations[Staged].status = "complete" ->
              /\ generations' = [generations EXCEPT ![Staged] = Torn]
              /\ Goto("removing")
         [] generations[Staged].status = "torn" ->
              op' = Idle /\ UNCHANGED generations
    /\ UNCHANGED <<active, metadata, marker, view, acked, faults>>

RemoveDirectory ==
    /\ At("removing")
    /\ generations' = [generations EXCEPT ![Staged] = Absent]
    /\ Goto("cleared")
    /\ UNCHANGED <<active, metadata, marker, view, acked, faults>>

\* Mutant: the new generation forgets what the old one held.
WriteOnlyUpdate ==
    /\ At("cleared")
    /\ generations' = [generations EXCEPT
            ![Staged] = Complete(op.apply, op.encoding)]
    /\ Goto("written")
    /\ UNCHANGED <<active, metadata, marker, view, acked, faults>>

\* Written under a staging name, synced, renamed: it appears complete.
WriteGeneration ==
    /\ At("cleared")
    /\ generations' = [generations EXCEPT
            ![Staged] = Complete(view.content \union op.apply, op.encoding)]
    /\ Goto("written")
    /\ UNCHANGED <<active, metadata, marker, view, acked, faults>>

\* Mutant: the marker is only initialized.
RecordedOnce == IF marker.kind = "missing" THEN [kind |-> "none", gen |-> 0] ELSE marker

\* The marker after a staged generation of this encoding is recorded.
RecordedMarker ==
    IF op.encoding # "v2" THEN marker
    ELSE IF generations[active].encoding = "v1"
         THEN [kind |-> "generation", gen |-> active]
    ELSE IF marker.kind = "missing" THEN [kind |-> "none", gen |-> 0]
    ELSE marker

RecordPreMigrationSnapshot ==
    /\ At("written")
    /\ marker' = RecordedMarker
    /\ Goto("recorded")
    /\ UNCHANGED <<active, metadata, generations, view, acked, faults>>

\* Mutant: the metadata is written before the pointer.
PublishMetadataFirst ==
    /\ At("recorded")
    /\ metadata' = Staged
    /\ Goto("pointed")
    /\ UNCHANGED <<active, generations, marker, view, acked, faults>>

\* publish_pointer_and_metadata, first write: the commit takes effect.
PublishPointer ==
    /\ At("recorded")
    /\ active' = Staged
    /\ Goto("pointed")
    /\ UNCHANGED <<metadata, generations, marker, view, acked, faults>>

\* publish_pointer_and_metadata, second write.
PublishMetadata ==
    /\ At("pointed")
    /\ metadata' = Staged
    /\ Goto("published")
    /\ UNCHANGED <<active, generations, marker, view, acked, faults>>

\* Mutant: the caller counts the generation up once more.
CommitReturnsAhead ==
    /\ At("published")
    /\ view' = [view EXCEPT !.generation = Staged + 1,
                            !.content = view.content \union op.apply]
    /\ acked' = acked \union op.apply
    /\ op' = Idle
    /\ UNCHANGED <<directoryVars, faults>>

\* commit returns Ok and the caller adopts the committed state.
CommitReturns ==
    /\ At("published")
    /\ view' = [view EXCEPT !.generation = Staged,
                            !.content = view.content \union op.apply]
    /\ acked' = acked \union op.apply
    /\ op' = Idle
    /\ UNCHANGED <<directoryVars, faults>>

-----------------------------------------------------------------------------
(* Load: unlock, and the sink's recovery from a conflict. *)

Unlock ==
    /\ At("idle")
    /\ view.status = "locked"
    /\ op' = [Idle EXCEPT !.phase = "loading", !.kind = "unlock"]
    /\ UNCHANGED <<directoryVars, view, acked, faults>>

\* The rule that inspect_structure and load share.
Loadable ==
    /\ active = metadata \/ active = metadata + 1
    /\ generations[active].status = "complete"

\* Mutant: the interrupted publication is adopted but not repaired.
LoadWithoutRepair ==
    /\ At("loading")
    /\ Loadable
    /\ Goto("repaired")
    /\ UNCHANGED <<directoryVars, view, acked, faults>>

\* An interrupted publication is completed by rewriting the metadata.
LoadRepairs ==
    /\ At("loading")
    /\ Loadable
    /\ metadata' = active
    /\ Goto("repaired")
    /\ UNCHANGED <<active, generations, marker, view, acked, faults>>

\* After a reload the sink applies its batch again, at most MaxAttempts times.
LoadReturns ==
    /\ At("repaired")
    /\ view' = [status |-> "unlocked", generation |-> active,
                content |-> generations[active].content]
    /\ op' = IF op.kind = "sync" /\ op.attempts < MaxAttempts
             THEN [op EXCEPT !.phase = "begun", !.attempts = @ + 1]
             ELSE Idle
    /\ UNCHANGED <<directoryVars, acked, faults>>

Lock ==
    /\ At("idle")
    /\ view.status = "unlocked"
    /\ view' = Locked
    /\ UNCHANGED <<directoryVars, op, acked, faults>>

-----------------------------------------------------------------------------
(* Removal of old generations. *)

Present == {g \in Gens : generations[g].status # "absent"}

\* pre_migration_snapshot_generation
Snapshot ==
    IF marker.kind = "generation" /\ marker.gen \in Present
    THEN {marker.gen} ELSE {}

\* The newest generation below the active one (RETAIN_SUPERSEDED_GENERATIONS).
LatestPredecessor ==
    {g \in Present : /\ g < active
                     /\ \A h \in Present : h < active => h <= g}

\* Mutant: routine cleanup does not know about the snapshot.
RetainedWithoutSnapshot(protected) ==
    {active} \union protected \union LatestPredecessor

Retained(protected) ==
    {active} \union protected \union Snapshot \union LatestPredecessor

CleanupSuperseded(protected) ==
    /\ At("idle")
    /\ active \in Present
    /\ op' = [Idle EXCEPT !.phase = "sweeping", !.kind = "api",
                          !.victims = Present \ Retained(protected)]
    /\ UNCHANGED <<directoryVars, view, acked, faults>>

\* The marker is written before the directory goes.
ReleasePreMigrationSnapshot ==
    /\ At("idle")
    /\ Snapshot # {}
    /\ marker.gen # active
    /\ marker' = [kind |-> "released", gen |-> 0]
    /\ op' = [Idle EXCEPT !.phase = "sweeping", !.kind = "api",
                          !.victims = {marker.gen}]
    /\ UNCHANGED <<active, metadata, generations, view, acked, faults>>

\* remove_dir_all on the lowest victim: the envelope, then the directory.
SweepOne(g) ==
    /\ At("sweeping")
    /\ g \in op.victims
    /\ \A h \in op.victims : g <= h
    /\ IF generations[g].status = "complete"
       THEN /\ generations' = [generations EXCEPT ![g] = Torn]
            /\ UNCHANGED op
       ELSE /\ generations' = [generations EXCEPT ![g] = Absent]
            /\ op' = [op EXCEPT !.victims = @ \ {g}]
    /\ UNCHANGED <<active, metadata, marker, view, acked, faults>>

SweepReturns ==
    /\ At("sweeping")
    /\ op.victims = {}
    /\ op' = Idle
    /\ UNCHANGED <<directoryVars, view, acked, faults>>

-----------------------------------------------------------------------------
(* Faults. *)

\* The call in progress returns an error: a write or a sync failed, the state
\* did not validate or did not fit, or the metadata could not be read back.
CallFails ==
    /\ ~At("idle")
    /\ faults < MaxFaults
    /\ op' = Idle
    /\ faults' = faults + 1
    /\ UNCHANGED <<directoryVars, view, acked>>

Crash ==
    /\ faults < MaxFaults
    /\ view' = Locked
    /\ op' = Idle
    /\ faults' = faults + 1
    /\ UNCHANGED <<directoryVars, acked>>

-----------------------------------------------------------------------------

CommitStep ==
    \/ CheckExpected
    \/ Conflict
    \/ RemoveUnpublished
    \/ RemoveDirectory
    \/ WriteGeneration
    \/ RecordPreMigrationSnapshot
    \/ PublishPointer
    \/ PublishMetadata
    \/ CommitReturns

LoadStep == LoadRepairs \/ LoadReturns

SweepStep == SweepReturns \/ \E g \in Gens : SweepOne(g)

Next ==
    \/ \E kind \in {"service", "sync"}, u \in Updates, encoding \in Encodings :
          Begin(kind, u, encoding)
    \/ CommitStep
    \/ Unlock
    \/ LoadStep
    \/ Lock
    \/ \E protected \in SUBSET Present : CleanupSuperseded(protected)
    \/ ReleasePreMigrationSnapshot
    \/ SweepStep
    \/ CallFails
    \/ Crash

\* A call that has started keeps running; nobody is obliged to start one.
Fairness == WF_vars(CommitStep) /\ WF_vars(LoadStep) /\ WF_vars(SweepStep)

Spec == Init /\ [][Next]_vars /\ Fairness

-----------------------------------------------------------------------------
(* Properties. *)

\* Whenever the process dies, the next unlock finds a state: the pointer is
\* the metadata's generation or its successor (load's rule) and names a
\* complete directory, whatever stage, publish, cleanup or release was doing.
AlwaysLoadable == Loadable

\* An update whose caller got Ok from commit is in the durable state, after
\* any number of crashes, conflicts, reloads and retries.
AckedIsDurable == acked \subseteq generations[active].content

\* The generation the pre-migration marker names is complete, legacy, and
\* already published: cleanup, a later commit's removal of unpublished
\* generations and a half-finished release never take it away.
SnapshotRecoverable ==
    marker.kind = "generation" =>
        /\ generations[marker.gen].status = "complete"
        /\ generations[marker.gen].encoding = "v1"
        /\ marker.gen <= active

\* A compact generation replaces a legacy one only when the marker already
\* names the legacy one (record_pre_migration_snapshot runs before the
\* pointer moves).
LegacyRecordedBeforeReplaced ==
    [][ active' # active
          /\ generations[active].encoding = "v1"
          /\ generations'[active'].encoding = "v2"
        => marker' = [kind |-> "generation", gen |-> active] ]_vars

\* Once published, a generation is never rewritten: it keeps its bytes until
\* it is deleted, and the active one is not deleted.
PublishedImmutable ==
    [][ \A g \in Gens :
          g <= active /\ generations'[g] # generations[g]
          => g # active /\ generations'[g].status # "complete" ]_vars

\* The directory implements the atomic store: a commit takes effect at the
\* pointer write, all at once, on top of everything committed before it.
Abstract == INSTANCE AtomicStore WITH
    version <- active, value <- generations[active].content

AtomicCommits == Abstract!ASpec

\* The generation a commit would have to remove first and cannot.
Blocked ==
    \/ active = MaxGeneration
    \/ generations[active + 1].status = "torn"

\* A scan batch that meets a stale in-memory state (an earlier commit was
\* published but reported an error) is reloaded, applied again and committed,
\* provided nothing else fails.
StaleSyncCommits ==
    \A u \in Updates :
        At("loading") /\ op.kind = "sync" /\ op.apply = {u} /\ faults = MaxFaults
            ~> u \in acked \/ Blocked

\* specs/0004, crash matrix: an incomplete staging left by a crash is removed
\* or ignored.  A commit never meets a directory it refuses to remove.
IncompleteStagingIgnored ==
    At("checked") => generations[Staged].status # "torn"
=============================================================================
