--------------------------- MODULE StorageProofs ----------------------------
(***************************************************************************)
(* What is kept on disk and survives a crash: the generations of the       *)
(* wallet state, the directories that wallets are created, restored and    *)
(* imported into, and the releases of the managed node.                    *)
(***************************************************************************)
EXTENDS GenerationStore, WalletProvisioning, ManagedNode, TLAPS

\* Leaves that name no prover are for Zenon.
USE ZenonT(30)

-----------------------------------------------------------------------------
(***************************************************************************)
(* What GenerationStore keeps for every set of updates and every bound on  *)
(* generations, attempts and faults.                                       *)
(*                                                                         *)
(* The properties are not inductive by themselves: that a commit loses     *)
(* nothing depends on the in-memory view, which may be stale, being equal  *)
(* to the active generation whenever it carries its number, and on what    *)
(* each phase of a call has already checked or written.                    *)
(***************************************************************************)
\* The phases of a commit before and after the pointer has moved.
Preparing == {"checked", "removing", "cleared", "written", "recorded"}
Moved == {"pointed", "published"}

\* The generation a commit has written.
Produced == Complete(view.content \union op.apply, op.encoding)

\* The pointer is at the metadata's generation or one ahead, at a complete one.
PointerInv ==
    /\ active = metadata \/ active = metadata + 1
    /\ generations[active].status = "complete"

\* The view is never ahead of the disk, and is exact when it is not behind.
ViewInv ==
    view.status = "unlocked" =>
        /\ view.generation <= active
        /\ view.generation = active => view.content = generations[active].content

\* A commit works for one update on an unlocked view.
CallInv ==
    /\ op.phase \in {"begun"} \union Preparing \union Moved =>
          view.status = "unlocked" /\ op.kind \in {"service", "sync"}
    /\ op.kind \in {"service", "sync"} => \E u \in Updates : op.apply = {u}

\* What a commit has checked and written so far.
PhaseInv ==
    /\ op.phase \in Preparing =>
          /\ active = view.generation /\ metadata = view.generation
          /\ view.generation < MaxGeneration
    /\ op.phase \in {"written", "recorded"} => generations[Staged] = Produced
    /\ op.phase = "recorded" /\ op.encoding = "v2" /\ generations[active].encoding = "v1" =>
          marker = [kind |-> "generation", gen |-> active]
    /\ op.phase \in Moved => active = Staged /\ generations[active] = Produced
    /\ op.phase = "pointed" => metadata = view.generation
    /\ op.phase \in {"published", "repaired"} => metadata = active

\* A sweep deletes neither the active generation nor the snapshot.
SweepInv ==
    op.phase = "sweeping" =>
        /\ active \notin op.victims
        /\ marker.kind = "generation" => marker.gen \notin op.victims

IInv ==
    /\ TypeOK
    /\ PointerInv
    /\ ViewInv
    /\ CallInv
    /\ PhaseInv
    /\ SweepInv
    /\ AckedIsDurable
    /\ SnapshotRecoverable

USE DEF At, Goto

-----------------------------------------------------------------------------
(* Types. *)

\* Directories, idle calls and the locked view have their types.
LEMMA RecordTypes ==
    /\ Absent \in Slots /\ Torn \in Slots
    /\ \A content \in SUBSET Updates, encoding \in Encodings :
          Complete(content, encoding) \in Slots
    /\ Idle \in Calls
    /\ Locked \in Views
  BY SMT, MaxGenerationAssumption, MaxAttemptsAssumption
     DEF Absent, Torn, Complete, Slots, Encodings, Idle, Calls, Phases, Locked,
         Views, Gens

\* A call that only moves on to another phase keeps its type.
LEMMA GotoType ==
    ASSUME op \in Calls, NEW phase \in Phases, op' = [op EXCEPT !.phase = phase]
    PROVE  op' \in Calls
  BY DEF Calls

\* Every step of the directory, its callers and its faults keeps the types.
LEMMA TypeStep == IInv /\ [Next]_vars => TypeOK'
  <1> SUFFICES ASSUME IInv, [Next]_vars PROVE TypeOK'
    OBVIOUS
  <1> TypeOK /\ PhaseInv
    BY DEF IInv
  <1> USE MaxGenerationAssumption, MaxAttemptsAssumption, MaxFaultsAssumption,
          RecordTypes DEF TypeOK
  <1>a. /\ active \in Nat /\ MaxGeneration \in Nat
        /\ \A g \in Gens : g \in Nat /\ g <= MaxGeneration
        /\ \A n \in Nat : n < MaxGeneration => n + 1 \in Gens
        /\ view.generation \in Gens
    BY SMT DEF Gens, Views
  <1>1. ASSUME NEW kind \in {"service", "sync"}, NEW u \in Updates,
               NEW encoding \in Encodings, Begin(kind, u, encoding)
        PROVE TypeOK'
    <2>1. op' = [phase |-> "begun", kind |-> kind, apply |-> {u},
                 encoding |-> encoding, attempts |-> 1, victims |-> {}]
      BY <1>1 DEF Begin, Idle
    <2>a. 1 \in 0 .. MaxAttempts /\ {u} \in SUBSET Updates
      BY SMT
    <2>2. op' \in Calls
      BY <2>1, <2>a DEF Calls, Phases
    <2> QED
      BY <1>1, <2>2 DEF Begin, directoryVars
  <1>2. CASE CheckExpected
    BY <1>2, GotoType DEF CheckExpected, directoryVars, Phases
  <1>3. CASE Conflict
    BY <1>3, GotoType DEF Conflict, directoryVars, Phases
  <1>4. CASE RemoveUnpublished
    <2>a. generations[Staged].status \in {"absent", "torn", "complete"}
      BY <1>4, <1>a DEF RemoveUnpublished, PhaseInv, Preparing, Staged, Slots
    <2>1. generations' \in [Gens -> Slots]
      BY <1>4, <2>a DEF RemoveUnpublished
    <2>2. op' = Idle \/ op' = [op EXCEPT !.phase = "cleared"]
                    \/ op' = [op EXCEPT !.phase = "removing"]
      BY <1>4, <2>a DEF RemoveUnpublished
    <2> QED
      BY <1>4, <2>1, <2>2, GotoType DEF RemoveUnpublished, Phases
  <1>5. CASE RemoveDirectory
    BY <1>5, GotoType DEF RemoveDirectory, Phases
  <1>6. CASE WriteGeneration
    <2>1. view.content \union op.apply \in SUBSET Updates /\ op.encoding \in Encodings
      BY DEF Views, Calls
    <2> QED
      BY <1>6, <2>1, GotoType DEF WriteGeneration, Phases
  <1>7. CASE RecordPreMigrationSnapshot
    <2>1. marker' \in Markers
      BY SMT, <1>7, <1>a DEF RecordPreMigrationSnapshot, RecordedMarker, Markers, Gens
    <2> QED
      BY <1>7, <2>1, GotoType DEF RecordPreMigrationSnapshot, Phases
  <1>8. CASE PublishPointer
    <2>1. Staged \in Gens
      BY <1>8, <1>a DEF PublishPointer, PhaseInv, Preparing, Staged
    <2> QED
      BY <1>8, <2>1, GotoType DEF PublishPointer, Phases
  <1>9. CASE PublishMetadata
    <2>1. Staged \in Gens
      BY <1>9, <1>a DEF PublishMetadata, PhaseInv, Moved
    <2> QED
      BY <1>9, <2>1, GotoType DEF PublishMetadata, Phases
  <1>10. CASE CommitReturns
    <2>1. Staged \in Gens
      BY <1>10, <1>a DEF CommitReturns, PhaseInv, Moved
    <2>2. view' \in Views /\ acked' \in SUBSET Updates
      BY <1>10, <2>1 DEF CommitReturns, Views, Calls
    <2> QED
      BY <1>10, <2>2 DEF CommitReturns, directoryVars
  <1>11. CASE LoadRepairs
    BY <1>11, GotoType DEF LoadRepairs, Phases
  <1>12. CASE LoadReturns
    <2>1. view' \in Views
      BY <1>12 DEF LoadReturns, Views, Slots
    <2>2. op' \in Calls
      <3>1. op.attempts < MaxAttempts => op.attempts + 1 \in 0 .. MaxAttempts
        BY SMT DEF Calls
      <3>2. CASE op.kind = "sync" /\ op.attempts < MaxAttempts
        <4>1. op' = [op EXCEPT !.phase = "begun", !.attempts = @ + 1]
          BY <1>12, <3>2 DEF LoadReturns
        <4> QED
          BY <4>1, <3>1, <3>2 DEF Calls, Phases
      <3>3. CASE ~(op.kind = "sync" /\ op.attempts < MaxAttempts)
        BY <1>12, <3>3 DEF LoadReturns
      <3> QED
        BY <3>2, <3>3
    <2> QED
      BY <1>12, <2>1, <2>2 DEF LoadReturns, directoryVars
  <1>13. CASE Unlock
    <2>1. op' \in Calls
      BY <1>13 DEF Unlock, Idle, Calls, Phases
    <2> QED
      BY <1>13, <2>1 DEF Unlock, directoryVars
  <1>14. CASE Lock
    BY <1>14 DEF Lock, directoryVars
  <1>15. ASSUME NEW protected \in SUBSET Present, CleanupSuperseded(protected)
         PROVE TypeOK'
    <2>1. op' \in Calls
      BY <1>15 DEF CleanupSuperseded, Present, Idle, Calls, Phases
    <2> QED
      BY <1>15, <2>1 DEF CleanupSuperseded, directoryVars
  <1>16. CASE ReleasePreMigrationSnapshot
    <2>1. marker' \in Markers
      BY SMT, <1>16, <1>a DEF ReleasePreMigrationSnapshot, Markers, Gens
    <2>2. op' \in Calls
      BY <1>16 DEF ReleasePreMigrationSnapshot, Markers, Idle, Calls, Phases
    <2> QED
      BY <1>16, <2>1, <2>2 DEF ReleasePreMigrationSnapshot
  <1>17. ASSUME NEW g \in Gens, SweepOne(g)
         PROVE TypeOK'
    <2>1. op' \in Calls
      BY SMT, <1>17 DEF SweepOne, Calls
    <2> QED
      BY <1>17, <2>1 DEF SweepOne
  <1>18. CASE SweepReturns
    BY <1>18 DEF SweepReturns, directoryVars
  <1>19. CASE CallFails
    BY SMT, <1>19 DEF CallFails, directoryVars
  <1>20. CASE Crash
    BY SMT, <1>20 DEF Crash, directoryVars
  <1>21. CASE UNCHANGED vars
    BY <1>21 DEF vars
  <1> QED
    BY <1>1, <1>2, <1>3, <1>4, <1>5, <1>6, <1>7, <1>8, <1>9, <1>10, <1>11,
       <1>12, <1>13, <1>14, <1>15, <1>16, <1>17, <1>18, <1>19, <1>20, <1>21
       DEF Next, CommitStep, LoadStep, SweepStep

-----------------------------------------------------------------------------
(* The inductive invariant. *)

\* A new or a legacy wallet directory satisfies the invariant.
LEMMA InvInit == Init => IInv
  <1> SUFFICES ASSUME Init PROVE IInv
    OBVIOUS
  <1>1. TypeOK
    BY SMT, RecordTypes, MaxGenerationAssumption, MaxFaultsAssumption
       DEF Init, TypeOK, Gens, Markers, Encodings
  <1> QED
    BY SMT, <1>1, MaxGenerationAssumption
       DEF Init, IInv, PointerInv, ViewInv, CallInv, PhaseInv, SweepInv,
           AckedIsDurable, SnapshotRecoverable, Preparing, Moved, Idle, Locked,
           Gens, Complete

\* Every step keeps the invariant; TypeStep has the types.
LEMMA InvStep == IInv /\ [Next]_vars => IInv'
  <1> SUFFICES ASSUME IInv, [Next]_vars PROVE IInv'
    OBVIOUS
  <1>t. TypeOK /\ TypeOK'
    BY TypeStep DEF IInv
  <1>n. /\ active \in Nat /\ metadata \in Nat /\ view.generation \in Nat
        /\ active \in Gens /\ metadata \in Gens /\ view.generation \in Gens
        /\ marker.gen \in Gens
    BY SMT, <1>t, MaxGenerationAssumption DEF TypeOK, Gens, Views, Markers
  <1> DEFINE Rest == /\ PointerInv /\ ViewInv /\ CallInv /\ PhaseInv
                     /\ SweepInv /\ AckedIsDurable /\ SnapshotRecoverable
  <1>i. Rest
    BY DEF IInv
  <1> SUFFICES Rest'
    BY <1>t DEF IInv
  <1> USE <1>i, <1>n DEF PointerInv, ViewInv, CallInv, PhaseInv, SweepInv,
          AckedIsDurable, SnapshotRecoverable, Preparing, Moved, Staged, Produced
  <1>1. ASSUME NEW kind \in {"service", "sync"}, NEW u \in Updates,
               NEW encoding \in Encodings, Begin(kind, u, encoding)
        PROVE Rest'
    BY SMT, <1>1 DEF Begin, directoryVars, Idle
  <1>2. CASE CheckExpected
    <2>1. view.generation # MaxGeneration => view.generation < MaxGeneration
      BY SMT, MaxGenerationAssumption DEF Gens
    <2> QED
      BY SMT, <1>2, <1>t, <2>1 DEF CheckExpected, directoryVars, Idle, Expected, TypeOK, Calls
  <1>3. CASE Conflict
    BY SMT, <1>3, <1>t DEF Conflict, directoryVars, Idle, TypeOK, Calls
  <1>4. CASE RemoveUnpublished
    <2>1. Staged \in Gens /\ Staged # active
      BY SMT, <1>4, MaxGenerationAssumption DEF RemoveUnpublished, Gens
    <2>2. generations[Staged].status \in {"absent", "torn", "complete"}
      BY <1>t, <2>1 DEF TypeOK, Slots
    <2>3. generations'[active] = generations[active]
      BY <1>4, <1>t, <2>1, <2>2 DEF RemoveUnpublished, TypeOK
    <2>4. marker.kind = "generation" => generations'[marker.gen] = generations[marker.gen]
      <3>1. marker.kind = "generation" => marker.gen # Staged
        BY SMT, <1>4, MaxGenerationAssumption DEF RemoveUnpublished, Gens
      <3> QED
        BY <1>4, <1>t, <2>1, <2>2, <3>1 DEF RemoveUnpublished, TypeOK
    <2>5. \/ op' = Idle
          \/ op' = [op EXCEPT !.phase = "cleared"]
          \/ op' = [op EXCEPT !.phase = "removing"]
      BY <1>4, <2>2 DEF RemoveUnpublished
    <2> QED
      BY SMT, <1>4, <1>t, <2>3, <2>4, <2>5 DEF RemoveUnpublished, Idle, TypeOK, Calls
  <1>5. CASE RemoveDirectory
    BY SMT, <1>5, <1>t DEF RemoveDirectory, TypeOK, Calls
  <1>6. CASE WriteGeneration
    BY SMT, <1>6, <1>t DEF WriteGeneration, TypeOK, Calls
  <1>7. CASE RecordPreMigrationSnapshot
    BY SMT, <1>7, <1>t DEF RecordPreMigrationSnapshot, RecordedMarker, TypeOK, Calls
  <1>8. CASE PublishPointer
    <2>1. /\ generations[Staged] = Produced
          /\ active' = Staged /\ Staged = active + 1 /\ metadata' = active
          /\ UNCHANGED <<generations, marker, view, acked>>
          /\ op' = [op EXCEPT !.phase = "pointed"]
      BY <1>8 DEF PublishPointer
    <2>2. Produced.status = "complete" /\ Produced.content = view.content \union op.apply
      BY DEF Complete
    <2>3. op'.apply = op.apply /\ op'.kind = op.kind /\ op'.encoding = op.encoding
          /\ op'.phase = "pointed"
      BY <2>1, <1>t DEF TypeOK, Calls
    <2>4. view.status = "unlocked" /\ view.content = generations[active].content
      BY <1>8 DEF PublishPointer
    <2>5. AckedIsDurable' /\ PointerInv' /\ ViewInv'
      <3>1. generations'[active'] = Produced
        BY <2>1
      <3>2. AckedIsDurable'
        BY <3>1, <2>1, <2>2, <2>4
      <3>3. PointerInv'
        BY <3>1, <2>1, <2>2
      <3>4. ViewInv'
        BY SMT, <3>1, <2>1, <2>4, <1>8 DEF PublishPointer
      <3> QED
        BY <3>2, <3>3, <3>4
    <2>6. SnapshotRecoverable'
      BY SMT, <2>1, MaxGenerationAssumption DEF Gens
    <2> QED
      BY <1>8, <2>1, <2>2, <2>3, <2>4, <2>5, <2>6 DEF PublishPointer
  <1>9. CASE PublishMetadata
    BY <1>9, <1>t DEF PublishMetadata, TypeOK, Calls
  <1>10. CASE CommitReturns
    BY SMT, <1>10, <1>t DEF CommitReturns, directoryVars, Idle, TypeOK, Calls, Complete
  <1>11. CASE LoadRepairs
    BY SMT, <1>11, <1>t DEF LoadRepairs, TypeOK, Calls
  <1>12. CASE LoadReturns
    BY SMT, <1>12, <1>t DEF LoadReturns, directoryVars, Idle, TypeOK, Calls
  <1>13. CASE Unlock
    BY <1>13 DEF Unlock, directoryVars, Idle
  <1>14. CASE Lock
    BY <1>14 DEF Lock, directoryVars, Locked
  <1>15. ASSUME NEW protected \in SUBSET Present, CleanupSuperseded(protected)
         PROVE Rest'
    BY SMT, <1>15 DEF CleanupSuperseded, directoryVars, Idle, Retained, Snapshot, Present
  <1>16. CASE ReleasePreMigrationSnapshot
    BY SMT, <1>16 DEF ReleasePreMigrationSnapshot, Idle
  <1>17. ASSUME NEW g \in Gens, SweepOne(g)
         PROVE Rest'
    BY SMT, <1>17, <1>t DEF SweepOne, TypeOK, Calls
  <1>18. CASE SweepReturns
    BY <1>18 DEF SweepReturns, directoryVars, Idle
  <1>19. CASE CallFails
    BY <1>19 DEF CallFails, directoryVars, Idle
  <1>20. CASE Crash
    BY <1>20 DEF Crash, directoryVars, Idle, Locked
  <1>21. CASE UNCHANGED vars
    BY SMT, <1>21 DEF vars
  <1> QED
    BY <1>1, <1>2, <1>3, <1>4, <1>5, <1>6, <1>7, <1>8, <1>9, <1>10, <1>11,
       <1>12, <1>13, <1>14, <1>15, <1>16, <1>17, <1>18, <1>19, <1>20, <1>21
       DEF Next, CommitStep, LoadStep, SweepStep

-----------------------------------------------------------------------------
(* Invariance. *)

\* The invariant holds in every state the directory and its callers reach.
THEOREM Invariance == Spec => []IInv
  <1>1. Init => IInv
    BY InvInit
  <1>2. IInv /\ [Next]_vars => IInv'
    BY InvStep
  <1> QED
    BY <1>1, <1>2, PTL DEF Spec

\* Types are kept: generation numbers in particular never pass u64::MAX.
THEOREM TypeCorrect == Spec => []TypeOK
  <1>1. IInv => TypeOK
    BY DEF IInv
  <1> QED
    BY <1>1, Invariance, PTL

\* After a crash or an I/O error at any write of stage, publish, cleanup or
\* release, the next load finds a complete generation.
THEOREM Loadability == Spec => []AlwaysLoadable
  <1>1. IInv => AlwaysLoadable
    BY DEF IInv, PointerInv, AlwaysLoadable, Loadable
  <1> QED
    BY <1>1, Invariance, PTL

\* What commit acknowledged is never lost, however stale the view was.
THEOREM Durability == Spec => []AckedIsDurable
  <1>1. IInv => AckedIsDurable
    BY DEF IInv
  <1> QED
    BY <1>1, Invariance, PTL

\* The generation the pre-migration marker names stays recoverable.
THEOREM SnapshotKept == Spec => []SnapshotRecoverable
  <1>1. IInv => SnapshotRecoverable
    BY DEF IInv
  <1> QED
    BY <1>1, Invariance, PTL
-----------------------------------------------------------------------------
(* Steps.  Only PublishPointer moves the pointer. *)

\* The pointer moves only to the generation the running commit produced.
LEMMA PointerStep ==
    ASSUME IInv, [Next]_vars, active' # active
    PROVE  PublishPointer
  BY DEF Next, CommitStep, LoadStep, SweepStep, Begin, CheckExpected, Conflict,
         RemoveUnpublished, RemoveDirectory, WriteGeneration,
         RecordPreMigrationSnapshot, PublishMetadata, CommitReturns, LoadRepairs,
         LoadReturns, Unlock, Lock, CleanupSuperseded, ReleasePreMigrationSnapshot,
         SweepOne, SweepReturns, CallFails, Crash, vars, directoryVars

\* A published generation changes only by deletion, in a sweep.
LEMMA GenerationStep ==
    ASSUME IInv, [Next]_vars, NEW g \in Gens, g <= active,
           generations'[g] # generations[g]
    PROVE  /\ g # active
           /\ generations'[g] \in {Torn, Absent}
           /\ active' = active
  <1>1. /\ TypeOK /\ PhaseInv /\ SweepInv
        /\ active \in Nat /\ g \in Nat
    BY SMT, MaxGenerationAssumption DEF IInv, TypeOK, Gens
  <1>2. At("checked") \/ At("removing") \/ At("cleared") => Staged # g
    BY SMT, <1>1, MaxGenerationAssumption DEF PhaseInv, Preparing, Staged
  <1>3. ~RemoveUnpublished
    <2>1. SUFFICES ASSUME RemoveUnpublished PROVE FALSE
      OBVIOUS
    <2>2. active + 1 \in Gens /\ Staged = active + 1
      BY SMT, <2>1, <1>1, MaxGenerationAssumption
         DEF RemoveUnpublished, PhaseInv, Preparing, Staged, Gens
    <2>3. generations[Staged].status \in {"absent", "torn", "complete"}
      BY <1>1, <2>2 DEF TypeOK, Slots
    <2> QED
      BY <2>1, <2>3, <1>1, <1>2 DEF RemoveUnpublished, TypeOK
  <1>4. ~RemoveDirectory /\ ~WriteGeneration
    BY <1>1, <1>2 DEF RemoveDirectory, WriteGeneration, TypeOK
  <1>5. \E h \in Gens : SweepOne(h)
    BY <1>3, <1>4 DEF Next, CommitStep, LoadStep, SweepStep, Begin, CheckExpected,
         Conflict, RecordPreMigrationSnapshot, PublishPointer, PublishMetadata,
         CommitReturns, LoadRepairs, LoadReturns, Unlock, Lock, CleanupSuperseded,
         ReleasePreMigrationSnapshot, SweepReturns, CallFails, Crash, vars, directoryVars
  <1> QED
    BY <1>1, <1>5 DEF SweepOne, SweepInv, TypeOK

\* record_pre_migration_snapshot has run whenever the pointer leaves a legacy
\* generation for a compact one.
THEOREM LegacyRecorded == Spec => LegacyRecordedBeforeReplaced
  <1> DEFINE A == active' # active
                    /\ generations[active].encoding = "v1"
                    /\ generations'[active'].encoding = "v2"
                  => marker' = [kind |-> "generation", gen |-> active]
  <1>1. IInv /\ [Next]_vars => [A]_vars
    <2> SUFFICES ASSUME IInv, [Next]_vars, active' # active,
                        generations[active].encoding = "v1",
                        generations'[active'].encoding = "v2"
                 PROVE  marker' = [kind |-> "generation", gen |-> active]
      OBVIOUS
    <2>1. PublishPointer
      BY PointerStep
    <2> QED
      BY SMT, <2>1 DEF PublishPointer, IInv, PhaseInv, Preparing, Produced, Complete
  <1> QED
    BY <1>1, Invariance, PTL DEF Spec, LegacyRecordedBeforeReplaced

\* No step rewrites a published generation, and none deletes the active one.
THEOREM Immutability == Spec => PublishedImmutable
  <1> DEFINE A == \A g \in Gens :
                    g <= active /\ generations'[g] # generations[g]
                    => g # active /\ generations'[g].status # "complete"
  <1>1. IInv /\ [Next]_vars => [A]_vars
    BY SMT, GenerationStep DEF Torn, Absent
  <1> QED
    BY <1>1, Invariance, PTL DEF Spec, PublishedImmutable

-----------------------------------------------------------------------------
(* Refinement. *)

\* The directory implements the atomic store: the pointer write is the whole
\* effect of a commit, and adds its update to all that was there.
THEOREM Refinement == Spec => AtomicCommits
  <1>1. Init => Abstract!AInit
    BY SMT, MaxGenerationAssumption DEF Init, Abstract!AInit, Gens, Complete
  <1>2. IInv /\ [Next]_vars => [Abstract!ANext]_(Abstract!avars)
    <2> SUFFICES ASSUME IInv, [Next]_vars
                 PROVE  Abstract!ANext \/ UNCHANGED Abstract!avars
      BY DEF Abstract!avars
    <2>n. active \in Gens /\ active \in Nat /\ active <= active
      BY SMT, MaxGenerationAssumption DEF IInv, TypeOK, Gens
    <2>1. CASE PublishPointer
      <3>1. PICK u \in Updates : op.apply = {u}
        BY <2>1 DEF PublishPointer, IInv, CallInv, Preparing
      <3>2. /\ generations[Staged] = Produced /\ active' = Staged
            /\ Staged = active + 1
            /\ view.content = generations[active].content
            /\ UNCHANGED <<generations, acked>>
        BY <2>1 DEF PublishPointer, IInv, PhaseInv, CallInv, ViewInv, Preparing, Staged
      <3>3. Abstract!Publish(u)
        BY SMT, <3>1, <3>2 DEF Abstract!Publish, Produced, Complete
      <3> QED
        BY <3>3 DEF Abstract!ANext
    <2>2. CASE CommitReturns
      <3>1. PICK u \in Updates : op.apply = {u}
        BY <2>2 DEF CommitReturns, IInv, CallInv, Moved
      <3>2. /\ u \in generations[active].content
            /\ acked' = acked \union {u}
            /\ UNCHANGED <<active, generations>>
        BY SMT, <2>2, <3>1 DEF CommitReturns, IInv, PhaseInv, Moved, Produced, Complete, directoryVars
      <3>3. Abstract!Acknowledge(u)
        BY <3>2 DEF Abstract!Acknowledge
      <3> QED
        BY <3>3 DEF Abstract!ANext
    <2>3. CASE ~PublishPointer /\ ~CommitReturns
      <3>1. UNCHANGED <<active, acked>>
        BY <2>3, PointerStep
           DEF Next, CommitStep, LoadStep, SweepStep, Begin, CheckExpected, Conflict,
               RemoveUnpublished, RemoveDirectory, WriteGeneration,
               RecordPreMigrationSnapshot, PublishMetadata, LoadRepairs, LoadReturns,
               Unlock, Lock, CleanupSuperseded, ReleasePreMigrationSnapshot,
               SweepOne, SweepReturns, CallFails, Crash, vars, directoryVars
      <3>2. generations'[active] = generations[active]
        BY <2>n, GenerationStep
      <3> QED
        BY <3>1, <3>2 DEF Abstract!avars
    <2> QED
      BY <2>1, <2>2, <2>3
  <1> QED
    BY <1>1, <1>2, Invariance, PTL DEF Spec, AtomicCommits, Abstract!ASpec

HIDE DEF At, Goto


-----------------------------------------------------------------------------
(***************************************************************************)
(* How wallet directories come to exist, for any number of names, phrases  *)
(* and blocks. The invariant says, for the installation or restore in      *)
(* progress, what its stage holds and that nothing is at its destination.  *)
(***************************************************************************)
USE MaxBlocksAssumption

Directories ==
    [kind : {"absent", "empty", "partial", "wallet"}, seed : Seeds \union {"none"},
     confirmed : BOOLEAN, status : {"none", "in_progress", "complete"},
     scanned : Nat, staged : BOOLEAN]

CallRecords ==
    [cmd : {"create", "restore", "resume", "import", "seed"}, name : Names,
     place : {"root", "import", "seed"}, at : {"mkdir", "publish", "rename", "open"},
     content : Directories]

Shapes ==
    /\ disk \in [Names -> [Places -> Directories]]
    /\ backup \in Directories
    /\ blocks \in Nat \ {0}

\* A staged restore that has been published is complete.
Fine(d) == d.staged => d.status = "complete"

Open == {"root", "create", "import", "import_create"}

DirInv ==
    /\ \A n \in Names :
          /\ disk[n]["root"].kind \in {"absent", "empty", "wallet"}
          /\ \A p \in Open : Fine(disk[n][p])
          /\ disk[n]["seed"].status = "complete" => disk[n]["seed"].scanned > 0
    /\ Fine(backup)

\* The stage of the installation in progress is what the next step expects, and
\* its destination is free until the wallet is there.
CommandInv ==
    call # NoCall =>
        /\ call \in CallRecords
        /\ IsWallet(call.content)
        /\ call.cmd \in {"create", "restore", "resume"} => call.place = "root"
        /\ call.cmd = "import" => call.place \in {"root", "import"}
        /\ call.cmd = "seed" => call.place = "seed" /\ call.content.status = "in_progress"
        /\ call.cmd # "seed" => Fine(call.content)
        /\ call.at = "rename" => disk[call.name][Staging(call.place)] = call.content
        /\ call.at = "open" => disk[call.name][call.place] = call.content
        /\ call.at # "open" \/ call.place # "root" => ~Exists(call.name, "root")

SessionInv ==
    session # NoSession =>
        /\ session \in [name : Names, seed : Seeds \union {"none"}, ready : BOOLEAN]
        /\ IsWallet(Stage)
        /\ session.ready => Stage.scanned > 0

\* One thing at a time, and the open wallet is there.
ServiceInv ==
    /\ call = NoCall \/ session = NoSession
    /\ ~Quiet => service = Closed
    /\ service # Closed =>
          /\ service \in [phase : {"locked", "unlocked"}, name : Names, confirmed : BOOLEAN]
          /\ IsWallet(Opened)

ProvisioningInv == Shapes /\ DirInv /\ CommandInv /\ SessionInv /\ ServiceInv

\* What a step may do to the directory of a wallet.
RootKept(old, new) ==
    IsWallet(old) =>
        /\ IsWallet(new) /\ new.seed = old.seed
        /\ old.confirmed => new.confirmed
        /\ old.status = "complete" => new.status = "complete"

Keeps == \A n \in Names : RootKept(disk[n]["root"], disk'[n]["root"])

-----------------------------------------------------------------------------
(* Directories. *)

\* The directories that are no wallet.
LEMMA Kinds ==
    /\ NoDir \in Directories /\ Empty \in Directories /\ Partial \in Directories
    /\ NoDir.kind = "absent" /\ Empty.kind = "empty" /\ Partial.kind = "partial"
    /\ Fine(NoDir) /\ Fine(Empty) /\ Fine(Partial)
    /\ NoDir.status = "none" /\ Empty.status = "none" /\ Partial.status = "none"
BY DEF NoDir, Empty, Partial, Dir, Directories, Fine

\* The states that creation and restoration write are whole wallets.
LEMMA NewWallets ==
    ASSUME NEW s \in Seeds
    PROVE  /\ NewWallet(s) \in Directories /\ IsWallet(NewWallet(s)) /\ Fine(NewWallet(s))
           /\ OfflineRestoreState(s) \in Directories /\ IsWallet(OfflineRestoreState(s))
           /\ Fine(OfflineRestoreState(s)) /\ OfflineRestoreState(s).status = "in_progress"
<1> DEFINE d == Dir("wallet")
           e == NewWallet(s)
           f == OfflineRestoreState(s)
<1>1. d \in Directories /\ d.kind = "wallet" /\ d.staged = FALSE
  BY DEF Dir, Directories
<1>2. e = [d EXCEPT !.seed = s]
  BY DEF NewWallet
<1> HIDE DEF d
<1>3. e \in Directories /\ e.kind = "wallet" /\ e.staged = FALSE
  <2> HIDE DEF e
  <2> QED
    BY <1>1, <1>2 DEF Directories
<1>4. f = [e EXCEPT !.confirmed = TRUE, !.status = "in_progress"]
  BY DEF OfflineRestoreState
<1> HIDE DEF e, f
<1>5. f \in Directories /\ f.kind = "wallet" /\ f.staged = FALSE /\ f.status = "in_progress"
  BY <1>3, <1>4 DEF Directories
<1>6. \A x \in Directories : x.kind = "wallet" /\ x.staged = FALSE => IsWallet(x) /\ Fine(x)
  BY DEF IsWallet, Fine
<1> QED
  BY <1>3, <1>5, <1>6 DEF e, f

\* What Put and Move leave where.
LEMMA PutAt ==
    ASSUME Shapes, NEW n \in Names, NEW p \in Places, NEW d \in Directories, Put(n, p, d)
    PROVE  /\ disk' \in [Names -> [Places -> Directories]]
           /\ disk'[n][p] = d
           /\ \A q \in Places : q # p => disk'[n][q] = disk[n][q]
           /\ \A m \in Names : m # n => disk'[m] = disk[m]
BY DEF Shapes, Put

\* A rename moves one directory and touches no other.
LEMMA MoveTo ==
    ASSUME Shapes, NEW n \in Names, NEW from \in Places, NEW to \in Places, from # to,
           Move(n, from, to)
    PROVE  /\ disk' \in [Names -> [Places -> Directories]]
           /\ disk'[n][to] = disk[n][from]
           /\ disk'[n][from].kind = "absent" /\ Fine(disk'[n][from])
           /\ disk'[n][from].status = "none"
           /\ \A q \in Places : q \notin {from, to} => disk'[n][q] = disk[n][q]
           /\ \A m \in Names : m # n => disk'[m] = disk[m]
BY Kinds DEF Shapes, Move

\* Initially there is no directory.
LEMMA InitEstablishes == ProvisioningInit => ProvisioningInv
<1> SUFFICES ASSUME ProvisioningInit PROVE ProvisioningInv
  OBVIOUS
<1>1. backup \in Directories /\ Fine(backup)
  <2>1. CASE backup = NoDir
    BY <2>1, Kinds
  <2>2. ASSUME NEW s \in Seeds, backup = [NewWallet(s) EXCEPT !.confirmed = TRUE]
        PROVE  backup \in Directories /\ Fine(backup)
    BY <2>2, NewWallets DEF Directories, Fine
  <2> QED
    BY <2>1, <2>2 DEF ProvisioningInit
<1>2. \A n \in Names, p \in Places : disk[n][p] = NoDir
  BY DEF ProvisioningInit
<1>3. Shapes /\ DirInv
  BY SMT, <1>1, <1>2, Kinds DEF ProvisioningInit, Shapes, DirInv, Open, Places
<1> QED
  BY <1>3 DEF ProvisioningInit, ProvisioningInv, CommandInv, SessionInv, ServiceInv, Quiet

-----------------------------------------------------------------------------
(* Steps with the directories left alone. *)

\* A step that writes nothing keeps every wallet.
LEMMA NothingMoves ==
    ASSUME UNCHANGED disk
    PROVE  Keeps
BY DEF Keeps, RootKept

\* The start of an installation: destination and stage are as it found them.
LEMMA BeginPreserves ==
    ASSUME ProvisioningInv, Quiet, service = Closed, NEW n \in Names, NEW c \in CallRecords,
           call' = c, c.name = n, c.at \in {"mkdir", "rename"}, IsWallet(c.content),
           c.cmd \in {"create", "restore", "resume"} => c.place = "root",
           c.cmd = "import" => c.place \in {"root", "import"},
           c.cmd = "seed" => c.place = "seed" /\ c.content.status = "in_progress",
           c.cmd # "seed" => Fine(c.content),
           c.at = "rename" => disk'[n][Staging(c.place)] = c.content,
           Shapes', DirInv', disk'[n]["root"].kind = "absent",
           UNCHANGED <<service, session>>
    PROVE  ProvisioningInv'
<1>1. call' = c /\ c # NoCall
  BY SMT DEF NoCall, CallRecords
<1>2. CommandInv'
  BY <1>1 DEF CommandInv, Exists, CallRecords
<1>3. SessionInv' /\ ServiceInv'
  BY DEF Quiet, SessionInv, ServiceInv
<1> QED
  BY <1>2, <1>3 DEF ProvisioningInv

\* Beginning a creation, an import or a restore preserves the invariant.
LEMMA BeginningsPreserve ==
    ASSUME ProvisioningInv, NEW n \in Names,
           \/ ResumeCreate(n) \/ BackupImport(n)
           \/ \E s \in Seeds : CreateRecoverable(n, s) \/ SeedBegin(n, s)
    PROVE  ProvisioningInv' /\ Keeps
<1>1. UNCHANGED <<disk, service, session, backup, blocks>> /\ Quiet /\ service = Closed
      /\ disk[n]["root"].kind = "absent"
  BY DEF CreateRecoverable, ResumeCreate, BackupImport, SeedBegin, CreateAllowed, Exists
<1>2. Shapes' /\ DirInv' /\ disk'[n]["root"].kind = "absent"
  BY <1>1 DEF ProvisioningInv, Shapes, DirInv
<1>3. Shapes /\ DirInv /\ disk[n]["create"] \in Directories /\ Fine(disk[n]["create"])
  BY DEF ProvisioningInv, Shapes, DirInv, Open, Places
<1>4. ASSUME NEW s \in Seeds, CreateRecoverable(n, s)
      PROVE  ProvisioningInv' /\ Keeps
  <2> DEFINE c == [cmd |-> "create", name |-> n, place |-> "root", at |-> "mkdir",
                   content |-> NewWallet(s)]
  <2>1. c \in CallRecords /\ call' = c
    BY <1>4, NewWallets DEF CreateRecoverable, BeginCall, CallRecords
  <2> QED
    BY <1>1, <1>2, <2>1, NewWallets, BeginPreserves, NothingMoves
<1>5. CASE ResumeCreate(n)
  <2> DEFINE c == [cmd |-> "resume", name |-> n, place |-> "root", at |-> "rename",
                   content |-> disk[n]["create"]]
  <2>1. c \in CallRecords /\ call' = c /\ IsWallet(disk[n]["create"])
    BY <1>3, <1>5 DEF ResumeCreate, BeginCall, CallRecords
  <2>2. Staging("root") = "create"
    BY DEF Staging
  <2> QED
    BY <1>1, <1>2, <1>3, <2>1, <2>2, BeginPreserves, NothingMoves
<1>6. CASE BackupImport(n)
  <2> DEFINE c == [cmd |-> "import", name |-> n, place |-> "import", at |-> "mkdir",
                   content |-> backup]
  <2>1. c \in CallRecords /\ call' = c /\ IsWallet(backup) /\ Fine(backup)
    BY <1>3, <1>6 DEF BackupImport, BeginCall, CallRecords, Shapes, DirInv
  <2> QED
    BY <1>1, <1>2, <2>1, BeginPreserves, NothingMoves
<1>7. ASSUME NEW s \in Seeds, SeedBegin(n, s)
      PROVE  ProvisioningInv' /\ Keeps
  <2> DEFINE d == [OfflineRestoreState(s) EXCEPT !.staged = TRUE]
             c == [cmd |-> "seed", name |-> n, place |-> "seed", at |-> "mkdir",
                   content |-> d]
  <2>1. d \in Directories /\ IsWallet(d) /\ d.status = "in_progress"
    BY NewWallets DEF Directories, IsWallet
  <2>2. call' = c
    BY <1>7 DEF SeedBegin, BeginCall
  <2> HIDE DEF d
  <2>3. c \in CallRecords
    BY <2>1 DEF CallRecords
  <2> QED
    BY <1>1, <1>2, <2>1, <2>2, <2>3, BeginPreserves, NothingMoves
<1> QED
  BY <1>4, <1>5, <1>6, <1>7

\* The commands of an installed wallet that write nothing, and a crash.
LEMMA ReadingPreserves ==
    ASSUME ProvisioningInv,
           \/ \E n \in Names : OpenNamed(n)
           \/ UnlockService \/ LockService \/ Close \/ PhraseResume \/ BackupExport \/ TipMoves \/ AppCrash
           \/ UNCHANGED provisioningVars
    PROVE  ProvisioningInv' /\ Keeps
<1>1. UNCHANGED disk
  BY DEF OpenNamed, UnlockService, LockService, Close, PhraseResume, BackupExport, TipMoves, AppCrash, provisioningVars
<1>2. Shapes /\ DirInv /\ CommandInv /\ SessionInv /\ ServiceInv
  BY DEF ProvisioningInv
<1>3. CASE \E n \in Names : OpenNamed(n)
  <2>1. PICK n \in Names : OpenNamed(n)
    BY <1>3
  <2>2. service' = LockedAs(n) /\ Quiet /\ UNCHANGED <<call, session, blocks, backup>>
        /\ IsWallet(disk[n]["root"])
    BY <2>1 DEF OpenNamed, Using
  <2>3. LockedAs(n) \in [phase : {"locked", "unlocked"}, name : Names, confirmed : BOOLEAN]
        /\ LockedAs(n).name = n
    BY DEF LockedAs
  <2>4. Shapes' /\ DirInv' /\ CommandInv' /\ SessionInv'
    BY <1>1, <1>2, <2>2 DEF Shapes, DirInv, CommandInv, SessionInv, Quiet
  <2>5. ServiceInv'
    BY <1>1, <1>2, <2>2, <2>3 DEF ServiceInv, Quiet, Opened
  <2> QED
    BY <1>1, <2>4, <2>5, NothingMoves DEF ProvisioningInv
<1>4. CASE UnlockService \/ LockService \/ Close \/ PhraseResume
  <2>1. Quiet /\ UNCHANGED <<call, session, blocks, backup>> /\ service # Closed
    BY SMT, <1>4 DEF UnlockService, LockService, Close, PhraseResume, Using, Closed
  <2>2. service \in [phase : {"locked", "unlocked"}, name : Names, confirmed : BOOLEAN]
        /\ IsWallet(Opened) /\ Opened \in Directories
    BY SMT, <1>2, <2>1 DEF ServiceInv, Opened, Shapes, Places
  <2>3. Opened.confirmed \in BOOLEAN
    BY <2>2 DEF Directories
  <2>4. service' = Closed
        \/ /\ service' \in [phase : {"locked", "unlocked"}, name : Names, confirmed : BOOLEAN]
           /\ service'.name = service.name
    <3>1. CASE UnlockService
      <4> DEFINE c == Opened.confirmed
      <4>1. service' = [service EXCEPT !.phase = "unlocked", !.confirmed = c] /\ c \in BOOLEAN
        BY <2>3, <3>1 DEF UnlockService
      <4> HIDE DEF c
      <4> QED
        BY <2>2, <4>1
    <3>2. CASE LockService
      BY <2>2, <3>2 DEF LockService, LockedAs
    <3>3. CASE Close \/ PhraseResume
      BY <2>2, <3>3 DEF Close, PhraseResume
    <3> QED
      BY <1>4, <3>1, <3>2, <3>3
  <2>5. Shapes' /\ DirInv' /\ CommandInv' /\ SessionInv'
    BY <1>1, <1>2, <2>1 DEF Shapes, DirInv, CommandInv, SessionInv, Quiet
  <2>6. ServiceInv'
    BY <1>1, <1>2, <2>1, <2>2, <2>4 DEF ServiceInv, Quiet, Opened
  <2> QED
    BY <1>1, <2>5, <2>6, NothingMoves DEF ProvisioningInv
<1>5. CASE BackupExport
  <2>1. Quiet /\ UNCHANGED <<call, session, blocks, service>> /\ service # Closed
        /\ backup' = Opened
    BY SMT, <1>5 DEF BackupExport, Using, Closed
  <2>2. Opened \in Directories /\ Fine(Opened)
    BY SMT, <1>2, <2>1 DEF ServiceInv, Opened, Shapes, Places, DirInv, Open
  <2>3. Shapes' /\ DirInv' /\ CommandInv' /\ SessionInv' /\ ServiceInv'
    BY <1>1, <1>2, <2>1, <2>2 DEF Shapes, DirInv, CommandInv, SessionInv, ServiceInv, Quiet, Opened
  <2> QED
    BY <1>1, <2>3, NothingMoves DEF ProvisioningInv
<1>6. CASE TipMoves \/ AppCrash \/ UNCHANGED provisioningVars
  <2>1. UNCHANGED <<disk, backup>> /\ blocks' \in Nat \ {0}
    BY SMT, <1>2, <1>6 DEF TipMoves, AppCrash, provisioningVars, Shapes
  <2>2. CASE UNCHANGED <<call, session, service>>
    BY SMTT(30), <1>1, <1>2, <2>1, <2>2, NothingMoves
       DEF ProvisioningInv, Shapes, DirInv, CommandInv, SessionInv, ServiceInv, Quiet, Opened, Stage, Exists
  <2>3. CASE call' = NoCall /\ session' = NoSession /\ service' = Closed
    BY <1>1, <1>2, <2>1, <2>3, NothingMoves
       DEF ProvisioningInv, Shapes, DirInv, CommandInv, SessionInv, ServiceInv, Quiet
  <2> QED
    BY <1>6, <2>2, <2>3 DEF TipMoves, AppCrash, provisioningVars
<1> QED
  BY <1>3, <1>4, <1>5, <1>6

-----------------------------------------------------------------------------
(* Steps that write a directory. *)

\* Between calls: an empty shell, an aborted creation or restore, a removed
\* stage. No root that is a wallet is touched.
LEMMA QuietPutPreserves ==
    ASSUME ProvisioningInv, Quiet, NEW n \in Names, NEW p \in {"root", "create", "seed"},
           NEW d \in Directories, Put(n, p, d), Fine(d),
           p = "root" => d.kind \in {"absent", "empty"} /\ ~IsWallet(disk[n]["root"]),
           p = "seed" /\ d.status = "complete" => d.scanned > 0,
           UNCHANGED <<service, call, session, backup, blocks>>
    PROVE  ProvisioningInv' /\ Keeps
<1>1. p \in Places /\ "root" \in Places /\ "seed" \in Places
  BY DEF Places
<1>2. Shapes /\ DirInv /\ ServiceInv
  BY DEF ProvisioningInv
<1>3. /\ disk' \in [Names -> [Places -> Directories]]
      /\ disk'[n][p] = d
      /\ \A q \in Places : q # p => disk'[n][q] = disk[n][q]
      /\ \A m \in Names : m # n => disk'[m] = disk[m]
  BY <1>1, <1>2, PutAt
<1>4. Open \subseteq Places
  BY DEF Open, Places
<1>5. Shapes' /\ DirInv'
  BY SMT, <1>1, <1>2, <1>3, <1>4 DEF Shapes, DirInv
<1>6. Keeps
  BY <1>1, <1>3 DEF Keeps, RootKept
<1>7. CommandInv' /\ SessionInv'
  BY DEF Quiet, CommandInv, SessionInv
<1>8. ServiceInv'
  BY <1>1, <1>2, <1>3 DEF ServiceInv, Quiet, Opened, IsWallet
<1> QED
  BY <1>5, <1>6, <1>7, <1>8 DEF ProvisioningInv

\* An empty shell and the aborts preserve the invariant.
LEMMA QuietPutsPreserve ==
    ASSUME ProvisioningInv, NEW n \in Names, EmptyShell(n) \/ AbortCreate(n) \/ SeedAbort(n)
    PROVE  ProvisioningInv' /\ Keeps
<1>1. Quiet /\ UNCHANGED <<service, call, session, backup, blocks>>
  BY DEF EmptyShell, AbortCreate, SeedAbort
<1>2. Shapes /\ DirInv
  BY DEF ProvisioningInv
<1>3. CASE EmptyShell(n)
  <2>1. Put(n, "root", Empty) /\ ~IsWallet(disk[n]["root"])
    BY <1>3 DEF EmptyShell, Exists, IsWallet
  <2> QED
    BY <1>1, <2>1, Kinds, QuietPutPreserves
<1>4. CASE AbortCreate(n)
  <2>1. disk[n]["create"] \in Directories /\ Fine(disk[n]["create"])
    BY <1>2 DEF Shapes, DirInv, Open, Places
  <2>2. PICK d \in {NoDir, Partial, disk[n]["create"]} : Put(n, "create", d)
    BY <1>4 DEF AbortCreate, RemovedAs
  <2> QED
    BY <1>1, <2>1, <2>2, Kinds, QuietPutPreserves
<1>5. CASE SeedAbort(n)
  <2>1. disk[n]["seed"] \in Directories /\ IsWallet(disk[n]["seed"])
        /\ (disk[n]["seed"].status = "complete" => disk[n]["seed"].scanned > 0)
    BY <1>2, <1>5 DEF SeedAbort, Shapes, DirInv, Places
  <2>2. PICK d \in {NoDir, Partial, disk[n]["seed"]} : Put(n, "seed", d)
    BY <1>5 DEF SeedAbort, RemovedAs
  <2>3. CASE d = disk[n]["seed"]
    <3>1. disk' = disk
      BY <1>2, <2>2, <2>3 DEF Put, Shapes, Places
    <3> QED
      BY <1>1, <1>2, <3>1, NothingMoves
         DEF ProvisioningInv, Shapes, DirInv, CommandInv, SessionInv, ServiceInv, Quiet, Opened
  <2>4. CASE d \in {NoDir, Partial}
    BY <1>1, <2>2, <2>4, Kinds, QuietPutPreserves
  <2> QED
    BY <2>2, <2>3, <2>4
<1> QED
  BY <1>3, <1>4, <1>5

\* restore_destination_is_occupied removes only an empty directory.
LEMMA RestorePreserves ==
    ASSUME ProvisioningInv, NEW n \in Names, NEW s \in Seeds, RestoreOffline(n, s)
    PROVE  ProvisioningInv' /\ Keeps
<1> DEFINE old == disk[n]["root"]
           d == Reclaimed(old)
<1>1. Shapes /\ DirInv /\ ServiceInv /\ Quiet /\ service = Closed
      /\ UNCHANGED <<service, session, backup, blocks>>
  BY DEF ProvisioningInv, RestoreOffline
<1>2. old \in Directories /\ old.kind \in {"absent", "empty", "wallet"} /\ Fine(old)
  BY <1>1 DEF Shapes, DirInv, Places, Open
<1>3. d \in Directories /\ d.kind \in {"absent", "empty", "wallet"} /\ Fine(d)
      /\ (IsWallet(old) => d = old)
  BY <1>2, Kinds DEF Reclaimed, IsWallet
<1>4. Put(n, "root", d) /\ "root" \in Places /\ Open \subseteq Places /\ "seed" \in Places
  BY DEF RestoreOffline, Places, Open
<1> HIDE DEF old, d
<1>5. /\ disk' \in [Names -> [Places -> Directories]]
      /\ disk'[n]["root"] = d
      /\ \A q \in Places : q # "root" => disk'[n][q] = disk[n][q]
      /\ \A m \in Names : m # n => disk'[m] = disk[m]
  BY <1>1, <1>3, <1>4, PutAt
<1>6. Shapes' /\ DirInv'
  BY <1>1, <1>3, <1>4, <1>5 DEF Shapes, DirInv
<1>7. Keeps
  BY <1>3, <1>5 DEF Keeps, RootKept, old
<1>8. CASE UNCHANGED call
  BY <1>1, <1>6, <1>7, <1>8 DEF ProvisioningInv, CommandInv, SessionInv, ServiceInv, Quiet
<1>9. CASE d = NoDir /\ BeginCall("restore", n, "root", "mkdir", OfflineRestoreState(s))
  <2> DEFINE c == [cmd |-> "restore", name |-> n, place |-> "root", at |-> "mkdir",
                   content |-> OfflineRestoreState(s)]
  <2>1. c \in CallRecords /\ call' = c
    BY <1>9, NewWallets DEF BeginCall, CallRecords
  <2>2. disk'[n]["root"].kind = "absent"
    BY <1>5, <1>9, Kinds
  <2> QED
    BY <1>1, <1>6, <1>7, <2>1, <2>2, NewWallets, BeginPreserves
<1> QED
  BY <1>8, <1>9 DEF RestoreOffline, d, old

\* A page ends at a block.
LEMMA ReconciledIsBlock ==
    ASSUME Shapes, NEW d \in Directories, NEW scanned \in Reconciled(d)
    PROVE  scanned \in Nat
<1>1. d.scanned \in Nat /\ blocks \in Nat
  BY DEF Shapes, Directories
<1> QED BY SMT, <1>1 DEF Reconciled, NextPage

\* The open wallet writes itself: the ceremony's end, a page of its scan and a
\* rescan.
LEMMA OwnWritesPreserve ==
    ASSUME ProvisioningInv, PhraseConfirm \/ SyncPage \/ Rescan
    PROVE  ProvisioningInv' /\ Keeps
<1>0. /\ Quiet /\ service.phase \in {"locked", "unlocked"}
      /\ UNCHANGED <<service, call, session, backup, blocks>>
  BY DEF PhraseConfirm, SyncPage, Rescan, Using
<1>1. Shapes /\ DirInv /\ ServiceInv /\ Quiet /\ service # Closed
      /\ UNCHANGED <<service, call, session, backup, blocks>>
  BY SMT, <1>0 DEF ProvisioningInv, Closed
<1>2. service.name \in Names /\ Opened \in Directories /\ IsWallet(Opened) /\ Fine(Opened)
  BY SMT, <1>1 DEF ServiceInv, Opened, Shapes, DirInv, Places, Open
<1>3. \E d \in Directories : /\ Put(service.name, "root", d) /\ IsWallet(d) /\ Fine(d)
                             /\ RootKept(Opened, d)
  <2>1. CASE PhraseConfirm
    <3> DEFINE o == Opened
               d == [o EXCEPT !.confirmed = TRUE]
    <3>1. Put(service.name, "root", d)
      BY <2>1 DEF PhraseConfirm
    <3> HIDE DEF o
    <3>2. d \in Directories /\ IsWallet(d) /\ Fine(d) /\ RootKept(o, d)
      BY <1>2 DEF o, Directories, IsWallet, Fine, RootKept
    <3> QED
      BY <3>1, <3>2 DEF o
  <2>2. CASE SyncPage
    <3>1. PICK scanned \in Reconciled(Opened) :
              Put(service.name, "root",
                  [Opened EXCEPT !.scanned = scanned,
                                 !.status = IF @ = "in_progress" /\ scanned = blocks
                                            THEN "complete" ELSE @])
      BY <2>2 DEF SyncPage
    <3> DEFINE o == Opened
               t == IF o.status = "in_progress" /\ scanned = blocks THEN "complete" ELSE o.status
               d == [o EXCEPT !.scanned = scanned, !.status = t]
    <3>2. Put(service.name, "root", d) /\ scanned \in Nat
      BY <1>1, <1>2, <3>1, ReconciledIsBlock
    <3> HIDE DEF o
    <3>3. /\ t \in {"none", "in_progress", "complete"}
          /\ o.status = "complete" => t = "complete"
      BY <1>2 DEF o, Directories
    <3> HIDE DEF t
    <3>4. d \in Directories /\ IsWallet(d) /\ d.staged = o.staged /\ d.seed = o.seed
          /\ d.confirmed = o.confirmed /\ d.status = t
      BY <1>2, <3>2, <3>3 DEF o, Directories, IsWallet
    <3> HIDE DEF d
    <3> QED
      BY <1>2, <3>2, <3>3, <3>4 DEF o, Fine, RootKept
  <2>3. CASE Rescan
    <3> DEFINE o == Opened
               d == [o EXCEPT !.scanned = 0]
    <3>1. Put(service.name, "root", d) /\ 0 \in Nat
      BY SMT, <2>3 DEF Rescan
    <3> HIDE DEF o
    <3>2. d \in Directories /\ IsWallet(d) /\ Fine(d) /\ RootKept(o, d)
      BY <1>2, <3>1 DEF o, Directories, IsWallet, Fine, RootKept
    <3> QED
      BY <3>1, <3>2 DEF o
  <2> QED
    BY <2>1, <2>2, <2>3
<1>4. PICK d \in Directories : /\ Put(service.name, "root", d) /\ IsWallet(d) /\ Fine(d)
                               /\ RootKept(Opened, d)
  BY <1>3
<1>5. "root" \in Places /\ Open \subseteq Places /\ "seed" \in Places
  BY DEF Places, Open
<1>6. /\ disk' \in [Names -> [Places -> Directories]]
      /\ disk'[service.name]["root"] = d
      /\ \A q \in Places : q # "root" => disk'[service.name][q] = disk[service.name][q]
      /\ \A m \in Names : m # service.name => disk'[m] = disk[m]
  BY <1>1, <1>2, <1>4, <1>5, PutAt
<1>7. Shapes' /\ DirInv'
  BY <1>1, <1>2, <1>4, <1>5, <1>6 DEF Shapes, DirInv, IsWallet
<1>8. Keeps
  BY <1>2, <1>4, <1>6 DEF Keeps, RootKept, Opened
<1>9. CommandInv' /\ SessionInv' /\ ServiceInv'
  BY <1>1, <1>4, <1>6 DEF CommandInv, SessionInv, ServiceInv, Quiet, Opened
<1> QED
  BY <1>7, <1>8, <1>9 DEF ProvisioningInv

-----------------------------------------------------------------------------
(* The installation in progress. *)

\* Each destination is staged at a place of its own.
LEMMA StagingPlaces ==
    ASSUME NEW place \in {"root", "import", "seed"}
    PROVE  /\ Staging(place) \in {"create", "import_create", "seed_create"}
           /\ Staging(place) = "create" <=> place = "root"
           /\ Staging(place) = "import_create" <=> place = "import"
           /\ Staging(place) = "seed_create" <=> place = "seed"
BY DEF Staging

\* MakeStage and PublishInitial write the stage, which nobody else looks at.
LEMMA StageWritesPreserve ==
    ASSUME ProvisioningInv, MakeStage \/ PublishInitial
    PROVE  ProvisioningInv' /\ Keeps
<1> DEFINE n == call.name
           p == Staging(call.place)
           d == IF MakeStage THEN Partial ELSE call.content
           at == IF MakeStage THEN "publish" ELSE "rename"
<1>1. Shapes /\ DirInv /\ CommandInv /\ ServiceInv /\ call # NoCall
      /\ UNCHANGED <<service, session, backup, blocks>> /\ call.at \in {"mkdir", "publish"}
  BY SMT DEF ProvisioningInv, MakeStage, PublishInitial, CallAt, NoCall
<1>2. /\ call \in CallRecords /\ n \in Names /\ call.place \in {"root", "import", "seed"}
      /\ ~Exists(n, "root") /\ IsWallet(call.content) /\ call.content \in Directories
      /\ call.cmd # "seed" => Fine(call.content)
      /\ call.place # "seed" => call.cmd # "seed"
  BY <1>1 DEF CommandInv, CallRecords
<1>3. p \in {"create", "import_create", "seed_create"} /\ (p = "seed_create" <=> call.place = "seed")
      /\ p \in Places
  BY <1>2, StagingPlaces DEF Places
<1>4. d \in Directories /\ (call.place # "seed" => Fine(d))
  BY <1>2, Kinds
<1>5. Put(n, p, d) /\ call' = [call EXCEPT !.place = call.place, !.at = at]
      /\ (at = "rename" => d = call.content)
  BY <1>1 DEF MakeStage, PublishInitial, Continue, CallAt
<1>6. at \in {"publish", "rename"}
  OBVIOUS
<1> HIDE DEF n, p, d, at
<1>7. /\ call' \in CallRecords /\ call'.cmd = call.cmd /\ call'.name = call.name
      /\ call'.place = call.place /\ call'.at = at /\ call'.content = call.content
  BY <1>2, <1>5, <1>6 DEF CallRecords
<1>8. /\ disk' \in [Names -> [Places -> Directories]]
      /\ disk'[n][p] = d
      /\ \A q \in Places : q # p => disk'[n][q] = disk[n][q]
      /\ \A m \in Names : m # n => disk'[m] = disk[m]
  BY <1>1, <1>2, <1>3, <1>4, <1>5, PutAt
<1>9. {"root", "seed"} \subseteq Places /\ Open \subseteq Places /\ "seed_create" \notin Open
  BY DEF Places, Open
<1>10. Shapes' /\ DirInv'
  BY SMT, <1>1, <1>3, <1>4, <1>8, <1>9 DEF Shapes, DirInv
<1>11. Keeps
  BY <1>3, <1>8, <1>9 DEF Keeps, RootKept
<1>12. CommandInv'
  <2>1. disk'[n]["root"] = disk[n]["root"]
    BY <1>3, <1>8, <1>9
  <2>2. disk'[n]["root"].kind = "absent"
    BY <1>2, <2>1 DEF Exists
  <2>3. at = "rename" => disk'[call'.name][Staging(call'.place)] = call'.content
    BY <1>5, <1>7, <1>8 DEF n, p
  <2> QED
    BY <1>1, <1>2, <1>6, <1>7, <2>2, <2>3 DEF CommandInv, n, Exists
<1>13. SessionInv' /\ ServiceInv'
  BY <1>1 DEF SessionInv, ServiceInv, Quiet
<1> QED
  BY <1>10, <1>11, <1>12, <1>13 DEF ProvisioningInv

\* One rename publishes: the stage to its place, an import to the root.
LEMMA RenamesPreserve ==
    ASSUME ProvisioningInv, RenameStage \/ InstallImport
    PROVE  ProvisioningInv' /\ Keeps
<1> DEFINE n == call.name
           from == IF RenameStage THEN Staging(call.place) ELSE "import"
           to == IF RenameStage THEN call.place ELSE "root"
<1>1. Shapes /\ DirInv /\ CommandInv /\ ServiceInv /\ call # NoCall
      /\ UNCHANGED <<service, session, backup, blocks>>
  BY SMT DEF ProvisioningInv, RenameStage, InstallImport, CallAt, NoCall
<1>2. /\ call \in CallRecords /\ n \in Names /\ call.place \in {"root", "import", "seed"}
      /\ IsWallet(call.content) /\ call.content \in Directories
      /\ call.cmd # "seed" => Fine(call.content)
      /\ call.cmd = "seed" <=> call.place = "seed"
      /\ call.cmd = "seed" => call.content.status = "in_progress"
      /\ call.cmd \in {"create", "restore", "resume"} => call.place = "root"
  BY <1>1 DEF CommandInv, CallRecords
<1>3. ~Exists(n, "root") /\ disk[n][from] = call.content
  BY <1>1, <1>2 DEF CommandInv, RenameStage, InstallImport, CallAt
<1>4. /\ from \in {"create", "import_create", "seed_create", "import"}
      /\ to \in {"root", "import", "seed"} /\ from # to
      /\ (to = "seed" <=> call.place = "seed") /\ (to = "import" => from = "import_create")
      /\ (to = "root" => call.cmd = "import" \/ call.place = "root")
      /\ (call.place = "seed" => from = "seed_create")
      /\ (call.place = "root" => to = "root")
  <2>1. CASE RenameStage
    <3>1. from = Staging(call.place) /\ to = call.place
      BY <2>1
    <3> HIDE DEF from, to
    <3> QED
      BY <1>2, <3>1, StagingPlaces
  <2>2. CASE InstallImport /\ ~RenameStage
    <3>1. from = "import" /\ to = "root" /\ call.place = "import"
      BY <2>2 DEF InstallImport
    <3>2. call.cmd = "import"
      BY <1>1, <1>2, <3>1 DEF CommandInv, CallRecords
    <3> HIDE DEF from, to
    <3> QED
      BY <3>1, <3>2
  <2> QED
    BY <2>1, <2>2
<1>5. Move(n, from, to) /\ call' = [call EXCEPT !.place = to, !.at = "open"]
  BY DEF RenameStage, InstallImport, Continue
<1>6. from \in Places /\ to \in Places /\ {"root", "seed"} \subseteq Places /\ Open \subseteq Places
      /\ "seed" \notin Open
  BY <1>4 DEF Places, Open
<1> HIDE DEF n, from, to
<1>7. /\ call' \in CallRecords /\ call'.cmd = call.cmd /\ call'.name = n
      /\ call'.place = to /\ call'.at = "open" /\ call'.content = call.content
  BY <1>2, <1>4, <1>5 DEF CallRecords, n
<1>8. /\ disk' \in [Names -> [Places -> Directories]]
      /\ disk'[n][to] = call.content
      /\ disk'[n][from].kind = "absent" /\ Fine(disk'[n][from])
      /\ \A q \in Places : q \notin {from, to} => disk'[n][q] = disk[n][q]
      /\ \A m \in Names : m # n => disk'[m] = disk[m]
  BY SMT, <1>1, <1>2, <1>3, <1>4, <1>5, <1>6, MoveTo
<1>9. Shapes'
  BY <1>1, <1>8 DEF Shapes
<1>10. DirInv'
  <2>1. disk'[n]["root"].kind \in {"absent", "empty", "wallet"}
    BY <1>1, <1>2, <1>4, <1>6, <1>8 DEF DirInv, IsWallet
  <2>2. ASSUME NEW q \in Open PROVE Fine(disk'[n][q])
    BY <1>1, <1>2, <1>4, <1>6, <1>8 DEF DirInv
  <2>3. disk'[n]["seed"].status = "complete" => disk'[n]["seed"].scanned > 0
    BY SMT, <1>1, <1>2, <1>4, <1>6, <1>8 DEF DirInv
  <2> QED
    BY <1>1, <1>8, <2>1, <2>2, <2>3 DEF DirInv
<1>11. Keeps
  <2>1. ~IsWallet(disk[n]["root"])
    BY <1>3 DEF Exists, IsWallet
  <2> QED
    BY <1>8, <2>1 DEF Keeps, RootKept
<1>12. CommandInv'
  <2>1. to # "root" => disk'[n]["root"].kind = "absent"
    BY <1>3, <1>4, <1>6, <1>8 DEF Exists
  <2> QED
    BY <1>2, <1>4, <1>7, <1>8, <2>1 DEF CommandInv, Exists
<1>13. SessionInv' /\ ServiceInv'
  BY <1>1 DEF SessionInv, ServiceInv, Quiet
<1> QED
  BY <1>9, <1>10, <1>11, <1>12, <1>13 DEF ProvisioningInv

\* The last step of an installation: the wallet is open, or its restore begins.
LEMMA EndsPreserve ==
    ASSUME ProvisioningInv, OpenInstalled \/ SeedStaged
    PROVE  ProvisioningInv' /\ Keeps
<1>1. Shapes /\ DirInv /\ CommandInv /\ ServiceInv /\ call # NoCall /\ call' = NoCall
      /\ UNCHANGED <<disk, backup, blocks>>
  BY SMT DEF ProvisioningInv, OpenInstalled, SeedStaged, CallAt, NoCall
<1>2. call \in CallRecords /\ call.at = "open" /\ disk[call.name][call.place] = call.content
      /\ IsWallet(call.content) /\ call.name \in Names
  BY <1>1 DEF CommandInv, OpenInstalled, SeedStaged, CallAt, CallRecords
<1>3. Shapes' /\ DirInv' /\ CommandInv' /\ Keeps
  BY <1>1, NothingMoves DEF Shapes, DirInv, CommandInv
<1>4. CASE OpenInstalled
  <2>1. service' = LockedAs(call.name) /\ session = NoSession /\ session' = NoSession
        /\ call.place = "root"
    BY <1>1, <1>4 DEF OpenInstalled, CallAt, ServiceInv
  <2>2. LockedAs(call.name) \in [phase : {"locked", "unlocked"}, name : Names, confirmed : BOOLEAN]
        /\ LockedAs(call.name).name = call.name
    BY <1>2 DEF LockedAs
  <2> QED
    BY <1>1, <1>2, <1>3, <2>1, <2>2 DEF ProvisioningInv, SessionInv, ServiceInv, Quiet, Opened
<1>5. CASE SeedStaged
  <2> DEFINE ready == disk[call.name]["seed"].status = "complete"
             new == [name |-> call.name, seed |-> call.content.seed, ready |-> ready]
  <2>1. session' = new /\ service' = service /\ service = Closed /\ call.place = "seed"
    BY <1>1, <1>5 DEF SeedStaged, Session, ServiceInv, Quiet
  <2>2. ready \in BOOLEAN /\ call.content.seed \in Seeds \union {"none"}
    BY <1>2 DEF CallRecords, Directories
  <2>3. ready => disk[call.name]["seed"].scanned > 0
    BY <1>1, <1>2 DEF DirInv
  <2> HIDE DEF ready
  <2>4. new \in [name : Names, seed : Seeds \union {"none"}, ready : BOOLEAN]
        /\ new.name = call.name /\ new.ready = ready
    BY <1>2, <2>2
  <2>5. SessionInv'
    BY <1>1, <1>2, <2>1, <2>3, <2>4 DEF SessionInv, Stage
  <2>6. ServiceInv'
    BY <1>1, <2>1 DEF ServiceInv
  <2> QED
    BY <1>3, <2>5, <2>6 DEF ProvisioningInv
<1> QED
  BY <1>4, <1>5

\* An error path removes the stage, or half of it, and never the root.
LEMMA CallFailsPreserves ==
    ASSUME ProvisioningInv, CommandFails
    PROVE  ProvisioningInv' /\ Keeps
<1> DEFINE n == call.name
           gone == {p \in Cleans(call.cmd, call.place) : disk[n][p] # NoDir}
<1>1. Shapes /\ DirInv /\ CommandInv /\ ServiceInv /\ call # NoCall /\ call' = NoCall
      /\ UNCHANGED <<service, session, backup, blocks>>
  BY DEF ProvisioningInv, CommandFails
<1>2. call \in CallRecords /\ n \in Names /\ session = NoSession
      /\ (call.cmd \in {"create", "restore", "resume"} => call.place = "root")
      /\ (call.cmd = "seed" => call.place = "seed")
  BY <1>1 DEF CommandInv, CallRecords, ServiceInv
<1>3. Cleans(call.cmd, call.place) \subseteq {"create", "import", "import_create", "seed_create"}
  BY <1>2, StagingPlaces DEF Cleans, CallRecords
<1>4. PICK left \in [gone -> {NoDir, Partial, call.content}] :
         /\ \A p \in gone : left[p] \in RemovedAs(disk[n][p])
         /\ disk' = [disk EXCEPT ![n] = [p \in Places |-> IF p \in gone THEN left[p] ELSE disk[n][p]]]
  BY DEF CommandFails
<1>5. gone \subseteq {"create", "import", "import_create", "seed_create"}
  BY <1>3
<1> HIDE DEF n, gone
<1>6. \A p \in Places : disk'[n][p] = IF p \in gone THEN left[p] ELSE disk[n][p]
  BY <1>1, <1>2, <1>4 DEF Shapes
<1>7. \A p \in Places : disk'[n][p] \in {disk[n][p], NoDir, Partial}
  BY <1>4, <1>6 DEF RemovedAs
<1>8. \A m \in Names : m # n => disk'[m] = disk[m]
  BY <1>1, <1>4 DEF Shapes
<1>9. \A p \in Places : disk'[n][p] \in Directories
  BY <1>1, <1>2, <1>7, Kinds DEF Shapes
<1>10. disk' \in [Names -> [Places -> Directories]]
  <2>1. disk'[n] \in [Places -> Directories]
    <3> DEFINE f == [p \in Places |-> IF p \in gone THEN left[p] ELSE disk[n][p]]
    <3>1. disk'[n] = f
      BY <1>1, <1>2, <1>4 DEF Shapes
    <3> QED
      BY <1>9, <3>1
  <2>2. disk' = [disk EXCEPT ![n] = disk'[n]]
    BY <1>1, <1>2, <1>4 DEF Shapes
  <2> QED
    BY <1>1, <1>2, <2>1, <2>2 DEF Shapes
<1>11. {"root", "seed"} \subseteq Places /\ Open \subseteq Places
       /\ disk'[n]["root"] = disk[n]["root"] /\ disk'[n]["seed"] = disk[n]["seed"]
  <2>1. {"root", "seed"} \subseteq Places /\ Open \subseteq Places
    BY DEF Places, Open
  <2> QED
    BY <1>5, <1>6, <2>1
<1>12. \A p \in Open : Fine(disk'[n][p])
  BY <1>1, <1>2, <1>7, <1>11, Kinds DEF DirInv
<1>13. Shapes' /\ DirInv'
  BY <1>1, <1>8, <1>10, <1>11, <1>12 DEF Shapes, DirInv
<1>14. Keeps
  BY <1>8, <1>11 DEF Keeps, RootKept
<1>15. CommandInv' /\ SessionInv' /\ ServiceInv'
  BY <1>1, <1>2 DEF CommandInv, SessionInv, ServiceInv, Quiet
<1> QED
  BY <1>13, <1>14, <1>15 DEF ProvisioningInv

-----------------------------------------------------------------------------
(* The staged restore. *)

\* A checkpoint is taken up again, the session learns that there is no more to
\* scan, or it ends with an error: no directory changes.
LEMMA SessionMovesPreserve ==
    ASSUME ProvisioningInv,
           SeedNoChanges \/ SeedFails \/ \E n \in Names, s \in Seeds : SeedResume(n, s)
    PROVE  ProvisioningInv' /\ Keeps
<1>1. Shapes /\ DirInv /\ CommandInv /\ SessionInv /\ ServiceInv
      /\ UNCHANGED <<disk, service, call, backup, blocks>> /\ call = NoCall /\ service = Closed
  BY DEF ProvisioningInv, ServiceInv, SeedNoChanges, SeedFails, SeedResume, InSession, Quiet
<1>2. Shapes' /\ DirInv' /\ CommandInv' /\ Keeps
  BY <1>1, NothingMoves DEF Shapes, DirInv, CommandInv
<1>3. ServiceInv'
  BY <1>1 DEF ServiceInv
<1>4. CASE SeedNoChanges
  <2>1. session \in [name : Names, seed : Seeds \union {"none"}, ready : BOOLEAN]
        /\ IsWallet(Stage) /\ Stage.scanned = blocks
        /\ session' = [session EXCEPT !.ready = TRUE]
    BY <1>1, <1>4 DEF SessionInv, SeedNoChanges, InSession
  <2>2. session' \in [name : Names, seed : Seeds \union {"none"}, ready : BOOLEAN]
        /\ session'.name = session.name
    BY <2>1
  <2>3. Stage \in Directories
    BY SMT, <1>1, <2>1 DEF Shapes, Stage, Places
  <2>4. Stage.scanned \in Nat /\ blocks \in Nat \ {0}
    BY <1>1, <2>3 DEF Shapes, Directories
  <2>5. Stage.scanned > 0
    BY SMT, <2>1, <2>4
  <2>6. Stage' = Stage
    BY <1>1, <2>2 DEF Stage
  <2>7. SessionInv'
    BY <2>1, <2>2, <2>5, <2>6 DEF SessionInv
  <2> QED
    BY <1>2, <1>3, <2>7 DEF ProvisioningInv
<1>5. CASE SeedFails
  <2>1. SessionInv'
    BY <1>5 DEF SeedFails, SessionInv
  <2> QED
    BY SMT, <1>2, <1>3, <2>1 DEF ProvisioningInv
<1>6. CASE \E n \in Names, s \in Seeds : SeedResume(n, s)
  <2>1. PICK n \in Names, s \in Seeds : SeedResume(n, s)
    BY <1>6
  <2> DEFINE ready == disk[n]["seed"].status = "complete"
             new == [name |-> n, seed |-> s, ready |-> ready]
  <2>2. session' = new /\ IsWallet(disk[n]["seed"])
    BY <2>1 DEF SeedResume, Session, ValidCheckpoint
  <2>3. ready \in BOOLEAN /\ (ready => disk[n]["seed"].scanned > 0)
    BY <1>1 DEF DirInv
  <2> HIDE DEF ready
  <2>4. new \in [name : Names, seed : Seeds \union {"none"}, ready : BOOLEAN]
        /\ new.name = n /\ new.ready = ready
    BY <2>3
  <2>5. SessionInv'
    BY <1>1, <2>2, <2>3, <2>4 DEF SessionInv, Stage
  <2> QED
    BY <1>2, <1>3, <2>5 DEF ProvisioningInv
<1> QED
  BY <1>4, <1>5, <1>6

\* A page and the last commit rewrite the stage in place.
LEMMA CheckpointsPreserve ==
    ASSUME ProvisioningInv, SeedPage \/ PublishCommit
    PROVE  ProvisioningInv' /\ Keeps
<1> DEFINE n == session.name
<1>1. Shapes /\ DirInv /\ CommandInv /\ SessionInv /\ ServiceInv /\ session # NoSession
      /\ UNCHANGED <<service, call, session, backup, blocks>>
  BY DEF ProvisioningInv, SeedPage, PublishCommit, InSession
<1>2. /\ session \in [name : Names, seed : Seeds \union {"none"}, ready : BOOLEAN]
      /\ IsWallet(Stage) /\ n \in Names /\ (session.ready => Stage.scanned > 0)
      /\ call = NoCall
  BY <1>1 DEF SessionInv, ServiceInv
<1>3. "seed" \in Places /\ "root" \in Places /\ Open \subseteq Places /\ "seed" \notin Open
  BY DEF Places, Open
<1>4. Stage \in Directories
  BY SMT, <1>1, <1>2, <1>3 DEF Shapes, Stage
<1>5. \E e \in Directories : /\ Put(n, "seed", e) /\ IsWallet(e)
                              /\ (e.status = "complete" => e.scanned > 0)
                              /\ (session.ready => e.scanned > 0)
  <2>1. CASE SeedPage
    <3>1. PICK scanned \in Reconciled(Stage) :
              Put(n, "seed", [Stage EXCEPT !.scanned = scanned, !.status = "in_progress"])
      BY <2>1 DEF SeedPage
    <3> DEFINE e == [Stage EXCEPT !.scanned = scanned, !.status = "in_progress"]
    <3>2. Put(n, "seed", e) /\ scanned \in Nat /\ ~session.ready
      BY <1>1, <1>4, <2>1, <3>1, ReconciledIsBlock DEF SeedPage
    <3>3. e \in Directories /\ IsWallet(e) /\ e.status = "in_progress"
      BY <1>2, <1>4, <3>2 DEF Directories, IsWallet
    <3> HIDE DEF e
    <3> QED BY <3>2, <3>3
  <2>2. CASE PublishCommit
    <3> DEFINE e == [Stage EXCEPT !.status = "complete"]
    <3>1. Put(n, "seed", e) /\ session.ready
      BY <2>2 DEF PublishCommit
    <3>2. e \in Directories /\ IsWallet(e) /\ e.scanned = Stage.scanned
      BY <1>2, <1>4 DEF Directories, IsWallet
    <3> HIDE DEF e
    <3> QED BY <1>2, <3>1, <3>2
  <2> QED
    BY <2>1, <2>2
<1>6. PICK d \in Directories : /\ Put(n, "seed", d) /\ IsWallet(d)
                               /\ (d.status = "complete" => d.scanned > 0)
                               /\ (session.ready => d.scanned > 0)
  BY <1>5
<1>7. d \in Directories
  BY <1>6
<1> HIDE DEF n
<1>8. /\ disk' \in [Names -> [Places -> Directories]]
      /\ disk'[n]["seed"] = d
      /\ \A q \in Places : q # "seed" => disk'[n][q] = disk[n][q]
      /\ \A m \in Names : m # n => disk'[m] = disk[m]
  BY <1>1, <1>2, <1>3, <1>6, <1>7, PutAt
<1>9. Shapes' /\ DirInv'
  BY <1>1, <1>3, <1>6, <1>8 DEF Shapes, DirInv
<1>10. Keeps
  BY <1>3, <1>8 DEF Keeps, RootKept
<1>11. Stage' = d
  BY <1>1, <1>8 DEF Stage, n
<1>12. SessionInv' /\ CommandInv'
  BY <1>1, <1>2, <1>6, <1>11 DEF SessionInv, CommandInv
<1>13. ServiceInv'
  BY <1>1 DEF ServiceInv, Quiet
<1> QED
  BY <1>9, <1>10, <1>12, <1>13 DEF ProvisioningInv

\* One rename publishes the complete stage to a free root.
LEMMA PublishRenamePreserves ==
    ASSUME ProvisioningInv, PublishRename
    PROVE  ProvisioningInv' /\ Keeps
<1> DEFINE n == session.name
<1>1. Shapes /\ DirInv /\ CommandInv /\ SessionInv /\ ServiceInv /\ session # NoSession
      /\ UNCHANGED <<call, backup, blocks>> /\ session' = NoSession
      /\ service' \in {LockedAs(n), Closed} /\ Move(n, "seed", "root")
      /\ session.ready /\ disk[n]["seed"].status = "complete"
      /\ disk[n]["root"].kind = "absent"
  BY DEF ProvisioningInv, PublishRename, InSession, MayRename, Stage, Exists
<1>2. /\ n \in Names /\ IsWallet(disk[n]["seed"]) /\ disk[n]["seed"].scanned > 0
      /\ call = NoCall
  BY <1>1 DEF SessionInv, ServiceInv, Stage
<1>3. "seed" \in Places /\ "root" \in Places /\ Open \subseteq Places /\ "seed" \notin Open
  BY DEF Places, Open
<1> HIDE DEF n
<1>4. /\ disk' \in [Names -> [Places -> Directories]]
      /\ disk'[n]["root"] = disk[n]["seed"]
      /\ disk'[n]["seed"].status = "none"
      /\ \A q \in Places : q \notin {"seed", "root"} => disk'[n][q] = disk[n][q]
      /\ \A m \in Names : m # n => disk'[m] = disk[m]
  BY SMT, <1>1, <1>2, <1>3, MoveTo
<1>5. Fine(disk'[n]["root"]) /\ IsWallet(disk'[n]["root"])
  BY <1>1, <1>2, <1>4 DEF Fine
<1>6. Shapes' /\ DirInv'
  BY <1>1, <1>3, <1>4, <1>5 DEF Shapes, DirInv, IsWallet
<1>7. Keeps
  BY <1>1, <1>4 DEF Keeps, RootKept, IsWallet
<1>8. CommandInv' /\ SessionInv'
  BY <1>1, <1>2 DEF CommandInv, SessionInv
<1>9. ServiceInv'
  <2>1. LockedAs(n) \in [phase : {"locked", "unlocked"}, name : Names, confirmed : BOOLEAN]
        /\ LockedAs(n).name = n
    BY <1>2 DEF LockedAs
  <2> QED
    BY <1>1, <1>2, <1>5, <2>1 DEF ServiceInv, Quiet, Opened
<1> QED
  BY <1>6, <1>7, <1>8, <1>9 DEF ProvisioningInv

-----------------------------------------------------------------------------
\* Every step preserves the invariant and keeps every installed wallet.
LEMMA Inductive == ProvisioningInv /\ [ProvisioningNext]_provisioningVars => ProvisioningInv' /\ Keeps
<1> SUFFICES ASSUME ProvisioningInv, [ProvisioningNext]_provisioningVars PROVE ProvisioningInv' /\ Keeps
  OBVIOUS
<1>1. CASE \E n \in Names : ResumeCreate(n) \/ BackupImport(n)
              \/ \E s \in Seeds : CreateRecoverable(n, s) \/ SeedBegin(n, s)
  BY <1>1, BeginningsPreserve
<1>2. CASE \E n \in Names : EmptyShell(n) \/ AbortCreate(n) \/ SeedAbort(n)
  BY <1>2, QuietPutsPreserve
<1>3. CASE \E n \in Names, s \in Seeds : RestoreOffline(n, s)
  BY <1>3, RestorePreserves
<1>4. CASE MakeStage \/ PublishInitial
  BY <1>4, StageWritesPreserve
<1>5. CASE RenameStage \/ InstallImport
  BY SMT, <1>5, RenamesPreserve
<1>6. CASE OpenInstalled \/ SeedStaged
  BY SMT, <1>6, EndsPreserve
<1>7. CASE CommandFails
  BY <1>7, CallFailsPreserves
<1>8. CASE SeedNoChanges \/ SeedFails \/ \E n \in Names, s \in Seeds : SeedResume(n, s)
  BY <1>8, SessionMovesPreserve
<1>9. CASE SeedPage \/ PublishCommit
  BY SMT, <1>9, CheckpointsPreserve
<1>10. CASE PublishRename
  BY SMT, <1>10, PublishRenamePreserves
<1>11. CASE PhraseConfirm \/ SyncPage \/ Rescan
  BY SMT, <1>11, OwnWritesPreserve
<1>12. CASE \/ \E n \in Names : OpenNamed(n)
            \/ UnlockService \/ LockService \/ Close \/ PhraseResume \/ BackupExport \/ TipMoves
            \/ AppCrash \/ UNCHANGED provisioningVars
  BY <1>12, ReadingPreserves
<1> QED
  BY <1>1, <1>2, <1>3, <1>4, <1>5, <1>6, <1>7, <1>8, <1>9, <1>10, <1>11, <1>12 DEF ProvisioningNext

\* A name in the catalog is a complete wallet, and the open wallet is one,
\* whatever create, import and restore leave behind when they are interrupted:
\* for every number of names and phrases.
THEOREM CatalogIsWhole == ProvisioningSpec => []AtomicActivation
<1>1. ProvisioningInv => AtomicActivation
  BY DEF ProvisioningInv, DirInv, ServiceInv, AtomicActivation
<1> QED
  BY <1>1, InitEstablishes, Inductive, PTL DEF ProvisioningSpec

\* What staged restore published was marked complete before its one rename, and
\* a stage that is marked complete has a cursor (SeedRestoreSession::publish).
THEOREM PublishedRestoresAreComplete == ProvisioningSpec => []StagedIsComplete
<1>1. ProvisioningInv => StagedIsComplete
  <2>1. "root" \in Open
    BY DEF Open
  <2> QED
    BY <2>1 DEF ProvisioningInv, DirInv, Fine, StagedIsComplete
<1> QED
  BY <1>1, InitEstablishes, Inductive, PTL DEF ProvisioningSpec

\* No create, restore, import, abort, error or crash removes or replaces an
\* installed wallet, or takes back its confirmation or its completion.
THEOREM InstalledWalletsAreKept == ProvisioningSpec => WalletKept
<1>1. ProvisioningInv /\ [ProvisioningNext]_provisioningVars =>
        [\A n \in Names : IsWallet(disk[n]["root"]) =>
            LET old == disk[n]["root"] new == disk'[n]["root"]
            IN /\ IsWallet(new) /\ new.seed = old.seed
               /\ old.confirmed => new.confirmed
               /\ old.status = "complete" => new.status = "complete"]_provisioningVars
  BY Inductive DEF Keeps, RootKept
<1> QED
  BY <1>1, InitEstablishes, Inductive, PTL DEF ProvisioningSpec, WalletKept
-----------------------------------------------------------------------------
(* Phrases. *)

\* A step of the installation in progress, or of an installed wallet, takes up
\* no restore session.
LEMMA NoSessionTaken ==
    ASSUME ProvisioningInv,
           \/ \E n \in Names :
                \/ EmptyShell(n) \/ ResumeCreate(n) \/ AbortCreate(n) \/ BackupImport(n)
                \/ SeedAbort(n) \/ OpenNamed(n)
                \/ \E s \in Seeds : CreateRecoverable(n, s) \/ RestoreOffline(n, s) \/ SeedBegin(n, s)
           \/ MakeStage \/ PublishInitial \/ RenameStage \/ InstallImport \/ OpenInstalled
           \/ CommandFails \/ PublishRename \/ SeedFails \/ AppCrash
           \/ UnlockService \/ LockService \/ Close \/ PhraseConfirm \/ PhraseResume \/ BackupExport
           \/ SyncPage \/ Rescan
    PROVE  session' = NoSession
<1>1. call = NoCall \/ session = NoSession
  BY DEF ProvisioningInv, ServiceInv
<1>2. ASSUME NEW n \in Names,
             \/ EmptyShell(n) \/ ResumeCreate(n) \/ AbortCreate(n) \/ BackupImport(n)
             \/ SeedAbort(n) \/ OpenNamed(n)
             \/ \E s \in Seeds : CreateRecoverable(n, s) \/ RestoreOffline(n, s) \/ SeedBegin(n, s)
      PROVE  session' = NoSession
  BY <1>2 DEF EmptyShell, ResumeCreate, AbortCreate, BackupImport, SeedAbort, OpenNamed, Using,
              CreateRecoverable, RestoreOffline, SeedBegin, Quiet
<1>3. CASE MakeStage \/ PublishInitial \/ RenameStage \/ InstallImport \/ OpenInstalled
  <2>1. call.at # "none" /\ session' = session
    BY <1>3 DEF MakeStage, PublishInitial, RenameStage, InstallImport, OpenInstalled, CallAt
  <2> QED
    BY SMT, <1>1, <2>1 DEF NoCall
<1>4. CASE CommandFails
  BY <1>1, <1>4 DEF CommandFails
<1>5. CASE PublishRename \/ SeedFails \/ AppCrash
  BY <1>5 DEF PublishRename, SeedFails, AppCrash
<1>6. CASE \/ UnlockService \/ LockService \/ Close \/ PhraseConfirm \/ PhraseResume
           \/ BackupExport \/ SyncPage \/ Rescan
  BY <1>6 DEF UnlockService, LockService, Close, PhraseConfirm, PhraseResume, BackupExport,
              SyncPage, Rescan, Using, Quiet
<1> QED
  BY <1>2, <1>3, <1>4, <1>5, <1>6

\* Every step keeps the checkpoint and the session on one phrase.
LEMMA CheckpointStep ==
    ASSUME ProvisioningInv, CheckpointOfPhrase, [ProvisioningNext]_provisioningVars
    PROVE  CheckpointOfPhrase'
<1>1. CASE session' = NoSession
  BY <1>1 DEF CheckpointOfPhrase
<1>2. CASE SeedStaged
  <2>1. call # NoCall
    BY SMT, <1>2 DEF SeedStaged, NoCall
  <2>2. disk'[call.name]["seed"] = call.content
    BY <1>2, <2>1 DEF ProvisioningInv, CommandInv, SeedStaged
  <2>3. session'.name = call.name /\ session'.seed = call.content.seed
    BY <1>2 DEF SeedStaged, Session
  <2> QED
    BY <2>2, <2>3 DEF CheckpointOfPhrase, Stage
<1>3. ASSUME NEW n \in Names, NEW s \in Seeds, SeedResume(n, s)
      PROVE  CheckpointOfPhrase'
  <2>1. session'.name = n /\ session'.seed = s /\ disk'[n]["seed"].seed = s
    BY <1>3 DEF SeedResume, Session, ValidCheckpoint
  <2> QED
    BY <2>1 DEF CheckpointOfPhrase, Stage
<1>4. CASE SeedNoChanges
  <2>1. session \in [name : Names, seed : Seeds \union {"none"}, ready : BOOLEAN]
        /\ session # NoSession
    BY <1>4 DEF SeedNoChanges, InSession, ProvisioningInv, SessionInv
  <2>2. session'.name = session.name /\ session'.seed = session.seed /\ disk' = disk
    BY <1>4, <2>1 DEF SeedNoChanges
  <2> QED
    BY <2>1, <2>2 DEF CheckpointOfPhrase, Stage
<1>5. CASE SeedPage \/ PublishCommit
  <2>1. Shapes /\ session # NoSession /\ session' = session /\ session.name \in Names
    BY <1>5 DEF ProvisioningInv, SessionInv, SeedPage, PublishCommit, InSession
  <2>2. "seed" \in Places
    BY DEF Places
  <2>3. Stage \in Directories
    BY <2>1, <2>2 DEF Shapes, Stage
  <2>4. \E d : Put(session.name, "seed", d) /\ d.seed = Stage.seed
    <3>1. CASE SeedPage
      <4>0. PICK scanned \in Reconciled(Stage) :
                Put(session.name, "seed",
                    [Stage EXCEPT !.scanned = scanned, !.status = "in_progress"])
        BY <3>1 DEF SeedPage
      <4> DEFINE d == [Stage EXCEPT !.scanned = scanned, !.status = "in_progress"]
      <4>1. Put(session.name, "seed", d)
        BY <4>0
      <4>2. d.seed = Stage.seed
        BY <2>3 DEF Directories
      <4> QED
        BY <4>1, <4>2
    <3>2. CASE PublishCommit
      <4> DEFINE d == [Stage EXCEPT !.status = "complete"]
      <4>1. Put(session.name, "seed", d)
        BY <3>2 DEF PublishCommit
      <4>2. d.seed = Stage.seed
        BY <2>3 DEF Directories
      <4> QED
        BY <4>1, <4>2
    <3> QED
      BY <1>5, <3>1, <3>2
  <2>5. disk'[session.name]["seed"].seed = Stage.seed
    BY <2>1, <2>2, <2>4 DEF Put, Shapes
  <2> QED
    BY <2>1, <2>5 DEF CheckpointOfPhrase, Stage
<1>6. CASE TipMoves \/ UNCHANGED provisioningVars
  BY <1>6 DEF TipMoves, provisioningVars, CheckpointOfPhrase, Stage
<1> QED
  BY <1>1, <1>2, <1>3, <1>4, <1>5, <1>6, NoSessionTaken DEF ProvisioningNext

\* The restore session scans for the phrase that was typed, also when the
\* checkpoint it takes up was left under this name by another restore.
THEOREM CheckpointsMatchTheirPhrase == ProvisioningSpec => []CheckpointOfPhrase
<1>1. ProvisioningInit => CheckpointOfPhrase
  BY DEF ProvisioningInit, CheckpointOfPhrase
<1> QED
  BY <1>1, InitEstablishes, Inductive, CheckpointStep, PTL DEF ProvisioningSpec

\* What WalletService has in memory of the ceremony is not ahead of the disk,
\* and a creation in progress has not been confirmed.
CeremonyInv ==
    /\ CeremonyOnce
    /\ service.confirmed => Opened.confirmed
    /\ call.cmd \in {"create", "resume"} => ~call.content.confirmed

\* A step that leaves the service alone, or locks or closes it, keeps its
\* memory of the ceremony behind the disk.
LEMMA MemoryStep ==
    ASSUME ProvisioningInv, CeremonyInv, [ProvisioningNext]_provisioningVars, Keeps,
           \/ UNCHANGED service
           \/ service' = Closed
           \/ \E n \in Names : service' = LockedAs(n)
    PROVE  service'.confirmed => Opened'.confirmed
<1>1. CASE service' = Closed \/ \E n \in Names : service' = LockedAs(n)
  BY SMT, <1>1 DEF Closed, LockedAs
<1>2. CASE UNCHANGED service
  <2> SUFFICES ASSUME service.confirmed PROVE Opened'.confirmed
    BY <1>2
  <2>1. service # Closed
    BY SMT DEF Closed
  <2>2. service.name \in Names /\ IsWallet(Opened) /\ Opened.confirmed
    BY <2>1 DEF ProvisioningInv, ServiceInv, CeremonyInv
  <2> QED
    BY <1>2, <2>2 DEF Keeps, RootKept, Opened
<1> QED
  BY <1>1, <1>2

\* A new wallet has its ceremony before it.
LEMMA NewIsUnconfirmed == ASSUME NEW s \in Seeds PROVE NewWallet(s).confirmed = FALSE
<1> DEFINE d == Dir("wallet")
<1>1. d.confirmed = FALSE /\ d \in Directories
  BY DEF Dir, Directories
<1>2. NewWallet(s) = [d EXCEPT !.seed = s]
  BY DEF NewWallet
<1> HIDE DEF d
<1> QED
  BY <1>1, <1>2 DEF Directories

\* Which installation is in progress changes only when it begins and ends.
LEMMA CallStep ==
    ASSUME ProvisioningInv, CeremonyInv, [ProvisioningNext]_provisioningVars
    PROVE  call'.cmd \in {"create", "resume"} => ~call'.content.confirmed
<1>1. CASE call' = call
  BY <1>1 DEF CeremonyInv
<1>2. CASE call' = NoCall
  BY <1>2 DEF NoCall
<1>3. ASSUME NEW n \in Names, NEW s \in Seeds, CreateRecoverable(n, s)
      PROVE  call'.cmd \in {"create", "resume"} => ~call'.content.confirmed
  BY <1>3, NewIsUnconfirmed DEF CreateRecoverable, BeginCall
<1>4. ASSUME NEW n \in Names, ResumeCreate(n)
      PROVE  call'.cmd \in {"create", "resume"} => ~call'.content.confirmed
  BY <1>4 DEF ResumeCreate, BeginCall
<1>5. ASSUME NEW n \in Names,
             BackupImport(n) \/ \E s \in Seeds : RestoreOffline(n, s) \/ SeedBegin(n, s)
      PROVE  call' = call \/ call'.cmd \notin {"create", "resume"}
  BY SMT, <1>5 DEF BackupImport, RestoreOffline, SeedBegin, BeginCall
<1>6. CASE MakeStage \/ PublishInitial \/ RenameStage \/ InstallImport
  <2>1. call # NoCall
    BY SMT, <1>6 DEF MakeStage, PublishInitial, RenameStage, InstallImport, CallAt, NoCall
  <2>2. call \in CallRecords
    BY <2>1 DEF ProvisioningInv, CommandInv
  <2>3. \E p, at : call' = [call EXCEPT !.place = p, !.at = at]
    BY <1>6 DEF MakeStage, PublishInitial, RenameStage, InstallImport, Continue
  <2>4. call'.cmd = call.cmd /\ call'.content = call.content
    BY <2>2, <2>3 DEF CallRecords
  <2> QED
    BY <2>4 DEF CeremonyInv
<1>7. CASE OpenInstalled \/ CommandFails \/ SeedStaged \/ AppCrash
  BY <1>2, <1>7 DEF OpenInstalled, CommandFails, SeedStaged, AppCrash
<1>8. CASE \/ \E n \in Names : EmptyShell(n) \/ AbortCreate(n) \/ SeedAbort(n) \/ OpenNamed(n)
                \/ \E s \in Seeds : SeedResume(n, s)
           \/ SeedPage \/ SeedNoChanges \/ PublishCommit \/ PublishRename \/ SeedFails
           \/ UnlockService \/ LockService \/ Close \/ PhraseConfirm \/ PhraseResume \/ BackupExport
           \/ SyncPage \/ Rescan \/ TipMoves \/ UNCHANGED provisioningVars
  <2>1. call' = call
    BY <1>8 DEF EmptyShell, AbortCreate, SeedAbort, OpenNamed, Using, SeedResume, SeedPage,
          SeedNoChanges, PublishCommit, PublishRename, SeedFails, InSession, UnlockService,
          LockService, Close, PhraseConfirm, PhraseResume, BackupExport, SyncPage, Rescan, TipMoves,
          provisioningVars
  <2> QED
    BY <1>1, <2>1
<1> QED
  BY <1>1, <1>3, <1>4, <1>5, <1>6, <1>7, <1>8 DEF ProvisioningNext

\* The service is left alone, locked, closed or unlocked.
LEMMA ServiceStep ==
    ASSUME ProvisioningInv, [ProvisioningNext]_provisioningVars
    PROVE  \/ UNCHANGED service
           \/ service' = Closed
           \/ \E n \in Names : service' = LockedAs(n)
           \/ UnlockService
<1>1. CASE OpenInstalled
  <2>1. call # NoCall
    BY SMT, <1>1 DEF OpenInstalled, CallAt, NoCall
  <2>2. call.name \in Names
    BY <2>1 DEF ProvisioningInv, CommandInv, CallRecords
  <2> QED
    BY <1>1, <2>2 DEF OpenInstalled
<1>2. CASE PublishRename
  BY <1>2 DEF PublishRename, InSession, ProvisioningInv, SessionInv
<1>3. CASE LockService
  <2>1. service # Closed
    BY SMT, <1>3 DEF LockService, Using, Closed
  <2> QED
    BY <1>3, <2>1 DEF LockService, ProvisioningInv, ServiceInv
<1>4. CASE \/ \E n \in Names : OpenNamed(n)
           \/ Close \/ AppCrash \/ UNCHANGED provisioningVars
  BY <1>4 DEF OpenNamed, Close, AppCrash, provisioningVars
<1>5. CASE \/ \E n \in Names :
                \/ EmptyShell(n) \/ ResumeCreate(n) \/ AbortCreate(n) \/ BackupImport(n)
                \/ SeedAbort(n)
                \/ \E s \in Seeds : \/ CreateRecoverable(n, s) \/ RestoreOffline(n, s)
                                    \/ SeedBegin(n, s) \/ SeedResume(n, s)
           \/ MakeStage \/ PublishInitial \/ RenameStage \/ InstallImport \/ CommandFails
           \/ SeedStaged \/ SeedPage \/ SeedNoChanges \/ PublishCommit \/ SeedFails
           \/ PhraseConfirm \/ PhraseResume \/ BackupExport \/ SyncPage \/ Rescan \/ TipMoves
  BY <1>5 DEF EmptyShell, ResumeCreate, AbortCreate, BackupImport, SeedAbort, CreateRecoverable,
        RestoreOffline, SeedBegin, SeedResume, MakeStage, PublishInitial, RenameStage,
        InstallImport, CommandFails, SeedStaged, SeedPage, SeedNoChanges, PublishCommit, SeedFails,
        PhraseConfirm, PhraseResume, BackupExport, SyncPage, Rescan, TipMoves
<1> QED
  BY <1>1, <1>2, <1>3, <1>4, <1>5 DEF ProvisioningNext

\* Every step but an export leaves the backup alone, and every step but the
\* two that return a phrase shows none.
LEMMA ShownStep ==
    ASSUME [ProvisioningNext]_provisioningVars
    PROVE  /\ BackupExport \/ UNCHANGED backup
           /\ OpenInstalled \/ PhraseResume \/ shown' = "none" \/ UNCHANGED provisioningVars
<1>1. CASE \E n \in Names :
                \/ EmptyShell(n) \/ ResumeCreate(n) \/ AbortCreate(n) \/ BackupImport(n)
                \/ SeedAbort(n) \/ OpenNamed(n)
                \/ \E s \in Seeds : \/ CreateRecoverable(n, s) \/ RestoreOffline(n, s)
                                    \/ SeedBegin(n, s) \/ SeedResume(n, s)
  BY <1>1 DEF EmptyShell, ResumeCreate, AbortCreate, BackupImport, SeedAbort, OpenNamed,
        CreateRecoverable, RestoreOffline, SeedBegin, SeedResume, Hidden, Shows
<1>2. CASE \/ MakeStage \/ PublishInitial \/ RenameStage \/ InstallImport \/ OpenInstalled
           \/ CommandFails \/ SeedStaged
  BY <1>2 DEF MakeStage, PublishInitial, RenameStage, InstallImport, OpenInstalled, CallAt,
        CommandFails, SeedStaged, Hidden, Shows
<1>3. CASE SeedPage \/ SeedNoChanges \/ PublishCommit \/ PublishRename \/ SeedFails
  BY <1>3 DEF SeedPage, SeedNoChanges, PublishCommit, PublishRename, SeedFails, InSession,
        Hidden, Shows
<1>4. CASE \/ UnlockService \/ LockService \/ Close \/ PhraseConfirm \/ PhraseResume
           \/ BackupExport \/ SyncPage \/ Rescan \/ TipMoves \/ AppCrash \/ UNCHANGED provisioningVars
  BY <1>4 DEF UnlockService, LockService, Close, PhraseConfirm, PhraseResume, BackupExport,
        SyncPage, Rescan, TipMoves, AppCrash, provisioningVars, Hidden, Shows
<1> QED
  BY <1>1, <1>2, <1>3, <1>4 DEF ProvisioningNext

\* Every step preserves the invariant of the ceremony.
LEMMA CeremonyStep ==
    ASSUME ProvisioningInv, CeremonyInv, [ProvisioningNext]_provisioningVars
    PROVE  CeremonyInv'
<1>1. Keeps
  BY Inductive
<1>2. service'.confirmed => Opened'.confirmed
  <2>1. CASE UnlockService
    <3>1. service # Closed
      BY SMT, <2>1 DEF UnlockService, Using, Closed
    <3>2. service \in [phase : {"locked", "unlocked"}, name : Names, confirmed : BOOLEAN]
      BY <3>1 DEF ProvisioningInv, ServiceInv
    <3> DEFINE c == Opened.confirmed
    <3>3. service' = [service EXCEPT !.phase = "unlocked", !.confirmed = c] /\ disk' = disk
      BY <2>1 DEF UnlockService
    <3>4. service'.confirmed = c /\ service'.name = service.name
      BY <3>2, <3>3
    <3> QED
      BY <3>3, <3>4 DEF Opened
  <2> QED
    BY <1>1, <2>1, ServiceStep, MemoryStep
<1>3. IsWallet(backup') => backup'.confirmed
  <2>1. CASE BackupExport
    BY <2>1 DEF BackupExport, PhraseConfirmed, CeremonyInv
  <2> QED
    BY <2>1, ShownStep DEF CeremonyInv, CeremonyOnce
<1>4. shown' # "none" => ~Opened'.confirmed /\ Opened'.seed = shown'
  <2>1. CASE OpenInstalled
    <3>1. call # NoCall /\ call.at = "open" /\ call.place = "root"
      BY SMT, <2>1 DEF OpenInstalled, CallAt, NoCall
    <3>2. disk[call.name]["root"] = call.content
      BY <3>1 DEF ProvisioningInv, CommandInv
    <3>3. service' = LockedAs(call.name) /\ disk' = disk
          /\ shown' = (IF call.cmd \in {"create", "resume"} THEN call.content.seed ELSE "none")
      BY <2>1 DEF OpenInstalled, Shows
    <3>4. Opened' = call.content
      BY <3>2, <3>3 DEF Opened, LockedAs
    <3> QED
      BY <3>3, <3>4 DEF CeremonyInv
  <2>2. CASE PhraseResume
    BY <2>2 DEF PhraseResume, MayShowPhrase, Shows, Opened
  <2>3. CASE UNCHANGED provisioningVars
    BY <2>3 DEF provisioningVars, CeremonyInv, CeremonyOnce, Opened
  <2> QED
    BY <2>1, <2>2, <2>3, ShownStep
<1> QED
  BY <1>2, <1>3, <1>4, CallStep DEF CeremonyInv, CeremonyOnce

\* A phrase is shown only for the open wallet and only before its confirmation,
\* and no backup carries an unfinished ceremony: what is in memory of the
\* confirmation is never ahead of the disk, for every number of names.
THEOREM CeremonyEndsOnce == ProvisioningSpec => []CeremonyOnce
<1>1. ProvisioningInit => CeremonyInv
  <2> SUFFICES ASSUME ProvisioningInit PROVE CeremonyInv
    OBVIOUS
  <2>1. IsWallet(backup) => backup.confirmed
    <3>1. CASE backup = NoDir
      BY <3>1, Kinds DEF IsWallet
    <3>2. ASSUME NEW s \in Seeds, backup = [NewWallet(s) EXCEPT !.confirmed = TRUE]
          PROVE  backup.confirmed
      BY <3>2, NewWallets DEF Directories
    <3> QED
      BY <3>1, <3>2 DEF ProvisioningInit
  <2> QED
    BY <2>1 DEF ProvisioningInit, CeremonyInv, CeremonyOnce, Closed, NoCall
<1>2. CeremonyInv => CeremonyOnce
  BY DEF CeremonyInv
<1> QED
  BY <1>1, <1>2, InitEstablishes, Inductive, CeremonyStep, PTL DEF ProvisioningSpec

HIDE MaxBlocksAssumption


-----------------------------------------------------------------------------
(***************************************************************************)
(* Safety of the managed node's promotion and rollback, for every number   *)
(* of releases and every sequence bound. The inductive invariant says what *)
(* each stage of a promotion has already established: the running node is  *)
(* gone from the backup on, the pointer names the candidate while it is    *)
(* started and persisted and the previous release while that is restarted, *)
(* the candidate has answered before its acceptance is written, and it is  *)
(* newer than what is accepted until then.                                 *)
(***************************************************************************)
Stages == {"none", "stop", "backup", "pointer", "start", "persist", "rollback",
           "restore", "restart"}

Lifecycles == {"DISABLED", "ENABLED", "READY", "PROMOTING", "ROLLING_BACK", "ROLLED_BACK",
               "FAILED"}

Stores == [pointer : Nat, installed : SUBSET Nat, data : SUBSET Nat, backup : SUBSET Nat]

Managers == [enabled : BOOLEAN, lifecycle : Lifecycles, running : Nat, alive : BOOLEAN,
             identity : Nat]

NodeShapes ==
    /\ store \in Stores
    /\ state \in [revision : Nat, sequence : Nat]
    /\ manager \in Managers
    /\ promotion \in [at : Stages, revision : Nat, sequence : Nat, previous : Nat]

NodeGoneFromBackup == promotion.at \notin {"none", "stop"} => manager.running = NoRelease

PointerOfStage ==
    /\ promotion.at \in {"start", "persist"} => store.pointer = promotion.revision
    /\ promotion.at \in {"restore", "restart"} =>
           promotion.previous = NoRelease \/ store.pointer = promotion.previous
    /\ promotion.at = "restart" => promotion.previous # NoRelease

CandidateProven == promotion.at = "persist" => promotion.revision \in proven

CandidateIsNewer ==
    promotion.at \in {"stop", "backup", "pointer", "start", "persist"} =>
        promotion.sequence > state.sequence /\ promotion.revision > state.revision

ReleaseInv == NodeShapes /\ AcceptedIsProven /\ RunsThePointer /\ NodeGoneFromBackup
        /\ PointerOfStage /\ CandidateProven /\ CandidateIsNewer

USE BoundsAssumption DEF NoRelease, Revisions

\* The runtime directory as it is found at the first start.
LEMMA NodeInitEstablishes == ManagedInit => ReleaseInv
BY SMT DEF ManagedInit, ReleaseInv, NodeShapes, Stores, Managers, Stages, Lifecycles, AcceptedIsProven, RunsThePointer, NodeGoneFromBackup,
       PointerOfStage, CandidateProven, CandidateIsNewer, NoState, NoBackup, NoPromotion, NewManager

\* What the record updates of the model return.
LEMMA StoppedRecord ==
    ASSUME NEW m \in Managers, NEW l \in Lifecycles, NEW s,
           s = [m EXCEPT !.running = NoRelease, !.alive = FALSE, !.lifecycle = l]
    PROVE  s \in Managers /\ s.running = NoRelease
BY DEF Managers

\* After a stop no release runs.
LEMMA StoppedManager ==
    ASSUME manager \in Managers, NEW ok \in BOOLEAN
    PROVE  Stopped(ok) \in Managers /\ Stopped(ok).running = NoRelease
<1>1. PICK l \in Lifecycles :
         Stopped(ok) = [manager EXCEPT !.running = NoRelease, !.alive = FALSE, !.lifecycle = l]
  BY DEF Stopped, Lifecycles
<1> QED
  BY <1>1, StoppedRecord

\* After a start the release started runs.
LEMMA RunningManager ==
    ASSUME manager \in Managers, NEW revision \in Nat, NEW l \in Lifecycles
    PROVE  Running(revision, l) \in Managers
           /\ Running(revision, l).running = revision
BY DEF Running, Managers

\* A release that ran leaves its data; the pointer stays where it is.
LEMMA TouchedStore ==
    ASSUME store \in Stores, NEW revision \in Nat
    PROVE  Touched(revision) \in Stores /\ Touched(revision).pointer = store.pointer
BY DEF Touched, Stores

\* A session command leaves the promotion alone; the node that starts is the
\* one the pointer names.
LEMMA CommandsPreserve ==
    ASSUME ReleaseInv,
           \/ enable_for_session \/ disable_for_session \/ status \/ start_active \/ shutdown
           \/ NodeExits \/ OrphanExits
    PROVE  ReleaseInv'
<1> USE DEF ReleaseInv, NodeShapes, Stores, Managers, Stages, Lifecycles, AcceptedIsProven, RunsThePointer,
            NodeGoneFromBackup, PointerOfStage, CandidateProven, CandidateIsNewer
<1>1. CASE enable_for_session
  BY <1>1 DEF enable_for_session, Free
<1>2. CASE disable_for_session
  <2>1. manager' \in Managers /\ manager'.running = NoRelease
    <3>1. \/ manager' = Stopped(FALSE)
          \/ manager' = [Stopped(TRUE) EXCEPT !.enabled = FALSE, !.lifecycle = "DISABLED"]
      BY <1>2 DEF disable_for_session, Stops
    <3>2. CASE manager' = Stopped(FALSE)
      BY <3>2, StoppedManager
    <3>3. CASE manager' = [Stopped(TRUE) EXCEPT !.enabled = FALSE, !.lifecycle = "DISABLED"]
      <4>2. Stopped(TRUE) \in Managers /\ Stopped(TRUE).running = NoRelease
        BY StoppedManager
      <4> QED
        BY <3>3, <4>2
    <3> QED
      BY <3>1, <3>2, <3>3
  <2> QED
    BY <1>2, <2>1 DEF disable_for_session
<1>3. CASE status
  <2>1. CASE manager' = [manager EXCEPT !.running = NoRelease, !.lifecycle = "FAILED"]
    BY <1>3, <2>1 DEF status, Free
  <2>2. CASE manager' = [manager EXCEPT !.lifecycle = "FAILED"]
    BY <1>3, <2>2 DEF status, Free
  <2> QED
    BY <1>3, <2>1, <2>2 DEF status
<1>4. CASE start_active
  <2> USE DEF start_active, Starts, DoesNotStart
  <2>1. store' \in Stores /\ store'.pointer = store.pointer
    <3>1. store' \in {store, Touched(store.pointer)} /\ store.pointer \in Nat
      BY <1>4
    <3> QED
      BY SMT, <3>1, TouchedStore
  <2>2. manager' \in Managers /\ manager'.running \in {NoRelease, store.pointer}
    BY SMT, <1>4, RunningManager
  <2>3. UNCHANGED <<state, promotion>> /\ promotion.at = "none" /\ proven \subseteq proven'
    BY <1>4 DEF Free
  <2> QED
    BY <2>1, <2>2, <2>3
<1>5. CASE shutdown
  <2>1. manager' \in Managers /\ manager'.running = NoRelease
    BY SMT, <1>5, StoppedManager DEF shutdown, Stops
  <2> QED
    BY <1>5, <2>1 DEF shutdown
<1>6. CASE NodeExits
  BY <1>6 DEF NodeExits
<1>7. CASE OrphanExits
  BY SMT, <1>7 DEF OrphanExits
<1> QED
  BY <1>1, <1>2, <1>3, <1>4, <1>5, <1>6, <1>7

\* The steps of a promotion that goes forward. The feed is newer than what is
\* accepted when the promotion begins, and the state is written only after the
\* candidate has answered.
LEMMA PromotionPreserves ==
    ASSUME ReleaseInv,
           \/ promote_signed_release \/ PromoteStop \/ PromoteInstall \/ PromotePointer
           \/ PromoteStart \/ PromotePersist
    PROVE  ReleaseInv'
<1> USE DEF ReleaseInv, NodeShapes, Stores, Managers, Stages, Lifecycles, AcceptedIsProven, RunsThePointer,
            NodeGoneFromBackup, PointerOfStage, CandidateProven, CandidateIsNewer
<1>1. CASE promote_signed_release
  <2>1. PICK identity \in Identities, feed \in [sequence: 1 .. MaxSequence, revision: Revisions] :
            /\ validate_node_feed_policy(identity, feed)
            /\ promotion' = [at |-> "stop", revision |-> feed.revision,
                             sequence |-> feed.sequence, previous |-> store.pointer]
    BY <1>1 DEF promote_signed_release
  <2>2. /\ identity \in Nat /\ feed.sequence \in Nat /\ feed.revision \in Nat
        /\ UNCHANGED <<store, state, manager, proven>>
    BY SMT, <1>1, <2>1 DEF promote_signed_release, Identities
  <2>3. feed.sequence > state.sequence /\ feed.revision > state.revision
    BY SMT, <2>1, <2>2 DEF validate_node_feed_policy, NoState
  <2> QED BY SMT, <2>1, <2>2, <2>3
<1>2. CASE PromoteStop
  <2>1. manager' \in Managers /\ manager'.running = NoRelease
    BY <1>2, StoppedManager DEF PromoteStop, Stops
  <2>2. promotion.at = "stop" /\ (promotion' = [promotion EXCEPT !.at = "backup"] \/ promotion' = NoPromotion)
    BY <1>2 DEF PromoteStop, InStage, ToStage, Return
  <2>3. UNCHANGED <<store, state, proven>>
    BY <1>2 DEF PromoteStop
  <2> QED
    BY SMT, <2>1, <2>2, <2>3 DEF NoPromotion
<1>3. CASE PromoteInstall
  <2>1. store' \in Stores /\ store'.pointer = store.pointer
    <3> DEFINE copy == IF store.data = {} THEN NoBackup ELSE store.data
    <3>1. copy \in SUBSET Nat
      BY SMT DEF NoBackup
    <3>2. \/ UNCHANGED store
          \/ store' = [store EXCEPT !.backup = copy,
                                    !.installed = store.installed \cup {promotion.revision}]
      BY <1>3 DEF PromoteInstall
    <3>3. CASE UNCHANGED store
      BY <3>3
    <3>4. CASE store' = [store EXCEPT !.backup = copy,
                             !.installed = store.installed \cup {promotion.revision}]
      <4> HIDE DEF copy
      <4>1. store.installed \cup {promotion.revision} \in SUBSET Nat
        OBVIOUS
      <4> QED
        BY <3>1, <3>4, <4>1
    <3> QED
      BY <3>2, <3>3, <3>4
  <2>2. manager' \in Managers /\ manager'.running = manager.running
    BY SMT, <1>3 DEF PromoteInstall
  <2>3. promotion.at = "backup" /\ (promotion' = [promotion EXCEPT !.at = "pointer"] \/ promotion' = NoPromotion)
    BY <1>3 DEF PromoteInstall, InStage, ToStage, Return
  <2>4. UNCHANGED <<state, proven>>
    BY <1>3 DEF PromoteInstall
  <2> QED
    BY SMT, <2>1, <2>2, <2>3, <2>4 DEF NoPromotion
<1>4. CASE PromotePointer
  BY SMT, <1>4 DEF PromotePointer, InStage, ToStage, Return, NoPromotion
<1>5. CASE PromoteStart
  <2> USE DEF PromoteStart, Starts, DoesNotStart
  <2>1. store' \in Stores /\ store'.pointer = store.pointer
    BY SMT, <1>5, TouchedStore
  <2>2. promotion.at = "start" /\ UNCHANGED <<state, manager>> /\ proven \subseteq proven'
    BY <1>5 DEF InStage
  <2>3. \/ promotion' = NoPromotion \/ promotion' = [promotion EXCEPT !.at = "rollback"]
        \/ promotion' = [promotion EXCEPT !.at = "persist"] /\ promotion.revision \in proven'
    BY SMT, <1>5 DEF ToStage, Return
  <2> QED
    BY SMT, <2>1, <2>2, <2>3 DEF NoPromotion
<1>6. CASE PromotePersist
  BY <1>6 DEF PromotePersist, InStage, Return, NoPromotion, Accepted, Running
<1> QED
  BY <1>1, <1>2, <1>3, <1>4, <1>5, <1>6

\* The steps that abandon a promotion or roll it back: they may leave the state
\* written, but only for a candidate that had answered.
LEMMA RollbackPreserves ==
    ASSUME ReleaseInv,
           \/ PromoteIdentityMismatch \/ PromotePersistFails \/ PromoteLayoutFails
           \/ RollbackPointer \/ RollbackData \/ RollbackStart \/ ApplicationCrash
    PROVE  ReleaseInv'
<1> USE DEF ReleaseInv, NodeShapes, Stores, Managers, Stages, Lifecycles, AcceptedIsProven, RunsThePointer,
            NodeGoneFromBackup, PointerOfStage, CandidateProven, CandidateIsNewer
<1>1. CASE PromoteIdentityMismatch
  BY <1>1 DEF PromoteIdentityMismatch, InStage, ToStage
<1>2. CASE PromotePersistFails
  BY SMT, <1>2 DEF PromotePersistFails, InStage, ToStage, Accepted
<1>3. CASE PromoteLayoutFails
  BY <1>3 DEF PromoteLayoutFails, InStage, Return, NoPromotion
<1>4. CASE RollbackPointer
  BY SMT, <1>4 DEF RollbackPointer, InStage, ToStage, Return, NoPromotion
<1>5. CASE RollbackData
  <2>1. store' \in Stores /\ store'.pointer = store.pointer
    BY SMT, <1>5 DEF RollbackData, Restored
  <2>2. manager' \in Managers /\ manager'.running = manager.running
    BY SMT, <1>5 DEF RollbackData
  <2>3. \/ promotion' = NoPromotion
        \/ promotion.previous # NoRelease /\ promotion' = [promotion EXCEPT !.at = "restart"]
    BY <1>5 DEF RollbackData, ToStage, Return
  <2>4. UNCHANGED <<state, proven>> /\ promotion.at = "restore"
    BY <1>5 DEF RollbackData, InStage
  <2> QED
    BY SMT, <2>1, <2>2, <2>3, <2>4 DEF NoPromotion
<1>6. CASE RollbackStart
  <2> USE DEF RollbackStart, Starts, DoesNotStart
  <2>1. store' \in Stores /\ store'.pointer = store.pointer
    BY SMT, <1>6, TouchedStore
  <2>2. manager' \in Managers /\ manager'.running \in {NoRelease, store.pointer}
    <3>1. /\ promotion.previous \in Nat /\ promotion.previous = store.pointer
          /\ manager \in Managers /\ manager.running = NoRelease
      BY <1>6 DEF InStage
    <3>2. \/ UNCHANGED manager
          \/ manager' = Running(promotion.previous, "ROLLED_BACK")
      BY <1>6
    <3>3. CASE UNCHANGED manager
      BY <3>1, <3>3
    <3>4. CASE manager' = Running(promotion.previous, "ROLLED_BACK")
      <4>1. "ROLLED_BACK" \in Lifecycles
        OBVIOUS
      <4>2. /\ Running(promotion.previous, "ROLLED_BACK") \in Managers
            /\ Running(promotion.previous, "ROLLED_BACK").running = promotion.previous
        BY <3>1, <4>1, RunningManager
      <4> QED
        BY <3>1, <3>4, <4>2
    <3> QED
      BY <3>2, <3>3, <3>4
  <2>3. UNCHANGED state /\ promotion' = NoPromotion /\ proven \subseteq proven'
    BY <1>6 DEF Return
  <2> QED
    BY <2>1, <2>2, <2>3 DEF NoPromotion
<1>7. CASE ApplicationCrash
  <2>1. /\ manager' = NewManager
        /\ promotion' = NoPromotion
        /\ UNCHANGED <<store, state, proven>>
    BY <1>7 DEF ApplicationCrash, Return
  <2> QED
    BY <2>1 DEF NewManager, NoPromotion
<1> QED
  BY <1>1, <1>2, <1>3, <1>4, <1>5, <1>6, <1>7

\* The inductive invariant holds in every reachable state.
LEMMA NodeInductive == ManagedSpec => []ReleaseInv
<1>1. ReleaseInv /\ [ManagedNext]_managedVars => ReleaseInv'
  <2> SUFFICES ASSUME ReleaseInv, [ManagedNext]_managedVars PROVE ReleaseInv'
    OBVIOUS
  <2>1. CASE UNCHANGED managedVars
    BY <2>1 DEF managedVars, ReleaseInv, NodeShapes, AcceptedIsProven, RunsThePointer, NodeGoneFromBackup,
                PointerOfStage, CandidateProven, CandidateIsNewer
  <2>2. CASE ManagedNext
    BY <2>2, CommandsPreserve, PromotionPreserves, RollbackPreserves DEF ManagedNext
  <2> QED
    BY <2>1, <2>2
<1> QED
  BY <1>1, NodeInitEstablishes, PTL DEF ManagedSpec

\* promote_signed_release: node-state.json names only a release that has been
\* started and has answered with its identity.
THEOREM AcceptedReleaseIsProven == ManagedSpec => []AcceptedIsProven
<1>1. ReleaseInv => AcceptedIsProven
  BY DEF ReleaseInv
<1> QED
  BY <1>1, NodeInductive, PTL

\* The pointer never moves under a running node.
THEOREM NodeRunsThePointer == ManagedSpec => []RunsThePointer
<1>1. ReleaseInv => RunsThePointer
  BY DEF ReleaseInv
<1> QED
  BY <1>1, NodeInductive, PTL

\* The only steps that write node-state.json are those of the stage "persist",
\* where the candidate is newer than what is accepted; so a replayed or older
\* feed never replaces it.
THEOREM AcceptedOnlyAdvances == ManagedSpec => AcceptedAdvances
<1>1. ASSUME ReleaseInv, [ManagedNext]_managedVars
      PROVE  [state' # state => /\ state'.sequence > state.sequence
                                /\ state'.revision > state.revision]_managedVars
  <2>1. CASE PromotePersist \/ PromotePersistFails
    <3>1. state' \in {state, Accepted} /\ promotion.at = "persist"
      BY <2>1 DEF PromotePersist, PromotePersistFails, InStage
    <3>2. Accepted.sequence > state.sequence /\ Accepted.revision > state.revision
      BY <1>1, <3>1 DEF Accepted, ReleaseInv, NodeShapes, CandidateIsNewer
    <3> QED
      BY <3>1, <3>2
  <2>2. CASE ~(PromotePersist \/ PromotePersistFails)
    <3>1. UNCHANGED state
      BY <1>1, <2>2 DEF ManagedNext, managedVars, enable_for_session, disable_for_session, status,
            start_active, shutdown, promote_signed_release, PromoteStop, PromoteInstall,
            PromotePointer, PromoteStart, PromoteIdentityMismatch, PromoteLayoutFails,
            RollbackPointer, RollbackData, RollbackStart, NodeExits, OrphanExits, ApplicationCrash
    <3> QED
      BY <3>1
  <2> QED
    BY <2>1, <2>2
<1> QED
  BY <1>1, NodeInductive, PTL DEF ManagedSpec, AcceptedAdvances
=============================================================================
