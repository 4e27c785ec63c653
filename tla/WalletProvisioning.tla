------------------------ MODULE WalletProvisioning ------------------------
(***************************************************************************)
(* How a wallet directory comes to exist: creation with its phrase         *)
(* ceremony, resume and abort of an interrupted creation, the immediate    *)
(* restore from a phrase, the staged seed restore with its checkpoint,     *)
(* backup export and import; with crashes and I/O errors between their     *)
(* durable steps.                                                          *)
(*                                                                         *)
(* Every installation goes through WalletDirectory::create, which builds   *)
(* the wallet in a hidden sibling directory and renames it.  Passwords are *)
(* the right ones: a wrong one is refused before anything changes.         *)
(***************************************************************************)
EXTENDS Naturals

CONSTANTS
    Names,              \* names in the managed wallets directory
    Seeds,              \* recovery phrases
    MaxBlocks           \* bound on the length of the chain

ASSUME MaxBlocksAssumption == MaxBlocks \in Nat \ {0}

VARIABLES
    disk,               \* what is at each place of each name
    service,            \* WalletService: phase, open name, confirmed in memory
    call,               \* the installation in progress
    session,            \* SeedRestoreSession, inside restore()
    backup,             \* the exported backup file
    blocks,             \* length of the canonical chain
    shown               \* the phrase the last step displayed

provisioningVars == <<disk, service, call, session, backup, blocks, shown>>

\* d, .d.create-staging, .d.backup-import, .d.seed-restore, and the staging
\* directories of the last two.
Places == {"root", "create", "import", "import_create", "seed", "seed_create"}

\* Mutant: the wallet is built in place.
InPlace(place) == place

\* create_staging_path
Staging(place) ==
    CASE place = "root" -> "create"
      [] place = "import" -> "import_create"
      [] place = "seed" -> "seed_create"

\* A directory: absent, without files, with some files missing, or complete.
\* scanned counts the blocks under the cursor; staged marks a staged restore.
Dir(kind) == [kind |-> kind, seed |-> "none", confirmed |-> FALSE,
              status |-> "none", scanned |-> 0, staged |-> FALSE]
NoDir == Dir("absent")
Empty == Dir("empty")
Partial == Dir("partial")
NewWallet(seed) == [Dir("wallet") EXCEPT !.seed = seed]
OfflineRestoreState(seed) ==
    [NewWallet(seed) EXCEPT !.confirmed = TRUE, !.status = "in_progress"]
IsWallet(d) == d.kind = "wallet"

Closed == [phase |-> "closed", name |-> "none", confirmed |-> FALSE]
LockedAs(n) == [phase |-> "locked", name |-> n, confirmed |-> FALSE]
NoCall == [cmd |-> "none", name |-> "none", place |-> "none", at |-> "none",
           content |-> NoDir]
NoSession == [name |-> "none", seed |-> "none", ready |-> FALSE]

\* A backup file may be there already, from another installation.
ProvisioningInit ==
    /\ disk = [n \in Names |-> [p \in Places |-> NoDir]]
    /\ service = Closed /\ call = NoCall /\ session = NoSession
    /\ backup \in {NoDir} \union {[NewWallet(s) EXCEPT !.confirmed = TRUE] : s \in Seeds}
    /\ blocks = 1 /\ shown = "none"

Quiet == call = NoCall /\ session = NoSession
Exists(n, place) == disk[n][place].kind # "absent"
Put(n, place, d) == disk' = [disk EXCEPT ![n][place] = d]
Move(n, from, to) ==
    disk' = [disk EXCEPT ![n][to] = disk[n][from], ![n][from] = NoDir]
Shows(phrase) == shown' = phrase
Hidden == Shows("none")

\* An aborted install leaves an empty directory.
EmptyShell(n) ==
    /\ Quiet /\ ~Exists(n, "root") /\ Put(n, "root", Empty) /\ Hidden
    /\ UNCHANGED <<service, call, session, backup, blocks>>

\* The tip of the node's chain: a new block, or a branch that replaces some.
TipMoves ==
    /\ blocks' \in 1..MaxBlocks /\ blocks' <= blocks + 1 /\ Hidden
    /\ UNCHANGED <<disk, service, call, session, backup>>

-----------------------------------------------------------------------------
\* WalletDirectory::create refuses an existing destination or stage.
CreateAllowed(n, place) == ~Exists(n, place) /\ ~Exists(n, Staging(place))

BeginCall(cmd, n, place, at, content) ==
    call' = [cmd |-> cmd, name |-> n, place |-> place, at |-> at,
             content |-> content]

CreateRecoverable(n, seed) ==
    /\ Quiet /\ service = Closed /\ CreateAllowed(n, "root") /\ Hidden
    /\ BeginCall("create", n, "root", "mkdir", NewWallet(seed))
    /\ UNCHANGED <<disk, service, session, backup, blocks>>

\* Mutant: whatever is at the destination is removed.
ReclaimedAnyway(d) == NoDir

\* restore_destination_is_occupied removes a directory that is empty.
Reclaimed(d) == IF d = Empty THEN NoDir ELSE d

RestoreOffline(n, seed) ==
    /\ Quiet /\ service = Closed /\ Hidden
    /\ Put(n, "root", Reclaimed(disk[n]["root"]))
    /\ IF Reclaimed(disk[n]["root"]) = NoDir /\ ~Exists(n, "create")
       THEN BeginCall("restore", n, "root", "mkdir", OfflineRestoreState(seed))
       ELSE UNCHANGED call
    /\ UNCHANGED <<service, session, backup, blocks>>

\* resume_create publishes a complete stage whose phrase is not confirmed.
ResumeCreate(n) ==
    /\ Quiet /\ service = Closed /\ ~Exists(n, "root") /\ Hidden
    /\ IsWallet(disk[n]["create"]) /\ ~disk[n]["create"].confirmed
    /\ BeginCall("resume", n, "root", "rename", disk[n]["create"])
    /\ UNCHANGED <<disk, service, session, backup, blocks>>

\* import_backup validates the file before it creates anything.
BackupImport(n) ==
    /\ Quiet /\ service = Closed /\ IsWallet(backup) /\ Hidden
    /\ ~Exists(n, "root") /\ CreateAllowed(n, "import")
    /\ BeginCall("import", n, "import", "mkdir", backup)
    /\ UNCHANGED <<disk, service, session, backup, blocks>>

-----------------------------------------------------------------------------
\* The durable steps of create and of the installation of an import.
CallAt(at) == call.at = at /\ UNCHANGED <<session, backup, blocks>>
Continue(place, at) == call' = [call EXCEPT !.place = place, !.at = at]

MakeStage ==
    /\ CallAt("mkdir") /\ Put(call.name, Staging(call.place), Partial)
    /\ Continue(call.place, "publish") /\ Hidden /\ UNCHANGED service

\* publish_initial: the metadata is the last file inspect_structure needs.
PublishInitial ==
    /\ CallAt("publish") /\ Put(call.name, Staging(call.place), call.content)
    /\ Continue(call.place, "rename") /\ Hidden /\ UNCHANGED service

RenameStage ==
    /\ CallAt("rename") /\ Move(call.name, Staging(call.place), call.place)
    /\ Continue(call.place, "open") /\ Hidden /\ UNCHANGED service

InstallImport ==
    /\ CallAt("open") /\ call.place = "import"
    /\ Move(call.name, "import", "root")
    /\ Continue("root", "open") /\ Hidden /\ UNCHANGED service

\* The wallet is open, and locked; a creation returns its phrase.
OpenInstalled ==
    /\ CallAt("open") /\ call.place = "root"
    /\ service' = LockedAs(call.name) /\ call' = NoCall
    /\ Shows(IF call.cmd \in {"create", "resume"} THEN call.content.seed ELSE "none")
    /\ UNCHANGED disk

\* remove_dir_all: it may not begin, and it may stop half way.
RemovedAs(d) == IF d = NoDir THEN {NoDir} ELSE {NoDir, Partial, d}

\* Mutant: the cleanup after a failed import removes the destination.
CleansDestination(cmd, place) ==
    IF cmd = "import" THEN {"import", "import_create", "root"} ELSE {Staging(place)}

\* What an error path removes: the stage, and an import its own as well.
Cleans(cmd, place) ==
    CASE cmd = "import" -> {"import", "import_create"}
      [] cmd = "resume" -> {}
      [] OTHER -> {Staging(place)}

\* A step reports an error, also one that took effect.
CommandFails ==
    /\ call # NoCall /\ call' = NoCall /\ Hidden
    /\ LET now == disk[call.name]
           gone == {p \in Cleans(call.cmd, call.place) : now[p] # NoDir}
       IN \E left \in [gone -> {NoDir, Partial, call.content}] :
            /\ \A p \in gone : left[p] \in RemovedAs(now[p])
            /\ disk' = [disk EXCEPT ![call.name] =
                   [p \in Places |-> IF p \in gone THEN left[p] ELSE now[p]]]
    /\ UNCHANGED <<service, session, backup, blocks>>

\* abort_create
AbortCreate(n) ==
    /\ Quiet /\ service = Closed /\ ~Exists(n, "root") /\ Hidden
    /\ IsWallet(disk[n]["create"])
    /\ \E d \in RemovedAs(disk[n]["create"]) : Put(n, "create", d)
    /\ UNCHANGED <<service, call, session, backup, blocks>>

-----------------------------------------------------------------------------
\* SeedRestoreService::restore: begin, one page per advance, publish.

\* Mutant: a checkpoint is accepted whatever phrase it was made from.
CheckpointOfAnyPhrase(d, seed) == IsWallet(d)

\* validate_checkpoint
ValidCheckpoint(d, seed) ==
    /\ IsWallet(d) /\ d.seed = seed /\ d.status \in {"in_progress", "complete"}
    /\ d.status = "complete" => d.scanned > 0

SeedBegin(n, seed) ==
    /\ Quiet /\ service = Closed /\ ~Exists(n, "root") /\ CreateAllowed(n, "seed")
    /\ BeginCall("seed", n, "seed", "mkdir",
             [OfflineRestoreState(seed) EXCEPT !.staged = TRUE])
    /\ Hidden /\ UNCHANGED <<disk, service, session, backup, blocks>>

Session(n, seed) == session' = [name |-> n, seed |-> seed,
                                ready |-> disk[n]["seed"].status = "complete"]

SeedResume(n, seed) ==
    /\ Quiet /\ service = Closed /\ ~Exists(n, "root")
    /\ ValidCheckpoint(disk[n]["seed"], seed) /\ Session(n, seed)
    /\ Hidden /\ UNCHANGED <<disk, service, call, backup, blocks>>

\* The stage exists now; the session goes on with it.
SeedStaged ==
    /\ call.at = "open" /\ call.place = "seed" /\ call' = NoCall
    /\ Session(call.name, call.content.seed)
    /\ Hidden /\ UNCHANGED <<disk, service, backup, blocks>>

Stage == disk[session.name]["seed"]
InSession == session # NoSession /\ Hidden /\ UNCHANGED <<call, backup, blocks>>

\* Where a page from a block both chains share ends; there is none at the tip.
NextPage(shared) == IF shared < blocks THEN shared + 1 ELSE shared

\* reconcile_once: the next page, or, when the chain left the scanned blocks,
\* the rewind to a shared block and the page from there in one commit.
Reconciled(d) ==
    (IF d.scanned < blocks THEN {d.scanned + 1} ELSE {})
        \union {NextPage(shared) : shared \in {b \in 1..(d.scanned - 1) : b <= blocks}}

SeedPage ==
    /\ InSession /\ ~session.ready
    /\ \E scanned \in Reconciled(Stage) :
          Put(session.name, "seed",
              [Stage EXCEPT !.scanned = scanned, !.status = "in_progress"])
    /\ UNCHANGED <<service, session>>

SeedNoChanges ==
    /\ InSession /\ ~session.ready /\ Stage.scanned = blocks
    /\ session' = [session EXCEPT !.ready = TRUE] /\ UNCHANGED <<disk, service>>

PublishCommit ==
    /\ InSession /\ session.ready /\ Stage.status # "complete"
    /\ Put(session.name, "seed", [Stage EXCEPT !.status = "complete"])
    /\ UNCHANGED <<service, session>>

\* Mutant: the stage is renamed before it is marked complete.
RenamesReady == session.ready

MayRename == session.ready /\ Stage.status = "complete"

PublishRename ==
    /\ InSession /\ MayRename /\ ~Exists(session.name, "root")
    /\ Move(session.name, "seed", "root") /\ session' = NoSession
    /\ service' \in {LockedAs(session.name), Closed}

\* Any error but CoreBusy ends restore(); a commit may have taken effect.
SeedFails == InSession /\ session' = NoSession /\ UNCHANGED <<disk, service>>

\* abort_restore_stage; the shell takes no lease for it.
SeedAbort(n) ==
    /\ Quiet /\ ~Exists(n, "root") /\ Hidden
    /\ IsWallet(disk[n]["seed"])
    /\ disk[n]["seed"].status \in {"in_progress", "complete"}
    /\ \E d \in RemovedAs(disk[n]["seed"]) : Put(n, "seed", d)
    /\ UNCHANGED <<service, call, session, backup, blocks>>

-----------------------------------------------------------------------------
\* WalletService on an installed wallet.
Opened == disk[service.name]["root"]
Using(phases) ==
    Quiet /\ service.phase \in phases /\ UNCHANGED <<call, session, blocks>>

\* resolve_existing_managed_wallet
OpenNamed(n) ==
    /\ Using({"closed"}) /\ IsWallet(disk[n]["root"]) /\ service' = LockedAs(n)
    /\ Hidden /\ UNCHANGED <<disk, backup>>

UnlockService ==
    /\ Using({"locked"}) /\ Hidden /\ UNCHANGED <<disk, backup>>
    /\ service' = [service EXCEPT !.phase = "unlocked",
                                  !.confirmed = Opened.confirmed]

LockService ==
    /\ Using({"locked", "unlocked"}) /\ service' = LockedAs(service.name)
    /\ Hidden /\ UNCHANGED <<disk, backup>>

Close ==
    /\ Using({"locked", "unlocked"}) /\ service' = Closed
    /\ Hidden /\ UNCHANGED <<disk, backup>>

\* recovery_phrase_confirmed
PhraseConfirm ==
    /\ Using({"locked"}) /\ Hidden
    /\ Put(service.name, "root", [Opened EXCEPT !.confirmed = TRUE])
    /\ UNCHANGED <<service, backup>>

\* Mutant: the phrase is shown again after the ceremony.
ShowsConfirmed(d) == TRUE

MayShowPhrase(d) == ~d.confirmed

\* recovery_phrase_resume
PhraseResume ==
    /\ Using({"locked", "unlocked"}) /\ MayShowPhrase(Opened)
    /\ Shows(Opened.seed) /\ UNCHANGED <<disk, service, backup>>

\* Mutant: a backup does not wait for the ceremony.
ExportsAlways == TRUE

\* ensure_phrase_confirmed looks at the state in memory.
PhraseConfirmed == service.confirmed

\* backup_export writes the state on disk to a file that does not exist yet.
BackupExport ==
    /\ Using({"unlocked"}) /\ PhraseConfirmed /\ backup = NoDir
    /\ backup' = Opened /\ Hidden /\ UNCHANGED <<disk, service>>

\* A page of the wallet's own scan; at the observed tip a restore completes.
SyncPage ==
    /\ Using({"unlocked"}) /\ Hidden /\ UNCHANGED <<service, backup>>
    /\ \E scanned \in Reconciled(Opened) :
          Put(service.name, "root",
              [Opened EXCEPT !.scanned = scanned,
                             !.status = IF @ = "in_progress" /\ scanned = blocks
                                        THEN "complete" ELSE @])

\* rescan_from_genesis forgets the cursor; its pages follow.
Rescan ==
    /\ Using({"unlocked"}) /\ Hidden /\ UNCHANGED <<service, backup>>
    /\ Put(service.name, "root", [Opened EXCEPT !.scanned = 0])

AppCrash ==
    /\ service' = Closed /\ call' = NoCall /\ session' = NoSession /\ Hidden
    /\ UNCHANGED <<disk, backup, blocks>>

-----------------------------------------------------------------------------
ProvisioningNext ==
    \/ \E n \in Names :
        \/ EmptyShell(n) \/ ResumeCreate(n) \/ AbortCreate(n) \/ BackupImport(n)
        \/ SeedAbort(n) \/ OpenNamed(n)
        \/ \E s \in Seeds : \/ CreateRecoverable(n, s) \/ RestoreOffline(n, s)
                            \/ SeedBegin(n, s) \/ SeedResume(n, s)
    \/ MakeStage \/ PublishInitial \/ RenameStage \/ InstallImport \/ OpenInstalled
    \/ CommandFails
    \/ SeedStaged \/ SeedPage \/ SeedNoChanges \/ PublishCommit \/ PublishRename
    \/ SeedFails
    \/ UnlockService \/ LockService \/ Close \/ PhraseConfirm \/ PhraseResume \/ BackupExport
    \/ SyncPage \/ Rescan \/ TipMoves \/ AppCrash

ProvisioningSpec == ProvisioningInit /\ [][ProvisioningNext]_provisioningVars

-----------------------------------------------------------------------------
Dirs == [kind : {"absent", "empty", "partial", "wallet"}, seed : Seeds \union {"none"},
         confirmed : BOOLEAN, status : {"none", "in_progress", "complete"},
         scanned : 0..MaxBlocks, staged : BOOLEAN]

ProvisioningTypeOK ==
    /\ disk \in [Names -> [Places -> Dirs]] /\ backup \in Dirs
    /\ service \in [phase : {"closed", "locked", "unlocked"},
                    name : Names \union {"none"}, confirmed : BOOLEAN]
    /\ call \in [cmd : {"none", "create", "restore", "resume", "import", "seed"},
                 name : Names \union {"none"}, place : Places \union {"none"},
                 at : {"none", "mkdir", "publish", "rename", "open"}, content : Dirs]
    /\ session \in [name : Names \union {"none"}, seed : Seeds \union {"none"},
                    ready : BOOLEAN]
    /\ blocks \in 1..MaxBlocks /\ shown \in Seeds \union {"none"}

\* Whatever is interrupted, and however it fails, a name in the catalog is a
\* complete wallet, and the open wallet is one: create, import and staged
\* restore fill a hidden sibling and publish it with one rename.
AtomicActivation ==
    /\ \A n \in Names : disk[n]["root"].kind \in {"absent", "empty", "wallet"}
    /\ service # Closed => IsWallet(Opened)

\* A wallet that staged restore published is marked complete, whatever
\* reorganizations, interruptions and rescans there were: one that is still
\* being restored comes only from the offline restore.  A stage that is marked
\* complete has a cursor, so that a later restore can publish it.
StagedIsComplete ==
    \A n \in Names : /\ disk[n]["root"].staged => disk[n]["root"].status = "complete"
                     /\ disk[n]["seed"].status = "complete" => disk[n]["seed"].scanned > 0

\* A resumed checkpoint was made from the phrase that was typed, also when a
\* restore of another phrase was interrupted under the same name.
CheckpointOfPhrase == session # NoSession => Stage.seed = session.seed

\* A phrase is displayed only for the open wallet and only until it has been
\* confirmed; no backup carries an unfinished ceremony, so that none can be
\* imported into one.
CeremonyOnce ==
    /\ shown # "none" => ~Opened.confirmed /\ Opened.seed = shown
    /\ IsWallet(backup) => backup.confirmed

\* An installed wallet is never removed, replaced, moved back into its
\* ceremony or back into a restore, whatever creates, restores, imports,
\* aborts, errors and crashes follow under its name.
WalletKept ==
    [][\A n \in Names : IsWallet(disk[n]["root"]) =>
        LET old == disk[n]["root"] new == disk'[n]["root"]
        IN /\ IsWallet(new) /\ new.seed = old.seed
           /\ old.confirmed => new.confirmed
           /\ old.status = "complete" => new.status = "complete"]_provisioningVars

\* An interrupted creation can be resumed or aborted by its owner
\* (reports/WALLET_REPRODUCTION_BASELINE.md): its stage is one that
\* resume_create and abort_create accept.
InterruptedCreateRecoverable ==
    \A n \in Names : Quiet /\ ~Exists(n, "root") /\ Exists(n, "create")
                        => IsWallet(disk[n]["create"])
=============================================================================
