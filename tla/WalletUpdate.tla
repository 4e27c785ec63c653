---------------------------- MODULE WalletUpdate ----------------------------
(***************************************************************************)
(* The signed update of the application itself: the cycles started by the  *)
(* hourly timer, by a resume and by commands, the single-flight flag and   *)
(* the status they share (UpdateControl), the one staging file they write, *)
(* verify, remove and install, and a crash at any await.                   *)
(*                                                                         *)
(* A version stands for the release of that number: its manifest and its   *)
(* artifact.  What the feed serves is an input of the check, so it may     *)
(* change between two cycles.  The activity lease and prepare_for_update   *)
(* are those of the desktop shell; here they may succeed or fail.  The     *)
(* staging file is a Unix file: a download whose file was unlinked goes on *)
(* writing to a file that has no name any more.                            *)
(***************************************************************************)
EXTENDS Naturals, FiniteSets

CONSTANTS
    Tasks,          \* the update cycles that can be running at one time
    MaxVersion      \* bound: newest release

ASSUME MaxVersionAssumption == MaxVersion \in Nat \ {0}

VARIABLES
    installed,      \* version of the running application
    keyed,          \* the build has a public verification key
    control,        \* UpdateControl: state, available, automatic, busy
    stage,          \* wallet-update.stage: who created it, what it holds
    task,           \* the cycle each task runs, and where it stands
    lease           \* the tasks that hold the Updater lease

updateVars == <<installed, keyed, control, stage, task, lease>>

Versions == 1 .. MaxVersion
NoVersion == 0
Partial == MaxVersion + 1       \* bytes of an unfinished download
Nobody == "nobody"

Actions == {"Check", "DownloadAndVerify", "Apply", "Automatic"}
downloads(action) == action \in {"DownloadAndVerify", "Automatic"}
installs_or_restarts(action) == action \in {"Apply", "Automatic"}

NoFile == [by |-> Nobody, holds |-> NoVersion]
NoCycle == [at |-> "idle", action |-> "Check", version |-> NoVersion, bytes |-> NoVersion]

FreshControl(automatic) ==
    [state |-> "IDLE", available |-> NoVersion, automatic |-> automatic, busy |-> FALSE]

\* A feed: the version the plugin reads, the version of the signed manifest, the
\* oldest version it updates, and whether signature, channel, window, platform,
\* origins and the two encodings of the artifact signature are all in order.
Feeds == [offered: Versions, manifest: Versions, minimum: Versions, valid: BOOLEAN]

UpdateInit ==
    /\ installed = 1
    /\ keyed \in BOOLEAN
    /\ control = FreshControl(TRUE)
    /\ stage = NoFile
    /\ task = [t \in Tasks |-> NoCycle]
    /\ lease = {}

-----------------------------------------------------------------------------
(* UpdateControl *)

Status(state) == [control EXCEPT !.state = state]
Finished(state, available) ==
    [control EXCEPT !.state = state, !.available = available, !.busy = FALSE]
fail_wallet_check == [control EXCEPT !.state = "FAILED", !.busy = FALSE]

\* A cycle that ends with an error: perform_update_cycle reports it, and the
\* lease, if it was taken, is dropped.
Fails(t) ==
    /\ control' = fail_wallet_check
    /\ task' = [task EXCEPT ![t] = NoCycle]
    /\ lease' = lease \ {t}

Ends(t, newControl) ==
    /\ control' = newControl
    /\ task' = [task EXCEPT ![t] = NoCycle]
    /\ UNCHANGED lease

TaskAt(t, label) == task[t].at = label
Goes(t, label) == task' = [task EXCEPT ![t].at = label]

-----------------------------------------------------------------------------
(* Starting a cycle *)

\* begin_check: a cycle that finds the flag set returns at once.
begin_check(t, action) ==
    /\ TaskAt(t, "idle")
    /\ ~control.busy
    /\ control' = [control EXCEPT !.state = "CHECKING", !.busy = TRUE]
    /\ task' = [task EXCEPT ![t] = [NoCycle EXCEPT !.at = "checking", !.action = action]]
    /\ UNCHANGED <<installed, keyed, stage, lease>>

\* The hourly timer and the resume event.
Scheduled(t) == control.automatic /\ begin_check(t, "Automatic")

\* check_updates_now, download_update_now and a confirmed apply_update_now.
Command(t) == \E action \in {"Check", "DownloadAndVerify", "Apply"} : begin_check(t, action)

\* apply_update_now that is not confirmed: nothing is started, but the status
\* is failed with the function that also clears the flag.
apply_unconfirmed ==
    /\ control' = fail_wallet_check
    /\ UNCHANGED <<installed, keyed, stage, task, lease>>

\* automatic_updates_set: the preference is stored first; enabling starts a cycle
\* unless one is running.
automatic_updates_set(t, enabled) ==
    /\ TaskAt(t, "idle")
    /\ IF enabled /\ ~control.busy
       THEN /\ control' = [control EXCEPT !.automatic = TRUE, !.state = "CHECKING", !.busy = TRUE]
            /\ task' = [task EXCEPT ![t] = [NoCycle EXCEPT !.at = "checking", !.action = "Automatic"]]
       ELSE /\ control' = [control EXCEPT !.automatic = enabled]
            /\ UNCHANGED task
    /\ UNCHANGED <<installed, keyed, stage, lease>>

\* A build without a key never looks at the feed.
finish_check_without_key(t) ==
    /\ TaskAt(t, "checking")
    /\ ~keyed
    /\ Fails(t)
    /\ UNCHANGED <<installed, keyed, stage>>

-----------------------------------------------------------------------------
(* The check *)

\* The updater plugin offers a feed only when it is newer than the application.
Offers(feed) == feed.offered > installed

\* The signed manifest against the installed application.
validate_wallet_manifest(feed) ==
    CASE ~feed.valid                    -> "invalid"
      [] feed.manifest < installed      -> "downgrade"
      [] feed.manifest = installed      -> "up_to_date"
      [] installed < feed.minimum       -> "invalid"
      [] OTHER                          -> "available"

CheckFails(t) ==
    /\ TaskAt(t, "checking") /\ keyed
    /\ Fails(t)
    /\ UNCHANGED <<installed, keyed, stage>>

CheckSucceeds(t) ==
    /\ TaskAt(t, "checking") /\ keyed
    /\ \E feed \in Feeds :
         LET decision == validate_wallet_manifest(feed) IN
         CASE ~Offers(feed) ->
                Ends(t, Finished("UP_TO_DATE", NoVersion))
           [] Offers(feed) /\ (decision \in {"invalid", "downgrade"} \/ feed.manifest # feed.offered) ->
                Fails(t)
           [] OTHER ->
                IF task[t].action = "Check"
                THEN Ends(t, Finished("WALLET_UPDATE_AVAILABLE", feed.manifest))
                ELSE /\ task' = [task EXCEPT ![t].at = "staging", ![t].version = feed.manifest]
                     /\ UNCHANGED <<control, lease>>
    /\ UNCHANGED <<installed, keyed, stage>>

-----------------------------------------------------------------------------
(* The staging file *)

StagedMatchesAny(t) == stage # NoFile

\* verify_staged_artifact: size, digest and signature of the file are those of
\* the artifact this cycle's manifest names.
StagedMatches(t) == stage.holds = task[t].version

\* An automatic cycle reuses a staged file that verifies and removes one that
\* does not; an explicit download always starts over; Apply needs the file.
Staging(t) ==
    /\ TaskAt(t, "staging")
    /\ IF task[t].action = "Automatic" /\ StagedMatches(t)
       THEN /\ task' = [task EXCEPT ![t].at = "verifying", ![t].bytes = stage.holds]
            /\ UNCHANGED <<control, stage>>
       ELSE IF downloads(task[t].action)
       THEN /\ control' = Status("DOWNLOADING")
            /\ stage' = NoFile
            /\ Goes(t, "requesting")
       ELSE /\ Goes(t, "verifying")
            /\ UNCHANGED <<control, stage>>
    /\ UNCHANGED <<installed, keyed, lease>>

\* The removal of the old file, or the directory, can fail.
StagingFails(t) ==
    /\ TaskAt(t, "staging")
    /\ Fails(t)
    /\ UNCHANGED <<installed, keyed, stage>>

\* The response headers arrived: the file is created, and must not exist.
CreateStage(t) ==
    /\ TaskAt(t, "requesting")
    /\ stage = NoFile
    /\ stage' = [by |-> t, holds |-> Partial]
    /\ Goes(t, "downloading")
    /\ UNCHANGED <<installed, keyed, control, lease>>

\* Connection, status or size refused, or the file of another cycle in the way.
RequestFails(t) ==
    /\ TaskAt(t, "requesting")
    /\ Fails(t)
    /\ UNCHANGED <<installed, keyed, stage>>

\* The stream ended and size, digest and signature of the received bytes are right.
DownloadCompletes(t) ==
    /\ TaskAt(t, "downloading")
    /\ stage' = IF stage.by = t THEN [stage EXCEPT !.holds = task[t].version] ELSE stage
    /\ Goes(t, "downloaded")
    /\ UNCHANGED <<installed, keyed, control, lease>>

\* Any deadline or a wrong byte: the file of that name is removed, whoever made it.
DownloadFails(t) ==
    /\ TaskAt(t, "downloading")
    /\ stage' = NoFile
    /\ Fails(t)
    /\ UNCHANGED <<installed, keyed>>

\* The file is read back and verified again.
VerifyDownload(t) ==
    /\ TaskAt(t, "downloaded")
    /\ IF ~StagedMatches(t)
       THEN Fails(t)
       ELSE IF task[t].action = "DownloadAndVerify"
       THEN Ends(t, Finished("READY_TO_APPLY", task[t].version))
       ELSE /\ task' = [task EXCEPT ![t].at = "verifying", ![t].bytes = stage.holds]
            /\ UNCHANGED <<control, lease>>
    /\ UNCHANGED <<installed, keyed, stage>>

-----------------------------------------------------------------------------
(* Applying *)

\* The bytes in memory are used; Apply, which has none, reads and verifies the file.
Verify(t) ==
    /\ TaskAt(t, "verifying")
    /\ IF task[t].bytes = NoVersion /\ ~StagedMatches(t)
       THEN Fails(t)
       ELSE /\ control' = Status("VERIFYING")
            /\ task' = [task EXCEPT ![t].at = "verified",
                            ![t].bytes = IF @ = NoVersion THEN stage.holds ELSE @]
            /\ UNCHANGED lease
    /\ UNCHANGED <<installed, keyed, stage>>

\* acquire_update_apply_lease, granted: the Updater lease excludes every other.
LeaseGranted(t) ==
    /\ TaskAt(t, "verified")
    /\ lease = {}
    /\ lease' = {t}
    /\ control' = Status("INSTALLING")
    /\ Goes(t, "leased")
    /\ UNCHANGED <<installed, keyed, stage>>

defer_keeps_flag(t) ==
    [control EXCEPT !.state = "WAITING_FOR_SAFE_POINT", !.available = task[t].version]

defer_wallet_install(t) ==
    [control EXCEPT !.state = "WAITING_FOR_SAFE_POINT", !.available = task[t].version,
                    !.busy = FALSE]

\* Refused: an automatic cycle leaves the verified file for the next one.
LeaseRefused(t) ==
    /\ TaskAt(t, "verified")
    /\ IF task[t].action = "Automatic" THEN Ends(t, defer_wallet_install(t)) ELSE Fails(t)
    /\ UNCHANGED <<installed, keyed, stage>>

PrepareFails(t) ==
    /\ TaskAt(t, "leased")
    /\ Fails(t)
    /\ UNCHANGED <<installed, keyed, stage>>

\* prepare_for_update closed the wallet, and the staged file is no longer needed.
Prepare(t) ==
    /\ TaskAt(t, "leased")
    /\ stage' = NoFile
    /\ Goes(t, "prepared")
    /\ UNCHANGED <<installed, keyed, control, lease>>

\* The process ends; the preference, the file and the application stay on disk.
Restart(version) ==
    /\ installed' = version
    /\ control' = FreshControl(control.automatic)
    /\ task' = [t \in Tasks |-> NoCycle]
    /\ lease' = {}
    /\ UNCHANGED keyed

\* The installer replaces the application or fails before replacing it.
Install(t) ==
    /\ TaskAt(t, "prepared")
    /\ \E version \in {task[t].bytes, installed} : Restart(version)
    /\ UNCHANGED stage

Crash == Restart(installed) /\ UNCHANGED stage

-----------------------------------------------------------------------------

Step(t) ==
    \/ finish_check_without_key(t) \/ CheckFails(t) \/ CheckSucceeds(t)
    \/ Staging(t) \/ StagingFails(t) \/ CreateStage(t) \/ RequestFails(t)
    \/ DownloadCompletes(t) \/ DownloadFails(t) \/ VerifyDownload(t)
    \/ Verify(t) \/ LeaseGranted(t) \/ LeaseRefused(t)
    \/ PrepareFails(t) \/ Prepare(t) \/ Install(t)

UpdateNext ==
    \/ \E t \in Tasks : Step(t)
    \/ \E t \in Tasks : Scheduled(t)
    \/ \E t \in Tasks : Command(t)
    \/ \E t \in Tasks, enabled \in BOOLEAN : automatic_updates_set(t, enabled)
    \/ apply_unconfirmed
    \/ Crash

UpdateSpec == UpdateInit /\ [][UpdateNext]_updateVars

\* Every await of a cycle has a deadline, so a running cycle goes on.
UpdateFairSpec == UpdateSpec /\ \A t \in Tasks : WF_updateVars(Step(t))

-----------------------------------------------------------------------------

States == {"IDLE", "CHECKING", "UP_TO_DATE", "WALLET_UPDATE_AVAILABLE", "DOWNLOADING",
           "VERIFYING", "READY_TO_APPLY", "WAITING_FOR_SAFE_POINT", "INSTALLING", "FAILED"}
Places == {"idle", "checking", "staging", "requesting", "downloading", "downloaded",
           "verifying", "verified", "leased", "prepared"}

\* Every variable stays in its domain.
UpdateTypeOK ==
    /\ installed \in Versions
    /\ keyed \in BOOLEAN
    /\ control \in [state: States, available: Versions \cup {NoVersion},
                    automatic: BOOLEAN, busy: BOOLEAN]
    /\ stage = NoFile \/ stage \in [by: Tasks, holds: Versions \cup {Partial}]
    /\ task \in [Tasks -> [at: Places, action: Actions, version: Versions \cup {NoVersion},
                           bytes: Versions \cup {NoVersion}]]
    /\ lease \subseteq Tasks

\* The application is only ever replaced by the artifact of the manifest the
\* installing cycle validated, and never by an older one: whatever file an
\* earlier cycle, a crash or another cycle left in the staging directory, and
\* whatever the feed served meanwhile.
OnlyValidatedIsInstalled ==
    [][installed' # installed =>
          /\ installed' > installed
          /\ \E t \in Tasks : TaskAt(t, "prepared") /\ task[t].version = installed']_updateVars

\* The single-flight flag does not stay set: every cycle ends or restarts the
\* application, so the next scheduled check is not refused for ever.
FlagIsReleased == control.busy ~> ~control.busy

\* At most one cycle runs at a time.
SingleFlight == Cardinality({t \in Tasks : ~TaskAt(t, "idle")}) <= 1
=============================================================================
