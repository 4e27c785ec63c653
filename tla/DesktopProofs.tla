--------------------------- MODULE DesktopProofs ----------------------------
(***************************************************************************)
(* The desktop application: its updates, its threads and leases.           *)
(***************************************************************************)
EXTENDS WalletUpdate, DesktopShell, TLAPS

\* Leaves that name no prover are for Zenon.
USE ZenonT(30)

-----------------------------------------------------------------------------
(***************************************************************************)
(* What the installer gets, for any number of concurrent cycles and of     *)
(* releases. The property speaks of one step; it needs to be known of every*)
(* cycle that its manifest is newer than the application from the check on *)
(* and that the bytes it holds in memory, once it has any, are those of    *)
(* that manifest. Nothing is assumed of the staging file: other cycles     *)
(* remove and rewrite it at any time.                                      *)
(***************************************************************************)
Cycles == [at : Places, action : Actions, version : Nat, bytes : Nat]

UpdateShapes ==
    /\ installed \in Nat \ {0}
    /\ task \in [Tasks -> Cycles]
    /\ stage \in [by : Tasks \cup {Nobody}, holds : Nat]

Checked == {"staging", "requesting", "downloading", "downloaded", "verifying", "verified",
            "leased", "prepared"}

\* A cycle c of an application of version v.
Sound(c, v) ==
    /\ c.at \in Checked => c.version > v
    /\ c.bytes \in {NoVersion, c.version}
    /\ c.at \in {"verified", "leased", "prepared"} => c.bytes = c.version
    /\ c.at \in {"checking", "staging", "requesting", "downloading", "downloaded"} =>
           c.bytes = NoVersion

IInv == UpdateShapes /\ \A t \in Tasks : Sound(task[t], installed)

USE MaxVersionAssumption

-----------------------------------------------------------------------------
\* No cycle holds no bytes.
LEMMA IdleIsSound ==
    ASSUME NEW v
    PROVE  NoCycle \in Cycles /\ Sound(NoCycle, v)
BY DEF NoCycle, Cycles, Sound, Places, Actions, Checked, NoVersion

\* Initially there is no cycle.
LEMMA InitEstablishes == UpdateInit => IInv
BY SMT, IdleIsSound DEF UpdateInit, IInv, UpdateShapes, NoFile, Nobody, NoVersion

\* A step that changes one cycle only, and not the application.
LEMMA OneCycle ==
    ASSUME IInv, NEW t \in Tasks, NEW c \in Cycles, Sound(c, installed),
           task' = [task EXCEPT ![t] = c], UNCHANGED installed,
           stage' \in [by : Tasks \cup {Nobody}, holds : Nat]
    PROVE  IInv'
BY DEF IInv, UpdateShapes

\* The absent staging file is a value of its variable.
LEMMA NoFileIsAFile == NoFile \in [by : Tasks \cup {Nobody}, holds : Nat]
BY DEF NoFile, Nobody, NoVersion

\* A cycle that fails, or ends with a result.
LEMMA EndPreserves ==
    ASSUME IInv, NEW t \in Tasks, task' = [task EXCEPT ![t] = NoCycle], UNCHANGED installed,
           stage' \in {stage, NoFile}
    PROVE  IInv'
<1>1. stage' \in [by : Tasks \cup {Nobody}, holds : Nat]
  BY NoFileIsAFile DEF IInv, UpdateShapes
<1> QED
  BY <1>1, IdleIsSound, OneCycle

\* begin_check starts with nothing.
LEMMA CycleBeginPreserves ==
    ASSUME IInv, NEW t \in Tasks, NEW action \in Actions,
           task' = [task EXCEPT ![t] = [NoCycle EXCEPT !.at = "checking", !.action = action]],
           UNCHANGED <<installed, stage>>
    PROVE  IInv'
<1> DEFINE c == [NoCycle EXCEPT !.at = "checking", !.action = action]
<1>1. c \in Cycles /\ Sound(c, installed)
  BY DEF NoCycle, Cycles, Sound, Places, Checked, NoVersion
<1>2. stage' \in [by : Tasks \cup {Nobody}, holds : Nat]
  BY DEF IInv, UpdateShapes
<1> HIDE DEF c
<1>3. task' = [task EXCEPT ![t] = c]
  BY DEF c
<1> QED
  BY <1>1, <1>2, <1>3, OneCycle

\* validate_wallet_manifest and the comparison with the plugin's offer let only
\* a newer release through.
LEMMA CheckPreserves ==
    ASSUME IInv, NEW t \in Tasks, CheckSucceeds(t)
    PROVE  IInv'
<1>1. CASE task' = [task EXCEPT ![t] = NoCycle]
  BY <1>1, EndPreserves DEF CheckSucceeds
<1>2. CASE \E feed \in Feeds :
              /\ Offers(feed) /\ feed.manifest = feed.offered
              /\ task' = [task EXCEPT ![t].at = "staging", ![t].version = feed.manifest]
  <2>1. PICK feed \in Feeds :
              /\ Offers(feed) /\ feed.manifest = feed.offered
              /\ task' = [task EXCEPT ![t].at = "staging", ![t].version = feed.manifest]
    BY <1>2
  <2>2. feed.manifest \in Nat /\ feed.manifest > installed
    BY SMT, <2>1 DEF Feeds, Versions, Offers
  <2>3. task[t] \in Cycles /\ task[t].bytes = NoVersion
    BY DEF CheckSucceeds, TaskAt, IInv, UpdateShapes, Sound
  <2> DEFINE c == [task[t] EXCEPT !.at = "staging", !.version = feed.manifest]
  <2>4. c \in Cycles /\ Sound(c, installed)
    BY <2>2, <2>3 DEF Cycles, Sound, Places, Checked, NoVersion
  <2>5. task' = [task EXCEPT ![t] = c]
    BY <2>1 DEF IInv, UpdateShapes
  <2>6. stage' \in [by : Tasks \cup {Nobody}, holds : Nat] /\ UNCHANGED installed
    BY DEF IInv, UpdateShapes, CheckSucceeds
  <2> HIDE DEF c
  <2> QED
    BY <2>4, <2>5, <2>6, OneCycle
<1> QED
  BY <1>1, <1>2 DEF CheckSucceeds, Ends, Fails

\* A cycle that goes on with its version: its bytes are none, or those.
LEMMA GoesOn ==
    ASSUME IInv, NEW t \in Tasks, NEW place \in Places, NEW bytes \in {NoVersion, task[t].version},
           task[t].at \in Checked,
           place \in {"verified", "leased", "prepared"} => bytes = task[t].version,
           place \in {"checking", "staging", "requesting", "downloading", "downloaded"} =>
               bytes = NoVersion,
           task' = [task EXCEPT ![t] = [@ EXCEPT !.at = place, !.bytes = bytes]],
           UNCHANGED installed, stage' \in [by : Tasks \cup {Nobody}, holds : Nat]
    PROVE  IInv'
<1> DEFINE c == [task[t] EXCEPT !.at = place, !.bytes = bytes]
<1>1. task[t] \in Cycles /\ Sound(task[t], installed)
  BY DEF IInv, UpdateShapes
<1>2. c \in Cycles
  <2>1. bytes \in Nat
    BY SMT, <1>1 DEF Cycles, NoVersion
  <2> QED
    BY <1>1, <2>1 DEF Cycles
<1>3. c.at = place /\ c.version = task[t].version /\ c.bytes = bytes
  BY <1>1 DEF Cycles
<1>4. task' = [task EXCEPT ![t] = c]
  OBVIOUS
<1> HIDE DEF c
<1>5. Sound(c, installed)
  BY <1>1, <1>3 DEF Sound, Checked
<1> QED
  BY <1>2, <1>4, <1>5, OneCycle

\* The same without new bytes.
LEMMA GoesTo ==
    ASSUME IInv, NEW t \in Tasks, NEW place \in Places, Goes(t, place), task[t].at \in Checked,
           place \in {"verified", "leased", "prepared"} => task[t].bytes = task[t].version,
           place \in {"checking", "staging", "requesting", "downloading", "downloaded"} =>
               task[t].bytes = NoVersion,
           UNCHANGED installed, stage' \in [by : Tasks \cup {Nobody}, holds : Nat]
    PROVE  IInv'
<1>1. task[t] \in Cycles /\ task[t].bytes \in {NoVersion, task[t].version}
  BY DEF IInv, UpdateShapes, Sound
<1>2. [task[t] EXCEPT !.at = place] = [task[t] EXCEPT !.at = place, !.bytes = task[t].bytes]
  BY <1>1 DEF Cycles
<1>3. task' = [task EXCEPT ![t] = [@ EXCEPT !.at = place, !.bytes = task[t].bytes]]
  BY <1>2 DEF Goes, IInv, UpdateShapes
<1> QED
  BY <1>1, <1>3, GoesOn

\* The staging file, the download and its verification.
LEMMA StagePreserves ==
    ASSUME IInv, NEW t \in Tasks,
           Staging(t) \/ CreateStage(t) \/ DownloadCompletes(t) \/ VerifyDownload(t)
    PROVE  IInv'
<1>1. /\ stage \in [by : Tasks \cup {Nobody}, holds : Nat] /\ task[t] \in Cycles
      /\ task[t].version \in Nat /\ Sound(task[t], installed)
  BY DEF IInv, UpdateShapes, Cycles
<1>2. UNCHANGED installed
  BY DEF Staging, CreateStage, DownloadCompletes, VerifyDownload
<1>3. {"requesting", "verifying", "downloading", "downloaded"} \subseteq Places
  BY DEF Places
<1>4. CASE Staging(t)
  <2>1. task[t].at \in Checked /\ task[t].bytes = NoVersion
    BY <1>1, <1>4 DEF Staging, TaskAt, Checked, Sound
  <2>2. CASE task' = [task EXCEPT ![t].at = "verifying", ![t].bytes = stage.holds]
             /\ UNCHANGED stage /\ StagedMatches(t)
    <3>1. task' = [task EXCEPT ![t] = [@ EXCEPT !.at = "verifying", !.bytes = task[t].version]]
      BY <2>2 DEF StagedMatches, IInv, UpdateShapes
    <3> QED
      BY <1>1, <1>2, <1>3, <2>1, <2>2, <3>1, GoesOn
  <2>3. CASE (Goes(t, "requesting") \/ Goes(t, "verifying")) /\ stage' \in {stage, NoFile}
    BY <1>1, <1>2, <1>3, <2>1, <2>3, GoesTo, NoFileIsAFile
  <2> QED
    BY <1>4, <2>2, <2>3 DEF Staging
<1>5. CASE CreateStage(t)
  <2>1. task[t].at \in Checked /\ task[t].bytes = NoVersion
    BY <1>1, <1>5 DEF CreateStage, TaskAt, Checked, Sound
  <2>2. stage' \in [by : Tasks \cup {Nobody}, holds : Nat]
    BY SMT, <1>5 DEF CreateStage, Partial
  <2> QED
    BY <1>2, <1>3, <1>5, <2>1, <2>2, GoesTo DEF CreateStage
<1>6. CASE DownloadCompletes(t)
  <2>1. task[t].at \in Checked /\ task[t].bytes = NoVersion
    BY <1>1, <1>6 DEF DownloadCompletes, TaskAt, Checked, Sound
  <2>2. stage' \in [by : Tasks \cup {Nobody}, holds : Nat]
    BY <1>1, <1>6 DEF DownloadCompletes
  <2> QED
    BY <1>2, <1>3, <1>6, <2>1, <2>2, GoesTo DEF DownloadCompletes
<1>7. CASE VerifyDownload(t)
  <2>1. task[t].at \in Checked /\ UNCHANGED stage
    BY <1>7 DEF VerifyDownload, TaskAt, Checked
  <2>2. CASE task' = [task EXCEPT ![t] = NoCycle]
    BY <1>2, <2>1, <2>2, EndPreserves
  <2>3. CASE task' = [task EXCEPT ![t].at = "verifying", ![t].bytes = stage.holds] /\ StagedMatches(t)
    <3>1. task' = [task EXCEPT ![t] = [@ EXCEPT !.at = "verifying", !.bytes = task[t].version]]
      BY <2>3 DEF StagedMatches, IInv, UpdateShapes
    <3> QED
      BY <1>1, <1>2, <1>3, <2>1, <3>1, GoesOn
  <2> QED
    BY <1>7, <2>2, <2>3 DEF VerifyDownload, Fails, Ends
<1> QED
  BY <1>4, <1>5, <1>6, <1>7

\* Verification, lease and preparation: from "verified" on the bytes are known.
LEMMA ApplyPreserves ==
    ASSUME IInv, NEW t \in Tasks, Verify(t) \/ LeaseGranted(t) \/ Prepare(t)
    PROVE  IInv'
<1>1. /\ stage \in [by : Tasks \cup {Nobody}, holds : Nat] /\ task[t] \in Cycles
      /\ Sound(task[t], installed) /\ UNCHANGED installed /\ stage' \in {stage, NoFile}
      /\ task[t].at \in Checked
  BY DEF IInv, UpdateShapes, Verify, LeaseGranted, Prepare, TaskAt, Checked
<1>2. stage' \in [by : Tasks \cup {Nobody}, holds : Nat]
  BY <1>1, NoFileIsAFile
<1>3. {"verified", "leased", "prepared"} \subseteq Places
  BY DEF Places
<1>4. CASE Verify(t)
  <2>1. CASE task' = [task EXCEPT ![t] = NoCycle]
    BY <1>1, <2>1, EndPreserves
  <2>2. CASE /\ task[t].bytes = NoVersion => StagedMatches(t)
             /\ task' = [task EXCEPT ![t].at = "verified",
                                     ![t].bytes = IF @ = NoVersion THEN stage.holds ELSE @]
    <3>1. (IF task[t].bytes = NoVersion THEN stage.holds ELSE task[t].bytes) = task[t].version
      BY <1>1, <2>2 DEF StagedMatches, Sound
    <3>2. task' = [task EXCEPT ![t] = [@ EXCEPT !.at = "verified", !.bytes = task[t].version]]
      BY <2>2, <3>1 DEF IInv, UpdateShapes, Cycles
    <3> QED
      BY <1>1, <1>2, <1>3, <3>2, GoesOn
  <2> QED
    BY <1>4, <2>1, <2>2 DEF Verify, Fails
<1>5. CASE LeaseGranted(t) \/ Prepare(t)
  <2>1. task[t].bytes = task[t].version /\ (Goes(t, "leased") \/ Goes(t, "prepared"))
    BY <1>1, <1>5 DEF LeaseGranted, Prepare, TaskAt, Sound
  <2> QED
    BY <1>1, <1>2, <1>3, <2>1, GoesTo
<1> QED
  BY <1>4, <1>5

\* What the installer is given is the release of the cycle's manifest.
LEMMA InstallIsOfManifest ==
    ASSUME IInv, NEW t \in Tasks, Install(t), installed' # installed
    PROVE  installed' > installed /\ TaskAt(t, "prepared") /\ task[t].version = installed'
BY DEF Install, Restart, TaskAt, IInv, UpdateShapes, Sound, Checked

\* A restart ends the cycles.
LEMMA RestartPreserves ==
    ASSUME IInv, NEW version \in Nat \ {0}, Restart(version), UNCHANGED stage
    PROVE  IInv'
BY IdleIsSound DEF IInv, UpdateShapes, Restart

\* Only the installer changes the application.
LEMMA Inductive == IInv /\ [UpdateNext]_updateVars => IInv'
<1> SUFFICES ASSUME IInv, [UpdateNext]_updateVars PROVE IInv'
  OBVIOUS
<1>1. ASSUME NEW t \in Tasks, Step(t) PROVE IInv'
  <2>1. CASE CheckSucceeds(t)
    BY <2>1, CheckPreserves
  <2>2. CASE Staging(t) \/ CreateStage(t) \/ DownloadCompletes(t) \/ VerifyDownload(t)
    BY <2>2, StagePreserves
  <2>3. CASE Verify(t) \/ LeaseGranted(t) \/ Prepare(t)
    BY <2>3, ApplyPreserves
  <2>4. CASE finish_check_without_key(t) \/ CheckFails(t) \/ StagingFails(t) \/ RequestFails(t)
             \/ DownloadFails(t) \/ LeaseRefused(t) \/ PrepareFails(t)
    BY <2>4, EndPreserves DEF finish_check_without_key, CheckFails, StagingFails, RequestFails,
       DownloadFails, LeaseRefused, PrepareFails, Fails, Ends
  <2>5. CASE Install(t)
    <3>1. PICK version \in {task[t].bytes, installed} : Restart(version)
      BY <2>5 DEF Install
    <3>2. version \in Nat \ {0}
      BY SMT, <2>5, <3>1 DEF Install, TaskAt, IInv, UpdateShapes, Cycles, Sound, Checked
    <3> QED
      BY <2>5, <3>1, <3>2, RestartPreserves DEF Install
  <2> QED
    BY <1>1, <2>1, <2>2, <2>3, <2>4, <2>5 DEF Step
<1>2. CASE \E t \in Tasks : Scheduled(t) \/ Command(t)
  <2>1. PICK t \in Tasks, action \in Actions : begin_check(t, action)
    BY <1>2 DEF Scheduled, Command, Actions
  <2> QED
    BY <2>1, CycleBeginPreserves DEF begin_check
<1>3. CASE \E t \in Tasks, enabled \in BOOLEAN : automatic_updates_set(t, enabled)
  <2>1. PICK t \in Tasks, enabled \in BOOLEAN : automatic_updates_set(t, enabled)
    BY <1>3
  <2>2. CASE UNCHANGED task
    BY <2>1, <2>2 DEF automatic_updates_set, IInv, UpdateShapes
  <2>3. CASE task' = [task EXCEPT ![t] = [NoCycle EXCEPT !.at = "checking", !.action = "Automatic"]]
    <3>1. "Automatic" \in Actions
      BY DEF Actions
    <3> QED
      BY <2>1, <2>3, <3>1, CycleBeginPreserves DEF automatic_updates_set
  <2> QED
    BY <2>1, <2>2, <2>3 DEF automatic_updates_set
<1>4. CASE Crash
  BY <1>4, RestartPreserves DEF Crash, IInv, UpdateShapes
<1>5. CASE apply_unconfirmed \/ UNCHANGED updateVars
  BY <1>5 DEF apply_unconfirmed, updateVars, IInv, UpdateShapes
<1> QED
  BY <1>1, <1>2, <1>3, <1>4, <1>5 DEF UpdateNext

\* The application changes only in an Install.
LEMMA OnlyInstallChanges ==
    ASSUME [UpdateNext]_updateVars, installed' # installed
    PROVE  \E t \in Tasks : Install(t)
BY DEF UpdateNext, Step, updateVars, Scheduled, Command, begin_check, automatic_updates_set, apply_unconfirmed,
       Crash, Restart, finish_check_without_key, CheckFails, CheckSucceeds, Staging, StagingFails,
       CreateStage, RequestFails, DownloadCompletes, DownloadFails, VerifyDownload, Verify,
       LeaseGranted, LeaseRefused, PrepareFails, Prepare

\* Whatever other cycles, crashes and the feed do, the application is replaced
\* only by the artifact of the manifest the installing cycle validated, and only
\* by a newer one (perform_update_cycle), for any number of cycles.
THEOREM InstallsAreValidated == UpdateSpec => OnlyValidatedIsInstalled
<1>1. IInv /\ [UpdateNext]_updateVars =>
        [installed' # installed =>
            /\ installed' > installed
            /\ \E t \in Tasks : TaskAt(t, "prepared") /\ task[t].version = installed']_updateVars
  BY OnlyInstallChanges, InstallIsOfManifest
<1> QED
  BY <1>1, InitEstablishes, Inductive, PTL DEF UpdateSpec, OnlyValidatedIsInstalled

HIDE MaxVersionAssumption


-----------------------------------------------------------------------------
(***************************************************************************)
(* The threads and leases of the desktop application, for any number of    *)
(* wallets and any choice of commands and sources. ShellInv says which     *)
(* steps a command has left for the lease it holds, who may hold which     *)
(* lease beside whom, what the update task has found, and how far a        *)
(* shutdown has come.                                                      *)
(***************************************************************************)
\* Only the empty sequence has no elements.
LEMMA NoElements ==
    ASSUME NEW S
    PROVE  /\ <<>> \in Seq(S) /\ Len(<<>>) = 0
           /\ \A s \in Seq(S) : s # <<>> => Len(s) \in Nat \ {0}
BY SMT

\* The first element of a sequence and the others.
LEMMA HeadAndTail ==
    ASSUME NEW S, NEW s \in Seq(S), s # <<>>
    PROVE  /\ Head(s) \in S /\ Tail(s) \in Seq(S) /\ Len(Tail(s)) = Len(s) - 1
           /\ \A i \in 1 .. Len(Tail(s)) : Tail(s)[i] = s[i + 1]
BY SMT

\* A sequence is a function on its positions.
LEMMA SeqIsFunction ==
    ASSUME NEW S, NEW s \in Seq(S)
    PROVE  Len(s) \in Nat /\ s \in [1 .. Len(s) -> S] /\ DOMAIN s = 1 .. Len(s)
BY SMT

\* Two sequences one after the other.
LEMMA Joined ==
    ASSUME NEW S, NEW s \in Seq(S), NEW t \in Seq(S)
    PROVE  /\ s \o t \in Seq(S) /\ Len(s \o t) = Len(s) + Len(t)
           /\ \A i \in 1 .. Len(s) + Len(t) :
                (s \o t)[i] = IF i <= Len(s) THEN s[i] ELSE t[i - Len(s)]
BY SMT

\* Steps that any command may hold while it runs, whatever its lease.
Neutral ==
    {"signal_mining", "join_mining", "signal_sync", "join_sync", "cancel_node",
     "join_node", "open", "restore", "stop_core", "rescan", "select",
     "set_paused", "clear_paused", "clear_latch", "node_status", "start_node",
     "nudge_node"}

\* The steps that fit a lease: one that takes the wallet away needs the lease
\* that keeps the updater out, one that drops the command needs to hold none.
Fit(held) ==
    Neutral
        \union (IF held = "WalletLifecycle" THEN {"lock", "close", "recover"} ELSE {})
        \union (IF held = "Shutdown" THEN {"close"} ELSE {})
        \union (IF held = "CriticalTransaction" THEN {"transact"} ELSE {})
        \union (IF held = NoLease
                THEN {"start_live", "start_if_unlocked", "mining_start"} ELSE {})

\* wallet_unlock is the one command that drops its lease before its last step.
Unlocking == {<<"unlock", "release", "start_live">>, <<"release", "start_live">>}

Planned(todo, held) ==
    \/ todo \in Seq(Fit(held))
    \/ held = "WalletLifecycle" /\ todo \in Unlocking

ShutdownSteps ==
    <<"cancel_node", "join_node", "signal_mining", "join_mining", "signal_sync",
      "join_sync", "close">>

\* What is left of application_shutdown is an end of its steps.
Follows(todo) ==
    /\ Len(todo) \in 1 .. 7
    /\ \A i \in 1 .. Len(todo) : todo[i] = ShutdownSteps[(7 - Len(todo)) + i]

Shapes ==
    /\ service = [phase |-> service.phase, wallet |-> service.wallet,
                  backend |-> service.backend, poisoned |-> service.poisoned]
    /\ sync = [state |-> sync.state, stop |-> sync.stop, worker |-> sync.worker,
               pc |-> sync.pc, lease |-> sync.lease, latched |-> sync.latched,
               latch |-> sync.latch]
    /\ mining = [state |-> mining.state, stop |-> mining.stop,
                 worker |-> mining.worker, pc |-> mining.pc]
    /\ node = [started |-> node.started, starting |-> node.starting,
               cancelled |-> node.cancelled, worker |-> node.worker, pc |-> node.pc]
    /\ flags = [paused |-> flags.paused, shutdown |-> flags.shutdown,
                recovery |-> flags.recovery]

Plan ==
    /\ main = [cmd |-> main.cmd, todo |-> main.todo, lease |-> main.lease]
    /\ Planned(main.todo, main.lease)
    /\ main.todo = <<>> => main = Idle

\* Who may hold what together with what.
Held ==
    /\ LeasesOwned
    /\ main.lease \in {"WalletLifecycle", "Synchronization", "CriticalTransaction",
                       "NodeLifecycle", "Shutdown", NoLease}
    /\ ~(main.lease = "Synchronization" /\ sync.lease)
    /\ updater # "idle" \/ main.lease = "Shutdown" =>
          ~sync.lease /\ mining.pc \notin {"round", "waiting"}
    /\ updater # "idle" => main.lease = NoLease
    /\ sync.pc = "pass" => sync.lease

Safe ==
    /\ updater = "checked" => Unlocked /\ service.wallet \notin critical
    /\ updater = "installing" => service.phase = "closed"

\* How far a shutdown has come, and what it has ended so far.
Down ==
    /\ main.cmd = "shutdown" =>
          /\ main.lease = "Shutdown" /\ Follows(main.todo)
          /\ Len(main.todo) <= 5 => node.pc = "none"
          /\ Len(main.todo) <= 3 => mining.pc = "none"
          /\ Len(main.todo) <= 1 => sync.pc = "none"
    /\ flags.shutdown => main.cmd = "shutdown" \/ (main = Idle /\ service = NoService
          /\ sync.pc = "none" /\ mining.pc = "none" /\ node.pc = "none")

ShellInv == Shapes /\ Plan /\ Held /\ Safe /\ Down

-----------------------------------------------------------------------------
\* Short sequences, as sequences over a set.
LEMMA Singles ==
    ASSUME NEW S, NEW a \in S PROVE <<a>> \in Seq(S) /\ <<a>> # <<>>
BY SMT

\* The same for two elements.
LEMMA Pairs ==
    ASSUME NEW S, NEW a \in S, NEW b \in S PROVE <<a, b>> \in Seq(S) /\ <<a, b>> # <<>>
BY SMT

\* The same for three elements.
LEMMA Triples ==
    ASSUME NEW S, NEW a \in S, NEW b \in S, NEW c \in S
    PROVE  <<a, b, c>> \in Seq(S) /\ <<a, b, c>> # <<>>
BY SMT

\* The same for a concatenation.
LEMMA Joins ==
    ASSUME NEW S, NEW s \in Seq(S), NEW t \in Seq(S), s # <<>>
    PROVE  s \o t \in Seq(S) /\ s \o t # <<>>
<1>1. s \o t \in Seq(S) /\ Len(s \o t) = Len(s) + Len(t)
  BY Joined
<1>2. Len(s) \in Nat \ {0} /\ Len(t) \in Nat
  BY NoElements, SeqIsFunction
<1>3. Len(s \o t) # 0
  BY SMT, <1>1, <1>2
<1> QED BY <1>1, <1>3, NoElements

\* Every command's steps fit the lease it takes.
LEMMA Plans ==
    ASSUME NEW c \in Commands
    PROVE  Planned(StepsOf(c), LeaseOf(c)) /\ StepsOf(c) # <<>>
<1> DEFINE F == Fit(LeaseOf(c))
<1>1. Neutral \subseteq F
  BY DEF Fit
<1>2. StopMining \in Seq(F) /\ StopMining # <<>> /\ StopSync \in Seq(F) /\ StopSync # <<>>
  <2> HIDE DEF F
  <2> QED BY <1>1, Pairs DEF StopMining, StopSync, Neutral
<1>3. StopMining \o StopSync \in Seq(F) /\ StopMining \o StopSync # <<>>
  <2> HIDE DEF F
  <2> QED BY <1>2, Joins
<1>4. CASE c = "unlock"
  BY <1>4 DEF StepsOf, LeaseOf, Planned, Unlocking
<1>5. CASE c \in {"open", "restore", "resume", "retry"}
  <2>1. {"open", "restore", "start_live", "start_node", "nudge_node", "clear_paused", "clear_latch"} \subseteq F
    BY SMT, <1>5 DEF LeaseOf, Fit, Neutral
  <2> HIDE DEF F
  <2>2. StepsOf(c) \in Seq(F) /\ StepsOf(c) # <<>>
    BY <1>5, <2>1, Pairs, Triples DEF StepsOf
  <2> QED BY <2>2 DEF Planned, F
<1>6. CASE c \in {"lock", "close", "recover"}
  <2>1. c \in F
    BY <1>6 DEF LeaseOf, Fit, Neutral
  <2> HIDE DEF F
  <2>2. StepsOf(c) = StopMining \o StopSync \o <<c>>
    BY <1>6 DEF StepsOf
  <2>3. StepsOf(c) \in Seq(F) /\ StepsOf(c) # <<>>
    BY <1>3, <2>1, <2>2, Singles, Joins
  <2> QED BY SMT, <2>3 DEF Planned, F
<1>7. CASE c = "source"
  <2>1. {"select", "stop_core", "start_if_unlocked"} \subseteq F
    BY <1>7 DEF LeaseOf, Fit, Neutral
  <2> HIDE DEF F
  <2>2. <<"select">> \o StopSync \in Seq(F) /\ <<"select">> \o StopSync # <<>>
    BY <1>2, <2>1, Singles, Joins
  <2>3. <<"stop_core", "start_if_unlocked">> \in Seq(F)
    BY <2>1, Pairs
  <2>4. StepsOf(c) = <<"select">> \o StopSync \o <<"stop_core", "start_if_unlocked">>
    BY <1>7 DEF StepsOf
  <2>5. StepsOf(c) \in Seq(F) /\ StepsOf(c) # <<>>
    BY <2>2, <2>3, <2>4, Joins
  <2> QED BY SMT, <2>5 DEF Planned, F
<1>8. CASE c \in {"node_stop", "shutdown"}
  <2> DEFINE last == IF c = "node_stop" THEN "stop_core" ELSE "close"
  <2>1. {"cancel_node", "join_node", last} \subseteq F
    BY <1>8 DEF LeaseOf, Fit, Neutral
  <2>2. StepsOf(c) = <<"cancel_node", "join_node">> \o StopMining \o StopSync \o <<last>>
    BY <1>8 DEF StepsOf
  <2> HIDE DEF F, last
  <2>3. <<"cancel_node", "join_node">> \in Seq(F) /\ <<"cancel_node", "join_node">> # <<>>
    BY <2>1, Pairs
  <2>4. /\ <<"cancel_node", "join_node">> \o StopMining \in Seq(F)
        /\ <<"cancel_node", "join_node">> \o StopMining # <<>>
    BY <1>2, <2>3, Joins
  <2>5. /\ <<"cancel_node", "join_node">> \o StopMining \o StopSync \in Seq(F)
        /\ <<"cancel_node", "join_node">> \o StopMining \o StopSync # <<>>
    BY <1>2, <2>4, Joins
  <2>6. StepsOf(c) \in Seq(F) /\ StepsOf(c) # <<>>
    BY <2>1, <2>2, <2>5, Singles, Joins
  <2> QED BY SMT, <2>6 DEF Planned, F
<1>9. CASE c = "pause"
  <2> HIDE DEF F
  <2>1. <<"set_paused">> \o StopSync \in Seq(F) /\ <<"set_paused">> \o StopSync # <<>>
    BY <1>1, <1>2, Singles, Joins DEF Neutral
  <2>2. StepsOf(c) = <<"set_paused">> \o StopSync
    BY <1>9 DEF StepsOf
  <2> QED BY <2>1, <2>2 DEF Planned, F
<1>10. CASE c = "mining_stop"
  <2>1. StepsOf(c) = StopMining
    BY <1>10 DEF StepsOf
  <2> QED BY <1>2, <2>1 DEF Planned
<1>11. CASE c \in {"node_status", "rescan", "transact", "mining_start", "start_node"}
  <2>1. c \in F
    BY <1>11 DEF LeaseOf, Fit, Neutral
  <2>2. StepsOf(c) = <<c>>
    BY <1>11 DEF StepsOf
  <2> HIDE DEF F
  <2>3. StepsOf(c) \in Seq(F) /\ StepsOf(c) # <<>>
    BY <2>1, <2>2, Singles
  <2> QED BY SMT, <2>3 DEF Planned, F
<1> QED BY <1>4, <1>5, <1>6, <1>7, <1>8, <1>9, <1>10, <1>11, CommandsAssumption

\* Arithmetic on the seven steps of the shutdown.
LEMMA Counts ==
    /\ \A n \in 1 .. 7 : n \in Nat /\ 1 \in 1 .. n /\ (7 - n) + 1 = 8 - n
    /\ \A n \in 1 .. 7 : n - 1 # 0 => n - 1 \in 1 .. 7
BY SMT

\* application_shutdown's steps, written out.
LEMMA ShutdownIs == Follows(StepsOf("shutdown")) /\ Len(StepsOf("shutdown")) = 7
<1> DEFINE S == {"cancel_node", "join_node", "signal_mining", "join_mining",
                 "signal_sync", "join_sync", "close"}
           A == <<"cancel_node", "join_node">>
           B == A \o StopMining
           C == B \o StopSync
           D == C \o <<"close">>
<1>1. /\ {"cancel_node", "join_node", "signal_mining", "join_mining", "signal_sync", "join_sync", "close"} \subseteq S
  OBVIOUS
<1>2. StepsOf("shutdown") = D
  BY DEF StepsOf
<1> HIDE DEF S
<1>3. A \in Seq(S) /\ Len(A) = 2
  BY SMT, <1>1
<1>4. StopMining \in Seq(S) /\ Len(StopMining) = 2
  BY SMT, <1>1 DEF StopMining
<1>5. StopSync \in Seq(S) /\ Len(StopSync) = 2
  BY SMT, <1>1 DEF StopSync
<1>6. <<"close">> \in Seq(S) /\ Len(<<"close">>) = 1
  BY SMT, <1>1
<1>7. /\ B \in Seq(S) /\ Len(B) = 4
      /\ \A i \in 1 .. 4 : B[i] = IF i <= 2 THEN A[i] ELSE StopMining[i - 2]
  <2> HIDE DEF A
  <2> QED BY <1>3, <1>4, Joined, Z3
<1>8. /\ C \in Seq(S) /\ Len(C) = 6
      /\ \A i \in 1 .. 6 : C[i] = IF i <= 4 THEN B[i] ELSE StopSync[i - 4]
  <2>1. B \in Seq(S) /\ Len(B) = 4
    BY <1>7
  <2> HIDE DEF B
  <2>2. /\ C \in Seq(S) /\ Len(C) = Len(B) + Len(StopSync)
        /\ \A i \in 1 .. Len(B) + Len(StopSync) :
              C[i] = IF i <= Len(B) THEN B[i] ELSE StopSync[i - Len(B)]
    BY <1>5, <2>1, Joined
  <2> HIDE DEF C
  <2> QED BY SMT, <1>5, <2>1, <2>2
<1>9. /\ D \in Seq(S) /\ Len(D) = 7
      /\ \A i \in 1 .. 7 : D[i] = IF i <= 6 THEN C[i] ELSE <<"close">>[i - 6]
  <2>1. C \in Seq(S) /\ Len(C) = 6
    BY <1>8
  <2> HIDE DEF C
  <2>2. /\ D \in Seq(S) /\ Len(D) = Len(C) + Len(<<"close">>)
        /\ \A i \in 1 .. Len(C) + Len(<<"close">>) :
              D[i] = IF i <= Len(C) THEN C[i] ELSE <<"close">>[i - Len(C)]
    BY <1>6, <2>1, Joined
  <2> HIDE DEF D
  <2> QED BY SMT, <1>6, <2>1, <2>2
<1>10. \A i \in 1 .. 4 : B[i] = ShutdownSteps[i]
  <2> HIDE DEF B
  <2> QED BY SMT, <1>7 DEF A, StopMining, ShutdownSteps
<1>11. \A i \in 1 .. 6 : C[i] = ShutdownSteps[i]
  <2> HIDE DEF B, C
  <2>1. ShutdownSteps[5] = StopSync[1] /\ ShutdownSteps[6] = StopSync[2]
    BY DEF ShutdownSteps, StopSync
  <2> QED BY SMT, <1>8, <1>10, <2>1
<1>12. \A i \in 1 .. 7 : D[i] = ShutdownSteps[i]
  <2> HIDE DEF C, D
  <2>1. ShutdownSteps[7] = <<"close">>[1]
    BY DEF ShutdownSteps
  <2> QED BY SMT, <1>9, <1>11, <2>1
<1>13. Len(D) = 7
  BY <1>9
<1> HIDE DEF D
<1>14. \A i \in 1 .. Len(D) : (7 - Len(D)) + i = i
  BY SMT, <1>13
<1>15. \A i \in 1 .. Len(D) : D[i] = ShutdownSteps[(7 - Len(D)) + i]
  BY <1>12, <1>13, <1>14
<1>16. Len(D) \in 1 .. 7
  BY SMT, <1>13
<1> QED BY <1>2, <1>13, <1>15, <1>16 DEF Follows

\* What the main thread is at, its remaining steps decide.
LEMMA Heads ==
    ASSUME Plan, NEW step, At(step)
    PROVE  /\ main # Idle /\ main.todo # <<>>
           /\ \/ step \in Fit(main.lease)
              \/ main.lease = "WalletLifecycle" /\ step \in {"unlock", "release"}
<1>1. main.todo # <<>> /\ step = Head(main.todo)
  BY DEF At
<1>2. main # Idle
  BY SMT, <1>1 DEF Idle
<1>3. CASE main.todo \in Seq(Fit(main.lease))
  <2>1. Head(main.todo) \in Fit(main.lease)
    BY <1>1, <1>3, HeadAndTail
  <2> QED BY <1>1, <1>2, <2>1
<1>4. CASE main.lease = "WalletLifecycle" /\ main.todo \in Unlocking
  BY SMT, <1>1, <1>2, <1>4 DEF Unlocking
<1> QED BY <1>3, <1>4 DEF Plan, Planned

\* The step a shutdown is at, and the steps it has left after it.
LEMMA ShutdownAt ==
    ASSUME Plan, NEW step, At(step), main.lease = "Shutdown", Follows(main.todo)
    PROVE  /\ step = ShutdownSteps[8 - Len(main.todo)]
           /\ Tail(main.todo) # <<>> =>
                 Follows(Tail(main.todo)) /\ Len(Tail(main.todo)) = Len(main.todo) - 1
           /\ Tail(main.todo) = <<>> => Len(main.todo) = 1
<1> DEFINE t == main.todo
           S == Fit(main.lease)
<1>1. t \in Seq(S) /\ t # <<>>
  BY DEF Plan, Planned, At
<1>2. /\ Len(t) \in 1 .. 7
      /\ \A i \in 1 .. Len(t) : t[i] = ShutdownSteps[(7 - Len(t)) + i]
  BY DEF Follows
<1>a. Len(t) \in 1 .. 7
  BY <1>2
<1>b. step = t[1]
  <2>1. step = Head(t)
    BY DEF At
  <2> HIDE DEF t, S
  <2> QED BY SMT, <1>1, <2>1, HeadAndTail
<1>3. /\ Tail(t) \in Seq(S) /\ Len(Tail(t)) = Len(t) - 1
      /\ \A i \in 1 .. Len(t) - 1 : Tail(t)[i] = t[i + 1]
  <2> HIDE DEF t, S
  <2> QED BY <1>1, HeadAndTail
<1>4. Tail(t) = <<>> => Len(t) = 1
  <2> HIDE DEF t, S
  <2> QED BY SMT, <1>2, <1>3, NoElements
<1>5. ASSUME Tail(t) # <<>> PROVE Follows(Tail(t))
  <2> HIDE DEF t, S
  <2>1. Len(Tail(t)) # 0
    BY <1>3, <1>5, NoElements
  <2>2. Len(Tail(t)) \in 1 .. 7
    BY <1>a, <1>3, <2>1, Counts
  <2>3. ASSUME NEW i \in 1 .. Len(Tail(t)) PROVE Tail(t)[i] = ShutdownSteps[(7 - Len(Tail(t))) + i]
    <3>1. i \in 1 .. Len(t) - 1 /\ i + 1 \in 1 .. Len(t)
      BY SMT, <1>2, <1>3
    <3>2. Tail(t)[i] = ShutdownSteps[(7 - Len(t)) + (i + 1)]
      BY <1>2, <1>3, <3>1
    <3>3. (7 - Len(t)) + (i + 1) = (7 - Len(Tail(t))) + i
      BY SMT, <1>2, <1>3
    <3> QED BY <3>2, <3>3
  <2> QED BY <2>2, <2>3 DEF Follows
<1>6. step = ShutdownSteps[8 - Len(t)]
  <2> HIDE DEF t, S
  <2>1. 1 \in 1 .. Len(t) /\ (7 - Len(t)) + 1 = 8 - Len(t)
    BY <1>a, Counts
  <2> QED BY <1>2, <1>b, <2>1
<1> QED BY <1>3, <1>4, <1>5, <1>6

\* A step that succeeds leaves a plan of the same command, or none and no lease.
LEMMA Advanced ==
    ASSUME Plan, NEW step, At(step), step # "release", Advance
    PROVE  /\ Plan'
           /\ \/ main' = Idle /\ leases' = leases \ {main.lease} /\ Tail(main.todo) = <<>>
              \/ /\ main'.cmd = main.cmd /\ main'.lease = main.lease /\ leases' = leases
                 /\ main'.todo = Tail(main.todo) /\ Tail(main.todo) # <<>>
<1>1. main.todo # <<>> /\ step = Head(main.todo)
  BY DEF At
<1>2. CASE Tail(main.todo) = <<>>
  <2>1. main' = Idle /\ leases' = leases \ {main.lease}
    BY <1>2 DEF Advance
  <2>2. <<>> \in Seq(Fit(NoLease))
    BY NoElements
  <2> QED BY <1>2, <2>1, <2>2 DEF Plan, Planned, Idle
<1>3. CASE Tail(main.todo) # <<>>
  <2>1. main' = [main EXCEPT !.todo = Tail(@)] /\ leases' = leases
    BY <1>3 DEF Advance
  <2>2. /\ main' = [cmd |-> main.cmd, todo |-> Tail(main.todo), lease |-> main.lease]
        /\ main'.cmd = main.cmd /\ main'.lease = main.lease /\ main'.todo = Tail(main.todo)
    BY <2>1 DEF Plan
  <2>3. Planned(Tail(main.todo), main.lease)
    <3>1. CASE main.todo \in Seq(Fit(main.lease))
      <4>1. Tail(main.todo) \in Seq(Fit(main.lease))
        BY <1>1, <3>1, HeadAndTail
      <4> QED BY <4>1 DEF Planned
    <3>2. CASE main.lease = "WalletLifecycle" /\ main.todo \in Unlocking
      <4>1. main.todo = <<"unlock", "release", "start_live">>
        BY SMT, <1>1, <3>2 DEF Unlocking
      <4>2. Tail(main.todo) = <<"release", "start_live">>
        BY SMT, <4>1
      <4> QED BY <3>2, <4>2 DEF Planned, Unlocking
    <3> QED BY <3>1, <3>2 DEF Plan, Planned
  <2> QED BY <1>3, <2>1, <2>2, <2>3 DEF Plan
<1> QED BY <1>2, <1>3

\* A step of a command that leaves the workers' leases alone, touches the
\* wallet only when no update is in progress and, in a shutdown, ends what its
\* step is about.
LEMMA AdvancePreserves ==
    ASSUME ShellInv, NEW step, At(step), step # "release", Advance, Shapes',
           sync'.lease = sync.lease, sync'.pc = "pass" => sync.pc = "pass",
           mining'.pc \in {"round", "waiting"} <=> mining.pc \in {"round", "waiting"},
           updater' = updater, flags'.shutdown = flags.shutdown,
           updater # "idle" => /\ service'.phase = service.phase
                               /\ service'.wallet = service.wallet
                               /\ critical' = critical,
           main.cmd = "shutdown" =>
               /\ node.pc = "none" \/ step = "join_node" => node'.pc = "none"
               /\ mining.pc = "none" \/ step = "join_mining" => mining'.pc = "none"
               /\ sync.pc = "none" \/ step = "join_sync" => sync'.pc = "none"
               /\ step = "close" =>
                     service' = NoService /\ node'.pc = node.pc
                     /\ mining'.pc = mining.pc /\ sync'.pc = sync.pc
    PROVE  ShellInv'
<1>1. /\ Plan'
      /\ \/ main' = Idle /\ leases' = leases \ {main.lease} /\ Tail(main.todo) = <<>>
         \/ /\ main'.cmd = main.cmd /\ main'.lease = main.lease /\ leases' = leases
            /\ main'.todo = Tail(main.todo) /\ Tail(main.todo) # <<>>
  BY Advanced DEF ShellInv
<1>2. main # Idle
  BY Heads DEF ShellInv
<1>3. Held'
  BY SMT, <1>1 DEF ShellInv, Held, LeasesOwned, Idle, NoLease
<1>4. Safe'
  BY DEF ShellInv, Safe, Unlocked
<1>5. Down'
  <2>1. CASE main.cmd = "shutdown"
    <3>1. /\ main.lease = "Shutdown" /\ Follows(main.todo)
          /\ Len(main.todo) <= 5 => node.pc = "none"
          /\ Len(main.todo) <= 3 => mining.pc = "none"
          /\ Len(main.todo) <= 1 => sync.pc = "none"
      BY <2>1 DEF ShellInv, Down
    <3>2. /\ step = ShutdownSteps[8 - Len(main.todo)]
          /\ Tail(main.todo) # <<>> =>
                Follows(Tail(main.todo)) /\ Len(Tail(main.todo)) = Len(main.todo) - 1
          /\ Tail(main.todo) = <<>> => Len(main.todo) = 1
      BY <3>1, ShutdownAt DEF ShellInv
    <3>a. Len(main.todo) \in 1 .. 7
      BY <3>1 DEF Follows
    <3>3. PICK n \in 1 .. 7 : n = Len(main.todo)
      BY <3>a
    <3>6. /\ n <= 5 => node.pc = "none"
          /\ n <= 3 => mining.pc = "none"
          /\ n <= 1 => sync.pc = "none"
      BY <3>1, <3>3
    <3>7. step = ShutdownSteps[8 - n]
      BY <3>2, <3>3
    <3>4. CASE Tail(main.todo) = <<>>
      <4>1. main' = Idle /\ Len(main.todo) = 1 /\ step = "close"
        <5>1. main' = Idle /\ n = 1
          BY <1>1, <3>2, <3>3, <3>4
        <5>2. n = 1 => step = "close"
          BY SMT, <3>7 DEF ShutdownSteps
        <5> QED BY <5>1, <5>2, <3>3
      <4> QED BY SMT, <2>1, <3>1, <4>1 DEF Down, Idle
    <3>5. CASE Tail(main.todo) # <<>>
      <4>1. /\ main'.cmd = "shutdown" /\ main'.lease = "Shutdown"
            /\ Follows(main'.todo) /\ Len(main'.todo) = Len(main.todo) - 1
        BY <1>1, <2>1, <3>1, <3>2, <3>5
      <4>2. n = 6 => step = "join_node"
        BY SMT, <3>7 DEF ShutdownSteps
      <4>3. n = 4 => step = "join_mining"
        BY SMT, <3>7 DEF ShutdownSteps
      <4>4. n = 2 => step = "join_sync"
        BY SMT, <3>7 DEF ShutdownSteps
      <4>5. Len(main'.todo) <= 5 => node'.pc = "none"
        <5>1. n - 1 <= 5 => n <= 5 \/ n = 6
          BY SMT
        <5>2. Len(main'.todo) = n - 1
          BY <3>3, <4>1
        <5> QED BY <2>1, <3>6, <4>2, <5>1, <5>2
      <4>6. Len(main'.todo) <= 3 => mining'.pc = "none"
        <5>1. n - 1 <= 3 => n <= 3 \/ n = 4
          BY SMT
        <5>2. Len(main'.todo) = n - 1
          BY SMT, <3>3, <4>1
        <5> QED BY <2>1, <3>6, <4>3, <5>1, <5>2
      <4>7. Len(main'.todo) <= 1 => sync'.pc = "none"
        <5>1. n - 1 <= 1 => n <= 1 \/ n = 2
          BY SMT
        <5>2. Len(main'.todo) = n - 1
          BY SMT, <3>3, <4>1
        <5> QED BY <2>1, <3>6, <4>4, <5>1, <5>2
      <4> QED BY <4>1, <4>5, <4>6, <4>7 DEF Down
    <3> QED BY <3>4, <3>5
  <2>2. CASE main.cmd # "shutdown"
    <3>1. ~flags.shutdown
      BY <1>2, <2>2 DEF ShellInv, Down
    <3>2. main'.cmd # "shutdown"
      BY SMT, <1>1, <2>2 DEF Idle
    <3> QED BY <3>1, <3>2 DEF Down
  <2> QED BY <2>1, <2>2
<1> QED BY <1>1, <1>3, <1>4, <1>5 DEF ShellInv

\* A command that fails drops its lease; a shutdown that fails is withdrawn.
LEMMA FailPreserves ==
    ASSUME ShellInv, NEW step, At(step), NEW f, Fail(f), f.shutdown = flags.shutdown,
           f = [paused |-> f.paused, shutdown |-> f.shutdown, recovery |-> f.recovery],
           service' = [phase |-> service'.phase, wallet |-> service'.wallet,
                       backend |-> service'.backend, poisoned |-> service'.poisoned],
           UNCHANGED <<sync, mining, node, updater, critical>>,
           updater # "idle" => service'.phase = service.phase
                               /\ service'.wallet = service.wallet
    PROVE  ShellInv'
<1>1. main # Idle
  BY Heads DEF ShellInv
<1>2. main' = Idle /\ leases' = leases \ {main.lease}
  BY DEF Fail
<1>3. flags' = [f EXCEPT !.shutdown = @ /\ main.cmd # "shutdown"]
  BY DEF Fail
<1>4. /\ flags' = [paused |-> f.paused, shutdown |-> (f.shutdown /\ main.cmd # "shutdown"),
                   recovery |-> f.recovery]
  BY <1>3
<1>5. ~flags'.shutdown
  BY <1>1, <1>4 DEF ShellInv, Down
<1>6. Shapes'
  BY <1>4 DEF ShellInv, Shapes
<1>7. Plan'
  <2>1. <<>> \in Seq(Fit(NoLease))
    BY NoElements
  <2> QED BY <1>2, <2>1 DEF Plan, Planned, Idle
<1>8. Held'
  BY <1>2 DEF ShellInv, Held, LeasesOwned, Idle, NoLease
<1>9. Safe'
  BY DEF ShellInv, Safe, Unlocked
<1>10. Down'
  BY <1>2, <1>5 DEF Down, Idle
<1> QED BY <1>6, <1>7, <1>8, <1>9, <1>10 DEF ShellInv

\* A step of a worker, of the update task or of the node beside the command.
LEMMA BesidePreserves ==
    ASSUME ShellInv, main' = main, flags'.shutdown = flags.shutdown, Shapes', Held', Safe',
           node.pc = "none" => node'.pc = "none",
           mining.pc = "none" => mining'.pc = "none",
           sync.pc = "none" => sync'.pc = "none",
           service = NoService /\ node.pc = "none" /\ sync.pc = "none" =>
               service' = NoService
    PROVE  ShellInv'
<1>1. Plan'
  BY DEF ShellInv, Plan
<1>2. Down'
  BY DEF ShellInv, Down
<1> QED BY <1>1, <1>2 DEF ShellInv

\* Initially nothing runs and nothing is leased.
LEMMA ShellInit == Init => ShellInv
<1> SUFFICES ASSUME Init PROVE ShellInv
  OBVIOUS
<1>1. Shapes
  BY DEF Init, Shapes, NoService, NoSync, NoMining, NoNode, Launched
<1>2. Plan
  <2>1. <<>> \in Seq(Fit(NoLease))
    BY NoElements
  <2> QED BY <2>1 DEF Init, Plan, Planned, Idle
<1>3. Held
  BY DEF Init, Held, LeasesOwned, Idle, NoLease, NoSync, NoMining
<1>4. Safe
  BY DEF Init, Safe
<1>5. Down
  BY DEF Init, Down, Idle
<1> QED BY <1>1, <1>2, <1>3, <1>4, <1>5 DEF ShellInv

\* A relaunched application is an initial one.
LEMMA RelaunchPreserves == ASSUME Relaunch PROVE ShellInv'
<1>1. Shapes'
  BY DEF Relaunch, Shapes, NoService, NoSync, NoMining, NoNode, Launched
<1>2. Plan'
  <2>1. <<>> \in Seq(Fit(NoLease))
    BY SMT, NoElements
  <2> QED BY <2>1 DEF Relaunch, Plan, Planned, Idle
<1>3. Held'
  BY DEF Relaunch, Held, LeasesOwned, Idle, NoLease, NoSync, NoMining
<1>4. Safe'
  BY DEF Relaunch, Safe
<1>5. Down'
  BY DEF Relaunch, Down, Idle
<1> QED BY <1>1, <1>2, <1>3, <1>4, <1>5 DEF ShellInv

\* A command begins: its lease excludes what it must exclude.
LEMMA BeginPreserves ==
    ASSUME ShellInv, NEW c \in Commands, Begin(c)
    PROVE  ShellInv'
<1>1. /\ main = Idle /\ ~flags.shutdown
      /\ LeaseOf(c) # NoLease => CanBegin(LeaseOf(c))
      /\ leases' = leases \union ({LeaseOf(c)} \ {NoLease})
      /\ main' = [cmd |-> c, todo |-> StepsOf(c), lease |-> LeaseOf(c)]
      /\ flags' = [flags EXCEPT !.shutdown = c = "shutdown"]
      /\ UNCHANGED <<service, sync, mining, node, updater, critical>>
  BY DEF Begin
<1>2. main'.cmd = c /\ main'.todo = StepsOf(c) /\ main'.lease = LeaseOf(c)
  BY <1>1
<1>3. /\ flags' = [paused |-> flags.paused, shutdown |-> (c = "shutdown"),
                   recovery |-> flags.recovery]
  BY <1>1 DEF ShellInv, Shapes
<1>4. Shapes'
  BY <1>1, <1>3 DEF ShellInv, Shapes
<1>5. Plan'
  BY <1>1, <1>2, Plans DEF Plan
<1>6. LeaseOf(c) \in {"WalletLifecycle", "Synchronization", "CriticalTransaction",
                      "NodeLifecycle", "Shutdown", NoLease}
  BY DEF LeaseOf
<1>7. Held'
  <2>1. main.lease = NoLease
    BY <1>1 DEF Idle
  <2> QED BY SMT, <1>1, <1>2, <1>6, <2>1
          DEF ShellInv, Held, LeasesOwned, CanBegin, CanBeginIn, Exclusive, NoLease
<1>8. Safe'
  BY <1>1 DEF ShellInv, Safe, Unlocked
<1>9. Down'
  <2>1. CASE c = "shutdown"
    <3>1. LeaseOf(c) = "Shutdown"
      BY <2>1 DEF LeaseOf
    <3>2. Len(StepsOf(c)) = 7
      BY <2>1, ShutdownIs
    <3>3. ~(Len(StepsOf(c)) <= 5) /\ ~(Len(StepsOf(c)) <= 3) /\ ~(Len(StepsOf(c)) <= 1)
      BY SMT, <3>2
    <3> QED BY <1>2, <2>1, <3>1, <3>3, ShutdownIs DEF Down
  <2>2. CASE c # "shutdown"
    <3>1. ~flags'.shutdown /\ main'.cmd # "shutdown"
      BY <1>2, <1>3, <2>2
    <3> QED BY <3>1 DEF Down
  <2> QED BY <2>1, <2>2
<1> QED BY <1>4, <1>5, <1>7, <1>8, <1>9 DEF ShellInv

\* wallet_unlock drops its lease before it starts the synchronization.
LEMMA ReleasePreserves == ASSUME ShellInv, Release PROVE ShellInv'
<1>1. /\ At("release") /\ main' = [main EXCEPT !.todo = Tail(@), !.lease = NoLease]
      /\ leases' = leases \ {main.lease}
      /\ UNCHANGED <<service, sync, mining, node, flags, updater, critical>>
  BY DEF Release
<1>2. main # Idle /\ main.lease = "WalletLifecycle"
  BY SMT, <1>1, Heads DEF ShellInv, Fit, Neutral
<1>3. main.todo = <<"release", "start_live">>
  <2>1. main.todo # <<>> /\ Head(main.todo) = "release"
    BY <1>1 DEF At
  <2>2. "release" \notin Fit(main.lease)
    BY DEF Fit, Neutral
  <2>3. main.todo \notin Seq(Fit(main.lease))
    BY <2>1, <2>2, HeadAndTail
  <2> QED BY SMT, <2>1, <2>3 DEF ShellInv, Plan, Planned, Unlocking
<1>4. Tail(main.todo) = <<"start_live">>
  BY SMT, <1>3
<1>5. /\ main' = [cmd |-> main.cmd, todo |-> <<"start_live">>, lease |-> NoLease]
      /\ main'.cmd = main.cmd /\ main'.todo = <<"start_live">> /\ main'.lease = NoLease
  BY <1>1, <1>4 DEF ShellInv, Plan
<1>6. <<"start_live">> \in Seq(Fit(NoLease)) /\ <<"start_live">> # <<>>
  <2>1. "start_live" \in Fit(NoLease)
    BY DEF Fit
  <2> QED BY <2>1, Singles
<1>7. Plan'
  BY <1>5, <1>6 DEF Plan, Planned
<1>8. Held'
  BY SMT, <1>1, <1>5 DEF ShellInv, Held, LeasesOwned, NoLease
<1>9. main.cmd # "shutdown"
  BY <1>2 DEF ShellInv, Down
<1>10. Down'
  BY <1>1, <1>2, <1>5, <1>9 DEF ShellInv, Down
<1>11. Shapes' /\ Safe'
  BY <1>1 DEF ShellInv, Shapes, Safe, Unlocked
<1> QED BY <1>7, <1>8, <1>10, <1>11 DEF ShellInv

\* The steps that signal and join the workers.
LEMMA WorkersPreserve ==
    ASSUME ShellInv,
           SignalMining \/ JoinMining \/ SignalSync \/ JoinSync \/ CancelNode \/ JoinNode
    PROVE  ShellInv'
<1>1. CASE SignalMining
  <2>1. /\ At("signal_mining") /\ Advance
        /\ UNCHANGED <<service, sync, node, flags, updater, critical>>
    BY <1>1 DEF SignalMining
  <2>2. mining'.pc = mining.pc /\ Shapes'
    BY <1>1, <2>1 DEF ShellInv, Shapes, SignalMining
  <2> QED BY <2>1, <2>2, AdvancePreserves
<1>2. CASE JoinMining
  <2>1. /\ At("join_mining") /\ Advance /\ mining.pc \in {"none", "done"}
        /\ UNCHANGED <<service, sync, node, flags, updater, critical>>
    BY <1>2 DEF JoinMining
  <2>2. mining'.pc = "none" /\ Shapes'
    BY <1>2, <2>1 DEF ShellInv, Shapes, JoinMining
  <2> QED BY <2>1, <2>2, AdvancePreserves
<1>3. CASE SignalSync
  <2>1. /\ At("signal_sync") /\ Advance
        /\ UNCHANGED <<service, mining, node, flags, updater, critical>>
    BY <1>3 DEF SignalSync
  <2>2. sync'.pc = sync.pc /\ sync'.lease = sync.lease /\ Shapes'
    BY <1>3, <2>1 DEF ShellInv, Shapes, SignalSync
  <2> QED BY <2>1, <2>2, AdvancePreserves
<1>4. CASE JoinSync
  <2>1. /\ At("join_sync") /\ Advance /\ sync.pc \in {"none", "done"}
        /\ UNCHANGED <<service, mining, node, flags, updater, critical>>
    BY <1>4 DEF JoinSync
  <2>2. sync'.pc = "none" /\ sync'.lease = sync.lease /\ Shapes'
    BY <1>4, <2>1 DEF ShellInv, Shapes, JoinSync
  <2> QED BY <2>1, <2>2, AdvancePreserves
<1>5. CASE CancelNode
  <2>1. /\ At("cancel_node") /\ Advance
        /\ UNCHANGED <<service, sync, mining, flags, updater, critical>>
    BY <1>5 DEF CancelNode
  <2>2. node'.pc = node.pc /\ Shapes'
    BY <1>5, <2>1 DEF ShellInv, Shapes, CancelNode
  <2> QED BY <2>1, <2>2, AdvancePreserves
<1>6. CASE JoinNode
  <2>1. /\ At("join_node") /\ Advance
        /\ UNCHANGED <<service, sync, mining, flags, updater, critical>>
    BY <1>6 DEF JoinNode
  <2>2. node'.pc = "none" /\ Shapes'
    BY <1>6, <2>1 DEF ShellInv, Shapes, JoinNode
  <2> QED BY <2>1, <2>2, AdvancePreserves
<1> QED BY <1>1, <1>2, <1>3, <1>4, <1>5, <1>6

\* A command that returns an error and leaves the wallet as it was.
LEMMA PlainFailure ==
    ASSUME ShellInv, NEW step, At(step), NEW f, Fail(f),
           f \in {flags, [flags EXCEPT !.recovery = TRUE]},
           UNCHANGED <<service, sync, mining, node, updater, critical>>
    PROVE  ShellInv'
<1>1. /\ f = [paused |-> f.paused, shutdown |-> f.shutdown, recovery |-> f.recovery]
      /\ f.shutdown = flags.shutdown
  BY DEF ShellInv, Shapes
<1>2. service' = [phase |-> service'.phase, wallet |-> service'.wallet,
                  backend |-> service'.backend, poisoned |-> service'.poisoned]
  BY DEF ShellInv, Shapes
<1> QED BY <1>1, <1>2, FailPreserves

\* While the update task is at work no command holds a lease.
LEMMA LeasedMeansNoUpdate ==
    ASSUME ShellInv, main.lease # NoLease PROVE updater = "idle"
BY DEF ShellInv, Held

\* The steps that open, unlock, lock or close the wallet.
LEMMA WalletPreserves ==
    ASSUME ShellInv,
           Poisoned \/ Unlock \/ Open("open") \/ Open("restore") \/ Lock \/ Close \/ Recover
    PROVE  ShellInv'
<1>1. CASE Poisoned
  <2>1. PICK step \in ServiceSteps : At(step)
    BY <1>1 DEF Poisoned
  <2> QED BY <1>1, <2>1, PlainFailure DEF Poisoned
<1>2. CASE Unlock
  <2>1. At("unlock") /\ UNCHANGED <<sync, mining, node, updater, critical>>
    BY <1>2 DEF Unlock, Usable
  <2>2. updater = "idle" /\ main.lease # "Shutdown"
    <3>1. main.lease = "WalletLifecycle"
      BY SMT, <2>1, Heads DEF ShellInv, Fit, Neutral
    <3> QED BY <3>1, LeasedMeansNoUpdate DEF NoLease
  <2>3. CASE service' = [service EXCEPT !.phase = "unlocked"] /\ Advance /\ UNCHANGED flags
    <3>1. Shapes'
      BY <2>1, <2>3 DEF ShellInv, Shapes
    <3>2. main.cmd # "shutdown"
      BY <2>2 DEF ShellInv, Down
    <3> QED BY <2>1, <2>2, <2>3, <3>1, <3>2, AdvancePreserves
  <2>4. CASE Fail(flags) /\ UNCHANGED service
    BY <2>1, <2>4, PlainFailure
  <2> QED BY <1>2, <2>3, <2>4 DEF Unlock
<1>3. ASSUME NEW step \in {"open", "restore"}, Open(step) PROVE ShellInv'
  <2>1. At(step) /\ UNCHANGED <<sync, mining, node, updater, critical>>
    BY <1>3 DEF Open, Usable
  <2>2. CASE /\ CanBegin(OpenLease(step)) /\ Advance /\ UNCHANGED flags
             /\ \E w \in Wallets :
                   service' = [service EXCEPT !.phase = "locked", !.wallet = w]
    <3>1. Shapes'
      BY <2>1, <2>2 DEF ShellInv, Shapes
    <3>2. updater = "idle" /\ main.lease # "Shutdown"
      BY <2>2 DEF ShellInv, Held, LeasesOwned, CanBegin, CanBeginIn, OpenLease, Exclusive, NoLease
    <3>3. main.cmd # "shutdown"
      BY <3>2 DEF ShellInv, Down
    <3> QED BY <2>1, <2>2, <3>1, <3>2, <3>3, AdvancePreserves
  <2>3. CASE Fail(flags) /\ UNCHANGED service
    BY <2>1, <2>3, PlainFailure
  <2> QED BY <1>3, <2>2, <2>3 DEF Open
<1>4. CASE Lock
  <2>1. At("lock") /\ UNCHANGED <<sync, mining, node, updater, critical>>
    BY <1>4 DEF Lock, Usable
  <2>2. updater = "idle" /\ main.lease # "Shutdown"
    <3>1. main.lease = "WalletLifecycle"
      BY SMT, <2>1, Heads DEF ShellInv, Fit, Neutral
    <3> QED BY SMT, <3>1, LeasedMeansNoUpdate DEF NoLease
  <2>3. CASE service' = [service EXCEPT !.phase = "locked"] /\ Advance /\ UNCHANGED flags
    <3>1. Shapes'
      BY <2>1, <2>3 DEF ShellInv, Shapes
    <3>2. main.cmd # "shutdown"
      BY SMT, <2>2 DEF ShellInv, Down
    <3> QED BY <2>1, <2>2, <2>3, <3>1, <3>2, AdvancePreserves
  <2>4. CASE Fail(flags) /\ UNCHANGED service
    BY <2>1, <2>4, PlainFailure
  <2> QED BY <1>4, <2>3, <2>4 DEF Lock
<1>5. CASE Close
  <2>1. At("close") /\ UNCHANGED <<sync, mining, updater, critical>>
    BY <1>5 DEF Close, Usable
  <2>2. updater = "idle"
    <3>1. main.lease \in {"WalletLifecycle", "Shutdown"}
      BY SMT, <2>1, Heads DEF ShellInv, Fit, Neutral
    <3> QED BY <3>1, LeasedMeansNoUpdate DEF NoLease
  <2>3. CASE /\ service' = NoService /\ node' = [node EXCEPT !.started = FALSE]
             /\ Advance /\ UNCHANGED flags
    <3>1. Shapes' /\ node'.pc = node.pc
      BY <2>1, <2>3 DEF ShellInv, Shapes, NoService
    <3> QED BY <2>1, <2>2, <2>3, <3>1, AdvancePreserves
  <2>4. CASE service' = CloseFailed /\ Fail(flags) /\ UNCHANGED node
    <3>1. service' = [phase |-> service'.phase, wallet |-> service'.wallet,
                      backend |-> service'.backend, poisoned |-> service'.poisoned]
      BY <2>4 DEF ShellInv, Shapes, CloseFailed
    <3>2. flags = [paused |-> flags.paused, shutdown |-> flags.shutdown,
                   recovery |-> flags.recovery]
      BY DEF ShellInv, Shapes
    <3> QED BY <2>1, <2>2, <2>4, <3>1, <3>2, FailPreserves
  <2> QED BY <1>5, <2>3, <2>4 DEF Close
<1>6. CASE Recover
  <2>1. At("recover") /\ UNCHANGED <<sync, mining, updater, critical>>
    BY <1>6 DEF Recover
  <2>2. updater = "idle" /\ main.lease # "Shutdown"
    <3>1. main.lease = "WalletLifecycle"
      BY SMT, <2>1, Heads DEF ShellInv, Fit, Neutral
    <3> QED BY SMT, <3>1, LeasedMeansNoUpdate DEF NoLease
  <2>3. CASE /\ \E w \in Wallets :
                   service' = [NoService EXCEPT !.phase = "locked", !.wallet = w]
             /\ node' = [node EXCEPT !.started = FALSE]
             /\ flags' = [flags EXCEPT !.paused = FALSE, !.recovery = FALSE]
             /\ Advance
    <3>1. Shapes' /\ flags'.shutdown = flags.shutdown
      BY <2>1, <2>3 DEF ShellInv, Shapes, NoService
    <3>2. main.cmd # "shutdown"
      BY SMT, <2>2 DEF ShellInv, Down
    <3> QED BY <2>1, <2>2, <2>3, <3>1, <3>2, AdvancePreserves
  <2>4. CASE /\ service' \in {service, [NoService EXCEPT !.poisoned = service.poisoned]}
             /\ Fail(flags) /\ UNCHANGED node
    <3>1. service' = [phase |-> service'.phase, wallet |-> service'.wallet,
                      backend |-> service'.backend, poisoned |-> service'.poisoned]
      BY <2>4 DEF ShellInv, Shapes, NoService
    <3>2. flags = [paused |-> flags.paused, shutdown |-> flags.shutdown,
                   recovery |-> flags.recovery]
      BY DEF ShellInv, Shapes
    <3> QED BY <2>1, <2>2, <2>4, <3>1, <3>2, FailPreserves
  <2> QED BY <1>6, <2>3, <2>4 DEF Recover
<1> QED BY <1>1, <1>2, <1>3, <1>4, <1>5, <1>6

\* The other steps of a command.
LEMMA OthersPreserve ==
    ASSUME ShellInv,
           StopCore \/ Transact \/ Rescan \/ Select \/ ClearLatch
           \/ SetPaused("set_paused", TRUE) \/ SetPaused("clear_paused", FALSE)
    PROVE  ShellInv'
<1>1. CASE StopCore
  <2>1. /\ At("stop_core") /\ UNCHANGED <<sync, mining, updater, critical>>
        /\ service' = [service EXCEPT !.backend = "none"]
    BY <1>1 DEF StopCore, Usable
  <2>2. CASE node' = [node EXCEPT !.started = FALSE] /\ Advance /\ UNCHANGED flags
    <3>1. /\ Shapes' /\ node'.pc = node.pc
          /\ service'.phase = service.phase /\ service'.wallet = service.wallet
      BY <2>1, <2>2 DEF ShellInv, Shapes
    <3> QED BY <2>1, <2>2, <3>1, AdvancePreserves
  <2>3. CASE Fail(flags) /\ UNCHANGED node
    <3>1. /\ service' = [phase |-> service'.phase, wallet |-> service'.wallet,
                         backend |-> service'.backend, poisoned |-> service'.poisoned]
          /\ service'.phase = service.phase /\ service'.wallet = service.wallet
      BY <2>1 DEF ShellInv, Shapes
    <3>2. flags = [paused |-> flags.paused, shutdown |-> flags.shutdown,
                   recovery |-> flags.recovery]
      BY DEF ShellInv, Shapes
    <3> QED BY <2>1, <2>3, <3>1, <3>2, FailPreserves
  <2> QED BY <1>1, <2>2, <2>3 DEF StopCore
<1>2. CASE Transact
  <2>1. At("transact") /\ UNCHANGED <<service, sync, mining, node, updater>>
    BY <1>2 DEF Transact, Usable
  <2>2. CASE Advance /\ UNCHANGED flags
    <3>1. main.lease = "CriticalTransaction"
      BY SMT, <2>1, Heads DEF ShellInv, Fit, Neutral
    <3>2. updater = "idle"
      BY <3>1, LeasedMeansNoUpdate DEF NoLease
    <3>3. Shapes'
      BY <2>1, <2>2 DEF ShellInv, Shapes
    <3> QED BY <2>1, <2>2, <3>2, <3>3, AdvancePreserves
  <2>3. CASE Fail(flags) /\ UNCHANGED critical
    BY <2>1, <2>3, PlainFailure
  <2> QED BY <1>2, <2>2, <2>3 DEF Transact
<1>3. CASE Rescan
  <2>1. /\ At("rescan") /\ Advance /\ flags' = [flags EXCEPT !.paused = FALSE]
        /\ UNCHANGED <<service, sync, mining, node, updater, critical>>
    BY <1>3 DEF Rescan, Usable
  <2>2. Shapes' /\ flags'.shutdown = flags.shutdown
    BY <2>1 DEF ShellInv, Shapes
  <2> QED BY <2>1, <2>2, AdvancePreserves
<1>4. CASE Select
  <2>1. /\ At("select") /\ Advance
        /\ UNCHANGED <<service, sync, mining, node, flags, updater, critical>>
    BY <1>4 DEF Select
  <2>2. Shapes'
    BY <2>1 DEF ShellInv, Shapes
  <2> QED BY <2>1, <2>2, AdvancePreserves
<1>5. CASE ClearLatch
  <2>1. /\ At("clear_latch") /\ Advance
        /\ sync' = [sync EXCEPT !.latched = FALSE, !.latch = NoWallet]
        /\ UNCHANGED <<service, mining, node, flags, updater, critical>>
    BY <1>5 DEF ClearLatch
  <2>2. Shapes' /\ sync'.pc = sync.pc /\ sync'.lease = sync.lease
    BY <2>1 DEF ShellInv, Shapes
  <2> QED BY <2>1, <2>2, AdvancePreserves
<1>6. ASSUME NEW step \in {"set_paused", "clear_paused"}, NEW paused, SetPaused(step, paused)
      PROVE  ShellInv'
  <2>1. /\ At(step) /\ Advance /\ flags' = [flags EXCEPT !.paused = paused]
        /\ UNCHANGED <<service, sync, mining, node, updater, critical>>
    BY <1>6 DEF SetPaused
  <2>2. Shapes' /\ flags'.shutdown = flags.shutdown
    BY <2>1 DEF ShellInv, Shapes
  <2> QED BY <2>1, <2>2, AdvancePreserves
<1> QED BY <1>1, <1>2, <1>3, <1>4, <1>5, <1>6

\* The commands that look at, start or nudge the embedded node.
LEMMA NodeCommandsPreserve ==
    ASSUME ShellInv,
           NodeStatus \/ NodeStatusPoisoned \/ StartNode \/ StartNodeRefused \/ SkipNudge
    PROVE  ShellInv'
<1>1. CASE NodeStatus
  <2>1. /\ At("node_status") /\ Advance /\ UNCHANGED <<sync, mining, flags, updater, critical>>
        /\ service' = service \/ service' = [service EXCEPT !.backend = "none"]
        /\ node' = node \/ node' = [node EXCEPT !.started = FALSE]
    BY <1>1 DEF NodeStatus, Retires
  <2>2. /\ Shapes' /\ node'.pc = node.pc
        /\ service'.phase = service.phase /\ service'.wallet = service.wallet
    BY <2>1 DEF ShellInv, Shapes
  <2> QED BY <2>1, <2>2, AdvancePreserves
<1>2. CASE NodeStatusPoisoned
  <2>1. PICK step \in {"node_status", "start_node"} : At(step)
    BY <1>2 DEF NodeStatusPoisoned
  <2> QED BY <1>2, <2>1, PlainFailure DEF NodeStatusPoisoned
<1>3. CASE StartNode
  <2>1. PICK step \in {"nudge_node", "start_node"} : At(step)
    BY <1>3 DEF StartNode
  <2>2. /\ Advance /\ UNCHANGED <<sync, mining, flags, updater, critical>>
        /\ CanBegin("NodeLifecycle")
        /\ service' = IF Stale THEN [service EXCEPT !.backend = "none"] ELSE service
        /\ node' = IF node.starting \/ (node.started /\ ~Stale) THEN node
                   ELSE [started |-> FALSE, starting |-> TRUE, cancelled |-> FALSE,
                         worker |-> TRUE, pc |-> "building"]
    BY <1>3 DEF StartNode
  <2>3. Shapes' /\ service'.phase = service.phase /\ service'.wallet = service.wallet
    BY <2>2 DEF ShellInv, Shapes
  <2>4. main.lease # "Shutdown"
    BY <2>2 DEF ShellInv, Held, LeasesOwned, CanBegin, CanBeginIn, Exclusive, NoLease
  <2>5. main.cmd # "shutdown"
    BY <2>4 DEF ShellInv, Down
  <2> QED BY <2>1, <2>2, <2>3, <2>5, AdvancePreserves
<1>4. CASE StartNodeRefused
  BY <1>4, PlainFailure DEF StartNodeRefused
<1>5. CASE SkipNudge
  <2>1. /\ At("nudge_node") /\ Advance
        /\ UNCHANGED <<service, sync, mining, node, flags, updater, critical>>
    BY <1>5 DEF SkipNudge
  <2>2. Shapes'
    BY <2>1 DEF ShellInv, Shapes
  <2> QED BY <2>1, <2>2, AdvancePreserves
<1> QED BY <1>1, <1>2, <1>3, <1>4, <1>5

\* synchronization_start_live: the lease is taken for a worker that starts.
LEMMA StartLivePreserves == ASSUME ShellInv, StartLive PROVE ShellInv'
<1>1. PICK step \in {"start_live", "start_if_unlocked"} : At(step)
  BY DEF StartLive, Usable
<1>2. main # Idle /\ main.lease = NoLease
  BY SMT, <1>1, Heads DEF ShellInv, Fit, Neutral
<1>3. /\ main' = Idle
      /\ leases' = leases \union (IF sync'.lease /\ ~sync.lease
                                  THEN {"Synchronization"} ELSE {})
      /\ flags' = [flags EXCEPT !.recovery = @ \/ (service.poisoned /\ MutexFree)]
      /\ UNCHANGED <<service, mining, node, updater, critical>>
  BY DEF StartLive
<1>4. main.cmd # "shutdown" /\ ~flags.shutdown
  BY <1>2 DEF ShellInv, Down, NoLease
<1>5. /\ flags' = [paused |-> flags.paused, shutdown |-> flags.shutdown,
                   recovery |-> flags'.recovery]
      /\ flags'.shutdown = flags.shutdown
  BY <1>3 DEF ShellInv, Shapes
<1>6. /\ Reaped.lease = sync.lease /\ Reaped.pc \in {sync.pc, "none"}
      /\ Reaped = [state |-> Reaped.state, stop |-> Reaped.stop, worker |-> Reaped.worker,
               pc |-> Reaped.pc, lease |-> Reaped.lease, latched |-> Reaped.latched,
               latch |-> Reaped.latch]
  BY DEF Reaped, ShellInv, Shapes
<1>7. \/ sync' = sync
      \/ sync' = Reaped
      \/ sync' = [Reaped EXCEPT !.latched = FALSE, !.latch = NoWallet]
      \/ /\ Spawns
         /\ sync' = [Reaped EXCEPT !.state = "RUNNING", !.stop = FALSE,
                          !.worker = TRUE, !.pc = "top", !.lease = TRUE,
                          !.latched = FALSE, !.latch = NoWallet]
  BY SMT DEF StartLive
<1>8. /\ sync' = [state |-> sync'.state, stop |-> sync'.stop, worker |-> sync'.worker,
               pc |-> sync'.pc, lease |-> sync'.lease, latched |-> sync'.latched,
               latch |-> sync'.latch]
      /\ \/ sync'.lease = sync.lease /\ sync'.pc \in {sync.pc, "none"}
         \/ Spawns /\ sync'.lease = TRUE /\ sync'.pc = "top"
  <2> HIDE DEF Reaped
  <2> QED BY <1>6, <1>7 DEF ShellInv, Shapes
<1>9. Shapes'
  BY <1>3, <1>5, <1>8 DEF ShellInv, Shapes
<1>10. Plan'
  <2>1. <<>> \in Seq(Fit(NoLease))
    BY NoElements
  <2> QED BY <1>3, <2>1 DEF Plan, Planned, Idle
<1>11. Held'
  <2>1. CASE sync'.lease = sync.lease /\ sync'.pc \in {sync.pc, "none"}
    BY <1>2, <1>3, <2>1 DEF ShellInv, Held, LeasesOwned, Idle, NoLease
  <2>2. CASE Spawns /\ sync'.lease = TRUE /\ sync'.pc = "top"
    <3>1. CanBegin("Synchronization")
      BY <2>2 DEF Spawns
    <3>2. updater = "idle" /\ ~sync.lease
      BY <3>1 DEF ShellInv, Held, LeasesOwned, CanBegin, CanBeginIn, Exclusive
    <3>3. leases' = leases \union {"Synchronization"}
      BY <1>3, <2>2, <3>2
    <3> QED BY <1>2, <1>3, <2>2, <3>2, <3>3 DEF ShellInv, Held, LeasesOwned, Idle, NoLease
  <2> QED BY <1>8, <2>1, <2>2
<1>12. Safe'
  BY <1>3 DEF ShellInv, Safe, Unlocked
<1>13. Down'
  BY <1>3, <1>4, <1>5 DEF Down, Idle
<1> QED BY <1>9, <1>10, <1>11, <1>12, <1>13 DEF ShellInv

\* mining_start: the worker keeps the lease that the command took for it.
LEMMA MiningStartPreserves == ASSUME ShellInv, MiningStart PROVE ShellInv'
<1>0. /\ At("mining_start") /\ main' = Idle /\ UNCHANGED <<sync, updater, critical>>
      /\ service' = service \/ service' = [service EXCEPT !.backend = "none"]
      /\ node' = node \/ node' = [node EXCEPT !.started = FALSE]
  BY DEF MiningStart, Retires
<1>1. /\ At("mining_start") /\ main' = Idle /\ UNCHANGED <<sync, updater, critical>>
      /\ service' = [phase |-> service'.phase, wallet |-> service'.wallet,
                     backend |-> service'.backend, poisoned |-> service'.poisoned]
      /\ service'.phase = service.phase /\ service'.wallet = service.wallet
      /\ node' = [started |-> node'.started, starting |-> node'.starting,
                  cancelled |-> node'.cancelled, worker |-> node'.worker, pc |-> node'.pc]
  BY <1>0 DEF ShellInv, Shapes
<1>2. main # Idle /\ main.lease = NoLease
  BY SMT, <1>1, Heads DEF ShellInv, Fit, Neutral
<1>3. main.cmd # "shutdown" /\ ~flags.shutdown
  BY <1>2 DEF ShellInv, Down, NoLease
<1>4. \/ /\ CanBegin("Mining") /\ leases' = leases \union {"Mining"} /\ UNCHANGED flags
         /\ mining' = [state |-> "RUNNING", stop |-> FALSE, worker |-> TRUE,
                       pc |-> "round"]
      \/ /\ UNCHANGED <<leases, mining>>
         /\ flags' = [flags EXCEPT !.recovery = @ \/ service.poisoned]
  BY DEF MiningStart
<1>5. /\ flags' = [paused |-> flags.paused, shutdown |-> flags.shutdown,
                   recovery |-> flags'.recovery]
      /\ flags'.shutdown = flags.shutdown
  BY <1>4 DEF ShellInv, Shapes
<1>6. Shapes'
  BY <1>1, <1>4, <1>5 DEF ShellInv, Shapes
<1>7. Plan'
  <2>1. <<>> \in Seq(Fit(NoLease))
    BY NoElements
  <2> QED BY <1>1, <2>1 DEF Plan, Planned, Idle
<1>8. Held'
  BY SMT, <1>1, <1>2, <1>4
     DEF ShellInv, Held, LeasesOwned, Idle, NoLease, CanBegin, CanBeginIn, Exclusive
<1>9. Safe'
  BY <1>1 DEF ShellInv, Safe, Unlocked
<1>10. Down'
  BY <1>1, <1>3, <1>5 DEF Down, Idle
<1> QED BY <1>6, <1>7, <1>8, <1>9, <1>10 DEF ShellInv

\* The synchronization worker.
LEMMA SyncPreserves == ASSUME ShellInv, SyncStep PROVE ShellInv'
<1>1. main' = main /\ flags' = flags /\ UNCHANGED <<mining, node, updater>>
  BY DEF SyncStep, SyncStopped, SyncBegin, SyncScanned, SyncDeferred, SyncTerminal,
         SyncPanic, SyncLatch
<1>2. CASE SyncStopped
  <2>1. sync' = [sync EXCEPT !.pc = "done", !.lease = FALSE,
                            !.state = IF @ = "ERROR" THEN @ ELSE "IDLE"]
    BY <1>2 DEF SyncStopped
  <2>2. Shapes' /\ sync'.pc = "done" /\ sync'.lease = FALSE
    BY <1>1, <1>2, <2>1 DEF ShellInv, Shapes, SyncStopped
  <2>3. Held' /\ sync.pc # "none"
    BY SMT, <1>1, <1>2, <2>2 DEF ShellInv, Held, LeasesOwned, NoLease, SyncStopped
  <2>4. Safe' /\ service' = service
    BY <1>1, <1>2 DEF ShellInv, Safe, Unlocked, SyncStopped
  <2> QED BY <1>1, <2>2, <2>3, <2>4, BesidePreserves
<1>3. CASE SyncBegin
  <2>1. sync' = [sync EXCEPT !.pc = "pass", !.lease = TRUE]
    BY <1>3 DEF SyncBegin
  <2>2. Shapes' /\ sync'.pc = "pass" /\ sync'.lease = TRUE
    BY <1>1, <1>3, <2>1 DEF ShellInv, Shapes, SyncBegin
  <2>3. Held' /\ sync.pc # "none"
    BY SMT, <1>1, <1>3, <2>2 DEF ShellInv, Held, LeasesOwned, NoLease, SyncBegin, CanBegin,
                            CanBeginIn, Exclusive
  <2>4. Safe' /\ service' = service
    BY <1>1, <1>3 DEF ShellInv, Safe, Unlocked, SyncBegin
  <2> QED BY <1>1, <2>2, <2>3, <2>4, BesidePreserves
<1>4. CASE SyncScanned \/ SyncDeferred \/ SyncTerminal \/ SyncPanic
  <2>1. /\ sync.pc = "pass"
        /\ \E pc \in {"top", "stopping", "latching"} : EndPass(pc)
        /\ \/ service' = service
           \/ service' = [service EXCEPT !.backend = Scanned]
           \/ service' = [service EXCEPT !.poisoned = TRUE, !.backend = "none"]
    BY <1>4 DEF SyncScanned, SyncDeferred, SyncTerminal, SyncPanic
  <2>2. PICK pc \in {"top", "stopping", "latching"} :
           /\ sync' = [sync EXCEPT !.pc = pc, !.lease = FALSE]
           /\ leases' = leases \ {"Synchronization"}
    BY <2>1 DEF EndPass
  <2>3. sync'.pc = pc /\ sync'.lease = FALSE
    BY <2>2 DEF ShellInv, Shapes
  <2>4. Shapes'
    BY <1>1, <2>1, <2>2 DEF ShellInv, Shapes
  <2>5. sync.lease /\ updater = "idle"
    BY <2>1 DEF ShellInv, Held
  <2>6. Held'
    BY <1>1, <2>2, <2>3, <2>5 DEF ShellInv, Held, LeasesOwned, NoLease
  <2>7. Safe'
    BY <1>1, <2>5 DEF Safe
  <2> QED BY <1>1, <2>1, <2>3, <2>4, <2>6, <2>7, BesidePreserves
<1>5. CASE SyncLatch
  <2>1. /\ sync.pc \in {"stopping", "latching"} /\ UNCHANGED <<service, leases, critical>>
        /\ sync' = IF sync.pc = "stopping"
                   THEN [sync EXCEPT !.pc = "done", !.state = "ERROR"]
                   ELSE [sync EXCEPT !.pc = "done", !.state = "ERROR", !.latched = TRUE,
                            !.latch = IF Unlocked /\ ~service.poisoned
                                      THEN service.wallet ELSE NoWallet]
    BY <1>5 DEF SyncLatch
  <2>2. Shapes' /\ sync'.pc = "done" /\ sync'.lease = sync.lease
    BY <1>1, <2>1 DEF ShellInv, Shapes
  <2>3. Held'
    BY <1>1, <2>1, <2>2 DEF ShellInv, Held, LeasesOwned
  <2>4. Safe'
    BY <1>1, <2>1 DEF ShellInv, Safe, Unlocked
  <2> QED BY <1>1, <2>1, <2>2, <2>3, <2>4, BesidePreserves
<1> QED BY <1>2, <1>3, <1>4, <1>5 DEF SyncStep

\* The mining worker.
LEMMA MiningPreserves == ASSUME ShellInv, MiningRound \/ MiningEnd PROVE ShellInv'
<1>1. main' = main /\ flags' = flags /\ UNCHANGED <<service, sync, node, updater, critical>>
  BY DEF MiningRound, MiningEnd
<1>2. mining.pc \in {"round", "waiting"}
  BY DEF MiningRound, MiningEnd
<1>3. Safe'
  BY <1>1 DEF ShellInv, Safe, Unlocked
<1>4. CASE MiningRound
  <2>1. Shapes' /\ mining'.pc \in {"round", "waiting"} /\ leases' = leases
    BY <1>1, <1>4 DEF ShellInv, Shapes, MiningRound
  <2>2. Held'
    BY <1>1, <1>2, <2>1 DEF ShellInv, Held, LeasesOwned
  <2> QED BY <1>1, <1>2, <1>3, <2>1, <2>2, BesidePreserves
<1>5. CASE MiningEnd
  <2>1. Shapes' /\ mining'.pc = "done" /\ leases' = leases \ {"Mining"}
    BY <1>1, <1>5 DEF ShellInv, Shapes, MiningEnd
  <2>2. Held'
    BY <1>1, <1>2, <2>1 DEF ShellInv, Held, LeasesOwned, NoLease
  <2> QED BY <1>1, <1>2, <1>3, <2>1, <2>2, BesidePreserves
<1> QED BY <1>4, <1>5

\* The node's start worker, and the node itself.
LEMMA NodePreserves == ASSUME ShellInv, NodeStep \/ NodeDies PROVE ShellInv'
<1>1. main' = main /\ flags' = flags /\ UNCHANGED <<leases, sync, mining, updater, critical>>
  BY DEF NodeStep, NodeBuild, NodeAttach, NodeAttached, NodeRejected, NodeDies
<1>2. /\ \/ node.pc # "none"
         \/ node' = node /\ service.backend = "embedded"
      /\ \/ service' = service
         \/ \E b \in {"none", "embedded", "dead"} : service' = [service EXCEPT !.backend = b]
  BY DEF NodeStep, NodeBuild, NodeAttach, NodeAttached, NodeRejected, NodeDies
<1>3. node' = [started |-> node'.started, starting |-> node'.starting,
               cancelled |-> node'.cancelled, worker |-> node'.worker, pc |-> node'.pc]
  <2>1. node = [started |-> node.started, starting |-> node.starting,
                cancelled |-> node.cancelled, worker |-> node.worker, pc |-> node.pc]
    BY DEF ShellInv, Shapes
  <2>2. CASE NodeBuild
    BY <2>1, <2>2 DEF NodeBuild
  <2>3. CASE NodeAttach
    BY <2>1, <2>3 DEF NodeAttach
  <2>4. CASE NodeAttached
    BY <2>1, <2>4 DEF NodeAttached
  <2>5. CASE NodeRejected
    BY <2>1, <2>5 DEF NodeRejected
  <2>6. CASE NodeDies
    BY <2>1, <2>6 DEF NodeDies
  <2> QED BY <2>2, <2>3, <2>4, <2>5, <2>6 DEF NodeStep
<1>4. /\ service' = [phase |-> service'.phase, wallet |-> service'.wallet,
                     backend |-> service'.backend, poisoned |-> service'.poisoned]
      /\ service'.phase = service.phase /\ service'.wallet = service.wallet
  BY <1>2 DEF ShellInv, Shapes
<1>5. Shapes'
  BY <1>1, <1>3, <1>4 DEF ShellInv, Shapes
<1>6. Held'
  BY <1>1 DEF ShellInv, Held, LeasesOwned
<1>7. Safe'
  BY <1>1, <1>4 DEF ShellInv, Safe, Unlocked
<1>8. service = NoService => service.backend # "embedded"
  BY SMT DEF NoService
<1>9. node.pc = "none" => node'.pc = "none"
  BY <1>2
<1>10. service = NoService /\ node.pc = "none" /\ sync.pc = "none" => service' = NoService
  BY <1>2, <1>8
<1> QED BY <1>1, <1>5, <1>6, <1>7, <1>9, <1>10, BesidePreserves

\* The update task.
LEMMA UpdatePreserves ==
    ASSUME ShellInv, UpdateLease \/ UpdateCheck \/ UpdatePrepare
    PROVE  ShellInv'
<1>1. main' = main /\ UNCHANGED <<sync, mining, critical>>
  BY DEF UpdateLease, UpdateCheck, UpdatePrepare
<1>2. CASE UpdateLease
  <2>1. /\ updater = "idle" /\ CanBegin("Updater")
        /\ updater' = "leased" /\ leases' = leases \union {"Updater"}
        /\ UNCHANGED <<service, node, flags>>
    BY <1>2 DEF UpdateLease
  <2>2. Shapes' /\ Safe'
    BY <1>1, <2>1 DEF ShellInv, Shapes, Safe
  <2>3. leases = {}
    BY <2>1 DEF CanBegin, CanBeginIn, Exclusive
  <2>4. Held'
    BY <1>1, <2>1, <2>3 DEF ShellInv, Held, LeasesOwned, NoLease
  <2> QED BY <1>1, <2>1, <2>2, <2>4, BesidePreserves
<1>3. CASE UpdateCheck
  <2>1. /\ updater = "leased" /\ UNCHANGED <<service, node>>
        /\ \/ SafePoint /\ updater' = "checked" /\ UNCHANGED <<leases, flags>>
           \/ /\ updater' = "idle" /\ leases' = leases \ {"Updater"}
              /\ flags' = [flags EXCEPT !.recovery = @ \/ service.poisoned]
    BY <1>3 DEF UpdateCheck
  <2>2. Shapes' /\ flags'.shutdown = flags.shutdown
    BY <1>1, <2>1 DEF ShellInv, Shapes
  <2>3. Safe'
    BY <1>1, <2>1 DEF Safe, SafePoint, Unlocked
  <2>4. Held'
    BY <1>1, <2>1 DEF ShellInv, Held, LeasesOwned, NoLease
  <2> QED BY <1>1, <2>1, <2>2, <2>3, <2>4, BesidePreserves
<1>4. CASE UpdatePrepare
  <2>1. /\ updater = "checked" /\ flags' = flags
        /\ \/ /\ service' = NoService /\ node' = [node EXCEPT !.started = FALSE]
              /\ updater' = "installing" /\ UNCHANGED leases
           \/ /\ service' = service \/ service' = CloseFailed
              /\ updater' = "idle" /\ leases' = leases \ {"Updater"}
              /\ UNCHANGED node
    BY <1>4 DEF UpdatePrepare
  <2>2. Shapes' /\ node'.pc = node.pc
    BY <1>1, <2>1 DEF ShellInv, Shapes, NoService, CloseFailed
  <2>3. Safe'
    BY SMT, <2>1 DEF Safe, NoService
  <2>4. Held'
    BY <1>1, <2>1 DEF ShellInv, Held, LeasesOwned, NoLease
  <2>5. service # NoService
    BY SMT, <2>1 DEF ShellInv, Safe, Unlocked, NoService
  <2> QED BY <1>1, <2>1, <2>2, <2>3, <2>4, <2>5, BesidePreserves
<1> QED BY <1>2, <1>3, <1>4

-----------------------------------------------------------------------------
\* Every step preserves the invariant.
LEMMA ShellStep == ShellInv /\ [Next]_vars => ShellInv'
<1> SUFFICES ASSUME ShellInv, [Next]_vars PROVE ShellInv'
  OBVIOUS
<1>1. CASE \E c \in Commands : Begin(c)
  BY <1>1, BeginPreserves
<1>2. CASE MainStep
  BY <1>2, ReleasePreserves, WorkersPreserve, WalletPreserves, OthersPreserve,
     NodeCommandsPreserve, StartLivePreserves, MiningStartPreserves DEF MainStep
<1>3. CASE SyncStep
  BY <1>3, SyncPreserves
<1>4. CASE MiningRound \/ MiningEnd
  BY <1>4, MiningPreserves
<1>5. CASE NodeStep \/ NodeDies
  BY <1>5, NodePreserves
<1>6. CASE UpdateLease \/ UpdateCheck \/ UpdatePrepare
  BY <1>6, UpdatePreserves
<1>7. CASE Relaunch
  BY <1>7, RelaunchPreserves
<1>8. CASE UNCHANGED vars
  <2>1. /\ service' = service /\ leases' = leases /\ sync' = sync /\ mining' = mining
        /\ node' = node /\ flags' = flags /\ main' = main /\ updater' = updater
        /\ critical' = critical
    BY <1>8 DEF vars
  <2>2. Shapes' /\ Plan'
    BY <2>1 DEF ShellInv, Shapes, Plan
  <2>3. Held' /\ Safe' /\ Down'
    BY SMT, <2>1 DEF ShellInv, Held, LeasesOwned, Safe, Unlocked, Down
  <2> QED BY <2>2, <2>3 DEF ShellInv
<1> QED BY <1>1, <1>2, <1>3, <1>4, <1>5, <1>6, <1>7, <1>8 DEF Next

\* The invariant is strong enough.
LEMMA ShellInvImplies == ShellInv => LeasesOwned /\ SafePointHolds /\ ShutdownComplete
<1> SUFFICES ASSUME ShellInv PROVE LeasesOwned /\ SafePointHolds /\ ShutdownComplete
  OBVIOUS
<1>1. LeasesOwned
  BY DEF ShellInv, Held
<1>2. SafePointHolds
  BY DEF ShellInv, Held, LeasesOwned, Safe, SafePointHolds, NoLease
<1>3. ShutdownComplete
  BY SMT DEF ShellInv, Down, ShutdownComplete, Idle
<1> QED BY <1>1, <1>2, <1>3

\* The activity leases are exactly those of the command, the workers and the
\* update task that run (ActivityCoordinator, ActivityLease::drop), for any
\* set of wallets and any choice of commands and sources.
THEOREM LeasesNeverLeak == Spec => []LeasesOwned
<1>1. Spec => []ShellInv
  BY ShellInit, ShellStep, PTL DEF Spec
<1> QED BY <1>1, ShellInvImplies, PTL

\* The safe point that prepare_for_update found lasts until the process is
\* replaced.
THEOREM SafePointLasts == Spec => []SafePointHolds
<1>1. Spec => []ShellInv
  BY ShellInit, ShellStep, PTL DEF Spec
<1> QED BY <1>1, ShellInvImplies, PTL

\* application_shutdown, once it has succeeded, has left no wallet open and no
\* worker alive.
THEOREM ShutdownLeavesNothing == Spec => []ShutdownComplete
<1>1. Spec => []ShellInv
  BY ShellInit, ShellStep, PTL DEF Spec
<1> QED BY <1>1, ShellInvImplies, PTL
-----------------------------------------------------------------------------
(* The synchronization worker and its latch. *)

\* In what a command has left to do, a signal to the synchronization worker is
\* followed by the join.
Paired(todo) ==
    \A i \in 1 .. Len(todo) :
        todo[i] = "signal_sync" => i + 1 \in 1 .. Len(todo) /\ todo[i + 1] = "join_sync"

AnyStep ==
    Neutral \union {"lock", "close", "recover", "transact", "unlock", "release", "start_live",
                    "start_if_unlocked", "mining_start"}

PairedPlan == main.todo \in Seq(AnyStep) /\ Paired(main.todo)

\* Nothing to do, one step, two or three steps without the signal.
LEMMA PairedShort ==
    /\ <<>> \in Seq(AnyStep) /\ Paired(<<>>)
    /\ \A a \in AnyStep \ {"signal_sync"} :
          /\ <<a>> \in Seq(AnyStep) /\ Paired(<<a>>)
          /\ \A b \in AnyStep \ {"signal_sync"} :
                /\ <<a, b>> \in Seq(AnyStep) /\ Paired(<<a, b>>)
                /\ \A c \in AnyStep \ {"signal_sync"} :
                      <<a, b, c>> \in Seq(AnyStep) /\ Paired(<<a, b, c>>)
<1>1. <<>> \in Seq(AnyStep) /\ Paired(<<>>)
  BY SMT DEF Paired
<1>2. ASSUME NEW a \in AnyStep \ {"signal_sync"} PROVE <<a>> \in Seq(AnyStep) /\ Paired(<<a>>)
  BY SMT DEF Paired
<1>3. ASSUME NEW a \in AnyStep \ {"signal_sync"}, NEW b \in AnyStep \ {"signal_sync"}
      PROVE  <<a, b>> \in Seq(AnyStep) /\ Paired(<<a, b>>)
  BY SMT DEF Paired
<1>4. ASSUME NEW a \in AnyStep \ {"signal_sync"}, NEW b \in AnyStep \ {"signal_sync"},
             NEW c \in AnyStep \ {"signal_sync"}
      PROVE  <<a, b, c>> \in Seq(AnyStep) /\ Paired(<<a, b, c>>)
  BY SMT DEF Paired
<1> QED BY <1>1, <1>2, <1>3, <1>4

\* Two plans one after the other, and what is left of one after its first step.
LEMMA PairedJoin ==
    ASSUME NEW s \in Seq(AnyStep), NEW t \in Seq(AnyStep), Paired(s), Paired(t)
    PROVE  s \o t \in Seq(AnyStep) /\ Paired(s \o t)
<1> DEFINE u == s \o t
<1>1. /\ u \in Seq(AnyStep) /\ Len(u) = Len(s) + Len(t)
      /\ \A i \in 1 .. Len(s) + Len(t) : u[i] = IF i <= Len(s) THEN s[i] ELSE t[i - Len(s)]
  BY Joined
<1>2. Len(s) \in Nat /\ Len(t) \in Nat
  BY SeqIsFunction
<1> HIDE DEF u
<1>3. ASSUME NEW i \in 1 .. Len(u), u[i] = "signal_sync"
      PROVE  i + 1 \in 1 .. Len(u) /\ u[i + 1] = "join_sync"
  <2>1. CASE i <= Len(s)
    <3>1. i \in 1 .. Len(s) /\ s[i] = "signal_sync"
      BY SMT, <1>1, <1>2, <1>3, <2>1
    <3>2. i + 1 \in 1 .. Len(s) /\ s[i + 1] = "join_sync"
      BY <3>1 DEF Paired
    <3> QED BY SMT, <1>1, <1>2, <3>2
  <2>2. CASE ~(i <= Len(s))
    <3> DEFINE j == i - Len(s)
    <3>1. j \in 1 .. Len(t) /\ t[j] = "signal_sync"
      BY SMT, <1>1, <1>2, <1>3, <2>2
    <3>2. j + 1 \in 1 .. Len(t) /\ t[j + 1] = "join_sync"
      BY <3>1 DEF Paired
    <3>3. i + 1 \in 1 .. Len(s) + Len(t) /\ ~(i + 1 <= Len(s)) /\ (i + 1) - Len(s) = j + 1
      BY SMT, <1>1, <1>2, <1>3, <2>2, <3>2
    <3>4. u[i + 1] = t[(i + 1) - Len(s)]
      BY <1>1, <3>3
    <3> QED BY <1>1, <3>2, <3>3, <3>4
  <2> QED BY <2>1, <2>2
<1> QED BY <1>1, <1>3 DEF Paired, u

\* What a plan has left after its first step; after the signal it is the join.
LEMMA PairedTail ==
    ASSUME NEW s \in Seq(AnyStep), s # <<>>, Paired(s)
    PROVE  /\ Tail(s) \in Seq(AnyStep) /\ Paired(Tail(s))
           /\ Head(s) = "signal_sync" => Tail(s) # <<>> /\ Head(Tail(s)) = "join_sync"
<1> DEFINE t == Tail(s)
<1>1. /\ t \in Seq(AnyStep) /\ Len(t) = Len(s) - 1
      /\ \A i \in 1 .. Len(t) : t[i] = s[i + 1]
  BY HeadAndTail
<1>2. Len(s) \in Nat \ {0} /\ Head(s) = s[1]
  BY SMT, NoElements
<1> HIDE DEF t
<1>3. Len(t) # 0 => t # <<>> /\ Head(t) = t[1]
  BY SMT, <1>1
<1>4. ASSUME NEW i \in 1 .. Len(t), t[i] = "signal_sync"
      PROVE  i + 1 \in 1 .. Len(t) /\ t[i + 1] = "join_sync"
  <2>1. i + 1 \in 1 .. Len(s) /\ s[i + 1] = "signal_sync"
    BY SMT, <1>1, <1>2, <1>4
  <2>2. (i + 1) + 1 \in 1 .. Len(s) /\ s[(i + 1) + 1] = "join_sync"
    BY <2>1 DEF Paired
  <2> QED BY SMT, <1>1, <1>2, <2>2
<1>5. ASSUME s[1] = "signal_sync" PROVE Len(t) # 0 /\ t[1] = "join_sync"
  <2>1. 1 \in 1 .. Len(s)
    BY SMT, <1>2
  <2>2. 1 + 1 \in 1 .. Len(s) /\ s[1 + 1] = "join_sync"
    BY <1>5, <2>1 DEF Paired
  <2> QED BY SMT, <1>1, <1>2, <2>2
<1> QED BY <1>1, <1>2, <1>3, <1>4, <1>5 DEF Paired, t

\* Every command signals the worker only to join it.
LEMMA PairedSteps ==
    ASSUME NEW c \in Commands
    PROVE  StepsOf(c) \in Seq(AnyStep) /\ Paired(StepsOf(c))
<1>1. StopSync \in Seq(AnyStep) /\ Paired(StopSync)
  <2>1. "signal_sync" \in AnyStep /\ "join_sync" \in AnyStep
    BY DEF AnyStep, Neutral
  <2>2. StopSync \in Seq(AnyStep)
    BY <2>1, Pairs DEF StopSync
  <2>3. Len(StopSync) = 2 /\ StopSync[1] = "signal_sync" /\ StopSync[2] = "join_sync"
    BY SMT DEF StopSync
  <2>4. \A i \in 1 .. 2 : i = 1 \/ i = 2
    BY SMT
  <2>5. 1 + 1 = 2 /\ 2 \in 1 .. 2
    BY SMT
  <2> QED BY <2>2, <2>3, <2>4, <2>5 DEF Paired
<1>2. StopMining \in Seq(AnyStep) /\ Paired(StopMining)
  <2>1. {"signal_mining", "join_mining"} \subseteq AnyStep \ {"signal_sync"}
    BY DEF AnyStep, Neutral
  <2> QED BY <2>1, PairedShort DEF StopMining
<1>3. StopMining \o StopSync \in Seq(AnyStep) /\ Paired(StopMining \o StopSync)
  BY <1>1, <1>2, PairedJoin
<1>4. /\ {"unlock", "release", "start_live", "start_node", "open", "nudge_node", "restore",
          "clear_paused", "clear_latch", "stop_core", "start_if_unlocked", "cancel_node",
          "join_node", "set_paused", "select", "close"} \subseteq AnyStep \ {"signal_sync"}
  BY DEF AnyStep, Neutral
<1>5. CASE c \in {"unlock", "open", "restore", "resume", "retry"}
  BY <1>4, <1>5, PairedShort DEF StepsOf
<1>6. CASE c \in {"lock", "close", "recover"}
  <2>1. StepsOf(c) = StopMining \o StopSync \o <<c>>
    BY <1>6 DEF StepsOf
  <2>2. c \in AnyStep \ {"signal_sync"}
    BY <1>6 DEF AnyStep, Neutral
  <2> QED BY <1>3, <2>1, <2>2, PairedShort, PairedJoin
<1>7. CASE c = "source"
  <2>1. StepsOf(c) = <<"select">> \o StopSync \o <<"stop_core", "start_if_unlocked">>
    BY <1>7 DEF StepsOf
  <2>2. <<"select">> \o StopSync \in Seq(AnyStep) /\ Paired(<<"select">> \o StopSync)
    BY <1>1, <1>4, PairedShort, PairedJoin
  <2>3. /\ <<"stop_core", "start_if_unlocked">> \in Seq(AnyStep)
        /\ Paired(<<"stop_core", "start_if_unlocked">>)
    BY <1>4, PairedShort
  <2> QED BY <2>1, <2>2, <2>3, PairedJoin
<1>8. CASE c \in {"node_stop", "shutdown"}
  <2> DEFINE last == IF c = "node_stop" THEN "stop_core" ELSE "close"
             first == <<"cancel_node", "join_node">>
  <2>1. StepsOf(c) = first \o StopMining \o StopSync \o <<last>>
    BY <1>8 DEF StepsOf
  <2>2. last \in AnyStep \ {"signal_sync"}
    BY <1>4
  <2>3. first \in Seq(AnyStep) /\ Paired(first)
    BY <1>4, PairedShort
  <2> HIDE DEF first, last
  <2>4. first \o StopMining \in Seq(AnyStep) /\ Paired(first \o StopMining)
    BY <1>2, <2>3, PairedJoin
  <2>5. first \o StopMining \o StopSync \in Seq(AnyStep) /\ Paired(first \o StopMining \o StopSync)
    BY <1>1, <2>4, PairedJoin
  <2> QED BY <2>1, <2>2, <2>5, PairedShort, PairedJoin
<1>9. CASE c = "pause"
  <2>1. StepsOf(c) = <<"set_paused">> \o StopSync
    BY <1>9 DEF StepsOf
  <2>2. <<"set_paused">> \in Seq(AnyStep) /\ Paired(<<"set_paused">>)
    BY <1>4, PairedShort
  <2> QED BY <1>1, <2>1, <2>2, PairedJoin
<1>10. CASE c = "mining_stop"
  BY <1>2, <1>10 DEF StepsOf
<1>11. CASE c \in {"node_status", "rescan", "transact", "mining_start", "start_node"}
  <2>1. StepsOf(c) = <<c>>
    BY <1>11 DEF StepsOf
  <2>2. c \in AnyStep \ {"signal_sync"}
    BY <1>11 DEF AnyStep, Neutral
  <2> QED BY <2>1, <2>2, PairedShort
<1> QED BY <1>5, <1>6, <1>7, <1>8, <1>9, <1>10, <1>11, CommandsAssumption

\* The steps of the main thread that leave the synchronization worker alone.
OtherStep ==
    \/ Release \/ SignalMining \/ JoinMining \/ CancelNode \/ JoinNode \/ Poisoned \/ Unlock
    \/ Open("open") \/ Open("restore") \/ Lock \/ Close \/ StopCore \/ Recover \/ Transact
    \/ Rescan \/ Select \/ SetPaused("set_paused", TRUE) \/ SetPaused("clear_paused", FALSE)
    \/ MiningStart \/ NodeStatus \/ NodeStatusPoisoned \/ StartNode \/ StartNodeRefused
    \/ SkipNudge

\* They come before no join, and what is left of the command is a rest of it.
LEMMA OtherSteps ==
    ASSUME Plan, OtherStep
    PROVE  /\ sync' = sync /\ failed' = failed /\ ~At("join_sync") /\ main.todo # <<>>
           /\ main'.todo \in {<<>>, Tail(main.todo)}
<1>1. main' = [main EXCEPT !.todo = Tail(@)] => main'.todo = Tail(main.todo)
  BY DEF Plan
<1>2. main' = [main EXCEPT !.todo = Tail(@), !.lease = NoLease] => main'.todo = Tail(main.todo)
  BY DEF Plan
<1>3. Idle.todo = <<>>
  BY DEF Idle
<1>4. Advance => main'.todo \in {<<>>, Tail(main.todo)}
  BY <1>1, <1>3 DEF Advance
<1>5. \A f : Fail(f) => main'.todo = <<>>
  BY <1>3 DEF Fail
<1>6. CASE Release \/ SignalMining \/ JoinMining \/ CancelNode \/ JoinNode
  <2>1. /\ sync' = sync /\ failed' = failed
        /\ \E step \in {"release", "signal_mining", "join_mining", "cancel_node", "join_node"} :
              At(step)
    BY <1>6 DEF Release, SignalMining, JoinMining, CancelNode, JoinNode
  <2>2. main'.todo \in {<<>>, Tail(main.todo)}
    BY <1>2, <1>4, <1>6 DEF Release, SignalMining, JoinMining, CancelNode, JoinNode
  <2> QED BY <2>1, <2>2 DEF At
<1>7. CASE Poisoned
  <2>1. PICK step \in ServiceSteps : At(step)
    BY <1>7 DEF Poisoned
  <2>2. step # "join_sync"
    BY SMT DEF ServiceSteps
  <2> QED BY <1>5, <1>7, <2>1, <2>2 DEF Poisoned, At
<1>8. CASE Unlock \/ Open("open") \/ Open("restore") \/ Lock \/ Close \/ StopCore
  <2>1. /\ sync' = sync /\ failed' = failed
        /\ \E step \in {"unlock", "open", "restore", "lock", "close", "stop_core"} : At(step)
    BY <1>8 DEF Unlock, Open, Lock, Close, StopCore, Usable
  <2>2. main'.todo \in {<<>>, Tail(main.todo)}
    BY <1>4, <1>5, <1>8 DEF Unlock, Open, Lock, Close, StopCore
  <2> QED BY <2>1, <2>2 DEF At
<1>9. CASE Recover \/ Transact \/ Rescan \/ Select
  <2>1. /\ sync' = sync /\ failed' = failed
        /\ \E step \in {"recover", "transact", "rescan", "select"} : At(step)
    BY <1>9 DEF Recover, Transact, Rescan, Select, Usable
  <2>2. main'.todo \in {<<>>, Tail(main.todo)}
    BY <1>4, <1>5, <1>9 DEF Recover, Transact, Rescan, Select
  <2> QED BY <2>1, <2>2 DEF At
<1>10. CASE SetPaused("set_paused", TRUE) \/ SetPaused("clear_paused", FALSE) \/ MiningStart
  <2>1. /\ sync' = sync /\ failed' = failed
        /\ \E step \in {"set_paused", "clear_paused", "mining_start"} : At(step)
    BY <1>10 DEF SetPaused, MiningStart
  <2>2. main'.todo \in {<<>>, Tail(main.todo)}
    BY <1>3, <1>4, <1>10 DEF SetPaused, MiningStart
  <2> QED BY <2>1, <2>2 DEF At
<1>11. CASE NodeStatus \/ NodeStatusPoisoned \/ StartNode \/ StartNodeRefused \/ SkipNudge
  <2>1. /\ sync' = sync /\ failed' = failed
        /\ \E step \in {"node_status", "start_node", "nudge_node"} : At(step)
    BY <1>11 DEF NodeStatus, NodeStatusPoisoned, StartNode, StartNodeRefused, SkipNudge
  <2>2. main'.todo \in {<<>>, Tail(main.todo)}
    BY <1>4, <1>5, <1>11 DEF NodeStatus, NodeStatusPoisoned, StartNode, StartNodeRefused, SkipNudge
  <2> QED BY <2>1, <2>2 DEF At
<1> QED BY <1>6, <1>7, <1>8, <1>9, <1>10, <1>11 DEF OtherStep

\* The steps that are not the main thread's leave its plan, and the worker's
\* handle, alone.
BackgroundStep ==
    \/ MiningRound \/ MiningEnd \/ NodeStep \/ NodeDies
    \/ UpdateLease \/ UpdateCheck \/ UpdatePrepare

\* What they leave alone.
LEMMA BackgroundSteps == BackgroundStep => UNCHANGED <<main, sync, failed>>
BY DEF BackgroundStep, MiningRound, MiningEnd, NodeStep, NodeBuild, NodeAttach, NodeAttached,
       NodeRejected, NodeDies, UpdateLease, UpdateCheck, UpdatePrepare

\* The step that starts the worker, and what it makes of it.
LEMMA StartSteps ==
    ASSUME ShellInv, StartLive
    PROVE  /\ ~At("join_sync") /\ main' = Idle /\ failed' = failed
           /\ \/ Spawns /\ sync'.pc = "top" /\ sync'.worker /\ ~sync'.latched /\ sync'.latch = NoWallet
              \/ /\ sync'.pc \in {sync.pc, "none"}
                 /\ sync'.pc = sync.pc => sync'.worker = sync.worker
                 /\ sync'.pc = "none" => sync.pc \in {"none", "done"}
                 /\ \/ sync'.latched = sync.latched /\ sync'.latch = sync.latch
                    \/ ~LatchHolds /\ sync'.latch = NoWallet
<1>1. \E step \in {"start_live", "start_if_unlocked"} : At(step)
  BY DEF StartLive, Usable
<1>2. ~At("join_sync") /\ main' = Idle /\ failed' = failed
  BY <1>1 DEF StartLive, At
<1>3. sync = [state |-> sync.state, stop |-> sync.stop, worker |-> sync.worker,
               pc |-> sync.pc, lease |-> sync.lease, latched |-> sync.latched,
               latch |-> sync.latch]
  BY DEF ShellInv, Shapes
<1>4. /\ Reaped = [state |-> Reaped.state, stop |-> Reaped.stop, worker |-> Reaped.worker,
               pc |-> Reaped.pc, lease |-> Reaped.lease, latched |-> Reaped.latched,
               latch |-> Reaped.latch]
      /\ Reaped.latched = sync.latched /\ Reaped.latch = sync.latch
      /\ sync.pc = "done" => Reaped.pc = "none"
      /\ sync.pc # "done" => Reaped = sync
  BY <1>3 DEF Reaped
<1>5. \/ sync' = sync
      \/ /\ Spawns
         /\ sync' = [Reaped EXCEPT !.state = "RUNNING", !.stop = FALSE,
                          !.worker = TRUE, !.pc = "top", !.lease = TRUE,
                          !.latched = FALSE, !.latch = NoWallet]
      \/ sync' = Reaped
      \/ ~LatchHolds /\ sync' = [Reaped EXCEPT !.latched = FALSE, !.latch = NoWallet]
  BY SMT DEF StartLive
<1>6. CASE sync' = sync
  BY <1>2, <1>6
<1>7. CASE /\ Spawns
           /\ sync' = [Reaped EXCEPT !.state = "RUNNING", !.stop = FALSE,
                          !.worker = TRUE, !.pc = "top", !.lease = TRUE,
                          !.latched = FALSE, !.latch = NoWallet]
  BY <1>2, <1>4, <1>7
<1>8. CASE sync' = Reaped
  BY <1>2, <1>4, <1>8
<1>9. CASE ~LatchHolds /\ sync' = [Reaped EXCEPT !.latched = FALSE, !.latch = NoWallet]
  <2>1. sync'.pc = Reaped.pc /\ sync'.worker = Reaped.worker /\ sync'.latch = NoWallet
    BY <1>4, <1>9
  <2> QED BY <1>2, <1>4, <1>9, <2>1
<1> QED BY <1>5, <1>6, <1>7, <1>8, <1>9

\* The plan stays paired.
LEMMA PairedStep ==
    ASSUME ShellInv, PairedPlan, [Next]_vars
    PROVE  PairedPlan'
<1>1. CASE main'.todo = <<>>
  BY <1>1, PairedShort DEF PairedPlan
<1>2. CASE main.todo # <<>> /\ main'.todo = Tail(main.todo)
  BY <1>2, PairedTail DEF PairedPlan
<1>3. CASE main' = main
  BY <1>3 DEF PairedPlan
<1>4. ASSUME NEW c \in Commands, Begin(c) PROVE PairedPlan'
  BY <1>4, PairedSteps DEF Begin, PairedPlan
<1>5. Idle.todo = <<>>
  BY DEF Idle
<1>6. CASE SignalSync \/ JoinSync \/ ClearLatch
  <2>1. main.todo # <<>> /\ Advance
    BY <1>6 DEF SignalSync, JoinSync, ClearLatch, At
  <2>2. main'.todo \in {<<>>, Tail(main.todo)}
    BY <1>5, <2>1 DEF Advance, ShellInv, Plan
  <2> QED BY <1>1, <1>2, <2>1, <2>2
<1>7. CASE OtherStep
  BY <1>1, <1>2, <1>7, OtherSteps DEF ShellInv
<1>8. CASE StartLive \/ Relaunch
  BY <1>1, <1>5, <1>8 DEF StartLive, Relaunch
<1>9. CASE SyncStep \/ BackgroundStep \/ UNCHANGED vars
  <2>1. main' = main
    BY <1>9, BackgroundSteps DEF SyncStep, SyncStopped, SyncBegin, SyncScanned, SyncDeferred,
         SyncTerminal, SyncPanic, SyncLatch, vars
  <2> QED BY <1>3, <2>1
<1> QED BY <1>4, <1>6, <1>7, <1>8, <1>9 DEF Next, MainStep, OtherStep, BackgroundStep

\* What the worker's own steps make of it.
LEMMA WorkerSteps ==
    ASSUME ShellInv, SyncStep
    PROVE  /\ main' = main /\ sync.pc \in {"top", "pass", "stopping", "latching"}
           /\ sync'.worker = sync.worker
           /\ sync.pc # "latching" => sync'.latched = sync.latched /\ sync'.latch = sync.latch
           /\ sync.pc = "latching" => /\ sync'.pc = "done" /\ sync'.latched
                                      /\ \/ sync'.latch = NoWallet
                                         \/ Unlocked /\ sync'.latch = service.wallet
           /\ failed' = failed \/ sync'.pc = "latching"
<1>1. sync = [state |-> sync.state, stop |-> sync.stop, worker |-> sync.worker,
               pc |-> sync.pc, lease |-> sync.lease, latched |-> sync.latched,
               latch |-> sync.latch]
  BY DEF ShellInv, Shapes
<1>2. main' = main
  BY DEF SyncStep, SyncStopped, SyncBegin, SyncScanned, SyncDeferred, SyncTerminal, SyncPanic,
         SyncLatch
<1>3. \A pc : EndPass(pc) => /\ sync'.pc = pc /\ sync'.worker = sync.worker
                             /\ sync'.latched = sync.latched /\ sync'.latch = sync.latch
  BY <1>1 DEF EndPass
<1>4. CASE SyncStopped
  <2>1. sync' = [sync EXCEPT !.pc = "done", !.lease = FALSE,
                            !.state = IF @ = "ERROR" THEN @ ELSE "IDLE"]
    BY <1>4 DEF SyncStopped
  <2>2. sync'.worker = sync.worker /\ sync'.latched = sync.latched /\ sync'.latch = sync.latch
    BY <1>1, <2>1
  <2> QED BY <1>2, <1>4, <2>2 DEF SyncStopped
<1>5. CASE SyncBegin
  <2>1. sync' = [sync EXCEPT !.pc = "pass", !.lease = TRUE]
    BY <1>5 DEF SyncBegin
  <2>2. sync'.worker = sync.worker /\ sync'.latched = sync.latched /\ sync'.latch = sync.latch
    BY <1>1, <2>1
  <2> QED BY <1>2, <1>5, <2>2 DEF SyncBegin
<1>6. CASE SyncScanned \/ SyncDeferred \/ SyncTerminal \/ SyncPanic
  <2>1. sync.pc = "pass"
    BY <1>6 DEF SyncScanned, SyncDeferred, SyncTerminal, SyncPanic
  <2>2. \E pc : EndPass(pc) /\ (failed' = failed \/ pc = "latching")
    BY <1>6 DEF SyncScanned, SyncDeferred, SyncTerminal, SyncPanic
  <2> QED BY <1>2, <1>3, <2>1, <2>2
<1>7. CASE SyncLatch
  <2>1. CASE sync.pc = "stopping"
    <3>1. sync' = [sync EXCEPT !.pc = "done", !.state = "ERROR"]
      BY <1>7, <2>1 DEF SyncLatch
    <3>2. sync'.worker = sync.worker /\ sync'.latched = sync.latched /\ sync'.latch = sync.latch
      BY <1>1, <3>1
    <3> QED BY <1>2, <1>7, <2>1, <3>2 DEF SyncLatch
  <2>2. CASE sync.pc = "latching"
    <3> DEFINE w == IF Unlocked /\ ~service.poisoned THEN service.wallet ELSE NoWallet
    <3>1. sync' = [sync EXCEPT !.pc = "done", !.state = "ERROR", !.latched = TRUE, !.latch = w]
      BY <1>7, <2>2 DEF SyncLatch
    <3>2. w = NoWallet \/ (Unlocked /\ w = service.wallet)
      BY SMT
    <3> HIDE DEF w
    <3>3. sync'.worker = sync.worker /\ sync'.pc = "done" /\ sync'.latched /\ sync'.latch = w
      BY <1>1, <3>1
    <3>4. failed' = failed
      BY <1>7 DEF SyncLatch
    <3>5. sync'.latch = NoWallet \/ (Unlocked /\ sync'.latch = service.wallet)
      BY <3>2, <3>3
    <3> QED BY <1>2, <2>2, <3>3, <3>4, <3>5
  <2> QED BY <1>7, <2>1, <2>2 DEF SyncLatch
<1> QED BY <1>4, <1>5, <1>6, <1>7 DEF SyncStep

\* The worker keeps its owner.
LEMMA OwnedStep ==
    ASSUME ShellInv, PairedPlan, WorkerOwned, [Next]_vars
    PROVE  WorkerOwned'
<1>1. CASE UNCHANGED <<main, sync>>
  BY <1>1 DEF WorkerOwned, At
<1>2. CASE OtherStep
  BY <1>2, OtherSteps DEF WorkerOwned, ShellInv
<1>3. CASE SignalSync
  <2>1. main.todo # <<>> /\ Head(main.todo) = "signal_sync" /\ Advance
    BY <1>3 DEF SignalSync, At
  <2>2. Tail(main.todo) # <<>> /\ Head(Tail(main.todo)) = "join_sync"
    BY <2>1, PairedTail DEF PairedPlan
  <2>3. main'.todo = Tail(main.todo)
    BY <2>1, <2>2 DEF Advance, ShellInv, Plan
  <2> QED BY <2>2, <2>3 DEF WorkerOwned, At
<1>4. CASE JoinSync
  <2>1. sync'.pc = "none"
    BY <1>4 DEF JoinSync, ShellInv, Shapes
  <2> QED BY <2>1 DEF WorkerOwned
<1>5. CASE ClearLatch
  <2>1. ~At("join_sync")
    BY <1>5 DEF ClearLatch, At
  <2>2. sync'.pc = sync.pc /\ sync'.worker = sync.worker
    BY <1>5 DEF ClearLatch, ShellInv, Shapes
  <2> QED BY <2>1, <2>2 DEF WorkerOwned
<1>6. CASE StartLive
  BY <1>6, StartSteps DEF WorkerOwned
<1>7. CASE SyncStep
  BY <1>7, WorkerSteps DEF WorkerOwned, At
<1>8. CASE Relaunch
  BY <1>8 DEF Relaunch, NoSync, WorkerOwned
<1>9. ASSUME NEW c \in Commands, Begin(c) PROVE WorkerOwned'
  <2>1. ~At("join_sync") /\ sync' = sync
    BY <1>9 DEF Begin, At, Idle
  <2> QED BY <2>1 DEF WorkerOwned
<1>10. CASE BackgroundStep \/ UNCHANGED vars
  BY <1>1, <1>10, BackgroundSteps DEF vars
<1> QED
  BY <1>2, <1>3, <1>4, <1>5, <1>6, <1>7, <1>8, <1>9, <1>10 DEF Next, MainStep, OtherStep, BackgroundStep

\* The worker's invariant.
OwnedInv == ShellInv /\ PairedPlan /\ WorkerOwned

\* It holds at a launch and every step preserves it.
LEMMA OwnedAlways == Spec => []OwnedInv
<1>1. Init => OwnedInv
  <2> SUFFICES ASSUME Init PROVE OwnedInv
    OBVIOUS
  <2>1. PairedPlan /\ WorkerOwned
    BY PairedShort DEF Init, Idle, NoSync, PairedPlan, WorkerOwned
  <2> QED BY <2>1, ShellInit DEF OwnedInv
<1>2. OwnedInv /\ [Next]_vars => OwnedInv'
  BY ShellStep, PairedStep, OwnedStep DEF OwnedInv
<1> QED BY <1>1, <1>2, PTL DEF Spec

\* Every synchronization worker that runs can be stopped: its handle is in the
\* runtime, or the command that took it is about to join it.
THEOREM WorkersAreOwned == Spec => []WorkerOwned
<1>1. OwnedInv => WorkerOwned
  BY DEF OwnedInv
<1> QED BY <1>1, OwnedAlways, PTL
\* The open wallet is one of the wallets.
OpenIsWallet == service.phase # "closed" => service.wallet \in Wallets

\* No step opens anything else.
LEMMA OpenStep ==
    ASSUME ShellInv, OpenIsWallet, [Next]_vars
    PROVE  OpenIsWallet'
<1> DEFINE Kept == /\ service'.wallet = service.wallet
                   /\ service'.phase # "closed" => service.phase # "closed"
<1>1. service = [phase |-> service.phase, wallet |-> service.wallet,
                 backend |-> service.backend, poisoned |-> service.poisoned]
  BY DEF ShellInv, Shapes
<1>2. CASE Kept
  BY <1>2 DEF OpenIsWallet
<1>3. CASE service' = NoService
  BY <1>3 DEF OpenIsWallet, NoService
<1>4. ASSUME NEW w \in Wallets,
             \/ service' = [service EXCEPT !.phase = "locked", !.wallet = w]
             \/ service' = [NoService EXCEPT !.phase = "locked", !.wallet = w]
      PROVE  OpenIsWallet'
  <2>1. service'.wallet = w
    BY <1>1, <1>4 DEF NoService
  <2> QED BY <2>1 DEF OpenIsWallet
<1>5. service' = service => Kept
  OBVIOUS
<1>6. \A b : service' = [service EXCEPT !.backend = b] => Kept
  BY <1>1
<1>7. service' = [service EXCEPT !.poisoned = TRUE, !.backend = "none"] => Kept
  BY <1>1
<1>8. service' = CloseFailed => Kept
  BY <1>1 DEF CloseFailed
<1>9. CASE Unlock
  <2>1. service.phase = "locked" /\ service' = [service EXCEPT !.phase = "unlocked"] => Kept
    BY <1>1
  <2> QED BY <1>2, <1>5, <1>9, <2>1 DEF Unlock
<1>10. CASE Lock
  <2>1. service.phase # "closed" /\ service' = [service EXCEPT !.phase = "locked"] => Kept
    BY <1>1
  <2> QED BY <1>2, <1>5, <1>10, <2>1 DEF Lock
<1>11. CASE Open("open") \/ Open("restore")
  <2>1. service' = service \/ \E w \in Wallets : service' = [service EXCEPT !.phase = "locked", !.wallet = w]
    BY <1>11 DEF Open
  <2> QED BY <1>2, <1>4, <1>5, <2>1
<1>12. CASE Recover
  <2>1. \/ service' = service
        \/ service' = [NoService EXCEPT !.poisoned = service.poisoned]
        \/ \E w \in Wallets : service' = [NoService EXCEPT !.phase = "locked", !.wallet = w]
    BY <1>12 DEF Recover
  <2>2. service' = [NoService EXCEPT !.poisoned = service.poisoned] => OpenIsWallet'
    BY DEF OpenIsWallet, NoService
  <2> QED BY <1>2, <1>4, <1>5, <2>1, <2>2
<1>13. CASE Close \/ UpdatePrepare
  <2>1. service' \in {service, NoService, CloseFailed}
    BY <1>13 DEF Close, UpdatePrepare
  <2> QED BY <1>2, <1>3, <1>5, <1>8, <2>1
<1>14. CASE StopCore \/ NodeStatus \/ StartNode \/ MiningStart
  <2>1. service' = service \/ \E b : service' = [service EXCEPT !.backend = b]
    BY <1>14 DEF StopCore, NodeStatus, StartNode, MiningStart, Retires
  <2> QED BY <1>2, <1>5, <1>6, <2>1
<1>15. CASE SyncStep
  <2>1. \/ service' = service
        \/ \E b : service' = [service EXCEPT !.backend = b]
        \/ service' = [service EXCEPT !.poisoned = TRUE, !.backend = "none"]
    BY <1>15 DEF SyncStep, SyncStopped, SyncBegin, SyncScanned, SyncDeferred, SyncTerminal,
         SyncPanic, SyncLatch
  <2> QED BY <1>2, <1>5, <1>6, <1>7, <2>1
<1>16. CASE NodeStep \/ NodeDies
  <2>1. service' = service \/ \E b : service' = [service EXCEPT !.backend = b]
    BY <1>16 DEF NodeStep, NodeBuild, NodeAttach, NodeAttached, NodeRejected, NodeDies
  <2> QED BY <1>2, <1>5, <1>6, <2>1
<1>17. CASE \/ Release \/ SignalMining \/ JoinMining \/ SignalSync \/ JoinSync \/ CancelNode
            \/ JoinNode \/ Poisoned \/ Transact \/ Rescan \/ Select \/ SetPaused("set_paused", TRUE)
            \/ SetPaused("clear_paused", FALSE) \/ ClearLatch \/ StartLive
            \/ NodeStatusPoisoned \/ StartNodeRefused \/ SkipNudge
  <2>1. service' = service
    BY <1>17 DEF Release, SignalMining, JoinMining, SignalSync, JoinSync, CancelNode, JoinNode,
         Poisoned, Transact, Rescan, Select, SetPaused, ClearLatch, StartLive,
         NodeStatusPoisoned, StartNodeRefused, SkipNudge
  <2> QED BY <1>2, <1>5, <2>1
<1>18. CASE \/ \E c \in Commands : Begin(c)
            \/ MiningRound \/ MiningEnd \/ UpdateLease \/ UpdateCheck \/ UNCHANGED vars
  <2>1. service' = service
    BY <1>18 DEF Begin, MiningRound, MiningEnd, UpdateLease, UpdateCheck, vars
  <2> QED BY <1>2, <1>5, <2>1
<1>19. CASE Relaunch
  BY <1>3, <1>19 DEF Relaunch
<1> HIDE DEF Kept
<1> QED
  BY <1>9, <1>10, <1>11, <1>12, <1>13, <1>14, <1>15, <1>16, <1>17, <1>18, <1>19 DEF Next, MainStep

\* A failure that no retry has answered is latched, or about to be, and no
\* worker looks at the wallet again.
LatchInv ==
    /\ OpenIsWallet
    /\ sync.latch \in Wallets \union {NoWallet}
    /\ failed # {} => /\ sync.latched \/ sync.pc = "latching"
                      /\ sync.pc \in {"none", "done", "latching"}

\* With one wallet every step preserves it: whoever asks for a start is asking
\* for the wallet that is latched.
LEMMA LatchStep ==
    ASSUME \A a, b \in Wallets : a = b,
           ShellInv, PairedPlan, WorkerOwned, LatchInv, [Next]_vars
    PROVE  LatchInv'
<1>1. OpenIsWallet'
  BY OpenStep DEF LatchInv
<1> DEFINE L == /\ sync.latch \in Wallets \union {NoWallet}
                /\ failed # {} => /\ sync.latched \/ sync.pc = "latching"
                                  /\ sync.pc \in {"none", "done", "latching"}
<1>2. L /\ OpenIsWallet
  BY DEF LatchInv
<1>3. ~LatchHolds => ~sync.latched
  BY <1>2 DEF LatchHolds, Unlocked, OpenIsWallet
<1>4. CASE UNCHANGED <<sync, failed>>
  BY <1>1, <1>2, <1>4 DEF LatchInv
<1>5. CASE OtherStep \/ BackgroundStep \/ (\E c \in Commands : Begin(c)) \/ UNCHANGED vars
  BY <1>4, <1>5, OtherSteps, BackgroundSteps DEF ShellInv, Begin, vars
<1>6. CASE SignalSync
  <2>1. /\ failed' = failed
        /\ sync'.latch = sync.latch /\ sync'.latched = sync.latched /\ sync'.pc = sync.pc
    BY <1>6 DEF SignalSync, ShellInv, Shapes
  <2> QED BY <1>1, <1>2, <2>1 DEF LatchInv
<1>7. CASE JoinSync
  <2>1. /\ failed' = failed /\ sync.pc \in {"none", "done"}
        /\ sync'.latch = sync.latch /\ sync'.latched = sync.latched /\ sync'.pc = "none"
    BY <1>7 DEF JoinSync, ShellInv, Shapes
  <2> QED BY <1>1, <1>2, <2>1 DEF LatchInv
<1>8. CASE ClearLatch
  <2>1. failed' = {} /\ sync'.latch = NoWallet
    BY <1>8 DEF ClearLatch, ShellInv, Shapes
  <2> QED BY <1>1, <2>1 DEF LatchInv
<1>9. CASE Relaunch
  <2>1. failed' = {} /\ sync'.latch = NoWallet
    BY <1>9 DEF Relaunch, NoSync
  <2> QED BY <1>1, <2>1 DEF LatchInv
<1>10. CASE StartLive
  <2>1. failed' = failed /\ ~At("join_sync")
    BY <1>10, StartSteps
  <2>2. CASE Spawns /\ sync'.latch = NoWallet
    <3>1. ~LatchHolds /\ ~Reaped.worker
      BY <2>2 DEF Spawns
    <3>2. sync.pc # "latching"
      BY <2>1, <3>1 DEF WorkerOwned, Reaped
    <3>3. failed = {}
      BY <1>2, <1>3, <3>1, <3>2
    <3> QED BY <1>1, <2>1, <2>2, <3>3 DEF LatchInv
  <2>3. CASE /\ sync'.pc \in {sync.pc, "none"}
             /\ sync'.pc = "none" => sync.pc \in {"none", "done"}
             /\ sync'.latched = sync.latched /\ sync'.latch = sync.latch
    BY <1>1, <1>2, <2>1, <2>3 DEF LatchInv
  <2>4. CASE /\ sync'.pc \in {sync.pc, "none"}
             /\ sync'.pc = "none" => sync.pc \in {"none", "done"}
             /\ ~LatchHolds /\ sync'.latch = NoWallet
    BY <1>1, <1>2, <1>3, <2>1, <2>4 DEF LatchInv
  <2> QED BY <1>10, <2>2, <2>3, <2>4, StartSteps
<1>11. CASE SyncStep
  <2>1. CASE sync.pc = "latching"
    BY <1>1, <1>2, <1>11, <2>1, WorkerSteps DEF LatchInv, Unlocked, OpenIsWallet
  <2>2. CASE sync.pc # "latching"
    <3>1. failed = {} /\ sync'.latch = sync.latch /\ (failed' = failed \/ sync'.pc = "latching")
      BY <1>2, <1>11, <2>2, WorkerSteps
    <3> QED BY <1>1, <1>2, <3>1 DEF LatchInv
  <2> QED BY <2>1, <2>2
<1> QED
  BY <1>5, <1>6, <1>7, <1>8, <1>9, <1>10, <1>11 DEF Next, MainStep, OtherStep, BackgroundStep

\* With one wallet, no pass scans it again between a deterministic failure and
\* the explicit retry, for any choice of commands and sources. (With two, the
\* start of the second drops the latch of the first.)
THEOREM FailureStaysLatched ==
    ASSUME \A a, b \in Wallets : a = b
    PROVE  Spec => []LatchRespected
<1>1. Init => LatchInv
  <2> SUFFICES ASSUME Init PROVE LatchInv
    OBVIOUS
  <2>1. failed = {} /\ sync.latch = NoWallet /\ service.phase = "closed"
    BY DEF Init, NoSync, NoService
  <2> QED BY <2>1 DEF LatchInv, OpenIsWallet
<1>2. OwnedInv /\ LatchInv /\ [Next]_vars => LatchInv'
  BY LatchStep DEF OwnedInv
<1>3. LatchInv => LatchRespected
  <2> SUFFICES ASSUME LatchInv PROVE LatchRespected
    OBVIOUS
  <2>1. sync.pc = "pass" => failed = {}
    BY DEF LatchInv
  <2> QED BY <2>1 DEF LatchRespected
<1> QED BY <1>1, <1>2, <1>3, OwnedAlways, PTL DEF Spec
=============================================================================
