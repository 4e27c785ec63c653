----------------------------- MODULE ManagedNode -----------------------------
(***************************************************************************)
(* The managed dom-node sidecar: enabling it for a session, starting and   *)
(* stopping the process, and promoting a signed release to it, with the    *)
(* rollback to the previous release when the candidate does not come up.   *)
(* Promotion is taken apart at every point where it touches the disk or a  *)
(* process, because the application can die there and each of the touches  *)
(* can fail.                                                               *)
(*                                                                         *)
(* A revision is a number and stands for the version of the same number.   *)
(* The store of binaries (pointer, install, backup and restore of the data *)
(* directory) is the dom-sidecar crate: external, modelled from its calls. *)
(* The data directory is the set of revisions that have ever run on it.    *)
(***************************************************************************)
EXTENDS Naturals

CONSTANTS
    MaxRevision,    \* bound: newest node release
    MaxSequence     \* bound: highest sequence of a signed feed

ASSUME BoundsAssumption == MaxRevision \in Nat \ {0} /\ MaxSequence \in Nat \ {0}

VARIABLES
    store,          \* the sidecar store: pointer, installed binaries, data, backup
    state,          \* node-state.json: the accepted release, or NoState
    manager,        \* NodeManager: enabled, lifecycle, running, alive, identity
    promotion,      \* the promotion in progress
    orphan,         \* a node process nobody holds a handle to
    proven          \* history: revisions that started and answered with their identity

managedVars == <<store, state, manager, promotion, orphan, proven>>

Revisions == 1 .. MaxRevision
NoRelease == 0
NoState == [revision |-> NoRelease, sequence |-> 0]
NoBackup == {NoRelease}
NoPromotion == [at |-> "none", revision |-> NoRelease, sequence |-> 0, previous |-> NoRelease]
NewManager == [enabled |-> FALSE, lifecycle |-> "DISABLED", running |-> NoRelease,
               alive |-> FALSE, identity |-> NoRelease]

\* A runtime directory that is empty, or has the first release installed.
ManagedInit ==
    /\ store \in {[pointer |-> p, installed |-> {p} \ {NoRelease}, data |-> {}, backup |-> NoBackup]
                     : p \in {NoRelease, 1}}
    /\ state = NoState
    /\ manager = NewManager
    /\ promotion = NoPromotion
    /\ orphan = NoRelease
    /\ proven = {}

\* Commands take the manager's mutex, so none runs during a promotion.
Free == promotion.at = "none"

-----------------------------------------------------------------------------
(* Session commands *)

enable_for_session ==
    /\ Free
    /\ manager' = [manager EXCEPT !.enabled = TRUE, !.lifecycle = "ENABLED"]
    /\ UNCHANGED <<store, state, promotion, orphan, proven>>

\* The manager gives up its handle whether or not stopping the child succeeds.
Stopped(ok) ==
    [manager EXCEPT !.running = NoRelease, !.alive = FALSE,
                    !.lifecycle = IF ~ok THEN "FAILED" ELSE
                                  IF manager.enabled THEN "ENABLED" ELSE "DISABLED"]

\* stop_process succeeds when the child accepts the request and exits in time.
\* With an error the child was killed, or asking for its status or killing it
\* failed and it goes on.
Stops(ok) ==
    /\ ok => manager.alive
    /\ manager' = Stopped(ok)
    /\ orphan' \in IF manager.alive /\ ~ok THEN {orphan, manager.running} ELSE {orphan}

shutdown ==
    /\ Free
    /\ manager.running # NoRelease
    /\ \E ok \in BOOLEAN : Stops(ok)
    /\ UNCHANGED <<store, state, promotion, proven>>

disable_for_session ==
    /\ Free
    /\ \/ manager.running # NoRelease /\ Stops(FALSE)
       \/ /\ manager.running = NoRelease \/ manager.alive
          /\ manager' = [Stopped(TRUE) EXCEPT !.enabled = FALSE, !.lifecycle = "DISABLED"]
          /\ UNCHANGED orphan
    /\ UNCHANGED <<store, state, promotion, proven>>

\* status notices that the child exited, or cannot find out.
status ==
    /\ Free
    /\ manager.running # NoRelease
    /\ \/ ~manager.alive /\ manager' = [manager EXCEPT !.running = NoRelease, !.lifecycle = "FAILED"]
       \/ manager' = [manager EXCEPT !.lifecycle = "FAILED"]
    /\ UNCHANGED <<store, state, promotion, orphan, proven>>

\* The child works on the data directory before it is known to be healthy.
Touched(revision) == [store EXCEPT !.data = @ \cup {revision}]

\* start_process: spawned, healthy and reporting the expected revision; the
\* addresses must not be taken by another node.
Starts(revision) ==
    /\ orphan = NoRelease
    /\ store' = Touched(revision)
    /\ proven' = proven \cup {revision}

\* It does not come up, reports another revision, or is refused before it is spawned.
DoesNotStart(revision) ==
    /\ store' \in {store, Touched(revision)}
    /\ UNCHANGED proven

Running(revision, lifecycle) ==
    [manager EXCEPT !.running = revision, !.alive = TRUE, !.identity = revision,
                    !.lifecycle = lifecycle]

start_active ==
    /\ Free
    /\ manager.enabled /\ manager.running = NoRelease
    /\ store.pointer # NoRelease
    /\ \/ Starts(store.pointer) /\ manager' = Running(store.pointer, "READY")
       \/ DoesNotStart(store.pointer) /\ manager' = [manager EXCEPT !.lifecycle = "FAILED"]
    /\ UNCHANGED <<state, promotion, orphan>>

-----------------------------------------------------------------------------
(* Promotion *)

NodeFeedAnySequence(identity, feed) ==
    /\ state = NoState \/ state.revision = identity
    /\ feed.revision > identity

\* validate_node_feed_policy: the stored state is that of the running node, the
\* sequence is higher than the last accepted one and the version is newer.
validate_node_feed_policy(identity, feed) ==
    /\ state = NoState \/ state.revision = identity
    /\ feed.sequence > state.sequence
    /\ feed.revision > identity

\* The identity a caller has: of the node last started here or, before the first
\* release is installed, of the embedded node.
Identities == IF store.pointer = NoRelease THEN {1} ELSE {manager.identity} \ {NoRelease}

\* promote_signed_release up to the first side effect; a release that is not
\* authenticated, or not bound to the feed, is refused here and changes nothing.
promote_signed_release ==
    /\ Free
    /\ manager.enabled
    /\ \E identity \in Identities, feed \in [sequence: 1 .. MaxSequence, revision: Revisions] :
         /\ validate_node_feed_policy(identity, feed)
         /\ promotion' = [at |-> "stop", revision |-> feed.revision, sequence |-> feed.sequence,
                          previous |-> store.pointer]
    /\ UNCHANGED <<store, state, manager, orphan, proven>>

InStage(label) == promotion.at = label
ToStage(label) == promotion' = [promotion EXCEPT !.at = label]
Return == promotion' = NoPromotion

PromoteWithoutStop ==
    /\ InStage("stop")
    /\ ToStage("backup")
    /\ UNCHANGED <<store, state, manager, orphan, proven>>

\* The running node is stopped; promotion ends when that reports an error.
PromoteStop ==
    /\ InStage("stop")
    /\ \/ manager.running = NoRelease /\ ToStage("backup") /\ UNCHANGED <<manager, orphan>>
       \/ manager.running # NoRelease /\ Stops(TRUE) /\ ToStage("backup")
       \/ manager.running # NoRelease /\ Stops(FALSE) /\ Return
    /\ UNCHANGED <<store, state, proven>>

\* The data directory is copied when there is one, and the binary is installed.
PromoteInstall ==
    /\ InStage("backup")
    /\ \/ /\ store' = [store EXCEPT !.backup = IF store.data = {} THEN NoBackup ELSE store.data,
                                    !.installed = @ \cup {promotion.revision}]
          /\ manager' = [manager EXCEPT !.lifecycle = "PROMOTING"]
          /\ ToStage("pointer")
       \/ Return /\ UNCHANGED <<store, manager>>
    /\ UNCHANGED <<state, orphan, proven>>

PromotePointerAndState ==
    /\ InStage("pointer")
    /\ store' = [store EXCEPT !.pointer = promotion.revision]
    /\ state' = [revision |-> promotion.revision, sequence |-> promotion.sequence]
    /\ ToStage("start")
    /\ UNCHANGED <<manager, orphan, proven>>

\* The pointer moves to the candidate.
PromotePointer ==
    /\ InStage("pointer")
    /\ \/ store' = [store EXCEPT !.pointer = promotion.revision] /\ ToStage("start")
       \/ Return /\ UNCHANGED store
    /\ UNCHANGED <<state, manager, orphan, proven>>

\* The candidate is started; hardening the directory before that can end the
\* promotion with the pointer where it is.
PromoteStart ==
    /\ InStage("start")
    /\ \/ Starts(promotion.revision) /\ ToStage("persist")
       \/ DoesNotStart(promotion.revision) /\ ToStage("rollback")
       \/ Return /\ UNCHANGED <<store, proven>>
    /\ UNCHANGED <<state, manager, orphan>>

\* stop_process on the candidate; its error is ignored.
CandidateStops == orphan' \in {orphan, promotion.revision}

\* A candidate whose full identity is not the manifest's is stopped.
PromoteIdentityMismatch ==
    /\ InStage("persist")
    /\ CandidateStops
    /\ ToStage("rollback")
    /\ UNCHANGED <<store, state, manager, proven>>

Accepted == [revision |-> promotion.revision, sequence |-> promotion.sequence]

\* node-state.json is renamed into place and the candidate becomes the running node.
PromotePersist ==
    /\ InStage("persist")
    /\ state' = Accepted
    /\ manager' = Running(promotion.revision, "READY")
    /\ Return
    /\ UNCHANGED <<store, orphan, proven>>

\* Writing it fails, before the rename or after it: the candidate is stopped.
PromotePersistFails ==
    /\ InStage("persist")
    /\ state' \in {state, Accepted}
    /\ CandidateStops
    /\ ToStage("rollback")
    /\ UNCHANGED <<store, manager, proven>>

\* The directory layout cannot be prepared: the call returns and drops the handle
\* of the candidate, which keeps running.
PromoteLayoutFails ==
    /\ InStage("persist")
    /\ orphan' = promotion.revision
    /\ Return
    /\ UNCHANGED <<store, state, manager, proven>>

\* The pointer moves back, when there was a previous release.
RollbackPointer ==
    /\ InStage("rollback")
    /\ manager' = [manager EXCEPT !.lifecycle = "ROLLING_BACK"]
    /\ \/ /\ store' = IF promotion.previous = NoRelease THEN store
                      ELSE [store EXCEPT !.pointer = promotion.previous]
          /\ ToStage("restore")
       \/ promotion.previous # NoRelease /\ Return /\ UNCHANGED store
    /\ UNCHANGED <<state, orphan, proven>>

RestoredAlways == [store EXCEPT !.data = store.backup]

\* The copy of the data directory, if one was made, replaces what the candidate left.
Restored == IF store.backup = NoBackup THEN store ELSE [store EXCEPT !.data = store.backup]

RollbackData ==
    /\ InStage("restore")
    /\ \/ /\ store' = Restored
          /\ IF promotion.previous = NoRelease
             THEN Return /\ manager' = [manager EXCEPT !.lifecycle = "FAILED"]
             ELSE ToStage("restart") /\ UNCHANGED manager
       \/ store.backup # NoBackup /\ Return /\ UNCHANGED <<store, manager>>
    /\ UNCHANGED <<state, orphan, proven>>

\* The previous release is started again; when it does not come up the call ends.
RollbackStart ==
    /\ InStage("restart")
    /\ \/ Starts(promotion.previous) /\ manager' = Running(promotion.previous, "ROLLED_BACK")
       \/ DoesNotStart(promotion.previous) /\ UNCHANGED manager
    /\ Return
    /\ UNCHANGED <<state, orphan>>

-----------------------------------------------------------------------------
(* Faults *)

NodeExits ==
    /\ manager.alive
    /\ manager' = [manager EXCEPT !.alive = FALSE]
    /\ UNCHANGED <<store, state, promotion, orphan, proven>>

OrphanExits ==
    /\ orphan # NoRelease
    /\ orphan' = NoRelease
    /\ UNCHANGED <<store, state, manager, promotion, proven>>

\* The application dies; its child does not die with it.
ApplicationCrash ==
    /\ manager' = NewManager
    /\ Return
    /\ orphan' = CASE manager.alive      -> manager.running
                   [] InStage("persist") -> promotion.revision
                   [] OTHER              -> orphan
    /\ UNCHANGED <<store, state, proven>>

ManagedNext ==
    \/ enable_for_session \/ disable_for_session \/ status \/ start_active \/ shutdown
    \/ promote_signed_release \/ PromoteStop \/ PromoteInstall \/ PromotePointer
    \/ PromoteStart \/ PromoteIdentityMismatch \/ PromotePersist \/ PromotePersistFails
    \/ PromoteLayoutFails \/ RollbackPointer \/ RollbackData \/ RollbackStart
    \/ NodeExits \/ OrphanExits \/ ApplicationCrash

ManagedSpec == ManagedInit /\ [][ManagedNext]_managedVars

-----------------------------------------------------------------------------

\* Every variable stays in its domain.
ManagedTypeOK ==
    /\ store \in [pointer: Revisions \cup {NoRelease}, installed: SUBSET Revisions,
                  data: SUBSET Revisions, backup: (SUBSET Revisions) \cup {NoBackup}]
    /\ state = NoState \/ state \in [revision: Revisions, sequence: 1 .. MaxSequence]
    /\ manager \in [enabled: BOOLEAN, lifecycle: {"DISABLED", "ENABLED", "READY", "PROMOTING",
                        "ROLLING_BACK", "ROLLED_BACK", "FAILED"},
                    running: Revisions \cup {NoRelease}, alive: BOOLEAN,
                    identity: Revisions \cup {NoRelease}]
    /\ promotion = NoPromotion
       \/ promotion \in [at: {"stop", "backup", "pointer", "start", "persist", "rollback",
                              "restore", "restart"},
                         revision: Revisions, sequence: 1 .. MaxSequence,
                         previous: Revisions \cup {NoRelease}]
    /\ orphan \in Revisions \cup {NoRelease}
    /\ proven \subseteq Revisions

\* The release named in node-state.json has been started and has answered with
\* its identity, whatever failed or died during its promotion.
AcceptedIsProven == state # NoState => state.revision \in proven

\* node-state.json only moves to a higher sequence and a newer release: a replayed
\* or older feed is never accepted, also after a rollback or a crash.
AcceptedAdvances ==
    [][state' # state => /\ state'.sequence > state.sequence
                         /\ state'.revision > state.revision]_managedVars

\* The node that runs is the one the pointer names, before, after and in the
\* middle of a promotion: the pointer never moves under a running node.
RunsThePointer == manager.running # NoRelease => manager.running = store.pointer

\* A promotion that was rolled back has not advanced the accepted release.
RollbackKeepsState ==
    manager.lifecycle = "ROLLED_BACK" => state.revision \in {NoRelease, manager.identity}

\* While no promotion runs, the pointer names a release that has been started
\* successfully, or the one that was there from the beginning.
PointerIsProven == Free => store.pointer \in proven \cup {NoRelease, 1}
=============================================================================
