---------------------------- MODULE EmbeddedNode ----------------------------
(***************************************************************************)
(* The embedded node (dom-wallet-embedded-core): the owner that starts it, *)
(* asks it to stop and joins it, the runtime thread that watches it, the   *)
(* node task itself (external), and the life of the bootstrap discovery    *)
(* task that runs beside it.                                               *)
(*                                                                         *)
(* The owner and the thread share only the atomic lifecycle word, the      *)
(* startup channel and the command channel; every load and store of theirs *)
(* that the other one can observe is a step.                               *)
(***************************************************************************)
VARIABLES
    lifecycle,      \* the atomic state word
    owner,          \* EmbeddedCoreLifecycle and the call its owner is in
    thread,         \* the runtime thread
    startup,        \* the startup channel: "none", "ok" or "err"
    command,        \* a Shutdown command is queued
    task,           \* the node task and how it ended
    closing,        \* the node was asked to shut down
    discovery       \* the bootstrap discovery task is running

nodeVars == <<lifecycle, owner, thread, startup, command, task, closing, discovery>>

States == {"UNINITIALIZED", "STARTING", "RUNNING", "STOPPING", "STOPPED", "FAILED"}

NodeInit ==
    /\ lifecycle = "UNINITIALIZED" /\ owner = [pc |-> "none", answer |-> "none"]
    /\ thread = "none" /\ startup = "none" /\ command = FALSE
    /\ task = "none" /\ closing = FALSE /\ discovery = FALSE

\* EmbeddedWalletApiHandle::ensure_running, wallet_api, node_handle
ensure_running == lifecycle = "RUNNING"
node_handle == ensure_running /\ owner.pc = "running"

-----------------------------------------------------------------------------
\* The owner. A lifecycle is started once: a new one is built per start.
InitFails ==
    /\ owner.pc = "none"
    /\ lifecycle' = "FAILED" /\ owner' = [pc |-> "none", answer |-> "error"]
    /\ thread' = "none" /\ task' = "none"
    /\ UNCHANGED <<startup, command, closing, discovery>>

start ==
    /\ owner.pc = "none"
    /\ lifecycle' = "STARTING" /\ owner' = [pc |-> "starting", answer |-> "none"]
    /\ thread' = "spawned" /\ task' = "none" /\ closing' = FALSE
    /\ startup' = "none" /\ command' = FALSE /\ UNCHANGED discovery

StartupReceived ==
    /\ owner.pc = "starting" /\ startup # "none"
    /\ \/ startup = "ok" /\ owner' = [owner EXCEPT !.pc = "running"]
       \/ /\ startup = "err" /\ thread = "ended"
          /\ owner' = [pc |-> "none", answer |-> "error"]
    /\ UNCHANGED <<lifecycle, thread, startup, command, task, closing, discovery>>

\* recv_timeout expires, or the thread is gone, before it has answered: command,
\* join, FAILED.
StartTimesOut ==
    /\ owner.pc = "starting" /\ startup = "none"
    /\ owner' = [owner EXCEPT !.pc = "abandoning"] /\ command' = TRUE
    /\ UNCHANGED <<lifecycle, thread, startup, task, closing, discovery>>

AbandonedStart ==
    /\ owner.pc = "abandoning" /\ thread \in {"ended", "panicked"}
    /\ lifecycle' = "FAILED" /\ owner' = [pc |-> "none", answer |-> "error"]
    /\ UNCHANGED <<thread, startup, command, task, closing, discovery>>

\* request_shutdown: the load of the state word ...
request_shutdown ==
    /\ owner.pc = "running"
    /\ owner' = [owner EXCEPT
            !.pc = IF lifecycle = "RUNNING" THEN "storing" ELSE "joining"]
    /\ UNCHANGED <<lifecycle, thread, startup, command, task, closing, discovery>>

\* ... then the store and the command. A send to an ended thread fails; the
\* backend is then dropped, which waits for the thread just the same.
SendShutdown ==
    /\ owner.pc = "storing"
    /\ lifecycle' = "STOPPING"
    /\ \/ thread \notin {"ended", "panicked"} /\ command' = TRUE
          /\ owner' = [owner EXCEPT !.pc = "joining"]
       \/ thread \in {"leaving", "ended", "panicked"} /\ UNCHANGED command
          /\ owner' = [pc |-> "joining", answer |-> "error"]
    /\ UNCHANGED <<thread, startup, task, closing, discovery>>

\* Mutant: the owner does not join the thread.
NotJoined == TRUE

Joined == thread \in {"ended", "panicked"}

wait_for_shutdown ==
    /\ owner.pc = "joining" /\ Joined
    /\ IF lifecycle = "FAILED" \/ thread = "panicked" THEN
          /\ owner' = [pc |-> "none", answer |-> "error"]
          /\ lifecycle' = "FAILED"
       ELSE /\ lifecycle' = "STOPPED"
            /\ owner' = [pc |-> "none", answer |->
                    IF owner.answer = "error" THEN "error" ELSE "stopped"]
    /\ UNCHANGED <<thread, startup, command, task, closing, discovery>>

-----------------------------------------------------------------------------
\* The runtime thread. Without a runtime the node never runs.
RuntimeFails ==
    /\ thread = "spawned"
    /\ lifecycle' = "FAILED" /\ startup' = "err" /\ thread' = "ended"
    /\ UNCHANGED <<owner, command, task, closing, discovery>>

RuntimeBuilt ==
    /\ thread = "spawned"
    /\ thread' = "polling" /\ task' = "running" /\ discovery' = TRUE
    /\ UNCHANGED <<lifecycle, owner, startup, command, closing>>

\* The node ended, or the deadline passed, before the listener was seen.
StartupFails ==
    /\ thread = "polling"
    /\ thread' = "failing" /\ closing' = TRUE
    /\ UNCHANGED <<lifecycle, owner, startup, command, task, discovery>>

StartupFailed ==
    /\ thread = "failing" /\ task # "running"
    /\ lifecycle' = "FAILED" /\ startup' = "err" /\ thread' = "ended"
    /\ discovery' = FALSE
    /\ UNCHANGED <<owner, command, task, closing>>

\* listener_is_bound: the address is in use, by the node or by anyone else.
ListenerBound ==
    /\ thread = "polling"
    /\ lifecycle' = "RUNNING" /\ startup' = "ok" /\ thread' = "running"
    /\ UNCHANGED <<owner, command, task, closing, discovery>>

CommandReceived ==
    /\ thread = "running" /\ command
    /\ lifecycle' = "STOPPING" /\ command' = FALSE
    /\ closing' = TRUE /\ thread' = "closing"
    /\ UNCHANGED <<owner, startup, task, discovery>>

NodeClosed ==
    /\ thread = "closing" /\ task # "running"
    /\ lifecycle' = IF task = "ok" THEN "STOPPED" ELSE "FAILED"
    /\ thread' = "leaving"
    /\ UNCHANGED <<owner, startup, command, task, closing, discovery>>

NodeDied ==
    /\ thread = "running" /\ task # "running"
    /\ lifecycle' = "FAILED" /\ thread' = "leaving"
    /\ UNCHANGED <<owner, startup, command, task, closing, discovery>>

ThreadEnds ==
    /\ thread = "leaving" /\ thread' = "ended" /\ discovery' = FALSE
    /\ UNCHANGED <<lifecycle, owner, startup, command, task, closing>>

\* A panic of the thread drops its runtime, and with it the tasks; the state
\* word stays as it is.
ThreadPanics ==
    /\ thread \in {"spawned", "polling", "failing", "running", "closing", "leaving"}
    /\ thread' = "panicked" /\ discovery' = FALSE
    /\ task' = IF task = "running" THEN "failed" ELSE task
    /\ UNCHANGED <<lifecycle, owner, startup, command, closing>>

\* The node task: it may die at any moment, and ends when it is asked to.
TaskDies ==
    /\ task = "running" /\ task' = "failed"
    /\ UNCHANGED <<lifecycle, owner, thread, startup, command, closing, discovery>>

TaskEnds ==
    /\ task = "running" /\ closing
    /\ task' \in {"ok", "failed"}
    /\ UNCHANGED <<lifecycle, owner, thread, startup, command, closing, discovery>>

-----------------------------------------------------------------------------
OwnerNext ==
    \/ StartupReceived \/ StartTimesOut \/ AbandonedStart
    \/ SendShutdown \/ wait_for_shutdown

ThreadNext ==
    \/ RuntimeFails \/ RuntimeBuilt \/ StartupFails \/ StartupFailed \/ ListenerBound
    \/ CommandReceived \/ NodeClosed \/ NodeDied \/ ThreadEnds
=============================================================================
