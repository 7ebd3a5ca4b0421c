-------------------------------- MODULE Daemon --------------------------------
(***************************************************************************)
(* The lease of the project's daemon (daemon.py).  A process that starts   *)
(* reads the one row of host_leases, refuses to start or terminates the    *)
(* process it names, and writes a row of its own; it keeps the row fresh   *)
(* while it serves and deletes it when it is done.  Read and write are two *)
(* transactions, and a row is stale when its heartbeat is old or its       *)
(* process is gone.                                                        *)
(***************************************************************************)
EXTENDS Naturals, FiniteSets

CONSTANTS
    Process,    \* runs of `uv-agent daemon`: each starts once
    NoProcess   \* a model value: no row, nobody to wait for

VARIABLES
    lease,       \* owner_id of the row of host_leases
    late,        \* the row's heartbeat_at is older than stale_after_s
    daemon,      \* how far each process is in run_daemon
    target,      \* pid a process that replaces another waits for
    overlapped,  \* ghost: a process looked at the lease while another was between its look and its write
    stalled      \* ghost: the heartbeat of a live owner was late

vars == <<lease, late, daemon, target, overlapped, stalled>>
ghosts == <<overlapped, stalled>>

Init ==
    /\ lease = NoProcess /\ late = FALSE
    /\ daemon = [p \in Process |-> "off"]
    /\ target = [p \in Process |-> NoProcess]
    /\ overlapped = FALSE /\ stalled = FALSE

Alive(p) == daemon[p] \notin {"off", "exited"}
Fresh == lease # NoProcess /\ ~late /\ Alive(lease)
Acquiring == {p \in Process : daemon[p] \in {"waiting", "inserting"}}
Serving == {p \in Process : daemon[p] \in {"starting", "serving", "stopping"}}

\* DaemonLease.acquire, up to its decision: the row is read outside of any
\* transaction.
Look(p, replace) ==
    /\ daemon[p] = "off"
    /\ daemon' = [daemon EXCEPT ![p] = IF ~Fresh THEN "inserting" ELSE IF replace THEN "waiting" ELSE "refused"]
    /\ target' = [target EXCEPT ![p] = IF Fresh /\ replace THEN lease ELSE NoProcess]
    /\ overlapped' = (overlapped \/ Acquiring # {})
    /\ UNCHANGED <<lease, late, stalled>>

\* _terminate_old: wait until the process is gone, or give up.
OldGone(p) ==
    /\ daemon[p] = "waiting" /\ ~Alive(target[p])
    /\ daemon' = [daemon EXCEPT ![p] = "inserting"]
    /\ UNCHANGED <<lease, late, target, ghosts>>
GiveUp(p) ==
    /\ daemon[p] = "waiting" /\ Alive(target[p])
    /\ daemon' = [daemon EXCEPT ![p] = "refused"]
    /\ UNCHANGED <<lease, late, target, ghosts>>

\* INSERT OR REPLACE, then the heartbeat and the plugins are started; a plugin
\* that raises ends the daemon.
Insert(p) ==
    /\ daemon[p] = "inserting"
    /\ lease' = p /\ late' = FALSE
    /\ daemon' = [daemon EXCEPT ![p] = "starting"]
    /\ UNCHANGED <<target, ghosts>>
Started(p) ==
    /\ daemon[p] = "starting"
    /\ \E outcome \in {"serving", "stopping"} : daemon' = [daemon EXCEPT ![p] = outcome]
    /\ UNCHANGED <<lease, late, target, ghosts>>

\* _heartbeat_loop updates the row if it is still its own.
Heartbeat(p) ==
    /\ daemon[p] \in {"starting", "serving", "stopping"}
    /\ lease = p /\ late
    /\ late' = FALSE
    /\ UNCHANGED <<lease, daemon, target, ghosts>>

\* stale_after_s passes without a heartbeat: the owner is gone, or its event
\* loop was held up.
HeartbeatLate ==
    /\ lease # NoProcess /\ ~late
    /\ late' = TRUE
    /\ stalled' = (stalled \/ Alive(lease))
    /\ UNCHANGED <<lease, daemon, target, overlapped>>

\* A signal ends stop.wait(): SIGTERM of a process that replaces this one, or
\* the user's.
Stop(p) ==
    /\ daemon[p] = "serving"
    /\ daemon' = [daemon EXCEPT ![p] = "stopping"]
    /\ UNCHANGED <<lease, late, target, ghosts>>

\* engine.aclose() of the finally block; a process that was refused has
\* nothing to close.
Closed(p) ==
    /\ daemon[p] \in {"stopping", "refused"}
    /\ daemon' = [daemon EXCEPT ![p] = "closed"]
    /\ UNCHANGED <<lease, late, target, ghosts>>

\* Variant: the row is deleted whoever wrote it.
ReleaseAny(p) ==
    /\ daemon[p] = "closed"
    /\ lease' = NoProcess
    /\ daemon' = [daemon EXCEPT ![p] = "exited"]
    /\ UNCHANGED <<late, target, ghosts>>

\* DaemonLease.release, and the end of the process.
Release(p) ==
    /\ daemon[p] = "closed"
    /\ lease' = IF lease = p THEN NoProcess ELSE lease
    /\ daemon' = [daemon EXCEPT ![p] = "exited"]
    /\ UNCHANGED <<late, target, ghosts>>

\* SIGTERM before the handlers are installed, SIGKILL, a fault: the row stays.
Crash(p) ==
    /\ Alive(p)
    /\ daemon' = [daemon EXCEPT ![p] = "exited"]
    /\ UNCHANGED <<lease, late, target, ghosts>>

Next ==
    \/ \E p \in Process :
        \/ \E replace \in BOOLEAN : Look(p, replace)
        \/ OldGone(p) \/ GiveUp(p) \/ Insert(p) \/ Started(p) \/ Heartbeat(p)
        \/ Stop(p) \/ Closed(p) \/ Release(p) \/ Crash(p)
    \/ HeartbeatLate


States == {"off", "waiting", "inserting", "refused", "starting", "serving", "stopping", "closed",
           "exited"}

TypeOK ==
    /\ lease \in Process \cup {NoProcess}
    /\ late \in BOOLEAN
    /\ daemon \in [Process -> States]
    /\ target \in [Process -> Process \cup {NoProcess}]
    /\ overlapped \in BOOLEAN /\ stalled \in BOOLEAN

\* The row is written by a process that started; a row of a live process is
\* fresh unless its heartbeat was late.
LeaseInv ==
    lease # NoProcess =>
        /\ daemon[lease] # "off"
        /\ ~stalled /\ Alive(lease) => ~late

\* One process at a time is between its look and its row.
OneAcquires == \A p, q \in Acquiring : p = q

\* The row of whoever serves is the lease.
ServerHasLease == \A p \in Serving : lease = p

\* Who waits for another process has seen that only this one may serve; who is
\* going to write the row has seen that nobody does.
SeenBefore ==
    \A p \in Acquiring : \A q \in Serving : daemon[p] = "waiting" /\ target[p] = q

Inv ==
    /\ TypeOK /\ LeaseInv
    /\ ~overlapped /\ ~stalled => OneAcquires /\ ServerHasLease /\ SeenBefore


Spec == Init /\ [][Next]_vars

\* Unless one starts while another is between its look at the lease and its
\* row, or the event loop of the owner is held up, two daemons never serve a
\* project at once: whatever is refused, replaced, released, killed or stale.
OneDaemon == overlapped \/ stalled \/ \A p, q \in Serving : p = q

=============================================================================
