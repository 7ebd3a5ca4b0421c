------------------------------ MODULE ScriptEnv ------------------------------
(***************************************************************************)
(* The uv project in which every script of a user runs: prepared by the    *)
(* hosts (runner/scriptenv.py), changed by the scripts themselves          *)
(* (uv_agent_runtime/dependencies.py), each under an exclusive lock file   *)
(* (uv_agent_runtime/lockfile.py).  A lock file older than an hour is      *)
(* taken for the remains of a process that died, by a look and a removal   *)
(* that are two steps; a process that died leaves the project as it was    *)
(* between two uv commands.                                                *)
(***************************************************************************)
EXTENDS Naturals, FiniteSets

CONSTANTS
    Hosts,      \* processes that call ensure_venv
    Scripts,    \* processes that call add_dependency, each with its package
    MaxCrashes, \* bound: processes that die
    MaxRobbed,  \* bound: living processes whose lock file is taken for stale
    None

VARIABLES
    lockfile,   \* the process whose token it holds, or None
    at,         \* where each process is
    pyproject,  \* what pyproject.toml declares, or None
    uvlock,     \* the pyproject.toml that uv.lock was made from, or None
    venv,       \* what .venv has installed, or None
    saved,      \* each host's original pyproject.toml and uv.lock
    back,       \* where its lock and sync returns to
    ok,         \* no uv command of the process failed
    robbed,     \* ghost: living processes whose lock file was taken for stale
    crashes

evars == <<lockfile, at, pyproject, uvlock, venv, saved, back, ok, robbed, crashes>>

Process == Hosts \cup Scripts
NoFiles == [py |-> None, lock |-> None]
Project(agent, index, source, packages) ==
    [agent |-> agent, index |-> index, source |-> source, packages |-> packages]

\* No project; one that an earlier release, or a source checkout, made; or this
\* release's.
Init ==
    /\ lockfile = None
    /\ at = [p \in Process |-> "start"]
    /\ \/ pyproject = None /\ uvlock = None /\ venv = None
       \/ \E source \in BOOLEAN :
              /\ pyproject = Project("loose", FALSE, source, {})
              /\ uvlock = pyproject
              /\ venv = [agent |-> "old", packages |-> {}]
       \/ /\ pyproject = Project("pinned", TRUE, FALSE, {}) /\ uvlock = pyproject
          /\ venv = [agent |-> "new", packages |-> {}]
    /\ saved = [p \in Process |-> NoFiles] /\ back = [p \in Process |-> "none"]
    /\ ok = [p \in Process |-> TRUE]
    /\ robbed = {} /\ crashes = 0

files == <<pyproject, uvlock, venv>>
Goes(p, pc) == at' = [at EXCEPT ![p] = pc]
Fails(p) == ok' = [ok EXCEPT ![p] = FALSE]

----------------------------------------------------------------------------
(* lockfile.py *)

FirstStep(p) == IF p \in Hosts THEN "init" ELSE "add"

\* O_CREAT | O_EXCL
Acquire(p) ==
    /\ at[p] = "start" /\ lockfile = None
    /\ lockfile' = p
    /\ Goes(p, FirstStep(p))
    /\ UNCHANGED <<files, saved, back, ok, robbed, crashes>>

\* _remove_stale_lock: the look, and the removal of what is there by then.
\* The lock file is never refreshed: a holder that takes an hour looks dead.
LookStale(p) ==
    /\ at[p] = "start" /\ lockfile # None
    /\ at[lockfile] = "dead" \/ Cardinality(robbed) < MaxRobbed
    /\ Goes(p, "stale")
    /\ UNCHANGED <<lockfile, files, saved, back, ok, robbed, crashes>>
RemoveStale(p) ==
    /\ at[p] = "stale"
    /\ robbed' = robbed \cup {q \in Process : q = lockfile /\ at[q] # "dead"}
    /\ lockfile' = None
    /\ Goes(p, "start")
    /\ UNCHANGED <<files, saved, back, ok, crashes>>

AcquireTimeout(p) ==
    /\ at[p] = "start" /\ lockfile # None
    /\ Goes(p, "gaveup") /\ Fails(p)
    /\ UNCHANGED <<lockfile, files, saved, back, robbed, crashes>>

Release(p) ==
    /\ at[p] = "release"
    /\ lockfile' = IF lockfile = p THEN None ELSE lockfile
    /\ Goes(p, "done")
    /\ UNCHANGED <<files, saved, back, ok, robbed, crashes>>

\* A process that dies leaves its lock file.
Crash(p) ==
    /\ at[p] \notin {"start", "done", "gaveup", "dead"} /\ crashes < MaxCrashes
    /\ Goes(p, "dead") /\ Fails(p)
    /\ saved' = [saved EXCEPT ![p] = NoFiles] /\ back' = [back EXCEPT ![p] = "none"]
    /\ crashes' = crashes + 1
    /\ UNCHANGED <<lockfile, files, robbed>>

----------------------------------------------------------------------------
(* ensure_project *)

here == <<lockfile, saved, back, robbed, crashes>>
there == <<lockfile, robbed, crashes>>

\* A command with check=True: its failure ends the preparation.
Raises(p) == Goes(p, "release") /\ Fails(p) /\ UNCHANGED files

UvInit(p) ==
    /\ at[p] = "init"
    /\ IF pyproject # None THEN Goes(p, "index") /\ UNCHANGED <<ok, files>>
       ELSE \/ /\ pyproject' = Project("no", FALSE, FALSE, {})
               /\ Goes(p, "index")
               /\ UNCHANGED <<ok, uvlock, venv>>
            \/ Raises(p)
    /\ UNCHANGED here

\* _ensure_default_index edits pyproject.toml only.
EnsureDefaultIndex(p) ==
    /\ at[p] = "index"
    /\ pyproject' = [pyproject EXCEPT !.index = TRUE]
    /\ Goes(p, "runtime")
    /\ UNCHANGED <<here, ok, uvlock, venv>>

\* uv add uv-agent: all three files, or none.  What the index has decides the
\* version that is installed.
AddRuntimePackage(p, next) ==
    \/ /\ pyproject' = [pyproject EXCEPT !.agent = IF @ = "no" THEN "loose" ELSE @]
       /\ uvlock' = pyproject'
       /\ \E version \in IF pyproject.agent = "pinned" THEN {"new"} ELSE {"old", "new"} :
              venv' = [agent |-> version, packages |-> pyproject.packages]
       /\ Goes(p, next)
       /\ UNCHANGED ok
    \/ Raises(p)

EnsureDeclared(p) ==
    /\ at[p] = "runtime"
    /\ IF venv = None \/ pyproject.agent = "no" THEN AddRuntimePackage(p, "source")
       ELSE Goes(p, "source") /\ UNCHANGED <<ok, files>>
    /\ UNCHANGED here

LockAndSync(p, next) ==
    /\ saved' = [saved EXCEPT ![p] = [py |-> pyproject, lock |-> uvlock]]
    /\ back' = [back EXCEPT ![p] = next]
    /\ Goes(p, "lock")

\* The source that a checkout wrote is dropped by an installed release.
RemoveSource(p) ==
    /\ at[p] = "source"
    /\ IF pyproject.source
       THEN LockAndSync(p, "package") /\ pyproject' = [pyproject EXCEPT !.source = FALSE]
       ELSE Goes(p, "package") /\ UNCHANGED <<saved, back, pyproject>>
    /\ UNCHANGED <<lockfile, uvlock, venv, ok, robbed, crashes>>

\* The import of uv_agent_runtime is tried in the environment.
EnsureRuntimePackage(p) ==
    /\ at[p] = "package"
    /\ IF venv = None \/ venv.agent = "no" THEN AddRuntimePackage(p, "version")
       ELSE Goes(p, "version") /\ UNCHANGED <<ok, files>>
    /\ UNCHANGED here

\* _ensure_runtime_version pins the version of the host.
EnsureRuntimeVersion(p) ==
    /\ at[p] = "version"
    /\ IF venv.agent = "old" /\ pyproject.agent # "pinned"
       THEN LockAndSync(p, "check") /\ pyproject' = [pyproject EXCEPT !.agent = "pinned"]
       ELSE Goes(p, "check") /\ UNCHANGED <<saved, back, pyproject>>
    /\ UNCHANGED <<lockfile, uvlock, venv, ok, robbed, crashes>>

\* Variant: the lock is trusted.
EnsureLockCurrentTrusts(p) ==
    /\ at[p] = "check"
    /\ Goes(p, "release")
    /\ UNCHANGED <<lockfile, files, saved, back, ok, robbed, crashes>>

\* uv lock --check
EnsureLockCurrent(p) ==
    /\ at[p] = "check"
    /\ IF uvlock # pyproject THEN LockAndSync(p, "release")
       ELSE Goes(p, "release") /\ UNCHANGED <<saved, back>>
    /\ UNCHANGED <<lockfile, files, ok, robbed, crashes>>

----------------------------------------------------------------------------
(* _lock_and_sync_project *)

Returns(p) ==
    /\ Goes(p, back[p])
    /\ saved' = [saved EXCEPT ![p] = NoFiles] /\ back' = [back EXCEPT ![p] = "none"]

Restore(p) ==
    /\ pyproject' = saved[p].py /\ uvlock' = saved[p].lock
    /\ Returns(p) /\ Fails(p)
    /\ UNCHANGED venv

UvLock(p) ==
    /\ at[p] = "lock"
    /\ \/ uvlock' = pyproject /\ Goes(p, "sync") /\ UNCHANGED <<ok, pyproject, venv, saved, back>>
       \/ Restore(p)
    /\ UNCHANGED there

UvSync(p) ==
    /\ at[p] = "sync"
    /\ \/ /\ uvlock = pyproject
          /\ \E version \in IF pyproject.agent = "pinned" THEN {"new"} ELSE {"old", "new"} :
                 venv' = [agent |-> version, packages |-> pyproject.packages]
          /\ Returns(p) /\ UNCHANGED <<ok, pyproject, uvlock>>
       \/ Restore(p)
    /\ UNCHANGED there

----------------------------------------------------------------------------
(* add_dependency, from a script that runs in a project that is there.  Its uv
   writes pyproject.toml, then uv.lock, then the environment, and undoes what
   it did when it fails. *)

AddDependency(p) ==
    /\ at[p] = "add"
    /\ IF pyproject = None \/ venv = None THEN Raises(p)
       ELSE \/ /\ pyproject' = [pyproject EXCEPT !.packages = @ \cup {p}]
               /\ Goes(p, "added") /\ UNCHANGED <<ok, uvlock, venv>>
            \/ Raises(p)
    /\ UNCHANGED here
AddedDependency(p) ==
    /\ at[p] = "added"
    /\ uvlock' = pyproject
    /\ venv' = [venv EXCEPT !.packages = pyproject.packages]
    /\ Goes(p, "release")
    /\ UNCHANGED <<here, ok, pyproject>>

Next ==
    \/ \E p \in Process :
           Acquire(p) \/ LookStale(p) \/ RemoveStale(p) \/ AcquireTimeout(p) \/ Release(p) \/ Crash(p)
    \/ \E p \in Hosts :
           \/ UvInit(p) \/ EnsureDefaultIndex(p) \/ EnsureDeclared(p) \/ RemoveSource(p)
           \/ EnsureRuntimePackage(p) \/ EnsureRuntimeVersion(p) \/ EnsureLockCurrent(p)
           \/ UvLock(p) \/ UvSync(p)
    \/ \E p \in Scripts : AddDependency(p) \/ AddedDependency(p)

Spec == Init /\ [][Next]_evars

----------------------------------------------------------------------------
(* Properties *)

Places ==
    {"start", "stale", "gaveup", "dead", "done", "init", "index", "runtime", "source", "package",
     "version", "check", "lock", "sync", "add", "added", "release"}
Projects ==
    [agent : {"no", "loose", "pinned"}, index : BOOLEAN, source : BOOLEAN, packages : SUBSET Scripts]
Environments == [agent : {"old", "new"}, packages : SUBSET Scripts]
Originals == [py : Projects \cup {None}, lock : Projects \cup {None}]

TypeOK ==
    /\ lockfile \in Process \cup {None}
    /\ at \in [Process -> Places]
    /\ pyproject \in Projects \cup {None} /\ uvlock \in Projects \cup {None}
    /\ venv \in Environments \cup {None}
    /\ saved \in [Process -> Originals]
    /\ back \in [Process -> {"none", "package", "check", "release"}]
    /\ ok \in [Process -> BOOLEAN]
    /\ robbed \subseteq Process

Inside(p) == at[p] \notin {"start", "stale", "done", "gaveup", "dead"}

\* Who is in the project holds the lock file, unless it was taken for stale.
HoldersAreInside == \A p \in Process \ robbed : Inside(p) => lockfile = p

\* What each place of a process has seen: a project, then an environment, a
\* project to go back to; none of the three is ever lost again.
Seen(p) ==
    /\ at[p] \in {"add", "added"} => p \notin Hosts
    /\ at[p] \in {"index", "runtime", "source", "package", "version", "check", "lock", "sync", "added"} =>
           pyproject # None
    /\ at[p] \in {"source", "package", "version", "check", "lock", "sync", "added"} => venv # None
    /\ at[p] \in {"lock", "sync"} => saved[p].py # None /\ back[p] # "none"

\* A host that is done is so with an environment, and, as long as nobody can
\* have come in between, with the lock file of the project.
Prepared(p) ==
    p \in Hosts /\ at[p] = "release" /\ ok[p] => venv # None /\ (robbed = {} => uvlock = pyproject)

Inv == TypeOK /\ HoldersAreInside /\ \A p \in Process : Seen(p) /\ Prepared(p)

\* Two processes are in the project at a time only when one of them lost its
\* lock file to its age; and while none did, a host whose commands all
\* succeeded leaves a lock file that belongs to pyproject.toml and an
\* environment with the runtime in it, whatever a dead process left behind.
EnvIsPrepared ==
    /\ \A p, q \in Process \ robbed : Inside(p) /\ Inside(q) => p = q
    /\ \A p \in Hosts :
           at[p] = "release" /\ ok[p] /\ robbed = {} =>
               /\ uvlock = pyproject
               /\ venv # None /\ venv.agent # "no"

=============================================================================
