--------------------------- MODULE WorkspaceLock ---------------------------
(***************************************************************************)
(* The per-workspace lock of the control plane: the context manager        *)
(* workspace_lock and its helper clear_stale_lock                          *)
(* (.codex/scripts/control_lock.py).                                       *)
(*                                                                         *)
(* A process takes the lock by creating <workspace>/control/.lock with     *)
(* O_CREAT | O_EXCL and writing its pid into it; it gives the lock back by *)
(* unlinking the path.  A process that finds the file reads the pid,       *)
(* probes it with signal 0 and unlinks the path when no such process       *)
(* exists.  Reading, probing and unlinking are separate system calls, and  *)
(* unlink takes a path, not the file that was read, so other processes may *)
(* act between any two of them.                                            *)
(*                                                                         *)
(* Every command of control.py takes the lock once, so a file is           *)
(* identified by the process that created it.                              *)
(***************************************************************************)
EXTENDS Naturals, FiniteSets

CONSTANTS
    Procs,       \* the control-plane processes that use one workspace
    NoProc,      \* "no process": the lock file is absent, or no pid was read
    MaxCrashes,  \* bound on the processes killed in the middle of a command
    MaxDepth     \* bound on the nesting of workspace_lock in one process

ASSUME LockAssumption ==
    /\ NoProc \notin Procs
    /\ MaxCrashes \in Nat
    /\ MaxDepth \in Nat \ {0}

VARIABLES
    pc,          \* the system call each process executes next
    lockFile,    \* the creator of the file at the lock path, or NoProc
    pidWritten,  \* the file at the lock path holds its creator's pid
    seen,        \* the pid clear_stale_lock read, for each process
    late,        \* the processes whose deadline has passed
    depth,       \* nesting of workspace_lock; > 0 is "in _HELD_LOCKS"
    reused,      \* dead processes whose pid now names an unrelated process
    crashes,     \* processes killed so far
    misdeleted   \* history: an unlink removed another process's lock file

vars == <<pc, lockFile, pidWritten, seen, late, depth, reused, crashes,
          misdeleted>>

-----------------------------------------------------------------------------
(* State functions.                                                        *)

Waiting  == {"open", "read", "probe", "unlink", "check"}
Holding  == {"write", "critical"}
Finished == {"released", "timedout"}
Dead     == {"exited", "crashed"}

Holders == {p \in Procs : pc[p] \in Holding}

\* What os.kill(pid, 0) reports: the process runs, or its pid was recycled.
PidExists(p) == pc[p] \notin Dead \/ p \in reused

Init ==
    /\ pc = [p \in Procs |-> "open"]
    /\ lockFile = NoProc
    /\ pidWritten = FALSE
    /\ seen = [p \in Procs |-> NoProc]
    /\ late = {}
    /\ depth = [p \in Procs |-> 0]
    /\ reused = {}
    /\ crashes = 0
    /\ misdeleted = FALSE

Goto(p, label) == pc' = [pc EXCEPT ![p] = label]

-----------------------------------------------------------------------------
(* Mutated forms of the definitions below, used to test the properties.    *)

ProbeLeavesDead(p) ==
    /\ pc[p] = "probe"
    /\ Goto(p, "check")
    /\ UNCHANGED <<lockFile, pidWritten, seen, late, depth, reused, crashes,
                   misdeleted>>

LeaveNestedUnlinks(p) ==
    /\ pc[p] = "critical"
    /\ depth[p] > 1
    /\ depth' = [depth EXCEPT ![p] = @ - 1]
    /\ lockFile' = NoProc
    /\ pidWritten' = FALSE
    /\ UNCHANGED <<pc, seen, late, reused, crashes, misdeleted>>

ReleaseKeepsFile(p) ==
    /\ pc[p] = "critical"
    /\ depth[p] = 1
    /\ depth' = [depth EXCEPT ![p] = 0]
    /\ Goto(p, "released")
    /\ UNCHANGED <<lockFile, pidWritten, seen, late, reused, crashes,
                   misdeleted>>

RetryForever(p) ==
    /\ pc[p] = "check"
    /\ Goto(p, "open")
    /\ UNCHANGED <<lockFile, pidWritten, seen, late, depth, reused, crashes,
                   misdeleted>>

-----------------------------------------------------------------------------
(* Taking the lock.                                                        *)

\* os.open(..., O_CREAT | O_EXCL) creates the file.
OpenCreates(p) ==
    /\ pc[p] = "open"
    /\ lockFile = NoProc
    /\ lockFile' = p
    /\ pidWritten' = FALSE
    /\ Goto(p, "write")
    /\ UNCHANGED <<seen, late, depth, reused, crashes, misdeleted>>

\* os.open raises FileExistsError: clear_stale_lock is called.
OpenExists(p) ==
    /\ pc[p] = "open"
    /\ lockFile # NoProc
    /\ Goto(p, "read")
    /\ UNCHANGED <<lockFile, pidWritten, seen, late, depth, reused, crashes,
                   misdeleted>>

\* os.write and os.close through the descriptor, then _HELD_LOCKS.add: the
\* pid lands in the file p created, wherever the path leads by now.
WritePid(p) ==
    /\ pc[p] = "write"
    /\ pidWritten' = (pidWritten \/ lockFile = p)
    /\ depth' = [depth EXCEPT ![p] = 1]
    /\ Goto(p, "critical")
    /\ UNCHANGED <<lockFile, seen, late, reused, crashes, misdeleted>>

-----------------------------------------------------------------------------
(* clear_stale_lock.                                                       *)

\* read_text and int(): a missing file (OSError) or an empty one (ValueError)
\* ends the helper, a pid is probed next.
ReadPid(p) ==
    /\ pc[p] = "read"
    /\ IF lockFile # NoProc /\ pidWritten
       THEN seen' = [seen EXCEPT ![p] = lockFile] /\ Goto(p, "probe")
       ELSE UNCHANGED seen /\ Goto(p, "check")
    /\ UNCHANGED <<lockFile, pidWritten, late, depth, reused, crashes,
                   misdeleted>>

\* os.kill(pid, 0): ProcessLookupError leads to the unlink, success (or
\* PermissionError, an OSError) ends the helper.
ProbePid(p) ==
    /\ pc[p] = "probe"
    /\ Goto(p, IF PidExists(seen[p]) THEN "check" ELSE "unlink")
    /\ UNCHANGED <<lockFile, pidWritten, seen, late, depth, reused, crashes,
                   misdeleted>>

\* lock_path.unlink(missing_ok=True): whatever file is at the path goes.
UnlinkStale(p) ==
    /\ pc[p] = "unlink"
    /\ misdeleted' = (misdeleted \/ lockFile \notin {NoProc, seen[p]})
    /\ lockFile' = NoProc
    /\ pidWritten' = FALSE
    /\ Goto(p, "check")
    /\ UNCHANGED <<seen, late, depth, reused, crashes>>

\* The deadline test at the end of the loop body: sleep and try again, or
\* raise ControlError("workspace is locked").
RetryOrGiveUp(p) ==
    /\ pc[p] = "check"
    /\ Goto(p, IF p \in late THEN "timedout" ELSE "open")
    /\ UNCHANGED <<lockFile, pidWritten, seen, late, depth, reused, crashes,
                   misdeleted>>

\* time.monotonic() reaches the deadline of a process that still waits.
DeadlinePasses(p) ==
    /\ pc[p] \in Waiting
    /\ p \notin late
    /\ late' = late \union {p}
    /\ UNCHANGED <<pc, lockFile, pidWritten, seen, depth, reused, crashes,
                   misdeleted>>

-----------------------------------------------------------------------------
(* Inside the lock, and leaving it.                                        *)

\* lock_path in _HELD_LOCKS: a nested workspace_lock yields at once.
EnterNested(p) ==
    /\ pc[p] = "critical"
    /\ depth[p] \in 1 .. (MaxDepth - 1)
    /\ depth' = [depth EXCEPT ![p] = @ + 1]
    /\ UNCHANGED <<pc, lockFile, pidWritten, seen, late, reused, crashes,
                   misdeleted>>

\* The nested context manager returns without touching the file.
LeaveNested(p) ==
    /\ pc[p] = "critical"
    /\ depth[p] > 1
    /\ depth' = [depth EXCEPT ![p] = @ - 1]
    /\ UNCHANGED <<pc, lockFile, pidWritten, seen, late, reused, crashes,
                   misdeleted>>

\* The finally clause, after the body returned or raised: _HELD_LOCKS.remove
\* and an unlink of whatever file is at the path.
Release(p) ==
    /\ pc[p] = "critical"
    /\ depth[p] = 1
    /\ depth' = [depth EXCEPT ![p] = 0]
    /\ misdeleted' = (misdeleted \/ lockFile \notin {NoProc, p})
    /\ lockFile' = NoProc
    /\ pidWritten' = FALSE
    /\ Goto(p, "released")
    /\ UNCHANGED <<seen, late, reused, crashes>>

\* The command is over: its pid is free.
Exit(p) ==
    /\ pc[p] \in Finished
    /\ Goto(p, "exited")
    /\ UNCHANGED <<lockFile, pidWritten, seen, late, depth, reused, crashes,
                   misdeleted>>

-----------------------------------------------------------------------------
(* The environment.                                                        *)

\* SIGKILL, a power cut, or an exception (KeyboardInterrupt, a full disk)
\* between os.open and the try statement: no finally clause runs.
Crash(p) ==
    /\ crashes < MaxCrashes
    /\ pc[p] \notin Dead \union Finished
    /\ crashes' = crashes + 1
    /\ depth' = [depth EXCEPT ![p] = 0]
    /\ Goto(p, "crashed")
    /\ UNCHANGED <<lockFile, pidWritten, seen, late, reused, misdeleted>>

\* The kernel gives a free pid to an unrelated process.
PidReused(p) ==
    /\ pc[p] \in Dead
    /\ p \notin reused
    /\ reused' = reused \union {p}
    /\ UNCHANGED <<pc, lockFile, pidWritten, seen, late, depth, crashes,
                   misdeleted>>

-----------------------------------------------------------------------------

\* One round of the acquisition loop.
Acquire(p) ==
    \/ OpenCreates(p)
    \/ OpenExists(p)
    \/ WritePid(p)
    \/ ReadPid(p)
    \/ ProbePid(p)
    \/ UnlinkStale(p)
    \/ RetryOrGiveUp(p)

Next ==
    \E p \in Procs :
        \/ Acquire(p)
        \/ DeadlinePasses(p)
        \/ EnterNested(p)
        \/ LeaveNested(p)
        \/ Release(p)
        \/ Exit(p)
        \/ Crash(p)
        \/ PidReused(p)

\* The loop runs and time passes.  Nothing is assumed of the body of the lock:
\* a gate command may hang (run_gate gives its subprocess no timeout).
Fairness ==
    \A p \in Procs : WF_vars(Acquire(p)) /\ WF_vars(DeadlinePasses(p))

Spec == Init /\ [][Next]_vars /\ Fairness

-----------------------------------------------------------------------------
(* Properties.                                                             *)

\* Every variable stays in its type.
TypeOK ==
    /\ pc \in [Procs -> Waiting \union Holding \union Finished \union Dead]
    /\ lockFile \in Procs \union {NoProc}
    /\ pidWritten \in BOOLEAN
    /\ seen \in [Procs -> Procs \union {NoProc}]
    /\ late \subseteq Procs
    /\ depth \in [Procs -> 0 .. MaxDepth]
    /\ reused \subseteq Procs
    /\ crashes \in 0 .. MaxCrashes
    /\ misdeleted \in BOOLEAN

\* Two processes are never inside workspace_lock together.  The code violates
\* it with three processes; see OverlapOnlyAfterMisdelete.
MutualExclusion == Cardinality(Holders) <= 1

\* The only way to two holders is an unlink of a file that is not the one the
\* unlinking process read (clear_stale_lock) or created (finally): until that
\* happens the holder is alone and the file at the path is its own.
OverlapOnlyAfterMisdelete ==
    ~misdeleted => \A p \in Procs : pc[p] \in Holding => lockFile = p

\* Whatever was unlinked, a file at the lock path belongs to a process that
\* is inside the lock or died there: one that released it or gave up leaves
\* nothing behind, so only a crash can leave a stale lock.
NoLeakedLock ==
    lockFile # NoProc => pc[lockFile] \in Holding \union {"crashed"}

\* A process that waits for the lock gets it, gives up or dies, whatever the
\* holder does.
BoundedWait ==
    \A p \in Procs : pc[p] \in Waiting ~> pc[p] \notin Waiting

\* A lock left by a crashed process that had written its pid is cleared by any
\* process that goes through the loop, unless the pid was given to another.
StaleLockRecovered ==
    \A p, q \in Procs :
        /\ lockFile = q /\ pidWritten /\ pc[q] = "crashed"
        /\ pc[p] = "open"
        ~> lockFile # q \/ q \in reused \/ pc[p] = "crashed"
=============================================================================
