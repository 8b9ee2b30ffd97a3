----------------------------- MODULE SessionDriver -----------------------------
(***************************************************************************)
(* The session driver (src/session/driver.go, pty_driver.go and            *)
(* docker_driver.go): one run of the session's command, under a PTY or in  *)
(* a Docker container.  The operators below are the steps of driver.Start  *)
(* and driver.Stop and of the daemon that waits for the command; the       *)
(* session runner (module SessionRunner) takes them, under the driver's    *)
(* mutex.                                                                  *)
(*                                                                         *)
(* A run is named by the StartSession call that asked for it, so a run is  *)
(* never started twice and two runs of one session have different names.   *)
(***************************************************************************)
CONSTANTS
    Runs,        \* the StartSession calls; each creates at most one runner, with one driver
    DriverType,  \* "PTY" or "DOCKER"
    Env          \* the events of the environment that an instance allows

\* The events: the command exits by itself; a caller's context ends; the service is
\* told to shut down; the context of the shutdown ends; a StopSession message arrives on
\* the IPC queue; the process is killed; a database transaction fails; a runner or a driver
\* fails to start; a driver fails to tear down; Redis fails; the time of a bounded wait for
\* threads is over while they are still making progress.
Events == {"exit", "giveUp", "shutdown", "expire", "ipcStop", "crash", "db", "startup",
           "teardown", "redis", "slow"}

ASSUME DriverAssumption ==
    /\ DriverType \in {"PTY", "DOCKER"}
    /\ Env \subseteq Events

VARIABLES
    core,    \* core[r]: driver.core is set, the driver counts as running
    cmd,     \* cmd[r]: the command: none, run, dead (ended by itself), torn (torn down)
    dctx,    \* dctx[r]: the driver's working context exists and its own cancel was not called
    waiter   \* waiter[r]: the daemon blocked in core.Wait: off, wait, done

driverVars == <<core, cmd, dctx, waiter>>

AllRuns(v) == [r \in Runs |-> v]

DriverTypeOK ==
    /\ core \in [Runs -> BOOLEAN]
    /\ cmd \in [Runs -> {"none", "run", "dead", "torn"}]
    /\ dctx \in [Runs -> BOOLEAN]
    /\ waiter \in [Runs -> {"off", "wait", "done"}]

DriverInit ==
    /\ core = AllRuns(FALSE)
    /\ cmd = AllRuns("none")
    /\ dctx = AllRuns(FALSE)
    /\ waiter = AllRuns("off")

\* The process ends and takes its memory with it.
DriverReset ==
    /\ core' = AllRuns(FALSE)
    /\ cmd' = AllRuns("none")
    /\ dctx' = AllRuns(FALSE)
    /\ waiter' = AllRuns("off")

-----------------------------------------------------------------------------
(* driver.Start.  `gone` says that the context passed to Start, the runner's, has   *)
(* ended: the driver's own context is its child.  Start begins with calls to Redis, *)
(* which fail on an ended context.                                                  *)

DriverStarts(r, gone) ==
    /\ ~gone
    /\ ~core[r]
    /\ core' = [core EXCEPT ![r] = TRUE]
    /\ cmd' = [cmd EXCEPT ![r] = "run"]
    /\ dctx' = [dctx EXCEPT ![r] = TRUE]
    /\ waiter' = [waiter EXCEPT ![r] = "wait"]

DriverFailsToStart(r, gone) ==
    /\ gone \/ "startup" \in Env
    /\ ~core[r]
    /\ UNCHANGED driverVars

-----------------------------------------------------------------------------
(* driver.Stop: tear the core driver down, cancel the driver's context, wait for    *)
(* the daemons.  A second tear-down closes a PTY that is closed, or removes a       *)
(* container that is gone, and fails; so does any Docker call on an ended context.  *)

AbortedByContext(r, gone) == DriverType = "DOCKER" /\ (gone \/ ~dctx[r])

TearDown(r, gone) ==
    /\ core[r]
    /\ cmd[r] # "torn"
    /\ ~AbortedByContext(r, gone)
    /\ cmd' = [cmd EXCEPT ![r] = "torn"]
    /\ UNCHANGED <<core, dctx, waiter>>

TearDownFails(r, gone) ==
    /\ core[r]
    /\ \/ "teardown" \in Env
       \/ cmd[r] = "torn"
       \/ AbortedByContext(r, gone)
    /\ dctx' = [dctx EXCEPT ![r] = FALSE]
    /\ UNCHANGED <<core, cmd, waiter>>

CancelDriver(r) ==
    /\ dctx[r]
    /\ dctx' = [dctx EXCEPT ![r] = FALSE]
    /\ UNCHANGED <<core, cmd, waiter>>

DaemonsJoined(r) ==
    /\ ~dctx[r]
    /\ waiter[r] = "done"
    /\ core' = [core EXCEPT ![r] = FALSE]
    /\ UNCHANGED <<cmd, dctx, waiter>>

\* The bounded wait gives up: its time is over, or the context it was given, that of
\* whoever called driver.Stop, has ended (`gone`).  The driver still counts as running.
DaemonsLinger(r, gone) ==
    /\ ~dctx[r]
    /\ gone \/ "slow" \in Env
    /\ UNCHANGED driverVars

-----------------------------------------------------------------------------
(* The command, and the daemon that waits for it.                                   *)

CommandExits(r) ==
    /\ "exit" \in Env
    /\ cmd[r] = "run"
    /\ cmd' = [cmd EXCEPT ![r] = "dead"]
    /\ UNCHANGED <<core, dctx, waiter>>

\* core.Wait returns when the command has ended; the Docker driver's also when its
\* context ends.
WaitReturns(r, gone) ==
    /\ waiter[r] = "wait"
    /\ cmd[r] \in {"dead", "torn"} \/ AbortedByContext(r, gone)
    /\ waiter' = [waiter EXCEPT ![r] = "done"]
    /\ UNCHANGED <<core, cmd, dctx>>

\* The daemon reports the end of the command unless the driver's context has ended.
ReportsEnd(r, gone) == dctx[r] /\ ~gone

=============================================================================
