----------------------------- MODULE SessionRunner -----------------------------
(***************************************************************************)
(* The session runner (src/session/runner.go): per run of a session, a     *)
(* worker that executes StartSession and StopSession tasks one at a time,  *)
(* the IPC thread that reads the session's Redis queue, and the goroutines *)
(* that report the session IDLE.  The runner moves the session's database  *)
(* row between IDLE and READY.  The session manager (module                *)
(* SessionManager) creates runners, submits their tasks and stops them.    *)
(***************************************************************************)
EXTENDS SessionDriver, Sequences, Naturals

CONSTANTS
    Stops,      \* the StopSession calls
    Names,      \* the sessions
    SessionOf,  \* the session a call names
    MaxBacklog  \* bound: IPC StopSession messages arrive while a runner has fewer tasks

Calls == Runs \cup Stops

ASSUME RunnerAssumption ==
    /\ Runs \cap Stops = {}
    /\ SessionOf \in [Calls -> Names]
    /\ MaxBacklog \in Nat

VARIABLES
    row,    \* row[n]: the state column of session n: IDLE or READY
    mctx,   \* the manager's working context is live
    rctx,   \* rctx[r]: the runner exists and its own context was not cancelled
    rq,     \* rq[r]: the tasks queued at the runner's worker
    wpc,    \* wpc[r]: where the worker is
    wfor,   \* wfor[r]: who waits for the current task: manager, ipc or nobody
    reply,  \* the reply to the one task the manager waits for
    ipc,    \* ipc[r]: where the IPC thread is
    idleN   \* idleN[r]: goroutines that still have to report the session IDLE

runnerVars == <<rctx, rq, wpc, wfor, reply, ipc, idleN>>

RunnerTask == [op : {"start", "stop"}, for : {"manager", "ipc", "nobody"}]

RunnerTypeOK ==
    /\ row \in [Names -> {"IDLE", "READY"}]
    /\ mctx \in BOOLEAN
    /\ rctx \in [Runs -> BOOLEAN]
    /\ rq \in [Runs -> Seq(RunnerTask)]
    /\ wpc \in [Runs -> {"off", "idle", "start", "markReady", "stop", "drain",
                         "markIdle", "exit"}]
    /\ wfor \in [Runs -> {"manager", "ipc", "nobody"}]
    /\ reply \in {"none", "ok", "err"}
    /\ ipc \in [Runs -> {"off", "poll", "await", "notify", "done"}]
    /\ idleN \in [Runs -> Nat]

RunnerInit ==
    /\ rctx = AllRuns(FALSE)
    /\ rq = AllRuns(<<>>)
    /\ wpc = AllRuns("off")
    /\ wfor = AllRuns("nobody")
    /\ reply = "none"
    /\ ipc = AllRuns("off")
    /\ idleN = AllRuns(0)

RunnerReset ==
    /\ rctx' = AllRuns(FALSE)
    /\ rq' = AllRuns(<<>>)
    /\ wpc' = AllRuns("off")
    /\ wfor' = AllRuns("nobody")
    /\ reply' = "none"
    /\ ipc' = AllRuns("off")
    /\ idleN' = AllRuns(0)

\* The runner's context is a child of the manager's.
Gone(r) == ~rctx[r] \/ ~mctx

Enqueue(r, op, for) == rq' = [rq EXCEPT ![r] = Append(@, [op |-> op, for |-> for])]

Goto(r, l) == wpc' = [wpc EXCEPT ![r] = l]

-----------------------------------------------------------------------------
(* Construction (NewSessionRunner) and Runner.Start.                                *)

\* The worker waits for tasks, or, when Runner.Start fails, is not there at all; the IPC
\* thread is started first, and stays.
SpawnRunner(r, l) ==
    /\ rctx' = [rctx EXCEPT ![r] = TRUE]
    /\ Goto(r, l)
    /\ ipc' = [ipc EXCEPT ![r] = "poll"]
    /\ UNCHANGED <<rq, wfor, reply, idleN>>

-----------------------------------------------------------------------------
(* The worker.  When its context has ended it may still pick up queued tasks, since *)
(* it selects between the two; when it ends, the queue is dropped.                  *)

TakeTask(r) ==
    /\ wpc[r] = "idle"
    /\ rq[r] # <<>>
    /\ Goto(r, Head(rq[r]).op)
    /\ wfor' = [wfor EXCEPT ![r] = Head(rq[r]).for]
    /\ rq' = [rq EXCEPT ![r] = Tail(@)]
    /\ UNCHANGED <<row, mctx, rctx, reply, ipc, idleN, driverVars>>

WorkerEnds(r) ==
    /\ wpc[r] = "idle"
    /\ Gone(r)
    /\ Goto(r, "exit")
    /\ rq' = [rq EXCEPT ![r] = <<>>]
    /\ UNCHANGED <<row, mctx, rctx, wfor, reply, ipc, idleN, driverVars>>

\* The task's OnComplete: the requester, if one still waits, gets the result.
Complete(r, result) ==
    /\ reply' = IF wfor[r] = "manager" THEN result ELSE reply
    /\ ipc' = IF wfor[r] = "ipc" /\ ipc[r] = "await" THEN [ipc EXCEPT ![r] = "poll"] ELSE ipc
    /\ wfor' = [wfor EXCEPT ![r] = "nobody"]
    /\ Goto(r, "idle")

-----------------------------------------------------------------------------
(* HandleStartSession: start the driver, then mark the row READY.                   *)

StartDriver(r) ==
    /\ wpc[r] = "start"
    /\ DriverStarts(r, Gone(r))
    /\ Goto(r, "markReady")
    /\ UNCHANGED <<row, mctx, rctx, rq, wfor, reply, ipc, idleN>>

StartDriverFails(r) ==
    /\ wpc[r] = "start"
    /\ DriverFailsToStart(r, Gone(r))
    /\ Complete(r, "err")
    /\ UNCHANGED <<row, mctx, rctx, rq, idleN>>

MarkReady(r) ==
    /\ wpc[r] = "markReady"
    /\ row' = [row EXCEPT ![SessionOf[r]] = "READY"]
    /\ Complete(r, "ok")
    /\ UNCHANGED <<mctx, rctx, rq, idleN, driverVars>>

\* The driver stays up: tearing it down is left to the manager's clean-up.
MarkReadyFails(r) ==
    /\ "db" \in Env
    /\ wpc[r] = "markReady"
    /\ Complete(r, "err")
    /\ UNCHANGED <<row, mctx, rctx, rq, idleN, driverVars>>

-----------------------------------------------------------------------------
(* HandleStopSession: stop the driver, mark the row IDLE, report it.  `free` says   *)
(* that nobody else holds the driver's mutex.                                       *)

StopDriver(r, free) ==
    /\ wpc[r] = "stop"
    /\ free
    /\ TearDown(r, Gone(r))
    /\ Goto(r, "drain")
    /\ UNCHANGED <<row, mctx, rctx, rq, wfor, reply, ipc, idleN>>

\* A driver that is not running is not an error.
StopDriverIdempotent(r, free) ==
    /\ wpc[r] = "stop"
    /\ free
    /\ ~core[r]
    /\ Goto(r, "markIdle")
    /\ UNCHANGED <<row, mctx, rctx, rq, wfor, reply, ipc, idleN, driverVars>>

StopDriverFails(r, free) ==
    /\ wpc[r] = "stop"
    /\ free
    /\ TearDownFails(r, Gone(r))
    /\ Complete(r, "err")
    /\ UNCHANGED <<row, mctx, rctx, rq, idleN>>

Drain(r) ==
    /\ wpc[r] = "drain"
    /\ CancelDriver(r)
    /\ UNCHANGED <<row, mctx, runnerVars>>

Drained(r) ==
    /\ wpc[r] = "drain"
    /\ DaemonsJoined(r)
    /\ Goto(r, "markIdle")
    /\ UNCHANGED <<row, mctx, rctx, rq, wfor, reply, ipc, idleN>>

\* The wait has the runner's own context, which Runner.Stop cancels.
DrainTimesOut(r) ==
    /\ wpc[r] = "drain"
    /\ DaemonsLinger(r, Gone(r))
    /\ Complete(r, "err")
    /\ UNCHANGED <<row, mctx, rctx, rq, idleN>>

\* A bug to look for: the manager is not told that the session is IDLE.
MarkIdleSilently(r) ==
    /\ wpc[r] = "markIdle"
    /\ row' = [row EXCEPT ![SessionOf[r]] = "IDLE"]
    /\ Complete(r, "ok")
    /\ UNCHANGED <<mctx, rctx, rq, idleN, driverVars>>

\* The report is a goroutine of its own, whoever asked for the stop.
MarkIdle(r) ==
    /\ wpc[r] = "markIdle"
    /\ row' = [row EXCEPT ![SessionOf[r]] = "IDLE"]
    /\ idleN' = [idleN EXCEPT ![r] = @ + 1]
    /\ Complete(r, "ok")
    /\ UNCHANGED <<mctx, rctx, rq, driverVars>>

MarkIdleFails(r) ==
    /\ "db" \in Env
    /\ wpc[r] = "markIdle"
    /\ Complete(r, "err")
    /\ UNCHANGED <<row, mctx, rctx, rq, idleN, driverVars>>

-----------------------------------------------------------------------------
(* The driver's wait daemon asks the worker for a stop when the command has ended.  *)

CommandEnds(r) ==
    /\ CommandExits(r)
    /\ UNCHANGED <<row, mctx, runnerVars>>

CommandStopNotify(r) ==
    /\ WaitReturns(r, Gone(r))
    /\ IF ReportsEnd(r, Gone(r)) THEN Enqueue(r, "stop", "nobody") ELSE UNCHANGED rq
    /\ UNCHANGED <<row, mctx, rctx, wpc, wfor, reply, ipc, idleN>>

-----------------------------------------------------------------------------
(* The IPC thread.  A StopSession message becomes a task; the thread waits for its  *)
(* result when the message asks it to.  A failed read ends the thread with a report *)
(* to the manager, an ended context seen between two messages ends it silently.     *)

IPCStopMessage(r) ==
    /\ "ipcStop" \in Env
    /\ ipc[r] = "poll"
    /\ ~Gone(r)
    /\ Len(rq[r]) + idleN[r] < MaxBacklog
    /\ \E blocking \in BOOLEAN :
          /\ Enqueue(r, "stop", IF blocking THEN "ipc" ELSE "nobody")
          /\ ipc' = IF blocking THEN [ipc EXCEPT ![r] = "await"] ELSE ipc
    /\ UNCHANGED <<row, mctx, rctx, wpc, wfor, reply, idleN, driverVars>>

IPCReadFails(r) ==
    /\ ipc[r] = "poll"
    /\ Gone(r) \/ "redis" \in Env
    /\ ipc' = [ipc EXCEPT ![r] = "notify"]
    /\ UNCHANGED <<row, mctx, rctx, rq, wpc, wfor, reply, idleN, driverVars>>

IPCLoopEnds(r) ==
    /\ ipc[r] \in {"poll", "await"}
    /\ Gone(r)
    /\ ipc' = [ipc EXCEPT ![r] = "done"]
    /\ UNCHANGED <<row, mctx, rctx, rq, wpc, wfor, reply, idleN, driverVars>>

-----------------------------------------------------------------------------
\* A bug to look for: Runner.Stop does not wait for the report.
ThreadsEndedButReport(r) == wpc[r] = "exit" /\ ipc[r] = "done"

\* The threads Runner.Stop waits for have all ended.
ThreadsEnded(r) == wpc[r] = "exit" /\ ipc[r] = "done" /\ idleN[r] = 0

\* Nothing of the run is left in the process.
Ended(r) == ThreadsEnded(r) /\ ~core[r]

\* The run holds resources of its session: the PTY or container, the reader's end of
\* the session's IPC queue, or a worker that still acts on the session's row.
Attached(r) == core[r] \/ ipc[r] \in {"poll", "await"} \/ wpc[r] \notin {"off", "exit"}

\* The run's command was started and not torn down.
HasCommand(r) == cmd[r] \in {"run", "dead"}

\* The run can still act on its session: a command, the reader of its IPC queue, or a
\* worker.  What an aborted wait leaves of a driver that was torn down does not.
Serves(r) == HasCommand(r) \/ ipc[r] \in {"poll", "await"} \/ wpc[r] \notin {"off", "exit"}

=============================================================================
