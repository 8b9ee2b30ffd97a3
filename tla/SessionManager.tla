----------------------------- MODULE SessionManager ----------------------------
(***************************************************************************)
(* The session manager (src/session/manager.go): one worker that serves    *)
(* the clients' StartSession and StopSession calls and the runners'        *)
(* reports from one bounded queue, and keeps the map of active runners.    *)
(* The module composes it with the runners (SessionRunner) and their       *)
(* drivers (SessionDriver): Next is the whole of session control, from a   *)
(* client's call to the end of the command.                                *)
(***************************************************************************)
EXTENDS SessionRunner

CONSTANTS
    QueueCap,  \* capacity of the manager's task queue (10 in the code)
    None       \* no runner

ASSUME ManagerAssumption ==
    /\ QueueCap \in Nat \ {0}
    /\ None \notin Calls \cup Names

VARIABLES
    life,     \* the manager's lifecycle: NEW, RUNNING, STOPPED
    allow,    \* allowNewStarts
    stopper,  \* the thread in Manager.Stop: off, submit, wait, cancel, join, done
    mq,       \* the manager's task queue
    mtask,    \* the task the manager's worker is executing
    mpc,      \* where the manager's worker is
    mrun,     \* the runner it has in hand
    active,   \* activeRunners: the runner of each session, or None
    call,     \* call[c]: new, waiting, ok, err, or lost (the caller gave up)
    over      \* history: over[r], the runs that had ended when call r was submitted

managerVars == <<life, allow, stopper, mq, mtask, mpc, mrun, active, call, over>>
vars == <<row, mctx, driverVars, runnerVars, managerVars>>

\* A stop whose `from` is a run is that runner's own report.
ManagerTask ==
    [op : {"start"}, from : Runs] \cup [op : {"stop"}, from : Calls]
    \cup [op : {"stopAll"}, from : {None}]

MgrPC == {"idle", "start", "force", "create", "submitStart", "awaitStart",
          "stop", "awaitStop", "stopAll", "cancel", "drvStop", "drvCancel", "join",
          "restore", "exit"}

ManagerTypeOK ==
    /\ life \in {"NEW", "RUNNING", "STOPPED"}
    /\ allow \in BOOLEAN
    /\ stopper \in {"off", "submit", "wait", "cancel", "join", "done"}
    /\ mq \in Seq(ManagerTask)
    /\ mtask \in ManagerTask
    /\ mpc \in MgrPC
    /\ mrun \in Runs \cup {None}
    /\ active \in [Names -> Runs \cup {None}]
    /\ call \in [Calls -> {"new", "waiting", "ok", "err", "lost"}]
    /\ over \in [Runs -> SUBSET Runs]

TypeOK == DriverTypeOK /\ RunnerTypeOK /\ ManagerTypeOK

NoTask == [op |-> "stopAll", from |-> None]

\* Nothing runs yet; the rows are what an earlier process left behind.
Init ==
    /\ DriverInit
    /\ RunnerInit
    /\ row \in [Names -> {"IDLE", "READY"}]
    /\ mctx = TRUE
    /\ life = "NEW"
    /\ allow = FALSE
    /\ stopper = "off"
    /\ mq = <<>>
    /\ mtask = NoTask
    /\ mpc = "idle"
    /\ mrun = None
    /\ active = [n \in Names |-> None]
    /\ call = [c \in Calls |-> "new"]
    /\ over = [r \in Runs |-> {}]

\* The session the task in hand is about.
Session == SessionOf[mtask.from]

\* Nobody but the thread that asks holds the driver's mutex.
LockFree(r) == wpc[r] # "drain" /\ ~(mrun = r /\ mpc = "drvCancel")

Push(op, from) == mq' = Append(mq, [op |-> op, from |-> from])

\* The result of a client's call, if the task is one and the client still waits.
Answer(result) ==
    call' = [c \in Calls |-> IF /\ c = mtask.from
                                /\ mtask.op = IF c \in Runs THEN "start" ELSE "stop"
                                /\ call[c] = "waiting"
                             THEN result ELSE call[c]]

-----------------------------------------------------------------------------
(* Manager.Start, and the end of the process.                                       *)

\* A bug to look for: the rows an earlier process left READY stay READY.
StartKeepingRows ==
    /\ life = "NEW"
    /\ life' = "RUNNING"
    /\ allow' = TRUE
    /\ UNCHANGED <<row, mctx, driverVars, runnerVars, stopper, mq, mtask, mpc, mrun,
                   active, call, over>>

Start ==
    /\ life = "NEW"
    /\ life' = "RUNNING"
    /\ row' = [n \in Names |-> "IDLE"]
    /\ allow' = TRUE
    /\ UNCHANGED <<mctx, driverVars, runnerVars, stopper, mq, mtask, mpc, mrun,
                   active, call, over>>

\* Killed, or gone after an orderly Stop: only the rows survive.  A new process
\* starts NEW, and clients have to call again.
ProcessEnds ==
    /\ life # "NEW"
    /\ "crash" \in Env \/ stopper = "done"
    /\ DriverReset
    /\ RunnerReset
    /\ mctx' = TRUE
    /\ life' = "NEW"
    /\ allow' = FALSE
    /\ stopper' = "off"
    /\ mq' = <<>>
    /\ mtask' = NoTask
    /\ mpc' = "idle"
    /\ mrun' = None
    /\ active' = [n \in Names |-> None]
    /\ call' = [c \in Calls |-> IF call[c] = "waiting" THEN "lost" ELSE call[c]]
    /\ over' = [r \in Runs |-> {}]
    /\ UNCHANGED row

-----------------------------------------------------------------------------
(* Submitting to the manager's queue.  The servers listen once Start is done.  A    *)
(* sender blocks while the queue is full; once the manager's context has ended it   *)
(* may also fail.                                                                   *)

Submit(c) ==
    /\ call[c] = "new"
    /\ life # "NEW"
    /\ Len(mq) < QueueCap
    /\ Push(IF c \in Runs THEN "start" ELSE "stop", c)
    /\ call' = [call EXCEPT ![c] = "waiting"]
    /\ over' = IF c \in Runs THEN [over EXCEPT ![c] = {r \in Runs : Ended(r)}] ELSE over
    /\ UNCHANGED <<row, mctx, driverVars, runnerVars, life, allow, stopper, mtask, mpc,
                   mrun, active>>

SubmitFails(c) ==
    /\ call[c] = "new"
    /\ ~mctx
    /\ call' = [call EXCEPT ![c] = "err"]
    /\ UNCHANGED <<row, mctx, driverVars, runnerVars, life, allow, stopper, mq, mtask,
                   mpc, mrun, active, over>>

\* The caller's context ends, or the call was not blocking: the task stays queued.
GiveUp(c) ==
    /\ "giveUp" \in Env
    /\ call[c] = "waiting"
    /\ call' = [call EXCEPT ![c] = "lost"]
    /\ UNCHANGED <<row, mctx, driverVars, runnerVars, life, allow, stopper, mq, mtask,
                   mpc, mrun, active, over>>

\* Both reports of a runner submit a stop of the session, by name.
ReportToManager(r) ==
    \/ Len(mq) < QueueCap /\ Push("stop", r)
    \/ ~mctx /\ UNCHANGED mq

\* A bug to look for: the report is sent again and again.
SessionIdleNotifyAgain(r) ==
    /\ ReportToManager(r)
    /\ idleN' = [idleN EXCEPT ![r] = @ - 1]
    /\ UNCHANGED <<row, mctx, driverVars, rctx, rq, wpc, wfor, reply, ipc, life, allow,
                   stopper, mtask, mpc, mrun, active, call, over>>

SessionIdleNotify(r) ==
    /\ idleN[r] > 0
    /\ ReportToManager(r)
    /\ idleN' = [idleN EXCEPT ![r] = @ - 1]
    /\ UNCHANGED <<row, mctx, driverVars, rctx, rq, wpc, wfor, reply, ipc, life, allow,
                   stopper, mtask, mpc, mrun, active, call, over>>

IPCProcessErrorNotify(r) ==
    /\ ipc[r] = "notify"
    /\ ReportToManager(r)
    /\ ipc' = [ipc EXCEPT ![r] = "done"]
    /\ UNCHANGED <<row, mctx, driverVars, rctx, rq, wpc, wfor, reply, idleN, life, allow,
                   stopper, mtask, mpc, mrun, active, call, over>>

-----------------------------------------------------------------------------
(* The manager's worker.                                                            *)

\* A bug to look for: starts that are queued behind the bulk stop are still admitted.
MgrTakeAdmitting ==
    /\ mpc = "idle"
    /\ life # "NEW"
    /\ mq # <<>>
    /\ mtask' = Head(mq)
    /\ mq' = Tail(mq)
    /\ mpc' = Head(mq).op
    /\ UNCHANGED <<row, mctx, driverVars, runnerVars, life, allow, stopper, mrun, active, call, over>>

MgrTake ==
    /\ mpc = "idle"
    /\ life # "NEW"
    /\ mq # <<>>
    /\ mtask' = Head(mq)
    /\ mq' = Tail(mq)
    /\ mpc' = Head(mq).op
    /\ allow' = IF Head(mq).op = "stopAll" THEN FALSE ELSE allow
    /\ UNCHANGED <<row, mctx, driverVars, runnerVars, life, stopper, mrun, active, call, over>>

MgrEnds ==
    /\ mpc = "idle"
    /\ ~mctx
    /\ mpc' = "exit"
    /\ mq' = <<>>
    /\ UNCHANGED <<row, mctx, driverVars, runnerVars, life, allow, stopper, mtask, mrun,
                   active, call, over>>

\* A step of a handler that changes nothing but where the worker is.
MgrGoto(l) ==
    /\ mpc' = l
    /\ UNCHANGED <<life, allow, stopper, mq, mtask, mrun, active, call, over>>

\* The end of a handler.
MgrFinish(result) ==
    /\ Answer(result)
    /\ mpc' = "idle"
    /\ mtask' = NoTask
    /\ mrun' = None
    /\ UNCHANGED <<life, allow, stopper, mq, over>>

-----------------------------------------------------------------------------
(* HandleStartSession.                                                              *)

RefuseStart ==
    /\ mpc = "start"
    /\ \/ ~allow
       \/ active[Session] # None
       \/ "db" \in Env
    /\ MgrFinish("err")
    /\ UNCHANGED <<row, mctx, driverVars, runnerVars, active>>

\* A bug to look for: the active runner of the session is overlooked.
AdmitStartUnchecked ==
    /\ mpc = "start"
    /\ allow
    /\ MgrGoto(IF row[Session] = "READY" THEN "force" ELSE "create")
    /\ UNCHANGED <<row, mctx, driverVars, runnerVars>>

AdmitStart ==
    /\ mpc = "start"
    /\ allow
    /\ active[Session] = None
    /\ MgrGoto(IF row[Session] = "READY" THEN "force" ELSE "create")
    /\ UNCHANGED <<row, mctx, driverVars, runnerVars>>

\* A READY row without a runner is forced IDLE first.
ForceIdle ==
    /\ mpc = "force"
    /\ row' = [row EXCEPT ![Session] = "IDLE"]
    /\ MgrGoto("create")
    /\ UNCHANGED <<mctx, driverVars, runnerVars>>

ForceIdleFails ==
    /\ mpc = "force"
    /\ "db" \in Env
    /\ MgrFinish("err")
    /\ UNCHANGED <<row, mctx, driverVars, runnerVars, active>>

\* runnerFactory and Runner.Start, whose failure is answered before the clean-up.
CreateRunner ==
    /\ mpc = "create"
    /\ mrun' = mtask.from
    /\ \/ /\ SpawnRunner(mtask.from, "idle")
          /\ mpc' = "submitStart"
          /\ UNCHANGED call
       \/ /\ "startup" \in Env
          /\ SpawnRunner(mtask.from, "exit")
          /\ mpc' = "cancel"
          /\ Answer("err")
    /\ UNCHANGED <<row, mctx, driverVars, life, allow, stopper, mq, mtask, active, over>>

CreateRunnerFails ==
    /\ mpc = "create"
    /\ "db" \in Env
    /\ MgrFinish("err")
    /\ UNCHANGED <<row, mctx, driverVars, runnerVars, active>>

\* Runner.StartSession, blocking.  On an ended context the submission may still queue the
\* task, before the wait for its result fails.
SubmitStart ==
    /\ mpc = "submitStart"
    /\ Enqueue(mrun, "start", "manager")
    /\ reply' = "none"
    /\ MgrGoto("awaitStart")
    /\ UNCHANGED <<row, mctx, driverVars, rctx, wpc, wfor, ipc, idleN>>

\* A bug to look for: the runner is registered, and the caller answered, too early.
StartSucceedsEarly ==
    /\ mpc = "awaitStart"
    /\ active' = [active EXCEPT ![Session] = mrun]
    /\ MgrFinish("ok")
    /\ UNCHANGED <<row, mctx, driverVars, runnerVars>>

StartSucceeds ==
    /\ mpc = "awaitStart"
    /\ reply = "ok"
    /\ active' = [active EXCEPT ![Session] = mrun]
    /\ MgrFinish("ok")
    /\ UNCHANGED <<row, mctx, driverVars, runnerVars>>

\* A bug to look for: the runner of a start that failed is not stopped.
StartFailsWithoutStop ==
    /\ \/ mpc = "awaitStart" /\ reply = "err"
       \/ mpc \in {"submitStart", "awaitStart"} /\ ~mctx
    /\ Answer("err")
    /\ mpc' = "restore"
    /\ UNCHANGED <<row, mctx, driverVars, runnerVars, life, allow, stopper, mq, mtask,
                   mrun, active, over>>

\* Answered first; the deferred clean-up, which stops the runner, runs after that.
StartFails ==
    /\ \/ mpc = "awaitStart" /\ reply = "err"
       \/ mpc \in {"submitStart", "awaitStart"} /\ ~mctx
    /\ Answer("err")
    /\ mpc' = "cancel"
    /\ UNCHANGED <<row, mctx, driverVars, runnerVars, life, allow, stopper, mq, mtask,
                   mrun, active, over>>

\* The last step of the clean-up; a failure is only logged.
RestoreIdle ==
    /\ mpc = "restore"
    /\ row' = [row EXCEPT ![Session] = "IDLE"]
    /\ mpc' = "idle"
    /\ mtask' = NoTask
    /\ mrun' = None
    /\ UNCHANGED <<mctx, driverVars, runnerVars, life, allow, stopper, mq, active, call, over>>

RestoreIdleFails ==
    /\ mpc = "restore"
    /\ "db" \in Env
    /\ mpc' = "idle"
    /\ mtask' = NoTask
    /\ mrun' = None
    /\ UNCHANGED <<row, mctx, driverVars, runnerVars, life, allow, stopper, mq, active, call, over>>

-----------------------------------------------------------------------------
(* HandleStopSession.  Runner.StopSession is submitted to the runner's worker; on a *)
(* runner whose context has ended the submission may fail or may queue a task that  *)
(* nobody takes, and on an ended context the wait for the result fails.             *)

\* A bug to look for: a stop that has nothing to do is never answered.
StopIsNOPUnanswered ==
    /\ mpc = "stop"
    /\ active[Session] = None
    /\ mpc' = "idle"
    /\ mtask' = NoTask
    /\ UNCHANGED <<row, mctx, driverVars, runnerVars, life, allow, stopper, mq, mrun,
                   active, call, over>>

StopIsNOP ==
    /\ mpc = "stop"
    /\ active[Session] = None
    /\ MgrFinish("ok")
    /\ UNCHANGED <<row, mctx, driverVars, runnerVars, active>>

SubmitStop ==
    /\ mpc = "stop"
    /\ active[Session] # None
    /\ Enqueue(active[Session], "stop", "manager")
    /\ reply' = "none"
    /\ mrun' = active[Session]
    /\ mpc' = "awaitStop"
    /\ UNCHANGED <<row, mctx, driverVars, rctx, wpc, wfor, ipc, idleN, life, allow, stopper,
                   mq, mtask, active, call, over>>

SubmitStopFails ==
    /\ mpc = "stop"
    /\ active[Session] # None
    /\ Gone(active[Session])
    /\ MgrFinish("err")
    /\ UNCHANGED <<row, mctx, driverVars, runnerVars, active>>

\* A bug to look for: the caller is answered before Runner.Stop.
StopSucceedsEarly ==
    /\ mpc = "awaitStop"
    /\ reply = "ok"
    /\ active' = [active EXCEPT ![Session] = None]
    /\ MgrFinish("ok")
    /\ UNCHANGED <<row, mctx, driverVars, runnerVars>>

StopSucceeds ==
    /\ mpc = "awaitStop"
    /\ reply = "ok"
    /\ MgrGoto("cancel")
    /\ UNCHANGED <<row, mctx, driverVars, runnerVars>>

\* The runner stays active.
StopFails ==
    /\ mpc = "awaitStop"
    /\ reply = "err" \/ ~mctx
    /\ MgrFinish("err")
    /\ UNCHANGED <<row, mctx, driverVars, runnerVars, active>>

-----------------------------------------------------------------------------
(* HandleStopAllSessions: Runner.Stop for every active runner, in any order; the    *)
(* rows stay READY.  (New starts were refused when the task was taken.)             *)

SweepNext ==
    /\ mpc = "stopAll"
    /\ \E n \in Names :
          /\ active[n] # None
          /\ mrun' = active[n]
    /\ mpc' = "cancel"
    /\ UNCHANGED <<row, mctx, driverVars, runnerVars, life, allow, stopper, mq, mtask,
                   active, call, over>>

\* A bug to look for: Manager.Stop is not told that the bulk stop is complete.
SweepDoneSilently ==
    /\ mpc = "stopAll"
    /\ \A n \in Names : active[n] = None
    /\ mpc' = "idle"
    /\ UNCHANGED <<row, mctx, driverVars, runnerVars, life, allow, stopper, mq, mtask, mrun,
                   active, call, over>>

SweepDone ==
    /\ mpc = "stopAll"
    /\ \A n \in Names : active[n] = None
    /\ stopper' = IF stopper = "wait" THEN "cancel" ELSE stopper
    /\ mpc' = "idle"
    /\ UNCHANGED <<row, mctx, driverVars, runnerVars, life, allow, mq, mtask, mrun, active,
                   call, over>>

-----------------------------------------------------------------------------
(* Runner.Stop, on the manager's worker: cancel the runner's context, stop the      *)
(* driver (its errors are only logged), wait for the threads.                       *)

\* A bug to look for: the driver is left to its context.
CancelRunnerOnly ==
    /\ mpc = "cancel"
    /\ rctx' = [rctx EXCEPT ![mrun] = FALSE]
    /\ MgrGoto("join")
    /\ UNCHANGED <<row, mctx, driverVars, rq, wpc, wfor, reply, ipc, idleN>>

CancelRunner ==
    /\ mpc = "cancel"
    /\ rctx' = [rctx EXCEPT ![mrun] = FALSE]
    /\ MgrGoto("drvStop")
    /\ UNCHANGED <<row, mctx, driverVars, rq, wpc, wfor, reply, ipc, idleN>>

MgrStopDriver ==
    /\ mpc = "drvStop"
    /\ LockFree(mrun)
    /\ TearDown(mrun, TRUE)
    /\ MgrGoto("drvCancel")
    /\ UNCHANGED <<row, mctx, runnerVars>>

MgrStopDriverSkipped ==
    /\ mpc = "drvStop"
    /\ LockFree(mrun)
    /\ \/ ~core[mrun] /\ UNCHANGED driverVars
       \/ TearDownFails(mrun, TRUE)
    /\ MgrGoto("join")
    /\ UNCHANGED <<row, mctx, runnerVars>>

MgrDrain ==
    /\ mpc = "drvCancel"
    /\ CancelDriver(mrun)
    /\ UNCHANGED <<row, mctx, runnerVars, managerVars>>

MgrDrained ==
    /\ mpc = "drvCancel"
    /\ DaemonsJoined(mrun) \/ DaemonsLinger(mrun, ~mctx)
    /\ MgrGoto("join")
    /\ UNCHANGED <<row, mctx, runnerVars>>

\* The bounded wait expires although no thread is slow: those that are left wait for
\* room in the manager's queue, which only this worker could make.
Stuck(r) ==
    /\ mctx
    /\ Len(mq) = QueueCap
    /\ wpc[r] = "exit"
    /\ ipc[r] \in {"notify", "done"}
    /\ ipc[r] = "notify" \/ idleN[r] > 0

\* A bug to look for: the threads are not waited for.
RunnerStoppedAtOnce == mpc = "join"

RunnerStopped == mpc = "join" /\ ThreadsEnded(mrun)

\* The wait fails when its time is over, and as soon as the manager's context has ended.
RunnerStopTimesOut ==
    /\ mpc = "join"
    /\ ~mctx \/ (~ThreadsEnded(mrun) /\ ("slow" \in Env \/ Stuck(mrun)))

\* What follows Runner.Stop: a stop forgets the runner only when it succeeded, the
\* bulk stop in any case, and the clean-up of a failed start goes on.
StopForgets ==
    /\ mtask.op = "stop"
    /\ RunnerStopped
    /\ active' = [active EXCEPT ![Session] = None]
    /\ MgrFinish("ok")
    /\ UNCHANGED <<row, mctx, driverVars, runnerVars>>

\* A bug to look for: a runner that could not be stopped is forgotten.
StopForgetsAnyway ==
    /\ mtask.op = "stop"
    /\ RunnerStopTimesOut
    /\ active' = [active EXCEPT ![Session] = None]
    /\ MgrFinish("err")
    /\ UNCHANGED <<row, mctx, driverVars, runnerVars>>

StopKeeps ==
    /\ mtask.op = "stop"
    /\ RunnerStopTimesOut
    /\ MgrFinish("err")
    /\ UNCHANGED <<row, mctx, driverVars, runnerVars, active>>

SweepForgets ==
    /\ mtask.op = "stopAll"
    /\ RunnerStopped \/ RunnerStopTimesOut
    /\ active' = [active EXCEPT ![SessionOf[mrun]] = None]
    /\ mpc' = "stopAll"
    /\ mrun' = None
    /\ UNCHANGED <<row, mctx, driverVars, runnerVars, life, allow, stopper, mq, mtask, call, over>>

CleanUpGoesOn ==
    /\ mtask.op = "start"
    /\ RunnerStopped \/ RunnerStopTimesOut
    /\ MgrGoto("restore")
    /\ UNCHANGED <<row, mctx, driverVars, runnerVars>>

-----------------------------------------------------------------------------
(* Manager.Stop.  Its context may end in either wait.                               *)

StopManager ==
    /\ "shutdown" \in Env
    /\ life = "RUNNING"
    /\ life' = "STOPPED"
    /\ stopper' = "submit"
    /\ UNCHANGED <<row, mctx, driverVars, runnerVars, allow, mq, mtask, mpc, mrun, active,
                   call, over>>

SubmitStopAll ==
    /\ stopper = "submit"
    /\ Len(mq) < QueueCap
    /\ Push("stopAll", None)
    /\ stopper' = "wait"
    /\ UNCHANGED <<row, mctx, driverVars, runnerVars, life, allow, mtask, mpc, mrun, active,
                   call, over>>

StopAllExpires ==
    /\ "expire" \in Env
    /\ stopper \in {"submit", "wait"}
    /\ stopper' = "cancel"
    /\ UNCHANGED <<row, mctx, driverVars, runnerVars, life, allow, mq, mtask, mpc, mrun,
                   active, call, over>>

CancelManager ==
    /\ stopper = "cancel"
    /\ mctx' = FALSE
    /\ stopper' = "join"
    /\ UNCHANGED <<row, driverVars, runnerVars, life, allow, mq, mtask, mpc, mrun, active,
                   call, over>>

ManagerStopped ==
    /\ stopper = "join"
    /\ mpc = "exit" \/ "expire" \in Env
    /\ stopper' = "done"
    /\ UNCHANGED <<row, mctx, driverVars, runnerVars, life, allow, mq, mtask, mpc, mrun,
                   active, call, over>>

-----------------------------------------------------------------------------
WorkerStep(r) ==
    \/ UNCHANGED managerVars /\ TakeTask(r)
    \/ UNCHANGED managerVars /\ WorkerEnds(r)
    \/ UNCHANGED managerVars /\ StartDriver(r)
    \/ UNCHANGED managerVars /\ StartDriverFails(r)
    \/ UNCHANGED managerVars /\ MarkReady(r)
    \/ UNCHANGED managerVars /\ MarkReadyFails(r)
    \/ UNCHANGED managerVars /\ StopDriver(r, LockFree(r))
    \/ UNCHANGED managerVars /\ StopDriverIdempotent(r, LockFree(r))
    \/ UNCHANGED managerVars /\ StopDriverFails(r, LockFree(r))
    \/ UNCHANGED managerVars /\ Drain(r)
    \/ UNCHANGED managerVars /\ Drained(r)
    \/ UNCHANGED managerVars /\ DrainTimesOut(r)
    \/ UNCHANGED managerVars /\ MarkIdle(r)
    \/ UNCHANGED managerVars /\ MarkIdleFails(r)

RunnerStep(r) ==
    \/ WorkerStep(r)
    \/ UNCHANGED managerVars /\ CommandEnds(r)
    \/ UNCHANGED managerVars /\ CommandStopNotify(r)
    \/ UNCHANGED managerVars /\ IPCStopMessage(r)
    \/ UNCHANGED managerVars /\ IPCReadFails(r)
    \/ UNCHANGED managerVars /\ IPCLoopEnds(r)

RunnerStopStep ==
    \/ CancelRunner \/ MgrStopDriver \/ MgrStopDriverSkipped \/ MgrDrain \/ MgrDrained
    \/ StopForgets \/ StopKeeps \/ SweepForgets \/ CleanUpGoesOn

ManagerStep ==
    \/ MgrTake \/ MgrEnds
    \/ RefuseStart \/ AdmitStart \/ ForceIdle \/ ForceIdleFails
    \/ CreateRunner \/ CreateRunnerFails \/ SubmitStart
    \/ StartSucceeds \/ StartFails \/ RestoreIdle \/ RestoreIdleFails
    \/ StopIsNOP \/ SubmitStop \/ SubmitStopFails \/ StopSucceeds \/ StopFails
    \/ SweepNext \/ SweepDone
    \/ RunnerStopStep

CallStep(c) == Submit(c) \/ SubmitFails(c) \/ GiveUp(c)

ReportStep(r) == SessionIdleNotify(r) \/ IPCProcessErrorNotify(r)

StopperStep == SubmitStopAll \/ StopAllExpires \/ CancelManager \/ ManagerStopped

Next ==
    \/ Start \/ ProcessEnds \/ StopManager \/ StopperStep
    \/ ManagerStep
    \/ \E c \in Calls : CallStep(c)
    \/ \E r \in Runs : RunnerStep(r) \/ ReportStep(r)

Spec == Init /\ [][Next]_vars

=============================================================================
