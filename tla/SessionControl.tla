----------------------------- MODULE SessionControl ----------------------------
(***************************************************************************)
(* Correctness of session control: the properties of the composition that  *)
(* module SessionManager specifies, and the fairness its scheduling gives. *)
(***************************************************************************)
EXTENDS SessionManager

\* The environment in which a driver, once torn down, is down: a PTY driver whose
\* tear-down does not fail, and threads that end within the bounded waits.
TearsDown == DriverType = "PTY" /\ Env \cap {"teardown", "slow"} = {}

-----------------------------------------------------------------------------
(* Safety.                                                                          *)

\* No two runs hold the resources of one session at a time: PTY, IPC queue reader and
\* row-writing worker.  (HandleStopSession keeps a runner it could not stop so that
\* the next start is refused; the clean-up of a failed start keeps nothing.)
NoDoubleAttach ==
    \A r, s \in Runs :
        Attached(r) /\ Attached(s) /\ SessionOf[r] = SessionOf[s] => r = s

\* No two runs have a command of one session up at a time, and, until the manager's
\* context ends, no two runs serve it: what an aborted Runner.Stop leaves of a runner is
\* out of action before the next start makes another.
NoDoubleServe ==
    \A r, s \in Runs :
        /\ SessionOf[r] = SessionOf[s]
        /\ \/ HasCommand(r) /\ HasCommand(s)
           \/ mctx /\ Serves(r) /\ Serves(s)
        => r = s

\* While the manager takes starts, a READY row belongs to a run whose driver is up, or
\* whose worker is about to write IDLE, or which the manager is still cleaning up: the
\* API does not offer a session that nothing serves.
ReadyIsBacked ==
    allow => \A n \in Names : row[n] = "READY" =>
        \E r \in Runs :
            /\ SessionOf[r] = n
            /\ core[r] \/ wpc[r] = "markIdle" \/ (mrun = r /\ mtask.op = "start")

\* A command that runs belongs to a runner that can still be stopped: the session's
\* active one, or the one the manager is starting, stopping or cleaning up.
NoOrphan ==
    \A r \in Runs : cmd[r] = "run" => active[SessionOf[r]] = r \/ mrun = r

\* Once the bulk stop of a shutdown has been answered, no run serves a session, and no call
\* that was still queued brings one up: Manager.Stop leaves no command and no thread
\* behind, unless one of its waits expired.  (A driver may still count as running: the
\* sweep cancels the context of a runner's worker that is waiting for the daemons.)
ShutdownIsClean ==
    "expire" \notin Env /\ stopper \in {"cancel", "join", "done"} =>
        \A r \in Runs : ~Serves(r)

\* When a client's StopSession succeeds, the session has no command left and no run that
\* serves it (threads of a runner may still have to notice that the manager's context has
\* ended), and its row is IDLE unless the manager is shutting down: also when the stop
\* was a NOP.
StopAnswerIsTrue ==
    [][\A c \in Stops :
         call[c] = "waiting" /\ call'[c] = "ok" =>
            /\ \A r \in Runs : SessionOf[r] = SessionOf[c] =>
                  ~HasCommand(r) /\ (mctx => ~Serves(r))
            /\ life = "RUNNING" => row[SessionOf[c]] = "IDLE"]_vars

\* A stop task of run r in the manager's queue.
Reported(r) == \E i \in DOMAIN mq : mq[i] = [op |-> "stop", from |-> r]

\* When a client's StartSession succeeds, the row is READY, or the run has ended
\* meanwhile and its report is on the way to the manager, which will unload it.
StartAnswerIsTrue ==
    [][\A c \in Runs :
         call[c] = "waiting" /\ call'[c] = "ok" /\ mctx =>
            \/ row[SessionOf[c]] = "READY"
            \/ idleN[c] > 0
            \/ Reported(c)]_vars

\* A report stops no run that was asked for after the reporting run had completely
\* ended: what is queued behind a finished Runner.Stop is safe from its reports.
OldReportsAreHarmless ==
    [][SubmitStop => mtask.from \notin over[mrun']]_vars

\* A report stops the run that sent it, and no other.
ReportsStopTheirSender ==
    [][SubmitStop /\ mtask.from \in Runs => mrun' = mtask.from]_vars

-----------------------------------------------------------------------------
(* Why NoDoubleServe and NoOrphan hold: their inductive strengthening, in an          *)
(* environment that satisfies TearsDown.                                            *)

RunnerStopPC == {"cancel", "drvStop", "drvCancel", "join"}
StartPC == {"submitStart", "awaitStart"} \cup RunnerStopPC

\* The program counter of the manager's worker fits the task in hand.
TaskFits ==
    /\ mpc \in {"start", "force", "create", "submitStart", "awaitStart", "restore"} =>
           mtask.op = "start"
    /\ mpc \in {"stop", "awaitStop"} => mtask.op = "stop"
    /\ mpc = "stopAll" => mtask.op = "stopAll"
    /\ mpc \in StartPC \cup {"awaitStop"} => mrun \in Runs

\* While a start is under way, its session has no active runner, and the runner in
\* hand is the one the start created.
StartIsAlone ==
    mtask.op = "start" =>
        /\ mpc \in {"force", "create"} \cup StartPC => active[Session] = None
        /\ mpc \in StartPC => mrun = mtask.from

\* While a runner is being stopped, it is still the active one.
StopIsActive ==
    mtask.op # "start" /\ mpc \in RunnerStopPC \cup {"awaitStop"} =>
        /\ active[SessionOf[mrun]] = mrun
        /\ mtask.op = "stop" => SessionOf[mrun] = Session

ActiveByName == \A n \in Names : active[n] # None => SessionOf[active[n]] = n

\* A run is held by the manager when it is active, or in the hands of the start that made
\* it: the next start of the session is refused, and Runner.Stop is still to come.
Held(r) ==
    \/ active[SessionOf[r]] = r
    \/ mtask.op = "start" /\ mpc \in StartPC /\ mrun = r

\* A run that serves its session is held, its command always, its threads until the
\* manager's context ends, when Runner.Stop does not wait for them any more.
HeldRuns == \A r \in Runs : HasCommand(r) \/ (mctx /\ Serves(r)) => Held(r)

\* Runner.Stop, once past the cancel, cannot be overtaken by a start of the driver; once
\* past the tear-down there is no command.
StopIsFinal ==
    /\ mpc \in {"drvStop", "drvCancel", "join"} => ~rctx[mrun]
    /\ mpc \in {"drvCancel", "join"} => ~HasCommand(mrun)

\* A command belongs to a driver that counts as running, so that driver.Stop does not
\* skip it; what a worker waits for in driver.Stop is torn down.
CommandsHaveDrivers ==
    \A r \in Runs :
        /\ HasCommand(r) => core[r]
        /\ wpc[r] = "drain" => cmd[r] = "torn"

Inv ==
    /\ TaskFits
    /\ StartIsAlone
    /\ StopIsActive
    /\ ActiveByName
    /\ HeldRuns
    /\ StopIsFinal
    /\ CommandsHaveDrivers

-----------------------------------------------------------------------------
(* Fairness: the Go scheduler runs every thread that stays able to run, and a       *)
(* select takes a case that stays ready.  Nothing obliges a command to exit, a      *)
(* message to arrive, a caller to give up or a fault to happen.                     *)

RunnerFairness(r) ==
    /\ WF_vars(WorkerStep(r))
    /\ WF_vars(UNCHANGED managerVars /\ CommandStopNotify(r))
    /\ WF_vars(UNCHANGED managerVars /\ Gone(r) /\ (IPCReadFails(r) \/ IPCLoopEnds(r)))
    /\ WF_vars(SessionIdleNotify(r))
    /\ WF_vars(IPCProcessErrorNotify(r))

Fairness ==
    /\ WF_vars(ManagerStep)
    /\ \A r \in Runs : RunnerFairness(r)
    /\ WF_vars(SubmitStopAll)
    /\ WF_vars(CancelManager)
    /\ WF_vars(mpc = "exit" /\ ManagerStopped)
    /\ WF_vars(stopper = "done" /\ ProcessEnds)

FairSpec == Spec /\ Fairness

\* Every call a client waits for is answered, or ends with the process.
CallsReturn == \A c \in Calls : call[c] = "waiting" ~> call[c] # "waiting"

\* A session whose command has ended by itself is unloaded without anybody asking.
EndedCommandIsUnloaded ==
    \A r \in Runs : cmd[r] = "dead" /\ active[SessionOf[r]] = r ~> active[SessionOf[r]] # r

\* A shutdown comes to an end.
ShutdownEnds == life = "STOPPED" ~> stopper = "done"

-----------------------------------------------------------------------------
(* Session control implements exclusive ownership of sessions.                      *)

Ownership == INSTANCE SessionOwnership WITH
    owner <- [n \in Names |-> IF \E r \in Runs : Attached(r) /\ SessionOf[r] = n
                              THEN CHOOSE r \in Runs : Attached(r) /\ SessionOf[r] = n
                              ELSE None],
    spent <- {r \in Runs : wpc[r] # "off"}

\* Every behaviour of session control is one of SessionOwnership.
ImplementsOwnership == Ownership!Spec

=============================================================================
