-------------------------- MODULE SessionControlProofs -------------------------
(***************************************************************************)
(* Type correctness of session control, for every set of calls and         *)
(* sessions, every queue capacity and every environment; and, where the    *)
(* environment satisfies TearsDown, that no session is ever served by two  *)
(* runs: Inv, with the types, is inductive.                                *)
(***************************************************************************)
EXTENDS SessionControl, TLAPS

USE DriverAssumption, RunnerAssumption, ManagerAssumption

-----------------------------------------------------------------------------
(* Queues and their tasks.                                                          *)

\* The rest of a queue, and its head, are of the queue's type.
LEMMA QueueTypes ==
    ASSUME NEW S, NEW q \in Seq(S), q # <<>>
    PROVE  Head(q) \in S /\ Tail(q) \in Seq(S)
  OBVIOUS

\* A queue that is appended to keeps its type.
LEMMA AppendTypes ==
    ASSUME NEW S, NEW q \in Seq(S), NEW e \in S
    PROVE  Append(q, e) \in Seq(S)
  OBVIOUS

\* A queue may be empty.
LEMMA EmptyQueues == <<>> \in Seq(RunnerTask) /\ <<>> \in Seq(ManagerTask)
  OBVIOUS

\* A task put in a runner's queue keeps the queues' type.
LEMMA EnqueueTypes ==
    ASSUME rq \in [Runs -> Seq(RunnerTask)], NEW r,
           NEW op \in {"start", "stop"}, NEW for \in {"manager", "ipc", "nobody"},
           Enqueue(r, op, for)
    PROVE  rq' \in [Runs -> Seq(RunnerTask)]
<1>1. [op |-> op, for |-> for] \in RunnerTask
  BY DEF RunnerTask
<1>2. r \in Runs => Append(rq[r], [op |-> op, for |-> for]) \in Seq(RunnerTask)
  BY <1>1, AppendTypes
<1>3. QED
  BY <1>2 DEF Enqueue

\* A task put in the manager's queue keeps the queue's type.
LEMMA PushTypes ==
    ASSUME mq \in Seq(ManagerTask), NEW op, NEW from,
           [op |-> op, from |-> from] \in ManagerTask, Push(op, from)
    PROVE  mq' \in Seq(ManagerTask)
  BY AppendTypes DEF Push

\* The tasks that are put in the manager's queue.
LEMMA ManagerTasks ==
    /\ \A r \in Runs : [op |-> "start", from |-> r] \in ManagerTask
    /\ \A c \in Calls : [op |-> "stop", from |-> c] \in ManagerTask
    /\ NoTask \in ManagerTask
  BY DEF ManagerTask, NoTask, Calls

\* What the manager's worker takes from its queue names the place its handler starts.
LEMMA ManagerTaskTypes ==
    ASSUME NEW t \in ManagerTask
    PROVE  /\ t.op \in {"start", "stop", "stopAll"}
           /\ t.op # "stopAll" => t.from \in Calls
           /\ t.op = "start" => t.from \in Runs
<1>1. CASE t \in [op : {"start"}, from : Runs]
  BY <1>1 DEF Calls
<1>2. CASE t \in [op : {"stop"}, from : Calls]
  BY <1>2
<1>3. CASE t \in [op : {"stopAll"}, from : {None}]
  BY <1>3
<1>4. QED
  BY <1>1, <1>2, <1>3 DEF ManagerTask

\* An answer keeps the type of the calls' states.
LEMMA AnswerTypes ==
    ASSUME call \in [Calls -> {"new", "waiting", "ok", "err", "lost"}],
           NEW result \in {"ok", "err"}, Answer(result)
    PROVE  call' \in [Calls -> {"new", "waiting", "ok", "err", "lost"}]
  BY DEF Answer

-----------------------------------------------------------------------------
(* The driver's layer.                                                              *)

\* Every step of the driver keeps the types of its variables.
LEMMA DriverStepTypes ==
    ASSUME DriverTypeOK, NEW r, NEW gone \in BOOLEAN,
           \/ DriverStarts(r, gone) \/ DriverFailsToStart(r, gone)
           \/ TearDown(r, gone) \/ TearDownFails(r, gone)
           \/ CancelDriver(r) \/ DaemonsJoined(r) \/ DaemonsLinger(r, gone)
           \/ CommandExits(r) \/ WaitReturns(r, gone)
    PROVE  DriverTypeOK'
  BY DEF DriverTypeOK, DriverStarts, DriverFailsToStart, TearDown, TearDownFails,
         CancelDriver, DaemonsJoined, DaemonsLinger, CommandExits, WaitReturns, driverVars

\* So does every step of session control.
LEMMA DriverTypes == DriverTypeOK /\ [Next]_vars => DriverTypeOK'
<1> SUFFICES ASSUME DriverTypeOK, [Next]_vars PROVE DriverTypeOK'
  OBVIOUS
<1>1. CASE UNCHANGED driverVars
  BY <1>1 DEF DriverTypeOK, driverVars
<1>2. CASE ProcessEnds
  BY <1>2 DEF ProcessEnds, DriverReset, DriverTypeOK, AllRuns
<1>3. CASE MgrStopDriver \/ MgrStopDriverSkipped \/ MgrDrain \/ MgrDrained
  <2>1. (~mctx) \in BOOLEAN
    OBVIOUS
  <2>2. QED
    BY <1>1, <1>3, <2>1, DriverStepTypes
       DEF MgrStopDriver, MgrStopDriverSkipped, MgrDrain, MgrDrained
<1>4. ASSUME NEW r \in Runs, RunnerStep(r) PROVE DriverTypeOK'
  <2>1. Gone(r) \in BOOLEAN
    BY DEF Gone
  <2>2. QED
    BY <1>1, <1>4, <2>1, DriverStepTypes
       DEF RunnerStep, WorkerStep, TakeTask, WorkerEnds, StartDriver, StartDriverFails,
           MarkReady, MarkReadyFails, StopDriver, StopDriverIdempotent, StopDriverFails,
           Drain, Drained, DrainTimesOut, MarkIdle, MarkIdleFails, CommandEnds,
           CommandStopNotify, IPCStopMessage, IPCReadFails, IPCLoopEnds
<1>5. QED
  BY <1>1, <1>2, <1>3, <1>4
     DEF Next, vars, Start, StopManager, StopperStep, SubmitStopAll, StopAllExpires,
         CancelManager, ManagerStopped, ManagerStep, MgrTake, MgrEnds, RefuseStart,
         AdmitStart, ForceIdle, ForceIdleFails, CreateRunner, CreateRunnerFails,
         SubmitStart, StartSucceeds, StartFails, RestoreIdle, RestoreIdleFails, StopIsNOP,
         SubmitStop, SubmitStopFails, StopSucceeds, StopFails, SweepNext, SweepDone,
         RunnerStopStep, CancelRunner, StopForgets, StopKeeps, SweepForgets, CleanUpGoesOn,
         CallStep, Submit, SubmitFails, GiveUp, ReportStep, SessionIdleNotify,
         IPCProcessErrorNotify

-----------------------------------------------------------------------------
(* The manager's worker, and its layer.                                             *)

\* The program counter of the manager's worker keeps fitting its task.
LEMMA NextTaskFits == ManagerTypeOK /\ TaskFits /\ [Next]_vars => TaskFits'
<1> SUFFICES ASSUME ManagerTypeOK, TaskFits, [Next]_vars PROVE TaskFits'
  OBVIOUS
<1> USE DEF TaskFits, StartPC, RunnerStopPC
<1>1. CASE UNCHANGED <<mtask, mpc, mrun>>
  BY <1>1
<1>2. CASE MgrTake
  BY <1>2, QueueTypes, ManagerTaskTypes DEF MgrTake, ManagerTypeOK
<1>3. CASE CreateRunner
  BY <1>3, ManagerTaskTypes DEF CreateRunner, ManagerTypeOK
<1>4. CASE SubmitStop
  BY <1>4, ManagerTaskTypes DEF SubmitStop, ManagerTypeOK, Session
<1>5. CASE SweepNext
  BY <1>5 DEF SweepNext, ManagerTypeOK
<1>6. CASE mpc' \in {"idle", "exit"}
  BY <1>6
<1>7. QED
  BY <1>1, <1>2, <1>3, <1>4, <1>5, <1>6
     DEF Next, vars, managerVars, Start, StopManager, StopperStep, SubmitStopAll,
         StopAllExpires, CancelManager, ManagerStopped, ManagerStep, MgrEnds, RefuseStart,
         AdmitStart, ForceIdle, ForceIdleFails, CreateRunnerFails, SubmitStart,
         StartSucceeds, StartFails, RestoreIdle, RestoreIdleFails, StopIsNOP,
         SubmitStopFails, StopSucceeds, StopFails, SweepDone, RunnerStopStep, CancelRunner,
         MgrStopDriver, MgrStopDriverSkipped, MgrDrain, MgrDrained, StopForgets, StopKeeps,
         SweepForgets, CleanUpGoesOn, MgrGoto, MgrFinish, CallStep, Submit, SubmitFails,
         GiveUp, ReportStep, SessionIdleNotify, IPCProcessErrorNotify, RunnerStep,
         WorkerStep, ProcessEnds

\* The manager's variables keep their types.
LEMMA ManagerTypes ==
    ManagerTypeOK /\ TaskFits /\ [Next]_vars => ManagerTypeOK'
<1> SUFFICES ASSUME ManagerTypeOK, TaskFits, [Next]_vars PROVE ManagerTypeOK'
  OBVIOUS
<1> USE DEF ManagerTypeOK
<1>1. CASE UNCHANGED managerVars
  BY <1>1 DEF managerVars
<1>2. CASE ProcessEnds
  BY <1>2, EmptyQueues, ManagerTasks DEF ProcessEnds, MgrPC
<1>3. CASE Start \/ StopManager \/ StopperStep
  BY <1>3, PushTypes, ManagerTasks
     DEF Start, StopManager, StopperStep, SubmitStopAll, StopAllExpires, CancelManager,
         ManagerStopped, NoTask
<1>4. ASSUME NEW c \in Calls, CallStep(c) PROVE ManagerTypeOK'
  <2>1. CASE Submit(c)
    <3>1. mq' \in Seq(ManagerTask)
      BY <2>1, PushTypes, ManagerTasks DEF Submit
    <3>2. QED
      BY <2>1, <3>1 DEF Submit
  <2>2. QED
    BY <1>4, <2>1 DEF CallStep, SubmitFails, GiveUp
<1>5. ASSUME NEW r \in Runs, ReportStep(r) PROVE ManagerTypeOK'
  BY <1>5, PushTypes, ManagerTasks
     DEF ReportStep, ReportToManager, SessionIdleNotify, IPCProcessErrorNotify, Calls
<1>6. CASE MgrTake
  BY <1>6, QueueTypes, ManagerTaskTypes DEF MgrTake, MgrPC
<1>7. CASE MgrEnds
  BY <1>7, EmptyQueues DEF MgrEnds, MgrPC
<1>8. ASSUME mpc' \in MgrPC,
             UNCHANGED <<life, allow, stopper, mq, mtask, mrun, active, call, over>>
      PROVE  ManagerTypeOK'
  BY <1>8
<1>9. ASSUME NEW result \in {"ok", "err"}, MgrFinish(result), active' = active
      PROVE  ManagerTypeOK'
  BY <1>9, AnswerTypes, ManagerTasks DEF MgrFinish, MgrPC
<1>10. CASE CreateRunner \/ SubmitStop
  BY <1>10, AnswerTypes, ManagerTaskTypes
     DEF CreateRunner, SubmitStop, Session, TaskFits, MgrPC
<1>11. CASE StartSucceeds \/ StopForgets
  BY <1>11, AnswerTypes, ManagerTasks
     DEF StartSucceeds, StopForgets, MgrFinish, TaskFits, StartPC, MgrPC
<1>12. CASE StartFails \/ RestoreIdle \/ RestoreIdleFails \/ SweepNext \/ SweepDone \/ SweepForgets
  BY <1>12, AnswerTypes, ManagerTasks
     DEF StartFails, RestoreIdle, RestoreIdleFails, SweepNext, SweepDone, SweepForgets, MgrPC
<1>13. CASE ManagerStep
  BY <1>6, <1>7, <1>8, <1>9, <1>10, <1>11, <1>12, <1>13
     DEF ManagerStep, RefuseStart, AdmitStart, ForceIdle, ForceIdleFails,
         CreateRunnerFails, SubmitStart, StopIsNOP, SubmitStopFails, StopSucceeds,
         StopFails, RunnerStopStep, CancelRunner, MgrStopDriver, MgrStopDriverSkipped,
         MgrDrain, MgrDrained, StopKeeps, CleanUpGoesOn, MgrGoto, managerVars, MgrPC
<1>14. QED
  BY <1>1, <1>2, <1>3, <1>4, <1>5, <1>13
     DEF Next, vars, RunnerStep, WorkerStep

-----------------------------------------------------------------------------
(* The runner's layer.                                                              *)

\* Every step of a runner keeps the types of its variables.
LEMMA RunnerStepTypes ==
    ASSUME RunnerTypeOK, NEW r \in Runs, RunnerStep(r)
    PROVE  RunnerTypeOK'
<1> USE DEF RunnerTypeOK
<1>1. CASE TakeTask(r)
  <2>1. Head(rq[r]) \in RunnerTask /\ Tail(rq[r]) \in Seq(RunnerTask)
    BY <1>1, QueueTypes DEF TakeTask
  <2>2. QED
    BY <1>1, <2>1 DEF TakeTask, Goto, RunnerTask
<1>2. CASE WorkerEnds(r)
  BY <1>2, EmptyQueues DEF WorkerEnds, Goto
<1>3. CASE CommandStopNotify(r) \/ IPCStopMessage(r)
  <2>1. rq' \in [Runs -> Seq(RunnerTask)]
    BY <1>3, EnqueueTypes DEF CommandStopNotify, IPCStopMessage
  <2>2. QED
    BY <1>3, <2>1 DEF CommandStopNotify, IPCStopMessage
<1>4. CASE IPCReadFails(r) \/ IPCLoopEnds(r) \/ CommandEnds(r) \/ Drain(r)
  BY <1>4 DEF IPCReadFails, IPCLoopEnds, CommandEnds, Drain, runnerVars
<1>5. CASE StartDriver(r) \/ StopDriver(r, LockFree(r)) \/ Drained(r)
  BY <1>5 DEF StartDriver, StopDriver, Drained, Goto
<1>6. CASE StopDriverIdempotent(r, LockFree(r))
  BY <1>6 DEF StopDriverIdempotent, Goto
<1>7. CASE MarkIdle(r)
  <2>1. idleN' \in [Runs -> Nat]
    BY <1>7 DEF MarkIdle
  <2>2. QED
    BY <1>7, <2>1 DEF MarkIdle, Complete, Goto
<1>8. CASE MarkReady(r) \/ MarkReadyFails(r) \/ MarkIdleFails(r)
  BY <1>8 DEF MarkReady, MarkReadyFails, MarkIdleFails, Complete, Goto
<1>9. CASE StartDriverFails(r) \/ StopDriverFails(r, LockFree(r)) \/ DrainTimesOut(r)
  BY <1>9 DEF StartDriverFails, StopDriverFails, DrainTimesOut, Complete, Goto
<1>10. QED
  BY <1>1, <1>2, <1>3, <1>4, <1>5, <1>6, <1>7, <1>8, <1>9 DEF RunnerStep, WorkerStep

\* So does every step of session control.
LEMMA RunnerTypes == TypeOK /\ TaskFits /\ [Next]_vars => RunnerTypeOK'
<1> SUFFICES ASSUME TypeOK, TaskFits, [Next]_vars PROVE RunnerTypeOK'
  OBVIOUS
<1> USE DEF TypeOK, RunnerTypeOK
<1>1. CASE UNCHANGED <<row, runnerVars>> /\ mctx' \in BOOLEAN
  BY <1>1 DEF runnerVars
<1>2. CASE ProcessEnds
  BY <1>2, EmptyQueues DEF ProcessEnds, RunnerReset, AllRuns
<1>3. CASE Start \/ ForceIdle \/ RestoreIdle
  BY <1>3 DEF Start, ForceIdle, RestoreIdle, runnerVars
<1>4. CASE CreateRunner \/ CancelRunner
  BY <1>4 DEF CreateRunner, SpawnRunner, Goto, CancelRunner
<1>5. CASE SubmitStart \/ SubmitStop
  <2>1. rq' \in [Runs -> Seq(RunnerTask)]
    BY <1>5, EnqueueTypes DEF SubmitStart, SubmitStop
  <2>2. QED
    BY <1>5, <2>1 DEF SubmitStart, SubmitStop
<1>6. ASSUME NEW r \in Runs, ReportStep(r) PROVE RunnerTypeOK'
  <2>1. idleN[r] > 0 => idleN[r] - 1 \in Nat
    OBVIOUS
  <2>2. idleN' \in [Runs -> Nat]
    BY <1>6, <2>1 DEF ReportStep, SessionIdleNotify, IPCProcessErrorNotify
  <2>3. QED
    BY <1>6, <2>2 DEF ReportStep, SessionIdleNotify, IPCProcessErrorNotify
<1>7. QED
  BY <1>1, <1>2, <1>3, <1>4, <1>5, <1>6, RunnerStepTypes
     DEF Next, vars, StopManager, StopperStep, SubmitStopAll, StopAllExpires,
         CancelManager, ManagerStopped, ManagerStep, MgrTake, MgrEnds, RefuseStart,
         AdmitStart, ForceIdleFails, CreateRunnerFails, StartSucceeds, StartFails,
         RestoreIdleFails, StopIsNOP, SubmitStopFails, StopSucceeds, StopFails, SweepNext,
         SweepDone, RunnerStopStep, MgrStopDriver, MgrStopDriverSkipped, MgrDrain,
         MgrDrained, StopForgets, StopKeeps, SweepForgets, CleanUpGoesOn, CallStep, Submit,
         SubmitFails, GiveUp

-----------------------------------------------------------------------------
\* The initial states are well typed.
LEMMA InitTypes == Init => TypeOK /\ TaskFits
<1> SUFFICES ASSUME Init PROVE TypeOK /\ TaskFits
  OBVIOUS
<1>1. DriverTypeOK
  BY DEF Init, DriverInit, DriverTypeOK, AllRuns
<1>2. RunnerTypeOK
  BY EmptyQueues DEF Init, RunnerInit, RunnerTypeOK, AllRuns
<1>3. ManagerTypeOK
  BY EmptyQueues, ManagerTasks DEF Init, ManagerTypeOK, MgrPC
<1>4. TaskFits
  BY DEF Init, TaskFits, StartPC, RunnerStopPC
<1>5. QED
  BY <1>1, <1>2, <1>3, <1>4 DEF TypeOK

\* Types are kept by every step that starts with the worker in its place.
LEMMA NextTypes == TypeOK /\ TaskFits /\ [Next]_vars => (TypeOK /\ TaskFits)'
  BY DriverTypes, RunnerTypes, ManagerTypes, NextTaskFits DEF TypeOK

\* The state of session control keeps its type, and the manager's worker is always
\* where the task in hand puts it, whatever the environment does.
THEOREM TypeCorrect == Spec => [](TypeOK /\ TaskFits)
  BY InitTypes, NextTypes, PTL DEF Spec

-----------------------------------------------------------------------------
(* The runners' steps.                                                              *)

\* A runner attaches to its session when it is created, never later.
LEMMA RunnersDoNotAttach ==
    ASSUME TypeOK, NEW r \in Runs, RunnerStep(r)
    PROVE  \A s \in Runs : Attached(s)' => Attached(s)
<1> USE DEF TypeOK, DriverTypeOK, RunnerTypeOK, Attached
<1>1. CASE TakeTask(r)
  <2>1. Head(rq[r]) \in RunnerTask
    BY <1>1, QueueTypes DEF TakeTask
  <2>2. QED
    BY <1>1, <2>1 DEF TakeTask, Goto, driverVars
<1>2. CASE WorkerEnds(r) \/ Drain(r) \/ Drained(r)
  BY <1>2 DEF WorkerEnds, Drain, CancelDriver, Drained, DaemonsJoined, Goto, runnerVars,
              driverVars
<1>3. CASE StartDriver(r) \/ StopDriver(r, LockFree(r)) \/ StopDriverIdempotent(r, LockFree(r))
  BY <1>3 DEF StartDriver, DriverStarts, StopDriver, TearDown, StopDriverIdempotent, Goto,
              driverVars
<1>4. CASE StartDriverFails(r) \/ StopDriverFails(r, LockFree(r)) \/ DrainTimesOut(r)
  BY <1>4 DEF StartDriverFails, DriverFailsToStart, StopDriverFails, TearDownFails,
              DrainTimesOut, DaemonsLinger, Complete, Goto, driverVars
<1>5. CASE MarkReady(r) \/ MarkReadyFails(r) \/ MarkIdle(r) \/ MarkIdleFails(r)
  BY <1>5 DEF MarkReady, MarkReadyFails, MarkIdle, MarkIdleFails, Complete, Goto, driverVars
<1>6. CASE CommandEnds(r) \/ CommandStopNotify(r)
  BY <1>6 DEF CommandEnds, CommandExits, CommandStopNotify, WaitReturns, runnerVars
<1>7. CASE IPCStopMessage(r) \/ IPCReadFails(r) \/ IPCLoopEnds(r)
  BY <1>7 DEF IPCStopMessage, IPCReadFails, IPCLoopEnds, driverVars
<1>8. QED
  BY <1>1, <1>2, <1>3, <1>4, <1>5, <1>6, <1>7 DEF RunnerStep, WorkerStep

\* A run that the manager has to hold.
Owed(r) == HasCommand(r) \/ (mctx /\ Serves(r))

\* A run comes to be held in the manager's hands, when its runner is created: a runner's
\* own steps never bring it up behind the manager's back.
LEMMA RunnersDoNotServe ==
    ASSUME TypeOK, NEW r \in Runs, RunnerStep(r)
    PROVE  /\ UNCHANGED <<rctx, mctx>>
           /\ \A s \in Runs : (Serves(s)' => Serves(s)) /\ (Owed(s)' => Owed(s))
           /\ \A s \in Runs : HasCommand(s)' => HasCommand(s) \/ rctx[s]
<1> USE DEF TypeOK, DriverTypeOK, RunnerTypeOK, Serves, HasCommand, Owed
<1>1. CASE TakeTask(r)
  <2>1. Head(rq[r]) \in RunnerTask
    BY <1>1, QueueTypes DEF TakeTask
  <2>2. QED
    BY <1>1, <2>1 DEF TakeTask, Goto, driverVars
<1>2. CASE WorkerEnds(r) \/ Drain(r) \/ Drained(r)
  BY <1>2 DEF WorkerEnds, Drain, CancelDriver, Drained, DaemonsJoined, Goto, runnerVars,
              driverVars
<1>3. CASE StartDriver(r)
  BY <1>3 DEF StartDriver, DriverStarts, Gone, Goto
<1>9. CASE StopDriver(r, LockFree(r)) \/ StopDriverIdempotent(r, LockFree(r))
  BY <1>9 DEF StopDriver, TearDown, StopDriverIdempotent, Goto, driverVars
<1>4. CASE StartDriverFails(r) \/ StopDriverFails(r, LockFree(r)) \/ DrainTimesOut(r)
  BY <1>4 DEF StartDriverFails, DriverFailsToStart, StopDriverFails, TearDownFails,
              DrainTimesOut, DaemonsLinger, Complete, Goto, driverVars
<1>5. CASE MarkReady(r) \/ MarkReadyFails(r) \/ MarkIdle(r) \/ MarkIdleFails(r)
  BY <1>5 DEF MarkReady, MarkReadyFails, MarkIdle, MarkIdleFails, Complete, Goto, driverVars
<1>6. CASE CommandEnds(r) \/ CommandStopNotify(r)
  BY <1>6 DEF CommandEnds, CommandExits, CommandStopNotify, WaitReturns, runnerVars
<1>7. CASE IPCStopMessage(r) \/ IPCReadFails(r) \/ IPCLoopEnds(r)
  BY <1>7 DEF IPCStopMessage, IPCReadFails, IPCLoopEnds, driverVars
<1>8. QED
  BY <1>1, <1>2, <1>3, <1>4, <1>5, <1>6, <1>7, <1>9 DEF RunnerStep, WorkerStep

-----------------------------------------------------------------------------
(* Commands and their drivers, in every environment.                                *)

\* A command is up only under a driver that counts as running, and past the tear-down of
\* Runner.Stop there is none.
CommandsUp ==
    /\ CommandsHaveDrivers
    /\ mpc \in {"drvStop", "drvCancel"} => ~rctx[mrun]
    /\ mpc = "drvCancel" => ~HasCommand(mrun)

\* The runners keep it so.
LEMMA RunnersCommandsUp ==
    ASSUME TypeOK, TaskFits, CommandsUp, NEW r \in Runs, RunnerStep(r)
    PROVE  CommandsUp'
<1> USE DEF TypeOK, DriverTypeOK, RunnerTypeOK
<1>1. UNCHANGED managerVars
  BY DEF RunnerStep, WorkerStep
<1>2. mpc \in {"drvStop", "drvCancel"} => mrun \in Runs
  BY DEF TaskFits, StartPC, RunnerStopPC
<1>3. /\ mpc' \in {"drvStop", "drvCancel"} => ~rctx'[mrun']
      /\ mpc' = "drvCancel" => ~HasCommand(mrun)'
  BY <1>1, <1>2, RunnersDoNotServe DEF CommandsUp, managerVars, HasCommand
<1>4. CommandsHaveDrivers'
  <2> USE DEF CommandsUp, CommandsHaveDrivers, HasCommand
  <2>1. CASE TakeTask(r)
    <3>1. Head(rq[r]) \in RunnerTask
      BY <2>1, QueueTypes DEF TakeTask
    <3>2. QED
      BY <2>1, <3>1 DEF TakeTask, Goto, driverVars, RunnerTask
  <2>2. CASE WorkerEnds(r) \/ Drain(r) \/ Drained(r)
    BY <2>2 DEF WorkerEnds, Drain, CancelDriver, Drained, DaemonsJoined, Goto, runnerVars,
                driverVars
  <2>3. CASE StartDriver(r)
    BY <2>3 DEF StartDriver, DriverStarts, Goto
  <2>4. CASE StopDriver(r, LockFree(r))
    BY <2>4 DEF StopDriver, TearDown, Goto
  <2>10. CASE StopDriverIdempotent(r, LockFree(r))
    BY <2>10 DEF StopDriverIdempotent, Goto, driverVars
  <2>5. CASE StartDriverFails(r) \/ StopDriverFails(r, LockFree(r)) \/ DrainTimesOut(r)
    BY <2>5 DEF StartDriverFails, DriverFailsToStart, StopDriverFails, TearDownFails,
                DrainTimesOut, DaemonsLinger, Complete, Goto, driverVars
  <2>6. CASE MarkReady(r) \/ MarkReadyFails(r) \/ MarkIdle(r) \/ MarkIdleFails(r)
    BY <2>6 DEF MarkReady, MarkReadyFails, MarkIdle, MarkIdleFails, Complete, Goto,
                driverVars
  <2>7. CASE CommandEnds(r) \/ CommandStopNotify(r)
    BY <2>7 DEF CommandEnds, CommandExits, CommandStopNotify, WaitReturns, runnerVars
  <2>8. CASE IPCStopMessage(r) \/ IPCReadFails(r) \/ IPCLoopEnds(r)
    BY <2>8 DEF IPCStopMessage, IPCReadFails, IPCLoopEnds, driverVars
  <2>9. QED
    BY <2>1, <2>2, <2>3, <2>4, <2>5, <2>6, <2>7, <2>8, <2>10 DEF RunnerStep, WorkerStep
<1>5. QED
  BY <1>3, <1>4 DEF CommandsUp

\* So does every step of session control.
LEMMA CommandsUpNext ==
    ASSUME TypeOK, TaskFits, CommandsUp, [Next]_vars
    PROVE  CommandsUp'
<1> USE DEF TypeOK, DriverTypeOK, RunnerTypeOK, CommandsUp, CommandsHaveDrivers, HasCommand
<1>1. CASE UNCHANGED <<core, cmd, wpc, rctx, mrun>>
           /\ (mpc' \in {"drvStop", "drvCancel"} => mpc' = mpc)
  BY <1>1
<1>2. CASE UNCHANGED <<core, cmd, wpc, rctx>> /\ mpc' \notin {"drvStop", "drvCancel"}
  BY <1>2
<1>3. CASE ProcessEnds
  BY <1>3 DEF ProcessEnds, DriverReset, RunnerReset, AllRuns
<1>4. CASE CreateRunner
  BY <1>4, ManagerTaskTypes
     DEF CreateRunner, SpawnRunner, Goto, driverVars, ManagerTypeOK, TaskFits
<1>5. CASE CancelRunner
  BY <1>5 DEF CancelRunner, MgrGoto, driverVars, TaskFits, StartPC, RunnerStopPC
<1>6. CASE MgrStopDriver
  BY <1>6 DEF MgrStopDriver, TearDown, MgrGoto, runnerVars, TaskFits, StartPC, RunnerStopPC
<1>11. CASE MgrStopDriverSkipped
  BY <1>2, <1>11 DEF MgrStopDriverSkipped, TearDownFails, MgrGoto, runnerVars, driverVars
<1>7. CASE MgrDrain \/ MgrDrained
  BY <1>7 DEF MgrDrain, CancelDriver, MgrDrained, DaemonsJoined, DaemonsLinger, MgrGoto,
              runnerVars, driverVars, managerVars, TaskFits, StartPC, RunnerStopPC
<1>8. ASSUME NEW r \in Runs, RunnerStep(r) PROVE CommandsUp'
  BY <1>8, RunnersCommandsUp
<1>9. CASE MgrTake
  <2>1. mpc' \in {"start", "stop", "stopAll"}
    BY <1>9, QueueTypes, ManagerTaskTypes DEF MgrTake, ManagerTypeOK
  <2>2. QED
    BY <1>2, <1>9, <2>1 DEF MgrTake, driverVars, runnerVars
<1>10. QED
  BY <1>1, <1>2, <1>3, <1>4, <1>5, <1>6, <1>7, <1>8, <1>9, <1>11
     DEF Next, vars, driverVars, runnerVars, managerVars, Start, StopManager, StopperStep,
         SubmitStopAll, StopAllExpires, CancelManager, ManagerStopped, ManagerStep, MgrEnds,
         RefuseStart, AdmitStart, ForceIdle, ForceIdleFails, CreateRunnerFails, SubmitStart,
         StartSucceeds, StartFails, RestoreIdle, RestoreIdleFails, StopIsNOP, SubmitStop,
         SubmitStopFails, StopSucceeds, StopFails, SweepNext, SweepDone, RunnerStopStep,
         StopForgets, StopKeeps, SweepForgets, CleanUpGoesOn, MgrGoto, MgrFinish, CallStep,
         Submit, SubmitFails, GiveUp, ReportStep, SessionIdleNotify, IPCProcessErrorNotify

\* It holds initially.
LEMMA InitCommandsUp == Init => CommandsUp
  BY DEF Init, DriverInit, RunnerInit, AllRuns, CommandsUp, CommandsHaveDrivers, HasCommand

-----------------------------------------------------------------------------
(* Inv: the runners' steps.                                                         *)

\* What Inv says is, among other things, where the commands are.
LEMMA InvCommandsUp == Inv => CommandsUp
  BY DEF Inv, StopIsFinal, CommandsUp

\* Inv is kept by the runners.
LEMMA RunnerStepInv ==
    ASSUME TypeOK, Inv, NEW r \in Runs, RunnerStep(r)
    PROVE  Inv'
<1> USE DEF Inv
<1>1. UNCHANGED managerVars
  BY DEF RunnerStep, WorkerStep
<1>2. StartIsAlone' /\ StopIsActive' /\ ActiveByName' /\ TaskFits'
  BY <1>1 DEF managerVars, StartIsAlone, StopIsActive, ActiveByName, TaskFits, Session
<1>3. HeldRuns'
  BY <1>1, RunnersDoNotServe DEF HeldRuns, Held, Owed, managerVars
<1>4. StopIsFinal'
  <2>1. mpc \in {"drvStop", "drvCancel", "join"} => mrun \in Runs
    BY DEF TaskFits, StartPC, RunnerStopPC
  <2>2. QED
    BY <1>1, <2>1, RunnersDoNotServe DEF StopIsFinal, managerVars, HasCommand
<1>5. CommandsHaveDrivers'
  BY RunnersCommandsUp, InvCommandsUp DEF CommandsUp
<1>6. QED
  BY <1>2, <1>3, <1>4, <1>5

-----------------------------------------------------------------------------
(* Inv: the manager's steps.                                                        *)

\* What Inv depends on, but for the manager's context.
invVars == <<core, cmd, rctx, wpc, ipc, mtask, mpc, mrun, active>>

\* Inv is kept by what changes none of it: calls, reports, and the shutdown's own steps,
\* which may end the manager's context.
LEMMA InvFrame == Inv /\ UNCHANGED invVars /\ (mctx' => mctx) => Inv'
  BY DEF invVars, Inv, TaskFits, StartIsAlone, StopIsActive, ActiveByName, HeldRuns, Held,
         Serves, HasCommand, StopIsFinal, CommandsHaveDrivers, Session

\* What the manager has to hold, when neither the runners nor the drivers move.
LEMMA StillOwed ==
    ASSUME UNCHANGED <<cmd, ipc, wpc, mctx>>, NEW r
    PROVE  Owed(r)' = Owed(r) /\ HasCommand(r)' = HasCommand(r)
  BY DEF Owed, Serves, HasCommand

\* Inv is kept by a step of a handler that is not stopping a driver, if the step leaves
\* the run that a start has created in the hands of that start.
LEMMA HandlerGoesOnInv ==
    ASSUME Inv, CommandsUp', UNCHANGED <<cmd, rctx, wpc, ipc, mctx, active>>,
           TaskFits', StartIsAlone', StopIsActive',
           mpc \notin {"drvCancel", "join"}, mpc' \notin {"drvStop", "drvCancel", "join"},
           mtask.op = "start" /\ mpc \in StartPC =>
               mpc' \in StartPC /\ UNCHANGED <<mtask, mrun>>
    PROVE  Inv'
<1> USE DEF Inv
<1>1. ActiveByName' /\ StopIsFinal'
  BY DEF ActiveByName, StopIsFinal
<1>2. HeldRuns'
  BY StillOwed DEF HeldRuns, Held, Owed
<1>3. CommandsHaveDrivers'
  BY DEF CommandsUp
<1>4. QED
  BY <1>1, <1>2, <1>3

\* A runner that Runner.Stop has given up waiting for need not be held any more.
LEMMA StoppedIsNotOwed ==
    ASSUME TypeOK, TearsDown, Inv, RunnerStopped \/ RunnerStopTimesOut
    PROVE  mrun \in Runs /\ ~Owed(mrun)
<1>1. mrun \in Runs
  BY DEF Inv, TaskFits, StartPC, RunnerStopPC, RunnerStopped, RunnerStopTimesOut
<1>2. ~HasCommand(mrun)
  BY DEF Inv, StopIsFinal, RunnerStopped, RunnerStopTimesOut
<1>3. mctx => wpc[mrun] = "exit" /\ ipc[mrun] \in {"notify", "done"}
  BY DEF RunnerStopped, RunnerStopTimesOut, ThreadsEnded, Stuck, TearsDown
<1>4. QED
  BY <1>1, <1>2, <1>3 DEF Owed, Serves

\* Inv is kept by Runner.Stop and what follows it.
LEMMA RunnerStopInv ==
    ASSUME TypeOK, TearsDown, Inv, TaskFits', CommandsUp', RunnerStopStep
    PROVE  Inv'
<1> USE DEF Inv, TypeOK, ManagerTypeOK
<1>1. StartIsAlone' /\ StopIsActive' /\ ActiveByName'
  BY StoppedIsNotOwed
     DEF RunnerStopStep, CancelRunner, MgrStopDriver, MgrStopDriverSkipped, MgrDrain,
         MgrDrained, StopForgets, StopKeeps, SweepForgets, CleanUpGoesOn, RunnerStopped,
         RunnerStopTimesOut, MgrGoto, MgrFinish, NoTask, managerVars, StartIsAlone,
         StopIsActive, ActiveByName, TaskFits, StartPC, RunnerStopPC, Session
<1>2. HeldRuns'
  <2> USE DEF HeldRuns
  <2>0. ASSUME \A r \in Runs : Owed(r)' => Owed(r), UNCHANGED <<mtask, mrun, active>>,
               mpc \in RunnerStopPC, mpc' \in RunnerStopPC
        PROVE  HeldRuns'
    BY <2>0 DEF Held, Owed, StartPC
  <2>1. CASE CancelRunner
    BY <2>0, <2>1, StillOwed DEF CancelRunner, MgrGoto, RunnerStopPC, driverVars
  <2>2. CASE MgrStopDriver \/ MgrStopDriverSkipped
    <3>1. \A r \in Runs : Owed(r)' => Owed(r)
      BY <2>2 DEF MgrStopDriver, TearDown, MgrStopDriverSkipped, TearDownFails,
                  Owed, Serves, HasCommand, driverVars, runnerVars, DriverTypeOK
    <3>2. QED
      BY <2>0, <2>2, <3>1 DEF MgrStopDriver, MgrStopDriverSkipped, MgrGoto, RunnerStopPC
  <2>3. CASE MgrDrain
    BY <2>0, <2>3, StillOwed DEF MgrDrain, CancelDriver, RunnerStopPC, runnerVars, managerVars
  <2>4. CASE MgrDrained
    BY <2>0, <2>4, StillOwed DEF MgrDrained, DaemonsJoined, DaemonsLinger, MgrGoto,
                RunnerStopPC, driverVars, runnerVars
  <2>5. ASSUME UNCHANGED <<driverVars, runnerVars, mctx>>,
               RunnerStopped \/ RunnerStopTimesOut,
               \A n \in Names : active'[n] = active[n] \/ active[n] = mrun
        PROVE  HeldRuns'
    <3>1. ASSUME NEW r \in Runs, Owed(r)' PROVE active'[SessionOf[r]] = r
      <4>1. Owed(r) /\ r # mrun
        BY <2>5, <3>1, StoppedIsNotOwed, StillOwed DEF driverVars, runnerVars
      <4>2. active[SessionOf[r]] = r /\ SessionOf[r] \in Names
        BY <4>1 DEF Calls, Held, Owed
      <4>3. QED
        BY <2>5, <4>1, <4>2
    <3>2. QED
      BY <3>1 DEF Held, Owed
  <2>6. CASE StopForgets \/ SweepForgets
    <3>1. active[Session] = mrun \/ mtask.op = "stopAll"
      BY <2>6 DEF StopForgets, SweepForgets, RunnerStopped, RunnerStopTimesOut,
                  StopIsActive, RunnerStopPC
    <3>2. active[SessionOf[mrun]] = mrun
      BY <2>6 DEF StopForgets, SweepForgets, RunnerStopped, RunnerStopTimesOut,
                  StopIsActive, RunnerStopPC
    <3>3. QED
      BY <2>5, <2>6, <3>1, <3>2 DEF StopForgets, SweepForgets, MgrFinish
  <2>7. CASE StopKeeps \/ CleanUpGoesOn
    BY <2>5, <2>7 DEF StopKeeps, CleanUpGoesOn, MgrFinish, MgrGoto
  <2>8. QED
    BY <2>1, <2>2, <2>3, <2>4, <2>6, <2>7 DEF RunnerStopStep
<1>3. StopIsFinal'
  <2> USE DEF StopIsFinal, HasCommand
  <2>0. CASE mpc' # "join"
    BY <2>0 DEF CommandsUp
  <2>1. CASE CancelRunner \/ MgrStopDriver \/ MgrDrain
    BY <2>0, <2>1 DEF CancelRunner, MgrStopDriver, MgrDrain, MgrGoto, managerVars
  <2>2. CASE MgrStopDriverSkipped
    <3>1. mrun \in Runs
      BY <2>2 DEF MgrStopDriverSkipped, TaskFits, StartPC, RunnerStopPC
    <3>2. ~HasCommand(mrun)
      BY <2>2, <3>1 DEF MgrStopDriverSkipped, TearDownFails, AbortedByContext, TearsDown,
                        CommandsHaveDrivers
    <3>3. QED
      BY <2>2, <3>2 DEF MgrStopDriverSkipped, TearDownFails, MgrGoto, runnerVars, driverVars
  <2>3. CASE MgrDrained
    BY <2>3 DEF MgrDrained, DaemonsJoined, DaemonsLinger, MgrGoto, runnerVars, driverVars
  <2>4. CASE StopForgets \/ StopKeeps \/ SweepForgets \/ CleanUpGoesOn
    BY <2>0, <2>4 DEF StopForgets, StopKeeps, SweepForgets, CleanUpGoesOn, MgrFinish, MgrGoto
  <2>5. QED
    BY <2>1, <2>2, <2>3, <2>4 DEF RunnerStopStep
<1>4. CommandsHaveDrivers'
  BY DEF CommandsUp
<1>5. QED
  BY <1>1, <1>2, <1>3, <1>4

\* Inv is kept by the handlers of the manager's worker.
LEMMA ManagerStepInv ==
    ASSUME TypeOK, TearsDown, Inv, TaskFits', CommandsUp', ManagerStep
    PROVE  Inv'
<1> USE DEF TypeOK, ManagerTypeOK
<1>1. CASE MgrTake
  <2>1. mpc' \in {"start", "stop", "stopAll"}
    BY <1>1, QueueTypes, ManagerTaskTypes DEF MgrTake
  <2>2. StartIsAlone' /\ StopIsActive'
    BY <2>1 DEF StartIsAlone, StopIsActive, StartPC, RunnerStopPC
  <2>3. QED
    BY <1>1, <2>1, <2>2, HandlerGoesOnInv
       DEF MgrTake, driverVars, runnerVars, StartPC, RunnerStopPC
<1>2. CASE mpc' \in {"idle", "exit"} /\ mpc \notin StartPC
           /\ UNCHANGED <<cmd, rctx, wpc, ipc, mctx, active>>
  <2>1. StartIsAlone' /\ StopIsActive'
    BY <1>2 DEF StartIsAlone, StopIsActive, StartPC, RunnerStopPC
  <2>2. QED
    BY <1>2, <2>1, HandlerGoesOnInv DEF StartPC, RunnerStopPC
<1>3. CASE AdmitStart \/ ForceIdle \/ SubmitStart \/ StartFails \/ SubmitStop
           \/ StopSucceeds \/ SweepNext
  <2>1. StartIsAlone' /\ StopIsActive'
    BY <1>3, ManagerTaskTypes
       DEF AdmitStart, ForceIdle, SubmitStart, StartFails, SubmitStop, StopSucceeds,
           SweepNext, MgrGoto, Inv, TaskFits, StartIsAlone, StopIsActive, ActiveByName,
           StartPC, RunnerStopPC, Session
  <2>2. QED
    BY <1>3, <2>1, HandlerGoesOnInv
       DEF AdmitStart, ForceIdle, SubmitStart, StartFails, SubmitStop, StopSucceeds,
           SweepNext, MgrGoto, driverVars, runnerVars, Inv, TaskFits, StartPC, RunnerStopPC
<1>4. CASE CreateRunner
  <2>1. mtask.op = "start" /\ mtask.from \in Runs /\ active[Session] = None
    BY <1>4, ManagerTaskTypes DEF CreateRunner, Inv, TaskFits, StartIsAlone
  <2>2. StartIsAlone' /\ StopIsActive' /\ ActiveByName' /\ StopIsFinal'
    BY <1>4, <2>1 DEF CreateRunner, Inv, StartIsAlone, StopIsActive, ActiveByName,
                      StopIsFinal, StartPC, RunnerStopPC, Session
  <2>3. HeldRuns'
    <3>1. mrun' = mtask.from /\ mpc' \in StartPC /\ UNCHANGED <<mtask, active, mctx, cmd>>
      BY <1>4 DEF CreateRunner, StartPC, RunnerStopPC, driverVars
    <3>2. \A r \in Runs : r # mtask.from => wpc'[r] = wpc[r] /\ ipc'[r] = ipc[r]
      BY <1>4, <2>1 DEF CreateRunner, SpawnRunner, Goto, RunnerTypeOK
    <3>3. mpc \notin StartPC
      BY <1>4 DEF CreateRunner, StartPC, RunnerStopPC
    <3>4. ASSUME NEW r \in Runs, Owed(r)' PROVE Held(r)'
      <4>1. CASE r = mtask.from
        BY <2>1, <3>1, <4>1 DEF Held
      <4>2. CASE r # mtask.from
        BY <3>1, <3>2, <3>3, <3>4, <4>2 DEF Inv, HeldRuns, Held, Owed, Serves, HasCommand
      <4>3. QED
        BY <4>1, <4>2
    <3>5. QED
      BY <3>4 DEF HeldRuns, Owed
  <2>4. QED
    BY <2>2, <2>3 DEF Inv, CommandsUp
<1>5. CASE StartSucceeds
  <2>1. mtask.op = "start" /\ mrun = mtask.from /\ mrun \in Runs /\ Session \in Names
        /\ active[Session] = None
    BY <1>5, ManagerTaskTypes DEF StartSucceeds, Inv, TaskFits, StartIsAlone, StartPC, Session
  <2>2. StartIsAlone' /\ StopIsActive' /\ ActiveByName' /\ StopIsFinal'
    BY <1>5, <2>1 DEF StartSucceeds, MgrFinish, NoTask, Inv, StartIsAlone, StopIsActive,
                      ActiveByName, StopIsFinal, StartPC, RunnerStopPC, Session
  <2>3. HeldRuns'
    <3>1. ASSUME NEW r \in Runs, Owed(r)' PROVE active'[SessionOf[r]] = r
      <4>1. Owed(r)
        BY <1>5, <3>1, StillOwed DEF StartSucceeds, driverVars, runnerVars
      <4>2. r = mrun \/ active[SessionOf[r]] = r
        BY <4>1 DEF Inv, HeldRuns, Held, Owed
      <4>3. r # mrun => SessionOf[r] # Session
        BY <2>1, <4>2 DEF Calls
      <4>4. active' = [active EXCEPT ![Session] = mrun]
        BY <1>5 DEF StartSucceeds
      <4>5. QED
        BY <2>1, <4>2, <4>3, <4>4 DEF Session
    <3>2. QED
      BY <3>1 DEF HeldRuns, Held, Owed
  <2>4. QED
    BY <2>2, <2>3 DEF Inv, CommandsUp
<1>6. QED
  BY <1>1, <1>2, <1>3, <1>4, <1>5, RunnerStopInv
     DEF ManagerStep, MgrEnds, RefuseStart, ForceIdleFails, CreateRunnerFails, RestoreIdle,
         RestoreIdleFails, StopIsNOP, SubmitStopFails, StopFails, SweepDone, MgrFinish,
         driverVars, runnerVars, StartPC, RunnerStopPC

-----------------------------------------------------------------------------
\* With the types, Inv is inductive.
LEMMA NextInv == TearsDown /\ TypeOK /\ Inv /\ [Next]_vars => Inv'
<1> SUFFICES ASSUME TearsDown, TypeOK, Inv, [Next]_vars PROVE Inv'
  OBVIOUS
<1>1. TaskFits' /\ CommandsUp'
  BY NextTypes, CommandsUpNext, InvCommandsUp DEF Inv
<1>2. CASE ProcessEnds
  BY <1>1, <1>2
     DEF ProcessEnds, DriverReset, RunnerReset, AllRuns, NoTask, Inv, StartIsAlone,
         StopIsActive, ActiveByName, HeldRuns, Held, Serves, HasCommand, StopIsFinal,
         CommandsUp, StartPC, RunnerStopPC
<1>3. ASSUME NEW r \in Runs, IPCProcessErrorNotify(r) PROVE Inv'
  <2>1. \A s \in Runs : Owed(s)' => Owed(s)
    BY <1>3 DEF IPCProcessErrorNotify, Owed, Serves, HasCommand, driverVars, TypeOK,
                RunnerTypeOK
  <2>2. HeldRuns'
    BY <1>3, <2>1 DEF IPCProcessErrorNotify, Inv, HeldRuns, Held, Owed
  <2>3. QED
    BY <1>1, <1>3, <2>2
       DEF IPCProcessErrorNotify, driverVars, Inv, StartIsAlone, StopIsActive,
           ActiveByName, StopIsFinal, HasCommand, CommandsUp, Session
<1>4. CASE UNCHANGED invVars /\ (mctx' => mctx)
  BY <1>4, InvFrame
<1>5. QED
  BY <1>1, <1>2, <1>3, <1>4, RunnerStepInv, ManagerStepInv
     DEF Next, vars, driverVars, runnerVars, managerVars, invVars, Start, StopManager,
         StopperStep, SubmitStopAll, StopAllExpires, CancelManager, ManagerStopped,
         CallStep, Submit, SubmitFails, GiveUp, ReportStep, SessionIdleNotify

\* Inv holds initially.
LEMMA InitInv == Init => Inv
  BY InitTypes, InitCommandsUp
     DEF Init, Inv, CommandsUp, DriverInit, RunnerInit, AllRuns, StartIsAlone, StopIsActive,
         ActiveByName, HeldRuns, Serves, HasCommand, StopIsFinal, RunnerStopPC, StartPC,
         NoTask

\* In the environments that satisfy TearsDown, the manager always knows who serves a
\* session: a run that has a command, or, until the manager's context ends, a thread, is
\* active or in the hands of its start; Runner.Stop, past the tear-down, leaves no command
\* and no start can overtake it.
THEOREM ManagerKnowsHolders == ASSUME TearsDown PROVE Spec => [](TypeOK /\ Inv)
<1>1. Init => TypeOK /\ Inv
  BY InitTypes, InitInv
<1>2. TypeOK /\ Inv /\ [Next]_vars => (TypeOK /\ Inv)'
  BY NextTypes, NextInv DEF Inv
<1>3. QED
  BY <1>1, <1>2, PTL DEF Spec

\* Two runs of one session are not both held.
LEMMA HeldAlone ==
    ASSUME TypeOK, StartIsAlone, NEW r \in Runs, NEW s \in Runs, Held(r), Held(s),
           SessionOf[r] = SessionOf[s]
    PROVE  r = s
<1>1. mtask.op = "start" /\ mpc \in StartPC => active[SessionOf[mrun]] \notin Runs
  BY DEF StartIsAlone, Session, Calls
<1>2. QED
  BY <1>1 DEF Held

\* What the invariant says of two runs of one session.
LEMMA InvExcludes == TypeOK /\ Inv => NoDoubleServe
  BY HeldAlone DEF NoDoubleServe, Inv, HeldRuns

\* In an environment that satisfies TearsDown (a PTY driver whose tear-down works, and
\* threads that end within the time of the bounded waits), no two runs ever have commands
\* of one session, nor, until the manager's context ends, serve it with anything else:
\* whatever calls, reports, IPC messages, failures, expiring contexts and crashes
\* interleave.
THEOREM NeverServedTwice == ASSUME TearsDown PROVE Spec => []NoDoubleServe
<1>1. TypeOK /\ Inv => NoDoubleServe
  BY InvExcludes
<1>2. QED
  BY <1>1, ManagerKnowsHolders, PTL

=============================================================================
