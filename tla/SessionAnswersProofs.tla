-------------------------- MODULE SessionAnswersProofs --------------------------
(***************************************************************************)
(* What the manager answers is true, what it offers is served, after a     *)
(* shutdown nothing serves a session, and a session has one runner also    *)
(* where runners cannot be stopped: the proofs, for every set of calls and *)
(* sessions and every queue capacity.                                      *)
(***************************************************************************)
EXTENDS SessionOwnershipProofs

USE DriverAssumption, RunnerAssumption, ManagerAssumption

\* The parts of Inv that say whose runner is in hand, and that stand by themselves.
InHandByName == TaskFits /\ StartIsAlone /\ StopIsActive /\ ActiveByName

LEMMA InvNames == Inv => InHandByName
  BY DEF Inv, InHandByName

-----------------------------------------------------------------------------
(* Shutdowns.                                                                       *)

\* Nobody is active any more, nobody becomes active any more, and the manager's worker
\* is where it could not be with a runner in hand.
Swept ==
    /\ ~allow
    /\ \A n \in Names : active[n] = None
    /\ mpc \in {"idle", "start", "stop", "stopAll", "exit"}

\* The bulk stop closes the door before it starts, and the manager's context ends after
\* it, unless its wait expired.
ShutdownOrder ==
    /\ life = "NEW" => mpc = "idle"
    /\ stopper # "off" => life = "STOPPED"
    /\ ~mctx => stopper \in {"join", "done"}
    /\ mtask.op = "stopAll" /\ mpc \in {"stopAll"} \cup RunnerStopPC =>
          ~allow /\ life = "STOPPED"
    /\ "expire" \notin Env /\ stopper \in {"cancel", "join", "done"} => Swept

\* A bulk stop is in the queue only when the manager has been told to stop.
StopAllIsAsked == \A i \in DOMAIN mq : mq[i].op = "stopAll" => life = "STOPPED"

\* What the manager's worker acts on, but for its queue.
workerVars == <<life, stopper, mctx, allow, active, mpc, mtask, mrun>>

\* The manager's worker is not concerned with the runners' steps, nor with the calls.
LEMMA OthersLeaveWorker ==
    ASSUME \/ UNCHANGED vars
           \/ \E c \in Calls : CallStep(c)
           \/ \E r \in Runs : RunnerStep(r) \/ ReportStep(r)
    PROVE  UNCHANGED workerVars
  BY DEF vars, workerVars, CallStep, Submit, SubmitFails, GiveUp, RunnerStep, WorkerStep,
         ReportStep, SessionIdleNotify, IPCProcessErrorNotify, managerVars, TakeTask,
         WorkerEnds, StartDriver, StartDriverFails, MarkReady, MarkReadyFails, StopDriver,
         StopDriverIdempotent, StopDriverFails, Drain, Drained, DrainTimesOut, MarkIdle,
         MarkIdleFails, CommandEnds, CommandStopNotify, IPCStopMessage, IPCReadFails,
         IPCLoopEnds

\* What is put in the queue, and what is taken out of it.
LEMMA QueueSteps ==
    ASSUME TypeOK, [Next]_vars
    PROVE  \/ UNCHANGED mq
           \/ mq' = <<>> /\ (MgrEnds \/ ProcessEnds)
           \/ SubmitStopAll
           \/ MgrTake
           \/ \E c \in Calls : Submit(c)
           \/ \E r \in Runs : ReportStep(r) /\ mq' = Append(mq, [op |-> "stop", from |-> r])
  BY DEF Next, vars, StopperStep, StopAllExpires, CancelManager, ManagerStopped, CallStep,
         SubmitFails, GiveUp, RunnerStep, WorkerStep, ReportStep, SessionIdleNotify,
         IPCProcessErrorNotify, ReportToManager, Push, managerVars, Start, ProcessEnds,
         StopManager, ManagerStep, MgrEnds, RefuseStart, AdmitStart, ForceIdle,
         ForceIdleFails, CreateRunner, CreateRunnerFails, SubmitStart, StartSucceeds,
         StartFails, RestoreIdle, RestoreIdleFails, StopIsNOP, SubmitStop, SubmitStopFails,
         StopSucceeds, StopFails, SweepNext, SweepDone, RunnerStopStep, CancelRunner,
         MgrStopDriver, MgrStopDriverSkipped, MgrDrain, MgrDrained, StopForgets, StopKeeps,
         SweepForgets, CleanUpGoesOn, MgrGoto, MgrFinish

\* The bulk stop is only asked for by a manager that is STOPPED, and stays so while the
\* process lives.
LEMMA StopAllIsAskedNext ==
    ASSUME TypeOK, ShutdownOrder, StopAllIsAsked, [Next]_vars
    PROVE  StopAllIsAsked'
<1>0. mq \in Seq(ManagerTask)
  BY DEF TypeOK, ManagerTypeOK
<1>1. mq' = <<>> \/ (life = "STOPPED" => life' = "STOPPED")
  <2>1. CASE ProcessEnds
    BY <2>1 DEF ProcessEnds
  <2>2. CASE UNCHANGED life
    BY <2>2
  <2>3. QED
    BY <2>1, <2>2, OthersLeaveWorker
       DEF Next, workerVars, Start, StopManager, StopperStep, SubmitStopAll,
           StopAllExpires, CancelManager, ManagerStopped, ManagerStep, MgrTake, MgrEnds,
           RefuseStart, AdmitStart, ForceIdle, ForceIdleFails, CreateRunner,
           CreateRunnerFails, SubmitStart, StartSucceeds, StartFails, RestoreIdle,
           RestoreIdleFails, StopIsNOP, SubmitStop, SubmitStopFails, StopSucceeds,
           StopFails, SweepNext, SweepDone, RunnerStopStep, CancelRunner, MgrStopDriver,
           MgrStopDriverSkipped, MgrDrain, MgrDrained, StopForgets, StopKeeps,
           SweepForgets, CleanUpGoesOn, MgrGoto, MgrFinish, managerVars
<1>2. CASE mq' = mq \/ mq' = <<>>
  BY <1>1, <1>2 DEF StopAllIsAsked
<1>3. CASE SubmitStopAll
  BY <1>3 DEF SubmitStopAll, ShutdownOrder, StopAllIsAsked
<1>4. ASSUME NEW op \in {"start", "stop"}, NEW from,
             mq' = Append(mq, [op |-> op, from |-> from])
      PROVE  StopAllIsAsked'
  <2>1. \A i \in DOMAIN mq' : mq'[i].op = "stopAll" => i \in DOMAIN mq /\ mq'[i] = mq[i]
    BY <1>0, <1>4, AppendNth
  <2>2. mq' # <<>>
    BY <1>0, <1>4
  <2>3. QED
    BY <1>1, <2>1, <2>2 DEF StopAllIsAsked
<1>5. CASE MgrTake
  <2>1. \A i \in DOMAIN mq' : i + 1 \in DOMAIN mq /\ mq'[i] = mq[i + 1]
    BY <1>0, <1>5, TailNth DEF MgrTake
  <2>2. QED
    BY <1>5, <2>1 DEF MgrTake, StopAllIsAsked
<1>6. ASSUME NEW c \in Calls, Submit(c) PROVE StopAllIsAsked'
  <2>1. PICK op \in {"start", "stop"} : mq' = Append(mq, [op |-> op, from |-> c])
    BY <1>6 DEF Submit, Push
  <2>2. QED
    BY <1>4, <2>1
<1>7. ASSUME NEW r \in Runs, mq' = Append(mq, [op |-> "stop", from |-> r])
      PROVE  StopAllIsAsked'
  BY <1>4, <1>7
<1>8. QED
  BY <1>2, <1>3, <1>5, <1>6, <1>7, QueueSteps

\* The shutdown keeps its order.
LEMMA ShutdownOrderNext ==
    ASSUME TypeOK, TaskFits, ShutdownOrder, StopAllIsAsked, [Next]_vars
    PROVE  ShutdownOrder'
<1> USE DEF ShutdownOrder, Swept
<1>1. CASE UNCHANGED workerVars
  BY <1>1 DEF workerVars
<1>2. CASE Start \/ ProcessEnds \/ StopManager
  BY <1>2 DEF Start, ProcessEnds, StopManager, RunnerStopPC
<1>3. CASE StopperStep
  BY <1>3 DEF StopperStep, SubmitStopAll, StopAllExpires, CancelManager, ManagerStopped
<1>4. CASE MgrTake
  <2>1. /\ Head(mq) \in ManagerTask
        /\ Head(mq).op = "stopAll" => life = "STOPPED"
    <3>1. mq \in Seq(ManagerTask) /\ mq # <<>>
      BY <1>4 DEF MgrTake, TypeOK, ManagerTypeOK
    <3>2. QED
      BY <3>1, QueueTypes, TailNth DEF StopAllIsAsked
  <2>2. PICK t : t = Head(mq) /\ t.op \in {"start", "stop", "stopAll"}
    BY <2>1, ManagerTaskTypes
  <2>3. /\ mpc = "idle" /\ mtask' = t /\ mpc' = t.op
        /\ allow' = IF t.op = "stopAll" THEN FALSE ELSE allow
        /\ UNCHANGED <<life, stopper, mctx, active>> /\ life # "NEW"
    BY <1>4, <2>2 DEF MgrTake
  <2>4. QED
    BY <2>1, <2>2, <2>3 DEF RunnerStopPC
<1>5. CASE MgrEnds \/ RefuseStart \/ AdmitStart \/ ForceIdle \/ ForceIdleFails \/ CreateRunner
           \/ CreateRunnerFails \/ SubmitStart \/ StartSucceeds
  BY <1>5 DEF MgrEnds, RefuseStart, AdmitStart, ForceIdle, ForceIdleFails, CreateRunner,
              CreateRunnerFails, SubmitStart, StartSucceeds, MgrGoto, MgrFinish, TaskFits,
              RunnerStopPC
<1>6. CASE StartFails \/ RestoreIdle \/ RestoreIdleFails \/ StopIsNOP \/ StopSucceeds
           \/ StopFails
  BY <1>6 DEF StartFails, RestoreIdle, RestoreIdleFails, StopIsNOP, StopSucceeds,
              StopFails, MgrGoto, MgrFinish, TaskFits, RunnerStopPC
<1>10. CASE SubmitStop \/ SubmitStopFails
  <2>1. mpc = "stop" => Session \in Names
    BY ManagerTaskTypes DEF TaskFits, Session, TypeOK, ManagerTypeOK
  <2>2. QED
    BY <1>10, <2>1 DEF SubmitStop, SubmitStopFails, MgrFinish, RunnerStopPC
<1>7. CASE SweepNext \/ SweepDone
  BY <1>7 DEF SweepNext, SweepDone, TaskFits, RunnerStopPC
<1>8. CASE RunnerStopStep
  <2>1. CASE CancelRunner \/ MgrStopDriver \/ MgrStopDriverSkipped \/ MgrDrain \/ MgrDrained
    <3>1. /\ UNCHANGED <<life, stopper, mctx, allow, active, mtask>>
          /\ mpc \in RunnerStopPC /\ mpc' \in RunnerStopPC
      BY <2>1 DEF CancelRunner, MgrStopDriver, MgrStopDriverSkipped, MgrDrain, MgrDrained,
                  MgrGoto, managerVars, RunnerStopPC
    <3>2. QED
      BY <3>1 DEF RunnerStopPC
  <2>2. CASE StopForgets \/ StopKeeps \/ SweepForgets \/ CleanUpGoesOn
    BY <2>2 DEF StopForgets, StopKeeps, SweepForgets, CleanUpGoesOn, MgrGoto, MgrFinish,
                RunnerStopped, RunnerStopTimesOut, RunnerStopPC
  <2>3. QED
    BY <1>8, <2>1, <2>2 DEF RunnerStopStep
<1>9. QED
  BY <1>1, <1>2, <1>3, <1>4, <1>5, <1>6, <1>7, <1>8, <1>10, OthersLeaveWorker
     DEF Next, ManagerStep

\* No run begins to serve a session but when its runner is created.
LEMMA ServingBegins ==
    ASSUME TypeOK, [Next]_vars
    PROVE  CreateRunner \/ \A r \in Runs : Serves(r)' => Serves(r)
<1> USE DEF TypeOK, DriverTypeOK, RunnerTypeOK, Serves, HasCommand
<1>1. CASE UNCHANGED <<cmd, ipc, wpc>>
  BY <1>1
<1>2. CASE ProcessEnds
  BY <1>2 DEF ProcessEnds, DriverReset, RunnerReset, AllRuns
<1>3. ASSUME NEW r \in Runs, RunnerStep(r) PROVE \A s \in Runs : Serves(s)' => Serves(s)
  BY <1>3, RunnersDoNotServe
<1>4. ASSUME NEW r \in Runs, ReportStep(r) PROVE \A s \in Runs : Serves(s)' => Serves(s)
  BY <1>4 DEF ReportStep, SessionIdleNotify, IPCProcessErrorNotify, driverVars
<1>5. CASE MgrStopDriver
  BY <1>5 DEF MgrStopDriver, TearDown, runnerVars
<1>6. CASE ManagerStep /\ ~CreateRunner /\ ~MgrStopDriver
  <2>1. UNCHANGED <<cmd, ipc, wpc>>
    BY <1>6
       DEF ManagerStep, MgrTake, MgrEnds, RefuseStart, AdmitStart, ForceIdle,
         ForceIdleFails, CreateRunnerFails, SubmitStart, StartSucceeds, StartFails,
         RestoreIdle, RestoreIdleFails, StopIsNOP, SubmitStop, SubmitStopFails,
         StopSucceeds, StopFails, SweepNext, SweepDone, RunnerStopStep, CancelRunner,
         MgrStopDriverSkipped, TearDownFails, MgrDrain, CancelDriver, MgrDrained,
         DaemonsJoined, DaemonsLinger, StopForgets, StopKeeps, SweepForgets,
         CleanUpGoesOn, runnerVars, driverVars
  <2>2. QED
    BY <1>1, <2>1
<1>7. QED
  BY <1>1, <1>2, <1>3, <1>4, <1>5, <1>6
     DEF Next, vars, Start, StopManager, StopperStep, SubmitStopAll, StopAllExpires,
         CancelManager, ManagerStopped, CallStep, Submit, SubmitFails, GiveUp, runnerVars,
         driverVars

\* Manager.Stop gets past the bulk stop when the sweep is done, or when its wait expires.
LEMMA StopperAdvances ==
    ASSUME TypeOK, [Next]_vars, "expire" \notin Env, stopper' \in {"cancel", "join", "done"}
    PROVE  stopper \in {"cancel", "join", "done"} \/ (SweepDone /\ stopper = "wait")
<1>1. CASE UNCHANGED stopper
  BY <1>1
<1>2. CASE ProcessEnds \/ StopManager \/ StopperStep \/ SweepDone
  BY <1>2 DEF ProcessEnds, StopManager, StopperStep, SubmitStopAll, StopAllExpires,
              CancelManager, ManagerStopped, SweepDone
<1>3. QED
  BY <1>1, <1>2, OthersLeaveWorker
     DEF Next, workerVars, Start, ManagerStep, MgrTake, MgrEnds, RefuseStart, AdmitStart,
         ForceIdle, ForceIdleFails, CreateRunner, CreateRunnerFails, SubmitStart,
         StartSucceeds, StartFails, RestoreIdle, RestoreIdleFails, StopIsNOP, SubmitStop,
         SubmitStopFails, StopSucceeds, StopFails, SweepNext, RunnerStopStep, CancelRunner,
         MgrStopDriver, MgrStopDriverSkipped, MgrDrain, MgrDrained, StopForgets, StopKeeps,
         SweepForgets, CleanUpGoesOn, MgrGoto, MgrFinish, managerVars

\* Nothing serves when the sweep is done, while the manager's context is still live, and
\* nothing begins to serve after that.
LEMMA ShutdownIsCleanNext ==
    ASSUME TypeOK, Inv, ShutdownOrder, ShutdownIsClean, [Next]_vars
    PROVE  ShutdownIsClean'
<1> SUFFICES ASSUME "expire" \notin Env, stopper' \in {"cancel", "join", "done"},
                    NEW r \in Runs, Serves(r)'
             PROVE  FALSE
  BY DEF ShutdownIsClean
<1>1. CASE stopper \in {"cancel", "join", "done"}
  <2>1. ~Serves(r)
    BY <1>1 DEF ShutdownIsClean
  <2>2. ~CreateRunner
    BY <1>1 DEF ShutdownOrder, Swept, CreateRunner
  <2>3. QED
    BY <2>1, <2>2, ServingBegins
<1>2. CASE SweepDone /\ stopper = "wait"
  <2>1. mctx /\ mpc = "stopAll" /\ Serves(r)
    BY <1>2 DEF ShutdownOrder, SweepDone, Serves, HasCommand, driverVars, runnerVars
  <2>2. active[SessionOf[r]] = r
    BY <2>1 DEF Inv, HeldRuns, Held, StartPC, RunnerStopPC
  <2>3. QED
    BY <1>2, <2>2 DEF SweepDone, Calls
<1>3. QED
  BY <1>1, <1>2, StopperAdvances

\* Whatever the order in which calls, ends of commands and the shutdown arrive, when the
\* bulk stop is done no run serves a session, and nothing that is still in the manager's
\* queue brings one up: Manager.Stop leaves no command and no working thread behind, where
\* no wait of its own expires.
THEOREM ShutdownLeavesNothing == ASSUME TearsDown PROVE Spec => []ShutdownIsClean
<1>1. Init => ShutdownOrder /\ StopAllIsAsked /\ ShutdownIsClean
  BY DEF Init, ShutdownOrder, StopAllIsAsked, RunnerStopPC, ShutdownIsClean
<1>2. TypeOK /\ Inv /\ ShutdownOrder /\ StopAllIsAsked /\ [Next]_vars
          => ShutdownOrder' /\ StopAllIsAsked'
  BY ShutdownOrderNext, StopAllIsAskedNext DEF Inv
<1>3. TypeOK /\ Inv /\ ShutdownOrder /\ ShutdownIsClean /\ [Next]_vars => ShutdownIsClean'
  BY ShutdownIsCleanNext
<1>4. QED
  BY <1>1, <1>2, <1>3, ManagerKnowsHolders, PTL DEF Spec

-----------------------------------------------------------------------------
(* Reports of runs that have ended.                                                 *)

\* A runner that is active, or that the manager's worker has in hand, was started.
HasBegun ==
    /\ \A n \in Names : active[n] # None => ~Off(active[n])
    /\ mpc \in StartPC \cup {"awaitStop"} => ~Off(mrun)

\* Between tasks the manager's worker has none in hand.
NoTaskAtRest == mpc \in {"idle", "exit"} => mtask.op = "stopAll"

\* The start of run a is in the queue, behind every report of run r that is there too.
Ahead(r, a) ==
    \E i \in DOMAIN mq :
        /\ mq[i] = [op |-> "start", from |-> a]
        /\ \A j \in DOMAIN mq : mq[j] = [op |-> "stop", from |-> r] => j < i

\* The manager has nothing to do any more for a report of run r.
AllTaken(r) ==
    /\ \A j \in DOMAIN mq : mq[j] # [op |-> "stop", from |-> r]
    /\ mtask # [op |-> "stop", from |-> r]

\* A run that had ended when a start was submitted has ended, and its reports are ahead of
\* the start, or have been taken.
ReportsComeFirst ==
    \A a \in Runs : \A r \in over[a] : Ended(r) /\ (Ahead(r, a) \/ AllTaken(r))

\* Runners are begun by CreateRunner only.
LEMMA WorkersBegin ==
    ASSUME TypeOK, TaskFits, [Next]_vars
    PROVE  ProcessEnds \/ CreateRunner \/ \A r \in Runs : Off(r)' <=> Off(r)
<1>1. ManagerStep => CreateRunner \/ UNCHANGED wpc
  BY DEF ManagerStep, MgrTake, MgrEnds, RefuseStart, AdmitStart, ForceIdle, ForceIdleFails,
         CreateRunnerFails, SubmitStart, StartSucceeds, StartFails, RestoreIdle,
         RestoreIdleFails, StopIsNOP, SubmitStop, SubmitStopFails, StopSucceeds,
         StopFails, SweepNext, SweepDone, RunnerStopStep, CancelRunner, MgrStopDriver,
         MgrStopDriverSkipped, MgrDrain, MgrDrained, StopForgets, StopKeeps,
         SweepForgets, CleanUpGoesOn, runnerVars
<1>2. ASSUME NEW r \in Runs, RunnerStep(r) PROVE \A s \in Runs : Off(s)' <=> Off(s)
  BY <1>2, RunnersSettle DEF Settled
<1>3. CASE UNCHANGED wpc
  BY <1>3 DEF Off
<1>4. QED
  BY <1>1, <1>2, <1>3
     DEF Next, vars, Start, StopManager, StopperStep, SubmitStopAll, StopAllExpires,
         CancelManager, ManagerStopped, CallStep, Submit, SubmitFails, GiveUp, ReportStep,
         SessionIdleNotify, IPCProcessErrorNotify, runnerVars

\* Only runners that were started are ever active or in hand.
LEMMA HasBegunNext ==
    ASSUME TypeOK, TaskFits, HasBegun, [Next]_vars
    PROVE  HasBegun'
<1> USE DEF HasBegun
<1>1. CASE ProcessEnds
  BY <1>1 DEF ProcessEnds, StartPC, RunnerStopPC
<1>2. CASE CreateRunner
  <2>1. mtask.from \in Runs
    BY <1>2, ManagerTaskTypes DEF CreateRunner, TaskFits, TypeOK, ManagerTypeOK
  <2>2. QED
    BY <1>2, <2>1 DEF CreateRunner, SpawnRunner, Goto, Off, TypeOK, RunnerTypeOK, ManagerTypeOK
<1>3. ASSUME \A r \in Runs : Off(r)' <=> Off(r),
             \A n \in Names : /\ active'[n] \in {None, active[n], mrun}
                              /\ active'[n] \in Runs \cup {None},
             \A n \in Names : active'[n] = mrun /\ active[n] # mrun =>
                 mpc \in StartPC \cup {"awaitStop"},
             mpc' \in StartPC \cup {"awaitStop"} =>
                 /\ mrun' \in Runs
                 /\ \/ mpc \in StartPC \cup {"awaitStop"} /\ mrun' = mrun
                    \/ \E n \in Names : mrun' = active[n]
      PROVE  HasBegun'
  BY <1>3 DEF Off, Calls
<1>4. TypeOK' /\ TaskFits'
  BY NextTypes
<1>5. /\ active \in [Names -> Runs \cup {None}] /\ active' \in [Names -> Runs \cup {None}]
      /\ mpc' \in StartPC \cup {"awaitStop"} => mrun' \in Runs
      /\ mpc = "stop" => Session \in Names
  BY <1>4, ManagerTaskTypes DEF TypeOK, ManagerTypeOK, TaskFits, Session
<1>6. CASE UNCHANGED <<active, mpc, mrun>>
  BY <1>1, <1>2, <1>3, <1>5, <1>6, WorkersBegin
<1>7. CASE ManagerStep /\ ~CreateRunner
  <2>1. /\ \A n \in Names : active'[n] \in {None, active[n], mrun}
        /\ \A n \in Names : active'[n] = mrun /\ active[n] # mrun =>
                 mpc \in StartPC \cup {"awaitStop"}
    <3>1. CASE StartSucceeds
      BY <3>1, <1>5 DEF StartSucceeds, StartPC
    <3>2. CASE StopForgets \/ SweepForgets
      BY <3>2, <1>5 DEF StopForgets, SweepForgets, RunnerStopped, RunnerStopTimesOut,
                        StartPC, RunnerStopPC
    <3>3. CASE UNCHANGED active
      BY <3>3
    <3>4. QED
      BY <1>7, <3>1, <3>2, <3>3
         DEF ManagerStep, MgrTake, MgrEnds, RefuseStart, AdmitStart, ForceIdle,
         ForceIdleFails, CreateRunnerFails, SubmitStart, StartFails, RestoreIdle,
         RestoreIdleFails, StopIsNOP, SubmitStop, SubmitStopFails, StopSucceeds,
         StopFails, SweepNext, SweepDone, RunnerStopStep, CancelRunner, MgrStopDriver,
         MgrStopDriverSkipped, MgrDrain, MgrDrained, StopKeeps, CleanUpGoesOn, MgrGoto,
         managerVars
  <2>2. mpc' \in StartPC \cup {"awaitStop"} =>
           \/ mpc \in StartPC \cup {"awaitStop"} /\ mrun' = mrun
           \/ \E n \in Names : mrun' = active[n]
    <3>1. CASE MgrTake
      <4>1. mpc' \in {"start", "stop", "stopAll"}
        BY <3>1, QueueTypes, ManagerTaskTypes DEF MgrTake, TypeOK, ManagerTypeOK
      <4>2. QED
        BY <4>1 DEF StartPC, RunnerStopPC
    <3>2. QED
      BY <1>5, <1>7, <3>1 DEF ManagerStep, MgrEnds, RefuseStart, AdmitStart, ForceIdle,
         ForceIdleFails, CreateRunnerFails, SubmitStart, StartSucceeds, StartFails,
         RestoreIdle, RestoreIdleFails, StopIsNOP, SubmitStop, SubmitStopFails,
         StopSucceeds, StopFails, SweepNext, SweepDone, RunnerStopStep, CancelRunner,
         MgrStopDriver, MgrStopDriverSkipped, MgrDrain, MgrDrained, StopForgets, StopKeeps,
         SweepForgets, CleanUpGoesOn, MgrGoto, MgrFinish, managerVars, StartPC,
         RunnerStopPC, RunnerStopped, RunnerStopTimesOut
  <2>3. QED
    BY <1>1, <1>3, <1>5, <1>7, <2>1, <2>2, WorkersBegin
<1>8. QED
  BY <1>1, <1>2, <1>6, <1>7, OthersLeaveWorker
     DEF Next, Start, StopManager, StopperStep, SubmitStopAll, StopAllExpires,
         CancelManager, ManagerStopped, workerVars

\* The task in hand changes when one is taken, and when it is done.
LEMMA TaskSteps ==
    ASSUME [Next]_vars
    PROVE  MgrTake \/ mtask' = mtask \/ mtask' = NoTask
  BY OthersLeaveWorker
     DEF Next, workerVars, Start, ProcessEnds, StopManager, StopperStep, SubmitStopAll,
         StopAllExpires, CancelManager, ManagerStopped, ManagerStep, MgrEnds, RefuseStart,
         AdmitStart, ForceIdle, ForceIdleFails, CreateRunner, CreateRunnerFails,
         SubmitStart, StartSucceeds, StartFails, RestoreIdle, RestoreIdleFails, StopIsNOP,
         SubmitStop, SubmitStopFails, StopSucceeds, StopFails, SweepNext, SweepDone,
         RunnerStopStep, CancelRunner, MgrStopDriver, MgrStopDriverSkipped, MgrDrain,
         MgrDrained, StopForgets, StopKeeps, SweepForgets, CleanUpGoesOn, MgrGoto,
         MgrFinish, managerVars

\* The manager's worker puts its task away when it is at rest.
LEMMA NoTaskAtRestNext ==
    ASSUME TypeOK, TaskFits, NoTaskAtRest, [Next]_vars
    PROVE  NoTaskAtRest'
<1> USE DEF NoTaskAtRest, NoTask
<1>1. CASE UNCHANGED workerVars
  BY <1>1 DEF workerVars
<1>2. CASE MgrTake
  <2>1. mpc' \in {"start", "stop", "stopAll"}
    BY <1>2, QueueTypes, ManagerTaskTypes DEF MgrTake, TypeOK, ManagerTypeOK
  <2>2. QED
    BY <2>1
<1>3. CASE ManagerStep /\ ~MgrTake
  <2>1. \/ mtask' = NoTask
        \/ mpc' \notin {"idle", "exit"}
        \/ mtask' = mtask /\ mpc \in {"idle", "stopAll"}
    BY <1>3
       DEF ManagerStep, MgrEnds, RefuseStart, AdmitStart, ForceIdle, ForceIdleFails,
         CreateRunner, CreateRunnerFails, SubmitStart, StartSucceeds, StartFails,
         RestoreIdle, RestoreIdleFails, StopIsNOP, SubmitStop, SubmitStopFails,
         StopSucceeds, StopFails, SweepNext, SweepDone, RunnerStopStep, CancelRunner,
         MgrStopDriver, MgrStopDriverSkipped, MgrDrain, MgrDrained, StopForgets, StopKeeps,
         SweepForgets, CleanUpGoesOn, MgrGoto, MgrFinish, managerVars
  <2>2. QED
    BY <2>1 DEF TaskFits
<1>4. QED
  BY <1>1, <1>2, <1>3, OthersLeaveWorker
     DEF Next, Start, ProcessEnds, StopManager, StopperStep, SubmitStopAll, StopAllExpires,
         CancelManager, ManagerStopped

\* A run that has ended stays so, for as long as the process lives.
LEMMA EndedForGood ==
    ASSUME TypeOK, TaskFits, StartsOnce, [Next]_vars, NEW r \in Runs, Ended(r)
    PROVE  ProcessEnds \/ Ended(r)'
<1> USE DEF Ended, ThreadsEnded, TypeOK, DriverTypeOK, RunnerTypeOK
<1>1. CASE UNCHANGED <<core, wpc, ipc, idleN>>
  BY <1>1
<1>2. ASSUME NEW s \in Runs, RunnerStep(s) PROVE Ended(r)'
  <2>1. CASE TakeTask(s) \/ WorkerEnds(s) \/ Drain(s) \/ Drained(s)
    BY <2>1 DEF TakeTask, WorkerEnds, Drain, CancelDriver, Drained, DaemonsJoined, Goto,
                driverVars, runnerVars
  <2>2. CASE StartDriver(s) \/ StopDriver(s, LockFree(s)) \/ StopDriverIdempotent(s, LockFree(s))
    BY <2>2 DEF StartDriver, DriverStarts, StopDriver, TearDown, StopDriverIdempotent,
                Goto, driverVars
  <2>3. CASE StartDriverFails(s) \/ StopDriverFails(s, LockFree(s)) \/ DrainTimesOut(s)
    BY <2>3 DEF StartDriverFails, DriverFailsToStart, StopDriverFails, TearDownFails,
                DrainTimesOut, DaemonsLinger, Complete, Goto, driverVars
  <2>4. CASE MarkReady(s) \/ MarkReadyFails(s) \/ MarkIdle(s) \/ MarkIdleFails(s)
    BY <2>4 DEF MarkReady, MarkReadyFails, MarkIdle, MarkIdleFails, Complete, Goto,
                driverVars
  <2>5. CASE CommandEnds(s) \/ CommandStopNotify(s)
    BY <2>5 DEF CommandEnds, CommandExits, CommandStopNotify, WaitReturns, runnerVars
  <2>6. CASE IPCStopMessage(s) \/ IPCReadFails(s) \/ IPCLoopEnds(s)
    BY <2>6 DEF IPCStopMessage, IPCReadFails, IPCLoopEnds, driverVars
  <2>7. QED
    BY <1>2, <2>1, <2>2, <2>3, <2>4, <2>5, <2>6 DEF RunnerStep, WorkerStep
<1>3. ASSUME NEW s \in Runs, ReportStep(s) PROVE Ended(r)'
  BY <1>3 DEF ReportStep, SessionIdleNotify, IPCProcessErrorNotify, driverVars
<1>4. CASE CreateRunner
  <2>1. mtask.from \in Runs /\ Pending(mtask.from)
    BY <1>4, StartTask DEF CreateRunner, Pending, TaskFits, ManagerTypeOK
  <2>2. mtask.from # r
    BY <2>1 DEF StartsOnce, Off
  <2>3. QED
    BY <1>4, <2>1, <2>2 DEF CreateRunner, SpawnRunner, Goto, driverVars
<1>5. CASE MgrDrained
  BY <1>5 DEF MgrDrained, DaemonsJoined, DaemonsLinger, runnerVars, driverVars
<1>6. CASE ManagerStep /\ ~CreateRunner /\ ~MgrDrained
  <2>1. UNCHANGED <<core, wpc, ipc, idleN>>
    BY <1>6
       DEF ManagerStep, MgrTake, MgrEnds, RefuseStart, AdmitStart, ForceIdle,
         ForceIdleFails, CreateRunnerFails, SubmitStart, StartSucceeds, StartFails,
         RestoreIdle, RestoreIdleFails, StopIsNOP, SubmitStop, SubmitStopFails,
         StopSucceeds, StopFails, SweepNext, SweepDone, RunnerStopStep, CancelRunner,
         MgrStopDriver, TearDown, MgrStopDriverSkipped, TearDownFails, MgrDrain,
         CancelDriver, StopForgets, StopKeeps, SweepForgets, CleanUpGoesOn, runnerVars,
         driverVars
  <2>2. QED
    BY <1>1, <2>1
<1>7. QED
  BY <1>1, <1>2, <1>3, <1>4, <1>5, <1>6
     DEF Next, vars, Start, StopManager, StopperStep, SubmitStopAll, StopAllExpires,
         CancelManager, ManagerStopped, CallStep, Submit, SubmitFails, GiveUp, runnerVars,
         driverVars

\* What is put behind a start does not get ahead of it.
LEMMA AppendKeepsAhead ==
    ASSUME TypeOK, NEW r \in Runs, NEW a \in Runs, Ahead(r, a) \/ AllTaken(r),
           NEW e, e # [op |-> "stop", from |-> r], mq' = Append(mq, e), mtask' = mtask
    PROVE  Ahead(r, a)' \/ AllTaken(r)'
<1>0. /\ DOMAIN mq' = 1..(Len(mq) + 1) /\ DOMAIN mq = 1..Len(mq) /\ Len(mq) \in Nat
      /\ mq'[Len(mq) + 1] = e
      /\ \A i \in DOMAIN mq : mq'[i] = mq[i]
  BY AppendNth DEF TypeOK, ManagerTypeOK
<1>1. \A j \in DOMAIN mq' : mq'[j] = [op |-> "stop", from |-> r] =>
         j \in DOMAIN mq /\ mq[j] = [op |-> "stop", from |-> r]
  BY <1>0
<1>2. CASE Ahead(r, a)
  <2>1. PICK i \in DOMAIN mq :
           /\ mq[i] = [op |-> "start", from |-> a]
           /\ \A j \in DOMAIN mq : mq[j] = [op |-> "stop", from |-> r] => j < i
    BY <1>2 DEF Ahead
  <2>2. i \in DOMAIN mq' /\ mq'[i] = [op |-> "start", from |-> a]
    BY <1>0, <2>1
  <2>3. QED
    BY <1>1, <2>1, <2>2 DEF Ahead
<1>3. CASE AllTaken(r)
  BY <1>1, <1>3 DEF AllTaken
<1>4. QED
  BY <1>2, <1>3

\* When the start is taken, the reports have been.
LEMMA TakeKeepsAhead ==
    ASSUME TypeOK, NEW r \in Runs, NEW a \in Runs, Ahead(r, a) \/ AllTaken(r), MgrTake
    PROVE  Ahead(r, a)' \/ AllTaken(r)'
<1>0. /\ mq' = Tail(mq) /\ mtask' = mq[1] /\ 1 \in DOMAIN mq
      /\ DOMAIN mq = 1..Len(mq) /\ DOMAIN mq' = 1..(Len(mq) - 1) /\ Len(mq) \in Nat
      /\ \A i \in DOMAIN mq' : i + 1 \in DOMAIN mq /\ mq'[i] = mq[i + 1]
  BY TailNth DEF MgrTake, TypeOK, ManagerTypeOK
<1>1. CASE AllTaken(r)
  BY <1>0, <1>1 DEF AllTaken
<1>2. CASE Ahead(r, a)
  <2>1. PICK i \in DOMAIN mq :
           /\ mq[i] = [op |-> "start", from |-> a]
           /\ \A j \in DOMAIN mq : mq[j] = [op |-> "stop", from |-> r] => j < i
    BY <1>2 DEF Ahead
  <2>2. CASE i = 1
    <3>1. \A j \in DOMAIN mq : mq[j] # [op |-> "stop", from |-> r]
      BY <1>0, <2>1, <2>2
    <3>2. QED
      BY <1>0, <3>1 DEF AllTaken
  <2>3. CASE i # 1
    <3>1. i - 1 \in DOMAIN mq' /\ mq'[i - 1] = [op |-> "start", from |-> a]
      BY <1>0, <2>1, <2>3
    <3>2. \A j \in DOMAIN mq' : mq'[j] = [op |-> "stop", from |-> r] => j < i - 1
      BY <1>0, <2>1
    <3>3. QED
      BY <3>1, <3>2 DEF Ahead
  <2>4. QED
    BY <2>2, <2>3
<1>3. QED
  BY <1>1, <1>2

\* Reports stay ahead of the starts that were submitted after the end of their run.
LEMMA ReportsComeFirstNext ==
    ASSUME TypeOK, TaskFits, StartsOnce, NoTaskAtRest, ReportsComeFirst, [Next]_vars
    PROVE  ReportsComeFirst'
<1>0. mq \in Seq(ManagerTask) /\ over \in [Runs -> SUBSET Runs]
  BY DEF TypeOK, ManagerTypeOK
<1>1. CASE ProcessEnds
  BY <1>1 DEF ProcessEnds, ReportsComeFirst
<1>2. ASSUME ~ProcessEnds, NEW a \in Runs, NEW r \in over[a]
      PROVE  Ended(r)' /\ (Ahead(r, a)' \/ AllTaken(r)')
  <2>1. r \in Runs /\ Ended(r) /\ (Ahead(r, a) \/ AllTaken(r))
    BY <1>0 DEF ReportsComeFirst
  <2>2. Ended(r)'
    BY <1>2, <2>1, EndedForGood
  <2>3. CASE UNCHANGED mq /\ ~MgrTake
    BY <2>1, <2>2, <2>3, TaskSteps DEF Ahead, AllTaken, NoTask
  <2>4. CASE MgrEnds
    BY <2>2, <2>4 DEF MgrEnds, AllTaken, NoTaskAtRest
  <2>5. CASE MgrTake
    BY <2>1, <2>2, <2>5, TakeKeepsAhead
  <2>6. CASE SubmitStopAll
    BY <2>1, <2>2, <2>6, AppendKeepsAhead DEF SubmitStopAll, Push
  <2>7. ASSUME NEW c \in Calls, Submit(c) PROVE Ahead(r, a)' \/ AllTaken(r)'
    <3>1. PICK e : mq' = Append(mq, e) /\ e # [op |-> "stop", from |-> r]
      BY <2>1, <2>7 DEF Submit, Push
    <3>2. QED
      BY <2>1, <2>7, <3>1, AppendKeepsAhead DEF Submit
  <2>8. ASSUME NEW s \in Runs, ReportStep(s), mq' = Append(mq, [op |-> "stop", from |-> s])
        PROVE  Ahead(r, a)' \/ AllTaken(r)'
    <3>1. s # r /\ mtask' = mtask
      BY <2>1, <2>8 DEF ReportStep, SessionIdleNotify, IPCProcessErrorNotify, Ended,
                        ThreadsEnded
    <3>2. QED
      BY <2>1, <2>8, <3>1, AppendKeepsAhead
  <2>9. QED
    BY <1>2, <2>2, <2>3, <2>4, <2>5, <2>6, <2>7, <2>8, QueueSteps
<1>3. CASE UNCHANGED over
  BY <1>1, <1>2, <1>3 DEF ReportsComeFirst
<1>4. ASSUME NEW c \in Calls, Submit(c) PROVE ReportsComeFirst'
  <2>1. CASE c \notin Runs
    BY <1>3, <1>4, <2>1 DEF Submit
  <2>2. CASE c \in Runs
    <3>1. ~ProcessEnds
      BY <1>0, <1>4, AppendNth DEF Submit, ProcessEnds, Push
    <3>2. over' = [over EXCEPT ![c] = {r \in Runs : Ended(r)}]
      BY <1>4, <2>2 DEF Submit
    <3>3. ASSUME NEW r \in Runs, Ended(r) PROVE Ended(r)' /\ Ahead(r, c)'
      <4>1. Ended(r)'
        BY <3>1, <3>3, EndedForGood
      <4>2. /\ DOMAIN mq' = 1..(Len(mq) + 1) /\ Len(mq) \in Nat
            /\ DOMAIN mq = 1..Len(mq)
            /\ mq'[Len(mq) + 1] = [op |-> "start", from |-> c]
        BY <1>0, <1>4, <2>2, AppendNth DEF Submit, Push
      <4>3. \A j \in DOMAIN mq' : mq'[j] = [op |-> "stop", from |-> r] => j < Len(mq) + 1
        BY <4>2
      <4>4. QED
        BY <4>1, <4>2, <4>3 DEF Ahead
    <3>4. QED
      BY <1>0, <1>2, <2>2, <3>1, <3>2, <3>3 DEF ReportsComeFirst
  <2>3. QED
    BY <2>1, <2>2
<1>5. (\E c \in Calls : Submit(c)) \/ ProcessEnds \/ UNCHANGED over
  BY DEF Next, vars, Start, StopManager, StopperStep, SubmitStopAll, StopAllExpires,
         CancelManager, ManagerStopped, CallStep, SubmitFails, GiveUp, RunnerStep,
         WorkerStep, ReportStep, SessionIdleNotify, IPCProcessErrorNotify, ManagerStep,
         MgrTake, MgrEnds, RefuseStart, AdmitStart, ForceIdle, ForceIdleFails,
         CreateRunner, CreateRunnerFails, SubmitStart, StartSucceeds, StartFails,
         RestoreIdle, RestoreIdleFails, StopIsNOP, SubmitStop, SubmitStopFails,
         StopSucceeds, StopFails, SweepNext, SweepDone, RunnerStopStep, CancelRunner,
         MgrStopDriver, MgrStopDriverSkipped, MgrDrain, MgrDrained, StopForgets, StopKeeps,
         SweepForgets, CleanUpGoesOn, MgrGoto, MgrFinish, managerVars
<1>6. QED
  BY <1>1, <1>3, <1>4, <1>5

\* A report never stops a run that was asked for after the reporting run had completely
\* ended, in every environment and with every driver: the manager's queue keeps it ahead.
THEOREM ReportsAreInTime == Spec => OldReportsAreHarmless
<1> DEFINE IInv == TypeOK /\ TaskFits /\ StartsOnce /\ HasBegun /\ NoTaskAtRest
                       /\ ReportsComeFirst
<1>1. Init => IInv
  BY InitTypes DEF Init, RunnerInit, AllRuns, NoTask, StartsOnce, Off, New, Pending, HasBegun,
         StartPC, RunnerStopPC, NoTaskAtRest, ReportsComeFirst
<1>2. IInv /\ [Next]_vars => IInv'
  BY NextTypes, StartsOnceNext, HasBegunNext, NoTaskAtRestNext, ReportsComeFirstNext
<1>3. ASSUME IInv, SubmitStop, mtask.from \in over[active[Session]] PROVE FALSE
  <2>1. /\ mtask.op = "stop" /\ mtask \in ManagerTask /\ Session \in Names
        /\ active[Session] \in Runs /\ mtask.from \in Runs
    BY <1>3, ManagerTaskTypes DEF SubmitStop, TaskFits, TypeOK, ManagerTypeOK, Session
  <2>2. mtask = [op |-> "stop", from |-> mtask.from]
    BY <2>1 DEF ManagerTask
  <2>3. Ahead(mtask.from, active[Session])
    BY <1>3, <2>1, <2>2 DEF ReportsComeFirst, AllTaken
  <2>4. Off(active[Session])
    BY <1>3, <2>1, <2>3 DEF Ahead, StartsOnce
  <2>5. QED
    BY <1>3, <2>1, <2>4 DEF HasBegun, SubmitStop
<1>4. IInv => [SubmitStop => mtask.from \notin over[mrun']]_vars
  BY <1>3 DEF SubmitStop
<1>5. QED
  BY <1>1, <1>2, <1>4, PTL DEF Spec, OldReportsAreHarmless

-----------------------------------------------------------------------------
(* The task the manager waits for.                                                  *)

\* The manager's worker has asked runner r for something and has no answer yet.
Waits(r) == mpc \in {"awaitStart", "awaitStop"} /\ mrun = r /\ reply = "none"

\* A task the manager has asked for is in the queue of the runner it waits for, once, and
\* it is the one it asked for, until the manager's context ends and it does not wait any
\* more; every start was asked for by the manager.
QueuedForManager ==
    \A r \in Runs : \A i \in DOMAIN rq[r] :
        /\ rq[r][i].op = "start" => rq[r][i].for = "manager"
        /\ mctx /\ rq[r][i].for = "manager" =>
              /\ Waits(r) /\ wfor[r] # "manager"
              /\ mpc = "awaitStart" => rq[r][i].op = "start"
              /\ mpc = "awaitStop" => rq[r][i].op = "stop"
              /\ \A j \in DOMAIN rq[r] : rq[r][j].for = "manager" => j = i

\* So is the task that the worker of a runner does for the manager.
DoneForManager ==
    \A r \in Runs :
        /\ wpc[r] \in {"start", "markReady"} => wfor[r] = "manager"
        /\ mctx /\ wfor[r] = "manager" =>
              /\ Waits(r)
              /\ mpc = "awaitStart" => wpc[r] \in {"start", "markReady"}
              /\ mpc = "awaitStop" => wpc[r] \in {"stop", "drain", "markIdle"}

AskedFor == QueuedForManager /\ DoneForManager

\* A worker goes on with its task.
LEMMA WorkerGoesOn ==
    ASSUME AskedFor, UNCHANGED <<rq, wfor, reply, mctx, mpc, mrun>>,
           \A r \in Runs : \/ wpc'[r] = wpc[r]
                           \/ {wpc[r], wpc'[r]} \subseteq {"start", "markReady"}
                           \/ {wpc[r], wpc'[r]} \subseteq {"stop", "drain", "markIdle"}
    PROVE  AskedFor'
<1>1. QueuedForManager'
  BY DEF AskedFor, QueuedForManager, Waits
<1>2. DoneForManager'
  BY DEF AskedFor, DoneForManager, Waits
<1>3. QED
  BY <1>1, <1>2 DEF AskedFor

\* A worker completes its task.
LEMMA WorkerCompletes ==
    ASSUME TypeOK, AskedFor, NEW r \in Runs, NEW result \in {"ok", "err"},
           Complete(r, result), UNCHANGED <<rq, mctx, mpc, mrun>>
    PROVE  AskedFor'
<1> USE DEF TypeOK, RunnerTypeOK, AskedFor
<1>1. /\ wfor' = [wfor EXCEPT ![r] = "nobody"] /\ wpc' = [wpc EXCEPT ![r] = "idle"]
      /\ reply' = IF wfor[r] = "manager" THEN result ELSE reply
  BY DEF Complete, Goto
<1>2. mctx /\ wfor[r] = "manager" => \A s \in Runs : s # r => ~Waits(s)
  BY DEF DoneForManager, Waits
<1>3. \A s \in Runs : mctx /\ s # r /\ Waits(s) => Waits(s)'
  BY <1>1, <1>2 DEF Waits
<1>4. QueuedForManager'
  <2>1. ASSUME mctx, NEW s \in Runs, NEW i \in DOMAIN rq[s], rq[s][i].for = "manager"
        PROVE  Waits(s)' /\ wfor'[s] # "manager"
    <3>1. CASE s = r
      BY <1>1, <2>1, <3>1 DEF QueuedForManager, Waits
    <3>2. CASE s # r
      BY <1>1, <1>3, <2>1, <3>2 DEF QueuedForManager
    <3>3. QED
      BY <3>1, <3>2
  <2>2. QED
    BY <2>1 DEF QueuedForManager
<1>5. DoneForManager'
  BY <1>1, <1>3 DEF DoneForManager
<1>6. QED
  BY <1>4, <1>5

\* Nobody but the manager waits for the stops that others ask for.
LEMMA OthersAsk ==
    ASSUME TypeOK, AskedFor, NEW r \in Runs, NEW for \in {"ipc", "nobody"},
           Enqueue(r, "stop", for), UNCHANGED <<wpc, wfor, reply, mctx, mpc, mrun>>
    PROVE  AskedFor'
<1>1. rq[r] \in Seq(RunnerTask) /\ rq' = [rq EXCEPT ![r] = Append(@, [op |-> "stop", for |-> for])]
  BY DEF Enqueue, TypeOK, RunnerTypeOK
<1>2. \A s \in Runs : \A i \in DOMAIN rq'[s] :
         rq'[s][i].op = "start" \/ rq'[s][i].for = "manager" =>
            i \in DOMAIN rq[s] /\ rq'[s][i] = rq[s][i]
  BY <1>1, AppendNth DEF TypeOK, RunnerTypeOK
<1>3. QueuedForManager'
  BY <1>2 DEF AskedFor, QueuedForManager, Waits
<1>4. DoneForManager'
  BY DEF AskedFor, DoneForManager, Waits
<1>5. QED
  BY <1>3, <1>4 DEF AskedFor

\* A worker takes a task.
LEMMA WorkerTakes ==
    ASSUME TypeOK, AskedFor, NEW r \in Runs, TakeTask(r), UNCHANGED <<mpc, mrun>>
    PROVE  AskedFor'
<1> DEFINE q == rq[r]
<1>0. /\ wpc[r] = "idle" /\ q \in Seq(RunnerTask) /\ q # <<>>
      /\ wpc' = [wpc EXCEPT ![r] = q[1].op] /\ wfor' = [wfor EXCEPT ![r] = q[1].for]
      /\ rq' = [rq EXCEPT ![r] = Tail(q)] /\ UNCHANGED <<reply, mctx>>
      /\ 1 \in DOMAIN q /\ q[1] \in RunnerTask
      /\ \A i \in DOMAIN Tail(q) : i + 1 \in DOMAIN q /\ Tail(q)[i] = q[i + 1] /\ i + 1 # 1
      /\ \A i, j \in DOMAIN Tail(q) : i + 1 = j + 1 => i = j
  BY TailNth DEF TakeTask, Goto, TypeOK, RunnerTypeOK
<1>1. q[1].op \in {"start", "stop"} /\ q[1].for \in {"manager", "ipc", "nobody"}
  BY <1>0 DEF RunnerTask
<1>2. \A s \in Runs : Waits(s)' <=> Waits(s)
  BY <1>0 DEF Waits
<1>3. QueuedForManager'
  <2>1. ASSUME NEW s \in Runs, NEW i \in DOMAIN rq'[s] PROVE
            /\ rq'[s][i].op = "start" => rq'[s][i].for = "manager"
            /\ mctx' /\ rq'[s][i].for = "manager" =>
                  /\ Waits(s)' /\ wfor'[s] # "manager"
                  /\ mpc' = "awaitStart" => rq'[s][i].op = "start"
                  /\ mpc' = "awaitStop" => rq'[s][i].op = "stop"
                  /\ \A j \in DOMAIN rq'[s] : rq'[s][j].for = "manager" => j = i
    <3>1. CASE s # r
      <4>1. rq'[s] = rq[s] /\ wfor'[s] = wfor[s]
        BY <1>0, <3>1 DEF TypeOK, RunnerTypeOK
      <4>2. QED
        BY <1>0, <1>2, <2>1, <4>1 DEF AskedFor, QueuedForManager
    <3>2. CASE s = r
      <4>1. /\ rq'[s] = Tail(q) /\ wfor'[s] = q[1].for
            /\ i + 1 \in DOMAIN q /\ rq'[s][i] = q[i + 1] /\ i + 1 # 1
        BY <1>0, <2>1, <3>2 DEF TypeOK, RunnerTypeOK
      <4>2. mctx /\ q[i + 1].for = "manager" => q[1].for # "manager"
        BY <1>0, <3>2, <4>1 DEF AskedFor, QueuedForManager
      <4>3. ASSUME mctx, q[i + 1].for = "manager", NEW j \in DOMAIN rq'[s], rq'[s][j].for = "manager"
            PROVE  j = i
        <5>1. j + 1 \in DOMAIN q /\ q[j + 1].for = "manager"
          BY <1>0, <4>1, <4>3
        <5>2. j + 1 = i + 1
          BY <3>2, <4>1, <4>3, <5>1 DEF AskedFor, QueuedForManager
        <5>3. QED
          BY <1>0, <2>1, <4>1, <4>3, <5>2
      <4>4. QED
        BY <1>0, <1>2, <3>2, <4>1, <4>2, <4>3 DEF AskedFor, QueuedForManager
    <3>3. QED
      BY <3>1, <3>2
  <2>2. QED
    BY <2>1 DEF QueuedForManager
<1>4. DoneForManager'
  <2>1. /\ q[1].op = "start" => q[1].for = "manager"
        /\ mctx /\ q[1].for = "manager" => /\ Waits(r)
                                           /\ mpc = "awaitStart" => q[1].op = "start"
                                           /\ mpc = "awaitStop" => q[1].op = "stop"
    BY <1>0 DEF AskedFor, QueuedForManager
  <2>2. /\ wpc'[r] = q[1].op /\ wfor'[r] = q[1].for
        /\ \A s \in Runs : s # r => wpc'[s] = wpc[s] /\ wfor'[s] = wfor[s]
    BY <1>0 DEF TypeOK, RunnerTypeOK
  <2>3. QED
    BY <1>0, <1>1, <1>2, <2>1, <2>2 DEF AskedFor, DoneForManager
<1>5. QED
  BY <1>3, <1>4 DEF AskedFor

\* The runners keep to what they are asked for.
LEMMA RunnersAskedFor ==
    ASSUME TypeOK, AskedFor, NEW r \in Runs, RunnerStep(r)
    PROVE  AskedFor'
<1>0. UNCHANGED <<mpc, mrun>>
  BY DEF RunnerStep, WorkerStep, managerVars
<1>1. CASE TakeTask(r)
  BY <1>0, <1>1, WorkerTakes
<1>2. CASE WorkerEnds(r)
  <2>1. /\ wpc[r] = "idle" /\ wpc' = [wpc EXCEPT ![r] = "exit"] /\ rq' = [rq EXCEPT ![r] = <<>>]
        /\ UNCHANGED <<wfor, reply, mctx, mpc, mrun>>
    BY <1>0, <1>2 DEF WorkerEnds, Goto
  <2>2. QueuedForManager'
    BY <2>1 DEF AskedFor, QueuedForManager, Waits, TypeOK, RunnerTypeOK
  <2>3. DoneForManager'
    BY <2>1 DEF AskedFor, DoneForManager, Waits, TypeOK, RunnerTypeOK
  <2>4. QED
    BY <2>2, <2>3 DEF AskedFor
<1>3. CASE StartDriver(r)
  BY <1>0, <1>3, WorkerGoesOn DEF StartDriver, Goto, TypeOK, RunnerTypeOK
<1>4. CASE StopDriver(r, LockFree(r)) \/ StopDriverIdempotent(r, LockFree(r)) \/ Drained(r)
  BY <1>0, <1>4, WorkerGoesOn DEF StopDriver, StopDriverIdempotent, Drained, Goto,
                                  TypeOK, RunnerTypeOK
<1>5. CASE StartDriverFails(r) \/ StopDriverFails(r, LockFree(r)) \/ DrainTimesOut(r)
  BY <1>0, <1>5, WorkerCompletes DEF StartDriverFails, StopDriverFails, DrainTimesOut
<1>6. CASE MarkReady(r) \/ MarkReadyFails(r) \/ MarkIdle(r) \/ MarkIdleFails(r)
  BY <1>0, <1>6, WorkerCompletes DEF MarkReady, MarkReadyFails, MarkIdle,
                                     MarkIdleFails
<1>7. CASE Drain(r) \/ CommandEnds(r) \/ IPCReadFails(r) \/ IPCLoopEnds(r)
  BY <1>0, <1>7, WorkerGoesOn DEF Drain, CommandEnds, IPCReadFails, IPCLoopEnds,
                                  runnerVars
<1>8. CASE CommandStopNotify(r)
  BY <1>0, <1>8, WorkerGoesOn, OthersAsk DEF CommandStopNotify
<1>9. CASE IPCStopMessage(r)
  BY <1>0, <1>9, OthersAsk DEF IPCStopMessage
<1>10. QED
  BY <1>1, <1>2, <1>3, <1>4, <1>5, <1>6, <1>7, <1>8, <1>9 DEF RunnerStep, WorkerStep

\* The manager's worker asks one runner at a time.
LEMMA ManagerAsks ==
    ASSUME TypeOK, AskedFor, mpc \notin {"awaitStart", "awaitStop"}, mctx' = mctx,
           NEW r \in Runs, NEW op \in {"start", "stop"}, Enqueue(r, op, "manager"),
           mpc' = IF op = "start" THEN "awaitStart" ELSE "awaitStop",
           mrun' = r, reply' = "none", UNCHANGED <<wpc, wfor>>
    PROVE  AskedFor'
<1>0. rq[r] \in Seq(RunnerTask)
      /\ rq' = [rq EXCEPT ![r] = Append(rq[r], [op |-> op, for |-> "manager"])]
  BY DEF Enqueue, TypeOK, RunnerTypeOK
<1>1. \A s \in Runs : ~Waits(s) /\ (mctx => wfor[s] # "manager") /\ Waits(r)'
  BY DEF Waits, AskedFor, DoneForManager
<1>2. \A s \in Runs : \A i \in DOMAIN rq[s] :
         /\ mctx => rq[s][i].for # "manager"
         /\ rq[s][i].op = "start" => rq[s][i].for = "manager"
  BY <1>1 DEF AskedFor, QueuedForManager
<1>3. \A s \in Runs : \A i \in DOMAIN rq'[s] :
         \/ /\ mctx => rq'[s][i].for # "manager"
            /\ rq'[s][i].op = "start" => rq'[s][i].for = "manager"
         \/ s = r /\ i = Len(rq[r]) + 1 /\ rq'[s][i] = [op |-> op, for |-> "manager"]
  BY <1>0, <1>2, AppendNth DEF TypeOK, RunnerTypeOK
<1>4. QueuedForManager'
  BY <1>1, <1>3 DEF QueuedForManager
<1>5. DoneForManager'
  BY <1>1 DEF AskedFor, DoneForManager
<1>6. QED
  BY <1>4, <1>5 DEF AskedFor

\* What the manager's worker does otherwise leaves no task behind that it waits for.
LEMMA ManagerGoesOn ==
    ASSUME AskedFor, UNCHANGED <<rq, wpc, wfor>>, mctx' => mctx,
           mpc' \notin {"awaitStart", "awaitStop"},
           mpc \in {"awaitStart", "awaitStop"} => reply # "none" \/ ~mctx'
    PROVE  AskedFor'
<1>1. \A r \in Runs : mctx' => ~Waits(r)
  BY DEF Waits
<1>2. QueuedForManager'
  BY <1>1 DEF AskedFor, QueuedForManager
<1>3. DoneForManager'
  BY <1>1 DEF AskedFor, DoneForManager
<1>4. QED
  BY <1>2, <1>3 DEF AskedFor

\* The steps of the manager's worker, seen by the runners' workers.
LEMMA ManagerAskedFor ==
    ASSUME TypeOK, TaskFits, AskedFor, ManagerStep
    PROVE  AskedFor'
<1>1. CASE SubmitStart
  <2>1. mrun \in Runs
    BY <1>1 DEF SubmitStart, TaskFits, StartPC
  <2>2. QED
    BY <1>1, <2>1, ManagerAsks DEF SubmitStart, MgrGoto
<1>2. CASE SubmitStop
  <2>1. active[Session] \in Runs
    <3>1. Session \in Names
      BY <1>2, ManagerTaskTypes DEF SubmitStop, TaskFits, Session, TypeOK, ManagerTypeOK
    <3>2. QED
      BY <1>2, <3>1 DEF SubmitStop, TypeOK, ManagerTypeOK
  <2>2. QED
    BY <1>2, <2>1, ManagerAsks DEF SubmitStop
<1>3. CASE CreateRunner
  <2>1. mtask.from \in Runs
    BY <1>3, ManagerTaskTypes DEF CreateRunner, TaskFits, TypeOK, ManagerTypeOK
  <2>2. /\ mpc = "create" /\ mpc' \in {"submitStart", "cancel"}
        /\ \E l \in {"idle", "exit"} : wpc' = [wpc EXCEPT ![mtask.from] = l]
        /\ UNCHANGED <<rq, wfor, reply, mctx>>
    BY <1>3 DEF CreateRunner, SpawnRunner, Goto
  <2>3. QueuedForManager'
    BY <2>2 DEF AskedFor, QueuedForManager, Waits
  <2>4. DoneForManager'
    BY <2>1, <2>2 DEF AskedFor, DoneForManager, Waits, TypeOK, RunnerTypeOK
  <2>5. QED
    BY <2>3, <2>4 DEF AskedFor
<1>4. CASE MgrTake
  <2>1. mpc' \in {"start", "stop", "stopAll"}
    BY <1>4, QueueTypes, ManagerTaskTypes DEF MgrTake, TypeOK, ManagerTypeOK
  <2>2. QED
    BY <1>4, <2>1, ManagerGoesOn DEF MgrTake, runnerVars
<1>5. CASE MgrEnds \/ RefuseStart \/ AdmitStart \/ ForceIdle \/ ForceIdleFails
           \/ CreateRunnerFails \/ StartSucceeds \/ StartFails \/ RestoreIdle
           \/ RestoreIdleFails
  BY <1>5, ManagerGoesOn
     DEF MgrEnds, RefuseStart, AdmitStart, ForceIdle, ForceIdleFails, CreateRunnerFails,
         StartSucceeds, StartFails, RestoreIdle, RestoreIdleFails, MgrGoto, MgrFinish,
         runnerVars
<1>6. CASE StopIsNOP \/ SubmitStopFails \/ StopSucceeds \/ StopFails \/ SweepNext \/ SweepDone
  BY <1>6, ManagerGoesOn
     DEF StopIsNOP, SubmitStopFails, StopSucceeds, StopFails, SweepNext, SweepDone, MgrGoto,
         MgrFinish, runnerVars
<1>7. CASE RunnerStopStep
  <2>1. /\ mpc \in RunnerStopPC
        /\ mpc' \in RunnerStopPC \cup {"idle", "stopAll", "restore"}
        /\ UNCHANGED <<rq, wpc, wfor, mctx>>
    BY <1>7 DEF RunnerStopStep, CancelRunner, MgrStopDriver, MgrStopDriverSkipped, MgrDrain,
         MgrDrained, StopForgets, StopKeeps, SweepForgets, CleanUpGoesOn, RunnerStopped,
         RunnerStopTimesOut, MgrGoto, MgrFinish, runnerVars, managerVars, RunnerStopPC
  <2>2. QED
    BY <2>1, ManagerGoesOn DEF RunnerStopPC
<1>8. QED
  BY <1>1, <1>2, <1>3, <1>4, <1>5, <1>6, <1>7 DEF ManagerStep

\* Between them they lose no answer and mix none up.
LEMMA AskedForNext ==
    ASSUME TypeOK, TaskFits, AskedFor, [Next]_vars
    PROVE  AskedFor'
<1>1. CASE UNCHANGED <<rq, wpc, wfor, reply, mctx, mpc, mrun>>
  BY <1>1, WorkerGoesOn
<1>2. CASE ProcessEnds
  BY <1>2 DEF ProcessEnds, RunnerReset, AllRuns, AskedFor, QueuedForManager, DoneForManager
<1>3. CASE CancelManager
  <2>1. QueuedForManager'
    BY <1>3 DEF CancelManager, runnerVars, AskedFor, QueuedForManager
  <2>2. DoneForManager'
    BY <1>3 DEF CancelManager, runnerVars, AskedFor, DoneForManager
  <2>3. QED
    BY <2>1, <2>2 DEF AskedFor
<1>4. QED
  BY <1>1, <1>2, <1>3, RunnersAskedFor, ManagerAskedFor
     DEF Next, vars, Start, StopManager, StopperStep, SubmitStopAll, StopAllExpires,
         ManagerStopped, CallStep, Submit, SubmitFails, GiveUp, ReportStep,
         SessionIdleNotify, IPCProcessErrorNotify, runnerVars, managerVars

-----------------------------------------------------------------------------
(* Steps, as rows, drivers and answers see them.                                    *)

\* The runners' steps.
LEMMA RunnerSteps ==
    ASSUME TypeOK, NEW r \in Runs, RunnerStep(r)
    PROVE  /\ UNCHANGED <<managerVars, mctx>>
           /\ \/ MarkReady(r)
              \/ MarkIdle(r)
              \/ /\ UNCHANGED <<row, idleN>>
                 /\ \/ reply' = reply
                    \/ reply' = "err" /\ wfor[r] = "manager"
           /\ \A s \in Runs : s # r => core'[s] = core[s] /\ wpc'[s] = wpc[s]
           /\ core'[r] => core[r] \/ wpc[r] = "start"
<1> USE DEF TypeOK, DriverTypeOK, RunnerTypeOK
<1>1. UNCHANGED managerVars
  BY DEF RunnerStep, WorkerStep
<1>2. CASE TakeTask(r) \/ WorkerEnds(r) \/ Drain(r) \/ Drained(r)
  BY <1>1, <1>2 DEF TakeTask, WorkerEnds, Drain, CancelDriver, Drained, DaemonsJoined, Goto,
                    runnerVars, driverVars
<1>3. CASE StartDriver(r) \/ StopDriver(r, LockFree(r)) \/ StopDriverIdempotent(r, LockFree(r))
  BY <1>1, <1>3 DEF StartDriver, DriverStarts, StopDriver, TearDown, StopDriverIdempotent,
                    Goto, driverVars
<1>4. CASE StartDriverFails(r) \/ StopDriverFails(r, LockFree(r)) \/ DrainTimesOut(r)
           \/ MarkReadyFails(r) \/ MarkIdleFails(r)
  BY <1>1, <1>4 DEF StartDriverFails, DriverFailsToStart, StopDriverFails, TearDownFails,
                    DrainTimesOut, DaemonsLinger, MarkReadyFails, MarkIdleFails, Complete,
                    Goto, driverVars
<1>5. CASE MarkReady(r) \/ MarkIdle(r)
  BY <1>1, <1>5 DEF MarkReady, MarkIdle, Complete, Goto, driverVars
<1>6. CASE CommandEnds(r) \/ CommandStopNotify(r)
  BY <1>1, <1>6 DEF CommandEnds, CommandExits, CommandStopNotify, WaitReturns, runnerVars
<1>7. CASE IPCStopMessage(r) \/ IPCReadFails(r) \/ IPCLoopEnds(r)
  BY <1>1, <1>7 DEF IPCStopMessage, IPCReadFails, IPCLoopEnds, driverVars
<1>8. QED
  BY <1>2, <1>3, <1>4, <1>5, <1>6, <1>7 DEF RunnerStep, WorkerStep

\* The steps of everybody else but the manager's worker.
LEMMA OtherSteps ==
    ASSUME [Next]_vars
    PROVE  \/ Start
           \/ ProcessEnds
           \/ ManagerStep
           \/ \E r \in Runs : RunnerStep(r)
           \/ /\ UNCHANGED <<row, core, wpc, rq, wfor, reply, mtask, mpc, mrun, active, allow>>
              /\ \/ UNCHANGED <<idleN, mq, life, mctx>>
                 \/ StopManager
                 \/ CancelManager
                 \/ SubmitStopAll
                 \/ \E c \in Calls : Submit(c)
                 \/ \E r \in Runs : ReportStep(r)
<1>1. \A c \in Calls : CallStep(c) =>
          /\ UNCHANGED <<row, core, wpc, rq, wfor, reply, mtask, mpc, mrun, active, allow>>
          /\ Submit(c) \/ UNCHANGED <<idleN, mq, life, mctx>>
  BY DEF CallStep, Submit, SubmitFails, GiveUp, runnerVars, driverVars
<1>2. \A r \in Runs : ReportStep(r) =>
          UNCHANGED <<row, core, wpc, rq, wfor, reply, mtask, mpc, mrun, active, allow>>
  BY DEF ReportStep, SessionIdleNotify, IPCProcessErrorNotify, driverVars
<1>3. QED
  BY <1>1, <1>2
     DEF Next, vars, StopManager, StopperStep, SubmitStopAll, StopAllExpires,
         CancelManager, ManagerStopped, runnerVars, driverVars, managerVars

-----------------------------------------------------------------------------
(* Stops.                                                                           *)

\* No start of the runner is queued or under way.
NotStarting(r) ==
    /\ wpc[r] \notin {"start", "markReady"}
    /\ \A i \in DOMAIN rq[r] : rq[r][i].op # "start"

\* The start of an active runner is done, as long as somebody waited for it.
ActiveIsUp == mctx => \A n \in Names : active[n] # None => NotStarting(active[n])

\* A runner that is about to write IDLE has stopped its driver.
IdleIsDown == \A r \in Runs : wpc[r] = "markIdle" => ~core[r]

\* A stop that has been answered, or is past its answer, has stopped the driver and
\* written the row; the manager's context is live.
StoppedIsIdle ==
    /\ mctx
    /\ mtask.op = "stop"
    /\ (mpc = "awaitStop" /\ reply = "ok") \/ mpc \in RunnerStopPC
    => ~core[mrun] /\ row[Session] = "IDLE"

\* While the manager runs, a READY row has an active runner, or one that has just been
\* started.
ReadyHasRunner ==
    life = "RUNNING" => \A n \in Names : row[n] = "READY" =>
        active[n] # None \/ (mpc = "awaitStart" /\ reply = "ok" /\ n = Session)

\* A context that has ended comes back with the next process only.
LEMMA ContextStaysEnded == ASSUME [Next]_vars PROVE ProcessEnds \/ (mctx' => mctx)
  BY OthersLeaveWorker
     DEF Next, workerVars, Start, StopManager, StopperStep, SubmitStopAll, StopAllExpires,
         CancelManager, ManagerStopped, ManagerStep, MgrTake, MgrEnds, RefuseStart,
         AdmitStart, ForceIdle, ForceIdleFails, CreateRunner, CreateRunnerFails,
         SubmitStart, StartSucceeds, StartFails, RestoreIdle, RestoreIdleFails, StopIsNOP,
         SubmitStop, SubmitStopFails, StopSucceeds, StopFails, SweepNext, SweepDone,
         RunnerStopStep, CancelRunner, MgrStopDriver, MgrStopDriverSkipped, MgrDrain,
         MgrDrained, StopForgets, StopKeeps, SweepForgets, CleanUpGoesOn

\* A runner is started by the manager's worker only.
LEMMA NotStartingStays ==
    ASSUME TypeOK, TaskFits, [Next]_vars, NEW r \in Runs, NotStarting(r)
    PROVE  NotStarting(r)' \/ (SubmitStart /\ mrun = r)
<1> USE DEF TypeOK, RunnerTypeOK, NotStarting
<1>1. CASE UNCHANGED <<rq, wpc>>
  BY <1>1
<1>2. CASE ProcessEnds
  BY <1>2 DEF ProcessEnds, RunnerReset, AllRuns
<1>3. ASSUME NEW s \in Runs, NEW op \in {"start", "stop"}, NEW for, Enqueue(s, op, for),
             UNCHANGED wpc, op = "start" => s # r
      PROVE  NotStarting(r)'
  <2>1. rq[s] \in Seq(RunnerTask) /\ rq' = [rq EXCEPT ![s] = Append(rq[s], [op |-> op, for |-> for])]
    BY <1>3 DEF Enqueue
  <2>2. \A i \in DOMAIN rq'[r] : rq'[r][i].op # "start"
    BY <1>3, <2>1, AppendNth
  <2>3. QED
    BY <1>3, <2>2
<1>4. ASSUME NEW s \in Runs, RunnerStep(s) PROVE NotStarting(r)'
  <2>1. CASE TakeTask(s)
    <3>1. /\ rq[s] \in Seq(RunnerTask) /\ rq[s] # <<>> /\ rq' = [rq EXCEPT ![s] = Tail(rq[s])]
          /\ wpc' = [wpc EXCEPT ![s] = Head(rq[s]).op]
      BY <2>1 DEF TakeTask, Goto
    <3>2. /\ Head(rq[s]) = rq[s][1] /\ 1 \in DOMAIN rq[s] /\ rq[s][1] \in RunnerTask
          /\ \A i \in DOMAIN Tail(rq[s]) : i + 1 \in DOMAIN rq[s] /\ Tail(rq[s])[i] = rq[s][i + 1]
      BY <3>1, TailNth
    <3>3. rq[s][1].op \in {"start", "stop"}
      BY <3>2 DEF RunnerTask
    <3>4. QED
      BY <3>1, <3>2, <3>3
  <2>2. CASE WorkerEnds(s) \/ Drain(s) \/ Drained(s) \/ StartDriver(s)
             \/ StopDriver(s, LockFree(s)) \/ StopDriverIdempotent(s, LockFree(s))
    BY <2>2 DEF WorkerEnds, Drain, Drained, StartDriver, StopDriver, StopDriverIdempotent,
                Goto, runnerVars
  <2>3. CASE StartDriverFails(s) \/ StopDriverFails(s, LockFree(s)) \/ DrainTimesOut(s)
             \/ MarkReady(s) \/ MarkReadyFails(s) \/ MarkIdle(s) \/ MarkIdleFails(s)
    BY <2>3 DEF StartDriverFails, StopDriverFails, DrainTimesOut, MarkReady, MarkReadyFails,
                MarkIdle, MarkIdleFails, Complete, Goto
  <2>4. CASE CommandEnds(s) \/ IPCReadFails(s) \/ IPCLoopEnds(s)
    BY <2>4 DEF CommandEnds, IPCReadFails, IPCLoopEnds, runnerVars
  <2>5. CASE CommandStopNotify(s) \/ IPCStopMessage(s)
    BY <1>1, <1>3, <2>5 DEF CommandStopNotify, IPCStopMessage
  <2>6. QED
    BY <1>4, <2>1, <2>2, <2>3, <2>4, <2>5 DEF RunnerStep, WorkerStep
<1>5. CASE ManagerStep
  <2>1. CASE SubmitStart
    <3>1. mrun \in Runs
      BY <2>1 DEF SubmitStart, TaskFits, StartPC
    <3>2. QED
      BY <1>3, <2>1, <3>1 DEF SubmitStart
  <2>2. CASE SubmitStop
    <3>1. active[Session] \in Runs
      BY <2>2, ManagerTaskTypes DEF SubmitStop, TaskFits, Session, ManagerTypeOK
    <3>2. QED
      BY <1>3, <2>2, <3>1 DEF SubmitStop
  <2>3. CASE CreateRunner
    BY <2>3 DEF CreateRunner, SpawnRunner, Goto
  <2>4. CASE ~SubmitStart /\ ~SubmitStop /\ ~CreateRunner
    <3>1. UNCHANGED <<rq, wpc>>
      BY <1>5, <2>4
         DEF ManagerStep, MgrTake, MgrEnds, RefuseStart, AdmitStart, ForceIdle,
         ForceIdleFails, CreateRunnerFails, StartSucceeds, StartFails,
         RestoreIdle, RestoreIdleFails, StopIsNOP, SubmitStopFails,
         StopSucceeds, StopFails, SweepNext, SweepDone, RunnerStopStep, CancelRunner,
         MgrStopDriver, MgrStopDriverSkipped, MgrDrain, MgrDrained, StopForgets, StopKeeps,
         SweepForgets, CleanUpGoesOn, runnerVars
    <3>2. QED
      BY <1>1, <3>1
  <2>5. QED
    BY <2>1, <2>2, <2>3, <2>4
<1>6. QED
  BY <1>1, <1>2, <1>4, <1>5, OtherSteps DEF Start, runnerVars

\* A runner is registered when its start is done.
LEMMA ActiveIsUpNext ==
    ASSUME TypeOK, TaskFits, StartIsAlone, ActiveByName, AskedFor, ActiveIsUp, [Next]_vars
    PROVE  ActiveIsUp'
<1>0. active \in [Names -> Runs \cup {None}]
  BY DEF TypeOK, ManagerTypeOK
<1>1. SUFFICES ASSUME mctx', NEW n \in Names, active'[n] # None
               PROVE  NotStarting(active[n])'
  BY DEF ActiveIsUp
<1>6. mctx
  BY <1>1, ContextStaysEnded DEF ProcessEnds
<1>2. CASE active'[n] = active[n]
  <2>1. PICK r \in Runs : r = active[n] /\ NotStarting(r)
    BY <1>0, <1>1, <1>2, <1>6 DEF ActiveIsUp
  <2>2. ~(SubmitStart /\ mrun = r)
    BY <1>0, <2>1, ManagerTaskTypes DEF SubmitStart, StartIsAlone, ActiveByName, StartPC,
                      Session, TaskFits, Calls
  <2>3. NotStarting(r)'
    BY <1>0, <2>1, <2>2, NotStartingStays
  <2>4. QED
    BY <1>2, <2>1, <2>3 DEF NotStarting
<1>3. CASE StartSucceeds
  <2>1. /\ mpc = "awaitStart" /\ reply = "ok" /\ mrun \in Runs
        /\ active' = [active EXCEPT ![Session] = mrun] /\ UNCHANGED <<rq, wpc>>
    BY <1>0, <1>3 DEF StartSucceeds, TaskFits, StartPC, runnerVars
  <2>2. NotStarting(mrun)
    BY <1>6, <2>1 DEF NotStarting, AskedFor, QueuedForManager, DoneForManager, Waits
  <2>3. CASE active'[n] = mrun
    BY <2>1, <2>2, <2>3 DEF NotStarting
  <2>4. QED
    BY <1>0, <1>2, <2>1, <2>3
<1>4. active'[n] = active[n] \/ active'[n] = None \/ StartSucceeds
  BY <1>0, OthersLeaveWorker
     DEF Next, workerVars, Start, ProcessEnds, StopManager, StopperStep, SubmitStopAll,
         StopAllExpires, CancelManager, ManagerStopped, ManagerStep, MgrTake, MgrEnds,
         RefuseStart, AdmitStart, ForceIdle, ForceIdleFails, CreateRunner,
         CreateRunnerFails, SubmitStart, StartFails, RestoreIdle, RestoreIdleFails,
         StopIsNOP, SubmitStop, SubmitStopFails, StopSucceeds, StopFails, SweepNext,
         SweepDone, RunnerStopStep, CancelRunner, MgrStopDriver, MgrStopDriverSkipped,
         MgrDrain, MgrDrained, StopForgets, StopKeeps, SweepForgets, CleanUpGoesOn, MgrGoto,
         managerVars
<1>5. QED
  BY <1>1, <1>2, <1>3, <1>4

\* A driver is stopped before IDLE is written.
LEMMA IdleIsDownNext ==
    ASSUME TypeOK, IdleIsDown, [Next]_vars
    PROVE  IdleIsDown'
<1> USE DEF TypeOK, DriverTypeOK, RunnerTypeOK, IdleIsDown
<1>1. CASE UNCHANGED <<core, wpc>>
  BY <1>1
<1>2. CASE ProcessEnds
  BY <1>2 DEF ProcessEnds, RunnerReset, AllRuns
<1>3. ASSUME NEW r \in Runs, RunnerStep(r) PROVE IdleIsDown'
  <2>1. wpc'[r] = "markIdle" => ~core'[r]
    <3>1. CASE TakeTask(r)
      <4>1. Head(rq[r]) \in RunnerTask
        BY <3>1, QueueTypes DEF TakeTask
      <4>2. QED
        BY <3>1, <4>1 DEF TakeTask, Goto, RunnerTask
    <3>2. CASE WorkerEnds(r) \/ Drain(r) \/ Drained(r) \/ StartDriver(r)
             \/ StopDriver(r, LockFree(r)) \/ StopDriverIdempotent(r, LockFree(r))
      BY <3>2 DEF WorkerEnds, Drain, CancelDriver, Drained, DaemonsJoined, StartDriver,
                  StopDriver, StopDriverIdempotent, Goto, runnerVars, driverVars
    <3>3. CASE StartDriverFails(r) \/ StopDriverFails(r, LockFree(r)) \/ DrainTimesOut(r)
             \/ MarkReady(r) \/ MarkReadyFails(r) \/ MarkIdle(r) \/ MarkIdleFails(r)
      BY <3>3 DEF StartDriverFails, StopDriverFails, DrainTimesOut, MarkReady,
                  MarkReadyFails, MarkIdle, MarkIdleFails, Complete, Goto
    <3>4. CASE CommandEnds(r) \/ CommandStopNotify(r) \/ IPCStopMessage(r) \/ IPCReadFails(r)
             \/ IPCLoopEnds(r)
      BY <3>4 DEF CommandEnds, CommandExits, CommandStopNotify, WaitReturns, IPCStopMessage,
                  IPCReadFails, IPCLoopEnds, runnerVars, driverVars
    <3>5. QED
      BY <1>3, <3>1, <3>2, <3>3, <3>4 DEF RunnerStep, WorkerStep
  <2>2. \A s \in Runs : s # r => core'[s] = core[s] /\ wpc'[s] = wpc[s]
    BY <1>3, RunnerSteps
  <2>3. QED
    BY <2>1, <2>2
<1>4. CASE CreateRunner
  BY <1>4 DEF CreateRunner, SpawnRunner, Goto, driverVars
<1>5. CASE MgrDrained
  BY <1>5 DEF MgrDrained, DaemonsJoined, DaemonsLinger, runnerVars, driverVars
<1>6. CASE ManagerStep /\ ~CreateRunner /\ ~MgrDrained
  <2>1. UNCHANGED <<core, wpc>>
    BY <1>6
       DEF ManagerStep, MgrTake, MgrEnds, RefuseStart, AdmitStart, ForceIdle,
         ForceIdleFails, CreateRunnerFails, SubmitStart, StartSucceeds, StartFails,
         RestoreIdle, RestoreIdleFails, StopIsNOP, SubmitStop, SubmitStopFails,
         StopSucceeds, StopFails, SweepNext, SweepDone, RunnerStopStep, CancelRunner,
         MgrStopDriver, TearDown, MgrStopDriverSkipped, TearDownFails, MgrDrain,
         CancelDriver, StopForgets, StopKeeps, SweepForgets, CleanUpGoesOn, runnerVars,
         driverVars
  <2>2. QED
    BY <1>1, <2>1
<1>7. QED
  BY <1>1, <1>2, <1>3, <1>4, <1>5, <1>6, OtherSteps DEF Start, driverVars, runnerVars

\* While a stop is under way, the row and the driver of its run stay as it leaves them.
LEMMA StoppedIsIdleNext ==
    ASSUME TypeOK, InHandByName, AskedFor, ActiveIsUp, IdleIsDown, StoppedIsIdle,
           [Next]_vars
    PROVE  StoppedIsIdle'
<1> SUFFICES ASSUME mctx', mtask'.op = "stop",
                    (mpc' = "awaitStop" /\ reply' = "ok") \/ mpc' \in RunnerStopPC
             PROVE  ~core'[mrun'] /\ row'[Session'] = "IDLE"
  BY DEF StoppedIsIdle
<1> DEFINE Stopping == mtask.op = "stop" /\ mpc \in RunnerStopPC \cup {"awaitStop"}
<1>0. TaskFits /\ mctx
  <2>1. ~ProcessEnds
    BY DEF ProcessEnds, NoTask
  <2>2. QED
    BY <2>1, ContextStaysEnded DEF InHandByName
<1>1. Stopping =>
         /\ mrun \in Runs /\ Session \in Names /\ SessionOf[mrun] = Session
         /\ active[Session] = mrun /\ NotStarting(mrun)
  <2>1. Stopping => mrun \in Runs /\ Session \in Names
    BY <1>0, ManagerTaskTypes
       DEF TaskFits, StartPC, RunnerStopPC, Session, TypeOK, ManagerTypeOK
  <2>2. QED
    BY <1>0, <2>1 DEF InHandByName, StopIsActive, ActiveIsUp, RunnerStopPC, Calls
<1>2. CASE UNCHANGED <<row, core, reply, mtask, mpc, mrun>>
  BY <1>0, <1>2 DEF StoppedIsIdle, Session
<1>3. ASSUME NEW r \in Runs, RunnerStep(r) PROVE ~core'[mrun'] /\ row'[Session'] = "IDLE"
  <2>1. Stopping /\ UNCHANGED <<mtask, mpc, mrun>> /\ Session' = Session
    BY <1>3, RunnerSteps DEF managerVars, Session
  <2>2. core'[mrun] => core[mrun]
    BY <1>1, <1>3, <2>1, RunnerSteps DEF NotStarting
  <2>3. CASE MarkIdle(r)
    <3>1. /\ row' = [row EXCEPT ![SessionOf[r]] = "IDLE"] /\ wpc[r] = "markIdle"
          /\ reply' = IF wfor[r] = "manager" THEN "ok" ELSE reply
      BY <2>3 DEF MarkIdle, Complete
    <3>2. CASE wfor[r] = "manager" /\ mpc = "awaitStop"
      <4>1. mrun = r
        BY <1>0, <3>2 DEF AskedFor, DoneForManager, Waits
      <4>2. QED
        BY <1>1, <2>1, <2>2, <3>1, <4>1 DEF IdleIsDown, TypeOK, RunnerTypeOK
    <3>3. CASE ~(wfor[r] = "manager" /\ mpc = "awaitStop")
      BY <1>0, <1>1, <2>1, <2>2, <3>1, <3>3 DEF StoppedIsIdle, TypeOK, RunnerTypeOK
    <3>4. QED
      BY <3>2, <3>3
  <2>4. ~MarkReady(r)
    <3>1. mpc # "awaitStart"
      BY <1>0, <2>1 DEF TaskFits
    <3>2. wpc[r] # "markReady"
      BY <1>0, <3>1 DEF AskedFor, DoneForManager, Waits
    <3>3. QED
      BY <3>2 DEF MarkReady
  <2>5. QED
    BY <1>0, <1>3, <2>1, <2>2, <2>3, <2>4, RunnerSteps DEF StoppedIsIdle
<1>4. CASE ManagerStep
  <2>1. ~MgrTake
    <3>1. MgrTake => mpc' \in {"start", "stop", "stopAll"}
      BY QueueTypes, ManagerTaskTypes DEF MgrTake, TypeOK, ManagerTypeOK
    <3>2. QED
      BY <3>1 DEF RunnerStopPC
  <2>2. StopSucceeds \/ RunnerStopStep
    <3>1. ~StartFails /\ ~SweepNext /\ ~SubmitStop
      BY <1>0 DEF StartFails, SweepNext, SubmitStop, TaskFits, RunnerStopPC
    <3>2. ~AdmitStart /\ ~ForceIdle /\ ~CreateRunner /\ ~SubmitStart /\ ~SweepDone /\ ~MgrEnds
      BY <1>0 DEF AdmitStart, ForceIdle, CreateRunner, SubmitStart, SweepDone, MgrEnds,
                  MgrGoto, TaskFits, RunnerStopPC
    <3>3. \A result : ~MgrFinish(result)
      BY DEF MgrFinish, RunnerStopPC
    <3>4. ~RestoreIdle /\ ~RestoreIdleFails
      BY DEF RestoreIdle, RestoreIdleFails, RunnerStopPC
    <3>5. QED
      BY <1>4, <2>1, <3>1, <3>2, <3>3, <3>4
         DEF ManagerStep, RefuseStart, ForceIdleFails, CreateRunnerFails, StartSucceeds,
             StopIsNOP, SubmitStopFails, StopFails
  <2>3. /\ (mpc = "awaitStop" /\ reply = "ok") \/ mpc \in RunnerStopPC
        /\ mtask' = mtask /\ mrun' = mrun /\ row' = row
        /\ core' = core \/ core' = [core EXCEPT ![mrun] = FALSE]
    <3>1. CASE StopSucceeds \/ CancelRunner \/ MgrStopDriver \/ MgrStopDriverSkipped
      BY <3>1 DEF StopSucceeds, CancelRunner, MgrStopDriver, TearDown,
           MgrStopDriverSkipped, TearDownFails, MgrGoto, driverVars, RunnerStopPC
    <3>2. CASE MgrDrain \/ MgrDrained
      BY <3>2 DEF MgrDrain, CancelDriver, MgrDrained, DaemonsJoined, DaemonsLinger, MgrGoto,
           managerVars, driverVars, RunnerStopPC
    <3>3. CASE StopForgets \/ StopKeeps \/ SweepForgets \/ CleanUpGoesOn
      BY <3>3 DEF StopForgets, StopKeeps, SweepForgets, CleanUpGoesOn, MgrGoto, MgrFinish,
           RunnerStopPC
    <3>4. QED
      BY <2>2, <3>1, <3>2, <3>3 DEF RunnerStopStep
  <2>4. QED
    BY <1>0, <1>1, <2>3 DEF StoppedIsIdle, Session, TypeOK, DriverTypeOK
<1>5. CASE Start
  <2>1. UNCHANGED <<core, reply, mtask, mpc, mrun>> /\ row' = [n \in Names |-> "IDLE"]
    BY <1>5 DEF Start, driverVars, runnerVars
  <2>2. QED
    BY <1>0, <1>1, <2>1 DEF StoppedIsIdle, Session
<1>6. CASE ProcessEnds
  BY <1>6 DEF ProcessEnds, NoTask
<1>7. QED
  BY <1>2, <1>3, <1>4, <1>5, <1>6, OtherSteps

\* A manager that runs has not ended its own context.
LEMMA RunningHasContext == ShutdownOrder /\ life = "RUNNING" => mctx
  BY DEF ShutdownOrder

\* The manager's worker only writes IDLE.
LEMMA ManagerWritesIdle ==
    ASSUME TypeOK, ManagerStep
    PROVE  \A n \in Names : row'[n] = row[n] \/ row'[n] = "IDLE"
<1>1. CASE ForceIdle \/ RestoreIdle
  BY <1>1 DEF ForceIdle, RestoreIdle, TypeOK, RunnerTypeOK
<1>2. CASE UNCHANGED row
  BY <1>2
<1>3. QED
  BY <1>1, <1>2
     DEF ManagerStep, MgrTake, MgrEnds, RefuseStart, AdmitStart, ForceIdleFails,
         CreateRunner, CreateRunnerFails, SubmitStart, StartSucceeds, StartFails,
         RestoreIdleFails, StopIsNOP, SubmitStop, SubmitStopFails, StopSucceeds, StopFails,
         SweepNext, SweepDone, RunnerStopStep, CancelRunner, MgrStopDriver,
         MgrStopDriverSkipped, MgrDrain, MgrDrained, StopForgets, StopKeeps, SweepForgets,
         CleanUpGoesOn

\* A session that is READY is loaded, while the manager runs.
LEMMA ReadyHasRunnerNext ==
    ASSUME TypeOK, InHandByName, ShutdownOrder, AskedFor, StoppedIsIdle, ReadyHasRunner,
           [Next]_vars
    PROVE  ReadyHasRunner'
<1> SUFFICES ASSUME life' = "RUNNING", NEW n \in Names, row'[n] = "READY"
             PROVE  \/ active'[n] # None
                    \/ mpc' = "awaitStart" /\ reply' = "ok" /\ n = Session'
  BY DEF ReadyHasRunner
<1>0. TaskFits
  BY DEF InHandByName
<1>1. CASE UNCHANGED <<life, row, active, mpc, reply, mtask>>
  BY <1>1 DEF ReadyHasRunner, Session
<1>2. CASE Start \/ ProcessEnds \/ StopManager
  BY <1>2 DEF Start, ProcessEnds, StopManager
<1>3. ASSUME NEW r \in Runs, RunnerStep(r)
      PROVE  \/ active'[n] # None
             \/ mpc' = "awaitStart" /\ reply' = "ok" /\ n = Session'
  <2>1. /\ UNCHANGED <<life, active, mpc, mrun, mtask>> /\ Session' = Session
        /\ mctx /\ life = "RUNNING"
    BY <1>3, RunnerSteps, RunningHasContext DEF managerVars, Session
  <2>2. wfor[r] = "manager" => mpc \in {"awaitStart", "awaitStop"} /\ mrun = r /\ reply = "none"
    BY <2>1 DEF AskedFor, DoneForManager, Waits
  <2>3. CASE MarkReady(r)
    <3>1. /\ wpc[r] = "markReady" /\ wfor[r] = "manager"
          /\ row' = [row EXCEPT ![SessionOf[r]] = "READY"] /\ reply' = "ok"
      BY <2>3 DEF MarkReady, Complete, AskedFor, DoneForManager
    <3>2. mpc = "awaitStart" /\ mrun = r
      BY <2>1, <2>2, <3>1 DEF AskedFor, DoneForManager
    <3>3. SessionOf[r] = Session
      BY <1>0, <3>2 DEF TaskFits, InHandByName, StartIsAlone, StartPC, Session
    <3>4. CASE n = SessionOf[r]
      BY <2>1, <3>1, <3>2, <3>3, <3>4
    <3>5. CASE n # SessionOf[r]
      BY <2>1, <2>2, <3>1, <3>5 DEF ReadyHasRunner, TypeOK, RunnerTypeOK
    <3>6. QED
      BY <3>4, <3>5
  <2>4. CASE MarkIdle(r)
    <3>1. row[n] = "READY" /\ reply' = IF wfor[r] = "manager" THEN "ok" ELSE reply
      BY <2>4 DEF MarkIdle, Complete, TypeOK, RunnerTypeOK
    <3>2. QED
      BY <2>1, <2>2, <3>1 DEF ReadyHasRunner
  <2>5. QED
    BY <1>3, <2>1, <2>2, <2>3, <2>4, RunnerSteps DEF ReadyHasRunner
<1>4. CASE ManagerStep
  <2>1. row[n] = "READY" /\ life = "RUNNING" /\ mctx
    <3>1. life' = life
      BY <1>4
         DEF ManagerStep, MgrTake, MgrEnds, RefuseStart, AdmitStart, ForceIdle,
         ForceIdleFails, CreateRunner, CreateRunnerFails, SubmitStart, StartSucceeds,
         StartFails, RestoreIdle, RestoreIdleFails, StopIsNOP, SubmitStop, SubmitStopFails,
         StopSucceeds, StopFails, SweepNext, SweepDone, RunnerStopStep, CancelRunner,
         MgrStopDriver, MgrStopDriverSkipped, MgrDrain, MgrDrained, StopForgets, StopKeeps,
         SweepForgets, CleanUpGoesOn, MgrGoto, MgrFinish, managerVars
    <3>2. QED
      BY <1>4, <3>1, ManagerWritesIdle, RunningHasContext
  <2>2. CASE mpc = "awaitStart" /\ reply = "ok" /\ n = Session
    <3>1. StartSucceeds
      BY <1>4, <2>1, <2>2
         DEF ManagerStep, MgrTake, MgrEnds, RefuseStart, AdmitStart, ForceIdle,
         ForceIdleFails, CreateRunner, CreateRunnerFails, SubmitStart,
         StartFails, RestoreIdle, RestoreIdleFails, StopIsNOP, SubmitStop, SubmitStopFails,
         StopSucceeds, StopFails, SweepNext, SweepDone, RunnerStopStep, CancelRunner,
         MgrStopDriver, MgrStopDriverSkipped, MgrDrain, MgrDrained, StopForgets, StopKeeps,
         SweepForgets, CleanUpGoesOn, RunnerStopped, RunnerStopTimesOut
    <3>2. mrun \in Runs
      BY <1>0, <2>2 DEF TaskFits, StartPC
    <3>3. QED
      BY <2>2, <3>1, <3>2 DEF StartSucceeds, TypeOK, ManagerTypeOK, Calls
  <2>3. CASE active[n] # None
    <3>1. CASE StartSucceeds
      <4>1. mrun \in Runs
        BY <1>0, <3>1 DEF StartSucceeds, TaskFits, StartPC
      <4>2. QED
        BY <2>3, <3>1, <4>1 DEF StartSucceeds, TypeOK, ManagerTypeOK, Calls
    <3>2. CASE StopForgets
      <4>1. row[Session] = "IDLE"
        BY <2>1, <3>2 DEF StopForgets, RunnerStopped, StoppedIsIdle, RunnerStopPC
      <4>2. QED
        BY <2>1, <2>3, <3>2, <4>1 DEF StopForgets, TypeOK, ManagerTypeOK
    <3>3. CASE SweepForgets
      BY <2>1, <3>3 DEF SweepForgets, RunnerStopped, RunnerStopTimesOut, ShutdownOrder,
                        RunnerStopPC
    <3>4. CASE UNCHANGED active
      BY <2>3, <3>4
    <3>5. QED
      BY <1>4, <3>1, <3>2, <3>3, <3>4
         DEF ManagerStep, MgrTake, MgrEnds, RefuseStart, AdmitStart, ForceIdle,
         ForceIdleFails, CreateRunner, CreateRunnerFails, SubmitStart,
         StartFails, RestoreIdle, RestoreIdleFails, StopIsNOP, SubmitStop, SubmitStopFails,
         StopSucceeds, StopFails, SweepNext, SweepDone, RunnerStopStep, CancelRunner,
         MgrStopDriver, MgrStopDriverSkipped, MgrDrain, MgrDrained, StopKeeps,
         CleanUpGoesOn, MgrGoto, managerVars
  <2>4. QED
    BY <2>1, <2>2, <2>3 DEF ReadyHasRunner
<1>5. QED
  BY <1>1, <1>2, <1>3, <1>4, OtherSteps, OthersLeaveWorker
     DEF Next, workerVars, StopperStep, SubmitStopAll, StopAllExpires, CancelManager,
         ManagerStopped, runnerVars

\* What the answers to stops rest on.
StopInv ==
    /\ TypeOK /\ Inv /\ ShutdownOrder /\ StopAllIsAsked /\ AskedFor /\ ActiveIsUp
    /\ IdleIsDown /\ StoppedIsIdle /\ ReadyHasRunner

LEMMA StopInvHolds == ASSUME TearsDown PROVE Spec => []StopInv
<1>1. Init => StopInv
  BY InitTypes, InitInv
     DEF Init, DriverInit, RunnerInit, AllRuns, NoTask, StopInv, ShutdownOrder,
         StopAllIsAsked, RunnerStopPC, AskedFor, QueuedForManager, DoneForManager,
         ActiveIsUp, IdleIsDown, StoppedIsIdle, ReadyHasRunner
<1>2. StopInv /\ [Next]_vars => StopInv'
  BY NextTypes, NextInv, ShutdownOrderNext, StopAllIsAskedNext, AskedForNext, ActiveIsUpNext,
     IdleIsDownNext, InvNames, StoppedIsIdleNext, ReadyHasRunnerNext
     DEF StopInv, Inv
<1>3. QED
  BY <1>1, <1>2, PTL DEF Spec

\* Who is told that the call succeeded, and when.
LEMMA OkAnswers ==
    ASSUME TypeOK, TaskFits, [Next]_vars, NEW c \in Calls, call[c] = "waiting",
           call'[c] = "ok"
    PROVE  /\ mtask.from = c
           /\ IF c \in Runs THEN StartSucceeds ELSE StopIsNOP \/ StopForgets
<1>1. ~ProcessEnds
  BY DEF ProcessEnds
<1>2. \A d \in Calls : ~CallStep(d)
  BY DEF CallStep, Submit, SubmitFails, GiveUp, TypeOK, ManagerTypeOK
<1>3. call' # call
  OBVIOUS
<1>4. ManagerStep
  BY <1>1, <1>2, <1>3
     DEF Next, vars, Start, StopManager, StopperStep, SubmitStopAll, StopAllExpires,
         CancelManager, ManagerStopped, RunnerStep, WorkerStep, ReportStep,
         SessionIdleNotify, IPCProcessErrorNotify, managerVars
<1>5. ~Answer("err")
  BY DEF Answer
<1>6. StartSucceeds \/ StopIsNOP \/ StopForgets
  BY <1>3, <1>4, <1>5
     DEF ManagerStep, MgrTake, MgrEnds, RefuseStart, AdmitStart, ForceIdle, ForceIdleFails,
         CreateRunner, CreateRunnerFails, SubmitStart, StartFails, RestoreIdle,
         RestoreIdleFails, SubmitStop, SubmitStopFails, StopSucceeds, StopFails, SweepNext,
         SweepDone, RunnerStopStep, CancelRunner, MgrStopDriver, MgrStopDriverSkipped,
         MgrDrain, MgrDrained, StopKeeps, SweepForgets, CleanUpGoesOn, MgrGoto, MgrFinish,
         managerVars
<1>7. Answer("ok")
  BY <1>6 DEF StartSucceeds, StopIsNOP, StopForgets, MgrFinish
<1>8. c = mtask.from /\ mtask.op = IF c \in Runs THEN "start" ELSE "stop"
  BY <1>7 DEF Answer
<1>9. QED
  BY <1>6, <1>8 DEF StartSucceeds, StopIsNOP, StopForgets, TaskFits

\* No run serves the session of a stop that has nothing to do, or that is done.
SessionIsUnserved == \A r \in Runs : Owed(r) => SessionOf[r] # Session

StopIsDone == StopIsNOP \/ StopForgets => SessionIsUnserved

LEMMA InvStopIsDone == ASSUME TypeOK, TearsDown, Inv PROVE StopIsDone
<1>1. TaskFits /\ \A r \in Runs : Owed(r) => Held(r)
  BY DEF Inv, HeldRuns, Owed
<1>2. CASE StopIsNOP
  <2>1. mpc = "stop" /\ active[Session] = None /\ mtask.op = "stop"
    BY <1>1, <1>2 DEF StopIsNOP, TaskFits
  <2>2. QED
    BY <1>1, <2>1 DEF Held, SessionIsUnserved, StopIsDone, Calls
<1>3. CASE StopForgets
  <2>1. RunnerStopped /\ mtask.op = "stop" /\ mpc = "join"
    BY <1>3 DEF StopForgets, RunnerStopped
  <2>2. mrun \in Runs /\ active[SessionOf[mrun]] = mrun /\ SessionOf[mrun] = Session
    BY <1>1, <2>1 DEF Inv, TaskFits, StartPC, StopIsActive, RunnerStopPC
  <2>3. ~Owed(mrun)
    BY <2>1, StoppedIsNotOwed
  <2>4. QED
    BY <1>1, <2>1, <2>2, <2>3 DEF Held, SessionIsUnserved, StopIsDone
<1>4. QED
  BY <1>2, <1>3 DEF StopIsDone

\* What a stop that succeeds tells its client.
LEMMA StopAnswers ==
    ASSUME TypeOK, InHandByName, ShutdownOrder, StopIsDone, StoppedIsIdle, ReadyHasRunner,
           [Next]_vars, NEW c \in Stops, call[c] = "waiting", call'[c] = "ok"
    PROVE  /\ \A r \in Runs : SessionOf[r] = SessionOf[c] =>
                 ~HasCommand(r) /\ (mctx => ~Serves(r))
           /\ life = "RUNNING" => row[SessionOf[c]] = "IDLE"
<1>1. c \in Calls /\ c \notin Runs /\ TaskFits
  BY DEF InHandByName, Calls
<1>2. /\ Session = SessionOf[c]
      /\ Session \in Names
      /\ StopIsNOP \/ StopForgets
  BY <1>1, OkAnswers DEF Session
<1>3. life = "RUNNING" => row[Session] = "IDLE"
  <2>1. CASE StopIsNOP
    BY <1>2, <2>1 DEF StopIsNOP, ReadyHasRunner, TypeOK, RunnerTypeOK
  <2>2. CASE StopForgets
    BY <2>2, RunningHasContext DEF StopForgets, RunnerStopped, StoppedIsIdle, RunnerStopPC
  <2>3. QED
    BY <1>2, <2>1, <2>2
<1>4. QED
  BY <1>2, <1>3 DEF StopIsDone, SessionIsUnserved, Owed

\* A stop is answered with success only when the session has no command any more, no run
\* serves it (but for threads that have yet to notice that the manager's context has ended)
\* and, while the manager runs, its row is IDLE: also a stop that finds nothing to do,
\* whatever starts, stops, reports, failures and aborted waits came before it.
THEOREM StopsTellTheTruth == ASSUME TearsDown PROVE Spec => StopAnswerIsTrue
<1>1. StopInv /\ [Next]_vars =>
         [\A c \in Stops :
            call[c] = "waiting" /\ call'[c] = "ok" =>
               /\ \A r \in Runs : SessionOf[r] = SessionOf[c] =>
                     ~HasCommand(r) /\ (mctx => ~Serves(r))
               /\ life = "RUNNING" => row[SessionOf[c]] = "IDLE"]_vars
  BY InvNames, InvStopIsDone, StopAnswers DEF StopInv
<1>2. QED
  BY <1>1, StopInvHolds, PTL DEF Spec, StopAnswerIsTrue

-----------------------------------------------------------------------------
(* Starts.                                                                          *)

\* A start that has been answered by its runner left the row READY, or a stop came between
\* and is reported.
StartIsReported ==
    mpc = "awaitStart" /\ reply = "ok" /\ mctx =>
        row[Session] = "READY" \/ idleN[mrun] > 0 \/ Reported(mrun)

\* Where a start waits for its runner, no other run is about to call the session IDLE.
StarterHoldsAlone ==
    mctx /\ mpc = "awaitStart" =>
        \A r \in Runs : wpc[r] = "markIdle" /\ r # mrun => SessionOf[r] # Session

LEMMA InvHoldsAlone == Inv => StarterHoldsAlone
  BY DEF StarterHoldsAlone, Inv, HeldRuns, Held, Serves, StartIsAlone, StartPC, TaskFits,
         Calls

\* The row is not made IDLE behind the back of the start.
LEMMA StartIsReportedNext ==
    ASSUME TypeOK, InHandByName, StarterHoldsAlone, ShutdownOrder, AskedFor,
           StartIsReported, [Next]_vars
    PROVE  StartIsReported'
<1> SUFFICES ASSUME mpc' = "awaitStart", reply' = "ok", mctx'
             PROVE  row'[Session'] = "READY" \/ idleN'[mrun'] > 0 \/ Reported(mrun)'
  BY DEF StartIsReported
<1>0. /\ TaskFits /\ mctx
      /\ mpc = "awaitStart" => mrun \in Runs /\ SessionOf[mrun] = Session /\ Session \in Names
  BY ContextStaysEnded DEF InHandByName, TaskFits, StartIsAlone, StartPC, Session, Calls,
                           ProcessEnds
<1>1. CASE UNCHANGED <<row, idleN, mq, mpc, mrun, mtask, reply, mctx>>
  BY <1>1 DEF StartIsReported, Session, Reported
<1>2. ASSUME NEW r \in Runs, RunnerStep(r)
      PROVE  row'[Session'] = "READY" \/ idleN'[mrun'] > 0 \/ Reported(mrun)'
  <2>1. /\ UNCHANGED <<mq, mpc, mrun, mtask, mctx>> /\ Session' = Session
        /\ Reported(mrun)' = Reported(mrun) /\ mpc = "awaitStart"
    BY <1>2, RunnerSteps DEF managerVars, Session, Reported
  <2>2. CASE MarkReady(r)
    <3>1. /\ wpc[r] = "markReady" /\ row' = [row EXCEPT ![SessionOf[r]] = "READY"]
          /\ wfor[r] = "manager"
      BY <2>2 DEF MarkReady, AskedFor, DoneForManager
    <3>2. mrun = r
      BY <1>0, <2>1, <3>1 DEF AskedFor, DoneForManager, Waits
    <3>3. QED
      BY <1>0, <2>1, <3>1, <3>2 DEF TypeOK, RunnerTypeOK
  <2>3. CASE MarkIdle(r)
    <3>1. /\ wpc[r] = "markIdle" /\ row' = [row EXCEPT ![SessionOf[r]] = "IDLE"]
          /\ idleN' = [idleN EXCEPT ![r] = @ + 1]
          /\ reply' = IF wfor[r] = "manager" THEN "ok" ELSE reply
      BY <2>3 DEF MarkIdle, Complete
    <3>2. wfor[r] # "manager" /\ reply = "ok"
      BY <1>0, <2>1, <3>1 DEF AskedFor, DoneForManager
    <3>3. CASE r = mrun
      BY <2>1, <3>1, <3>3 DEF TypeOK, RunnerTypeOK
    <3>4. CASE r # mrun
      <4>1. SessionOf[r] # Session
        BY <1>0, <2>1, <3>1, <3>4 DEF StarterHoldsAlone
      <4>2. QED
        BY <1>0, <2>1, <3>1, <3>2, <3>4, <4>1 DEF StartIsReported, TypeOK, RunnerTypeOK
    <3>5. QED
      BY <3>3, <3>4
  <2>4. QED
    BY <1>2, <2>1, <2>2, <2>3, RunnerSteps DEF StartIsReported
<1>3. ASSUME NEW r \in Runs, ReportStep(r)
      PROVE  row'[Session'] = "READY" \/ idleN'[mrun'] > 0 \/ Reported(mrun)'
  <2>0. mq \in Seq(ManagerTask) /\ mrun \in Runs
    BY <1>0, <1>3 DEF ReportStep, SessionIdleNotify, IPCProcessErrorNotify, TypeOK, ManagerTypeOK
  <2>1. /\ UNCHANGED <<row, mpc, mrun, mtask, reply, mctx>> /\ Session' = Session
        /\ mq' = Append(mq, [op |-> "stop", from |-> r])
        /\ \A s \in Runs : s # r => idleN'[s] = idleN[s]
    BY <1>3 DEF ReportStep, SessionIdleNotify, IPCProcessErrorNotify, ReportToManager, Push, Session,
                TypeOK, RunnerTypeOK
  <2>2. Reported(r)' /\ (Reported(mrun) => Reported(mrun)')
    <3>1. /\ Len(mq) + 1 \in DOMAIN mq' /\ mq'[Len(mq) + 1] = [op |-> "stop", from |-> r]
          /\ \A i \in DOMAIN mq : i \in DOMAIN mq' /\ mq'[i] = mq[i]
      BY <2>0, <2>1, AppendNth
    <3>2. QED
      BY <2>1, <3>1 DEF Reported
  <2>3. QED
    BY <2>0, <2>1, <2>2 DEF StartIsReported
<1>4. ASSUME mpc = "awaitStart", reply = "ok", mctx, NEW e, mq' = Append(mq, e),
             UNCHANGED <<row, idleN, mrun, mtask>>
      PROVE  row'[Session'] = "READY" \/ idleN'[mrun'] > 0 \/ Reported(mrun)'
  <2>1. \A i \in DOMAIN mq : i \in DOMAIN mq' /\ mq'[i] = mq[i]
    BY <1>4, AppendNth DEF TypeOK, ManagerTypeOK
  <2>2. Reported(mrun) => Reported(mrun)'
    BY <1>4, <2>1 DEF Reported
  <2>3. QED
    BY <1>4, <2>2 DEF StartIsReported, Session
<1>5. ~ManagerStep
  <2>1. ~MgrTake
    <3>1. MgrTake => mpc' \in {"start", "stop", "stopAll"}
      BY QueueTypes, ManagerTaskTypes DEF MgrTake, TypeOK, ManagerTypeOK
    <3>2. QED
      BY <3>1
  <2>2. ~SubmitStart
    BY DEF SubmitStart
  <2>3. QED
    BY <2>1, <2>2
       DEF ManagerStep, MgrEnds, RefuseStart, AdmitStart, ForceIdle, ForceIdleFails,
         CreateRunner, CreateRunnerFails, StartSucceeds, StartFails, RestoreIdle,
         RestoreIdleFails, StopIsNOP, SubmitStop, SubmitStopFails, StopSucceeds, StopFails,
         SweepNext, SweepDone, RunnerStopStep, CancelRunner, MgrStopDriver,
         MgrStopDriverSkipped, MgrDrain, MgrDrained, StopForgets, StopKeeps, SweepForgets,
         CleanUpGoesOn, MgrGoto, MgrFinish, managerVars, RunnerStopped, RunnerStopTimesOut
<1>6. ~Start
  BY DEF Start, ShutdownOrder
<1>7. ~ProcessEnds
  BY DEF ProcessEnds
<1>8. CASE UNCHANGED <<row, mtask, mpc, mrun, reply>>
  <2>1. mpc = "awaitStart" /\ reply = "ok"
    BY <1>8
  <2>2. CASE UNCHANGED <<idleN, mq, mctx>>
    BY <1>1, <1>8, <2>2
  <2>3. CASE StopManager
    BY <1>1, <1>8, <2>3 DEF StopManager, runnerVars
  <2>4. ~CancelManager
    BY DEF CancelManager
  <2>5. CASE SubmitStopAll
    BY <1>4, <1>8, <2>1, <2>5 DEF SubmitStopAll, Push, runnerVars
  <2>6. ASSUME NEW c \in Calls, Submit(c)
        PROVE  row'[Session'] = "READY" \/ idleN'[mrun'] > 0 \/ Reported(mrun)'
    BY <1>4, <1>8, <2>1, <2>6 DEF Submit, Push, runnerVars
  <2>7. QED
    BY <1>3, <1>5, <1>6, <1>7, <1>8, <2>2, <2>3, <2>4, <2>5, <2>6, <1>2, OtherSteps
<1>9. QED
  BY <1>2, <1>5, <1>6, <1>7, <1>8, OtherSteps

\* What a start that succeeds tells its client.
LEMMA StartAnswers ==
    ASSUME TypeOK, InHandByName, StartIsReported, [Next]_vars, NEW c \in Runs,
           call[c] = "waiting", call'[c] = "ok", mctx
    PROVE  row[SessionOf[c]] = "READY" \/ idleN[c] > 0 \/ Reported(c)
<1>1. TaskFits /\ c \in Calls
  BY DEF InHandByName, Calls
<1>2. StartSucceeds /\ mtask.from = c
  BY <1>1, OkAnswers
<1>3. mpc = "awaitStart" /\ reply = "ok" /\ mrun = c /\ Session = SessionOf[c]
  BY <1>1, <1>2 DEF StartSucceeds, InHandByName, TaskFits, StartIsAlone, StartPC, Session
<1>4. QED
  BY <1>3 DEF StartIsReported

\* A start is answered with success only when the row is READY, or the run that it started
\* has ended since and says so.
THEOREM StartsTellTheTruth == ASSUME TearsDown PROVE Spec => StartAnswerIsTrue
<1>1. Init => StartIsReported
  BY DEF Init, StartIsReported
<1>2. StopInv /\ StartIsReported /\ [Next]_vars => StartIsReported'
  BY InvNames, InvHoldsAlone, StartIsReportedNext DEF StopInv
<1>3. StopInv /\ StartIsReported /\ [Next]_vars =>
         [\A c \in Runs :
            call[c] = "waiting" /\ call'[c] = "ok" /\ mctx =>
               \/ row[SessionOf[c]] = "READY"
               \/ idleN[c] > 0
               \/ Reported(c)]_vars
  BY InvNames, StartAnswers DEF StopInv
<1>4. QED
  BY <1>1, <1>2, <1>3, StopInvHolds, PTL DEF Spec, StartAnswerIsTrue

-----------------------------------------------------------------------------
(* READY rows.                                                                      *)

\* A worker that is about to write READY has a driver, or the manager's worker is taking
\* it down again; and the worker of the manager restores the row it started with.
MarksItsOwn ==
    /\ \A r \in Runs : wpc[r] = "markReady" =>
          core[r] \/ (mrun = r /\ mtask.op = "start" /\ mpc \in RunnerStopPC)
    /\ mpc = "restore" => mrun = mtask.from /\ mrun \in Runs

\* Who stands behind a READY row: a driver that is up, a worker that is about to write IDLE,
\* or the clean-up of a start that has failed.
Backs(r) ==
    \/ core[r]
    \/ wpc[r] = "markIdle"
    \/ mrun = r /\ mtask.op = "start" /\ mpc \in RunnerStopPC \cup {"restore"}

Backed ==
    allow => \A n \in Names : row[n] = "READY" => \E r \in Runs : SessionOf[r] = n /\ Backs(r)

\* Where the clean-up of a failed start goes next.
LEMMA CleanUpSteps ==
    ASSUME TypeOK, ManagerStep, mtask.op = "start", mpc \in RunnerStopPC \cup {"restore"}
    PROVE  \/ RestoreIdle
           \/ RestoreIdleFails
           \/ /\ mpc \in RunnerStopPC /\ mpc' \in RunnerStopPC
              /\ UNCHANGED <<mtask, mrun>> /\ ~CleanUpGoesOn
           \/ CleanUpGoesOn /\ mpc' = "restore" /\ UNCHANGED <<mtask, mrun>>
<1>1. RestoreIdle \/ RestoreIdleFails \/ RunnerStopStep
  BY DEF ManagerStep, MgrTake, MgrEnds, RefuseStart, AdmitStart, ForceIdle,
         ForceIdleFails, CreateRunner, CreateRunnerFails, SubmitStart, StartSucceeds,
         StartFails, StopIsNOP, SubmitStop, SubmitStopFails, StopSucceeds, StopFails,
         SweepNext, SweepDone, RunnerStopPC
<1>2. ~StopForgets /\ ~StopKeeps /\ ~SweepForgets
  BY DEF StopForgets, StopKeeps, SweepForgets
<1>3. CASE CancelRunner \/ MgrStopDriver \/ MgrStopDriverSkipped \/ MgrDrain \/ MgrDrained
  BY <1>3 DEF CancelRunner, MgrStopDriver, MgrStopDriverSkipped, MgrDrain, MgrDrained,
              CleanUpGoesOn, MgrGoto, managerVars, RunnerStopPC
<1>4. CASE CleanUpGoesOn
  BY <1>4 DEF CleanUpGoesOn, MgrGoto
<1>5. QED
  BY <1>1, <1>2, <1>3, <1>4 DEF RunnerStopStep

\* What the manager's worker does to drivers and to the runners' workers.
LEMMA ManagerLeavesRunners ==
    ASSUME ManagerStep
    PROVE  \/ UNCHANGED <<core, wpc>>
           \/ CreateRunner
           \/ MgrDrained /\ core' = [core EXCEPT ![mrun] = FALSE] /\ wpc' = wpc
  BY DEF ManagerStep, MgrTake, MgrEnds, RefuseStart, AdmitStart, ForceIdle,
         ForceIdleFails, CreateRunnerFails, SubmitStart, StartSucceeds, StartFails,
         RestoreIdle, RestoreIdleFails, StopIsNOP, SubmitStop, SubmitStopFails,
         StopSucceeds, StopFails, SweepNext, SweepDone, RunnerStopStep, CancelRunner,
         MgrStopDriver, TearDown, MgrStopDriverSkipped, TearDownFails, MgrDrain, MgrDrained,
         DaemonsJoined, DaemonsLinger, CancelDriver, StopForgets, StopKeeps, SweepForgets,
         CleanUpGoesOn, runnerVars, driverVars

\* When the manager's worker takes a driver down, it is that of a failed start, or it was
\* down, or the manager has been told to stop.
LEMMA WhoIsTakenDown ==
    ASSUME TypeOK, InHandByName, mctx \/ Swept, ShutdownOrder, StoppedIsIdle, ActiveIsUp,
           MgrDrained
    PROVE  /\ mrun \in Runs
           /\ mtask.op = "start" \/ (~core[mrun] /\ mtask.op = "stop") \/ ~allow
           /\ mtask.op # "start" => wpc[mrun] # "markReady"
<1>1. mpc = "drvCancel" /\ mtask.op \in {"start", "stop", "stopAll"} /\ mrun \in Runs
      /\ mctx
  BY ManagerTaskTypes DEF MgrDrained, InHandByName, TaskFits, StartPC, RunnerStopPC, TypeOK,
                          ManagerTypeOK, Swept
<1>2. mtask.op = "stop" => ~core[mrun]
  BY <1>1 DEF StoppedIsIdle, RunnerStopPC
<1>3. mtask.op = "stopAll" => ~allow
  BY <1>1 DEF ShutdownOrder, RunnerStopPC
<1>4. mtask.op # "start" => wpc[mrun] # "markReady"
  BY <1>1 DEF InHandByName, StopIsActive, RunnerStopPC, ActiveIsUp, NotStarting, Calls
<1>5. QED
  BY <1>1, <1>2, <1>3, <1>4

\* The runners' steps, seen from a READY row.
LEMMA RunnersBack ==
    ASSUME TypeOK, "db" \notin Env, NEW r \in Runs, RunnerStep(r)
    PROVE  /\ core[r] => core'[r] \/ wpc'[r] = "markIdle"
           /\ wpc[r] = "markIdle" => wpc'[r] = "markIdle" \/ MarkIdle(r)
           /\ wpc'[r] = "markReady" => core'[r] \/ (wpc[r] = "markReady" /\ core'[r] = core[r])
<1> USE DEF TypeOK, DriverTypeOK, RunnerTypeOK
<1>1. CASE TakeTask(r)
  <2>1. Head(rq[r]) \in RunnerTask
    BY <1>1, QueueTypes DEF TakeTask
  <2>2. QED
    BY <1>1, <2>1 DEF TakeTask, Goto, RunnerTask, driverVars
<1>2. CASE WorkerEnds(r) \/ Drain(r) \/ Drained(r)
  BY <1>2 DEF WorkerEnds, Drain, CancelDriver, Drained, DaemonsJoined, Goto, runnerVars,
              driverVars
<1>3. CASE StartDriver(r) \/ StopDriver(r, LockFree(r)) \/ StopDriverIdempotent(r, LockFree(r))
  BY <1>3 DEF StartDriver, DriverStarts, StopDriver, TearDown, StopDriverIdempotent, Goto,
              driverVars
<1>4. CASE StartDriverFails(r) \/ StopDriverFails(r, LockFree(r)) \/ DrainTimesOut(r)
           \/ MarkReady(r) \/ MarkReadyFails(r) \/ MarkIdle(r)
  BY <1>4 DEF StartDriverFails, DriverFailsToStart, StopDriverFails, TearDownFails,
              DrainTimesOut, DaemonsLinger, MarkReady, MarkReadyFails, MarkIdle, Complete,
              Goto, driverVars
<1>5. CASE CommandEnds(r) \/ CommandStopNotify(r) \/ IPCStopMessage(r) \/ IPCReadFails(r)
           \/ IPCLoopEnds(r)
  BY <1>5 DEF CommandEnds, CommandExits, CommandStopNotify, WaitReturns, IPCStopMessage,
              IPCReadFails, IPCLoopEnds, runnerVars, driverVars
<1>6. ~MarkIdleFails(r)
  BY DEF MarkIdleFails
<1>7. QED
  BY <1>1, <1>2, <1>3, <1>4, <1>5, <1>6 DEF RunnerStep, WorkerStep

\* The clean-up of a failed start does not go on while the runner's worker writes READY.
CleanUpWaits == CleanUpGoesOn => wpc[mrun] # "markReady"

\* A worker that writes READY still has its driver, or is being stopped by the clean-up.
LEMMA MarksItsOwnNext ==
    ASSUME TypeOK, InHandByName, mctx \/ Swept, CleanUpWaits, "db" \notin Env,
           ShutdownOrder, ActiveIsUp, StoppedIsIdle, MarksItsOwn, [Next]_vars
    PROVE  MarksItsOwn'
<1> USE DEF MarksItsOwn
<1>0. TaskFits
  BY DEF InHandByName
<1>1. CASE UNCHANGED <<core, wpc, mtask, mpc, mrun>>
  BY <1>1
<1>2. CASE ProcessEnds
  BY <1>2 DEF ProcessEnds, RunnerReset, AllRuns
<1>3. ASSUME NEW r \in Runs, RunnerStep(r) PROVE MarksItsOwn'
  <2>1. /\ UNCHANGED <<mtask, mpc, mrun>>
        /\ \A s \in Runs : s # r => core'[s] = core[s] /\ wpc'[s] = wpc[s]
    BY <1>3, RunnerSteps DEF managerVars
  <2>2. wpc'[r] = "markReady" => core'[r] \/ (wpc[r] = "markReady" /\ core'[r] = core[r])
    BY <1>3, RunnersBack
  <2>3. QED
    BY <2>1, <2>2
<1>4. CASE ManagerStep
  <2>1. mpc' = "restore" => mrun' = mtask'.from /\ mrun' \in Runs
    <3>1. mpc' = "restore" => CleanUpGoesOn
      <4>1. ~(MgrTake /\ mpc' = "restore")
        BY QueueTypes, ManagerTaskTypes DEF MgrTake, TypeOK, ManagerTypeOK
      <4>2. QED
        BY <1>4, <4>1
           DEF ManagerStep, MgrEnds, RefuseStart, AdmitStart, ForceIdle, ForceIdleFails,
         CreateRunner, CreateRunnerFails, SubmitStart, StartSucceeds, StartFails,
         RestoreIdle, RestoreIdleFails, StopIsNOP, SubmitStop, SubmitStopFails,
         StopSucceeds, StopFails, SweepNext, SweepDone, RunnerStopStep, CancelRunner,
         MgrStopDriver, MgrStopDriverSkipped, MgrDrain, MgrDrained, StopForgets, StopKeeps,
         SweepForgets, MgrGoto, MgrFinish, managerVars, RunnerStopped, RunnerStopTimesOut
    <3>2. CleanUpGoesOn => /\ mpc = "join" /\ mtask.op = "start"
                           /\ UNCHANGED <<mtask, mrun>>
      BY DEF CleanUpGoesOn, RunnerStopped, RunnerStopTimesOut, MgrGoto
    <3>3. QED
      BY <1>0, <3>1, <3>2 DEF InHandByName, TaskFits, StartIsAlone, StartPC, RunnerStopPC
  <2>2. ASSUME NEW r \in Runs, wpc'[r] = "markReady"
        PROVE  core'[r] \/ (mrun' = r /\ mtask'.op = "start" /\ mpc' \in RunnerStopPC)
    <3>1. wpc[r] = "markReady"
      <4>1. CASE CreateRunner
        <5>1. mtask.from \in Runs
          BY <1>0, <4>1, ManagerTaskTypes DEF CreateRunner, TaskFits, TypeOK, ManagerTypeOK
        <5>2. QED
          BY <2>2, <4>1, <5>1 DEF CreateRunner, SpawnRunner, Goto, TypeOK, RunnerTypeOK
      <4>2. QED
        BY <1>4, <2>2, <4>1, ManagerLeavesRunners
    <3>2. CASE mrun = r /\ mtask.op = "start" /\ mpc \in RunnerStopPC
      <4>1. ~CleanUpGoesOn
        BY <3>1, <3>2 DEF CleanUpWaits
      <4>2. ~RestoreIdle /\ ~RestoreIdleFails
        BY <3>2 DEF RestoreIdle, RestoreIdleFails, RunnerStopPC
      <4>3. QED
        BY <1>4, <3>2, <4>1, <4>2, CleanUpSteps
    <3>3. CASE core[r] /\ ~(mrun = r /\ mtask.op = "start" /\ mpc \in RunnerStopPC)
      <4>1. CASE MgrDrained
        <5>1. mpc \in RunnerStopPC
          BY <4>1 DEF MgrDrained, RunnerStopPC
        <5>2. mrun # r
          BY <3>1, <3>3, <4>1, <5>1, WhoIsTakenDown
        <5>3. QED
          BY <1>4, <3>3, <4>1, <5>2, ManagerLeavesRunners
             DEF TypeOK, DriverTypeOK, CreateRunner, driverVars
      <4>2. QED
        BY <1>4, <3>3, <4>1, ManagerLeavesRunners DEF CreateRunner, driverVars
    <3>4. QED
      BY <3>1, <3>2, <3>3
  <2>3. QED
    BY <2>1, <2>2
<1>5. QED
  BY <1>1, <1>2, <1>3, <1>4, OtherSteps DEF Start, driverVars, runnerVars

\* The manager's steps, seen from a READY row.
LEMMA ManagerBacks ==
    ASSUME TypeOK, InHandByName, mctx \/ Swept, CreateRunner => SessionIsFree,
           "db" \notin Env, ShutdownOrder, ActiveIsUp, StoppedIsIdle, MarksItsOwn,
           ManagerStep, allow, NEW r \in Runs, Backs(r), row'[SessionOf[r]] = "READY"
    PROVE  Backs(r)'
<1>0. TaskFits /\ SessionOf[r] \in Names
  BY DEF InHandByName, Calls
<1>1. CASE mrun = r /\ mtask.op = "start" /\ mpc \in RunnerStopPC \cup {"restore"}
  <2>1. ~RestoreIdle
    <3>1. RestoreIdle => row'[Session] = "IDLE" /\ Session = SessionOf[r]
      BY <1>0, <1>1 DEF RestoreIdle, MarksItsOwn, Session, TypeOK, RunnerTypeOK
    <3>2. QED
      BY <3>1
  <2>2. ~RestoreIdleFails
    BY DEF RestoreIdleFails
  <2>3. QED
    BY <1>1, <2>1, <2>2, CleanUpSteps DEF Backs
<1>2. CASE core[r] /\ ~(mrun = r /\ mtask.op = "start" /\ mpc \in RunnerStopPC)
  <2>1. CASE MgrDrained
    <3>1. mpc \in RunnerStopPC
      BY <2>1 DEF MgrDrained, RunnerStopPC
    <3>2. mrun # r
      BY <1>2, <2>1, <3>1, WhoIsTakenDown
    <3>3. QED
      BY <1>2, <2>1, <3>2, ManagerLeavesRunners
         DEF TypeOK, DriverTypeOK, CreateRunner, driverVars, Backs
  <2>2. QED
    BY <1>2, <2>1, ManagerLeavesRunners DEF CreateRunner, driverVars, Backs
<1>3. CASE wpc[r] = "markIdle"
  <2>1. CASE CreateRunner
    <3>1. mpc = "create" /\ mtask.op = "start" /\ mtask.from \in Runs
      BY <1>0, <2>1, ManagerTaskTypes DEF CreateRunner, TaskFits, TypeOK, ManagerTypeOK
    <3>2. Attached(r)
      BY <1>3 DEF Attached
    <3>3. mtask.from # r
      BY <2>1, <3>1, <3>2 DEF SessionIsFree, Session
    <3>4. QED
      BY <1>3, <2>1, <3>1, <3>3 DEF CreateRunner, SpawnRunner, Goto, TypeOK, RunnerTypeOK,
                                    Backs
  <2>2. QED
    BY <1>3, <2>1, ManagerLeavesRunners DEF Backs
<1>4. QED
  BY <1>1, <1>2, <1>3 DEF Backs

\* A row is READY only where somebody stands behind it.
LEMMA BackedNext ==
    ASSUME TypeOK, InHandByName, mctx \/ Swept, CreateRunner => SessionIsFree,
           "db" \notin Env, ShutdownOrder, ActiveIsUp, StoppedIsIdle, MarksItsOwn, Backed,
           [Next]_vars
    PROVE  Backed'
<1> SUFFICES ASSUME allow', NEW n \in Names, row'[n] = "READY"
             PROVE  \E r \in Runs : SessionOf[r] = n /\ Backs(r)'
  BY DEF Backed
<1>1. CASE UNCHANGED <<row, core, wpc, mtask, mpc, mrun, allow>>
  <2>1. PICK r \in Runs : SessionOf[r] = n /\ Backs(r)
    BY <1>1 DEF Backed
  <2>2. QED
    BY <1>1, <2>1 DEF Backs
<1>2. ~Start /\ ~ProcessEnds
  BY DEF Start, ProcessEnds
<1>3. ASSUME NEW s \in Runs, RunnerStep(s)
      PROVE  \E r \in Runs : SessionOf[r] = n /\ Backs(r)'
  <2>1. /\ UNCHANGED <<allow, mtask, mpc, mrun>>
        /\ \A r \in Runs : r # s => core'[r] = core[r] /\ wpc'[r] = wpc[r]
    BY <1>3, RunnerSteps DEF managerVars
  <2>2. CASE MarkReady(s) /\ n = SessionOf[s]
    <3>1. wpc[s] = "markReady" /\ core' = core
      BY <2>2 DEF MarkReady, driverVars
    <3>2. Backs(s)'
      BY <2>1, <3>1 DEF MarksItsOwn, Backs
    <3>3. QED
      BY <2>2, <3>2
  <2>3. CASE row[n] = "READY"
    <3>1. PICK r \in Runs : SessionOf[r] = n /\ Backs(r)
      BY <2>1, <2>3 DEF Backed
    <3>2. CASE r # s
      BY <2>1, <3>1, <3>2 DEF Backs
    <3>3. CASE r = s
      <4>1. ~MarkIdle(s)
        BY <3>1, <3>3 DEF MarkIdle, TypeOK, RunnerTypeOK
      <4>2. QED
        BY <1>3, <2>1, <3>1, <3>3, <4>1, RunnersBack DEF Backs
    <3>4. QED
      BY <3>2, <3>3
  <2>4. row[n] = "READY" \/ (MarkReady(s) /\ n = SessionOf[s])
    <3>1. CASE MarkReady(s)
      BY <3>1 DEF MarkReady, TypeOK, RunnerTypeOK
    <3>2. CASE MarkIdle(s)
      BY <3>2 DEF MarkIdle, TypeOK, RunnerTypeOK
    <3>3. QED
      BY <1>3, <3>1, <3>2, RunnerSteps
  <2>5. QED
    BY <2>2, <2>3, <2>4
<1>4. CASE ManagerStep
  <2>1. row[n] = "READY"
    BY <1>4, ManagerWritesIdle
  <2>2. allow
    BY <1>4
       DEF ManagerStep, MgrTake, MgrEnds, RefuseStart, AdmitStart, ForceIdle,
         ForceIdleFails, CreateRunner, CreateRunnerFails, SubmitStart, StartSucceeds,
         StartFails, RestoreIdle, RestoreIdleFails, StopIsNOP, SubmitStop, SubmitStopFails,
         StopSucceeds, StopFails, SweepNext, SweepDone, RunnerStopStep, CancelRunner,
         MgrStopDriver, MgrStopDriverSkipped, MgrDrain, MgrDrained, StopForgets, StopKeeps,
         SweepForgets, CleanUpGoesOn, MgrGoto, MgrFinish, managerVars
  <2>3. PICK r \in Runs : SessionOf[r] = n /\ Backs(r)
    BY <2>1, <2>2 DEF Backed
  <2>4. Backs(r)'
    BY <1>4, <2>2, <2>3, ManagerBacks
  <2>5. QED
    BY <2>3, <2>4
<1>5. QED
  BY <1>1, <1>2, <1>3, <1>4, OtherSteps

-----------------------------------------------------------------------------
(* Exclusive ownership where stops fail.                                            *)

\* A start that fails leaves nothing behind that its clean-up forgets: the write of READY
\* does not fail (the driver would be up), no thread outlives the wait of the clean-up,
\* and the manager's context does not end while a start is under way.  Stops are free to
\* fail: drivers may be Docker's, tear-downs fail, and waits for a stop expire.
StartsEndClean ==
    /\ "db" \notin Env
    /\ "startup" \in Env => "slow" \notin Env
    /\ "expire" \in Env => "shutdown" \notin Env

NotToldToStop == "shutdown" \notin Env => stopper = "off"

\* A start is under way only while starts are allowed, and its runner is not cancelled
\* before the start has failed.
StartIsOpen ==
    /\ mtask.op = "start" /\ mpc \in {"force", "create", "restore"} \cup StartPC => allow
    /\ mpc \in {"submitStart", "awaitStart"} => rctx[mrun]

\* The runner in hand has been told, or has told, that it is not up.
HandHasEnded ==
    \/ mtask.op = "stop" /\ mpc = "awaitStop" /\ reply = "ok"
    \/ mtask.op = "start" /\ mpc = "awaitStart" /\ reply = "err"
    \/ mtask.op # "stopAll" /\ mpc \in RunnerStopPC

HandIsDown ==
    HandHasEnded => ~core[mrun] /\ (mtask.op = "start" => "startup" \in Env)

\* Until the bulk stop has closed the door, a run that holds its session is known.
HeldWhileOpen == allow \/ life = "NEW" => \A r \in Runs : Attached(r) => Held(r)

\* The manager's context ends when nothing is in hand any more.
LEMMA ContextEndsSwept ==
    ASSUME StartsEndClean, ShutdownOrder, NotToldToStop
    PROVE  mctx \/ Swept
  BY DEF StartsEndClean, ShutdownOrder, NotToldToStop

LEMMA NotToldToStopNext == ASSUME NotToldToStop, [Next]_vars PROVE NotToldToStop'
<1>1. CASE UNCHANGED stopper
  BY <1>1 DEF NotToldToStop
<1>2. CASE ProcessEnds \/ StopManager \/ StopperStep
  BY <1>2 DEF ProcessEnds, StopManager, StopperStep, SubmitStopAll, StopAllExpires,
              CancelManager, ManagerStopped, NotToldToStop
<1>3. CASE SweepDone
  BY <1>3 DEF SweepDone, NotToldToStop
<1>4. QED
  BY <1>1, <1>2, <1>3, OthersLeaveWorker
     DEF Next, workerVars, Start, ManagerStep, MgrTake, MgrEnds, RefuseStart, AdmitStart,
         ForceIdle, ForceIdleFails, CreateRunner, CreateRunnerFails, SubmitStart,
         StartSucceeds, StartFails, RestoreIdle, RestoreIdleFails, StopIsNOP, SubmitStop,
         SubmitStopFails, StopSucceeds, StopFails, SweepNext, RunnerStopStep, CancelRunner,
         MgrStopDriver, MgrStopDriverSkipped, MgrDrain, MgrDrained, StopForgets, StopKeeps,
         SweepForgets, CleanUpGoesOn, MgrGoto, MgrFinish, managerVars

\* What the manager's worker has in hand goes by its session, whatever fails.
LEMMA InHandByNameNext ==
    ASSUME TypeOK, InHandByName, [Next]_vars
    PROVE  InHandByName'
<1> USE DEF TypeOK, ManagerTypeOK, InHandByName
<1>0. TaskFits'
  BY NextTypes
<1>1. CASE UNCHANGED workerVars
  BY <1>0, <1>1 DEF workerVars, StartIsAlone, StopIsActive, ActiveByName, Session
<1>2. CASE Start \/ StopManager \/ StopperStep
  BY <1>0, <1>2 DEF Start, StopManager, StopperStep, SubmitStopAll, StopAllExpires,
                    CancelManager, ManagerStopped, StartIsAlone, StopIsActive,
                    ActiveByName, Session
<1>3. CASE ProcessEnds
  BY <1>0, <1>3 DEF ProcessEnds, NoTask, StartIsAlone, StopIsActive, ActiveByName,
                    RunnerStopPC
<1>4. CASE MgrTake
  <2>1. mpc' \in {"start", "stop", "stopAll"} /\ active' = active
    BY <1>4, QueueTypes, ManagerTaskTypes DEF MgrTake
  <2>2. QED
    BY <1>0, <2>1 DEF StartIsAlone, StopIsActive, ActiveByName, StartPC, RunnerStopPC
<1>5. CASE mpc' \in {"idle", "exit"} /\ active' = active
  BY <1>0, <1>5 DEF StartIsAlone, StopIsActive, ActiveByName, StartPC, RunnerStopPC
<1>6. CASE AdmitStart \/ ForceIdle \/ CreateRunner \/ SubmitStart \/ StartFails
           \/ SubmitStop \/ StopSucceeds \/ SweepNext
  <2>1. ActiveByName'
    BY <1>6 DEF AdmitStart, ForceIdle, CreateRunner, SubmitStart, StartFails, SubmitStop,
                StopSucceeds, SweepNext, MgrGoto, ActiveByName
  <2>2. StartIsAlone' /\ StopIsActive'
    BY <1>6, ManagerTaskTypes
       DEF AdmitStart, ForceIdle, CreateRunner, SubmitStart, StartFails, SubmitStop,
           StopSucceeds, SweepNext, MgrGoto, TaskFits, StartIsAlone, StopIsActive,
           ActiveByName, StartPC, RunnerStopPC, Session
  <2>3. QED
    BY <1>0, <2>1, <2>2
<1>7. CASE StartSucceeds
  <2>1. mrun = mtask.from /\ mrun \in Runs /\ Session \in Names
    BY <1>7, ManagerTaskTypes DEF StartSucceeds, TaskFits, StartIsAlone, StartPC, Session
  <2>2. QED
    BY <1>0, <1>7, <2>1 DEF StartSucceeds, MgrFinish, NoTask, StartIsAlone, StopIsActive,
                            ActiveByName, RunnerStopPC, Session
<1>8. CASE RunnerStopStep
  BY <1>0, <1>8
     DEF RunnerStopStep, CancelRunner, MgrStopDriver, MgrStopDriverSkipped, MgrDrain,
         MgrDrained, StopForgets, StopKeeps, SweepForgets, CleanUpGoesOn, RunnerStopped,
         RunnerStopTimesOut, MgrGoto, MgrFinish, NoTask, managerVars, StartIsAlone,
         StopIsActive, ActiveByName, TaskFits, StartPC, RunnerStopPC, Session
<1>9. QED
  BY <1>1, <1>2, <1>3, <1>4, <1>5, <1>6, <1>7, <1>8, OthersLeaveWorker
     DEF Next, ManagerStep, MgrEnds, RefuseStart, ForceIdleFails, CreateRunnerFails,
         RestoreIdle, RestoreIdleFails, StopIsNOP, SubmitStopFails, StopFails, SweepDone,
         MgrFinish

\* A start is let in, and its runner made, by an open door.
LEMMA StartIsOpenNext ==
    ASSUME TypeOK, InHandByName, StartIsOpen, StartsEndClean, ShutdownOrder,
           NotToldToStop, [Next]_vars
    PROVE  StartIsOpen'
<1> USE DEF TypeOK, ManagerTypeOK, RunnerTypeOK, StartIsOpen
<1>0. mctx \/ Swept
  BY ContextEndsSwept
<1>1. CASE UNCHANGED <<mtask, mpc, mrun, allow, rctx>>
  BY <1>1
<1>2. CASE Start \/ ProcessEnds
  BY <1>2 DEF Start, ProcessEnds, runnerVars, StartPC, RunnerStopPC
<1>3. CASE MgrTake
  <2>1. mpc' \in {"start", "stop", "stopAll"}
    BY <1>3, QueueTypes, ManagerTaskTypes DEF MgrTake
  <2>2. QED
    BY <2>1 DEF StartPC, RunnerStopPC
<1>4. CASE mpc' \in {"idle", "exit", "stopAll", "awaitStop"}
  BY <1>4 DEF StartPC, RunnerStopPC
<1>5. CASE AdmitStart \/ ForceIdle
  BY <1>5 DEF AdmitStart, ForceIdle, MgrGoto
<1>6. CASE CreateRunner
  <2>1. mtask.from \in Runs /\ mtask.op = "start"
    BY <1>6, ManagerTaskTypes DEF CreateRunner, InHandByName, TaskFits
  <2>2. QED
    BY <1>6, <2>1 DEF CreateRunner, SpawnRunner
<1>7. CASE SubmitStart \/ StartFails
  BY <1>0, <1>7 DEF SubmitStart, StartFails, MgrGoto, Swept, InHandByName, TaskFits,
                    StartPC, RunnerStopPC, runnerVars
<1>8. CASE StopSucceeds \/ SweepNext
  BY <1>8 DEF StopSucceeds, SweepNext, MgrGoto, InHandByName, TaskFits, runnerVars
<1>9. CASE RunnerStopStep
  <2>1. /\ mpc \in RunnerStopPC /\ allow' = allow
        /\ \/ mpc' \in {"idle", "stopAll"}
           \/ mpc' \in RunnerStopPC \cup {"restore"} /\ mtask' = mtask
    BY <1>9
       DEF RunnerStopStep, CancelRunner, MgrStopDriver, MgrStopDriverSkipped, MgrDrain,
           MgrDrained, StopForgets, StopKeeps, SweepForgets, CleanUpGoesOn, RunnerStopped,
           RunnerStopTimesOut, MgrGoto, MgrFinish, managerVars, RunnerStopPC
  <2>2. QED
    BY <2>1 DEF StartPC, RunnerStopPC
<1>10. CASE ManagerStep
  BY <1>3, <1>4, <1>5, <1>6, <1>7, <1>8, <1>9, <1>10
     DEF ManagerStep, MgrEnds, RefuseStart, ForceIdleFails, CreateRunnerFails,
         StartSucceeds, RestoreIdle, RestoreIdleFails, StopIsNOP, SubmitStop,
         SubmitStopFails, StopFails, SweepDone, MgrFinish
<1>11. ASSUME NEW r \in Runs, RunnerStep(r) PROVE UNCHANGED <<mtask, mpc, mrun, allow, rctx>>
  BY <1>11
     DEF RunnerStep, WorkerStep, managerVars, TakeTask, WorkerEnds, StartDriver,
         StartDriverFails, MarkReady, MarkReadyFails, StopDriver, StopDriverIdempotent,
         StopDriverFails, Drain, Drained, DrainTimesOut, MarkIdle, MarkIdleFails,
         CommandEnds, CommandStopNotify, IPCStopMessage, IPCReadFails, IPCLoopEnds,
         runnerVars
<1>12. QED
  BY <1>1, <1>2, <1>10, <1>11
     DEF Next, vars, StopManager, StopperStep, SubmitStopAll, StopAllExpires,
         CancelManager, ManagerStopped, CallStep, Submit, SubmitFails, GiveUp, ReportStep,
         SessionIdleNotify, IPCProcessErrorNotify, runnerVars, managerVars

\* What has been told of the runner in hand stays true of it.
LEMMA HandIsDownNext ==
    ASSUME TypeOK, InHandByName, StartIsOpen, HandIsDown, StartsEndClean, ShutdownOrder,
           NotToldToStop, AskedFor, ActiveIsUp, IdleIsDown, CreateRunner => SessionIsFree,
           [Next]_vars
    PROVE  HandIsDown'
<1> USE DEF TypeOK, RunnerTypeOK
<1>0. TaskFits /\ (mctx \/ Swept)
  BY ContextEndsSwept DEF InHandByName
<1>1. HandHasEnded => mrun \in Runs /\ NotStarting(mrun)
  <2>1. HandHasEnded => mrun \in Runs /\ mctx
    BY <1>0 DEF HandHasEnded, TaskFits, StartPC, RunnerStopPC, Swept
  <2>2. CASE mtask.op = "stop" /\ HandHasEnded
    <3>1. active[SessionOf[mrun]] = mrun /\ SessionOf[mrun] \in Names
      BY <2>1, <2>2 DEF HandHasEnded, InHandByName, StopIsActive, RunnerStopPC, Calls
    <3>2. mrun # None
      BY <2>1, <2>2 DEF Calls
    <3>3. QED
      BY <2>1, <2>2, <3>1, <3>2 DEF ActiveIsUp, NotStarting
  <2>3. CASE mtask.op = "start" /\ HandHasEnded
    <3>1. ~Waits(mrun)
      BY <2>3 DEF HandHasEnded, Waits, RunnerStopPC
    <3>2. QED
      BY <2>1, <2>3, <3>1 DEF NotStarting, AskedFor, QueuedForManager, DoneForManager
  <2>4. QED
    BY <2>1, <2>2, <2>3, ManagerTaskTypes DEF HandHasEnded, ManagerTypeOK
<1>2. CASE UNCHANGED <<core, reply, mtask, mpc, mrun>>
  BY <1>2 DEF HandIsDown, HandHasEnded
<1>3. ASSUME NEW r \in Runs, RunnerStep(r) PROVE HandIsDown'
  <2>1. UNCHANGED <<mtask, mpc, mrun, mctx, active>>
    BY <1>3, RunnerSteps DEF managerVars
  <2>2. CASE HandHasEnded
    <3>1. core'[mrun] => core[mrun]
      BY <1>1, <1>3, <2>2, RunnerSteps DEF NotStarting
    <3>2. QED
      BY <2>1, <2>2, <3>1 DEF HandIsDown
  <2>3. CASE ~HandHasEnded /\ HandHasEnded'
    <3>1. reply' # reply /\ mpc \in {"awaitStart", "awaitStop"}
          /\ (mpc = "awaitStop" => reply' = "ok") /\ (mpc = "awaitStart" => reply' = "err")
      BY <1>0, <2>1, <2>3 DEF HandHasEnded, TaskFits
    <3>2. \/ StartDriverFails(r) /\ reply' = "err"
          \/ MarkReady(r) /\ reply' = "ok"
          \/ MarkIdle(r) /\ reply' = "ok"
          \/ "db" \in Env /\ wpc[r] \in {"markReady", "markIdle"}
          \/ wpc[r] \in {"stop", "drain"} /\ reply' = "err"
      BY <1>3, <3>1
         DEF RunnerStep, WorkerStep, TakeTask, WorkerEnds, StartDriver, StartDriverFails,
             MarkReady, MarkReadyFails, StopDriver, StopDriverIdempotent, StopDriverFails,
             Drain, Drained, DrainTimesOut, MarkIdle, MarkIdleFails, CommandEnds,
             CommandStopNotify, IPCStopMessage, IPCReadFails, IPCLoopEnds, Complete,
             runnerVars
    <3>3. wfor[r] = "manager"
      <4>1. reply' = reply \/ wfor[r] = "manager"
        BY <1>3
           DEF RunnerStep, WorkerStep, TakeTask, WorkerEnds, StartDriver, StartDriverFails,
               MarkReady, MarkReadyFails, StopDriver, StopDriverIdempotent, StopDriverFails,
               Drain, Drained, DrainTimesOut, MarkIdle, MarkIdleFails, CommandEnds,
               CommandStopNotify, IPCStopMessage, IPCReadFails, IPCLoopEnds, Complete,
               runnerVars
      <4>2. QED
        BY <3>1, <4>1
    <3>4. mctx /\ mrun = r
      BY <1>0, <3>1, <3>3 DEF AskedFor, DoneForManager, Waits, Swept
    <3>5. CASE mpc = "awaitStart"
      <4>1. StartDriverFails(r)
        BY <3>1, <3>2, <3>3, <3>4, <3>5 DEF AskedFor, DoneForManager, StartsEndClean
      <4>2. ~Gone(r)
        BY <1>0, <3>4, <3>5 DEF Gone, StartIsOpen, Swept
      <4>3. "startup" \in Env /\ ~core[r] /\ core' = core
        BY <4>1, <4>2 DEF StartDriverFails, DriverFailsToStart, driverVars
      <4>4. QED
        BY <2>1, <3>4, <4>3 DEF HandIsDown
    <3>6. CASE mpc = "awaitStop"
      <4>1. MarkIdle(r)
        BY <3>1, <3>2, <3>3, <3>4, <3>6
           DEF AskedFor, DoneForManager, StartsEndClean, MarkReady
      <4>2. ~core[r] /\ core' = core
        BY <4>1 DEF MarkIdle, IdleIsDown, driverVars
      <4>3. mtask.op = "stop"
        BY <1>0, <3>6 DEF TaskFits
      <4>4. QED
        BY <2>1, <3>4, <4>2, <4>3 DEF HandIsDown
    <3>7. QED
      BY <3>1, <3>5, <3>6
  <2>4. CASE ~HandHasEnded'
    BY <2>4 DEF HandIsDown
  <2>5. QED
    BY <2>2, <2>3, <2>4
<1>4. CASE ManagerStep
  <2>1. CASE ~HandHasEnded'
    BY <2>1 DEF HandIsDown
  <2>4. CASE CreateRunner
    <3>1. mtask.op = "start" /\ mtask.from \in Runs /\ UNCHANGED <<core, mtask>>
          /\ mrun' = mtask.from /\ (mpc' = "submitStart" \/ "startup" \in Env)
      BY <1>0, <2>4, ManagerTaskTypes DEF CreateRunner, TaskFits, ManagerTypeOK, driverVars
    <3>2. ~core[mtask.from]
      BY <2>4, <3>1 DEF SessionIsFree, Session, Attached
    <3>3. QED
      BY <3>1, <3>2 DEF HandIsDown, HandHasEnded, RunnerStopPC
  <2>2. CASE HandHasEnded' /\ ~CreateRunner
    <3>1. ~MgrTake
      <4>1. MgrTake => mpc' \in {"start", "stop", "stopAll"}
        BY QueueTypes, ManagerTaskTypes DEF MgrTake, ManagerTypeOK
      <4>2. QED
        BY <2>2, <4>1 DEF HandHasEnded, RunnerStopPC
    <3>2. ~AdmitStart /\ ~ForceIdle /\ ~SweepDone /\ ~MgrEnds /\ ~RestoreIdle
          /\ ~RestoreIdleFails /\ ~SubmitStart /\ ~SubmitStop
      BY <2>2 DEF AdmitStart, ForceIdle, SweepDone, MgrEnds, RestoreIdle, RestoreIdleFails,
                  SubmitStart, SubmitStop, MgrGoto, HandHasEnded, RunnerStopPC
    <3>3. \A result : ~MgrFinish(result)
      BY <2>2 DEF MgrFinish, HandHasEnded, RunnerStopPC
    <3>4. ~SweepNext
      BY <1>0, <2>2 DEF SweepNext, TaskFits, HandHasEnded
    <3>5. StartFails \/ StopSucceeds \/ RunnerStopStep
      BY <1>4, <2>2, <3>1, <3>2, <3>3, <3>4
         DEF ManagerStep, RefuseStart, ForceIdleFails, CreateRunnerFails, StartSucceeds,
             StopIsNOP, SubmitStopFails, StopFails
    <3>6. CASE StartFails \/ StopSucceeds
      <4>1. HandHasEnded
        BY <1>0, <3>6 DEF StartFails, StopSucceeds, HandHasEnded, Swept, TaskFits, StartPC
      <4>2. UNCHANGED <<core, mtask, mrun>>
        BY <3>6 DEF StartFails, StopSucceeds, MgrGoto, driverVars
      <4>3. QED
        BY <4>1, <4>2 DEF HandIsDown
    <3>7. CASE RunnerStopStep
      <4>1. mpc \in RunnerStopPC /\ mtask' = mtask /\ mrun' = mrun
            /\ (core' = core \/ core' = [core EXCEPT ![mrun] = FALSE])
        <5>1. CASE CancelRunner \/ MgrStopDriver \/ MgrStopDriverSkipped \/ MgrDrain
                   \/ MgrDrained
          BY <5>1 DEF CancelRunner, MgrStopDriver, TearDown, MgrStopDriverSkipped,
                      TearDownFails, MgrDrain, CancelDriver, MgrDrained, DaemonsJoined,
                      DaemonsLinger, MgrGoto, managerVars, driverVars, RunnerStopPC
        <5>2. CASE StopForgets \/ StopKeeps \/ SweepForgets \/ CleanUpGoesOn
          BY <2>2, <5>2 DEF StopForgets, StopKeeps, SweepForgets, CleanUpGoesOn, MgrGoto,
                            MgrFinish, HandHasEnded, RunnerStopPC
        <5>3. QED
          BY <3>7, <5>1, <5>2 DEF RunnerStopStep
      <4>2. HandHasEnded
        BY <2>2, <4>1 DEF HandHasEnded, RunnerStopPC
      <4>3. QED
        BY <1>1, <4>1, <4>2 DEF HandIsDown, DriverTypeOK
    <3>8. QED
      BY <3>5, <3>6, <3>7
  <2>3. QED
    BY <2>1, <2>2, <2>4
<1>5. CASE Start \/ ProcessEnds
  BY <1>2, <1>5 DEF Start, ProcessEnds, driverVars, runnerVars, HandIsDown, HandHasEnded,
                    RunnerStopPC
<1>6. QED
  BY <1>2, <1>3, <1>4, <1>5, OtherSteps

\* A run that Runner.Stop has ended, whose driver is down, holds nothing any more.
LEMMA DownIsDetached ==
    ASSUME HandIsDown, HandHasEnded, mctx, mrun \in Runs,
           RunnerStopped \/ (RunnerStopTimesOut /\ "slow" \notin Env)
    PROVE  ~Attached(mrun)
  BY DEF HandIsDown, RunnerStopped, RunnerStopTimesOut, ThreadsEnded, Stuck, Attached

\* The door is closed once, and opens with the next process.
LEMMA DoorSteps ==
    ASSUME [Next]_vars, allow' \/ life' = "NEW"
    PROVE  ProcessEnds \/ allow \/ life = "NEW"
<1>1. CASE UNCHANGED <<allow, life>>
  BY <1>1
<1>2. CASE Start \/ MgrTake \/ StopManager
  BY <1>2 DEF Start, MgrTake, StopManager
<1>3. QED
  BY <1>1, <1>2, OthersLeaveWorker
     DEF Next, workerVars, StopperStep, SubmitStopAll, StopAllExpires, CancelManager,
         ManagerStopped, ManagerStep, MgrEnds, RefuseStart, AdmitStart, ForceIdle,
         ForceIdleFails, CreateRunner, CreateRunnerFails, SubmitStart, StartSucceeds,
         StartFails, RestoreIdle, RestoreIdleFails, StopIsNOP, SubmitStop,
         SubmitStopFails, StopSucceeds, StopFails, SweepNext, SweepDone, RunnerStopStep,
         CancelRunner, MgrStopDriver, MgrStopDriverSkipped, MgrDrain, MgrDrained,
         StopForgets, StopKeeps, SweepForgets, CleanUpGoesOn, MgrGoto, MgrFinish,
         managerVars

\* While the door is open, a run that the manager's worker lets go of holds nothing.
LEMMA WorkerKeepsHeld ==
    ASSUME TypeOK, InHandByName, HandIsDown, StartsEndClean, ShutdownOrder, NotToldToStop,
           ManagerStep, allow \/ life = "NEW", NEW r \in Runs, Attached(r), Held(r)
    PROVE  Held(r)'
<1> USE DEF TypeOK, ManagerTypeOK, InHandByName
<1>0. SessionOf[r] \in Names /\ (mpc = "join" => mctx)
  BY ContextEndsSwept DEF Calls, Swept
<1>1. CASE UNCHANGED active /\ (mtask.op = "start" /\ mpc \in StartPC =>
                                    mpc' \in StartPC /\ UNCHANGED <<mtask, mrun>>)
  BY <1>1 DEF Held
<1>2. CASE UNCHANGED active /\ ~(mtask.op = "start" /\ mpc \in StartPC)
  BY <1>2 DEF Held
<1>3. CASE StartSucceeds
  <2>1. /\ mrun = mtask.from /\ active[Session] = None /\ Session \in Names
        /\ active' = [active EXCEPT ![Session] = mrun]
    BY <1>3, ManagerTaskTypes DEF StartSucceeds, TaskFits, StartIsAlone, StartPC, Session
  <2>2. CASE mrun = r
    BY <1>0, <2>1, <2>2 DEF Held, Session
  <2>3. CASE active[SessionOf[r]] = r
    BY <1>0, <2>1, <2>3 DEF Held, Calls
  <2>4. QED
    BY <2>2, <2>3 DEF Held
<1>4. CASE StopForgets
  <2>1. /\ mtask.op = "stop" /\ RunnerStopped /\ mpc = "join" /\ mrun \in Runs
        /\ active' = [active EXCEPT ![Session] = None]
    BY <1>4 DEF StopForgets, RunnerStopped, TaskFits, StartPC, RunnerStopPC
  <2>2. active[Session] = mrun /\ r # mrun
    BY <1>0, <2>1, DownIsDetached DEF StopIsActive, HandHasEnded, RunnerStopPC
  <2>3. active[SessionOf[r]] = r
    BY <2>1 DEF Held
  <2>4. QED
    BY <1>0, <2>1, <2>2, <2>3 DEF Held
<1>5. CASE CleanUpGoesOn
  <2>1. mtask.op = "start" /\ mpc = "join" /\ mrun \in Runs /\ active' = active
    BY <1>5 DEF CleanUpGoesOn, MgrGoto, RunnerStopped, RunnerStopTimesOut, TaskFits,
                StartPC, RunnerStopPC
  <2>2. HandHasEnded /\ "slow" \notin Env
    BY <2>1 DEF HandHasEnded, RunnerStopPC, HandIsDown, StartsEndClean
  <2>3. r # mrun
    BY <1>0, <1>5, <2>1, <2>2, DownIsDetached DEF CleanUpGoesOn
  <2>4. QED
    BY <2>1, <2>3 DEF Held
<1>6. ~SweepForgets
  BY DEF SweepForgets, RunnerStopped, RunnerStopTimesOut, ShutdownOrder, RunnerStopPC
<1>7. CASE AdmitStart \/ ForceIdle \/ CreateRunner \/ MgrTake \/ MgrEnds \/ RefuseStart
           \/ ForceIdleFails \/ CreateRunnerFails \/ RestoreIdle \/ RestoreIdleFails
  BY <1>2, <1>7 DEF AdmitStart, ForceIdle, CreateRunner, MgrTake, MgrEnds, RefuseStart,
                    ForceIdleFails, CreateRunnerFails, RestoreIdle, RestoreIdleFails,
                    MgrGoto, StartPC, RunnerStopPC
<1>8. CASE StopIsNOP \/ SubmitStop \/ SubmitStopFails \/ StopSucceeds \/ StopFails
           \/ SweepNext \/ SweepDone \/ StopKeeps
  BY <1>2, <1>8 DEF StopIsNOP, SubmitStop, SubmitStopFails, StopSucceeds, StopFails,
                    SweepNext, SweepDone, StopKeeps, MgrGoto, StartPC, RunnerStopPC
<1>9. CASE SubmitStart \/ StartFails \/ CancelRunner \/ MgrStopDriver
           \/ MgrStopDriverSkipped \/ MgrDrain \/ MgrDrained
  BY <1>1, <1>9 DEF SubmitStart, StartFails, CancelRunner, MgrStopDriver,
                    MgrStopDriverSkipped, MgrDrain, MgrDrained, MgrGoto, managerVars,
                    StartPC, RunnerStopPC
<1>10. QED
  BY <1>3, <1>4, <1>5, <1>6, <1>7, <1>8, <1>9 DEF ManagerStep, RunnerStopStep

\* While the door is open, whoever holds a session is known.
LEMMA HeldWhileOpenNext ==
    ASSUME TypeOK, InHandByName, StartIsOpen, HandIsDown, StartsEndClean, ShutdownOrder,
           NotToldToStop, HeldWhileOpen, [Next]_vars
    PROVE  HeldWhileOpen'
<1> SUFFICES ASSUME allow' \/ life' = "NEW", NEW r \in Runs, Attached(r)'
             PROVE  Held(r)'
  BY DEF HeldWhileOpen
<1>1. CASE ProcessEnds
  BY <1>1 DEF ProcessEnds, DriverReset, RunnerReset, AllRuns, Attached
<1>2. CASE CreateRunner /\ r = mtask.from
  BY <1>2 DEF CreateRunner, Held, InHandByName, TaskFits, StartPC, RunnerStopPC
<1>3. CASE Attached(r) /\ ~ProcessEnds
  <2>1. (allow \/ life = "NEW") /\ Held(r)
    BY <1>3, DoorSteps DEF HeldWhileOpen
  <2>2. CASE ManagerStep
    BY <1>3, <2>1, <2>2, WorkerKeepsHeld
  <2>3. CASE UNCHANGED <<active, mtask, mpc, mrun>>
    BY <2>1, <2>3 DEF Held
  <2>4. QED
    BY <1>3, <2>2, <2>3, OthersLeaveWorker
       DEF Next, workerVars, Start, StopManager, StopperStep, SubmitStopAll,
           StopAllExpires, CancelManager, ManagerStopped
<1>4. CASE CreateRunner /\ r # mtask.from
  <2>1. Attached(r)
    BY <1>4 DEF CreateRunner, SpawnRunner, Goto, Attached, driverVars, TypeOK, RunnerTypeOK
  <2>2. ~ProcessEnds
    BY <1>4 DEF CreateRunner, ProcessEnds
  <2>3. QED
    BY <1>3, <2>1, <2>2
<1>5. QED
  BY <1>1, <1>2, <1>3, <1>4, OwnershipSteps DEF LetsGo

\* A start that makes its runner has made sure that nobody holds the session.
LEMMA OpenCreateIsFree ==
    ASSUME TypeOK, InHandByName, StartIsOpen, HeldWhileOpen, CreateRunner
    PROVE  SessionIsFree
  BY DEF CreateRunner, InHandByName, TaskFits, StartIsAlone, StartIsOpen, HeldWhileOpen, Held,
         SessionIsFree, Session, StartPC, RunnerStopPC, Calls

\* So no session is ever held twice.
LEMMA NoDoubleAttachNext ==
    ASSUME TypeOK, TaskFits, NoDoubleAttach, [Next]_vars, CreateRunner => SessionIsFree
    PROVE  NoDoubleAttach'
<1>1. CASE ProcessEnds
  BY <1>1 DEF ProcessEnds, DriverReset, RunnerReset, AllRuns, Attached, NoDoubleAttach
<1>2. CASE LetsGo
  BY <1>2 DEF LetsGo, NoDoubleAttach
<1>3. CASE CreateRunner
  <2>1. \A r \in Runs : Attached(r)' => Attached(r) \/ r = mtask.from
    BY <1>3 DEF CreateRunner, SpawnRunner, Goto, Attached, driverVars, TypeOK, RunnerTypeOK
  <2>2. \A r \in Runs : Attached(r) => SessionOf[r] # SessionOf[mtask.from]
    BY <1>3 DEF SessionIsFree, Session
  <2>3. QED
    BY <2>1, <2>2 DEF NoDoubleAttach
<1>4. QED
  BY <1>1, <1>2, <1>3, OwnershipSteps

\* What exclusion rests on where stops fail.
ExclusionInv ==
    /\ TypeOK /\ InHandByName /\ ShutdownOrder /\ StopAllIsAsked /\ NotToldToStop
    /\ AskedFor /\ ActiveIsUp /\ IdleIsDown /\ StartsOnce
    /\ StartIsOpen /\ HandIsDown /\ HeldWhileOpen /\ NoDoubleAttach /\ CommandsUp

LEMMA ExclusionInvHolds == ASSUME StartsEndClean PROVE Spec => []ExclusionInv
<1>1. Init => ExclusionInv
  <2> SUFFICES ASSUME Init PROVE ExclusionInv
    OBVIOUS
  <2>1. TypeOK /\ Inv
    BY InitTypes, InitInv
  <2>2. InHandByName /\ HeldWhileOpen /\ NoDoubleAttach /\ CommandsUp
    <3>1. \A r \in Runs : ~Attached(r)
      BY DEF Init, DriverInit, RunnerInit, AllRuns, Attached
    <3>2. QED
      BY <2>1, <3>1, InitCommandsUp DEF Inv, InHandByName, HeldWhileOpen, NoDoubleAttach
  <2>3. ShutdownOrder /\ StopAllIsAsked /\ NotToldToStop /\ StartIsOpen /\ HandIsDown
    BY DEF Init, ShutdownOrder, StopAllIsAsked, NotToldToStop, StartIsOpen, HandIsDown,
           HandHasEnded, StartPC, RunnerStopPC
  <2>4. AskedFor /\ ActiveIsUp /\ IdleIsDown /\ StartsOnce
    BY DEF Init, RunnerInit, AllRuns, NoTask, AskedFor, QueuedForManager, DoneForManager,
           ActiveIsUp, IdleIsDown, StartsOnce, Off, New, Pending
  <2>5. QED
    BY <2>1, <2>2, <2>3, <2>4 DEF ExclusionInv
<1>2. ExclusionInv /\ [Next]_vars => ExclusionInv'
  <2> SUFFICES ASSUME ExclusionInv, [Next]_vars PROVE ExclusionInv'
    OBVIOUS
  <2>1. TaskFits /\ StartIsAlone /\ ActiveByName
    BY DEF ExclusionInv, InHandByName
  <2>2. TypeOK' /\ InHandByName' /\ NotToldToStop'
    BY <2>1, NextTypes, InHandByNameNext, NotToldToStopNext DEF ExclusionInv
  <2>3. ShutdownOrder' /\ StopAllIsAsked'
    BY <2>1, ShutdownOrderNext, StopAllIsAskedNext DEF ExclusionInv
  <2>4. AskedFor' /\ ActiveIsUp' /\ IdleIsDown' /\ StartsOnce'
    BY <2>1, AskedForNext, ActiveIsUpNext, IdleIsDownNext, StartsOnceNext DEF ExclusionInv
  <2>5. StartIsOpen' /\ HandIsDown' /\ HeldWhileOpen'
    BY OpenCreateIsFree, StartIsOpenNext, HandIsDownNext, HeldWhileOpenNext
       DEF ExclusionInv
  <2>6. NoDoubleAttach' /\ CommandsUp'
    BY <2>1, OpenCreateIsFree, NoDoubleAttachNext, CommandsUpNext DEF ExclusionInv
  <2>7. QED
    BY <2>2, <2>3, <2>4, <2>5, <2>6 DEF ExclusionInv
<1>3. QED
  BY <1>1, <1>2, PTL DEF Spec

\* With either driver, and whatever fails or is slow while a runner is stopped, no two runs
\* ever hold the same session, where a start that fails leaves nothing behind: a runner
\* that could not be stopped stays active and its session is refused to others.
THEOREM ExclusiveThoughStopsFail == ASSUME StartsEndClean PROVE Spec => []NoDoubleAttach
<1>1. ExclusionInv => NoDoubleAttach
  BY DEF ExclusionInv
<1>2. QED
  BY <1>1, ExclusionInvHolds, PTL

\* In the same environments session control implements exclusive ownership, also with
\* Docker, and while runners that could not be stopped are still there.
THEOREM OwnershipThoughStopsFail == ASSUME StartsEndClean PROVE Spec => ImplementsOwnership
<1>1. ExclusionInv => OwnersHold
  BY OwnersAreHolders DEF ExclusionInv
<1>2. Init /\ OwnersHold => Ownership!Init
  BY DEF Init, DriverInit, RunnerInit, AllRuns, Ownership!Init, Attached
<1>3. ExclusionInv /\ OwnersHold /\ OwnersHold' /\ [Next]_vars
          => [Ownership!Next]_(Ownership!vars)
  <2> SUFFICES ASSUME ExclusionInv, OwnersHold, OwnersHold', [Next]_vars
               PROVE  [Ownership!Next]_(Ownership!vars)
    OBVIOUS
  <2>1. CreateRunner => SessionIsFree
    BY OpenCreateIsFree DEF ExclusionInv
  <2>2. QED
    BY <2>1, StepsKeepOwnership
       DEF ExclusionInv, InHandByName, Ownership!vars, Owners, Spent
<1>4. QED
  BY <1>1, <1>2, <1>3, ExclusionInvHolds, PTL DEF Spec, ImplementsOwnership, Ownership!Spec

-----------------------------------------------------------------------------
(* Answers and rows where stops fail.                                               *)

\* The door that Start has opened is closed by a shutdown only.
ShutdownCloses ==
    /\ allow \/ life \in {"NEW", "STOPPED"}
    /\ "shutdown" \notin Env => life # "STOPPED"

LEMMA ShutdownClosesNext ==
    ASSUME TypeOK, StopAllIsAsked, ShutdownCloses, [Next]_vars
    PROVE  ShutdownCloses'
<1>1. CASE UNCHANGED <<allow, life>>
  BY <1>1 DEF ShutdownCloses
<1>2. CASE Start \/ StopManager \/ ProcessEnds
  BY <1>2 DEF Start, StopManager, ProcessEnds, ShutdownCloses
<1>3. CASE MgrTake
  <2>1. Head(mq).op = "stopAll" => life = "STOPPED"
    BY <1>3 DEF MgrTake, StopAllIsAsked, TypeOK, ManagerTypeOK
  <2>2. QED
    BY <1>3, <2>1 DEF MgrTake, ShutdownCloses
<1>4. QED
  BY <1>1, <1>2, <1>3, OthersLeaveWorker
     DEF Next, workerVars, StopperStep, SubmitStopAll, StopAllExpires, CancelManager,
         ManagerStopped, ManagerStep, MgrEnds, RefuseStart, AdmitStart, ForceIdle,
         ForceIdleFails, CreateRunner, CreateRunnerFails, SubmitStart, StartSucceeds,
         StartFails, RestoreIdle, RestoreIdleFails, StopIsNOP, SubmitStop,
         SubmitStopFails, StopSucceeds, StopFails, SweepNext, SweepDone, RunnerStopStep,
         CancelRunner, MgrStopDriver, MgrStopDriverSkipped, MgrDrain, MgrDrained,
         StopForgets, StopKeeps, SweepForgets, CleanUpGoesOn, MgrGoto, MgrFinish,
         managerVars

\* What the answers rest on, where stops fail.
TruthInv ==
    /\ ExclusionInv /\ ShutdownCloses /\ StoppedIsIdle /\ ReadyHasRunner /\ StartIsReported
    /\ MarksItsOwn /\ Backed

\* What Inv gives where drivers can be torn down, ExclusionInv gives where they may not.
LEMMA ExclusionGives ==
    ASSUME ExclusionInv, StartsEndClean
    PROVE  /\ StarterHoldsAlone /\ CleanUpWaits
           /\ CreateRunner => SessionIsFree
           /\ mctx \/ Swept
<1> USE DEF ExclusionInv
<1>1. TaskFits /\ (mctx \/ Swept)
  BY ContextEndsSwept DEF InHandByName
<1>2. mctx => \A r \in Runs : wpc[r] = "markReady" => Waits(r)
  BY DEF AskedFor, DoneForManager
<1>3. CleanUpWaits
  BY <1>1, <1>2 DEF CleanUpWaits, CleanUpGoesOn, RunnerStopped, RunnerStopTimesOut, Waits,
                    Swept, TaskFits, StartPC, RunnerStopPC
<1>4. StarterHoldsAlone
  BY <1>1 DEF StarterHoldsAlone, InHandByName, StartIsAlone, StartIsOpen, HeldWhileOpen, Held,
              Attached, TaskFits, StartPC, Calls
<1>5. QED
  BY <1>1, <1>3, <1>4, OpenCreateIsFree

LEMMA TruthInvHolds == ASSUME StartsEndClean PROVE Spec => []TruthInv
<1>1. Init => ShutdownCloses /\ StoppedIsIdle /\ ReadyHasRunner /\ StartIsReported
              /\ MarksItsOwn /\ Backed
  BY DEF Init, RunnerInit, AllRuns, ShutdownCloses, StoppedIsIdle, RunnerStopPC,
         ReadyHasRunner, StartIsReported, MarksItsOwn, Backed
<1>2. TruthInv /\ [Next]_vars =>
         /\ ShutdownCloses' /\ StoppedIsIdle' /\ ReadyHasRunner' /\ StartIsReported'
         /\ MarksItsOwn' /\ Backed'
  <2> SUFFICES ASSUME TruthInv, [Next]_vars
               PROVE  /\ ShutdownCloses' /\ StoppedIsIdle' /\ ReadyHasRunner'
                      /\ StartIsReported' /\ MarksItsOwn' /\ Backed'
    OBVIOUS
  <2>1. /\ TypeOK /\ InHandByName /\ ShutdownOrder /\ StopAllIsAsked /\ AskedFor
        /\ ActiveIsUp /\ IdleIsDown /\ StarterHoldsAlone /\ CleanUpWaits
        /\ CreateRunner => SessionIsFree
        /\ mctx \/ Swept
        /\ "db" \notin Env
    BY ExclusionGives DEF TruthInv, ExclusionInv, StartsEndClean
  <2>2. ShutdownCloses' /\ StoppedIsIdle' /\ ReadyHasRunner'
    BY <2>1, ShutdownClosesNext, StoppedIsIdleNext, ReadyHasRunnerNext DEF TruthInv
  <2>3. StartIsReported'
    BY <2>1, StartIsReportedNext DEF TruthInv
  <2>4. MarksItsOwn' /\ Backed'
    BY <2>1, MarksItsOwnNext, BackedNext DEF TruthInv
  <2>5. QED
    BY <2>2, <2>3, <2>4
<1>3. QED
  BY <1>1, <1>2, ExclusionInvHolds, PTL DEF Spec, TruthInv

\* A run that has to be stopped holds its session.
LEMMA OwedIsAttached == ASSUME CommandsUp, NEW r \in Runs, Owed(r) PROVE Attached(r)
  BY DEF CommandsUp, CommandsHaveDrivers, Owed, Serves, Attached

\* A stop that has nothing to do, or that has stopped its runner, leaves no run that serves
\* the session, unless a bulk stop has forgotten runners before it.
LEMMA OpenStopIsDone ==
    ASSUME TruthInv, StartsEndClean, "shutdown" \notin Env
    PROVE  StopIsDone
<1> USE DEF TruthInv, ExclusionInv
<1>1. /\ TypeOK /\ TaskFits /\ (allow \/ life = "NEW")
      /\ \A r \in Runs : Owed(r) => Attached(r) /\ Held(r)
      /\ mpc = "join" => mctx
  BY ContextEndsSwept, OwedIsAttached DEF InHandByName, ShutdownCloses, HeldWhileOpen, Swept
<1>2. CASE StopIsNOP
  <2>1. mpc = "stop" /\ active[Session] = None /\ mtask.op = "stop"
    BY <1>1, <1>2 DEF StopIsNOP, TaskFits
  <2>2. QED
    BY <1>1, <2>1 DEF Held, SessionIsUnserved, StopIsDone, Calls
<1>3. CASE StopForgets
  <2>1. RunnerStopped /\ mtask.op = "stop" /\ mpc = "join"
    BY <1>3 DEF StopForgets, RunnerStopped
  <2>2. mrun \in Runs /\ active[SessionOf[mrun]] = mrun /\ SessionOf[mrun] = Session
    BY <1>1, <2>1 DEF InHandByName, TaskFits, StartPC, StopIsActive, RunnerStopPC
  <2>3. ~Attached(mrun)
    BY <1>1, <2>1, <2>2, DownIsDetached DEF HandHasEnded, RunnerStopPC
  <2>4. QED
    BY <1>1, <2>1, <2>2, <2>3 DEF Held, SessionIsUnserved, StopIsDone
<1>4. QED
  BY <1>2, <1>3 DEF StopIsDone

\* A stop that is answered with success has stopped its runner for good, also a container's
\* whose tear-down had failed before, as long as the manager is not told to shut down: a
\* stop that could not do so is answered with an error.
THEOREM StopsTellTheTruthThoughStopsFail ==
    ASSUME StartsEndClean, "shutdown" \notin Env
    PROVE  Spec => StopAnswerIsTrue
<1>1. TruthInv /\ [Next]_vars =>
         [\A c \in Stops :
            call[c] = "waiting" /\ call'[c] = "ok" =>
               /\ \A r \in Runs : SessionOf[r] = SessionOf[c] =>
                     ~HasCommand(r) /\ (mctx => ~Serves(r))
               /\ life = "RUNNING" => row[SessionOf[c]] = "IDLE"]_vars
  BY OpenStopIsDone, StopAnswers DEF TruthInv, ExclusionInv
<1>2. QED
  BY <1>1, TruthInvHolds, PTL DEF Spec, StopAnswerIsTrue

\* With either driver, and whatever fails while a runner is stopped, a start is answered with
\* success only when the row is READY, or its run has ended since and says so.
THEOREM StartsTellTheTruthThoughStopsFail ==
    ASSUME StartsEndClean
    PROVE  Spec => StartAnswerIsTrue
<1>1. TruthInv /\ [Next]_vars =>
         [\A c \in Runs :
            call[c] = "waiting" /\ call'[c] = "ok" /\ mctx =>
               \/ row[SessionOf[c]] = "READY"
               \/ idleN[c] > 0
               \/ Reported(c)]_vars
  BY StartAnswers DEF TruthInv, ExclusionInv
<1>2. QED
  BY <1>1, TruthInvHolds, PTL DEF Spec, StartAnswerIsTrue

\* In the same environments a session that the database calls READY is served, or about to
\* be called IDLE: a tear-down that fails leaves both the row and the driver.
THEOREM RowsAreServedThoughStopsFail ==
    ASSUME StartsEndClean
    PROVE  Spec => []ReadyIsBacked
<1>1. TruthInv => ReadyIsBacked
  BY DEF TruthInv, Backed, Backs, ReadyIsBacked
<1>2. QED
  BY <1>1, TruthInvHolds, PTL

\* A command that runs can still be stopped even where its tear-down has failed: whoever
\* could not stop the runner keeps it, unless a bulk stop forgets it.
THEOREM NoOrphanThoughStopsFail ==
    ASSUME StartsEndClean, "shutdown" \notin Env
    PROVE  Spec => []NoOrphan
<1>1. TruthInv => NoOrphan
  <2> SUFFICES ASSUME TruthInv, NEW r \in Runs, cmd[r] = "run"
               PROVE  active[SessionOf[r]] = r \/ mrun = r
    BY DEF NoOrphan
  <2>1. Attached(r)
    BY OwedIsAttached DEF TruthInv, ExclusionInv, Owed, HasCommand
  <2>2. QED
    BY <2>1 DEF TruthInv, ExclusionInv, ShutdownCloses, HeldWhileOpen, Held
<1>2. QED
  BY <1>1, TruthInvHolds, PTL

=============================================================================
