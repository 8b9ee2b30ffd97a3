------------------------- MODULE SessionOwnershipProofs -------------------------
(***************************************************************************)
(* Commands, starts and ownership: that session control leaves no command  *)
(* without a runner, where TearsDown holds; that no call is started twice, *)
(* in any environment; and which steps of session control acquire and      *)
(* release a session, the lemmas of the refinement of SessionOwnership     *)
(* (module SessionAnswersProofs).  All of it holds for every set of calls  *)
(* and sessions and every queue capacity.                                  *)
(***************************************************************************)
EXTENDS SessionControlProofs

-----------------------------------------------------------------------------
(* Commands.                                                                        *)

\* Every command that runs can still be stopped: its runner is the session's active one
\* or in the manager's hands, whatever fails, is cancelled or crashes.
THEOREM NoCommandIsOrphaned == ASSUME TearsDown PROVE Spec => []NoOrphan
<1>1. Inv => NoOrphan
  BY DEF Inv, HeldRuns, HasCommand, Held, NoOrphan
<1>2. QED
  BY <1>1, ManagerKnowsHolders, PTL

-----------------------------------------------------------------------------
(* Starts.                                                                          *)

Off(r) == wpc[r] = "off"

New(r) == call[r] = "new"

\* The manager has taken the start of r and not made its runner yet.
Pending(r) == mtask.op = "start" /\ mpc \in {"start", "force", "create"} /\ mtask.from = r

\* A call asks for one start, which makes one runner.
StartsOnce ==
    /\ \A r \in Runs : ~Off(r) \/ Pending(r) => ~New(r)
    /\ \A r \in Runs : Pending(r) => Off(r)
    /\ \A r \in Runs : \A i \in DOMAIN mq : mq[i] = [op |-> "start", from |-> r] =>
          Off(r) /\ ~Pending(r) /\ ~New(r)
    /\ \A i, j \in DOMAIN mq : mq[i].op = "start" /\ mq[i] = mq[j] => i = j

\* What most steps leave of a start.
Settled ==
    \A r \in Runs : (Off(r)' <=> Off(r)) /\ (Pending(r)' => Pending(r)) /\ (New(r)' => New(r))

\* The elements of a queue that grows or shrinks.
LEMMA AppendNth ==
    ASSUME NEW S, NEW q \in Seq(S), NEW e
    PROVE  /\ DOMAIN Append(q, e) = 1..(Len(q) + 1) /\ DOMAIN q = 1..Len(q)
           /\ Append(q, e)[Len(q) + 1] = e
           /\ \A i \in DOMAIN q : Append(q, e)[i] = q[i]
  OBVIOUS

LEMMA TailNth ==
    ASSUME NEW S, NEW q \in Seq(S), q # <<>>
    PROVE  /\ Head(q) = q[1] /\ 1 \in DOMAIN q
           /\ \A i \in DOMAIN Tail(q) :
                 i + 1 \in DOMAIN q /\ Tail(q)[i] = q[i + 1] /\ i + 1 # 1
           /\ \A i, j \in DOMAIN Tail(q) : i + 1 = j + 1 => i = j
  OBVIOUS

\* A start task is known by its run.
LEMMA StartTask ==
    ASSUME NEW t \in ManagerTask, t.op = "start"
    PROVE  t = [op |-> "start", from |-> t.from] /\ t.from \in Runs
<1>1. t \in [op : {"start"}, from : Runs]
  BY DEF ManagerTask
<1>2. QED
  BY <1>1

\* A task that is not a start changes nothing for the starts.
LEMMA PushOther ==
    ASSUME TypeOK, StartsOnce, Settled, NEW e, e.op # "start", mq' = Append(mq, e)
    PROVE  StartsOnce'
<1>1. mq \in Seq(ManagerTask)
  BY DEF TypeOK, ManagerTypeOK
<1>2. \A i \in DOMAIN mq' : mq'[i].op = "start" => i \in DOMAIN mq /\ mq'[i] = mq[i]
  BY <1>1, AppendNth
<1>3. \A i \in DOMAIN mq : mq[i] \in ManagerTask
  BY <1>1
<1>4. QED
  BY <1>2, <1>3, ManagerTaskTypes DEF StartsOnce, Settled

\* Runners go on, but do not begin.
LEMMA RunnersSettle ==
    ASSUME TypeOK, NEW r \in Runs, RunnerStep(r)
    PROVE  /\ Settled /\ UNCHANGED mq
           /\ \A s \in Runs : s # r => (Attached(s)' <=> Attached(s))
<1> USE DEF TypeOK, DriverTypeOK, RunnerTypeOK, Settled, Off, Pending, New, Attached,
            managerVars
<1>1. CASE TakeTask(r)
  <2>1. Head(rq[r]) \in RunnerTask
    BY <1>1, QueueTypes DEF TakeTask
  <2>2. QED
    BY <1>1, <2>1 DEF RunnerStep, WorkerStep, TakeTask, Goto, driverVars, RunnerTask
<1>2. CASE WorkerEnds(r) \/ Drain(r) \/ Drained(r)
  BY <1>2 DEF RunnerStep, WorkerStep, WorkerEnds, Drain, CancelDriver, Drained,
              DaemonsJoined, Goto, runnerVars, driverVars
<1>3. CASE StartDriver(r) \/ StopDriver(r, LockFree(r)) \/ StopDriverIdempotent(r, LockFree(r))
  BY <1>3 DEF RunnerStep, WorkerStep, StartDriver, DriverStarts, StopDriver, TearDown,
              StopDriverIdempotent, Goto, driverVars
<1>4. CASE StartDriverFails(r) \/ StopDriverFails(r, LockFree(r)) \/ DrainTimesOut(r)
  BY <1>4 DEF RunnerStep, WorkerStep, StartDriverFails, DriverFailsToStart,
              StopDriverFails, TearDownFails, DrainTimesOut, DaemonsLinger, Complete, Goto,
              driverVars
<1>5. CASE MarkReady(r) \/ MarkReadyFails(r) \/ MarkIdle(r) \/ MarkIdleFails(r)
  BY <1>5 DEF RunnerStep, WorkerStep, MarkReady, MarkReadyFails, MarkIdle, MarkIdleFails,
              Complete, Goto, driverVars
<1>6. CASE CommandEnds(r) \/ CommandStopNotify(r)
  BY <1>6 DEF RunnerStep, WorkerStep, CommandEnds, CommandExits, CommandStopNotify,
              WaitReturns, runnerVars
<1>7. CASE IPCStopMessage(r) \/ IPCReadFails(r) \/ IPCLoopEnds(r)
  BY <1>7 DEF RunnerStep, WorkerStep, IPCStopMessage, IPCReadFails, IPCLoopEnds, driverVars
<1>8. QED
  BY <1>1, <1>2, <1>3, <1>4, <1>5, <1>6, <1>7 DEF RunnerStep, WorkerStep

\* The manager's worker begins a runner in one step only.
LEMMA ManagerSettles ==
    ASSUME TypeOK, TaskFits, ManagerStep
    PROVE  MgrTake \/ MgrEnds \/ CreateRunner \/ (Settled /\ UNCHANGED mq)
<1> USE DEF Settled, Off, Pending, New
<1>1. CASE RefuseStart \/ AdmitStart \/ ForceIdle \/ ForceIdleFails \/ CreateRunnerFails
  BY <1>1 DEF RefuseStart, AdmitStart, ForceIdle, ForceIdleFails, CreateRunnerFails, MgrGoto,
              MgrFinish, Answer, NoTask, runnerVars, Calls
<1>2. CASE SubmitStart \/ StartSucceeds \/ StartFails \/ RestoreIdle \/ RestoreIdleFails
  BY <1>2 DEF SubmitStart, StartSucceeds, StartFails, RestoreIdle, RestoreIdleFails, MgrGoto,
              MgrFinish, Answer, NoTask, runnerVars, Calls
<1>3. CASE StopIsNOP \/ SubmitStop \/ SubmitStopFails \/ StopSucceeds \/ StopFails
  BY <1>3 DEF StopIsNOP, SubmitStop, SubmitStopFails, StopSucceeds, StopFails, MgrGoto,
              MgrFinish, Answer, NoTask, runnerVars, Calls
<1>4. CASE SweepNext \/ SweepDone \/ RunnerStopStep
  BY <1>4 DEF SweepNext, SweepDone, RunnerStopStep, CancelRunner, MgrStopDriver,
              MgrStopDriverSkipped, MgrDrain, MgrDrained, StopForgets, StopKeeps,
              SweepForgets, CleanUpGoesOn, RunnerStopped, RunnerStopTimesOut, MgrGoto,
              MgrFinish, Answer, NoTask, runnerVars, managerVars, Calls
<1>5. QED
  BY <1>1, <1>2, <1>3, <1>4 DEF ManagerStep

\* No call is started twice.
LEMMA StartsOnceNext ==
    ASSUME TypeOK, TaskFits, StartsOnce, [Next]_vars
    PROVE  StartsOnce'
<1>0. /\ mq \in Seq(ManagerTask)
      /\ \A i \in DOMAIN mq : mq[i] \in ManagerTask
  BY DEF TypeOK, ManagerTypeOK
<1>1. ASSUME Settled, UNCHANGED mq PROVE StartsOnce'
  BY <1>0, <1>1, ManagerTaskTypes DEF StartsOnce, Settled
<1>2. CASE ProcessEnds
  BY <1>2 DEF ProcessEnds, RunnerReset, AllRuns, StartsOnce, Off, Pending, New, NoTask
<1>3. CASE Start \/ StopManager \/ StopAllExpires \/ CancelManager \/ ManagerStopped
           \/ UNCHANGED vars
  BY <1>1, <1>3 DEF Start, StopManager, StopAllExpires, CancelManager, ManagerStopped,
                    vars, runnerVars, managerVars, Settled, Off, Pending, New
<1>4. CASE SubmitStopAll
  BY <1>4, PushOther DEF SubmitStopAll, Push, runnerVars, Settled, Off, Pending, New
<1>5. CASE MgrTake
  <2>1. /\ mq' = Tail(mq) /\ mtask' = Head(mq) /\ mpc = "idle" /\ mq # <<>>
        /\ UNCHANGED <<wpc, call>>
    BY <1>5 DEF MgrTake, runnerVars
  <2>2. /\ Head(mq) = mq[1] /\ 1 \in DOMAIN mq
        /\ \A i \in DOMAIN mq' : i + 1 \in DOMAIN mq /\ mq'[i] = mq[i + 1] /\ i + 1 # 1
        /\ \A i, j \in DOMAIN mq' : i + 1 = j + 1 => i = j
    BY <1>0, <2>1, TailNth
  <2>3. \A r \in Runs : Pending(r)' => mq[1] = [op |-> "start", from |-> r]
    BY <1>0, <2>1, <2>2, StartTask DEF Pending
  <2>4. \A r \in Runs : (Off(r)' <=> Off(r)) /\ (New(r)' <=> New(r))
    BY <2>1 DEF Off, New
  <2>5. \A r \in Runs : Pending(r)' => Off(r)' /\ ~New(r)'
    BY <2>2, <2>3, <2>4 DEF StartsOnce
  <2>6. ASSUME NEW r \in Runs, NEW i \in DOMAIN mq', mq'[i] = [op |-> "start", from |-> r]
        PROVE  Off(r)' /\ ~Pending(r)' /\ ~New(r)'
    <3>1. i + 1 \in DOMAIN mq /\ mq[i + 1] = [op |-> "start", from |-> r] /\ i + 1 # 1
      BY <2>2, <2>6
    <3>2. mq[1] # [op |-> "start", from |-> r]
      BY <2>2, <3>1 DEF StartsOnce
    <3>3. QED
      BY <2>3, <2>4, <3>1, <3>2 DEF StartsOnce
  <2>7. \A r \in Runs : ~Off(r)' => ~New(r)'
    BY <2>4 DEF StartsOnce
  <2>8. \A i, j \in DOMAIN mq' : mq'[i].op = "start" /\ mq'[i] = mq'[j] => i = j
    BY <2>2 DEF StartsOnce
  <2>9. QED
    BY <2>5, <2>6, <2>7, <2>8 DEF StartsOnce
<1>6. CASE MgrEnds
  BY <1>6 DEF MgrEnds, runnerVars, StartsOnce, Off, Pending, New
<1>7. CASE CreateRunner
  <2>1. mtask.from \in Runs /\ Pending(mtask.from)
    BY <1>7, StartTask DEF CreateRunner, Pending, TaskFits, TypeOK, ManagerTypeOK
  <2>2. /\ \A r \in Runs : ~Pending(r)' /\ (New(r)' => New(r))
        /\ \A r \in Runs : r # mtask.from => (Off(r)' <=> Off(r))
        /\ mq' = mq
    BY <1>7 DEF CreateRunner, SpawnRunner, Goto, Answer, Pending, New, Off, Calls, TypeOK,
                RunnerTypeOK
  <2>3. QED
    BY <1>0, <2>1, <2>2, ManagerTaskTypes DEF StartsOnce
<1>8. ASSUME NEW c \in Calls, CallStep(c) PROVE StartsOnce'
  <2> USE DEF TypeOK, ManagerTypeOK
  <2>1. CASE SubmitFails(c) \/ GiveUp(c)
    <3>1. UNCHANGED <<mq, mtask, mpc, wpc>>
      BY <2>1 DEF SubmitFails, GiveUp, runnerVars
    <3>2. \A r \in Runs : New(r)' => New(r)
      BY <2>1 DEF SubmitFails, GiveUp, New, Calls
    <3>3. Settled
      BY <3>1, <3>2 DEF Settled, Off, Pending
    <3>4. QED
      BY <1>1, <3>1, <3>3
  <2>2. CASE Submit(c) /\ c \notin Runs
    BY <2>2, PushOther DEF Submit, Push, runnerVars, Settled, Off, Pending, New
  <2>3. CASE Submit(c) /\ c \in Runs
    <3>1. /\ New(c) /\ ~New(c)'
          /\ mq' = Append(mq, [op |-> "start", from |-> c])
          /\ \A r \in Runs : Off(r)' = Off(r) /\ Pending(r)' = Pending(r)
          /\ \A r \in Runs : r # c => New(r)' = New(r)
      BY <2>3 DEF Submit, Push, runnerVars, Off, Pending, New
    <3>2. \A i \in DOMAIN mq' : \/ i \in DOMAIN mq /\ mq'[i] = mq[i]
                                \/ i = Len(mq) + 1 /\ mq'[i] = [op |-> "start", from |-> c]
      BY <1>0, <3>1, AppendNth
    <3>3. \A i \in DOMAIN mq : mq[i].op = "start" => mq[i].from \in Runs /\ mq[i].from # c
      <4> SUFFICES ASSUME NEW i \in DOMAIN mq, mq[i].op = "start"
                   PROVE  mq[i].from \in Runs /\ mq[i].from # c
        OBVIOUS
      <4>1. mq[i] = [op |-> "start", from |-> mq[i].from] /\ mq[i].from \in Runs
        BY <1>0, StartTask
      <4>2. mq[i] # [op |-> "start", from |-> c]
        BY <2>3, <3>1 DEF StartsOnce
      <4>3. QED
        BY <4>1, <4>2
    <3>4. Off(c) /\ ~Pending(c)
      BY <2>3, <3>1 DEF StartsOnce
    <3>5. QED
      BY <2>3, <3>1, <3>2, <3>3, <3>4 DEF StartsOnce
  <2>4. QED
    BY <1>8, <2>1, <2>2, <2>3 DEF CallStep
<1>9. ASSUME NEW r \in Runs, ReportStep(r) PROVE StartsOnce'
  <2>1. Settled
    BY <1>9 DEF ReportStep, SessionIdleNotify, IPCProcessErrorNotify, Settled, Off, Pending,
                New
  <2>2. UNCHANGED mq \/ mq' = Append(mq, [op |-> "stop", from |-> r])
    BY <1>9 DEF ReportStep, SessionIdleNotify, IPCProcessErrorNotify, ReportToManager, Push
  <2>3. QED
    BY <1>1, <2>1, <2>2, PushOther
<1>10. ASSUME NEW r \in Runs, RunnerStep(r) PROVE StartsOnce'
  BY <1>1, <1>10, RunnersSettle
<1>11. CASE ManagerStep
  BY <1>1, <1>5, <1>6, <1>7, <1>11, ManagerSettles
<1>12. QED
  BY <1>2, <1>3, <1>4, <1>8, <1>9, <1>10, <1>11 DEF Next, StopperStep

-----------------------------------------------------------------------------
(* Ownership.                                                                       *)

USE RunnerAssumption, ManagerAssumption

Owners == [n \in Names |-> IF \E r \in Runs : Attached(r) /\ SessionOf[r] = n
                           THEN CHOOSE r \in Runs : Attached(r) /\ SessionOf[r] = n
                           ELSE None]

Spent == {r \in Runs : wpc[r] # "off"}

\* The owner of a session is the run that holds it.
OwnersHold ==
    /\ \A r \in Runs : Attached(r) => Owners[SessionOf[r]] = r
    /\ \A n \in Names : (\A r \in Runs : Attached(r) => SessionOf[r] # n) => Owners[n] = None

LEMMA OwnersAreHolders == NoDoubleAttach => OwnersHold
<1> SUFFICES ASSUME NoDoubleAttach PROVE OwnersHold
  OBVIOUS
<1>1. ASSUME NEW r \in Runs, Attached(r) PROVE Owners[SessionOf[r]] = r
  <2>1. SessionOf[r] \in Names
    BY DEF Calls
  <2>2. PICK s \in Runs : s = Owners[SessionOf[r]] /\ Attached(s) /\ SessionOf[s] = SessionOf[r]
    BY <1>1, <2>1 DEF Owners
  <2>3. QED
    BY <1>1, <2>2 DEF NoDoubleAttach
<1>2. ASSUME NEW n \in Names, \A r \in Runs : Attached(r) => SessionOf[r] # n
      PROVE  Owners[n] = None
  BY <1>2 DEF Owners
<1>3. QED
  BY <1>1, <1>2 DEF OwnersHold

\* At most one run lets go of its session, and no run acquires one.
LetsGo ==
    /\ \A r \in Runs : (Off(r)' <=> Off(r)) /\ (Attached(r)' => Attached(r))
    /\ \A r, s \in Runs : Attached(r) /\ Attached(s) /\ r # s => Attached(r)' \/ Attached(s)'

\* The manager's worker lets go of a driver when its threads have ended.
LEMMA ManagerLetsGo ==
    ASSUME TypeOK, ManagerStep
    PROVE  CreateRunner \/ LetsGo
<1>1. CASE UNCHANGED <<core, ipc, wpc>>
  BY <1>1 DEF LetsGo, Off, Attached
<1>2. CASE MgrDrained
  BY <1>2 DEF MgrDrained, DaemonsJoined, DaemonsLinger, LetsGo, Off, Attached, TypeOK,
              DriverTypeOK, runnerVars, driverVars
<1>3. CASE MgrTake \/ MgrEnds \/ RefuseStart \/ AdmitStart \/ ForceIdle \/ ForceIdleFails
           \/ CreateRunnerFails \/ SubmitStart
  BY <1>1, <1>3 DEF MgrTake, MgrEnds, RefuseStart, AdmitStart, ForceIdle, ForceIdleFails,
                    CreateRunnerFails, SubmitStart, runnerVars, driverVars
<1>4. CASE StartSucceeds \/ StartFails \/ RestoreIdle \/ RestoreIdleFails \/ StopIsNOP
           \/ SubmitStop \/ SubmitStopFails \/ StopSucceeds \/ StopFails
  BY <1>1, <1>4 DEF StartSucceeds, StartFails, RestoreIdle, RestoreIdleFails, StopIsNOP,
                    SubmitStop, SubmitStopFails, StopSucceeds, StopFails, runnerVars,
                    driverVars
<1>5. CASE SweepNext \/ SweepDone \/ CancelRunner \/ MgrStopDriver \/ MgrStopDriverSkipped
           \/ MgrDrain
  BY <1>1, <1>5 DEF SweepNext, SweepDone, CancelRunner, MgrStopDriver, TearDown,
                    MgrStopDriverSkipped, TearDownFails, MgrDrain, CancelDriver,
                    runnerVars, driverVars
<1>6. CASE StopForgets \/ StopKeeps \/ SweepForgets \/ CleanUpGoesOn
  BY <1>1, <1>6 DEF StopForgets, StopKeeps, SweepForgets, CleanUpGoesOn, runnerVars,
                    driverVars
<1>7. QED
  BY <1>2, <1>3, <1>4, <1>5, <1>6 DEF ManagerStep, RunnerStopStep

\* A session is acquired only when a runner is created, and all are lost together only
\* when the process ends.
LEMMA OwnershipSteps ==
    ASSUME TypeOK, [Next]_vars
    PROVE  ProcessEnds \/ CreateRunner \/ LetsGo
<1>1. CASE UNCHANGED <<core, ipc, wpc>>
  BY <1>1 DEF LetsGo, Off, Attached
<1>2. ASSUME NEW r \in Runs, RunnerStep(r) PROVE LetsGo
  BY <1>2, RunnersSettle, RunnersDoNotAttach DEF LetsGo, Settled
<1>3. ASSUME NEW r \in Runs, ReportStep(r) PROVE LetsGo
  BY <1>3 DEF ReportStep, SessionIdleNotify, IPCProcessErrorNotify, LetsGo, Off, Attached,
              TypeOK, RunnerTypeOK, driverVars
<1>4. QED
  BY <1>1, <1>2, <1>3, ManagerLetsGo
     DEF Next, vars, Start, StopManager, StopperStep, SubmitStopAll, StopAllExpires,
         CancelManager, ManagerStopped, CallStep, Submit, SubmitFails, GiveUp, runnerVars,
         driverVars

\* Nobody holds the session that the task in hand is about.
SessionIsFree == \A r \in Runs : Attached(r) => SessionOf[r] # Session

\* Creating a runner acquires its session, when nobody holds it.
LEMMA CreateAcquires ==
    ASSUME TypeOK, TaskFits, StartsOnce, OwnersHold, OwnersHold', CreateRunner, SessionIsFree
    PROVE  \E r \in Runs :
              /\ r \notin Spent /\ Owners[SessionOf[r]] = None
              /\ Owners' = [Owners EXCEPT ![SessionOf[r]] = r]
              /\ Spent' = Spent \cup {r}
<1>1. PICK new \in Runs : new = mtask.from /\ Off(new) /\ SessionOf[new] \in Names
  <2>1. mtask.from \in Runs /\ Pending(mtask.from)
    BY StartTask DEF CreateRunner, Pending, TaskFits, TypeOK, ManagerTypeOK
  <2>2. QED
    BY <2>1 DEF StartsOnce, Calls
<1>2. ASSUME NEW r \in Runs, Attached(r) PROVE SessionOf[r] # SessionOf[new]
  BY <1>1, <1>2 DEF SessionIsFree, Session
<1>3. /\ Attached(new)' /\ ~Off(new)'
      /\ \A r \in Runs : r # new => (Off(r)' <=> Off(r)) /\ (Attached(r)' <=> Attached(r))
  BY <1>1 DEF CreateRunner, SpawnRunner, Goto, Off, Attached, TypeOK, RunnerTypeOK, driverVars
<1>4. Owners[SessionOf[new]] = None /\ Owners'[SessionOf[new]] = new
  BY <1>1, <1>2, <1>3 DEF OwnersHold
<1>5. ASSUME NEW n \in Names, n # SessionOf[new] PROVE Owners'[n] = Owners[n]
  <2>1. CASE \E r \in Runs : Attached(r) /\ SessionOf[r] = n
    BY <1>1, <1>2, <1>3, <1>5, <2>1 DEF OwnersHold
  <2>2. CASE \A r \in Runs : Attached(r) => SessionOf[r] # n
    BY <1>1, <1>3, <1>5, <2>2 DEF OwnersHold
  <2>3. QED
    BY <2>1, <2>2
<1>6. Owners' = [Owners EXCEPT ![SessionOf[new]] = new]
  BY <1>1, <1>4, <1>5 DEF Owners
<1>7. Spent' = Spent \cup {new} /\ new \notin Spent
  BY <1>1, <1>3 DEF Spent, Off
<1>8. QED
  BY <1>1, <1>4, <1>6, <1>7

\* A run that lets go releases its session.
LEMMA LettingGoReleases ==
    ASSUME OwnersHold, OwnersHold', LetsGo
    PROVE  /\ Spent' = Spent
           /\ \/ Owners' = Owners
              \/ \E n \in Names : /\ Owners[n] # None
                                  /\ Owners' = [Owners EXCEPT ![n] = None]
<1>1. Spent' = Spent
  BY DEF LetsGo, Spent, Off
<1>2. CASE \A r \in Runs : Attached(r)' <=> Attached(r)
  <2>1. ASSUME NEW n \in Names PROVE Owners'[n] = Owners[n]
    <3>1. CASE \E r \in Runs : Attached(r) /\ SessionOf[r] = n
      BY <1>2, <3>1 DEF OwnersHold
    <3>2. CASE \A r \in Runs : Attached(r) => SessionOf[r] # n
      BY <1>2, <3>2 DEF OwnersHold
    <3>3. QED
      BY <3>1, <3>2
  <2>2. QED
    BY <1>1, <2>1 DEF Owners
<1>3. ASSUME NEW r \in Runs, Attached(r), ~Attached(r)'
      PROVE  \E n \in Names : Owners[n] # None /\ Owners' = [Owners EXCEPT ![n] = None]
  <2> DEFINE n == SessionOf[r]
  <2>1. n \in Names /\ Owners[n] = r /\ r # None
    BY <1>3 DEF OwnersHold, Calls
  <2>2. \A s \in Runs : s # r => (Attached(s)' <=> Attached(s))
    BY <1>3 DEF LetsGo
  <2>3. \A s \in Runs : Attached(s)' => SessionOf[s] # n
    BY <1>3, <2>1, <2>2 DEF OwnersHold
  <2>4. Owners'[n] = None
    BY <2>1, <2>3 DEF OwnersHold
  <2>5. ASSUME NEW m \in Names, m # n PROVE Owners'[m] = Owners[m]
    <3>1. CASE \E s \in Runs : Attached(s) /\ SessionOf[s] = m
      BY <2>2, <2>5, <3>1 DEF OwnersHold
    <3>2. CASE \A s \in Runs : Attached(s) => SessionOf[s] # m
      BY <2>2, <2>5, <1>3, <3>2 DEF OwnersHold
    <3>3. QED
      BY <3>1, <3>2
  <2>6. Owners' = [Owners EXCEPT ![n] = None]
    BY <2>1, <2>4, <2>5 DEF Owners
  <2>7. QED
    BY <2>1, <2>6
<1>4. QED
  BY <1>1, <1>2, <1>3 DEF LetsGo

\* The end of the process releases every session, and every run.
LEMMA EndReleasesAll ==
    ASSUME ProcessEnds, OwnersHold'
    PROVE  Owners' = [n \in Names |-> None] /\ Spent' = {}
<1>1. \A r \in Runs : ~Attached(r)' /\ Off(r)'
  BY DEF ProcessEnds, DriverReset, RunnerReset, AllRuns, Attached, Off
<1>2. \A n \in Names : Owners'[n] = None
  BY <1>1 DEF OwnersHold
<1>3. QED
  BY <1>1, <1>2 DEF Owners, Spent, Off

\* Every step of session control is a step of exclusive ownership, or changes nothing
\* that ownership speaks of.
LEMMA StepsKeepOwnership ==
    ASSUME TypeOK, TaskFits, StartsOnce, OwnersHold, OwnersHold', [Next]_vars,
           CreateRunner => SessionIsFree
    PROVE  Ownership!Next \/ UNCHANGED <<Owners, Spent>>
<1>1. CASE ProcessEnds
  BY <1>1, EndReleasesAll DEF Ownership!Next, Ownership!ProcessEnds, Owners, Spent
<1>2. CASE CreateRunner
  BY <1>2, CreateAcquires DEF Ownership!Next, Ownership!Acquire, Owners, Spent
<1>3. CASE LetsGo
  BY <1>3, LettingGoReleases DEF Ownership!Next, Ownership!Release, Owners, Spent
<1>4. QED
  BY <1>1, <1>2, <1>3, OwnershipSteps

=============================================================================
