----------------------------- MODULE PTYDriverProofs -----------------------------
(***************************************************************************)
(* What TearDown of the PTY core driver can rely on, proved for every set  *)
(* of processes and every choice of those that ignore a hang-up.           *)
(***************************************************************************)
EXTENDS PTYDriver, TLAPS

\* A PID is recycled only after the flag was set, and never while TearDown is between
\* its test of the flag and the kill.
PIDIsKnown ==
    /\ pty = "none" => waiter = "off"
    /\ waiter \in {"notify", "done"} <=> reaped
    /\ recycled => reaped
    /\ stop = "kill" => ~recycled
    /\ signal # "stranger"

\* Nobody survives SIGKILL, only the immune survive the closing of the terminal, and
\* nothing forks without the leader, which is not immune.
TearDownHolds ==
    /\ pty = "none" => ~core /\ stop = "off" /\ signal = "none"
    /\ stop \in {"cancel", "wait", "ok"} => pty = "closed"
    /\ pty = "closed" => \A p \in Group : proc[p] = "run" => p \in Immune
    /\ signal = "group" => \A p \in Group : proc[p] # "run"

\* Every variable keeps its type.
LEMMA PTYTypeInit == Init => PTYTypeOK
  BY DEF Init, PTYTypeOK

\* The two ways in which processes change keep their type, and start nobody.
LEMMA StruckTypes ==
    ASSUME PTYTypeOK, NEW S
    PROVE  /\ Struck(S) \in [Group -> {"none", "run", "killed", "dead"}]
           /\ \A p \in Group : Struck(S)[p] = "run" => proc[p] = "run" /\ p \notin S
  BY DEF PTYTypeOK, Struck

LEMMA DiesTypes ==
    ASSUME PTYTypeOK, NEW q \in Group, Dies(q)
    PROVE  /\ proc' \in [Group -> {"none", "run", "killed", "dead"}]
           /\ \A p \in Group : proc'[p] = "run" => proc[p] = "run"
  BY StruckTypes DEF Dies, PTYTypeOK

LEMMA PTYTypeNext ==
    ASSUME PTYTypeOK, [Next]_vars
    PROVE  PTYTypeOK'
<1>1. CASE UNCHANGED vars
  BY <1>1 DEF PTYTypeOK, vars, driver, daemons, kernel
<1>2. CASE Start \/ StartFails \/ CancelParent \/ StopBegins
  <2>1. CASE Start
    BY <2>1 DEF Start, PTYTypeOK
  <2>2. CASE StartFails
    BY <2>2 DEF StartFails, PTYTypeOK, vars, driver, daemons, kernel
  <2>3. CASE CancelParent
    BY <2>3 DEF CancelParent, PTYTypeOK, daemons, kernel
  <2>4. CASE StopBegins
    BY <2>4 DEF StopBegins, PTYTypeOK, daemons, kernel
  <2> QED
    BY <1>2, <2>1, <2>2, <2>3, <2>4
<1>3. CASE StopStep
  <2>1. CASE Kill
    BY <1>3, <2>1, StruckTypes DEF Kill, PTYTypeOK, daemons
  <2>2. CASE Close
    BY <1>3, <2>2, StruckTypes DEF Close, PTYTypeOK, daemons
  <2>3. CASE CheckReaped \/ KillRefused \/ CloseFails \/ Cancel \/ Joined \/ JoinTimesOut
    BY <2>3 DEF CheckReaped, KillRefused, CloseFails, Fail, Cancel, Joined, JoinTimesOut,
                PTYTypeOK, daemons, kernel
  <2> QED
    BY <1>3, <2>1, <2>2, <2>3 DEF StopStep
<1>4. CASE InputCopies \/ InputEnds \/ OutputEnds \/ WritePostamble
  BY <1>4 DEF InputCopies, InputEnds, OutputEnds, WritePostamble, PTYTypeOK, driver, kernel
<1>5. CASE Reap \/ StoreReaped \/ Notify
  BY <1>5 DEF Reap, StoreReaped, Notify, ContextEnded, PTYTypeOK, driver, kernel
<1>6. CASE Recycle \/ \E m \in Members : Forks(m)
  BY <1>6 DEF Recycle, Forks, PTYTypeOK, driver, daemons, Group
<1>7. CASE \E p \in Group : Dies(p)
  BY <1>7, DiesTypes DEF Dies, PTYTypeOK, driver, daemons
<1> QED
  BY <1>1, <1>2, <1>3, <1>4, <1>5, <1>6, <1>7 DEF Next

\* Every variable keeps its type, whatever the kernel, the command and the callers of
\* the driver do.
THEOREM PTYTyped == Spec => []PTYTypeOK
<1>1. PTYTypeOK /\ [Next]_vars => PTYTypeOK'
  BY PTYTypeNext
<1> QED
  BY <1>1, PTYTypeInit, PTL DEF Spec

-----------------------------------------------------------------------------
(* The recycled PID.                                                                *)

LEMMA PIDIsKnownNext ==
    ASSUME "recycleAtOnce" \notin Env, PTYTypeOK, PIDIsKnown, [Next]_vars
    PROVE  PIDIsKnown'
<1> USE DEF PIDIsKnown, PTYTypeOK
<1>1. CASE UNCHANGED vars
  BY <1>1 DEF vars, driver, daemons, kernel
<1>2. CASE Start \/ StartFails \/ CancelParent \/ StopBegins
  BY <1>2 DEF Start, StartFails, CancelParent, StopBegins, vars, driver, daemons, kernel
<1>3. CASE StopStep
  <2>1. CASE CheckReaped
    BY <2>1 DEF CheckReaped, daemons, kernel
  <2>2. CASE Kill
    BY <2>2 DEF Kill, daemons
  <2>3. CASE KillRefused \/ Close \/ CloseFails \/ Cancel \/ Joined \/ JoinTimesOut
    BY <2>3 DEF KillRefused, Close, CloseFails, Fail, Cancel, Joined, JoinTimesOut, daemons,
                kernel
  <2> QED
    BY <1>3, <2>1, <2>2, <2>3 DEF StopStep
<1>4. CASE InputCopies \/ InputEnds \/ OutputEnds \/ WritePostamble
  BY <1>4 DEF InputCopies, InputEnds, OutputEnds, WritePostamble, driver, kernel
<1>5. CASE Reap \/ StoreReaped \/ Notify
  BY <1>5 DEF Reap, StoreReaped, Notify, driver, kernel
<1>6. CASE Recycle
  BY <1>6 DEF Recycle, PIDFree, LeaderReaped, driver, daemons
<1>7. CASE \/ \E m \in Members : Forks(m)
           \/ \E p \in Group : Dies(p)
  BY <1>7 DEF Forks, Dies, driver, daemons
<1> QED
  BY <1>1, <1>2, <1>3, <1>4, <1>5, <1>6, <1>7 DEF Next

\* SIGKILL never reaches a stranger's process group, for every number of processes and
\* of Stops, as long as a PID is not used again in the very instant it becomes free.
THEOREM StrangersAreSafe ==
    ASSUME "recycleAtOnce" \notin Env
    PROVE  Spec => []StrangersAreSpared
<1>1. Init => PIDIsKnown
  BY DEF Init, PIDIsKnown
<1>2. PTYTypeOK /\ PIDIsKnown /\ [Next]_vars => PIDIsKnown'
  BY PIDIsKnownNext
<1>3. PIDIsKnown => StrangersAreSpared
  BY DEF PIDIsKnown, StrangersAreSpared
<1> QED
  BY <1>1, <1>2, <1>3, PTYTyped, PTL DEF Spec

-----------------------------------------------------------------------------
(* The group.                                                                       *)

LEMMA TearDownHoldsNext ==
    ASSUME PTYTypeOK, TearDownHolds, [Next]_vars
    PROVE  TearDownHolds'
<1> USE DEF TearDownHolds
<1>0. Leader \in Group /\ Leader \notin Immune
  BY PTYAssumption DEF Group
<1>1. CASE UNCHANGED vars
  BY <1>1 DEF vars, driver, daemons, kernel
<1>2. CASE Start
  BY <1>2 DEF Start, PTYTypeOK
<1>3. CASE StartFails \/ CancelParent \/ StopBegins
  BY <1>3 DEF StartFails, CancelParent, StopBegins, vars, driver, daemons, kernel
<1>4. CASE StopStep
  <2>1. CASE Kill
    BY <2>1, StruckTypes DEF Kill, daemons
  <2>2. CASE Close
    BY <2>2, StruckTypes DEF Close, Vulnerable, daemons
  <2>3. CASE CheckReaped \/ KillRefused \/ CloseFails \/ Cancel \/ Joined \/ JoinTimesOut
    BY <2>3 DEF CheckReaped, KillRefused, CloseFails, Fail, Cancel, Joined, JoinTimesOut,
                kernel
  <2> QED
    BY <1>4, <2>1, <2>2, <2>3 DEF StopStep
<1>5. CASE InputCopies \/ InputEnds \/ OutputEnds \/ WritePostamble
  BY <1>5 DEF InputCopies, InputEnds, OutputEnds, WritePostamble, driver, kernel
<1>6. CASE Reap \/ StoreReaped \/ Notify
  BY <1>6 DEF Reap, StoreReaped, Notify, driver, kernel
<1>7. CASE Recycle
  BY <1>7 DEF Recycle, driver, daemons
<1>8. CASE \E m \in Members : Forks(m)
  BY <1>0, <1>8 DEF Forks, driver, daemons
<1>9. CASE \E p \in Group : Dies(p)
  BY <1>9, DiesTypes DEF Dies, driver, daemons
<1> QED
  BY <1>1, <1>2, <1>3, <1>4, <1>5, <1>6, <1>7, <1>8, <1>9 DEF Next

\* A Stop that succeeds has ended the command and its group, but for what the command
\* left behind and what ignores a hang-up.
THEOREM GroupIsGone == Spec => []GroupIsTornDown
<1>1. Init => TearDownHolds
  BY DEF Init, TearDownHolds
<1>2. PTYTypeOK /\ TearDownHolds /\ [Next]_vars => TearDownHolds'
  BY TearDownHoldsNext
<1>3. TearDownHolds => GroupIsTornDown
  BY DEF TearDownHolds, GroupIsTornDown
<1> QED
  BY <1>1, <1>2, <1>3, PTYTyped, PTL DEF Spec

-----------------------------------------------------------------------------
(* The refinement of SessionDriver.                                                 *)

\* What the driver's steps rest on: nothing goes on before Start, a Stop that is under
\* way or has failed leaves the driver running, it waits on a cancelled context, and the
\* waiter has seen the leader die.
StepsMatch ==
    /\ pty = "none" => ~core /\ stop = "off" /\ waiter = "off"
    /\ stop \notin {"off", "ok"} => core
    /\ stop = "wait" => ~dctx
    /\ waiter \in {"freed", "notify", "done"} => proc[Leader] = "dead"

\* A process that is dead stays dead, and a blow kills nobody at once.
LEMMA LeaderStruck ==
    ASSUME NEW S
    PROVE  (Struck(S)[Leader] = "dead") = (proc[Leader] = "dead")
  BY DEF Struck, Group

\* What one process's death means for the leader.
LEMMA LeaderDies ==
    ASSUME PTYTypeOK, NEW p \in Group, Dies(p)
    PROVE  /\ p = Leader => proc[Leader] # "dead" /\ proc'[Leader] = "dead"
           /\ p # Leader => proc'[Leader] = proc[Leader]
<1>1. Leader \in Group
  BY DEF Group
<1> QED
  BY <1>1, StruckTypes DEF Dies, PTYTypeOK, Vulnerable

\* A fork is not the leader's.
LEMMA LeaderForks ==
    ASSUME PTYTypeOK, NEW m \in Members, Forks(m)
    PROVE  proc'[Leader] = proc[Leader]
  BY PTYAssumption DEF Forks, PTYTypeOK, Group

LEMMA StepsMatchNext ==
    ASSUME PTYTypeOK, StepsMatch, [Next]_vars
    PROVE  StepsMatch'
<1> USE DEF StepsMatch
<1>1. CASE UNCHANGED vars
  BY <1>1 DEF vars, driver, daemons, kernel
<1>2. CASE Start \/ StartFails \/ CancelParent \/ StopBegins
  BY <1>2 DEF Start, StartFails, CancelParent, StopBegins, vars, driver, daemons, kernel
<1>3. CASE StopStep
  <2>1. CASE Kill \/ Close
    BY <2>1, LeaderStruck DEF Kill, Close, daemons
  <2>2. CASE CheckReaped \/ KillRefused \/ CloseFails \/ Cancel \/ Joined \/ JoinTimesOut
    BY <2>2 DEF CheckReaped, KillRefused, CloseFails, Fail, Cancel, Joined, JoinTimesOut,
                daemons, kernel
  <2> QED
    BY <1>3, <2>1, <2>2 DEF StopStep
<1>4. CASE InputCopies \/ InputEnds \/ OutputEnds \/ WritePostamble
  BY <1>4 DEF InputCopies, InputEnds, OutputEnds, WritePostamble, driver, kernel
<1>5. CASE Reap \/ StoreReaped \/ Notify \/ Recycle
  BY <1>5 DEF Reap, StoreReaped, Notify, Recycle, driver, kernel, daemons
<1>6. CASE \E m \in Members : Forks(m)
  BY <1>6, LeaderForks DEF Forks, driver, daemons
<1>7. CASE \E p \in Group : Dies(p)
  BY <1>7, LeaderDies DEF Dies, driver, daemons
<1> QED
  BY <1>1, <1>2, <1>3, <1>4, <1>5, <1>6, <1>7 DEF Next

\* Every step is a step of SessionDriver, or leaves all that it speaks of alone.
LEMMA StepRefines ==
    ASSUME PTYTypeOK, StepsMatch, [Next]_vars
    PROVE  [DriverStep]_<<D!driverVars, told>>
<1> USE DEF StepsMatch, D!driverVars
<1>1. CASE UNCHANGED vars \/ StartFails
  BY <1>1 DEF StartFails, vars, driver, daemons, kernel
<1>2. CASE Start
  <2>1. proc'[Leader] = "run"
    BY <1>2 DEF Start, PTYTypeOK, Group
  <2>2. D!DriverStarts(Run, gone) /\ UNCHANGED told
    BY <1>2, <2>1 DEF Start, D!DriverStarts
  <2> QED
    BY <2>2 DEF DriverStep
<1>3. CASE CancelParent \/ StopBegins
  BY <1>3 DEF CancelParent, StopBegins, driver, daemons, kernel
<1>4. CASE StopStep
  <2>1. CASE Kill
    <3>1. (proc'[Leader] = "dead") = (proc[Leader] = "dead")
      BY <2>1, LeaderStruck DEF Kill
    <3> QED
      BY <2>1, <3>1 DEF Kill, daemons
  <2>2. CASE Close
    <3>1. D!TearDown(Run, gone) /\ UNCHANGED told
      BY <2>2 DEF Close, D!TearDown, D!AbortedByContext, daemons
    <3> QED
      BY <3>1 DEF DriverStep
  <2>3. CASE KillRefused \/ CloseFails
    <3>1. D!TearDownFails(Run, gone) /\ UNCHANGED told
      BY <2>3 DEF KillRefused, CloseFails, Fail, D!TearDownFails, daemons, kernel
    <3> QED
      BY <3>1 DEF DriverStep
  <2>4. CASE Cancel
    <3>1. CASE dctx
      <4>1. D!CancelDriver(Run) /\ UNCHANGED told
        BY <2>4, <3>1 DEF Cancel, D!CancelDriver, daemons, kernel
      <4> QED
        BY <4>1 DEF DriverStep
    <3>2. CASE ~dctx
      BY <2>4, <3>2 DEF Cancel, daemons, kernel, PTYTypeOK
    <3> QED
      BY <3>1, <3>2
  <2>5. CASE Joined
    <3>1. D!DaemonsJoined(Run) /\ UNCHANGED told
      BY <2>5 DEF Joined, DaemonsDone, D!DaemonsJoined, daemons, kernel
    <3> QED
      BY <3>1 DEF DriverStep
  <2>6. CASE CheckReaped \/ JoinTimesOut
    BY <2>6 DEF CheckReaped, JoinTimesOut, daemons, kernel
  <2> QED
    BY <1>4, <2>1, <2>2, <2>3, <2>4, <2>5, <2>6 DEF StopStep
<1>5. CASE InputCopies \/ InputEnds \/ OutputEnds \/ WritePostamble
  BY <1>5 DEF InputCopies, InputEnds, OutputEnds, WritePostamble, driver, kernel
<1>6. CASE Reap \/ StoreReaped \/ Recycle
  BY <1>6 DEF Reap, StoreReaped, Recycle, driver, kernel, daemons
<1>7. CASE Notify
  <2>1. D!WaitReturns(Run, gone) /\ told' = D!ReportsEnd(Run, gone)
    BY <1>7 DEF Notify, ContextEnded, D!WaitReturns, D!ReportsEnd, driver, kernel, PTYTypeOK
  <2> QED
    BY <2>1 DEF DriverStep
<1>8. CASE \E m \in Members : Forks(m)
  BY <1>8, LeaderForks DEF Forks, driver, daemons
<1>9. CASE \E p \in Group : Dies(p)
  <2>1. PICK p \in Group : Dies(p)
    BY <1>9
  <2>2. CASE p = Leader /\ pty = "open"
    <3>1. D!CommandExits(Run) /\ UNCHANGED told
      BY <2>1, <2>2, LeaderDies DEF Dies, D!CommandExits, driver, daemons
    <3> QED
      BY <3>1 DEF DriverStep
  <2>3. CASE p # Leader \/ pty # "open"
    BY <2>1, <2>3, LeaderDies DEF Dies, driver, daemons, PTYTypeOK
  <2> QED
    BY <2>2, <2>3
<1> QED
  BY <1>1, <1>2, <1>3, <1>4, <1>5, <1>6, <1>7, <1>8, <1>9 DEF Next

\* The PTY driver implements the driver that the manager and the runner are modelled
\* with, for every group of processes.
THEOREM DriverImplemented == Spec => ImplementsDriver
<1>1. Init => D!DriverInit /\ StepsMatch
  BY DEF Init, D!DriverInit, D!AllRuns, StepsMatch
<1>2. PTYTypeOK /\ StepsMatch /\ [Next]_vars => StepsMatch'
  BY StepsMatchNext
<1>3. PTYTypeOK /\ StepsMatch /\ [Next]_vars => [DriverStep]_<<D!driverVars, told>>
  BY StepRefines
<1> QED
  BY <1>1, <1>2, <1>3, PTYTyped, PTL DEF Spec, ImplementsDriver

=============================================================================
