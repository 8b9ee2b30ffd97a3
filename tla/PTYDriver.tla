-------------------------------- MODULE PTYDriver -------------------------------
(***************************************************************************)
(* One run of a command under a PTY, step by step: the three daemons of    *)
(* driver.Start, driver.Stop, and TearDown and Wait of the PTY core driver *)
(* (src/session/driver.go, src/session/pty_driver.go), over the process    *)
(* group and the terminal that the kernel keeps.  SessionDriver takes the  *)
(* same driver in a few large steps; ImplementsDriver says that this is    *)
(* sound.                                                                  *)
(*                                                                         *)
(* The kernel: the command leads a session and a process group of its own, *)
(* so its PID names the group.  The PID is free once the leader is reaped  *)
(* and the group is empty.  The death of the leader and the closing of the *)
(* terminal hang up the group; a process may ignore that, but not SIGKILL. *)
(***************************************************************************)
CONSTANTS
    Run,      \* the run, in the sense of SessionDriver
    Leader,   \* the command
    Members,  \* the processes it may fork into its group
    Immune,   \* those of them that ignore a hang-up
    Env       \* the events that an instance allows

\* The events: a process ends by itself; a start fails; the group may not be signalled
\* (a set-user-ID command); the wait for the daemons expires; the parent's context ends;
\* a PID is used again in the instant in which it becomes free.
Events == {"exit", "startup", "protected", "slow", "cancel", "recycleAtOnce"}

ASSUME PTYAssumption ==
    /\ Leader \notin Members
    /\ Immune \subseteq Members
    /\ Env \subseteq Events

Group == {Leader} \cup Members

VARIABLES
    core,      \* driver.core is set
    dctx,      \* the driver's working context exists and its own cancel was not called
    gone,      \* the parent's context has ended
    stop,      \* driver.Stop: off, check, kill, close, cancel, wait; ok and err when it is back
    input,     \* the INPUT daemon: off, copy (from Redis), write (to the PTY), done
    output,    \* the OUTPUT daemon: off, copy, postamble, done
    waiter,    \* the daemon in Wait: off, wait, freed, notify, done
    reaped,    \* ptyDriver.reaped
    told,      \* commandStopNotify was called
    pty,       \* the PTY's master: none, open, closed
    proc,      \* proc[p]: the process: none, run, killed (SIGKILL or a hang-up under way), dead
    recycled,  \* the leader's PID names a stranger's process group
    signal     \* history: whom TearDown's SIGKILL reached: none, group, nobody, stranger

driver == <<core, dctx, gone, stop>>
daemons == <<input, output, waiter, reaped, told>>
kernel == <<pty, proc, recycled>>
vars == <<driver, daemons, kernel, signal>>

PTYTypeOK ==
    /\ core \in BOOLEAN /\ dctx \in BOOLEAN /\ gone \in BOOLEAN
    /\ stop \in {"off", "check", "kill", "close", "cancel", "wait", "ok", "err"}
    /\ input \in {"off", "copy", "write", "done"}
    /\ output \in {"off", "copy", "postamble", "done"}
    /\ waiter \in {"off", "wait", "freed", "notify", "done"}
    /\ reaped \in BOOLEAN /\ told \in BOOLEAN
    /\ pty \in {"none", "open", "closed"}
    /\ proc \in [Group -> {"none", "run", "killed", "dead"}]
    /\ recycled \in BOOLEAN
    /\ signal \in {"none", "group", "nobody", "stranger"}

Init ==
    /\ core = FALSE /\ dctx = FALSE /\ gone = FALSE
    /\ stop = "off"
    /\ input = "off" /\ output = "off" /\ waiter = "off"
    /\ reaped = FALSE /\ told = FALSE
    /\ pty = "none"
    /\ proc = [p \in Group |-> "none"]
    /\ recycled = FALSE
    /\ signal = "none"

-----------------------------------------------------------------------------
(* The kernel.                                                                      *)

Alive(p) == proc[p] \in {"run", "killed"}

\* The processes that have the terminal open.
HoldersOfTTY == {p \in Group : Alive(p)}

LeaderReaped == waiter \in {"freed", "notify", "done"}

PIDFree == LeaderReaped /\ \A m \in Members : ~Alive(m)

\* What a signal to each process of S leaves.
Struck(S) == [p \in Group |-> IF p \in S /\ proc[p] = "run" THEN "killed" ELSE proc[p]]

Vulnerable == Group \ Immune

Forks(m) ==
    /\ proc[Leader] = "run"
    /\ proc[m] = "none"
    /\ proc' = [proc EXCEPT ![m] = "run"]
    /\ UNCHANGED <<driver, daemons, pty, recycled, signal>>

Dies(p) ==
    /\ proc[p] = "killed" \/ (proc[p] = "run" /\ "exit" \in Env)
    /\ proc' = [(IF p = Leader THEN Struck(Vulnerable) ELSE proc) EXCEPT ![p] = "dead"]
    /\ UNCHANGED <<driver, daemons, pty, recycled, signal>>

\* The PID numbers are handed out in turn: a number that was just freed is not used
\* again before Wait is about to return, nor while TearDown is between its test and the
\* kill.
Recycle ==
    /\ PIDFree
    /\ ~recycled
    /\ "recycleAtOnce" \in Env \/ (waiter # "freed" /\ stop # "kill")
    /\ recycled' = TRUE
    /\ UNCHANGED <<driver, daemons, pty, proc, signal>>

-----------------------------------------------------------------------------
(* driver.Start, with Setup; the runner starts a driver once.                       *)

Start ==
    /\ pty = "none"
    /\ ~gone
    /\ core' = TRUE
    /\ dctx' = TRUE
    /\ pty' = "open"
    /\ proc' = [proc EXCEPT ![Leader] = "run"]
    /\ input' = "copy"
    /\ output' = "copy"
    /\ waiter' = "wait"
    /\ UNCHANGED <<gone, stop, reaped, told, recycled, signal>>

\* On Redis, in pty.Start or in Setsize: PTY and process, if any, are closed and reaped.
StartFails ==
    /\ pty = "none"
    /\ gone \/ "startup" \in Env
    /\ UNCHANGED vars

CancelParent ==
    /\ "cancel" \in Env
    /\ ~gone
    /\ gone' = TRUE
    /\ UNCHANGED <<core, dctx, stop, daemons, kernel, signal>>

ContextEnded == gone \/ ~dctx

-----------------------------------------------------------------------------
(* The daemons.                                                                     *)

\* A terminal whose processes do not read blocks the write.
InputCopies ==
    /\ \/ input = "copy" /\ input' = "write"
       \/ input = "write" /\ input' = "copy" /\ \E p \in Group : proc[p] = "run"
    /\ UNCHANGED <<driver, output, waiter, reaped, told, kernel, signal>>

\* The reader of Redis ends with the context, the write with the PTY or its last holder.
InputEnds ==
    /\ \/ input = "copy" /\ ContextEnded
       \/ input = "write" /\ (pty = "closed" \/ HoldersOfTTY = {})
    /\ input' = "done"
    /\ UNCHANGED <<driver, output, waiter, reaped, told, kernel, signal>>

\* Closed, EIO when nobody holds the terminal any more, or output that comes after the
\* context has ended and cannot be written to Redis.
OutputEnds ==
    /\ output = "copy"
    /\ \/ pty = "closed"
       \/ HoldersOfTTY = {}
       \/ ContextEnded /\ \E p \in Group : proc[p] = "run"
    /\ output' = "postamble"
    /\ UNCHANGED <<driver, input, waiter, reaped, told, kernel, signal>>

\* Under a context of its own, which is bounded.
WritePostamble ==
    /\ output = "postamble"
    /\ output' = "done"
    /\ UNCHANGED <<driver, input, waiter, reaped, told, kernel, signal>>

\* Wait: the kernel frees the PID ...
Reap ==
    /\ waiter = "wait"
    /\ proc[Leader] = "dead"
    /\ waiter' = "freed"
    /\ UNCHANGED <<driver, input, output, reaped, told, kernel, signal>>

\* A bug to look for: the flag is not set.
ReturnOnly ==
    /\ waiter = "freed"
    /\ waiter' = "notify"
    /\ UNCHANGED <<driver, input, output, reaped, told, kernel, signal>>

\* ... and only then can the flag say so.
StoreReaped ==
    /\ waiter = "freed"
    /\ reaped' = TRUE
    /\ waiter' = "notify"
    /\ UNCHANGED <<driver, input, output, told, kernel, signal>>

\* A bug to look for: the end is reported whether or not the context has ended.
NotifyAlways ==
    /\ waiter = "notify"
    /\ told' = TRUE
    /\ waiter' = "done"
    /\ UNCHANGED <<driver, input, output, reaped, kernel, signal>>

Notify ==
    /\ waiter = "notify"
    /\ told' = ~ContextEnded
    /\ waiter' = "done"
    /\ UNCHANGED <<driver, input, output, reaped, kernel, signal>>

-----------------------------------------------------------------------------
(* driver.Stop, under the driver's mutex; a Stop that failed may be repeated.       *)

StopBegins ==
    /\ core
    /\ stop \in {"off", "err"}
    /\ stop' = "check"
    /\ UNCHANGED <<core, dctx, gone, daemons, kernel, signal>>

CheckReaped ==
    /\ stop = "check"
    /\ stop' = IF reaped THEN "close" ELSE "kill"
    /\ UNCHANGED <<core, dctx, gone, daemons, kernel, signal>>

\* A bug to look for: the leader is signalled, and not its group.
KillLeader ==
    /\ stop = "kill"
    /\ stop' = "close"
    /\ IF recycled THEN signal' = "stranger" /\ UNCHANGED proc
       ELSE IF PIDFree THEN signal' = "nobody" /\ UNCHANGED proc
       ELSE signal' = "group" /\ proc' = Struck({Leader})
    /\ UNCHANGED <<core, dctx, gone, daemons, pty, recycled>>

\* ESRCH, from a PID that is nobody's, is no error.
Kill ==
    /\ stop = "kill"
    /\ stop' = "close"
    /\ \/ recycled /\ signal' = "stranger" /\ UNCHANGED proc
       \/ ~recycled /\ PIDFree /\ signal' = "nobody" /\ UNCHANGED proc
       \/ ~PIDFree /\ signal' = "group" /\ proc' = Struck(Group)
    /\ UNCHANGED <<core, dctx, gone, daemons, pty, recycled>>

Fail ==
    /\ stop' = "err"
    /\ dctx' = FALSE
    /\ UNCHANGED <<core, gone, daemons, kernel, signal>>

\* EPERM: the PTY stays open.
KillRefused ==
    /\ "protected" \in Env
    /\ stop = "kill"
    /\ ~PIDFree
    /\ Fail

\* A bug to look for: the PTY is left to the death of its processes.
LeaveOpen ==
    /\ stop = "close"
    /\ pty = "open"
    /\ stop' = "cancel"
    /\ UNCHANGED <<core, dctx, gone, daemons, kernel, signal>>

Close ==
    /\ stop = "close"
    /\ pty = "open"
    /\ pty' = "closed"
    /\ proc' = Struck(Vulnerable)
    /\ stop' = "cancel"
    /\ UNCHANGED <<core, dctx, gone, daemons, recycled, signal>>

\* os.ErrClosed, when an earlier Stop came this far.
CloseFails ==
    /\ stop = "close"
    /\ pty = "closed"
    /\ Fail

Cancel ==
    /\ stop = "cancel"
    /\ dctx' = FALSE
    /\ stop' = "wait"
    /\ UNCHANGED <<core, gone, daemons, kernel, signal>>

DaemonsDone == input = "done" /\ output = "done" /\ waiter = "done"

Joined ==
    /\ stop = "wait"
    /\ DaemonsDone
    /\ core' = FALSE
    /\ stop' = "ok"
    /\ UNCHANGED <<dctx, gone, daemons, kernel, signal>>

\* The wait ends without the daemons when its time is over, and at once when the context
\* of the caller of Stop has ended: the runner's, which is the parent of the driver's, or
\* the manager's, which is the parent of that.
JoinTimesOut ==
    /\ stop = "wait"
    /\ gone \/ ("slow" \in Env /\ ~DaemonsDone)
    /\ stop' = "err"
    /\ UNCHANGED <<core, dctx, gone, daemons, kernel, signal>>

StopStep ==
    \/ CheckReaped \/ Kill \/ KillRefused \/ Close \/ CloseFails \/ Cancel
    \/ Joined \/ JoinTimesOut

Next ==
    \/ Start \/ StartFails \/ CancelParent \/ StopBegins \/ StopStep
    \/ InputCopies \/ InputEnds
    \/ OutputEnds \/ WritePostamble
    \/ Reap \/ StoreReaped \/ Notify
    \/ Recycle
    \/ \E m \in Members : Forks(m)
    \/ \E p \in Group : Dies(p)

\* The threads of the driver run, and what is killed dies.  Nothing obliges a process to
\* read or to exit, or a wait to expire.
Fairness ==
    /\ WF_vars(StopStep /\ ~JoinTimesOut)
    /\ WF_vars(InputEnds)
    /\ WF_vars(OutputEnds)
    /\ WF_vars(WritePostamble)
    /\ WF_vars(Reap \/ StoreReaped \/ Notify)
    /\ \A p \in Group : WF_vars(proc[p] = "killed" /\ Dies(p))

Spec == Init /\ [][Next]_vars

FairSpec == Spec /\ Fairness

-----------------------------------------------------------------------------
(* Properties.                                                                      *)

\* SIGKILL never goes to a process group that has inherited the PID of a command that
\* was reaped ("its PID is freed and may be recycled").
StrangersAreSpared == signal # "stranger"

\* A Stop that succeeds leaves none of the group, unless the command had ended by itself
\* and what it left behind ignores a hang-up: TearDown no longer signals it then.
GroupIsTornDown ==
    stop = "ok" => \A p \in Group : proc[p] = "run" => p \in Immune /\ signal # "group"

\* A Stop comes back although processes may hold the terminal open and neither read
\* nor write: closing the PTY, and no death, is what ends the copying.
StopReturns == (stop \in {"check", "kill", "close", "cancel", "wait"}) ~> stop \in {"ok", "err"}

D == INSTANCE SessionDriver WITH
    Runs <- {Run},
    DriverType <- "PTY",
    Env <- {"exit", "startup", "teardown", "slow"},
    core <- [r \in {Run} |-> core],
    cmd <- [r \in {Run} |-> IF pty = "none" THEN "none"
                            ELSE IF pty = "closed" THEN "torn"
                            ELSE IF proc[Leader] = "dead" THEN "dead" ELSE "run"],
    dctx <- [r \in {Run} |-> dctx],
    waiter <- [r \in {Run} |-> IF waiter \in {"freed", "notify"} THEN "wait" ELSE waiter]

\* The steps of SessionDriver, as the runner and the manager take them.
DriverStep ==
    \/ /\ \/ D!DriverStarts(Run, gone)
          \/ D!TearDown(Run, gone)
          \/ D!TearDownFails(Run, gone)
          \/ D!CancelDriver(Run)
          \/ D!DaemonsJoined(Run)
          \/ D!CommandExits(Run)
       /\ UNCHANGED told
    \/ D!WaitReturns(Run, gone) /\ told' = D!ReportsEnd(Run, gone)

\* Step by step the PTY driver does what SessionDriver says it does, reports included.
ImplementsDriver == D!DriverInit /\ [][DriverStep]_<<D!driverVars, told>>

=============================================================================
