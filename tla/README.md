# rest-pty: a verification project

rest-pty runs interactive programs (shells, REPLs, agents) for clients that talk HTTP or MCP.
A *session* is a database record: a name, a command, a run mode and a driver (PTY or Docker).
A client starts it, sends it commands or keystrokes, reads its output from a ring buffer, and
stops it. This directory holds TLA+ models of the parts of rest-pty where that can go wrong,
TLC configurations that check them on small instances, and TLAPS proofs for every instance.
Paths below are relative to the repository; `PROJECT.json` maps every definition to the lines
it models, and lists runs, mutants, hazards, findings and theorems.

    tlc -workers 2 -config sessions_pty.cfg MCSessionControl.tla    # check a run
    tlapm SessionControlProofs.tla                                  # check the proofs

## 1. Inventory

| Component (source) | State | Operations | Hard behaviour |
|---|---|---|---|
| Session manager (`session/manager.go`) | lifecycle flags, `allowNewStarts`, task queue (10), `activeRunners` by session name | Start, Stop, StartSession, StopSession, StopAllSessions, ChangeOutputBufferCapacity; two callbacks from runners | one worker executes everything, and waits in it for runners; a start that fails half-way is cleaned up after its answer; runners report by name, asynchronously; shutdown queues behind other work |
| Session runner (`session/runner.go`) | context, task queue, a cached copy of the record, the IPC queue's reader | Start, Stop, StartSession, StopSession, SubmitCommands, IPC messages | its worker, IPC thread and report goroutines run against the manager's worker, which cancels and joins them; every thread looks at the context at a different point |
| Session driver (`session/driver.go`, `pty_driver.go`, `docker_driver.go`) | `core`, a context of its own, a mutex, daemons for input, output and exit | Start, Stop; daemons copy bytes, wait for the command, report its end | stopped by the runner's worker or the manager's; a tear-down can fail, be repeated, or run on a dead context; the command may end at any time |
| Session records (`db/`, `models/sessions.go`, `models/validate.go`) | the sessions table | define, update command / driver / workspace / name / capacity, mark READY / IDLE, delete | callers name records, rows have IDs; a start is several transactions with a driver between; SQLite serialises transactions, PostgreSQL does not |
| Command and IPC messages (`models/command.go`, `models/ipc.go`, `session/common.go`) | Redis lists named after the session or the request | encode, decode; names of queues and buffers | queues outlive the runs that read them |
| Session I/O API (`api/session_io_*.go`) | none | submit commands, read output (newest, chunk, tail) | time-outs while the runner goes on; offsets in a buffer that ages out and whose text is stripped |
| Management API (`api/manager_*.go`, `api/mcp.go`) | none | the record operations, start, stop, capacity | none of its own |
| Server process (`app/server.go`, `main.go`, `api/server.go`, `api/health.go`) | two listeners, a channel of errors, requests under way | start the manager, then listen; on a signal or a failed listener stop the manager, drain the listeners, join their threads | order at start and at shutdown; every wait of the shutdown is bounded and may expire; a tail stream ends only with its client; errors that nobody receives; crash |
| Workspace client (`workspace/client.go`) | none | resolve a workspace for a Docker start | its failure fails the start |
| Configuration, errors, `poc/`, tests, tools | none | | out of scope |

How they interact:

    client --HTTP/MCP--> management API --queue--> manager's worker --queue--> runner's worker --mutex--> driver
                              |                        ^   |  context, join         ^      ^                |
                              v                        |   '------------------------+      | "command ended"|
                         sessions table <--------------+---- READY / IDLE ----------'      '----------------'
                              ^                        '---- "session is IDLE", "IPC failed" (by session name)
                              |
    client --HTTP/MCP--> session I/O API --Redis IPC queue--> runner's IPC thread --> runner's worker --> input buffer
                              '<-------- Redis reply queue --------'          output buffer <-- driver's daemon

What makes each part correct:

* *manager, runner, driver together*: a session is held by one run at a time; a command that
  runs can be stopped by somebody; a row says READY only when something serves it; the answers
  to starts and stops are true; every call returns; a command that ended by itself is unloaded;
  a shutdown ends and leaves nothing.
* *records*: what a session runs changes only while it is IDLE; the record of a running session
  stays and keeps its name; what is READY is served by a runner of that very record; a workspace
  belongs to a Docker session, and is mounted when it runs.
* *commands*: an acknowledged request was written, a refused one never will be; requests are
  written in the order they were pushed, each once; a run's command is given the keystrokes that
  were asked for since it started, and nothing else; both threads end when the runner is stopped.
* *driver*: a tear-down ends, strikes nobody but the command's process group, and leaves nothing
  of it but what the code knowingly spares.
* *server process*: a manager that stopped stays so; no thread blocks on an error nobody
  receives; a shutdown ends, and an exit with success is clean.
* *output*: the buffer has the capacity its record advertises; a client that reads on sees no
  byte twice; scrollback is dropped only by a change of capacity.

The hazards behind these properties, line by line, are the `hazards` of `PROJECT.json`.

## 2. Modules

| Module | Models | Composition |
|---|---|---|
| `SessionDriver` | `driver.Start`, `driver.Stop`, the wait daemon; PTY and Docker tear-down | operators, taken by the two below |
| `SessionRunner` | a run's worker, IPC thread, reports; the row | EXTENDS `SessionDriver` |
| `SessionManager` | manager, its worker and shutdown; clients' calls; crash and restart | EXTENDS `SessionRunner`; `Next` is the composition of all three |
| `SessionControl` | properties, `Inv`, fairness, the refinement mapping | EXTENDS `SessionManager`, INSTANCE `SessionOwnership` |
| `SessionOwnership` | the abstract promise: a session has one owner at a time, a run owns once | implemented by `SessionControl` |
| `MCSessionControl` | constants for TLC, symmetry | EXTENDS `SessionControl` |
| `SessionControlProofs`, `SessionOwnershipProofs`, `SessionAnswersProofs` | theorems of session control: types and exclusion; orphans and the refinement; answers, reports, rows, shutdown; ownership, answers and rows where stops fail | EXTEND `SessionControl` and TLAPS, each the one before |
| `PTYDriver` | one run under a PTY: daemons, `driver.Stop`, `TearDown`, the processes and the terminal | INSTANCE `SessionDriver`, which it implements |
| `PTYDriverProofs` | its theorems | EXTENDS `PTYDriver` and TLAPS |
| `ServiceLifecycle` | main, the HTTP servers, and `Manager.Start` and `Manager.Stop` step by step | stands alone; what the manager does in between is reduced to "a session runs" |
| `ServiceLifecycleProofs` | its theorems | EXTENDS `ServiceLifecycle` and TLAPS |
| `SessionRecords`, `MCSessionRecords` | the table, its transactions, and who writes it | stands alone; starts and stops reduced to their transactions |
| `SessionRecordsProofs` | its theorems | EXTENDS `SessionRecords` and TLAPS |
| `StdinCommands` | which lists of commands are valid, and the bytes they become | operators, taken by `CommandIPC` |
| `CommandIPC`, `MCCommandIPC` | requester, Redis queues, IPC thread, worker, input buffer, and what the command is given | EXTENDS `StdinCommands`; the manager reduced to "start a run, ask for a stop, cancel" |
| `CommandIPCProofs` | its theorems | EXTENDS `CommandIPC` and TLAPS |
| `OutputBuffer` | output daemon, change of capacity, reading clients | stands alone; starts and stops reduced to what touches the buffer |
| `OutputBufferProofs` | its theorems | EXTENDS `OutputBuffer` and TLAPS |

`SessionRecords`, `CommandIPC` and `OutputBuffer` look at one aspect each. What they take for
granted about starts and stops (one runner of a session at a time, every thread ended when
Runner.Stop has) is what `SessionControl` establishes, as long as the manager's context lives; what
may be left after that has no command. `PTYDriver` and `ServiceLifecycle` are the two ends of session control: the first shows that the steps in which `SessionDriver` takes a PTY
driver are those of its daemons, the second what brings the manager up and down.

Operators introduced by "A bug to look for" are no part of any specification: each is a
definition with a plausible mistake in it, and `PROJECT.json` ("mutants") says which property
breaks when it takes the place of the definition below it.

### State and code: session control

A run is named by the StartSession call that asked for it: the code makes one runner per start,
so `Runs` is both. Where a variable stands for a local position in a function, its values are
the points between which other threads can act:

| Variable | Code |
|---|---|
| `row[n]` | column `state` of the session's row |
| `mctx`, `rctx[r]`, `dctx[r]` | working contexts of manager, runner, driver, each the child of the one before (`Gone(r)` is the runner's own view) |
| `mq`, `rq[r]` | task queues of the two workers |
| `mtask`, `mpc`, `mrun` | the manager's worker: task in hand, position in its handler, runner in its hands |
| `wpc[r]`, `wfor[r]`, `reply` | the runner's worker: position, who waits, and the result for the manager |
| `ipc[r]` | the IPC thread: polling, waiting for its task, about to report an error, done |
| `idleN[r]` | goroutines that are about to call `SessionIdleNotify` |
| `core[r]`, `cmd[r]`, `waiter[r]` | `driver.core != nil`; the command; the daemon in `core.Wait` |
| `active`, `allow`, `life`, `stopper` | `activeRunners`, `allowNewStarts`, the lifecycle flags, the thread in `Manager.Stop` |
| `call[c]` | a client's call |
| `over[r]` | history: which runs had ended when start r was submitted |

Actions carry the names of the functions they translate; a handler is cut where it waits, takes
or releases the driver's mutex, or commits a transaction. Four details carry most of the weight:

* `Runner.Stop` (`CancelRunner`, `MgrStopDriver`, `MgrDrain`, `MgrDrained`, then a wait) runs on the
  *manager's* worker, against the runner's own worker; its driver errors are only logged, its
  wait is bounded.
* A bounded wait (goutils' `TimeBoundedWaitGroupWait`) ends with its time *or with its context*. The
  wait inside driver.Stop has the context of whoever called it: the runner's own when its worker
  stops the driver (`DrainTimesOut`), so that Runner.Stop, which cancels that context first, makes
  the worker's wait fail at once; the manager's when Runner.Stop does (`MgrDrained`). The wait of
  Runner.Stop for the threads has the manager's (`RunnerStopTimesOut`). What is left in these cases:
  a driver that is torn down and still counts as running, since only a wait that succeeds resets
  `driver.core`; or threads that have yet to notice that their context has ended.
* The clean-up of a failed start runs after the caller was answered, and forgets the runner in any
  case; HandleStopSession keeps a runner that it could not stop.
* HandleStopSession of the runner reports IDLE to the manager whoever asked for the stop, and the
  report becomes a stop *of the session*, not of the runner.

`Env` names the events an instance allows: `exit` (the command ends by itself), `giveUp` (a
caller's context ends), `shutdown`, `expire` (the shutdown's context ends, so that the manager's does
before its worker is done), `ipcStop` (a stop message on the IPC queue),
`crash`, `db` (transactions fail), `startup` (a runner or its driver does not come up), `teardown` (a tear-down
fails), `redis` (an IPC read fails), `slow` (the *time* of a bounded wait is over while threads still
run; that its context ends is no event, it follows from who cancels what).
Docker is not an event: with `DriverType = "DOCKER"` every call on an ended context fails, and
the wait daemon returns when its context ends.

Taken from outside the repository (goutils' task processor, as this code uses it): a bounded FIFO
queue; a sender blocks until there is room or its context ends; when the processor's context has
ended it may take a task or end, and what is left is dropped. A submission to a cancelled runner
may therefore fail or queue a task that nobody takes; both are in the model.

### State and code: the other modules

* `SessionRecords`: `table[i]` is a row (a deleted one is `GONE`), `tx[p]` the transaction that
  process p has read and decided but not written. With `Isolation = "immediate"` (SQLite, opened
  with `_txlock=immediate`) nobody reads while a transaction is open; with `"readCommitted"`
  (PostgreSQL) others may read and write in between. `stage[r]` follows a runner through its two
  transactions, `loaded[r]` is its copy of the record. `mctx` is the manager's context: once it has
  ended (`CancelManager`, the part of Manager.Stop that matters here), a start need not wait for
  its driver, nor its clean-up for its worker, which goes on from wherever it is until it notices
  (`WorkerEnds`); a stop gives up, and the manager's worker may still take the tasks in its queue.
  The database does not look at that context, so transactions go on.
* `StdinCommands`: a command is its type and the bytes of its content (`Missing` without one,
  `NotBase64` for a RAW content that does not decode). `IsValid`, `StdinOf` and `BuildStdinInput`
  are the functions of `models/command.go`.
* `CommandIPC`: `queue` and `reply[q]` are Redis lists, `tasks` the worker's queue; `ipc`, `hand`,
  `result` are the IPC thread, `ctx` the runner's context. `buffer` holds the bytes of the input
  buffer, a ring of `InputCap` that overwrites its oldest; `typed` is what the INPUT daemon has
  given the command. `Unchecked` requests come through MCP, where nothing validates the list
  before it is pushed (the REST handler does). `pushed`, `wrote`, `mark` and `lost` are histories.
* `PTYDriver`: `core`, `dctx`, `reaped` are the driver's fields, `stop`, `input`, `output`, `waiter`
  the positions of its threads; `pty`, `proc`, `recycled` are the kernel's: the terminal, the
  processes of the command's group, and whether its PID already names a stranger's. The kernel's
  rules (who is hung up, when a PID is free) are external definitions.
* `ServiceLifecycle`: `pc[c]` is where caller c is in `Start`, `Stop` or main, `life`, `allow`,
  `mctx`, `worker` are the manager's fields and threads, `srv`, `errs`, `req` the servers' threads,
  the channel `serverErrors` and the HTTP requests. `Others` may call the manager besides main:
  its interface promises something to them, too. `sweep` is the bulk stop: it fails when a runner's
  threads do not end in time, and does not when a driver could not be torn down, whose command is
  then left (`runs = "left"`). `tore` and `crossed` are histories.
* `OutputBuffer`: a byte is a place in a stream; a stream is one life of the Redis buffer, made by
  the first write to it. `limit`, `offset` and `got` are a client that continues at
  `actual_offset + read`, as the API's documentation tells it to.

## 3. Runs

| Run | Instance | Shows |
|---|---|---|
| `sessions_pty` | PTY; two starts and a stop of one session; exit, IPC stops, failing runners and drivers, shutdown, crash; manager's queue of 2 | types; exclusion; READY rows are backed; no orphaned command; clean shutdown; true answers; late reports do no harm to later starts |
| `sessions_faults` | PTY; the same calls with exits, failing transactions and a shutdown that expires, so that the manager's context ends under every wait; a queue of 1 | the inductive invariant; no two runs serve a session; no orphan; true stop answers |
| `sessions_docker` | Docker; failing tear-downs, slow threads, failing reads, IPC stops, exits, callers that give up | the refinement of exclusive ownership, although a runner cannot always be stopped |
| `sessions_live` | PTY; exit, shutdown; queue of 10, fairness | calls return; an ended command is unloaded; a shutdown ends |
| `stale_stop` | PTY, exit, queue of 4 | *finding*: a run's report stops the next run |
| `docker_orphan` | Docker, shutdown | *finding*: the bulk stop leaves a container |
| `records` | SQLite; every record operation, renames only of sessions at rest; the manager's context ends at any step | one runner per record, and none is lost (but what a clean-up did not wait for after the context's end); READY is served until the context ends; the running record stays; workspace needs Docker; only IDLE records change |
| `records_rename` | SQLite; define, rename | *finding*: a renamed READY session is started twice |
| `commands` | three requests, one of them with a list that is not valid and nobody checked; two runs, an input buffer of 3 bytes | true replies; order; the keystrokes a command is given; both threads end; requests are taken |
| `output` | one reader, capacities 2 and 3, streams of 6 bytes, three buffers | the properties of output |
| `driver` | a command that forks two processes, one of them immune to hang-ups; exits, failing starts, refused signals, a cancelled parent, a wait whose time or context ends | whom a tear-down strikes and leaves; it ends; the refinement of `SessionDriver` |
| `service` | main and one other caller of the manager, a request that starts a session, an endless stream; failing transactions and listeners, forced quits, a bulk stop that fails or leaves a command | STOPPED is final; senders of errors do not block; what an exit with success leaves; a shutdown ends |

CHECK_DEADLOCK is off throughout: clients make finitely many calls, after which the system rests.

### Bounds, and why they are enough

* *Two starts and one stop of one session.* Every property is about one session's runs. Sessions
  share only the manager's worker and its queue; two calls that queue before and behind each
  other already occupy both. Two runs are needed for "the next run" and "double attach", and the
  proof shows that more add nothing to exclusion. Reports and IPC stops add further stops.
* *QueueCap.* The code's is 10. One and two make "queue full" frequent, which is where workers
  wait for each other; `sessions_live` uses the code's 10, because with a full queue a bounded
  wait has to expire before calls return (the `resource_bound` hazard).
* *MaxBacklog.* An IPC stop arrives only while the runner has fewer tasks and reports than this.
  Tasks and reports from elsewhere are not bounded. The runner's own queue (10) is unbounded.
* *CommandIPC*: two runs, so that input of one can reach the next; three requests, so that two
  valid ones surround one that does not parse; one stop queued at a time; an input buffer of 3
  bytes, which two requests of 2 bytes overflow. The content of the lists covers each type of
  command and each reason to refuse one that depends on the content.
* *PTYDriver*: one command with two processes in its group, one of which ignores hang-ups; one
  Stop, since the mutex serialises them and a second finds nothing or what the first has left
  (`SessionDriver` has those). The theorems hold for every group.
* *ServiceLifecycle*: main, one other caller, both servers, one request that starts a session and
  one endless stream. The theorems hold for every number of callers and requests.
* *OutputBuffer*: streams twice as long as the larger capacity, so that bytes age out repeatedly; a read limit of 2
  so that both caps (absolute and capacity) bind; escapes at two places, one at a read's edge.
* *SessionRecords*: two IDs and two names suffice for "the other record of that name", one client
  and two runs plus the manager for every pair of overlapping transactions.

### Fairness

Used by `sessions_live`, `commands`, `driver` and `service`. Weak fairness of each worker and thread: goroutines
that can run do run, and a `select` takes a case that stays ready. Nothing obliges a command to
exit, a client to call or give up, a message to arrive, or a fault to happen. An IPC thread's step
is fair only once its context has ended (a read may block until then). The wait of `Manager.Stop`
for its worker, and the process's end after it, are fair because main does nothing else.

In `PTYDriver` the daemons' steps are fair where the code only waits for what has already happened
(a closed terminal, an ended context, a dead leader); a process that was killed dies, but none has
to exit, to read or to write; a Stop is fair except for the expiry of its wait. In
`ServiceLifecycle` main's steps are fair, and so is the expiry of the context that it passes to
`Stop`, which is a timer; no client ends its stream and nobody has to send a signal.

## 4. Proofs

`SessionControlProofs!TypeCorrect`: `Spec => [](TypeOK /\ TaskFits)`. `TypeOK` alone is not
inductive: steps that use the runner in hand (`mrun`) need it to be a run, which depends on where
the worker is and on its task. `TaskFits` says so. The proof takes types of driver, runner and
manager separately, one step per action.

`SessionControlProofs!NeverServedTwice`: `ASSUME TearsDown PROVE Spec => []NoDoubleServe`, for
every set of calls and sessions, queue capacity, and backlog, with transactions and starts that
fail, Redis failures, callers that give up, shutdowns and crashes. `TearsDown` is its only
assumption beside those on the constants: the driver is a PTY, a tear-down does not fail, and
threads end within the *time* of the bounded waits; that the waits end with their context is
covered. Two notions of holding a session differ here. A run is `Attached` when anything of it is
left, and *serves* its session (`Serves`) when it has a command that was not torn down, or a
worker or IPC thread. `NoDoubleAttach` is false under `TearsDown`: a clean-up on an ended context
leaves threads that have yet to notice, and a cancelled wait leaves a torn driver that counts as
running. `NoDoubleServe` says what is still true: never two commands, and no two runs that serve
until the manager's context ends. `ExclusiveThoughStopsFail` below proves `NoDoubleAttach`, where
starts fail cleanly.

The argument (`Inv`, checked by TLC in `sessions_faults` before it was proved):

1. A run comes to serve only when it is created, and to a command only by its worker's start:
   no other step brings back what is gone.
2. A run with a command, or that serves while the manager's context lives, is the active one of
   its session, or in the hands of the start that created it (`HeldRuns`), and while a start is
   under way its session has no active runner (`StartIsAlone`). Two such runs would be both.
3. So the manager may forget a runner only when it has no command, and while the context lives no
   thread. That is what Runner.Stop achieves, however its waits end: past the cancel the worker
   cannot start the driver any more, and past the tear-down there is no command (`StopIsFinal`).
   This needs that a driver with a command is not skipped as one that is down, and that what a
   worker waits for in driver.Stop is torn down (`CommandsHaveDrivers`).
4. What is forgotten is what was stopped (`StopIsActive`, `ActiveByName`).

The proof has one step per action of `ManagerStep` that touches what `Inv` speaks of; the others
are covered by a frame lemma (`InvFrame`). `ManagerKnowsHolders` states `Inv` itself, for the
theorems that build on it.

`SessionOwnershipProofs!NoCommandIsOrphaned`, under the same assumption, follows from `HeldRuns`. The
rest of the module are the lemmas of the refinement of `SessionOwnership`: that the start which
makes a run is once in the manager's queue or hand, and never again after its call left "new"
(`StartsOnce`), and which steps let go of a session (`LetsGo`).

`SessionAnswersProofs`. Each theorem adds to `TypeOK` and `Inv` what its property needs; unless
said otherwise it assumes `TearsDown`.

* `ReportsAreInTime` (`OldReportsAreHarmless`, for every environment and driver). The invariant is
  `ReportsComeFirst`: for every start a and every run r that had ended when a was submitted, r has
  still ended, and its reports are in front of a in the manager's queue or have been taken. It is
  FIFO order that makes it true, so it needs that a start is in the queue once (`StartsOnce`), that
  a runner in hand was started (`HasBegun`), and that the worker drops its task (`NoTaskAtRest`).
* `ShutdownLeavesNothing`. `ShutdownOrder`: the bulk stop closes the door (`allow`) before it takes
  the first runner, and once it has been answered nothing is active and the worker is where it has
  no runner in hand (`Swept`). `Inv` then says that no run serves a session. `core` may still be set:
  if a runner's worker was waiting in driver.Stop when the sweep cancelled its context, the driver
  is torn down and counts as running, and Runner.Stop's second tear-down fails and is logged.
* `StopsTellTheTruth`, from `StopInv`. A stop that succeeds with a runner has torn its command down and
  written the row (`StoppedIsIdle`), because the answer that the worker waits for is that of the
  task it has asked for: a task "for the manager" is in the queue of the runner in hand, or in the
  hands of that runner's worker, once (`AskedFor`). A stop that is a NOP succeeds because a READY
  row has an active runner (`ReadyHasRunner`), which needs that an active runner's start is done
  (`ActiveIsUp`) and that IDLE is written for drivers that are down (`IdleIsDown`). A NOP may find
  a driver that is torn down and still counts as running; the property speaks of commands and of
  what serves the session.
* `StartsTellTheTruth`, from `StopInv` and `StartIsReported`: between the runner's READY and the
  manager's answer, only the runner's own stop makes the row IDLE, and that stop is on its way to
  the manager as a report.

Under `StartsEndClean` instead of `TearsDown`, so with either driver, tear-downs that fail and threads
that outlive every wait for a stop, where no write fails, a runner or driver does not fail to start
while threads outlive waits, and a shutdown does not expire:

* `ExclusiveThoughStopsFail` (`NoDoubleAttach`) and `OwnershipThoughStopsFail` (`ImplementsOwnership`),
  from `ExclusionInv`. `Inv` is false here: a bulk stop forgets runners it could not stop, and a
  stop that timed out leaves threads behind. What is true is `HeldWhileOpen`: until the bulk stop
  has closed the door, every run that holds its session is active or in the hands of its start.
  A runner that a client's stop or a report could not stop stays active, so its session is refused
  to the next start. A runner that is forgotten is down and detached (`HandIsDown`, `DownIsDetached`):
  the runner's own stop has answered "ok", or its start has failed before the driver was up; and
  while the door is open the manager's context has not ended (`ShutdownOrder`), so a start never
  gives up on a driver that comes up later (`StartIsOpen`). Once the door is closed no runner is
  made any more, and what is still attached stays as it is.
* From `TruthInv`, which adds the parts of `StopInv` that speak of rows and answers:
  `RowsAreServedThoughStopsFail` (`ReadyIsBacked`) and `StartsTellTheTruthThoughStopsFail`
  (`StartAnswerIsTrue`); and, as long as nobody asks for a shutdown,
  `StopsTellTheTruthThoughStopsFail` (`StopAnswerIsTrue`) and `NoOrphanThoughStopsFail`
  (`NoOrphan`). The lemmas for these properties ask for three facts that `ExclusionInv` gives: a
  start waits for the only run of its session (`StarterHoldsAlone`), its clean-up waits for the
  write of READY (`CleanUpWaits`), and a runner is made for a session that is free
  (`SessionIsFree`). The last two are false under `TearsDown`, where a clean-up on an ended context
  does not wait, and so is `ReadyIsBacked` (section 6). A shutdown has to be excluded from the last
  two theorems because a bulk stop forgets runners that it could not stop: with `"shutdown"` and
  `"teardown"`, TLC refutes both properties, for either driver.

Each clause of `StartsEndClean` is needed: TLC refutes `NoDoubleAttach` without it (section 6). And
each is about a start: no failure of a stop alone makes two runs share a session.

`SessionRecordsProofs`. For every isolation level, any clients, names used again:

* `RecordsTyped` and `NoRunnerIsLost`, both from `RecordsInv`: an open transaction has a record to
  write (`TxHasRecord`), a runner that was made has its copy (`MadeHasCopy`), and the manager's hands
  hold what its stage says (`HandsAreFull`). `NoLostRunner` alone is not inductive: that the manager
  forgets the runner it has just stopped, and no other, needs `StopIsActive` and `ActiveByName`.
  Once the manager's context has ended, a clean-up forgets a runner whose worker may still be
  marking it READY (`Discarded`); its driver is torn down, and a runner that is made beside it does
  not start, since the context has ended (`Beside`, `DiscardedRunners`).

With `ASSUME Isolation = "immediate"`:

* `WorkspacesAreDockers` and `OnlyIdleSessionsChange`. At most one transaction is open (`Exclusive`),
  so what it read and decided is still so when it writes (`Fresh`). The assumption is needed: with
  `"readCommitted"` TLC refutes both.

With `"rename" \notin Ops` besides (sessions are renamed only at rest):

* `SessionsHaveOneRunner`, from `Bound`: the record of an attached runner keeps the name that the
  runner was started by (`KeepsName`), for which no transaction that is already open may rename it
  (`RenamesAtRest`). Two attached runners of one ID would have one name, and `RecordsInv` gives a
  name one runner, but for what `Beside` excepts. The `records_rename` run shows that the hypothesis is needed.

With `"redefine" \notin Ops` besides (names of deleted sessions are not used again):

* `ReadyMeansServed` and `RecordsStayWithRunners`, from `ServiceInv`. All writes are by name, and
  decided a transaction earlier, so the invariant has to say what is about to be written, and on
  which grounds: a name has one record (`NamesUnique`); a transaction that is open has decided
  rightly (`Decided`); runner and manager are about to write the record they mean (`UnderWay`);
  while a start is under way nobody else has its name and its row is not READY (`Starting`); a
  runner that is up has a READY row (`UpIsReady`). TLC checked each part on the instance of the
  `records` run first. Why the hypothesis is needed is under the known limits below.

`CommandIPCProofs` (any requests, lists of commands, runs, and capacity of the input buffer):

* `RepliesTellTheTruth` and `OrderIsKept`, from `FlowInv`, which follows a request on its way. What
  is in the queue is the rest of what was pushed (`QueueIsRest`); what was taken and is on its way
  is the latest one taken, with the IPC thread or as the worker's task (`HandIsLatest`,
  `TaskIsLatest`); what was written was taken before (`WrittenWasTaken`); the result is that of the
  request in hand, unless the context has ended (`ResultIsTrue`); and a refused request is over
  (`RepliesAreTrue`). A reply that comes too late, or to a queue that its requester has deleted, is
  covered: the invariant speaks of replies in Redis as well as of those that were read.
* `FlowTyped`: the types of all variables but those that hold bytes; `CommandsTyped`: those too.
* `CommandIsTyped` (`TypedAsAsked`), from `TypedInv`. What was written is a list of valid commands
  (`WrittenIsValid`), so a list is never half serialised, and as long as the driver copies, what was
  typed and what waits in the buffer is what was asked, less what the ring dropped
  (`InputIsAsked`): equal without an overflow, thinned in any case, and the buffer is always a
  suffix of what was asked. The property says each only where it applies; the step in which the
  first overflow happens needs both.
  What was asked is the concatenation of a list of lists, which the library defines by recursion;
  that such a recursion has a value, one only, and obeys `FlattenSeqAppend` needs induction over
  the length of the list. The library's induction theorem takes an operator that the provers cannot
  instantiate, so `Induction` is proved for sets instead: a set with 0 and the successor of each
  of its members contains `Nat`, since a well-founded order (`NatLessThanWellFounded`) has a least
  number outside it (`WFMin`). The rest of the first part is about thinning (`ThinnedConcat`,
  `ThinnedNewest`) and suffixes (`SuffixNewest`).

`OutputBufferProofs` (any readers, capacities, read limits and escapes):

* `OutputTyped`; `CapacityAsAdvertised`, from `BufferInv`: a change of capacity is in hand only while
  no daemon writes (`WantedFits`, `WriterFits`), a daemon writes with the capacity that the record
  has (`HandleIsCurrent`), and between deletion and record there is no buffer
  (`DeletedStaysDeleted`).
* `OnlyAChangeDrops`, from the same invariant.
* `ReadOnce`, from `ReadInv`: what a reader got lies before its offset (`ReadBefore`), whichever
  stream it was read from, and the buffer is of the newest stream (`StreamsInOrder`).

`PTYDriverProofs` (any group of processes, any number of immune ones):

* `StrangersAreSafe`, from `PIDIsKnown`: the flag `reaped` follows the waiter's reaping, and a Stop
  that is about to signal has read it while the PID was the command's. It assumes that a PID is
  not used again in the instant it becomes free (`"recycleAtOnce" \notin Env`); see section 6.
* `GroupIsGone`, from `TearDownHolds`: SIGKILL spares nobody, the closing of the terminal only the
  immune, and nothing forks without a leader.
* `DriverImplemented`: every step of the daemons is one of `SessionDriver`, as the runner and the
  manager take it, or invisible to it (`StepsMatch`, `StepRefines`). It carries the results about
  session control over to the driver's own steps.

`ServiceLifecycleProofs` (any number of callers and requests):

* `StoppedForGood`, directly; `StopsAreFinal`, from `Finality`: whoever tears down finds the manager
  STOPPED, and whoever failed its first compare-and-swap and its second was overtaken by a Start.
* `ErrorsHaveRoom`: the channel holds no more errors than servers that have ended.
* `ExitIsClean`: one caller at most gets into `Start` (`OneStarter`); if nobody but main tears the
  manager down (`WhoTears`), what main's Stop has come past (`HowFar`) and which listeners and
  requests are left (`Doors`) follow from main's place. An exit with success comes after a bulk
  stop without an error. A driver that could not be torn down is no error of a bulk stop
  (`runner.go:369-374`), so a command may be left, as the `docker_orphan` run shows.

## 5. Model-checked only

* Liveness (`CallsReturn`, `EndedCommandIsUnloaded`, `ShutdownEnds`, `ThreadsEnd`,
  `RequestsAreTaken`, `StopReturns`, `StopEndsInExit`): the provers have no support for reasoning
  about fairness and ENABLED.

Every safety property that a run checks is stated by a theorem.

## 6. Findings

Three runs end in a violation, because the code does something else than one of its own comments
says. Each is described, with the lines, under `findings`.

* `stale_stop`: the report of a run that was stopped on request is a second stop of the session.
  If the client starts the session again while that report is on its way, the report stops the
  new run. `OldReportsAreHarmless` says what is still true: a start that was submitted after the
  old run had completely ended is safe.
* `docker_orphan`: Runner.Stop cancels the runner's context before it stops the driver, the order
  that the comment in driver.Stop warns of. A client's stop tears the container down first (on
  the runner's worker), so only shutdown and failed starts are affected. `NoOrphan`
  holds with PTYs that can be torn down.
* `records_rename`: `activeRunners` is keyed by name, queues by ID, and a READY session may be
  renamed. `NoLostRunner` says what is still true: the first runner is found under its old name.

Known limits. What the properties assume or except, and what TLC finds without that:

* The clean-up of a failed start forgets its runner whether or not it could stop it. So
  `NoDoubleAttach` fails if a start may fail while its driver is up, or while its threads outlive
  Runner.Stop's wait: with `startup` and `slow`; with `db` (the write of READY fails) and Docker or
  `teardown`, or `exit` (the worker is waiting in driver.Stop when the clean-up cancels its context,
  and leaves a torn driver that counts as running); with `expire` and `shutdown` (the manager's
  context ends before the bulk stop has been answered, and the wait of the clean-up with it).
  `NoDoubleServe` holds in the last two cases and in all that `TearsDown` allows. With `startup`
  and `slow`, two runs do serve a session.
* With `expire` and `shutdown`, the clean-up that did not wait writes IDLE before its runner's worker
  writes READY: the row says READY over a driver that is torn down, until the next start of the
  process resets it. `ReadyIsBacked` fails there.
* After a bulk stop `driver.core` may be set although the command is gone, so `ShutdownIsClean` and
  `StopAnswerIsTrue` speak of commands and threads. Nothing depends on that flag any more: its
  runner is forgotten.
* Under PostgreSQL, `OnlyIdleChanges` and `RunnerKeepsItsRecord` fail: an update's check and its
  write are not atomic there.
* `WorkspaceIsMounted` of `SessionRecords` is false, and no run checks it: the row is IDLE until the
  driver is up, so a workspace may be assigned after the runner has read the record
  (`runner.go:202-206`), and the READY record then has a workspace that the container does not
  (`docker_driver.go:113-115` says what that costs). One run and `Ops = {"define", "workspace"}`
  show it.
* `StrangersAreSpared` is false with `recycleAtOnce`: `Wait` sets `reaped` after the PID was freed, and
  `TearDown` signals after it has read the flag. The two windows are a few instructions long, and
  PIDs are handed out in turn.
* `StopIsFinal` excepts a Stop that a Start overtook between its two compare-and-swaps: the first
  fails because the manager is NEW, the second because it is RUNNING, and the Stop returns as if
  somebody else had stopped it. The contract (`manager.go:444-446`, "no future Start can succeed")
  does not hold then. The server never starts and stops concurrently.
* `ReadyIsServed` and `RunnerKeepsItsRecord` are false with `"redefine"`: a session may be deleted
  while it starts, since its row is IDLE until the driver is up (`db/sessions.go:496`), and its name
  given to a new one. The runner marks its session by the name, so the new record becomes READY,
  with the queues of the old ID behind it. Hence that hypothesis of the theorems, and `Ops` of the
  `records` run.
* A write of IDLE that fails leaves a READY row without a driver, until the next start of the session
  forces it IDLE: `ReadyIsBacked` fails with `"db"` in `Env`.
* `CallsReturn` fails with a queue of one task (a bounded wait has to expire).
* A request that was never answered may still be executed, by the next run even.
* A list of commands that is not valid and comes through MCP is dropped without a reply; its
  requester waits until its time-out.
* An overflow of the input buffer drops bytes whose request was acknowledged; `TypedAsAsked` says
  what is still true.

## 7. Not modelled, and the plan

Not modelled: HTTP and MCP framing, parameter parsing, schemas, error texts, metrics and logging
(no state); configuration; what the PTY does with bytes (the kernel's); the internals of the ring
buffers and of the task processor (goutils'); the steps inside a Docker tear-down (stop, remove,
wait are the daemon's and goutils', `SessionDriver` takes them as one that may fail); tokens of the
workspace service; generated code, mocks, `poc/`.

The order in which the project was laid out, most important first; what is done is marked.

1. [done] Session control: `SessionDriver`, `SessionRunner`, `SessionManager`, its properties,
   `SessionOwnership`, types, exclusion, ownership and orphans proved.
2. [done] `SessionRecords`: the table under all its writers.
3. [done] `CommandIPC`: commands from client to input buffer, and to the command.
4. [done] `OutputBuffer`: capacity and reads.
5. [done] `PTYDriver`: the daemons and the steps inside a tear-down, refined to `SessionDriver`.
6. [done] `StdinCommands`: how a list of commands becomes bytes.
7. [done] `ServiceLifecycle`: the compare-and-swaps of Start and Stop, and the process around them.
8. Errors to statuses: which failure becomes which answer in REST and MCP.
9. [done] Proofs of the answers (`SessionAnswersProofs`), of one runner per session and of READY
   records (`SessionRecordsProofs`), of replies, their order and what is typed, and of output.
10. [done] Proofs: exclusive ownership with Docker, and where threads are slow or tear-downs fail.
