----------------------------- MODULE SessionRecords ----------------------------
(***************************************************************************)
(* The sessions table (src/db/sessions.go) under the three parties that    *)
(* write it: the management API (src/api/manager_core.go), the session     *)
(* manager, and the runners' workers.  Each operation is one transaction   *)
(* that reads a record by name, decides, and writes columns by ID; a start *)
(* or a stop is several of them, by the name read in the first, with the   *)
(* driver's work between.  Until the driver is up the row is IDLE.         *)
(*                                                                         *)
(* SQLite is opened with _txlock=immediate, so its transactions exclude    *)
(* each other; PostgreSQL runs them READ COMMITTED, so one may commit      *)
(* between another's read and its write.                                   *)
(***************************************************************************)
CONSTANTS
    Ids,        \* the IDs of sessions, each used once
    Names,      \* the names of sessions
    Commands,   \* the commands; a command stands for the run mode too
    Clients,    \* callers of the management API
    Runs,       \* the runners, one per StartSession task
    Manager,    \* the session manager's worker
    None,       \* no record, no transaction, no runner
    Isolation,  \* "immediate" (SQLite) or "readCommitted" (PostgreSQL)
    Ops         \* the management calls that an instance allows; "redefine" gives the
                \* name of a deleted session to a new one, "renameAtRest" renames only
                \* sessions that are IDLE and in nobody's hands; "expire" ends the
                \* manager's context before its tasks are done

Processes == Clients \cup Runs \cup {Manager}

ASSUME RecordsAssumption ==
    /\ None \notin Runs
    /\ Clients \cap Runs = {}
    /\ Manager \notin Clients \cup Runs
    /\ Isolation \in {"immediate", "readCommitted"}
    /\ Ops \subseteq {"define", "redefine", "command", "driver", "workspace", "rename",
                      "renameAtRest", "delete", "expire"}

VARIABLES
    table,   \* table[i]: the record of session i; a deleted one is GONE
    tx,      \* tx[p]: the transaction p has read and decided, but not written
    mctx,    \* the manager's working context
    mpc,     \* where the manager's worker is
    mname,   \* the name of the session in its hands
    mrun,    \* the runner in its hands
    active,  \* activeRunners
    stage,   \* stage[r]: where the runner is; from markReady to up its driver runs
    loaded   \* loaded[r]: the ID, name and workspace that the runner read when it was made

managerVars == <<mctx, mpc, mname, mrun, active>>
runVars == <<stage, loaded>>
vars == <<table, tx, managerVars, runVars>>

Record == [name : Names, state : {"IDLE", "READY", "GONE"}, driver : {"PTY", "DOCKER"},
           workspace : BOOLEAN, command : Commands]

\* The columns a transaction may write together.
Change ==
    [state : {"IDLE", "READY", "GONE"}] \cup [name : Names] \cup [command : Commands]
    \cup [workspace : BOOLEAN] \cup [driver : {"PTY", "DOCKER"}, workspace : BOOLEAN]

ASSUME NoneAssumption == None \notin Record \cup [id : Ids, set : Change]

Stages == {"off", "start", "markReady", "marking", "failed", "up", "markIdle", "idling",
           "dead", "down"}

RecordsTypeOK ==
    /\ table \in [Ids -> Record \cup {None}]
    /\ tx \in [Processes -> [id : Ids, set : Change] \cup {None}]
    /\ mctx \in BOOLEAN
    /\ mpc \in {"idle", "force", "forcing", "create", "start", "stop", "restore",
                "restoring"}
    /\ mname \in Names \cup {None}
    /\ mrun \in Runs \cup {None}
    /\ active \in [Names -> Runs \cup {None}]
    /\ stage \in [Runs -> Stages]
    /\ loaded \in [Runs -> [id : Ids, name : Names, workspace : BOOLEAN] \cup {None}]

Init ==
    /\ table = [i \in Ids |-> None]
    /\ tx = [p \in Processes |-> None]
    /\ mctx = TRUE
    /\ mpc = "idle"
    /\ mname = None
    /\ mrun = None
    /\ active = [n \in Names |-> None]
    /\ stage = [r \in Runs |-> "off"]
    /\ loaded = [r \in Runs |-> None]

-----------------------------------------------------------------------------
(* Transactions.                                                                    *)

Known == {i \in Ids : table[i] # None /\ table[i].state # "GONE"}

\* The record a name stands for; the column is unique.
Called(n) == {i \in Known : table[i].name = n}

IdleOnes == {i \in Known : table[i].state = "IDLE"}

MayRead == Isolation = "immediate" => \A p \in Processes : tx[p] = None

Read(p, i, change) ==
    /\ tx[p] = None
    /\ MayRead
    /\ tx' = [tx EXCEPT ![p] = [id |-> i, set |-> change]]

\* UPDATE ... WHERE id: no error when the record is gone by now.
Written(record, change) ==
    IF record.state = "GONE" THEN record
    ELSE [c \in DOMAIN record |-> IF c \in DOMAIN change THEN change[c] ELSE record[c]]

Write(p) ==
    /\ tx[p] # None
    /\ "name" \in DOMAIN tx[p].set => Called(tx[p].set.name) \subseteq {tx[p].id}
    /\ table' = [table EXCEPT ![tx[p].id] = Written(@, tx[p].set)]
    /\ tx' = [tx EXCEPT ![p] = None]

\* The write fails, on the unique name or on the database; nothing is written.
RollBack(p) ==
    /\ tx[p] # None
    /\ tx' = [tx EXCEPT ![p] = None]
    /\ UNCHANGED table

-----------------------------------------------------------------------------
(* The management API.                                                              *)

DefineNewSession(c) ==
    /\ "define" \in Ops
    /\ tx[c] = None
    /\ MayRead
    /\ \E i \in Ids, n \in Names, d \in {"PTY", "DOCKER"}, w \in BOOLEAN, v \in Commands :
          /\ table[i] = None
          /\ Called(n) = {}
          /\ "redefine" \in Ops \/ \A j \in Ids : table[j] # None => table[j].name # n
          /\ w => d = "DOCKER"
          /\ table' = [table EXCEPT ![i] = [name |-> n, state |-> "IDLE", driver |-> d,
                                            workspace |-> w, command |-> v]]
    /\ UNCHANGED <<tx, managerVars, runVars>>

\* A bug to look for: the state is not checked.
UpdateAnySessionCommand(c) ==
    /\ "command" \in Ops
    /\ \E i \in Known, v \in Commands : Read(c, i, [command |-> v])
    /\ UNCHANGED <<table, managerVars, runVars>>

UpdateSessionCommand(c) ==
    /\ "command" \in Ops
    /\ \E i \in IdleOnes, v \in Commands : Read(c, i, [command |-> v])
    /\ UNCHANGED <<table, managerVars, runVars>>

\* A bug to look for: the zero value of the workspace column is not written.
UpdateSessionDriverOnly(c) ==
    /\ "driver" \in Ops
    /\ \E i \in IdleOnes, d \in {"PTY", "DOCKER"} :
          Read(c, i, [driver |-> d, workspace |-> table[i].workspace])
    /\ UNCHANGED <<table, managerVars, runVars>>

\* Leaving DOCKER drops the workspace.
UpdateSessionDriver(c) ==
    /\ "driver" \in Ops
    /\ \E i \in IdleOnes, d \in {"PTY", "DOCKER"} :
          Read(c, i, [driver |-> d, workspace |-> table[i].workspace /\ d = "DOCKER"])
    /\ UNCHANGED <<table, managerVars, runVars>>

UpdateSessionWorkspaceName(c) ==
    /\ "workspace" \in Ops
    /\ \E i \in IdleOnes, w \in BOOLEAN :
          /\ w => table[i].driver = "DOCKER"
          /\ Read(c, i, [workspace |-> w])
    /\ UNCHANGED <<table, managerVars, runVars>>

\* From the moment its reader is on the session's IPC queue.
Attached(r) == stage[r] \notin {"off", "down"}

AtRest(i) == i \in IdleOnes /\ mpc = "idle" /\ \A r \in Runs : Attached(r) => loaded[r].id # i

\* The code renames a session in any state.
UpdateSessionName(c) ==
    /\ \E i \in Known, n \in Names :
          /\ "rename" \in Ops \/ ("renameAtRest" \in Ops /\ AtRest(i))
          /\ Read(c, i, [name |-> n])
    /\ UNCHANGED <<table, managerVars, runVars>>

\* A bug to look for: the state is not checked.
DeleteAnySession(c) ==
    /\ "delete" \in Ops
    /\ \E i \in Known : Read(c, i, [state |-> "GONE"])
    /\ UNCHANGED <<table, managerVars, runVars>>

DeleteSession(c) ==
    /\ "delete" \in Ops
    /\ \E i \in IdleOnes : Read(c, i, [state |-> "GONE"])
    /\ UNCHANGED <<table, managerVars, runVars>>

EndUpdate(c) ==
    /\ Write(c) \/ RollBack(c)
    /\ UNCHANGED <<managerVars, runVars>>

-----------------------------------------------------------------------------
(* HandleStartSession on the manager's worker.                                      *)

\* A bug to look for: the active runner is overlooked.
HandleStartUnchecked(r) ==
    /\ mpc = "idle"
    /\ stage[r] = "off"
    /\ MayRead
    /\ \E i \in Known :
          /\ mname' = table[i].name
          /\ mpc' = IF table[i].state = "IDLE" THEN "create" ELSE "force"
    /\ mrun' = r
    /\ UNCHANGED <<table, tx, mctx, active, runVars>>

HandleStart(r) ==
    /\ mpc = "idle"
    /\ stage[r] = "off"
    /\ MayRead
    /\ \E i \in Known :
          /\ active[table[i].name] = None
          /\ mname' = table[i].name
          /\ mpc' = IF table[i].state = "IDLE" THEN "create" ELSE "force"
    /\ mrun' = r
    /\ UNCHANGED <<table, tx, mctx, active, runVars>>

Rest ==
    /\ mpc' = "idle"
    /\ mname' = None
    /\ mrun' = None

\* MarkSessionIdle before the runner is made, and in the clean-up.
ReadToIdle ==
    /\ mpc \in {"force", "restore"}
    /\ \E i \in Called(mname) : Read(Manager, i, [state |-> "IDLE"])
    /\ mpc' = IF mpc = "force" THEN "forcing" ELSE "restoring"
    /\ UNCHANGED <<table, mctx, mname, mrun, active, runVars>>

Forced ==
    /\ mpc = "forcing"
    /\ Write(Manager)
    /\ mpc' = "create"
    /\ UNCHANGED <<mctx, mname, mrun, active, runVars>>

\* The last transaction of the clean-up, or one that failed: the task is over.
StartIsOver ==
    /\ \/ mpc \in {"force", "create", "restore"} /\ Called(mname) = {} /\ UNCHANGED <<table, tx>>
       \/ mpc = "forcing" /\ RollBack(Manager)
       \/ mpc = "restoring" /\ (Write(Manager) \/ RollBack(Manager))
    /\ Rest
    /\ UNCHANGED <<mctx, active, runVars>>

\* NewSessionRunner reads the record again; its driver runs what this copy says.
CreateRunner ==
    /\ mpc = "create"
    /\ MayRead
    /\ \E i \in Called(mname) :
          loaded' = [loaded EXCEPT ![mrun] = [id |-> i, name |-> mname,
                                              workspace |-> table[i].workspace]]
    /\ stage' = [stage EXCEPT ![mrun] = "start"]
    /\ mpc' = "start"
    /\ UNCHANGED <<table, tx, mctx, mname, mrun, active>>

StartSucceeds ==
    /\ mpc = "start"
    /\ stage[mrun] \in {"up", "markIdle", "idling", "dead"}
    /\ active' = [active EXCEPT ![mname] = mrun]
    /\ Rest
    /\ UNCHANGED <<table, tx, mctx, runVars>>

\* The clean-up stops the runner: its driver is torn down and its threads are waited for,
\* but only while the context lasts.  When that has ended, nobody waited for the worker
\* before and nobody does now: it is left wherever it is.
StartFails ==
    /\ mpc = "start"
    /\ \/ mctx /\ stage[mrun] = "failed" /\ stage' = [stage EXCEPT ![mrun] = "down"]
       \/ ~mctx /\ stage' = [stage EXCEPT ![mrun] = IF @ = "up" THEN "dead" ELSE @]
    /\ mpc' = "restore"
    /\ UNCHANGED <<table, tx, mctx, mname, mrun, active, loaded>>

-----------------------------------------------------------------------------
(* HandleStopSession, for a client or after the runner's report: the driver is      *)
(* stopped, or found stopped, and the row marked IDLE (again).                      *)

HandleStop(n) ==
    /\ mpc = "idle"
    /\ mctx
    /\ active[n] # None
    /\ stage[active[n]] \in {"up", "dead"}
    /\ stage' = [stage EXCEPT ![active[n]] = "markIdle"]
    /\ mpc' = "stop"
    /\ mname' = n
    /\ mrun' = active[n]
    /\ UNCHANGED <<table, tx, mctx, active, loaded>>

\* The context ends before the runner answers: the runner goes on, and stays active.
StopAborted ==
    /\ mpc = "stop"
    /\ ~mctx
    /\ Rest
    /\ UNCHANGED <<table, tx, mctx, active, runVars>>

\* Manager.Stop gave up on the bulk stop, which waits behind the task in hand, and ends
\* the context of the worker and of every runner.
CancelManager ==
    /\ "expire" \in Ops
    /\ mctx
    /\ mctx' = FALSE
    /\ UNCHANGED <<table, tx, mpc, mname, mrun, active, runVars>>

-----------------------------------------------------------------------------
(* The runner's worker.                                                             *)

To(r, s) == stage' = [stage EXCEPT ![r] = s]

\* r went through the clean-up of its start: it is not recorded, and its driver is down.
Discarded(r) == active[loaded[r].name] # r /\ (mrun = r => mpc \in {"restore", "restoring"})

StartDriver(r) ==
    /\ stage[r] = "start"
    /\ (mctx /\ To(r, "markReady")) \/ To(r, "failed")
    /\ UNCHANGED <<table, tx, managerVars, loaded>>

ReadToReady(r) ==
    /\ stage[r] = "markReady"
    /\ \E i \in Called(loaded[r].name) : Read(r, i, [state |-> "READY"])
    /\ To(r, "marking")
    /\ UNCHANGED <<table, managerVars, loaded>>

\* The session reached READY, if only on paper when the clean-up did not wait.
MarkReady(r) ==
    /\ stage[r] = "marking"
    /\ Write(r)
    /\ To(r, IF Discarded(r) THEN "dead" ELSE "up")
    /\ UNCHANGED <<managerVars, loaded>>

MarkReadyFails(r) ==
    /\ \/ stage[r] = "markReady" /\ Called(loaded[r].name) = {} /\ UNCHANGED <<table, tx>>
       \/ stage[r] = "marking" /\ RollBack(r)
    /\ To(r, "failed")
    /\ UNCHANGED <<managerVars, loaded>>

\* The command ends, by itself or with the clean-up; the runner stops its driver.
CommandEnds(r) ==
    /\ stage[r] = "up" \/ (stage[r] = "dead" /\ Discarded(r))
    /\ To(r, "markIdle")
    /\ UNCHANGED <<table, tx, managerVars, loaded>>

RunnerReadToIdle(r) ==
    /\ stage[r] = "markIdle"
    /\ \E i \in Called(loaded[r].name) : Read(r, i, [state |-> "IDLE"])
    /\ To(r, "idling")
    /\ UNCHANGED <<table, managerVars, loaded>>

Stopping(r) == mpc = "stop" /\ mrun = r

\* A bug to look for: the row is not marked IDLE.
MarkIdleOnlyInMemory(r) ==
    /\ stage[r] = "idling"
    /\ RollBack(r)
    /\ IF Stopping(r)
       THEN To(r, "down") /\ active' = [active EXCEPT ![mname] = None] /\ Rest
            /\ UNCHANGED mctx
       ELSE To(r, "dead") /\ UNCHANGED managerVars
    /\ UNCHANGED loaded

\* The row is IDLE; a manager that waits for it unloads the runner.
MarkIdle(r) ==
    /\ stage[r] = "idling"
    /\ Write(r)
    /\ IF Stopping(r)
       THEN To(r, "down") /\ active' = [active EXCEPT ![mname] = None] /\ Rest
            /\ UNCHANGED mctx
       ELSE To(r, "dead") /\ UNCHANGED managerVars
    /\ UNCHANGED loaded

\* A bug to look for: the manager forgets a runner that could not mark its row.
MarkIdleFailsForgotten(r) ==
    /\ \/ stage[r] = "markIdle" /\ Called(loaded[r].name) = {} /\ UNCHANGED <<table, tx>>
       \/ stage[r] = "idling" /\ RollBack(r)
    /\ To(r, "dead")
    /\ IF Stopping(r) THEN Rest /\ active' = [active EXCEPT ![mname] = None] /\ UNCHANGED mctx
       ELSE UNCHANGED managerVars
    /\ UNCHANGED loaded

\* The runner keeps a driver that is down, and stays active.
MarkIdleFails(r) ==
    /\ \/ stage[r] = "markIdle" /\ Called(loaded[r].name) = {} /\ UNCHANGED <<table, tx>>
       \/ stage[r] = "idling" /\ RollBack(r)
    /\ To(r, "dead")
    /\ IF Stopping(r) THEN Rest /\ UNCHANGED <<mctx, active>> ELSE UNCHANGED managerVars
    /\ UNCHANGED loaded

\* The worker that nobody waited for notices that its context has ended.
WorkerEnds(r) ==
    /\ stage[r] \in {"start", "failed", "dead"}
    /\ Discarded(r)
    /\ To(r, "down")
    /\ UNCHANGED <<table, tx, managerVars, loaded>>

-----------------------------------------------------------------------------
ClientStep(c) ==
    \/ DefineNewSession(c) \/ UpdateSessionCommand(c) \/ UpdateSessionDriver(c)
    \/ UpdateSessionWorkspaceName(c) \/ UpdateSessionName(c) \/ DeleteSession(c)
    \/ EndUpdate(c)

ManagerStep ==
    \/ \E r \in Runs : HandleStart(r)
    \/ ReadToIdle \/ Forced \/ StartIsOver \/ CreateRunner \/ StartSucceeds \/ StartFails
    \/ (\E n \in Names : HandleStop(n)) \/ StopAborted \/ CancelManager

RunnerStep(r) ==
    \/ StartDriver(r) \/ ReadToReady(r) \/ MarkReady(r) \/ MarkReadyFails(r)
    \/ CommandEnds(r) \/ RunnerReadToIdle(r) \/ MarkIdle(r) \/ MarkIdleFails(r)
    \/ WorkerEnds(r)

Next ==
    \/ ManagerStep
    \/ \E c \in Clients : ClientStep(c)
    \/ \E r \in Runs : RunnerStep(r)

Spec == Init /\ [][Next]_vars

-----------------------------------------------------------------------------
(* Properties.                                                                      *)

\* No two runners are attached to one session, by whatever names they were started: the
\* queues and buffers are named by the ID, activeRunners by the name.  The exception is a
\* clean-up after the end of the manager's context, which does not wait for the threads of
\* its runner: a start that was queued may make the next runner beside them, but neither
\* of the two has its driver up.
OneRunnerPerSession ==
    \A r, s \in Runs :
        Attached(r) /\ Attached(s) /\ loaded[r].id = loaded[s].id =>
            r = s \/ (~mctx /\ "up" \notin {stage[r], stage[s]})

\* Whatever is renamed, deleted or written in between: an attached runner is in the hands
\* of the manager or in activeRunners under the name it was started by.  Only when the
\* context has ended may the threads of a runner outlive its clean-up, and then its driver
\* is not up.
NoLostRunner ==
    \A r \in Runs :
        Attached(r) => active[loaded[r].name] = r \/ mrun = r \/ (~mctx /\ stage[r] # "up")

\* A READY record, "ready to accept input", has a runner of that very ID to accept it,
\* until the manager's context ends: a clean-up that fails after that leaves a READY record
\* behind, which the next start has to force IDLE.
ReadyIsServed ==
    mctx => \A i \in Known : table[i].state = "READY" =>
        \E r \in Runs : Attached(r) /\ loaded[r].id = i

\* Under a runner whose driver is up and marked so, the record stays: it is neither
\* deleted, nor IDLE, nor called something else, so that a stop by name finds the runner.
RunnerKeepsItsRecord ==
    \A r \in Runs : stage[r] = "up" =>
        LET i == loaded[r].id IN
        /\ table[i] # None
        /\ table[i].state = "READY"
        /\ table[i].name = loaded[r].name

\* A workspace belongs to a DOCKER session, whatever order driver and workspace were
\* changed in (models.validateSession checks single records only).
WorkspaceNeedsDocker ==
    \A i \in Ids : table[i] # None /\ table[i].workspace => table[i].driver = "DOCKER"

\* A DOCKER session whose record is READY with a workspace runs with that workspace mounted
\* ("a session that asked to run in a workspace and instead got a container with nothing
\* mounted would write into a scratch layer discarded on exit").  No run checks this: it is
\* false when the workspace is assigned after the runner has read the record (see README).
WorkspaceIsMounted ==
    \A r \in Runs : stage[r] = "up" /\ table[loaded[r].id].workspace => loaded[r].workspace

\* What a session runs changes only while its record is IDLE.
OnlyIdleChanges ==
    [][\A i \in Ids :
         table[i] # None /\ table'[i] # table[i] =>
            \/ table[i].state = "IDLE"
            \/ \A c \in {"driver", "workspace", "command"} : table'[i][c] = table[i][c]]_vars

=============================================================================
