---------------------------- MODULE ServiceLifecycle ----------------------------
(***************************************************************************)
(* The life of the process: main and the server (src/main.go,              *)
(* src/app/server.go) start the session manager, serve HTTP until a signal *)
(* or a failure of a listener, stop the manager, drain the HTTP servers    *)
(* and exit.  Manager.Start and Manager.Stop (src/session/manager.go) are  *)
(* taken step by step here, and the manager's interface is open to other   *)
(* callers than main: with Others = {} this is the program as it is built. *)
(*                                                                         *)
(* What the manager does between the two is SessionControl's matter; here  *)
(* a session is loaded, or none is, or a command was left behind because   *)
(* its driver could not be stopped.                                        *)
(***************************************************************************)
EXTENDS Naturals

CONSTANTS
    Main,      \* the thread that runs main
    Others,    \* other callers of the manager; each makes one call
    Starts,    \* the HTTP requests that start a session
    Streams,   \* the HTTP requests that tail a session's output
    Env        \* the events that an instance allows

\* The events: a transaction fails; a listener fails; a signal kills the process; a runner's
\* threads do not stop in time; a driver cannot be torn down.
Events == {"db", "listen", "forceQuit", "slow", "teardown"}

ASSUME ServiceAssumption ==
    /\ Main \notin Others
    /\ Starts \cap Streams = {}
    /\ Env \subseteq Events

Callers == {Main} \cup Others
Requests == Starts \cup Streams
Servers == {"api", "metrics"}

VARIABLES
    life,     \* the manager's lifecycle: NEW, RUNNING, STOPPED
    allow,    \* allowNewStarts
    mctx,     \* the manager's working context
    worker,   \* the manager's worker: off, run, done
    sweep,    \* the bulk stop: none, queued, done, failed
    stale,    \* the database holds READY rows of an earlier process
    runs,     \* the sessions: none, loaded (one has a runner), left (a command without one)
    pc,       \* pc[c]: where caller c is in Start or Stop; main goes on from there
    late,     \* late[c]: the context c passed to Stop has ended
    failed,   \* failed[c]: an error that Stop will return
    srv,      \* srv[s]: the thread of server s: off, listen, closed, failed, done
    errs,     \* the errors in the channel serverErrors
    req,      \* req[q]: off, active, done
    exit,     \* the process: no, ok, err, killed
    tore,     \* history: the caller whose Stop did the tear-down, or {}
    crossed   \* history: the Stops that a Start overtook between their compare-and-swaps

manager == <<life, allow, mctx, worker, sweep, stale, runs>>
server == <<srv, errs, req, exit>>
vars == <<manager, pc, late, failed, server, tore, crossed>>

StartPC == {"reset", "rollback", "loop", "admit"}
StopPC == {"stop", "second", "sweep", "await", "cancel", "join"}

\* A bug to look for: room for one error only.
OneErrorCap == 1

\* The buffer of serverErrors.
ErrorsCap == 2

ServiceTypeOK ==
    /\ life \in {"NEW", "RUNNING", "STOPPED"}
    /\ allow \in BOOLEAN /\ mctx \in BOOLEAN /\ stale \in BOOLEAN
    /\ runs \in {"none", "loaded", "left"}
    /\ worker \in {"off", "run", "done"}
    /\ sweep \in {"none", "queued", "done", "failed"}
    /\ pc \in [Callers -> StartPC \cup StopPC \cup {"off", "started", "notStarted", "select",
                                                    "stopped", "drain", "threads"}]
    /\ late \in [Callers -> BOOLEAN]
    /\ failed \in [Callers -> BOOLEAN]
    /\ srv \in [Servers -> {"off", "listen", "closed", "failed", "done"}]
    /\ errs \in Nat
    /\ req \in [Requests -> {"off", "active", "done"}]
    /\ exit \in {"no", "ok", "err", "killed"}
    /\ tore \subseteq Callers
    /\ crossed \subseteq Callers

Init ==
    /\ life = "NEW" /\ allow = FALSE /\ mctx = TRUE /\ worker = "off" /\ sweep = "none"
    /\ stale = TRUE /\ runs = "none"
    /\ pc = [c \in Callers |-> "off"]
    /\ late = [c \in Callers |-> FALSE]
    /\ failed = [c \in Callers |-> FALSE]
    /\ srv = [s \in Servers |-> "off"]
    /\ errs = 0
    /\ req = [q \in Requests |-> "off"]
    /\ exit = "no"
    /\ tore = {}
    /\ crossed = {}

Go(c, l) == pc' = [pc EXCEPT ![c] = l]

\* The Stops that found no manager running and will try the second compare-and-swap.
Between == {c \in Callers : pc[c] = "second"}

-----------------------------------------------------------------------------
(* Manager.Start.                                                                   *)

StartCAS(c) ==
    /\ pc[c] = "off"
    /\ IF life = "NEW"
       THEN life' = "RUNNING" /\ Go(c, "reset") /\ crossed' = crossed \cup Between
       ELSE Go(c, "notStarted") /\ UNCHANGED <<life, crossed>>
    /\ UNCHANGED <<allow, mctx, worker, sweep, stale, runs, late, failed, server, tore>>

ResetRows(c) ==
    /\ pc[c] = "reset"
    /\ stale' = FALSE
    /\ Go(c, "loop")
    /\ UNCHANGED <<life, allow, mctx, worker, sweep, runs, late, failed, server, tore, crossed>>

ResetRowsFails(c) ==
    /\ "db" \in Env
    /\ pc[c] = "reset"
    /\ Go(c, "rollback")
    /\ UNCHANGED <<manager, late, failed, server, tore, crossed>>

\* A bug to look for: the rollback is a store.
RollbackByStore(c) ==
    /\ pc[c] = "rollback"
    /\ life' = "NEW"
    /\ Go(c, "notStarted")
    /\ UNCHANGED <<allow, mctx, worker, sweep, stale, runs, late, failed, server, tore, crossed>>

\* So that the start can be tried again, unless a Stop has come in between.
Rollback(c) ==
    /\ pc[c] = "rollback"
    /\ life' = IF life = "RUNNING" THEN "NEW" ELSE life
    /\ Go(c, "notStarted")
    /\ UNCHANGED <<allow, mctx, worker, sweep, stale, runs, late, failed, server, tore, crossed>>

StartEventLoop(c) ==
    /\ pc[c] = "loop"
    /\ worker' = "run"
    /\ Go(c, "admit")
    /\ UNCHANGED <<life, allow, mctx, sweep, stale, runs, late, failed, server, tore, crossed>>

AllowNewStarts(c) ==
    /\ pc[c] = "admit"
    /\ allow' = TRUE
    /\ Go(c, "started")
    /\ UNCHANGED <<life, mctx, worker, sweep, stale, runs, late, failed, server, tore, crossed>>

-----------------------------------------------------------------------------
(* Manager.Stop.  Only the call that leaves RUNNING tears down; the others return   *)
(* at once.                                                                         *)

CallStop(c) ==
    /\ c # Main
    /\ pc[c] = "off"
    /\ Go(c, "stop")
    /\ UNCHANGED <<manager, late, failed, server, tore, crossed>>

StopCAS(c) ==
    /\ pc[c] = "stop"
    /\ IF life = "RUNNING"
       THEN life' = "STOPPED" /\ tore' = tore \cup {c} /\ Go(c, "sweep")
       ELSE Go(c, "second") /\ UNCHANGED <<life, tore>>
    /\ UNCHANGED <<allow, mctx, worker, sweep, stale, runs, late, failed, server, crossed>>

\* A bug to look for: a manager that never started is left NEW.
NoSecondCAS(c) ==
    /\ pc[c] = "second"
    /\ Go(c, "stopped")
    /\ UNCHANGED <<manager, late, failed, server, tore, crossed>>

SecondCAS(c) ==
    /\ pc[c] = "second"
    /\ life' = IF life = "NEW" THEN "STOPPED" ELSE life
    /\ Go(c, "stopped")
    /\ UNCHANGED <<allow, mctx, worker, sweep, stale, runs, late, failed, server, tore, crossed>>

\* StopAllSessions, blocking.
SubmitSweep(c) ==
    /\ pc[c] = "sweep"
    /\ sweep' = "queued"
    /\ Go(c, "await")
    /\ UNCHANGED <<life, allow, mctx, worker, stale, runs, late, failed, server, tore, crossed>>

\* An error is logged and kept; the tear-down goes on.
Swept(c) ==
    /\ pc[c] = "await"
    /\ sweep \in {"done", "failed"}
    /\ failed' = [failed EXCEPT ![c] = (sweep = "failed")]
    /\ Go(c, "cancel")
    /\ UNCHANGED <<manager, late, server, tore, crossed>>

SweepExpires(c) ==
    /\ pc[c] = "await"
    /\ late[c]
    /\ failed' = [failed EXCEPT ![c] = TRUE]
    /\ Go(c, "cancel")
    /\ UNCHANGED <<manager, late, server, tore, crossed>>

CancelManager(c) ==
    /\ pc[c] = "cancel"
    /\ mctx' = FALSE
    /\ Go(c, "join")
    /\ UNCHANGED <<life, allow, worker, sweep, stale, runs, late, failed, server, tore, crossed>>

\* The wait is for the threads that have started.
Joined(c) ==
    /\ pc[c] = "join"
    /\ worker # "run"
    /\ Go(c, "stopped")
    /\ UNCHANGED <<manager, late, failed, server, tore, crossed>>

JoinExpires(c) ==
    /\ pc[c] = "join"
    /\ late[c]
    /\ worker = "run"
    /\ failed' = [failed EXCEPT ![c] = TRUE]
    /\ Go(c, "stopped")
    /\ UNCHANGED <<manager, late, server, tore, crossed>>

\* Main's context also bounds what follows: 15 seconds for the whole of server.Stop.
ContextExpires(c) ==
    /\ pc[c] \in StopPC \cup {"drain", "threads"}
    /\ ~late[c]
    /\ late' = [late EXCEPT ![c] = TRUE]
    /\ UNCHANGED <<manager, pc, failed, server, tore, crossed>>

-----------------------------------------------------------------------------
(* The manager's worker.                                                            *)

\* Every runner is told to stop and forgotten.  That its threads did not stop in time, or
\* that nobody waited for them because the context has ended, is an error; that its driver
\* could not be torn down is logged only.
WorkerSweeps ==
    /\ worker = "run"
    /\ sweep = "queued"
    /\ \/ sweep' = "done"
       \/ runs = "loaded" /\ ("slow" \in Env \/ ~mctx) /\ sweep' = "failed"
    /\ allow' = FALSE
    /\ \/ runs' = "none"
       \/ runs = "loaded" /\ "teardown" \in Env /\ runs' = "left"
    /\ UNCHANGED <<life, mctx, worker, stale, pc, late, failed, server, tore, crossed>>

WorkerEnds ==
    /\ worker = "run"
    /\ ~mctx
    /\ worker' = "done"
    /\ UNCHANGED <<life, allow, mctx, sweep, stale, runs, pc, late, failed, server, tore, crossed>>

-----------------------------------------------------------------------------
(* The HTTP servers.                                                                *)

Accept(q) ==
    /\ srv["api"] = "listen"
    /\ req[q] = "off"
    /\ req' = [req EXCEPT ![q] = "active"]
    /\ UNCHANGED <<manager, pc, late, failed, srv, errs, exit, tore, crossed>>

\* The worker takes the start, and refuses it when it may not.
StartSession(q) ==
    /\ q \in Starts
    /\ req[q] = "active"
    /\ worker = "run"
    /\ runs' = IF allow THEN "loaded" ELSE runs
    /\ req' = [req EXCEPT ![q] = "done"]
    /\ UNCHANGED <<life, allow, mctx, worker, sweep, stale, pc, late, failed, srv, errs, exit,
                   tore, crossed>>

\* The worker is gone or going; or the client ends its stream, which nothing else does.
RequestEnds(q) ==
    /\ req[q] = "active"
    /\ q \in Streams \/ ~mctx
    /\ req' = [req EXCEPT ![q] = "done"]
    /\ UNCHANGED <<manager, pc, late, failed, srv, errs, exit, tore, crossed>>

ListenFails(s) ==
    /\ "listen" \in Env
    /\ srv[s] = "listen"
    /\ srv' = [srv EXCEPT ![s] = "failed"]
    /\ UNCHANGED <<manager, pc, late, failed, errs, req, exit, tore, crossed>>

SendError(s) ==
    /\ srv[s] = "failed"
    /\ errs < ErrorsCap
    /\ errs' = errs + 1
    /\ srv' = [srv EXCEPT ![s] = "done"]
    /\ UNCHANGED <<manager, pc, late, failed, req, exit, tore, crossed>>

\* ListenAndServe returns ErrServerClosed.
ListenerEnds(s) ==
    /\ srv[s] = "closed"
    /\ srv' = [srv EXCEPT ![s] = "done"]
    /\ UNCHANGED <<manager, pc, late, failed, errs, req, exit, tore, crossed>>

-----------------------------------------------------------------------------
(* main: server.Start, the wait for a reason to stop, server.Stop.                  *)

Exit(code) ==
    /\ exit' = code
    /\ UNCHANGED <<manager, pc, late, failed, srv, errs, req, tore, crossed>>

NotStarted ==
    /\ pc[Main] = "notStarted"
    /\ Exit("err")

Serve ==
    /\ pc[Main] = "started"
    /\ srv' = [s \in Servers |-> "listen"]
    /\ Go(Main, "select")
    /\ UNCHANGED <<manager, late, failed, errs, req, exit, tore, crossed>>

\* A signal, or a server's error.
ReasonToStop ==
    /\ pc[Main] = "select"
    /\ errs' = errs \/ (errs > 0 /\ errs' = errs - 1)
    /\ Go(Main, "stop")
    /\ UNCHANGED <<manager, late, failed, srv, req, exit, tore, crossed>>

\* A manager that did not stop: the HTTP servers are left as they are.
ManagerNotStopped ==
    /\ pc[Main] = "stopped"
    /\ failed[Main]
    /\ Exit("err")

Closes(s) == srv' = [srv EXCEPT ![s] = IF @ = "listen" THEN "closed" ELSE @]

\* mainServer.Shutdown: first its listener, then the requests.
CloseListener ==
    /\ pc[Main] = "stopped"
    /\ ~failed[Main]
    /\ Closes("api")
    /\ Go(Main, "drain")
    /\ UNCHANGED <<manager, late, failed, errs, req, exit, tore, crossed>>

\* A bug to look for: requests that are under way are not waited for.
DrainNothing ==
    /\ pc[Main] = "drain"
    /\ Closes("metrics")
    /\ Go(Main, "threads")
    /\ UNCHANGED <<manager, late, failed, errs, req, exit, tore, crossed>>

\* Next is metricsServer.Shutdown; nobody's request holds it up.
Drained ==
    /\ pc[Main] = "drain"
    /\ \A q \in Requests : req[q] # "active"
    /\ Closes("metrics")
    /\ Go(Main, "threads")
    /\ UNCHANGED <<manager, late, failed, errs, req, exit, tore, crossed>>

\* A bug to look for: Shutdown is given a context that does not end.
DrainForEver == FALSE

DrainExpires ==
    /\ pc[Main] = "drain"
    /\ \E q \in Requests : req[q] = "active"
    /\ late[Main]
    /\ Exit("err")

ThreadsJoined ==
    /\ pc[Main] = "threads"
    /\ \A s \in Servers : srv[s] = "done"
    /\ Exit("ok")

ThreadsExpire ==
    /\ pc[Main] = "threads"
    /\ \E s \in Servers : srv[s] # "done"
    /\ late[Main]
    /\ Exit("err")

\* Before main waits for a signal, and after the first one, it has its default effect.
ForceQuit ==
    /\ "forceQuit" \in Env
    /\ pc[Main] # "select"
    /\ Exit("killed")

-----------------------------------------------------------------------------
StartStep(c) ==
    StartCAS(c) \/ ResetRows(c) \/ ResetRowsFails(c) \/ Rollback(c) \/ StartEventLoop(c)
    \/ AllowNewStarts(c)

StopStep(c) ==
    StopCAS(c) \/ SecondCAS(c) \/ SubmitSweep(c) \/ Swept(c) \/ SweepExpires(c)
    \/ CancelManager(c) \/ Joined(c) \/ JoinExpires(c)

MainStep ==
    \/ NotStarted \/ Serve \/ ManagerNotStopped \/ CloseListener \/ Drained \/ DrainExpires
    \/ ThreadsJoined \/ ThreadsExpire

Next ==
    /\ exit = "no"
    /\ \/ \E c \in Callers : StartStep(c) \/ CallStop(c) \/ StopStep(c) \/ ContextExpires(c)
       \/ WorkerSweeps \/ WorkerEnds
       \/ \E q \in Requests : Accept(q) \/ StartSession(q) \/ RequestEnds(q)
       \/ \E s \in Servers : ListenFails(s) \/ SendError(s) \/ ListenerEnds(s)
       \/ ReasonToStop \/ MainStep \/ ForceQuit

\* Threads run and contexts expire.  No client has to end its stream, nobody has to send
\* a signal.
Fairness ==
    /\ WF_vars(exit = "no" /\ (StopStep(Main) \/ MainStep))
    /\ WF_vars(exit = "no" /\ ContextExpires(Main))

Spec == Init /\ [][Next]_vars

FairSpec == Spec /\ Fairness

-----------------------------------------------------------------------------
(* Properties.                                                                      *)

\* STOPPED is final, also when the rollback of a failed Start comes after the Stop.
StoppedIsTerminal == [][life = "STOPPED" => life' = "STOPPED"]_vars

\* "Once Stop has been called no future Start can succeed": a Stop comes back from a
\* manager that is STOPPED, unless a Start overtook it between its compare-and-swaps.
\* (Without the exception this is false: see README.)
StopIsFinal ==
    \A c \in Callers : pc[c] = "stopped" => life = "STOPPED" \/ c \in crossed

\* An exit with success comes after a bulk stop that had no error to report, and leaves no
\* loaded session, no worker that could load one, no listener, and no request that was cut
\* off.  It may leave a command whose driver could not be torn down: nobody reports that
\* (see the docker_orphan run).  (A second caller's Stop comes back while the first one's
\* tear-down goes on, hence the condition.)
CleanExit ==
    exit = "ok" /\ tore \subseteq {Main} =>
        /\ sweep = "done"
        /\ runs # "loaded"
        /\ worker # "run"
        /\ \A s \in Servers : srv[s] = "done"
        /\ \A q \in Requests : req[q] # "active"

\* A server that fails can always say so: its thread is never blocked on the channel.
SendsNeverBlock == \A s \in Servers : srv[s] = "failed" => errs < ErrorsCap

\* Once main has begun to stop, the process exits, whatever clients do.
StopEndsInExit == pc[Main] = "stop" ~> exit # "no"

=============================================================================
