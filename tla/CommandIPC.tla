------------------------------- MODULE CommandIPC ------------------------------
(***************************************************************************)
(* Commands from a client to a session: the requester's side               *)
(* (src/api/session_io_core.go) pushes a request on the session's Redis    *)
(* queue and waits for a reply on a queue named after the request; the     *)
(* runner's IPC thread (src/session/runner.go) takes requests one by one,  *)
(* has the runner's worker write them to the input buffer, and replies;    *)
(* the driver copies the buffer to the command.  The queues and the buffer *)
(* are named after the session and outlive its runs.  The buffer is a ring *)
(* that overwrites the oldest bytes when it is full.                       *)
(*                                                                         *)
(* How a run comes to start and stop is module SessionManager's subject:   *)
(* here the manager may start a run when none is left, ask for a stop, and *)
(* end the runner's context, at any time.                                  *)
(***************************************************************************)
EXTENDS StdinCommands

CONSTANTS
    Requests,   \* the requests; each has a queue for its reply
    CommandsOf, \* the list of input commands that each asks for
    Unchecked,  \* those whose list nobody validates before it is pushed (MCP); one that is not
                \* valid stands for every message that does not parse
    MaxRuns,    \* bound: number of runs of the session
    Commanded,  \* the runs in COMMANDED mode; the others are BY_PASSED
    InputCap,   \* the capacity of the input buffer
    None        \* no request

ASSUME IPCAssumption ==
    /\ MaxRuns \in Nat
    /\ InputCap \in Nat
    /\ Commanded \subseteq 1..MaxRuns
    /\ CommandsOf \in [Requests -> Seq(SessionInputCommand)]
    /\ Unchecked \subseteq Requests
    /\ Requests \cap {"start", "stop", None} = {}

VARIABLES
    client,   \* client[q]: the requester
    pushed,   \* history: the requests in the order they were pushed
    queue,    \* the session's IPC queue
    reply,    \* reply[q]: what the queue for the reply to q holds
    row,      \* the session's state column
    run,      \* the number of the latest run
    ctx,      \* its runner's context is live
    cached,   \* the state in the runner's copy of the record
    tasks,    \* the tasks queued at the runner's worker: "start", "stop" or a request
    worker,   \* the worker runs
    ipc,      \* where the IPC thread is
    hand,     \* the request it handles
    result,   \* the result of that request's task
    pipe,     \* the driver copies the input buffer to the command
    buffer,   \* the input buffer: the bytes that were written and not copied
    typed,    \* history: the bytes that this run's command was given
    lost,     \* history: bytes of this run were overwritten before they were copied
    wrote,    \* history: the requests in the order they were written
    mark      \* history: how many of them there were when this run's driver started

clientVars == <<client, pushed>>
threadVars == <<ipc, hand, result>>
inputVars == <<buffer, typed, lost, wrote, mark>>
workVars == <<row, cached, tasks, worker, pipe, inputVars>>
vars == <<clientVars, queue, reply, run, ctx, threadVars, workVars>>

\* Where the requests and the threads are ...
FlowTypeOK ==
    /\ client \in [Requests -> {"new", "checked", "waiting", "ok", "refused", "failed"}]
    /\ pushed \in Seq(Requests)
    /\ queue \in Seq(Requests)
    /\ reply \in [Requests -> {"none", "ok", "err"}]
    /\ row \in {"IDLE", "READY"}
    /\ run \in 0..MaxRuns
    /\ ctx \in BOOLEAN
    /\ cached \in {"IDLE", "READY"}
    /\ tasks \in Seq({"start", "stop"} \cup Requests)
    /\ worker \in BOOLEAN
    /\ ipc \in {"off", "poll", "submit", "await", "reply"}
    /\ hand \in Requests \cup {None}
    /\ result \in {"none", "ok", "err"}
    /\ pipe \in BOOLEAN
    /\ lost \in BOOLEAN
    /\ wrote \in Seq(Requests)
    /\ mark \in 0..Len(wrote)

\* ... and the bytes.
IPCTypeOK ==
    /\ FlowTypeOK
    /\ buffer \in Seq(Bytes) /\ Len(buffer) <= InputCap
    /\ typed \in Seq(Bytes)

Init ==
    /\ client = [q \in Requests |-> "new"]
    /\ pushed = <<>>
    /\ queue = <<>>
    /\ reply = [q \in Requests |-> "none"]
    /\ row = "IDLE"
    /\ run = 0
    /\ ctx = FALSE
    /\ cached = "IDLE"
    /\ tasks = <<>>
    /\ worker = FALSE
    /\ ipc = "off"
    /\ hand = None
    /\ result = "none"
    /\ pipe = FALSE
    /\ buffer = <<>>
    /\ typed = <<>>
    /\ lost = FALSE
    /\ wrote = <<>>
    /\ mark = 0

-----------------------------------------------------------------------------
(* The requester: SubmitUserCommandToSession.                                       *)

Becomes(q, s) == client' = [client EXCEPT ![q] = s]

Parses(q) == CommandsOf[q] # <<>> /\ AllValid(CommandsOf[q])

\* The REST handler validates the list; the session has to be READY when its record is
\* read.
CheckReady(q) ==
    /\ client[q] = "new"
    /\ Becomes(q, IF row = "READY" /\ (q \in Unchecked \/ Parses(q)) THEN "checked"
                  ELSE "failed")
    /\ UNCHANGED <<pushed, queue, reply, run, ctx, threadVars, workVars>>

\* A bug to look for: the request is pushed at the end it is read from.
PushLeft(q) ==
    /\ client[q] = "checked"
    /\ queue' = <<q>> \o queue
    /\ pushed' = Append(pushed, q)
    /\ Becomes(q, "waiting")
    /\ UNCHANGED <<reply, run, ctx, threadVars, workVars>>

PushRight(q) ==
    /\ client[q] = "checked"
    /\ queue' = Append(queue, q)
    /\ pushed' = Append(pushed, q)
    /\ Becomes(q, "waiting")
    /\ UNCHANGED <<reply, run, ctx, threadVars, workVars>>

\* The reply's queue is deleted with the reply in it.
ReceiveReply(q) ==
    /\ client[q] = "waiting"
    /\ reply[q] # "none"
    /\ Becomes(q, IF reply[q] = "ok" THEN "ok" ELSE "refused")
    /\ reply' = [reply EXCEPT ![q] = "none"]
    /\ UNCHANGED <<pushed, queue, run, ctx, threadVars, workVars>>

\* Its context ends, or 60 seconds are over; the request stays where it is.
GiveUp(q) ==
    /\ client[q] = "waiting"
    /\ Becomes(q, "failed")
    /\ reply' = [reply EXCEPT ![q] = "none"]
    /\ UNCHANGED <<pushed, queue, run, ctx, threadVars, workVars>>

\* A reply that nobody takes lives for 60 seconds.
ReplyExpires(q) ==
    /\ reply[q] # "none"
    /\ client[q] # "waiting"
    /\ reply' = [reply EXCEPT ![q] = "none"]
    /\ UNCHANGED <<clientVars, queue, run, ctx, threadVars, workVars>>

-----------------------------------------------------------------------------
(* The session manager, as far as it concerns the runner.                           *)

\* Runner.Start and Runner.StartSession, once nothing of the last run is left.  The
\* manager has forced the row IDLE before.
StartRun ==
    /\ run < MaxRuns
    /\ ~ctx /\ ~worker /\ ipc = "off"
    /\ run' = run + 1
    /\ ctx' = TRUE
    /\ row' = "IDLE"
    /\ cached' = "IDLE"
    /\ tasks' = <<"start">>
    /\ worker' = TRUE
    /\ ipc' = "poll"
    /\ UNCHANGED <<clientVars, queue, reply, hand, result, pipe, inputVars>>

\* For a client, or because the command ended and the driver's daemon said so.  (Bound:
\* one stop is queued at a time.)
RequestStop ==
    /\ ctx
    /\ \A i \in DOMAIN tasks : tasks[i] # "stop"
    /\ tasks' = Append(tasks, "stop")
    /\ pipe' \in {pipe, FALSE}
    /\ UNCHANGED <<clientVars, queue, reply, run, ctx, threadVars, row, cached, worker,
                   inputVars>>

\* Runner.Stop: after a stop, after a start that failed, or in the bulk stop, which
\* leaves the row as it is.
CancelRun ==
    /\ ctx
    /\ ctx' = FALSE
    /\ pipe' = FALSE
    /\ UNCHANGED <<clientVars, queue, reply, run, threadVars, row, cached, tasks, worker,
                   inputVars>>

-----------------------------------------------------------------------------
(* The runner's worker.  After the end of its context it may still take tasks.      *)

Take(task) ==
    /\ worker
    /\ tasks # <<>>
    /\ Head(tasks) = task
    /\ tasks' = Tail(tasks)

\* History: what the command is given is counted from here.
StartsTyping ==
    /\ typed' = <<>>
    /\ lost' = FALSE
    /\ mark' = Len(wrote)
    /\ UNCHANGED wrote

\* A bug to look for: the input buffer of the last run is kept.
StartDriverOnOldBuffer ==
    /\ Take("start")
    /\ ctx
    /\ StartsTyping
    /\ pipe' = TRUE
    /\ row' = "READY"
    /\ cached' = "READY"
    /\ UNCHANGED <<clientVars, queue, reply, run, ctx, threadVars, worker, buffer>>

\* HandleStartSession: driver.Start deletes the input buffer and makes a new one.
StartDriver ==
    /\ Take("start")
    /\ ctx
    /\ buffer' = <<>>
    /\ StartsTyping
    /\ pipe' = TRUE
    /\ row' = "READY"
    /\ cached' = "READY"
    /\ UNCHANGED <<clientVars, queue, reply, run, ctx, threadVars, worker>>

StartDriverFails ==
    /\ Take("start")
    /\ UNCHANGED <<clientVars, queue, reply, run, ctx, threadVars, row, cached, worker,
                   pipe, inputVars>>

StopDriver ==
    /\ Take("stop")
    /\ pipe' = FALSE
    /\ row' = "IDLE"
    /\ cached' = "IDLE"
    /\ UNCHANGED <<clientVars, queue, reply, run, ctx, threadVars, worker, inputVars>>

\* SubmitCommands' completion, if the IPC thread still waits for it.
Report(q, r) == result' = IF ipc = "await" /\ hand = q THEN r ELSE result

\* A bug to look for: one byte more than the buffer holds is kept.
NewestButOne(s) == SubSeq(s, IF Len(s) > InputCap THEN Len(s) - InputCap ELSE 1, Len(s))

\* The newest InputCap elements of s.
Newest(s) == SubSeq(s, IF Len(s) > InputCap THEN Len(s) - InputCap + 1 ELSE 1, Len(s))

\* HandleSubmitCommands: one Write of the whole list.
WriteCommands(q) ==
    /\ Take(q)
    /\ run \in Commanded
    /\ cached = "READY"
    /\ AllValid(CommandsOf[q])
    /\ LET all == buffer \o BuildStdinInput(CommandsOf[q]) IN
          /\ buffer' = Newest(all)
          /\ lost' = (lost \/ Len(all) > InputCap)
    /\ wrote' = Append(wrote, q)
    /\ Report(q, "ok")
    /\ UNCHANGED <<clientVars, queue, reply, run, ctx, ipc, hand, row, cached, worker, pipe,
                   typed, mark>>

\* The wrong mode or state, commands that cannot be serialised, or a buffer that cannot
\* be written.
RefuseCommands(q) ==
    /\ Take(q)
    /\ Report(q, "err")
    /\ UNCHANGED <<clientVars, queue, reply, run, ctx, ipc, hand, row, cached, worker, pipe,
                   inputVars>>

WorkerEnds ==
    /\ worker
    /\ ~ctx
    /\ worker' = FALSE
    /\ tasks' = <<>>
    /\ UNCHANGED <<clientVars, queue, reply, run, ctx, threadVars, row, cached, pipe,
                   inputVars>>

\* The driver's input daemon; a read takes all there is.
CopyInput ==
    /\ pipe
    /\ buffer # <<>>
    /\ buffer' = <<>>
    /\ typed' = typed \o buffer
    /\ UNCHANGED <<clientVars, queue, reply, run, ctx, threadVars, row, cached, tasks,
                   worker, pipe, lost, wrote, mark>>

-----------------------------------------------------------------------------
(* The IPC thread: processIPCRequests and HandleIPCRequestMessage.                  *)

\* The loop looks at the context before it reads; the context may end during the read.
ReadOn == ipc' = IF ctx THEN "poll" ELSE "off"

PopRequest ==
    /\ ipc = "poll"
    /\ queue # <<>>
    /\ Parses(Head(queue))
    /\ hand' = Head(queue)
    /\ queue' = Tail(queue)
    /\ ipc' = "submit"
    /\ result' = "none"
    /\ UNCHANGED <<clientVars, reply, run, ctx, workVars>>

\* A bug to look for: a message that does not parse ends the thread.
StopAtMalformed ==
    /\ ipc = "poll"
    /\ queue # <<>>
    /\ ~Parses(Head(queue))
    /\ queue' = Tail(queue)
    /\ ipc' = "off"
    /\ UNCHANGED <<clientVars, reply, run, ctx, hand, result, workVars>>

\* A message that does not parse, a request with a list that is not valid included, is
\* logged and dropped; nobody replies.
SkipMalformed ==
    /\ ipc = "poll"
    /\ queue # <<>>
    /\ ~Parses(Head(queue))
    /\ queue' = Tail(queue)
    /\ ReadOn
    /\ UNCHANGED <<clientVars, reply, run, ctx, hand, result, workVars>>

\* SubmitCommands; submitting may fail once the context has ended.
SubmitCommands ==
    /\ ipc = "submit"
    /\ \/ tasks' = Append(tasks, hand) /\ ipc' = "await" /\ UNCHANGED result
       \/ ~ctx /\ ipc' = "reply" /\ result' = "err" /\ UNCHANGED tasks
    /\ UNCHANGED <<clientVars, queue, reply, run, ctx, hand, row, cached, worker, pipe,
                   inputVars>>

\* A bug to look for: the end of the context does not end the wait.
AwaitResultOnly ==
    /\ ipc = "await"
    /\ result # "none"
    /\ ipc' = "reply"
    /\ UNCHANGED <<clientVars, queue, reply, run, ctx, hand, result, workVars>>

\* The worker's completion, or the end of the context.
AwaitResult ==
    /\ ipc = "await"
    /\ \/ result # "none" /\ UNCHANGED result
       \/ ~ctx /\ result' = "err"
    /\ ipc' = "reply"
    /\ UNCHANGED <<clientVars, queue, reply, run, ctx, hand, workVars>>

\* A bug to look for: the reply is sent on a context of its own.
SendReplyAnyway ==
    /\ ipc = "reply"
    /\ reply' = [reply EXCEPT ![hand] = result]
    /\ ReadOn
    /\ hand' = None
    /\ result' = "none"
    /\ UNCHANGED <<clientVars, queue, run, ctx, workVars>>

\* returnResp, on the runner's context.  A requester that has gone meanwhile gets its
\* queue back.
SendReply ==
    /\ ipc = "reply"
    /\ reply' = IF ctx THEN [reply EXCEPT ![hand] = result] ELSE reply
    /\ ReadOn
    /\ hand' = None
    /\ result' = "none"
    /\ UNCHANGED <<clientVars, queue, run, ctx, workVars>>

\* The read fails, for the end of its context.
EndThread ==
    /\ ipc = "poll"
    /\ ~ctx
    /\ ipc' = "off"
    /\ UNCHANGED <<clientVars, queue, reply, run, ctx, hand, result, workVars>>

-----------------------------------------------------------------------------
RequesterStep(q) ==
    CheckReady(q) \/ PushRight(q) \/ ReceiveReply(q) \/ GiveUp(q) \/ ReplyExpires(q)

WorkerStep ==
    \/ StartDriver \/ StartDriverFails \/ StopDriver \/ WorkerEnds
    \/ \E q \in Requests : WriteCommands(q) \/ RefuseCommands(q)

ThreadStep ==
    PopRequest \/ SkipMalformed \/ SubmitCommands \/ AwaitResult \/ SendReply \/ EndThread

Next ==
    \/ StartRun \/ RequestStop \/ CancelRun \/ CopyInput
    \/ WorkerStep \/ ThreadStep
    \/ \E q \in Requests : RequesterStep(q)

Spec == Init /\ [][Next]_vars

\* The worker and the IPC thread are goroutines: they run while they can.
Fairness == WF_vars(WorkerStep) /\ WF_vars(ThreadStep)

FairSpec == Spec /\ Fairness

-----------------------------------------------------------------------------
(* Properties.                                                                      *)

Written(q) == Contains(wrote, q)

\* An acknowledged request has been written to the input buffer, and one that was refused
\* will never be: also when the runner is stopped while it is being handled.
ReplyIsTrue ==
    /\ \A q \in Requests : client[q] = "ok" => Written(q)
    /\ \A q \in Requests : client[q] = "refused" => ~Written(q) /\ ~Contains(tasks, q)

\* Commands are written in the order in which their requests were pushed, none twice,
\* also across runs and whatever the requesters do.
WrittenInOrder ==
    \A i, j \in DOMAIN wrote : i < j =>
        \E a, b \in DOMAIN pushed : a < b /\ pushed[a] = wrote[i] /\ pushed[b] = wrote[j]

\* What the documentation of the commands says that one types: the k-th letter of the
\* alphabet, of either case, is the control code k.
Keystrokes(c) ==
    IF c.type = "ENTER" THEN <<13>>
    ELSE IF c.type = "CTRL"
    THEN <<CHOOSE k \in 1..26 : c.content[1] \in {64 + k, 96 + k}>>
    ELSE c.content

\* The keystrokes of the requests that were written since this run's driver started.
Asked ==
    LET lists == [i \in 1..Len(wrote) - mark |-> CommandsOf[wrote[mark + i]]]
        keys(cmds) == FlattenSeq([i \in DOMAIN cmds |-> Keystrokes(cmds[i])])
    IN FlattenSeq([i \in DOMAIN lists |-> keys(lists[i])])

\* s is t without some of its elements: f says which one of t each one of s is.
IsThinned(s, t) ==
    \E f \in [DOMAIN s -> DOMAIN t] :
        /\ \A i, j \in DOMAIN s : i < j => f[i] < f[j]
        /\ \A i \in DOMAIN s : s[i] = t[f[i]]

\* A run's command is given the keystrokes that were asked for since it started, in their
\* order, nothing of an earlier run and nothing of a list that is refused; what an overflow
\* of the input buffer drops, although it was acknowledged, is the only thing missing.
TypedAsAsked ==
    pipe =>
        /\ IF lost THEN IsThinned(typed \o buffer, Asked) ELSE typed \o buffer = Asked
        /\ IsSuffix(buffer, Asked)

\* After Runner.Stop's cancel both threads end, wherever they were, so that its wait does.
ThreadsEnd == ~ctx ~> ctx \/ (ipc = "off" /\ ~worker)

\* While a run's context lives, every request on the queue is taken, whatever was in front.
RequestsAreTaken ==
    \A q \in Requests : Contains(queue, q) /\ ctx ~> ~Contains(queue, q) \/ ~ctx

=============================================================================
