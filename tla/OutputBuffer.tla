------------------------------ MODULE OutputBuffer ----------------------------
(***************************************************************************)
(* The scrollback of one session: the ring buffer in Redis that the        *)
(* driver's output daemon writes (src/session/driver.go), that clients     *)
(* read (src/api/session_io_core.go), and that a change of capacity        *)
(* deletes (ChangeOutputBufferCapacity, src/session/manager.go).  Its      *)
(* capacity is kept twice, in the session's record and in the buffer.      *)
(*                                                                         *)
(* A byte is known by its place in the stream.  The buffer is made by the  *)
(* first write to it, with the capacity of the writer's handle; a read     *)
(* that starts before the oldest byte kept is moved to it.  The session's  *)
(* daemons end in time when it is stopped: what happens when they do not   *)
(* is module SessionControl's subject.                                     *)
(***************************************************************************)
EXTENDS Naturals, Sequences, FiniteSets

CONSTANTS
    Readers,     \* clients that read the session's output
    Capacities,  \* the capacities a session may have
    MaxRead,     \* maxOutputReadBytes
    MaxEnd,      \* bound: length of a stream
    MaxStreams,  \* bound: number of buffers made
    Escapes,     \* the places in a stream of bytes that stripANSIEscapes removes
    None         \* no buffer, no handle, no change

ASSUME OutputAssumption ==
    /\ Capacities \subseteq Nat \ {0}
    /\ MaxRead \in Nat \ {0}
    /\ MaxEnd \in Nat \ {0} /\ MaxStreams \in Nat
    /\ Escapes \subseteq Nat

Buffers == [stream : 1..MaxStreams, capacity : Capacities, end : 1..MaxEnd]

ASSUME NoneAssumption == None \notin Capacities \cup Buffers

VARIABLES
    capacity,  \* the record's output buffer capacity
    row,       \* the record's state
    buffer,    \* the buffer: the number of its stream, its capacity, and the stream's end
    streams,   \* history: the number of buffers made
    mgr,       \* where the manager's worker is
    wanted,    \* the capacity that the task in its hands asks for
    active,    \* activeRunners has the session's runner
    writer,    \* the driver's output daemon
    handle,    \* the capacity that the daemon opened the buffer with
    limit,     \* limit[r]: what r's request may read, once its session is fetched
    offset,    \* offset[r]: where r reads next
    got        \* history, got[r]: the answers r got, each with its stream and its bytes

managerVars == <<mgr, wanted, active>>
writerVars == <<writer, handle>>
readerVars == <<limit, offset, got>>
vars == <<capacity, row, buffer, streams, managerVars, writerVars, readerVars>>

Answers == [stream : 1..MaxStreams, bytes : SUBSET (0..MaxEnd)]

OutputTypeOK ==
    /\ capacity \in Capacities
    /\ row \in {"IDLE", "READY"}
    /\ buffer \in Buffers \cup {None}
    /\ streams \in 0..MaxStreams
    /\ mgr \in {"idle", "delete", "record", "open", "ready", "fail", "stop", "down"}
    /\ wanted \in Capacities \cup {None}
    /\ active \in BOOLEAN
    /\ writer \in {"off", "copy", "postamble"}
    /\ handle \in Capacities \cup {None}
    /\ limit \in [Readers -> 0..MaxRead]
    /\ offset \in [Readers -> 0..MaxEnd]
    /\ got \in [Readers -> Seq(Answers)]

Init ==
    /\ capacity \in Capacities
    /\ row = "IDLE"
    /\ buffer = None
    /\ streams = 0
    /\ mgr = "idle"
    /\ wanted = None
    /\ active = FALSE
    /\ writer = "off"
    /\ handle = None
    /\ limit = [r \in Readers |-> 0]
    /\ offset = [r \in Readers |-> 0]
    /\ got = [r \in Readers |-> <<>>]

-----------------------------------------------------------------------------
(* HandleChangeOutputBufferCapacity on the manager's worker.                        *)

\* A bug to look for: the runner is overlooked.
CheckChangeOfAny(c) ==
    /\ mgr = "idle"
    /\ wanted' = c
    /\ mgr' = "delete"
    /\ UNCHANGED <<capacity, row, buffer, streams, active, writerVars, readerVars>>

\* There can't be an existing runner.  (A READY row without one, which the code forces
\* IDLE, is met only after a rename: modules SessionManager and SessionRecords.)
CheckChange(c) ==
    /\ mgr = "idle"
    /\ ~active
    /\ wanted' = c
    /\ mgr' = "delete"
    /\ UNCHANGED <<capacity, row, buffer, streams, active, writerVars, readerVars>>

EndTask == mgr' = "idle" /\ wanted' = None

\* A bug to look for: the record changes before the buffer is deleted.
RecordFirst ==
    /\ mgr = "delete"
    /\ capacity' = wanted
    /\ mgr' = "record"
    /\ UNCHANGED <<row, buffer, streams, wanted, active, writerVars, readerVars>>

\* The buffer first ...
DeleteBuffer ==
    /\ mgr = "delete"
    /\ buffer' = None
    /\ mgr' = "record"
    /\ UNCHANGED <<capacity, row, streams, wanted, active, writerVars, readerVars>>

\* ... then the record.
RecordCapacity ==
    /\ mgr = "record"
    /\ row = "IDLE"
    /\ capacity' = wanted
    /\ EndTask
    /\ UNCHANGED <<row, buffer, streams, active, writerVars, readerVars>>

\* The database or Redis refuses a step; what was done before it stays done.
TaskFails ==
    /\ mgr \in {"delete", "record", "open"}
    /\ EndTask
    /\ UNCHANGED <<capacity, row, buffer, streams, active, writerVars, readerVars>>

-----------------------------------------------------------------------------
(* Starts and stops, as far as they concern the buffer.                             *)

HandleStart ==
    /\ mgr = "idle"
    /\ ~active
    /\ mgr' = "open"
    /\ UNCHANGED <<capacity, row, buffer, streams, wanted, active, writerVars, readerVars>>

\* One more byte at the end, through a handle of capacity c.
Push(c) ==
    IF buffer = None
    THEN /\ streams < MaxStreams
         /\ streams' = streams + 1
         /\ buffer' = [stream |-> streams', capacity |-> c, end |-> 1]
    ELSE /\ buffer.end < MaxEnd
         /\ buffer' = [buffer EXCEPT !.end = @ + 1]
         /\ UNCHANGED streams

\* A bug to look for: the output buffer is made afresh as the input buffer is.
OpenFreshBuffer ==
    /\ mgr = "open"
    /\ streams < MaxStreams
    /\ streams' = streams + 1
    /\ buffer' = [stream |-> streams', capacity |-> capacity, end |-> 1]
    /\ handle' = capacity
    /\ \/ mgr' = "ready" /\ writer' = "copy"
       \/ mgr' = "fail" /\ UNCHANGED writer
    /\ UNCHANGED <<capacity, row, wanted, active, readerVars>>

\* driver.Start: the preamble, and the daemon if the command comes up.
OpenBuffer ==
    /\ mgr = "open"
    /\ handle' = capacity
    /\ Push(capacity)
    /\ \/ mgr' = "ready" /\ writer' = "copy"
       \/ mgr' = "fail" /\ UNCHANGED writer
    /\ UNCHANGED <<capacity, row, wanted, active, readerVars>>

\* The row is READY and the runner active, or the start has failed after all.
MarkReady ==
    /\ mgr = "ready"
    /\ \/ row' = "READY" /\ active' = TRUE /\ mgr' = "idle"
       \/ mgr' = "fail" /\ UNCHANGED <<row, active>>
    /\ UNCHANGED <<capacity, buffer, streams, wanted, writerVars, readerVars>>

HandleStop ==
    /\ mgr = "idle"
    /\ active
    /\ mgr' = "stop"
    /\ UNCHANGED <<capacity, row, buffer, streams, wanted, active, writerVars, readerVars>>

\* The driver has stopped its daemons, after a stop or a failed start; the row is IDLE
\* again, or the stop fails and the runner stays.
RunIsOver ==
    /\ mgr \in {"stop", "fail"}
    /\ writer = "off"
    /\ mgr' = "idle"
    /\ \/ row' = "IDLE" /\ active' = FALSE /\ handle' = None
       \/ mgr = "stop" /\ UNCHANGED <<row, active, handle>>
    /\ UNCHANGED <<capacity, buffer, streams, wanted, writer, readerVars>>

\* The process dies; Redis and the database stay.
Crash ==
    /\ mgr # "down"
    /\ mgr' = "down"
    /\ wanted' = None
    /\ active' = FALSE
    /\ writer' = "off"
    /\ handle' = None
    /\ limit' = [r \in Readers |-> 0]
    /\ UNCHANGED <<capacity, row, buffer, streams, offset, got>>

\* The manager's Start resets the rows.
Restart ==
    /\ mgr = "down"
    /\ mgr' = "idle"
    /\ row' = "IDLE"
    /\ UNCHANGED <<capacity, buffer, streams, wanted, active, writerVars, readerVars>>

-----------------------------------------------------------------------------
(* The driver's output daemon: PipeOutput, then the postamble.                      *)

CopyOutput ==
    /\ writer = "copy"
    /\ Push(handle)
    /\ UNCHANGED <<capacity, row, managerVars, writerVars, readerVars>>

OutputEnds ==
    /\ writer = "copy"
    /\ writer' = "postamble"
    /\ UNCHANGED <<capacity, row, buffer, streams, managerVars, handle, readerVars>>

\* The write may fail; the daemon ends all the same.
WritePostamble ==
    /\ writer = "postamble"
    /\ Push(handle) \/ UNCHANGED <<buffer, streams>>
    /\ writer' = "off"
    /\ UNCHANGED <<capacity, row, managerVars, handle, readerVars>>

-----------------------------------------------------------------------------
(* A client that reads the stream on: ReadSessionOutputNewest once or not at all,   *)
(* then ReadSessionOutputChunk at "actual_offset + read", or TailSessionOutput.     *)

Smaller(a, b) == IF a < b THEN a ELSE b
Larger(a, b) == IF a < b THEN b ELSE a

\* A bug to look for: the absolute bound is forgotten.
limitByCapacity == capacity

\* What a client asks for, here more than it can get, is capped twice.
cappedReadLimit == Smaller(MaxRead, capacity)

\* getSessionOutputBuffer.
FetchSession(r) ==
    /\ limit[r] = 0
    /\ mgr # "down"
    /\ limit' = [limit EXCEPT ![r] = cappedReadLimit]
    /\ UNCHANGED <<capacity, row, buffer, streams, managerVars, writerVars, offset, got>>

Oldest == IF buffer.end > buffer.capacity THEN buffer.end - buffer.capacity ELSE 0

\* The places read from x on; a place after the end reads nothing.
From(x) == IF buffer = None THEN x ELSE Larger(x, Oldest)
Upto(r, x) == IF buffer = None THEN x ELSE Larger(x, Smaller(x + limit[r], buffer.end))

\* The bytes from x up to y, without escapes.
Stripped(x, y) == (x .. (y - 1)) \ Escapes

Answered(r) == limit' = [limit EXCEPT ![r] = 0]

Take(r, x, y) ==
    got' = IF x = y THEN got
           ELSE [got EXCEPT ![r] = Append(@, [stream |-> buffer.stream, bytes |-> Stripped(x, y)])]

\* A bug to look for: "read" counts the bytes that are left after the stripping.
ReadChunkAsStripped(r) ==
    /\ limit[r] # 0
    /\ LET x == From(offset[r])
           y == Upto(r, x)
       IN  /\ Take(r, x, y)
           /\ offset' = [offset EXCEPT ![r] = IF x = y THEN x ELSE x + Cardinality(Stripped(x, y))]
    /\ Answered(r)
    /\ UNCHANGED <<capacity, row, buffer, streams, managerVars, writerVars>>

ReadSessionOutputChunk(r) ==
    /\ limit[r] # 0
    /\ LET x == From(offset[r])
           y == Upto(r, x)
       IN  /\ Take(r, x, y)
           /\ offset' = [offset EXCEPT ![r] = y]
    /\ Answered(r)
    /\ UNCHANGED <<capacity, row, buffer, streams, managerVars, writerVars>>

ReadSessionOutputNewest(r) ==
    /\ limit[r] # 0
    /\ offset[r] = 0 /\ got[r] = <<>>
    /\ buffer # None
    /\ LET x == Larger(Oldest, IF buffer.end > limit[r] THEN buffer.end - limit[r] ELSE 0)
       IN  Take(r, x, buffer.end)
    /\ offset' = [offset EXCEPT ![r] = buffer.end]
    /\ Answered(r)
    /\ UNCHANGED <<capacity, row, buffer, streams, managerVars, writerVars>>

-----------------------------------------------------------------------------
ManagerStep ==
    \/ \E c \in Capacities : CheckChange(c)
    \/ DeleteBuffer \/ RecordCapacity \/ TaskFails
    \/ HandleStart \/ OpenBuffer \/ MarkReady \/ HandleStop \/ RunIsOver
    \/ Crash \/ Restart

ReaderStep(r) ==
    FetchSession(r) \/ ReadSessionOutputChunk(r) \/ ReadSessionOutputNewest(r)

Next ==
    \/ ManagerStep
    \/ CopyOutput \/ OutputEnds \/ WritePostamble
    \/ \E r \in Readers : ReaderStep(r)

Spec == Init /\ [][Next]_vars

-----------------------------------------------------------------------------
(* Properties.                                                                      *)

\* The buffer never has another capacity than the record advertises, whichever step of a
\* change fails or is cut off by a crash (the order that the comment in
\* HandleChangeOutputBufferCapacity asks to keep).
BufferAsAdvertised == buffer # None => buffer.capacity = capacity

\* A client that reads on at "actual_offset + read" never gets a byte twice or out of
\* order, although escapes are stripped and bytes age out, also across runs.
NoByteTwice ==
    \A r \in Readers : \A i, j \in DOMAIN got[r] : i < j =>
        LET a == got[r][i]
            b == got[r][j]
        IN  /\ a.stream <= b.stream
            /\ a.stream = b.stream => \A x \in a.bytes, y \in b.bytes : x < y

\* Only a change of capacity drops what is buffered: stops, starts that fail, new runs and
\* crashes keep it, and so can the output of an ended run be read.
ScrollbackIsKept ==
    [][buffer # None /\ wanted = None => buffer' # None /\ buffer'.stream = buffer.stream]_vars

=============================================================================
