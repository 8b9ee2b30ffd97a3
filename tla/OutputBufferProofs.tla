--------------------------- MODULE OutputBufferProofs ---------------------------
(***************************************************************************)
(* The scrollback of a session, proved for every set of readers, every     *)
(* capacity and read limit, and every set of escapes: the types, that the  *)
(* buffer has the capacity its record advertises, that no reader gets a    *)
(* byte twice, and that only a change of capacity drops what is buffered.  *)
(***************************************************************************)
EXTENDS OutputBuffer, TLAPS

USE OutputAssumption, NoneAssumption

-----------------------------------------------------------------------------
(* Why BufferAsAdvertised holds: its inductive strengthening.                       *)

\* A change of capacity is under way exactly while its task is in hand.
WantedFits == wanted # None <=> mgr \in {"delete", "record"}

\* Only a run that is active, about to be, or failing to start has a daemon.
WriterFits ==
    /\ mgr \in {"delete", "record", "open"} => ~active /\ writer = "off"
    /\ mgr \in {"idle", "down"} /\ ~active => writer = "off"

\* The daemon writes with the capacity that the record has had all along.
HandleIsCurrent == writer # "off" => handle = capacity

\* Between the deletion and the new capacity nobody makes the buffer again.
DeletedStaysDeleted == mgr = "record" => buffer = None

BufferInv ==
    WantedFits /\ WriterFits /\ HandleIsCurrent /\ DeletedStaysDeleted /\ BufferAsAdvertised

(* Why NoByteTwice holds.                                                           *)

\* The buffer is that of the newest stream, and no answer is of a later one.
StreamsInOrder ==
    /\ buffer # None => buffer.stream = streams
    /\ \A r \in Readers : \A i \in DOMAIN got[r] : got[r][i].stream <= streams

\* What a reader got lies before the place it reads on at.
ReadBefore ==
    \A r \in Readers : \A i \in DOMAIN got[r] : \A x \in got[r][i].bytes : x < offset[r]

ReadInv == StreamsInOrder /\ ReadBefore /\ NoByteTwice

-----------------------------------------------------------------------------
(* Types.                                                                           *)

\* One more byte keeps the buffer's type.
LEMMA PushTypes ==
    ASSUME buffer \in Buffers \cup {None}, streams \in 0..MaxStreams,
           NEW c \in Capacities, Push(c)
    PROVE  buffer' \in Buffers /\ streams' \in 0..MaxStreams
<1>1. CASE buffer = None
  <2>1. streams' \in 1..MaxStreams
    BY <1>1 DEF Push
  <2>2. [stream |-> streams', capacity |-> c, end |-> 1] \in Buffers
    BY <2>1 DEF Buffers
  <2>3. QED
    BY <1>1, <2>1, <2>2 DEF Push
<1>2. CASE buffer # None
  <2>1. buffer \in Buffers /\ buffer.end + 1 \in 1..MaxEnd
    BY <1>2 DEF Push, Buffers
  <2>2. QED
    BY <1>2, <2>1 DEF Push, Buffers
<1>3. QED
  BY <1>1, <1>2

\* A request reads a number of bytes.
LEMMA LimitTypes == ASSUME OutputTypeOK, NEW r \in Readers PROVE limit[r] \in Nat
<1>1. limit[r] \in 0..MaxRead
  BY DEF OutputTypeOK
<1>2. QED
  BY <1>1

\* The smaller of two places is within the second's bound, the larger within both's.
LEMMA Bounds ==
    ASSUME NEW m \in Nat
    PROVE  /\ \A a \in Nat, b \in 0..m : Smaller(a, b) \in 0..m
           /\ \A a, b \in 0..m : Larger(a, b) \in 0..m /\ a <= Larger(a, b)
  BY DEF Smaller, Larger

\* The oldest byte kept is a place in the stream.
LEMMA OldestTypes ==
    ASSUME OutputTypeOK, buffer # None
    PROVE  buffer.end \in 1..MaxEnd /\ Oldest \in 0..buffer.end /\ Oldest \in 0..MaxEnd
<1>1. buffer.end \in 1..MaxEnd /\ buffer.capacity \in Nat
  BY DEF OutputTypeOK, Buffers
<1>2. QED
  BY <1>1 DEF Oldest

\* The places that a request reads lie in the stream, at and after the place asked for.
LEMMA PlacesRead ==
    ASSUME OutputTypeOK, NEW r \in Readers, NEW x, NEW y,
           x = From(offset[r]), y = Upto(r, x)
    PROVE  /\ x \in 0..MaxEnd /\ y \in 0..MaxEnd
           /\ offset[r] <= x /\ x <= y
           /\ x # y => buffer # None
<1>1. offset[r] \in 0..MaxEnd
  BY DEF OutputTypeOK
<1>2. CASE buffer = None
  BY <1>1, <1>2 DEF From, Upto
<1>3. CASE buffer # None
  <2>1. \A a, z \in 0..MaxEnd : Larger(a, z) \in 0..MaxEnd /\ a <= Larger(a, z)
    BY Bounds, MaxEnd \in Nat
  <2>2. x = Larger(offset[r], Oldest)
    BY <1>3 DEF From
  <2>3. x \in 0..MaxEnd /\ offset[r] <= x
    BY <1>1, <1>3, <2>1, <2>2, OldestTypes
  <2>4. x + limit[r] \in Nat /\ buffer.end \in 0..MaxEnd
    BY <1>3, <2>3, LimitTypes, OldestTypes
  <2>5. Smaller(x + limit[r], buffer.end) \in 0..MaxEnd
    BY <2>4, Bounds, MaxEnd \in Nat
  <2>6. y = Larger(x, Smaller(x + limit[r], buffer.end))
    BY <1>3 DEF Upto
  <2>7. y \in 0..MaxEnd /\ x <= y
    BY <2>1, <2>3, <2>5, <2>6
  <2>8. QED
    BY <1>3, <2>3, <2>7
<1>4. QED
  BY <1>2, <1>3

\* So do the places that the first request for the newest output reads.
LEMMA NewestRead ==
    ASSUME OutputTypeOK, NEW r \in Readers, buffer # None, offset[r] = 0, NEW x,
           x = Larger(Oldest, IF buffer.end > limit[r] THEN buffer.end - limit[r] ELSE 0)
    PROVE  /\ x \in 0..MaxEnd /\ buffer.end \in 0..MaxEnd
           /\ offset[r] <= x /\ x <= buffer.end
<1>1. buffer.end \in 1..MaxEnd /\ limit[r] \in Nat /\ Oldest \in 0..buffer.end
  BY LimitTypes, OldestTypes
<1>2. QED
  BY <1>1 DEF Larger

\* An answer keeps the type of what a reader got.
LEMMA TakeTypes ==
    ASSUME OutputTypeOK, NEW r \in Readers, NEW x \in 0..MaxEnd, NEW y \in 0..MaxEnd,
           x # y => buffer # None, Take(r, x, y)
    PROVE  got' \in [Readers -> Seq(Answers)]
<1>1. CASE x = y
  BY <1>1 DEF Take, OutputTypeOK
<1>2. CASE x # y
  <2> DEFINE answer == [stream |-> buffer.stream, bytes |-> Stripped(x, y)]
  <2>1. buffer.stream \in 1..MaxStreams
    BY <1>2 DEF OutputTypeOK, Buffers
  <2>2. Stripped(x, y) \in SUBSET (0..MaxEnd)
    BY DEF Stripped
  <2>3. answer \in Answers
    BY <2>1, <2>2 DEF Answers
  <2>4. got[r] \in Seq(Answers)
    BY DEF OutputTypeOK
  <2> HIDE DEF answer
  <2>5. Append(got[r], answer) \in Seq(Answers)
    BY <2>3, <2>4
  <2>6. got' = [got EXCEPT ![r] = Append(got[r], answer)]
    BY <1>2 DEF Take, answer
  <2>7. QED
    BY <2>5, <2>6 DEF OutputTypeOK
<1>3. QED
  BY <1>1, <1>2

\* What a read does: an answer, a place to read on at, and no more to read.
Reads(r, x, y) ==
    /\ Take(r, x, y)
    /\ offset' = [offset EXCEPT ![r] = y]
    /\ Answered(r)
    /\ UNCHANGED <<capacity, row, buffer, streams, managerVars, writerVars>>

LEMMA ReadSteps ==
    ASSUME OutputTypeOK, NEW r \in Readers,
           ReadSessionOutputChunk(r) \/ ReadSessionOutputNewest(r)
    PROVE  \E x, y \in 0..MaxEnd :
              /\ Reads(r, x, y)
              /\ offset[r] <= x /\ x <= y
              /\ x # y => buffer # None
<1>1. CASE ReadSessionOutputChunk(r)
  <2> DEFINE x == From(offset[r])
             y == Upto(r, x)
  <2>1. Reads(r, x, y)
    BY <1>1 DEF ReadSessionOutputChunk, Reads
  <2>2. QED
    BY <2>1, PlacesRead
<1>2. CASE ReadSessionOutputNewest(r)
  <2> DEFINE x == Larger(Oldest, IF buffer.end > limit[r] THEN buffer.end - limit[r] ELSE 0)
  <2>1. Reads(r, x, buffer.end) /\ offset[r] = 0 /\ buffer # None
    BY <1>2 DEF ReadSessionOutputNewest, Reads
  <2>2. QED
    BY <2>1, NewestRead
<1>3. QED
  BY <1>1, <1>2

\* Every step keeps the types; the capacity that a change asks for is there when it is
\* written.
LEMMA NextTypes == OutputTypeOK /\ BufferInv /\ [Next]_vars => OutputTypeOK'
<1> SUFFICES ASSUME OutputTypeOK, BufferInv, [Next]_vars PROVE OutputTypeOK'
  OBVIOUS
<1>1. ASSUME NEW c \in Capacities, CheckChange(c) PROVE OutputTypeOK'
  BY <1>1 DEF CheckChange, OutputTypeOK, writerVars, readerVars
<1>2. CASE DeleteBuffer \/ RecordCapacity \/ TaskFails \/ HandleStart
  BY <1>2 DEF DeleteBuffer, RecordCapacity, TaskFails, HandleStart, EndTask, BufferInv,
              WantedFits, OutputTypeOK, writerVars, readerVars
<1>3. CASE OpenBuffer
  <2>1. buffer' \in Buffers /\ streams' \in 0..MaxStreams
    BY <1>3, PushTypes DEF OpenBuffer, OutputTypeOK
  <2>2. QED
    BY <1>3, <2>1 DEF OpenBuffer, OutputTypeOK, readerVars
<1>4. CASE MarkReady \/ HandleStop \/ RunIsOver
  BY <1>4 DEF MarkReady, HandleStop, RunIsOver, OutputTypeOK, writerVars, readerVars
<1>5. CASE Crash \/ Restart
  <2>1. 0 \in 0..MaxRead
    OBVIOUS
  <2>2. QED
    BY <1>5, <2>1 DEF Crash, Restart, OutputTypeOK, writerVars, readerVars
<1>6. CASE CopyOutput \/ OutputEnds \/ WritePostamble
  <2>1. writer # "off" => handle \in Capacities
    BY DEF BufferInv, HandleIsCurrent, OutputTypeOK
  <2>2. /\ buffer' \in Buffers \cup {None} /\ streams' \in 0..MaxStreams
        /\ writer' \in {"off", "copy", "postamble"}
        /\ UNCHANGED <<capacity, row, managerVars, handle, readerVars>>
    BY <1>6, <2>1, PushTypes
       DEF CopyOutput, OutputEnds, WritePostamble, OutputTypeOK, writerVars
  <2>3. QED
    BY <2>2 DEF OutputTypeOK, managerVars, readerVars
<1>7. ASSUME NEW r \in Readers, FetchSession(r) PROVE OutputTypeOK'
  <2>1. cappedReadLimit \in 0..MaxRead
    BY DEF cappedReadLimit, Smaller, OutputTypeOK
  <2>2. QED
    BY <1>7, <2>1 DEF FetchSession, OutputTypeOK, managerVars, writerVars
<1>8. ASSUME NEW r \in Readers, ReadSessionOutputChunk(r) \/ ReadSessionOutputNewest(r)
      PROVE  OutputTypeOK'
  <2>1. PICK x \in 0..MaxEnd, y \in 0..MaxEnd : Reads(r, x, y) /\ (x # y => buffer # None)
    BY <1>8, ReadSteps
  <2>2. got' \in [Readers -> Seq(Answers)]
    BY <2>1, TakeTypes DEF Reads
  <2>3. 0 \in 0..MaxRead
    OBVIOUS
  <2>4. QED
    BY <2>1, <2>2, <2>3 DEF Reads, Answered, OutputTypeOK, managerVars, writerVars
<1>9. CASE UNCHANGED vars
  BY <1>9 DEF OutputTypeOK, vars, managerVars, writerVars, readerVars
<1>10. QED
  BY <1>1, <1>2, <1>3, <1>4, <1>5, <1>6, <1>7, <1>8, <1>9 DEF Next, ManagerStep, ReaderStep

-----------------------------------------------------------------------------
(* The capacity.                                                                    *)

\* The writers and the changes of capacity keep out of each other's way.
LEMMA NextBuffer == OutputTypeOK /\ BufferInv /\ [Next]_vars => BufferInv'
<1> SUFFICES ASSUME OutputTypeOK, BufferInv, [Next]_vars PROVE BufferInv'
  OBVIOUS
<1> USE DEF BufferInv, WantedFits, WriterFits, HandleIsCurrent, DeletedStaysDeleted,
            BufferAsAdvertised
<1>1. ASSUME NEW c \in Capacities, CheckChange(c) PROVE BufferInv'
  BY <1>1 DEF CheckChange, writerVars
<1>2. CASE DeleteBuffer \/ RecordCapacity \/ TaskFails \/ HandleStart
  BY <1>2 DEF DeleteBuffer, RecordCapacity, TaskFails, HandleStart, EndTask, writerVars
<1>3. ASSUME NEW c, c = capacity, Push(c)
      PROVE  buffer' # None => buffer'.capacity = capacity
  BY <1>3 DEF Push, OutputTypeOK, Buffers
<1>4. CASE OpenBuffer
  BY <1>3, <1>4 DEF OpenBuffer
<1>5. CASE MarkReady \/ HandleStop \/ RunIsOver
  BY <1>5 DEF MarkReady, HandleStop, RunIsOver, writerVars, OutputTypeOK
<1>6. CASE Crash \/ Restart
  BY <1>6 DEF Crash, Restart, writerVars
<1>7. CASE CopyOutput \/ OutputEnds \/ WritePostamble
  <2>1. writer # "off" /\ mgr # "record"
    BY <1>7 DEF CopyOutput, OutputEnds, WritePostamble
  <2>2. buffer' # None => buffer'.capacity = capacity
    BY <1>3, <1>7, <2>1 DEF CopyOutput, OutputEnds, WritePostamble
  <2>3. QED
    BY <1>7, <2>1, <2>2 DEF CopyOutput, OutputEnds, WritePostamble, managerVars, writerVars
<1>8. CASE UNCHANGED <<capacity, row, buffer, streams, managerVars, writerVars>>
  BY <1>8 DEF managerVars, writerVars
<1>9. QED
  BY <1>1, <1>2, <1>4, <1>5, <1>6, <1>7, <1>8
     DEF Next, ManagerStep, ReaderStep, FetchSession, ReadSessionOutputChunk,
         ReadSessionOutputNewest, vars

LEMMA InitBuffer == Init => OutputTypeOK /\ BufferInv
<1>1. <<>> \in Seq(Answers) /\ 0 \in 0..MaxRead /\ 0 \in 0..MaxEnd /\ 0 \in 0..MaxStreams
  OBVIOUS
<1>2. QED
  BY <1>1 DEF Init, OutputTypeOK, BufferInv, WantedFits, WriterFits, HandleIsCurrent,
              DeletedStaysDeleted, BufferAsAdvertised

\* The state of the buffer, its writer and its readers keeps its type.
THEOREM OutputTyped == Spec => []OutputTypeOK
  BY InitBuffer, NextTypes, NextBuffer, PTL DEF Spec

\* The buffer never has another capacity than the record advertises, whatever fails or
\* crashes between the deletion and the new capacity, and whoever writes.
THEOREM CapacityAsAdvertised == Spec => []BufferAsAdvertised
<1>1. BufferInv => BufferAsAdvertised
  BY DEF BufferInv
<1>2. QED
  BY <1>1, InitBuffer, NextTypes, NextBuffer, PTL DEF Spec

-----------------------------------------------------------------------------
(* What is dropped.                                                                 *)

\* A byte goes to the end of the buffer that is there.
LEMMA PushKeeps ==
    ASSUME OutputTypeOK, buffer # None, NEW c, Push(c)
    PROVE  buffer' # None /\ buffer'.stream = buffer.stream
<1>1. buffer \in Buffers
  BY DEF OutputTypeOK
<1>2. buffer' = [buffer EXCEPT !.end = @ + 1] /\ buffer.end + 1 \in 1..MaxEnd
  BY <1>1 DEF Push, Buffers
<1>3. buffer' \in Buffers /\ buffer'.stream = buffer.stream
  BY <1>1, <1>2 DEF Buffers
<1>4. QED
  BY <1>3

\* Only a change of capacity drops what is buffered: stops, starts that fail, new runs,
\* crashes and reads keep it.
THEOREM OnlyAChangeDrops == Spec => ScrollbackIsKept
<1>1. OutputTypeOK /\ BufferInv /\ [Next]_vars
          => [buffer # None /\ wanted = None => buffer' # None /\ buffer'.stream = buffer.stream]_vars
  <2> SUFFICES ASSUME OutputTypeOK, BufferInv, [Next]_vars, buffer # None, wanted = None
               PROVE  buffer' # None /\ buffer'.stream = buffer.stream
    OBVIOUS
  <2>1. CASE buffer' = buffer
    BY <2>1
  <2>2. mgr # "delete"
    BY DEF BufferInv, WantedFits
  <2>3. QED
    BY <2>1, <2>2, PushKeeps
       DEF Next, ManagerStep, CheckChange, DeleteBuffer, RecordCapacity, TaskFails,
           HandleStart, OpenBuffer, MarkReady, HandleStop, RunIsOver, Crash, Restart,
           CopyOutput, OutputEnds, WritePostamble, ReaderStep, FetchSession,
           ReadSessionOutputChunk, ReadSessionOutputNewest, vars
<1>2. QED
  BY <1>1, InitBuffer, NextTypes, NextBuffer, PTL DEF Spec, ScrollbackIsKept

-----------------------------------------------------------------------------
(* Reading on.                                                                      *)

\* The elements of a sequence that grows.
LEMMA AppendNth ==
    ASSUME NEW S, NEW q \in Seq(S), NEW e
    PROVE  \A i \in DOMAIN Append(q, e) :
              \/ i \in DOMAIN q /\ Append(q, e)[i] = q[i]
              \/ i = Len(q) + 1 /\ Append(q, e)[i] = e /\ \A j \in DOMAIN q : j < i
  OBVIOUS

\* The writers only begin a stream later than all the answers so far.
LEMMA PushInOrder ==
    ASSUME OutputTypeOK, StreamsInOrder, NEW c, Push(c), UNCHANGED got
    PROVE  StreamsInOrder'
<1>1. CASE buffer = None
  <2>1. streams \in Nat /\ streams' = streams + 1 /\ buffer'.stream = streams'
    BY <1>1 DEF Push, OutputTypeOK
  <2>2. ASSUME NEW r \in Readers, NEW i \in DOMAIN got[r] PROVE got[r][i].stream <= streams'
    <3>1. got[r][i] \in Answers /\ got[r][i].stream <= streams
      BY <2>2 DEF OutputTypeOK, StreamsInOrder
    <3>2. got[r][i].stream \in Nat
      BY <3>1 DEF Answers
    <3>3. QED
      BY <2>1, <3>1, <3>2
  <2>3. QED
    BY <2>1, <2>2 DEF StreamsInOrder
<1>2. CASE buffer # None
  <2>1. buffer'.stream = buffer.stream /\ streams' = streams
    BY <1>2, PushKeeps DEF Push
  <2>2. QED
    BY <1>2, <2>1 DEF StreamsInOrder
<1>3. QED
  BY <1>1, <1>2

\* A read takes the next bytes of the newest stream, after all that its reader got.
LEMMA ReadsInOrder ==
    ASSUME OutputTypeOK, ReadInv, NEW r \in Readers, NEW x \in 0..MaxEnd,
           NEW y \in 0..MaxEnd, offset[r] <= x, x <= y, x # y => buffer # None,
           Reads(r, x, y)
    PROVE  ReadInv'
<1>1. UNCHANGED <<buffer, streams>> /\ offset' = [offset EXCEPT ![r] = y]
  BY DEF Reads
<1>2. \A s \in Readers : offset[s] \in Nat /\ offset[s] <= offset'[s]
  <2> TAKE s \in Readers
  <2>1. offset[s] \in Nat /\ offset[r] \in Nat
    BY DEF OutputTypeOK
  <2>2. QED
    BY <1>1, <2>1 DEF OutputTypeOK
<1>3. \A s \in Readers : got[s] \in Seq(Answers)
  BY DEF OutputTypeOK
<1>4. \A s \in Readers : \A i \in DOMAIN got[s] : got[s][i] \in Answers
  BY <1>3
<1>5. \A s \in Readers : \A i \in DOMAIN got[s] : \A b \in got[s][i].bytes :
         b \in Nat /\ b < offset[s] /\ b < offset'[s]
  <2> TAKE s \in Readers
  <2> TAKE i \in DOMAIN got[s]
  <2> TAKE b \in got[s][i].bytes
  <2>1. b \in 0..MaxEnd
    BY <1>4 DEF Answers
  <2>2. b < offset[s]
    BY DEF ReadInv, ReadBefore
  <2>3. QED
    BY <1>1, <1>2, <2>1, <2>2 DEF OutputTypeOK
<1>6. CASE x = y
  <2>1. got' = got
    BY <1>6 DEF Reads, Take
  <2>2. QED
    BY <1>1, <1>5, <2>1 DEF ReadInv, StreamsInOrder, ReadBefore, NoByteTwice
<1>7. CASE x # y
  <2> DEFINE e == [stream |-> buffer.stream, bytes |-> Stripped(x, y)]
  <2>1. got' = [got EXCEPT ![r] = Append(got[r], e)]
    BY <1>7 DEF Reads, Take
  <2>2. e.stream = streams /\ \A b \in e.bytes : b \in Nat /\ offset[r] <= b /\ b < y
    <3>1. \A b \in x .. (y - 1) : b \in Nat /\ offset[r] <= b /\ b < y
      BY <1>2
    <3>2. QED
      BY <1>7, <3>1 DEF ReadInv, StreamsInOrder, Stripped
  <2> HIDE DEF e
  <2>3. \A s \in Readers : s # r => got'[s] = got[s]
    BY <2>1 DEF OutputTypeOK
  <2>4. got'[r] = Append(got[r], e) /\ offset'[r] = y
    BY <1>1, <2>1 DEF OutputTypeOK
  <2>5. \A i \in DOMAIN got'[r] :
           \/ i \in DOMAIN got[r] /\ got'[r][i] = got[r][i]
           \/ i = Len(got[r]) + 1 /\ got'[r][i] = e /\ \A j \in DOMAIN got[r] : j < i
    BY <1>3, <2>4, AppendNth
  <2>6. StreamsInOrder'
    <3>1. streams \in Nat
      BY DEF OutputTypeOK
    <3>2. QED
      BY <1>1, <2>2, <2>3, <2>5, <3>1 DEF ReadInv, StreamsInOrder
  <2>7. ReadBefore'
    BY <1>5, <2>2, <2>3, <2>4, <2>5 DEF ReadBefore
  <2>8. NoByteTwice'
    <3> SUFFICES ASSUME NEW s \in Readers, NEW i \in DOMAIN got'[s], NEW j \in DOMAIN got'[s],
                        i < j
                 PROVE  /\ got'[s][i].stream <= got'[s][j].stream
                        /\ got'[s][i].stream = got'[s][j].stream =>
                              \A a \in got'[s][i].bytes, b \in got'[s][j].bytes : a < b
      BY DEF NoByteTwice
    <3>1. CASE i \in DOMAIN got[s] /\ j \in DOMAIN got[s]
               /\ got'[s][i] = got[s][i] /\ got'[s][j] = got[s][j]
      BY <3>1 DEF ReadInv, NoByteTwice
    <3>2. CASE s = r /\ i \in DOMAIN got[r] /\ got'[r][i] = got[r][i] /\ got'[r][j] = e
      <4>1. got[r][i].stream <= e.stream
        BY <2>2, <3>2 DEF ReadInv, StreamsInOrder
      <4>2. \A a \in got[r][i].bytes, b \in e.bytes : a < b
        <5> SUFFICES ASSUME NEW a \in got[r][i].bytes, NEW b \in e.bytes PROVE a < b
          OBVIOUS
        <5>1. a \in Nat /\ a < offset[r] /\ offset[r] \in Nat
          BY <1>2, <1>5, <3>2
        <5>2. b \in Nat /\ offset[r] <= b
          BY <2>2
        <5>3. QED
          BY <5>1, <5>2
      <4>3. QED
        BY <3>2, <4>1, <4>2
    <3>3. CASE s # r
      BY <2>3, <3>1, <3>3
    <3>4. CASE s = r
      <4>1. i \in Nat /\ j \in Nat
        BY <1>3, <2>4, <3>4
      <4>2. ~(i = Len(got[r]) + 1 /\ j \in DOMAIN got[r])
        BY <1>3, <4>1
      <4>3. QED
        BY <2>5, <3>1, <3>2, <3>4, <4>1, <4>2
    <3>5. QED
      BY <3>3, <3>4
  <2>9. QED
    BY <2>6, <2>7, <2>8 DEF ReadInv
<1>8. QED
  BY <1>6, <1>7

\* With the types, ReadInv is inductive.
LEMMA NextReads == OutputTypeOK /\ ReadInv /\ [Next]_vars => ReadInv'
<1> SUFFICES ASSUME OutputTypeOK, ReadInv, [Next]_vars PROVE ReadInv'
  OBVIOUS
<1>1. ASSUME NEW r \in Readers, ReadSessionOutputChunk(r) \/ ReadSessionOutputNewest(r)
      PROVE  ReadInv'
  BY <1>1, ReadSteps, ReadsInOrder
<1>2. ASSUME UNCHANGED <<got, offset>>, StreamsInOrder' PROVE ReadInv'
  BY <1>2 DEF ReadInv, ReadBefore, NoByteTwice
<1>3. CASE UNCHANGED <<buffer, streams, got, offset>>
  BY <1>2, <1>3 DEF ReadInv, StreamsInOrder
<1>4. ASSUME NEW c, Push(c), UNCHANGED <<got, offset>> PROVE ReadInv'
  BY <1>2, <1>4, PushInOrder DEF ReadInv
<1>5. CASE DeleteBuffer
  BY <1>2, <1>5 DEF DeleteBuffer, ReadInv, StreamsInOrder, readerVars
<1>6. QED
  BY <1>1, <1>3, <1>4, <1>5
     DEF Next, ManagerStep, CheckChange, RecordCapacity, TaskFails, HandleStart, OpenBuffer,
         MarkReady, HandleStop, RunIsOver, Crash, Restart, CopyOutput, OutputEnds,
         WritePostamble, ReaderStep, FetchSession, vars, readerVars

\* No reader gets a byte twice or out of order, whatever is stripped, ages out, or is
\* written by a later run or to a later buffer.
THEOREM ReadOnce == Spec => []NoByteTwice
<1>1. Init => ReadInv
  BY DEF Init, ReadInv, StreamsInOrder, ReadBefore, NoByteTwice
<1>2. ReadInv => NoByteTwice
  BY DEF ReadInv
<1>3. QED
  BY <1>1, <1>2, InitBuffer, NextTypes, NextBuffer, NextReads, PTL DEF Spec

=============================================================================
