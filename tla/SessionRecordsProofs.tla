-------------------------- MODULE SessionRecordsProofs --------------------------
(***************************************************************************)
(* What holds of the sessions table, in three parts.                       *)
(*                                                                         *)
(* Under every isolation level, and whatever management calls there are,   *)
(* renames included: every column and every local variable keeps its type, *)
(* and no attached runner is lost.                                         *)
(*                                                                         *)
(* Under immediate transactions: Exclusive says that nobody else has a     *)
(* transaction open while one is, so that what it has read still holds     *)
(* when it writes.  From that, what updates keep of a record, and that a   *)
(* session has one runner.                                                 *)
(*                                                                         *)
(* Last, READY records and the runners that serve them: ServiceInv relates *)
(* what runners and manager have read to what they are about to write.     *)
(***************************************************************************)
EXTENDS SessionRecords, TLAPS

Transaction == [id : Ids, set : Change]
Copy == [id : Ids, name : Names, workspace : BOOLEAN]

\* A transaction is about a record that exists, though it may be GONE.
TxHasRecord == \A p \in Processes : tx[p] # None => table[tx[p].id] \in Record

\* A runner that was made has a copy of a record.
MadeHasCopy == \A r \in Runs : stage[r] # "off" => loaded[r] \in Copy

\* Between tasks the manager's worker has nothing in its hands.
HandsAreFull ==
    IF mpc = "idle" THEN mrun = None ELSE mrun \in Runs /\ mname \in Names

\* A start has its session's name for itself.  Its runner is not made yet, or made for that
\* name; in the clean-up it is down again, unless the context ended before.
StartIsAlone ==
    /\ mpc \in {"force", "forcing", "create", "start", "restore", "restoring"} =>
          active[mname] = None
    /\ mpc \in {"force", "forcing", "create"} => stage[mrun] = "off"
    /\ mpc \in {"start", "restore", "restoring"} =>
          stage[mrun] # "off" /\ loaded[mrun].name = mname
    /\ mpc \in {"restore", "restoring"} =>
          stage[mrun] # "up" /\ (stage[mrun] = "down" \/ ~mctx)

\* A stop has the active runner of its session.
StopIsActive == mpc = "stop" => active[mname] = mrun

\* Where a runner is that has not reached READY yet.
Upcoming == {"start", "markReady", "marking", "failed"}

\* activeRunners knows a runner by the name that it was made with, and when it has started.
ActiveByName ==
    \A n \in Names : active[n] # None =>
        stage[active[n]] \notin {"off"} \cup Upcoming /\ loaded[active[n]].name = n

RecordsInv ==
    /\ RecordsTypeOK
    /\ TxHasRecord
    /\ MadeHasCopy
    /\ HandsAreFull
    /\ StartIsAlone
    /\ StopIsActive
    /\ ActiveByName
    /\ NoLostRunner

-----------------------------------------------------------------------------
(* Transactions.                                                                    *)

\* Whatever a transaction may write together makes a record of a record.
LEMMA WrittenIsRecord ==
    ASSUME NEW record \in Record, NEW change \in Change
    PROVE  Written(record, change) \in Record
<1>1. CASE change \in [state : {"IDLE", "READY", "GONE"}]
  BY <1>1 DEF Written, Record
<1>2. CASE change \in [name : Names]
  BY <1>2 DEF Written, Record
<1>3. CASE change \in [command : Commands]
  BY <1>3 DEF Written, Record
<1>4. CASE change \in [workspace : BOOLEAN]
  BY <1>4 DEF Written, Record
<1>5. CASE change \in [driver : {"PTY", "DOCKER"}, workspace : BOOLEAN]
  BY <1>5 DEF Written, Record
<1> QED
  BY <1>1, <1>2, <1>3, <1>4, <1>5 DEF Change

TxTypeOK ==
    /\ table \in [Ids -> Record \cup {None}]
    /\ tx \in [Processes -> Transaction \cup {None}]
    /\ TxHasRecord

\* A transaction that reads an existing record keeps table and transactions typed.
LEMMA ReadTypes ==
    ASSUME TxTypeOK, NEW p \in Processes, NEW i \in Ids, table[i] \in Record,
           NEW change \in Change, Read(p, i, change), UNCHANGED table
    PROVE  TxTypeOK'
<1>1. [id |-> i, set |-> change] \in Transaction
  BY DEF Transaction
<1>2. tx' \in [Processes -> Transaction \cup {None}]
  BY <1>1 DEF TxTypeOK, Read
<1>3. TxHasRecord'
  BY <1>1 DEF TxTypeOK, Read, TxHasRecord
<1> QED
  BY <1>2, <1>3 DEF TxTypeOK

\* So does one that writes.
LEMMA WriteTypes ==
    ASSUME TxTypeOK, NEW p \in Processes, Write(p)
    PROVE  TxTypeOK'
<1>1. tx[p] \in Transaction /\ table[tx[p].id] \in Record
  BY DEF TxTypeOK, Write, TxHasRecord
<1>2. tx[p].id \in Ids /\ tx[p].set \in Change
  BY <1>1 DEF Transaction
<1>3. Written(table[tx[p].id], tx[p].set) \in Record
  BY <1>1, <1>2, WrittenIsRecord
<1>4. /\ table' = [table EXCEPT ![tx[p].id] = Written(table[tx[p].id], tx[p].set)]
      /\ tx' = [tx EXCEPT ![p] = None]
  BY DEF Write
<1> QED
  BY <1>2, <1>3, <1>4 DEF TxTypeOK, TxHasRecord, Transaction

\* And one that is rolled back.
LEMMA RollBackTypes ==
    ASSUME TxTypeOK, NEW p \in Processes, RollBack(p)
    PROVE  TxTypeOK'
  BY DEF TxTypeOK, RollBack, TxHasRecord

\* A record that is known is a record.
LEMMA KnownIsRecord ==
    ASSUME TxTypeOK, NEW i \in Known
    PROVE  i \in Ids /\ table[i] \in Record /\ table[i].name \in Names
  BY DEF TxTypeOK, Known, Record

-----------------------------------------------------------------------------
(* The invariant.                                                                   *)

\* The part of the invariant that speaks of who has which runner.
Holding ==
    /\ mctx \in BOOLEAN
    /\ mpc \in {"idle", "force", "forcing", "create", "start", "stop", "restore", "restoring"}
    /\ mname \in Names \cup {None}
    /\ mrun \in Runs \cup {None}
    /\ active \in [Names -> Runs \cup {None}]
    /\ stage \in [Runs -> Stages]
    /\ loaded \in [Runs -> Copy \cup {None}]
    /\ MadeHasCopy /\ HandsAreFull /\ StartIsAlone /\ StopIsActive /\ ActiveByName
    /\ NoLostRunner

\* The invariant speaks of the table, and of the runners, but not of both at once.
LEMMA InvParts == RecordsInv <=> TxTypeOK /\ Holding
  BY DEF RecordsInv, RecordsTypeOK, TxTypeOK, Holding, Transaction, Copy

\* It holds before any session is defined.
LEMMA InitInv == Init => RecordsInv
<1> SUFFICES ASSUME Init PROVE RecordsInv
  OBVIOUS
<1>1. TxTypeOK
  BY DEF Init, TxTypeOK, TxHasRecord
<1>2. Holding
  BY DEF Init, Holding, MadeHasCopy, HandsAreFull, StartIsAlone, StopIsActive, ActiveByName,
         NoLostRunner, Attached, Stages
<1> QED
  BY <1>1, <1>2, InvParts

\* Management calls leave runners alone.
LEMMA ClientInv ==
    ASSUME RecordsInv, NEW c \in Clients, ClientStep(c)
    PROVE  TxTypeOK' /\ UNCHANGED <<managerVars, runVars>>
<1> USE InvParts DEF Processes
<1>1. CASE DefineNewSession(c)
  <2>1. PICK i \in Ids, n \in Names, d \in {"PTY", "DOCKER"}, w \in BOOLEAN, v \in Commands :
           /\ table[i] = None
           /\ Called(n) = {}
           /\ "redefine" \in Ops \/ \A j \in Ids : table[j] # None => table[j].name # n
           /\ w => d = "DOCKER"
           /\ table' = [table EXCEPT ![i] = [name |-> n, state |-> "IDLE", driver |-> d,
                                             workspace |-> w, command |-> v]]
    BY <1>1, Zenon DEF DefineNewSession
  <2>2. [name |-> n, state |-> "IDLE", driver |-> d, workspace |-> w, command |-> v] \in Record
    BY DEF Record
  <2> QED
    BY <1>1, <2>1, <2>2 DEF DefineNewSession, TxTypeOK, TxHasRecord, Transaction
<1>2. CASE UpdateSessionCommand(c)
  <2>1. PICK i \in IdleOnes, v \in Commands : Read(c, i, [command |-> v])
    BY <1>2 DEF UpdateSessionCommand
  <2>2. [command |-> v] \in Change
    BY DEF Change
  <2> QED
    BY <1>2, <2>1, <2>2, ReadTypes, KnownIsRecord DEF UpdateSessionCommand, IdleOnes
<1>3. CASE UpdateSessionDriver(c)
  <2>1. PICK i \in IdleOnes, d \in {"PTY", "DOCKER"} :
           Read(c, i, [driver |-> d, workspace |-> table[i].workspace /\ d = "DOCKER"])
    BY <1>3 DEF UpdateSessionDriver
  <2>2. (table[i].workspace /\ d = "DOCKER") \in BOOLEAN
    OBVIOUS
  <2>3. [driver |-> d, workspace |-> table[i].workspace /\ d = "DOCKER"] \in Change
    BY <2>2 DEF Change
  <2> QED
    BY <1>3, <2>1, <2>3, ReadTypes, KnownIsRecord DEF UpdateSessionDriver, IdleOnes
<1>4. CASE UpdateSessionWorkspaceName(c)
  <2>1. PICK i \in IdleOnes, w \in BOOLEAN : Read(c, i, [workspace |-> w])
    BY <1>4 DEF UpdateSessionWorkspaceName
  <2>2. [workspace |-> w] \in Change
    BY DEF Change
  <2> QED
    BY <1>4, <2>1, <2>2, ReadTypes, KnownIsRecord DEF UpdateSessionWorkspaceName, IdleOnes
<1>5. CASE UpdateSessionName(c)
  <2>1. PICK i \in Known, n \in Names : Read(c, i, [name |-> n])
    BY <1>5 DEF UpdateSessionName
  <2>2. [name |-> n] \in Change
    BY DEF Change
  <2> QED
    BY <1>5, <2>1, <2>2, ReadTypes, KnownIsRecord DEF UpdateSessionName
<1>6. CASE DeleteSession(c)
  <2>1. PICK i \in IdleOnes : Read(c, i, [state |-> "GONE"])
    BY <1>6 DEF DeleteSession
  <2>2. [state |-> "GONE"] \in Change
    BY DEF Change
  <2> QED
    BY <1>6, <2>1, <2>2, ReadTypes, KnownIsRecord DEF DeleteSession, IdleOnes
<1>7. CASE EndUpdate(c)
  BY <1>7, WriteTypes, RollBackTypes DEF EndUpdate
<1> QED
  BY <1>1, <1>2, <1>3, <1>4, <1>5, <1>6, <1>7 DEF ClientStep

\* The transactions of the manager and of a runner keep their types.
LEMMA SystemTx ==
    ASSUME RecordsInv, ManagerStep \/ \E r \in Runs : RunnerStep(r)
    PROVE  TxTypeOK'
<1> USE InvParts DEF Processes
<1>1. [state |-> "IDLE"] \in Change /\ [state |-> "READY"] \in Change
  BY DEF Change
<1>2. ASSUME NEW n, NEW i \in Called(n)
      PROVE  i \in Ids /\ table[i] \in Record
  BY <1>2, KnownIsRecord DEF Called
<1>3. CASE UNCHANGED <<table, tx>>
  BY <1>3 DEF TxTypeOK, TxHasRecord
<1>4. CASE ManagerStep
  <2>1. CASE ReadToIdle
    BY <2>1, <1>1, <1>2, ReadTypes DEF ReadToIdle
  <2>2. CASE Forced \/ StartIsOver
    BY <2>2, <1>3, WriteTypes, RollBackTypes DEF Forced, StartIsOver
  <2> QED
    BY <1>3, <1>4, <2>1, <2>2
    DEF ManagerStep, HandleStart, CreateRunner, StartSucceeds, StartFails, HandleStop,
        StopAborted, CancelManager
<1>5. ASSUME NEW r \in Runs, RunnerStep(r) PROVE TxTypeOK'
  <2>1. CASE ReadToReady(r) \/ RunnerReadToIdle(r)
    BY <2>1, <1>1, <1>2, ReadTypes DEF ReadToReady, RunnerReadToIdle
  <2>2. CASE MarkReady(r) \/ MarkReadyFails(r) \/ MarkIdle(r) \/ MarkIdleFails(r)
    BY <2>2, <1>3, WriteTypes, RollBackTypes
    DEF MarkReady, MarkReadyFails, MarkIdle, MarkIdleFails
  <2> QED
    BY <1>3, <1>5, <2>1, <2>2 DEF RunnerStep, StartDriver, CommandEnds, WorkerEnds
<1> QED
  BY <1>4, <1>5

\* The manager lets go of a runner only to activeRunners, when it is down, or when the
\* context has ended.
LEMMA ManagerHolding ==
    ASSUME RecordsInv, ManagerStep
    PROVE  Holding'
<1> USE InvParts, RecordsAssumption
    DEF Holding, MadeHasCopy, HandsAreFull, StartIsAlone, StopIsActive, ActiveByName,
        NoLostRunner, Attached, Stages, Upcoming
<1>1. ASSUME NEW r \in Runs, HandleStart(r) PROVE Holding'
  <2>1. PICK i \in Known : active[table[i].name] = None /\ mname' = table[i].name
    BY <1>1 DEF HandleStart
  <2>2. table[i].name \in Names
    BY KnownIsRecord
  <2> QED
    BY <1>1, <2>1, <2>2 DEF HandleStart, runVars
<1>2. CASE ReadToIdle
  BY <1>2 DEF ReadToIdle, runVars
<1>3. CASE Forced
  BY <1>3 DEF Forced, runVars
<1>4. CASE StartIsOver
  BY <1>4 DEF StartIsOver, Rest, runVars
<1>5. CASE CreateRunner
  <2>1. PICK i \in Called(mname) :
           loaded' = [loaded EXCEPT ![mrun] = [id |-> i, name |-> mname,
                                               workspace |-> table[i].workspace]]
    BY <1>5 DEF CreateRunner
  <2>2. i \in Ids /\ table[i].workspace \in BOOLEAN
    BY <2>1, KnownIsRecord DEF Called, Record
  <2>3. [id |-> i, name |-> mname, workspace |-> table[i].workspace] \in Copy
    BY <1>5, <2>2 DEF Copy, CreateRunner
  <2> QED
    BY <1>5, <2>1, <2>3 DEF CreateRunner
<1>6. CASE StartSucceeds
  BY <1>6 DEF StartSucceeds, Rest, runVars
<1>7. CASE StartFails
  BY <1>7 DEF StartFails
<1>8. ASSUME NEW n \in Names, HandleStop(n) PROVE Holding'
  BY <1>8 DEF HandleStop
<1>9. CASE StopAborted
  BY <1>9 DEF StopAborted, Rest, runVars
<1>10. CASE CancelManager
  BY <1>10 DEF CancelManager, runVars
<1> QED
  BY <1>1, <1>2, <1>3, <1>4, <1>5, <1>6, <1>7, <1>8, <1>9, <1>10 DEF ManagerStep

\* A runner goes down only when the manager forgets it, or forgot it before.
LEMMA RunnerHolding ==
    ASSUME RecordsInv, NEW r \in Runs, RunnerStep(r)
    PROVE  Holding'
<1> USE InvParts, RecordsAssumption
    DEF Holding, MadeHasCopy, HandsAreFull, StartIsAlone, StopIsActive, ActiveByName,
        NoLostRunner, Attached, Stages, Upcoming, To, managerVars
<1>1. CASE StartDriver(r) \/ ReadToReady(r) \/ CommandEnds(r) \/ RunnerReadToIdle(r)
  BY <1>1 DEF StartDriver, ReadToReady, CommandEnds, RunnerReadToIdle
<1>2. CASE MarkReady(r) \/ MarkReadyFails(r)
  BY <1>2 DEF MarkReady, MarkReadyFails, Discarded
<1>5. CASE WorkerEnds(r)
  BY <1>5 DEF WorkerEnds, Discarded
<1>3. CASE MarkIdle(r)
  <2>1. stage[r] = "idling" /\ UNCHANGED loaded
    BY <1>3 DEF MarkIdle
  <2>2. CASE Stopping(r)
    <3>1. /\ stage' = [stage EXCEPT ![r] = "down"]
          /\ active' = [active EXCEPT ![mname] = None]
          /\ mpc' = "idle" /\ mname' = None /\ mrun' = None /\ mctx' = mctx
      BY <1>3, <2>2 DEF MarkIdle, Rest
    <3> QED
      BY <2>1, <2>2, <3>1 DEF Stopping
  <2>3. CASE ~Stopping(r)
    BY <1>3, <2>1, <2>3 DEF MarkIdle
  <2> QED
    BY <2>2, <2>3
<1>4. CASE MarkIdleFails(r)
  BY <1>4 DEF MarkIdleFails, Rest, Stopping
<1> QED
  BY <1>1, <1>2, <1>3, <1>4, <1>5 DEF RunnerStep

\* Every step preserves the invariant.
LEMMA NextInv == RecordsInv /\ [Next]_vars => RecordsInv'
<1> SUFFICES ASSUME RecordsInv, [Next]_vars PROVE TxTypeOK' /\ Holding'
  BY DEF RecordsInv, RecordsTypeOK, TxTypeOK, Holding, Transaction, Copy, Processes
<1>1. ASSUME UNCHANGED <<managerVars, runVars>> PROVE Holding'
  BY <1>1, InvParts
  DEF managerVars, runVars, Holding, MadeHasCopy, HandsAreFull, StartIsAlone, StopIsActive,
      ActiveByName, NoLostRunner, Attached
<1>2. CASE UNCHANGED vars
  BY <1>1, <1>2, InvParts DEF vars, TxTypeOK, TxHasRecord
<1>3. CASE ManagerStep
  BY <1>3, SystemTx, ManagerHolding
<1>4. ASSUME NEW c \in Clients, ClientStep(c) PROVE TxTypeOK' /\ Holding'
  BY <1>1, <1>4, ClientInv
<1>5. ASSUME NEW r \in Runs, RunnerStep(r) PROVE TxTypeOK' /\ Holding'
  BY <1>5, SystemTx, RunnerHolding
<1> QED
  BY <1>2, <1>3, <1>4, <1>5 DEF Next

-----------------------------------------------------------------------------
\* The columns of the table, the open transactions, and what manager and runners keep of
\* them, are of their types, for every isolation level and all management calls.
THEOREM RecordsTyped == Spec => []RecordsTypeOK
<1>1. RecordsInv => RecordsTypeOK
  BY DEF RecordsInv
<1> QED
  BY <1>1, InitInv, NextInv, PTL DEF Spec

\* HandleStopSession's promise to keep a runner that it could not stop (manager.go:856),
\* under every isolation level, and when sessions are renamed, deleted and defined again;
\* the clean-up of a start, which promises nothing, loses one only after the context's end,
\* and then one whose driver is not up.
THEOREM NoRunnerIsLost == Spec => []NoLostRunner
<1>1. RecordsInv => NoLostRunner
  BY DEF RecordsInv
<1> QED
  BY <1>1, InitInv, NextInv, PTL DEF Spec

-----------------------------------------------------------------------------
(* What holds when the transactions exclude each other, as those of SQLite do with  *)
(* _txlock=immediate: a decision is as good when it is written as it was when its   *)
(* record was read.                                                                 *)


\* What may be decided on a record: configuration changes while it is IDLE, and a
\* workspace is for DOCKER.
Allowed(record, change) ==
    /\ \/ change \in [state : {"IDLE", "READY", "GONE"}] \cup [name : Names]
       \/ record.state = "IDLE"
    /\ change \in [workspace : BOOLEAN] /\ change.workspace => record.driver = "DOCKER"
    /\ change \in [driver : {"PTY", "DOCKER"}, workspace : BOOLEAN] /\ change.workspace
          => change.driver = "DOCKER"

\* At most one transaction is open, and nothing has changed since it read its record.
Exclusive == \A p, q \in Processes : tx[p] # None /\ tx[q] # None => p = q

Fresh ==
    \A p \in Processes : tx[p] # None =>
        table[tx[p].id] # None /\ Allowed(table[tx[p].id], tx[p].set)

-----------------------------------------------------------------------------
(* Steps, as the table sees them.                                                   *)

Reads(p) ==
    \E i \in Ids, change \in Change :
        /\ Read(p, i, change)
        /\ table[i] \in Record /\ table[i] # None
        /\ Allowed(table[i], change)
        /\ UNCHANGED table

Defines ==
    /\ MayRead
    /\ \E i \in Ids, record \in Record :
          /\ table[i] = None
          /\ record.workspace => record.driver = "DOCKER"
          /\ table' = [table EXCEPT ![i] = record]
    /\ UNCHANGED tx

\* What a transaction reads is a change that it may decide on.
LEMMA ReadsRecord ==
    ASSUME TxTypeOK, NEW p \in Processes, NEW i \in Known, NEW change \in Change,
           Read(p, i, change), Allowed(table[i], change), UNCHANGED table
    PROVE  Reads(p)
  BY KnownIsRecord DEF Reads, Known

\* The changes, each of one kind.
LEMMA StateChange ==
    ASSUME NEW s \in {"IDLE", "READY", "GONE"}, NEW record
    PROVE  [state |-> s] \in Change /\ Allowed(record, [state |-> s])
  BY DEF Change, Allowed

LEMMA NameChange ==
    ASSUME NEW n \in Names, NEW record
    PROVE  [name |-> n] \in Change /\ Allowed(record, [name |-> n])
  BY DEF Change, Allowed

LEMMA CommandChange ==
    ASSUME NEW v \in Commands, NEW record, record.state = "IDLE"
    PROVE  [command |-> v] \in Change /\ Allowed(record, [command |-> v])
  BY DEF Change, Allowed

LEMMA WorkspaceChange ==
    ASSUME NEW w \in BOOLEAN, NEW record, record.state = "IDLE", w => record.driver = "DOCKER"
    PROVE  [workspace |-> w] \in Change /\ Allowed(record, [workspace |-> w])
  BY DEF Change, Allowed

LEMMA DriverChange ==
    ASSUME NEW d \in {"PTY", "DOCKER"}, NEW w \in BOOLEAN, NEW record,
           record.state = "IDLE", w => d = "DOCKER"
    PROVE  /\ [driver |-> d, workspace |-> w] \in Change
           /\ Allowed(record, [driver |-> d, workspace |-> w])
  BY DEF Change, Allowed

\* A management call reads, writes, rolls back or defines.
LEMMA ClientKinds ==
    ASSUME TxTypeOK, NEW c \in Clients, ClientStep(c)
    PROVE  Defines \/ Reads(c) \/ Write(c) \/ RollBack(c)
<1> USE DEF Processes
<1>1. CASE DefineNewSession(c)
  <2>1. PICK i \in Ids, n \in Names, d \in {"PTY", "DOCKER"}, w \in BOOLEAN, v \in Commands :
           /\ table[i] = None
           /\ Called(n) = {}
           /\ "redefine" \in Ops \/ \A j \in Ids : table[j] # None => table[j].name # n
           /\ w => d = "DOCKER"
           /\ table' = [table EXCEPT ![i] = [name |-> n, state |-> "IDLE", driver |-> d,
                                             workspace |-> w, command |-> v]]
    BY <1>1, Zenon DEF DefineNewSession
  <2>2. [name |-> n, state |-> "IDLE", driver |-> d, workspace |-> w, command |-> v] \in Record
    BY DEF Record
  <2> QED
    BY <1>1, <2>1, <2>2 DEF DefineNewSession, Defines
<1>2. CASE UpdateSessionCommand(c)
  <2>1. PICK i \in IdleOnes, v \in Commands : Read(c, i, [command |-> v])
    BY <1>2 DEF UpdateSessionCommand
  <2> QED
    BY <1>2, <2>1, CommandChange, ReadsRecord DEF UpdateSessionCommand, IdleOnes
<1>3. CASE UpdateSessionDriver(c)
  <2>1. PICK i \in IdleOnes, d \in {"PTY", "DOCKER"} :
           Read(c, i, [driver |-> d, workspace |-> table[i].workspace /\ d = "DOCKER"])
    BY <1>3 DEF UpdateSessionDriver
  <2> DEFINE w == table[i].workspace /\ d = "DOCKER"
  <2>2. w \in BOOLEAN /\ (w => d = "DOCKER")
    OBVIOUS
  <2>3. /\ [driver |-> d, workspace |-> w] \in Change
        /\ Allowed(table[i], [driver |-> d, workspace |-> w])
    <3> HIDE DEF w
    <3> QED
      BY <2>1, <2>2, DriverChange DEF IdleOnes
  <2> QED
    BY <1>3, <2>1, <2>3, ReadsRecord DEF UpdateSessionDriver, IdleOnes
<1>4. CASE UpdateSessionWorkspaceName(c)
  <2>1. PICK i \in IdleOnes, w \in BOOLEAN :
           (w => table[i].driver = "DOCKER") /\ Read(c, i, [workspace |-> w])
    BY <1>4 DEF UpdateSessionWorkspaceName
  <2> QED
    BY <1>4, <2>1, WorkspaceChange, ReadsRecord DEF UpdateSessionWorkspaceName, IdleOnes
<1>5. CASE UpdateSessionName(c)
  <2>1. PICK i \in Known, n \in Names : Read(c, i, [name |-> n])
    BY <1>5 DEF UpdateSessionName
  <2> QED
    BY <1>5, <2>1, NameChange, ReadsRecord DEF UpdateSessionName
<1>6. CASE DeleteSession(c)
  <2>1. PICK i \in IdleOnes : Read(c, i, [state |-> "GONE"])
    BY <1>6 DEF DeleteSession
  <2> QED
    BY <1>6, <2>1, StateChange, ReadsRecord DEF DeleteSession, IdleOnes
<1>7. CASE EndUpdate(c)
  BY <1>7 DEF EndUpdate
<1> QED
  BY <1>1, <1>2, <1>3, <1>4, <1>5, <1>6, <1>7 DEF ClientStep

\* The manager and the runners change states only.
LEMMA SystemKinds ==
    ASSUME TxTypeOK, ManagerStep \/ \E r \in Runs : RunnerStep(r)
    PROVE  \/ UNCHANGED <<table, tx>>
           \/ \E p \in Processes : Reads(p) \/ Write(p) \/ RollBack(p)
<1> USE DEF Processes
<1>1. CASE ManagerStep
  <2>1. CASE ReadToIdle
    BY <2>1, StateChange, ReadsRecord DEF ReadToIdle, Called
  <2>2. CASE Forced \/ StartIsOver
    BY <2>2 DEF Forced, StartIsOver
  <2> QED
    BY <1>1, <2>1, <2>2
    DEF ManagerStep, HandleStart, CreateRunner, StartSucceeds, StartFails, HandleStop,
        StopAborted, CancelManager
<1>2. ASSUME NEW r \in Runs, RunnerStep(r)
      PROVE  UNCHANGED <<table, tx>> \/ Reads(r) \/ Write(r) \/ RollBack(r)
  <2>1. CASE ReadToReady(r) \/ RunnerReadToIdle(r)
    BY <2>1, StateChange, ReadsRecord DEF ReadToReady, RunnerReadToIdle, Called
  <2>2. CASE MarkReady(r) \/ MarkReadyFails(r) \/ MarkIdle(r) \/ MarkIdleFails(r)
    BY <2>2 DEF MarkReady, MarkReadyFails, MarkIdle, MarkIdleFails
  <2> QED
    BY <1>2, <2>1, <2>2 DEF RunnerStep, StartDriver, CommandEnds, WorkerEnds
<1> QED
  BY <1>1, <1>2

LEMMA StepKinds ==
    ASSUME TxTypeOK, [Next]_vars
    PROVE  \/ UNCHANGED <<table, tx>>
           \/ Defines
           \/ \E p \in Processes : Reads(p) \/ Write(p) \/ RollBack(p)
  BY ClientKinds, SystemKinds DEF Next, vars, Processes

-----------------------------------------------------------------------------
(* The invariant.                                                                   *)

\* What a write does to the columns that are not the state and the name.
LEMMA WrittenColumns ==
    ASSUME NEW record \in Record, NEW change \in Change, Allowed(record, change)
    PROVE  LET after == Written(record, change) IN
           /\ (record.workspace => record.driver = "DOCKER")
                 => (after.workspace => after.driver = "DOCKER")
           /\ record.state # "IDLE" =>
                 \A c \in {"driver", "workspace", "command"} : after[c] = record[c]
<1>1. CASE change \in [state : {"IDLE", "READY", "GONE"}]
  BY <1>1 DEF Written, Record
<1>2. CASE change \in [name : Names]
  BY <1>2 DEF Written, Record
<1>3. CASE change \in [command : Commands] /\ record.state = "IDLE"
  BY <1>3 DEF Written, Record
<1>4. CASE change \in [workspace : BOOLEAN] /\ record.state = "IDLE"
  BY <1>4 DEF Written, Record, Allowed
<1>5. CASE change \in [driver : {"PTY", "DOCKER"}, workspace : BOOLEAN]
           /\ record.state = "IDLE"
  BY <1>5 DEF Written, Record, Allowed
<1> QED
  BY <1>1, <1>2, <1>3, <1>4, <1>5 DEF Change, Allowed

\* A write, seen from the table.
LEMMA WriteTable ==
    ASSUME TxTypeOK, Fresh, NEW p \in Processes, Write(p)
    PROVE  LET i == tx[p].id IN
           /\ i \in Ids
           /\ table[i] \in Record /\ table[i] # None /\ tx[p].set \in Change
           /\ Allowed(table[i], tx[p].set)
           /\ table' = [table EXCEPT ![i] = Written(table[i], tx[p].set)]
           /\ tx' = [tx EXCEPT ![p] = None]
  BY DEF TxTypeOK, TxHasRecord, Transaction, Write, Fresh

\* While a transaction is open nobody else reads, and so nobody else writes.
LEMMA ExclusiveNext ==
    ASSUME Isolation = "immediate", TxTypeOK, Exclusive, Fresh, [Next]_vars
    PROVE  Exclusive' /\ Fresh'
<1>1. CASE UNCHANGED <<table, tx>>
  BY <1>1 DEF Exclusive, Fresh
<1>2. CASE Defines
  BY <1>2 DEF Defines, MayRead, Exclusive, Fresh
<1>3. ASSUME NEW p \in Processes, Reads(p) PROVE Exclusive' /\ Fresh'
  <2>1. PICK i \in Ids, change \in Change :
           /\ Read(p, i, change)
           /\ table[i] # None /\ Allowed(table[i], change)
           /\ UNCHANGED table
    BY <1>3 DEF Reads
  <2>2. /\ \A q \in Processes : tx[q] = None
        /\ tx' = [tx EXCEPT ![p] = [id |-> i, set |-> change]]
    BY <2>1 DEF Read, MayRead
  <2>3. \A q \in Processes : q # p => tx'[q] = None
    BY <2>2
  <2>4. tx'[p].id = i /\ tx'[p].set = change
    BY <2>2 DEF TxTypeOK
  <2> QED
    BY <2>1, <2>3, <2>4 DEF Exclusive, Fresh
<1>4. ASSUME NEW p \in Processes, Write(p) \/ RollBack(p) PROVE Exclusive' /\ Fresh'
  <2>1. \A q \in Processes : tx'[q] = None
    BY <1>4 DEF Write, RollBack, Exclusive, TxTypeOK
  <2> QED
    BY <2>1 DEF Exclusive, Fresh
<1> QED
  BY <1>1, <1>2, <1>3, <1>4, StepKinds

\* No write gives a workspace to a session that is not DOCKER any more.
LEMMA WorkspaceNext ==
    ASSUME TxTypeOK, Fresh, WorkspaceNeedsDocker, [Next]_vars
    PROVE  WorkspaceNeedsDocker'
<1>1. CASE UNCHANGED table
  BY <1>1 DEF WorkspaceNeedsDocker
<1>2. CASE Defines
  BY <1>2 DEF Defines, WorkspaceNeedsDocker, TxTypeOK
<1>3. ASSUME NEW p \in Processes, Write(p) PROVE WorkspaceNeedsDocker'
  <2> DEFINE i == tx[p].id
             after == Written(table[i], tx[p].set)
  <2>1. i \in Ids /\ table[i] \in Record /\ table' = [table EXCEPT ![i] = after]
    BY <1>3, WriteTable
  <2>2. table[i].workspace => table[i].driver = "DOCKER"
    BY <1>3, <2>1, WriteTable DEF WorkspaceNeedsDocker
  <2>3. after.workspace => after.driver = "DOCKER"
    BY <1>3, <2>2, WriteTable, WrittenColumns
  <2> HIDE DEF i, after
  <2> QED
    BY <2>1, <2>3 DEF WorkspaceNeedsDocker, TxTypeOK
<1> QED
  BY <1>1, <1>2, <1>3, StepKinds DEF Reads, RollBack

\* No write changes what a session runs when its record is not IDLE.
LEMMA IdleNext ==
    ASSUME TxTypeOK, Fresh, [Next]_vars, NEW i \in Ids, table[i] # None, table'[i] # table[i]
    PROVE  \/ table[i].state = "IDLE"
           \/ \A c \in {"driver", "workspace", "command"} : table'[i][c] = table[i][c]
<1>1. PICK p \in Processes : Write(p)
  BY StepKinds DEF Reads, RollBack, Defines, TxTypeOK
<1>2. i = tx[p].id
  BY <1>1, WriteTable DEF TxTypeOK
<1>3. table'[i] = Written(table[i], tx[p].set)
  BY <1>1, <1>2, WriteTable DEF TxTypeOK
<1> QED
  BY <1>1, <1>2, <1>3, WriteTable, WrittenColumns

-----------------------------------------------------------------------------
\* What both theorems rest on.
LEMMA ExclusiveAlways ==
    ASSUME Isolation = "immediate"
    PROVE  Spec => [](TxTypeOK /\ Exclusive /\ Fresh)
<1>1. Init => Exclusive /\ Fresh
  BY DEF Init, Exclusive, Fresh
<1>2. TxTypeOK /\ Exclusive /\ Fresh /\ [Next]_vars => Exclusive' /\ Fresh'
  BY ExclusiveNext
<1>3. RecordsInv => TxTypeOK
  BY InvParts
<1> QED
  BY <1>1, <1>2, <1>3, InitInv, NextInv, PTL DEF Spec

\* Under SQLite's immediate transactions a session with a workspace is a DOCKER session,
\* however many clients change driver and workspace at once.
THEOREM WorkspacesAreDockers ==
    ASSUME Isolation = "immediate"
    PROVE  Spec => []WorkspaceNeedsDocker
<1>1. Init => WorkspaceNeedsDocker
  BY DEF Init, WorkspaceNeedsDocker
<1>2. TxTypeOK /\ Fresh /\ WorkspaceNeedsDocker /\ [Next]_vars => WorkspaceNeedsDocker'
  BY WorkspaceNext
<1> QED
  BY <1>1, <1>2, ExclusiveAlways, PTL DEF Spec

\* Under the same transactions driver, workspace and command change only while the record
\* is IDLE: what was read before a start is not written after it.
THEOREM OnlyIdleSessionsChange ==
    ASSUME Isolation = "immediate"
    PROVE  Spec => OnlyIdleChanges
<1> DEFINE Same == \A i \in Ids :
              table[i] # None /\ table'[i] # table[i] =>
                 \/ table[i].state = "IDLE"
                 \/ \A c \in {"driver", "workspace", "command"} : table'[i][c] = table[i][c]
<1>1. TxTypeOK /\ Fresh /\ [Next]_vars => [Same]_vars
  BY IdleNext
<1> QED
  BY <1>1, ExclusiveAlways, PTL DEF Spec, OnlyIdleChanges

-----------------------------------------------------------------------------
(* Who is attached to which record, when no session is renamed in somebody's hands. *)

\* The columns that sessions are found by.
LEMMA WrittenKeys ==
    ASSUME NEW record \in Record, NEW change \in Change
    PROVE  LET after == Written(record, change) IN
           /\ record.state = "GONE" => after = record
           /\ change \notin [name : Names] => after.name = record.name
           /\ change \notin [state : {"IDLE", "READY", "GONE"}] => after.state = record.state
           /\ record.state # "GONE" /\ change \in [name : Names] => after.name = change.name
           /\ record.state # "GONE" /\ change \in [state : {"IDLE", "READY", "GONE"}] =>
                 after.state = change.state
<1>1. CASE record.state = "GONE"
  BY <1>1 DEF Written
<1>2. CASE record.state # "GONE"
  <2>1. CASE change \in [state : {"IDLE", "READY", "GONE"}]
    BY <1>2, <2>1 DEF Written, Record
  <2>2. CASE change \in [name : Names]
    BY <1>2, <2>2 DEF Written, Record
  <2>3. CASE change \in [command : Commands]
    BY <1>2, <2>3 DEF Written, Record
  <2>4. CASE change \in [workspace : BOOLEAN]
    BY <1>2, <2>4 DEF Written, Record
  <2>5. CASE change \in [driver : {"PTY", "DOCKER"}, workspace : BOOLEAN]
    BY <1>2, <2>5 DEF Written, Record
  <2> QED
    BY <2>1, <2>2, <2>3, <2>4, <2>5 DEF Change
<1> QED
  BY <1>1, <1>2

\* The open transactions that write a name, and those that write a state.
Renames(p) == tx[p] # None /\ tx[p].set \in [name : Names]

Marks(p) == tx[p] # None /\ tx[p].set \in [state : {"IDLE", "READY", "GONE"}]

\* What a write changes: one record, and there the name, the state or neither.
LEMMA WriteKeys ==
    ASSUME TxTypeOK, Exclusive, NEW p \in Processes, Write(p)
    PROVE  LET i == tx[p].id IN
           /\ i \in Ids /\ table[i] \in Record /\ table'[i] \in Record
           /\ \A j \in Ids : j # i => table'[j] = table[j]
           /\ \A q \in Processes : tx'[q] = None /\ (q # p => tx[q] = None)
           /\ table[i].state = "GONE" => table'[i] = table[i]
           /\ ~Renames(p) => table'[i].name = table[i].name
           /\ ~Marks(p) => table'[i].state = table[i].state
           /\ table[i].state # "GONE" /\ Renames(p) => table'[i].name = tx[p].set.name
           /\ table[i].state # "GONE" /\ Marks(p) => table'[i].state = tx[p].set.state
<1> DEFINE i == tx[p].id
<1>1. /\ i \in Ids /\ table[i] \in Record /\ tx[p].set \in Change /\ tx[p] # None
      /\ table' = [table EXCEPT ![i] = Written(table[i], tx[p].set)]
      /\ tx' = [tx EXCEPT ![p] = None]
  BY DEF TxTypeOK, TxHasRecord, Transaction, Write
<1>2. Written(table[i], tx[p].set) \in Record
  BY <1>1, WrittenIsRecord
<1>3. table'[i] = Written(table[i], tx[p].set) /\ \A j \in Ids : j # i => table'[j] = table[j]
  BY <1>1 DEF TxTypeOK
<1>4. \A q \in Processes : tx'[q] = None /\ (q # p => tx[q] = None)
  BY <1>1 DEF Exclusive, TxTypeOK
<1> QED
  BY <1>1, <1>2, <1>3, <1>4, WrittenKeys DEF Renames, Marks

\* A new session, with a name that nobody has.
DefinesFresh ==
    /\ MayRead
    /\ \E i \in Ids, record \in Record :
          /\ table[i] = None
          /\ record.state = "IDLE"
          /\ Called(record.name) = {}
          /\ "redefine" \in Ops \/ \A j \in Ids : table[j] # None => table[j].name # record.name
          /\ table' = [table EXCEPT ![i] = record]
    /\ UNCHANGED tx

\* What a management call decides when it reads a record.
ReadsToUpdate(c) ==
    \E i \in Known, change \in Change :
        /\ Read(c, i, change)
        /\ change \in [name : Names] => AtRest(i)
        /\ change \in [state : {"IDLE", "READY", "GONE"}] =>
              change.state = "GONE" /\ table[i].state = "IDLE"
        /\ UNCHANGED table

\* The management calls, when sessions are renamed at rest only.
LEMMA ClientSteps ==
    ASSUME RecordsInv, "rename" \notin Ops, NEW c \in Clients, ClientStep(c)
    PROVE  /\ UNCHANGED <<managerVars, runVars>>
           /\ DefinesFresh \/ ReadsToUpdate(c) \/ Write(c) \/ RollBack(c)
<1> USE DEF Processes
<1>0. UNCHANGED <<managerVars, runVars>>
  BY ClientInv
<1>1. CASE DefineNewSession(c)
  <2>1. PICK i \in Ids, n \in Names, d \in {"PTY", "DOCKER"}, w \in BOOLEAN, v \in Commands :
           /\ table[i] = None
           /\ Called(n) = {}
           /\ "redefine" \in Ops \/ \A j \in Ids : table[j] # None => table[j].name # n
           /\ w => d = "DOCKER"
           /\ table' = [table EXCEPT ![i] = [name |-> n, state |-> "IDLE", driver |-> d,
                                             workspace |-> w, command |-> v]]
    BY <1>1, Zenon DEF DefineNewSession
  <2>2. PICK record : record = [name |-> n, state |-> "IDLE", driver |-> d, workspace |-> w,
                                command |-> v]
    OBVIOUS
  <2>3. record \in Record /\ record.name = n /\ record.state = "IDLE"
    BY <2>2 DEF Record
  <2> QED
    BY <1>0, <1>1, <2>1, <2>2, <2>3 DEF DefineNewSession, DefinesFresh
<1>2. CASE UpdateSessionCommand(c)
  <2>1. PICK i \in IdleOnes, v \in Commands : Read(c, i, [command |-> v])
    BY <1>2 DEF UpdateSessionCommand
  <2>2. /\ [command |-> v] \in Change /\ [command |-> v] \notin [name : Names]
        /\ [command |-> v] \notin [state : {"IDLE", "READY", "GONE"}]
    BY DEF Change
  <2> QED
    BY <1>0, <1>2, <2>1, <2>2 DEF UpdateSessionCommand, IdleOnes, ReadsToUpdate
<1>3. CASE UpdateSessionDriver(c)
  <2>1. PICK i \in IdleOnes, d \in {"PTY", "DOCKER"} :
           Read(c, i, [driver |-> d, workspace |-> table[i].workspace /\ d = "DOCKER"])
    BY <1>3 DEF UpdateSessionDriver
  <2>2. PICK w \in BOOLEAN : w = (table[i].workspace /\ d = "DOCKER")
    OBVIOUS
  <2>3. /\ [driver |-> d, workspace |-> w] \in Change
        /\ [driver |-> d, workspace |-> w] \notin [name : Names]
        /\ [driver |-> d, workspace |-> w] \notin [state : {"IDLE", "READY", "GONE"}]
    BY DEF Change
  <2> QED
    BY <1>0, <1>3, <2>1, <2>2, <2>3 DEF UpdateSessionDriver, IdleOnes, ReadsToUpdate
<1>4. CASE UpdateSessionWorkspaceName(c)
  <2>1. PICK i \in IdleOnes, w \in BOOLEAN : Read(c, i, [workspace |-> w])
    BY <1>4 DEF UpdateSessionWorkspaceName
  <2>2. /\ [workspace |-> w] \in Change /\ [workspace |-> w] \notin [name : Names]
        /\ [workspace |-> w] \notin [state : {"IDLE", "READY", "GONE"}]
    BY DEF Change
  <2> QED
    BY <1>0, <1>4, <2>1, <2>2 DEF UpdateSessionWorkspaceName, IdleOnes, ReadsToUpdate
<1>5. CASE UpdateSessionName(c)
  <2>1. PICK i \in Known, n \in Names : AtRest(i) /\ Read(c, i, [name |-> n])
    BY <1>5 DEF UpdateSessionName
  <2>2. [name |-> n] \in Change /\ [name |-> n] \notin [state : {"IDLE", "READY", "GONE"}]
    BY DEF Change
  <2> QED
    BY <1>0, <1>5, <2>1, <2>2 DEF UpdateSessionName, ReadsToUpdate
<1>6. CASE DeleteSession(c)
  <2>1. PICK i \in IdleOnes : Read(c, i, [state |-> "GONE"])
    BY <1>6 DEF DeleteSession
  <2>2. [state |-> "GONE"] \in Change /\ [state |-> "GONE"] \notin [name : Names]
    BY DEF Change
  <2> QED
    BY <1>0, <1>6, <2>1, <2>2 DEF DeleteSession, IdleOnes, ReadsToUpdate
<1>7. CASE EndUpdate(c)
  BY <1>0, <1>7 DEF EndUpdate
<1> QED
  BY <1>1, <1>2, <1>3, <1>4, <1>5, <1>6, <1>7 DEF ClientStep

\* The record of an attached runner keeps the name that the runner was made with, and no
\* open transaction is about to change it.
KeepsName ==
    \A r \in Runs : Attached(r) =>
        /\ loaded[r] \in Copy
        /\ table[loaded[r].id] \in Record
        /\ table[loaded[r].id].name = loaded[r].name

RenamesAtRest ==
    \A p \in Processes : Renames(p) => \A r \in Runs : Attached(r) => loaded[r].id # tx[p].id

Bound == KeepsName /\ RenamesAtRest

\* Nobody becomes attached by the way.
NoneAttaches == \A r \in Runs : Attached(r)' => Attached(r) /\ loaded'[r] = loaded[r]

LEMMA BoundStays ==
    ASSUME TxTypeOK, Exclusive, Bound, NoneAttaches,
           \/ UNCHANGED <<table, tx>>
           \/ DefinesFresh
           \/ \E p \in Processes : Write(p) \/ RollBack(p)
    PROVE  Bound'
<1>1. CASE UNCHANGED <<table, tx>>
  BY <1>1 DEF Bound, KeepsName, RenamesAtRest, Renames, NoneAttaches
<1>2. CASE DefinesFresh
  <2>1. PICK i \in Ids, record \in Record : table[i] = None /\ table' = [table EXCEPT ![i] = record]
    BY <1>2 DEF DefinesFresh
  <2>2. \A j \in Ids : table[j] \in Record => table'[j] = table[j]
    BY <2>1, NoneAssumption DEF TxTypeOK
  <2>3. KeepsName'
    BY <2>2 DEF Bound, KeepsName, NoneAttaches, Copy
  <2> QED
    BY <1>2, <2>3 DEF DefinesFresh, Bound, RenamesAtRest, Renames, NoneAttaches
<1>3. ASSUME NEW p \in Processes, RollBack(p) PROVE Bound'
  <2>1. UNCHANGED table /\ \A q \in Processes : tx'[q] = tx[q] \/ tx'[q] = None
    BY <1>3 DEF RollBack, TxTypeOK
  <2> QED
    BY <2>1 DEF Bound, KeepsName, RenamesAtRest, Renames, NoneAttaches
<1>4. ASSUME NEW p \in Processes, Write(p) PROVE Bound'
  <2>1. RenamesAtRest'
    BY <1>4, WriteKeys DEF RenamesAtRest, Renames
  <2>2. ASSUME NEW r \in Runs, Attached(r)
        PROVE  table'[loaded[r].id] \in Record /\ table'[loaded[r].id].name = loaded[r].name
    <3>1. /\ loaded[r].id \in Ids /\ table[loaded[r].id] \in Record
          /\ table[loaded[r].id].name = loaded[r].name
      BY <2>2 DEF Bound, KeepsName, Copy
    <3>2. CASE loaded[r].id # tx[p].id
      BY <1>4, <3>1, <3>2, WriteKeys
    <3>3. CASE loaded[r].id = tx[p].id
      <4>1. ~Renames(p)
        BY <2>2, <3>3 DEF Bound, RenamesAtRest
      <4> QED
        BY <1>4, <3>1, <3>3, <4>1, WriteKeys
    <3> QED
      BY <3>2, <3>3
  <2>3. KeepsName'
    BY <2>2 DEF Bound, KeepsName, NoneAttaches
  <2> QED
    BY <2>1, <2>3 DEF Bound
<1> QED
  BY <1>1, <1>2, <1>3, <1>4

\* A transaction that reads a record to write its state renames nothing, and one that
\* renames it is nobody's.
LEMMA BoundReads ==
    ASSUME TxTypeOK, Bound, NoneAttaches, NEW p \in Processes, NEW i \in Ids,
           NEW change \in Change, Read(p, i, change), UNCHANGED table,
           change \in [name : Names] => \A r \in Runs : Attached(r) => loaded[r].id # i
    PROVE  Bound'
<1>1. KeepsName'
  BY DEF Bound, KeepsName, NoneAttaches
<1>2. \A q \in Processes : q # p => tx'[q] = tx[q]
  BY DEF Read, TxTypeOK
<1>3. tx'[p].id = i /\ tx'[p].set = change
  BY DEF Read, TxTypeOK
<1>4. RenamesAtRest'
  BY <1>2, <1>3 DEF Bound, RenamesAtRest, Renames, NoneAttaches
<1> QED
  BY <1>1, <1>4 DEF Bound

LEMMA BoundNext ==
    ASSUME Isolation = "immediate", "rename" \notin Ops, RecordsInv, Exclusive, Bound,
           [Next]_vars
    PROVE  Bound'
<1> USE DEF Processes
<1>0. TxTypeOK /\ Holding
  BY InvParts
<1>1. ASSUME UNCHANGED runVars PROVE NoneAttaches
  BY <1>1 DEF runVars, NoneAttaches, Attached
<1>2. ASSUME NEW c \in Clients, ClientStep(c) PROVE Bound'
  <2>1. NoneAttaches /\ (DefinesFresh \/ ReadsToUpdate(c) \/ Write(c) \/ RollBack(c))
    BY <1>1, <1>2, ClientSteps
  <2>2. CASE ReadsToUpdate(c)
    <3>1. PICK i \in Known, change \in Change :
             Read(c, i, change) /\ (change \in [name : Names] => AtRest(i)) /\ UNCHANGED table
      BY <2>2 DEF ReadsToUpdate
    <3> QED
      BY <1>0, <2>1, <3>1, BoundReads DEF AtRest, Known
  <2> QED
    BY <1>0, <2>1, <2>2, BoundStays
<1>3. [state |-> "IDLE"] \in Change \ [name : Names] /\ [state |-> "READY"] \in Change \ [name : Names]
  BY DEF Change
<1>4. CASE ManagerStep
  <2>1. CASE ReadToIdle
    BY <1>0, <1>1, <1>3, <2>1, BoundReads DEF ReadToIdle, Called, Known
  <2>2. CASE CreateRunner
    <3>1. /\ \A p \in Processes : tx'[p] = None
          /\ UNCHANGED table /\ mrun \in Runs
          /\ stage' = [stage EXCEPT ![mrun] = "start"]
      BY <1>0, <2>2 DEF CreateRunner, MayRead, Holding, HandsAreFull
    <3>2. PICK i \in Called(mname) :
           loaded' = [loaded EXCEPT ![mrun] = [id |-> i, name |-> mname,
                                               workspace |-> table[i].workspace]]
      BY <2>2 DEF CreateRunner
    <3>3. i \in Ids /\ table[i] \in Record /\ table[i].name = mname /\ mname \in Names
      BY <1>0, <2>2, KnownIsRecord DEF Called, CreateRunner, Holding, HandsAreFull
    <3>4. loaded'[mrun] = [id |-> i, name |-> mname, workspace |-> table[i].workspace]
      BY <1>0, <3>1, <3>2 DEF Holding
    <3>5. loaded'[mrun] \in Copy /\ table'[loaded'[mrun].id] \in Record
          /\ table'[loaded'[mrun].id].name = loaded'[mrun].name
      BY <3>1, <3>3, <3>4 DEF Copy, Record
    <3>6. \A r \in Runs : r # mrun => loaded'[r] = loaded[r] /\ stage'[r] = stage[r]
      BY <1>0, <3>1, <3>2 DEF Holding
    <3>7. KeepsName'
      BY <3>1, <3>5, <3>6 DEF Bound, KeepsName, Attached
    <3>8. RenamesAtRest'
      BY <3>1 DEF RenamesAtRest, Renames
    <3> QED
      BY <3>7, <3>8 DEF Bound
  <2>3. CASE Forced \/ StartIsOver
    BY <1>0, <1>1, <2>3, BoundStays DEF Forced, StartIsOver
  <2>4. CASE ~ReadToIdle /\ ~CreateRunner /\ ~Forced /\ ~StartIsOver
    <3>1. UNCHANGED <<table, tx>>
      BY <1>4, <2>4
         DEF ManagerStep, HandleStart, StartSucceeds, StartFails, HandleStop, StopAborted,
             CancelManager
    <3>2. NoneAttaches
      <4>1. CASE StartFails
        BY <1>0, <4>1 DEF StartFails, NoneAttaches, Attached, Holding
      <4>2. ASSUME NEW n \in Names, HandleStop(n) PROVE NoneAttaches
        BY <1>0, <4>2 DEF HandleStop, NoneAttaches, Attached, Holding
      <4> QED
        BY <1>1, <1>4, <2>4, <4>1, <4>2
           DEF ManagerStep, HandleStart, StartSucceeds, StopAborted, CancelManager
    <3> QED
      BY <1>0, <3>1, <3>2, BoundStays
  <2> QED
    BY <2>1, <2>2, <2>3, <2>4
<1>5. ASSUME NEW r \in Runs, RunnerStep(r) PROVE Bound'
  <2>1. NoneAttaches
    BY <1>0, <1>5
       DEF RunnerStep, StartDriver, ReadToReady, MarkReady, MarkReadyFails, CommandEnds,
           RunnerReadToIdle, MarkIdle, MarkIdleFails, WorkerEnds, To, NoneAttaches, Attached,
           Holding
  <2>2. CASE ReadToReady(r) \/ RunnerReadToIdle(r)
    BY <1>0, <1>3, <2>1, <2>2, BoundReads DEF ReadToReady, RunnerReadToIdle, Called, Known
  <2>3. CASE ~ReadToReady(r) /\ ~RunnerReadToIdle(r)
    BY <1>0, <1>5, <2>1, <2>3, BoundStays
       DEF RunnerStep, StartDriver, MarkReady, MarkReadyFails, CommandEnds, MarkIdle,
           MarkIdleFails, WorkerEnds
  <2> QED
    BY <2>2, <2>3
<1>6. CASE UNCHANGED vars
  BY <1>0, <1>1, <1>6, BoundStays DEF vars
<1> QED
  BY <1>2, <1>4, <1>5, <1>6 DEF Next

\* The manager's context does not come back.
LEMMA ContextEnds == ASSUME RecordsInv, [Next]_vars, mctx' PROVE mctx
<1>1. CASE UNCHANGED mctx
  BY <1>1
<1>2. ASSUME NEW c \in Clients, ClientStep(c) PROVE UNCHANGED mctx
  BY <1>2, ClientInv DEF managerVars
<1>3. CASE ManagerStep
  BY <1>3 DEF ManagerStep, HandleStart, ReadToIdle, Forced, CreateRunner, StartIsOver,
              StartFails, StartSucceeds, HandleStop, StopAborted, CancelManager
<1>4. ASSUME NEW r \in Runs, RunnerStep(r) PROVE UNCHANGED mctx
  BY <1>4 DEF RunnerStep, StartDriver, ReadToReady, MarkReady, MarkReadyFails, CommandEnds,
              RunnerReadToIdle, MarkIdle, MarkIdleFails, WorkerEnds, Rest, managerVars
<1> QED
  BY <1>1, <1>2, <1>3, <1>4 DEF Next, vars, managerVars

\* Attached runners were made with different names, but for those that nobody waited for;
\* a runner that is made beside one of them does not start.
Beside ==
    \A r, s \in Runs :
        r # s /\ Attached(r) /\ Attached(s) /\ loaded[r].name = loaded[s].name =>
            ~mctx /\ (Discarded(r) \/ stage[r] \in {"start", "failed"})

\* Who is discarded stays so, and who is not had been waited for.
LEMMA DiscardedRunners ==
    ASSUME RecordsInv, NEW r \in Runs, Attached(r)
    PROVE  /\ Discarded(r) => ~mctx /\ stage[r] # "up"
           /\ ~Discarded(r) => active[loaded[r].name] = r \/ (mpc = "start" /\ mrun = r)
<1>1. active[loaded[r].name] = r \/ mrun = r \/ (~mctx /\ stage[r] # "up")
  BY DEF RecordsInv, NoLostRunner
<1>2. mrun = r => mpc \in {"start", "stop", "restore", "restoring"}
  BY RecordsAssumption DEF RecordsInv, RecordsTypeOK, HandsAreFull, StartIsAlone, Attached
<1>3. mrun = r /\ mpc = "stop" => active[loaded[r].name] = r
  BY RecordsAssumption DEF RecordsInv, HandsAreFull, StopIsActive, ActiveByName
<1>4. mrun = r /\ mpc \in {"restore", "restoring"} => ~mctx /\ stage[r] # "up"
  BY DEF RecordsInv, StartIsAlone, Attached
<1> QED
  BY <1>1, <1>2, <1>3, <1>4, RecordsAssumption
     DEF Discarded, RecordsInv, RecordsTypeOK, HandsAreFull

\* So a runner that is up is the only one of its name.
LEMMA UpIsAlone ==
    ASSUME RecordsInv, Beside, NEW r \in Runs, NEW s \in Runs, stage[r] = "up", Attached(s),
           loaded[r].name = loaded[s].name
    PROVE  r = s
  BY DiscardedRunners DEF Beside, Attached

\* Only a runner that is made becomes attached.
LEMMA WhoAttaches ==
    ASSUME RecordsInv, [Next]_vars, NEW r \in Runs, Attached(r)'
    PROVE  \/ Attached(r) /\ loaded'[r] = loaded[r]
           \/ CreateRunner /\ r = mrun
<1>0. /\ stage \in [Runs -> Stages] /\ loaded \in [Runs -> Copy \cup {None}]
      /\ HandsAreFull /\ StartIsAlone /\ active \in [Names -> Runs \cup {None}] /\ ActiveByName
  BY DEF RecordsInv, RecordsTypeOK, Copy
<1> USE DEF Attached
<1>1. CASE UNCHANGED <<managerVars, runVars>>
  BY <1>1 DEF managerVars, runVars
<1>2. ASSUME NEW c \in Clients, ClientStep(c) PROVE UNCHANGED <<managerVars, runVars>>
  BY <1>2, ClientInv
<1>3. CASE ManagerStep
  <2>1. CASE CreateRunner
    <3>1. PICK copy : loaded' = [loaded EXCEPT ![mrun] = copy]
      BY <2>1 DEF CreateRunner
    <3> QED
      BY <1>0, <2>1, <3>1 DEF CreateRunner, HandsAreFull
  <2>2. CASE StartFails
    BY <1>0, <2>2 DEF StartFails, HandsAreFull, StartIsAlone
  <2>3. ASSUME NEW n \in Names, HandleStop(n) PROVE Attached(r) /\ loaded'[r] = loaded[r]
    BY <1>0, <2>3 DEF HandleStop
  <2> QED
    BY <1>3, <2>1, <2>2, <2>3
       DEF ManagerStep, HandleStart, ReadToIdle, Forced, StartIsOver, StartSucceeds,
           StopAborted, CancelManager, Rest, runVars
<1>4. ASSUME NEW s \in Runs, RunnerStep(s) PROVE Attached(r) /\ loaded'[r] = loaded[r]
  BY <1>0, <1>4
     DEF RunnerStep, StartDriver, ReadToReady, MarkReady, MarkReadyFails, CommandEnds,
         RunnerReadToIdle, MarkIdle, MarkIdleFails, WorkerEnds, To, Rest, managerVars
<1> QED
  BY <1>1, <1>2, <1>3, <1>4 DEF Next, vars, managerVars, runVars

\* When the context has ended, what is discarded or not started remains so.
LEMMA BesideStays ==
    ASSUME RecordsInv, [Next]_vars, ~mctx, NEW r \in Runs, Attached(r), Attached(r)',
           loaded'[r] = loaded[r], Discarded(r) \/ stage[r] \in {"start", "failed"}
    PROVE  Discarded(r)' \/ stage'[r] \in {"start", "failed"}
<1>0. /\ stage \in [Runs -> Stages] /\ HandsAreFull /\ StartIsAlone
      /\ active \in [Names -> Runs \cup {None}] /\ mrun \in Runs \cup {None}
      /\ loaded[r].name \in Names
  BY DEF RecordsInv, RecordsTypeOK, MadeHasCopy, Attached, Copy
<1> USE RecordsAssumption DEF Discarded
<1>1. CASE UNCHANGED <<managerVars, runVars>>
  BY <1>1 DEF managerVars, runVars
<1>2. ASSUME NEW c \in Clients, ClientStep(c) PROVE UNCHANGED <<managerVars, runVars>>
  BY <1>2, ClientInv
<1>3. CASE ManagerStep
  <2>1. ASSUME NEW q \in Runs, HandleStart(q) PROVE Discarded(r)' \/ stage'[r] \in {"start", "failed"}
    BY <2>1 DEF HandleStart, runVars, Attached
  <2>2. CASE ReadToIdle \/ Forced \/ StartIsOver \/ StopAborted \/ CancelManager
    BY <1>0, <2>2
       DEF ReadToIdle, Forced, StartIsOver, StopAborted, CancelManager, Rest, runVars,
           StartIsAlone, Attached
  <2>3. CASE CreateRunner
    BY <1>0, <2>3 DEF CreateRunner, StartIsAlone, HandsAreFull, Attached
  <2>4. CASE StartSucceeds
    BY <1>0, <2>4 DEF StartSucceeds, Rest, runVars
  <2>5. CASE StartFails
    BY <1>0, <2>5 DEF StartFails, HandsAreFull
  <2>6. ASSUME NEW n \in Names, HandleStop(n) PROVE FALSE
    BY <2>6 DEF HandleStop
  <2> QED
    BY <1>3, <2>1, <2>2, <2>3, <2>4, <2>5, <2>6 DEF ManagerStep
<1>4. ASSUME NEW q \in Runs, RunnerStep(q)
      PROVE  Discarded(r)' \/ stage'[r] \in {"start", "failed"}
  <2>1. CASE MarkIdle(q)
    BY <1>0, <2>1 DEF MarkIdle, To, Rest, managerVars, Attached
  <2>2. CASE MarkIdleFails(q)
    BY <1>0, <2>2 DEF MarkIdleFails, To, Rest, managerVars
  <2>3. CASE WorkerEnds(q)
    BY <1>0, <2>3 DEF WorkerEnds, To, managerVars, Attached
  <2> QED
    BY <1>0, <1>4, <2>1, <2>2, <2>3
       DEF RunnerStep, StartDriver, ReadToReady, MarkReady, MarkReadyFails, CommandEnds,
           RunnerReadToIdle, To, managerVars
<1> QED
  BY <1>1, <1>2, <1>3, <1>4 DEF Next, vars, managerVars, runVars

\* A start finds nobody active under its name; whom it finds attached nobody waited for.
LEMMA BesideNext == RecordsInv /\ Beside /\ [Next]_vars => Beside'
<1> SUFFICES ASSUME RecordsInv, Beside, [Next]_vars,
                    NEW r \in Runs, NEW s \in Runs, r # s, Attached(r)', Attached(s)',
                    loaded'[r].name = loaded'[s].name
             PROVE  ~mctx' /\ (Discarded(r)' \/ stage'[r] \in {"start", "failed"})
  BY DEF Beside
<1>1. ~mctx => ~mctx'
  BY ContextEnds
<1>2. CASE Attached(r) /\ loaded'[r] = loaded[r] /\ Attached(s) /\ loaded'[s] = loaded[s]
  <2>1. ~mctx /\ (Discarded(r) \/ stage[r] \in {"start", "failed"})
    BY <1>2 DEF Beside
  <2> QED
    BY <1>1, <1>2, <2>1, BesideStays
<1>3. ASSUME CreateRunner
      PROVE  /\ mrun \in Runs /\ stage'[mrun] = "start" /\ loaded'[mrun].name = mname
             /\ \A q \in Runs : Attached(q) /\ loaded[q].name = mname => Discarded(q) /\ ~mctx
  <2>0. /\ stage \in [Runs -> Stages] /\ loaded \in [Runs -> Copy \cup {None}]
        /\ mrun \in Runs /\ mpc = "create" /\ active[mname] = None
    BY <1>3 DEF RecordsInv, RecordsTypeOK, Copy, HandsAreFull, StartIsAlone, CreateRunner
  <2>1. PICK i \in Called(mname) :
           loaded' = [loaded EXCEPT ![mrun] = [id |-> i, name |-> mname,
                                               workspace |-> table[i].workspace]]
    BY <1>3 DEF CreateRunner
  <2>2. stage'[mrun] = "start" /\ loaded'[mrun].name = mname
    BY <1>3, <2>0, <2>1 DEF CreateRunner
  <2>3. \A q \in Runs : Attached(q) /\ loaded[q].name = mname => Discarded(q) /\ ~mctx
    BY <2>0, DiscardedRunners, RecordsAssumption
  <2> QED
    BY <2>0, <2>2, <2>3
<1>4. CASE CreateRunner /\ r = mrun
  BY <1>1, <1>3, <1>4, WhoAttaches
<1>5. CASE CreateRunner /\ s = mrun
  <2>1. Attached(r) /\ loaded'[r] = loaded[r]
    BY <1>5, WhoAttaches
  <2>2. Discarded(r) /\ ~mctx
    BY <1>3, <1>5, <2>1
  <2> QED
    BY <1>1, <2>1, <2>2, BesideStays
<1> QED
  BY <1>2, <1>4, <1>5, WhoAttaches

\* For each record there is one runner, by whatever names the calls came: activeRunners is
\* asked for the name, and the name stays what it was.  When the context has ended there may
\* be several, but then none of them is up.
THEOREM SessionsHaveOneRunner ==
    ASSUME Isolation = "immediate", "rename" \notin Ops
    PROVE  Spec => []OneRunnerPerSession
<1>1. Init => Bound /\ Beside
  BY DEF Init, Bound, KeepsName, RenamesAtRest, Renames, Beside, Attached
<1>2. RecordsInv /\ TxTypeOK /\ Exclusive /\ Fresh /\ Bound /\ Beside /\ [Next]_vars
        => Bound' /\ Beside'
  BY BoundNext, BesideNext
<1>3. ASSUME RecordsInv, Bound, Beside PROVE OneRunnerPerSession
  <2> SUFFICES ASSUME NEW r \in Runs, NEW s \in Runs, Attached(r), Attached(s),
                      loaded[r].id = loaded[s].id, r # s
               PROVE  ~mctx /\ "up" \notin {stage[r], stage[s]}
    BY DEF OneRunnerPerSession
  <2>1. loaded[r].name = loaded[s].name
    BY <1>3 DEF Bound, KeepsName
  <2> QED
    BY <1>3, <2>1, UpIsAlone DEF Beside
<1> QED
  BY <1>1, <1>2, <1>3, InitInv, NextInv, ExclusiveAlways, PTL DEF Spec

-----------------------------------------------------------------------------
(* READY records and the runners that serve them.                                   *)

NamesUnique == \A i, j \in Known : table[i].name = table[j].name => i = j

\* What an open transaction is about to write is still right: nobody deletes a session that
\* is not IDLE, READY is written by the runner that has its driver up, and IDLE by those who
\* stopped one.
Decided ==
    \A p \in Processes : tx[p] # None =>
        /\ table[tx[p].id].state # "GONE"
        /\ Renames(p) => mpc \in {"idle", "stop"}
        /\ Marks(p) =>
              /\ tx[p].set.state = "GONE" => table[tx[p].id].state = "IDLE"
              /\ tx[p].set.state = "READY" => p \in Runs /\ stage[p] = "marking"
              /\ tx[p].set.state = "IDLE" =>
                    \/ p = Manager /\ mpc \in {"forcing", "restoring"}
                    \/ p \in Runs /\ stage[p] = "idling"

\* The start that r was made for waits for it.
Waited(r) == mpc = "start" /\ mrun = r /\ stage[r] \in Upcoming

\* A runner, or the manager, that has read by name is about to write the record meant.
UnderWay ==
    /\ \A r \in Runs : stage[r] = "marking" =>
          /\ tx[r] # None
          /\ tx[r].set = [state |-> "READY"]
          /\ table[tx[r].id].name = loaded[r].name
          /\ Waited(r) => tx[r].id = loaded[r].id
    /\ \A r \in Runs : stage[r] = "idling" =>
          /\ tx[r] # None
          /\ tx[r].set = [state |-> "IDLE"]
          /\ table[tx[r].id].name = loaded[r].name
          /\ table[loaded[r].id].state # "GONE" => tx[r].id = loaded[r].id
    /\ mpc \in {"forcing", "restoring"} =>
          /\ tx[Manager] # None
          /\ tx[Manager].set = [state |-> "IDLE"]
          /\ table[tx[Manager].id].name = mname

\* Until the driver is up nobody else has the name, and the row is not READY, unless after
\* the context's end a worker that nobody waited for made it so.
Starting ==
    /\ mpc = "create" /\ mctx => \A j \in Called(mname) : table[j].state = "IDLE"
    /\ \A r \in Runs : Waited(r) =>
          /\ mctx => table[loaded[r].id].state # "READY"
          /\ \A j \in Called(loaded[r].name) : j = loaded[r].id

UpIsReady == \A r \in Runs : stage[r] = "up" => table[loaded[r].id].state = "READY"

ServiceInv ==
    /\ RecordsInv
    /\ Exclusive
    /\ Bound
    /\ Beside
    /\ NamesUnique
    /\ Decided
    /\ UnderWay
    /\ Starting
    /\ UpIsReady
    /\ ReadyIsServed

\* What is known after a write was known before.
LEMMA KnownAfterWrite ==
    ASSUME TxTypeOK, Exclusive, NEW p \in Processes, Write(p), NEW j \in Known'
    PROVE  /\ j \in Known
           /\ ~Renames(p) => table'[j].name = table[j].name
           /\ j # tx[p].id \/ ~Marks(p) => table'[j].state = table[j].state
<1> DEFINE i == tx[p].id
<1>1. j \in Ids /\ table'[j] # None /\ table'[j].state # "GONE"
  BY DEF Known
<1>2. i \in Ids /\ table[i] \in Record /\ table[i] # None
  BY WriteKeys, NoneAssumption
<1>3. table[i].state = "GONE" => table'[i] = table[i]
  BY WriteKeys
<1>4. CASE j # i
  BY <1>1, <1>4, WriteKeys DEF Known
<1>5. CASE j = i
  BY <1>1, <1>2, <1>3, <1>5, WriteKeys DEF Known
<1> QED
  BY <1>4, <1>5

\* The table changes by a definition or a write.
LEMMA TableSteps ==
    ASSUME "rename" \notin Ops, RecordsInv, [Next]_vars
    PROVE  UNCHANGED table \/ DefinesFresh \/ \E p \in Processes : Write(p)
<1>1. ASSUME NEW c \in Clients, ClientStep(c)
      PROVE  UNCHANGED table \/ DefinesFresh \/ \E p \in Processes : Write(p)
  BY <1>1, ClientSteps DEF ReadsToUpdate, RollBack, Processes
<1>2. CASE ManagerStep \/ \E r \in Runs : RunnerStep(r)
  BY <1>2, SystemKinds, InvParts DEF Reads, RollBack
<1> QED
  BY <1>1, <1>2 DEF Next, vars

\* Names stay unique, for every isolation level: the column is.
LEMMA NamesUniqueNext ==
    ASSUME "rename" \notin Ops, RecordsInv, Exclusive, NamesUnique, [Next]_vars
    PROVE  NamesUnique'
<1>0. TxTypeOK
  BY InvParts
<1>1. CASE UNCHANGED table
  BY <1>1 DEF NamesUnique, Known
<1>2. CASE DefinesFresh
  <2>1. PICK i \in Ids, record \in Record :
           /\ table[i] = None /\ Called(record.name) = {} /\ table' = [table EXCEPT ![i] = record]
    BY <1>2 DEF DefinesFresh
  <2>2. /\ table'[i] = record
        /\ \A j \in Known' : j # i => j \in Known /\ table'[j] = table[j]
    BY <1>0, <2>1 DEF Known, TxTypeOK
  <2>3. \A j \in Known : table[j].name # record.name
    BY <2>1 DEF Called
  <2> QED
    BY <2>2, <2>3 DEF NamesUnique
<1>3. ASSUME NEW p \in Processes, Write(p) PROVE NamesUnique'
  <2> DEFINE i == tx[p].id
  <2>1. CASE ~Renames(p)
    BY <1>0, <1>3, <2>1, KnownAfterWrite DEF NamesUnique
  <2>2. CASE Renames(p)
    <3>1. Called(tx[p].set.name) \subseteq {i}
      BY <1>3, <2>2 DEF Write, Renames
    <3>2. \A j \in Known' : j \in Known /\ (j # i => table'[j] = table[j])
      BY <1>0, <1>3, KnownAfterWrite, WriteKeys DEF Known
    <3>3. i \in Known' => table'[i].name = tx[p].set.name
      BY <1>0, <1>3, <2>2, <3>2, WriteKeys DEF Known
    <3> QED
      BY <3>1, <3>2, <3>3 DEF NamesUnique, Called
  <2> QED
    BY <2>1, <2>2
<1> QED
  BY <1>1, <1>2, <1>3, TableSteps

\* Only who has a transaction open is in the middle of one.
LEMMA OnlyOwner ==
    ASSUME UnderWay, NEW p, \A q \in Processes : q # p => tx[q] = None
    PROVE  /\ \A r \in Runs : r # p => stage[r] \notin {"marking", "idling"}
           /\ p # Manager => mpc \notin {"forcing", "restoring"}
  BY DEF UnderWay, Processes

\* Before somebody reads, nobody is.
LEMMA NobodyReads ==
    ASSUME Isolation = "immediate", UnderWay, MayRead
    PROVE  /\ \A q \in Processes : tx[q] = None
           /\ \A r \in Runs : stage[r] \notin {"marking", "idling"}
           /\ mpc \notin {"forcing", "restoring"}
<1>1. \A q \in Processes : tx[q] = None
  BY DEF MayRead
<1> QED
  BY <1>1 DEF UnderWay, Processes

\* A step that neither reads nor writes the table leaves those alone who have a transaction
\* open, and begins no start while one is.
Leaves ==
    /\ UNCHANGED <<table, tx>>
    /\ mpc \in {"idle", "stop"} /\ mpc' \notin {"idle", "stop"} => MayRead
    /\ \A r \in Runs : stage[r] \in {"marking", "idling"} \/ stage'[r] \in {"marking", "idling"}
          => stage'[r] = stage[r] /\ loaded'[r] = loaded[r] /\ (Waited(r)' => Waited(r))
    /\ mpc \in {"forcing", "restoring"} \/ mpc' \in {"forcing", "restoring"}
          => mpc' = mpc /\ mname' = mname

\* The transactions of the manager's worker and of the runners, as they end.
ManagerEnds == Forced \/ (StartIsOver /\ (Write(Manager) \/ RollBack(Manager)))

RunnerEnds(r) ==
    \/ MarkReady(r)
    \/ MarkReadyFails(r) /\ RollBack(r)
    \/ MarkIdle(r)
    \/ MarkIdleFails(r) /\ RollBack(r)

LEMMA SystemSteps ==
    ASSUME RecordsInv
    PROVE  /\ ManagerStep => ReadToIdle \/ ManagerEnds \/ Leaves
           /\ \A r \in Runs : RunnerStep(r) =>
                 ReadToReady(r) \/ RunnerReadToIdle(r) \/ RunnerEnds(r) \/ Leaves
<1>0. /\ stage \in [Runs -> Stages] /\ HandsAreFull /\ StartIsAlone /\ MadeHasCopy
      /\ active \in [Names -> Runs \cup {None}] /\ loaded \in [Runs -> Copy \cup {None}]
  BY DEF RecordsInv, RecordsTypeOK, Copy
<1> USE DEF Waited
<1>1. ASSUME NEW r \in Runs, HandleStart(r) PROVE Leaves
  BY <1>1 DEF HandleStart, Leaves, runVars
<1>2. ASSUME StartIsOver PROVE ManagerEnds \/ Leaves
  BY <1>2 DEF StartIsOver, Rest, Leaves, ManagerEnds, runVars
<1>3. ASSUME CreateRunner PROVE Leaves
  <2>1. PICK copy : loaded' = [loaded EXCEPT ![mrun] = copy]
    BY <1>3 DEF CreateRunner
  <2>2. mrun \in Runs /\ stage[mrun] = "off"
    BY <1>0, <1>3 DEF CreateRunner, HandsAreFull, StartIsAlone
  <2> QED
    BY <1>0, <1>3, <2>1, <2>2 DEF CreateRunner, Leaves
<1>4. ASSUME StartSucceeds \/ StopAborted \/ CancelManager PROVE Leaves
  BY <1>4 DEF StartSucceeds, StopAborted, CancelManager, Rest, Leaves, runVars
<1>5. ASSUME StartFails PROVE Leaves
  BY <1>0, <1>5 DEF StartFails, Leaves, HandsAreFull
<1>6. ASSUME NEW n \in Names, HandleStop(n) PROVE Leaves
  BY <1>0, <1>6 DEF HandleStop, Leaves
<1>7. ASSUME NEW r \in Runs, StartDriver(r) \/ CommandEnds(r) \/ WorkerEnds(r) PROVE Leaves
  BY <1>0, <1>7 DEF StartDriver, CommandEnds, WorkerEnds, To, Leaves, managerVars
<1>8. ASSUME NEW r \in Runs, MarkReadyFails(r) PROVE RunnerEnds(r) \/ Leaves
  BY <1>0, <1>8 DEF MarkReadyFails, RunnerEnds, To, Leaves, managerVars
<1>9. ASSUME NEW r \in Runs, MarkIdleFails(r) PROVE RunnerEnds(r) \/ Leaves
  BY <1>0, <1>9 DEF MarkIdleFails, RunnerEnds, To, Leaves, Rest, Stopping, managerVars
<1>10. ManagerStep => ReadToIdle \/ ManagerEnds \/ Leaves
  BY <1>1, <1>2, <1>3, <1>4, <1>5, <1>6 DEF ManagerStep, ManagerEnds
<1>11. \A r \in Runs : RunnerStep(r) =>
                 ReadToReady(r) \/ RunnerReadToIdle(r) \/ RunnerEnds(r) \/ Leaves
  BY <1>7, <1>8, <1>9 DEF RunnerStep, RunnerEnds
<1> QED
  BY <1>10, <1>11

\* When a transaction ends, none is open, and nobody is in the middle of one.
AtEase ==
    /\ \A p \in Processes : tx[p] = None
    /\ \A r \in Runs : stage[r] \notin {"marking", "idling"}
    /\ mpc \notin {"forcing", "restoring"}

LEMMA EndsAtEase ==
    ASSUME RecordsInv, Exclusive, UnderWay,
           \/ ManagerEnds
           \/ \E r \in Runs : RunnerEnds(r)
           \/ \E c \in Clients : (Write(c) \/ RollBack(c)) /\ UNCHANGED <<managerVars, runVars>>
    PROVE  AtEase'
<1> USE DEF Processes
<1>0. TxTypeOK /\ stage \in [Runs -> Stages]
  BY InvParts DEF Holding
<1>1. ASSUME NEW p \in Processes, Write(p) \/ RollBack(p)
      PROVE  /\ \A q \in Processes : tx'[q] = None
             /\ \A r \in Runs : r # p => stage[r] \notin {"marking", "idling"}
             /\ p # Manager => mpc \notin {"forcing", "restoring"}
  <2>1. \A q \in Processes : tx'[q] = None /\ (q # p => tx[q] = None)
    BY <1>0, <1>1 DEF Write, RollBack, Exclusive, TxTypeOK
  <2> QED
    BY <2>1, OnlyOwner
<1>2. ASSUME NEW c \in Clients, Write(c) \/ RollBack(c), UNCHANGED <<managerVars, runVars>>
      PROVE  AtEase'
  BY <1>1, <1>2, RecordsAssumption DEF AtEase, managerVars, runVars
<1>3. CASE ManagerEnds
  <2>1. /\ Write(Manager) \/ RollBack(Manager)
        /\ UNCHANGED runVars /\ mpc' \in {"create", "idle"}
    BY <1>3 DEF ManagerEnds, Forced, StartIsOver, Rest
  <2> QED
    BY <1>1, <2>1, RecordsAssumption DEF AtEase, runVars
<1>4. ASSUME NEW r \in Runs, RunnerEnds(r) PROVE AtEase'
  <2>1. /\ Write(r) \/ RollBack(r)
        /\ \A s \in Runs : s # r => stage'[s] = stage[s]
        /\ stage'[r] \notin {"marking", "idling"}
        /\ mpc' = mpc \/ mpc' = "idle"
    BY <1>0, <1>4
       DEF RunnerEnds, MarkReady, MarkReadyFails, MarkIdle, MarkIdleFails, To, Rest,
           managerVars
  <2> QED
    BY <1>1, <2>1, RecordsAssumption DEF AtEase
<1> QED
  BY <1>2, <1>3, <1>4

\* Every step, as the transactions see it.
LEMMA ServiceSteps ==
    ASSUME "rename" \notin Ops, RecordsInv, Exclusive, UnderWay, [Next]_vars
    PROVE  \/ Leaves
           \/ DefinesFresh /\ UNCHANGED <<managerVars, runVars>>
           \/ \E c \in Clients : ReadsToUpdate(c) /\ UNCHANGED <<managerVars, runVars>>
           \/ ReadToIdle
           \/ \E r \in Runs : ReadToReady(r) \/ RunnerReadToIdle(r)
           \/ AtEase' /\ \/ ManagerEnds
                         \/ \E r \in Runs : RunnerEnds(r)
                         \/ \E c \in Clients : /\ Write(c) \/ RollBack(c)
                                               /\ UNCHANGED <<managerVars, runVars>>
<1>1. CASE ManagerStep
  BY <1>1, SystemSteps, EndsAtEase
<1>2. ASSUME NEW r \in Runs, RunnerStep(r)
      PROVE ReadToReady(r) \/ RunnerReadToIdle(r) \/ (RunnerEnds(r) /\ AtEase') \/ Leaves
  BY <1>2, SystemSteps, EndsAtEase
<1>3. ASSUME NEW c \in Clients, ClientStep(c)
      PROVE  /\ UNCHANGED <<managerVars, runVars>>
             /\ \/ DefinesFresh
                \/ ReadsToUpdate(c)
                \/ AtEase' /\ (Write(c) \/ RollBack(c))
  BY <1>3, ClientSteps, EndsAtEase
<1>4. CASE UNCHANGED vars
  BY <1>4 DEF vars, managerVars, runVars, Leaves, Waited
<1> QED
  BY <1>1, <1>2, <1>3, <1>4 DEF Next

\* What is decided stays right until it is written.
LEMMA DecidedNext ==
    ASSUME Isolation = "immediate", "rename" \notin Ops, RecordsInv, Exclusive, UnderWay,
           Decided, [Next]_vars
    PROVE  Decided'
<1> USE DEF Processes
<1>0. TxTypeOK /\ stage \in [Runs -> Stages]
  BY InvParts DEF Holding
<1>1. CASE AtEase'
  BY <1>1 DEF AtEase, Decided
<1>2. CASE Leaves
  <2>1. \A p \in Processes : tx[p] # None /\ mpc \in {"idle", "stop"} => mpc' \in {"idle", "stop"}
    BY <1>2, NobodyReads DEF Leaves
  <2> QED
    BY <1>2, <2>1 DEF Leaves, Decided, Renames, Marks
<1>3. CASE DefinesFresh
  BY <1>3, NobodyReads DEF DefinesFresh, Decided
<1>4. ASSUME NEW p \in Processes, NEW i \in Known, NEW change \in Change, Read(p, i, change),
             UNCHANGED table,
             change \in [name : Names] => mpc' \in {"idle", "stop"},
             change \in [state : {"IDLE", "READY", "GONE"}] =>
                /\ change.state = "GONE" => table[i].state = "IDLE"
                /\ change.state = "READY" => p \in Runs /\ stage'[p] = "marking"
                /\ change.state = "IDLE" =>
                      \/ p = Manager /\ mpc' \in {"forcing", "restoring"}
                      \/ p \in Runs /\ stage'[p] = "idling"
      PROVE  Decided'
  <2>1. \A q \in Processes : q # p => tx'[q] = None
    BY <1>0, <1>4, NobodyReads DEF Read, TxTypeOK
  <2>2. tx'[p].id = i /\ tx'[p].set = change /\ table[i].state # "GONE"
    BY <1>0, <1>4 DEF Read, TxTypeOK, Known
  <2> QED
    BY <1>4, <2>1, <2>2 DEF Decided, Renames, Marks
<1>5. ASSUME NEW c \in Clients, ReadsToUpdate(c), UNCHANGED <<managerVars, runVars>>
      PROVE  Decided'
  <2>1. PICK i \in Known, change \in Change :
           /\ Read(c, i, change)
           /\ change \in [name : Names] => AtRest(i)
           /\ change \in [state : {"IDLE", "READY", "GONE"}] =>
                 change.state = "GONE" /\ table[i].state = "IDLE"
           /\ UNCHANGED table
    BY <1>5 DEF ReadsToUpdate
  <2> QED
    BY <1>4, <1>5, <2>1 DEF AtRest, managerVars
<1>6. /\ [state |-> "IDLE"] \in Change /\ [state |-> "READY"] \in Change
      /\ [state |-> "IDLE"] \notin [name : Names] /\ [state |-> "READY"] \notin [name : Names]
  BY DEF Change
<1>7. CASE ReadToIdle
  <2>1. PICK i \in Known : Read(Manager, i, [state |-> "IDLE"])
    BY <1>7 DEF ReadToIdle, Called
  <2>2. UNCHANGED table /\ mpc' \in {"forcing", "restoring"}
    BY <1>7 DEF ReadToIdle
  <2> QED
    BY <1>4, <1>6, <2>1, <2>2
<1>8. ASSUME NEW r \in Runs, ReadToReady(r) PROVE Decided'
  <2>1. PICK i \in Known : Read(r, i, [state |-> "READY"])
    BY <1>8 DEF ReadToReady, Called
  <2>2. UNCHANGED table /\ stage'[r] = "marking"
    BY <1>0, <1>8 DEF ReadToReady, To
  <2> QED
    BY <1>4, <1>6, <2>1, <2>2
<1>9. ASSUME NEW r \in Runs, RunnerReadToIdle(r) PROVE Decided'
  <2>1. PICK i \in Known : Read(r, i, [state |-> "IDLE"])
    BY <1>9 DEF RunnerReadToIdle, Called
  <2>2. UNCHANGED table /\ stage'[r] = "idling"
    BY <1>0, <1>9 DEF RunnerReadToIdle, To
  <2> QED
    BY <1>4, <1>6, <2>1, <2>2
<1> QED
  BY <1>1, <1>2, <1>3, <1>5, <1>7, <1>8, <1>9, ServiceSteps

\* Who is in the middle of a transaction writes the record that was meant.
LEMMA UnderWayNext ==
    ASSUME Isolation = "immediate", "rename" \notin Ops, RecordsInv, Exclusive, Bound,
           NamesUnique, UnderWay, Starting, [Next]_vars
    PROVE  UnderWay'
<1> USE DEF Processes, Waited
<1>0. TxTypeOK /\ stage \in [Runs -> Stages]
  BY InvParts DEF Holding
<1>1. CASE AtEase'
  BY <1>1 DEF AtEase, UnderWay
<1>2. CASE Leaves
  BY <1>2 DEF Leaves, UnderWay
<1>3. CASE UNCHANGED <<managerVars, runVars>> /\ MayRead
  BY <1>3, NobodyReads DEF UnderWay, managerVars, runVars
<1>4. CASE ReadToIdle
  <2>1. PICK i \in Called(mname) : Read(Manager, i, [state |-> "IDLE"])
    BY <1>4 DEF ReadToIdle
  <2>2. i \in Ids /\ table[i].name = mname /\ MayRead
    BY <2>1 DEF Called, Known, Read
  <2>3. UNCHANGED <<table, mname, stage, loaded>>
    BY <1>4 DEF ReadToIdle, runVars
  <2>4. [id |-> i, set |-> [state |-> "IDLE"]] # None
    BY <2>2, NoneAssumption DEF Change
  <2>5. tx'[Manager] = [id |-> i, set |-> [state |-> "IDLE"]]
    BY <1>0, <2>1 DEF Read, TxTypeOK
  <2> QED
    BY <2>2, <2>3, <2>4, <2>5, NobodyReads DEF UnderWay
<1>5. ASSUME NEW r \in Runs, ReadToReady(r) PROVE UnderWay'
  <2>1. PICK i \in Called(loaded[r].name) : Read(r, i, [state |-> "READY"])
    BY <1>5 DEF ReadToReady
  <2>2. /\ i \in Ids /\ table[i].name = loaded[r].name /\ MayRead
        /\ Waited(r) => i = loaded[r].id
    BY <2>1 DEF Called, Known, Read, Starting
  <2>3. /\ UNCHANGED <<table, mpc, mname, mrun, loaded>>
        /\ stage[r] = "markReady" /\ stage' = [stage EXCEPT ![r] = "marking"]
    BY <1>5 DEF ReadToReady, To, managerVars
  <2>4. [id |-> i, set |-> [state |-> "READY"]] # None
    BY <2>2, NoneAssumption DEF Change
  <2>5. tx'[r] = [id |-> i, set |-> [state |-> "READY"]]
    BY <1>0, <2>1 DEF Read, TxTypeOK
  <2> QED
    BY <1>0, <2>2, <2>3, <2>4, <2>5, NobodyReads DEF UnderWay, Upcoming
<1>6. ASSUME NEW r \in Runs, RunnerReadToIdle(r) PROVE UnderWay'
  <2>1. PICK i \in Called(loaded[r].name) : Read(r, i, [state |-> "IDLE"])
    BY <1>6 DEF RunnerReadToIdle
  <2>2. i \in Ids /\ i \in Known /\ table[i].name = loaded[r].name /\ MayRead
    BY <2>1 DEF Called, Known, Read
  <2>3. UNCHANGED <<table, mpc, mname, loaded>> /\ stage' = [stage EXCEPT ![r] = "idling"]
    BY <1>6 DEF RunnerReadToIdle, To, managerVars
  <2>4. [id |-> i, set |-> [state |-> "IDLE"]] # None
    BY <2>2, NoneAssumption DEF Change
  <2>5. tx'[r] = [id |-> i, set |-> [state |-> "IDLE"]]
    BY <1>0, <2>1 DEF Read, TxTypeOK
  <2>6. table[loaded[r].id].state # "GONE" => i = loaded[r].id
    <3>1. /\ loaded[r] \in Copy /\ table[loaded[r].id] \in Record
          /\ table[loaded[r].id].name = loaded[r].name
      BY <1>6 DEF RunnerReadToIdle, Bound, KeepsName, Attached
    <3> QED
      BY <2>2, <3>1, NoneAssumption DEF NamesUnique, Known, Copy
  <2> QED
    BY <1>0, <2>2, <2>3, <2>4, <2>5, <2>6, NobodyReads DEF UnderWay
<1> QED
  BY <1>1, <1>2, <1>3, <1>4, <1>5, <1>6, ServiceSteps DEF DefinesFresh, ReadsToUpdate, Read

-----------------------------------------------------------------------------
(* Starts.                                                                          *)

\* A write that renames nothing takes names from nobody and gives none.
LEMMA CalledAfterWrite ==
    ASSUME TxTypeOK, Exclusive, NEW p \in Processes, Write(p), ~Renames(p), NEW n,
           NEW j \in Called(n)'
    PROVE  j \in Called(n) /\ j \in Known'
  BY KnownAfterWrite DEF Called

\* While a start is under way, the table changes in other respects.
LEMMA StartingStays ==
    ASSUME Isolation = "immediate", Ops \cap {"rename", "redefine"} = {}, RecordsInv,
           Exclusive, Bound, Decided,
           \/ UNCHANGED table
           \/ DefinesFresh
           \/ \E p \in Processes : Write(p) /\ (mctx /\ p \in Runs => stage[p] # "marking"),
           mpc \notin {"idle", "stop"}
    PROVE  /\ mctx => \A n : (\A j \in Called(n) : table[j].state = "IDLE") =>
                  \A j \in Called(n)' : table'[j].state = "IDLE"
           /\ \A r \in Runs : mctx /\ Attached(r) /\ table[loaded[r].id].state # "READY" =>
                  table'[loaded[r].id].state # "READY"
           /\ \A r \in Runs :
                  /\ Attached(r)
                  /\ \A j \in Called(loaded[r].name) : j = loaded[r].id
                  => \A j \in Ids : j \in Known' /\ table'[j].name = loaded[r].name => j = loaded[r].id
<1>0. /\ TxTypeOK
      /\ \A r \in Runs : Attached(r) =>
            /\ loaded[r].id \in Ids /\ table[loaded[r].id] \in Record /\ table[loaded[r].id] # None
            /\ table[loaded[r].id].name = loaded[r].name
  BY InvParts, NoneAssumption DEF Bound, KeepsName, Copy
<1>1. CASE UNCHANGED table
  BY <1>1 DEF Called, Known
<1>2. CASE DefinesFresh
  <2>1. PICK i \in Ids, record \in Record :
           /\ table[i] = None /\ record.state = "IDLE"
           /\ \A j \in Ids : table[j] # None => table[j].name # record.name
           /\ table' = [table EXCEPT ![i] = record]
    BY <1>2 DEF DefinesFresh
  <2>2. table'[i] = record /\ \A j \in Ids : j # i => table'[j] = table[j]
    BY <1>0, <2>1 DEF TxTypeOK
  <2>3. \A n : \A j \in Called(n)' : j \in Ids /\ (j = i \/ j \in Called(n))
    BY <2>2 DEF Called, Known
  <2>4. \A r \in Runs : Attached(r) => loaded[r].id # i /\ loaded[r].name # record.name
    BY <1>0, <2>1
  <2>5. \A n : (\A j \in Called(n) : table[j].state = "IDLE") =>
                  \A j \in Called(n)' : table'[j].state = "IDLE"
    BY <2>1, <2>2, <2>3
  <2>6. \A r \in Runs : Attached(r) => table'[loaded[r].id] = table[loaded[r].id]
    BY <1>0, <2>2, <2>4
  <2>7. ASSUME NEW r \in Runs, Attached(r), \A j \in Called(loaded[r].name) : j = loaded[r].id,
               NEW j \in Ids, j \in Known', table'[j].name = loaded[r].name
        PROVE  j = loaded[r].id
    BY <2>1, <2>2, <2>4, <2>7 DEF Called, Known
  <2> QED
    BY <2>5, <2>6, <2>7
<1>3. ASSUME NEW p \in Processes, Write(p), mctx /\ p \in Runs => stage[p] # "marking"
      PROVE  /\ mctx => \A n : (\A j \in Called(n) : table[j].state = "IDLE") =>
                  \A j \in Called(n)' : table'[j].state = "IDLE"
             /\ \A r \in Runs : mctx /\ Attached(r) /\ table[loaded[r].id].state # "READY" =>
                  table'[loaded[r].id].state # "READY"
             /\ \A r \in Runs :
                  /\ Attached(r)
                  /\ \A j \in Called(loaded[r].name) : j = loaded[r].id
                  => \A j \in Ids : j \in Known' /\ table'[j].name = loaded[r].name => j = loaded[r].id
  <2> DEFINE i == tx[p].id
  <2>1. ~Renames(p) /\ tx[p] # None /\ table[i].state # "GONE"
    BY <1>3 DEF Decided, Write
  <2>2. mctx /\ Marks(p) => tx[p].set.state \in {"IDLE", "GONE"}
    BY <1>3, <2>1 DEF Decided, Marks
  <2>3. mctx => \A j \in Ids : table[j] # None => table'[j].state = table[j].state
                                \/ (j = i /\ table'[j].state \in {"IDLE", "GONE"})
    BY <1>0, <1>3, <2>1, <2>2, WriteKeys
  <2>4. \A j \in Known' : j \in Known /\ table'[j].name = table[j].name
    BY <1>0, <1>3, <2>1, KnownAfterWrite
  <2>5. \A n : \A j \in Called(n)' : j \in Called(n) /\ table'[j].state # "GONE"
    BY <2>4 DEF Called, Known
  <2>6. \A n : \A j \in Called(n) : j \in Ids /\ table[j] # None
    BY DEF Called, Known
  <2>7. mctx => \A n : (\A j \in Called(n) : table[j].state = "IDLE") =>
                  \A j \in Called(n)' : table'[j].state = "IDLE"
    BY <2>3, <2>5, <2>6
  <2>8. \A r \in Runs : mctx /\ Attached(r) /\ table[loaded[r].id].state # "READY" =>
                  table'[loaded[r].id].state # "READY"
    BY <1>0, <2>3
  <2>9. ASSUME NEW r \in Runs, \A j \in Called(loaded[r].name) : j = loaded[r].id,
               NEW j \in Ids, j \in Known', table'[j].name = loaded[r].name
        PROVE  j = loaded[r].id
    BY <2>4, <2>9 DEF Called
  <2> QED
    BY <2>7, <2>8, <2>9
<1> QED
  BY <1>1, <1>2, <1>3

LEMMA StartingFrame ==
    ASSUME Isolation = "immediate", Ops \cap {"rename", "redefine"} = {}, RecordsInv,
           Exclusive, Bound, Decided, Starting,
           \/ UNCHANGED table
           \/ DefinesFresh
           \/ \E p \in Processes : Write(p) /\ (mctx /\ p \in Runs => stage[p] # "marking"),
           mctx' => mctx,
           mpc' = "create" => mpc = "create" /\ mname' = mname,
           \A r \in Runs : Waited(r)' => Waited(r) /\ loaded'[r] = loaded[r]
    PROVE  Starting'
<1>1. CASE mpc \in {"idle", "stop"}
  BY <1>1 DEF Starting, Waited
<1>2. CASE mpc \notin {"idle", "stop"}
  <2>1. mpc' = "create" /\ mctx' => \A j \in Called(mname)' : table'[j].state = "IDLE"
    BY <1>2, StartingStays DEF Starting
  <2>2. ASSUME NEW r \in Runs, Waited(r)'
        PROVE  /\ mctx' => table'[loaded'[r].id].state # "READY"
               /\ \A j \in Ids : j \in Known' /\ table'[j].name = loaded'[r].name => j = loaded'[r].id
    <3>1. Attached(r) /\ Waited(r) /\ loaded'[r] = loaded[r]
      BY <2>2 DEF Attached, Waited, Upcoming
    <3> QED
      BY <1>2, <2>2, <3>1, StartingStays DEF Starting
  <2> QED
    BY <2>1, <2>2 DEF Starting, Called, Known
<1> QED
  BY <1>1, <1>2

\* While the context lasts, a runner that is coming up is waited for; later, one that was
\* not discarded is.
LEMMA WhoIsWaited ==
    ASSUME RecordsInv, NEW r \in Runs, stage[r] \in Upcoming, mctx \/ ~Discarded(r)
    PROVE  Waited(r)
<1>1. Attached(r) /\ loaded[r].name \in Names
  BY DEF Attached, Upcoming, RecordsInv, MadeHasCopy, Copy
<1>2. active[loaded[r].name] # r
  BY <1>1, RecordsAssumption DEF RecordsInv, ActiveByName
<1> QED
  BY <1>1, <1>2, DiscardedRunners DEF Waited

\* The start of a session that was IDLE, or made so.
LEMMA StartingNext ==
    ASSUME Isolation = "immediate", Ops \cap {"rename", "redefine"} = {}, RecordsInv,
           Exclusive, Bound, NamesUnique, Decided, UnderWay, Starting, [Next]_vars
    PROVE  Starting'
<1> USE DEF Processes, Waited
<1>0. /\ TxTypeOK /\ stage \in [Runs -> Stages] /\ loaded \in [Runs -> Copy \cup {None}]
      /\ HandsAreFull /\ (mctx' => mctx)
  BY InvParts, ContextEnds DEF Holding
<1>1. ASSUME NEW c \in Clients, ClientStep(c) PROVE Starting'
  <2>1. /\ UNCHANGED <<managerVars, runVars>> /\ c \notin Runs
        /\ DefinesFresh \/ ReadsToUpdate(c) \/ Write(c) \/ RollBack(c)
    BY <1>1, ClientSteps, RecordsAssumption
  <2> QED
    BY <2>1, StartingFrame DEF managerVars, runVars, ReadsToUpdate, RollBack
<1>2. CASE ManagerStep
  <2>1. ASSUME NEW r \in Runs, HandleStart(r) PROVE Starting'
    <3>1. PICK i \in Known : /\ mname' = table[i].name
                             /\ mpc' = IF table[i].state = "IDLE" THEN "create" ELSE "force"
      BY <2>1 DEF HandleStart
    <3>2. UNCHANGED table
      BY <2>1 DEF HandleStart
    <3>3. mpc' = "create" => \A j \in Known : table[j].name = mname' => table[j].state = "IDLE"
      BY <3>1 DEF NamesUnique
    <3> QED
      BY <3>1, <3>2, <3>3 DEF Starting, Called, Known
  <2>2. CASE CreateRunner
    <3>1. PICK i \in Called(mname) :
           loaded' = [loaded EXCEPT ![mrun] = [id |-> i, name |-> mname,
                                               workspace |-> table[i].workspace]]
      BY <2>2 DEF CreateRunner
    <3>2. /\ mpc = "create" /\ mrun \in Runs /\ mpc' = "start"
          /\ UNCHANGED <<table, mrun>>
      BY <1>0, <2>2 DEF CreateRunner, HandsAreFull
    <3>3. /\ loaded'[mrun].id = i /\ loaded'[mrun].name = mname
          /\ mctx => table[i].state = "IDLE"
          /\ \A j \in Called(mname) : j = i
      BY <1>0, <3>1, <3>2 DEF Starting, NamesUnique, Called
    <3> QED
      BY <1>0, <3>2, <3>3 DEF Starting, Called, Known
  <2>3. CASE Forced
    <3>1. /\ mpc = "forcing" /\ Write(Manager) /\ mpc' = "create"
          /\ UNCHANGED mname
      BY <2>3 DEF Forced
    <3> DEFINE i == tx[Manager].id
    <3>2. /\ tx[Manager] # None /\ tx[Manager].set = [state |-> "IDLE"]
          /\ table[i].name = mname /\ table[i].state # "GONE"
      BY <3>1 DEF UnderWay, Decided
    <3>3. Marks(Manager) /\ ~Renames(Manager)
      BY <3>2 DEF Marks, Renames
    <3>4. i \in Known /\ table'[i].state = "IDLE"
      BY <1>0, <3>1, <3>2, <3>3, WriteKeys, NoneAssumption DEF Known
    <3>5. \A j \in Called(mname)' : j \in Called(mname)
      BY <1>0, <3>1, <3>3, CalledAfterWrite
    <3>6. \A j \in Called(mname) : j = i
      BY <3>2, <3>4 DEF Called, NamesUnique
    <3> QED
      BY <3>1, <3>4, <3>5, <3>6 DEF Starting, Called, Known
  <2>4. CASE StartIsOver \/ StartSucceeds \/ StartFails \/ StopAborted
             \/ \E n \in Names : HandleStop(n)
    <3>1. mpc' \notin {"create", "start"}
      BY <2>4 DEF StartIsOver, StartSucceeds, StartFails, StopAborted, HandleStop, Rest
    <3> QED
      BY <3>1 DEF Starting
  <2>5. CASE ReadToIdle \/ CancelManager
    <3>1. /\ UNCHANGED <<table, stage, loaded>>
          /\ mpc' \notin {"create", "start"} \/ UNCHANGED <<mpc, mname, mrun>>
      BY <2>5 DEF ReadToIdle, CancelManager, runVars
    <3> QED
      BY <1>0, <3>1 DEF Starting, Called, Known
  <2> QED
    BY <1>2, <2>1, <2>2, <2>3, <2>4, <2>5 DEF ManagerStep
<1>3. ASSUME NEW r \in Runs, RunnerStep(r) PROVE Starting'
  <2>1. CASE MarkReady(r)
    <3>1. /\ stage[r] = "marking" /\ Write(r) /\ UNCHANGED <<mpc, mname, mrun, loaded>>
          /\ stage' = [stage EXCEPT ![r] = IF Discarded(r) THEN "dead" ELSE "up"]
      BY <2>1 DEF MarkReady, To, managerVars
    <3>2. CASE mctx
      <4>1. mpc = "start" /\ mrun = r
        BY <3>1, <3>2, WhoIsWaited DEF Upcoming
      <4> QED
        BY <1>0, <3>1, <4>1 DEF Starting, Upcoming
    <3>3. CASE ~mctx
      <4>1. \A q \in Runs : Waited(q)' => Waited(q) /\ loaded'[q] = loaded[q]
        BY <1>0, <3>1 DEF Upcoming
      <4> QED
        BY <1>0, <3>1, <3>3, <4>1, StartingFrame
    <3> QED
      BY <3>2, <3>3
  <2>2. CASE StartDriver(r) \/ ReadToReady(r) \/ MarkReadyFails(r) \/ CommandEnds(r)
             \/ RunnerReadToIdle(r) \/ WorkerEnds(r)
    <3>1. /\ UNCHANGED <<table, mpc, mname, mrun, loaded>>
          /\ \A q \in Runs : Waited(q)' => Waited(q)
      BY <1>0, <2>2
         DEF StartDriver, ReadToReady, MarkReadyFails, CommandEnds, RunnerReadToIdle,
             WorkerEnds, To, RollBack, managerVars, Upcoming
    <3> QED
      BY <1>0, <3>1, StartingFrame
  <2>3. CASE MarkIdle(r) \/ MarkIdleFails(r)
    <3>1. /\ UNCHANGED <<mpc, mname, mrun>> \/ mpc' = "idle"
          /\ UNCHANGED loaded
          /\ \A q \in Runs : stage'[q] \in Upcoming => stage[q] \in Upcoming
          /\ UNCHANGED table \/ (Write(r) /\ stage[r] # "marking")
      BY <1>0, <2>3
         DEF MarkIdle, MarkIdleFails, To, Rest, RollBack, managerVars, Upcoming
    <3> QED
      BY <1>0, <3>1, StartingFrame
  <2> QED
    BY <1>3, <2>1, <2>2, <2>3 DEF RunnerStep
<1>4. CASE UNCHANGED vars
  BY <1>4 DEF vars, managerVars, runVars, Starting, Called, Known
<1> QED
  BY <1>1, <1>2, <1>3, <1>4 DEF Next

-----------------------------------------------------------------------------
(* Runners that are up.                                                             *)

\* How a runner comes up, and how one is detached.
LEMMA UpAndDown ==
    ASSUME RecordsInv, [Next]_vars, NEW r \in Runs
    PROVE  /\ stage'[r] = "up" =>
                 (stage[r] = "up" /\ loaded'[r] = loaded[r]) \/ (MarkReady(r) /\ stage[r] = "marking" /\ ~Discarded(r))
           /\ Attached(r) =>
                 \/ Attached(r)' /\ loaded'[r] = loaded[r]
                 \/ StartFails /\ mrun = r
                 \/ MarkIdle(r)
                 \/ WorkerEnds(r)
<1>0. /\ stage \in [Runs -> Stages] /\ loaded \in [Runs -> Copy \cup {None}]
      /\ HandsAreFull /\ StartIsAlone /\ active \in [Names -> Runs \cup {None}]
  BY DEF RecordsInv, RecordsTypeOK, Copy
<1> USE DEF Attached
<1>1. CASE UNCHANGED <<managerVars, runVars>>
  BY <1>1 DEF managerVars, runVars
<1>2. ASSUME NEW c \in Clients, ClientStep(c) PROVE UNCHANGED <<managerVars, runVars>>
  BY <1>2, ClientInv
<1>3. CASE ManagerStep
  <2>1. CASE CreateRunner
    <3>1. PICK copy : loaded' = [loaded EXCEPT ![mrun] = copy]
      BY <2>1 DEF CreateRunner
    <3> QED
      BY <1>0, <2>1, <3>1 DEF CreateRunner, HandsAreFull, StartIsAlone
  <2>2. CASE StartFails
    BY <1>0, <2>2 DEF StartFails, HandsAreFull
  <2>3. ASSUME NEW n \in Names, HandleStop(n)
        PROVE  /\ stage'[r] = "up" => stage[r] = "up" /\ loaded'[r] = loaded[r]
               /\ Attached(r) => Attached(r)' /\ loaded'[r] = loaded[r]
    BY <1>0, <2>3 DEF HandleStop
  <2> QED
    BY <1>3, <2>1, <2>2, <2>3
       DEF ManagerStep, HandleStart, ReadToIdle, Forced, StartIsOver, StartSucceeds,
           StopAborted, CancelManager, Rest, runVars
<1>4. ASSUME NEW s \in Runs, RunnerStep(s)
      PROVE  /\ stage'[r] = "up" =>
                 (stage[r] = "up" /\ loaded'[r] = loaded[r]) \/ (MarkReady(r) /\ stage[r] = "marking" /\ ~Discarded(r))
             /\ Attached(r) => (Attached(r)' /\ loaded'[r] = loaded[r]) \/ MarkIdle(r)
                               \/ WorkerEnds(r)
  <2>1. CASE MarkIdle(s)
    BY <1>0, <2>1 DEF MarkIdle, To, Rest, managerVars
  <2>2. CASE MarkReady(s)
    BY <1>0, <2>2 DEF MarkReady, To, managerVars
  <2> QED
    BY <1>0, <1>4, <2>1, <2>2
       DEF RunnerStep, StartDriver, ReadToReady, MarkReadyFails, CommandEnds,
           RunnerReadToIdle, MarkIdleFails, WorkerEnds, To, Rest, managerVars
<1> QED
  BY <1>1, <1>2, <1>3, <1>4 DEF Next, vars, managerVars, runVars

\* The record of a runner that is up is not written by anybody else.
LEMMA UpStays ==
    ASSUME Isolation = "immediate", "rename" \notin Ops, RecordsInv, Exclusive, Bound, Beside,
           Decided, UnderWay, UpIsReady, NEW r \in Runs, stage[r] = "up",
           UNCHANGED table \/ DefinesFresh \/ \E p \in Processes : Write(p)
    PROVE  table'[loaded[r].id].state = "READY"
<1> DEFINE i == loaded[r].id
<1>0. /\ TxTypeOK /\ Attached(r)
      /\ i \in Ids /\ table[i] \in Record /\ table[i] # None
      /\ table[i].name = loaded[r].name /\ table[i].state = "READY"
  BY InvParts, NoneAssumption DEF Bound, KeepsName, Copy, UpIsReady, Attached
<1>1. CASE DefinesFresh
  BY <1>0, <1>1 DEF DefinesFresh, TxTypeOK
<1>2. ASSUME NEW p \in Processes, Write(p) PROVE table'[i].state = "READY"
  <2>1. tx[p] # None /\ table[tx[p].id].state # "GONE"
    BY <1>2 DEF Write, Decided
  <2>2. CASE tx[p].id # i \/ ~Marks(p)
    BY <1>0, <1>2, <2>2, WriteKeys
  <2>3. CASE tx[p].id = i /\ Marks(p)
    <3>1. table'[i].state = tx[p].set.state /\ tx[p].set.state \in {"IDLE", "READY", "GONE"}
      BY <1>0, <1>2, <2>1, <2>3, WriteKeys DEF Marks
    <3>2. tx[p].set.state # "GONE"
      BY <1>0, <2>1, <2>3 DEF Decided
    <3>3. ~(p = Manager /\ mpc \in {"forcing", "restoring"})
      <4>1. SUFFICES ASSUME p = Manager, mpc \in {"forcing", "restoring"} PROVE FALSE
        OBVIOUS
      <4>2. loaded[r].name = mname
        BY <1>0, <2>3, <4>1 DEF UnderWay
      <4>3. mrun # r /\ active[mname] = None
        BY <1>0, <4>1 DEF RecordsInv, StartIsAlone
      <4> QED
        BY <1>0, <4>2, <4>3, RecordsAssumption DEF RecordsInv, NoLostRunner
    <3>4. ~(p \in Runs /\ stage[p] = "idling")
      <4>1. SUFFICES ASSUME p \in Runs, stage[p] = "idling" PROVE FALSE
        OBVIOUS
      <4>2. loaded[p].name = loaded[r].name /\ Attached(p)
        BY <1>0, <2>3, <4>1 DEF UnderWay, Attached
      <4> QED
        BY <1>0, <4>1, <4>2, UpIsAlone
    <3> QED
      BY <2>1, <2>3, <3>1, <3>2, <3>3, <3>4 DEF Decided
  <2> QED
    BY <2>2, <2>3
<1> QED
  BY <1>0, <1>1, <1>2

LEMMA UpIsReadyNext ==
    ASSUME Isolation = "immediate", "rename" \notin Ops, RecordsInv, Exclusive, Bound, Beside,
           Decided, UnderWay, UpIsReady, [Next]_vars
    PROVE  UpIsReady'
<1> SUFFICES ASSUME NEW r \in Runs, stage'[r] = "up"
             PROVE  table'[loaded'[r].id].state = "READY"
  BY DEF UpIsReady
<1>1. CASE stage[r] = "up" /\ loaded'[r] = loaded[r]
  BY <1>1, UpStays, TableSteps
<1>2. CASE MarkReady(r) /\ stage[r] = "marking" /\ ~Discarded(r)
  <2>0. r \in Processes /\ Write(r) /\ loaded' = loaded
    BY <1>2 DEF MarkReady, Processes
  <2>1. tx[r] # None /\ tx[r].id = loaded[r].id /\ tx[r].set = [state |-> "READY"]
    BY <1>2, WhoIsWaited DEF UnderWay, Upcoming
  <2>2. Marks(r) /\ table[tx[r].id].state # "GONE" /\ TxTypeOK
    BY <2>0, <2>1, InvParts DEF Marks, Decided
  <2> QED
    BY <2>0, <2>1, <2>2, WriteKeys
<1> QED
  BY <1>1, <1>2, UpAndDown

\* A record is READY for a runner that is attached to it.
LEMMA ServedNext ==
    ASSUME Isolation = "immediate", "rename" \notin Ops, RecordsInv, Exclusive, Bound,
           Decided, UnderWay, Starting, ReadyIsServed, [Next]_vars
    PROVE  ReadyIsServed'
<1> SUFFICES ASSUME mctx', NEW i \in Known', table'[i].state = "READY"
             PROVE  \E r \in Runs : Attached(r)' /\ loaded'[r].id = i
  BY DEF ReadyIsServed
<1>0. TxTypeOK
  BY InvParts
<1>1. PICK r \in Runs : /\ Attached(r) /\ loaded[r].id = i
                        /\ stage[r] = "marking" \/ table[i].state = "READY"
  <2>1. CASE i \in Known /\ table[i].state = "READY"
    BY <2>1, ContextEnds DEF ReadyIsServed, Attached
  <2>2. CASE ~(i \in Known /\ table[i].state = "READY")
    <3>1. ~UNCHANGED table
      BY <2>2 DEF Known
    <3>2. ~DefinesFresh
      BY <1>0, <2>2 DEF DefinesFresh, Known, TxTypeOK
    <3>3. PICK p \in Processes : Write(p)
      BY <3>1, <3>2, TableSteps
    <3>4. /\ i \in Known /\ i = tx[p].id /\ Marks(p) /\ tx[p] # None
          /\ table[i].state # "GONE"
      BY <1>0, <2>2, <3>3, KnownAfterWrite DEF Known, Write
    <3>5. tx[p].set.state = "READY"
      BY <1>0, <3>3, <3>4, WriteKeys
    <3>6. p \in Runs /\ stage[p] = "marking"
      BY <3>4, <3>5 DEF Decided
    <3>7. loaded[p].id = i /\ Attached(p)
      BY <3>4, <3>6, ContextEnds, WhoIsWaited DEF Attached, UnderWay, Upcoming
    <3> QED
      BY <3>6, <3>7
  <2> QED
    BY <2>1, <2>2
<1>2. ~(StartFails /\ mrun = r)
  <2>1. SUFFICES ASSUME StartFails, mrun = r PROVE FALSE
    OBVIOUS
  <2>2. mctx /\ stage[r] = "failed" /\ table' = table
    BY <2>1, ContextEnds DEF StartFails
  <2>3. table[i].state # "READY"
    BY <1>1, <2>1, <2>2 DEF Starting, Waited, Upcoming, StartFails
  <2> QED
    BY <2>2, <2>3
<1>3. ~MarkIdle(r)
  <2>1. SUFFICES ASSUME MarkIdle(r) PROVE FALSE
    OBVIOUS
  <2>2. stage[r] = "idling" /\ Write(r) /\ r \in Processes
    BY <2>1 DEF MarkIdle, Processes
  <2>3. i \in Known /\ table[i].state # "GONE"
    BY <1>0, <2>2, KnownAfterWrite DEF Known
  <2>4. tx[r] # None /\ tx[r].set = [state |-> "IDLE"] /\ tx[r].id = i
    BY <1>1, <2>2, <2>3 DEF UnderWay
  <2>5. table'[i].state = tx[r].set.state
    <3>1. Marks(r) /\ table[tx[r].id].state # "GONE"
      BY <2>3, <2>4 DEF Marks, Known
    <3> QED
      BY <1>0, <2>2, <2>4, <3>1, WriteKeys
  <2> QED
    BY <2>4, <2>5
<1>4. ~WorkerEnds(r)
  BY <1>1, ContextEnds, DiscardedRunners DEF WorkerEnds
<1> QED
  BY <1>1, <1>2, <1>3, <1>4, UpAndDown

-----------------------------------------------------------------------------
(* What follows for a client of the service.                                        *)

LEMMA ServiceStarts == Init => ServiceInv
<1> SUFFICES ASSUME Init PROVE ServiceInv
  OBVIOUS
<1>1. RecordsInv
  BY InitInv
<1>2. Known = {}
  BY DEF Init, Known
<1>3. Exclusive /\ Decided
  BY DEF Init, Exclusive, Decided
<1>4. Bound /\ Beside
  BY DEF Init, Bound, KeepsName, RenamesAtRest, Renames, Beside, Attached
<1>5. UnderWay /\ Starting /\ UpIsReady
  BY DEF Init, UnderWay, Starting, Waited, UpIsReady
<1>6. NamesUnique /\ ReadyIsServed
  BY <1>2 DEF NamesUnique, ReadyIsServed
<1> QED
  BY <1>1, <1>3, <1>4, <1>5, <1>6 DEF ServiceInv

LEMMA ServiceContinues ==
    ASSUME Isolation = "immediate", Ops \cap {"rename", "redefine"} = {},
           ServiceInv, Fresh, [Next]_vars
    PROVE  ServiceInv'
<1>1. /\ RecordsInv /\ Exclusive /\ Bound /\ Beside /\ NamesUnique /\ Decided /\ UnderWay /\ Starting
      /\ UpIsReady /\ ReadyIsServed /\ TxTypeOK /\ "rename" \notin Ops
  BY InvParts DEF ServiceInv
<1>2. RecordsInv' /\ Exclusive'
  BY <1>1, NextInv, ExclusiveNext
<1>3. Bound' /\ Beside' /\ NamesUnique'
  BY <1>1, BoundNext, BesideNext, NamesUniqueNext
<1>4. Decided' /\ UnderWay'
  BY <1>1, DecidedNext, UnderWayNext
<1>5. Starting'
  BY <1>1, StartingNext
<1>6. UpIsReady' /\ ReadyIsServed'
  BY <1>1, UpIsReadyNext, ServedNext
<1> QED
  BY <1>2, <1>3, <1>4, <1>5, <1>6 DEF ServiceInv

LEMMA ServiceAlways ==
    ASSUME Isolation = "immediate", Ops \cap {"rename", "redefine"} = {}
    PROVE  Spec => []ServiceInv
<1>1. ServiceInv /\ Fresh /\ [Next]_vars => ServiceInv'
  BY ServiceContinues
<1> QED
  BY <1>1, ServiceStarts, ExclusiveAlways, PTL DEF Spec

\* Under SQLite's immediate transactions a READY record is served: as long as the manager's
\* context lives, a runner of that very ID is attached.  Both hypotheses on the calls are
\* needed: runners write by name, so that a session renamed in somebody's hands (see the
\* records_rename run), or one deleted while it starts whose name a new session takes, makes
\* a runner mark a record READY that it does not serve.
THEOREM ReadyMeansServed ==
    ASSUME Isolation = "immediate", Ops \cap {"rename", "redefine"} = {}
    PROVE  Spec => []ReadyIsServed
<1>1. ServiceInv => ReadyIsServed
  BY DEF ServiceInv
<1> QED
  BY <1>1, ServiceAlways, PTL

\* Under the same hypotheses nobody takes the record from under a runner that is up: it is
\* there, READY and of the name the runner was started by, so that a stop by name finds it.
THEOREM RecordsStayWithRunners ==
    ASSUME Isolation = "immediate", Ops \cap {"rename", "redefine"} = {}
    PROVE  Spec => []RunnerKeepsItsRecord
<1>1. ServiceInv => RunnerKeepsItsRecord
  <2> SUFFICES ASSUME ServiceInv, NEW r \in Runs, stage[r] = "up"
               PROVE  LET i == loaded[r].id IN
                      /\ table[i] # None
                      /\ table[i].state = "READY"
                      /\ table[i].name = loaded[r].name
    BY DEF RunnerKeepsItsRecord
  <2>1. Attached(r) /\ table[loaded[r].id].state = "READY"
    BY DEF ServiceInv, UpIsReady, Attached
  <2>2. table[loaded[r].id] \in Record /\ table[loaded[r].id].name = loaded[r].name
    BY <2>1 DEF ServiceInv, Bound, KeepsName
  <2> QED
    BY <2>1, <2>2, NoneAssumption
<1> QED
  BY <1>1, ServiceAlways, PTL

=============================================================================
