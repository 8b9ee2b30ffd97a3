-------------------------- MODULE ServiceLifecycleProofs --------------------------
(***************************************************************************)
(* The manager's lifecycle and the server's error channel, proved for      *)
(* every number of callers of Start and Stop and of HTTP requests.         *)
(***************************************************************************)
EXTENDS ServiceLifecycle, TLAPS

\* The values of pc.
PCs == StartPC \cup StopPC \cup {"off", "started", "notStarted", "select", "stopped",
                                 "drain", "threads"}

-----------------------------------------------------------------------------
(* Types.                                                                           *)

\* The type invariant in parts: each step disturbs one or two of them.
ManagerTypes ==
    /\ life \in {"NEW", "RUNNING", "STOPPED"}
    /\ allow \in BOOLEAN /\ mctx \in BOOLEAN /\ stale \in BOOLEAN
    /\ runs \in {"none", "loaded", "left"}
    /\ worker \in {"off", "run", "done"}
    /\ sweep \in {"none", "queued", "done", "failed"}

CallerTypes ==
    /\ late \in [Callers -> BOOLEAN]
    /\ failed \in [Callers -> BOOLEAN]
    /\ tore \subseteq Callers
    /\ crossed \subseteq Callers

ServerTypes ==
    /\ srv \in [Servers -> {"off", "listen", "closed", "failed", "done"}]
    /\ errs \in Nat
    /\ req \in [Requests -> {"off", "active", "done"}]
    /\ exit \in {"no", "ok", "err", "killed"}

PCTypes == pc \in [Callers -> PCs]

LEMMA TypeParts ==
    /\ ServiceTypeOK <=> ManagerTypes /\ CallerTypes /\ ServerTypes /\ PCTypes
    /\ ServiceTypeOK' <=> ManagerTypes' /\ CallerTypes' /\ ServerTypes' /\ PCTypes'
  BY DEF ServiceTypeOK, ManagerTypes, CallerTypes, ServerTypes, PCTypes, PCs

\* A caller goes where the program has a place.
LEMMA GoTypes ==
    ASSUME PCTypes, NEW c, NEW l \in PCs, Go(c, l)
    PROVE  PCTypes'
  BY DEF PCTypes, Go

LEMMA ServiceTypeInit == Init => ServiceTypeOK
<1> SUFFICES ASSUME Init PROVE ServiceTypeOK
  OBVIOUS
<1>1. ManagerTypes
  BY DEF Init, ManagerTypes
<1>2. CallerTypes /\ ServerTypes
  BY DEF Init, CallerTypes, ServerTypes
<1>3. PCTypes
  BY DEF Init, PCTypes, PCs
<1> QED
  BY <1>1, <1>2, <1>3, TypeParts

LEMMA ServiceTypeNext ==
    ASSUME ServiceTypeOK, [Next]_vars
    PROVE  ServiceTypeOK'
<1> USE TypeParts DEF manager, server
<1>1. CASE UNCHANGED vars
  BY <1>1 DEF vars, ManagerTypes, CallerTypes, ServerTypes, PCTypes
<1>2. ASSUME NEW c \in Callers, StartStep(c)
      PROVE  ServiceTypeOK'
  <2>1. ManagerTypes'
    BY <1>2 DEF StartStep, StartCAS, ResetRows, ResetRowsFails, Rollback, StartEventLoop,
                AllowNewStarts, ManagerTypes
  <2>2. ServerTypes'
    BY <1>2 DEF StartStep, StartCAS, ResetRows, ResetRowsFails, Rollback, StartEventLoop,
                AllowNewStarts, ServerTypes
  <2>3. CallerTypes'
    BY <1>2 DEF StartStep, StartCAS, ResetRows, ResetRowsFails, Rollback, StartEventLoop,
                AllowNewStarts, CallerTypes, Between
  <2>4. PICK l \in PCs : Go(c, l)
    BY <1>2 DEF StartStep, StartCAS, ResetRows, ResetRowsFails, Rollback, StartEventLoop,
                AllowNewStarts, PCs, StartPC
  <2> QED
    BY <2>1, <2>2, <2>3, <2>4, GoTypes
<1>3. ASSUME NEW c \in Callers, CallStop(c)
      PROVE  ServiceTypeOK'
  <2>1. "stop" \in PCs
    BY DEF PCs, StopPC
  <2> QED
    BY <1>3, <2>1, GoTypes DEF CallStop, ManagerTypes, CallerTypes, ServerTypes
<1>4. ASSUME NEW c \in Callers, ContextExpires(c)
      PROVE  ServiceTypeOK'
  BY <1>4 DEF ContextExpires, ManagerTypes, CallerTypes, ServerTypes, PCTypes
<1>5. ASSUME NEW c \in Callers, StopStep(c)
      PROVE  ServiceTypeOK'
  <2>1. ManagerTypes'
    BY <1>5 DEF StopStep, StopCAS, SecondCAS, SubmitSweep, Swept, SweepExpires,
                CancelManager, Joined, JoinExpires, ManagerTypes
  <2>2. ServerTypes'
    BY <1>5 DEF StopStep, StopCAS, SecondCAS, SubmitSweep, Swept, SweepExpires,
                CancelManager, Joined, JoinExpires, ServerTypes
  <2>3. CallerTypes'
    BY <1>5 DEF StopStep, StopCAS, SecondCAS, SubmitSweep, Swept, SweepExpires,
                CancelManager, Joined, JoinExpires, CallerTypes
  <2>4. PICK l \in PCs : Go(c, l)
    BY <1>5 DEF StopStep, StopCAS, SecondCAS, SubmitSweep, Swept, SweepExpires,
                CancelManager, Joined, JoinExpires, PCs, StopPC
  <2> QED
    BY <2>1, <2>2, <2>3, <2>4, GoTypes
<1>6. CASE WorkerSweeps \/ WorkerEnds
  BY <1>6 DEF WorkerSweeps, WorkerEnds, ManagerTypes, CallerTypes, ServerTypes, PCTypes
<1>7. ASSUME NEW q \in Requests, Accept(q) \/ StartSession(q) \/ RequestEnds(q)
      PROVE  ServiceTypeOK'
  BY <1>7 DEF Accept, StartSession, RequestEnds, ManagerTypes, CallerTypes, ServerTypes,
              PCTypes
<1>8. ASSUME NEW s \in Servers, ListenFails(s) \/ SendError(s) \/ ListenerEnds(s)
      PROVE  ServiceTypeOK'
  BY <1>8 DEF ListenFails, SendError, ListenerEnds, ManagerTypes, CallerTypes, ServerTypes,
              PCTypes
<1>9. CASE ReasonToStop \/ Serve \/ CloseListener \/ Drained
  <2>1. ManagerTypes' /\ CallerTypes'
    BY <1>9 DEF ReasonToStop, Serve, CloseListener, Drained, ManagerTypes, CallerTypes
  <2>2. ServerTypes'
    BY <1>9 DEF ReasonToStop, Serve, CloseListener, Drained, Closes, ServerTypes
  <2>3. PICK l \in PCs : Go(Main, l)
    BY <1>9 DEF ReasonToStop, Serve, CloseListener, Drained, PCs, StopPC
  <2> QED
    BY <2>1, <2>2, <2>3, GoTypes
<1>10. CASE NotStarted \/ ManagerNotStopped \/ DrainExpires \/ ThreadsJoined
            \/ ThreadsExpire \/ ForceQuit
  BY <1>10 DEF NotStarted, ManagerNotStopped, DrainExpires, ThreadsJoined, ThreadsExpire,
               ForceQuit, Exit, ManagerTypes, CallerTypes, ServerTypes, PCTypes
<1> QED
  BY <1>1, <1>2, <1>3, <1>4, <1>5, <1>6, <1>7, <1>8, <1>9, <1>10 DEF Next, MainStep

\* Every variable keeps its type, and every caller's place is one of the program's.
THEOREM ServiceTyped == Spec => []ServiceTypeOK
<1>1. ServiceTypeOK /\ [Next]_vars => ServiceTypeOK'
  BY ServiceTypeNext
<1> QED
  BY <1>1, ServiceTypeInit, PTL DEF Spec

-----------------------------------------------------------------------------
(* The lifecycle.                                                                   *)

\* Only the three compare-and-swaps touch it, and none of them leaves STOPPED.
LEMMA LifeChanges ==
    ASSUME [Next]_vars
    PROVE  life = "STOPPED" => life' = "STOPPED"
<1>1. CASE UNCHANGED vars
  BY <1>1 DEF vars, manager
<1>2. CASE exit = "no" /\ \E c \in Callers : StartStep(c)
  BY <1>2 DEF StartStep, StartCAS, ResetRows, ResetRowsFails, Rollback, StartEventLoop,
              AllowNewStarts, manager
<1>3. CASE exit = "no" /\ \E c \in Callers : CallStop(c) \/ StopStep(c) \/ ContextExpires(c)
  BY <1>3 DEF CallStop, StopStep, ContextExpires, StopCAS, SecondCAS, SubmitSweep, Swept,
              SweepExpires, CancelManager, Joined, JoinExpires, manager
<1>4. CASE \/ WorkerSweeps \/ WorkerEnds
           \/ \E q \in Requests : Accept(q) \/ StartSession(q) \/ RequestEnds(q)
           \/ \E s \in Servers : ListenFails(s) \/ SendError(s) \/ ListenerEnds(s)
  BY <1>4 DEF WorkerSweeps, WorkerEnds, Accept, StartSession, RequestEnds, ListenFails,
              SendError, ListenerEnds, manager
<1>5. CASE ReasonToStop \/ MainStep \/ ForceQuit
  BY <1>5 DEF ReasonToStop, MainStep, ForceQuit, NotStarted, Serve, ManagerNotStopped,
              CloseListener, Drained, DrainExpires, ThreadsJoined, ThreadsExpire, Exit, manager
<1> QED
  BY <1>1, <1>2, <1>3, <1>4, <1>5 DEF Next

\* A manager that has stopped stays so, however many callers start and stop it, and also
\* when the rollback of a failed Start comes after the Stop.
THEOREM StoppedForGood == Spec => StoppedIsTerminal
<1>1. [Next]_vars => [life = "STOPPED" => life' = "STOPPED"]_vars
  BY LifeChanges
<1> QED
  BY <1>1, PTL DEF Spec, StoppedIsTerminal

-----------------------------------------------------------------------------
(* Invariants.                                                                      *)

\* Caller c has won the compare-and-swap of Start, and has not rolled back.
Began(c) ==
    \/ pc[c] \in StartPC \cup {"started"}
    \/ c = Main /\ pc[c] \in {"select", "stopped", "drain", "threads"} \cup StopPC

OneStarter ==
    /\ \A c, d \in Callers : Began(c) /\ Began(d) => c = d
    /\ \A c \in Callers : Began(c) => life # "NEW"

\* No other caller's Stop tears the manager down.
Alone == tore \subseteq {Main}

TearingDown == {"sweep", "await", "cancel", "join"}

\* Who tears down: main's own Stop finds the manager RUNNING unless another has
\* stopped it.
WhoTears ==
    /\ \A c \in Callers : pc[c] \in TearingDown => c \in tore
    /\ Main \in tore => pc[Main] \in TearingDown \cup {"stopped", "drain", "threads"}
    /\ life = "STOPPED" /\ Began(Main) => tore # {}
    /\ Alone => pc[Main] # "second"

\* How far main's Stop has come, and what it has left of the manager.
HowFar ==
    /\ pc[Main] \in {"drain", "threads"} => ~failed[Main]
    /\ pc[Main] \in {"admit", "started", "select", "stopped", "drain", "threads"} \cup StopPC
           => worker # "off"
    /\ Alone /\ sweep # "none"
           => pc[Main] \in {"await", "cancel", "join", "stopped", "drain", "threads"}
    /\ Alone /\ sweep \in {"done", "failed"} => ~allow /\ runs # "loaded"
    /\ Alone /\ pc[Main] \in {"cancel", "join", "stopped", "drain", "threads"} /\ ~failed[Main]
           => sweep = "done"
    /\ Alone /\ pc[Main] \in {"stopped", "drain", "threads"} /\ ~failed[Main]
           => worker = "done"

\* What main has left of the HTTP servers.
Doors ==
    /\ pc[Main] \in {"drain", "threads"} => srv["api"] # "listen"
    /\ pc[Main] = "threads" => \A q \in Requests : req[q] # "active"
    /\ exit = "ok" => pc[Main] = "threads" /\ \A s \in Servers : srv[s] = "done"

\* The errors in the channel are those of servers that have ended, and there are two.
Errors ==
    /\ pc[Main] \in StartPC \cup {"off", "started"}
           => errs = 0 /\ \A s \in Servers : srv[s] = "off"
    /\ srv["api"] # "done" \/ srv["metrics"] # "done" => errs < 2
    /\ srv["api"] # "done" /\ srv["metrics"] # "done" => errs = 0

\* A Stop that did not tear down found no manager running, or was overtaken.
Finality ==
    /\ \A c \in Callers : pc[c] \in TearingDown => life = "STOPPED"
    /\ \A c \in Callers : pc[c] = "second" => life # "RUNNING" \/ c \in crossed
    /\ StopIsFinal

-----------------------------------------------------------------------------
(* Proofs of the invariants.                                                        *)

\* Main is a caller.
LEMMA MainCalls == Main \in Callers
  BY DEF Callers

\* Only the compare-and-swap of Start begins, and only where nobody has.
LEMMA OneStarterNext ==
    ASSUME ServiceTypeOK, OneStarter, [Next]_vars
    PROVE  OneStarter'
<1> USE MainCalls DEF OneStarter, Began, StartPC, StopPC, manager, server, Go,
                      ServiceTypeOK
<1>1. CASE UNCHANGED vars
  BY <1>1 DEF vars
<1>2. ASSUME NEW c \in Callers, StartStep(c)
      PROVE  OneStarter'
  BY <1>2 DEF StartStep, StartCAS, ResetRows, ResetRowsFails, Rollback, StartEventLoop,
              AllowNewStarts
<1>3. ASSUME NEW c \in Callers, CallStop(c) \/ ContextExpires(c)
      PROVE  OneStarter'
  BY <1>3 DEF CallStop, ContextExpires
<1>4. ASSUME NEW c \in Callers, StopStep(c)
      PROVE  OneStarter'
  BY <1>4 DEF StopStep, StopCAS, SecondCAS, SubmitSweep, Swept, SweepExpires,
              CancelManager, Joined, JoinExpires
<1>5. CASE WorkerSweeps \/ WorkerEnds
  BY <1>5 DEF WorkerSweeps, WorkerEnds
<1>6. ASSUME NEW q \in Requests, Accept(q) \/ StartSession(q) \/ RequestEnds(q)
      PROVE  OneStarter'
  BY <1>6 DEF Accept, StartSession, RequestEnds
<1>7. ASSUME NEW s \in Servers, ListenFails(s) \/ SendError(s) \/ ListenerEnds(s)
      PROVE  OneStarter'
  BY <1>7 DEF ListenFails, SendError, ListenerEnds
<1>8. CASE ReasonToStop \/ Serve \/ CloseListener \/ Drained
  BY <1>8 DEF ReasonToStop, Serve, CloseListener, Drained, Closes
<1>9. CASE NotStarted \/ ManagerNotStopped \/ DrainExpires \/ ThreadsJoined
           \/ ThreadsExpire \/ ForceQuit
  BY <1>9 DEF NotStarted, ManagerNotStopped, DrainExpires, ThreadsJoined, ThreadsExpire,
              ForceQuit, Exit
<1> QED
  BY <1>1, <1>2, <1>3, <1>4, <1>5, <1>6, <1>7, <1>8, <1>9 DEF Next, MainStep

\* Main's Stop tears the manager down, or another has done so.
LEMMA WhoTearsNext ==
    ASSUME ServiceTypeOK, OneStarter, WhoTears, [Next]_vars
    PROVE  WhoTears'
<1> USE MainCalls DEF OneStarter, WhoTears, Began, Alone, TearingDown, StartPC, StopPC,
                      manager, server, Go, ServiceTypeOK
<1>1. CASE UNCHANGED vars
  BY <1>1 DEF vars
<1>2. ASSUME NEW c \in Callers, StartStep(c)
      PROVE  WhoTears'
  BY <1>2 DEF StartStep, StartCAS, ResetRows, ResetRowsFails, Rollback, StartEventLoop,
              AllowNewStarts
<1>3. ASSUME NEW c \in Callers, CallStop(c) \/ ContextExpires(c)
      PROVE  WhoTears'
  BY <1>3 DEF CallStop, ContextExpires
<1>4. ASSUME NEW c \in Callers, StopStep(c)
      PROVE  WhoTears'
  BY <1>4 DEF StopStep, StopCAS, SecondCAS, SubmitSweep, Swept, SweepExpires,
              CancelManager, Joined, JoinExpires
<1>5. CASE WorkerSweeps \/ WorkerEnds
  BY <1>5 DEF WorkerSweeps, WorkerEnds
<1>6. ASSUME NEW q \in Requests, Accept(q) \/ StartSession(q) \/ RequestEnds(q)
      PROVE  WhoTears'
  BY <1>6 DEF Accept, StartSession, RequestEnds
<1>7. ASSUME NEW s \in Servers, ListenFails(s) \/ SendError(s) \/ ListenerEnds(s)
      PROVE  WhoTears'
  BY <1>7 DEF ListenFails, SendError, ListenerEnds
<1>8. CASE ReasonToStop \/ Serve \/ CloseListener \/ Drained
  BY <1>8 DEF ReasonToStop, Serve, CloseListener, Drained, Closes
<1>9. CASE NotStarted \/ ManagerNotStopped \/ DrainExpires \/ ThreadsJoined
           \/ ThreadsExpire \/ ForceQuit
  BY <1>9 DEF NotStarted, ManagerNotStopped, DrainExpires, ThreadsJoined, ThreadsExpire,
              ForceQuit, Exit
<1> QED
  BY <1>1, <1>2, <1>3, <1>4, <1>5, <1>6, <1>7, <1>8, <1>9 DEF Next, MainStep

\* Main's Stop goes through its steps in order, and no other caller disturbs it.
LEMMA HowFarNext ==
    ASSUME ServiceTypeOK, OneStarter, WhoTears, HowFar, [Next]_vars
    PROVE  HowFar'
<1> USE MainCalls DEF OneStarter, WhoTears, HowFar, Began, Alone, TearingDown, StartPC,
                      StopPC, manager, server, Go, ServiceTypeOK
<1>1. CASE UNCHANGED vars
  BY <1>1 DEF vars
<1>2. ASSUME NEW c \in Callers, StartStep(c)
      PROVE  HowFar'
  BY <1>2 DEF StartStep, StartCAS, ResetRows, ResetRowsFails, Rollback, StartEventLoop,
              AllowNewStarts
<1>3. ASSUME NEW c \in Callers, CallStop(c) \/ ContextExpires(c)
      PROVE  HowFar'
  BY <1>3 DEF CallStop, ContextExpires
<1>4. ASSUME NEW c \in Callers, StopStep(c)
      PROVE  HowFar'
  <2>1. CASE Swept(c)
    BY <2>1 DEF Swept
  <2>2. CASE SweepExpires(c) \/ JoinExpires(c)
    BY <2>2 DEF SweepExpires, JoinExpires
  <2> QED
    BY <1>4, <2>1, <2>2
       DEF StopStep, StopCAS, SecondCAS, SubmitSweep, CancelManager, Joined
<1>5. CASE WorkerSweeps \/ WorkerEnds
  BY <1>5 DEF WorkerSweeps, WorkerEnds
<1>6. ASSUME NEW q \in Requests, Accept(q) \/ StartSession(q) \/ RequestEnds(q)
      PROVE  HowFar'
  BY <1>6 DEF Accept, StartSession, RequestEnds
<1>7. ASSUME NEW s \in Servers, ListenFails(s) \/ SendError(s) \/ ListenerEnds(s)
      PROVE  HowFar'
  BY <1>7 DEF ListenFails, SendError, ListenerEnds
<1>8. CASE ReasonToStop \/ Serve \/ CloseListener \/ Drained
  BY <1>8 DEF ReasonToStop, Serve, CloseListener, Drained, Closes
<1>9. CASE NotStarted \/ ManagerNotStopped \/ DrainExpires \/ ThreadsJoined
           \/ ThreadsExpire \/ ForceQuit
  BY <1>9 DEF NotStarted, ManagerNotStopped, DrainExpires, ThreadsJoined, ThreadsExpire,
              ForceQuit, Exit
<1> QED
  BY <1>1, <1>2, <1>3, <1>4, <1>5, <1>6, <1>7, <1>8, <1>9 DEF Next, MainStep

\* A closed listener stays closed, and lets no request in.
LEMMA DoorsNext ==
    ASSUME ServiceTypeOK, Doors, [Next]_vars
    PROVE  Doors'
<1> USE MainCalls DEF Doors, StartPC, StopPC, manager, server, Go, Servers, ServiceTypeOK
<1>1. CASE UNCHANGED vars
  BY <1>1 DEF vars
<1>2. ASSUME NEW c \in Callers, StartStep(c)
      PROVE  Doors'
  BY <1>2 DEF StartStep, StartCAS, ResetRows, ResetRowsFails, Rollback, StartEventLoop,
              AllowNewStarts
<1>3. ASSUME NEW c \in Callers, CallStop(c) \/ ContextExpires(c)
      PROVE  Doors'
  BY <1>3 DEF CallStop, ContextExpires
<1>4. ASSUME NEW c \in Callers, StopStep(c)
      PROVE  Doors'
  BY <1>4 DEF StopStep, StopCAS, SecondCAS, SubmitSweep, Swept, SweepExpires,
              CancelManager, Joined, JoinExpires
<1>5. CASE WorkerSweeps \/ WorkerEnds
  BY <1>5 DEF WorkerSweeps, WorkerEnds
<1>6. ASSUME NEW q \in Requests, Accept(q) \/ StartSession(q) \/ RequestEnds(q)
      PROVE  Doors'
  BY <1>6 DEF Accept, StartSession, RequestEnds
<1>7. ASSUME NEW s \in Servers, ListenFails(s) \/ SendError(s) \/ ListenerEnds(s)
      PROVE  Doors'
  BY <1>7 DEF ListenFails, SendError, ListenerEnds
<1>8. CASE ReasonToStop \/ Serve \/ CloseListener \/ Drained
  BY <1>8 DEF ReasonToStop, Serve, CloseListener, Drained, Closes
<1>9. CASE NotStarted \/ ManagerNotStopped \/ DrainExpires \/ ThreadsJoined
           \/ ThreadsExpire \/ ForceQuit
  BY <1>9 DEF NotStarted, ManagerNotStopped, DrainExpires, ThreadsJoined, ThreadsExpire,
              ForceQuit, Exit
<1> QED
  BY <1>1, <1>2, <1>3, <1>4, <1>5, <1>6, <1>7, <1>8, <1>9 DEF Next, MainStep

\* A server sends one error at most, and then it has ended.
LEMMA ErrorsNext ==
    ASSUME ServiceTypeOK, Errors, [Next]_vars
    PROVE  Errors'
<1> USE MainCalls DEF Errors, StartPC, StopPC, manager, server, Go, Servers, ErrorsCap,
                      ServiceTypeOK
<1>1. CASE UNCHANGED vars
  BY <1>1 DEF vars
<1>2. ASSUME NEW c \in Callers, StartStep(c)
      PROVE  Errors'
  BY <1>2 DEF StartStep, StartCAS, ResetRows, ResetRowsFails, Rollback, StartEventLoop,
              AllowNewStarts
<1>3. ASSUME NEW c \in Callers, CallStop(c) \/ ContextExpires(c)
      PROVE  Errors'
  BY <1>3 DEF CallStop, ContextExpires
<1>4. ASSUME NEW c \in Callers, StopStep(c)
      PROVE  Errors'
  BY <1>4 DEF StopStep, StopCAS, SecondCAS, SubmitSweep, Swept, SweepExpires,
              CancelManager, Joined, JoinExpires
<1>5. CASE WorkerSweeps \/ WorkerEnds
  BY <1>5 DEF WorkerSweeps, WorkerEnds
<1>6. ASSUME NEW q \in Requests, Accept(q) \/ StartSession(q) \/ RequestEnds(q)
      PROVE  Errors'
  BY <1>6 DEF Accept, StartSession, RequestEnds
<1>7. ASSUME NEW s \in Servers, ListenFails(s) \/ SendError(s) \/ ListenerEnds(s)
      PROVE  Errors'
  BY <1>7 DEF ListenFails, SendError, ListenerEnds
<1>8. CASE ReasonToStop \/ Serve \/ CloseListener \/ Drained
  BY <1>8 DEF ReasonToStop, Serve, CloseListener, Drained, Closes
<1>9. CASE NotStarted \/ ManagerNotStopped \/ DrainExpires \/ ThreadsJoined
           \/ ThreadsExpire \/ ForceQuit
  BY <1>9 DEF NotStarted, ManagerNotStopped, DrainExpires, ThreadsJoined, ThreadsExpire,
              ForceQuit, Exit
<1> QED
  BY <1>1, <1>2, <1>3, <1>4, <1>5, <1>6, <1>7, <1>8, <1>9 DEF Next, MainStep

\* Nothing leads from STOPPED back, and only a Start can come between.
LEMMA FinalityNext ==
    ASSUME ServiceTypeOK, Finality, [Next]_vars
    PROVE  Finality'
<1> USE MainCalls DEF Finality, StopIsFinal, Between, TearingDown, StartPC, StopPC,
                      manager, server, Go, ServiceTypeOK
<1>1. CASE UNCHANGED vars
  BY <1>1 DEF vars
<1>2. ASSUME NEW c \in Callers, StartStep(c)
      PROVE  Finality'
  BY <1>2 DEF StartStep, StartCAS, ResetRows, ResetRowsFails, Rollback, StartEventLoop,
              AllowNewStarts
<1>3. ASSUME NEW c \in Callers, CallStop(c) \/ ContextExpires(c)
      PROVE  Finality'
  BY <1>3 DEF CallStop, ContextExpires
<1>4. ASSUME NEW c \in Callers, StopStep(c)
      PROVE  Finality'
  BY <1>4 DEF StopStep, StopCAS, SecondCAS, SubmitSweep, Swept, SweepExpires,
              CancelManager, Joined, JoinExpires
<1>5. CASE WorkerSweeps \/ WorkerEnds
  BY <1>5 DEF WorkerSweeps, WorkerEnds
<1>6. ASSUME NEW q \in Requests, Accept(q) \/ StartSession(q) \/ RequestEnds(q)
      PROVE  Finality'
  BY <1>6 DEF Accept, StartSession, RequestEnds
<1>7. ASSUME NEW s \in Servers, ListenFails(s) \/ SendError(s) \/ ListenerEnds(s)
      PROVE  Finality'
  BY <1>7 DEF ListenFails, SendError, ListenerEnds
<1>8. CASE ReasonToStop \/ Serve \/ CloseListener \/ Drained
  BY <1>8 DEF ReasonToStop, Serve, CloseListener, Drained, Closes
<1>9. CASE NotStarted \/ ManagerNotStopped \/ DrainExpires \/ ThreadsJoined
           \/ ThreadsExpire \/ ForceQuit
  BY <1>9 DEF NotStarted, ManagerNotStopped, DrainExpires, ThreadsJoined, ThreadsExpire,
              ForceQuit, Exit
<1> QED
  BY <1>1, <1>2, <1>3, <1>4, <1>5, <1>6, <1>7, <1>8, <1>9 DEF Next, MainStep

\* A Stop leaves a manager that no Start can start again, however many callers there
\* are, unless a Start overtook it between its two compare-and-swaps.
THEOREM StopsAreFinal == Spec => []StopIsFinal
<1>1. Init => Finality
  BY DEF Init, Finality, TearingDown, StopIsFinal
<1>2. ServiceTypeOK /\ Finality /\ [Next]_vars => Finality'
  BY FinalityNext
<1>3. Finality => StopIsFinal
  BY DEF Finality
<1> QED
  BY <1>1, <1>2, <1>3, ServiceTyped, PTL DEF Spec

\* No server is ever stuck with an error that main does not take any more.
THEOREM ErrorsHaveRoom == Spec => []SendsNeverBlock
<1>1. Init => Errors
  BY DEF Init, Errors, Servers
<1>2. ServiceTypeOK /\ Errors /\ [Next]_vars => Errors'
  BY ErrorsNext
<1>3. ServiceTypeOK /\ Errors => SendsNeverBlock
  BY DEF Errors, SendsNeverBlock, Servers, ErrorsCap, ServiceTypeOK
<1> QED
  BY <1>1, <1>2, <1>3, ServiceTyped, PTL DEF Spec

\* An exit with success had a bulk stop without errors, and leaves no loaded session, no
\* worker, no listener and no request behind, whatever other callers of the manager's
\* interface did but tear it down; a command whose driver could not be torn down may be left.
THEOREM ExitIsClean == Spec => []CleanExit
<1>1. Init => OneStarter /\ WhoTears /\ HowFar /\ Doors
  BY MainCalls DEF Init, OneStarter, WhoTears, HowFar, Doors, Began, Alone, StartPC, StopPC,
     TearingDown
<1>2. ServiceTypeOK /\ OneStarter /\ [Next]_vars => OneStarter'
  BY OneStarterNext
<1>3. ServiceTypeOK /\ OneStarter /\ WhoTears /\ [Next]_vars => WhoTears'
  BY WhoTearsNext
<1>4. ServiceTypeOK /\ OneStarter /\ WhoTears /\ HowFar /\ [Next]_vars => HowFar'
  BY HowFarNext
<1>5. ServiceTypeOK /\ Doors /\ [Next]_vars => Doors'
  BY DoorsNext
<1>6. HowFar /\ Doors => CleanExit
  BY DEF HowFar, Doors, CleanExit, Alone
<1> QED
  BY <1>1, <1>2, <1>3, <1>4, <1>5, <1>6, ServiceTyped, PTL DEF Spec

=============================================================================
