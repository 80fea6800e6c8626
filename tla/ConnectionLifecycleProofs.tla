--------------------- MODULE ConnectionLifecycleProofs ---------------------
(***************************************************************************)
(* Theorems of ConnectionLifecycle for any number of heap blocks, sockets  *)
(* and waiting clients.                                                    *)
(***************************************************************************)
EXTENDS ConnectionLifecycle, TLAPS

\* The parts that prove each other.
IInv == TypeOK /\ LifecycleInv

\* The invariant holds before the first client.
LEMMA LifecycleInit == Init => IInv
  <1> SUFFICES ASSUME Init PROVE IInv
    OBVIOUS
  <1>1. TypeOK
    <2> USE DEF Init
    <2>1. main \notin Making /\ current = None /\ late \in Nat
      BY DEF Making
    <2>2. stage \in [Blocks -> Stages]
      BY DEF Stages, HasSocket
    <2>3. /\ handle \in [Blocks -> {"empty", "joinable", "detached"}]
          /\ peer \in [Blocks -> {"here", "gone"}]
          /\ pending \in [Blocks -> 0 .. MaxPending]
      BY LimitsAssumption
    <2>4. connections_ \in [Blocks -> 0 .. 2] /\ backlog \in 0 .. MaxBacklog
      BY LimitsAssumption
    <2> QED
      BY <2>1, <2>2, <2>3, <2>4 DEF TypeOK
  <1>2. LifecycleInv
    BY BlocksAssumption
    DEF Init, LifecycleInv, LateInv, HandleInv, RaceInv, PointersInv,
        RegistryIsExact, MisuseOnlyByRace, Alive, HasSocket
  <1> QED
    BY <1>1, <1>2 DEF IInv

\* The steps of a thread that only move it on between reading and closing.
LEMMA MoveStep ==
    ASSUME IInv, NEW p \in Blocks, NEW from \in HasSocket,
           NEW to \in HasSocket \union {"removing"}, Goto(p, from, to),
           UNCHANGED <<process, main, current, handle, connections_, backlog,
                       raced, late>>,
           peer' \in [Blocks -> {"here", "gone"}],
           pending' \in [Blocks -> 0 .. MaxPending],
           shutdownCaught' \in {shutdownCaught, TRUE}
    PROVE  IInv'
  <1> USE DEF IInv, LifecycleInv, HasSocket
  <1>1. TypeOK'
    BY DEF TypeOK, Goto, Stages
  <1>2. /\ stage \in [Blocks -> Stages]
        /\ stage' = [stage EXCEPT ![p] = to]
        /\ shutdownCaught \in BOOLEAN
    BY DEF TypeOK, Goto
  <1>3. LateInv'
    BY <1>2 DEF LateInv
  <1>4. HandleInv'
    BY <1>2 DEF HandleInv, Alive, Goto
  <1>5. RaceInv' /\ PointersInv'
    BY <1>2 DEF RaceInv, PointersInv, Goto
  <1>6. RegistryIsExact'
    BY <1>2 DEF RegistryIsExact, Goto
  <1>7. MisuseOnlyByRace'
    BY DEF MisuseOnlyByRace
  <1> QED
    BY <1>1, <1>3, <1>4, <1>5, <1>6, <1>7

\* Every step of the main thread keeps the invariant.
LEMMA MainKeeps ==
    ASSUME IInv, MainStep, process = "running"
    PROVE  IInv'
  <1> USE DEF IInv, LifecycleInv
  <1>0. /\ stage \in [Blocks -> Stages]
        /\ handle \in [Blocks -> {"empty", "joinable", "detached"}]
        /\ connections_ \in [Blocks -> 0 .. 2]
        /\ current \in Blocks \union {None} /\ None \notin Blocks
        /\ main \in Making <=> current # None
        /\ late \in Nat /\ backlog \in 0 .. MaxBacklog
        /\ MaxBacklog \in Nat /\ MaxPending \in Nat
    BY BlocksAssumption, LimitsAssumption DEF TypeOK
  <1>1. ASSUME Check \/ AcceptFails \/ NoResources \/ Leave PROVE IInv'
    <2>1. TypeOK'
      BY <1>1 DEF Check, AcceptFails, NoResources, Leave, TypeOK, Making
    <2>2. LateInv'
      BY <1>1 DEF Check, AcceptFails, NoResources, Leave, LateInv
    <2>3. HandleInv' /\ RaceInv' /\ PointersInv' /\ RegistryIsExact'
      BY <1>0, <1>1
      DEF Check, AcceptFails, NoResources, Leave, HandleInv, RaceInv, PointersInv,
          RegistryIsExact, Alive, Making
    <2>4. MisuseOnlyByRace'
      BY <1>1 DEF Check, AcceptFails, NoResources, Leave, MisuseOnlyByRace
    <2> QED
      BY <2>1, <2>2, <2>3, <2>4
  <1>2. ASSUME Accept PROVE IInv'
    <2>1. PICK p \in Blocks :
            /\ ~Alive(p)
            /\ current' = p
            /\ stage' = [stage EXCEPT ![p] = "reading"]
            /\ handle' = [handle EXCEPT ![p] = "empty"]
            /\ peer' = [peer EXCEPT ![p] = "here"]
            /\ pending' = [pending EXCEPT ![p] = 0]
      BY <1>2 DEF Accept
    <2>2. /\ main = "accepting" /\ main' = "assigning" /\ current = None
          /\ stage[p] = "free"
          /\ UNCHANGED <<process, connections_, shutdownCaught, raced>>
      BY <1>0, <1>2, <2>1 DEF Accept, Alive, Making
    <2>3. TypeOK'
      BY <1>0, <1>2, <2>1, <2>2
      DEF Accept, TypeOK, Making, Stages, HasSocket
    <2>4. LateInv'
      BY <1>2, <2>2 DEF Accept, LateInv
    <2>5. HandleInv'
      BY <1>0, <2>1, <2>2 DEF HandleInv, Alive
    <2>6. RaceInv' /\ PointersInv'
      BY <1>0, <2>1, <2>2 DEF RaceInv, PointersInv
    <2>7. RegistryIsExact'
      BY <1>0, <2>1, <2>2 DEF RegistryIsExact, HasSocket
    <2>8. MisuseOnlyByRace'
      BY <2>2 DEF MisuseOnlyByRace
    <2> QED
      BY <2>3, <2>4, <2>5, <2>6, <2>7, <2>8
  <1>3. ASSUME NEW h \in {"joinable", "detached"}, Touch(h),
               main' = IF h = "joinable" THEN "detaching" ELSE "adding",
               main = IF h = "joinable" THEN "assigning" ELSE "detaching",
               UNCHANGED <<current, stage, peer, pending, connections_,
                           backlog, shutdownCaught, raced, late>>
        PROVE  IInv'
    <2>1. current \in Blocks
      BY <1>0, <1>3 DEF Making
    <2>2. process' \in {"running", "misused"} /\
          handle' \in [Blocks -> {"empty", "joinable", "detached"}]
      BY <1>0, <1>3 DEF Touch
    <2>3. TypeOK'
      BY <1>3, <2>2 DEF TypeOK, Making
    <2>4. LateInv'
      BY <1>3 DEF LateInv
    <2>5. HandleInv'
      BY <1>0, <1>3, <2>1 DEF HandleInv, Touch, Alive
    <2>6. RaceInv' /\ PointersInv' /\ RegistryIsExact'
      BY <1>3 DEF RaceInv, PointersInv, RegistryIsExact
    <2>7. MisuseOnlyByRace'
      BY <1>0, <1>3, <2>1 DEF MisuseOnlyByRace, Touch, Alive, RaceInv
    <2> QED
      BY <2>3, <2>4, <2>5, <2>6, <2>7
  <1>4. ASSUME AddConnection PROVE IInv'
    <2>1. /\ current \in Blocks /\ main = "adding"
          /\ connections_' = [connections_ EXCEPT ![current] = @ + 1]
          /\ current' = None /\ main' = "checking"
          /\ UNCHANGED <<stage, handle, peer, pending, backlog,
                         shutdownCaught, raced, late>>
      BY <1>0, <1>4 DEF AddConnection, Making
    <2>2. connections_[current] <= 1
      BY <2>1 DEF PointersInv
    <2>3. process' = "running" \/ (process' = "misused" /\ raced)
      BY <1>4, <2>1 DEF AddConnection, RaceInv, Alive
    <2>4. TypeOK'
      BY <1>0, <2>1, <2>2, <2>3 DEF TypeOK, Making
    <2>5. LateInv'
      BY <2>1 DEF LateInv
    <2>6. HandleInv'
      BY <2>1 DEF HandleInv, Alive
    <2>7. RaceInv' /\ PointersInv'
      BY <1>0, <2>1 DEF RaceInv, PointersInv
    <2>8. RegistryIsExact'
      BY <1>0, <2>1 DEF RegistryIsExact, RaceInv, HasSocket, Stages
    <2>9. MisuseOnlyByRace'
      BY <2>1, <2>3 DEF MisuseOnlyByRace
    <2> QED
      BY <2>4, <2>5, <2>6, <2>7, <2>8, <2>9
  <1> QED
    BY <1>1, <1>2, <1>3, <1>4 DEF MainStep, AssignThread, DetachThread

\* Every step of a connection thread keeps the invariant.
LEMMA ThreadKeeps ==
    ASSUME IInv, NEW p \in Blocks, ThreadStep(p), process = "running"
    PROVE  IInv'
  <1>0. /\ stage \in [Blocks -> Stages]
        /\ handle \in [Blocks -> {"empty", "joinable", "detached"}]
        /\ peer \in [Blocks -> {"here", "gone"}]
        /\ pending \in [Blocks -> 0 .. MaxPending] /\ MaxPending \in Nat
        /\ connections_ \in [Blocks -> 0 .. 2]
        /\ current \in Blocks \union {None} /\ None \notin Blocks
        /\ main \in Making <=> current # None
    BY BlocksAssumption, LimitsAssumption DEF IInv, TypeOK
  <1>1. ASSUME Request(p) \/ RequestsEnd(p) \/ ProcessRequest(p) \/
               SendResponse(p) \/ CloseSocket(p)
        PROVE  IInv'
    <2>1. pending' \in [Blocks -> 0 .. MaxPending]
      <3>1. CASE Request(p)
        <4>1. pending[p] - 1 \in 0 .. MaxPending
          BY <1>0, <3>1 DEF Request
        <4> QED
          BY <1>0, <3>1, <4>1 DEF Request
      <3>2. CASE RequestsEnd(p) \/ ProcessRequest(p) \/ SendResponse(p) \/ CloseSocket(p)
        BY <1>0, <3>2
        DEF RequestsEnd, ProcessRequest, SendResponse, CloseSocket
      <3> QED
        BY <1>1, <3>1, <3>2
    <2>2. peer' \in [Blocks -> {"here", "gone"}]
      BY <1>0, <1>1
      DEF Request, RequestsEnd, ProcessRequest, SendResponse, CloseSocket
    <2>3. CASE Request(p)
      BY <2>1, <2>2, <2>3, MoveStep DEF Request, HasSocket
    <2>4. CASE RequestsEnd(p) \/ ProcessRequest(p) \/ SendResponse(p)
      BY <2>1, <2>2, <2>4, MoveStep
      DEF RequestsEnd, ProcessRequest, SendResponse, HasSocket
    <2>5. CASE CloseSocket(p)
      BY <2>1, <2>2, <2>5, MoveStep DEF CloseSocket, HasSocket
    <2> QED
      BY <1>1, <2>3, <2>4, <2>5
  <1> USE DEF IInv, LifecycleInv
  <1>2. ASSUME BrokenPipe(p) \/ RequestFails(p) PROVE IInv'
    <2>1. TypeOK'
      BY <1>2 DEF BrokenPipe, RequestFails, TypeOK
    <2> QED
      BY <1>2, <2>1
      DEF BrokenPipe, RequestFails, LateInv, HandleInv, RaceInv, PointersInv, Alive,
          RegistryIsExact, MisuseOnlyByRace
  <1>3. ASSUME RemoveConnection(p) PROVE IInv'
    <2>1. /\ stage[p] = "removing"
          /\ stage' = [stage EXCEPT ![p] = "freeing"]
          /\ connections_' = [connections_ EXCEPT ![p] = 0]
          /\ raced' = (raced \/ (p = current /\ main \in Making))
          /\ UNCHANGED <<process, main, current, handle, peer, pending,
                         backlog, shutdownCaught, late>>
      BY <1>3 DEF RemoveConnection, Goto
    <2>2. TypeOK'
      BY <1>0, <2>1 DEF TypeOK, Stages
    <2>3. LateInv'
      BY <2>1 DEF LateInv
    <2>4. HandleInv'
      BY <1>0, <2>1 DEF HandleInv, Alive
    <2>5. RaceInv'
      BY <1>0, <2>1 DEF RaceInv
    <2>6. PointersInv'
      BY <1>0, <2>1 DEF PointersInv
    <2>7. RegistryIsExact'
      BY <1>0, <2>1 DEF RegistryIsExact, HasSocket
    <2>8. MisuseOnlyByRace'
      BY <2>1 DEF MisuseOnlyByRace
    <2> QED
      BY <2>2, <2>3, <2>4, <2>5, <2>6, <2>7, <2>8
  <1>4. ASSUME FreeConnection(p) PROVE IInv'
    <2>1. /\ stage[p] = "freeing"
          /\ stage' = [stage EXCEPT ![p] = "free"]
          /\ process' = IF handle[p] = "joinable" THEN "misused" ELSE process
          /\ UNCHANGED <<main, current, handle, peer, pending, connections_,
                         backlog, shutdownCaught, raced, late>>
      BY <1>4 DEF FreeConnection, Goto
    <2>2. TypeOK'
      BY <1>0, <2>1 DEF TypeOK, Stages
    <2>3. LateInv'
      BY <2>1 DEF LateInv
    <2>4. HandleInv'
      BY <1>0, <2>1 DEF HandleInv, Alive
    <2>5. RaceInv' /\ PointersInv'
      BY <1>0, <2>1 DEF RaceInv, PointersInv
    <2>6. RegistryIsExact'
      BY <1>0, <2>1 DEF RegistryIsExact, HasSocket
    <2>7. MisuseOnlyByRace'
      BY <1>0, <2>1 DEF MisuseOnlyByRace, HandleInv, RaceInv, Alive
    <2> QED
      BY <2>2, <2>3, <2>4, <2>5, <2>6, <2>7
  <1> QED
    BY <1>1, <1>2, <1>3, <1>4 DEF ThreadStep

\* So does every step.
LEMMA LifecycleStep == IInv /\ [Next]_vars => IInv'
  <1> SUFFICES ASSUME IInv, [Next]_vars PROVE IInv'
    OBVIOUS
  <1>1. ASSUME process = "running", Connect PROVE IInv'
    <2>1. TypeOK'
      BY <1>1, LimitsAssumption DEF IInv, TypeOK, Connect
    <2> QED
      BY <1>1, <2>1
      DEF IInv, LifecycleInv, Connect, LateInv, HandleInv, RaceInv, PointersInv,
          Alive, RegistryIsExact, MisuseOnlyByRace
  <1>2. ASSUME NEW p \in Blocks, SendRequest(p) \/ PeerLeaves(p) PROVE IInv'
    <2>1. TypeOK'
      BY <1>2, LimitsAssumption DEF IInv, TypeOK, SendRequest, PeerLeaves
    <2> QED
      BY <1>2, <2>1
      DEF IInv, LifecycleInv, SendRequest, PeerLeaves, LateInv, HandleInv, RaceInv,
          PointersInv, Alive, RegistryIsExact, MisuseOnlyByRace
  <1>3. ASSUME Signal PROVE IInv'
    <2>1. CASE \E p \in Blocks :
                 Goto(p, "reading", "closing") \/ Goto(p, "sending", "closing")
      <3>1. PICK p \in Blocks :
                 Goto(p, "reading", "closing") \/ Goto(p, "sending", "closing")
        BY <2>1
      <3>2. CASE UNCHANGED main
        BY <1>3, <3>1, <3>2, MoveStep
        DEF Signal, HasSocket, IInv, TypeOK
      <3>3. CASE main' # main
        BY <1>3, <3>1, <3>3 DEF Signal, Goto, IInv, TypeOK, Stages, HasSocket
      <3> QED
        BY <3>2, <3>3
    <2>2. CASE /\ UNCHANGED stage
               /\ main' = main \/ (main = "accepting" /\ main' = "checking")
      <3>1. /\ shutdownCaught' = TRUE
            /\ UNCHANGED <<process, current, handle, peer, pending,
                           connections_, backlog, raced, late>>
        BY <1>3 DEF Signal
      <3>2. TypeOK'
        BY <2>2, <3>1 DEF IInv, TypeOK, Making
      <3>3. LateInv'
        BY <2>2, <3>1 DEF IInv, LifecycleInv, LateInv
      <3>4. HandleInv' /\ RaceInv' /\ PointersInv' /\ RegistryIsExact'
        BY <2>2, <3>1
        DEF IInv, LifecycleInv, HandleInv, RaceInv, PointersInv, Alive,
            RegistryIsExact
      <3>5. MisuseOnlyByRace'
        BY <3>1 DEF IInv, LifecycleInv, MisuseOnlyByRace
      <3> QED
        BY <3>2, <3>3, <3>4, <3>5 DEF IInv, LifecycleInv
    <2> QED
      BY <1>3, <2>1, <2>2 DEF Signal
  <1>4. ASSUME UNCHANGED vars PROVE IInv'
    BY <1>4
    DEF vars, IInv, TypeOK, LifecycleInv, LateInv, HandleInv, RaceInv,
        PointersInv, Alive, RegistryIsExact, MisuseOnlyByRace
  <1> QED
    BY <1>1, <1>2, <1>3, <1>4, MainKeeps, ThreadKeeps DEF Next, Ended

LEMMA LifecycleInvariant == Spec => []IInv
  BY LifecycleInit, LifecycleStep, PTL DEF Spec

\* Types, and no block is pointed to more than twice.
THEOREM LifecycleTypes == Spec => []TypeOK
  BY LifecycleInvariant, PTL DEF IInv

\* Who may hold a pointer to a connection, a reference to its thread and a place
\* in the registry at each step of its life: the inductive invariant.
THEOREM LifecycleIsSafe == Spec => []LifecycleInv
  BY LifecycleInvariant, PTL DEF IInv

\* At most one client is accepted after shutdownCaught is set.
THEOREM OneLateClient == Spec => []AtMostOneLate
  <1>1. IInv => AtMostOneLate
    BY DEF IInv, LifecycleInv, LateInv, AtMostOneLate
  <1> QED
    BY <1>1, LifecycleInvariant, PTL

\* Without the race in the constructor the registry is exact.
THEOREM ExactRegistry == Spec => []RegistryIsExact
  <1>1. IInv => RegistryIsExact
    BY DEF IInv, LifecycleInv
  <1> QED
    BY <1>1, LifecycleInvariant, PTL

\* Without that race no freed Connection is touched and no joinable thread_ is
\* destroyed; what else ends the process is an exception or a signal.
THEOREM NoOtherMisuse == Spec => []MisuseOnlyByRace
  <1>1. IInv => MisuseOnlyByRace
    BY DEF IInv, LifecycleInv
  <1> QED
    BY <1>1, LifecycleInvariant, PTL

=============================================================================
