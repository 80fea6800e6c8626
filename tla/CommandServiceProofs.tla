------------------------ MODULE CommandServiceProofs ------------------------
(***************************************************************************)
(* CommandExecutor implements CommandService: what the mutex, the cache,   *)
(* the pause and the link do comes to executions that happen in one step,  *)
(* one after the other.                                                    *)
(***************************************************************************)
EXTENDS CommandExecutorProofs


\* The initial states are initial states of the service.
LEMMA ServiceInit == Init => Service!Init
  BY DEF Init, Service!Init, Phase, Executions, AtDevice

\* A thread that moves without entering or leaving executeCommand, or that
\* writes its frame, is still one that has asked.
LEMMA PhaseKept ==
    ASSUME TypeOK, NEW t \in Threads, NEW stage \in Locked, pc[t] \in Locked \union {"waiting"},
           pc' = [pc EXCEPT ![t] = stage]
    PROVE  Phase' = Phase
  BY DEF TypeOK, Phase, Locked

LEMMA PhaseChange ==
    ASSUME TypeOK, NEW t \in Threads, NEW stage \in Stages,
           pc' = [pc EXCEPT ![t] = stage]
    PROVE  Phase' = [Phase EXCEPT ![t] =
                        IF stage \in {"idle", "replying"} THEN stage ELSE "asked"]
  BY DEF TypeOK, Phase

\* Every step is a step of the service or leaves its variables alone.
LEMMA ServiceStep ==
    ASSUME TypeOK, TypeOK', ExecutorInv, LinkInv, [Next]_vars
    PROVE  [Service!Next]_(Service!vars)
  <1> USE DEF Service!vars
  <1>0. /\ pc \in [Threads -> Stages] /\ request \in [Threads -> Request0]
        /\ reply \in [Threads -> Response \union {None}]
        /\ cache_ \in [Commands -> CachedResponse \union {None}]
        /\ latest \in [Commands -> Outcome]
        /\ runs \in Nat /\ now \in Nat
        /\ MutexInv /\ ReplyInv /\ CacheIsLatest
    BY DEF TypeOK, ExecutorInv
  <1>1. ASSUME NEW t \in Threads, Ask(t) PROVE Service!Ask(t)
    <2>1. PICK invocation \in Legal :
              request' = [request EXCEPT ![t] =
                  [command |-> invocation[1], arguments |-> invocation[2],
                   at |-> now, floor |-> latest[invocation[1]].run]]
      BY <1>1 DEF Ask
    <2>2. invocation = <<invocation[1], invocation[2]>>
      BY CommandsAssumption
    <2>3. /\ request'[t].command = invocation[1]
          /\ request'[t].arguments = invocation[2]
          /\ request' = [request EXCEPT ![t] = request'[t]]
      BY <1>0, <2>1
    <2>4. Phase[t] = "idle" /\ Phase' = [Phase EXCEPT ![t] = "asked"]
      BY <1>0, <1>1, PhaseChange DEF Ask, Phase, Stages
    <2>5. Executions' = Executions
      BY <1>0, <1>1 DEF Ask, Executions, AtDevice
    <2> QED
      BY <1>1, <2>2, <2>3, <2>4, <2>5 DEF Ask, Service!Ask
  <1>2. ASSUME NEW t \in Threads, Reply(t) PROVE Service!Deliver(t)
    <2>1. Phase[t] = "replying" /\ Phase' = [Phase EXCEPT ![t] = "idle"]
      BY <1>0, <1>2, PhaseChange DEF Reply, Phase, Stages
    <2>2. Executions' = Executions
      BY <1>0, <1>2 DEF Reply, Executions, AtDevice
    <2>3. request' = [request EXCEPT ![t] = request'[t]]
      BY <1>0, <1>2 DEF Reply
    <2> QED
      BY <1>2, <2>1, <2>2, <2>3 DEF Reply, Service!Deliver
  <1>3. ASSUME NEW t \in Threads, CacheHit(t) PROVE Service!AnswerFromLatest(t)
    <2> DEFINE entry == cache_[request[t].command]
    <2>1. /\ pc[t] = "waiting" /\ entry # None
          /\ now - entry.time <= CacheTimeout
          /\ entry.arguments = request[t].arguments
          /\ reply' = [reply EXCEPT ![t] = entry.response]
          /\ pc' = [pc EXCEPT ![t] = "replying"]
          /\ UNCHANGED <<now, request, runs, latest, abandoned>>
      BY <1>3 DEF CacheHit, CanLock, Fresh
    <2>2. request[t].command \in Commands
      BY <2>1, Serving
    <2>3. entry = latest[request[t].command].kept
      BY <1>0, <2>1, <2>2 DEF CacheIsLatest
    <2>4. Phase[t] = "asked" /\ Phase' = [Phase EXCEPT ![t] = "replying"]
      BY <1>0, <2>1, PhaseChange DEF Phase, Stages
    <2>5. Executions' = Executions
      BY <1>0, <2>1 DEF Executions, AtDevice
    <2> HIDE DEF entry
    <2> QED
      BY <2>1, <2>3, <2>4, <2>5 DEF Service!AnswerFromLatest
  <1>4. ASSUME NEW t \in Threads, CacheMiss(t) PROVE UNCHANGED Service!vars
    <2>1. Phase' = Phase
      BY <1>4, PhaseKept DEF CacheMiss, CanLock, Locked
    <2>2. Executions' = Executions
      BY <1>0, <1>4 DEF CacheMiss, CanLock, Executions, AtDevice
    <2> QED
      BY <1>4, <2>1, <2>2 DEF CacheMiss
  <1>5. ASSUME NEW t \in Threads, Begin(t) PROVE UNCHANGED Service!vars
    <2>1. Phase' = Phase
      BY <1>5, PhaseKept DEF Begin, Locked
    <2>2. \A u \in Threads : pc[u] \notin AtDevice
      BY <1>0, <1>5 DEF Begin, MutexInv, Locked, AtDevice
    <2>3. pc'[t] \in AtDevice /\ runs' = runs + 1
      BY <1>0, <1>5 DEF Begin, AtDevice
    <2>4. Executions' = Executions
      BY <1>0, <2>2, <2>3 DEF Executions
    <2> QED
      BY <1>5, <2>1, <2>4 DEF Begin
  <1>6. ASSUME NEW t \in Threads, Write(t) PROVE UNCHANGED Service!vars
    <2>1. Phase' = Phase
      BY <1>6, PhaseKept DEF Write, Locked
    <2>2. pc[t] \in AtDevice /\ pc'[t] \in AtDevice /\ runs' = runs
      BY <1>0, <1>6 DEF Write, AtDevice
    <2>3. Executions' = Executions
      BY <2>2 DEF Executions
    <2> QED
      BY <1>6, <2>1, <2>3 DEF Write
  <1>7. ASSUME NEW t \in Threads, pc[t] \in AtDevice, NEW kept, Leave(t, kept)
        PROVE  /\ Phase[t] = "asked"
               /\ Phase' = [Phase EXCEPT ![t] = "replying"]
               /\ runs = Executions + 1
               /\ Executions' = Executions + 1
    <2>1. pc' = [pc EXCEPT ![t] = "replying"] /\ runs' = runs
      BY <1>7 DEF Leave
    <2>2. Phase[t] = "asked" /\ Phase' = [Phase EXCEPT ![t] = "replying"]
      BY <1>0, <1>7, <2>1, PhaseChange DEF Phase, Stages, AtDevice
    <2>3. Executions = runs - 1
      BY <1>7 DEF Executions
    <2>4. \A u \in Threads : pc'[u] \notin AtDevice
      BY <1>0, <1>7, <2>1 DEF MutexInv, Locked, AtDevice
    <2>5. Executions' = runs
      BY <2>1, <2>4 DEF Executions
    <2> QED
      BY <1>0, <2>2, <2>3, <2>5
  <1>8. ASSUME NEW t \in Threads, Succeed(t) PROVE Service!ExecuteWell(t)
    <2> DEFINE response == [run |-> runs, answer |-> Head(line)]
               cr == [time |-> now, arguments |-> request[t].arguments,
                      response |-> response]
    <2>1. pc[t] = "reading" /\ pc[t] \in AtDevice /\ Leave(t, cr)
      BY <1>8 DEF Succeed, AtDevice
    <2>2. /\ reply' = [reply EXCEPT ![t] = response]
          /\ latest' = [latest EXCEPT ![request[t].command] =
                            [run |-> runs, kept |-> cr]]
          /\ UNCHANGED <<now, request, abandoned>>
      BY <1>8 DEF Succeed, Leave
    <2>3. response \in Response
      BY <1>8, TakeAnswerType DEF Succeed, Response, TypeOK
    <2>4. abandoned \/ Service!Answers(response, request[t])
      <3>1. SUFFICES ASSUME ~abandoned
                     PROVE  Service!Answers(response, request[t])
        OBVIOUS
      <3>2. Carries(t) /\ wire = <<>> /\ Len(line) = 1
        BY <1>0, <1>8, <3>1, TakesOwnAnswer, LinkInvParts DEF Succeed
      <3> QED
        BY <3>2 DEF Carries, Own, Service!Answers
    <2>5. /\ Phase[t] = "asked"
          /\ Phase' = [Phase EXCEPT ![t] = "replying"]
          /\ runs = Executions + 1
          /\ Executions' = Executions + 1
      BY <1>7, <2>1
    <2>6. response.run = Executions + 1
      BY <2>5
    <2>7. reply'[t] = response
      BY <1>0, <2>2
    <2>8. latest' = [latest EXCEPT ![request[t].command] =
              [run |-> Executions + 1,
               kept |-> [time |-> now, arguments |-> request[t].arguments,
                         response |-> response]]]
      BY <2>2, <2>5
    <2> HIDE DEF response
    <2> QED
      BY <2>2, <2>3, <2>4, <2>5, <2>6, <2>7, <2>8 DEF Service!ExecuteWell
  <1>9. ASSUME NEW t \in Threads, pc[t] \in AtDevice, Throw(t),
               abandoned' \in {abandoned, TRUE}
        PROVE  Service!ExecuteBadly(t)
    <2>1. /\ Phase[t] = "asked"
          /\ Phase' = [Phase EXCEPT ![t] = "replying"]
          /\ runs = Executions + 1
          /\ Executions' = Executions + 1
      BY <1>7, <1>9 DEF Throw
    <2> QED
      BY <1>9, <2>1 DEF Throw, Leave, Service!ExecuteBadly
  <1>10. ASSUME NEW t \in Threads, Fails(t)
         PROVE  Service!ExecuteBadly(t)
    BY <1>9, <1>10 DEF Fails, RefuseAnswer, PackFails, Overflow, GiveUp,
                       DeviceFails, AtDevice
  <1>11. ASSUME Tick PROVE Service!Tick
    BY <1>11 DEF Tick, Service!Tick, Phase, Executions
  <1>12. ASSUME DeviceTakes \/ Signal \/ UNCHANGED vars
         PROVE  UNCHANGED Service!vars
    BY <1>12 DEF DeviceTakes, Signal, vars, Phase, Executions
  <1> QED
    BY <1>1, <1>2, <1>3, <1>4, <1>5, <1>6, <1>8, <1>10, <1>11, <1>12
    DEF Next, Step, Fails, Quiescent, Service!Next

\* Every behaviour of the executor is a behaviour of the service.
THEOREM Refinement == Spec => ImplementsService
  <1>1. TypeOK /\ TypeOK' /\ ExecutorInv /\ LinkInv /\ [Next]_vars
            => [Service!Next]_(Service!vars)
    BY ServiceStep
  <1> QED
    BY <1>1, ServiceInit, LinkInvariant, PTL
    DEF Spec, ImplementsService, Service!Spec

=============================================================================
