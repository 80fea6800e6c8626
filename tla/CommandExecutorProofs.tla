----------------------- MODULE CommandExecutorProofs -----------------------
(***************************************************************************)
(* Theorems of CommandExecutor for every set of threads, commands and      *)
(* arguments and every setting of the cache, the pause, the limit and the  *)
(* deadline.                                                               *)
(***************************************************************************)
EXTENDS CommandExecutor, TLAPS

\* Taking k of the answers on the line leaves a line of answers.
LEMMA TakenLine ==
    ASSUME NEW s \in Seq(Answer), NEW k \in 1 .. Len(s)
    PROVE  /\ SubSeq(s, k + 1, Len(s)) \in Seq(Answer)
           /\ Len(SubSeq(s, k + 1, Len(s))) = Len(s) - k
  OBVIOUS

\* readLoop keeps the line a line of answers and returns one of them.
LEMMA TakeAnswerType ==
    ASSUME line \in Seq(Answer), TakeAnswer
    PROVE  /\ line' \in Seq(Answer)
           /\ Head(line) \in Answer
           /\ UNCHANGED <<wire, lastSet>>
  BY TakenLine DEF TakeAnswer

\* The variables keep their types in the initial state.
LEMMA TypeInit == Init => TypeOK
  <1> SUFFICES ASSUME Init PROVE TypeOK
    OBVIOUS
  <1> USE DEF Init
  <1>1. now \in Nat /\ asked \in Nat /\ runs \in Nat /\ lastEnd \in Nat
    OBVIOUS
  <1>2. pc \in [Threads -> Stages] /\ request \in [Threads -> Request0]
    BY DEF Stages, Request0
  <1>3. latest \in [Commands -> Outcome]
    BY DEF Outcome
  <1>4. wire \in Seq(Frame) /\ line \in Seq(Answer)
    OBVIOUS
  <1>5. \A t \in Threads : pc[t] = "idle" <=> request[t] = None
    OBVIOUS
  <1> QED
    BY <1>1, <1>2, <1>3, <1>4, <1>5 DEF TypeOK

\* Leave keeps the types of what it writes.
LEMMA LeaveType ==
    ASSUME TypeOK, NEW t \in Threads, pc[t] \in Locked,
           NEW kept \in CachedResponse \union {None}, Leave(t, kept)
    PROVE  /\ now' \in Nat /\ wakeAt' \in Nat /\ timeStarted_' \in Nat
           /\ asked' \in Nat /\ runs' \in Nat /\ lastEnd' \in Nat
           /\ pc' \in [Threads -> Stages]
           /\ request' \in [Threads -> Request0]
           /\ client_mutex_' \in Threads \union {None}
           /\ latest' \in [Commands -> Outcome]
           /\ \A u \in Threads : pc'[u] = "idle" <=> request'[u] = None
  BY DEF Leave, TypeOK, Locked, Stages, Request0, Outcome

\* Every step keeps the types.
LEMMA TypeStep == TypeOK /\ [Next]_vars => TypeOK'
  <1> SUFFICES ASSUME TypeOK, [Next]_vars PROVE TypeOK'
    OBVIOUS
  <1> USE DEF TypeOK
  <1>1. ASSUME NEW t \in Threads, Ask(t) PROVE TypeOK'
    <2>1. PICK invocation \in Legal :
              request' = [request EXCEPT ![t] =
                  [command |-> invocation[1], arguments |-> invocation[2],
                   at |-> now, floor |-> latest[invocation[1]].run]]
      BY <1>1 DEF Ask
    <2>2. invocation[1] \in Commands /\ invocation[2] \in Arguments
      BY CommandsAssumption
    <2>3. [command |-> invocation[1], arguments |-> invocation[2],
           at |-> now, floor |-> latest[invocation[1]].run] \in Request
      BY <2>2 DEF Request, Outcome
    <2> QED
      BY <1>1, <2>1, <2>3, NoneAssumption
      DEF Ask, server, link, Request0, Stages, Locked
  <1>2. ASSUME NEW t \in Threads, Reply(t) PROVE TypeOK'
    BY <1>2 DEF Reply, server, link, Request0, Stages
  <1>3. ASSUME NEW t \in Threads, CacheHit(t) PROVE TypeOK'
    <2>1. request[t] \in Request
      BY <1>3 DEF CacheHit, CanLock, Request0
    <2>2. cache_[request[t].command] \in CachedResponse
      BY <1>3, <2>1 DEF CacheHit, Fresh, Request
    <2>3. cache_[request[t].command].response \in Response
      BY <2>2 DEF CachedResponse
    <2> QED
      BY <1>3, <2>3 DEF CacheHit, CanLock, server, link, Request0, Stages
  <1>4. ASSUME NEW t \in Threads, CacheMiss(t) PROVE TypeOK'
    <2>1. PauseEnd \in Nat
      BY SettingsAssumption DEF PauseEnd
    <2> QED
      BY <1>4, <2>1
      DEF CacheMiss, CanLock, Erase, link, Request0, Stages, Locked
  <1>5. ASSUME NEW t \in Threads, Begin(t) PROVE TypeOK'
    BY <1>5 DEF Begin, server, link, Request0, Stages, Locked
  <1>6. ASSUME NEW t \in Threads, Write(t) PROVE TypeOK'
    <2>1. request[t] \in Request
      BY <1>6 DEF Write, Request0
    <2>2. [run |-> runs, command |-> request[t].command,
           arguments |-> request[t].arguments] \in Frame
      BY <2>1 DEF Request, Frame
    <2>3. wire' \in Seq(Frame)
      BY <1>6, <2>2 DEF Write
    <2> QED
      BY <1>6, <2>3 DEF Write, server, Request0, Stages, Locked
  <1>7. ASSUME NEW t \in Threads, Succeed(t) PROVE TypeOK'
    <2>0. pc[t] \in Locked /\ request[t] \in Request
      BY <1>7 DEF Succeed, Locked, Request0
    <2>1. /\ line' \in Seq(Answer) /\ Head(line) \in Answer
          /\ UNCHANGED <<wire, lastSet>>
      BY <1>7, TakeAnswerType DEF Succeed
    <2> DEFINE response == [run |-> runs, answer |-> Head(line)]
               cr == [time |-> now, arguments |-> request[t].arguments,
                      response |-> response]
    <2>2. response \in Response
      BY <2>1 DEF Response
    <2>3. cr \in CachedResponse
      BY <2>0, <2>2 DEF CachedResponse, Request
    <2>4. /\ cache_' = [cache_ EXCEPT ![request[t].command] = cr]
          /\ reply' = [reply EXCEPT ![t] = response]
          /\ Leave(t, cr)
      BY <1>7 DEF Succeed
    <2> HIDE DEF response, cr
    <2>5. /\ cache_' \in [Commands -> CachedResponse \union {None}]
          /\ reply' \in [Threads -> Response \union {None}]
      BY <2>2, <2>3, <2>4
    <2>6. /\ endExecutionTime_' \in Nat /\ deviceErrorCounter_' \in Nat
          /\ UNCHANGED <<shutdownCaught, abandoned>>
      BY <1>7 DEF Succeed, ResetErrors
    <2> QED
      BY <2>0, <2>1, <2>3, <2>4, <2>5, <2>6, LeaveType
  <1>8. ASSUME NEW t \in Threads, RefuseAnswer(t) PROVE TypeOK'
    <2>1. line' \in Seq(Answer) /\ UNCHANGED <<wire, lastSet>>
      BY <1>8, TakeAnswerType DEF RefuseAnswer
    <2> QED
      BY <1>8, <2>1, LeaveType DEF RefuseAnswer, Throw, Locked
  <1>9. ASSUME NEW t \in Threads, GiveUp(t) PROVE TypeOK'
    BY <1>9, LeaveType DEF GiveUp, Throw, link, Locked
  <1>10. ASSUME NEW t \in Threads, DeviceFails(t) PROVE TypeOK'
    BY <1>10, LeaveType DEF DeviceFails, Throw, link, Locked
  <1>15. ASSUME NEW t \in Threads, PackFails(t) \/ Overflow(t) PROVE TypeOK'
    BY <1>15, LeaveType DEF PackFails, Overflow, Throw, link, Locked
  <1>11. ASSUME DeviceTakes PROVE TypeOK'
    <2>1. PICK accepted \in BOOLEAN, answered \in BOOLEAN :
            LET f == Head(wire) IN
            /\ lastSet' = IF accepted /\ f.command \in SetCommands
                          THEN [command |-> f.command, arguments |-> f.arguments]
                          ELSE lastSet
            /\ line' = IF answered
                       THEN Append(line, [run |-> f.run, command |-> f.command,
                              arguments |-> f.arguments, accepted |-> accepted])
                       ELSE line
      BY <1>11 DEF DeviceTakes
    <2>2. wire # <<>> /\ Head(wire) \in Frame /\ wire' \in Seq(Frame)
      BY <1>11 DEF DeviceTakes
    <2>3. lastSet' \in Setting \union {None}
      BY <2>1, <2>2 DEF Frame, Setting
    <2>4. [run |-> Head(wire).run, command |-> Head(wire).command,
           arguments |-> Head(wire).arguments, accepted |-> accepted] \in Answer
      BY <2>2 DEF Frame, Answer
    <2>5. line' \in Seq(Answer)
      BY <2>1, <2>4
    <2> QED
      BY <1>11, <2>2, <2>3, <2>5 DEF DeviceTakes, server
  <1>12. ASSUME Signal PROVE TypeOK'
    BY <1>12 DEF Signal, server, link
  <1>13. ASSUME Tick PROVE TypeOK'
    BY <1>13 DEF Tick, server, link
  <1>14. CASE UNCHANGED vars
    BY <1>14 DEF vars, server, link
  <1> QED
    BY <1>1, <1>2, <1>3, <1>4, <1>5, <1>6, <1>7, <1>8, <1>9, <1>10, <1>11,
       <1>12, <1>13, <1>14, <1>15 DEF Next, Step, Quiescent

\* Every variable keeps its type in every behaviour of executeCommand.
THEOREM TypeCorrect == Spec => []TypeOK
  BY TypeInit, TypeStep, PTL DEF Spec

----------------------------------------------------------------------------
(* client_mutex_ *)

\* The mutex is held exactly by the thread inside the critical section.
LEMMA MutexStep == TypeOK /\ MutexInv /\ [Next]_vars => MutexInv'
  <1> SUFFICES ASSUME TypeOK, MutexInv, [Next]_vars PROVE MutexInv'
    OBVIOUS
  <1> USE NoneAssumption DEF MutexInv, Locked
  <1>1. pc \in [Threads -> Stages]
    BY DEF TypeOK
  <1>2. ASSUME NEW t \in Threads, Ask(t) PROVE MutexInv'
    BY <1>1, <1>2 DEF Ask, server
  <1>3. ASSUME NEW t \in Threads, Reply(t) PROVE MutexInv'
    BY <1>1, <1>3 DEF Reply, server
  <1>4. ASSUME NEW t \in Threads, CacheHit(t) PROVE MutexInv'
    BY <1>1, <1>4 DEF CacheHit, CanLock, server
  <1>5. ASSUME NEW t \in Threads, CacheMiss(t) PROVE MutexInv'
    BY <1>1, <1>5 DEF CacheMiss, CanLock
  <1>6. ASSUME NEW t \in Threads, Begin(t) PROVE MutexInv'
    BY <1>1, <1>6 DEF Begin, server
  <1>7. ASSUME NEW t \in Threads, Write(t) PROVE MutexInv'
    BY <1>1, <1>7 DEF Write, server
  <1>8. ASSUME NEW t \in Threads, pc[t] \in Locked,
               NEW kept, Leave(t, kept)
        PROVE MutexInv'
    BY <1>1, <1>8 DEF Leave
  <1>9. ASSUME UNCHANGED <<pc, client_mutex_>> PROVE MutexInv'
    BY <1>9
  <1> QED
    BY <1>2, <1>3, <1>4, <1>5, <1>6, <1>7, <1>8, <1>9
    DEF Next, Step, Succeed, RefuseAnswer, PackFails, Overflow, GiveUp,
        DeviceFails, Throw,
        DeviceTakes, Signal, Tick, Quiescent, vars, server

\* No two threads are in the critical section at once.
THEOREM MutualExclusion ==
    Spec => [](\A t, u \in Threads : pc[t] \in Locked /\ pc[u] \in Locked => t = u)
  <1>1. Init => MutexInv
    BY NoneAssumption DEF Init, MutexInv, Locked
  <1>2. MutexInv =>
          \A t, u \in Threads : pc[t] \in Locked /\ pc[u] \in Locked => t = u
    BY DEF MutexInv
  <1> QED
    BY <1>1, <1>2, TypeInit, TypeStep, MutexStep, PTL DEF Spec

----------------------------------------------------------------------------
(* The cache and the age of what it answers *)

\* An execution fails.
Fails(t) == \/ RefuseAnswer(t) \/ PackFails(t) \/ Overflow(t)
            \/ GiveUp(t) \/ DeviceFails(t)

\* The steps, as the response cache sees them: the failures of an
\* execution are one, and whatever leaves its variables alone is one.
LEMMA StepCases ==
    ASSUME [Next]_vars
    PROVE  \/ \E t \in Threads :
                 \/ Ask(t) \/ Reply(t) \/ CacheHit(t) \/ CacheMiss(t)
                 \/ Begin(t) \/ Write(t) \/ Succeed(t)
                 \/ pc[t] \in AtDevice /\ Throw(t)
           \/ /\ UNCHANGED <<pc, request, reply, cache_, latest, runs>>
              /\ now' = now \/ now' = now + 1
  BY DEF Next, Step, RefuseAnswer, PackFails, Overflow, GiveUp, DeviceFails,
         DeviceTakes, Signal, Tick, Quiescent, vars, server, AtDevice

\* What the type invariant says about a thread that serves a request.
LEMMA Serving ==
    ASSUME TypeOK, NEW t \in Threads, pc[t] # "idle"
    PROVE  /\ request[t] \in Request
           /\ request[t].command \in Commands
           /\ request[t].arguments \in Arguments
           /\ request[t].at \in Nat /\ request[t].floor \in Nat
  BY DEF TypeOK, Request0, Request

\* A command loses its entry when its execution begins and gets a new one only
\* from an execution that succeeds: the cache is what `latest` says.
LEMMA CacheStep ==
    ASSUME TypeOK, MutexInv, ErasedInv, CacheIsLatest, [Next]_vars
    PROVE  ErasedInv' /\ CacheIsLatest'
  <1> USE DEF ErasedInv, CacheIsLatest, Locked
  <1>0. /\ pc \in [Threads -> Stages]
        /\ request \in [Threads -> Request0]
        /\ cache_ \in [Commands -> CachedResponse \union {None}]
        /\ latest \in [Commands -> Outcome]
    BY DEF TypeOK
  <1>1. ASSUME NEW t \in Threads, Ask(t) PROVE ErasedInv' /\ CacheIsLatest'
    BY <1>0, <1>1 DEF Ask, server
  <1>2. ASSUME NEW t \in Threads, Reply(t) PROVE ErasedInv' /\ CacheIsLatest'
    BY <1>0, <1>2 DEF Reply, server
  <1>3. ASSUME NEW t \in Threads, CacheHit(t)
        PROVE  ErasedInv' /\ CacheIsLatest'
    BY <1>0, <1>3 DEF CacheHit, CanLock, server
  <1>4. ASSUME NEW t \in Threads, CacheMiss(t)
        PROVE  ErasedInv' /\ CacheIsLatest'
    <2>1. \A u \in Threads : pc[u] \notin Locked
      BY <1>4, NoneAssumption DEF CacheMiss, CanLock, MutexInv
    <2>2. request[t].command \in Commands
      BY <1>4, Serving DEF CacheMiss, CanLock
    <2> QED
      BY <1>0, <1>4, <2>1, <2>2 DEF CacheMiss, CanLock, Erase
  <1>5. ASSUME NEW t \in Threads, Begin(t) PROVE ErasedInv' /\ CacheIsLatest'
    BY <1>0, <1>5 DEF Begin, server
  <1>6. ASSUME NEW t \in Threads, Write(t) PROVE ErasedInv' /\ CacheIsLatest'
    BY <1>0, <1>6 DEF Write, server
  <1>7. ASSUME NEW t \in Threads, pc[t] \in Locked,
               NEW kept \in CachedResponse \union {None},
               Leave(t, kept), cache_' = [cache_ EXCEPT ![request[t].command] = kept]
        PROVE  ErasedInv' /\ CacheIsLatest'
    <2>1. \A u \in Threads : pc[u] \in Locked => u = t
      BY <1>7 DEF MutexInv
    <2>2. request[t].command \in Commands
      BY <1>7, Serving
    <2> QED
      BY <1>0, <1>7, <2>1, <2>2 DEF Leave, Outcome
  <1>8. ASSUME NEW t \in Threads, Succeed(t)
        PROVE  ErasedInv' /\ CacheIsLatest'
    <2>1. pc[t] = "reading" /\ request[t].arguments \in Arguments
      BY <1>8, Serving DEF Succeed
    <2>2. [run |-> runs, answer |-> Head(line)] \in Response
      BY <1>8, TakeAnswerType DEF Succeed, Response, TypeOK
    <2>3. [time |-> now, arguments |-> request[t].arguments,
           response |-> [run |-> runs, answer |-> Head(line)]]
              \in CachedResponse
      BY <2>1, <2>2 DEF CachedResponse, TypeOK
    <2> QED
      BY <1>7, <1>8, <2>1, <2>3 DEF Succeed
  <1>9. ASSUME NEW t \in Threads, pc[t] \in AtDevice, Throw(t)
        PROVE  ErasedInv' /\ CacheIsLatest'
    <2>1. pc[t] \in Locked
      BY <1>9 DEF AtDevice
    <2>2. cache_' = [cache_ EXCEPT ![request[t].command] = None]
      BY <1>0, <1>9, <2>1 DEF Throw
    <2> QED
      BY <1>7, <1>9, <2>1, <2>2 DEF Throw
  <1>10. CASE UNCHANGED <<pc, request, reply, cache_, latest, runs>>
    BY <1>10
  <1> QED
    BY <1>1, <1>2, <1>3, <1>4, <1>5, <1>6, <1>8, <1>9, <1>10, StepCases

\* Executions are numbered in the order in which they end, and the clock has
\* reached every time that was noted.
LEMMA RunsStep ==
    ASSUME TypeOK, MutexInv, RunsInv, [Next]_vars
    PROVE  RunsInv'
  <1> USE DEF RunsInv, AtDevice, Locked
  <1>0. /\ pc \in [Threads -> Stages]
        /\ request \in [Threads -> Request0]
        /\ latest \in [Commands -> Outcome]
        /\ runs \in Nat /\ now \in Nat
        /\ \A c \in Commands : latest[c].run \in Nat
    BY DEF TypeOK, Outcome
  <1>1. ASSUME NEW t \in Threads, Ask(t) PROVE RunsInv'
    <2>1. PICK invocation \in Legal :
              request' = [request EXCEPT ![t] =
                  [command |-> invocation[1], arguments |-> invocation[2],
                   at |-> now, floor |-> latest[invocation[1]].run]]
      BY <1>1 DEF Ask
    <2>2. invocation[1] \in Commands
      BY CommandsAssumption
    <2>3. /\ request'[t].floor <= latest[request'[t].command].run
          /\ request'[t].at <= now
      BY <1>0, <2>1, <2>2
    <2>4. \A u \in Threads : u # t => request'[u] = request[u] /\ pc'[u] = pc[u]
      BY <1>0, <1>1, <2>1 DEF Ask
    <2>5. pc'[t] = "waiting" /\ UNCHANGED <<latest, runs, now>>
      BY <1>0, <1>1 DEF Ask
    <2> QED
      BY <2>3, <2>4, <2>5
  <1>2. ASSUME NEW t \in Threads, Reply(t) PROVE RunsInv'
    BY <1>0, <1>2 DEF Reply
  <1>3. ASSUME NEW t \in Threads, CacheHit(t) PROVE RunsInv'
    BY <1>0, <1>3 DEF CacheHit, CanLock
  <1>4. ASSUME NEW t \in Threads, CacheMiss(t) PROVE RunsInv'
    BY <1>0, <1>4 DEF CacheMiss, CanLock
  <1>5. ASSUME NEW t \in Threads, Begin(t) PROVE RunsInv'
    BY <1>0, <1>5 DEF Begin
  <1>6. ASSUME NEW t \in Threads, Write(t) PROVE RunsInv'
    BY <1>0, <1>6 DEF Write
  <1>7. ASSUME NEW t \in Threads, pc[t] \in AtDevice,
               NEW kept \in CachedResponse \union {None}, Leave(t, kept),
               kept # None => kept.response.run = runs /\ kept.time = now
        PROVE  RunsInv'
    <2>1. \A u \in Threads : pc[u] \in Locked => u = t
      BY <1>7 DEF MutexInv
    <2>2. request[t].command \in Commands
      BY <1>7, Serving
    <2>3. /\ pc' = [pc EXCEPT ![t] = "replying"]
          /\ latest' = [latest EXCEPT ![request[t].command] =
                            [run |-> runs, kept |-> kept]]
          /\ UNCHANGED <<now, request, runs>>
      BY <1>7 DEF Leave
    <2>4. \A c \in Commands :
              /\ latest'[c].run <= runs'
              /\ latest'[c].kept # None =>
                    /\ latest'[c].kept.response.run = latest'[c].run
                    /\ latest'[c].kept.time <= now'
              /\ latest'[c].run >= latest[c].run
      BY <1>0, <1>7, <2>2, <2>3
    <2>5. \A u \in Threads : pc'[u] \notin AtDevice
      BY <1>0, <2>1, <2>3
    <2>6. \A u \in Threads : pc'[u] # "idle" =>
              /\ request'[u].floor <= latest'[request'[u].command].run
              /\ request'[u].at <= now'
      BY <1>0, <1>7, <2>3, <2>4, Serving
    <2> QED
      BY <2>4, <2>5, <2>6
  <1>8. ASSUME NEW t \in Threads, Succeed(t) PROVE RunsInv'
    <2>1. pc[t] = "reading" /\ request[t].arguments \in Arguments
      BY <1>8, Serving DEF Succeed
    <2>2. [run |-> runs, answer |-> Head(line)] \in Response
      BY <1>8, TakeAnswerType DEF Succeed, Response, TypeOK
    <2>3. [time |-> now, arguments |-> request[t].arguments,
           response |-> [run |-> runs, answer |-> Head(line)]]
              \in CachedResponse
      BY <2>1, <2>2 DEF CachedResponse, TypeOK
    <2> QED
      BY <1>7, <1>8, <2>1, <2>3 DEF Succeed
  <1>9. ASSUME NEW t \in Threads, pc[t] \in AtDevice, Throw(t) PROVE RunsInv'
    BY <1>7, <1>9 DEF Throw
  <1>10. ASSUME UNCHANGED <<pc, request, reply, cache_, latest, runs>>,
                now' = now \/ now' = now + 1
         PROVE  RunsInv'
    <2>1. \A c \in Commands : latest[c].kept # None => latest[c].kept.time \in Nat
      BY <1>0 DEF Outcome, CachedResponse
    <2>2. \A u \in Threads : pc[u] # "idle" => request[u].at \in Nat
      BY Serving
    <2> QED
      BY <1>0, <1>10, <2>1, <2>2
  <1> QED
    BY <1>1, <1>2, <1>3, <1>4, <1>5, <1>6, <1>8, <1>9, <1>10, StepCases

\* Only a thread that replies has a response.
LEMMA ReplyStep ==
    ASSUME TypeOK, ReplyInv, [Next]_vars
    PROVE  ReplyInv'
  <1> USE DEF ReplyInv
  <1>0. pc \in [Threads -> Stages] /\ reply \in [Threads -> Response \union {None}]
    BY DEF TypeOK
  <1>1. ASSUME NEW t \in Threads, Ask(t) PROVE ReplyInv'
    BY <1>0, <1>1 DEF Ask
  <1>2. ASSUME NEW t \in Threads, Reply(t) PROVE ReplyInv'
    BY <1>0, <1>2 DEF Reply
  <1>3. ASSUME NEW t \in Threads, CacheHit(t) PROVE ReplyInv'
    BY <1>0, <1>3 DEF CacheHit
  <1>4. ASSUME NEW t \in Threads, CacheMiss(t) PROVE ReplyInv'
    BY <1>0, <1>4 DEF CacheMiss, CanLock
  <1>5. ASSUME NEW t \in Threads, Begin(t) PROVE ReplyInv'
    BY <1>0, <1>5 DEF Begin
  <1>6. ASSUME NEW t \in Threads, Write(t) PROVE ReplyInv'
    BY <1>0, <1>6 DEF Write
  <1>7. ASSUME NEW t \in Threads, Succeed(t) PROVE ReplyInv'
    BY <1>0, <1>7 DEF Succeed, Leave
  <1>8. ASSUME NEW t \in Threads, Throw(t) PROVE ReplyInv'
    BY <1>0, <1>8 DEF Throw, Leave
  <1> QED
    BY <1>1, <1>2, <1>3, <1>4, <1>5, <1>6, <1>7, <1>8, StepCases

\* Responses are not older than what had been executed when they were asked
\* for, and an entry that answers was valid when the request was made.
LEMMA AnswerStep ==
    ASSUME TypeOK, ExecutorInv, [Next]_vars
    PROVE  NeverOlder' /\ CacheValidity'
  <1> USE DEF ExecutorInv, NeverOlder, CacheValidity
  <1>0. /\ pc \in [Threads -> Stages]
        /\ request \in [Threads -> Request0]
        /\ reply \in [Threads -> Response \union {None}]
        /\ cache_ \in [Commands -> CachedResponse \union {None}]
        /\ latest \in [Commands -> Outcome]
        /\ now \in Nat /\ runs \in Nat
        /\ \A c \in Commands :
              /\ latest[c].run \in Nat
              /\ latest[c].kept \in CachedResponse \union {None}
    BY DEF TypeOK, Outcome
  <1>T. \A e \in CachedResponse : e.time \in Nat /\ e.response \in Response
    BY DEF CachedResponse
  <1>1. ASSUME NEW t \in Threads, Ask(t) PROVE NeverOlder' /\ CacheValidity'
    BY <1>0, <1>1 DEF Ask, server
  <1>2. ASSUME NEW t \in Threads, Reply(t) PROVE NeverOlder' /\ CacheValidity'
    BY <1>0, <1>2 DEF Reply, server
  <1>3. ASSUME NEW t \in Threads, CacheHit(t)
        PROVE  NeverOlder' /\ CacheValidity'
    <2> DEFINE c == request[t].command
    <2>1. /\ pc[t] = "waiting" /\ c \in Commands
          /\ request[t].at \in Nat /\ request[t].floor \in Nat
      BY <1>3, Serving DEF CacheHit, CanLock
    <2>2. /\ cache_[c] # None /\ now - cache_[c].time <= CacheTimeout
          /\ reply' = [reply EXCEPT ![t] = cache_[c].response]
      BY <1>3 DEF CacheHit, Fresh
    <2>3. cache_[c] = latest[c].kept /\ cache_[c] \in CachedResponse
      BY <1>0, <2>1, <2>2 DEF CacheIsLatest
    <2>4. cache_[c].response.run >= request[t].floor
      BY <1>0, <2>1, <2>2, <2>3 DEF RunsInv
    <2>5. cache_[c].time + CacheTimeout >= request[t].at
      BY <1>0, <1>T, <2>1, <2>2, <2>3, SettingsAssumption DEF RunsInv
    <2>6. /\ pc' = [pc EXCEPT ![t] = "replying"]
          /\ UNCHANGED <<now, request, cache_, latest>>
      BY <1>3 DEF CacheHit, server
    <2>7. NeverOlder'
      BY <1>0, <2>2, <2>4, <2>6
    <2>8. CacheValidity'
      BY <1>0, <2>2, <2>3, <2>5, <2>6
    <2> QED
      BY <2>7, <2>8
  <1>4. ASSUME NEW t \in Threads, CacheMiss(t)
        PROVE  NeverOlder' /\ CacheValidity'
    <2>1. request[t].command \in Commands
      BY <1>4, Serving DEF CacheMiss, CanLock
    <2> QED
      BY <1>0, <1>4, <2>1 DEF CacheMiss, CanLock, Erase
  <1>5. ASSUME NEW t \in Threads, Begin(t) PROVE NeverOlder' /\ CacheValidity'
    BY <1>0, <1>5 DEF Begin, server
  <1>6. ASSUME NEW t \in Threads, Write(t) PROVE NeverOlder' /\ CacheValidity'
    BY <1>0, <1>6 DEF Write, server
  <1>7. ASSUME NEW t \in Threads, Succeed(t)
        PROVE  NeverOlder' /\ CacheValidity'
    <2> DEFINE c == request[t].command
               response == [run |-> runs, answer |-> Head(line)]
               cr == [time |-> now, arguments |-> request[t].arguments,
                      response |-> response]
    <2>1. /\ pc[t] = "reading" /\ c \in Commands
          /\ request[t].at \in Nat /\ request[t].floor \in Nat
      BY <1>7, Serving DEF Succeed
    <2>2. /\ cache_' = [cache_ EXCEPT ![c] = cr]
          /\ reply' = [reply EXCEPT ![t] = response]
          /\ latest' = [latest EXCEPT ![c] = [run |-> runs, kept |-> cr]]
          /\ pc' = [pc EXCEPT ![t] = "replying"]
          /\ UNCHANGED <<now, request>>
      BY <1>7 DEF Succeed, Leave
    <2>3. runs >= request[t].floor
      BY <1>0, <2>1 DEF RunsInv, AtDevice
    <2>4. cr.time = now /\ response.run = runs
      OBVIOUS
    <2> HIDE DEF cr, response
    <2>5. NeverOlder'
      BY <1>0, <2>1, <2>2, <2>3, <2>4
    <2>6. \A u \in Threads : pc'[u] = "replying" => request[u].at <= now
      BY <1>0, <2>1, <2>2 DEF RunsInv
    <2>7. ASSUME NEW u \in Threads, pc'[u] = "replying", reply'[u] # None,
                 latest'[request'[u].command].kept # None,
                 latest'[request'[u].command].kept.response = reply'[u]
          PROVE  latest'[request'[u].command].kept.time + CacheTimeout
                     >= request'[u].at
      <3>1. request[u].command \in Commands /\ request[u].at \in Nat
        BY <1>0, <2>1, <2>2, <2>7, Serving
      <3>2. CASE request[u].command = c
        BY <1>0, <2>2, <2>4, <2>6, <2>7, <3>1, <3>2, SettingsAssumption
      <3>3. CASE request[u].command # c
        BY <1>0, <2>1, <2>2, <2>7, <3>1, <3>3
      <3> QED
        BY <3>2, <3>3
    <2>8. \A d \in Commands : cache_'[d] # None => cache_'[d].time <= now'
      BY <1>0, <2>1, <2>2, <2>4
    <2> QED
      BY <2>5, <2>7, <2>8
  <1>8. ASSUME NEW t \in Threads, pc[t] \in AtDevice, Throw(t)
        PROVE  NeverOlder' /\ CacheValidity'
    <2>1. request[t].command \in Commands
      BY <1>8, Serving DEF AtDevice
    <2>2. reply[t] = None
      BY <1>8 DEF ReplyInv, AtDevice
    <2> QED
      BY <1>0, <1>8, <2>1, <2>2 DEF Throw, Leave
  <1>9. ASSUME UNCHANGED <<pc, request, reply, cache_, latest, runs>>,
               now' = now \/ now' = now + 1
        PROVE  NeverOlder' /\ CacheValidity'
    BY <1>0, <1>T, <1>9
  <1> QED
    BY <1>1, <1>2, <1>3, <1>4, <1>5, <1>6, <1>7, <1>8, <1>9, StepCases

\* The parts hold together.
LEMMA ExecutorInvariant == Spec => [](TypeOK /\ ExecutorInv)
  <1>1. Init => ExecutorInv
    BY NoneAssumption
    DEF Init, ExecutorInv, MutexInv, ReplyInv, ErasedInv, CacheIsLatest, RunsInv,
        NeverOlder, CacheValidity, Locked, AtDevice
  <1>2. TypeOK /\ ExecutorInv /\ [Next]_vars => ExecutorInv'
    BY MutexStep, ReplyStep, CacheStep, RunsStep, AnswerStep DEF ExecutorInv
  <1> QED
    BY <1>1, <1>2, TypeInit, TypeStep, PTL DEF Spec

\* All that execute() promises its clients about the mutexes, the cache and the
\* answers holds at once: this is the inductive invariant itself.
THEOREM ExecutorIsSafe == Spec => []ExecutorInv
  BY ExecutorInvariant, PTL

\* The cache is what the last execution of each command brought.
THEOREM CacheCoherence == Spec => []CacheIsLatest
  BY ExecutorInvariant, PTL DEF ExecutorInv

\* No client is given a response older than the outcome of an execution of its
\* command that had ended when it asked.
THEOREM ReadsAreMonotonic == Spec => []NeverOlder
  BY ExecutorInvariant, PTL DEF ExecutorInv

\* What comes out of the cache was valid when it was asked for.
THEOREM ValidWhenAsked == Spec => []CacheValidity
  BY ExecutorInvariant, PTL DEF ExecutorInv

----------------------------------------------------------------------------
(* The link, as long as no execution has given up on its answer *)

\* The link is empty.
Silent == wire = <<>> /\ line = <<>>

\* The link carries the frame, or the answer, of the execution thread t is at.
Carries(t) ==
    /\ pc[t] = "reading"
    /\ \/ Len(wire) = 1 /\ line = <<>> /\ Own(Head(wire), t)
       \/ /\ wire = <<>> /\ Len(line) = 1 /\ Own(Head(line), t)
          /\ (Head(line).accepted /\ Head(line).command \in SetCommands)
                 => InForce(t)

\* Entries hold answers to what they are filed under.
EntriesOwn ==
    \A c \in Commands :
        cache_[c] # None =>
            LET response == cache_[c].response IN
            /\ response.answer.command = c
            /\ response.answer.arguments = cache_[c].arguments
            /\ response.answer.run = response.run

LEMMA LinkInvParts ==
    LinkInv <=> (~abandoned =>
                    /\ Silent \/ \E t \in Threads : Carries(t)
                    /\ EntriesOwn)
  BY DEF LinkInv, Silent, Carries, EntriesOwn

\* What the thread that reads finds on the line is the answer to its frame,
\* and nothing else is left once it has taken it.
LEMMA TakesOwnAnswer ==
    ASSUME TypeOK, MutexInv, ~abandoned, NEW t \in Threads,
           Silent \/ \E u \in Threads : Carries(u),
           pc[t] = "reading", TakeAnswer
    PROVE  /\ Carries(t)
           /\ wire = <<>> /\ Len(line) = 1
           /\ Silent'
  <1>1. line # <<>>
    BY DEF TakeAnswer
  <1>2. PICK u \in Threads : Carries(u)
    BY <1>1 DEF Silent
  <1>3. u = t
    BY <1>2 DEF Carries, MutexInv, Locked
  <1>4. wire = <<>> /\ Len(line) = 1
    BY <1>1, <1>2 DEF Carries
  <1>5. PICK k \in 1 .. Len(line) : line' = SubSeq(line, k + 1, Len(line))
    BY DEF TakeAnswer
  <1>6. line \in Seq(Answer)
    BY DEF TypeOK
  <1>7. line' \in Seq(Answer) /\ Len(line') = 0
    BY <1>4, <1>5, <1>6, TakenLine
  <1>8. line' = <<>> /\ wire' = <<>>
    BY <1>4, <1>7 DEF TakeAnswer
  <1> QED
    BY <1>2, <1>3, <1>4, <1>8 DEF Silent

\* Every step keeps the link tidy unless it gives up on an answer.
LEMMA LinkStep ==
    ASSUME TypeOK, ExecutorInv, LinkInv, [Next]_vars, ~abandoned'
    PROVE  (Silent \/ \E t \in Threads : Carries(t))'
  <1> USE DEF Silent
  <1>0. /\ pc \in [Threads -> Stages] /\ request \in [Threads -> Request0]
        /\ wire \in Seq(Frame) /\ line \in Seq(Answer) /\ runs \in Nat
        /\ MutexInv
    BY DEF TypeOK, ExecutorInv
  <1>A. ~abandoned
    BY DEF Next, Step, Ask, Reply, CacheHit, CacheMiss, Begin, Write, Succeed,
           RefuseAnswer, PackFails, Overflow, GiveUp, DeviceFails, DeviceTakes,
           Signal, Tick, Quiescent, vars
  <1>B. Silent \/ \E t \in Threads : Carries(t)
    BY <1>A, LinkInvParts
  <1>C. ASSUME NEW t \in Threads, pc[t] # "reading",
               UNCHANGED <<wire, line, lastSet, runs>>,
               \A u \in Threads : u # t =>
                    pc'[u] = pc[u] /\ request'[u] = request[u]
        PROVE  (Silent \/ \E u \in Threads : Carries(u))'
    <2>1. CASE Silent
      BY <1>C, <2>1
    <2>2. ASSUME NEW u \in Threads, Carries(u)
          PROVE  Carries(u)'
      BY <1>C, <2>2 DEF Carries, Own, InForce
    <2> QED
      BY <1>B, <2>1, <2>2
  <1>1. ASSUME NEW t \in Threads, Ask(t) PROVE (\E u \in Threads : Carries(u))' \/ Silent'
    BY <1>0, <1>1, <1>C DEF Ask, link
  <1>2. ASSUME NEW t \in Threads, Reply(t) PROVE (\E u \in Threads : Carries(u))' \/ Silent'
    BY <1>0, <1>2, <1>C DEF Reply, link
  <1>3. ASSUME NEW t \in Threads, CacheHit(t) PROVE (\E u \in Threads : Carries(u))' \/ Silent'
    BY <1>0, <1>3, <1>C DEF CacheHit, CanLock, link
  <1>4. ASSUME NEW t \in Threads, CacheMiss(t) PROVE (\E u \in Threads : Carries(u))' \/ Silent'
    BY <1>0, <1>4, <1>C DEF CacheMiss, CanLock, link
  <1>5. ASSUME NEW t \in Threads, Begin(t) PROVE Silent'
    <2>1. \A u \in Threads : pc[u] # "reading"
      BY <1>0, <1>5 DEF Begin, MutexInv, Locked
    <2> QED
      BY <1>B, <1>5, <2>1 DEF Begin, link, Carries
  <1>6. ASSUME NEW t \in Threads, Write(t) PROVE Carries(t)'
    <2>1. \A u \in Threads : pc[u] # "reading"
      BY <1>0, <1>6 DEF Write, MutexInv, Locked
    <2>2. Silent
      BY <1>B, <2>1 DEF Carries
    <2> DEFINE f == [run |-> runs, command |-> request[t].command,
                     arguments |-> request[t].arguments]
    <2>3. wire' = <<f>> /\ line' = <<>>
      BY <1>6, <2>2 DEF Write
    <2>4. Len(wire') = 1 /\ Head(wire') = f
      BY <2>3
    <2>5. UNCHANGED <<runs, request>> /\ pc'[t] = "reading"
      BY <1>0, <1>6 DEF Write
    <2> QED
      BY <2>3, <2>4, <2>5 DEF Carries, Own
  <1>7. ASSUME NEW t \in Threads, Succeed(t) \/ RefuseAnswer(t) PROVE Silent'
    BY <1>0, <1>A, <1>B, <1>7, TakesOwnAnswer DEF Succeed, RefuseAnswer
  <1>8. ASSUME NEW t \in Threads, Overflow(t) \/ GiveUp(t) \/ DeviceFails(t)
        PROVE  FALSE
    BY <1>8 DEF Overflow, GiveUp, DeviceFails
  <1>11. ASSUME NEW t \in Threads, PackFails(t)
         PROVE  (\E u \in Threads : Carries(u))' \/ Silent'
    BY <1>0, <1>11, <1>C DEF PackFails, Throw, Leave, link
  <1>9. ASSUME DeviceTakes PROVE Silent' \/ \E t \in Threads : Carries(t)'
    <2>1. wire # <<>> /\ wire' = Tail(wire) /\ UNCHANGED <<pc, request, runs>>
      BY <1>9 DEF DeviceTakes
    <2>2. PICK t \in Threads : Carries(t)
      BY <1>B, <2>1
    <2>3. /\ pc[t] = "reading" /\ Len(wire) = 1 /\ line = <<>>
          /\ Own(Head(wire), t)
      BY <2>1, <2>2 DEF Carries
    <2>4. wire' = <<>>
      BY <1>0, <2>1, <2>3
    <2> DEFINE f == Head(wire)
               m(accepted) == [run |-> f.run, command |-> f.command,
                          arguments |-> f.arguments, accepted |-> accepted]
    <2>5. PICK accepted \in BOOLEAN, answered \in BOOLEAN :
            /\ lastSet' = IF accepted /\ f.command \in SetCommands
                          THEN [command |-> f.command, arguments |-> f.arguments]
                          ELSE lastSet
            /\ line' = IF answered THEN Append(line, m(accepted)) ELSE line
      BY <1>9 DEF DeviceTakes
    <2>6. CASE ~answered
      BY <2>3, <2>4, <2>5, <2>6
    <2>7. CASE answered
      <3>1. line' = <<m(accepted)>>
        BY <2>3, <2>5, <2>7
      <3>2. Len(line') = 1 /\ Head(line') = m(accepted)
        BY <3>1
      <3>3. Own(Head(line), t)'
        BY <2>1, <2>3, <3>2 DEF Own
      <3>4. accepted /\ f.command \in SetCommands => InForce(t)'
        BY <2>1, <2>3, <2>5 DEF InForce, Own
      <3> QED
        BY <2>1, <2>3, <2>4, <3>2, <3>3, <3>4 DEF Carries
    <2> QED
      BY <2>6, <2>7
  <1>10. ASSUME UNCHANGED <<pc, request, link, runs>>
         PROVE  (Silent \/ \E t \in Threads : Carries(t))'
    <2>1. UNCHANGED <<wire, line, lastSet>>
      BY <1>10 DEF link
    <2>2. ASSUME NEW u \in Threads, Carries(u) PROVE Carries(u)'
      BY <1>10, <2>1, <2>2 DEF Carries, Own, InForce
    <2> QED
      BY <1>B, <2>1, <2>2
  <1> QED
    BY <1>1, <1>2, <1>3, <1>4, <1>5, <1>6, <1>7, <1>8, <1>9, <1>10, <1>11
    DEF Next, Step, Signal, Tick, Quiescent, vars

\* An entry made while nothing was given up is an answer to its own command.
LEMMA EntriesStep ==
    ASSUME TypeOK, ExecutorInv, LinkInv, [Next]_vars, ~abandoned'
    PROVE  EntriesOwn'
  <1>0. /\ cache_ \in [Commands -> CachedResponse \union {None}]
        /\ MutexInv
    BY DEF TypeOK, ExecutorInv
  <1>A. ~abandoned
    BY DEF Next, Step, Ask, Reply, CacheHit, CacheMiss, Begin, Write, Succeed,
           RefuseAnswer, PackFails, Overflow, GiveUp, DeviceFails, DeviceTakes,
           Signal, Tick, Quiescent, vars
  <1>B. EntriesOwn /\ (Silent \/ \E t \in Threads : Carries(t))
    BY <1>A, LinkInvParts
  <1>1. ASSUME NEW t \in Threads, CacheMiss(t) PROVE EntriesOwn'
    BY <1>0, <1>1, <1>B DEF CacheMiss, Erase, EntriesOwn
  <1>2. ASSUME NEW t \in Threads, Succeed(t) PROVE EntriesOwn'
    <2> DEFINE c == request[t].command
               response == [run |-> runs, answer |-> Head(line)]
               cr == [time |-> now, arguments |-> request[t].arguments,
                      response |-> response]
    <2>1. Carries(t) /\ wire = <<>> /\ Len(line) = 1
      BY <1>0, <1>2, <1>A, <1>B, TakesOwnAnswer DEF Succeed
    <2>2. Own(Head(line), t)
      BY <2>1 DEF Carries
    <2>3. cache_' = [cache_ EXCEPT ![c] = cr]
      BY <1>2 DEF Succeed
    <2>4. /\ cr.response.answer.command = c
          /\ cr.response.answer.arguments = cr.arguments
          /\ cr.response.answer.run = cr.response.run
      BY <2>2 DEF Own
    <2> HIDE DEF cr
    <2> QED
      BY <1>0, <1>B, <2>3, <2>4 DEF EntriesOwn
  <1>3. ASSUME UNCHANGED cache_ PROVE EntriesOwn'
    BY <1>3, <1>B DEF EntriesOwn
  <1> QED
    BY <1>1, <1>2, <1>3
    DEF Next, Step, Ask, Reply, CacheHit, Begin, Write, RefuseAnswer,
        PackFails, Overflow, GiveUp, DeviceFails, Throw, DeviceTakes, Signal, Tick, Quiescent, vars, server

\* What a thread replies is an answer to its own request.
LEMMA OwnStep ==
    ASSUME TypeOK, ExecutorInv, LinkInv, OwnAnswer, [Next]_vars, ~abandoned'
    PROVE  OwnAnswer'
  <1> USE DEF OwnAnswer
  <1>0. /\ pc \in [Threads -> Stages] /\ request \in [Threads -> Request0]
        /\ reply \in [Threads -> Response \union {None}]
        /\ MutexInv /\ ReplyInv
    BY DEF TypeOK, ExecutorInv
  <1>A. ~abandoned
    BY DEF Next, Step, Ask, Reply, CacheHit, CacheMiss, Begin, Write, Succeed,
           RefuseAnswer, PackFails, Overflow, GiveUp, DeviceFails, DeviceTakes,
           Signal, Tick, Quiescent, vars
  <1>B. EntriesOwn /\ (Silent \/ \E t \in Threads : Carries(t))
    BY <1>A, LinkInvParts
  <1>1. ASSUME NEW t \in Threads, Ask(t) PROVE OwnAnswer'
    BY <1>0, <1>1, <1>A DEF Ask
  <1>2. ASSUME NEW t \in Threads, Reply(t) PROVE OwnAnswer'
    BY <1>0, <1>2, <1>A DEF Reply
  <1>3. ASSUME NEW t \in Threads, CacheHit(t) PROVE OwnAnswer'
    <2> DEFINE entry == cache_[request[t].command]
    <2>1. /\ pc[t] = "waiting" /\ entry # None
          /\ entry.arguments = request[t].arguments
          /\ reply' = [reply EXCEPT ![t] = entry.response]
          /\ UNCHANGED request
          /\ pc' = [pc EXCEPT ![t] = "replying"]
      BY <1>3 DEF CacheHit, CanLock, Fresh
    <2>2. request[t].command \in Commands
      BY <2>1, Serving
    <2>3. /\ entry.response.answer.command = request[t].command
          /\ entry.response.answer.arguments = request[t].arguments
          /\ entry.response.answer.run = entry.response.run
      BY <1>B, <2>1, <2>2 DEF EntriesOwn
    <2> HIDE DEF entry
    <2> QED
      BY <1>0, <1>A, <2>1, <2>3
  <1>4. ASSUME NEW t \in Threads, Succeed(t) PROVE OwnAnswer'
    <2> DEFINE response == [run |-> runs, answer |-> Head(line)]
    <2>1. Carries(t) /\ wire = <<>> /\ Len(line) = 1
      BY <1>0, <1>4, <1>A, <1>B, TakesOwnAnswer DEF Succeed
    <2>2. /\ response.answer.command = request[t].command
          /\ response.answer.arguments = request[t].arguments
          /\ response.answer.run = response.run
      BY <2>1 DEF Carries, Own
    <2>3. /\ reply' = [reply EXCEPT ![t] = response]
          /\ UNCHANGED request
          /\ pc' = [pc EXCEPT ![t] = "replying"]
      BY <1>4 DEF Succeed, Leave
    <2> HIDE DEF response
    <2> QED
      BY <1>0, <1>A, <2>2, <2>3
  <1>5. ASSUME NEW t \in Threads, pc[t] \in AtDevice, Throw(t) PROVE OwnAnswer'
    <2>1. reply'[t] = None
      BY <1>0, <1>5 DEF Throw, ReplyInv, AtDevice
    <2> QED
      BY <1>0, <1>5, <1>A, <2>1 DEF Throw, Leave
  <1>6. ASSUME NEW t \in Threads, CacheMiss(t) \/ Begin(t) \/ Write(t)
        PROVE  OwnAnswer'
    BY <1>0, <1>6, <1>A DEF CacheMiss, Begin, Write
  <1>7. ASSUME UNCHANGED <<pc, request, reply>> PROVE OwnAnswer'
    BY <1>7, <1>A
  <1> QED
    BY <1>1, <1>2, <1>3, <1>4, <1>5, <1>6, <1>7, StepCases

\* The whole invariant of the executor.
LEMMA LinkInvariant == Spec => [](TypeOK /\ ExecutorInv /\ LinkInv /\ OwnAnswer)
  <1>1. Init => LinkInv /\ OwnAnswer
    BY DEF Init, LinkInv, OwnAnswer
  <1>2. TypeOK /\ ExecutorInv /\ LinkInv /\ OwnAnswer /\ [Next]_vars
            => LinkInv' /\ OwnAnswer'
    <2> SUFFICES ASSUME TypeOK, ExecutorInv, LinkInv, OwnAnswer, [Next]_vars
                 PROVE  LinkInv' /\ OwnAnswer'
      OBVIOUS
    <2>1. CASE abandoned'
      BY <2>1 DEF LinkInv, OwnAnswer
    <2>2. CASE ~abandoned'
      BY <2>2, LinkStep, EntriesStep, OwnStep
      DEF LinkInv, Silent, Carries, EntriesOwn
    <2> QED
      BY <2>1, <2>2
  <1> QED
    BY <1>1, <1>2, ExecutorInvariant, PTL DEF Spec

\* Until an execution gives up on an answer, every `ok` carries the inverter's
\* answer to the command and the arguments of the request.
THEOREM AnswersAreOwn == Spec => []OwnAnswer
  BY LinkInvariant, PTL

\* Until then, too, the link carries at most one message, and it belongs to
\* the execution in progress.
THEOREM HalfDuplex == Spec => []OneOnTheLink
  <1>1. TypeOK /\ ExecutorInv /\ LinkInv => OneOnTheLink
    <2> SUFFICES ASSUME TypeOK, ExecutorInv, LinkInv PROVE OneOnTheLink
      OBVIOUS
    <2>1. \A t, u \in Threads : pc[t] \in Locked /\ pc[u] \in Locked => t = u
      BY DEF ExecutorInv, MutexInv
    <2>2. ASSUME ~abandoned
          PROVE  /\ Len(wire) + Len(line) <= 1
                 /\ wire # <<>> => \E t \in Threads :
                        pc[t] = "reading" /\ Own(Head(wire), t)
                 /\ line # <<>> => \E t \in Threads :
                        pc[t] = "reading" /\ Own(Head(line), t)
      <3>1. CASE Silent
        BY <3>1 DEF Silent
      <3>2. CASE \E t \in Threads : Carries(t)
        <4>1. PICK t \in Threads : Carries(t)
          BY <3>2
        <4>2. pc[t] = "reading"
          BY <4>1 DEF Carries
        <4>3. CASE Len(wire) = 1 /\ line = <<>> /\ Own(Head(wire), t)
          BY <4>2, <4>3
        <4>4. CASE wire = <<>> /\ Len(line) = 1 /\ Own(Head(line), t)
          BY <4>2, <4>4
        <4> QED
          BY <4>1, <4>3, <4>4 DEF Carries
      <3> QED
        BY <2>2, <3>1, <3>2, LinkInvParts
    <2> QED
      BY <2>1, <2>2 DEF OneOnTheLink
  <1> QED
    BY <1>1, LinkInvariant, PTL

\* A set command that was run and is reported as accepted is in force.
THEOREM FreshSets == Spec => FreshSetIsInForce
  <1>1. ASSUME TypeOK, ExecutorInv, LinkInv, [Next]_vars, ~abandoned,
               NEW t \in Threads, pc[t] = "reading", AcceptsSet(t)
        PROVE  InForce(t)
    <2>0. /\ pc \in [Threads -> Stages] /\ request \in [Threads -> Request0]
          /\ reply \in [Threads -> Response \union {None}]
          /\ MutexInv /\ ReplyInv
      BY <1>1 DEF TypeOK, ExecutorInv
    <2>1. pc'[t] = "replying" /\ reply'[t] # None /\ pc[t] # pc'[t]
      BY <1>1 DEF AcceptsSet, AnswersNow
    <2>2. reply[t] = None
      BY <2>0, <1>1 DEF ReplyInv
    <2>3. PICK u \in Threads :
            \/ Ask(u) \/ Reply(u) \/ CacheHit(u) \/ CacheMiss(u) \/ Begin(u)
            \/ Write(u) \/ Succeed(u) \/ Throw(u)
      BY <1>1, <2>1, StepCases
    <2>4. u = t
      BY <2>0, <2>1, <2>3
      DEF Ask, Reply, CacheHit, CanLock, CacheMiss, Begin, Write, Succeed, Throw,
          Leave
    <2>5. Succeed(t)
      BY <1>1, <2>0, <2>1, <2>2, <2>3, <2>4
      DEF Ask, Reply, CacheHit, CanLock, CacheMiss, Begin, Write, Throw, Leave
    <2>6. Carries(t) /\ wire = <<>> /\ Len(line) = 1
      BY <1>1, <2>0, <2>5, TakesOwnAnswer, LinkInvParts DEF Succeed
    <2>7. reply'[t].answer = Head(line)
      BY <2>0, <2>5 DEF Succeed
    <2>8. request[t].command \in SetCommands /\ Head(line).accepted
      BY <1>1, <2>7 DEF AcceptsSet
    <2> QED
      BY <2>6, <2>8 DEF Carries, Own
  <1>2. TypeOK /\ ExecutorInv /\ LinkInv /\ [Next]_vars =>
          [\A t \in Threads :
              pc[t] = "reading" /\ AcceptsSet(t) /\ ~abandoned => InForce(t)]_vars
    BY <1>1
  <1> QED
    BY <1>2, LinkInvariant, PTL DEF Spec, FreshSetIsInForce

----------------------------------------------------------------------------
(* The pause between commands *)

\* Nobody who sleeps wakes before the pause is over.
LEMMA PauseStep ==
    ASSUME TypeOK, MutexInv, PauseInv, [Next]_vars
    PROVE  PauseInv'
  <1> USE DEF PauseInv
  <1>0. /\ pc \in [Threads -> Stages]
        /\ now \in Nat /\ endExecutionTime_ \in Nat /\ wakeAt \in Nat
    BY DEF TypeOK
  <1>1. ASSUME NEW t \in Threads, Ask(t) \/ Reply(t) \/ CacheHit(t)
        PROVE  PauseInv'
    BY <1>0, <1>1 DEF Ask, Reply, CacheHit, server
  <1>2. ASSUME NEW t \in Threads, CacheMiss(t) PROVE PauseInv'
    <2>1. \A u \in Threads : pc[u] # "sleeping"
      BY <1>2, NoneAssumption DEF CacheMiss, CanLock, MutexInv, Locked
    <2>2. \/ endExecutionTime_ = 0
          \/ PauseEnd >= endExecutionTime_ + Delay
      BY <1>0, SettingsAssumption DEF PauseEnd
    <2>3. /\ wakeAt' = PauseEnd
          /\ pc' = [pc EXCEPT ![t] = "sleeping"]
          /\ UNCHANGED <<now, endExecutionTime_, shutdownCaught>>
      BY <1>2 DEF CacheMiss
    <2> QED
      BY <1>0, <2>1, <2>2, <2>3
  <1>3. ASSUME NEW t \in Threads, Begin(t) PROVE PauseInv'
    <2>1. \A u \in Threads : pc[u] = "sleeping" => u = t
      BY <1>3 DEF Begin, MutexInv, Locked
    <2> QED
      BY <1>0, <1>3, <2>1 DEF Begin, server
  <1>4. ASSUME NEW t \in Threads, Write(t) PROVE PauseInv'
    BY <1>0, <1>4 DEF Write, server
  <1>5. ASSUME NEW t \in Threads, Succeed(t) PROVE PauseInv'
    <2>1. \A u \in Threads : pc'[u] # "sleeping"
      BY <1>0, <1>5 DEF Succeed, Leave, MutexInv, Locked
    <2> QED
      BY <1>0, <1>5, <2>1 DEF Succeed, Leave
  <1>6. ASSUME NEW t \in Threads, Fails(t)
        PROVE  PauseInv'
    <2>1. \A u \in Threads : pc'[u] # "sleeping"
      BY <1>0, <1>6
      DEF Fails, RefuseAnswer, PackFails, Overflow, GiveUp, DeviceFails,
          Throw, Leave, MutexInv, Locked
    <2> QED
      BY <1>0, <1>6, <2>1
      DEF Fails, RefuseAnswer, PackFails, Overflow, GiveUp, DeviceFails,
          Throw, Leave
  <1>7. ASSUME Signal PROVE PauseInv'
    BY <1>0, <1>7 DEF Signal, server
  <1>8. ASSUME DeviceTakes \/ Tick \/ UNCHANGED vars PROVE PauseInv'
    BY <1>0, <1>8 DEF DeviceTakes, Tick, vars, server
  <1> QED
    BY <1>1, <1>2, <1>3, <1>4, <1>5, <1>6, <1>7, <1>8
    DEF Next, Step, Fails, Quiescent

\* Whoever sleeps between two commands will wake after the pause, whatever the
\* other threads do meanwhile.
THEOREM SleepsLongEnough == Spec => []PauseInv
  <1>1. Init => PauseInv
    BY DEF Init, PauseInv
  <1>2. TypeOK /\ ExecutorInv /\ PauseInv /\ [Next]_vars => PauseInv'
    BY PauseStep DEF ExecutorInv
  <1> QED
    BY <1>1, <1>2, ExecutorInvariant, PTL DEF Spec

\* No command starts within Delay of the last success, whichever thread runs
\* it, unless the server is shutting down.
THEOREM Pacing == Spec => PausesAfterSuccess
  <1>1. Init => PauseInv
    BY DEF Init, PauseInv
  <1>2. TypeOK /\ PauseInv /\ [Next]_vars =>
          [runs' # runs => \/ shutdownCaught
                           \/ endExecutionTime_ = 0
                           \/ now >= endExecutionTime_ + Delay]_vars
    <2> SUFFICES ASSUME TypeOK, PauseInv, [Next]_vars, runs' # runs
                 PROVE  \/ shutdownCaught
                        \/ endExecutionTime_ = 0
                        \/ now >= endExecutionTime_ + Delay
      OBVIOUS
    <2>1. PICK t \in Threads : Begin(t)
      BY DEF Next, Step, Ask, Reply, CacheHit, CacheMiss, Write, Succeed,
             RefuseAnswer, PackFails, Overflow, GiveUp, DeviceFails, Throw,
             Leave, DeviceTakes, Signal, Tick, Quiescent, vars
    <2> QED
      BY <2>1, SettingsAssumption DEF Begin, PauseInv, TypeOK
  <1> QED
    BY <1>1, <1>2, PauseStep, ExecutorInvariant, PTL
    DEF Spec, ExecutorInv, PausesAfterSuccess

----------------------------------------------------------------------------
(* The count of device errors *)

\* Executions end one at a time: Begin starts one that has not ended, and what
\* else runs under the mutex leaves their number alone until the unlock.
LEMMA Ended ==
    ASSUME TypeOK, MutexInv, NEW t \in Threads, pc[t] \in AtDevice,
           NEW kept, Leave(t, kept)
    PROVE  Executions' = runs /\ Executions = runs - 1
  <1>1. \A u \in Threads : pc'[u] \notin AtDevice
    BY DEF TypeOK, MutexInv, Leave, AtDevice, Locked
  <1> QED
    BY <1>1 DEF Executions, Leave

\* An error adds one to the count and to the executions, a success sets the
\* count to nothing and files a response under the last execution.
LEMMA ErrorStep ==
    ASSUME TypeOK, MutexInv, ErrorLimit, [Next]_vars
    PROVE  ErrorLimit'
  <1> USE DEF ErrorLimit
  <1>0. /\ pc \in [Threads -> Stages] /\ request \in [Threads -> Request0]
        /\ cache_ \in [Commands -> CachedResponse \union {None}]
        /\ deviceErrorCounter_ \in Nat /\ runs \in Nat
        /\ \A c \in Commands : cache_[c] # None =>
                cache_[c].response.run \in Nat
    BY DEF TypeOK, CachedResponse, Response
  <1>1. ASSUME NEW t \in Threads, NEW stage \in Stages,
               pc[t] \notin AtDevice, stage \notin AtDevice,
               pc' = [pc EXCEPT ![t] = stage], runs' = runs
        PROVE  Executions' = Executions
    BY <1>0, <1>1 DEF Executions
  <1>2. ASSUME NEW t \in Threads, Ask(t) \/ Reply(t) \/ CacheHit(t)
        PROVE  ErrorLimit'
    <2>1. PICK stage \in Stages \ AtDevice : pc' = [pc EXCEPT ![t] = stage]
      BY <1>2 DEF Ask, Reply, CacheHit, Stages, AtDevice
    <2>2. pc[t] \notin AtDevice
      BY <1>2 DEF Ask, Reply, CacheHit, CanLock, AtDevice
    <2>3. UNCHANGED <<runs, cache_, deviceErrorCounter_, shutdownCaught>>
      BY <1>2 DEF Ask, Reply, CacheHit, server
    <2> QED
      BY <1>0, <1>1, <2>1, <2>2, <2>3
  <1>3. ASSUME NEW t \in Threads, CacheMiss(t) PROVE ErrorLimit'
    <2>0. /\ pc[t] = "waiting" /\ runs' = runs
          /\ pc' = [pc EXCEPT ![t] = "sleeping"]
      BY <1>3 DEF CacheMiss, CanLock
    <2>1. Executions' = Executions
      <3>1. /\ "sleeping" \in Stages /\ "sleeping" \notin AtDevice
            /\ pc[t] \notin AtDevice
        BY <2>0 DEF Stages, AtDevice, Locked
      <3> QED
        BY <1>1, <2>0, <3>1
    <2>2. \A c \in Commands : cache_'[c] # None => cache_'[c] = cache_[c]
      BY <1>0, <1>3 DEF CacheMiss, Erase
    <2> QED
      BY <1>0, <1>3, <2>1, <2>2 DEF CacheMiss
  <1>4. ASSUME NEW t \in Threads, Begin(t) PROVE ErrorLimit'
    <2>1. \A u \in Threads : pc[u] \notin AtDevice
      BY <1>4 DEF Begin, MutexInv, Locked, AtDevice
    <2>2. pc'[t] \in AtDevice
      BY <1>0, <1>4 DEF Begin, AtDevice
    <2>3. Executions' = Executions
      BY <1>0, <1>4, <2>1, <2>2 DEF Begin, Executions
    <2> QED
      BY <1>4, <2>3 DEF Begin, server
  <1>5. ASSUME NEW t \in Threads, Write(t) PROVE ErrorLimit'
    <2>1. pc[t] \in AtDevice /\ pc'[t] \in AtDevice
      BY <1>0, <1>5 DEF Write, AtDevice
    <2>2. Executions' = Executions
      BY <1>5, <2>1 DEF Write, Executions
    <2> QED
      BY <1>5, <2>2 DEF Write, server
  <1>6. ASSUME NEW t \in Threads, Succeed(t) PROVE ErrorLimit'
    <2> DEFINE c == request[t].command
               cr == [time |-> now, arguments |-> request[t].arguments,
                      response |-> [run |-> runs, answer |-> Head(line)]]
    <2>1. /\ deviceErrorCounter_' = 0 /\ UNCHANGED <<runs, shutdownCaught>>
          /\ cache_' = [cache_ EXCEPT ![c] = cr]
          /\ cr.response.run = runs
      BY <1>6 DEF Succeed, ResetErrors, Leave
    <2> HIDE DEF cr
    <2>2. Executions' = runs /\ Executions = runs - 1
      BY <1>6, Ended DEF Succeed, AtDevice
    <2>3. c \in Commands
      BY <1>6, Serving DEF Succeed
    <2>4. ASSUME NEW d \in Commands, cache_'[d] # None
          PROVE  cache_'[d].response.run <= runs
      <3>1. CASE d = c
        BY <1>0, <2>1, <2>3, <3>1
      <3>2. CASE d # c
        BY <1>0, <2>1, <2>2, <2>4, <3>2
      <3> QED
        BY <3>1, <3>2
    <2>5. ASSUME NEW d \in Commands, cache_'[d] # None
          PROVE  cache_'[d].response.run \in Nat
      BY <1>0, <2>1, <2>3, <2>5
    <2> QED
      BY <1>0, <2>1, <2>2, <2>4, <2>5
  <1>7. ASSUME NEW t \in Threads, Fails(t)
        PROVE  ErrorLimit'
    <2>1. pc[t] \in AtDevice /\ Throw(t)
      BY <1>7 DEF Fails, RefuseAnswer, PackFails, Overflow, GiveUp,
                  DeviceFails, AtDevice
    <2>2. Executions' = runs /\ Executions = runs - 1
      BY <2>1, Ended DEF Throw
    <2>3. UNCHANGED <<cache_, runs>>
      BY <2>1 DEF Throw, Leave
    <2>4. \/ /\ deviceErrorCounter_' = deviceErrorCounter_
             /\ shutdownCaught' = shutdownCaught
          \/ /\ deviceErrorCounter_' = deviceErrorCounter_ + 1
             /\ \/ ~ (deviceErrorCounter_' >= DeviceErrorLimit)
                \/ shutdownCaught'
      BY <1>7 DEF Fails, RefuseAnswer, PackFails, Overflow, GiveUp, DeviceFails
    <2>5. /\ deviceErrorCounter_' <= deviceErrorCounter_ + 1
          /\ deviceErrorCounter_' \in Nat
      <3>1. \/ deviceErrorCounter_' = deviceErrorCounter_
            \/ deviceErrorCounter_' = deviceErrorCounter_ + 1
        BY <2>4
      <3> QED
        BY <1>0, <3>1
    <2>6. /\ deviceErrorCounter_' <= Executions'
          /\ \A c \in Commands :
                cache_'[c] # None =>
                    cache_'[c].response.run + deviceErrorCounter_' <= Executions'
      BY <1>0, <2>2, <2>3, <2>5
    <2>7. deviceErrorCounter_' > 0 /\ deviceErrorCounter_' >= DeviceErrorLimit
            => shutdownCaught'
      BY <2>4
    <2> QED
      BY <2>6, <2>7
  <1>8. ASSUME Signal \/ DeviceTakes \/ Tick \/ UNCHANGED vars
        PROVE  ErrorLimit'
    <2>1. /\ UNCHANGED <<runs, cache_, deviceErrorCounter_>>
          /\ shutdownCaught => shutdownCaught'
          /\ UNCHANGED pc
      BY <1>8 DEF Signal, DeviceTakes, Tick, vars, server
    <2> QED
      BY <2>1 DEF Executions
  <1> QED
    BY <1>2, <1>3, <1>4, <1>5, <1>6, <1>7, <1>8
    DEF Next, Step, Fails, Quiescent

\* However requests, answers and errors follow each other, no connection's
\* errors are counted against a success of another, and a server whose count
\* has come to the limit is going down.
THEOREM LimitKept == Spec => []ErrorLimit
  <1>1. Init => ErrorLimit
    BY SettingsAssumption DEF Init, ErrorLimit, Executions, AtDevice
  <1> QED
    BY <1>1, ErrorStep, ExecutorInvariant, PTL DEF Spec, ExecutorInv
=============================================================================
