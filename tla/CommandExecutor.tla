-------------------------- MODULE CommandExecutor --------------------------
(***************************************************************************)
(* Server::executeCommand and what it stands on: the connection threads   *)
(* that call it, client_mutex_, the response cache, the pause between      *)
(* commands, Client::execute / Device::run, and the half-duplex link to    *)
(* the inverter, which may be slow, silent or refuse.                      *)
(*                                                                         *)
(* One thread serves one connection.  A step that runs under client_mutex_ *)
(* and touches nothing outside it is one action.  Time is the millisecond  *)
(* clock voltronic::timestamp(), counted in coarse units.                  *)
(***************************************************************************)
EXTENDS Integers, Sequences

CONSTANTS
    Threads,            \* connection threads (one per accepted socket)
    Commands,           \* p18::CommandType
    SetCommands,        \* the command types >= 100, answered with ^1 or ^0
    Arguments,          \* validated argument vectors
    Legal,              \* the pairs validate_input lets through
    Parses,             \* <<d, c>>: data answering d unpacks as data for c
    None,               \* no thread, no entry, no request, an error reply
    CacheTimeout,       \* cacheTimeout_
    Delay,              \* delay_
    DeviceErrorLimit,   \* deviceErrorLimit_
    Timeout,            \* Device::timeout_; 0 waits for ever
    MaxTime,            \* bound: the clock stops here unless somebody waits
    MaxRequests         \* bound: exec requests received

Gets == Commands \ SetCommands

Frame == [run : Nat, command : Commands, arguments : Arguments]
Answer == [run : Nat, command : Commands, arguments : Arguments,
           accepted : BOOLEAN]
\* The object Client::execute returns: made by execution `run` of `answer`.
Response == [run : Nat, answer : Answer]
CachedResponse == [time : Nat, arguments : Arguments, response : Response]
\* An exec request, when it was asked and the execution of the same command
\* that had ended by then.
Request == [command : Commands, arguments : Arguments, at : Nat, floor : Nat]
Setting == [command : Commands, arguments : Arguments]
Outcome == [run : Nat, kept : CachedResponse \union {None}]

ASSUME CommandsAssumption ==
    /\ SetCommands \subseteq Commands
    /\ Legal \subseteq Commands \X Arguments
    /\ Parses \subseteq Gets \X Gets
    /\ \A c \in Gets : <<c, c>> \in Parses
ASSUME SettingsAssumption ==
    /\ CacheTimeout \in Nat /\ Delay \in Nat
    /\ DeviceErrorLimit \in Nat /\ Timeout \in Nat
    /\ MaxTime \in Nat /\ MaxRequests \in Nat
ASSUME NoneAssumption ==
    /\ None \notin Threads
    /\ None \notin CachedResponse
    /\ None \notin Response
    /\ None \notin Request
    /\ None \notin Setting

VARIABLES
    now,                \* timestamp()
    pc,                 \* where each connection thread is
    request,            \* the exec request it serves
    reply,              \* its Response, or None for an error
    client_mutex_,      \* holder
    cache_,
    endExecutionTime_,
    deviceErrorCounter_,
    shutdownCaught,
    wakeAt,             \* end of the usleep of the thread holding the mutex
    timeStarted_,       \* Device::timeStarted_
    wire,               \* frames written that the inverter has not taken
    line,               \* answers the host has not read
    \* history
    asked,              \* exec requests so far
    runs,               \* calls of client_.execute so far
    latest,             \* per command, how its last ended execution ended
    lastEnd,            \* when the last execution ended, well or not
    abandoned,          \* an execution gave up on an answer at some time
    lastSet             \* the set command the inverter carried out last

server == <<client_mutex_, cache_, endExecutionTime_, deviceErrorCounter_>>
link == <<wire, line, lastSet>>
vars == <<now, pc, request, reply, server, shutdownCaught, wakeAt,
          timeStarted_, link, asked, runs, latest, lastEnd, abandoned>>

Init ==
    /\ now = 1
    /\ pc = [t \in Threads |-> "idle"]
    /\ request = [t \in Threads |-> None]
    /\ reply = [t \in Threads |-> None]
    /\ client_mutex_ = None
    /\ cache_ = [c \in Commands |-> None]
    /\ endExecutionTime_ = 0
    /\ deviceErrorCounter_ = 0
    /\ shutdownCaught = FALSE
    /\ wakeAt = 0
    /\ timeStarted_ = 0
    /\ wire = <<>>
    /\ line = <<>>
    /\ asked = 0
    /\ runs = 0
    /\ latest = [c \in Commands |-> [run |-> 0, kept |-> None]]
    /\ lastEnd = 0
    /\ abandoned = FALSE
    /\ lastSet = None

----------------------------------------------------------------------------
(* The connection thread around executeCommand. *)

\* An exec request passes validate_input and executeCommand is called.
Ask(t) ==
    /\ pc[t] = "idle"
    /\ asked < MaxRequests
    /\ \E invocation \in Legal :
          LET c == invocation[1] IN
          request' = [request EXCEPT ![t] =
              [command |-> c, arguments |-> invocation[2],
               at |-> now, floor |-> latest[c].run]]
    /\ pc' = [pc EXCEPT ![t] = "waiting"]
    /\ asked' = asked + 1
    /\ UNCHANGED <<now, reply, server, shutdownCaught, wakeAt, timeStarted_,
                   link, runs, latest, lastEnd, abandoned>>

\* The response, or the error caught in processRequest, goes to the client.
Reply(t) ==
    /\ pc[t] = "replying"
    /\ pc' = [pc EXCEPT ![t] = "idle"]
    /\ request' = [request EXCEPT ![t] = None]
    /\ reply' = [reply EXCEPT ![t] = None]
    /\ UNCHANGED <<now, server, shutdownCaught, wakeAt, timeStarted_, link,
                   asked, runs, latest, lastEnd, abandoned>>

----------------------------------------------------------------------------
(* executeCommand *)

\* Mutants of Fresh: the age, or the arguments, of an entry are not looked at.
FreshForEver(entry, r) ==
    entry # None /\ entry.arguments = r.arguments
FreshAnyArguments(entry, r) ==
    entry # None /\ now - entry.time <= CacheTimeout

\* Whether the entry answers the request: same arguments, still valid.
Fresh(entry, r) ==
    /\ entry # None
    /\ now - entry.time <= CacheTimeout
    /\ entry.arguments = r.arguments

\* Mutant of CanLock: no LockGuard.
CanEnter(t) == pc[t] = "waiting"

\* A thread gets past LockGuard lock(client_mutex_).
CanLock(t) ==
    /\ pc[t] = "waiting"
    /\ client_mutex_ = None

\* Mutant of Erase: the entry stays while its command is executed.
EraseNothing(c) == UNCHANGED cache_

\* A found entry that does not answer the request is dropped.
Erase(c) == cache_' = [cache_ EXCEPT ![c] = None]

\* Lock, find a valid entry, return its response, unlock.
CacheHit(t) ==
    /\ CanLock(t)
    /\ LET entry == cache_[request[t].command] IN
          /\ Fresh(entry, request[t])
          /\ reply' = [reply EXCEPT ![t] = entry.response]
    /\ pc' = [pc EXCEPT ![t] = "replying"]
    /\ UNCHANGED <<now, request, server, shutdownCaught, wakeAt, timeStarted_,
                   link, asked, runs, latest, lastEnd, abandoned>>

\* Mutants of PauseEnd: usleep(diff) for usleep(delay_ - diff), and a difference
\* taken without asking whether diff < delay_.
PauseElapsed ==
    IF Delay # 0 /\ endExecutionTime_ # 0 /\ now - endExecutionTime_ < Delay
    THEN now + (now - endExecutionTime_)
    ELSE now
PauseUnchecked == Delay - (now - endExecutionTime_)

\* Till when a command that starts at `now` has to sleep.
PauseEnd ==
    IF /\ Delay # 0
       /\ endExecutionTime_ # 0
       /\ now - endExecutionTime_ < Delay
    THEN endExecutionTime_ + Delay
    ELSE now

\* Lock, drop an entry that does not answer the request, start the pause.
CacheMiss(t) ==
    /\ CanLock(t)
    /\ LET c == request[t].command IN
          /\ ~Fresh(cache_[c], request[t])
          /\ Erase(c)
    /\ client_mutex_' = t
    /\ wakeAt' = PauseEnd
    /\ pc' = [pc EXCEPT ![t] = "sleeping"]
    /\ UNCHANGED <<now, request, reply, endExecutionTime_, deviceErrorCounter_,
                   shutdownCaught, timeStarted_, link, asked, runs, latest,
                   lastEnd, abandoned>>

\* The pause is over: client_.execute, Device::run takes the time.
Begin(t) ==
    /\ pc[t] = "sleeping"
    /\ now >= wakeAt
    /\ wakeAt' = 0
    /\ timeStarted_' = now
    /\ runs' = runs + 1
    /\ pc' = [pc EXCEPT ![t] = "writing"]
    /\ UNCHANGED <<now, request, reply, server, shutdownCaught, link, asked,
                   latest, lastEnd, abandoned>>

\* Device::send writes the whole frame.
Write(t) ==
    /\ pc[t] = "writing"
    /\ wire' = Append(wire, [run |-> runs, command |-> request[t].command,
                             arguments |-> request[t].arguments])
    /\ pc' = [pc EXCEPT ![t] = "reading"]
    /\ UNCHANGED <<now, request, reply, server, shutdownCaught, wakeAt,
                   timeStarted_, line, lastSet, asked, runs, latest, lastEnd,
                   abandoned>>

\* What response->validate() and unpack() let through as an answer to c: a
\* set command takes any ^1 or ^0, a get command takes data of its own form.
Acceptable(answer, c) ==
    IF c \in SetCommands
    THEN answer.command \in SetCommands \/ ~answer.accepted
    ELSE answer.accepted /\ <<answer.command, c>> \in Parses

\* Mutant of TakeAnswer: the input is looked at and not consumed.
PeekAnswer == line # <<>> /\ UNCHANGED link

\* Device::readLoop takes the next answer up to its '\r'; a serial read that
\* returns more bytes than that loses the answers they belong to.
TakeAnswer ==
    /\ line # <<>>
    /\ \E k \in 1 .. Len(line) : line' = SubSeq(line, k + 1, Len(line))
    /\ UNCHANGED <<wire, lastSet>>

\* ~LockGuard, and the history of the execution that ends.
Leave(t, kept) ==
    /\ client_mutex_' = None
    /\ pc' = [pc EXCEPT ![t] = "replying"]
    /\ latest' = [latest EXCEPT ![request[t].command] =
                      [run |-> runs, kept |-> kept]]
    /\ lastEnd' = now
    /\ UNCHANGED <<now, request, wakeAt, timeStarted_, asked, runs>>

\* Mutant of ResetErrors: errors are counted since the start.
KeepErrors == UNCHANGED deviceErrorCounter_
ResetErrors == deviceErrorCounter_' = 0

\* The answer is accepted: remember when, cache it, reset the error counter.
Succeed(t) ==
    /\ pc[t] = "reading"
    /\ TakeAnswer
    /\ Acceptable(Head(line), request[t].command)
    /\ LET c == request[t].command
           response == [run |-> runs, answer |-> Head(line)]
           cr == [time |-> now, arguments |-> request[t].arguments,
                  response |-> response]
       IN /\ cache_' = [cache_ EXCEPT ![c] = cr]
          /\ reply' = [reply EXCEPT ![t] = response]
          /\ Leave(t, cr)
    /\ endExecutionTime_' = now
    /\ ResetErrors
    /\ UNCHANGED <<shutdownCaught, abandoned>>

\* Any exception leaves the cache and endExecutionTime_ as they are.
Throw(t) ==
    /\ Leave(t, None)
    /\ UNCHANGED <<reply, cache_, endExecutionTime_>>

\* packArguments throws std::out_of_range before anything is written.
PackFails(t) ==
    /\ pc[t] = "writing"
    /\ Throw(t)
    /\ UNCHANGED <<deviceErrorCounter_, shutdownCaught, abandoned, link>>

\* readLoop throws std::overflow_error: the buffer is full and the answer's
\* '\r' has not come; what follows stays on the link.
Overflow(t) ==
    /\ pc[t] = "reading"
    /\ line # <<>>
    /\ Throw(t)
    /\ abandoned' = TRUE
    /\ UNCHANGED <<deviceErrorCounter_, shutdownCaught, link>>

\* InvalidDataError (garbled on the way), InvalidResponseError, ParseError,
\* or a std::logic_error out of validate(): the answer is read and refused.
\* Any answer may have been garbled, so none is exempt.
RefuseAnswer(t) ==
    /\ pc[t] = "reading"
    /\ TakeAnswer
    /\ Throw(t)
    /\ UNCHANGED <<deviceErrorCounter_, shutdownCaught, abandoned>>

\* getTimeLeft() is 0.
NoTimeLeft == Timeout # 0 /\ now - timeStarted_ >= Timeout

\* Mutant of GiveUp: readLoop does not look at the clock.
GiveUpWriting(t) ==
    /\ pc[t] = "writing"
    /\ NoTimeLeft
    /\ Throw(t)
    /\ abandoned' = TRUE
    /\ UNCHANGED <<deviceErrorCounter_, shutdownCaught, link>>

\* TimeoutError while writing (the frame is cut short and lost) or reading.
\* Whatever was sent or is still to come stays on the link.
GiveUp(t) ==
    /\ pc[t] \in {"writing", "reading"}
    /\ NoTimeLeft
    /\ Throw(t)
    /\ abandoned' = TRUE
    /\ UNCHANGED <<deviceErrorCounter_, shutdownCaught, link>>

\* DeviceError from a read or a write: count it, stop the server at the limit.
DeviceFails(t) ==
    /\ pc[t] \in {"writing", "reading"}
    /\ Throw(t)
    /\ deviceErrorCounter_' = deviceErrorCounter_ + 1
    /\ shutdownCaught' = (\/ shutdownCaught
                          \/ deviceErrorCounter_ + 1 >= DeviceErrorLimit)
    /\ abandoned' = TRUE
    /\ UNCHANGED link

----------------------------------------------------------------------------
(* The environment *)

\* The inverter (external) takes the next frame.  It carries a set command
\* out or refuses it, and its answer may never come; a frame that is neither
\* accepted nor answered was spoiled on the way.
DeviceTakes ==
    /\ wire # <<>>
    /\ \E accepted, answered \in BOOLEAN :
          LET f == Head(wire) IN
          /\ lastSet' = IF accepted /\ f.command \in SetCommands
                        THEN [command |-> f.command, arguments |-> f.arguments]
                        ELSE lastSet
          /\ line' = IF answered
                     THEN Append(line, [run |-> f.run, command |-> f.command,
                              arguments |-> f.arguments, accepted |-> accepted])
                     ELSE line
    /\ wire' = Tail(wire)
    /\ UNCHANGED <<now, pc, request, reply, server, shutdownCaught, wakeAt,
                   timeStarted_, asked, runs, latest, lastEnd, abandoned>>

\* SIGTERM or SIGINT; delivered to the sleeping thread it ends usleep early.
Signal ==
    /\ ~shutdownCaught
    /\ shutdownCaught' = TRUE
    /\ wakeAt' \in {wakeAt} \union (IF now < wakeAt THEN {now} ELSE {})
    /\ UNCHANGED <<now, pc, request, reply, server, timeStarted_, link, asked,
                   runs, latest, lastEnd, abandoned>>

\* Somebody can go on only when time passes.
TimeNeeded ==
    \E t \in Threads :
        \/ pc[t] = "sleeping" /\ now < wakeAt
        \/ pc[t] \in {"writing", "reading"} /\ Timeout # 0 /\ ~NoTimeLeft

Tick ==
    /\ now < MaxTime \/ TimeNeeded
    /\ now' = now + 1
    /\ UNCHANGED <<pc, request, reply, server, shutdownCaught, wakeAt,
                   timeStarted_, link, asked, runs, latest, lastEnd, abandoned>>

\* All requests of the bounded instance are answered.
Quiescent ==
    /\ asked = MaxRequests
    /\ \A t \in Threads : pc[t] = "idle"
    /\ UNCHANGED vars

\* What a thread does by itself while it is inside executeCommand.
Step(t) ==
    \/ CacheHit(t) \/ CacheMiss(t) \/ Begin(t) \/ Write(t)
    \/ Succeed(t) \/ RefuseAnswer(t) \/ PackFails(t) \/ Overflow(t)
    \/ GiveUp(t) \/ DeviceFails(t)

Next ==
    \/ \E t \in Threads : Ask(t) \/ Step(t) \/ Reply(t)
    \/ DeviceTakes
    \/ Signal
    \/ Tick
    \/ Quiescent

Spec == Init /\ [][Next]_vars

\* The scheduler runs a thread that can run and the clock goes on.  Nothing is
\* assumed of the inverter, of clients, or of who gets the mutex.
Fairness ==
    /\ WF_vars(Tick)
    /\ \A t \in Threads : WF_vars(Begin(t) \/ Write(t) \/ GiveUp(t))
FairSpec == Spec /\ Fairness

----------------------------------------------------------------------------
(* What should hold *)

Request0 == Request \union {None}
AtDevice == {"writing", "reading"}
Locked == {"sleeping", "writing", "reading"}
Stages == {"idle", "waiting", "replying"} \union Locked

\* Every variable keeps its type, no clock value or pause is negative, and a
\* thread has a request exactly while it is not waiting for one.
TypeOK ==
    /\ now \in Nat
    /\ pc \in [Threads -> Stages]
    /\ request \in [Threads -> Request0]
    /\ reply \in [Threads -> Response \union {None}]
    /\ client_mutex_ \in Threads \union {None}
    /\ cache_ \in [Commands -> CachedResponse \union {None}]
    /\ endExecutionTime_ \in Nat
    /\ deviceErrorCounter_ \in Nat
    /\ shutdownCaught \in BOOLEAN
    /\ wakeAt \in Nat
    /\ timeStarted_ \in Nat
    /\ wire \in Seq(Frame)
    /\ line \in Seq(Answer)
    /\ asked \in Nat
    /\ runs \in Nat
    /\ latest \in [Commands -> Outcome]
    /\ lastEnd \in Nat
    /\ abandoned \in BOOLEAN
    /\ lastSet \in Setting \union {None}
    /\ \A t \in Threads : pc[t] = "idle" <=> request[t] = None

\* Frame or answer m belongs to the execution thread t is at.
Own(m, t) ==
    /\ m.run = runs
    /\ m.command = request[t].command
    /\ m.arguments = request[t].arguments

\* One command at a time goes over the half-duplex link: as long as no
\* execution has given up on an answer, what is on the link is the frame, or
\* the answer to the frame, of the execution in progress, and nothing is on it
\* between executions (client_mutex_ around Client::execute).
OneOnTheLink ==
    /\ \A t, u \in Threads : pc[t] \in Locked /\ pc[u] \in Locked => t = u
    /\ ~abandoned =>
          /\ Len(wire) + Len(line) <= 1
          /\ wire # <<>> =>
                \E t \in Threads : pc[t] = "reading" /\ Own(Head(wire), t)
          /\ line # <<>> =>
                \E t \in Threads : pc[t] = "reading" /\ Own(Head(line), t)

\* The cache holds what the last execution of each command brought, except
\* while that command is being executed again; an execution that failed leaves
\* nothing behind to answer later requests from.
CacheIsLatest ==
    \A c \in Commands :
        \/ cache_[c] = latest[c].kept
        \/ /\ cache_[c] = None
           /\ \E t \in Threads : pc[t] \in Locked /\ request[t].command = c

\* A client is never given a response older than the outcome of an execution
\* of its command that had already ended when it asked, however the threads
\* queued up behind client_mutex_.
NeverOlder ==
    \A t \in Threads :
        pc[t] = "replying" /\ reply[t] # None
            => reply[t].run >= request[t].floor

\* A cached response was still valid when the request was made, and no later
\* than now: the u64 difference `timestamp() - cr.time` never wraps.
CacheValidity ==
    /\ \A c \in Commands : cache_[c] # None => cache_[c].time <= now
    /\ \A t \in Threads :
          pc[t] = "replying" /\ reply[t] # None =>
              LET kept == latest[request[t].command].kept IN
              kept # None /\ kept.response = reply[t]
                  => kept.time + CacheTimeout >= request[t].at

\* The invariant behind the four above it.  The mutex is held by the thread in
\* the critical section and by no other; that thread's command has no entry;
\* only a thread that replies has a response;
\* executions are numbered in the order in which they end; an entry belongs to
\* the execution it is filed under, and no time lies in the future.
MutexInv == \A t \in Threads : pc[t] \in Locked <=> client_mutex_ = t
ReplyInv == \A t \in Threads : reply[t] # None => pc[t] = "replying"
ErasedInv == \A t \in Threads : pc[t] \in Locked =>
                cache_[request[t].command] = None
RunsInv ==
    /\ \A c \in Commands :
          /\ latest[c].run <= runs
          /\ latest[c].kept # None =>
                /\ latest[c].kept.response.run = latest[c].run
                /\ latest[c].kept.time <= now
    /\ \A t \in Threads :
          /\ pc[t] \in AtDevice => \A c \in Commands : latest[c].run < runs
          /\ pc[t] # "idle" =>
                /\ request[t].floor <= latest[request[t].command].run
                /\ request[t].at <= now
ExecutorInv ==
    /\ MutexInv /\ ReplyInv /\ ErasedInv /\ CacheIsLatest
    /\ RunsInv /\ NeverOlder /\ CacheValidity

\* Until an execution gives up on an answer, an `ok` carries the inverter's
\* answer to the very command and arguments of the request: cached responses
\* are not mixed up between commands, arguments or clients.
OwnAnswer ==
    ~abandoned =>
        \A t \in Threads :
            pc[t] = "replying" /\ reply[t] # None =>
                /\ reply[t].answer.command = request[t].command
                /\ reply[t].answer.arguments = request[t].arguments
                /\ reply[t].answer.run = reply[t].run

\* Thread t answers its request in this step, with an `ok`.
AnswersNow(t) ==
    /\ pc[t] # "replying"
    /\ pc'[t] = "replying"
    /\ reply'[t] # None

\* In this step thread t tells its client that its set command was accepted.
AcceptsSet(t) ==
    /\ AnswersNow(t)
    /\ request[t].command \in SetCommands
    /\ reply'[t].answer.accepted

InForce(t) ==
    lastSet = [command |-> request[t].command,
               arguments |-> request[t].arguments]

\* A set command the server has just run and reports as accepted is the last
\* one the inverter carried out, as long as nothing has been given up.
FreshSetIsInForce ==
    [][\A t \in Threads :
          pc[t] = "reading" /\ AcceptsSet(t) /\ ~abandoned => InForce(t)]_vars

\* endExecutionTime_ does its work: unless the server is going down (a signal
\* ends usleep early), no command starts within Delay of the end of the last
\* successful one.
PausesAfterSuccess ==
    [][runs' # runs =>
          \/ shutdownCaught
          \/ endExecutionTime_ = 0
          \/ now >= endExecutionTime_ + Delay]_vars

\* The invariant behind it: the end of the last success is not in the future,
\* and whoever sleeps does not wake before the pause is over.
PauseInv ==
    /\ endExecutionTime_ <= now
    /\ \A t \in Threads : pc[t] = "sleeping" =>
          \/ shutdownCaught
          \/ endExecutionTime_ = 0
          \/ wakeAt >= endExecutionTime_ + Delay

\* The executions that have ended.
Executions ==
    IF \E t \in Threads : pc[t] \in AtDevice THEN runs - 1 ELSE runs

\* deviceErrorCounter_ counts no more than what went wrong since the last
\* success: every response still in the cache is that many executions old, so a
\* success begins the count again for all connections.  A server whose count has
\* come to the limit is going down, also when the limit is 0.
ErrorLimit ==
    /\ deviceErrorCounter_ <= Executions
    /\ \A c \in Commands :
          cache_[c] # None =>
              cache_[c].response.run + deviceErrorCounter_ <= Executions
    /\ deviceErrorCounter_ > 0 /\ deviceErrorCounter_ >= DeviceErrorLimit
          => shutdownCaught

\* However silent the inverter is, the thread that has client_mutex_ gives it
\* back: no command blocks the other connections for ever.
MutexReleased ==
    \A t \in Threads : (client_mutex_ = t) ~> (client_mutex_ # t)

\* The invariant behind OneOnTheLink, OwnAnswer and FreshSetIsInForce: as long
\* as nothing was given up, the link is empty or carries the frame or the
\* answer of the execution in progress, an accepted set command that was
\* answered is in force, and entries hold answers to what they are filed under.
LinkInv ==
    ~abandoned =>
        /\ \/ wire = <<>> /\ line = <<>>
           \/ \E t \in Threads :
                 /\ pc[t] = "reading"
                 /\ \/ Len(wire) = 1 /\ line = <<>> /\ Own(Head(wire), t)
                    \/ /\ wire = <<>> /\ Len(line) = 1 /\ Own(Head(line), t)
                       /\ (Head(line).accepted /\ Head(line).command \in SetCommands)
                              => InForce(t)
        /\ \A c \in Commands :
              cache_[c] # None =>
                  LET response == cache_[c].response IN
                  /\ response.answer.command = c
                  /\ response.answer.arguments = cache_[c].arguments
                  /\ response.answer.run = response.run

----------------------------------------------------------------------------
(* What the documentation says, which the code does not do *)

\* A response is the inverter's answer to the command that was asked.
AnswerIsToThisCommand ==
    \A t \in Threads :
        pc[t] = "replying" /\ reply[t] # None =>
            /\ reply[t].answer.command = request[t].command
            /\ reply[t].answer.arguments = request[t].arguments

\* Delay lies between any two commands, whether the first succeeded or not.
DelayBetweenCommands ==
    [][runs' # runs =>
          shutdownCaught \/ lastEnd = 0 \/ now >= lastEnd + Delay]_vars

\* A set command answered as accepted is in force at that moment, also when
\* the answer comes out of the cache.
AcceptedSetIsInForce ==
    [][\A t \in Threads : AcceptsSet(t) /\ ~abandoned => InForce(t)]_vars

----------------------------------------------------------------------------
(* The executor implements the service its clients see.  An execution counts *)
(* as done when the mutex is given back.                                     *)

Phase == [t \in Threads |->
             IF pc[t] \in {"idle", "replying"} THEN pc[t] ELSE "asked"]

Service == INSTANCE CommandService WITH
    phase <- Phase, executions <- Executions

\* Every behaviour of the executor is one of CommandService.
ImplementsService == Service!Spec

=============================================================================
