------------------------ MODULE ConnectionLifecycle ------------------------
(***************************************************************************)
(* The accept loop of Server::start, the Connection objects it makes, the  *)
(* detached thread of each, the registry connections_, the signal handler  *)
(* and the end of the process.                                             *)
(*                                                                         *)
(* A Connection lives in a heap block, which malloc may hand out again as  *)
(* soon as it is freed.  Its thread is started inside its constructor, so  *)
(* the thread may `delete this` while the constructor, or addConnection,   *)
(* is still to touch the object.                                           *)
(*                                                                         *)
(* The process ends as "exited"; as "killed" by a signal; as "terminated"  *)
(* by an exception that nobody catches; or as "misused", when a freed      *)
(* Connection is touched or a joinable thread_ is destroyed.               *)
(***************************************************************************)
EXTENDS Integers, FiniteSets

CONSTANTS
    Blocks,         \* heap blocks for Connection objects
    None,
    MaxSockets,     \* client sockets the process may have open (RLIMIT_NOFILE)
    MaxBacklog,     \* bound: connects waiting to be accepted
    MaxPending      \* bound: requests of one client waiting in its socket

ASSUME BlocksAssumption == IsFiniteSet(Blocks) /\ None \notin Blocks
ASSUME LimitsAssumption == {MaxSockets, MaxBacklog, MaxPending} \subseteq Nat \ {0}

VARIABLES
    process,        \* "running", or how it ended
    main,           \* where the main thread is in Server::start
    current,        \* the block of the Connection main is making
    stage,          \* per block: where the thread of its Connection is
    handle,         \* per block: its thread_ member
    peer,           \* per block: is the client still there
    pending,        \* per block: requests its client sent that are not read
    connections_,   \* per block: how many entries point to it
    backlog,
    shutdownCaught,
    \* history
    raced,          \* a Connection unregistered itself before it was added
    late            \* connections accepted after shutdownCaught was set

vars == <<process, main, current, stage, handle, peer, pending, connections_,
          backlog, shutdownCaught, raced, late>>

\* Inside `new Connection` and addConnection.
Making == {"assigning", "detaching", "adding"}
Alive(p) == stage[p] # "free"
\* Threads that still have their socket.
HasSocket == {"reading", "processing", "sending", "closing"}
OpenSockets == {p \in Blocks : stage[p] \in HasSocket}

Init ==
    /\ process = "running"
    /\ main = "checking"
    /\ current = None
    /\ stage = [p \in Blocks |-> "free"]
    /\ handle = [p \in Blocks |-> "empty"]
    /\ peer = [p \in Blocks |-> "gone"]
    /\ pending = [p \in Blocks |-> 0]
    /\ connections_ = [p \in Blocks |-> 0]
    /\ backlog = 0
    /\ shutdownCaught = FALSE
    /\ raced = FALSE
    /\ late = 0

----------------------------------------------------------------------------
(* The main thread *)

\* Mutant of Check: the loop condition does not look at the flag.
CheckNothing ==
    /\ main = "checking"
    /\ main' = "accepting"
    /\ UNCHANGED <<process, current, stage, handle, peer, pending,
                   connections_, backlog, shutdownCaught, raced, late>>

\* while (!shutdownCaught)
Check ==
    /\ main = "checking"
    /\ main' = IF shutdownCaught THEN "leaving" ELSE "accepting"
    /\ UNCHANGED <<process, current, stage, handle, peer, pending,
                   connections_, backlog, shutdownCaught, raced, late>>

\* accept returns a socket; the Connection is allocated and its constructor
\* starts the thread, which runs from here on.
Accept ==
    /\ main = "accepting"
    /\ backlog > 0
    /\ Cardinality(OpenSockets) < MaxSockets
    /\ \E p \in Blocks :
          /\ ~Alive(p)
          /\ current' = p
          /\ stage' = [stage EXCEPT ![p] = "reading"]
          /\ handle' = [handle EXCEPT ![p] = "empty"]
          /\ peer' = [peer EXCEPT ![p] = "here"]
          /\ pending' = [pending EXCEPT ![p] = 0]
    /\ backlog' = backlog - 1
    /\ late' = IF shutdownCaught THEN late + 1 ELSE late
    /\ main' = "assigning"
    /\ UNCHANGED <<process, connections_, shutdownCaught, raced>>

\* No descriptor is left: accept returns -1 and leaves the client waiting.
AcceptFails ==
    /\ main = "accepting"
    /\ backlog > 0
    /\ Cardinality(OpenSockets) >= MaxSockets
    /\ main' = "checking"
    /\ UNCHANGED <<process, current, stage, handle, peer, pending,
                   connections_, backlog, shutdownCaught, raced, late>>

\* There is no memory for the Connection or for its place in connections_, or
\* no resources for its thread: operator new, emplace_back or the constructor of
\* std::thread throws, and nobody up to main() catches it.
NoResources ==
    /\ \/ main = "accepting" /\ backlog > 0 /\ Cardinality(OpenSockets) < MaxSockets
       \/ main = "adding"
    /\ process' = "terminated"
    /\ UNCHANGED <<main, current, stage, handle, peer, pending, connections_,
                   backlog, shutdownCaught, raced, late>>

\* A step of main that touches the object `current` points to: it does `h` to
\* thread_, or, on a freed block, anything from nothing to the end of the
\* process.
Touch(h) ==
    IF Alive(current)
    THEN /\ handle' = [handle EXCEPT ![current] = h]
         /\ UNCHANGED process
    ELSE /\ process' \in {"running", "misused"}
         /\ UNCHANGED handle

\* thread_ = std::thread(...)
AssignThread ==
    /\ main = "assigning"
    /\ Touch("joinable")
    /\ main' = "detaching"
    /\ UNCHANGED <<current, stage, peer, pending, connections_, backlog,
                   shutdownCaught, raced, late>>

\* Mutant of DetachThread: the call is left out.
KeepThread ==
    /\ main = "detaching"
    /\ main' = "adding"
    /\ UNCHANGED <<process, current, stage, handle, peer, pending,
                   connections_, backlog, shutdownCaught, raced, late>>

\* thread_.detach()
DetachThread ==
    /\ main = "detaching"
    /\ Touch("detached")
    /\ main' = "adding"
    /\ UNCHANGED <<current, stage, peer, pending, connections_, backlog,
                   shutdownCaught, raced, late>>

\* addConnection(conn), with the pointer whatever has become of the object; if
\* verbose_, the object is looked at.
AddConnection ==
    /\ main = "adding"
    /\ process' \in {"running"} \union (IF Alive(current) THEN {} ELSE {"misused"})
    /\ connections_' = [connections_ EXCEPT ![current] = @ + 1]
    /\ current' = None
    /\ main' = "checking"
    /\ UNCHANGED <<stage, handle, peer, pending, backlog, shutdownCaught,
                   raced, late>>

\* ~Server closes the listening socket, main returns and the process is gone
\* with every thread that is left.
Leave ==
    /\ main = "leaving"
    /\ process' = "exited"
    /\ UNCHANGED <<main, current, stage, handle, peer, pending, connections_,
                   backlog, shutdownCaught, raced, late>>

MainStep ==
    \/ Check \/ Accept \/ AcceptFails \/ NoResources \/ AssignThread
    \/ DetachThread \/ AddConnection \/ Leave

----------------------------------------------------------------------------
(* The thread of the Connection in block p *)

Goto(p, from, to) ==
    /\ stage[p] = from
    /\ stage' = [stage EXCEPT ![p] = to]

\* readLoop returns a request.  What has arrived is read even if its client has
\* closed by now.
Request(p) ==
    /\ pending[p] > 0
    /\ pending' = [pending EXCEPT ![p] = @ - 1]
    /\ Goto(p, "reading", "processing")
    /\ UNCHANGED <<process, main, current, handle, peer, connections_, backlog,
                   shutdownCaught, raced, late>>

\* Mutant of RequestsEnd: recv that returns 0 is tried again.
RequestsGoOn(p) ==
    /\ peer[p] = "here"
    /\ Goto(p, "reading", "closing")
    /\ UNCHANGED <<process, main, current, handle, peer, pending, connections_,
                   backlog, shutdownCaught, raced, late>>

\* readLoop returns nothing, -1 or a request that begins with EOT.
RequestsEnd(p) ==
    /\ Goto(p, "reading", "closing")
    /\ UNCHANGED <<process, main, current, handle, peer, pending, connections_,
                   backlog, shutdownCaught, raced, late>>

\* processRequest; executeCommand may reach the device error limit.
ProcessRequest(p) ==
    /\ Goto(p, "processing", "sending")
    /\ shutdownCaught' \in {shutdownCaught, TRUE}
    /\ UNCHANGED <<process, main, current, handle, peer, pending, connections_,
                   backlog, raced, late>>

\* An exception escapes from run, or the stack overflows: dump, called in the
\* handlers that report an error, meets a token that is not UTF-8 (json formats);
\* a value with no text in types.h is printed; or no memory is left.
RequestFails(p) ==
    /\ stage[p] \in {"processing", "sending"}
    /\ process' \in {"terminated", "killed"}
    /\ UNCHANGED <<main, current, stage, handle, peer, pending, connections_,
                   backlog, shutdownCaught, raced, late>>

\* sendResponse succeeds, or fails and ends the connection.
SendResponse(p) ==
    /\ Goto(p, "sending", "reading") \/ Goto(p, "sending", "closing")
    /\ UNCHANGED <<process, main, current, handle, peer, pending, connections_,
                   backlog, shutdownCaught, raced, late>>

\* send on a connection the client has reset raises SIGPIPE, which nobody
\* handles or blocks.
BrokenPipe(p) ==
    /\ stage[p] = "sending"
    /\ peer[p] = "gone"
    /\ process' = "killed"
    /\ UNCHANGED <<main, current, stage, handle, peer, pending, connections_,
                   backlog, shutdownCaught, raced, late>>

\* delete this: close(sock_)
CloseSocket(p) ==
    /\ Goto(p, "closing", "removing")
    /\ UNCHANGED <<process, main, current, handle, peer, pending, connections_,
                   backlog, shutdownCaught, raced, late>>

\* Mutant of RemoveConnection: the entries stay.
RemoveNothing(p) ==
    /\ Goto(p, "removing", "freeing")
    /\ raced' = (raced \/ (p = current /\ main \in Making))
    /\ UNCHANGED <<process, main, current, handle, peer, pending, connections_,
                   backlog, shutdownCaught, late>>

\* removeConnection(this) erases every entry that points to the block.
RemoveConnection(p) ==
    /\ Goto(p, "removing", "freeing")
    /\ connections_' = [connections_ EXCEPT ![p] = 0]
    /\ raced' = (raced \/ (p = current /\ main \in Making))
    /\ UNCHANGED <<process, main, current, handle, peer, pending, backlog,
                   shutdownCaught, late>>

\* ~thread terminates the process if thread_ is joinable; else the memory is
\* freed.
FreeConnection(p) ==
    /\ Goto(p, "freeing", "free")
    /\ process' = IF handle[p] = "joinable" THEN "misused" ELSE process
    /\ UNCHANGED <<main, current, handle, peer, pending, connections_, backlog,
                   shutdownCaught, raced, late>>

ThreadStep(p) ==
    \/ Request(p) \/ RequestsEnd(p) \/ ProcessRequest(p) \/ RequestFails(p)
    \/ SendResponse(p) \/ BrokenPipe(p) \/ CloseSocket(p) \/ RemoveConnection(p)
    \/ FreeConnection(p)

----------------------------------------------------------------------------
(* Clients and signals *)

Connect ==
    /\ backlog < MaxBacklog
    /\ backlog' = backlog + 1
    /\ UNCHANGED <<process, main, current, stage, handle, peer, pending,
                   connections_, shutdownCaught, raced, late>>

SendRequest(p) ==
    /\ stage[p] \in HasSocket
    /\ peer[p] = "here"
    /\ pending[p] < MaxPending
    /\ pending' = [pending EXCEPT ![p] = @ + 1]
    /\ UNCHANGED <<process, main, current, stage, handle, peer, connections_,
                   backlog, shutdownCaught, raced, late>>

PeerLeaves(p) ==
    /\ peer[p] = "here"
    /\ peer' = [peer EXCEPT ![p] = "gone"]
    /\ UNCHANGED <<process, main, current, stage, handle, pending,
                   connections_, backlog, shutdownCaught, raced, late>>

\* SIGTERM or SIGINT.  The handler runs on whichever thread the kernel picks:
\* a blocking accept, recv or send of that thread fails with EINTR, and no
\* other thread notices.
Signal ==
    /\ shutdownCaught' = TRUE
    /\ \/ UNCHANGED <<main, stage>>
       \/ main = "accepting" /\ main' = "checking" /\ UNCHANGED stage
       \/ /\ \E p \in Blocks :
                Goto(p, "reading", "closing") \/ Goto(p, "sending", "closing")
          /\ UNCHANGED main
    /\ UNCHANGED <<process, current, handle, peer, pending, connections_,
                   backlog, raced, late>>

\* The process has ended.
Ended == process # "running" /\ UNCHANGED vars

Next ==
    \/ /\ process = "running"
       /\ \/ MainStep \/ Connect \/ Signal
          \/ \E p \in Blocks : ThreadStep(p) \/ SendRequest(p) \/ PeerLeaves(p)
    \/ Ended

Spec == Init /\ [][Next]_vars

\* What a thread does without its client: recv returns what is left and then
\* nothing, executeCommand returns and send does not block.
EndsAfterPeer(p) ==
    process = "running" /\
       (\/ /\ peer[p] = "gone"
           /\ Request(p) \/ RequestsEnd(p) \/ ProcessRequest(p) \/ SendResponse(p)
        \/ CloseSocket(p) \/ RemoveConnection(p) \/ FreeConnection(p))

\* The scheduler runs every thread that can run; and clients keep connecting.
Fairness ==
    /\ WF_vars(process = "running" /\ MainStep)
    /\ \A p \in Blocks : WF_vars(EndsAfterPeer(p))
    /\ WF_vars(process = "running" /\ Connect)
FairSpec == Spec /\ Fairness

----------------------------------------------------------------------------
(* What should hold *)

Stages == HasSocket \union {"free", "removing", "freeing"}

\* Every variable keeps its type.  The registry never points to one block more
\* than twice: a pointer left behind by a race is dropped with the next
\* Connection in that block.
TypeOK ==
    /\ process \in {"running", "exited", "killed", "terminated", "misused"}
    /\ main \in {"checking", "accepting", "leaving"} \union Making
    /\ current \in Blocks \union {None}
    /\ main \in Making <=> current # None
    /\ stage \in [Blocks -> Stages]
    /\ handle \in [Blocks -> {"empty", "joinable", "detached"}]
    /\ peer \in [Blocks -> {"here", "gone"}]
    /\ pending \in [Blocks -> 0 .. MaxPending]
    /\ connections_ \in [Blocks -> 0 .. 2]
    /\ backlog \in 0 .. MaxBacklog
    /\ shutdownCaught \in BOOLEAN
    /\ raced \in BOOLEAN
    /\ late \in Nat

\* At most one more client is served after the flag is set: the one accept was
\* already waiting for, because nobody wakes it.
AtMostOneLate == late <= 1

\* Unless a thread once ended before addConnection, the registry is exact: it
\* points once to every Connection that was added and not yet removed, and to
\* nothing that was freed.
RegistryIsExact ==
    ~raced =>
        \A p \in Blocks :
            connections_[p] =
                IF /\ stage[p] \in HasSocket \union {"removing"}
                   /\ p # current
                THEN 1 ELSE 0

\* No Connection is touched after it was freed, and none is freed with a thread_
\* that is still joinable, unless a thread ended before the constructor that
\* started it and addConnection were through.
MisuseOnlyByRace == process = "misused" => raced

\* The invariant behind these.  Nobody accepts after a late connection; a
\* living Connection has a joinable thread_ only until main detaches it; a
\* Connection that is past its removal while main still makes it has raced; a
\* block holds a pointer of its own and at most one left by a race.
LateInv == late = 0 \/ (late = 1 /\ shutdownCaught /\ main # "accepting")
HandleInv ==
    \A p \in Blocks :
        handle[p] = "joinable" /\ Alive(p) => main = "detaching" /\ current = p
RaceInv ==
    \A p \in Blocks :
        p = current /\ stage[p] \in {"freeing", "free"} =>
            raced /\ connections_[p] = 0
PointersInv ==
    \A p \in Blocks :
        p = current \/ stage[p] \in {"freeing", "free"} => connections_[p] <= 1
LifecycleInv ==
    /\ LateInv /\ HandleInv /\ RaceInv /\ PointersInv
    /\ RegistryIsExact /\ MisuseOnlyByRace

\* The thread of a client that has left closes its socket and is freed.
ConnectionsEnd ==
    \A p \in Blocks :
        (Alive(p) /\ peer[p] = "gone") ~> (~Alive(p) \/ process # "running")

\* As long as clients keep connecting, the flag ends the process, whoever set
\* it and whatever main was doing at that moment.
ShutdownTakesEffect == shutdownCaught ~> (process # "running")

=============================================================================
