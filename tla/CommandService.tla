--------------------------- MODULE CommandService ---------------------------
(***************************************************************************)
(* What inverterd promises the clients that send it exec requests, with no *)
(* mutex, no cache, no pause and no link: every request is answered in one *)
(* step, either with what the last execution of its command brought, if    *)
(* that is young enough and had the same arguments, or by an execution.    *)
(* An execution that fails takes the earlier result of its command away.   *)
(* Until an execution has given up on an answer, every answer is the       *)
(* inverter's answer to the command that was asked.                        *)
(***************************************************************************)
EXTENDS Integers

CONSTANTS Threads, Legal, Response, None, CacheTimeout

VARIABLES
    now,
    phase,          \* per connection: "idle", "asked" or "replying"
    request,        \* what it asked, with fields command and arguments
    reply,          \* a Response, or None: an error
    executions,     \* how often a command was run to its end
    latest,         \* per command: its last execution and what is kept of it
    abandoned

vars == <<now, phase, request, reply, executions, latest, abandoned>>

Init ==
    /\ now \in Nat
    /\ \A t \in Threads : phase[t] = "idle" /\ reply[t] = None
    /\ executions = 0
    /\ \A c \in DOMAIN latest : latest[c].run = 0 /\ latest[c].kept = None
    /\ abandoned = FALSE

Ask(t) ==
    /\ phase[t] = "idle"
    /\ phase' = [phase EXCEPT ![t] = "asked"]
    /\ request' = [request EXCEPT ![t] = request'[t]]
    /\ <<request'[t].command, request'[t].arguments>> \in Legal
    /\ UNCHANGED <<now, reply, executions, latest, abandoned>>

AnswerFromLatest(t) ==
    /\ phase[t] = "asked"
    /\ LET kept == latest[request[t].command].kept IN
          /\ kept # None
          /\ now - kept.time <= CacheTimeout
          /\ kept.arguments = request[t].arguments
          /\ reply' = [reply EXCEPT ![t] = kept.response]
    /\ phase' = [phase EXCEPT ![t] = "replying"]
    /\ UNCHANGED <<now, request, executions, latest, abandoned>>

\* Response `response` answers request `r`.
Answers(response, r) ==
    /\ response.answer.command = r.command
    /\ response.answer.arguments = r.arguments

ExecuteWell(t) ==
    /\ phase[t] = "asked"
    /\ LET response == reply'[t]
           r == request[t]
       IN /\ response \in Response
          /\ response.run = executions + 1
          /\ abandoned \/ Answers(response, r)
          /\ reply' = [reply EXCEPT ![t] = response]
          /\ latest' = [latest EXCEPT ![r.command] =
                [run |-> executions + 1,
                 kept |-> [time |-> now, arguments |-> r.arguments,
                           response |-> response]]]
    /\ phase' = [phase EXCEPT ![t] = "replying"]
    /\ executions' = executions + 1
    /\ UNCHANGED <<now, request, abandoned>>

ExecuteBadly(t) ==
    /\ phase[t] = "asked"
    /\ latest' = [latest EXCEPT ![request[t].command] =
                      [run |-> executions + 1, kept |-> None]]
    /\ phase' = [phase EXCEPT ![t] = "replying"]
    /\ executions' = executions + 1
    /\ abandoned' \in {abandoned, TRUE}
    /\ UNCHANGED <<now, request, reply>>

Deliver(t) ==
    /\ phase[t] = "replying"
    /\ phase' = [phase EXCEPT ![t] = "idle"]
    /\ reply' = [reply EXCEPT ![t] = None]
    /\ request' = [request EXCEPT ![t] = request'[t]]
    /\ UNCHANGED <<now, executions, latest, abandoned>>

Tick ==
    /\ now' = now + 1
    /\ UNCHANGED <<phase, request, reply, executions, latest, abandoned>>

Next ==
    \/ \E t \in Threads :
          \/ Ask(t) \/ AnswerFromLatest(t) \/ ExecuteWell(t)
          \/ ExecuteBadly(t) \/ Deliver(t)
    \/ Tick

Spec == Init /\ [][Next]_vars

=============================================================================
