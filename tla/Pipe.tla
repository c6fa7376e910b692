-------------------------------- MODULE Pipe --------------------------------
(***************************************************************************)
(* The Pipe (openclaw_pipe.py): one object that serves every chat request  *)
(* of Open WebUI.  It owns the current GatewayClient, which it replaces    *)
(* when the valves change, the cache of agents, which the background       *)
(* discovery and every request may fill, and for each request the wrapper  *)
(* that turns a run into chunks, metrics and a span.                       *)
(*                                                                         *)
(* An action is the code between two awaits or yields.  Both locks of the  *)
(* Pipe guard sections without an await, so such a section is one step.    *)
(* The client is abstract here (Connection and AgentRun model it): it is   *)
(* connected or not, and a run on it works, is over, or was lost.          *)
(***************************************************************************)
EXTENDS Integers, Sequences

CONSTANTS
    Requests,       \* calls of pipe()
    Eager,          \* the task of _eager_discover()
    Settings,       \* values of the valves that configure a client
    Models,         \* model ids
    Default,        \* openclaw/default
    AutoList,       \* AGENT_LIST = __auto__ (or blank)
    AgentLists,     \* values of AGENT_LIST: AutoList, or the set of ids it names
    MaxEdits,       \* bound on the edits of the valves
    None            \* Python's None

ASSUME PipeAssumption ==
    /\ Default \in Models
    /\ \A list \in AgentLists \ {AutoList} : list \subseteq Models
    /\ Eager \notin Requests
    /\ MaxEdits \in Nat

Tasks == Requests \cup {Eager}
Clients == 1 .. MaxEdits + 1    \* numbered in the order of their creation

VARIABLES
    valves,         \* self.valves: what configures a client, and AGENT_LIST
    edits,          \* edits of the valves so far
    client,         \* self._client, 0 for None
    settingsOf,     \* the settings each client was made with
    life,           \* "none", "kept", "draining" or "closed"
    up,             \* the clients with an open connection
    cache,          \* self._agent_cache, with where its contents came from
    status,         \* self._gateway_status
    launched,       \* self._discovery_launched
    pc,             \* where each task is
    using,          \* the client each task got from _get_client()
    asked,          \* history: the valves when a request came in
    model,          \* the model each request names
    streams,        \* the requests with "stream": true
    run,            \* the run of each request
    agentError,     \* event_stream.agent_error of each request
    aborting,       \* requests with an abort_agent() task yet to run
    outcome,        \* what each request counted in openclaw.pipe.requests
    ended           \* how often the span of each request was ended

valveVars == <<valves, edits>>
clientVars == <<client, settingsOf, life>>
cacheVars == <<cache, status, launched>>
askVars == <<using, asked, model, streams>>
runVars == <<run, agentError, aborting>>
endVars == <<outcome, ended>>
vars == <<valveVars, clientVars, up, cacheVars, pc, askVars, runVars, endVars>>

Statuses == {"success", "error", "cancelled"}
AtYield == {"yielded", "lastYield", "errYield"}
AtAwait == {"discover", "announce", "calling", "running", "finishing"}
PC == {"idle", "start", "refused", "returned", "over", "dropped"} \cup AtYield \cup AtAwait
Cached == [models : SUBSET Models, from : {"valves", "gateway", "fallback"}]
Valves == [client : Settings, agents : AgentLists]

TypeOK ==
    /\ valves \in Valves /\ edits \in 0 .. MaxEdits
    /\ client \in {0} \cup Clients
    /\ settingsOf \in [Clients -> Settings \cup {None}]
    /\ life \in [Clients -> {"none", "kept", "draining", "closed"}]
    /\ up \subseteq Clients
    /\ cache \in Cached \cup {None}
    /\ status \in {"unknown", "connected", "error"}
    /\ launched \in BOOLEAN
    /\ pc \in [Tasks -> PC]
    /\ using \in [Tasks -> {0} \cup Clients]
    /\ asked \in [Requests -> Valves \cup {None}]
    /\ model \in [Requests -> Models \cup {None}]
    /\ streams \subseteq Requests
    /\ run \in [Requests -> {"none", "working", "lost", "over"}]
    /\ agentError \in [Requests -> BOOLEAN]
    /\ aborting \subseteq Requests
    /\ outcome \in [Requests -> Seq(Statuses)]
    /\ ended \in [Requests -> 0 .. 2]

-----------------------------------------------------------------------------
(* _get_client() *)

IsCurrent == client # 0 /\ settingsOf[client] = valves.client

\* A new client takes the place of the old one, which is closed in the
\* background after a drain period.
SwapClient(t) ==
    /\ client' = client + 1
    /\ settingsOf' = [settingsOf EXCEPT ![client + 1] = valves.client]
    /\ life' = [k \in Clients |-> CASE k = client -> "draining"
                                    [] k = client + 1 -> "kept"
                                    [] OTHER -> life[k]]
    /\ using' = [using EXCEPT ![t] = client + 1]

\* Mutants: a client per request; the old client is forgotten; the first
\* client is kept whatever the valves say.
GetClient_AlwaysNew(t) == SwapClient(t)

GetClient_NoDrain(t) ==
    \/ /\ IsCurrent
       /\ using' = [using EXCEPT ![t] = client]
       /\ UNCHANGED clientVars
    \/ /\ ~IsCurrent
       /\ client' = client + 1
       /\ settingsOf' = [settingsOf EXCEPT ![client + 1] = valves.client]
       /\ life' = [life EXCEPT ![client + 1] = "kept"]
       /\ using' = [using EXCEPT ![t] = client + 1]

GetClient_KeepsFirst(t) ==
    \/ /\ client # 0
       /\ using' = [using EXCEPT ![t] = client]
       /\ UNCHANGED clientVars
    \/ client = 0 /\ SwapClient(t)

GetClient(t) ==
    \/ /\ IsCurrent
       /\ using' = [using EXCEPT ![t] = client]
       /\ UNCHANGED clientVars
    \/ ~IsCurrent /\ SwapClient(t)

-----------------------------------------------------------------------------
(* The agent cache: pipes(), _eager_discover() and _ensure_agent_cache() *)

OrDefault(models) == IF models = {} THEN {Default} ELSE models

StaticModels == [models |-> OrDefault(valves.agents), from |-> "valves"]

\* The cache is there: pipe() validates the model; the background task ends.
Validated(t, cached) ==
    CASE t = Eager -> "over"
      [] t # Eager /\ model'[t] \in cached.models -> "announce"
      [] OTHER -> "refused"

\* Mutant: the warm cache is looked at before the static list.
EnsureCache_WarmFirst(t) ==
    \/ /\ cache # None
       /\ pc' = [pc EXCEPT ![t] = Validated(t, cache)]
       /\ UNCHANGED cache
    \/ /\ cache = None
       /\ valves.agents # AutoList
       /\ cache' = StaticModels
       /\ pc' = [pc EXCEPT ![t] = Validated(t, StaticModels)]
    \/ /\ cache = None
       /\ valves.agents = AutoList
       /\ pc' = [pc EXCEPT ![t] = "discover"]
       /\ UNCHANGED cache

\* A static list replaces the cache; a warm cache is used as it is; with a
\* cold one the task asks the Gateway, and holds no lock while it waits.
EnsureCache(t) ==
    \/ /\ valves.agents # AutoList
       /\ cache' = StaticModels
       /\ pc' = [pc EXCEPT ![t] = Validated(t, StaticModels)]
    \/ /\ valves.agents = AutoList
       /\ cache # None
       /\ pc' = [pc EXCEPT ![t] = Validated(t, cache)]
       /\ UNCHANGED cache
    \/ /\ valves.agents = AutoList
       /\ cache = None
       /\ pc' = [pc EXCEPT ![t] = "discover"]
       /\ UNCHANGED cache

\* Open WebUI opens the model selector.  The flag is set even if there is no
\* running loop to create the task in.
PipesCalled ==
    /\ valves.agents = AutoList
    /\ cache = None
    /\ ~launched
    /\ launched' = TRUE
    /\ \/ pc' = [pc EXCEPT ![Eager] = "start"]
       \/ UNCHANGED pc
    /\ UNCHANGED <<valveVars, clientVars, up, cache, status, askVars, runVars, endVars>>

EagerStarts ==
    /\ pc[Eager] = "start"
    /\ GetClient(Eager)
    /\ EnsureCache(Eager)
    /\ UNCHANGED <<valveVars, up, status, launched, asked, model, streams, runVars, endVars>>

\* Mutant: a Gateway without agents empties the selector.
Answered_NoDefault(t) ==
    /\ up' = up \cup {using[t]}
    /\ status' = "connected"
    /\ \E agents \in SUBSET Models :
          cache' = [models |-> agents, from |-> "gateway"]

\* list_agents() returns: the agents of the Gateway, or the default agent if
\* the RPC was refused or timed out, which list_agents() does not report.
Answered(t) ==
    /\ up' = up \cup {using[t]}
    /\ status' = "connected"
    /\ \/ \E agents \in SUBSET Models :
             cache' = [models |-> OrDefault(agents), from |-> "gateway"]
       \/ cache' = [models |-> {Default}, from |-> "fallback"]

\* list_agents() raises: the Gateway cannot be reached, or was lost.
Unreachable ==
    /\ status' = "error"
    /\ cache' = [models |-> {Default}, from |-> "fallback"]
    /\ UNCHANGED up

\* Whatever the cache holds by now is overwritten.
Discovered(t) ==
    /\ pc[t] = "discover"
    /\ Answered(t) \/ Unreachable
    /\ UNCHANGED askVars
    /\ pc' = [pc EXCEPT ![t] = Validated(t, cache')]
    /\ UNCHANGED <<valveVars, clientVars, launched, runVars, endVars>>

-----------------------------------------------------------------------------
(* pipe() up to the run *)

\* A status indicator such as __openclaw_status__ was selected.
RefuseIndicator(r) ==
    /\ pc[r] = "idle"
    /\ pc' = [pc EXCEPT ![r] = "refused"]
    /\ UNCHANGED <<valveVars, clientVars, up, cacheVars, askVars, runVars, endVars>>

Arrive(r) ==
    /\ pc[r] = "idle"
    /\ asked' = [asked EXCEPT ![r] = valves]
    /\ \E m \in Models : model' = [model EXCEPT ![r] = m]
    /\ streams' \in {streams, streams \cup {r}}
    /\ GetClient(r)
    /\ EnsureCache(r)
    /\ UNCHANGED <<valveVars, up, status, launched, runVars, endVars>>

\* The initial status has been emitted.  A stream is returned as a generator
\* that has not started.
Announced(r) ==
    /\ pc[r] = "announce"
    /\ pc' = [pc EXCEPT ![r] = IF r \in streams THEN "returned" ELSE "calling"]
    /\ UNCHANGED <<valveVars, clientVars, up, cacheVars, askVars, runVars, endVars>>

Iterated(r) ==
    /\ pc[r] = "returned"
    /\ pc' = [pc EXCEPT ![r] = "calling"]
    /\ UNCHANGED <<valveVars, clientVars, up, cacheVars, askVars, runVars, endVars>>

\* agent_stream() connects, whether or not the client has been closed, and
\* its request is accepted.
Accepted(r) ==
    /\ pc[r] = "calling"
    /\ up' = up \cup {using[r]}
    /\ run' = [run EXCEPT ![r] = "working"]
    /\ pc' = [pc EXCEPT ![r] = "running"]
    /\ UNCHANGED <<valveVars, clientVars, cacheVars, askVars, agentError, aborting, endVars>>

-----------------------------------------------------------------------------
(* _stream_response(), _traced_stream_response() and their non-stream twins *)

Count(r, how) ==
    /\ outcome' = [outcome EXCEPT ![r] = Append(@, how)]
    /\ ended' = [ended EXCEPT ![r] = @ + 1]

\* The stream is exhausted: the Gateway is reachable, and the raw outcome
\* tells an agent error from a success.
Complete(r, failed) ==
    /\ status' = "connected"
    /\ Count(r, IF failed THEN "error" ELSE "success")
    /\ pc' = [pc EXCEPT ![r] = "over"]

Chunk(r) ==
    /\ pc[r] = "running"
    /\ r \in streams
    /\ pc' = [pc EXCEPT ![r] = "yielded"]
    /\ UNCHANGED <<valveVars, clientVars, up, cacheVars, askVars, runVars, endVars>>

ChunkTaken(r) ==
    /\ pc[r] = "yielded"
    /\ pc' = [pc EXCEPT ![r] = "running"]
    /\ UNCHANGED <<valveVars, clientVars, up, cacheVars, askVars, runVars, endVars>>

\* A final event reaches _AgentRunStream, which notes an error of the agent.
\* A stream yields a last chunk first.
Final(r, failed) ==
    /\ agentError' = [agentError EXCEPT ![r] = failed]
    /\ run' = [run EXCEPT ![r] = "over"]
    /\ \/ /\ r \in streams
          /\ pc' = [pc EXCEPT ![r] = "lastYield"]
          /\ UNCHANGED <<status, endVars>>
       \/ /\ r \notin streams
          /\ Complete(r, failed)

RunEnds(r) ==
    /\ pc[r] = "running"
    /\ run[r] = "working"
    /\ \E failed \in BOOLEAN : Final(r, failed)
    /\ UNCHANGED <<valveVars, clientVars, up, cache, launched, askVars, aborting>>

\* The client reports a lost connection by a final event of its own, with
\* status "error" and _local set, which _AgentRunStream does not count.
RunInterrupted(r) ==
    /\ pc[r] = "running"
    /\ run[r] = "lost"
    /\ Final(r, FALSE)
    /\ UNCHANGED <<valveVars, clientVars, up, cache, launched, askVars, aborting>>

LastChunkTaken(r) ==
    /\ pc[r] = "lastYield"
    /\ pc' = [pc EXCEPT ![r] = "finishing"]
    /\ UNCHANGED <<valveVars, clientVars, up, cacheVars, askVars, runVars, endVars>>

Finished(r) ==
    /\ pc[r] = "finishing"
    /\ Complete(r, agentError[r])
    /\ UNCHANGED <<valveVars, clientVars, up, cache, launched, askVars, runVars>>

\* GatewayConnectionError while connecting or waiting for the acknowledgement;
\* GatewayRPCError there or when the run times out.  The message is the last
\* chunk of a stream.
Fails(r) ==
    /\ \/ pc[r] = "calling" /\ status' \in {"error", status}
       \/ pc[r] = "running" /\ status' = status
    /\ Count(r, "error")
    /\ pc' = [pc EXCEPT ![r] = IF r \in streams THEN "errYield" ELSE "over"]
    /\ UNCHANGED <<valveVars, clientVars, up, cache, launched, askVars, runVars>>

ErrorTaken(r) ==
    /\ pc[r] = "errYield"
    /\ pc' = [pc EXCEPT ![r] = "over"]
    /\ UNCHANGED <<valveVars, clientVars, up, cacheVars, askVars, runVars, endVars>>

\* Mutant: after GeneratorExit the code goes on to the span.end() below.
StreamClosed_FallsThrough(r) ==
    /\ pc[r] \in {"yielded", "lastYield"}
    /\ aborting' = aborting \cup {r}
    /\ outcome' = [outcome EXCEPT ![r] = Append(@, "cancelled")]
    /\ ended' = [ended EXCEPT ![r] = @ + 2]
    /\ pc' = [pc EXCEPT ![r] = "over"]
    /\ UNCHANGED <<valveVars, clientVars, up, cacheVars, askVars, run, agentError>>

\* The generator is closed while it hands out a chunk: GeneratorExit.  In the
\* handler of an error the span has been ended already; a generator that has
\* not started runs none of its code.
StreamClosed(r) ==
    /\ \/ /\ pc[r] \in {"yielded", "lastYield"}
          /\ aborting' = aborting \cup {r}
          /\ Count(r, "cancelled")
          /\ pc' = [pc EXCEPT ![r] = "over"]
       \/ /\ pc[r] = "errYield"
          /\ pc' = [pc EXCEPT ![r] = "over"]
          /\ UNCHANGED <<aborting, endVars>>
       \/ /\ pc[r] = "returned"
          /\ pc' = [pc EXCEPT ![r] = "dropped"]
          /\ UNCHANGED <<aborting, endVars>>
    /\ UNCHANGED <<valveVars, clientVars, up, cacheVars, askVars, run, agentError>>

\* The task is cancelled in an await: no handler catches CancelledError.
Cancelled(r) ==
    /\ pc[r] \in AtAwait
    /\ pc' = [pc EXCEPT ![r] = "dropped"]
    /\ UNCHANGED <<valveVars, clientVars, up, cacheVars, askVars, runVars, endVars>>

\* The abort_agent() task: a no-op unless the client is connected.
AbortRuns(r) ==
    /\ r \in aborting
    /\ aborting' = aborting \ {r}
    /\ run' = [run EXCEPT ![r] = IF using[r] \in up THEN "over" ELSE @]
    /\ UNCHANGED <<valveVars, clientVars, up, cacheVars, pc, askVars, agentError, endVars>>

-----------------------------------------------------------------------------
(* The clients, and Open WebUI's side of the valves *)

Lose(k) ==
    /\ up' = up \ {k}
    /\ run' = [r \in Requests |->
                 IF using[r] = k /\ run[r] = "working" THEN "lost" ELSE run[r]]

LinkLost(k) ==
    /\ k \in up
    /\ Lose(k)
    /\ UNCHANGED <<valveVars, clientVars, cacheVars, pc, askVars,
                   agentError, aborting, endVars>>

\* _drain_and_close(): the two seconds are over, whatever still runs.
DrainEnds(k) ==
    /\ life[k] = "draining"
    /\ life' = [life EXCEPT ![k] = "closed"]
    /\ Lose(k)
    /\ UNCHANGED <<valveVars, client, settingsOf, cacheVars, pc, askVars,
                   agentError, aborting, endVars>>

EditValves ==
    /\ edits < MaxEdits
    /\ edits' = edits + 1
    /\ valves' \in Valves \ {valves}
    /\ UNCHANGED <<clientVars, up, cacheVars, pc, askVars, runVars, endVars>>

-----------------------------------------------------------------------------
Init ==
    /\ valves \in Valves
    /\ edits = 0
    /\ client = 0
    /\ settingsOf = [k \in Clients |-> None]
    /\ life = [k \in Clients |-> "none"]
    /\ up = {}
    /\ cache = IF valves.agents = AutoList THEN None ELSE StaticModels
    /\ status = "unknown"
    /\ launched = FALSE
    /\ pc = [t \in Tasks |-> "idle"]
    /\ using = [t \in Tasks |-> 0]
    /\ asked = [r \in Requests |-> None]
    /\ model = [r \in Requests |-> None]
    /\ streams = {}
    /\ run = [r \in Requests |-> "none"]
    /\ agentError = [r \in Requests |-> FALSE]
    /\ aborting = {}
    /\ outcome = [r \in Requests |-> <<>>]
    /\ ended = [r \in Requests |-> 0]

RequestStep(r) ==
    \/ RefuseIndicator(r) \/ Arrive(r) \/ Announced(r) \/ Iterated(r)
    \/ Accepted(r) \/ Chunk(r) \/ ChunkTaken(r)
    \/ RunEnds(r) \/ RunInterrupted(r) \/ LastChunkTaken(r) \/ Finished(r)
    \/ Fails(r) \/ ErrorTaken(r) \/ StreamClosed(r) \/ Cancelled(r)
    \/ AbortRuns(r)

Next ==
    \/ \E r \in Requests : RequestStep(r)
    \/ \E t \in Tasks : Discovered(t)
    \/ PipesCalled \/ EagerStarts \/ EditValves
    \/ \E k \in Clients : LinkLost(k) \/ DrainEnds(k)

Spec == Init /\ [][Next]_vars

-----------------------------------------------------------------------------
(* Properties *)

\* No request is counted twice or has its span ended twice, nor one without the
\* other; and each that ran to its end (result, agent error, transport error) or
\* was closed at a chunk is counted.  A request whose task is cancelled in an
\* await, or whose generator is closed before it starts, may be counted or not:
\* no handler sees it go, and its span stays open.
OutcomeOnce ==
    \A r \in Requests :
        LET left == pc[r] \in {"over", "errYield"}
        IN  /\ ended[r] <= 1 /\ Len(outcome[r]) = ended[r]
            /\ left => ended[r] = 1
            /\ ended[r] = 1 => left \/ pc[r] = "dropped"

\* _get_client() loses no client: each one ever made is the current one, or
\* its drain-and-close task is pending or done.
ClientsKept ==
    \A k \in Clients :
        CASE k = client -> life[k] = "kept"
          [] k < client -> life[k] \in {"draining", "closed"}
          [] OTHER -> life[k] = "none" /\ k \notin up

\* A request keeps to the Gateway that was configured when it came in, through
\* any edits of the valves and swaps of the client that happen meanwhile.
KeepsItsSettings ==
    \A r \in Requests :
        using[r] # 0 => settingsOf[using[r]] = asked[r].client

\* A static AGENT_LIST is the law for the requests that find it, whatever the
\* cache holds from earlier lists or from a discovery that answers late.
StaticListEnforced ==
    \A r \in Requests :
        pc[r] \in (PC \ {"idle", "refused"}) /\ asked[r].agents # AutoList =>
            model[r] \in OrDefault(asked[r].agents)

\* The selector never goes blank once it has been filled.
SelectorNeverEmpty == cache # None => cache.models # {}

\* A stop in the middle of a stream sends an abort for the run (CHANGELOG).
StopAborts ==
    [][\A r \in streams :
         run[r] = "working" /\ pc[r] \in {"running", "yielded"}
             /\ pc'[r] \in {"over", "dropped"} => r \in aborting']_vars

\* A request in automatic mode runs with agents that a Gateway reported, or
\* has asked for them itself (_eager_discover: a failure is left to pipe()).
LazyDiscovery ==
    [][\A r \in Requests :
         pc[r] = "idle" /\ pc'[r] = "announce" /\ valves.agents = AutoList
             => cache.from = "gateway"]_vars
=============================================================================
