------------------------------ MODULE AgentRun ------------------------------
(***************************************************************************)
(* Agent runs over one connected GatewayClient (gateway_client.py): the    *)
(* agent request and its acknowledgement, the correlation of responses     *)
(* with futures (_pending), the per-run queues (_run_subscribers) that the *)
(* reader fills and agent_stream() drains, and the approval answers sent   *)
(* by background tasks.  How the connection itself comes and goes is the   *)
(* subject of Connection; here it is lost and then restored or given up.   *)
(*                                                                         *)
(* One action is the code between two awaits.  A response sets a future at *)
(* once, but the task that awaits it runs later: in between, the request   *)
(* id is still in _pending and the run has no queue yet.                   *)
(***************************************************************************)
EXTENDS Integers, Sequences, FiniteSets

CONSTANTS
    Runs,           \* calls of agent_stream(), one run id each
    MaxEvents,      \* bound: events the Gateway sends for one run
    MaxWire,        \* bound: frames on their way to the client
    MaxLosses,      \* bound: times the connection is lost
    QueueSize,      \* maxsize of a run's queue (256 in the code)
    Approvals,      \* TRUE if agents ask for approval
    Interactive,    \* TRUE if the approval mode asks the user
    MayTimeout,     \* TRUE if request_timeout may expire
    Retries,        \* TRUE if max_reconnect_attempts > 0
    None            \* no queue registered

ASSUME AgentRunAssumption ==
    /\ {MaxEvents, MaxWire, MaxLosses} \subseteq Nat
    /\ QueueSize \in Nat \ {0}
    /\ {Approvals, Interactive, MayTimeout, Retries} \subseteq BOOLEAN

VARIABLES
    wire,           \* frames sent by the Gateway and not yet read
    link,           \* "up" or "down": the socket
    reader,         \* "up", "lost" (in _handle_disconnect), "gone", "crashed"
    losses,         \* connections lost so far
    overtaken,      \* handlers that will find a caller has reconnected
    orphans,        \* history: runs subscribed when a caller did so
    pending,        \* request ids in self._pending
    future,         \* state of each request's future
    queue,          \* self._run_subscribers
    stream,         \* where each agent_stream() is
    got,            \* numbers of the events each agent_stream() has taken
    outcome,        \* how each agent_stream() ended
    resolver,       \* the background task that answers a run's approval
    gateway,        \* the Gateway's view of each run
    sent,           \* events the Gateway has sent for each run
    toAnswer        \* runs whose approval answer the Gateway has received

readerVars == <<wire, link, reader, losses, overtaken, orphans>>
requestVars == <<pending, future>>
streamVars == <<stream, got, outcome>>
gatewayVars == <<gateway, sent, toAnswer>>
vars == <<readerVars, requestVars, queue, streamVars, resolver, gatewayVars>>

Requests == {"agent", "resolve"} \X Runs
AgentReq(r) == <<"agent", r>>
ResolveReq(r) == <<"resolve", r>>

Frame(type, r, n) == [type |-> type, run |-> r, n |-> n]
\* A run's events are numbered as they are sent; only the first may be an
\* approval request.
Numbered(types) == {f \in [type : types, run : Runs, n : 0..MaxEvents] :
                       f.type = "approval" => f.n = 1}
Frames == Numbered({"accepted", "refused", "final", "resolved", "delta", "approval"})
Entries == Numbered({"delta", "approval", "final", "local"})

ASSUME NoneAssumption == None \notin Seq(Entries)

TypeOK ==
    /\ wire \in Seq(Frames) /\ Len(wire) <= MaxWire
    /\ link \in {"up", "down"}
    /\ reader \in {"up", "lost", "gone", "crashed"}
    /\ losses \in 0..MaxLosses
    /\ overtaken \in 0..MaxLosses
    /\ orphans \subseteq Runs
    /\ pending \subseteq Requests
    /\ future \in [Requests -> {"none", "waiting", "result", "error", "cancelled"}]
    /\ queue \in [Runs -> Seq(Entries) \cup {None}]
    /\ \A r \in Runs : queue[r] # None => Len(queue[r]) <= QueueSize
    /\ stream \in [Runs -> {"idle", "ack", "queue", "dialog", "left", "over"}]
    /\ got \in [Runs -> Seq(1..MaxEvents)]
    /\ outcome \in [Runs -> {"none", "final", "lost", "error", "timeout", "stopped"}]
    /\ resolver \in [Runs -> {"none", "task", "wait", "done"}]
    /\ gateway \in [Runs -> {"none", "asked", "running", "done", "cut"}]
    /\ sent \in [Runs -> 0..MaxEvents]
    /\ toAnswer \subseteq Runs

-----------------------------------------------------------------------------
(* The request and its acknowledgement: request(), start of agent_stream() *)

End(r, how) ==
    /\ stream' = [stream EXCEPT ![r] = "over"]
    /\ outcome' = [outcome EXCEPT ![r] = how]

\* Register the future and send the request.
SendRequest(r) ==
    /\ pending' = pending \cup {AgentReq(r)}
    /\ future' = [future EXCEPT ![AgentReq(r)] = "waiting"]
    /\ stream' = [stream EXCEPT ![r] = "ack"]
    /\ gateway' = [gateway EXCEPT ![r] = "asked"]
    /\ UNCHANGED outcome

\* connect() finds the client connected; a socket that is dead fails the send.
Ask(r) ==
    /\ stream[r] = "idle"
    /\ reader \in {"up", "crashed"}
    /\ \/ /\ link = "up"
          /\ SendRequest(r)
       \/ /\ link = "down"
          /\ End(r, "error")
          /\ UNCHANGED <<requestVars, gateway>>
    /\ UNCHANGED <<readerVars, queue, got, resolver, sent, toAnswer>>

\* A reconnect attempt sleeps and opens a socket: tasks whose future was
\* done by then have run.
ReadyTasksRan ==
    \A r \in Runs : stream[r] = "ack" => future[AgentReq(r)] = "waiting"

\* connect() finds it disconnected and opens a socket of its own.  A handler
\* that waits to reconnect is overtaken: it will find the client connected,
\* and no run of the lost connection is told.  Or the attempt fails or is
\* stopped.
AskConnects(r) ==
    /\ stream[r] = "idle"
    /\ reader \in {"lost", "gone"}
    /\ ReadyTasksRan
    /\ \/ /\ reader' = "up"
          /\ link' = "up"
          /\ overtaken' = IF reader = "lost" THEN overtaken + 1 ELSE overtaken
          /\ orphans' = IF reader = "lost"
                        THEN orphans \cup {s \in Runs : queue[s] # None} ELSE orphans
          /\ SendRequest(r)
          /\ UNCHANGED <<wire, losses>>
       \/ /\ \E how \in {"error", "stopped"} : End(r, how)
          /\ UNCHANGED <<readerVars, requestVars, gateway>>
    /\ UNCHANGED <<queue, got, resolver, sent, toAnswer>>

\* The task awaiting the acknowledgement runs: drop the request id and, in
\* the same step, register the run's queue.
AckResumes(r) ==
    /\ stream[r] = "ack"
    /\ future[AgentReq(r)] = "result"
    /\ pending' = pending \ {AgentReq(r)}
    /\ queue' = [queue EXCEPT ![r] = <<>>]
    /\ stream' = [stream EXCEPT ![r] = "queue"]
    /\ UNCHANGED <<readerVars, future, got, outcome, resolver, gatewayVars>>

\* It runs and finds a refusal, a lost connection, its timeout or a stop.
AckFails(r) ==
    /\ stream[r] = "ack"
    /\ future[AgentReq(r)] \in {"error", "cancelled"}
    /\ pending' = pending \ {AgentReq(r)}
    /\ End(r, IF future[AgentReq(r)] = "error" THEN "error" ELSE "stopped")
    /\ UNCHANGED <<readerVars, future, queue, got, resolver, gatewayVars>>

\* The timer of wait_for or the user's stop cancels the awaited future now;
\* the task removes the request id only when it runs.
CancelWait(q) ==
    /\ q \in pending
    /\ future[q] = "waiting"
    /\ \/ MayTimeout
       \/ q[1] = "agent"
    /\ future' = [future EXCEPT ![q] = "cancelled"]
    /\ UNCHANGED <<readerVars, pending, queue, streamVars, resolver, gatewayVars>>

-----------------------------------------------------------------------------
(* The consumer: the loop of agent_stream() and _handle_approval() *)

Unsubscribe(r) == queue' = [queue EXCEPT ![r] = None]

\* Take one entry: a delta is yielded, an approval request is answered by a
\* background task (or put to the user first), a final one is the last that
\* anybody asks the stream for.
Consume(r) ==
    /\ stream[r] = "queue"
    /\ queue[r] # <<>>
    /\ LET e == Head(queue[r]) IN
        \/ /\ e.type \in {"delta", "approval"}
           /\ queue' = [queue EXCEPT ![r] = Tail(@)]
           /\ got' = [got EXCEPT ![r] = Append(@, e.n)]
           /\ stream' = [stream EXCEPT ![r] =
                            IF e.type = "approval" /\ Interactive THEN "dialog" ELSE @]
           /\ resolver' = [resolver EXCEPT ![r] =
                            IF e.type = "approval" /\ ~Interactive THEN "task" ELSE @]
           /\ UNCHANGED outcome
        \/ /\ e.type \in {"final", "local"}
           /\ queue' = [queue EXCEPT ![r] = Tail(@)]
           /\ stream' = [stream EXCEPT ![r] = "left"]
           /\ outcome' = [outcome EXCEPT ![r] = IF e.type = "final" THEN "final" ELSE "lost"]
           /\ UNCHANGED <<got, resolver>>
    /\ UNCHANGED <<readerVars, requestVars, gatewayVars>>

\* The user answers the dialog, or the dialog fails and counts as a denial.
DialogEnds(r) ==
    /\ stream[r] = "dialog"
    /\ stream' = [stream EXCEPT ![r] = "queue"]
    /\ resolver' = [resolver EXCEPT ![r] = "task"]
    /\ UNCHANGED <<readerVars, requestVars, queue, got, outcome, gatewayVars>>

\* No entry within request_timeout.
QueueTimeout(r) ==
    /\ MayTimeout
    /\ stream[r] = "queue"
    /\ queue[r] = <<>>
    /\ Unsubscribe(r)
    /\ End(r, "timeout")
    /\ UNCHANGED <<readerVars, requestVars, got, resolver, gatewayVars>>

\* Mutant: a stop leaves the queue registered.
StopStream_KeepsQueue(r) ==
    /\ \/ stream[r] \in {"queue", "dialog"}
       \/ stream[r] = "ack" /\ future[AgentReq(r)] = "result"
    /\ pending' = pending \ {AgentReq(r)}
    /\ End(r, "stopped")
    /\ UNCHANGED <<readerVars, future, queue, got, resolver, gatewayVars>>

\* The user stops the chat; finally clauses drop the queue, or the request id
\* of a task that had its acknowledgement and had not run yet.
StopStream(r) ==
    /\ \/ stream[r] \in {"queue", "dialog"}
       \/ stream[r] = "ack" /\ future[AgentReq(r)] = "result"
    /\ pending' = pending \ {AgentReq(r)}
    /\ Unsubscribe(r)
    /\ End(r, "stopped")
    /\ UNCHANGED <<readerVars, future, got, resolver, gatewayVars>>

\* The mapper returns without asking again, and the event loop finalises the
\* generator at its last yield; up to then its queue is filled.
CloseLeft(r) ==
    /\ stream[r] = "left"
    /\ stream' = [stream EXCEPT ![r] = "over"]
    /\ Unsubscribe(r)
    /\ UNCHANGED <<readerVars, requestVars, got, outcome, resolver, gatewayVars>>

\* The background task starts: resolve_approval() is a no-op when the client
\* is not connected, its errors are swallowed.
ResolveStarts(r) ==
    /\ resolver[r] = "task"
    /\ \/ /\ reader \in {"up", "crashed"} /\ link = "up"
          /\ pending' = pending \cup {ResolveReq(r)}
          /\ future' = [future EXCEPT ![ResolveReq(r)] = "waiting"]
          /\ toAnswer' = toAnswer \cup {r}
          /\ resolver' = [resolver EXCEPT ![r] = "wait"]
       \/ /\ ~(reader \in {"up", "crashed"} /\ link = "up")
          /\ resolver' = [resolver EXCEPT ![r] = "done"]
          /\ UNCHANGED <<requestVars, toAnswer>>
    /\ UNCHANGED <<readerVars, queue, streamVars, gateway, sent>>

ResolveEnds(r) ==
    /\ resolver[r] = "wait"
    /\ future[ResolveReq(r)] # "waiting"
    /\ pending' = pending \ {ResolveReq(r)}
    /\ resolver' = [resolver EXCEPT ![r] = "done"]
    /\ UNCHANGED <<readerVars, future, queue, streamVars, gatewayVars>>

-----------------------------------------------------------------------------
(* The reader: _reader_loop(), _route_response(), _route_event() *)

\* Mutants: a queue without a limit; the newest entry first.
Put_Unbounded(s, e) == IF s = None THEN None ELSE Append(s, e)
Put_Front(s, e) == IF s = None THEN None
                   ELSE IF Len(s) < QueueSize THEN <<e>> \o s ELSE s

\* put_nowait: a full queue loses the entry, terminal ones included.
Put(s, e) == IF s = None THEN None
             ELSE IF Len(s) < QueueSize THEN Append(s, e) ELSE s

ReadFrame ==
    /\ reader = "up"
    /\ wire # <<>>
    /\ wire' = Tail(wire)
    /\ UNCHANGED <<link, losses, overtaken, orphans, streamVars, resolver, gatewayVars>>

\* The id a response answers, and whether its payload names a run: an error
\* reply to the agent request has none.
RequestOf(f) == IF f.type = "resolved" THEN ResolveReq(f.run) ELSE AgentReq(f.run)
NamesRun(f) == f.type # "refused"

\* Mutant: any response that names a subscribed run is its final result.
IsFinal_AnyResponse(f) ==
    /\ NamesRun(f)
    /\ queue[f.run] # None

\* A response that names a subscribed run and that nobody awaits by id is
\* taken for the run's final result.
IsFinal(f) ==
    /\ NamesRun(f)
    /\ queue[f.run] # None
    /\ RequestOf(f) \notin pending

RouteResponse ==
    /\ ReadFrame
    /\ LET f == Head(wire)
           q == RequestOf(f) IN
        /\ f.type \in {"accepted", "refused", "final", "resolved"}
        /\ \/ /\ IsFinal(f)
              /\ queue' = [queue EXCEPT ![f.run] = Put(@, Frame("final", f.run, 0))]
              /\ UNCHANGED <<reader, requestVars>>
           \/ /\ ~IsFinal(f)
              /\ q \notin pending
              /\ UNCHANGED <<reader, requestVars, queue>>
           \/ /\ ~IsFinal(f)
              /\ q \in pending
              /\ future[q] = "waiting"
              /\ future' = [future EXCEPT ![q] =
                               IF f.type = "refused" THEN "error" ELSE "result"]
              /\ UNCHANGED <<reader, pending, queue>>
           \/ \* set_result on a future that is done: InvalidStateError ends
              \* the reader task and nobody notices
              /\ ~IsFinal(f)
              /\ q \in pending
              /\ future[q] # "waiting"
              /\ reader' = "crashed"
              /\ UNCHANGED <<requestVars, queue>>

\* Mutants: events fanned out to every run; events that arrive during a dialog
\* dropped.
RouteEvent_Fanout ==
    /\ ReadFrame
    /\ LET f == Head(wire) IN
        /\ f.type \in {"delta", "approval"}
        /\ queue' = [r \in Runs |-> Put(queue[r], f)]
    /\ UNCHANGED <<reader, requestVars>>

RouteEvent_NotInDialog ==
    /\ ReadFrame
    /\ LET f == Head(wire) IN
        /\ f.type \in {"delta", "approval"}
        /\ queue' = IF stream[f.run] = "dialog" THEN queue
                    ELSE [queue EXCEPT ![f.run] = Put(@, f)]
    /\ UNCHANGED <<reader, requestVars>>

RouteEvent ==
    /\ ReadFrame
    /\ LET f == Head(wire) IN
        /\ f.type \in {"delta", "approval"}
        /\ queue' = [queue EXCEPT ![f.run] = Put(@, f)]
    /\ UNCHANGED <<reader, requestVars>>

\* Every run's queue gets a synthetic terminal entry ...
FailRuns == queue' = [r \in Runs |-> Put(queue[r], Frame("local", r, 0))]

\* ... and every future that waits an exception.
FailPending ==
    /\ future' = [q \in Requests |->
                    IF q \in pending /\ future[q] = "waiting" THEN "error" ELSE future[q]]
    /\ pending' = {}

\* recv() hands out what was received, then reports the lost connection.  With
\* no reconnect attempt allowed, the handler gives up in the same step.
ReaderLoses ==
    /\ reader = "up"
    /\ link = "down"
    /\ wire = <<>>
    /\ IF Retries
       THEN reader' = "lost" /\ UNCHANGED <<requestVars, queue>>
       ELSE reader' = "gone" /\ FailRuns /\ FailPending
    /\ UNCHANGED <<wire, link, losses, overtaken, orphans, streamVars, resolver, gatewayVars>>

\* Mutant: the runs are not told.
Reconnect_Silent ==
    /\ reader = "lost"
    /\ ReadyTasksRan
    /\ reader' = "up"
    /\ link' = "up"
    /\ UNCHANGED <<wire, losses, overtaken, orphans, requestVars, queue, streamVars, resolver,
                   gatewayVars>>

\* _handle_disconnect() reconnects: runs are told, pending requests are not.
Reconnect ==
    /\ reader = "lost"
    /\ ReadyTasksRan
    /\ reader' = "up"
    /\ link' = "up"
    /\ FailRuns
    /\ UNCHANGED <<wire, losses, overtaken, orphans, requestVars, streamVars, resolver, gatewayVars>>

\* An overtaken handler wakes, finds the client connected and returns.
OvertakenExits ==
    /\ overtaken > 0
    /\ reader \in {"up", "crashed"}
    /\ overtaken' = overtaken - 1
    /\ UNCHANGED <<wire, link, reader, losses, orphans, requestVars, queue, streamVars, resolver,
                   gatewayVars>>

\* Where a handler that gives up leaves the connection: gone, unless the
\* connection was lost again before an overtaken one woke.
LeaveGone ==
    /\ reader = "lost"
    /\ ReadyTasksRan
    /\ \/ overtaken = 0 /\ reader' = "gone" /\ UNCHANGED overtaken
       \/ overtaken > 0 /\ overtaken' = overtaken - 1 /\ UNCHANGED reader
    /\ UNCHANGED <<wire, link, losses, orphans>>

\* Mutant: giving up forgets who waits for a response.
GiveUp_NoPending ==
    /\ LeaveGone
    /\ FailRuns
    /\ UNCHANGED <<requestVars, streamVars, resolver, gatewayVars>>

\* ... or a handler exhausts its attempts: everything that waits is failed.
GiveUp ==
    /\ LeaveGone
    /\ FailRuns
    /\ FailPending
    /\ UNCHANGED <<streamVars, resolver, gatewayVars>>

-----------------------------------------------------------------------------
(* The Gateway and the network *)

SendFrame(f) ==
    /\ link = "up"
    /\ Len(wire) < MaxWire
    /\ wire' = Append(wire, f)
    /\ UNCHANGED <<link, reader, losses, overtaken, orphans, requestVars, queue, streamVars, resolver>>

Accept(r) ==
    /\ gateway[r] = "asked"
    /\ SendFrame(Frame("accepted", r, 0))
    /\ gateway' = [gateway EXCEPT ![r] = "running"]
    /\ UNCHANGED <<sent, toAnswer>>

Refuse(r) ==
    /\ gateway[r] = "asked"
    /\ SendFrame(Frame("refused", r, 0))
    /\ gateway' = [gateway EXCEPT ![r] = "done"]
    /\ UNCHANGED <<sent, toAnswer>>

\* One event of a run; only the first may be an approval request.
SendEvent(r) ==
    /\ gateway[r] = "running"
    /\ sent[r] < MaxEvents
    /\ \/ SendFrame(Frame("delta", r, sent[r] + 1))
       \/ /\ Approvals /\ sent[r] = 0
          /\ SendFrame(Frame("approval", r, 1))
    /\ sent' = [sent EXCEPT ![r] = @ + 1]
    /\ UNCHANGED <<gateway, toAnswer>>

\* The final result of a run: a second response to the agent request.
Finish(r) ==
    /\ gateway[r] = "running"
    /\ SendFrame(Frame("final", r, 0))
    /\ gateway' = [gateway EXCEPT ![r] = "done"]
    /\ UNCHANGED <<sent, toAnswer>>

AnswerResolve(r) ==
    /\ r \in toAnswer
    /\ SendFrame(Frame("resolved", r, 0))
    /\ toAnswer' = toAnswer \ {r}
    /\ UNCHANGED <<gateway, sent>>

\* The connection is lost with the frames not yet received; what the Gateway
\* still had to say on it is never said.
LinkLost ==
    /\ link = "up"
    /\ reader \in {"up", "crashed"}
    /\ losses < MaxLosses
    /\ losses' = losses + 1
    /\ link' = "down"
    /\ \E k \in 0..Len(wire) : wire' = SubSeq(wire, 1, k)
    /\ gateway' = [r \in Runs |->
                     IF gateway[r] \in {"asked", "running", "done"} THEN "cut"
                     ELSE gateway[r]]
    /\ toAnswer' = {}
    /\ UNCHANGED <<reader, overtaken, orphans, requestVars, queue, streamVars, resolver, sent>>

-----------------------------------------------------------------------------
Init ==
    /\ wire = <<>>
    /\ link = "up"
    /\ reader = "up"
    /\ losses = 0
    /\ overtaken = 0
    /\ orphans = {}
    /\ pending = {}
    /\ future = [q \in Requests |-> "none"]
    /\ queue = [r \in Runs |-> None]
    /\ stream = [r \in Runs |-> "idle"]
    /\ got = [r \in Runs |-> <<>>]
    /\ outcome = [r \in Runs |-> "none"]
    /\ resolver = [r \in Runs |-> "none"]
    /\ gateway = [r \in Runs |-> "none"]
    /\ sent = [r \in Runs |-> 0]
    /\ toAnswer = {}

StreamStep(r) ==
    \/ Ask(r) \/ AskConnects(r) \/ AckResumes(r) \/ AckFails(r)
    \/ Consume(r) \/ DialogEnds(r) \/ QueueTimeout(r)
    \/ StopStream(r) \/ CloseLeft(r)
    \/ ResolveStarts(r) \/ ResolveEnds(r)

ReaderStep ==
    \/ RouteResponse \/ RouteEvent
    \/ ReaderLoses \/ Reconnect \/ OvertakenExits \/ GiveUp

GatewayStep(r) ==
    Accept(r) \/ Refuse(r) \/ SendEvent(r) \/ Finish(r) \/ AnswerResolve(r)

Next ==
    \/ \E r \in Runs : StreamStep(r) \/ GatewayStep(r)
    \/ \E q \in Requests : CancelWait(q)
    \/ ReaderStep
    \/ LinkLost

Spec == Init /\ [][Next]_vars

\* A task that can run does, and a reconnect loop ends one way or the other.
\* Nothing is assumed of users, of timeouts or of the Gateway.
Fairness ==
    /\ WF_vars(ReaderStep)
    /\ \A r \in Runs : WF_vars(AckResumes(r) \/ AckFails(r) \/ Consume(r) \/ CloseLeft(r))
    /\ \A r \in Runs : WF_vars(ResolveEnds(r))

FairSpec == Spec /\ Fairness

-----------------------------------------------------------------------------
(* Properties *)

\* The numbers of a run's events among some entries or frames, and that they
\* rise.
IsEvent(f, r) == f.type \in {"delta", "approval"} /\ f.run = r
Numbers(s, r) == {s[i].n : i \in {j \in 1..Len(s) : IsEvent(s[j], r)}}
Rises(s, r) ==
    \A i, j \in 1..Len(s) : i < j /\ IsEvent(s[i], r) /\ IsEvent(s[j], r) => s[i].n < s[j].n

\* The events of a run on their way: taken, queued, and on the wire.
Taken(r) == {got[r][i] : i \in 1..Len(got[r])}
Queued(r) == IF queue[r] = None THEN <<>> ELSE queue[r]
OnTheWay(r) == Taken(r) \cup Numbers(Queued(r), r) \cup Numbers(wire, r)

\* Concurrent runs never receive each other's events, and each gets its own
\* in the order the Gateway sent them (_route_event, agent_stream).
Ordered(r) ==
    /\ \A i \in 1..Len(Queued(r)) : Queued(r)[i].run = r
    /\ \A i, j \in 1..Len(got[r]) : i < j => got[r][i] < got[r][j]
    /\ Rises(Queued(r), r) /\ Rises(wire, r)
    /\ \A m \in Taken(r), n \in Numbers(Queued(r), r) : m < n
    /\ \A m \in Taken(r) \cup Numbers(Queued(r), r), n \in Numbers(wire, r) : m < n

InOrder == \A r \in Runs : Ordered(r)

\* From the subscription to the run's terminal entry no event is lost between
\* the Gateway and the consumer, across dialogs and other runs, if the queue
\* can hold a run's events: with one event, all that were sent after it are on
\* their way or have come.
Terminated(r) == \E i \in 1..Len(Queued(r)) : Queued(r)[i].type \in {"final", "local"}
NothingLostMidRun ==
    \A r \in Runs :
        stream[r] \in {"queue", "dialog"} /\ gateway[r] # "cut" /\ ~Terminated(r)
        /\ QueueSize >= MaxEvents
            => \A m \in OnTheWay(r) : m..sent[r] \subseteq OnTheWay(r)

\* However a run ends, its queue and its request ids are gone: a late frame
\* finds nobody, and nothing leaks (the finally clauses).
NoLeftovers ==
    \A r \in Runs :
        /\ stream[r] \in {"idle", "over"} => queue[r] = None /\ AgentReq(r) \notin pending
        /\ resolver[r] \notin {"wait"} => ResolveReq(r) \notin pending

\* A run ends with a final result only if the Gateway finished it: the reply
\* to an approval answer, which names the run too, is not taken for its end.
\* Unless the answer timed out: its late reply is (_route_response).
FinalFromGateway ==
    \A r \in Runs :
        outcome[r] = "final"
            => gateway[r] \in {"done", "cut"} \/ future[ResolveReq(r)] = "cancelled"

\* The reader resolves the matching future for each response and goes on.
ReaderSurvives == reader # "crashed"

\* A run that the Gateway finished, or whose connection was lost, ends without
\* waiting for the request timeout (unless the user is asked, the reader has
\* crashed, or another call reconnected before the handler: of those runs
\* nobody is told, see InterruptedRunsEnd in Connection).
FinishedRunsEnd ==
    \A r \in Runs :
        stream[r] = "queue" /\ gateway[r] \in {"done", "cut"}
            ~> stream[r] \in {"dialog", "over"} \/ reader = "crashed" \/ r \in orphans

\* After the last reconnect attempt, and unless another call connects again,
\* nobody waits for what cannot come: neither runs nor their approval answers,
\* acknowledged or not (_handle_disconnect).
GivenUpEnds ==
    reader = "gone"
        ~> reader # "gone" \/ \A r \in Runs : stream[r] \notin {"ack", "queue"} /\ resolver[r] # "wait"

\* What agent_stream() promises whatever happens inside the client.
Promise == INSTANCE AgentStream WITH over <- {r \in Runs : stream[r] = "over"}
KeepsPromise == Promise!Spec
=============================================================================
