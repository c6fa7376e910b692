-------------------------------- MODULE Chat --------------------------------
(***************************************************************************)
(* One chat request end to end: the Gateway's run (external), the run's    *)
(* bounded queue, the loop of agent_stream() with its timeout, the answers *)
(* to approval requests (Approval) and the mapper (EventMapper), down to   *)
(* the chunks Open WebUI reads.  Time is a clock of abstract ticks that    *)
(* does not pass while something is due.  What the reader task does with   *)
(* frames and futures is the subject of AgentRun; here an event is in the  *)
(* queue as soon as it is sent.                                            *)
(***************************************************************************)
EXTENDS EventMapper, Approval

CONSTANTS
    MaxEvents,          \* bound: events of the run before its end
    QueueSize           \* maxsize of the run's queue (256 in the code)

ASSUME ChatAssumption ==
    /\ MaxEvents \in Nat
    /\ QueueSize \in Nat \ {0}

VARIABLES
    run,            \* the Gateway's run: "running", "ok", "failed", "cut"
    said,           \* the text of the assistant so far
    deltas,         \* TRUE if some text was sent as a delta
    replaced,       \* TRUE if the text was ever replaced
    items,          \* what was sent of the run's tool item: was it over, each time
    count,          \* events sent
    link,           \* "up", "lost" (reconnecting), "restored", "gone"
    queue,          \* self._run_subscribers[run_id]
    dropped,        \* TRUE if an entry was refused by the full queue
    stream,         \* what agent_stream() and the mapper wait for
    current,        \* the request whose dialog or card the stream is at
    idle,           \* ticks spent in the present queue.get()
    ended           \* how the stream ended

runVars == <<run, said, deltas, replaced, items, count>>
queueVars == <<queue, dropped>>
streamVars == <<stream, current, idle, ended>>
vars == <<mapperVars, approvalVars, runVars, link, queueVars, streamVars>>

Text(delta, text) == [type |-> "text", delta |-> delta, text |-> text]
Item(source, phase, status) ==
    [type |-> "item", source |-> source, phase |-> phase, status |-> status]
Aside(kind) == [type |-> "aside", kind |-> kind]
Request(a) == [type |-> "approval", id |-> a]
Final(status) == [type |-> "final", status |-> status]

Words == 1..MaxEvents

Entries ==
    [type : {"text"}, delta : Seq(Words), text : Seq(Words)]
    \cup [type : {"item"}, source : {"item", "output"}, phase : {"start", "update", "end"},
          status : {"running", "blocked", "completed"}]
    \cup [type : {"aside"}, kind : AsideKinds]
    \cup [type : {"approval"}, id : Requests]
    \cup [type : {"final"}, status : {"ok", "failed"}]

MapperTypeOK ==
    /\ snapshot \in Seq(Words) /\ shown \in Seq(Words)
    /\ cards \in Seq(BOOLEAN)
    /\ finish \in {"none", "stop", "error"}

RunTypeOK ==
    /\ run \in {"running", "ok", "failed", "cut"}
    /\ said \in Seq(Words)
    /\ deltas \in BOOLEAN /\ replaced \in BOOLEAN
    /\ items \in Seq(BOOLEAN)
    /\ count \in 0..MaxEvents
    /\ link \in {"up", "lost", "restored", "gone"}

StreamTypeOK ==
    /\ queue \in Seq(Entries) /\ Len(queue) <= QueueSize
    /\ dropped \in BOOLEAN
    /\ stream \in {"queue", "chunk", "emitter", "dialog", "last", "over"}
    /\ current \in Requests \cup {NoRequest}
    /\ idle \in 0..RequestTimeout
    /\ ended \in {"none", "final", "timeout", "stopped"}

TypeOK == ApprovalTypeOK /\ MapperTypeOK /\ RunTypeOK /\ StreamTypeOK

-----------------------------------------------------------------------------
(* The Gateway's run, and _route_event() and _route_response() *)

Connected == link \in {"up", "restored"}

\* Mutant: a queue without a limit.
Put_Unbounded(e) == queue' = Append(queue, e) /\ UNCHANGED dropped

\* put_nowait on the run's queue, final entries included.
Put(e) ==
    IF Len(queue) < QueueSize
    THEN queue' = Append(queue, e) /\ UNCHANGED dropped
    ELSE dropped' = TRUE /\ UNCHANGED queue

\* One event of the run; an unsubscribed run's events go nowhere.
Send(e) ==
    /\ run = "running" /\ link = "up"
    /\ count < MaxEvents
    /\ count' = count + 1
    /\ IF stream = "over" THEN UNCHANGED queueVars ELSE Put(e)
    /\ UNCHANGED <<mapperVars, run, link, streamVars>>

\* A word more, as the whole text, as a delta, or as both.
Say ==
    LET word == <<count + 1>> IN
    /\ \/ Send(Text(<<>>, said \o word)) /\ UNCHANGED deltas
       \/ Send(Text(word, <<>>)) /\ deltas' = TRUE
       \/ Send(Text(word, said \o word)) /\ deltas' = TRUE
    /\ said' = said \o word
    /\ UNCHANGED <<approvalVars, replaced, items>>

\* A text that replaces what was said ("replaceable").
Replace ==
    /\ said # <<>>
    /\ Send(Text(<<>>, <<count + 1>>))
    /\ said' = <<count + 1>>
    /\ replaced' = TRUE
    /\ UNCHANGED <<approvalVars, deltas, items>>

\* The tool item starts, or ends by phase or by status alone.
Work ==
    /\ \/ items = <<>> /\ Send(Item("item", "start", "running")) /\ items' = Append(items, FALSE)
       \/ /\ items = <<FALSE>>
          /\ \/ Send(Item("item", "update", "blocked"))
             \/ Send(Item("output", "end", "completed"))
          /\ items' = Append(items, TRUE)
    /\ UNCHANGED <<approvalVars, said, deltas, replaced>>

\* Anything else that is sent beside the text.
Mention ==
    /\ \E k \in AsideKinds : Send(Aside(k))
    /\ UNCHANGED <<approvalVars, said, deltas, replaced, items>>

\* An approval request: the tool waits for a verdict.
Ask(a) ==
    /\ verdict[a] = "unasked"
    /\ Send(Request(a))
    /\ verdict' = [verdict EXCEPT ![a] = "pending"]
    /\ UNCHANGED <<mode, canAsk, consent, card, task, decision, timer,
                   said, deltas, replaced, items>>

\* The run ends; its final result carries how.
Finish ==
    /\ run = "running" /\ link = "up"
    /\ \A a \in Requests : verdict[a] # "pending"
    /\ \E status \in {"ok", "failed"} :
        /\ run' = status
        /\ IF stream = "over" THEN UNCHANGED queueVars ELSE Put(Final(status))
    /\ UNCHANGED <<mapperVars, approvalVars, said, deltas, replaced, items, count, link, streamVars>>

\* The Gateway takes an answer that was sent and replies.  No request waits for
\* a late reply any more; one that names the run goes into the run's queue, where
\* it reads as a final result, by default a good one (_route_response).
TakeAnswer(a) ==
    /\ Connected
    /\ \/ Decide(a, FALSE) /\ UNCHANGED queueVars
       \/ /\ task[a] = "late" /\ stream # "over"
          /\ Decide(a, TRUE) /\ Put(Final("ok"))
    /\ UNCHANGED <<mapperVars, runVars, link, streamVars>>

\* A late reply went into the run's queue.
StrayReply == \E a \in Requests : task[a] = "stray"

-----------------------------------------------------------------------------
(* The connection: what its loss means for the run *)

LinkLost ==
    /\ link = "up"
    /\ link' = "lost"
    /\ run' = IF run = "running" THEN "cut" ELSE run
    /\ AnswersLost
    /\ UNCHANGED <<mapperVars, said, deltas, replaced, items, count, queueVars, streamVars>>

\* Mutant: the local final entry leaves the status to its default.
LinkSettled_Ok ==
    /\ link = "lost"
    /\ link' \in {"restored", "gone"}
    /\ IF stream = "over" THEN UNCHANGED queueVars ELSE Put(Final("ok"))
    /\ UNCHANGED <<mapperVars, approvalVars, runVars, streamVars>>

\* The client reconnects or gives up: either way it ends the run locally.
LinkSettled ==
    /\ link = "lost"
    /\ link' \in {"restored", "gone"}
    /\ IF stream = "over" THEN UNCHANGED queueVars ELSE Put(Final("failed"))
    /\ UNCHANGED <<mapperVars, approvalVars, runVars, streamVars>>

\* Another chat's request reconnects during the backoff: nobody ends the run.
LinkOvertaken ==
    /\ link = "lost"
    /\ link' = "restored"
    /\ UNCHANGED <<mapperVars, approvalVars, runVars, queueVars, streamVars>>

-----------------------------------------------------------------------------
(* agent_stream(), the mapper and their reader *)

\* Mutant: one timeout for the whole run.
WaitFor_SameTimer(what, a) ==
    /\ stream' = what
    /\ current' = a
    /\ UNCHANGED <<idle, ended>>

\* The stream is at another await or yield; queue.get() gets a new timeout.
WaitFor(what, a) ==
    /\ stream' = what
    /\ current' = a
    /\ idle' = 0
    /\ UNCHANGED ended

Take(type) ==
    /\ stream = "queue"
    /\ queue # <<>> /\ Head(queue).type = type
    /\ queue' = Tail(queue)
    /\ UNCHANGED <<runVars, link, dropped>>

\* Assistant text: a chunk if there is something new.
TakeText ==
    /\ Take("text")
    /\ ShowText(Head(queue))
    /\ WaitFor(IF Emitted(Head(queue)) # <<>> THEN "chunk" ELSE "queue", NoRequest)
    /\ UNCHANGED approvalVars

TakeItem ==
    /\ Take("item")
    /\ ShowItem(Head(queue))
    /\ WaitFor("chunk", NoRequest)
    /\ UNCHANGED approvalVars

TakeAside ==
    /\ Take("aside")
    /\ LET kind == Head(queue).kind IN
        WaitFor(IF kind = "chunk" THEN "chunk"
                ELSE IF kind = "status" THEN "emitter" ELSE "queue", NoRequest)
    /\ UNCHANGED <<mapperVars, approvalVars>>

TakeRequest ==
    /\ Take("approval")
    /\ LET a == Head(queue).id IN
        \/ AutoApprove(a) /\ WaitFor("queue", NoRequest)
        \/ AutoDeny(a) /\ WaitFor("chunk", NoRequest)
        \/ OpenDialog(a) /\ WaitFor("dialog", a)
        \/ Render(a) /\ WaitFor("chunk", a)
    /\ UNCHANGED mapperVars

TakeFinal ==
    /\ Take("final")
    /\ MapFinal(Head(queue).status)
    /\ stream' = "last"
    /\ idle' = 0
    /\ ended' = "final"
    /\ UNCHANGED <<current, approvalVars>>

DialogEnds ==
    /\ stream = "dialog"
    /\ CloseDialog(current)
    /\ WaitFor(IF Response(current) = "deny" THEN "chunk" ELSE "queue", NoRequest)
    /\ UNCHANGED <<mapperVars, runVars, link, queueVars>>

\* The chunk was read and the next one is asked for, or the emitter returned.
Resume ==
    /\ stream \in {"chunk", "emitter"}
    /\ IF current # NoRequest THEN StartTimer(current) ELSE UNCHANGED approvalVars
    /\ WaitFor("queue", NoRequest)
    /\ UNCHANGED <<mapperVars, runVars, link, queueVars>>

Over(how) ==
    /\ stream' = "over"
    /\ queue' = <<>>
    /\ current' = NoRequest
    /\ idle' = 0
    /\ ended' = how
    /\ UNCHANGED <<mapperVars, approvalVars, runVars, link, dropped>>

\* The final chunk was read: the mapper returns and the stream is closed.
Close == stream = "last" /\ Over("final")

\* No entry within the timeout of one queue.get().
StreamTimeout ==
    /\ stream = "queue" /\ queue = <<>>
    /\ idle = RequestTimeout
    /\ Over("timeout")

\* The user stops the chat, at whatever await or yield the stream is.
Stop == stream \notin {"last", "over"} /\ Over("stopped")

-----------------------------------------------------------------------------
(* Background tasks and the clock *)

Ring(a) ==
    /\ TimerRings(a)
    /\ UNCHANGED <<mapperVars, runVars, link, queueVars, streamVars>>

Resolve(a) ==
    /\ Answer(a, Connected)
    /\ UNCHANGED <<mapperVars, runVars, link, queueVars, streamVars>>

Forget(a) ==
    /\ AnswerTimesOut(a)
    /\ UNCHANGED <<mapperVars, runVars, link, queueVars, streamVars>>

\* Time passes while somebody counts it and nothing is due: a timer, a timeout,
\* an entry to take or a task to run.
Counting == stream = "queue" \/ \E a \in Requests : Timed(a)
SomethingDue ==
    \/ stream = "queue" /\ (queue # <<>> \/ idle = RequestTimeout)
    \/ \E a \in Requests : TimerDue(a) \/ task[a] = "ready"

Tick ==
    /\ Counting /\ ~SomethingDue
    /\ idle' = IF stream = "queue" THEN idle + 1 ELSE idle
    /\ TimersTick
    /\ UNCHANGED <<mapperVars, runVars, link, queueVars, stream, current, ended,
                   mode, canAsk, consent, card, task, decision, verdict>>

-----------------------------------------------------------------------------
Init ==
    /\ MapperInit /\ ApprovalInit
    /\ run = "running"
    /\ said = <<>>
    /\ deltas = FALSE
    /\ replaced = FALSE
    /\ items = <<>>
    /\ count = 0
    /\ link = "up"
    /\ queue = <<>>
    /\ dropped = FALSE
    /\ stream = "queue"
    /\ current = NoRequest
    /\ idle = 0
    /\ ended = "none"

GatewayStep ==
    \/ Say \/ Replace \/ Work \/ Mention \/ Finish
    \/ \E a \in Requests : Ask(a) \/ TakeAnswer(a)

StreamStep ==
    \/ TakeText \/ TakeItem \/ TakeAside \/ TakeRequest \/ TakeFinal
    \/ Resume \/ Close \/ StreamTimeout

TaskStep(a) == Ring(a) \/ Resolve(a) \/ Forget(a)

Next ==
    \/ GatewayStep \/ LinkLost \/ LinkSettled \/ LinkOvertaken
    \/ StreamStep \/ DialogEnds \/ Stop
    \/ \E a \in Requests : TaskStep(a)
    \/ Tick

Spec == Init /\ [][Next]_vars

\* The event loop runs what can run, time passes, Open WebUI reads the chunks
\* of a chat nobody stopped, and a connected Gateway takes the answers it gets.
\* One condition says it all, for none of these steps can be taken for ever.
\* Nothing is assumed of the user, of the run or of the connection.
Fairness ==
    WF_vars(StreamStep \/ Tick \/ \E a \in Requests : TaskStep(a) \/ TakeAnswer(a))

FairSpec == Spec /\ Fairness

-----------------------------------------------------------------------------
(* Properties *)

\* Unless the text was replaced or a delta was lost to a full queue, the user
\* reads the beginning of what the assistant said: no word twice, none left
\* out, none out of order (_assistant_delta, "never re-emit already-shown
\* text").  A run that sends whole texts heals every loss in its queue; what was
\* lost before the queue was there (AgentRun's early burst) is not in this model.
NeverGarbled ==
    ~replaced /\ (~dropped \/ ~deltas) => IsPrefix(shown, said)

\* Unless a late reply to an approval answer was taken for the end of the run
\* (_route_response lets it), a run shown as complete is one the Gateway
\* completed; and if nothing was dropped all it said is on the screen (last,
\* after a replacement), with one card for every report of the tool item.
CompleteMeansComplete ==
    finish = "stop" /\ ~StrayReply =>
        /\ run = "ok"
        /\ ~dropped => IsSuffix(said, shown) /\ cards = items

\* The Gateway is told to go on only in auto_approve mode or after the user
\* agreed to this very request.
OnlyConsented ==
    \A a \in Requests :
        verdict[a] = "allowed" => mode = "auto_approve" \/ consent[a]

\* A request noted as denied in the chat is denied: the task that says so
\* exists by then, and the client never grants it afterwards.
NotesAreTrue ==
    \A a \in Requests :
        card[a] = "denied" => task[a] # "none" /\ verdict[a] # "allowed"

\* With APPROVAL_TIMEOUT below REQUEST_TIMEOUT, no run times out while it only
\* waits for its own automatic denial.
DeniedBeforeTimeout ==
    ApprovalTimeout < RequestTimeout /\ ended = "timeout"
        => \A a \in Requests : task[a] # "sleeping"

\* Every request that agent_stream() took is answered and the Gateway has a
\* verdict, unless the connection is lost, the user still has to answer, or
\* the user stopped the chat before the answer was scheduled.
RequestsAnswered ==
    \A a \in Requests :
        current = a \/ task[a] # "none"
            ~> \/ verdict[a] \in {"allowed", "denied"}
               \/ link # "up"
               \/ stream = "dialog"
               \/ ended = "stopped" /\ task[a] = "none"
=============================================================================
