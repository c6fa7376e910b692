# A TLA+ model of claw-ui

claw-ui is an Open WebUI *Pipe* that forwards chats to an OpenClaw *Gateway*
over one shared WebSocket and streams the agents' events back. Everything runs
in one asyncio event loop: tasks switch only at an `await`, so the hard
behaviours are not data races on single variables but what another task did
between two awaits.

## 1. Inventory

| Component | State it keeps | Operations | Talks to |
|---|---|---|---|
| `GatewayClient`, connection (`gateway_client.py`) | `_ws`, `_connected`, `_connect_lock`, `_reader_task`, the connections gauge | `connect`, `_do_connect`, `_handshake`, `_reader_loop`, `_handle_disconnect`, `close` | Gateway (WebSocket), every caller (shared) |
| `GatewayClient`, RPCs and runs | `_pending` (futures by request id), `_run_subscribers` (bounded queues by run id) | `request`, `agent_stream`, `_route_response`, `_route_event`, `_fail_run_subscribers`, `resolve_approval`, `abort_agent`, `list_agents` | reader task fills, callers drain |
| Approvals | nothing between runs; background tasks | `_handle_approval` in five modes | `agent_stream` loop, user dialog, Gateway |
| Pipe: client and discovery (`openclaw_pipe.py`) | `_client`, key of the last settings, agent cache, discovery task | `pipes`, `_launch_eager_discovery`, `_ensure_agent_cache`, `_get_client`, `_drain_and_close` | `GatewayClient`, Open WebUI |
| Pipe: requests | the streams in progress, spans | `pipe`, `_stream_response`, `_nonstream_response`, `_traced_stream_response`, `_build_agent_stream` | `GatewayClient`, event mapper, telemetry |
| Event mapper (`event_mapper.py`) | text emitted so far | `map_agent_events`, `_assistant_delta`, `_map_final`, renderers | Pipe |
| Protocol (`protocol.py`) | none | build and parse frames | client |
| Valves (`valves.py`) | settings and their ranges | none | Pipe |
| Telemetry (`telemetry.py`) | provider singletons | init, shutdown, spans, instruments | everything |
| Installer (`install.py`) | the function on the Open WebUI server | bundle, create/update, set valves, enable | Open WebUI REST API |
| `debug_events.py` | none | manual frame dump | Gateway |

Hard behaviours, and what makes each component correct:

* **Connection.** Callers connect at the same time, the reader reconnects with
  backoff while callers connect too, the user stops a chat in the middle of a
  handshake, the Pipe closes the client under everybody. Correct means: one
  connection and one reader, no forgotten socket, an exact gauge, nobody waits
  for ever, whoever waits on a lost connection is told, nobody else is.
* **Runs.** The reader runs ahead of the tasks it wakes; responses come late,
  after a timeout or a stop; queues are bounded; a run ends by result, error,
  timeout, stop or loss. Correct means: own events, in order, none lost while
  subscribed, an end that comes from the Gateway, and nothing left registered.
* **Approvals.** The dialog blocks its run's consumer; answers are sent by
  background tasks whose replies come back on the same wire.
* **Pipe.** Valves change while requests run; discovery runs in the background
  beside requests; streams are closed, cancelled or fail, and exactly one of the
  abort, the span's end and the outcome must happen each time.
* **Event mapper.** Cumulative and incremental text must add up to what was said,
  over a queue that drops.
* **Installer.** Each REST call may fail, or succeed unheard, after the previous
  one succeeded; the endpoint that enables is a toggle.

The list of hazards, each at its source line with the properties that cover it,
is in `PROJECT.json`.

## 2. Modules

| Module | What it is |
|---|---|
| `Connection` | the connection life cycle of one client |
| `MCConnection` | its TLC instances |
| `ConnectionProofs` | its inductive invariant and theorems |
| `AgentRun` | requests, runs, routing and queues over one client |
| `AgentStream` | abstract: what `agent_stream()` promises its caller |
| `MCAgentRun` | TLC instances of `AgentRun` |
| `AgentRunProofs` | its inductive invariants, theorems and the refinement of `AgentStream` |
| `Pipe` | the Pipe: client swap, agent cache and discovery, requests and their stream wrappers |
| `MCPipe` | TLC instances of `Pipe` |
| `PipeProofs` | its inductive invariant and theorems |
| `EventMapper` | what events become on the screen |
| `Approval` | how approval requests are answered |
| `Chat` | composes both with the Gateway's run, its queue, the stream's loop and a clock |
| `MCChat` | TLC instance of `Chat` |
| `ChatProofs` | its inductive invariant and theorems |
| `SequenceLemmas` | facts about prefixes and suffixes of sequences |
| `Bundler` | the line strippers of the installer beside Python's view of a module |
| `Installer` | composes it with the direct installation and the server |
| `InstallerProofs` | its inductive invariant and theorems |
| `MCInstaller` | TLC instance of `Installer` |

### Connection

A caller is one `pipe()` request: `connect()`, one agent RPC, one run. A reader
task is named by the socket whose handshake created it, so `reader[w]` is the
task started for socket `w`; `_handle_disconnect` runs inside that task.

| State | Code |
|---|---|
| `ws`, `connected`, `lock`, `readerTask` | `_ws`, `_connected`, holder of `_connect_lock`, `_reader_task` |
| `sock` | the sockets themselves; a socket dies by itself or is closed |
| `reader`, `on`, `attempt`, `cancelled` | program counter, awaited socket and attempt number of each reader; tasks with an undelivered `CancelledError` |
| `caller`, `home` | program counter of each caller; the socket it builds, then the one its run lives on |
| `closer`, `closing`, `wasConnected` | progress of `close()`, what it awaits, its local |
| `gauge` | `openclaw.gateway.connections` |

Every action is the code between two awaits, clean-up included: `HandshakeOk`
sets `_connected`, starts the reader, counts it, releases the lock and sends the
caller's request, since nothing there suspends. Abstractions: a send is atomic;
the acknowledgement and the start of the run are one step (their race is the
subject of `AgentRun`); waiters of the lock are served in any order but nobody
overtakes a queue (`LockIdle`); the reader may crash whenever it routes a frame
(`AgentRun` shows when it does); the client may be closed at any time
(`_drain_and_close` waits two seconds, which promises nothing). A reader in the
endless loop of `_reader_loop` (no socket, no await) freezes the event loop:
`Frozen` disables every task.

### AgentRun

`gateway` is the Gateway's view of a run, `wire` the frames on their way to the
client. Responses answer a request id (`<<"agent", r>>` or `<<"resolve", r>>`);
the acknowledgement and the final result of a run answer the *same* agent
request, as `debug_events.py` relies on. `future[q]` changes when the reader
routes a response; the task that awaits it pops `pending` in a later step
(`AckResumes`, `AckFails`, `ResolveEnds`). `AckResumes` is one step from
`wait_for` to the registration of the queue, as no await lies between.
`CancelWait` is the timer or the user's stop: the future is cancelled at once,
the id remains registered until the task runs. `Reconnect` waits until tasks
with a finished future have run (`ReadyTasksRan`): it sleeps and opens a socket,
several turns of the loop.

A request calls `connect()` first. While the handler of a lost connection waits,
or after it gave up, the call opens a connection of its own (`AskConnects`) or
fails. The handler is then *overtaken*: it wakes, finds the client connected and
returns without telling anybody (`OvertakenExits`), or, if the connection was lost
once more before it woke, works beside the next handler (`LeaveGone`). `orphans`
keeps the runs that were subscribed when a call did so. The Gateway is external:
it accepts or refuses, sends numbered events, finishes, answers approval answers
with a reply that names the run (the case `_route_response`'s comment describes).

A stream that yielded its terminal event is `left`: the mapper returns without
resuming it, and its `finally` clause runs when the event loop finalises the
generator (`CloseLeft`); until then the reader still fills its queue.

`AgentStream` abstracts all this to: events yielded are events sent, in order,
none twice, none after the end. `KeepsPromise` is the refinement
(`INSTANCE AgentStream WITH over <- ...`).

### Pipe

A task is a request or the one eager discovery. Both locks of the Pipe protect
sections without an `await`, so such a section is one step; `_ensure_agent_cache`
splits in two around the RPC, and the answer overwrites whatever the cache holds
by then. `client`, `settingsOf`, `life` stand for `_client`, the valves each
client was made with and its `_drain_and_close` task; `cache` also records where
its contents came from (history, for `LazyDiscovery`), and `asked` the valves a
request found (history, for `KeepsItsSettings` and `StaticListEnforced`). A
request waits in an `await` (`AtAwait`: a stop is a `CancelledError`) or at a
`yield` (`AtYield`: a stop is `GeneratorExit`), and the code treats the two
differently. The client is abstract: connected or not, a run works, is over or
was lost; `agent_stream` connects a client whether or not it was closed, as
`connect()` does. Abstractions: a run's final result reaches the queue and is
taken in one step; the client's own reconnects are left to `Connection` (the next
call connects); each request is a chat, hence a session, of its own.

### EventMapper, Approval, Chat

`EventMapper` and `Approval` have state and actions of their own and no
specification: `Chat` extends both and makes one run of them. A text is a
sequence of words; each word is the number of the event that brought it, so a
word shown twice or out of place is seen at once. `snapshot` is `assistant_text`,
`shown` what reached the screen. A run sends any mix of whole texts, deltas, and
both at once (`deltas` records whether one was used); a text may replace all that
was said. Every tool, item or command-output event becomes one more block on the
screen and no block is ever changed, so `cards` is the sequence of their `done`
flags, and `items` what the Gateway reported, in the same order. The card of an
item's start stays open under the card that says it is over, as in the code.

`task[a]` is the background task of an approval request: in `render` mode it is
created when the reader of the stream resumes it after the card (`Resume`, with
`current` naming the request whose card or dialog the stream is at), and it
sleeps `ApprovalTimeout` ticks. Its answer is a request of its own, which waits
`RequestTimeout` ticks for the reply (`sent`) and is then forgotten (`late`,
`Forget`). The Gateway may still take the answer and reply: if the reply names the
run, `_route_response` finds nobody waiting for its id and puts it into the run's
queue as a final result, `ok` by default. `TakeAnswer` does both; `StrayReply`
says that it happened. `verdict` is the Gateway's.

`stream` says what the generators wait for: an entry of the queue, the emitter,
the dialog, or, at a `yield`, their reader. `idle` counts the ticks spent in the
present `queue.get()`. `Tick` lets time pass only when nothing is due, the idiom
for a clock in a discrete model: the event loop runs a due timer before any time
passes. A tick stands for any span; only the order of the two timeouts matters.
`Chat` puts an event into the queue in the step that sends it, as frames and
futures are the subject of `AgentRun`; what is lost before the queue is
registered is therefore in `AgentRun` only. Losing the connection cuts the run
and, once the handler has reconnected or given up, puts the local terminal entry;
when another chat's request reconnects first, nobody does (`LinkOvertaken`). Of
the Gateway it is assumed that it waits for its approvals before it ends a run and
takes the first answer to each.

### Bundler, Installer

A line of a module is one of eight classes, those the strippers can tell apart.
The three passes of `read_module` are run in step: a line dropped by one is not
seen by the next. `lex` is Python's own view of the same line, and `mangled`
records the first disagreement. `Lines` is the shape of the repository's modules:
a docstring first, whose prose may look like an import.

An invocation of `install.py` is a program counter; the function on the server
is `content`, `active`, `valves`. Every request may succeed, be refused
(`RuntimeError`, with or without `main()` going on), or get no answer: the
`TimeoutError` of a reply that does not come is not among the caught exceptions
and ends the invocation with the effect done or not. The administrator may switch
or delete the function at any moment.

## 3. Runs and what they show

Runs that pass:

| Run | Question | Bounds | Distinct states |
|---|---|---|---|
| `Connection_shared` | Is a shared client sound through losses, reconnects, stops and `close()` at any moment? | 2 callers, 3 sockets, 2 attempts | 985 000 |
| `Connection_alone` | Do failures clean up after themselves; do interrupted runs, lock waits and reconnect loops end? | 1 caller, 3 sockets, 2 attempts, no stops, no `close()` | 86 000 |
| `AgentRun_two` | Are concurrent runs kept apart, in order, complete and cleaned up, do answers given in time end nothing, and does the client keep the promise of `AgentStream`? | 2 runs, 2 events, 2 frames in flight, queues of 2, 1 loss, dialogs, timeouts | 2 170 000 |
| `AgentRun_ends` | Do finished, interrupted and given-up runs end? | 2 runs, 1 event, 1 frame in flight, queues of 2, 2 losses, automatic approvals, no timeouts | 470 000 |
| `Pipe_two` | Is every request that leaves by an exit of the code accounted for once, is each kept to its settings and agents, and is no client lost? | 2 requests and the eager task, 2 settings, 2 models, automatic and static lists, 1 edit | 3 500 000 |
| `Chat_modes` | Does the user see what the assistant said, is complete what looks complete, is every approval answered, in time and by consent? | 4 approval modes, 2 requests, 3 events, a queue of 1, 1 loss, timeouts of 1 and 2 ticks | 1 250 000 |
| `Installer_reruns` | Does no number of broken, repeated or simultaneous installations switch the function off, deploy a mangled bundle or lie about what was done? | 3 invocations, 8 lines, 2 interventions | 270 000 |

Runs that find a violation, each a finding in `PROJECT.json`:

| Run | What the code does |
|---|---|
| `Connection_stranded` | another caller's reconnect makes the handler exit without telling interrupted runs |
| `Connection_nosocket` | `close()` beside a handshake leaves `_connected` with `_ws = None` |
| `AgentRun_crash` | a response for a done future kills the reader |
| `Pipe_stop` | a stop in an `await` sends no abort and never ends the span |
| `Pipe_rediscover` | a failed discovery is cached for ever |

The passing runs of liveness and clean-up are conditional, and the models show
why when a constant changes:

* `MayStop = TRUE` breaks `NoHalfOpenSocket`: a stop during the handshake is not
  an `Exception`, the socket stays open and forgotten.
* The late reply to an approval answer that timed out is taken for the run's
  final result (line 914). `FinalFromGateway` exempts the runs whose answer was
  given up, `CompleteMeansComplete` those with a `StrayReply`: such a run is shown
  as complete although the Gateway still works on it.
* `FinishedRunsEnd` exempts the runs in `orphans`: another call reconnected during
  the backoff and nobody tells them. It also exempts a run at its dialog and a
  crashed reader.
* `QueueSize = 1` breaks `FinishedRunsEnd`: a full queue drops the terminal entry.
* `Retries = FALSE` (no reconnect attempts) breaks `FinishedRunsEnd`: a run
  acknowledged in the burst that ends in the loss registers its queue after
  everybody has been told.
* Two callers break `InterruptedRunsEnd` (`Connection_stranded`). No run has
  `MaxReconnect = 0`; the theorems about `Connection` include it.
* `OutcomeOnce` speaks of the requests that leave by an exit of `pipe()` and its
  wrappers. One that is cancelled in an `await` (`CancelledError`, see `Pipe_stop`),
  or whose stream is closed before it starts, leaves by none: its span is never
  ended and it is not counted.
* `ApprovalTimeout = RequestTimeout` would let a run in `render` mode time out
  before its denial; the valves allow it (5-300 s beside 10-600 s), so
  `DeniedBeforeTimeout` has the right order as its premise.
* A delta dropped by a full queue leaves a gap that no later text fills: the next
  full text does not extend what was received and is shown again from its start.
  `NeverGarbled` exempts it unless the run sends whole texts only.
* A stop at the render card's `yield` or in the dialog answers nothing;
  `RequestsAnswered` exempts it (the Pipe aborts the run).
* An installation that created the function and failed before `/toggle` is not
  repaired by a rerun: it updates, says Done and leaves the function switched off,
  although the docstring (`install.py:19-20`) says that the command enables it.
  `DoneMeansDone` promises an active function to its creator only.
* `close()` does not cancel a reader in its reconnect loop once another
  `connect()` has replaced `_reader_task`, and the request of a run lost with its
  connection is counted with `status=success`, although `docs/configuration.md`
  promises `status=error` for a failed request: both behaviours are in the models
  (`CloseStart`, `Complete`), and no property speaks of them.
* Events read between the acknowledgement and the registration of a run's queue
  are dropped in `RouteEvent`; `NothingLostMidRun` speaks of the time after, and of
  queues with room for a run's events. The text of such an early burst is missing
  on the screen; `NeverGarbled` does not cover it, as `Chat` starts with the queue.
* What an aborted `close()` owes the gauge it owes for ever: `GaugeMatches` does
  not tell it from one that is still under way.
* `StaticListEnforced` and `SelectorNeverEmpty` run without a list that names no
  agent; the theorems hold for every list.

**Bounds.** Three sockets are two losses: an old reader in its loop, a current
one and a next one, which is as many as the code can confuse; two callers give
every race between a builder, a waiter and a run in progress. Two events and
queues of two make a queue fill, drain and fill; two runs suffice to cross-wire.
The queue's 256 is scaled to 1 or 2: only full or not matters. `MaxWire`,
`MaxEvents`, `MaxLosses` bound the Gateway and the network; in `AgentRun_ends` two
losses let a connection be lost again before an overtaken handler wakes. One edit of the
valves (`MaxEdits`) puts an old client, a new one and a request on each beside a
discovery that started before the edit; it switches settings, the list, or both.
In `Chat_modes` a queue of one drops the second of three events and
delivers the third, which is how a gap arises and heals; two requests tell one's
answer from the other's; one tick and two are the order that the default valves
have. Eight lines are a docstring, an import over lines and a string after it;
three invocations are one that fails, one that meets what it left, and one beside
them. Symmetry is used in runs without liveness only.

**Deadlock** is checked in `Connection_alone`. `CHECK_DEADLOCK FALSE` stands where
the system may stop: the event loop frozen by a reader without socket
(`Connection` with `close()`, and when its sockets are used up), and `AgentRun`,
`Pipe`, `Chat` and `Installer` when all runs, requests and invocations are over.

**Fairness.** In `Connection`, network waits are bounded by timeouts (open,
handshake frames and close 10 s each, the backoff sleep), so a task inside one
gets on (weak fairness), and `asyncio.Lock` is FIFO (strong fairness of the
grant). In `AgentRun`, tasks that can run do. Users, `close()`, request timeouts
and the Gateway get no fairness: what ends must end without them. In `Chat`, moreover,
time passes, Open WebUI reads the chunks of a chat nobody stopped, and a connected
Gateway takes the answers it is sent. One weak-fairness condition on all of these
steps says so, because none of them can be taken for ever: a fair
behaviour goes on until none of them is possible. `Pipe` and `Installer` state
safety only.

## 4. Proofs

`ConnectionProofs` proves, for every set of callers and sockets and every
reconnect limit, that `TypeOK`, `GaugeMatches`, `OneBuilder` and `SingleReader`
are invariants, that `ConnectedHasSocket` is one while `MayClose = FALSE`, that
`NoHalfOpenSocket` is one while moreover `MayStop = FALSE`, and that
`OnlyLostRunsFail` holds of every step. The only assumption is
`ConnectionAssumption`: the limit is a natural number, callers, sockets and
`None` are distinct.

The argument: `OneBuilder` makes the lock holder the only task that changes
`_connected` to true, and only from false. So when a new reader starts there is
no live one (`SingleReader`), and the gauge moves by one from zero
(`GaugeMatches`). `SingleReader` is not inductive alone: `close()` sets
`_connected` to false and cancels only `_reader_task`; `KnownReader` says that
this is the live reader. `OnlyLostRunsFail` needs to know that a request in
flight lives on the current socket or on a dead one (`RunsAtHome`): the reader
that sees the loss of the current socket therefore leaves only lost runs behind,
and the reconnect loop, which fails runs only under the lock and while not
connected, meets no healthy one. The six invariants and `SocketKept` form `IInv`;
each has one lemma per kind of task, one case per action.
`NoHalfOpenSocket` is kept apart, as a stop or `close()` breaks it: `SocketHeld`
says that an open socket is the current one and that somebody answers for it, the
connected client or the task that builds on it or closes it again. So whoever
opens the next one, under the lock and not connected, finds none open.

`AgentRunProofs` proves, for every set of runs, any number of events, any wire,
queues of any size and any number of losses, that `TypeOK`, `NoLeftovers`,
`InOrder`, `NothingLostMidRun` and `FinalFromGateway` are invariants of
`AgentRun`, and `KeepsPromise`: the refinement of `AgentStream`. It assumes
`AgentRunAssumption` (bounds are natural numbers, queues have room for one entry)
and `NoneAssumption` (`None` is no queue).

The argument: at any time the events a run has taken, those in its queue and those
on the wire are one line of rising numbers, `Flow`. A step moves the events in one
of a few ways, `Moves`: one is sent, the first on the wire enters a queue that has
room or vanishes, the first of a queue is taken, a queue opens or is dropped; each
keeps the line, which gives `InOrder`, and each maps to a step or a stutter of
`AgentStream`. `Registered` says which ids and queues a run owns at each of its
steps, and `Handlers` that every handler at work, overtaken or not, has a lost
connection of its own. Together they are `Safe`. That no event is lost needs to
know how full a queue can get: `Fits` says that what is on the wire agrees with
where the run is (no acknowledgement behind an event, no event behind the result),
and `Room` that, until the run has its terminal entry (`Ended`), its queue holds
fewer entries than the number of the next event. So a queue with room for all the
events takes each of them, and what is there has no gap (`Gapless`).
`FinalFromGateway` needs that whoever is going to be replied to still waits, unless
its wait was given up (`Late`); `Finals` says so.

`PipeProofs` proves, for every set of requests, settings and models, every choice
of agent lists and any number of edits, that `TypeOK`, `OutcomeOnce`,
`ClientsKept`, `KeepsItsSettings`, `StaticListEnforced` and `SelectorNeverEmpty`
are invariants of `Pipe` (`OutcomeOnce` with the exemption of section 3). It
assumes `PipeAssumption`: the default agent is a model, static lists name models,
`Eager` is no request, `MaxEdits` is a natural number.

The argument: `TypeOK` alone is not inductive twice over. A request that counted
its outcome again would leave the range of `ended`, so `OutcomeOnce` is needed
for the type; and `_get_client` makes clients that must not run out of numbers,
which `EditsBoundClients` excludes: a new client is made only if the valves
differ from those of the current one, and an edit is spent for that.
`KeepsItsSettings` needs `ClientsKept` and `HasClient` (no task holds a client
that has not been made), so that making a client changes the settings of nobody
else's. The remaining parts follow step by step: the lemmas `RequestQuiet`,
`AskerMoves` and `DiscoveryMoves` say which variables a step touches, and each
part of the invariant is shown from these alone.

`ChatProofs` proves, for every set of requests, any number of events, queues of
any size and any two timeouts, that `TypeOK`, `OnlyConsented`, `NotesAreTrue`,
`DeniedBeforeTimeout`, `NeverGarbled` and `CompleteMeansComplete` are invariants of
`Chat`. It assumes `ApprovalAssumption`, by which `NoRequest` is no request and
both timeouts are at least one, and `ChatAssumption`, by which `MaxEvents` is a
natural number and the queue has room for one entry.

The argument has three parts. *Approvals*: a request enters the queue once
(`NoTwins`) and is unanswered until the stream takes it (`NotYetAnswered`,
`AtHand`), so its answer is decided in one place, with the mode or the consent it
had there (`AnswersFit`). *Time*: `TimersRun` says that the ticks left of a denial
still to come and the ticks the stream has waited add up to at most
`ApprovalTimeout`, since the stream's wait starts no earlier; a wait that lasts
longer is therefore one with no denial to come. *Text*: `Replayed` follows the
texts and cards that the queue's entries will lead through, from what the mapper
has now to what the assistant has said and reported; it holds as long as nothing
was dropped, or only whole texts were sent and none was replaced (`Healing`). Once
a late reply has gone astray a final entry no longer says that the run is over,
and none of this is claimed of it (`StrayStays`). Prefixes of sequences carry the
argument, and `SequenceLemmas` proves what is needed of them, above all
`PrefixCompleted`: what the mapper shows of a whole text completes what is shown.

`InstallerProofs` proves, for every set of invocations, any number of lines and of
interventions, that `TypeOK`, `OnlyFaithfulBundles` and `DoneMeansDone` are
invariants of `Installer` and that `NeverSwitchesOff` holds of every step. It
assumes `InstallerAssumption`: `Nobody` is no invocation, the bounds are natural
numbers.

The argument: `InStep` says which flags the strippers have at each place of a
module; it makes every decision to drop or keep a line the right one
(`RightlyDropped`), and no line leaves it (`LineInStep`). For the server,
`DoneMeansDone` depends on what another invocation may do in between. `OneCreator`
says that the function has one creator and, before that one has come to the
toggle, is off: so its toggle switches on, nobody else toggles, and an active
function is never created anew. `Progress` says what an invocation has achieved
at each of its steps. Both hold until the administrator intervenes.

Only model-checked: liveness (`InterruptedRunsEnd`, `WaitsEnd`, `FinishedRunsEnd`,
`GivenUpEnds`, `RequestsAnswered`), as liveness under fairness is beyond the
prover, and what the five runs with a violation refute. Every safety invariant and
action property of a passing run is a theorem; the two that are conditional
(`ConnectedHasSocket`, `NoHalfOpenSocket`) have the constants of their run as
hypotheses, and section 3 says what happens without them.

## 5. Not modelled

* Frame syntax and `protocol.py`: stateless builders and parsers; which frames
  exist and what answers what is in `AgentRun`, the handshake in `Connection`.
  The challenge signing there is unused code.
* `valves.py`: declarations; the settings that matter are constants or variables.
* `telemetry.py`: initialised once, no-op stand-ins otherwise; the spans and
  counters that must balance are in `Connection` (`gauge`) and `Pipe` (`outcome`).
* `debug_events.py`: a manual script.
* Message and attachment formatting, session keys, HTML of the cards, logging,
  argument parsing and file output of the installer.

## 6. Plan

1. `Connection` with proofs (done).
2. `AgentRun`, `AgentStream` (done).
3. `Pipe` with proofs (done).
4. `EventMapper`, `Approval`, `Chat` (done).
5. `Bundler`, `Installer` with proofs (done).
6. Proofs about `Chat`, `AgentRun` with the refinement of `AgentStream`, and
   `NoHalfOpenSocket` of `Connection` (done).
7. Next: what the client still promises when it is stopped or closed (at most one
   forgotten socket per stop), and the safety part of the liveness properties: who
   must still act while a run waits; the outcome that the metrics give a lost run.
