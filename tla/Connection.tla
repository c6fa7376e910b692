----------------------------- MODULE Connection -----------------------------
(***************************************************************************)
(* The connection life cycle of one GatewayClient (gateway_client.py):     *)
(* connect(), the handshake, the reader task, the reconnect loop that the  *)
(* reader runs after a disconnect, and close().                            *)
(*                                                                         *)
(* asyncio runs one task at a time and switches only at an await, so one   *)
(* action is the code between two awaits.  A caller is a pipe() request    *)
(* that calls connect() and then runs one agent RPC.  A reader task is     *)
(* named by the socket whose handshake created it.                         *)
(***************************************************************************)
EXTENDS Integers, FiniteSets

CONSTANTS
    Callers,        \* concurrent users of the client
    Sockets,        \* WebSockets the Gateway will accept; each is used once
    MaxReconnect,   \* max_reconnect_attempts
    MayClose,       \* TRUE if the Pipe replaces this client and closes it
    MayStop,        \* TRUE if users stop chats, which cancels their callers
    None            \* Python's None

ASSUME ConnectionAssumption ==
    /\ MaxReconnect \in Nat
    /\ MayClose \in BOOLEAN
    /\ MayStop \in BOOLEAN
    /\ Callers \cap Sockets = {}
    /\ None \notin Callers \cup Sockets

VARIABLES
    sock,           \* state of each WebSocket: "free", "open" or "dead"
    ws,             \* self._ws
    connected,      \* self._connected
    lock,           \* holder of self._connect_lock
    readerTask,     \* self._reader_task
    reader,         \* where each reader task is
    on,             \* the socket each reader awaits: recv(), or the one it builds
    attempt,        \* reconnect attempts each reader has made
    cancelled,      \* readers with a CancelledError waiting to be delivered
    caller,         \* where each caller is
    home,           \* the socket a caller builds, then the one its run lives on
    closer,         \* where close() is
    closing,        \* what close() awaits: the reader task, then the socket
    wasConnected,   \* close()'s local was_connected
    gauge           \* openclaw.gateway.connections

connVars == <<sock, ws, connected, lock, readerTask, gauge>>
readerVars == <<reader, on, attempt, cancelled>>
callerVars == <<caller, home>>
closeVars == <<closer, closing, wasConnected>>
vars == <<connVars, readerVars, callerVars, closeVars>>

CallerBuilding == {"open", "hs", "failClose"}
ReaderBuilding == {"open", "hs", "closeRetry", "closeCancel"}
LiveReader == {"new", "recv", "spin"}
CallerPC == {"idle", "lock", "pending", "stream", "failed"} \cup CallerBuilding
ReaderPC == {"none", "backoff", "lock", "done", "crashed"}
                \cup LiveReader \cup ReaderBuilding
CloserPC == {"no", "await", "wsclose", "done", "aborted"}

TypeOK ==
    /\ sock \in [Sockets -> {"free", "open", "dead"}]
    /\ ws \in Sockets \cup {None}
    /\ connected \in BOOLEAN
    /\ lock \in Callers \cup Sockets \cup {None}
    /\ readerTask \in Sockets \cup {None}
    /\ gauge \in Int
    /\ reader \in [Sockets -> ReaderPC]
    /\ on \in [Sockets -> Sockets \cup {None}]
    /\ attempt \in [Sockets -> 0..MaxReconnect]
    /\ cancelled \subseteq Sockets
    /\ caller \in [Callers -> CallerPC]
    /\ home \in [Callers -> Sockets \cup {None}]
    /\ closer \in CloserPC
    /\ closing \in Sockets \cup {None}
    /\ wasConnected \in BOOLEAN

-----------------------------------------------------------------------------
(* Shared pieces *)

\* asyncio.Lock: a newcomer takes the lock only when nobody waits for it.
LockIdle ==
    /\ lock = None
    /\ \A c \in Callers : caller[c] # "lock"
    /\ \A r \in Sockets : reader[r] # "lock"

\* Callers whose RPC future gets an exception, and those whose run queue
\* gets a synthetic final event.  Both learn of it when they next run.
FailPending(cs) == {c \in Callers : cs[c] = "pending"}
FailRuns(cs) == {c \in Callers : cs[c] = "stream"}

Fail(cs, victims) ==
    [c \in Callers |-> IF c \in victims THEN "failed" ELSE cs[c]]

\* Mutant: a reconnect forgets to count itself.
Established_Uncounted(w) ==
    /\ connected' = TRUE
    /\ readerTask' = w
    /\ gauge' = gauge

\* The state of self after a successful handshake on w: connected, with a
\* fresh reader task.
Established(w) ==
    /\ connected' = TRUE
    /\ readerTask' = w
    /\ gauge' = gauge + 1

\* request() after connect() returned: register the future and send.
\* There is no await in between.  A missing socket trips _send's assertion,
\* a dead one raises GatewayConnectionError; both end the request.
Send(c) ==
    IF ws # None /\ sock[ws] = "open"
    THEN /\ caller' = [caller EXCEPT ![c] = "pending"]
         /\ home' = [home EXCEPT ![c] = ws]
    ELSE /\ caller' = [caller EXCEPT ![c] = "idle"]
         /\ home' = [home EXCEPT ![c] = None]

Leave(c) ==
    /\ caller' = [caller EXCEPT ![c] = "idle"]
    /\ home' = [home EXCEPT ![c] = None]

-----------------------------------------------------------------------------
(* Callers: connect() and _do_connect(), then the life of one request *)

\* connect() when already connected: a no-op, the request goes out.
ConnectFast(c) ==
    /\ caller[c] = "idle"
    /\ connected
    /\ Send(c)
    /\ UNCHANGED <<connVars, readerVars, closeVars>>

\* connect() when not connected: take the lock and open a WebSocket, or queue.
ConnectSlow(c) ==
    /\ caller[c] = "idle"
    /\ ~connected
    /\ \/ /\ LockIdle
          /\ lock' = c
          /\ caller' = [caller EXCEPT ![c] = "open"]
       \/ /\ ~LockIdle
          /\ lock' = lock
          /\ caller' = [caller EXCEPT ![c] = "lock"]
    /\ UNCHANGED <<sock, ws, connected, readerTask, gauge, home,
                   readerVars, closeVars>>

\* Mutant: no second look at _connected under the lock.
ConnectLocked_NoCheck(c) ==
    /\ caller[c] = "lock"
    /\ lock = None
    /\ lock' = c
    /\ caller' = [caller EXCEPT ![c] = "open"]
    /\ UNCHANGED <<sock, ws, connected, readerTask, gauge, home, readerVars, closeVars>>

\* The lock is granted: double-check _connected, then connect.
ConnectLocked(c) ==
    /\ caller[c] = "lock"
    /\ lock = None
    /\ \/ /\ connected
          /\ Send(c)
          /\ UNCHANGED lock
       \/ /\ ~connected
          /\ lock' = c
          /\ caller' = [caller EXCEPT ![c] = "open"]
          /\ UNCHANGED home
    /\ UNCHANGED <<sock, ws, connected, readerTask, gauge, readerVars, closeVars>>

\* websockets.connect() returns a socket ...
OpenOk(c) ==
    /\ caller[c] = "open"
    /\ \E w \in Sockets :
        /\ sock[w] = "free"
        /\ sock' = [sock EXCEPT ![w] = "open"]
        /\ ws' = w
        /\ home' = [home EXCEPT ![c] = w]
    /\ caller' = [caller EXCEPT ![c] = "hs"]
    /\ UNCHANGED <<connected, lock, readerTask, gauge, readerVars, closeVars>>

\* ... or raises (refused, timed out), which leaves connect() and the lock.
OpenFail(c) ==
    /\ caller[c] = "open"
    /\ lock' = None
    /\ Leave(c)
    /\ UNCHANGED <<sock, ws, connected, readerTask, gauge, readerVars, closeVars>>

\* The handshake succeeds (its last frame may be read from a socket that has
\* died since); the lock is released and the request goes out at once.
HandshakeOk(c) ==
    /\ caller[c] = "hs"
    /\ Established(home[c])
    /\ reader' = [reader EXCEPT ![home[c]] = "new"]
    /\ lock' = None
    /\ Send(c)
    /\ UNCHANGED <<sock, ws, on, attempt, cancelled, closeVars>>

\* Mutant: a failed handshake just raises.
HandshakeFail_NoCleanup(c) ==
    /\ caller[c] = "hs"
    /\ lock' = None
    /\ Leave(c)
    /\ UNCHANGED <<sock, ws, connected, readerTask, gauge, readerVars, closeVars>>

\* The handshake fails (timeout, rejection, lost socket): close what is left.
HandshakeFail(c) ==
    /\ caller[c] = "hs"
    /\ \/ /\ ws # None
          /\ caller' = [caller EXCEPT ![c] = "failClose"]
          /\ UNCHANGED <<lock, home>>
       \/ /\ ws = None
          /\ lock' = None
          /\ Leave(c)
    /\ UNCHANGED <<sock, ws, connected, readerTask, gauge, readerVars, closeVars>>

FailCloseDone(c) ==
    /\ caller[c] = "failClose"
    /\ sock' = [sock EXCEPT ![home[c]] = "dead"]
    /\ ws' = None
    /\ lock' = None
    /\ Leave(c)
    /\ UNCHANGED <<connected, readerTask, gauge, readerVars, closeVars>>

\* The user stops the chat: CancelledError in whatever the caller awaits.
\* It is no Exception, so _do_connect's cleanup does not run; the async with
\* still releases the lock, and finally clauses drop the future and the queue.
CancelCaller(c) ==
    /\ MayStop
    /\ caller[c] \notin {"idle", "failed"}
    /\ lock' = IF lock = c THEN None ELSE lock
    /\ Leave(c)
    /\ UNCHANGED <<sock, ws, connected, readerTask, gauge, readerVars, closeVars>>

\* wait_for expires on the RPC future or on the run queue.
RequestTimeout(c) ==
    /\ caller[c] \in {"pending", "stream"}
    /\ Leave(c)
    /\ UNCHANGED <<connVars, readerVars, closeVars>>

\* The caller runs again and sees the failure it was sent.
SeeFailure(c) ==
    /\ caller[c] = "failed"
    /\ Leave(c)
    /\ UNCHANGED <<connVars, readerVars, closeVars>>

-----------------------------------------------------------------------------
(* The reader task: _reader_loop() *)

\* The head of the while loop: stop, await recv(), or - with no socket to
\* receive from - raise, log, continue without ever awaiting again.
LoopHead(r) ==
    /\ reader' = [reader EXCEPT ![r] = IF ~connected THEN "done"
                                       ELSE IF ws = None THEN "spin"
                                       ELSE "recv"]
    /\ on' = [on EXCEPT ![r] = IF connected THEN ws ELSE @]
    /\ UNCHANGED <<attempt, cancelled>>

\* The task's first step: the assertion, then the loop.
ReaderStart(r) ==
    /\ reader[r] = "new"
    /\ r \notin cancelled
    /\ \/ /\ ws = None
          /\ reader' = [reader EXCEPT ![r] = "crashed"]
          /\ UNCHANGED <<on, attempt, cancelled>>
       \/ /\ ws # None
          /\ LoopHead(r)
    /\ UNCHANGED <<connVars, callerVars, closeVars>>

\* A frame arrives and is routed: an acceptance turns a pending request into
\* a run, a final result or an error ends one, anything else (a delta, junk)
\* moves nobody.
ReaderFrame(r) ==
    /\ reader[r] = "recv"
    /\ r \notin cancelled
    /\ sock[on[r]] = "open"
    /\ \/ \E c \in Callers :
            /\ home[c] = on[r]
            /\ \/ /\ caller[c] = "pending"
                  /\ caller' = [caller EXCEPT ![c] = "stream"]
                  /\ UNCHANGED home
               \/ /\ caller[c] \in {"pending", "stream"}
                  /\ Leave(c)
       \/ UNCHANGED callerVars
    /\ LoopHead(r)
    /\ UNCHANGED <<connVars, closeVars>>

\* Routing raises (set_result on a future that is already done: the response
\* races the waiter); nothing catches it and the task ends.
ReaderCrash(r) ==
    /\ reader[r] = "recv"
    /\ r \notin cancelled
    /\ sock[on[r]] = "open"
    /\ reader' = [reader EXCEPT ![r] = "crashed"]
    /\ UNCHANGED <<on, attempt, cancelled, connVars, callerVars, closeVars>>

\* recv() raises ConnectionClosed: mark the client disconnected and enter
\* _handle_disconnect(), which gives up at once if no attempt is allowed.
ReaderClosed(r) ==
    /\ reader[r] = "recv"
    /\ r \notin cancelled
    /\ sock[on[r]] = "dead"
    /\ connected' = FALSE
    /\ gauge' = gauge - 1
    /\ attempt' = [attempt EXCEPT ![r] = 0]
    /\ on' = [on EXCEPT ![r] = None]
    /\ IF MaxReconnect > 0
       THEN /\ reader' = [reader EXCEPT ![r] = "backoff"]
            /\ UNCHANGED caller
       ELSE /\ reader' = [reader EXCEPT ![r] = "done"]
            /\ caller' = Fail(caller, FailRuns(caller) \cup FailPending(caller))
    /\ UNCHANGED <<sock, ws, lock, readerTask, cancelled, home, closeVars>>

-----------------------------------------------------------------------------
(* The reader task after a disconnect: _handle_disconnect() *)

\* Mutant: reconnect without asking whether somebody else has.
ReconnectLocked_NoCheck(r) ==
    /\ reader' = [reader EXCEPT ![r] = "open"]
    /\ lock' = r

\* Under the lock: somebody else reconnected, or open a WebSocket.
ReconnectLocked(r) ==
    \/ /\ connected
       /\ reader' = [reader EXCEPT ![r] = "done"]
       /\ UNCHANGED lock
    \/ /\ ~connected
       /\ reader' = [reader EXCEPT ![r] = "open"]
       /\ lock' = r

\* The backoff sleep ends.
BackoffEnds(r) ==
    /\ reader[r] = "backoff"
    /\ r \notin cancelled
    /\ \/ /\ LockIdle
          /\ ReconnectLocked(r)
       \/ /\ ~LockIdle
          /\ reader' = [reader EXCEPT ![r] = "lock"]
          /\ UNCHANGED lock
    /\ UNCHANGED <<sock, ws, connected, readerTask, gauge,
                   on, attempt, cancelled, callerVars, closeVars>>

ReconnectLockGranted(r) ==
    /\ reader[r] = "lock"
    /\ r \notin cancelled
    /\ lock = None
    /\ ReconnectLocked(r)
    /\ UNCHANGED <<sock, ws, connected, readerTask, gauge,
                   on, attempt, cancelled, callerVars, closeVars>>

ReconnectOpenOk(r) ==
    /\ reader[r] = "open"
    /\ r \notin cancelled
    /\ \E w \in Sockets :
        /\ sock[w] = "free"
        /\ sock' = [sock EXCEPT ![w] = "open"]
        /\ ws' = w
        /\ on' = [on EXCEPT ![r] = w]
    /\ reader' = [reader EXCEPT ![r] = "hs"]
    /\ UNCHANGED <<connected, lock, readerTask, gauge, attempt, cancelled,
                   callerVars, closeVars>>

\* Mutants: the interrupted runs are not told; the clean-up of a failed
\* attempt also runs after a successful one.
ReconnectHandshakeOk_Silent(r) ==
    /\ reader[r] = "hs"
    /\ r \notin cancelled
    /\ Established(on[r])
    /\ reader' = [reader EXCEPT ![r] = "done", ![on[r]] = "new"]
    /\ lock' = None
    /\ UNCHANGED <<sock, ws, on, attempt, cancelled, callerVars, closeVars>>

ReconnectHandshakeOk_CleansUp(r) ==
    /\ reader[r] = "hs"
    /\ r \notin cancelled
    /\ Established(on[r])
    /\ reader' = [reader EXCEPT ![r] = "done", ![on[r]] = "new"]
    /\ lock' = None
    /\ ws' = None
    /\ caller' = Fail(caller, FailRuns(caller))
    /\ UNCHANGED <<sock, on, attempt, cancelled, home, closeVars>>

\* The handshake succeeds: the client is connected again, the old runs are
\* told that they were interrupted (the pending requests are not), and this
\* task leaves the stage to the new reader.
ReconnectHandshakeOk(r) ==
    /\ reader[r] = "hs"
    /\ r \notin cancelled
    /\ Established(on[r])
    /\ reader' = [reader EXCEPT ![r] = "done", ![on[r]] = "new"]
    /\ lock' = None
    /\ caller' = Fail(caller, FailRuns(caller))
    /\ UNCHANGED <<sock, ws, on, attempt, cancelled, home, closeVars>>

\* Mutants: one attempt too many; attempts that are not counted.
NextAttempt_OffByOne(r) ==
    /\ attempt' = [attempt EXCEPT ![r] = @ + 1]
    /\ \/ /\ attempt[r] <= MaxReconnect
          /\ reader' = [reader EXCEPT ![r] = "backoff"]
          /\ UNCHANGED caller
       \/ /\ attempt[r] = MaxReconnect + 1
          /\ reader' = [reader EXCEPT ![r] = "done"]
          /\ caller' = Fail(caller, FailRuns(caller) \cup FailPending(caller))

NextAttempt_Endless(r) ==
    /\ reader' = [reader EXCEPT ![r] = "backoff"]
    /\ UNCHANGED <<attempt, caller>>

\* An attempt is over: try again after the next backoff, or give up and fail
\* everything that waits.
NextAttempt(r) ==
    /\ attempt' = [attempt EXCEPT ![r] = @ + 1]
    /\ \/ /\ attempt[r] + 1 < MaxReconnect
          /\ reader' = [reader EXCEPT ![r] = "backoff"]
          /\ UNCHANGED caller
       \/ /\ attempt[r] + 1 = MaxReconnect
          /\ reader' = [reader EXCEPT ![r] = "done"]
          /\ caller' = Fail(caller, FailRuns(caller) \cup FailPending(caller))

\* Opening or the handshake fails: the inner finally closes self._ws, which
\* after a failed open is still the old socket.
AttemptFail(r) ==
    /\ reader[r] \in {"open", "hs"}
    /\ r \notin cancelled
    /\ \/ /\ ws # None
          /\ on' = [on EXCEPT ![r] = ws]
          /\ reader' = [reader EXCEPT ![r] = "closeRetry"]
          /\ UNCHANGED <<lock, attempt, caller>>
       \/ /\ ws = None
          /\ lock' = None
          /\ NextAttempt(r)
          /\ UNCHANGED on
    /\ UNCHANGED <<sock, ws, connected, readerTask, gauge, cancelled, home, closeVars>>

CloseRetryDone(r) ==
    /\ reader[r] = "closeRetry"
    /\ r \notin cancelled
    /\ sock' = [sock EXCEPT ![on[r]] = "dead"]
    /\ ws' = None
    /\ lock' = None
    /\ NextAttempt(r)
    /\ UNCHANGED <<connected, readerTask, gauge, on, cancelled, home, closeVars>>

\* The outer finally of a handler that was cancelled: fail everything.
GiveUp(r) ==
    /\ reader' = [reader EXCEPT ![r] = "done"]
    /\ caller' = Fail(caller, FailRuns(caller) \cup FailPending(caller))

\* CancelledError is delivered.  In recv() or before the first step the task
\* just ends; in _handle_disconnect() the finally clauses run first, and the
\* inner one awaits the close of self._ws.  A second await that is cancelled
\* (closeRetry) skips the reset of self._ws.
ReaderCancelled(r) ==
    /\ r \in cancelled
    /\ cancelled' = cancelled \ {r}
    /\ \/ /\ reader[r] \in {"new", "recv"}
          /\ reader' = [reader EXCEPT ![r] = "done"]
          /\ UNCHANGED <<on, lock, caller>>
       \/ /\ reader[r] \in {"backoff", "lock"}
          /\ GiveUp(r)
          /\ UNCHANGED <<on, lock>>
       \/ /\ reader[r] \in {"open", "hs"}
          /\ ws # None
          /\ on' = [on EXCEPT ![r] = ws]
          /\ reader' = [reader EXCEPT ![r] = "closeCancel"]
          /\ UNCHANGED <<lock, caller>>
       \/ /\ \/ reader[r] \in {"open", "hs"} /\ ws = None
             \/ reader[r] = "closeRetry"
          /\ lock' = None
          /\ GiveUp(r)
          /\ UNCHANGED on
    /\ UNCHANGED <<sock, ws, connected, readerTask, gauge, attempt, home, closeVars>>

CloseCancelDone(r) ==
    /\ reader[r] = "closeCancel"
    /\ sock' = [sock EXCEPT ![on[r]] = "dead"]
    /\ ws' = None
    /\ lock' = None
    /\ GiveUp(r)
    /\ UNCHANGED <<connected, readerTask, gauge, on, attempt, cancelled, home, closeVars>>

-----------------------------------------------------------------------------
(* close(): called once, by _drain_and_close, with no lock *)

ReadersAt(pcs) == {r \in Sockets : reader[r] \in pcs}

\* From `if self._ws:` on: await the socket's close, or finish at once.
CloseSocketPart ==
    /\ readerTask' = None
    /\ \/ /\ ws # None
          /\ closer' = "wsclose"
          /\ closing' = ws
          /\ UNCHANGED <<caller, gauge>>
       \/ /\ ws = None
          /\ closer' = "done"
          /\ closing' = None
          /\ caller' = Fail(caller, FailRuns(caller) \cup FailPending(caller))
          /\ gauge' = IF wasConnected' THEN gauge - 1 ELSE gauge

\* Mutant: the reader is awaited but not cancelled.
CloseStart_NoCancel ==
    /\ MayClose
    /\ closer = "no"
    /\ wasConnected' = connected
    /\ connected' = FALSE
    /\ \/ /\ readerTask \in {None} \cup ReadersAt({"done"})
          /\ CloseSocketPart
       \/ /\ readerTask \in ReadersAt(ReaderPC \ {"done", "crashed"})
          /\ closer' = "await"
          /\ closing' = readerTask
          /\ UNCHANGED <<readerTask, caller, gauge>>
    /\ UNCHANGED <<sock, ws, lock, readerVars, home>>

\* Mark disconnected and cancel the reader.  Awaiting a reader that ended
\* with an exception raises it here, and close() goes no further.
CloseStart ==
    /\ MayClose
    /\ closer = "no"
    /\ wasConnected' = connected
    /\ connected' = FALSE
    /\ \/ /\ readerTask \in {None} \cup ReadersAt({"done"})
          /\ CloseSocketPart
          /\ UNCHANGED cancelled
       \/ /\ readerTask \in ReadersAt({"crashed"})
          /\ closer' = "aborted"
          /\ UNCHANGED <<readerTask, closing, caller, gauge, cancelled>>
       \/ /\ readerTask \in ReadersAt(ReaderPC \ {"done", "crashed"})
          /\ cancelled' = cancelled \cup {readerTask}
          /\ closer' = "await"
          /\ closing' = readerTask
          /\ UNCHANGED <<readerTask, caller, gauge>>
    /\ UNCHANGED <<sock, ws, lock, reader, on, attempt, home>>

CloseReaderEnded ==
    /\ closer = "await"
    /\ reader[closing] = "done"
    /\ UNCHANGED wasConnected
    /\ CloseSocketPart
    /\ UNCHANGED <<sock, ws, connected, lock, readerVars, home>>

\* Mutant: the gauge follows self._connected as it is now.
CloseFinish_LateRead ==
    /\ closer = "wsclose"
    /\ closer' = "done"
    /\ closing' = None
    /\ sock' = [sock EXCEPT ![closing] = "dead"]
    /\ ws' = None
    /\ caller' = Fail(caller, FailRuns(caller) \cup FailPending(caller))
    /\ gauge' = IF connected THEN gauge - 1 ELSE gauge
    /\ UNCHANGED <<connected, lock, readerTask, readerVars, home, wasConnected>>

CloseFinish ==
    /\ closer = "wsclose"
    /\ closer' = "done"
    /\ closing' = None
    /\ sock' = [sock EXCEPT ![closing] = "dead"]
    /\ ws' = None
    /\ caller' = Fail(caller, FailRuns(caller) \cup FailPending(caller))
    /\ gauge' = IF wasConnected THEN gauge - 1 ELSE gauge
    /\ UNCHANGED <<connected, lock, readerTask, readerVars, home, wasConnected>>

-----------------------------------------------------------------------------
(* The Gateway and the network *)

SocketDies(w) ==
    /\ sock[w] = "open"
    /\ sock' = [sock EXCEPT ![w] = "dead"]
    /\ UNCHANGED <<ws, connected, lock, readerTask, gauge,
                   readerVars, callerVars, closeVars>>

-----------------------------------------------------------------------------
Init ==
    /\ sock = [w \in Sockets |-> "free"]
    /\ ws = None
    /\ connected = FALSE
    /\ lock = None
    /\ readerTask = None
    /\ gauge = 0
    /\ reader = [r \in Sockets |-> "none"]
    /\ on = [r \in Sockets |-> None]
    /\ attempt = [r \in Sockets |-> 0]
    /\ cancelled = {}
    /\ caller = [c \in Callers |-> "idle"]
    /\ home = [c \in Callers |-> None]
    /\ closer = "no"
    /\ closing = None
    /\ wasConnected = FALSE

\* A reader in its endless loop never returns to the event loop: no other
\* task of the process runs again.
Frozen == \E r \in Sockets : reader[r] = "spin"

CallerStep(c) ==
    \/ ConnectFast(c) \/ ConnectSlow(c) \/ ConnectLocked(c)
    \/ OpenOk(c) \/ OpenFail(c)
    \/ HandshakeOk(c) \/ HandshakeFail(c) \/ FailCloseDone(c)
    \/ CancelCaller(c) \/ RequestTimeout(c) \/ SeeFailure(c)

ReaderStep(r) ==
    \/ ReaderStart(r) \/ ReaderFrame(r) \/ ReaderCrash(r) \/ ReaderClosed(r)
    \/ BackoffEnds(r) \/ ReconnectLockGranted(r)
    \/ ReconnectOpenOk(r) \/ ReconnectHandshakeOk(r)
    \/ AttemptFail(r) \/ CloseRetryDone(r)
    \/ ReaderCancelled(r) \/ CloseCancelDone(r)

CloseStep == CloseStart \/ CloseReaderEnded \/ CloseFinish

TaskStep ==
    \/ \E c \in Callers : CallerStep(c)
    \/ \E r \in Sockets : ReaderStep(r)
    \/ CloseStep

Next ==
    \/ ~Frozen /\ TaskStep
    \/ \E w \in Sockets : SocketDies(w)

Spec == Init /\ [][Next]_vars

\* Network waits are bounded (open 10 s, each handshake frame 10 s, close
\* 10 s, the backoff sleep), so a task inside one gets on; asyncio.Lock serves
\* its waiters in turn.  Nothing is assumed of users, of close() being
\* called, of the request timeout, or of frames arriving.
CallerProgress(c) ==
    ~Frozen /\ (\/ OpenOk(c) \/ OpenFail(c) \/ HandshakeOk(c)
                \/ HandshakeFail(c) \/ FailCloseDone(c) \/ SeeFailure(c))

ReaderProgress(r) ==
    ~Frozen /\ (\/ ReaderStart(r) \/ ReaderClosed(r) \/ BackoffEnds(r)
                \/ ReconnectOpenOk(r) \/ ReconnectHandshakeOk(r)
                \/ AttemptFail(r) \/ CloseRetryDone(r)
                \/ ReaderCancelled(r) \/ CloseCancelDone(r))

Fairness ==
    /\ \A c \in Callers : /\ WF_vars(CallerProgress(c))
                          /\ SF_vars(~Frozen /\ ConnectLocked(c))
    /\ \A r \in Sockets : /\ WF_vars(ReaderProgress(r))
                          /\ SF_vars(~Frozen /\ ReconnectLockGranted(r))
    /\ WF_vars(~Frozen /\ (CloseReaderEnded \/ CloseFinish))

FairSpec == Spec /\ Fairness

-----------------------------------------------------------------------------
(* Properties *)

HandlerPC == {"backoff", "lock"} \cup ReaderBuilding

\* The openclaw.gateway.connections gauge, which three functions move from
\* different tasks, counts the live connection and what close() still owes.
Live == IF connected THEN 1 ELSE 0
Owed == IF wasConnected /\ closer \in {"await", "wsclose", "aborted"} THEN 1 ELSE 0
GaugeMatches == gauge = Live + Owed

\* No two readers at once: apart from a task that close() has cancelled, at
\* most one task is in _reader_loop's receive loop, and only while the client
\* is connected.  Two would steal frames from each other.
SingleReader ==
    \A r \in Sockets :
        reader[r] \in LiveReader /\ r \notin cancelled =>
            /\ connected
            /\ \A q \in Sockets :
                  reader[q] \in LiveReader /\ q \notin cancelled => q = r

\* connect() and the reconnect loop exclude each other: one task at a time is
\* building a connection, it holds the lock, and nobody builds a second
\* connection beside a live one.
OneBuilder ==
    /\ \A c \in Callers : caller[c] \in CallerBuilding => lock = c
    /\ \A r \in Sockets : reader[r] \in ReaderBuilding => lock = r
    /\ lock # None => ~connected

\* Every open WebSocket is the client's current one, so that a failed
\* handshake or reconnect attempt leaves no half-open socket (_do_connect).
NoHalfOpenSocket == \A w \in Sockets : sock[w] = "open" => ws = w

\* A client that says it is connected has a socket: the assertion at the top
\* of _send and of _reader_loop.
ConnectedHasSocket == connected => ws # None

\* A run is told that its connection was lost only if it was: nobody fails
\* a run that lives on a healthy socket, unless the client is being closed.
OnlyLostRunsFail ==
    [][\A c \in Callers :
         caller[c] = "stream" /\ caller'[c] = "failed" /\ closer = "no"
             => sock[home[c]] = "dead" \/ closer' = "done"]_vars

\* A run whose connection is lost ends without waiting for its request
\* timeout (the reader tells it), unless the reader itself has crashed.
InterruptedRunsEnd ==
    \A c \in Callers :
        caller[c] = "stream" /\ sock[home[c]] = "dead"
            ~> \/ caller[c] # "stream"
               \/ \E r \in Sockets : reader[r] = "crashed"

\* Nobody waits for ever for the connect lock, and a reconnect loop ends.
WaitsEnd ==
    /\ \A c \in Callers : caller[c] = "lock" ~> caller[c] # "lock"
    /\ \A r \in Sockets : reader[r] \in HandlerPC ~> reader[r] \notin HandlerPC
=============================================================================
