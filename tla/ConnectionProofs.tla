-------------------------- MODULE ConnectionProofs --------------------------
(***************************************************************************)
(* Proofs about Connection, for any number of callers, sockets and         *)
(* reconnect attempts, with close() and user stops allowed or not.         *)
(*                                                                         *)
(* Each invariant comes with three lemmas, one for the steps of callers,   *)
(* one for those of readers and one for close(); a lemma has one case per  *)
(* action.  Sockets dying only changes `sock' and is treated at the end.   *)
(***************************************************************************)
EXTENDS Connection, TLAPS

\* Until close() runs, the one live reader is the task in self._reader_task,
\* which is why close() reaches the reader that matters to the gauge.
KnownReader ==
    \A r \in Sockets :
        closer = "no" /\ reader[r] \in LiveReader /\ r \notin cancelled
            => readerTask = r

\* Until close() runs, a request in flight lives on the current socket of a
\* connected client, or on a dead socket; the reader awaits the current one.
RunsAtHome ==
    closer = "no" =>
        /\ cancelled = {}
        /\ \A r \in Sockets : reader[r] # "closeCancel"
        /\ \A r \in Sockets : reader[r] = "recv" => on[r] = ws
        /\ \A c \in Callers :
              caller[c] \in {"pending", "stream"} =>
                  /\ home[c] \in Sockets
                  /\ sock[home[c]] = "dead" \/ (connected /\ home[c] = ws)

\* Until close() runs, a connection that is up or in its handshake has a socket.
SocketKept ==
    closer = "no" =>
        /\ ConnectedHasSocket
        /\ \A c \in Callers : caller[c] = "hs" => ws # None
        /\ \A r \in Sockets : reader[r] = "hs" => ws # None

\* While connections fail only by themselves, an open socket is the current
\* one and somebody answers for it: the connected client, or the task that
\* is building a connection on it or closing it again.
SocketHeld ==
    /\ \A c \in Callers : caller[c] \in {"hs", "failClose"} => home[c] = ws
    /\ \A r \in Sockets : reader[r] \in {"hs", "closeRetry"} => on[r] = ws
    /\ \A w \in Sockets :
          sock[w] = "open" =>
              /\ ws = w
              /\ \/ connected
                 \/ \E c \in Callers : caller[c] \in {"hs", "failClose"}
                 \/ \E r \in Sockets : reader[r] \in {"hs", "closeRetry"}

\* The inductive invariant.
IInv ==
    /\ TypeOK
    /\ OneBuilder
    /\ SingleReader
    /\ KnownReader
    /\ GaugeMatches
    /\ RunsAtHome
    /\ SocketKept

USE DEF CallerBuilding, ReaderBuilding, LiveReader, CallerPC, ReaderPC, CloserPC

-----------------------------------------------------------------------------
(* Type correctness *)

\* Failing callers moves them to a legal place, whoever they are.
LEMMA FailType ==
  ASSUME caller \in [Callers -> CallerPC], NEW victims
  PROVE  Fail(caller, victims) \in [Callers -> CallerPC]
  BY DEF Fail

\* A caller's step keeps the types.
LEMMA CallerType ==
  ASSUME TypeOK, NEW c \in Callers, CallerStep(c)
  PROVE  TypeOK'
<1>1. CASE ConnectFast(c)
  BY <1>1, ConnectionAssumption, FailType DEF TypeOK, ConnectFast, Send, connVars,
       readerVars, closeVars
<1>2. CASE ConnectSlow(c)
  BY <1>2, ConnectionAssumption, FailType DEF TypeOK, ConnectSlow, readerVars, closeVars
<1>3. CASE ConnectLocked(c)
  BY <1>3, ConnectionAssumption, FailType DEF TypeOK, ConnectLocked, Send, readerVars,
       closeVars
<1>4. CASE OpenOk(c)
  BY <1>4, ConnectionAssumption, FailType DEF TypeOK, OpenOk, readerVars, closeVars
<1>5. CASE OpenFail(c)
  BY <1>5, ConnectionAssumption, FailType DEF TypeOK, OpenFail, Leave, readerVars,
       closeVars
<1>6. CASE HandshakeOk(c)
  <2>1. connected' \in BOOLEAN /\ wasConnected' \in BOOLEAN
    BY <1>6, Zenon DEF TypeOK, HandshakeOk, Established, closeVars
  <2>2. reader' \in [Sockets -> ReaderPC]
    BY <1>6 DEF TypeOK, HandshakeOk
  <2>3. caller' \in [Callers -> CallerPC] /\ home' \in [Callers -> Sockets \cup {None}]
    BY <1>6 DEF TypeOK, HandshakeOk, Send
  <2>4. /\ readerTask' \in Sockets \cup {None}
        /\ lock' \in Callers \cup Sockets \cup {None}
        /\ gauge' \in Int
    BY <1>6 DEF TypeOK, HandshakeOk, Established
  <2> QED
    BY <1>6, <2>1, <2>2, <2>3, <2>4 DEF TypeOK, HandshakeOk, closeVars
<1>7. CASE HandshakeFail(c)
  BY <1>7, ConnectionAssumption, FailType DEF TypeOK, HandshakeFail, Leave,
       readerVars, closeVars
<1>8. CASE FailCloseDone(c)
  BY <1>8, ConnectionAssumption, FailType DEF TypeOK, FailCloseDone, Leave,
       readerVars, closeVars
<1>9. CASE CancelCaller(c)
  BY <1>9, ConnectionAssumption, FailType DEF TypeOK, CancelCaller, Leave, readerVars,
       closeVars
<1>10. CASE RequestTimeout(c)
  BY <1>10, ConnectionAssumption, FailType DEF TypeOK, RequestTimeout, Leave,
       connVars, readerVars, closeVars
<1>11. CASE SeeFailure(c)
  BY <1>11, ConnectionAssumption, FailType DEF TypeOK, SeeFailure, Leave, connVars,
       readerVars, closeVars
<1> QED
  BY <1>1, <1>2, <1>3, <1>4, <1>5, <1>6, <1>7, <1>8, <1>9, <1>10, <1>11 DEF CallerStep

\* A reader's step keeps the types.
LEMMA ReaderType ==
  ASSUME TypeOK, NEW r \in Sockets, ReaderStep(r)
  PROVE  TypeOK'
<1>1. CASE ReaderStart(r)
  BY <1>1, ConnectionAssumption, FailType DEF TypeOK, ReaderStart, LoopHead, connVars,
       callerVars, closeVars
<1>2. CASE ReaderFrame(r)
  BY <1>2, ConnectionAssumption, FailType DEF TypeOK, ReaderFrame, LoopHead, Leave,
       connVars, callerVars, closeVars
<1>3. CASE ReaderCrash(r)
  BY <1>3, ConnectionAssumption, FailType DEF TypeOK, ReaderCrash, connVars,
       callerVars, closeVars
<1>4. CASE ReaderClosed(r)
  <2>1. connected' \in BOOLEAN /\ wasConnected' \in BOOLEAN
    BY <1>4, Zenon DEF TypeOK, ReaderClosed, closeVars
  <2>2. reader' \in [Sockets -> ReaderPC] /\ caller' \in [Callers -> CallerPC]
    BY <1>4, FailType DEF TypeOK, ReaderClosed
  <2>3. /\ attempt' \in [Sockets -> 0..MaxReconnect]
        /\ on' \in [Sockets -> Sockets \cup {None}]
        /\ gauge' \in Int
    BY <1>4, ConnectionAssumption DEF TypeOK, ReaderClosed
  <2> QED
    BY <1>4, <2>1, <2>2, <2>3 DEF TypeOK, ReaderClosed, closeVars
<1>5. CASE BackoffEnds(r)
  BY <1>5, ConnectionAssumption, FailType DEF TypeOK, BackoffEnds, ReconnectLocked,
       callerVars, closeVars
<1>6. CASE ReconnectLockGranted(r)
  BY <1>6, ConnectionAssumption, FailType DEF TypeOK, ReconnectLockGranted,
       ReconnectLocked, callerVars, closeVars
<1>7. CASE ReconnectOpenOk(r)
  BY <1>7, ConnectionAssumption, FailType DEF TypeOK, ReconnectOpenOk, callerVars,
       closeVars
<1>8. CASE ReconnectHandshakeOk(r)
  <2>1. connected' \in BOOLEAN /\ wasConnected' \in BOOLEAN
    BY <1>8, Zenon DEF TypeOK, ReconnectHandshakeOk, Established, closeVars
  <2>2. reader' \in [Sockets -> ReaderPC] /\ caller' \in [Callers -> CallerPC]
    BY <1>8, FailType DEF TypeOK, ReconnectHandshakeOk
  <2>3. readerTask' \in Sockets \cup {None} /\ gauge' \in Int
    BY <1>8 DEF TypeOK, ReconnectHandshakeOk, Established
  <2> QED
    BY <1>8, <2>1, <2>2, <2>3 DEF TypeOK, ReconnectHandshakeOk, closeVars
<1>9. CASE AttemptFail(r)
  BY <1>9, ConnectionAssumption, FailType DEF TypeOK, AttemptFail, NextAttempt,
       closeVars
<1>10. CASE CloseRetryDone(r)
  <2>1. reader' \in [Sockets -> ReaderPC] /\ caller' \in [Callers -> CallerPC]
    BY <1>10, FailType DEF TypeOK, CloseRetryDone, NextAttempt
  <2>2. attempt' \in [Sockets -> 0..MaxReconnect]
    BY <1>10, ConnectionAssumption DEF TypeOK, CloseRetryDone, NextAttempt
  <2> QED
    BY <1>10, <2>1, <2>2 DEF TypeOK, CloseRetryDone, closeVars
<1>11. CASE ReaderCancelled(r)
  BY <1>11, ConnectionAssumption, FailType DEF TypeOK, ReaderCancelled, GiveUp,
       closeVars
<1>12. CASE CloseCancelDone(r)
  BY <1>12, ConnectionAssumption, FailType DEF TypeOK, CloseCancelDone, GiveUp,
       closeVars
<1> QED
  BY <1>1, <1>2, <1>3, <1>4, <1>5, <1>6, <1>7, <1>8, <1>9, <1>10, <1>11, <1>12 DEF
       ReaderStep

\* A step of close() keeps the types.
LEMMA CloseType ==
  ASSUME TypeOK, CloseStep
  PROVE  TypeOK'
<1>1. CASE CloseStart
  <2>1. connected' \in BOOLEAN /\ wasConnected' \in BOOLEAN
    BY <1>1, Zenon DEF TypeOK, CloseStart, CloseSocketPart
  <2>2. caller' \in [Callers -> CallerPC] /\ gauge' \in Int
    BY <1>1, FailType DEF TypeOK, CloseStart, CloseSocketPart
  <2>3. cancelled' \subseteq Sockets
    BY <1>1 DEF TypeOK, CloseStart, ReadersAt
  <2>4. /\ readerTask' \in Sockets \cup {None}
        /\ closer' \in CloserPC
        /\ closing' \in Sockets \cup {None}
    BY <1>1 DEF TypeOK, CloseStart, CloseSocketPart, ReadersAt
  <2> QED
    BY <1>1, <2>1, <2>2, <2>3, <2>4 DEF TypeOK, CloseStart
<1>2. CASE CloseReaderEnded
  BY <1>2, ConnectionAssumption, FailType DEF TypeOK, CloseReaderEnded,
       CloseSocketPart, readerVars
<1>3. CASE CloseFinish
  <2>1. caller' \in [Callers -> CallerPC] /\ gauge' \in Int
    BY <1>3, FailType DEF TypeOK, CloseFinish
  <2> QED
    BY <1>3, <2>1 DEF TypeOK, CloseFinish, readerVars
<1> QED
  BY <1>1, <1>2, <1>3 DEF CloseStep

-----------------------------------------------------------------------------
(* One builder, one reader *)

\* A caller's step keeps connection building exclusive.
LEMMA CallerBuilder ==
  ASSUME TypeOK, OneBuilder, NEW c \in Callers, CallerStep(c)
  PROVE  OneBuilder'
<1>1. CASE ConnectFast(c)
  BY <1>1, ConnectionAssumption DEF TypeOK, OneBuilder, ConnectFast, Send, connVars,
       readerVars, closeVars
<1>2. CASE ConnectSlow(c)
  BY <1>2, ConnectionAssumption DEF TypeOK, OneBuilder, ConnectSlow, LockIdle,
       readerVars, closeVars
<1>3. CASE ConnectLocked(c)
  BY <1>3, ConnectionAssumption DEF TypeOK, OneBuilder, ConnectLocked, Send,
       readerVars, closeVars
<1>4. CASE OpenOk(c)
  BY <1>4, ConnectionAssumption DEF TypeOK, OneBuilder, OpenOk, readerVars, closeVars
<1>5. CASE OpenFail(c)
  BY <1>5, ConnectionAssumption DEF TypeOK, OneBuilder, OpenFail, Leave, readerVars,
       closeVars
<1>6. CASE HandshakeOk(c)
  BY <1>6, ConnectionAssumption DEF TypeOK, OneBuilder, HandshakeOk, Established,
       Send, closeVars
<1>7. CASE HandshakeFail(c)
  BY <1>7, ConnectionAssumption DEF TypeOK, OneBuilder, HandshakeFail, Leave,
       readerVars, closeVars
<1>8. CASE FailCloseDone(c)
  BY <1>8, ConnectionAssumption DEF TypeOK, OneBuilder, FailCloseDone, Leave,
       readerVars, closeVars
<1>9. CASE CancelCaller(c)
  BY <1>9, ConnectionAssumption DEF TypeOK, OneBuilder, CancelCaller, Leave,
       readerVars, closeVars
<1>10. CASE RequestTimeout(c)
  BY <1>10, ConnectionAssumption DEF TypeOK, OneBuilder, RequestTimeout, Leave,
       connVars, readerVars, closeVars
<1>11. CASE SeeFailure(c)
  BY <1>11, ConnectionAssumption DEF TypeOK, OneBuilder, SeeFailure, Leave, connVars,
       readerVars, closeVars
<1> QED
  BY <1>1, <1>2, <1>3, <1>4, <1>5, <1>6, <1>7, <1>8, <1>9, <1>10, <1>11 DEF CallerStep

\* A reader's step keeps connection building exclusive.
LEMMA ReaderBuilder ==
  ASSUME TypeOK, OneBuilder, NEW r \in Sockets, ReaderStep(r)
  PROVE  OneBuilder'
<1>1. CASE ReaderStart(r)
  BY <1>1, ConnectionAssumption DEF TypeOK, OneBuilder, ReaderStart, LoopHead,
       connVars, callerVars, closeVars
<1>2. CASE ReaderFrame(r)
  BY <1>2, ConnectionAssumption DEF TypeOK, OneBuilder, ReaderFrame, LoopHead, Leave,
       connVars, callerVars, closeVars
<1>3. CASE ReaderCrash(r)
  BY <1>3, ConnectionAssumption DEF TypeOK, OneBuilder, ReaderCrash, connVars,
       callerVars, closeVars
<1>4. CASE ReaderClosed(r)
  BY <1>4, ConnectionAssumption DEF TypeOK, OneBuilder, ReaderClosed, Fail, closeVars
<1>5. CASE BackoffEnds(r)
  BY <1>5, ConnectionAssumption DEF TypeOK, OneBuilder, BackoffEnds, LockIdle,
       ReconnectLocked, callerVars, closeVars
<1>6. CASE ReconnectLockGranted(r)
  BY <1>6, ConnectionAssumption DEF TypeOK, OneBuilder, ReconnectLockGranted,
       ReconnectLocked, callerVars, closeVars
<1>7. CASE ReconnectOpenOk(r)
  BY <1>7, ConnectionAssumption DEF TypeOK, OneBuilder, ReconnectOpenOk, callerVars,
       closeVars
<1>8. CASE ReconnectHandshakeOk(r)
  BY <1>8, ConnectionAssumption DEF TypeOK, OneBuilder, ReconnectHandshakeOk,
       Established, Fail, closeVars
<1>9. CASE AttemptFail(r)
  BY <1>9, ConnectionAssumption DEF TypeOK, OneBuilder, AttemptFail, NextAttempt,
       Fail, closeVars
<1>10. CASE CloseRetryDone(r)
  BY <1>10, ConnectionAssumption DEF TypeOK, OneBuilder, CloseRetryDone, NextAttempt,
       Fail, closeVars
<1>11. CASE ReaderCancelled(r)
  BY <1>11, ConnectionAssumption DEF TypeOK, OneBuilder, ReaderCancelled, GiveUp,
       Fail, closeVars
<1>12. CASE CloseCancelDone(r)
  BY <1>12, ConnectionAssumption DEF TypeOK, OneBuilder, CloseCancelDone, GiveUp,
       Fail, closeVars
<1> QED
  BY <1>1, <1>2, <1>3, <1>4, <1>5, <1>6, <1>7, <1>8, <1>9, <1>10, <1>11, <1>12 DEF
       ReaderStep

\* A step of close() keeps connection building exclusive.
LEMMA CloseBuilder ==
  ASSUME TypeOK, OneBuilder, CloseStep
  PROVE  OneBuilder'
<1>1. CASE CloseStart
  BY <1>1, ConnectionAssumption DEF TypeOK, OneBuilder, CloseStart, CloseSocketPart,
       ReadersAt, Fail
<1>2. CASE CloseReaderEnded
  BY <1>2, ConnectionAssumption DEF TypeOK, OneBuilder, CloseReaderEnded,
       CloseSocketPart, Fail, readerVars
<1>3. CASE CloseFinish
  BY <1>3, ConnectionAssumption DEF TypeOK, OneBuilder, CloseFinish, Fail, readerVars
<1> QED
  BY <1>1, <1>2, <1>3 DEF CloseStep

\* A caller's step keeps the reader unique.
LEMMA CallerSingle ==
  ASSUME TypeOK, OneBuilder, SingleReader, KnownReader, NEW c \in Callers, CallerStep(c)
  PROVE  SingleReader' /\ KnownReader'
<1>1. CASE ConnectFast(c)
  BY <1>1, ConnectionAssumption DEF TypeOK, OneBuilder, SingleReader, KnownReader,
       ConnectFast, Send, connVars, readerVars, closeVars
<1>2. CASE ConnectSlow(c)
  BY <1>2, ConnectionAssumption DEF TypeOK, OneBuilder, SingleReader, KnownReader,
       ConnectSlow, LockIdle, readerVars, closeVars
<1>3. CASE ConnectLocked(c)
  BY <1>3, ConnectionAssumption DEF TypeOK, OneBuilder, SingleReader, KnownReader,
       ConnectLocked, Send, readerVars, closeVars
<1>4. CASE OpenOk(c)
  BY <1>4, ConnectionAssumption DEF TypeOK, OneBuilder, SingleReader, KnownReader,
       OpenOk, readerVars, closeVars
<1>5. CASE OpenFail(c)
  BY <1>5, ConnectionAssumption DEF TypeOK, OneBuilder, SingleReader, KnownReader,
       OpenFail, Leave, readerVars, closeVars
<1>6. CASE HandshakeOk(c)
  BY <1>6, ConnectionAssumption DEF TypeOK, OneBuilder, SingleReader, KnownReader,
       HandshakeOk, Established, Send, closeVars
<1>7. CASE HandshakeFail(c)
  BY <1>7, ConnectionAssumption DEF TypeOK, OneBuilder, SingleReader, KnownReader,
       HandshakeFail, Leave, readerVars, closeVars
<1>8. CASE FailCloseDone(c)
  BY <1>8, ConnectionAssumption DEF TypeOK, OneBuilder, SingleReader, KnownReader,
       FailCloseDone, Leave, readerVars, closeVars
<1>9. CASE CancelCaller(c)
  BY <1>9, ConnectionAssumption DEF TypeOK, OneBuilder, SingleReader, KnownReader,
       CancelCaller, Leave, readerVars, closeVars
<1>10. CASE RequestTimeout(c)
  BY <1>10, ConnectionAssumption DEF TypeOK, OneBuilder, SingleReader, KnownReader,
       RequestTimeout, Leave, connVars, readerVars, closeVars
<1>11. CASE SeeFailure(c)
  BY <1>11, ConnectionAssumption DEF TypeOK, OneBuilder, SingleReader, KnownReader,
       SeeFailure, Leave, connVars, readerVars, closeVars
<1> QED
  BY <1>1, <1>2, <1>3, <1>4, <1>5, <1>6, <1>7, <1>8, <1>9, <1>10, <1>11 DEF CallerStep

\* A reader's step keeps the reader unique.
LEMMA ReaderSingle ==
  ASSUME TypeOK, OneBuilder, SingleReader, KnownReader, NEW r \in Sockets, ReaderStep(r)
  PROVE  SingleReader' /\ KnownReader'
<1>1. CASE ReaderStart(r)
  BY <1>1, ConnectionAssumption DEF TypeOK, OneBuilder, SingleReader, KnownReader,
       ReaderStart, LoopHead, connVars, callerVars, closeVars
<1>2. CASE ReaderFrame(r)
  BY <1>2, ConnectionAssumption DEF TypeOK, OneBuilder, SingleReader, KnownReader,
       ReaderFrame, LoopHead, Leave, connVars, callerVars, closeVars
<1>3. CASE ReaderCrash(r)
  BY <1>3, ConnectionAssumption DEF TypeOK, OneBuilder, SingleReader, KnownReader,
       ReaderCrash, connVars, callerVars, closeVars
<1>4. CASE ReaderClosed(r)
  BY <1>4, ConnectionAssumption DEF TypeOK, OneBuilder, SingleReader, KnownReader,
       ReaderClosed, Fail, closeVars
<1>5. CASE BackoffEnds(r)
  BY <1>5, ConnectionAssumption DEF TypeOK, OneBuilder, SingleReader, KnownReader,
       BackoffEnds, LockIdle, ReconnectLocked, callerVars, closeVars
<1>6. CASE ReconnectLockGranted(r)
  BY <1>6, ConnectionAssumption DEF TypeOK, OneBuilder, SingleReader, KnownReader,
       ReconnectLockGranted, ReconnectLocked, callerVars, closeVars
<1>7. CASE ReconnectOpenOk(r)
  BY <1>7, ConnectionAssumption DEF TypeOK, OneBuilder, SingleReader, KnownReader,
       ReconnectOpenOk, callerVars, closeVars
<1>8. CASE ReconnectHandshakeOk(r)
  BY <1>8, ConnectionAssumption DEF TypeOK, OneBuilder, SingleReader, KnownReader,
       ReconnectHandshakeOk, Established, Fail, closeVars
<1>9. CASE AttemptFail(r)
  BY <1>9, ConnectionAssumption DEF TypeOK, OneBuilder, SingleReader, KnownReader,
       AttemptFail, NextAttempt, Fail, closeVars
<1>10. CASE CloseRetryDone(r)
  BY <1>10, ConnectionAssumption DEF TypeOK, OneBuilder, SingleReader, KnownReader,
       CloseRetryDone, NextAttempt, Fail, closeVars
<1>11. CASE ReaderCancelled(r)
  BY <1>11, ConnectionAssumption DEF TypeOK, OneBuilder, SingleReader, KnownReader,
       ReaderCancelled, GiveUp, Fail, closeVars
<1>12. CASE CloseCancelDone(r)
  BY <1>12, ConnectionAssumption DEF TypeOK, OneBuilder, SingleReader, KnownReader,
       CloseCancelDone, GiveUp, Fail, closeVars
<1> QED
  BY <1>1, <1>2, <1>3, <1>4, <1>5, <1>6, <1>7, <1>8, <1>9, <1>10, <1>11, <1>12 DEF
       ReaderStep

\* A step of close() keeps the reader unique.
LEMMA CloseSingle ==
  ASSUME TypeOK, OneBuilder, SingleReader, KnownReader, CloseStep
  PROVE  SingleReader' /\ KnownReader'
<1>1. CASE CloseStart
  BY <1>1, ConnectionAssumption DEF TypeOK, OneBuilder, SingleReader, KnownReader,
       CloseStart, CloseSocketPart, ReadersAt, Fail
<1>2. CASE CloseReaderEnded
  BY <1>2, ConnectionAssumption DEF TypeOK, OneBuilder, SingleReader, KnownReader,
       CloseReaderEnded, CloseSocketPart, Fail, readerVars
<1>3. CASE CloseFinish
  BY <1>3, ConnectionAssumption DEF TypeOK, OneBuilder, SingleReader, KnownReader,
       CloseFinish, Fail, readerVars
<1> QED
  BY <1>1, <1>2, <1>3 DEF CloseStep

-----------------------------------------------------------------------------
(* The gauge *)

\* A step that moves neither the connection, the gauge nor close().
LEMMA GaugeFrame ==
  ASSUME GaugeMatches, UNCHANGED <<connected, gauge, closer, wasConnected>>
  PROVE  GaugeMatches'
  BY DEF GaugeMatches, Live, Owed

\* A step that brings the connection up, or takes it down, and counts it.
LEMMA GaugeMoves ==
  ASSUME GaugeMatches, TypeOK, UNCHANGED <<closer, wasConnected>>,
         \/ connected = FALSE /\ connected' = TRUE /\ gauge' = gauge + 1
         \/ connected = TRUE /\ connected' = FALSE /\ gauge' = gauge - 1
  PROVE  GaugeMatches'
<1>1. Owed' = Owed /\ Owed \in Int
  BY DEF Owed
<1>2. gauge = Live + Owed /\ gauge \in Int
  BY DEF GaugeMatches, TypeOK
<1>3. CASE connected = FALSE /\ connected' = TRUE /\ gauge' = gauge + 1
  <2>1. Live = 0 /\ Live' = 1
    BY <1>3, Zenon DEF Live
  <2> QED
    BY <1>1, <1>2, <1>3, <2>1 DEF GaugeMatches
<1>4. CASE connected = TRUE /\ connected' = FALSE /\ gauge' = gauge - 1
  <2>1. Live = 1 /\ Live' = 0
    BY <1>4, Zenon DEF Live
  <2> QED
    BY <1>1, <1>2, <1>4, <2>1 DEF GaugeMatches
<1> QED
  BY <1>3, <1>4

\* A caller's step keeps the gauge.
LEMMA CallerGauge ==
  ASSUME TypeOK, OneBuilder, SingleReader, GaugeMatches, NEW c \in Callers, CallerStep(c)
  PROVE  GaugeMatches'
<1>1. CASE ConnectFast(c)
  BY <1>1, GaugeFrame DEF ConnectFast, connVars, closeVars
<1>2. CASE ConnectSlow(c)
  BY <1>2, GaugeFrame DEF ConnectSlow, connVars, closeVars
<1>3. CASE ConnectLocked(c)
  BY <1>3, GaugeFrame DEF ConnectLocked, connVars, closeVars
<1>4. CASE OpenOk(c)
  BY <1>4, GaugeFrame DEF OpenOk, connVars, closeVars
<1>5. CASE OpenFail(c)
  BY <1>5, GaugeFrame DEF OpenFail, connVars, closeVars
<1>6. CASE HandshakeOk(c)
  <2>1. connected = FALSE
    BY <1>6, ConnectionAssumption DEF TypeOK, OneBuilder, HandshakeOk
  <2> QED
    BY <1>6, <2>1, GaugeMoves DEF HandshakeOk, Established, closeVars
<1>7. CASE HandshakeFail(c)
  BY <1>7, GaugeFrame DEF HandshakeFail, connVars, closeVars
<1>8. CASE FailCloseDone(c)
  BY <1>8, GaugeFrame DEF FailCloseDone, connVars, closeVars
<1>9. CASE CancelCaller(c)
  BY <1>9, GaugeFrame DEF CancelCaller, connVars, closeVars
<1>10. CASE RequestTimeout(c)
  BY <1>10, GaugeFrame DEF RequestTimeout, connVars, closeVars
<1>11. CASE SeeFailure(c)
  BY <1>11, GaugeFrame DEF SeeFailure, connVars, closeVars
<1> QED
  BY <1>1, <1>2, <1>3, <1>4, <1>5, <1>6, <1>7, <1>8, <1>9, <1>10, <1>11 DEF CallerStep

\* A reader's step keeps the gauge.
LEMMA ReaderGauge ==
  ASSUME TypeOK, OneBuilder, SingleReader, GaugeMatches, NEW r \in Sockets, ReaderStep(r)
  PROVE  GaugeMatches'
<1>1. CASE ReaderStart(r)
  BY <1>1, GaugeFrame DEF ReaderStart, connVars, closeVars
<1>2. CASE ReaderFrame(r)
  BY <1>2, GaugeFrame DEF ReaderFrame, connVars, closeVars
<1>3. CASE ReaderCrash(r)
  BY <1>3, GaugeFrame DEF ReaderCrash, connVars, closeVars
<1>4. CASE ReaderClosed(r)
  <2>1. connected = TRUE
    BY <1>4 DEF TypeOK, SingleReader, ReaderClosed
  <2> QED
    BY <1>4, <2>1, GaugeMoves DEF ReaderClosed, closeVars
<1>5. CASE BackoffEnds(r)
  BY <1>5, GaugeFrame DEF BackoffEnds, connVars, closeVars
<1>6. CASE ReconnectLockGranted(r)
  BY <1>6, GaugeFrame DEF ReconnectLockGranted, connVars, closeVars
<1>7. CASE ReconnectOpenOk(r)
  BY <1>7, GaugeFrame DEF ReconnectOpenOk, connVars, closeVars
<1>8. CASE ReconnectHandshakeOk(r)
  <2>1. connected = FALSE
    BY <1>8, ConnectionAssumption DEF TypeOK, OneBuilder, ReconnectHandshakeOk
  <2> QED
    BY <1>8, <2>1, GaugeMoves DEF ReconnectHandshakeOk, Established, closeVars
<1>9. CASE AttemptFail(r)
  BY <1>9, GaugeFrame DEF AttemptFail, connVars, closeVars
<1>10. CASE CloseRetryDone(r)
  BY <1>10, GaugeFrame DEF CloseRetryDone, connVars, closeVars
<1>11. CASE ReaderCancelled(r)
  BY <1>11, GaugeFrame DEF ReaderCancelled, connVars, closeVars
<1>12. CASE CloseCancelDone(r)
  BY <1>12, GaugeFrame DEF CloseCancelDone, connVars, closeVars
<1> QED
  BY <1>1, <1>2, <1>3, <1>4, <1>5, <1>6, <1>7, <1>8, <1>9, <1>10, <1>11, <1>12 DEF
       ReaderStep

\* A step of close() keeps the gauge.
LEMMA CloseGauge ==
  ASSUME TypeOK, OneBuilder, SingleReader, GaugeMatches, CloseStep
  PROVE  GaugeMatches'
<1>1. CASE CloseStart
  <2>1. Owed = 0
    BY <1>1 DEF CloseStart, Owed
  <2>2. Live' = 0
    BY <1>1, Zenon DEF CloseStart, Live
  <2>3. wasConnected' = connected
    BY <1>1 DEF CloseStart
  <2>4. gauge = Live /\ gauge \in Int
    BY <2>1 DEF GaugeMatches, TypeOK, Live
  <2>5. CASE closer' = "done"
    <3>1. gauge' = IF wasConnected' THEN gauge - 1 ELSE gauge
      BY <1>1, <2>5 DEF CloseStart, CloseSocketPart
    <3>2. gauge' = 0
      BY <2>3, <2>4, <3>1 DEF Live
    <3> QED
      BY <2>2, <2>5, <3>2 DEF GaugeMatches, Owed
  <2>6. CASE closer' \in {"await", "wsclose", "aborted"}
    <3>1. gauge' = gauge
      BY <1>1, <2>6 DEF CloseStart, CloseSocketPart
    <3>2. Owed' = Live
      BY <2>3, <2>6 DEF Owed, Live
    <3> QED
      BY <2>2, <2>4, <3>1, <3>2 DEF GaugeMatches
  <2> QED
    BY <1>1, <2>5, <2>6 DEF CloseStart, CloseSocketPart
<1>2. CASE CloseReaderEnded
  <2>1. wasConnected' = wasConnected /\ connected' = connected
    BY <1>2 DEF CloseReaderEnded
  <2>2. Live' = Live /\ Live \in Int
    BY <2>1 DEF Live
  <2>3. Owed = IF wasConnected THEN 1 ELSE 0
    BY <1>2 DEF CloseReaderEnded, Owed
  <2>4. CASE closer' = "wsclose" /\ gauge' = gauge
    BY <2>1, <2>2, <2>3, <2>4 DEF GaugeMatches, Owed
  <2>5. CASE closer' = "done" /\ gauge' = IF wasConnected THEN gauge - 1 ELSE gauge
    <3>1. Owed' = 0
      BY <2>5 DEF Owed
    <3> QED
      BY <2>2, <2>3, <2>5, <3>1 DEF GaugeMatches
  <2> QED
    BY <1>2, <2>1, <2>4, <2>5 DEF CloseReaderEnded, CloseSocketPart
<1>3. CASE CloseFinish
  <2>1. Live' = Live /\ Live \in Int
    BY <1>3 DEF CloseFinish, Live
  <2>2. Owed = IF wasConnected THEN 1 ELSE 0
    BY <1>3 DEF CloseFinish, Owed
  <2>3. Owed' = 0
    BY <1>3 DEF CloseFinish, Owed
  <2>4. gauge' = IF wasConnected THEN gauge - 1 ELSE gauge
    BY <1>3 DEF CloseFinish
  <2> QED
    BY <2>1, <2>2, <2>3, <2>4 DEF GaugeMatches
<1> QED
  BY <1>1, <1>2, <1>3 DEF CloseStep

-----------------------------------------------------------------------------
(* Where requests live *)

\* A caller's step keeps requests where they belong.
LEMMA CallerHome ==
  ASSUME TypeOK, OneBuilder, SingleReader, RunsAtHome, NEW c \in Callers, CallerStep(c)
  PROVE  RunsAtHome'
<1>1. CASE ConnectFast(c)
  BY <1>1, ConnectionAssumption DEF TypeOK, OneBuilder, SingleReader, RunsAtHome,
       ConnectFast, Send, connVars, readerVars, closeVars
<1>2. CASE ConnectSlow(c)
  BY <1>2, ConnectionAssumption DEF TypeOK, OneBuilder, SingleReader, RunsAtHome,
       ConnectSlow, LockIdle, readerVars, closeVars
<1>3. CASE ConnectLocked(c)
  BY <1>3, ConnectionAssumption DEF TypeOK, OneBuilder, SingleReader, RunsAtHome,
       ConnectLocked, Send, readerVars, closeVars
<1>4. CASE OpenOk(c)
  <2>1. ~connected
    BY <1>4, ConnectionAssumption DEF TypeOK, OneBuilder, OpenOk
  <2>2. closer = "no" => \A r \in Sockets : reader[r] # "recv"
    BY <2>1 DEF SingleReader, RunsAtHome
  <2>3. closer = "no" => \A k \in Callers : caller[k] \in {"pending", "stream"} =>
                            home[k] \in Sockets /\ sock[home[k]] = "dead"
    BY <2>1 DEF RunsAtHome
  <2> QED
    BY <1>4, <2>2, <2>3 DEF TypeOK, RunsAtHome, OpenOk, readerVars, closeVars
<1>5. CASE OpenFail(c)
  BY <1>5, ConnectionAssumption DEF TypeOK, OneBuilder, SingleReader, RunsAtHome,
       OpenFail, Leave, readerVars, closeVars
<1>6. CASE HandshakeOk(c)
  BY <1>6, ConnectionAssumption DEF TypeOK, OneBuilder, SingleReader, RunsAtHome,
       HandshakeOk, Established, Send, closeVars
<1>7. CASE HandshakeFail(c)
  BY <1>7, ConnectionAssumption DEF TypeOK, OneBuilder, SingleReader, RunsAtHome,
       HandshakeFail, Leave, readerVars, closeVars
<1>8. CASE FailCloseDone(c)
  <2>1. ~connected
    BY <1>8, ConnectionAssumption DEF TypeOK, OneBuilder, FailCloseDone
  <2>2. closer = "no" => \A r \in Sockets : reader[r] # "recv"
    BY <2>1 DEF SingleReader, RunsAtHome
  <2>3. closer = "no" => \A k \in Callers : caller[k] \in {"pending", "stream"} =>
                            home[k] \in Sockets /\ sock[home[k]] = "dead"
    BY <2>1 DEF RunsAtHome
  <2> QED
    BY <1>8, <2>2, <2>3 DEF TypeOK, RunsAtHome, FailCloseDone, Leave, readerVars,
         closeVars
<1>9. CASE CancelCaller(c)
  BY <1>9, ConnectionAssumption DEF TypeOK, OneBuilder, SingleReader, RunsAtHome,
       CancelCaller, Leave, readerVars, closeVars
<1>10. CASE RequestTimeout(c)
  BY <1>10, ConnectionAssumption DEF TypeOK, OneBuilder, SingleReader, RunsAtHome,
       RequestTimeout, Leave, connVars, readerVars, closeVars
<1>11. CASE SeeFailure(c)
  BY <1>11, ConnectionAssumption DEF TypeOK, OneBuilder, SingleReader, RunsAtHome,
       SeeFailure, Leave, connVars, readerVars, closeVars
<1> QED
  BY <1>1, <1>2, <1>3, <1>4, <1>5, <1>6, <1>7, <1>8, <1>9, <1>10, <1>11 DEF CallerStep

\* A reader's step keeps requests where they belong.
LEMMA ReaderHome ==
  ASSUME TypeOK, OneBuilder, SingleReader, RunsAtHome, NEW r \in Sockets, ReaderStep(r)
  PROVE  RunsAtHome'
<1>1. CASE ReaderStart(r)
  BY <1>1, ConnectionAssumption DEF TypeOK, OneBuilder, SingleReader, RunsAtHome,
       ReaderStart, LoopHead, connVars, callerVars, closeVars
<1>2. CASE ReaderFrame(r)
  BY <1>2, ConnectionAssumption DEF TypeOK, OneBuilder, SingleReader, RunsAtHome,
       ReaderFrame, LoopHead, Leave, connVars, callerVars, closeVars
<1>3. CASE ReaderCrash(r)
  BY <1>3, ConnectionAssumption DEF TypeOK, OneBuilder, SingleReader, RunsAtHome,
       ReaderCrash, connVars, callerVars, closeVars
<1>4. CASE ReaderClosed(r)
  BY <1>4, ConnectionAssumption DEF TypeOK, OneBuilder, SingleReader, RunsAtHome,
       ReaderClosed, Fail, closeVars
<1>5. CASE BackoffEnds(r)
  BY <1>5, ConnectionAssumption DEF TypeOK, OneBuilder, SingleReader, RunsAtHome,
       BackoffEnds, LockIdle, ReconnectLocked, callerVars, closeVars
<1>6. CASE ReconnectLockGranted(r)
  BY <1>6, ConnectionAssumption DEF TypeOK, OneBuilder, SingleReader, RunsAtHome,
       ReconnectLockGranted, ReconnectLocked, callerVars, closeVars
<1>7. CASE ReconnectOpenOk(r)
  <2>1. ~connected
    BY <1>7, ConnectionAssumption DEF TypeOK, OneBuilder, ReconnectOpenOk
  <2>2. closer = "no" => \A q \in Sockets : reader[q] # "recv"
    BY <2>1 DEF SingleReader, RunsAtHome
  <2>3. closer = "no" => \A k \in Callers : caller[k] \in {"pending", "stream"} =>
                            home[k] \in Sockets /\ sock[home[k]] = "dead"
    BY <2>1 DEF RunsAtHome
  <2> QED
    BY <1>7, <2>2, <2>3 DEF TypeOK, RunsAtHome, ReconnectOpenOk, callerVars, closeVars
<1>8. CASE ReconnectHandshakeOk(r)
  BY <1>8, ConnectionAssumption DEF TypeOK, OneBuilder, SingleReader, RunsAtHome,
       ReconnectHandshakeOk, Established, Fail, closeVars
<1>9. CASE AttemptFail(r)
  BY <1>9, ConnectionAssumption DEF TypeOK, OneBuilder, SingleReader, RunsAtHome,
       AttemptFail, NextAttempt, Fail, closeVars
<1>10. CASE CloseRetryDone(r)
  <2>1. ~connected
    BY <1>10, ConnectionAssumption DEF TypeOK, OneBuilder, CloseRetryDone
  <2>2. closer = "no" => \A q \in Sockets : reader[q] # "recv"
    BY <2>1 DEF SingleReader, RunsAtHome
  <2>3. closer = "no" => \A k \in Callers : caller[k] \in {"pending", "stream"} =>
                            home[k] \in Sockets /\ sock[home[k]] = "dead"
    BY <2>1 DEF RunsAtHome
  <2> QED
    BY <1>10, <2>2, <2>3 DEF TypeOK, RunsAtHome, CloseRetryDone, NextAttempt, Fail,
         callerVars, closeVars
<1>11. CASE ReaderCancelled(r)
  BY <1>11, ConnectionAssumption DEF TypeOK, OneBuilder, SingleReader, RunsAtHome,
       ReaderCancelled, GiveUp, Fail, closeVars
<1>12. CASE CloseCancelDone(r)
  BY <1>12, ConnectionAssumption DEF TypeOK, OneBuilder, SingleReader, RunsAtHome,
       CloseCancelDone, GiveUp, Fail, closeVars
<1> QED
  BY <1>1, <1>2, <1>3, <1>4, <1>5, <1>6, <1>7, <1>8, <1>9, <1>10, <1>11, <1>12 DEF
       ReaderStep

\* A step of close() keeps requests where they belong.
LEMMA CloseHome ==
  ASSUME TypeOK, OneBuilder, SingleReader, RunsAtHome, CloseStep
  PROVE  RunsAtHome'
<1>1. CASE CloseStart
  BY <1>1, ConnectionAssumption DEF TypeOK, OneBuilder, SingleReader, RunsAtHome,
       CloseStart, CloseSocketPart, ReadersAt, Fail
<1>2. CASE CloseReaderEnded
  BY <1>2, ConnectionAssumption DEF TypeOK, OneBuilder, SingleReader, RunsAtHome,
       CloseReaderEnded, CloseSocketPart, Fail, readerVars
<1>3. CASE CloseFinish
  BY <1>3, ConnectionAssumption DEF TypeOK, OneBuilder, SingleReader, RunsAtHome,
       CloseFinish, Fail, readerVars
<1> QED
  BY <1>1, <1>2, <1>3 DEF CloseStep

\* A caller's step keeps the socket of a connection.
LEMMA CallerSocket ==
  ASSUME TypeOK, OneBuilder, SocketKept, NEW c \in Callers, CallerStep(c)
  PROVE  SocketKept'
<1>1. CASE ConnectFast(c)
  BY <1>1, ConnectionAssumption DEF TypeOK, OneBuilder, SocketKept,
       ConnectedHasSocket, ConnectFast, Send, connVars, readerVars, closeVars
<1>2. CASE ConnectSlow(c)
  BY <1>2, ConnectionAssumption DEF TypeOK, OneBuilder, SocketKept,
       ConnectedHasSocket, ConnectSlow, LockIdle, readerVars, closeVars
<1>3. CASE ConnectLocked(c)
  BY <1>3, ConnectionAssumption DEF TypeOK, OneBuilder, SocketKept,
       ConnectedHasSocket, ConnectLocked, Send, readerVars, closeVars
<1>4. CASE OpenOk(c)
  BY <1>4, ConnectionAssumption DEF TypeOK, OneBuilder, SocketKept,
       ConnectedHasSocket, OpenOk, readerVars, closeVars
<1>5. CASE OpenFail(c)
  BY <1>5, ConnectionAssumption DEF TypeOK, OneBuilder, SocketKept,
       ConnectedHasSocket, OpenFail, Leave, readerVars, closeVars
<1>6. CASE HandshakeOk(c)
  BY <1>6, ConnectionAssumption DEF TypeOK, OneBuilder, SocketKept,
       ConnectedHasSocket, HandshakeOk, Established, Send, closeVars
<1>7. CASE HandshakeFail(c)
  BY <1>7, ConnectionAssumption DEF TypeOK, OneBuilder, SocketKept,
       ConnectedHasSocket, HandshakeFail, Leave, readerVars, closeVars
<1>8. CASE FailCloseDone(c)
  BY <1>8, ConnectionAssumption DEF TypeOK, OneBuilder, SocketKept,
       ConnectedHasSocket, FailCloseDone, Leave, readerVars, closeVars
<1>9. CASE CancelCaller(c)
  BY <1>9, ConnectionAssumption DEF TypeOK, OneBuilder, SocketKept,
       ConnectedHasSocket, CancelCaller, Leave, readerVars, closeVars
<1>10. CASE RequestTimeout(c)
  BY <1>10, ConnectionAssumption DEF TypeOK, OneBuilder, SocketKept,
       ConnectedHasSocket, RequestTimeout, Leave, connVars, readerVars, closeVars
<1>11. CASE SeeFailure(c)
  BY <1>11, ConnectionAssumption DEF TypeOK, OneBuilder, SocketKept,
       ConnectedHasSocket, SeeFailure, Leave, connVars, readerVars, closeVars
<1> QED
  BY <1>1, <1>2, <1>3, <1>4, <1>5, <1>6, <1>7, <1>8, <1>9, <1>10, <1>11 DEF CallerStep

\* A reader's step keeps the socket of a connection.
LEMMA ReaderSocket ==
  ASSUME TypeOK, OneBuilder, SocketKept, NEW r \in Sockets, ReaderStep(r)
  PROVE  SocketKept'
<1>1. CASE ReaderStart(r)
  BY <1>1, ConnectionAssumption DEF TypeOK, OneBuilder, SocketKept,
       ConnectedHasSocket, ReaderStart, LoopHead, connVars, callerVars, closeVars
<1>2. CASE ReaderFrame(r)
  BY <1>2, ConnectionAssumption DEF TypeOK, OneBuilder, SocketKept,
       ConnectedHasSocket, ReaderFrame, LoopHead, Leave, connVars, callerVars,
       closeVars
<1>3. CASE ReaderCrash(r)
  BY <1>3, ConnectionAssumption DEF TypeOK, OneBuilder, SocketKept,
       ConnectedHasSocket, ReaderCrash, connVars, callerVars, closeVars
<1>4. CASE ReaderClosed(r)
  BY <1>4, ConnectionAssumption DEF TypeOK, OneBuilder, SocketKept,
       ConnectedHasSocket, ReaderClosed, Fail, closeVars
<1>5. CASE BackoffEnds(r)
  BY <1>5, ConnectionAssumption DEF TypeOK, OneBuilder, SocketKept,
       ConnectedHasSocket, BackoffEnds, LockIdle, ReconnectLocked, callerVars,
       closeVars
<1>6. CASE ReconnectLockGranted(r)
  BY <1>6, ConnectionAssumption DEF TypeOK, OneBuilder, SocketKept,
       ConnectedHasSocket, ReconnectLockGranted, ReconnectLocked, callerVars,
       closeVars
<1>7. CASE ReconnectOpenOk(r)
  BY <1>7, ConnectionAssumption DEF TypeOK, OneBuilder, SocketKept,
       ConnectedHasSocket, ReconnectOpenOk, callerVars, closeVars
<1>8. CASE ReconnectHandshakeOk(r)
  BY <1>8, ConnectionAssumption DEF TypeOK, OneBuilder, SocketKept,
       ConnectedHasSocket, ReconnectHandshakeOk, Established, Fail, closeVars
<1>9. CASE AttemptFail(r)
  BY <1>9, ConnectionAssumption DEF TypeOK, OneBuilder, SocketKept,
       ConnectedHasSocket, AttemptFail, NextAttempt, Fail, closeVars
<1>10. CASE CloseRetryDone(r)
  BY <1>10, ConnectionAssumption DEF TypeOK, OneBuilder, SocketKept,
       ConnectedHasSocket, CloseRetryDone, NextAttempt, Fail, closeVars
<1>11. CASE ReaderCancelled(r)
  BY <1>11, ConnectionAssumption DEF TypeOK, OneBuilder, SocketKept,
       ConnectedHasSocket, ReaderCancelled, GiveUp, Fail, closeVars
<1>12. CASE CloseCancelDone(r)
  BY <1>12, ConnectionAssumption DEF TypeOK, OneBuilder, SocketKept,
       ConnectedHasSocket, CloseCancelDone, GiveUp, Fail, closeVars
<1> QED
  BY <1>1, <1>2, <1>3, <1>4, <1>5, <1>6, <1>7, <1>8, <1>9, <1>10, <1>11, <1>12 DEF
       ReaderStep

\* A step of close() keeps the socket of a connection.
LEMMA CloseSocket ==
  ASSUME TypeOK, OneBuilder, SocketKept, CloseStep
  PROVE  SocketKept'
<1>1. CASE CloseStart
  BY <1>1, ConnectionAssumption DEF TypeOK, OneBuilder, SocketKept,
       ConnectedHasSocket, CloseStart, CloseSocketPart, ReadersAt, Fail
<1>2. CASE CloseReaderEnded
  BY <1>2, ConnectionAssumption DEF TypeOK, OneBuilder, SocketKept,
       ConnectedHasSocket, CloseReaderEnded, CloseSocketPart, Fail, readerVars
<1>3. CASE CloseFinish
  BY <1>3, ConnectionAssumption DEF TypeOK, OneBuilder, SocketKept,
       ConnectedHasSocket, CloseFinish, Fail, readerVars
<1> QED
  BY <1>1, <1>2, <1>3 DEF CloseStep

-----------------------------------------------------------------------------
(* No socket is forgotten *)

\* A step of a caller that nobody stops forgets no socket: an opened one is
\* the only one, and a failed handshake closes its own.
LEMMA CallerHeld ==
  ASSUME MayStop = FALSE, TypeOK, OneBuilder, SocketHeld,
         NEW c \in Callers, CallerStep(c)
  PROVE  SocketHeld'
<1> USE ConnectionAssumption
<1>1. CASE ConnectFast(c)
  BY <1>1 DEF TypeOK, SocketHeld, ConnectFast, Send, connVars, readerVars
<1>2. CASE ConnectSlow(c)
  BY <1>2 DEF TypeOK, SocketHeld, ConnectSlow, readerVars
<1>3. CASE ConnectLocked(c)
  BY <1>3 DEF TypeOK, SocketHeld, ConnectLocked, Send, readerVars
<1>4. CASE OpenOk(c)
  BY <1>4 DEF TypeOK, OneBuilder, SocketHeld, OpenOk, readerVars
<1>5. CASE OpenFail(c)
  BY <1>5 DEF TypeOK, SocketHeld, OpenFail, Leave, readerVars
<1>6. CASE HandshakeOk(c)
  BY <1>6 DEF TypeOK, OneBuilder, SocketHeld, HandshakeOk, Established, Send
<1>7. CASE HandshakeFail(c)
  BY <1>7 DEF TypeOK, SocketHeld, HandshakeFail, Leave, readerVars
<1>8. CASE FailCloseDone(c)
  BY <1>8 DEF TypeOK, OneBuilder, SocketHeld, FailCloseDone, Leave, readerVars
<1>9. CASE CancelCaller(c)
  BY <1>9 DEF CancelCaller
<1>10. CASE RequestTimeout(c)
  BY <1>10 DEF TypeOK, SocketHeld, RequestTimeout, Leave, connVars, readerVars
<1>11. CASE SeeFailure(c)
  BY <1>11 DEF TypeOK, SocketHeld, SeeFailure, Leave, connVars, readerVars
<1> QED
  BY <1>1, <1>2, <1>3, <1>4, <1>5, <1>6, <1>7, <1>8, <1>9, <1>10, <1>11 DEF CallerStep

\* A step of a reader that nobody cancels forgets no socket: it leaves a
\* connection when its socket is dead, and a failed attempt closes its own.
LEMMA ReaderHeld ==
  ASSUME closer = "no", TypeOK, OneBuilder, RunsAtHome, SocketHeld,
         NEW r \in Sockets, ReaderStep(r)
  PROVE  SocketHeld'
<1> USE ConnectionAssumption
<1>1. CASE ReaderStart(r)
  BY <1>1 DEF TypeOK, SocketHeld, ReaderStart, LoopHead, connVars, callerVars
<1>2. CASE ReaderFrame(r)
  BY <1>2 DEF TypeOK, SocketHeld, ReaderFrame, LoopHead, Leave, connVars, callerVars
<1>3. CASE ReaderCrash(r)
  BY <1>3 DEF TypeOK, SocketHeld, ReaderCrash, connVars, callerVars
<1>4. CASE ReaderClosed(r)
  BY <1>4 DEF TypeOK, RunsAtHome, SocketHeld, ReaderClosed, Fail
<1>5. CASE BackoffEnds(r)
  BY <1>5 DEF TypeOK, SocketHeld, BackoffEnds, ReconnectLocked, callerVars
<1>6. CASE ReconnectLockGranted(r)
  BY <1>6 DEF TypeOK, SocketHeld, ReconnectLockGranted, ReconnectLocked, callerVars
<1>7. CASE ReconnectOpenOk(r)
  BY <1>7 DEF TypeOK, OneBuilder, SocketHeld, ReconnectOpenOk, callerVars
<1>8. CASE ReconnectHandshakeOk(r)
  BY <1>8 DEF TypeOK, OneBuilder, SocketHeld, ReconnectHandshakeOk, Established, Fail
<1>9. CASE AttemptFail(r)
  BY <1>9 DEF TypeOK, OneBuilder, SocketHeld, AttemptFail, NextAttempt, Fail
<1>10. CASE CloseRetryDone(r)
  BY <1>10 DEF TypeOK, OneBuilder, SocketHeld, CloseRetryDone, NextAttempt, Fail
<1>11. CASE ReaderCancelled(r) \/ CloseCancelDone(r)
  BY <1>11 DEF RunsAtHome, ReaderCancelled, CloseCancelDone
<1> QED
  BY <1>1, <1>2, <1>3, <1>4, <1>5, <1>6, <1>7, <1>8, <1>9, <1>10, <1>11 DEF ReaderStep

\* A socket that dies leaves the others where they are.
LEMMA NetworkHeld ==
  ASSUME TypeOK, SocketHeld, (\E w \in Sockets : SocketDies(w)) \/ UNCHANGED vars
  PROVE  SocketHeld'
  BY DEF TypeOK, SocketHeld, SocketDies, vars, connVars, readerVars, callerVars

-----------------------------------------------------------------------------
(* The inductive invariant and the theorems *)

\* The initial state satisfies the inductive invariant.
LEMMA InitIInv ==
  ASSUME Init
  PROVE  IInv
<1>1. connected \in BOOLEAN /\ wasConnected \in BOOLEAN
  BY DEF Init
<1>2. TypeOK
  BY <1>1, ConnectionAssumption DEF Init, TypeOK
<1>3. OneBuilder /\ SingleReader /\ KnownReader
  BY ConnectionAssumption DEF Init, OneBuilder, SingleReader, KnownReader
<1>4. Live = 0 /\ Owed = 0
  BY DEF Init, Live, Owed
<1>5. GaugeMatches
  BY <1>4 DEF Init, GaugeMatches
<1>6. RunsAtHome
  BY DEF Init, RunsAtHome
<1>7. SocketKept
  BY DEF Init, SocketKept, ConnectedHasSocket
<1> QED
  BY <1>2, <1>3, <1>5, <1>6, <1>7 DEF IInv

\* A socket that dies, or a step that changes nothing.
LEMMA NetworkIInv ==
  ASSUME IInv, (\E w \in Sockets : SocketDies(w)) \/ UNCHANGED vars
  PROVE  IInv'
<1>1. CASE UNCHANGED vars
  BY <1>1 DEF IInv, TypeOK, OneBuilder, SingleReader, KnownReader, GaugeMatches,
              Live, Owed, RunsAtHome, SocketKept, ConnectedHasSocket,
              vars, connVars, readerVars, callerVars, closeVars
<1>2. ASSUME NEW w \in Sockets, SocketDies(w)
      PROVE  IInv'
  <2> USE <1>2 DEF SocketDies, connVars, readerVars, callerVars, closeVars
  <2>1. TypeOK'
    BY DEF IInv, TypeOK
  <2>2. OneBuilder' /\ SingleReader' /\ KnownReader'
    BY DEF IInv, OneBuilder, SingleReader, KnownReader
  <2>3. GaugeMatches'
    BY GaugeFrame DEF IInv
  <2>4. RunsAtHome'
    BY DEF IInv, TypeOK, RunsAtHome
  <2>5. SocketKept'
    BY DEF IInv, SocketKept, ConnectedHasSocket
  <2> QED
    BY <2>1, <2>2, <2>3, <2>4, <2>5 DEF IInv
<1> QED
  BY <1>1, <1>2

\* Every step keeps the inductive invariant.
LEMMA StepIInv ==
  ASSUME IInv, [Next]_vars
  PROVE  IInv'
<1>1. ASSUME NEW c \in Callers, CallerStep(c)
      PROVE  IInv'
  BY <1>1, CallerType, CallerBuilder, CallerSingle, CallerGauge, CallerHome,
     CallerSocket DEF IInv
<1>2. ASSUME NEW r \in Sockets, ReaderStep(r)
      PROVE  IInv'
  BY <1>2, ReaderType, ReaderBuilder, ReaderSingle, ReaderGauge, ReaderHome,
     ReaderSocket DEF IInv
<1>3. CASE CloseStep
  BY <1>3, CloseType, CloseBuilder, CloseSingle, CloseGauge, CloseHome,
     CloseSocket DEF IInv
<1> QED
  BY <1>1, <1>2, <1>3, NetworkIInv DEF Next, TaskStep

\* Every reachable state satisfies the inductive invariant.
THEOREM Invariance == Spec => []IInv
<1>1. Init => IInv
  BY InitIInv
<1>2. IInv /\ [Next]_vars => IInv'
  BY StepIInv
<1> QED
  BY <1>1, <1>2, PTL DEF Spec

\* The variables keep the types that TypeOK gives them.
THEOREM TypeCorrect == Spec => []TypeOK
<1>1. IInv => TypeOK
  BY DEF IInv
<1> QED
  BY <1>1, Invariance, PTL

\* The gauge of live connections never drifts, whatever the interleaving of
\* connects, disconnects, reconnects, user stops and close().
THEOREM GaugeCorrect == Spec => []GaugeMatches
<1>1. IInv => GaugeMatches
  BY DEF IInv
<1> QED
  BY <1>1, Invariance, PTL

\* Connections are built one at a time and never beside a live one.
THEOREM OneBuilderCorrect == Spec => []OneBuilder
<1>1. IInv => OneBuilder
  BY DEF IInv
<1> QED
  BY <1>1, Invariance, PTL

\* Two readers never compete for frames.
THEOREM SingleReaderCorrect == Spec => []SingleReader
<1>1. IInv => SingleReader
  BY DEF IInv
<1> QED
  BY <1>1, Invariance, PTL

\* A client that the Pipe keeps is not closed.
LEMMA NeverClosed ==
  ASSUME MayClose = FALSE, closer = "no", [Next]_vars
  PROVE  closer' = "no"
<1>1. ASSUME NEW c \in Callers, CallerStep(c)
      PROVE  closer' = "no"
  BY <1>1 DEF CallerStep, ConnectFast, ConnectSlow, ConnectLocked, OpenOk,
       OpenFail, HandshakeOk, HandshakeFail, FailCloseDone, CancelCaller,
       RequestTimeout, SeeFailure, closeVars
<1>2. ASSUME NEW r \in Sockets, ReaderStep(r)
      PROVE  closer' = "no"
  BY <1>2 DEF ReaderStep, ReaderStart, ReaderFrame, ReaderCrash,
       ReaderClosed, BackoffEnds, ReconnectLockGranted, ReconnectOpenOk,
       ReconnectHandshakeOk, AttemptFail, CloseRetryDone, ReaderCancelled,
       CloseCancelDone, closeVars
<1>3. CASE CloseStep
  BY <1>3 DEF CloseStep, CloseStart, CloseReaderEnded, CloseFinish
<1>4. CASE UNCHANGED vars \/ \E w \in Sockets : SocketDies(w)
  BY <1>4 DEF vars, SocketDies, closeVars
<1> QED
  BY <1>1, <1>2, <1>3, <1>4 DEF Next, TaskStep

\* A client that is never closed has a socket whenever it says it is
\* connected, so _send's assertion holds; close() is what breaks it.
THEOREM SocketCorrect ==
  ASSUME MayClose = FALSE
  PROVE  Spec => []ConnectedHasSocket
<1> DEFINE Open == closer = "no" /\ IInv
<1>1. Init => Open
  BY InitIInv DEF Init
<1>2. Open /\ [Next]_vars => Open'
  BY NeverClosed, StepIInv
<1>3. Open => ConnectedHasSocket
  BY DEF IInv, SocketKept
<1> QED
  BY <1>1, <1>2, <1>3, PTL DEF Spec

\* Failed handshakes and reconnect attempts, lost connections and callers that
\* race for the lock leave no open socket behind, as long as nobody cancels a
\* task in the middle of its clean-up: no stops, no close().
THEOREM NothingForgotten ==
  ASSUME MayClose = FALSE, MayStop = FALSE
  PROVE  Spec => []NoHalfOpenSocket
<1> DEFINE Held == closer = "no" /\ IInv /\ SocketHeld
<1>1. Init => Held
  BY InitIInv DEF Init, SocketHeld
<1>2. Held /\ [Next]_vars => Held'
  <2> SUFFICES ASSUME Held, [Next]_vars
               PROVE  Held'
    OBVIOUS
  <2>1. closer' = "no" /\ IInv'
    BY NeverClosed, StepIInv
  <2>2. ASSUME NEW c \in Callers, CallerStep(c)
        PROVE  SocketHeld'
    BY <2>2, CallerHeld DEF IInv
  <2>3. ASSUME NEW r \in Sockets, ReaderStep(r)
        PROVE  SocketHeld'
    BY <2>3, ReaderHeld DEF IInv
  <2>4. ~CloseStep
    BY DEF CloseStep, CloseStart, CloseReaderEnded, CloseFinish
  <2>5. CASE (\E w \in Sockets : SocketDies(w)) \/ UNCHANGED vars
    BY <2>1, <2>5, NetworkHeld DEF IInv
  <2> QED
    BY <2>1, <2>2, <2>3, <2>4, <2>5 DEF Next, TaskStep
<1>3. Held => NoHalfOpenSocket
  BY DEF SocketHeld, NoHalfOpenSocket
<1> QED
  BY <1>1, <1>2, <1>3, PTL DEF Spec

\* No run is told that its connection was lost while its socket is healthy,
\* not even by a reconnect loop that another caller's connect() overtook.
THEOREM OnlyLostRunsFailCorrect == Spec => OnlyLostRunsFail
<1> DEFINE Lost ==
      \A c \in Callers :
         caller[c] = "stream" /\ caller'[c] = "failed" /\ closer = "no"
             => sock[home[c]] = "dead" \/ closer' = "done"
<1>1. IInv /\ [Next]_vars => Lost
  <2> SUFFICES ASSUME IInv, [Next]_vars, NEW k \in Callers, caller[k] = "stream",
                      caller'[k] = "failed", closer = "no"
               PROVE  sock[home[k]] = "dead" \/ closer' = "done"
    OBVIOUS
  <2> USE DEF IInv
  <2>1. ASSUME NEW c \in Callers, CallerStep(c)
        PROVE  FALSE
    BY <2>1 DEF TypeOK, CallerStep, ConnectFast, ConnectSlow, ConnectLocked,
         OpenOk, OpenFail, HandshakeOk, HandshakeFail, FailCloseDone,
         CancelCaller, RequestTimeout, SeeFailure, Send, Leave
  <2>2. ASSUME NEW r \in Sockets, ReaderStep(r)
        PROVE  sock[home[k]] = "dead"
    <3>1. CASE ReaderClosed(r)
      BY <3>1 DEF TypeOK, SingleReader, RunsAtHome, ReaderClosed
    <3>2. CASE reader[r] \in ReaderBuilding
      BY <3>2, ConnectionAssumption DEF TypeOK, OneBuilder, RunsAtHome
    <3>3. CASE ~ReaderClosed(r) /\ reader[r] \notin ReaderBuilding
      BY <2>2, <3>3 DEF TypeOK, RunsAtHome, ReaderStep, ReaderStart, ReaderFrame,
           ReaderCrash, BackoffEnds, ReconnectLockGranted, ReconnectOpenOk,
           ReconnectHandshakeOk, AttemptFail, CloseRetryDone, ReaderCancelled,
           CloseCancelDone, Leave, callerVars
    <3> QED
      BY <3>1, <3>2, <3>3
  <2>3. CASE CloseStep
    BY <2>3 DEF CloseStep, CloseStart, CloseReaderEnded, CloseFinish,
         CloseSocketPart
  <2>4. CASE UNCHANGED vars \/ \E w \in Sockets : SocketDies(w)
    BY <2>4 DEF vars, SocketDies, callerVars
  <2> QED
    BY <2>1, <2>2, <2>3, <2>4 DEF Next, TaskStep
<1> QED
  BY <1>1, Invariance, PTL DEF Spec, OnlyLostRunsFail
=============================================================================
