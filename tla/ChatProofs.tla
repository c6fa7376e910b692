------------------------------ MODULE ChatProofs ------------------------------
(***************************************************************************)
(* Proofs about Chat, for any set of requests, any number of events, any   *)
(* size of the queue and any timeouts: the types, what the safety          *)
(* invariants of the approvals and of the text say, and the inductive      *)
(* invariant they rest on.                                                 *)
(***************************************************************************)
EXTENDS Chat, SequenceLemmas

-----------------------------------------------------------------------------
(* The queue *)

\* What each kind of entry carries, and that every entry the actions build is
\* one.
LEMMA EntryTypes ==
    /\ \A e \in Entries :
          /\ e.type = "text" => e.delta \in Seq(Words) /\ e.text \in Seq(Words)
          /\ e.type = "aside" => e.kind \in AsideKinds
          /\ e.type = "approval" => e.id \in Requests /\ e = Request(e.id)
          /\ e.type = "final" => e.status \in {"ok", "failed"}
    /\ \A d, t \in Seq(Words) : Text(d, t) \in Entries /\ Text(d, t).type = "text"
    /\ \A a \in Requests : Request(a) \in Entries /\ Request(a).type = "approval"
    /\ \A k \in AsideKinds : Aside(k) \in Entries /\ Aside(k).type = "aside"
    /\ \A s \in {"ok", "failed"} : Final(s) \in Entries /\ Final(s).type = "final"
    /\ {Item("item", "start", "running"), Item("item", "update", "blocked"),
        Item("output", "end", "completed")} \subseteq Entries
<1>1. ASSUME NEW e \in Entries
      PROVE  /\ e.type = "text" => e.delta \in Seq(Words) /\ e.text \in Seq(Words)
             /\ e.type = "aside" => e.kind \in AsideKinds
             /\ e.type = "approval" => e.id \in Requests /\ e = Request(e.id)
             /\ e.type = "final" => e.status \in {"ok", "failed"}
  BY DEF Entries, Request
<1> QED BY <1>1 DEF Entries, Text, Item, Aside, Request, Final

\* An entry is put at the end of the queue, or dropped and the queue is left as
\* it is (put_nowait and QueueFull).
LEMMA PutQueue ==
    ASSUME StreamTypeOK, NEW e \in Entries, Put(e)
    PROVE  /\ queue' \in Seq(Entries) /\ Len(queue') <= QueueSize
           /\ \/ queue' = Append(queue, e) /\ UNCHANGED dropped
              \/ UNCHANGED queue /\ dropped'
           /\ \A i \in 1..Len(queue') : \/ i \in 1..Len(queue) /\ queue'[i] = queue[i]
                                        \/ i = Len(queue) + 1 /\ queue'[i] = e
<1>1. queue \in Seq(Entries) /\ Len(queue) \in Nat /\ Len(queue) <= QueueSize
  BY LenProperties DEF StreamTypeOK
<1>2. CASE Len(queue) < QueueSize
  <2>1. queue' = Append(queue, e) /\ UNCHANGED dropped
    BY <1>2 DEF Put
  <2>2. /\ Append(queue, e) \in Seq(Entries) /\ Len(Append(queue, e)) = Len(queue) + 1
        /\ \A i \in 1..Len(queue) : Append(queue, e)[i] = queue[i]
        /\ Append(queue, e)[Len(queue) + 1] = e
    BY <1>1, AppendProperties
  <2> QED BY <1>1, <1>2, <2>1, <2>2, ChatAssumption
<1>3. CASE ~(Len(queue) < QueueSize)
  BY <1>1, <1>3 DEF Put
<1> QED BY <1>2, <1>3

\* The first entry is taken and the others move up (queue.get).
LEMMA TakeQueue ==
    ASSUME StreamTypeOK, NEW type, Take(type)
    PROVE  /\ queue' \in Seq(Entries) /\ Len(queue') <= QueueSize
           /\ Len(queue) \in Nat \ {0} /\ Len(queue') = Len(queue) - 1
           /\ Head(queue) = queue[1] /\ queue[1] \in Entries /\ queue[1].type = type
           /\ \A i \in 1..Len(queue') : i + 1 \in 1..Len(queue) /\ queue'[i] = queue[i + 1]
<1>1. queue \in Seq(Entries) /\ queue # <<>> /\ queue' = Tail(queue) /\ Head(queue).type = type
  BY DEF StreamTypeOK, Take
<1>2. Len(queue) \in Nat \ {0} /\ Len(queue) <= QueueSize
  BY <1>1, EmptySeq DEF StreamTypeOK
<1>3. Head(queue) = queue[1] /\ queue[1] \in Entries
  BY <1>1, <1>2, ElementOfSeq
<1>4. /\ Tail(queue) \in Seq(Entries)
      /\ Len(Tail(queue)) = Len(queue) - 1
      /\ \A i \in 1 .. Len(Tail(queue)) : Tail(queue)[i] = queue[i + 1]
  BY <1>1, HeadTailProperties
<1> QED BY <1>1, <1>2, <1>3, <1>4, ChatAssumption
-----------------------------------------------------------------------------
(* Types *)

\* The stream has a request at hand in its dialog, and none while it waits for
\* an entry.
AtHand ==
    /\ stream \in {"queue", "emitter", "last"} => current = NoRequest
    /\ stream = "dialog" => current # NoRequest

\* The cases of a step.
LEMMA Steps ==
    Next => \/ Say \/ Replace \/ Work \/ Mention \/ Finish
            \/ LinkLost \/ LinkSettled \/ LinkOvertaken
            \/ TakeText \/ TakeItem \/ TakeAside \/ TakeRequest \/ TakeFinal
            \/ Resume \/ Close \/ StreamTimeout \/ DialogEnds \/ Stop \/ Tick
            \/ \E a \in Requests : Ask(a) \/ TakeAnswer(a) \/ Ring(a) \/ Resolve(a) \/ Forget(a)
BY Zenon DEF Next, GatewayStep, StreamStep, TaskStep

\* A step does one thing to the approvals, or nothing.
LEMMA ApprovalMoves ==
    ASSUME TypeOK, AtHand, Next
    PROVE  \/ UNCHANGED approvalVars
           \/ AnswersLost
           \/ /\ TimersTick /\ \A a \in Requests : ~TimerDue(a)
              /\ UNCHANGED <<mode, canAsk, consent, card, task, decision, verdict>>
           \/ \E a \in Requests :
                 \/ AutoApprove(a) \/ AutoDeny(a) \/ Render(a) \/ StartTimer(a)
                 \/ CloseDialog(a) \/ TimerRings(a) \/ Answer(a, Connected) \/ AnswerTimesOut(a)
                 \/ Decide(a, FALSE) \/ Decide(a, TRUE)
                 \/ /\ verdict' = [verdict EXCEPT ![a] = "pending"]
                    /\ UNCHANGED <<mode, canAsk, consent, card, task, decision, timer>>
<1>1. CASE Say \/ Replace \/ Work \/ Mention \/ Finish \/ LinkSettled \/ LinkOvertaken
  BY <1>1, Zenon DEF Say, Replace, Work, Mention, Finish, LinkSettled, LinkOvertaken
<1>2. CASE TakeText \/ TakeItem \/ TakeAside \/ TakeFinal \/ Close \/ StreamTimeout \/ Stop
  BY <1>2, Zenon DEF TakeText, TakeItem, TakeAside, TakeFinal, Close, StreamTimeout, Stop, Over
<1>3. CASE LinkLost
  BY <1>3 DEF LinkLost
<1>4. CASE Tick
  BY <1>4, Zenon DEF Tick, SomethingDue
<1>5. CASE TakeRequest
  <2>1. Head(queue).id \in Requests
    BY <1>5, TakeQueue, EntryTypes DEF TakeRequest, TypeOK
  <2> QED BY <1>5, <2>1, Zenon DEF TakeRequest, OpenDialog
<1>6. CASE Resume
  BY <1>6, Zenon DEF Resume, TypeOK, StreamTypeOK
<1>7. CASE DialogEnds
  <2>1. current \in Requests
    BY <1>7, Zenon DEF DialogEnds, AtHand, TypeOK, StreamTypeOK
  <2> QED BY <1>7, <2>1, Zenon DEF DialogEnds
<1>8. ASSUME NEW a \in Requests, Ask(a) \/ TakeAnswer(a) \/ Ring(a) \/ Resolve(a) \/ Forget(a) PROVE
        \/ TimerRings(a) \/ Answer(a, Connected) \/ AnswerTimesOut(a)
                 \/ Decide(a, FALSE) \/ Decide(a, TRUE)
        \/ /\ verdict' = [verdict EXCEPT ![a] = "pending"]
           /\ UNCHANGED <<mode, canAsk, consent, card, task, decision, timer>>
  BY <1>8, Zenon DEF Ask, TakeAnswer, Ring, Resolve, Forget
<1> QED BY <1>1, <1>2, <1>3, <1>4, <1>5, <1>6, <1>7, <1>8, Steps

\* Whatever a step does to the approvals, they keep their types: no timer goes
\* below zero, since the clock waits for what is due.
LEMMA ApprovalTypes ==
    ASSUME TypeOK, AtHand, Next
    PROVE  ApprovalTypeOK'
<1> USE DEF TypeOK, ApprovalTypeOK
<1>1. mode' = mode /\ canAsk' = canAsk
  <2> USE DEF approvalVars, AnswersLost, AutoApprove, AutoDeny, Render, StartTimer, CloseDialog, TimerRings, Answer, AnswerTimesOut, Decide
  <2> QED BY ApprovalMoves, Zenon
<1>2. mode' \in Modes /\ canAsk' \in BOOLEAN
  BY <1>1, Zenon
<1>3. CASE UNCHANGED approvalVars
  BY <1>2, <1>3 DEF approvalVars
<1>4. CASE AnswersLost
  BY <1>2, <1>4, ApprovalAssumption DEF AnswersLost
<1>5. CASE /\ TimersTick /\ \A a \in Requests : ~TimerDue(a)
           /\ UNCHANGED <<mode, canAsk, consent, card, task, decision, verdict>>
  <2>1. ASSUME NEW a \in Requests
        PROVE  timer'[a] \in 0..ApprovalTimeout \cup 0..RequestTimeout
    BY <1>5, ApprovalAssumption DEF TimersTick, TimerDue
  <2> QED BY <1>2, <1>5, <2>1 DEF TimersTick
<1>6. ASSUME NEW a \in Requests,
             \/ AutoApprove(a) \/ AutoDeny(a) \/ Render(a) \/ StartTimer(a)
             \/ CloseDialog(a) \/ TimerRings(a) \/ Answer(a, Connected) \/ AnswerTimesOut(a)
                 \/ Decide(a, FALSE) \/ Decide(a, TRUE)
             \/ /\ verdict' = [verdict EXCEPT ![a] = "pending"]
                /\ UNCHANGED <<mode, canAsk, consent, card, task, decision, timer>>
      PROVE  ApprovalTypeOK'
  <2> USE <1>2, ApprovalAssumption DEF Schedule, ShowCard
  <2>1. CASE AutoApprove(a)
    BY <2>1 DEF AutoApprove
  <2>2. CASE AutoDeny(a)
    BY <2>2 DEF AutoDeny
  <2>3. CASE Render(a)
    BY <2>3 DEF Render
  <2>4. CASE StartTimer(a)
    BY <2>4 DEF StartTimer
  <2>5. CASE CloseDialog(a)
    <3>1. Response(a) \in {"allow", "deny"}
      BY DEF Response
    <3> QED BY <2>5, <3>1 DEF CloseDialog
  <2>6. CASE TimerRings(a)
    BY <2>6 DEF TimerRings
  <2>7. CASE Answer(a, Connected)
    BY <2>7 DEF Answer
  <2>8. CASE Decide(a, FALSE) \/ Decide(a, TRUE)
    BY <2>8 DEF Decide
  <2>10. CASE AnswerTimesOut(a)
    BY <2>10 DEF AnswerTimesOut
  <2>9. CASE /\ verdict' = [verdict EXCEPT ![a] = "pending"]
             /\ UNCHANGED <<mode, canAsk, consent, card, task, decision, timer>>
    BY <2>9
  <2> QED BY <1>6, <2>1, <2>2, <2>3, <2>4, <2>5, <2>6, <2>7, <2>8, <2>9, <2>10
<1> QED BY <1>3, <1>4, <1>5, <1>6, ApprovalMoves

\* The mapper's text is made of the words the run sent.
LEMMA MapperTypes ==
    ASSUME TypeOK, Next
    PROVE  MapperTypeOK'
<1> USE DEF TypeOK, MapperTypeOK
<1>1. CASE TakeText
  <2>1. queue[1] \in Entries /\ queue[1] = Head(queue) /\ queue[1].type = "text"
    BY <1>1, TakeQueue DEF TakeText
  <2> DEFINE e == queue[1]
  <2>2. e.delta \in Seq(Words) /\ e.text \in Seq(Words)
    BY <2>1, EntryTypes
  <2>3. Fresh(e.text) \in Seq(Words)
    BY <2>2, PrefixCompleted DEF Fresh
  <2>4. Emitted(e) \in Seq(Words) /\ Absorb(e) \in Seq(Words)
    BY <2>2, <2>3, ConcatProperties DEF Emitted, Absorb
  <2>5. shown' = shown \o Emitted(e) /\ snapshot' = Absorb(e) /\ UNCHANGED <<cards, finish>>
    BY <1>1, <2>1 DEF TakeText, ShowText
  <2>6. shown' \in Seq(Words)
    BY <2>4, <2>5, ConcatProperties
  <2> QED BY <2>4, <2>5, <2>6
<1>2. CASE TakeItem
  <2>1. cards' = Append(cards, ItemDone(Head(queue))) /\ UNCHANGED <<snapshot, shown, finish>>
    BY <1>2 DEF TakeItem, ShowItem
  <2>2. ItemDone(Head(queue)) \in BOOLEAN
    BY DEF ItemDone
  <2> QED BY <2>1, <2>2
<1>3. CASE TakeFinal
  BY <1>3 DEF TakeFinal, MapFinal
<1>4. CASE Say \/ Replace \/ Work \/ Mention \/ Finish \/ LinkLost \/ LinkSettled \/ LinkOvertaken
  <2>1. UNCHANGED mapperVars
    BY <1>4, Zenon DEF Say, Replace, Work, Mention, Finish, LinkLost, LinkSettled, LinkOvertaken, Send
  <2> QED BY <2>1 DEF mapperVars
<1>5. CASE TakeAside \/ TakeRequest \/ Resume \/ Close \/ StreamTimeout \/ DialogEnds \/ Stop \/ Tick
  <2>1. UNCHANGED mapperVars
    BY <1>5, Zenon DEF TakeAside, TakeRequest, Resume, Close, StreamTimeout, DialogEnds, Stop, Tick, Over
  <2> QED BY <2>1 DEF mapperVars
<1>6. ASSUME NEW a \in Requests, Ask(a) \/ TakeAnswer(a) \/ Ring(a) \/ Resolve(a) \/ Forget(a)
      PROVE  MapperTypeOK'
  <2>1. UNCHANGED mapperVars
    BY <1>6, Zenon DEF Ask, TakeAnswer, Ring, Resolve, Forget, Send
  <2> QED BY <2>1 DEF mapperVars
<1> QED BY <1>1, <1>2, <1>3, <1>4, <1>5, <1>6, Steps

\* What Say sends carries the word that is new, the whole text, or both.
LEMMA SaySends ==
    ASSUME TypeOK, Say
    PROVE  /\ count + 1 \in Words
           /\ said' = Append(said, count + 1) /\ said' \in Seq(Words)
           /\ UNCHANGED <<replaced, items>>
           /\ \E e \in Entries :
                 /\ Send(e) /\ e.type = "text"
                 /\ e.delta \in {<<>>, <<count + 1>>} /\ e.text \in {<<>>, said'}
                 /\ e.delta # <<>> \/ e.text # <<>>
                 /\ e.delta # <<>> => deltas'
                 /\ deltas' \in {deltas, TRUE}
<1> DEFINE word == <<count + 1>>
<1>1. count + 1 \in Words
  BY ChatAssumption DEF Say, Send, TypeOK, RunTypeOK, Words
<1>2. /\ said \in Seq(Words) /\ word \in Seq(Words) /\ <<>> \in Seq(Words)
      /\ said \o word = Append(said, count + 1) /\ said \o word \in Seq(Words)
      /\ word # <<>> /\ said \o word # <<>>
  BY <1>1, AppendIsConcat, AppendProperties DEF TypeOK, RunTypeOK
<1>3. said' = said \o word /\ UNCHANGED <<replaced, items>>
  BY DEF Say
<1>4. \/ Send(Text(<<>>, said \o word)) /\ UNCHANGED deltas
      \/ Send(Text(word, <<>>)) /\ deltas' = TRUE
      \/ Send(Text(word, said \o word)) /\ deltas' = TRUE
  BY Zenon DEF Say
<1>5. \A d, t \in Seq(Words) : Text(d, t) \in Entries /\ Text(d, t).type = "text" /\ Text(d, t).delta = d /\ Text(d, t).text = t
  BY EntryTypes DEF Text
<1> HIDE DEF word
<1>6. \E e \in Entries :
         /\ Send(e) /\ e.type = "text"
         /\ e.delta \in {<<>>, word} /\ e.text \in {<<>>, said'}
         /\ e.delta # <<>> \/ e.text # <<>>
         /\ e.delta # <<>> => deltas'
         /\ deltas' \in {deltas, TRUE}
  <2>1. CASE Send(Text(<<>>, said \o word)) /\ UNCHANGED deltas
    <3> DEFINE e == Text(<<>>, said \o word)
    <3>1. e \in Entries /\ e.type = "text" /\ e.delta = <<>> /\ e.text = said \o word
      BY <1>2, <1>5
    <3> HIDE DEF e
    <3> QED BY <1>2, <1>3, <2>1, <3>1 DEF e
  <2>2. CASE Send(Text(word, <<>>)) /\ deltas' = TRUE
    <3> DEFINE e == Text(word, <<>>)
    <3>1. e \in Entries /\ e.type = "text" /\ e.delta = word /\ e.text = <<>>
      BY <1>2, <1>5
    <3> QED BY <1>2, <1>3, <2>2, <3>1
  <2>3. CASE Send(Text(word, said \o word)) /\ deltas' = TRUE
    <3> DEFINE e == Text(word, said \o word)
    <3>1. e \in Entries /\ e.type = "text" /\ e.delta = word /\ e.text = said \o word
      BY <1>2, <1>5
    <3> QED BY <1>2, <1>3, <2>3, <3>1
  <2> QED BY <1>4, <2>1, <2>2, <2>3
<1> QED BY <1>1, <1>2, <1>3, <1>6 DEF word

\* What Replace sends is the new text as a whole.
LEMMA ReplaceSends ==
    ASSUME TypeOK, Replace
    PROVE  /\ count + 1 \in Words /\ said # <<>>
           /\ said' = <<count + 1>> /\ said' \in Seq(Words) /\ said' # <<>>
           /\ replaced' /\ UNCHANGED <<deltas, items>>
           /\ \E e \in Entries :
                 Send(e) /\ e.type = "text" /\ e.delta = <<>> /\ e.text = said'
<1>1. count + 1 \in Words
  BY ChatAssumption DEF Replace, Send, TypeOK, RunTypeOK, Words
<1>2. said # <<>> /\ said' = <<count + 1>> /\ replaced' /\ UNCHANGED <<deltas, items>> /\ Send(Text(<<>>, said'))
  BY DEF Replace
<1>3. said' \in Seq(Words) /\ said' # <<>> /\ <<>> \in Seq(Words)
  BY <1>1, <1>2
<1>4. /\ Text(<<>>, said') \in Entries /\ Text(<<>>, said').type = "text"
      /\ Text(<<>>, said').delta = <<>> /\ Text(<<>>, said').text = said'
  BY <1>3, EntryTypes DEF Text
<1> QED BY <1>1, <1>2, <1>3, <1>4

\* The other events leave the text alone.
LEMMA OtherSends ==
    ASSUME TypeOK
    PROVE  /\ Work => /\ UNCHANGED <<said, deltas, replaced>>
                      /\ \E e \in Entries : /\ Send(e) /\ e.type = "item"
                                            /\ items' = Append(items, ItemDone(e))
           /\ Mention => /\ UNCHANGED <<said, deltas, replaced, items>>
                         /\ \E e \in Entries : Send(e) /\ e.type = "aside"
           /\ \A a \in Requests :
                 Ask(a) => /\ UNCHANGED <<said, deltas, replaced, items>>
                           /\ Request(a) \in Entries /\ Send(Request(a))
<1>1. ASSUME Work
      PROVE  \E e \in Entries : /\ Send(e) /\ e.type = "item"
                                /\ items' = Append(items, ItemDone(e))
  <2> DEFINE e1 == Item("item", "start", "running")
             e2 == Item("item", "update", "blocked")
             e3 == Item("output", "end", "completed")
  <2>1. /\ e1 \in Entries /\ e1.type = "item" /\ ItemDone(e1) = FALSE
        /\ e2 \in Entries /\ e2.type = "item" /\ ItemDone(e2) = TRUE
        /\ e3 \in Entries /\ e3.type = "item" /\ ItemDone(e3) = TRUE
    BY EntryTypes DEF Item, ItemDone
  <2>2. \/ Send(e1) /\ items' = Append(items, FALSE)
        \/ Send(e2) /\ items' = Append(items, TRUE)
        \/ Send(e3) /\ items' = Append(items, TRUE)
    BY <1>1, Zenon DEF Work
  <2> HIDE DEF e1, e2, e3
  <2> QED BY <2>1, <2>2
<1>2. ASSUME Mention PROVE \E e \in Entries : Send(e) /\ e.type = "aside"
  BY <1>2, EntryTypes, Zenon DEF Mention
<1>3. Work => UNCHANGED <<said, deltas, replaced>>
  BY Zenon DEF Work
<1>4. Mention => UNCHANGED <<said, deltas, replaced, items>>
  BY Zenon DEF Mention
<1>5. \A a \in Requests : Ask(a) => /\ UNCHANGED <<said, deltas, replaced, items>>
                                    /\ Request(a) \in Entries /\ Send(Request(a))
  BY EntryTypes, Zenon DEF Ask
<1> QED BY <1>1, <1>2, <1>3, <1>4, <1>5

\* The run and the connection keep their types.
LEMMA RunTypes ==
    ASSUME TypeOK, Next
    PROVE  RunTypeOK'
<1> USE DEF TypeOK, RunTypeOK
<1>1. ASSUME NEW e, Send(e) PROVE count' \in 0..MaxEvents /\ UNCHANGED <<run, link>>
  BY <1>1, ChatAssumption DEF Send
<1>2. CASE Say
  <2>1. deltas' \in BOOLEAN
    BY <1>2, SaySends
  <2> QED BY <1>1, <1>2, <2>1, SaySends, Zenon
<1>3. CASE Replace
  BY <1>1, <1>3, ReplaceSends, Zenon
<1>4. CASE Work
  <2>1. items' \in Seq(BOOLEAN)
    <3>1. items' = Append(items, FALSE) \/ items' = Append(items, TRUE)
      BY <1>4, Zenon DEF Work
    <3>2. items \in Seq(BOOLEAN) /\ FALSE \in BOOLEAN /\ TRUE \in BOOLEAN
      OBVIOUS
    <3> QED BY <3>1, <3>2, AppendProperties
  <2> QED BY <1>1, <1>4, <2>1, OtherSends, Zenon
<1>5. CASE Mention
  BY <1>1, <1>5, OtherSends, Zenon
<1>6. CASE Finish
  BY <1>6, Zenon DEF Finish
<1>7. CASE LinkLost
  <2>1. run' \in {"running", "ok", "failed", "cut"} /\ link' = "lost"
    BY <1>7 DEF LinkLost
  <2> QED BY <1>7, <2>1, Zenon DEF LinkLost
<1>8. CASE LinkSettled \/ LinkOvertaken
  BY <1>8, Zenon DEF LinkSettled, LinkOvertaken, runVars
<1>9. CASE TakeText \/ TakeItem \/ TakeAside \/ TakeRequest \/ TakeFinal
  <2>1. UNCHANGED <<runVars, link>>
    BY <1>9, Zenon DEF TakeText, TakeItem, TakeAside, TakeRequest, TakeFinal, Take
  <2> QED BY <2>1, Zenon DEF runVars
<1>10. CASE Resume \/ Close \/ StreamTimeout \/ DialogEnds \/ Stop \/ Tick
  <2>1. UNCHANGED <<runVars, link>>
    BY <1>10, Zenon DEF Resume, Close, StreamTimeout, DialogEnds, Stop, Tick, Over
  <2> QED BY <2>1, Zenon DEF runVars
<1>11. ASSUME NEW a \in Requests, TakeAnswer(a) \/ Ring(a) \/ Resolve(a) \/ Forget(a) PROVE RunTypeOK'
  <2>1. UNCHANGED <<runVars, link>>
    BY <1>11, Zenon DEF TakeAnswer, Ring, Resolve, Forget
  <2> QED BY <2>1, Zenon DEF runVars
<1>12. ASSUME NEW a \in Requests, Ask(a) PROVE RunTypeOK'
  BY <1>1, <1>12, OtherSends, Zenon
<1> QED BY <1>2, <1>3, <1>4, <1>5, <1>6, <1>7, <1>8, <1>9, <1>10, <1>11, <1>12, Steps

\* What goes into the queue, and what only takes from it.
LEMMA SendQueue ==
    ASSUME StreamTypeOK, NEW e \in Entries,
           IF stream = "over" THEN UNCHANGED queueVars ELSE Put(e)
    PROVE  /\ queue' \in Seq(Entries) /\ Len(queue') <= QueueSize /\ dropped' \in BOOLEAN
           /\ \A i \in 1..Len(queue') : \/ i \in 1..Len(queue) /\ queue'[i] = queue[i]
                                        \/ /\ stream # "over"
                                           /\ i = Len(queue) + 1 /\ queue'[i] = e
<1>1. CASE stream = "over"
  BY <1>1, Zenon DEF queueVars, StreamTypeOK
<1>2. CASE stream # "over"
  <2>1. dropped' \in BOOLEAN
    BY <1>2, Zenon DEF Put, StreamTypeOK
  <2> QED BY <1>2, <2>1, PutQueue
<1> QED BY <1>1, <1>2

\* The queue holds entries only and never more than its limit, and the wait of
\* the stream never lasts longer than its timeout.
LEMMA StreamTypes ==
    ASSUME TypeOK, AtHand, Next
    PROVE  StreamTypeOK'
<1> USE DEF TypeOK
<1>1. ASSUME NEW e \in Entries, Send(e) PROVE StreamTypeOK'
  <2>1. UNCHANGED streamVars
    BY <1>1, Zenon DEF Send
  <2>2. queue' \in Seq(Entries) /\ Len(queue') <= QueueSize /\ dropped' \in BOOLEAN
    BY <1>1, SendQueue, Zenon DEF Send
  <2> QED BY <2>1, <2>2 DEF StreamTypeOK, streamVars
<1>2. CASE Say \/ Replace \/ Work \/ Mention \/ \E a \in Requests : Ask(a)
  BY <1>1, <1>2, SaySends, ReplaceSends, OtherSends, Zenon
<1>3. CASE Finish \/ LinkSettled
  <2>1. UNCHANGED streamVars
    BY <1>3, Zenon DEF Finish, LinkSettled
  <2>2. \E e \in Entries : IF stream = "over" THEN UNCHANGED queueVars ELSE Put(e)
    BY <1>3, EntryTypes, Zenon DEF Finish, LinkSettled
  <2>3. queue' \in Seq(Entries) /\ Len(queue') <= QueueSize /\ dropped' \in BOOLEAN
    BY <2>2, SendQueue, Zenon
  <2> QED BY <2>1, <2>3 DEF StreamTypeOK, streamVars
<1>16. ASSUME NEW a \in Requests, TakeAnswer(a) PROVE StreamTypeOK'
  <2>1. UNCHANGED streamVars
    BY <1>16, Zenon DEF TakeAnswer
  <2>2. UNCHANGED queueVars \/ (stream # "over" /\ Put(Final("ok")))
    BY <1>16, Zenon DEF TakeAnswer
  <2>3. "ok" \in {"ok", "failed"}
    OBVIOUS
  <2>4. queue' \in Seq(Entries) /\ Len(queue') <= QueueSize /\ dropped' \in BOOLEAN
    <3>1. CASE UNCHANGED queueVars
      BY <3>1, Zenon DEF queueVars, StreamTypeOK
    <3>2. CASE stream # "over" /\ Put(Final("ok"))
      BY <2>3, <3>2, EntryTypes, SendQueue, Zenon
    <3> QED BY <2>2, <3>1, <3>2
  <2> QED BY <2>1, <2>4 DEF StreamTypeOK, streamVars
<1>4. CASE LinkLost \/ LinkOvertaken \/ \E a \in Requests : Ring(a) \/ Resolve(a) \/ Forget(a)
  <2>1. UNCHANGED <<queueVars, streamVars>>
    BY <1>4, Zenon DEF LinkLost, LinkOvertaken, Ring, Resolve, Forget
  <2> QED BY <2>1 DEF StreamTypeOK, queueVars, streamVars
<1>5. ASSUME NEW type, Take(type)
      PROVE  queue' \in Seq(Entries) /\ Len(queue') <= QueueSize /\ dropped' \in BOOLEAN
  <2>1. dropped' \in BOOLEAN
    BY <1>5, Zenon DEF Take, StreamTypeOK
  <2> QED BY <1>5, <2>1, TakeQueue
<1>6. ASSUME NEW what, NEW a \in Requests \cup {NoRequest}, WaitFor(what, a),
             what \in {"queue", "chunk", "emitter", "dialog"}
      PROVE  /\ stream' \in {"queue", "chunk", "emitter", "dialog", "last", "over"}
             /\ current' \in Requests \cup {NoRequest}
             /\ idle' \in 0..RequestTimeout
             /\ ended' \in {"none", "final", "timeout", "stopped"}
  BY <1>6, ApprovalAssumption DEF WaitFor, StreamTypeOK
<1>7. CASE TakeText
  <2>1. \E what \in {"chunk", "queue"} : WaitFor(what, NoRequest)
    BY <1>7 DEF TakeText
  <2> QED BY <1>5, <1>6, <1>7, <2>1 DEF TakeText, StreamTypeOK
<1>8. CASE TakeItem
  BY <1>5, <1>6, <1>8 DEF TakeItem, StreamTypeOK
<1>9. CASE TakeAside
  <2>1. \E what \in {"chunk", "emitter", "queue"} : WaitFor(what, NoRequest)
    BY <1>9 DEF TakeAside
  <2> QED BY <1>5, <1>6, <1>9, <2>1 DEF TakeAside, StreamTypeOK
<1>10. CASE TakeRequest
  <2>1. Head(queue).id \in Requests
    BY <1>10, TakeQueue, EntryTypes DEF TakeRequest
  <2>2. \E what \in {"chunk", "dialog", "queue"}, a \in Requests \cup {NoRequest} : WaitFor(what, a)
    BY <1>10, <2>1 DEF TakeRequest
  <2> QED BY <1>5, <1>6, <1>10, <2>2 DEF TakeRequest, StreamTypeOK
<1>11. CASE TakeFinal
  <2>1. stream' = "last" /\ ended' = "final" /\ idle' = 0 /\ UNCHANGED current
    BY <1>11 DEF TakeFinal
  <2> QED BY <1>5, <1>11, <2>1, ApprovalAssumption DEF TakeFinal, StreamTypeOK
<1>12. CASE Resume
  <2>1. UNCHANGED queueVars /\ WaitFor("queue", NoRequest)
    BY <1>12, Zenon DEF Resume
  <2> QED BY <1>6, <2>1 DEF StreamTypeOK, queueVars
<1>13. CASE DialogEnds
  <2>1. \E what \in {"chunk", "queue"} : WaitFor(what, NoRequest)
    BY <1>13 DEF DialogEnds
  <2>2. UNCHANGED queueVars
    BY <1>13, Zenon DEF DialogEnds
  <2> QED BY <1>6, <2>1, <2>2 DEF StreamTypeOK, queueVars
<1>14. CASE Close \/ StreamTimeout \/ Stop
  <2>1. \E how \in {"final", "timeout", "stopped"} : Over(how)
    BY <1>14 DEF Close, StreamTimeout, Stop
  <2>2. Len(<<>>) <= QueueSize /\ <<>> \in Seq(Entries)
    BY ChatAssumption
  <2> QED BY <2>1, <2>2, ApprovalAssumption DEF StreamTypeOK, Over
<1>15. CASE Tick
  <2>1. UNCHANGED <<queueVars, stream, current, ended>>
    BY <1>15, Zenon DEF Tick
  <2>2. idle' \in 0..RequestTimeout
    BY <1>15, ApprovalAssumption DEF Tick, SomethingDue, StreamTypeOK
  <2> QED BY <2>1, <2>2 DEF StreamTypeOK, queueVars
<1> QED BY <1>2, <1>3, <1>4, <1>7, <1>8, <1>9, <1>10, <1>11, <1>12, <1>13, <1>14, <1>15, <1>16, Steps

\* The variables keep their types.
LEMMA TypesKept ==
    ASSUME TypeOK, AtHand, [Next]_vars
    PROVE  TypeOK'
<1>1. CASE Next
  BY <1>1, ApprovalTypes, MapperTypes, RunTypes, StreamTypes DEF TypeOK
<1>2. CASE UNCHANGED vars
  BY <1>2 DEF vars, mapperVars, approvalVars, runVars, queueVars, streamVars, TypeOK,
              ApprovalTypeOK, MapperTypeOK, RunTypeOK, StreamTypeOK
<1> QED BY <1>1, <1>2

-----------------------------------------------------------------------------
(* Approvals *)

InQueue(a) == \E i \in 1..Len(queue) : queue[i] = Request(a)

\* A request is in the queue once.
NoTwins ==
    \A i, j \in 1..Len(queue) : queue[i].type = "approval" /\ queue[j] = queue[i] => i = j

\* A request that has not come to the stream, or that the stream is at, has not
\* been answered in any way.
NotYetAnswered ==
    \A a \in Requests :
        /\ InQueue(a) \/ current = a => verdict[a] = "pending"
        /\ current = a => ~InQueue(a)
        /\ verdict[a] = "unasked" \/ InQueue(a) \/ current = a =>
              task[a] = "none" /\ ~consent[a] /\ card[a] # "denied"

\* What the client noted, decided and sent, and what the Gateway made of it.
AnswersFit ==
    \A a \in Requests :
        /\ task[a] = "none" => decision[a] = "none"
        /\ verdict[a] \in {"allowed", "denied"} => task[a] \in {"done", "stray"}
        /\ verdict[a] = "allowed" => decision[a] = "allow"
        /\ decision[a] = "allow" => mode = "auto_approve" \/ consent[a]
        /\ card[a] = "denied" => decision[a] = "deny"

\* A timer that runs was started with or after the wait that the stream is in.
TimersRun ==
    /\ \A a \in Requests : task[a] = "sleeping" => timer[a] + idle <= ApprovalTimeout
    /\ ended = "timeout" => stream = "over"

\* Requests come into the queue when the Gateway asks, and then only.
LEMMA QueueMoves ==
    ASSUME TypeOK, NoTwins, Next
    PROVE  /\ NoTwins' \/ \E a \in Requests : Ask(a) /\ InQueue(a)
           /\ \A a \in Requests : InQueue(a)' => InQueue(a) \/ Ask(a)
           /\ \A a, b \in Requests : TakeAnswer(a) /\ InQueue(b)' => InQueue(b)
           /\ \A a, b \in Requests : Ask(a) /\ InQueue(b)' => InQueue(b) \/ b = a
<1> USE DEF TypeOK
<1>1. ASSUME NEW e \in Entries, e.type # "approval",
             IF stream = "over" THEN UNCHANGED queueVars ELSE Put(e)
      PROVE  NoTwins' /\ \A a \in Requests : InQueue(a)' => InQueue(a)
  <2>1. /\ Len(queue) \in Nat /\ Len(queue') \in Nat
        /\ \A i \in 1..Len(queue') : \/ i \in 1..Len(queue) /\ queue'[i] = queue[i]
                                     \/ i = Len(queue) + 1 /\ queue'[i] = e
    BY <1>1, SendQueue, LenProperties DEF StreamTypeOK
  <2>2. \A a \in Requests : Request(a) # e
    BY <1>1, EntryTypes
  <2> QED BY <1>1, <2>1, <2>2 DEF NoTwins, InQueue
<1>2. ASSUME NEW a \in Requests, Ask(a)
      PROVE  /\ NoTwins' \/ InQueue(a)
             /\ \A b \in Requests : InQueue(b)' => InQueue(b) \/ b = a
  <2>1. /\ Request(a) \in Entries
        /\ IF stream = "over" THEN UNCHANGED queueVars ELSE Put(Request(a))
    BY <1>2, OtherSends, Zenon DEF Send
  <2>2. /\ Len(queue) \in Nat /\ Len(queue') \in Nat
        /\ \A i \in 1..Len(queue') : \/ i \in 1..Len(queue) /\ queue'[i] = queue[i]
                                     \/ i = Len(queue) + 1 /\ queue'[i] = Request(a)
    BY <2>1, SendQueue, LenProperties DEF StreamTypeOK
  <2>3. \A b \in Requests : Request(b) = Request(a) => b = a
    BY DEF Request
  <2> QED BY <2>2, <2>3 DEF NoTwins, InQueue
<1>3. ASSUME NEW type, Take(type) PROVE NoTwins' /\ \A a \in Requests : InQueue(a)' => InQueue(a)
  <2>1. /\ Len(queue) \in Nat /\ Len(queue') \in Nat
        /\ \A i \in 1..Len(queue') : i + 1 \in 1..Len(queue) /\ queue'[i] = queue[i + 1]
    BY <1>3, TakeQueue, LenProperties DEF StreamTypeOK
  <2>2. NoTwins'
    BY <2>1 DEF NoTwins
  <2>3. \A a \in Requests : InQueue(a)' => InQueue(a)
    BY <2>1 DEF InQueue
  <2> QED BY <2>2, <2>3
<1>4. ASSUME queue' = queue \/ queue' = <<>>
      PROVE  NoTwins' /\ \A a \in Requests : InQueue(a)' => InQueue(a)
  <2>1. CASE queue' = queue
    BY <2>1 DEF NoTwins, InQueue
  <2>2. CASE queue' = <<>>
    BY <2>2 DEF NoTwins, InQueue
  <2> QED BY <1>4, <2>1, <2>2
<1>5. CASE Say \/ Replace \/ Work \/ Mention \/ Finish \/ LinkSettled
  <2>1. \E e \in Entries : /\ e.type # "approval"
                           /\ IF stream = "over" THEN UNCHANGED queueVars ELSE Put(e)
    <3>1. CASE Say \/ Replace
      BY <3>1, SaySends, ReplaceSends DEF Send
    <3>2. CASE Work \/ Mention
      BY <3>2, OtherSends DEF Send
    <3>3. CASE Finish \/ LinkSettled
      BY <3>3, EntryTypes DEF Finish, LinkSettled
    <3> QED BY <1>5, <3>1, <3>2, <3>3
  <2> QED BY <1>1, <2>1
<1>6. CASE TakeText \/ TakeItem \/ TakeAside \/ TakeRequest \/ TakeFinal
  <2>1. \E type \in {"text", "item", "aside", "approval", "final"} : Take(type)
    BY <1>6 DEF TakeText, TakeItem, TakeAside, TakeRequest, TakeFinal
  <2> QED BY <1>3, <2>1
<1>7. CASE LinkLost \/ LinkOvertaken \/ Resume \/ DialogEnds \/ Tick
  <2>1. UNCHANGED queue
    BY <1>7, Zenon DEF LinkLost, LinkOvertaken, Resume, DialogEnds, Tick, queueVars
  <2> QED BY <1>4, <2>1
<1>8. CASE Close \/ StreamTimeout \/ Stop
  <2>1. queue' = <<>>
    BY <1>8, Zenon DEF Close, StreamTimeout, Stop, Over
  <2> QED BY <1>4, <2>1
<1>9. ASSUME NEW a \in Requests, Ring(a) \/ Resolve(a) \/ Forget(a)
      PROVE  NoTwins' /\ \A b \in Requests : InQueue(b)' => InQueue(b)
  <2>1. UNCHANGED queue
    BY <1>9, Zenon DEF Ring, Resolve, Forget, queueVars
  <2> QED BY <1>4, <2>1
<1>10. ASSUME NEW a \in Requests, TakeAnswer(a)
       PROVE  NoTwins' /\ \A b \in Requests : InQueue(b)' => InQueue(b)
  <2>1. UNCHANGED queue \/ (stream # "over" /\ Put(Final("ok")))
    BY <1>10, Zenon DEF TakeAnswer, queueVars
  <2>2. Final("ok") \in Entries /\ Final("ok").type # "approval"
    BY EntryTypes
  <2>3. CASE UNCHANGED queue
    BY <1>4, <2>3
  <2>4. CASE stream # "over" /\ Put(Final("ok"))
    BY <1>1, <2>2, <2>4
  <2> QED BY <2>1, <2>3, <2>4
<1> QED BY <1>2, <1>5, <1>6, <1>7, <1>8, <1>9, <1>10, Steps

\* The request that the stream takes was in the queue, and is not any more.
LEMMA TakenRequest ==
    ASSUME TypeOK, NoTwins, TakeRequest
    PROVE  \E a \in Requests : a = Head(queue).id /\ InQueue(a) /\ ~InQueue(a)'
<1>1. Take("approval")
  BY DEF TakeRequest
<1>2. /\ Len(queue) \in Nat \ {0} /\ Len(queue') = Len(queue) - 1
      /\ Head(queue) = queue[1] /\ queue[1] \in Entries /\ queue[1].type = "approval"
      /\ \A i \in 1..Len(queue') : i + 1 \in 1..Len(queue) /\ queue'[i] = queue[i + 1]
  BY <1>1, TakeQueue DEF TypeOK
<1>3. Head(queue).id \in Requests /\ queue[1] = Request(Head(queue).id)
  BY <1>2, EntryTypes
<1>4. \A i \in 1..Len(queue') : queue'[i] # queue[1]
  BY <1>2 DEF NoTwins
<1> DEFINE a == Head(queue).id
<1> HIDE DEF a
<1>5. InQueue(a)
  BY <1>2, <1>3 DEF InQueue, a
<1>6. \A b : b = a => ~InQueue(b)'
  BY <1>3, <1>4 DEF InQueue, a
<1> QED BY <1>3, <1>5, <1>6 DEF a

\* No request comes twice, so none has been answered when the stream takes it.
LEMMA ApprovalStep ==
    ASSUME TypeOK, AtHand, NoTwins, NotYetAnswered, AnswersFit, Next
    PROVE  NoTwins' /\ NotYetAnswered' /\ AnswersFit'
<1>1. NoTwins'
  <2>1. \A a \in Requests : Ask(a) => ~InQueue(a)
    BY DEF Ask, NotYetAnswered
  <2> QED BY <2>1, QueueMoves
<1> SUFFICES NotYetAnswered' /\ AnswersFit'
  BY <1>1
<1>2. ASSUME UNCHANGED <<mode, consent, card, task, decision, verdict>>,
             current' \in {current, NoRequest},
             \A b \in Requests : InQueue(b)' => InQueue(b)
      PROVE  NotYetAnswered' /\ AnswersFit'
  BY <1>2, ApprovalAssumption DEF NotYetAnswered, AnswersFit
<1>3. ASSUME NEW a \in Requests, Ask(a) PROVE NotYetAnswered' /\ AnswersFit'
  <2>1. /\ verdict[a] = "unasked" /\ verdict' = [verdict EXCEPT ![a] = "pending"]
        /\ UNCHANGED <<mode, consent, card, task, decision, current>>
    BY <1>3, Zenon DEF Ask, Send, streamVars
  <2>2. \A b \in Requests : InQueue(b)' => InQueue(b) \/ b = a
    BY <1>3, QueueMoves
  <2> QED BY <2>1, <2>2, ApprovalAssumption DEF NotYetAnswered, AnswersFit, TypeOK, ApprovalTypeOK
<1>4. ASSUME NEW a \in Requests, TakeAnswer(a) \/ Ring(a) \/ Resolve(a) \/ Forget(a)
      PROVE  NotYetAnswered' /\ AnswersFit'
  <2>1. UNCHANGED <<current, mode, consent, card, decision>>
    BY <1>4, Zenon DEF TakeAnswer, Ring, Resolve, Forget, Decide, TimerRings, Answer, AnswerTimesOut, streamVars
  <2>2. \A b \in Requests : InQueue(b)' => InQueue(b)
    <3>1. CASE TakeAnswer(a)
      BY <3>1, QueueMoves
    <3>2. CASE Ring(a) \/ Resolve(a) \/ Forget(a)
      <4>1. UNCHANGED queue
        BY <3>2, Zenon DEF Ring, Resolve, Forget, queueVars
      <4> QED BY <4>1 DEF InQueue
    <3> QED BY <1>4, <3>1, <3>2
  <2>3. Decide(a, FALSE) \/ Decide(a, TRUE) \/ TimerRings(a) \/ Answer(a, Connected) \/ AnswerTimesOut(a)
    BY <1>4, Zenon DEF TakeAnswer, Ring, Resolve, Forget
  <2>7. CASE AnswerTimesOut(a)
    BY <2>1, <2>2, <2>7 DEF AnswerTimesOut, NotYetAnswered, AnswersFit, TypeOK, ApprovalTypeOK
  <2>4. CASE Decide(a, FALSE) \/ Decide(a, TRUE)
    BY <2>1, <2>2, <2>4 DEF Decide, NotYetAnswered, AnswersFit, TypeOK, ApprovalTypeOK
  <2>5. CASE TimerRings(a)
    BY <2>1, <2>2, <2>5 DEF TimerRings, TimerDue, NotYetAnswered, AnswersFit, TypeOK, ApprovalTypeOK
  <2>6. CASE Answer(a, Connected)
    BY <2>1, <2>2, <2>6 DEF Answer, NotYetAnswered, AnswersFit, TypeOK, ApprovalTypeOK
  <2> QED BY <2>3, <2>4, <2>5, <2>6, <2>7
<1>5. ASSUME \A b \in Requests : ~Ask(b)
      PROVE  \A b \in Requests : InQueue(b)' => InQueue(b)
  BY <1>5, QueueMoves
<1>6. CASE LinkLost
  <2>1. AnswersLost /\ UNCHANGED <<current, queue>>
    BY <1>6, Zenon DEF LinkLost, queueVars, streamVars
  <2>2. \A b \in Requests : InQueue(b)' => InQueue(b)
    BY <2>1 DEF InQueue
  <2> QED BY <2>1, <2>2 DEF AnswersLost, NotYetAnswered, AnswersFit
<1>7. ASSUME NEW a \in Requests, InQueue(a) \/ current = a, current' \in {NoRequest, a},
             \A b \in Requests : InQueue(b)' => InQueue(b), ~InQueue(a)',
             \/ AutoApprove(a) \/ AutoDeny(a) \/ CloseDialog(a) \/ StartTimer(a)
             \/ Render(a) \/ OpenDialog(a),
             current' = NoRequest \/ Render(a) \/ OpenDialog(a)
      PROVE  NotYetAnswered' /\ AnswersFit'
  <2>1. verdict[a] = "pending" /\ task[a] = "none" /\ ~consent[a] /\ card[a] # "denied"
    BY <1>7 DEF NotYetAnswered
  <2> USE ApprovalAssumption DEF NotYetAnswered, AnswersFit, TypeOK, ApprovalTypeOK, Schedule, ShowCard
  <2>2. CASE AutoApprove(a) /\ current' = NoRequest
    BY <1>7, <2>1, <2>2 DEF AutoApprove
  <2>3. CASE AutoDeny(a) /\ current' = NoRequest
    BY <1>7, <2>1, <2>3 DEF AutoDeny
  <2>4. CASE CloseDialog(a) /\ current' = NoRequest
    BY <1>7, <2>1, <2>4 DEF CloseDialog, Response
  <2>5. CASE StartTimer(a) /\ current' = NoRequest
    BY <1>7, <2>1, <2>5 DEF StartTimer
  <2>6. CASE Render(a)
    BY <1>7, <2>1, <2>6 DEF Render
  <2>7. CASE OpenDialog(a)
    BY <1>7, <2>1, <2>7 DEF OpenDialog, approvalVars
  <2> QED BY <1>7, <2>2, <2>3, <2>4, <2>5, <2>6, <2>7
<1>8. CASE TakeRequest
  <2>1. PICK a \in Requests : a = Head(queue).id /\ InQueue(a) /\ ~InQueue(a)'
    BY <1>8, TakenRequest
  <2>2. \/ AutoApprove(a) /\ current' = NoRequest
        \/ AutoDeny(a) /\ current' = NoRequest
        \/ OpenDialog(a) /\ current' = a
        \/ Render(a) /\ current' = a
    BY <1>8, <2>1, Zenon DEF TakeRequest, WaitFor
  <2>3. \A b \in Requests : InQueue(b)' => InQueue(b)
    <3>1. \A b \in Requests : ~Ask(b)
      <4>1. stream = "queue" /\ Len(queue') = Len(queue) - 1 /\ Len(queue) \in Nat
        BY <1>8, TakeQueue DEF TakeRequest, Take, TypeOK
      <4>2. ASSUME NEW b \in Requests, Ask(b) PROVE FALSE
        <5>1. Put(Request(b))
          BY <4>1, <4>2, Zenon DEF Ask, Send
        <5>2. Request(b) \in Entries
          BY EntryTypes
        <5>3. Len(queue') \in {Len(queue), Len(queue) + 1}
          BY <5>1, <5>2, PutQueue, AppendProperties DEF TypeOK, StreamTypeOK
        <5> QED BY <4>1, <5>3
      <4> QED BY <4>2
    <3> QED BY <1>5, <3>1
  <2> QED BY <1>7, <2>1, <2>2, <2>3
<1>9. CASE DialogEnds \/ Resume
  <2>1. UNCHANGED queue /\ current' = NoRequest
    BY <1>9, Zenon DEF DialogEnds, Resume, queueVars, WaitFor
  <2>2. \A b \in Requests : InQueue(b)' => InQueue(b)
    BY <2>1 DEF InQueue
  <2>3. \/ current \in Requests /\ (CloseDialog(current) \/ StartTimer(current))
        \/ UNCHANGED approvalVars
    BY <1>9, Zenon DEF DialogEnds, Resume, AtHand, TypeOK, StreamTypeOK
  <2>4. CASE current \in Requests /\ (CloseDialog(current) \/ StartTimer(current))
    <3> DEFINE a == current
    <3>1. ~InQueue(a) /\ a \in Requests
      BY <2>4 DEF NotYetAnswered
    <3>2. PICK c \in Requests : c = a
      BY <3>1
    <3>3. ~InQueue(c)'
      BY <2>2, <3>1, <3>2
    <3> QED BY <1>7, <2>1, <2>2, <2>4, <3>2, <3>3
  <2>5. CASE UNCHANGED approvalVars
    BY <1>2, <2>1, <2>2, <2>5, Zenon DEF approvalVars
  <2> QED BY <2>3, <2>4, <2>5
<1>10. CASE \/ Say \/ Replace \/ Work \/ Mention \/ Finish \/ LinkSettled \/ LinkOvertaken
            \/ TakeText \/ TakeItem \/ TakeAside \/ TakeFinal \/ Close \/ StreamTimeout \/ Stop \/ Tick
  <2>1. UNCHANGED <<mode, consent, card, task, decision, verdict>>
    BY <1>10, Zenon DEF Say, Replace, Work, Mention, Finish, LinkSettled, LinkOvertaken, TakeText, TakeItem,
            TakeAside, TakeFinal, Close, StreamTimeout, Stop, Tick, Over, approvalVars
  <2>2. current' \in {current, NoRequest}
    <3>1. current' = current \/ current' = NoRequest
      BY <1>10, Zenon DEF Say, Replace, Work, Mention, Finish, LinkSettled, LinkOvertaken, TakeText, TakeItem,
            TakeAside, TakeFinal, Close, StreamTimeout, Stop, Tick, Over, Send, WaitFor, streamVars
    <3> QED BY <3>1
  <2>3. \A b \in Requests : InQueue(b)' => InQueue(b)
    <3>1. \A b \in Requests : ~Ask(b)
      <4>1. ASSUME NEW b \in Requests, Ask(b) PROVE FALSE
        <5>1. verdict[b] # verdict'[b]
          BY <4>1 DEF Ask, TypeOK, ApprovalTypeOK
        <5> QED BY <2>1, <5>1
      <4> QED BY <4>1
    <3> QED BY <1>5, <3>1
  <2> QED BY <1>2, <2>1, <2>2, <2>3
<1> QED BY <1>3, <1>4, <1>6, <1>8, <1>9, <1>10, Steps

\* What the stream waits for tells whether it has a request at hand.
LEMMA AtHandKept ==
    ASSUME TypeOK, AtHand, Next
    PROVE  AtHand'
<1>1. CASE \/ Say \/ Replace \/ Work \/ Mention \/ Finish \/ LinkLost \/ LinkSettled \/ LinkOvertaken \/ Tick
           \/ \E a \in Requests : Ask(a) \/ TakeAnswer(a) \/ Ring(a) \/ Resolve(a) \/ Forget(a)
  <2>1. UNCHANGED <<stream, current>>
    BY <1>1, Zenon DEF Say, Replace, Work, Mention, Finish, LinkLost, LinkSettled, LinkOvertaken, Tick, Ask,
           TakeAnswer, Ring, Resolve, Forget, Send, streamVars
  <2> QED BY <2>1 DEF AtHand
<1>2. CASE TakeText \/ TakeItem \/ TakeAside \/ Resume \/ DialogEnds
  <2>1. \E what \in {"chunk", "emitter", "queue"} : WaitFor(what, NoRequest)
    BY <1>2 DEF TakeText, TakeItem, TakeAside, Resume, DialogEnds
  <2> QED BY <2>1 DEF WaitFor, AtHand
<1>3. CASE TakeRequest
  <2>1. Head(queue).id \in Requests
    BY <1>3, TakeQueue, EntryTypes DEF TakeRequest, TypeOK
  <2> QED BY <1>3, <2>1, ApprovalAssumption DEF TakeRequest, WaitFor, AtHand
<1>4. CASE TakeFinal
  BY <1>4 DEF TakeFinal, Take, AtHand
<1>5. CASE Close \/ StreamTimeout \/ Stop
  BY <1>5 DEF Close, StreamTimeout, Stop, Over, AtHand
<1> QED BY <1>1, <1>2, <1>3, <1>4, <1>5, Steps

\* Only the step after the card puts a task to sleep, and only the clock changes
\* the timer of one that sleeps.
LEMMA Sleepers ==
    ASSUME TypeOK, AtHand, Next, ~Tick, ~Resume, NEW a \in Requests, task'[a] = "sleeping"
    PROVE  task[a] = "sleeping" /\ timer'[a] = timer[a]
<1> USE DEF TypeOK, ApprovalTypeOK
<1>1. CASE UNCHANGED <<task, timer>>
  BY <1>1
<1>2. ASSUME NEW b \in Requests,
             \/ AutoApprove(b) \/ AutoDeny(b) \/ CloseDialog(b)
             \/ Ring(b) \/ Resolve(b) \/ TakeAnswer(b) \/ Forget(b)
      PROVE  task[a] = "sleeping" /\ timer'[a] = timer[a]
  <2>1. \E t : timer' = [timer EXCEPT ![b] = t] \/ UNCHANGED timer
    BY <1>2 DEF AutoApprove, AutoDeny, CloseDialog, Schedule, Ring, TimerRings, Resolve, Answer,
           TakeAnswer, Decide, Forget, AnswerTimesOut
  <2>2. \E t \in {"ready", "sent", "late", "stray", "done"} : task' = [task EXCEPT ![b] = t]
    BY <1>2 DEF AutoApprove, AutoDeny, CloseDialog, Schedule, Ring, TimerRings, Resolve, Answer,
           TakeAnswer, Decide, Forget, AnswerTimesOut
  <2>3. b # a
    BY <2>2
  <2> QED BY <2>1, <2>2, <2>3
<1>3. CASE TakeRequest
  <2>1. PICK b \in Requests : b = Head(queue).id
    BY <1>3, TakeQueue, EntryTypes DEF TakeRequest
  <2>2. AutoApprove(b) \/ AutoDeny(b) \/ UNCHANGED <<task, timer>>
    BY <1>3, <2>1, Zenon DEF TakeRequest, OpenDialog, Render, approvalVars
  <2> QED BY <1>1, <1>2, <2>2
<1>4. CASE DialogEnds
  <2>1. PICK b \in Requests : b = current
    BY <1>4 DEF DialogEnds, AtHand, StreamTypeOK
  <2>2. CloseDialog(b)
    BY <1>4, <2>1, Zenon DEF DialogEnds
  <2> QED BY <1>2, <2>2
<1>5. CASE LinkLost
  BY <1>5 DEF LinkLost, AnswersLost
<1>6. CASE \/ Say \/ Replace \/ Work \/ Mention \/ Finish \/ LinkSettled \/ LinkOvertaken
           \/ TakeText \/ TakeItem \/ TakeAside \/ TakeFinal \/ Close \/ StreamTimeout \/ Stop
           \/ \E b \in Requests : Ask(b)
  <2>1. UNCHANGED <<task, timer>>
    BY <1>6, Zenon DEF Say, Replace, Work, Mention, Finish, LinkSettled, LinkOvertaken, TakeText, TakeItem,
           TakeAside, TakeFinal, Close, StreamTimeout, Stop, Over, Ask, approvalVars
  <2> QED BY <1>1, <2>1
<1>7. CASE \E b \in Requests : Ring(b) \/ Resolve(b) \/ TakeAnswer(b) \/ Forget(b)
  BY <1>2, <1>7
<1> QED BY <1>3, <1>4, <1>5, <1>6, <1>7, Steps

\* No timer is due later than ApprovalTimeout after the present wait began, so
\* with the shorter timeout no wait ends before the denial that it waits for.
LEMMA TimersStep ==
    ASSUME TypeOK, AtHand, TimersRun, DeniedBeforeTimeout, Next
    PROVE  TimersRun' /\ DeniedBeforeTimeout'
<1>1. \A a \in Requests : timer[a] \in Nat
  BY ApprovalAssumption DEF TypeOK, ApprovalTypeOK
<1>2. ApprovalTimeout \in Nat /\ RequestTimeout \in Nat /\ idle \in Nat
  BY ApprovalAssumption DEF TypeOK, StreamTypeOK
<1>3. CASE Tick
  <2>1. /\ \A a \in Requests : task[a] = "sleeping" => timer'[a] = timer[a] - 1
        /\ UNCHANGED <<task, stream, ended>> /\ idle' \in {idle, idle + 1}
    BY <1>3 DEF Tick, TimersTick, Timed
  <2> QED BY <1>1, <1>2, <2>1 DEF TimersRun, DeniedBeforeTimeout
<1>4. CASE Resume
  <2>1. UNCHANGED ended /\ idle' = 0 /\ stream \in {"chunk", "emitter"}
    BY <1>4, Zenon DEF Resume, WaitFor
  <2>2. ended # "timeout"
    BY <2>1 DEF TimersRun
  <2>3. ASSUME NEW a \in Requests, task'[a] = "sleeping"
        PROVE  timer'[a] <= ApprovalTimeout /\ timer'[a] \in Nat
    <3>1. timer'[a] \in Nat
      BY <1>4, ApprovalTypes, ApprovalAssumption DEF ApprovalTypeOK
    <3>2. \/ UNCHANGED <<task, timer>>
          \/ /\ timer' = [timer EXCEPT ![current] = ApprovalTimeout]
             /\ task' = [task EXCEPT ![current] = "sleeping"]
      BY <1>4, Zenon DEF Resume, StartTimer, approvalVars
    <3>3. timer \in [Requests -> 0..ApprovalTimeout \cup 0..RequestTimeout] /\ DOMAIN task = Requests
      BY DEF TypeOK, ApprovalTypeOK
    <3>4. timer'[a] = ApprovalTimeout \/ (task[a] = "sleeping" /\ timer'[a] = timer[a])
      BY <2>3, <3>2, <3>3
    <3> QED BY <1>1, <1>2, <3>1, <3>4 DEF TimersRun
  <2> QED BY <1>2, <2>1, <2>2, <2>3 DEF TimersRun, DeniedBeforeTimeout
<1>5. CASE ~Tick /\ ~Resume
  <2>1. \A a \in Requests : task'[a] = "sleeping" => task[a] = "sleeping" /\ timer'[a] = timer[a]
    BY <1>5, Sleepers
  <2>2. CASE StreamTimeout
    <3>1. idle = RequestTimeout /\ idle' = 0 /\ stream' = "over" /\ ended' = "timeout"
      BY <2>2, Zenon DEF StreamTimeout, Over
    <3>2. ASSUME NEW a \in Requests, task'[a] = "sleeping"
          PROVE  ~(ApprovalTimeout < RequestTimeout)
      BY <1>1, <1>2, <2>1, <3>1, <3>2 DEF TimersRun
    <3> QED BY <1>1, <1>2, <2>1, <3>1, <3>2 DEF TimersRun, DeniedBeforeTimeout
  <2>3. CASE ~StreamTimeout
    <3>1. /\ idle' \in {idle, 0}
          /\ ended' # "timeout" \/ (UNCHANGED ended /\ (stream = "over" => stream' = "over"))
      <4>1. CASE \/ Say \/ Replace \/ Work \/ Mention \/ Finish \/ LinkLost \/ LinkSettled \/ LinkOvertaken
                 \/ \E a \in Requests : Ask(a) \/ TakeAnswer(a) \/ Ring(a) \/ Resolve(a) \/ Forget(a)
        <5>1. UNCHANGED streamVars
          BY <4>1, Zenon DEF Say, Replace, Work, Mention, Finish, LinkLost, LinkSettled, LinkOvertaken, Ask,
                 TakeAnswer, Ring, Resolve, Forget, Send
        <5> QED BY <5>1 DEF streamVars
      <4>2. CASE TakeText \/ TakeItem \/ TakeAside \/ TakeRequest \/ DialogEnds
        <5>1. stream # "over" /\ idle' = 0 /\ UNCHANGED ended
          BY <4>2 DEF TakeText, TakeItem, TakeAside, TakeRequest, DialogEnds, Take, WaitFor
        <5> QED BY <5>1
      <4>3. CASE TakeFinal \/ Close \/ Stop
        <5>1. idle' = 0 /\ (ended' = "final" \/ ended' = "stopped")
          BY <4>3, Zenon DEF TakeFinal, Close, Stop, Over
        <5> QED BY <5>1
      <4> QED BY <1>5, <2>3, <4>1, <4>2, <4>3, Steps
    <3> QED BY <1>1, <1>2, <2>1, <3>1 DEF TimersRun, DeniedBeforeTimeout
  <2> QED BY <2>2, <2>3
<1> QED BY <1>3, <1>4, <1>5

-----------------------------------------------------------------------------
(* The text and the tool card *)

Live == stream \notin {"last", "over"}

\* What a text entry makes of the text before it.
Becomes(e, before, after) ==
    IF e.delta # <<>> THEN after = before \o e.delta ELSE after = e.text /\ e.text # <<>>

\* What an entry makes of the cards before it.
Cards == Seq(BOOLEAN)
Carded(e, before) == IF e.type = "item" THEN Append(before, ItemDone(e)) ELSE before

\* T and K are what the mapper's text and its cards become as it takes the
\* entries of the queue one by one: in the end, unless an entry was dropped,
\* what the run has said and reported of its item.
Replay(T, K) ==
    /\ T[0] = snapshot /\ K[0] = cards
    /\ ~dropped => T[Len(queue)] = said /\ K[Len(queue)] = items
    /\ \A i \in 1..Len(queue) :
          /\ IF queue[i].type = "text" THEN Becomes(queue[i], T[i-1], T[i]) ELSE T[i] = T[i-1]
          /\ K[i] = Carded(queue[i], K[i-1])
          /\ queue[i].type = "final" /\ ~dropped /\ ~StrayReply => T[i] = said /\ K[i] = items
          /\ ~replaced => IsPrefix(T[i-1], T[i])
    /\ ~replaced => \A i \in 0..Len(queue) : IsPrefix(T[i], said)

\* Deltas are lost for good with the entry that carried them, whole texts are
\* not.
Healing == ~dropped \/ (~deltas /\ ~replaced)

Replayed ==
    Live /\ Healing =>
        \E T \in [0..Len(queue) -> Seq(Words)], K \in [0..Len(queue) -> Cards] :
            Replay(T, K)

\* What is on the screen ends with the text that the next one is compared with,
\* and is that text as long as none was replaced.
Shown ==
    Live /\ Healing => IsSuffix(snapshot, shown) /\ (~replaced => shown = snapshot)

\* A final entry is in the queue once the run is over, and says how it ended,
\* but for a stray reply.
Ends ==
    /\ Live => finish = "none"
    /\ \A i \in 1..Len(queue) : queue[i].type = "final" =>
          StrayReply \/ (run # "running" /\ (queue[i].status = "ok" => run = "ok"))
    /\ link # "up" => run # "running"

\* A new entry is one step more at the end, which leads to what the run has said
\* by then; if it is dropped, the queue still leads to whole texts.
LEMMA PutReplay ==
    ASSUME TypeOK, Replayed, Live, Healing', said' \in Seq(Words),
           NEW e \in Entries, Put(e),
           UNCHANGED <<snapshot, cards>>, deltas => deltas', StrayReply => StrayReply',
           e.type = "text" =>
               IF e.delta # <<>> THEN deltas' /\ said' = said \o e.delta
               ELSE e.text = said' /\ said' # <<>>,
           e.type # "text" => said' = said,
           items' = Carded(e, items),
           ~replaced' => ~replaced /\ IsPrefix(said, said'),
           \/ said' = said /\ items' = items
           \/ StrayReply'
           \/ \A i \in 1..Len(queue) : queue[i].type # "final"
    PROVE  (\E T \in [0..Len(queue) -> Seq(Words)], K \in [0..Len(queue) -> Cards] : Replay(T, K))'
<1>1. /\ queue \in Seq(Entries) /\ Len(queue) \in Nat /\ dropped \in BOOLEAN
      /\ said \in Seq(Words) /\ items \in Cards
  BY LenProperties DEF TypeOK, StreamTypeOK, RunTypeOK, Cards
<1>2. Healing
  BY DEF Healing, Put
<1>3. PICK T \in [0..Len(queue) -> Seq(Words)], K \in [0..Len(queue) -> Cards] : Replay(T, K)
  BY <1>2 DEF Replayed, Cards
<1>4. ~replaced' => \A i \in 0..Len(queue) : IsPrefix(T[i], said')
  <2>1. ASSUME ~replaced', NEW i \in 0..Len(queue) PROVE IsPrefix(T[i], said')
    <3>1. IsPrefix(T[i], said) /\ IsPrefix(said, said') /\ T[i] \in Seq(Words)
      BY <1>3, <2>1 DEF Replay
    <3> QED BY <1>1, <3>1, PrefixOfMore
  <2> QED BY <2>1
<1>5. CASE Len(queue) < QueueSize
  <2>1. queue' = Append(queue, e) /\ dropped' = dropped
    BY <1>5 DEF Put
  <2>2. /\ Len(queue') = Len(queue) + 1 /\ queue'[Len(queue) + 1] = e
        /\ \A i \in 1..Len(queue) : queue'[i] = queue[i]
    BY <1>1, <2>1, AppendProperties
  <2>. PICK n \in Nat : n = Len(queue)
    BY <1>1
  <2> DEFINE last == IF e.type # "text" THEN T[n] ELSE IF e.delta # <<>> THEN T[n] \o e.delta ELSE e.text
             tcard == Carded(e, K[n])
  <2>3. T[n] \in Seq(Words) /\ K[n] \in Cards
    BY <1>1
  <2>4. e.type = "text" => e.delta \in Seq(Words) /\ e.text \in Seq(Words)
    BY EntryTypes
  <2>5. last \in Seq(Words) /\ tcard \in Cards
    <3>1. last \in Seq(Words)
      BY <2>3, <2>4, ConcatProperties
    <3>2. ItemDone(e) \in BOOLEAN
      BY DEF ItemDone
    <3>3. tcard \in Cards
      BY <2>3, <3>2, AppendProperties DEF Carded, Cards
    <3> QED BY <3>1, <3>3
  <2>6. ~dropped => T[n] = said /\ K[n] = items
    BY <1>3 DEF Replay
  <2>7. ~dropped => last = said' /\ tcard = items'
    BY <2>6
  <2>8. e.type = "text" => Becomes(e, T[n], last)
    BY DEF Becomes
  <2>9. e.type # "text" => last = T[n]
    OBVIOUS
  <2>10. ~replaced' => IsPrefix(T[n], last) /\ IsPrefix(last, said')
    <3>1. ASSUME ~replaced' PROVE IsPrefix(T[n], said')
      BY <1>1, <1>4, <3>1
    <3>2. last = T[n] \/ last = said'
      BY <2>1, <2>7 DEF Healing
    <3> QED BY <2>3, <3>1, <3>2, PrefixOfMore
  <2> HIDE DEF last, tcard
  <2>11. PICK U \in [0..n + 1 -> Seq(Words)], L \in [0..n + 1 -> Cards] :
         /\ U[n + 1] = last /\ L[n + 1] = tcard
         /\ \A i \in 0..n : U[i] = T[i] /\ L[i] = K[i]
    <3> DEFINE V == [i \in 0..n + 1 |-> IF i = n + 1 THEN last ELSE T[i]]
               M == [i \in 0..n + 1 |-> IF i = n + 1 THEN tcard ELSE K[i]]
    <3>1. V \in [0..n + 1 -> Seq(Words)] /\ M \in [0..n + 1 -> Cards]
      <4>1. \A i \in 0..n + 1 : i = n + 1 \/ i \in 0..n
        OBVIOUS
      <4>2. \A i \in 0..n : T[i] \in Seq(Words) /\ K[i] \in Cards
        OBVIOUS
      <4> QED BY <2>5, <4>1, <4>2
    <3>2. V[n + 1] = last /\ M[n + 1] = tcard /\ \A i \in 0..n : V[i] = T[i] /\ M[i] = K[i]
      OBVIOUS
    <3> HIDE DEF V, M
    <3> QED BY <3>1, <3>2
  <2>12. U[0] = snapshot' /\ L[0] = cards'
    BY <1>1, <1>3, <2>11 DEF Replay
  <2>13. ASSUME NEW i \in 1..n
         PROVE  /\ IF queue'[i].type = "text" THEN Becomes(queue'[i], U[i-1], U[i]) ELSE U[i] = U[i-1]
                /\ L[i] = Carded(queue'[i], L[i-1])
                /\ queue'[i].type = "final" /\ ~dropped' /\ ~StrayReply' => U[i] = said' /\ L[i] = items'
                /\ ~replaced' => IsPrefix(U[i-1], U[i])
    <3>1. i \in 0..n /\ i - 1 \in 0..n
      BY <1>1
    <3>2. U[i] = T[i] /\ L[i] = K[i] /\ U[i-1] = T[i-1] /\ L[i-1] = K[i-1] /\ queue'[i] = queue[i]
      BY <2>2, <2>11, <3>1
    <3> QED BY <1>3, <2>1, <3>2 DEF Replay
  <2>14. /\ IF e.type = "text" THEN Becomes(e, U[n], U[n+1]) ELSE U[n+1] = U[n]
         /\ L[n+1] = Carded(e, L[n])
         /\ ~dropped' => U[n+1] = said' /\ L[n+1] = items'
         /\ ~replaced' => IsPrefix(U[n], U[n+1])
    <3>1. U[n] = T[n] /\ L[n] = K[n]
      BY <1>1, <2>11
    <3>2. L[n+1] = Carded(e, L[n])
      BY <2>11, <3>1 DEF tcard
    <3> QED BY <2>1, <2>7, <2>8, <2>9, <2>10, <2>11, <3>1, <3>2
  <2>15. ~replaced' => \A i \in 0..n + 1 : IsPrefix(U[i], said')
    BY <1>1, <1>4, <2>10, <2>11
  <2>16. \A i \in 1..n + 1 : i \in 1..n \/ i = n + 1
    BY <1>1
  <2>17. n + 1 - 1 = n
    BY <1>1
  <2>18. Len(queue') = n + 1 /\ queue'[n + 1] = e
    BY <2>2
  <2>19. Replay(U, L)'
    <3>1. ASSUME NEW i \in 1..n + 1
          PROVE  /\ IF queue'[i].type = "text" THEN Becomes(queue'[i], U[i-1], U[i]) ELSE U[i] = U[i-1]
                 /\ L[i] = Carded(queue'[i], L[i-1])
                 /\ queue'[i].type = "final" /\ ~dropped' /\ ~StrayReply' => U[i] = said' /\ L[i] = items'
                 /\ ~replaced' => IsPrefix(U[i-1], U[i])
      <4>1. CASE i \in 1..n
        BY <2>13, <4>1
      <4>2. CASE i = n + 1
        BY <2>14, <2>17, <2>18, <4>2
      <4> QED BY <2>16, <4>1, <4>2
    <3>2. ~dropped' => U[n + 1] = said' /\ L[n + 1] = items'
      BY <2>14
    <3> QED BY <2>12, <2>15, <2>18, <3>1, <3>2 DEF Replay
  <2> QED BY <2>11, <2>18, <2>19
<1>6. CASE ~(Len(queue) < QueueSize)
  <2>1. dropped' = TRUE /\ queue' = queue
    BY <1>6 DEF Put
  <2>2. ~deltas' /\ ~replaced' /\ ~replaced
    BY <2>1 DEF Healing
  <2>3. Replay(T, K)'
    BY <1>3, <1>4, <2>1, <2>2 DEF Replay
  <2> QED BY <2>1, <2>3
<1> QED BY <1>5, <1>6

\* The text shown for an entry keeps the screen in step with the snapshot.
LEMMA TextShown ==
    ASSUME TypeOK, NEW e \in Entries, e.type = "text", ShowText(e),
           NEW after \in Seq(Words), Becomes(e, snapshot, after)
    PROVE  /\ snapshot' = after
           /\ IsSuffix(snapshot, shown) => IsSuffix(snapshot', shown')
           /\ shown = snapshot /\ IsPrefix(snapshot, after) => shown' = snapshot'
<1>1. /\ snapshot \in Seq(Words) /\ shown \in Seq(Words)
      /\ e.delta \in Seq(Words) /\ e.text \in Seq(Words)
  BY EntryTypes DEF TypeOK, MapperTypeOK
<1>2. shown' = shown \o Emitted(e) /\ snapshot' = Absorb(e)
  BY DEF ShowText
<1>3. CASE e.delta # <<>>
  <2>1. Emitted(e) = e.delta /\ snapshot' = snapshot \o e.delta /\ after = snapshot \o e.delta
    BY <1>2, <1>3 DEF Emitted, Absorb, Becomes
  <2> QED BY <1>1, <1>2, <2>1, SuffixOfMore
<1>4. CASE e.delta = <<>>
  <2>1. Emitted(e) = Fresh(after) /\ snapshot' = after
    BY <1>2, <1>4 DEF Emitted, Absorb, Becomes
  <2>2. CASE IsPrefix(snapshot, after)
    <3>1. Fresh(after) \in Seq(Words) /\ snapshot \o Fresh(after) = after
      BY <1>1, <2>2, PrefixCompleted DEF Fresh
    <3> QED BY <1>1, <1>2, <2>1, <3>1, SuffixOfMore
  <2>3. CASE ~IsPrefix(snapshot, after)
    <3>1. Fresh(after) = after
      BY <2>3 DEF Fresh
    <3> QED BY <1>1, <1>2, <2>1, <2>3, <3>1, SuffixOfMore
  <2> QED BY <2>2, <2>3
<1> QED BY <1>3, <1>4

\* What the entry at hand stands for.
LEMMA HeadReplay ==
    ASSUME TypeOK, Replayed, Live, Healing, NEW type, Take(type)
    PROVE  /\ type = "text" => \E after \in Seq(Words) :
                                  /\ Becomes(queue[1], snapshot, after)
                                  /\ ~replaced => IsPrefix(snapshot, after)
           /\ type = "final" /\ ~dropped /\ ~StrayReply => snapshot = said /\ cards = items
<1>1. PICK T \in [0..Len(queue) -> Seq(Words)], K \in [0..Len(queue) -> Cards] : Replay(T, K)
  BY DEF Replayed, Cards
<1>2. Len(queue) \in Nat \ {0} /\ queue[1].type = type
  BY TakeQueue DEF TypeOK
<1>3. 1 \in 1..Len(queue) /\ 1 \in 0..Len(queue) /\ 1 - 1 = 0
  BY <1>2
<1>4. /\ IF type = "text" THEN Becomes(queue[1], T[0], T[1]) ELSE T[1] = T[0]
      /\ type = "final" /\ ~dropped /\ ~StrayReply => T[1] = said /\ K[1] = items
      /\ ~replaced => IsPrefix(T[0], T[1])
  BY <1>1, <1>2, <1>3 DEF Replay
<1>5. T[0] = snapshot /\ K[0] = cards /\ T[1] \in Seq(Words)
  BY <1>1, <1>3 DEF Replay
<1>6. type = "final" => K[1] = K[0]
  BY <1>1, <1>2, <1>3 DEF Replay, Carded
<1> QED BY <1>4, <1>5, <1>6

\* When the mapper has taken an entry, what is left of the queue leads from what
\* the mapper made of it to the same end.
LEMMA TakeReplay ==
    ASSUME TypeOK, Replayed, Live, Healing', NEW type, Take(type), StrayReply => StrayReply',
           IF type = "text"
           THEN \A after \in Seq(Words) : Becomes(queue[1], snapshot, after) => snapshot' = after
           ELSE snapshot' = snapshot,
           cards' = IF type = "item" THEN Append(cards, ItemDone(queue[1])) ELSE cards
    PROVE  (\E T \in [0..Len(queue) -> Seq(Words)], K \in [0..Len(queue) -> Cards] : Replay(T, K))'
<1>1. UNCHANGED <<said, items, replaced, deltas, dropped>>
  BY Zenon DEF Take, runVars
<1>2. PICK T \in [0..Len(queue) -> Seq(Words)], K \in [0..Len(queue) -> Cards] : Replay(T, K)
  BY <1>1 DEF Replayed, Cards, Healing
<1>3. PICK n \in Nat : Len(queue) = n + 1
  <2>1. Len(queue) \in Nat \ {0}
    BY TakeQueue DEF TypeOK
  <2>2. Len(queue) - 1 \in Nat /\ Len(queue) = Len(queue) - 1 + 1
    BY <2>1
  <2> QED BY <2>2
<1>4. Len(queue') = n /\ queue[1].type = type /\ \A i \in 1..n : queue'[i] = queue[i + 1]
  <2>1. /\ Len(queue') = Len(queue) - 1 /\ queue[1].type = type
        /\ \A i \in 1..Len(queue') : queue'[i] = queue[i + 1]
    BY TakeQueue DEF TypeOK
  <2>2. Len(queue') = n
    BY <1>3, <2>1
  <2> QED BY <2>1, <2>2
<1>5. /\ T[0] = snapshot /\ K[0] = cards
      /\ ~dropped => T[n + 1] = said /\ K[n + 1] = items
      /\ \A i \in 1..n + 1 :
            /\ IF queue[i].type = "text" THEN Becomes(queue[i], T[i-1], T[i]) ELSE T[i] = T[i-1]
            /\ K[i] = Carded(queue[i], K[i-1])
            /\ queue[i].type = "final" /\ ~dropped /\ ~StrayReply => T[i] = said /\ K[i] = items
            /\ ~replaced => IsPrefix(T[i-1], T[i])
      /\ ~replaced => \A i \in 0..n + 1 : IsPrefix(T[i], said)
  BY <1>2, <1>3 DEF Replay
<1>6. PICK U \in [0..n -> Seq(Words)], L \in [0..n -> Cards] :
          \A i \in 0..n : U[i] = T[i + 1] /\ L[i] = K[i + 1]
  <2> DEFINE V == [i \in 0..n |-> T[i + 1]]
             M == [i \in 0..n |-> K[i + 1]]
  <2>1. \A i \in 0..n : T[i + 1] \in Seq(Words) /\ K[i + 1] \in Cards
    BY <1>3
  <2>2. V \in [0..n -> Seq(Words)] /\ M \in [0..n -> Cards]
    BY <2>1
  <2>3. \A i \in 0..n : V[i] = T[i + 1] /\ M[i] = K[i + 1]
    OBVIOUS
  <2> HIDE DEF V, M
  <2> QED BY <2>2, <2>3
<1>7. U[0] = snapshot' /\ L[0] = cards'
  <2>1. 1 \in 1..n + 1 /\ 1 - 1 = 0 /\ 0 \in 0..n /\ 0 + 1 = 1 /\ 1 \in 0..Len(queue)
    BY <1>3
  <2>2. /\ IF type = "text" THEN Becomes(queue[1], snapshot, T[1]) ELSE T[1] = snapshot
        /\ K[1] = IF type = "item" THEN Append(cards, ItemDone(queue[1])) ELSE cards
    BY <1>4, <1>5, <2>1 DEF Carded
  <2>3. U[0] = T[1] /\ L[0] = K[1] /\ T[1] \in Seq(Words)
    BY <1>6, <2>1
  <2> QED BY <2>2, <2>3
<1>8. ASSUME NEW i \in 1..n
      PROVE  /\ IF queue'[i].type = "text" THEN Becomes(queue'[i], U[i-1], U[i]) ELSE U[i] = U[i-1]
             /\ L[i] = Carded(queue'[i], L[i-1])
             /\ queue'[i].type = "final" /\ ~dropped /\ ~StrayReply' => U[i] = said /\ L[i] = items
             /\ ~replaced => IsPrefix(U[i-1], U[i])
  <2>1. i \in 0..n /\ i - 1 \in 0..n /\ i + 1 \in 1..n + 1 /\ i + 1 - 1 = i /\ i - 1 + 1 = i
    OBVIOUS
  <2>2. U[i] = T[i + 1] /\ L[i] = K[i + 1] /\ U[i-1] = T[i] /\ L[i-1] = K[i] /\ queue'[i] = queue[i + 1]
    BY <1>4, <1>6, <2>1
  <2>3. /\ IF queue[i+1].type = "text" THEN Becomes(queue[i+1], T[i], T[i+1]) ELSE T[i+1] = T[i]
        /\ K[i+1] = Carded(queue[i+1], K[i])
        /\ queue[i+1].type = "final" /\ ~dropped /\ ~StrayReply => T[i+1] = said /\ K[i+1] = items
        /\ ~replaced => IsPrefix(T[i], T[i+1])
    BY <1>5, <2>1
  <2> QED BY <2>2, <2>3
<1>9. ~dropped => U[n] = said /\ L[n] = items
  BY <1>5, <1>6
<1>10. ~replaced => \A i \in 0..n : IsPrefix(U[i], said)
  <2>1. \A i \in 0..n : i + 1 \in 0..n + 1
    OBVIOUS
  <2> QED BY <1>5, <1>6, <2>1
<1>11. Replay(U, L)'
  BY <1>1, <1>4, <1>7, <1>8, <1>9, <1>10 DEF Replay
<1> QED BY <1>4, <1>6, <1>11

\* The Gateway, or the client in its place, sends the run one entry.
Sent(e) ==
    /\ IF stream = "over" THEN UNCHANGED queueVars ELSE Put(e)
    /\ UNCHANGED <<mapperVars, streamVars>>
    /\ deltas => deltas'
    /\ said' \in Seq(Words)
    /\ e.type = "text" =>
           IF e.delta # <<>> THEN deltas' /\ said' = said \o e.delta
           ELSE e.text = said' /\ said' # <<>>
    /\ e.type # "text" => said' = said
    /\ items' = Carded(e, items)
    /\ ~replaced' => ~replaced /\ IsPrefix(said, said')
    /\ run = "running" \/ UNCHANGED <<said, items, run>>
    /\ e.type = "final" => StrayReply' \/ (run' # "running" /\ (e.status = "ok" => run' = "ok"))
    /\ link' # "up" => run' # "running"

\* Every step that may put something into the queue sends one entry, and what
\* that does to the text of the run fits the entry.
LEMMA Senders ==
    ASSUME TypeOK, Ends,
           Say \/ Replace \/ Work \/ Mention \/ Finish \/ LinkSettled \/ \E a \in Requests : Ask(a)
    PROVE  \E e \in Entries : Sent(e)
<1>1. said \in Seq(Words) /\ IsPrefix(said, said)
  BY PrefixOfMore DEF TypeOK, RunTypeOK
<1>2. ASSUME NEW e, Send(e)
      PROVE  /\ IF stream = "over" THEN UNCHANGED queueVars ELSE Put(e)
             /\ UNCHANGED <<mapperVars, streamVars>>
             /\ run = "running" /\ link' = "up"
  BY <1>2, Zenon DEF Send
<1>3. CASE Say
  <2>1. PICK e \in Entries :
            /\ Send(e) /\ e.type = "text"
            /\ e.delta \in {<<>>, <<count + 1>>} /\ e.text \in {<<>>, said'}
            /\ e.delta # <<>> \/ e.text # <<>>
            /\ e.delta # <<>> => deltas'
    BY <1>3, SaySends
  <2>2. /\ count + 1 \in Words /\ said' = Append(said, count + 1) /\ said' \in Seq(Words)
        /\ UNCHANGED <<replaced, items>> /\ deltas' \in {deltas, TRUE}
    BY <1>3, SaySends
  <2>9. deltas => deltas'
    BY <2>2
  <2>3. <<count + 1>> \in Seq(Words) /\ said' = said \o <<count + 1>>
    BY <1>1, <2>2, AppendIsConcat
  <2>4. IsPrefix(said, said')
    BY <1>1, <2>3, PrefixOfMore
  <2>5. IF e.delta # <<>> THEN deltas' /\ said' = said \o e.delta
        ELSE e.text = said' /\ said' # <<>>
    BY <2>1, <2>3
  <2>8. Carded(e, items) = items
    BY <2>1 DEF Carded
  <2>6. CASE ~replaced
    BY <2>8, <2>9, <1>2, <2>1, <2>2, <2>4, <2>5, <2>6, Zenon DEF Sent
  <2>7. CASE replaced
    BY <2>8, <2>9, <1>2, <2>1, <2>2, <2>5, <2>7, Zenon DEF Sent
  <2> QED BY <2>6, <2>7
<1>4. CASE Replace
  <2>1. PICK e \in Entries : Send(e) /\ e.type = "text" /\ e.delta = <<>> /\ e.text = said'
    BY <1>4, ReplaceSends
  <2>2. said' \in Seq(Words) /\ said' # <<>> /\ replaced' /\ UNCHANGED <<deltas, items>>
    BY <1>4, ReplaceSends
  <2>3. Carded(e, items) = items
    BY <2>1 DEF Carded
  <2> QED BY <1>2, <2>1, <2>2, <2>3, Zenon DEF Sent
<1>5. ASSUME NEW e \in Entries, Send(e), e.type \notin {"text", "final"}, UNCHANGED <<said, deltas, replaced>>,
             items' = Carded(e, items)
      PROVE  Sent(e)
  <2>1. e.type # "text" /\ e.type # "final"
    BY <1>5
  <2> QED BY <1>1, <1>2, <1>5, <2>1, Zenon DEF Sent
<1>6. CASE Work
  <2>1. PICK e \in Entries : Send(e) /\ e.type = "item" /\ items' = Append(items, ItemDone(e))
    BY <1>6, OtherSends
  <2> QED BY <1>5, <1>6, <2>1, OtherSends DEF Carded
<1>7. CASE Mention
  <2>1. PICK e \in Entries : Send(e) /\ e.type = "aside"
    BY <1>7, OtherSends
  <2> QED BY <1>5, <1>7, <2>1, OtherSends DEF Carded
<1>8. CASE \E a \in Requests : Ask(a)
  <2>1. PICK a \in Requests : Ask(a)
    BY <1>8
  <2>2. Request(a) \in Entries /\ Request(a).type = "approval"
    BY EntryTypes
  <2>3. Send(Request(a)) /\ UNCHANGED <<said, deltas, replaced, items>>
    BY <2>1, OtherSends
  <2>4. Sent(Request(a))
    BY <1>5, <2>2, <2>3 DEF Carded
  <2> QED BY <2>2, <2>4
<1>9. ASSUME NEW status \in {"ok", "failed"}, UNCHANGED <<mapperVars, streamVars, deltas, said, replaced, items>>,
             IF stream = "over" THEN UNCHANGED queueVars ELSE Put(Final(status)),
             run = "running" \/ UNCHANGED run,
             run' # "running", status = "ok" => run' = "ok"
      PROVE  \E e \in Entries : Sent(e)
  <2>1. Final(status) \in Entries /\ Final(status).type = "final" /\ Final(status).status = status
    BY EntryTypes DEF Final
  <2>2. Final(status).type # "text" /\ Final(status).type # "item"
    BY <2>1
  <2>3. Carded(Final(status), items) = items
    BY <2>2 DEF Carded
  <2>4. Sent(Final(status))
    BY <1>1, <1>9, <2>1, <2>2, <2>3, Zenon DEF Sent
  <2> QED BY <2>1, <2>4
<1>10. CASE Finish
  <2>1. PICK status \in {"ok", "failed"} :
            run' = status /\ IF stream = "over" THEN UNCHANGED queueVars ELSE Put(Final(status))
    BY <1>10, Zenon DEF Finish
  <2>2. run = "running" /\ UNCHANGED <<mapperVars, streamVars, deltas, said, replaced, items>>
    BY <1>10, Zenon DEF Finish
  <2> QED BY <1>9, <2>1, <2>2
<1>11. CASE LinkSettled
  <2>1. /\ IF stream = "over" THEN UNCHANGED queueVars ELSE Put(Final("failed"))
        /\ UNCHANGED <<mapperVars, streamVars, deltas, said, replaced, items, run>>
        /\ link = "lost"
    BY <1>11, Zenon DEF LinkSettled, runVars
  <2>2. run # "running" /\ "failed" \in {"ok", "failed"} /\ "failed" # "ok"
    BY <2>1 DEF Ends
  <2> QED BY <1>9, <2>1, <2>2
<1> QED BY <1>3, <1>4, <1>6, <1>7, <1>8, <1>10, <1>11

TextInv == Replayed /\ Shown /\ Ends /\ NeverGarbled /\ CompleteMeansComplete

\* An entry more in the queue, or dropped, keeps the screen in step with the run.
LEMMA SendStep ==
    ASSUME TypeOK, TextInv, NEW e \in Entries, Sent(e), StrayReply => StrayReply'
    PROVE  TextInv'
<1>1. /\ UNCHANGED <<snapshot, shown, cards, finish, stream>> /\ (deltas => deltas')
      /\ ~dropped' => ~dropped
      /\ ~replaced' => ~replaced /\ IsPrefix(said, said')
  BY DEF Sent, mapperVars, streamVars, Put, queueVars
<1>2. (Live' <=> Live) /\ (Healing' => Healing)
  BY <1>1 DEF Live, Healing
<1>3. Shown'
  BY <1>1, <1>2 DEF TextInv, Shown
<1>4. NeverGarbled'
  <2>1. ASSUME ~replaced', ~dropped' \/ ~deltas' PROVE IsPrefix(shown, said')
    <3>1. IsPrefix(shown, said)
      BY <1>1, <2>1 DEF TextInv, NeverGarbled
    <3>2. shown \in Seq(Words) /\ said \in Seq(Words) /\ said' \in Seq(Words)
      BY DEF TypeOK, MapperTypeOK, RunTypeOK, Sent
    <3> QED BY <1>1, <2>1, <3>1, <3>2, PrefixOfMore
  <2> QED BY <1>1, <2>1 DEF NeverGarbled
<1>5. CompleteMeansComplete'
  BY <1>1 DEF TextInv, CompleteMeansComplete, Sent
<1>6. Ends'
  <2>1. \A i \in 1..Len(queue') : \/ i \in 1..Len(queue) /\ queue'[i] = queue[i]
                                  \/ queue'[i] = e
    BY SendQueue DEF Sent, TypeOK
  <2> QED BY <1>1, <1>2, <2>1 DEF TextInv, Ends, Sent
<1>7. Replayed'
  <2>1. ASSUME Live, Healing'
        PROVE  (\E T \in [0..Len(queue) -> Seq(Words)], K \in [0..Len(queue) -> Cards] : Replay(T, K))'
    <3>1. Put(e)
      BY <2>1 DEF Sent, Live
    <3>2. \/ said' = said /\ items' = items
          \/ StrayReply'
          \/ \A i \in 1..Len(queue) : queue[i].type # "final"
      BY DEF Sent, TextInv, Ends
    <3>3. Replayed
      BY DEF TextInv
    <3> QED BY <1>1, <2>1, <3>1, <3>2, <3>3, PutReplay DEF Sent
  <2> QED BY <1>2, <2>1 DEF Replayed, Cards
<1> QED BY <1>3, <1>4, <1>5, <1>6, <1>7 DEF TextInv

\* So does an entry taken from it that is not the last.
LEMMA TakeStep ==
    ASSUME TypeOK, TextInv, NEW type, type # "final", Take(type), StrayReply => StrayReply',
           IF type = "text" THEN ShowText(queue[1]) ELSE UNCHANGED <<snapshot, shown>>,
           cards' = IF type = "item" THEN Append(cards, ItemDone(queue[1])) ELSE cards,
           UNCHANGED finish
    PROVE  TextInv'
<1>1. /\ UNCHANGED <<said, items, replaced, deltas, run, link, dropped, finish>>
      /\ Live /\ Healing' = Healing
  BY DEF Take, runVars, Live, Healing
<1>2. queue[1] \in Entries /\ queue[1].type = type
  BY TakeQueue DEF TypeOK
<1>3. Replayed /\ Shown /\ finish = "none"
  BY <1>1 DEF TextInv, Ends
<1>4. IF type = "text"
      THEN \A after \in Seq(Words) : Becomes(queue[1], snapshot, after) => snapshot' = after
      ELSE snapshot' = snapshot
  BY <1>2, TextShown
<1>5. ASSUME Healing'
      PROVE  (\E T \in [0..Len(queue) -> Seq(Words)], K \in [0..Len(queue) -> Cards] : Replay(T, K))'
  BY <1>1, <1>3, <1>4, <1>5, TakeReplay
<1>6. Shown'
  <2>1. ASSUME Healing' PROVE IsSuffix(snapshot', shown') /\ (~replaced' => shown' = snapshot')
    <3>1. IsSuffix(snapshot, shown) /\ (~replaced => shown = snapshot)
      BY <1>1, <1>3, <2>1 DEF Shown
    <3>2. CASE type = "text"
      <4>1. PICK after \in Seq(Words) :
                Becomes(queue[1], snapshot, after) /\ (~replaced => IsPrefix(snapshot, after))
        BY <1>1, <1>3, <2>1, <3>2, HeadReplay
      <4> QED BY <1>1, <1>2, <3>1, <3>2, <4>1, TextShown
    <3>3. CASE type # "text"
      BY <1>1, <3>1, <3>3
    <3> QED BY <3>2, <3>3
  <2> QED BY <2>1 DEF Shown
<1>7. NeverGarbled'
  <2>1. ASSUME ~replaced', ~dropped' \/ ~deltas' PROVE IsPrefix(shown', said')
    <3>1. Healing' /\ ~replaced'
      BY <2>1 DEF Healing
    <3>2. CASE type # "text"
      BY <1>1, <2>1, <3>2 DEF TextInv, NeverGarbled
    <3>3. CASE type = "text"
      <4>1. shown' = snapshot'
        <5>1. PICK after \in Seq(Words) :
                  Becomes(queue[1], snapshot, after) /\ (~replaced => IsPrefix(snapshot, after))
          BY <1>1, <1>3, <3>1, <3>3, HeadReplay
        <5>2. shown = snapshot
          BY <1>1, <1>3, <3>1 DEF Shown
        <5> QED BY <1>1, <1>2, <3>1, <3>3, <5>1, <5>2, TextShown
      <4>2. IsPrefix(snapshot', said')
        <5>1. PICK T \in [0..Len(queue') -> Seq(Words)], K \in [0..Len(queue') -> Cards] : Replay(T, K)'
          BY <1>5, <3>1
        <5>2. 0 \in 0..Len(queue')
          BY TakeQueue, LenProperties DEF TypeOK
        <5> QED BY <3>1, <5>1, <5>2 DEF Replay
      <4> QED BY <4>1, <4>2
    <3> QED BY <3>2, <3>3
  <2> QED BY <2>1 DEF NeverGarbled
<1>8. CompleteMeansComplete'
  BY <1>1, <1>3 DEF CompleteMeansComplete
<1>9. Ends'
  <2>1. \A i \in 1..Len(queue') : i + 1 \in 1..Len(queue) /\ queue'[i] = queue[i + 1]
    BY TakeQueue DEF TypeOK
  <2> QED BY <1>1, <1>3, <2>1 DEF TextInv, Ends
<1>10. Replayed'
  BY <1>5 DEF Replayed, Cards
<1> QED BY <1>6, <1>7, <1>8, <1>9, <1>10 DEF TextInv

\* The chunk that says the answer is complete.
LEMMA FinalStep ==
    ASSUME TypeOK, TextInv, TakeFinal, StrayReply => StrayReply'
    PROVE  TextInv'
<1>1. /\ Take("final") /\ MapFinal(Head(queue).status)
      /\ stream' = "last" /\ stream = "queue"
      /\ UNCHANGED <<said, items, replaced, deltas, run, link, dropped, snapshot, shown, cards>>
  BY DEF TakeFinal, Take, runVars, MapFinal
<1>2. /\ Head(queue) = queue[1] /\ queue[1].type = "final" /\ 1 \in 1..Len(queue)
      /\ \A i \in 1..Len(queue') : i + 1 \in 1..Len(queue) /\ queue'[i] = queue[i + 1]
  BY <1>1, TakeQueue DEF TypeOK
<1>3. Replayed /\ Shown /\ Live /\ ~Live'
  BY <1>1 DEF TextInv, Live
<1>4. Ends'
  BY <1>1, <1>2, <1>3 DEF TextInv, Ends
<1>5. CompleteMeansComplete'
  <2>1. finish' = "stop" /\ ~StrayReply => run' = "ok"
    BY <1>1, <1>2 DEF MapFinal, TextInv, Ends
  <2>2. ~dropped /\ ~StrayReply => snapshot = said /\ cards = items /\ IsSuffix(snapshot, shown)
    <3>1. ASSUME ~dropped PROVE Healing
      BY <3>1 DEF Healing
    <3> QED BY <1>1, <1>3, <3>1, HeadReplay DEF Shown
  <2> QED BY <1>1, <2>1, <2>2 DEF CompleteMeansComplete
<1> QED BY <1>1, <1>3, <1>4, <1>5 DEF TextInv, Replayed, Shown, NeverGarbled

\* A step that leaves the text, the queue and the screen alone, or ends the
\* stream.
LEMMA OtherStep ==
    ASSUME TextInv, UNCHANGED <<mapperVars, deltas, said, replaced, items, dropped>>,
           StrayReply => StrayReply',
           run # "running" => run' = run, link' # "up" => run' # "running",
           \/ UNCHANGED queue /\ (Live' => Live)
           \/ queue' = <<>> /\ stream' = "over"
    PROVE  TextInv'
<1>1. CASE UNCHANGED queue /\ (Live' => Live)
  BY <1>1 DEF TextInv, Replayed, Replay, Shown, Ends, NeverGarbled, CompleteMeansComplete, Healing, mapperVars
<1>2. CASE queue' = <<>> /\ stream' = "over"
  <2>1. ~Live' /\ Len(queue') = 0
    BY <1>2 DEF Live
  <2> QED BY <2>1 DEF TextInv, Replayed, Shown, Ends, NeverGarbled, CompleteMeansComplete, mapperVars
<1> QED BY <1>1, <1>2

\* Every step keeps the screen in step with the run.
LEMMA TextStep ==
    ASSUME TypeOK, TextInv, Next, StrayReply => StrayReply'
    PROVE  TextInv'
<1>1. CASE Say \/ Replace \/ Work \/ Mention \/ Finish \/ LinkSettled \/ \E a \in Requests : Ask(a)
  BY <1>1, Senders, SendStep DEF TextInv
<1>2. CASE TakeText
  <2>1. Take("text") /\ ShowText(queue[1]) /\ UNCHANGED <<cards, finish>>
    BY <1>2, TakeQueue DEF TakeText, TypeOK, ShowText
  <2> QED BY <2>1, TakeStep
<1>3. CASE TakeItem
  <2>1. /\ Take("item") /\ cards' = Append(cards, ItemDone(queue[1]))
        /\ UNCHANGED <<snapshot, shown, finish>>
    BY <1>3, TakeQueue DEF TakeItem, TypeOK, ShowItem
  <2> QED BY <2>1, TakeStep
<1>4. CASE TakeAside \/ TakeRequest
  <2>1. \/ Take("aside") /\ UNCHANGED <<snapshot, shown, cards, finish>>
        \/ Take("approval") /\ UNCHANGED <<snapshot, shown, cards, finish>>
    BY <1>4, Zenon DEF TakeAside, TakeRequest, mapperVars
  <2> QED BY <2>1, TakeStep
<1>5. CASE TakeFinal
  BY <1>5, FinalStep
<1>6. CASE Close \/ StreamTimeout \/ Stop
  <2>1. /\ UNCHANGED <<mapperVars, deltas, said, replaced, items, dropped, run, link>>
        /\ queue' = <<>> /\ stream' = "over"
    BY <1>6, Zenon DEF Close, StreamTimeout, Stop, Over, runVars
  <2> QED BY <2>1, OtherStep DEF TextInv, Ends
<1>9. ASSUME NEW a \in Requests, TakeAnswer(a) PROVE TextInv'
  <2>1. UNCHANGED <<mapperVars, streamVars, deltas, said, replaced, items, run, link>>
    BY <1>9, Zenon DEF TakeAnswer, runVars
  <2>2. CASE UNCHANGED queueVars
    <3>1. UNCHANGED <<dropped, queue, stream>>
      BY <2>1, <2>2, Zenon DEF queueVars, streamVars
    <3> QED BY <2>1, <3>1, OtherStep DEF TextInv, Ends, Live
  <2>3. CASE Decide(a, TRUE) /\ Put(Final("ok")) /\ stream # "over"
    <3>1. StrayReply'
      BY <2>3 DEF Decide, StrayReply, TypeOK, ApprovalTypeOK
    <3>2. Final("ok") \in Entries /\ Final("ok").type = "final"
      BY EntryTypes
    <3>3. Carded(Final("ok"), items) = items
      BY <3>2 DEF Carded
    <3>4. said \in Seq(Words) /\ IsPrefix(said, said)
      BY PrefixOfMore DEF TypeOK, RunTypeOK
    <3>5. Final("ok").type # "text"
      BY <3>2
    <3>6. link' # "up" => run' # "running"
      BY <2>1 DEF TextInv, Ends
    <3>7. Sent(Final("ok"))
      BY <2>1, <2>3, <3>1, <3>2, <3>3, <3>4, <3>5, <3>6, Zenon DEF Sent
    <3> QED BY <3>2, <3>7, SendStep
  <2> QED BY <1>9, <2>2, <2>3, Zenon DEF TakeAnswer
<1>7. CASE Resume \/ DialogEnds \/ Tick \/ LinkOvertaken \/ \E a \in Requests : Ring(a) \/ Resolve(a) \/ Forget(a)
  <2>1. UNCHANGED <<mapperVars, deltas, said, replaced, items, dropped, run, queue>>
    BY <1>7, Zenon DEF Resume, DialogEnds, Tick, LinkOvertaken, Ring, Resolve, Forget, runVars, queueVars
  <2>3. link' # "up" => run' # "running"
    <3>1. UNCHANGED link \/ link = "lost"
      BY <1>7, Zenon DEF Resume, DialogEnds, Tick, LinkOvertaken, Ring, Resolve, Forget
    <3> QED BY <2>1, <3>1 DEF TextInv, Ends
  <2>2. Live' => Live
    <3>1. UNCHANGED stream \/ stream \in {"chunk", "emitter", "dialog"}
      BY <1>7 DEF Resume, DialogEnds, Tick, LinkOvertaken, Ring, Resolve, Forget, streamVars
    <3> QED BY <3>1 DEF Live
  <2> QED BY <2>1, <2>2, <2>3, OtherStep
<1>8. CASE LinkLost
  <2>1. UNCHANGED <<mapperVars, deltas, said, replaced, items, dropped, queue, stream>>
    BY <1>8, Zenon DEF LinkLost, queueVars, streamVars
  <2>2. run' = IF run = "running" THEN "cut" ELSE run
    BY <1>8 DEF LinkLost
  <2> QED BY <2>1, <2>2, OtherStep DEF Live
<1> QED BY <1>1, <1>2, <1>3, <1>4, <1>5, <1>6, <1>7, <1>8, <1>9, Steps

\* An answer that is on its way, or was dealt with, is not given again, so a
\* stray reply remains one.
LEMMA StrayStays ==
    ASSUME TypeOK, AtHand, NoTwins, NotYetAnswered, Next
    PROVE  StrayReply => StrayReply'
<1> SUFFICES ASSUME NEW a \in Requests, task[a] = "stray" PROVE task'[a] = "stray"
  BY DEF StrayReply
<1> USE DEF TypeOK, ApprovalTypeOK
<1>1. CASE UNCHANGED task
  BY <1>1
<1>2. ASSUME NEW b \in Requests, task[b] # "stray", \E t : task' = [task EXCEPT ![b] = t]
      PROVE  task'[a] = "stray"
  BY <1>2
<1>3. CASE TakeRequest
  <2>1. PICK b \in Requests : b = Head(queue).id /\ InQueue(b)
    BY <1>3, TakenRequest
  <2>2. task[b] = "none"
    BY <2>1 DEF NotYetAnswered
  <2>3. AutoApprove(b) \/ AutoDeny(b) \/ UNCHANGED task
    BY <1>3, <2>1, Zenon DEF TakeRequest, OpenDialog, Render, approvalVars
  <2>4. UNCHANGED task \/ task' = [task EXCEPT ![b] = "ready"]
    BY <2>3 DEF AutoApprove, AutoDeny, Schedule
  <2> QED BY <1>1, <1>2, <2>2, <2>4
<1>4. CASE DialogEnds \/ Resume
  <2>1. CASE UNCHANGED approvalVars
    BY <1>1, <2>1 DEF approvalVars
  <2>2. CASE ~UNCHANGED approvalVars
    <3>1. PICK b \in Requests : b = current
      BY <1>4, <2>2 DEF DialogEnds, Resume, AtHand, StreamTypeOK
    <3>2. task[b] = "none"
      BY <3>1 DEF NotYetAnswered
    <3>3. CloseDialog(b) \/ StartTimer(b)
      BY <1>4, <2>2, <3>1, Zenon DEF DialogEnds, Resume
    <3>4. \E t : task' = [task EXCEPT ![b] = t]
      BY <3>3 DEF CloseDialog, StartTimer, Schedule
    <3> QED BY <1>2, <3>2, <3>4
  <2> QED BY <2>1, <2>2
<1>5. CASE LinkLost
  BY <1>5 DEF LinkLost, AnswersLost
<1>6. ASSUME NEW b \in Requests, Ring(b) \/ Resolve(b) \/ TakeAnswer(b) \/ Forget(b)
      PROVE  task'[a] = "stray"
  <2>1. task[b] # "stray"
    BY <1>6 DEF Ring, TimerRings, Resolve, Answer, TakeAnswer, Decide, Forget, AnswerTimesOut
  <2>2. \E t : task' = [task EXCEPT ![b] = t]
    BY <1>6 DEF Ring, TimerRings, Resolve, Answer, TakeAnswer, Decide, Forget, AnswerTimesOut
  <2> QED BY <1>2, <2>1, <2>2
<1>7. CASE \/ Say \/ Replace \/ Work \/ Mention \/ Finish \/ LinkSettled \/ LinkOvertaken
           \/ TakeText \/ TakeItem \/ TakeAside \/ TakeFinal \/ Close \/ StreamTimeout \/ Stop \/ Tick
           \/ \E b \in Requests : Ask(b)
  <2>1. UNCHANGED task
    BY <1>7, Zenon DEF Say, Replace, Work, Mention, Finish, LinkSettled, LinkOvertaken, TakeText, TakeItem,
           TakeAside, TakeFinal, Close, StreamTimeout, Stop, Tick, Over, Ask, approvalVars
  <2> QED BY <1>1, <2>1
<1> QED BY <1>3, <1>4, <1>5, <1>6, <1>7, Steps

-----------------------------------------------------------------------------
(* The theorems *)

\* The inductive invariant: how each request was answered, the timers, and what
\* the queue will make of the screen.
IInv ==
    /\ TypeOK
    /\ AtHand
    /\ NoTwins /\ NotYetAnswered /\ AnswersFit
    /\ TimersRun /\ DeniedBeforeTimeout
    /\ TextInv

\* The invariant holds at the start.
LEMMA InitIInv == Init => IInv
<1> SUFFICES ASSUME Init PROVE IInv
  OBVIOUS
<1>1. <<>> \in Seq(Words) /\ <<>> \in Seq(Entries) /\ <<>> \in Seq(BOOLEAN) /\ Len(<<>>) = 0
  BY EmptySeq
<1>2. ApprovalTypeOK /\ MapperTypeOK /\ StreamTypeOK /\ RunTypeOK
  <2>1. ApprovalTypeOK
    BY ApprovalAssumption DEF Init, ApprovalInit, ApprovalTypeOK
  <2>2. MapperTypeOK
    BY <1>1 DEF Init, MapperInit, MapperTypeOK
  <2>3. StreamTypeOK
    <3>1. /\ queue = <<>> /\ dropped = FALSE /\ stream = "queue" /\ current = NoRequest
          /\ idle = 0 /\ ended = "none"
      BY DEF Init
    <3>2. 0 <= QueueSize /\ 0 \in 0..RequestTimeout
      BY ApprovalAssumption, ChatAssumption
    <3> QED BY <1>1, <3>1, <3>2 DEF StreamTypeOK
  <2>4. RunTypeOK
    <3>1. /\ run = "running" /\ said = <<>> /\ deltas = FALSE /\ replaced = FALSE /\ items = <<>>
          /\ count = 0 /\ link = "up"
      BY DEF Init
    <3>2. 0 \in 0..MaxEvents
      BY ChatAssumption
    <3> QED BY <1>1, <3>1, <3>2 DEF RunTypeOK
  <2> QED BY <2>1, <2>2, <2>3, <2>4
<1>3. AtHand
  BY DEF Init, AtHand
<1>4. NoTwins /\ NotYetAnswered /\ AnswersFit /\ TimersRun /\ DeniedBeforeTimeout
  <2>1. \A a \in Requests : ~InQueue(a) /\ current # a
    BY <1>1, ApprovalAssumption DEF Init, InQueue
  <2>2. \A a \in Requests : /\ task[a] = "none" /\ ~consent[a] /\ card[a] = "none"
                            /\ decision[a] = "none" /\ verdict[a] = "unasked"
    BY DEF Init, ApprovalInit
  <2>3. NoTwins
    BY <1>1 DEF Init, NoTwins
  <2>4. ended = "none"
    BY DEF Init
  <2> QED BY <2>1, <2>2, <2>3, <2>4 DEF NotYetAnswered, AnswersFit, TimersRun, DeniedBeforeTimeout
<1>5. IsPrefix(<<>>, <<>>) /\ IsSuffix(<<>>, <<>>)
  <2>1. IsPrefix(<<>>, <<>>)
    BY <1>1, PrefixOfMore
  <2>2. IsSuffix(<<>>, <<>>)
    <3>1. <<>> \o <<>> = <<>>
      BY <1>1, ConcatEmptySeq
    <3> QED BY <1>1, <3>1, SuffixOfMore
  <2> QED BY <2>1, <2>2
<1>6. TextInv
  <2>1. /\ queue = <<>> /\ snapshot = <<>> /\ shown = <<>> /\ said = <<>>
        /\ cards = <<>> /\ items = <<>> /\ finish = "none" /\ link = "up"
    BY DEF Init, MapperInit
  <2>2. Replayed
    <3> DEFINE T == [i \in 0..0 |-> <<>>]
               K == [i \in 0..0 |-> <<>>]
    <3>1. T \in [0..0 -> Seq(Words)] /\ K \in [0..0 -> Cards] /\ T[0] = <<>> /\ K[0] = <<>>
      BY <1>1 DEF Cards
    <3> HIDE DEF T, K
    <3>2. Replay(T, K)
      BY <1>1, <1>5, <2>1, <3>1 DEF Replay
    <3> QED BY <1>1, <2>1, <3>1, <3>2 DEF Replayed
  <2> QED BY <1>1, <1>5, <2>1, <2>2 DEF TextInv, Shown, Ends, NeverGarbled, CompleteMeansComplete
<1> QED BY <1>2, <1>3, <1>4, <1>6 DEF IInv, TypeOK

\* Every step keeps it.
LEMMA NextIInv == IInv /\ [Next]_vars => IInv'
<1> SUFFICES ASSUME IInv, [Next]_vars PROVE IInv'
  OBVIOUS
<1>1. TypeOK'
  BY TypesKept DEF IInv
<1>2. CASE Next
  BY <1>1, <1>2, AtHandKept, ApprovalStep, TimersStep, StrayStays, TextStep DEF IInv
<1>3. CASE UNCHANGED vars
  <2>1. UNCHANGED <<mapperVars, approvalVars, runVars, link, queueVars, streamVars>>
    BY <1>3 DEF vars
  <2>2. AtHand' /\ NoTwins' /\ NotYetAnswered' /\ AnswersFit' /\ TimersRun' /\ DeniedBeforeTimeout'
    BY <2>1 DEF IInv, AtHand, NoTwins, NotYetAnswered, InQueue, AnswersFit, TimersRun, DeniedBeforeTimeout,
                approvalVars, queueVars, streamVars
  <2>3. /\ UNCHANGED <<mapperVars, deltas, said, replaced, items, dropped, queue, stream, run, link>>
    BY <2>1 DEF runVars, queueVars, streamVars
  <2>4. StrayReply => StrayReply'
    BY <2>1 DEF StrayReply, approvalVars
  <2>5. TextInv'
    BY <2>3, <2>4, OtherStep DEF IInv, Live, TextInv, Ends
  <2> QED BY <1>1, <2>2, <2>5 DEF IInv
<1> QED BY <1>2, <1>3

\* The inductive invariant holds in every reachable state.
THEOREM Invariance == Spec => []IInv
BY InitIInv, NextIInv, PTL DEF Spec

\* The state of a chat has its types: the run's queue is bounded whatever the
\* Gateway sends (_route_event).
THEOREM TypeCorrect == Spec => []TypeOK
<1>1. IInv => TypeOK
  BY DEF IInv
<1> QED BY <1>1, Invariance, PTL

\* Nothing is allowed without auto_approve mode or the user's own yes to that
\* request (_handle_approval).
THEOREM OnlyTheConsented == Spec => []OnlyConsented
<1>1. IInv => OnlyConsented
  BY DEF IInv, AnswersFit, OnlyConsented
<1> QED BY <1>1, Invariance, PTL

\* A request that the chat shows as denied has a task that denies it and is never
\* granted (_handle_approval, resolve_approval).
THEOREM TrueNotes == Spec => []NotesAreTrue
<1>1. IInv => NotesAreTrue
  BY DEF IInv, AnswersFit, NotesAreTrue
<1> QED BY <1>1, Invariance, PTL

\* With the shorter APPROVAL_TIMEOUT, no run times out over a request that is
\* about to be denied (agent_stream, _deny_after_timeout).
THEOREM DenialComesFirst == Spec => []DeniedBeforeTimeout
<1>1. IInv => DeniedBeforeTimeout
  BY DEF IInv
<1> QED BY <1>1, Invariance, PTL

\* The user reads a beginning of what the assistant said, unless the text was
\* replaced or a delta dropped (_assistant_delta).
THEOREM TextIntact == Spec => []NeverGarbled
<1>1. IInv => NeverGarbled
  BY DEF IInv, TextInv
<1> QED BY <1>1, Invariance, PTL

\* Without a stray reply, a run shown as complete was completed by the Gateway,
\* and with nothing dropped all of it is on the screen, every report of the tool
\* item in a card of its own (_route_response, map_agent_events).
THEOREM CompleteAnswer == Spec => []CompleteMeansComplete
<1>1. IInv => CompleteMeansComplete
  BY DEF IInv, TextInv
<1> QED BY <1>1, Invariance, PTL
=============================================================================
