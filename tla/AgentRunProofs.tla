---------------------------- MODULE AgentRunProofs ----------------------------
(***************************************************************************)
(* Proofs about AgentRun, for any set of runs, any number of events, any   *)
(* wire, any size of the queues and any number of lost connections: the    *)
(* types, what a run leaves behind, the order of its events, that none is  *)
(* lost while its queue has room, where its final result comes from, and   *)
(* that agent_stream() keeps what AgentStream promises.                    *)
(*                                                                         *)
(* Three invariants carry it.  Safe: the events a run has taken, those in  *)
(* its queue and those on the wire are one rising line.  Fits: what is on  *)
(* the wire agrees with where the run is.  Lossless: up to its terminal    *)
(* entry, a queue never holds more than the events sent so far.            *)
(***************************************************************************)
EXTENDS AgentRun, SequenceTheorems, TLAPS

-----------------------------------------------------------------------------
(* The numbers of a run's events *)

\* What an entry more at the end adds.
LEMMA NumbersAppend ==
    ASSUME NEW S, NEW s \in Seq(S), NEW e \in S, NEW r
    PROVE  /\ Numbers(Append(s, e), r) = Numbers(s, r) \cup (IF IsEvent(e, r) THEN {e.n} ELSE {})
           /\ Rises(s, r) /\ (IsEvent(e, r) => \A m \in Numbers(s, r) : m < e.n)
                => Rises(Append(s, e), r)
<1> DEFINE t == Append(s, e)
<1>1. Len(s) \in Nat /\ Len(t) = Len(s) + 1 /\ t[Len(s) + 1] = e /\ \A i \in 1..Len(s) : t[i] = s[i]
  BY AppendProperties, LenProperties
<1> HIDE DEF t
<1>2. Numbers(t, r) = Numbers(s, r) \cup (IF IsEvent(e, r) THEN {e.n} ELSE {})
  <2>1. ASSUME NEW i \in 1..Len(t), IsEvent(t[i], r)
        PROVE  t[i].n \in Numbers(s, r) \cup (IF IsEvent(e, r) THEN {e.n} ELSE {})
    <3>1. CASE i \in 1..Len(s)
      BY <1>1, <2>1, <3>1 DEF Numbers
    <3>2. CASE i = Len(s) + 1
      BY <1>1, <2>1, <3>2
    <3> QED BY <1>1, <3>1, <3>2
  <2>2. ASSUME NEW i \in 1..Len(s), IsEvent(s[i], r) PROVE s[i].n \in Numbers(t, r)
    <3>1. i \in 1..Len(t) /\ t[i] = s[i]
      BY <1>1
    <3> QED BY <2>2, <3>1 DEF Numbers
  <2>3. IsEvent(e, r) => e.n \in Numbers(t, r)
    <3>1. Len(s) + 1 \in 1..Len(t)
      BY <1>1
    <3> QED BY <1>1, <3>1 DEF Numbers
  <2> QED BY <2>1, <2>2, <2>3 DEF Numbers
<1>3. ASSUME Rises(s, r), IsEvent(e, r) => \A m \in Numbers(s, r) : m < e.n
      PROVE  Rises(t, r)
  <2>1. ASSUME NEW i \in 1..Len(t), NEW j \in 1..Len(t), i < j, IsEvent(t[i], r), IsEvent(t[j], r)
        PROVE  t[i].n < t[j].n
    <3>1. i \in 1..Len(s) /\ t[i] = s[i]
      BY <1>1, <2>1
    <3>2. CASE j \in 1..Len(s)
      BY <1>1, <1>3, <2>1, <3>1, <3>2 DEF Rises
    <3>3. CASE j = Len(s) + 1
      <4>1. s[i].n \in Numbers(s, r)
        BY <2>1, <3>1 DEF Numbers
      <4> QED BY <1>1, <1>3, <2>1, <3>1, <3>3, <4>1
    <3> QED BY <1>1, <3>2, <3>3
  <2> QED BY <2>1 DEF Rises
<1> QED BY <1>2, <1>3 DEF t

\* What the first entry of a sequence is to the others.
LEMMA NumbersTail ==
    ASSUME NEW S, NEW s \in Seq(S), s # <<>>, NEW r
    PROVE  /\ Numbers(s, r) = Numbers(Tail(s), r) \cup (IF IsEvent(Head(s), r) THEN {Head(s).n} ELSE {})
           /\ Rises(s, r) => /\ Rises(Tail(s), r)
                             /\ IsEvent(Head(s), r) => \A m \in Numbers(Tail(s), r) : Head(s).n < m
<1> DEFINE t == Tail(s)
<1>1. /\ Len(s) \in Nat \ {0} /\ Len(t) = Len(s) - 1 /\ Head(s) = s[1]
      /\ \A i \in 1..Len(t) : t[i] = s[i + 1]
  BY HeadTailProperties, EmptySeq
<1> HIDE DEF t
<1>2. \A i \in 1..Len(t) : i + 1 \in 1..Len(s) /\ 1 < i + 1
  BY <1>1
<1>3. Numbers(s, r) = Numbers(t, r) \cup (IF IsEvent(Head(s), r) THEN {Head(s).n} ELSE {})
  <2>1. ASSUME NEW i \in 1..Len(s), IsEvent(s[i], r)
        PROVE  s[i].n \in Numbers(t, r) \cup (IF IsEvent(Head(s), r) THEN {Head(s).n} ELSE {})
    <3>1. CASE i = 1
      BY <1>1, <2>1, <3>1
    <3>2. CASE i # 1
      <4>1. i - 1 \in 1..Len(t) /\ i - 1 + 1 = i
        BY <1>1, <3>2
      <4>2. t[i - 1] = s[i]
        BY <1>1, <4>1
      <4> QED BY <2>1, <4>1, <4>2 DEF Numbers
    <3> QED BY <3>1, <3>2
  <2>2. ASSUME NEW i \in 1..Len(t), IsEvent(t[i], r) PROVE t[i].n \in Numbers(s, r)
    BY <1>1, <1>2, <2>2 DEF Numbers
  <2>3. IsEvent(Head(s), r) => Head(s).n \in Numbers(s, r)
    <3>1. 1 \in 1..Len(s)
      BY <1>1
    <3> QED BY <1>1, <3>1 DEF Numbers
  <2> QED BY <2>1, <2>2, <2>3 DEF Numbers
<1>4. ASSUME Rises(s, r)
      PROVE  Rises(t, r) /\ (IsEvent(Head(s), r) => \A m \in Numbers(t, r) : Head(s).n < m)
  <2>1. Rises(t, r)
    <3>1. ASSUME NEW i \in 1..Len(t), NEW j \in 1..Len(t), i < j, IsEvent(t[i], r), IsEvent(t[j], r)
          PROVE  t[i].n < t[j].n
      <4>1. i + 1 \in 1..Len(s) /\ j + 1 \in 1..Len(s) /\ i + 1 < j + 1
        BY <1>1, <3>1
      <4>2. t[i] = s[i + 1] /\ t[j] = s[j + 1]
        BY <1>1
      <4> QED BY <1>4, <3>1, <4>1, <4>2 DEF Rises
    <3> QED BY <3>1 DEF Rises
  <2>2. ASSUME IsEvent(Head(s), r), NEW i \in 1..Len(t), IsEvent(t[i], r) PROVE Head(s).n < t[i].n
    <3>1. 1 \in 1..Len(s) /\ i + 1 \in 1..Len(s) /\ 1 < i + 1 /\ t[i] = s[i + 1]
      BY <1>1, <1>2
    <3> QED BY <1>1, <1>4, <2>2, <3>1 DEF Rises
  <2> QED BY <2>1, <2>2 DEF Numbers
<1> QED BY <1>3, <1>4 DEF t

\* A beginning of a sequence has no event that the sequence has not.
LEMMA NumbersSub ==
    ASSUME NEW S, NEW s \in Seq(S), NEW k \in 0..Len(s), NEW r
    PROVE  /\ Numbers(SubSeq(s, 1, k), r) \subseteq Numbers(s, r)
           /\ Rises(s, r) => Rises(SubSeq(s, 1, k), r)
           /\ SubSeq(s, 1, k) \in Seq(S) /\ Len(SubSeq(s, 1, k)) = k
           /\ \A i \in 1..k : i \in 1..Len(s) /\ SubSeq(s, 1, k)[i] = s[i]
<1>1. Len(s) \in Nat /\ k \in Int /\ 1 \in Int
  BY LenProperties
<1> DEFINE t == SubSeq(s, 1, k)
<1>2. \A i \in 1..k : s[i] \in S
  BY <1>1, ElementOfSeq
<1>3. /\ t \in Seq(S)
      /\ Len(t) = IF 1 <= k THEN k - 1 + 1 ELSE 0
      /\ \A i \in 1..k - 1 + 1 : t[i] = s[1 + i - 1]
  BY <1>1, <1>2, SubSeqProperties
<1>4. t \in Seq(S) /\ Len(t) = k /\ \A i \in 1..k : i \in 1..Len(s) /\ t[i] = s[i]
  BY <1>1, <1>3
<1> HIDE DEF t
<1>5. Numbers(t, r) \subseteq Numbers(s, r)
  BY <1>4 DEF Numbers
<1>6. Rises(s, r) => Rises(t, r)
  BY <1>4 DEF Rises
<1> QED BY <1>4, <1>5, <1>6 DEF t

\* Nothing has no numbers.
LEMMA NumbersEmpty == \A r : Numbers(<<>>, r) = {} /\ Rises(<<>>, r)
BY EmptySeq DEF Numbers, Rises

-----------------------------------------------------------------------------
(* The queues *)

\* An entry goes to the end of the queue, or nowhere (put_nowait).
LEMMA PutEntry ==
    ASSUME NEW s \in Seq(Entries) \cup {None}, NEW e \in Entries, s # None => Len(s) <= QueueSize
    PROVE  /\ Put(s, e) \in Seq(Entries) \cup {None}
           /\ Put(s, e) = None <=> s = None
           /\ Put(s, e) # None => Len(Put(s, e)) <= QueueSize
           /\ \/ Put(s, e) = s /\ (s # None => ~(Len(s) < QueueSize))
              \/ s \in Seq(Entries) /\ Len(s) < QueueSize /\ Put(s, e) = Append(s, e)
<1>1. CASE s = None
  BY <1>1 DEF Put
<1>2. CASE s # None /\ Len(s) < QueueSize
  <2>1. s \in Seq(Entries) /\ Put(s, e) = Append(s, e)
    BY <1>2 DEF Put
  <2>2. Append(s, e) \in Seq(Entries) /\ Len(Append(s, e)) = Len(s) + 1 /\ Len(s) \in Nat
    BY <2>1, AppendProperties, LenProperties
  <2> QED BY <1>2, <2>1, <2>2, NoneAssumption, AgentRunAssumption
<1>3. CASE s # None /\ ~(Len(s) < QueueSize)
  BY <1>3 DEF Put
<1> QED BY <1>1, <1>2, <1>3

-----------------------------------------------------------------------------
(* What is on its way for a run *)

\* The events a run has taken (g), those in its queue (q) and those on the wire
\* (w) rise from one to the next, and n is the last that was sent.
All(g, q, w, r) == {g[i] : i \in 1..Len(g)} \cup Numbers(q, r) \cup Numbers(w, r)

Flows(g, q, w, n, r) ==
    /\ \A i \in 1..Len(q) : q[i].run = r
    /\ \A i, j \in 1..Len(g) : i < j => g[i] < g[j]
    /\ Rises(q, r) /\ Rises(w, r)
    /\ \A i \in 1..Len(g), k \in Numbers(q, r) : g[i] < k
    /\ \A i \in 1..Len(g), k \in Numbers(w, r) : g[i] < k
    /\ \A m \in Numbers(q, r), k \in Numbers(w, r) : m < k
    /\ All(g, q, w, r) \subseteq 1..n

\* A run that ends leaves its queue behind.
LEMMA FlowDropsQueue ==
    ASSUME NEW g, NEW q, NEW w, NEW n, NEW r, Flows(g, q, w, n, r)
    PROVE  Flows(g, <<>>, w, n, r)
<1>1. Len(<<>>) = 0
  BY EmptySeq
<1> QED BY <1>1, NumbersEmpty DEF Flows, All

\* A frame that is no event of the run joins the wire: nothing changes.
LEMMA FlowOthers ==
    ASSUME NEW g, NEW q, NEW w \in Seq(Frames), NEW n, NEW r, NEW f \in Frames,
           ~IsEvent(f, r), Flows(g, q, w, n, r)
    PROVE  /\ Flows(g, q, Append(w, f), n, r)
           /\ All(g, q, Append(w, f), r) = All(g, q, w, r)
<1>1. Numbers(Append(w, f), r) = Numbers(w, r) /\ (Rises(w, r) => Rises(Append(w, f), r))
  <2>1. /\ Numbers(Append(w, f), r) = Numbers(w, r) \cup (IF IsEvent(f, r) THEN {f.n} ELSE {})
        /\ Rises(w, r) /\ (IsEvent(f, r) => \A m \in Numbers(w, r) : m < f.n)
             => Rises(Append(w, f), r)
    BY NumbersAppend
  <2> QED BY <2>1
<1> QED BY <1>1 DEF Flows, All

\* The Gateway sends the run's next event.
LEMMA FlowSends ==
    ASSUME NEW g, NEW q, NEW w \in Seq(Frames), NEW n \in Nat, NEW r, NEW f \in Frames,
           IsEvent(f, r), f.n = n + 1, Flows(g, q, w, n, r)
    PROVE  Flows(g, q, Append(w, f), n + 1, r)
<1> DEFINE v == Append(w, f)
<1>1. \A m \in All(g, q, w, r) : m \in 1..n + 1 /\ m < n + 1
  BY DEF Flows
<1>2. Numbers(w, r) \subseteq All(g, q, w, r)
  BY DEF All
<1>3. Rises(w, r)
  BY DEF Flows
<1>4. Numbers(v, r) = Numbers(w, r) \cup {n + 1} /\ Rises(v, r)
  <2>1. \A m \in Numbers(w, r) : m < f.n
    BY <1>1, <1>2
  <2> QED BY <1>3, <2>1, NumbersAppend
<1> HIDE DEF v
<1>5. All(g, q, v, r) = All(g, q, w, r) \cup {n + 1}
  BY <1>4 DEF All
<1>6. /\ \A i \in 1..Len(g) : g[i] \in All(g, q, w, r)
      /\ \A m \in Numbers(q, r) : m \in All(g, q, w, r)
  BY DEF All
<1>7. \A i \in 1..Len(g), k \in Numbers(v, r) : g[i] < k
  BY <1>1, <1>4, <1>6 DEF Flows
<1>8. \A m \in Numbers(q, r), k \in Numbers(v, r) : m < k
  BY <1>1, <1>4, <1>6 DEF Flows
<1>9. All(g, q, v, r) \subseteq 1..n + 1
  BY <1>1, <1>5
<1> QED BY <1>4, <1>5, <1>7, <1>8, <1>9 DEF Flows, v

\* The stream takes an event: it changes hands.
LEMMA FlowTakes ==
    ASSUME NEW g \in Seq(Nat), NEW q \in Seq(Entries), q # <<>>, NEW w, NEW n \in Nat, NEW r \in Runs,
           Head(q).type \in {"delta", "approval"}, Flows(g, q, w, n, r)
    PROVE  /\ Flows(Append(g, Head(q).n), Tail(q), w, n, r)
           /\ All(Append(g, Head(q).n), Tail(q), w, r) = All(g, q, w, r)
           /\ Head(q).n \in 1..n
           /\ \A i \in 1..Len(g) : g[i] < Head(q).n
<1> DEFINE e == Head(q)
           t == Tail(q)
           h == Append(g, e.n)
<1>1. /\ Len(q) \in Nat \ {0} /\ e = q[1] /\ e \in Entries
      /\ Len(t) = Len(q) - 1 /\ \A i \in 1..Len(t) : t[i] = q[i + 1]
  BY HeadTailProperties, EmptySeq, ElementOfSeq
<1>2. IsEvent(e, r)
  <2>1. 1 \in 1..Len(q)
    BY <1>1
  <2>2. q[1].run = r
    BY <2>1 DEF Flows
  <2> QED BY <1>1, <2>2 DEF IsEvent
<1>3. /\ Numbers(q, r) = Numbers(t, r) \cup {e.n}
      /\ Rises(t, r) /\ \A m \in Numbers(t, r) : e.n < m
  BY <1>2, NumbersTail DEF Flows
<1>4. Len(g) \in Nat /\ e.n \in Nat
  BY <1>1, LenProperties, AgentRunAssumption DEF Entries, Numbered
<1>5. Len(h) = Len(g) + 1 /\ h[Len(g) + 1] = e.n /\ \A i \in 1..Len(g) : h[i] = g[i]
  BY <1>4, AppendProperties
<1> HIDE DEF e, t, h
<1>6. \A i \in 1..Len(h) : (i \in 1..Len(g) /\ h[i] = g[i]) \/ (i = Len(g) + 1 /\ h[i] = e.n)
  BY <1>4, <1>5
<1>7. 1..Len(g) \subseteq 1..Len(h) /\ Len(g) + 1 \in 1..Len(h)
  BY <1>4, <1>5
<1>8. \A i \in 1..Len(g) : g[i] < e.n
  BY <1>3 DEF Flows
<1>9. All(h, t, w, r) = All(g, q, w, r)
  <2>1. {h[i] : i \in 1..Len(h)} = {g[i] : i \in 1..Len(g)} \cup {e.n}
    BY <1>5, <1>6, <1>7
  <2> QED BY <1>3, <2>1 DEF All
<1>10. \A i \in 1..Len(t) : t[i].run = r
  <2>1. \A i \in 1..Len(t) : i + 1 \in 1..Len(q)
    BY <1>1
  <2> QED BY <1>1, <2>1 DEF Flows
<1>11. \A i, j \in 1..Len(h) : i < j => h[i] < h[j]
  <2>1. ASSUME NEW i \in 1..Len(h), NEW j \in 1..Len(h), i < j PROVE h[i] < h[j]
    <3>1. i \in 1..Len(g) /\ h[i] = g[i]
      BY <1>4, <1>5, <2>1
    <3>2. CASE j \in 1..Len(g) /\ h[j] = g[j]
      BY <2>1, <3>1, <3>2 DEF Flows
    <3>3. CASE h[j] = e.n
      BY <1>8, <3>1, <3>3
    <3> QED BY <1>6, <3>2, <3>3
  <2> QED BY <2>1
<1>12. \A i \in 1..Len(h), k \in Numbers(t, r) : h[i] < k
  <2>1. ASSUME NEW i \in 1..Len(h), NEW k \in Numbers(t, r) PROVE h[i] < k
    <3>1. e.n < k /\ k \in Numbers(q, r)
      BY <1>3
    <3>2. CASE i \in 1..Len(g) /\ h[i] = g[i]
      BY <3>1, <3>2 DEF Flows
    <3>3. CASE h[i] = e.n
      BY <3>1, <3>3
    <3> QED BY <1>6, <3>2, <3>3
  <2> QED BY <2>1
<1>13. \A i \in 1..Len(h), k \in Numbers(w, r) : h[i] < k
  <2>1. ASSUME NEW i \in 1..Len(h), NEW k \in Numbers(w, r) PROVE h[i] < k
    <3>1. e.n \in Numbers(q, r)
      BY <1>3
    <3>2. CASE i \in 1..Len(g) /\ h[i] = g[i]
      BY <3>2 DEF Flows
    <3>3. CASE h[i] = e.n
      BY <3>1, <3>3 DEF Flows
    <3> QED BY <1>6, <3>2, <3>3
  <2> QED BY <2>1
<1>14. Rises(w, r) /\ \A m \in Numbers(t, r), k \in Numbers(w, r) : m < k
  BY <1>3 DEF Flows
<1>15. All(h, t, w, r) \subseteq 1..n /\ e.n \in 1..n
  BY <1>3, <1>9 DEF Flows, All
<1>16. Flows(h, t, w, n, r)
  BY <1>3, <1>10, <1>11, <1>12, <1>13, <1>14, <1>15 DEF Flows
<1> QED BY <1>8, <1>9, <1>15, <1>16 DEF e, t, h

\* The stream takes an entry that is no event.
LEMMA FlowEnds ==
    ASSUME NEW g, NEW q \in Seq(Entries), q # <<>>, NEW w, NEW n, NEW r,
           Head(q).type \notin {"delta", "approval"}, Flows(g, q, w, n, r)
    PROVE  Flows(g, Tail(q), w, n, r)
<1> DEFINE t == Tail(q)
<1>1. Len(q) \in Nat \ {0} /\ Len(t) = Len(q) - 1 /\ \A i \in 1..Len(t) : t[i] = q[i + 1]
  BY HeadTailProperties, EmptySeq
<1>2. ~IsEvent(Head(q), r)
  BY DEF IsEvent
<1>3. Numbers(q, r) = Numbers(t, r) /\ Rises(t, r)
  <2>1. Rises(q, r)
    BY DEF Flows
  <2>2. /\ Numbers(q, r) = Numbers(t, r) \cup (IF IsEvent(Head(q), r) THEN {Head(q).n} ELSE {})
        /\ Rises(t, r)
    BY <2>1, NumbersTail
  <2> QED BY <1>2, <2>2
<1> HIDE DEF t
<1>4. \A i \in 1..Len(t) : t[i].run = r
  <2>1. \A i \in 1..Len(t) : i + 1 \in 1..Len(q)
    BY <1>1
  <2> QED BY <1>1, <2>1 DEF Flows
<1> QED BY <1>3, <1>4 DEF Flows, All, t

\* An entry that is no event joins the queue.
LEMMA FlowTells ==
    ASSUME NEW g, NEW q \in Seq(Entries), NEW w, NEW n, NEW r, NEW e \in Entries,
           e.type \notin {"delta", "approval"}, e.run = r, Flows(g, q, w, n, r)
    PROVE  Flows(g, Append(q, e), w, n, r)
<1> DEFINE t == Append(q, e)
<1>1. Len(q) \in Nat /\ Len(t) = Len(q) + 1 /\ t[Len(q) + 1] = e /\ \A i \in 1..Len(q) : t[i] = q[i]
  BY AppendProperties, LenProperties
<1>2. ~IsEvent(e, r)
  BY DEF IsEvent
<1>3. Numbers(t, r) = Numbers(q, r) /\ Rises(t, r)
  <2>1. Rises(q, r)
    BY DEF Flows
  <2>2. /\ Numbers(t, r) = Numbers(q, r) \cup (IF IsEvent(e, r) THEN {e.n} ELSE {})
        /\ Rises(q, r) /\ (IsEvent(e, r) => \A m \in Numbers(q, r) : m < e.n) => Rises(t, r)
    BY NumbersAppend
  <2> QED BY <1>2, <2>1, <2>2
<1> HIDE DEF t
<1>4. \A i \in 1..Len(t) : t[i].run = r
  <2>1. \A i \in 1..Len(t) : i \in 1..Len(q) \/ i = Len(q) + 1
    BY <1>1
  <2> QED BY <1>1, <2>1 DEF Flows
<1> QED BY <1>3, <1>4 DEF Flows, All, t

\* The reader takes the first frame off the wire.
LEMMA FlowReads ==
    ASSUME NEW g, NEW q, NEW w \in Seq(Frames), w # <<>>, NEW n, NEW r,
           Flows(g, q, w, n, r)
    PROVE  /\ Flows(g, q, Tail(w), n, r)
           /\ ~IsEvent(Head(w), r) => All(g, q, Tail(w), r) = All(g, q, w, r)
<1>1. /\ Numbers(w, r) = Numbers(Tail(w), r) \cup (IF IsEvent(Head(w), r) THEN {Head(w).n} ELSE {})
      /\ Rises(Tail(w), r)
  BY NumbersTail DEF Flows
<1> DEFINE t == Tail(w)
<1>2. Numbers(t, r) \subseteq Numbers(w, r) /\ Rises(t, r)
  BY <1>1
<1>3. ~IsEvent(Head(w), r) => Numbers(t, r) = Numbers(w, r)
  BY <1>1
<1> HIDE DEF t
<1> QED BY <1>2, <1>3 DEF Flows, All, t

\* It is an event of the run and goes to the end of its queue.
LEMMA FlowRoutes ==
    ASSUME NEW g, NEW q \in Seq(Entries), NEW w \in Seq(Frames), w # <<>>, NEW n, NEW r,
           IsEvent(Head(w), r), Head(w) \in Entries, Flows(g, q, w, n, r)
    PROVE  /\ Flows(g, Append(q, Head(w)), Tail(w), n, r)
           /\ All(g, Append(q, Head(w)), Tail(w), r) = All(g, q, w, r)
<1> DEFINE e == Head(w)
           t == Append(q, e)
           v == Tail(w)
<1>1. Len(q) \in Nat /\ Len(t) = Len(q) + 1 /\ t[Len(q) + 1] = e /\ \A i \in 1..Len(q) : t[i] = q[i]
  BY AppendProperties, LenProperties
<1>2. Numbers(w, r) = Numbers(v, r) \cup {e.n} /\ Rises(v, r) /\ \A m \in Numbers(v, r) : e.n < m
  BY NumbersTail DEF Flows
<1>3. Numbers(t, r) = Numbers(q, r) \cup {e.n} /\ Rises(t, r)
  <2>1. \A m \in Numbers(q, r) : m < e.n
    BY <1>2 DEF Flows
  <2>2. Rises(q, r)
    BY DEF Flows
  <2> QED BY <2>1, <2>2, NumbersAppend
<1>4. e.run = r
  BY DEF IsEvent
<1> HIDE DEF e, t, v
<1>5. \A i \in 1..Len(t) : t[i].run = r
  <2>1. \A i \in 1..Len(t) : i \in 1..Len(q) \/ i = Len(q) + 1
    BY <1>1
  <2> QED BY <1>1, <1>4, <2>1 DEF Flows
<1>6. All(g, t, v, r) = All(g, q, w, r)
  BY <1>2, <1>3 DEF All
<1>7. Flows(g, t, v, n, r)
  BY <1>2, <1>3, <1>5, <1>6 DEF Flows
<1> QED BY <1>6, <1>7 DEF e, t, v

\* The connection is lost and takes the end of the wire with it.
LEMMA FlowCut ==
    ASSUME NEW g, NEW q, NEW w \in Seq(Frames), NEW k \in 0..Len(w), NEW n, NEW r,
           Flows(g, q, w, n, r)
    PROVE  Flows(g, q, SubSeq(w, 1, k), n, r)
<1>1. Numbers(SubSeq(w, 1, k), r) \subseteq Numbers(w, r) /\ Rises(SubSeq(w, 1, k), r)
  BY NumbersSub DEF Flows
<1> QED BY <1>1 DEF Flows, All

-----------------------------------------------------------------------------
(* Types and registrations *)

\* A run has a queue exactly while its stream reads it; a request id is
\* registered while a task waits for it; and an approval is the first event a
\* run can take, so that there is one answer at most.
Registered ==
    \A r \in Runs :
        /\ queue[r] # None <=> stream[r] \in {"queue", "dialog", "left"}
        /\ AgentReq(r) \in pending => stream[r] = "ack"
        /\ ResolveReq(r) \in pending => resolver[r] = "wait"
        /\ resolver[r] # "none" => got[r] # <<>>
        /\ stream[r] = "dialog" => resolver[r] = "none" /\ got[r] # <<>>

\* The events of each run that are on their way.
Flow(r) == Flows(got[r], Queued(r), wire, sent[r], r)
Flowing == \A r \in Runs : Flow(r)

\* Every handler at work, overtaken or not, has a lost connection of its own.
Handlers ==
    /\ overtaken <= losses
    /\ link = "down" /\ reader # "gone" => overtaken < losses
    /\ reader = "lost" => link = "down"

Safe == TypeOK /\ Registered /\ Handlers /\ Flowing

\* Requests are told apart by their kind and their run.
LEMMA RequestIds ==
    /\ \A r \in Runs : {AgentReq(r), ResolveReq(r)} \subseteq Requests
    /\ \A r, x \in Runs : /\ AgentReq(r) # ResolveReq(x)
                          /\ AgentReq(r) = AgentReq(x) => r = x
                          /\ ResolveReq(r) = ResolveReq(x) => r = x
    /\ \A q \in Requests : \E r \in Runs : q = AgentReq(r) \/ q = ResolveReq(r)
BY DEF AgentReq, ResolveReq, Requests

\* Every run's queue, as the reader and the stream see it.
LEMMA QueueTypes ==
    ASSUME TypeOK, NEW r \in Runs
    PROVE  /\ Queued(r) \in Seq(Entries)
           /\ queue[r] \in Seq(Entries) \cup {None}
           /\ queue[r] # None => queue[r] = Queued(r) /\ Len(queue[r]) <= QueueSize
           /\ queue[r] = None => Queued(r) = <<>>
<1>1. queue[r] \in Seq(Entries) \cup {None} /\ (queue[r] # None => Len(queue[r]) <= QueueSize)
  BY DEF TypeOK
<1>2. <<>> \in Seq(Entries)
  BY EmptySeq
<1> QED BY <1>1, <1>2 DEF Queued

\* Telling every run ends in queues again.
LEMMA FailRunsTypes ==
    ASSUME TypeOK, FailRuns
    PROVE  /\ queue' \in [Runs -> Seq(Entries) \cup {None}]
           /\ \A r \in Runs : /\ queue'[r] # None => Len(queue'[r]) <= QueueSize
                              /\ queue'[r] = Put(queue[r], Frame("local", r, 0))
                              /\ queue'[r] = None <=> queue[r] = None
<1> DEFINE F(r) == Put(queue[r], Frame("local", r, 0))
<1>1. ASSUME NEW r \in Runs
      PROVE  /\ F(r) \in Seq(Entries) \cup {None}
             /\ F(r) = None <=> queue[r] = None
             /\ F(r) # None => Len(F(r)) <= QueueSize
  <2>1. Frame("local", r, 0) \in Entries
    BY AgentRunAssumption DEF Frame, Entries, Numbered
  <2> QED BY <2>1, QueueTypes, PutEntry
<1>2. queue' = [r \in Runs |-> F(r)]
  BY DEF FailRuns
<1> HIDE DEF F
<1>3. queue' \in [Runs -> Seq(Entries) \cup {None}] /\ \A r \in Runs : queue'[r] = F(r)
  BY <1>1, <1>2
<1> QED BY <1>1, <1>3 DEF F

\* An entry put on one run's queue.
LEMMA PutOne ==
    ASSUME TypeOK, NEW r \in Runs, NEW e \in Entries,
           queue' = [queue EXCEPT ![r] = Put(@, e)]
    PROVE  /\ queue' \in [Runs -> Seq(Entries) \cup {None}]
           /\ \A x \in Runs : /\ queue'[x] # None => Len(queue'[x]) <= QueueSize
                              /\ queue'[x] = None <=> queue[x] = None
                              /\ x # r => queue'[x] = queue[x]
           /\ queue'[r] = Put(queue[r], e)
<1>1. /\ Put(queue[r], e) \in Seq(Entries) \cup {None}
      /\ Put(queue[r], e) = None <=> queue[r] = None
      /\ Put(queue[r], e) # None => Len(Put(queue[r], e)) <= QueueSize
  BY QueueTypes, PutEntry
<1>2. queue \in [Runs -> Seq(Entries) \cup {None}]
  BY DEF TypeOK
<1>3. queue' = [queue EXCEPT ![r] = Put(queue[r], e)]
  OBVIOUS
<1> DEFINE p == Put(queue[r], e)
<1> HIDE DEF p
<1>4. queue' = [queue EXCEPT ![r] = p] /\ p \in Seq(Entries) \cup {None}
  BY <1>1, <1>3 DEF p
<1>5. /\ queue' \in [Runs -> Seq(Entries) \cup {None}]
      /\ queue'[r] = p /\ \A x \in Runs : x # r => queue'[x] = queue[x]
  BY <1>2, <1>4
<1> QED BY <1>1, <1>2, <1>5, QueueTypes DEF p

\* What the reader reads is a frame; an event among them is an entry.
LEMMA WireTypes ==
    ASSUME TypeOK, wire # <<>>
    PROVE  /\ Head(wire) \in Frames /\ Tail(wire) \in Seq(Frames) /\ Len(Tail(wire)) <= MaxWire
           /\ Head(wire).type \in {"delta", "approval"} => Head(wire) \in Entries
           /\ Head(wire).run \in Runs
           /\ Head(wire) = wire[1] /\ Len(Tail(wire)) = Len(wire) - 1 /\ Len(wire) \in Nat
           /\ \A i \in 1..Len(Tail(wire)) : Tail(wire)[i] = wire[i + 1] /\ i + 1 \in 1..Len(wire)
<1>1. wire \in Seq(Frames) /\ Len(wire) <= MaxWire /\ MaxWire \in Nat
  BY AgentRunAssumption DEF TypeOK
<1>2. /\ Len(wire) \in Nat \ {0} /\ Head(wire) = wire[1] /\ Tail(wire) \in Seq(Frames)
      /\ Len(Tail(wire)) = Len(wire) - 1
      /\ \A i \in 1..Len(Tail(wire)) : Tail(wire)[i] = wire[i + 1]
  BY <1>1, HeadTailProperties, EmptySeq
<1>3. wire[1] \in Frames
  BY <1>1, <1>2, ElementOfSeq
<1>4. wire[1].run \in Runs /\ (wire[1].type \in {"delta", "approval"} => wire[1] \in Entries)
  BY <1>3 DEF Frames, Entries, Numbered
<1> QED BY <1>1, <1>2, <1>3, <1>4

\* The same for what the stream takes.
LEMMA TakenTypes ==
    ASSUME Safe, NEW r \in Runs, Consume(r)
    PROVE  /\ queue[r] \in Seq(Entries) /\ queue[r] # <<>> /\ queue[r] # None
           /\ Head(queue[r]) \in Entries /\ Tail(queue[r]) \in Seq(Entries)
           /\ Len(Tail(queue[r])) <= QueueSize /\ Tail(queue[r]) # None
           /\ Head(queue[r]).type \in {"delta", "approval"} => Head(queue[r]).n \in 1..MaxEvents
           /\ Head(queue[r]).type = "approval" => got[r] = <<>>
<1>1. queue[r] # None /\ queue[r] # <<>>
  BY DEF Consume, Safe, Registered
<1>2. queue[r] \in Seq(Entries) /\ queue[r] = Queued(r) /\ Len(queue[r]) <= QueueSize
  BY <1>1, QueueTypes DEF Safe
<1> DEFINE q == queue[r]
<1>3. /\ Len(q) \in Nat \ {0} /\ Head(q) \in Entries /\ Tail(q) \in Seq(Entries)
      /\ Len(Tail(q)) = Len(q) - 1
  BY <1>1, <1>2, HeadTailProperties, EmptySeq
<1>4. Tail(q) # None /\ Len(Tail(q)) <= QueueSize
  BY <1>2, <1>3, NoneAssumption, AgentRunAssumption
<1>5. ASSUME Head(q).type \in {"delta", "approval"}
      PROVE  Head(q).n \in 1..MaxEvents /\ (Head(q).type = "approval" => got[r] = <<>>)
  <2>1. got[r] \in Seq(1..MaxEvents) /\ sent[r] \in 0..MaxEvents /\ MaxEvents \in Nat
    BY AgentRunAssumption DEF Safe, TypeOK
  <2>2. got[r] \in Seq(Nat)
    <3>1. 1..MaxEvents \subseteq Nat
      BY <2>1
    <3> QED BY <2>1, <3>1, SeqMonotonic
  <2>3. Flows(got[r], q, wire, sent[r], r)
    BY <1>2 DEF Safe, Flowing, Flow
  <2>4. Head(q).n \in 1..sent[r] /\ \A i \in 1..Len(got[r]) : got[r][i] < Head(q).n
    BY <1>1, <1>2, <1>5, <2>1, <2>2, <2>3, FlowTakes
  <2>5. ASSUME Head(q).type = "approval", got[r] # <<>> PROVE FALSE
    <3>1. Head(q).n = 1
      BY <1>3, <2>5 DEF Entries, Numbered
    <3>2. 1 \in 1..Len(got[r]) /\ got[r][1] \in 1..MaxEvents
      BY <2>1, <2>5, EmptySeq, LenProperties, ElementOfSeq
    <3> QED BY <2>4, <3>1, <3>2
  <2> QED BY <2>1, <2>4, <2>5
<1> QED BY <1>1, <1>2, <1>3, <1>4, <1>5

\* The Gateway sends frames.
LEMMA SomeFrame ==
    ASSUME TypeOK, NEW r \in Runs
    PROVE  /\ Frame("accepted", r, 0) \in Frames /\ Frame("refused", r, 0) \in Frames
           /\ Frame("final", r, 0) \in Frames /\ Frame("resolved", r, 0) \in Frames
           /\ sent[r] < MaxEvents => /\ Frame("delta", r, sent[r] + 1) \in Frames
                                     /\ sent[r] + 1 \in 1..MaxEvents
                                     /\ sent[r] = 0 => Frame("approval", r, 1) \in Frames
BY AgentRunAssumption DEF TypeOK, Frame, Frames, Numbered

\* What each of its steps sends.
LEMMA GatewaySends ==
    ASSUME TypeOK, NEW r \in Runs, GatewayStep(r)
    PROVE  \E f \in Frames :
             /\ SendFrame(f) /\ f.run = r
             /\ \/ /\ f.type \in {"delta", "approval"} /\ f.n = sent[r] + 1 /\ f.n \in 1..MaxEvents
                   /\ gateway[r] = "running"
                   /\ sent' = [sent EXCEPT ![r] = sent[r] + 1] /\ UNCHANGED <<gateway, toAnswer>>
                \/ /\ f.type = "resolved" /\ r \in toAnswer
                   /\ toAnswer' = toAnswer \ {r} /\ UNCHANGED <<gateway, sent>>
                \/ /\ f.type = "accepted" /\ gateway[r] = "asked"
                   /\ gateway' = [gateway EXCEPT ![r] = "running"] /\ UNCHANGED <<sent, toAnswer>>
                \/ /\ f.type = "refused" /\ gateway[r] = "asked"
                   /\ gateway' = [gateway EXCEPT ![r] = "done"] /\ UNCHANGED <<sent, toAnswer>>
                \/ /\ f.type = "final" /\ gateway[r] = "running"
                   /\ gateway' = [gateway EXCEPT ![r] = "done"] /\ UNCHANGED <<sent, toAnswer>>
<1>1. CASE Accept(r)
  <2>1. Frame("accepted", r, 0) \in Frames BY SomeFrame
  <2> QED BY <1>1, <2>1 DEF Accept, Frame
<1>2. CASE Refuse(r)
  <2>1. Frame("refused", r, 0) \in Frames BY SomeFrame
  <2> QED BY <1>2, <2>1 DEF Refuse, Frame
<1>3. CASE Finish(r)
  <2>1. Frame("final", r, 0) \in Frames BY SomeFrame
  <2> QED BY <1>3, <2>1 DEF Finish, Frame
<1>4. CASE AnswerResolve(r)
  <2>1. Frame("resolved", r, 0) \in Frames BY SomeFrame
  <2> QED BY <1>4, <2>1 DEF AnswerResolve, Frame
<1>5. CASE SendEvent(r)
  <2>1. /\ sent[r] < MaxEvents /\ gateway[r] = "running" /\ UNCHANGED <<gateway, toAnswer>>
        /\ sent' = [sent EXCEPT ![r] = sent[r] + 1]
    BY <1>5 DEF SendEvent
  <2>2. sent[r] + 1 \in 1..MaxEvents /\ Frame("delta", r, sent[r] + 1) \in Frames
        /\ (sent[r] = 0 => Frame("approval", r, 1) \in Frames)
    BY <2>1, SomeFrame
  <2>3. \/ SendFrame(Frame("delta", r, sent[r] + 1))
        \/ sent[r] = 0 /\ SendFrame(Frame("approval", r, 1))
    BY <1>5 DEF SendEvent
  <2>4. CASE SendFrame(Frame("delta", r, sent[r] + 1))
    BY <2>1, <2>2, <2>4 DEF Frame
  <2>5. CASE sent[r] = 0 /\ SendFrame(Frame("approval", r, 1))
    <3>1. sent[r] + 1 = 1
      BY <2>5
    <3> QED BY <2>1, <2>2, <2>5, <3>1 DEF Frame
  <2> QED BY <2>3, <2>4, <2>5
<1> QED BY <1>1, <1>2, <1>3, <1>4, <1>5 DEF GatewayStep

\* Every step keeps the types.
LEMMA TypesKept ==
    ASSUME Safe, [Next]_vars
    PROVE  TypeOK'
<1> USE DEF Safe
<1>1. <<>> \in Seq(Entries) /\ Len(<<>>) = 0 /\ QueueSize \in Nat
  BY EmptySeq, AgentRunAssumption
<1>2. ASSUME NEW r \in Runs, Ask(r) \/ AskConnects(r) PROVE TypeOK'
  <2>1. AgentReq(r) \in Requests /\ UNCHANGED <<wire, losses, queue, got, resolver, sent, toAnswer>>
    BY <1>2, RequestIds DEF Ask, AskConnects, readerVars
  <2>2. /\ link' \in {"up", "down"} /\ reader' \in {"up", "lost", "gone", "crashed"}
        /\ overtaken' \in 0..MaxLosses /\ orphans' \subseteq Runs
    <3>1. CASE UNCHANGED readerVars
      BY <3>1 DEF readerVars, TypeOK
    <3>2. CASE /\ AskConnects(r) /\ reader' = "up" /\ link' = "up"
               /\ overtaken' = IF reader = "lost" THEN overtaken + 1 ELSE overtaken
               /\ orphans' = IF reader = "lost"
                             THEN orphans \cup {s \in Runs : queue[s] # None} ELSE orphans
      <4>1. overtaken \in 0..MaxLosses /\ losses \in 0..MaxLosses /\ MaxLosses \in Nat
            /\ (reader = "lost" => overtaken < losses)
        BY AgentRunAssumption DEF TypeOK, Handlers
      <4>2. overtaken' \in 0..MaxLosses
        BY <3>2, <4>1
      <4> QED BY <3>2, <4>2 DEF TypeOK
    <3> QED BY <1>2, <3>1, <3>2 DEF Ask, AskConnects
  <2>3. CASE SendRequest(r)
    BY <2>1, <2>2, <2>3 DEF TypeOK, SendRequest
  <2>4. CASE UNCHANGED <<requestVars, gateway>> /\ \E how \in {"error", "stopped"} : End(r, how)
    BY <2>1, <2>2, <2>4 DEF TypeOK, End, requestVars
  <2> QED BY <1>2, <2>3, <2>4 DEF Ask, AskConnects
<1>3. ASSUME NEW r \in Runs, AckResumes(r) PROVE TypeOK'
  BY <1>1, <1>3 DEF TypeOK, AckResumes, readerVars, gatewayVars
<1>4. ASSUME NEW r \in Runs, AckFails(r) PROVE TypeOK'
  BY <1>4 DEF TypeOK, AckFails, End, readerVars, gatewayVars
<1>5. ASSUME NEW r \in Runs, Consume(r) PROVE TypeOK'
  <2>1. /\ queue' = [queue EXCEPT ![r] = Tail(queue[r])]
        /\ UNCHANGED <<readerVars, requestVars, gatewayVars>>
    BY <1>5 DEF Consume
  <2>2. queue' \in [Runs -> Seq(Entries) \cup {None}] /\ \A x \in Runs : queue'[x] # None => Len(queue'[x]) <= QueueSize
    BY <1>5, <2>1, TakenTypes DEF TypeOK
  <2>3. got' \in [Runs -> Seq(1..MaxEvents)]
    <3>1. CASE Head(queue[r]).type \in {"delta", "approval"}
      <4>1. got' = [got EXCEPT ![r] = Append(got[r], Head(queue[r]).n)]
        BY <1>5, <3>1 DEF Consume
      <4>2. Append(got[r], Head(queue[r]).n) \in Seq(1..MaxEvents)
        BY <1>5, <3>1, TakenTypes, AppendProperties DEF TypeOK
      <4> QED BY <4>1, <4>2 DEF TypeOK
    <3>2. CASE Head(queue[r]).type \notin {"delta", "approval"}
      BY <1>5, <3>2 DEF Consume, TypeOK
    <3> QED BY <3>1, <3>2
  <2>4. /\ stream' \in [Runs -> {"idle", "ack", "queue", "dialog", "left", "over"}]
        /\ outcome' \in [Runs -> {"none", "final", "lost", "error", "timeout", "stopped"}]
        /\ resolver' \in [Runs -> {"none", "task", "wait", "done"}]
    BY <1>5 DEF Consume, TypeOK
  <2> QED BY <2>1, <2>2, <2>3, <2>4 DEF TypeOK, readerVars, requestVars, gatewayVars
<1>6. ASSUME NEW r \in Runs, DialogEnds(r) PROVE TypeOK'
  BY <1>6 DEF TypeOK, DialogEnds, readerVars, requestVars, gatewayVars
<1>7. ASSUME NEW r \in Runs, QueueTimeout(r) \/ StopStream(r) \/ CloseLeft(r) PROVE TypeOK'
  BY <1>7 DEF TypeOK, QueueTimeout, StopStream, CloseLeft, Unsubscribe, End, readerVars,
     requestVars, gatewayVars
<1>8. ASSUME NEW r \in Runs, ResolveStarts(r) \/ ResolveEnds(r) PROVE TypeOK'
  <2>1. ResolveReq(r) \in Requests /\ UNCHANGED <<readerVars, queue, streamVars, gateway, sent>>
    BY <1>8, RequestIds DEF ResolveStarts, ResolveEnds, gatewayVars
  <2>2. /\ pending' \in {pending, pending \cup {ResolveReq(r)}, pending \ {ResolveReq(r)}}
        /\ future' \in {future, [future EXCEPT ![ResolveReq(r)] = "waiting"]}
        /\ toAnswer' \in {toAnswer, toAnswer \cup {r}}
        /\ \E s \in {"wait", "done"} : resolver' = [resolver EXCEPT ![r] = s]
    BY <1>8 DEF ResolveStarts, ResolveEnds, requestVars, gatewayVars
  <2>3. pending' \subseteq Requests /\ toAnswer' \subseteq Runs
    BY <2>1, <2>2 DEF TypeOK
  <2>4. future' \in [Requests -> {"none", "waiting", "result", "error", "cancelled"}]
    BY <2>1, <2>2 DEF TypeOK
  <2>5. resolver' \in [Runs -> {"none", "task", "wait", "done"}]
    BY <2>2 DEF TypeOK
  <2> QED BY <2>1, <2>3, <2>4, <2>5 DEF TypeOK, readerVars, streamVars
<1>9. ASSUME NEW r \in Runs, GatewayStep(r) PROVE TypeOK'
  <2>1. PICK f \in Frames :
             /\ SendFrame(f)
             /\ \/ UNCHANGED gateway
                \/ \E g \in {"running", "done"} : gateway' = [gateway EXCEPT ![r] = g]
             /\ UNCHANGED sent \/ (sent' = [sent EXCEPT ![r] = sent[r] + 1] /\ sent[r] + 1 \in 1..MaxEvents)
             /\ toAnswer' \in {toAnswer, toAnswer \ {r}}
    BY <1>9, GatewaySends
  <2>2. /\ gateway' \in [Runs -> {"none", "asked", "running", "done", "cut"}]
        /\ sent' \in [Runs -> 0..MaxEvents]
        /\ toAnswer' \subseteq Runs
    <3>1. gateway' \in [Runs -> {"none", "asked", "running", "done", "cut"}]
      BY <2>1 DEF TypeOK
    <3>2. sent' \in [Runs -> 0..MaxEvents]
      <4>1. sent[r] + 1 \in 1..MaxEvents => sent[r] + 1 \in 0..MaxEvents
        BY AgentRunAssumption
      <4> QED BY <2>1, <4>1 DEF TypeOK
    <3>3. toAnswer' \subseteq Runs
      BY <2>1 DEF TypeOK
    <3> QED BY <3>1, <3>2, <3>3
  <2>3. Append(wire, f) \in Seq(Frames) /\ Len(Append(wire, f)) = Len(wire) + 1 /\ Len(wire) \in Nat
    BY AppendProperties, LenProperties DEF TypeOK
  <2>4. Len(wire) < MaxWire /\ wire' = Append(wire, f)
    BY <2>1 DEF SendFrame
  <2>5. wire' \in Seq(Frames) /\ Len(wire') <= MaxWire
    BY <2>3, <2>4, AgentRunAssumption
  <2> QED BY <2>1, <2>2, <2>5 DEF SendFrame, TypeOK, requestVars, streamVars
<1>10. ASSUME NEW q \in Requests, CancelWait(q) PROVE TypeOK'
  BY <1>10 DEF TypeOK, CancelWait, readerVars, streamVars, gatewayVars
<1>11. ASSUME RouteResponse PROVE TypeOK'
  <2> DEFINE f == Head(wire)
  <2>1. /\ wire' \in Seq(Frames) /\ Len(wire') <= MaxWire /\ f \in Frames /\ f.run \in Runs
        /\ UNCHANGED <<link, losses, overtaken, orphans, streamVars, resolver, gatewayVars>>
    BY <1>11, WireTypes DEF RouteResponse, ReadFrame
  <2>2. Frame("final", f.run, 0) \in Entries /\ RequestOf(f) \in Requests
    BY <2>1, RequestIds, AgentRunAssumption DEF Frame, Entries, Numbered, RequestOf
  <2>3. CASE IsFinal(f)
    <3>1. queue' = [queue EXCEPT ![f.run] = Put(@, Frame("final", f.run, 0))]
          /\ UNCHANGED <<reader, requestVars>>
      BY <1>11, <2>3 DEF RouteResponse
    <3>2. /\ queue' \in [Runs -> Seq(Entries) \cup {None}]
          /\ \A x \in Runs : queue'[x] # None => Len(queue'[x]) <= QueueSize
      BY <2>1, <2>2, <3>1, PutOne
    <3> QED BY <2>1, <3>1, <3>2 DEF TypeOK, requestVars, streamVars, gatewayVars
  <2>4. CASE ~IsFinal(f)
    <3>1. UNCHANGED <<pending, queue>> /\ reader' \in {reader, "crashed"}
      BY <1>11, <2>4 DEF RouteResponse, requestVars
    <3>2. future' \in [Requests -> {"none", "waiting", "result", "error", "cancelled"}]
      <4>1. future' = future \/ \E x \in {"error", "result"} : future' = [future EXCEPT ![RequestOf(f)] = x]
        BY <1>11, <2>4 DEF RouteResponse, requestVars
      <4> QED BY <2>2, <4>1 DEF TypeOK
    <3> QED BY <2>1, <3>1, <3>2 DEF TypeOK, streamVars, gatewayVars
  <2> QED BY <2>3, <2>4
<1>12. ASSUME RouteEvent PROVE TypeOK'
  <2>1. /\ wire' \in Seq(Frames) /\ Len(wire') <= MaxWire
        /\ Head(wire).run \in Runs /\ Head(wire) \in Entries
        /\ UNCHANGED <<link, losses, overtaken, orphans, streamVars, resolver, gatewayVars, reader,
                       requestVars>>
    BY <1>12, WireTypes DEF RouteEvent, ReadFrame
  <2>2. /\ queue' \in [Runs -> Seq(Entries) \cup {None}]
        /\ \A x \in Runs : queue'[x] # None => Len(queue'[x]) <= QueueSize
    BY <1>12, <2>1, PutOne DEF RouteEvent
  <2> QED BY <2>1, <2>2 DEF TypeOK, requestVars, streamVars, gatewayVars
<1>13. ASSUME ReaderLoses \/ Reconnect \/ GiveUp PROVE TypeOK'
  <2>1. /\ UNCHANGED <<wire, losses, orphans, streamVars, resolver, gatewayVars>>
        /\ link' \in {"up", "down"} /\ reader' \in {"up", "lost", "gone", "crashed"}
    BY <1>13 DEF ReaderLoses, Reconnect, GiveUp, LeaveGone, TypeOK
  <2>4. overtaken' \in 0..MaxLosses
    <3>1. overtaken' = overtaken \/ (overtaken > 0 /\ overtaken' = overtaken - 1)
      BY <1>13 DEF ReaderLoses, Reconnect, GiveUp, LeaveGone
    <3> QED BY <3>1, AgentRunAssumption DEF TypeOK
  <2>2. /\ queue' \in [Runs -> Seq(Entries) \cup {None}]
        /\ \A x \in Runs : queue'[x] # None => Len(queue'[x]) <= QueueSize
    <3>1. CASE FailRuns
      BY <3>1, FailRunsTypes
    <3>2. CASE UNCHANGED queue
      BY <3>2 DEF TypeOK
    <3> QED BY <1>13, <3>1, <3>2 DEF ReaderLoses, Reconnect, GiveUp, LeaveGone, requestVars
  <2>3. /\ pending' \subseteq Requests
        /\ future' \in [Requests -> {"none", "waiting", "result", "error", "cancelled"}]
    BY <1>13 DEF ReaderLoses, Reconnect, GiveUp, LeaveGone, FailPending, requestVars, TypeOK
  <2> QED BY <2>1, <2>2, <2>3, <2>4 DEF TypeOK, streamVars, gatewayVars
<1>16. ASSUME OvertakenExits PROVE TypeOK'
  <2>1. /\ UNCHANGED <<wire, link, reader, losses, orphans, requestVars, queue, streamVars, resolver, gatewayVars>>
        /\ overtaken > 0 /\ overtaken' = overtaken - 1
    BY <1>16 DEF OvertakenExits
  <2>2. overtaken' \in 0..MaxLosses
    BY <2>1, AgentRunAssumption DEF TypeOK
  <2> QED BY <2>1, <2>2 DEF TypeOK, requestVars, streamVars, gatewayVars
<1>14. ASSUME LinkLost PROVE TypeOK'
  <2>1. PICK k \in 0..Len(wire) : wire' = SubSeq(wire, 1, k)
    BY <1>14 DEF LinkLost
  <2>2. wire' \in Seq(Frames) /\ Len(wire') = k /\ Len(wire) \in Nat
    BY <2>1, NumbersSub, LenProperties DEF TypeOK
  <2>3. Len(wire') <= MaxWire
    BY <2>2, AgentRunAssumption DEF TypeOK
  <2>4. losses' \in 0..MaxLosses
    BY <1>14, AgentRunAssumption DEF LinkLost, TypeOK
  <2> QED BY <1>14, <2>2, <2>3, <2>4 DEF LinkLost, TypeOK, requestVars, streamVars
<1>15. CASE UNCHANGED vars
  BY <1>15 DEF TypeOK, vars, readerVars, requestVars, streamVars, gatewayVars
<1> QED
  BY <1>2, <1>3, <1>4, <1>5, <1>6, <1>7, <1>8, <1>9, <1>10, <1>11, <1>12, <1>13, <1>14, <1>15, <1>16
  DEF Next, StreamStep, ReaderStep

\* Queues and request ids come and go with those who use them (the finally
\* clauses of request() and agent_stream()).
LEMMA RegisteredKept ==
    ASSUME Safe, [Next]_vars
    PROVE  Registered'
<1> USE DEF Safe
<1>1. <<>> # None
  BY EmptySeq, NoneAssumption
<1>2. ASSUME NEW r \in Runs, Ask(r) \/ AskConnects(r) PROVE Registered'
  <2>1. stream[r] = "idle" /\ UNCHANGED <<queue, got, resolver>>
    BY <1>2 DEF Ask, AskConnects
  <2>2. CASE pending' = pending \cup {AgentReq(r)} /\ stream' = [stream EXCEPT ![r] = "ack"]
    BY <2>1, <2>2, RequestIds DEF TypeOK, Registered
  <2>3. CASE UNCHANGED pending /\ stream' = [stream EXCEPT ![r] = "over"]
    BY <2>1, <2>3 DEF TypeOK, Registered
  <2> QED BY <1>2, <2>2, <2>3 DEF Ask, AskConnects, SendRequest, End, requestVars
<1>3. ASSUME NEW r \in Runs, AckResumes(r) PROVE Registered'
  BY <1>1, <1>3, RequestIds DEF TypeOK, Registered, AckResumes, readerVars, gatewayVars
<1>4. ASSUME NEW r \in Runs, AckFails(r) PROVE Registered'
  BY <1>4, RequestIds DEF TypeOK, Registered, AckFails, End, readerVars, gatewayVars
<1>5. ASSUME NEW r \in Runs, Consume(r) PROVE Registered'
  <2>1. /\ queue' = [queue EXCEPT ![r] = Tail(queue[r])] /\ UNCHANGED requestVars
        /\ Tail(queue[r]) # None /\ stream[r] = "queue"
        /\ \E s \in {"queue", "dialog", "left"} : stream' = [stream EXCEPT ![r] = s]
    BY <1>5, TakenTypes DEF Consume, TypeOK
  <2>2. CASE Head(queue[r]).type \in {"delta", "approval"}
    <3>1. /\ got' = [got EXCEPT ![r] = Append(got[r], Head(queue[r]).n)]
          /\ Append(got[r], Head(queue[r]).n) # <<>>
      <4>1. got' = [got EXCEPT ![r] = Append(got[r], Head(queue[r]).n)]
        BY <1>5, <2>2 DEF Consume
      <4>2. got[r] \in Seq(1..MaxEvents) /\ Head(queue[r]).n \in 1..MaxEvents
        BY <1>5, <2>2, TakenTypes DEF TypeOK
      <4>3. Len(Append(got[r], Head(queue[r]).n)) = Len(got[r]) + 1 /\ Len(got[r]) \in Nat
        BY <4>2, AppendProperties, LenProperties
      <4> QED BY <4>1, <4>3, EmptySeq
    <3>2. CASE Head(queue[r]).type = "approval"
      <4>1. resolver[r] = "none"
        BY <1>5, <3>2, TakenTypes DEF Registered
      <4>2. /\ resolver'[r] # "none" => stream'[r] # "dialog"
            /\ \A x \in Runs : x # r => resolver'[x] = resolver[x]
        BY <1>5, <2>2, <3>2, <4>1 DEF Consume, TypeOK
      <4>3. /\ UNCHANGED pending /\ ResolveReq(r) \notin pending /\ AgentReq(r) \notin pending
            /\ got'[r] # <<>> /\ queue'[r] # None /\ stream'[r] \in {"queue", "dialog", "left"}
        BY <2>1, <3>1, <4>1 DEF TypeOK, Registered, requestVars
      <4>4. \A x \in Runs : x # r => /\ got'[x] = got[x] /\ queue'[x] = queue[x]
                                     /\ stream'[x] = stream[x]
        BY <2>1, <3>1 DEF TypeOK
      <4> QED BY <4>2, <4>3, <4>4 DEF Registered
    <3>3. CASE Head(queue[r]).type # "approval"
      <4>1. UNCHANGED resolver /\ stream' = stream
        BY <1>5, <2>2, <3>3 DEF Consume, TypeOK
      <4> QED BY <2>1, <3>1, <4>1 DEF TypeOK, Registered, requestVars
    <3> QED BY <3>2, <3>3
  <2>3. CASE Head(queue[r]).type \notin {"delta", "approval"}
    <3>1. UNCHANGED <<got, resolver>> /\ stream' = [stream EXCEPT ![r] = "left"]
      BY <1>5, <2>3 DEF Consume
    <3> QED BY <2>1, <3>1 DEF TypeOK, Registered, requestVars
  <2> QED BY <2>2, <2>3
<1>6. ASSUME NEW r \in Runs, DialogEnds(r) PROVE Registered'
  <2>1. /\ UNCHANGED <<queue, pending, got>> /\ stream[r] = "dialog" /\ resolver[r] = "none" /\ got[r] # <<>>
        /\ ResolveReq(r) \notin pending
    BY <1>6 DEF DialogEnds, Registered, requestVars
  <2>2. stream' = [stream EXCEPT ![r] = "queue"] /\ resolver' = [resolver EXCEPT ![r] = "task"]
    BY <1>6 DEF DialogEnds
  <2> QED BY <2>1, <2>2 DEF TypeOK, Registered
<1>7. ASSUME NEW r \in Runs, QueueTimeout(r) \/ StopStream(r) \/ CloseLeft(r) PROVE Registered'
  <2>1. /\ queue' = [queue EXCEPT ![r] = None] /\ stream' = [stream EXCEPT ![r] = "over"]
        /\ UNCHANGED <<got, resolver>>
    BY <1>7 DEF QueueTimeout, StopStream, CloseLeft, Unsubscribe, End
  <2>2. pending' \subseteq pending /\ AgentReq(r) \notin pending'
    BY <1>7 DEF QueueTimeout, StopStream, CloseLeft, Registered, requestVars
  <2> QED BY <2>1, <2>2 DEF TypeOK, Registered
<1>8. ASSUME NEW r \in Runs, ResolveStarts(r) \/ ResolveEnds(r) PROVE Registered'
  <2>1. UNCHANGED <<queue, streamVars>> /\ resolver[r] # "none"
    BY <1>8 DEF ResolveStarts, ResolveEnds
  <2>2. CASE resolver' = [resolver EXCEPT ![r] = "wait"] /\ pending' \subseteq pending \cup {ResolveReq(r)}
    BY <2>1, <2>2, RequestIds DEF TypeOK, Registered, streamVars
  <2>3. CASE /\ resolver' = [resolver EXCEPT ![r] = "done"]
             /\ pending' \subseteq pending /\ ResolveReq(r) \notin pending'
    BY <2>1, <2>3 DEF TypeOK, Registered, streamVars
  <2> QED BY <1>8, <2>2, <2>3 DEF ResolveStarts, ResolveEnds, Registered, requestVars
<1>9. ASSUME NEW r \in Runs, GatewayStep(r) PROVE Registered'
  BY <1>9 DEF GatewayStep, Accept, Refuse, SendEvent, Finish, AnswerResolve, SendFrame,
     Registered, requestVars, streamVars
<1>10. ASSUME NEW q \in Requests, CancelWait(q) PROVE Registered'
  BY <1>10 DEF Registered, CancelWait, readerVars, streamVars, gatewayVars
<1>11. ASSUME RouteResponse PROVE Registered'
  <2> DEFINE f == Head(wire)
  <2>1. f.run \in Runs /\ UNCHANGED <<streamVars, resolver, pending>>
    BY <1>11, WireTypes DEF RouteResponse, ReadFrame, requestVars
  <2>2. Frame("final", f.run, 0) \in Entries
    BY <2>1, AgentRunAssumption DEF Frame, Entries, Numbered
  <2>3. CASE IsFinal(f)
    <3>1. queue' = [queue EXCEPT ![f.run] = Put(@, Frame("final", f.run, 0))]
      BY <1>11, <2>3 DEF RouteResponse
    <3>2. \A x \in Runs : queue'[x] = None <=> queue[x] = None
      BY <2>1, <2>2, <3>1, PutOne
    <3> QED BY <2>1, <3>2 DEF Registered, streamVars
  <2>4. CASE ~IsFinal(f)
    <3>1. UNCHANGED queue
      BY <1>11, <2>4 DEF RouteResponse
    <3> QED BY <2>1, <3>1 DEF Registered, streamVars
  <2> QED BY <2>3, <2>4
<1>12. ASSUME RouteEvent PROVE Registered'
  <2>1. Head(wire).run \in Runs /\ Head(wire) \in Entries /\ UNCHANGED <<streamVars, resolver, requestVars>>
    BY <1>12, WireTypes DEF RouteEvent, ReadFrame
  <2>2. \A x \in Runs : queue'[x] = None <=> queue[x] = None
    BY <1>12, <2>1, PutOne DEF RouteEvent
  <2> QED BY <2>1, <2>2 DEF Registered, streamVars, requestVars
<1>13. ASSUME ReaderLoses \/ Reconnect \/ GiveUp PROVE Registered'
  <2>1. UNCHANGED <<streamVars, resolver>> /\ pending' \in {pending, {}}
    BY <1>13 DEF ReaderLoses, Reconnect, GiveUp, LeaveGone, FailPending, requestVars
  <2>2. \A x \in Runs : queue'[x] = None <=> queue[x] = None
    <3>1. CASE FailRuns
      BY <3>1, FailRunsTypes
    <3>2. CASE UNCHANGED queue
      BY <3>2
    <3> QED BY <1>13, <3>1, <3>2 DEF ReaderLoses, Reconnect, GiveUp, LeaveGone, requestVars
  <2> QED BY <2>1, <2>2 DEF Registered, streamVars
<1>16. ASSUME OvertakenExits PROVE Registered'
  BY <1>16 DEF OvertakenExits, Registered, requestVars, streamVars
<1>14. ASSUME LinkLost PROVE Registered'
  BY <1>14 DEF LinkLost, Registered, requestVars, streamVars
<1>15. CASE UNCHANGED vars
  BY <1>15 DEF Registered, vars, readerVars, requestVars, streamVars, gatewayVars
<1> QED
  BY <1>2, <1>3, <1>4, <1>5, <1>6, <1>7, <1>8, <1>9, <1>10, <1>11, <1>12, <1>13, <1>14, <1>15, <1>16
  DEF Next, StreamStep, ReaderStep

\* A connection is lost before a handler waits, and a handler is overtaken once.
LEMMA HandlersKept ==
    ASSUME Safe, [Next]_vars
    PROVE  Handlers'
<1>1. /\ overtaken \in Nat /\ losses \in Nat /\ overtaken <= losses
      /\ link = "down" /\ reader # "gone" => overtaken < losses
      /\ reader = "lost" => link = "down"
      /\ link \in {"up", "down"} /\ reader \in {"up", "lost", "gone", "crashed"}
  BY AgentRunAssumption DEF Safe, TypeOK, Handlers
<1>2. CASE UNCHANGED <<overtaken, losses, link, reader>>
  BY <1>1, <1>2 DEF Handlers
<1>3. ASSUME NEW r \in Runs, StreamStep(r) PROVE Handlers'
  <2>1. \/ UNCHANGED <<overtaken, losses, link, reader>>
        \/ /\ reader \in {"lost", "gone"} /\ reader' = "up" /\ link' = "up" /\ losses' = losses
           /\ overtaken' = IF reader = "lost" THEN overtaken + 1 ELSE overtaken
    BY <1>3 DEF StreamStep, Ask, AskConnects, AckResumes, AckFails, Consume, DialogEnds, QueueTimeout,
       StopStream, CloseLeft, ResolveStarts, ResolveEnds, readerVars
  <2> QED BY <1>1, <1>2, <2>1 DEF Handlers
<1>4. ASSUME NEW r \in Runs, GatewayStep(r) PROVE Handlers'
  BY <1>2, <1>4 DEF GatewayStep, Accept, Refuse, SendEvent, Finish, AnswerResolve, SendFrame
<1>5. ASSUME \/ RouteResponse \/ RouteEvent \/ UNCHANGED vars
             \/ \E q \in Requests : CancelWait(q)
      PROVE  Handlers'
  <2>1. /\ UNCHANGED <<overtaken, losses, link>>
        /\ reader' = reader \/ (reader = "up" /\ reader' = "crashed")
    BY <1>5 DEF RouteResponse, RouteEvent, ReadFrame, CancelWait, vars, readerVars
  <2> QED BY <1>1, <2>1 DEF Handlers
<1>6. CASE ReaderLoses \/ Reconnect
  BY <1>1, <1>6 DEF ReaderLoses, Reconnect, Handlers
<1>7. CASE OvertakenExits
  BY <1>1, <1>7 DEF OvertakenExits, Handlers
<1>8. CASE GiveUp
  BY <1>1, <1>8 DEF GiveUp, LeaveGone, Handlers
<1>9. CASE LinkLost
  BY <1>1, <1>9 DEF LinkLost, Handlers
<1> QED BY <1>3, <1>4, <1>5, <1>6, <1>7, <1>8, <1>9 DEF Next, ReaderStep

-----------------------------------------------------------------------------
(* How a step moves what is on its way for a run *)

Same(r) == got'[r] = got[r] /\ Queued(r)' = Queued(r) /\ sent'[r] = sent[r]

\* One disjunct for each way: nothing moves; the queue is left behind; a frame
\* of another kind, or the run's next event, is sent; the stream takes an event
\* or another entry; the run is told its end; a frame is read that the run's
\* queue does not get, or gets, or that ends the run; the wire is cut.
Moves(r) ==
    \/ Same(r) /\ wire' = wire
    \/ /\ got'[r] = got[r] /\ sent'[r] = sent[r] /\ wire' = wire
       /\ Queued(r)' = <<>> /\ stream'[r] = "over"
    \/ /\ Same(r)
       /\ \E f \in Frames : ~IsEvent(f, r) /\ wire' = Append(wire, f)
    \/ /\ got'[r] = got[r] /\ Queued(r)' = Queued(r) /\ sent'[r] = sent[r] + 1
       /\ gateway[r] = "running"
       /\ \E f \in Frames : IsEvent(f, r) /\ f.n = sent[r] + 1 /\ wire' = Append(wire, f)
    \/ /\ Queued(r) # <<>> /\ Head(Queued(r)).type \in {"delta", "approval"}
       /\ Queued(r)' = Tail(Queued(r)) /\ got'[r] = Append(got[r], Head(Queued(r)).n)
       /\ sent'[r] = sent[r] /\ wire' = wire
    \/ /\ Queued(r) # <<>> /\ Head(Queued(r)).type \notin {"delta", "approval"}
       /\ Queued(r)' = Tail(Queued(r)) /\ stream'[r] = "left"
       /\ got'[r] = got[r] /\ sent'[r] = sent[r] /\ wire' = wire
    \/ /\ got'[r] = got[r] /\ sent'[r] = sent[r] /\ wire' = wire
       /\ Queued(r)' = Append(Queued(r), Frame("local", r, 0))
       /\ reader = "lost" \/ link = "down"
       /\ UNCHANGED gateway
    \/ /\ Same(r) /\ wire # <<>> /\ wire' = Tail(wire)
       /\ IsEvent(Head(wire), r) => queue[r] = None \/ ~(Len(queue[r]) < QueueSize)
    \/ /\ got'[r] = got[r] /\ sent'[r] = sent[r] /\ wire # <<>> /\ wire' = Tail(wire)
       /\ IsEvent(Head(wire), r) /\ Head(wire) \in Entries
       /\ Queued(r)' = Append(Queued(r), Head(wire))
    \/ /\ got'[r] = got[r] /\ sent'[r] = sent[r] /\ wire # <<>> /\ wire' = Tail(wire)
       /\ Head(wire).type \notin {"delta", "approval"} /\ Head(wire).run = r /\ IsFinal(Head(wire))
       /\ Queued(r)' = Append(Queued(r), Frame("final", r, 0))
       /\ UNCHANGED <<gatewayVars, resolver>>
    \/ /\ Same(r) /\ \E k \in 0..Len(wire) : wire' = SubSeq(wire, 1, k)
       /\ gateway'[r] \in {"none", "cut"}

\* What is put on a run's queue, seen by the run.
LEMMA PutMoves ==
    ASSUME TypeOK, TypeOK', NEW r \in Runs, NEW e \in Entries, queue'[r] = Put(queue[r], e)
    PROVE  \/ /\ Queued(r)' = Queued(r)
              /\ queue[r] = None \/ ~(Len(queue[r]) < QueueSize)
           \/ Queued(r)' = Append(Queued(r), e)
<1>1. /\ queue[r] \in Seq(Entries) \cup {None}
      /\ queue[r] # None => queue[r] = Queued(r) /\ Len(queue[r]) <= QueueSize
  BY QueueTypes
<1>2. /\ Put(queue[r], e) = None <=> queue[r] = None
      /\ \/ Put(queue[r], e) = queue[r] /\ (queue[r] # None => ~(Len(queue[r]) < QueueSize))
         \/ queue[r] \in Seq(Entries) /\ Put(queue[r], e) = Append(queue[r], e)
  BY <1>1, PutEntry
<1>3. queue[r] \in Seq(Entries) => queue[r] # None
  BY NoneAssumption
<1> QED BY <1>1, <1>2, <1>3 DEF Queued

\* Every step moves it in one of these ways.
LEMMA StepMoves ==
    ASSUME Safe, TypeOK', [Next]_vars, NEW r \in Runs
    PROVE  Moves(r)
<1> USE DEF Safe
<1>1. ASSUME NEW x \in Runs,
             \/ Ask(x) \/ AskConnects(x) \/ AckFails(x) \/ DialogEnds(x)
             \/ ResolveStarts(x) \/ ResolveEnds(x)
      PROVE  Moves(r)
  <2>1. UNCHANGED <<wire, queue, got, sent>>
    BY <1>1 DEF Ask, AskConnects, AckFails, DialogEnds, ResolveStarts, ResolveEnds, readerVars, streamVars, gatewayVars
  <2> QED BY <2>1 DEF Moves, Same, Queued
<1>2. ASSUME NEW x \in Runs, AckResumes(x) PROVE Moves(r)
  <2>1. UNCHANGED <<wire, got, sent>> /\ queue' = [queue EXCEPT ![x] = <<>>]
    BY <1>2 DEF AckResumes, readerVars, gatewayVars
  <2>2. queue[x] = None
    BY <1>2 DEF AckResumes, Registered
  <2>3. Queued(r)' = Queued(r)
    BY <2>1, <2>2 DEF Queued, TypeOK
  <2> QED BY <2>1, <2>3 DEF Moves, Same
<1>3. ASSUME NEW x \in Runs, Consume(x) PROVE Moves(r)
  <2>1. /\ UNCHANGED <<wire, sent>> /\ queue' = [queue EXCEPT ![x] = Tail(queue[x])]
        /\ queue[x] # None /\ queue[x] # <<>> /\ Tail(queue[x]) # None
    BY <1>3, TakenTypes DEF Consume, readerVars, gatewayVars
  <2>2. CASE x # r
    <3>1. queue'[r] = queue[r]
      BY <2>1, <2>2 DEF TypeOK
    <3>2. got'[r] = got[r]
      BY <1>3, <2>2 DEF TypeOK, Consume
    <3> QED BY <2>1, <3>1, <3>2 DEF Moves, Same, Queued
  <2>3. CASE x = r
    <3>1. Queued(r) = queue[r] /\ Queued(r)' = Tail(queue[r])
      BY <2>1, <2>3 DEF Queued, TypeOK
    <3>2. CASE Head(queue[r]).type \in {"delta", "approval"}
      <4>1. got'[r] = Append(got[r], Head(queue[r]).n)
        BY <1>3, <2>3, <3>2 DEF Consume, TypeOK
      <4> QED BY <2>1, <2>3, <3>1, <3>2, <4>1 DEF Moves
    <3>3. CASE Head(queue[r]).type \notin {"delta", "approval"}
      <4>1. got' = got /\ stream'[r] = "left"
        BY <1>3, <2>3, <3>3 DEF Consume, TypeOK
      <4> QED BY <2>1, <2>3, <3>1, <3>3, <4>1 DEF Moves
    <3> QED BY <3>2, <3>3
  <2> QED BY <2>2, <2>3
<1>4. ASSUME NEW x \in Runs, QueueTimeout(x) \/ StopStream(x) \/ CloseLeft(x) PROVE Moves(r)
  <2>1. /\ UNCHANGED <<wire, got, sent>> /\ queue' = [queue EXCEPT ![x] = None]
        /\ stream' = [stream EXCEPT ![x] = "over"]
    BY <1>4 DEF QueueTimeout, StopStream, CloseLeft, Unsubscribe, End, readerVars, gatewayVars
  <2>2. CASE x = r
    <3>1. Queued(r)' = <<>> /\ stream'[r] = "over"
      BY <2>1, <2>2 DEF Queued, TypeOK
    <3> QED BY <2>1, <3>1 DEF Moves
  <2>3. CASE x # r
    <3>1. queue'[r] = queue[r]
      BY <2>1, <2>3 DEF TypeOK
    <3> QED BY <2>1, <3>1 DEF Moves, Same, Queued
  <2> QED BY <2>2, <2>3
<1>5. ASSUME NEW x \in Runs, GatewayStep(x) PROVE Moves(r)
  <2>1. PICK f \in Frames :
          /\ SendFrame(f) /\ f.run = x
          /\ \/ /\ f.type \in {"delta", "approval"} /\ f.n = sent[x] + 1
                /\ gateway[x] = "running"
                /\ sent' = [sent EXCEPT ![x] = sent[x] + 1]
             \/ f.type \notin {"delta", "approval"} /\ UNCHANGED sent
    BY <1>5, GatewaySends
  <2>2. wire' = Append(wire, f) /\ UNCHANGED <<got, queue>>
    BY <2>1 DEF SendFrame, streamVars
  <2>3. got'[r] = got[r] /\ Queued(r)' = Queued(r)
    BY <2>2 DEF Queued
  <2>4. CASE IsEvent(f, r)
    <3>1. sent'[r] = sent[r] + 1 /\ f.n = sent[r] + 1 /\ gateway[r] = "running"
      BY <2>1, <2>4 DEF IsEvent, TypeOK
    <3> QED BY <2>2, <2>3, <2>4, <3>1 DEF Moves
  <2>5. CASE ~IsEvent(f, r)
    <3>1. sent'[r] = sent[r]
      BY <2>1, <2>5 DEF IsEvent, TypeOK
    <3> QED BY <2>2, <2>3, <2>5, <3>1 DEF Moves, Same
  <2> QED BY <2>4, <2>5
<1>6. ASSUME NEW q \in Requests, CancelWait(q) PROVE Moves(r)
  <2>1. UNCHANGED <<wire, queue, got, sent>>
    BY <1>6 DEF CancelWait, readerVars, streamVars, gatewayVars
  <2> QED BY <2>1 DEF Moves, Same, Queued
<1>7. ASSUME RouteResponse PROVE Moves(r)
  <2> DEFINE f == Head(wire)
  <2>1. /\ wire # <<>> /\ wire' = Tail(wire) /\ UNCHANGED <<got, sent>>
        /\ f.type \notin {"delta", "approval"} /\ f.run \in Runs
    BY <1>7, WireTypes DEF RouteResponse, ReadFrame, streamVars, gatewayVars
  <2>2. ~IsEvent(f, r)
    BY <2>1 DEF IsEvent
  <2>3. CASE Queued(r)' = Queued(r)
    <3>1. Same(r)
      BY <2>1, <2>3 DEF Same
    <3> QED BY <2>1, <2>2, <3>1 DEF Moves
  <2>4. CASE IsFinal(f)
    <3>1. Frame("final", f.run, 0) \in Entries
      BY <2>1, AgentRunAssumption DEF Frame, Entries, Numbered
    <3>2. queue' = [queue EXCEPT ![f.run] = Put(@, Frame("final", f.run, 0))]
      BY <1>7, <2>4 DEF RouteResponse
    <3>3. /\ \A x \in Runs : x # f.run => queue'[x] = queue[x]
          /\ queue'[f.run] = Put(queue[f.run], Frame("final", f.run, 0))
      BY <2>1, <3>1, <3>2, PutOne
    <3>4. CASE f.run # r
      <4>1. Queued(r)' = Queued(r)
        BY <3>3, <3>4 DEF Queued
      <4> QED BY <2>3, <4>1
    <3>5. CASE f.run = r
      <4>1. \/ Queued(r)' = Queued(r)
            \/ Queued(r)' = Append(Queued(r), Frame("final", r, 0))
        BY <3>1, <3>3, <3>5, PutMoves
      <4>2. UNCHANGED <<gatewayVars, resolver>>
        BY <1>7 DEF RouteResponse, ReadFrame
      <4>3. CASE Queued(r)' = Append(Queued(r), Frame("final", r, 0))
        <5>1. got'[r] = got[r] /\ sent'[r] = sent[r]
          BY <2>1
        <5> QED BY <2>1, <2>4, <3>5, <4>2, <4>3, <5>1 DEF Moves
      <4> QED BY <2>3, <4>1, <4>3
    <3> QED BY <3>4, <3>5
  <2>5. CASE ~IsFinal(f)
    <3>1. UNCHANGED queue
      BY <1>7, <2>5 DEF RouteResponse
    <3> QED BY <2>3, <3>1 DEF Queued
  <2> QED BY <2>4, <2>5
<1>8. ASSUME RouteEvent PROVE Moves(r)
  <2> DEFINE f == Head(wire)
  <2>1. /\ wire # <<>> /\ wire' = Tail(wire) /\ UNCHANGED <<got, sent>>
        /\ f.type \in {"delta", "approval"} /\ f.run \in Runs /\ f \in Entries
        /\ queue' = [queue EXCEPT ![f.run] = Put(@, f)]
    BY <1>8, WireTypes DEF RouteEvent, ReadFrame, streamVars, gatewayVars
  <2>2. /\ \A x \in Runs : x # f.run => queue'[x] = queue[x]
        /\ queue'[f.run] = Put(queue[f.run], f)
    BY <2>1, PutOne
  <2>3. got'[r] = got[r] /\ sent'[r] = sent[r]
    BY <2>1
  <2>4. CASE f.run # r
    <3>1. Same(r) /\ ~IsEvent(f, r)
      BY <2>2, <2>3, <2>4 DEF Same, Queued, IsEvent
    <3> QED BY <2>1, <3>1 DEF Moves
  <2>5. CASE f.run = r
    <3>1. \/ Queued(r)' = Queued(r) /\ (queue[r] = None \/ ~(Len(queue[r]) < QueueSize))
          \/ Queued(r)' = Append(Queued(r), f)
      BY <2>1, <2>2, <2>5, PutMoves
    <3>2. IsEvent(f, r)
      BY <2>1, <2>5 DEF IsEvent
    <3>3. CASE Queued(r)' = Queued(r) /\ (queue[r] = None \/ ~(Len(queue[r]) < QueueSize))
      BY <2>1, <2>3, <3>3 DEF Moves, Same
    <3>4. CASE Queued(r)' = Append(Queued(r), f)
      BY <2>1, <2>3, <3>2, <3>4 DEF Moves
    <3> QED BY <3>1, <3>3, <3>4
  <2> QED BY <2>4, <2>5
<1>9. ASSUME ReaderLoses \/ Reconnect \/ GiveUp PROVE Moves(r)
  <2>1. UNCHANGED <<wire, got, sent>>
    BY <1>9 DEF ReaderLoses, Reconnect, GiveUp, LeaveGone, streamVars, gatewayVars
  <2>2. CASE FailRuns
    <3>1. Frame("local", r, 0) \in Entries
      BY AgentRunAssumption DEF Frame, Entries, Numbered
    <3>2. \/ Queued(r)' = Queued(r)
          \/ Queued(r)' = Append(Queued(r), Frame("local", r, 0))
      BY <2>2, <3>1, FailRunsTypes, PutMoves
    <3>3. UNCHANGED gateway /\ (reader = "lost" \/ link = "down")
      BY <1>9 DEF ReaderLoses, Reconnect, GiveUp, LeaveGone, gatewayVars
    <3>4. CASE Queued(r)' = Queued(r)
      BY <2>1, <3>4 DEF Moves, Same
    <3>5. CASE Queued(r)' = Append(Queued(r), Frame("local", r, 0))
      BY <2>1, <3>3, <3>5 DEF Moves
    <3> QED BY <3>2, <3>4, <3>5
  <2>3. CASE UNCHANGED queue
    BY <2>1, <2>3 DEF Moves, Same, Queued
  <2> QED BY <1>9, <2>2, <2>3 DEF ReaderLoses, Reconnect, GiveUp, LeaveGone, requestVars
<1>12. ASSUME OvertakenExits PROVE Moves(r)
  <2>1. UNCHANGED <<wire, queue, got, sent>>
    BY <1>12 DEF OvertakenExits, streamVars, gatewayVars
  <2> QED BY <2>1 DEF Moves, Same, Queued
<1>10. ASSUME LinkLost PROVE Moves(r)
  <2>1. /\ \E k \in 0..Len(wire) : wire' = SubSeq(wire, 1, k)
        /\ UNCHANGED <<got, queue, sent>>
        /\ gateway'[r] \in {"none", "cut"}
    BY <1>10 DEF LinkLost, streamVars, TypeOK
  <2> QED BY <2>1 DEF Moves, Same, Queued
<1>11. CASE UNCHANGED vars
  BY <1>11 DEF Moves, Same, Queued, vars, readerVars, streamVars, gatewayVars
<1> QED
  BY <1>1, <1>2, <1>3, <1>4, <1>5, <1>6, <1>7, <1>8, <1>9, <1>10, <1>11, <1>12
  DEF Next, StreamStep, ReaderStep

\* Whichever way it moves, it stays in order.
LEMMA FlowingKept ==
    ASSUME Safe, [Next]_vars
    PROVE  Flowing'
<1> SUFFICES ASSUME NEW r \in Runs PROVE Flow(r)'
  BY DEF Flowing
<1>1. TypeOK'
  BY TypesKept
<1>2. Moves(r)
  BY <1>1, StepMoves
<1>3. /\ Flows(got[r], Queued(r), wire, sent[r], r)
      /\ wire \in Seq(Frames) /\ sent[r] \in Nat /\ got[r] \in Seq(Nat) /\ Queued(r) \in Seq(Entries)
  <2>1. got[r] \in Seq(1..MaxEvents) /\ sent[r] \in 0..MaxEvents /\ MaxEvents \in Nat /\ wire \in Seq(Frames)
    BY AgentRunAssumption DEF Safe, TypeOK
  <2>2. 1..MaxEvents \subseteq Nat /\ 0..MaxEvents \subseteq Nat
    BY <2>1
  <2> QED BY <2>1, <2>2, SeqMonotonic, QueueTypes DEF Safe, Flowing, Flow
<1> SUFFICES Flows(got'[r], Queued(r)', wire', sent'[r], r)
  BY DEF Flow
<1>4. CASE Same(r) /\ wire' = wire
  BY <1>3, <1>4 DEF Same
<1>5. CASE got'[r] = got[r] /\ sent'[r] = sent[r] /\ wire' = wire /\ Queued(r)' = <<>>
  BY <1>3, <1>5, FlowDropsQueue
<1>6. CASE Same(r) /\ \E f \in Frames : ~IsEvent(f, r) /\ wire' = Append(wire, f)
  BY <1>3, <1>6, FlowOthers DEF Same
<1>7. CASE /\ got'[r] = got[r] /\ Queued(r)' = Queued(r) /\ sent'[r] = sent[r] + 1
           /\ \E f \in Frames : IsEvent(f, r) /\ f.n = sent[r] + 1 /\ wire' = Append(wire, f)
  <2>1. PICK f \in Frames : IsEvent(f, r) /\ f.n = sent[r] + 1 /\ wire' = Append(wire, f)
    BY <1>7
  <2>2. Flows(got[r], Queued(r), Append(wire, f), sent[r] + 1, r)
    BY <1>3, <2>1, FlowSends
  <2> QED BY <1>7, <2>1, <2>2
<1>8. CASE /\ Queued(r) # <<>> /\ Head(Queued(r)).type \in {"delta", "approval"}
           /\ Queued(r)' = Tail(Queued(r)) /\ got'[r] = Append(got[r], Head(Queued(r)).n)
           /\ sent'[r] = sent[r] /\ wire' = wire
  BY <1>3, <1>8, FlowTakes
<1>9. CASE /\ Queued(r) # <<>> /\ Head(Queued(r)).type \notin {"delta", "approval"}
           /\ Queued(r)' = Tail(Queued(r))
           /\ got'[r] = got[r] /\ sent'[r] = sent[r] /\ wire' = wire
  BY <1>3, <1>9, FlowEnds
<1>10. CASE /\ got'[r] = got[r] /\ sent'[r] = sent[r] /\ wire' = wire
            /\ Queued(r)' = Append(Queued(r), Frame("local", r, 0))
  <2>1. Frame("local", r, 0) \in Entries
    BY AgentRunAssumption DEF Frame, Entries, Numbered
  <2>2. Frame("local", r, 0).type = "local" /\ Frame("local", r, 0).run = r
    BY DEF Frame
  <2>3. Flows(got[r], Append(Queued(r), Frame("local", r, 0)), wire, sent[r], r)
    BY <1>3, <2>1, <2>2, FlowTells
  <2> QED BY <1>10, <2>3
<1>11. CASE Same(r) /\ wire # <<>> /\ wire' = Tail(wire)
  BY <1>3, <1>11, FlowReads DEF Same
<1>12. CASE /\ got'[r] = got[r] /\ sent'[r] = sent[r] /\ wire # <<>> /\ wire' = Tail(wire)
            /\ IsEvent(Head(wire), r) /\ Head(wire) \in Entries
            /\ Queued(r)' = Append(Queued(r), Head(wire))
  BY <1>3, <1>12, FlowRoutes
<1>13. CASE /\ got'[r] = got[r] /\ sent'[r] = sent[r] /\ wire # <<>> /\ wire' = Tail(wire)
            /\ Queued(r)' = Append(Queued(r), Frame("final", r, 0))
  <2>1. Frame("final", r, 0) \in Entries
    BY AgentRunAssumption DEF Frame, Entries, Numbered
  <2>2. Frame("final", r, 0).type = "final" /\ Frame("final", r, 0).run = r
    BY DEF Frame
  <2>3. Tail(wire) \in Seq(Frames) /\ Flows(got[r], Queued(r), Tail(wire), sent[r], r)
    BY <1>3, <1>13, FlowReads, HeadTailProperties
  <2>4. Flows(got[r], Append(Queued(r), Frame("final", r, 0)), Tail(wire), sent[r], r)
    BY <1>3, <2>1, <2>2, <2>3, FlowTells
  <2> QED BY <1>13, <2>4
<1>14. CASE Same(r) /\ \E k \in 0..Len(wire) : wire' = SubSeq(wire, 1, k)
  BY <1>3, <1>14, FlowCut DEF Same
<1> QED BY <1>2, <1>4, <1>5, <1>6, <1>7, <1>8, <1>9, <1>10, <1>11, <1>12, <1>13, <1>14 DEF Moves

-----------------------------------------------------------------------------
(* Theorems *)

\* Types, registrations and order hold together in every state.
THEOREM SafeAlways == Spec => []Safe
<1>1. Init => Safe
  <2> SUFFICES ASSUME Init PROVE Safe
    OBVIOUS
  <2>1. /\ <<>> \in Seq(Frames) /\ <<>> \in Seq(1..MaxEvents) /\ <<>> \in Seq(Entries)
        /\ Len(<<>>) = 0 /\ {MaxEvents, MaxWire, MaxLosses} \subseteq Nat
    BY EmptySeq, AgentRunAssumption
  <2>2. TypeOK
    BY <2>1 DEF Init, TypeOK
  <2>3. Registered
    BY RequestIds DEF Init, Registered
  <2>5. Handlers
    BY <2>1 DEF Init, Handlers
  <2>4. ASSUME NEW r \in Runs PROVE Flow(r)
    <3>1. got[r] = <<>> /\ Queued(r) = <<>> /\ wire = <<>> /\ sent[r] = 0
      BY DEF Init, Queued
    <3>2. Flows(<<>>, <<>>, <<>>, 0, r)
      BY <2>1, NumbersEmpty DEF Flows, All
    <3> QED BY <3>1, <3>2 DEF Flow
  <2> QED BY <2>2, <2>3, <2>4, <2>5 DEF Safe, Flowing
<1>2. Safe /\ [Next]_vars => Safe'
  BY TypesKept, RegisteredKept, HandlersKept, FlowingKept DEF Safe
<1> QED BY <1>1, <1>2, PTL DEF Spec

\* TypeOK is an invariant: what the reader, the streams and the Gateway leave
\* in the client's tables always fits.
THEOREM TypeCorrect == Spec => []TypeOK
<1>1. Safe => TypeOK
  BY DEF Safe
<1> QED BY <1>1, SafeAlways, PTL

\* NoLeftovers is an invariant: an ended run has no queue and no request id,
\* an ended approval answer no request id.
THEOREM LeavesNothing == Spec => []NoLeftovers
<1>1. Safe => NoLeftovers
  BY DEF Safe, Registered, NoLeftovers
<1> QED BY <1>1, SafeAlways, PTL

\* InOrder is an invariant: concurrent runs get their own events only, in the
\* order the Gateway sent them.
THEOREM OwnEventsInOrder == Spec => []InOrder
<1>1. Safe => InOrder
  <2> SUFFICES ASSUME Safe, NEW r \in Runs PROVE Ordered(r)
    BY DEF InOrder
  <2>1. Flows(got[r], Queued(r), wire, sent[r], r)
    BY DEF Safe, Flowing, Flow
  <2> QED BY <2>1 DEF Ordered, Flows, Taken
<1> QED BY <1>1, SafeAlways, PTL

-----------------------------------------------------------------------------
(* agent_stream() keeps what AgentStream promises *)

\* The last event taken is before all that are queued.
LEMMA LastTaken ==
    ASSUME NEW g \in Seq(Nat), NEW k \in Nat \ {0}, \A i \in 1..Len(g) : g[i] < k
    PROVE  Promise!Last(g) + 1 \in 1..k
<1>1. CASE g = <<>>
  BY <1>1 DEF Promise!Last
<1>2. CASE g # <<>>
  <2>1. Len(g) \in 1..Len(g) /\ g[Len(g)] \in Nat
    BY <1>2, EmptySeq, LenProperties, ElementOfSeq
  <2> QED BY <1>2, <2>1 DEF Promise!Last
<1> QED BY <1>1, <1>2

\* The initial states promise what the promise starts with.
LEMMA PromiseInit == Init => Promise!Init
BY DEF Init, Promise!Init

\* Every step is one the promise allows, or changes nothing it speaks of.
LEMMA PromiseStep ==
    ASSUME Safe, TypeOK', [Next]_vars
    PROVE  [Promise!Next]_<<sent, got, {r \in Runs : stream[r] = "over"}>>
<1> DEFINE over == {r \in Runs : stream[r] = "over"}
<1> USE DEF Safe
<1> SUFFICES \/ UNCHANGED <<sent, got, over>>
             \/ \E r \in Runs : Promise!Send(r) \/ Promise!Yield(r) \/ Promise!Finish(r)
  BY DEF Promise!Next
<1>1. ASSUME NEW r \in Runs, stream[r] # "over", stream' = [stream EXCEPT ![r] = "over"], UNCHANGED <<sent, got>>
      PROVE  Promise!Finish(r)
  <2>1. over' = over \cup {r} /\ r \notin over
    BY <1>1 DEF TypeOK
  <2> QED BY <1>1, <2>1 DEF Promise!Finish
<1>2. ASSUME NEW r \in Runs, stream[r] # "over",
             \E s \in {"idle", "ack", "queue", "dialog", "left"} : stream' = [stream EXCEPT ![r] = s]
      PROVE  over' = over
  BY <1>2 DEF TypeOK
<1>3. ASSUME NEW r \in Runs, StreamStep(r), ~Consume(r)
      PROVE  UNCHANGED <<sent, got, over>> \/ Promise!Finish(r)
  <2>1. UNCHANGED <<sent, got>>
    BY <1>3 DEF StreamStep, Ask, AskConnects, SendRequest, AckResumes, AckFails, DialogEnds, QueueTimeout, StopStream, CloseLeft,
       ResolveStarts, ResolveEnds, streamVars, gatewayVars
  <2>2. \/ UNCHANGED stream
        \/ /\ stream[r] # "over"
           /\ \E s \in {"idle", "ack", "queue", "dialog", "left", "over"} : stream' = [stream EXCEPT ![r] = s]
    BY <1>3 DEF StreamStep, Ask, AskConnects, SendRequest, AckResumes, AckFails, DialogEnds, QueueTimeout, StopStream, CloseLeft,
       ResolveStarts, ResolveEnds, streamVars, End
  <2> QED BY <1>1, <1>2, <2>1, <2>2
<1>4. ASSUME NEW r \in Runs, Consume(r)
      PROVE  UNCHANGED <<sent, got, over>> \/ Promise!Yield(r)
  <2>1. UNCHANGED sent /\ stream[r] = "queue"
        /\ \E s \in {"queue", "dialog", "left"} : stream' = [stream EXCEPT ![r] = s]
    BY <1>4 DEF Consume, gatewayVars, TypeOK
  <2>2. over' = over
    BY <1>2, <2>1
  <2>3. CASE Head(queue[r]).type \notin {"delta", "approval"}
    <3>1. UNCHANGED got
      BY <1>4, <2>3 DEF Consume
    <3> QED BY <2>1, <2>2, <3>1
  <2>4. CASE Head(queue[r]).type \in {"delta", "approval"}
    <3> DEFINE k == Head(queue[r]).n
    <3>1. got' = [got EXCEPT ![r] = Append(got[r], k)]
      BY <1>4, <2>4 DEF Consume
    <3>2. /\ queue[r] \in Seq(Entries) /\ queue[r] # <<>> /\ queue[r] = Queued(r)
          /\ got[r] \in Seq(Nat) /\ sent[r] \in Nat
      <4>1. got[r] \in Seq(1..MaxEvents) /\ sent[r] \in 0..MaxEvents /\ MaxEvents \in Nat
        BY AgentRunAssumption DEF TypeOK
      <4>2. 1..MaxEvents \subseteq Nat /\ 0..MaxEvents \subseteq Nat
        BY <4>1
      <4> QED BY <1>4, <4>1, <4>2, SeqMonotonic, QueueTypes, TakenTypes
    <3>3. Flows(got[r], queue[r], wire, sent[r], r)
      BY <3>2 DEF Flowing, Flow
    <3>4. k \in 1..sent[r] /\ \A i \in 1..Len(got[r]) : got[r][i] < k
      BY <2>4, <3>2, <3>3, FlowTakes
    <3>5. Promise!Last(got[r]) + 1 \in 1..k /\ k \in Nat \ {0}
      <4>1. k \in Nat \ {0}
        BY <3>4
      <4> QED BY <3>2, <3>4, <4>1, LastTaken
    <3>6. k \in Promise!Last(got[r]) + 1 .. sent[r]
      BY <3>2, <3>4, <3>5
    <3>7. r \notin over
      BY <2>1
    <3> QED BY <2>1, <2>2, <3>1, <3>6, <3>7 DEF Promise!Yield
  <2> QED BY <2>3, <2>4
<1>5. ASSUME NEW r \in Runs, GatewayStep(r)
      PROVE  UNCHANGED <<sent, got, over>> \/ Promise!Send(r)
  <2>1. PICK f \in Frames :
          /\ SendFrame(f)
          /\ \/ sent[r] + 1 \in 1..MaxEvents /\ sent' = [sent EXCEPT ![r] = sent[r] + 1]
             \/ UNCHANGED sent
    BY <1>5, GatewaySends
  <2>2. UNCHANGED <<got, stream>>
    BY <2>1 DEF SendFrame, streamVars
  <2>3. sent[r] + 1 \in 1..MaxEvents => sent[r] < MaxEvents
    BY AgentRunAssumption DEF TypeOK
  <2> QED BY <2>1, <2>2, <2>3 DEF Promise!Send
<1>6. ASSUME \/ \E q \in Requests : CancelWait(q)
             \/ ReaderStep \/ LinkLost \/ UNCHANGED vars
      PROVE  UNCHANGED <<sent, got, over>>
  <2>1. UNCHANGED <<sent, got, stream>>
    BY <1>6 DEF CancelWait, ReaderStep, RouteResponse, RouteEvent, ReadFrame, ReaderLoses, Reconnect, OvertakenExits, GiveUp, LeaveGone,
       LinkLost, vars, streamVars, gatewayVars
  <2> QED BY <2>1
<1> HIDE DEF over
<1> QED BY <1>3, <1>4, <1>5, <1>6 DEF Next

\* KeepsPromise holds: agent_stream() yields events the Gateway sent for the
\* run, in that order and none twice, and none after its end.
THEOREM StreamKeepsPromise == Spec => KeepsPromise
<1>1. Safe /\ Safe' /\ [Next]_vars => [Promise!Next]_<<sent, got, {r \in Runs : stream[r] = "over"}>>
  BY PromiseStep DEF Safe
<1>2. Promise!vars = <<sent, got, {r \in Runs : stream[r] = "over"}>>
  BY DEF Promise!vars
<1> QED BY <1>1, <1>2, PromiseInit, SafeAlways, PTL DEF Spec, KeepsPromise, Promise!Spec, Promise!vars

-----------------------------------------------------------------------------
(* What the wire carries *)

\* The frames of a wire, and which may come behind which: a run is accepted
\* once, nothing is said of it after its result, and its approval answer is
\* confirmed once.
Members(w) == {w[i] : i \in 1..Len(w)}

MayFollow(f, h) ==
    h.run = f.run => /\ f.type \in {"accepted", "final"} => h.type # "accepted"
                     /\ f.type = "final" => h.type \notin {"delta", "approval"}
                     /\ f.type = "resolved" => h.type # "resolved"

Sequenced(w) == \A i, j \in 1..Len(w) : i < j => MayFollow(w[i], w[j])

\* A frame that may follow all others is sent.
LEMMA MembersAppend ==
    ASSUME NEW S, NEW w \in Seq(S), NEW f \in S
    PROVE  /\ Members(Append(w, f)) = Members(w) \cup {f}
           /\ Sequenced(w) /\ (\A h \in Members(w) : MayFollow(h, f)) => Sequenced(Append(w, f))
<1> DEFINE v == Append(w, f)
<1>1. Len(w) \in Nat /\ Len(v) = Len(w) + 1 /\ v[Len(w) + 1] = f /\ \A i \in 1..Len(w) : v[i] = w[i]
  BY AppendProperties, LenProperties
<1> HIDE DEF v
<1>2. /\ \A i \in 1..Len(v) : i \in 1..Len(w) \/ i = Len(w) + 1
      /\ 1..Len(w) \subseteq 1..Len(v) /\ Len(w) + 1 \in 1..Len(v)
  BY <1>1
<1>3. Members(v) = Members(w) \cup {f}
  BY <1>1, <1>2 DEF Members
<1>4. ASSUME Sequenced(w), \A h \in Members(w) : MayFollow(h, f) PROVE Sequenced(v)
  <2>1. ASSUME NEW i \in 1..Len(v), NEW j \in 1..Len(v), i < j PROVE MayFollow(v[i], v[j])
    <3>1. i \in 1..Len(w) /\ v[i] = w[i] /\ w[i] \in Members(w)
      BY <1>1, <2>1 DEF Members
    <3>2. CASE j \in 1..Len(w)
      BY <1>1, <1>4, <2>1, <3>1, <3>2 DEF Sequenced
    <3>3. CASE j = Len(w) + 1
      BY <1>1, <1>4, <3>1, <3>3
    <3> QED BY <1>2, <3>2, <3>3
  <2> QED BY <2>1 DEF Sequenced
<1> QED BY <1>3, <1>4 DEF v

\* The first frame is read.
LEMMA MembersTail ==
    ASSUME NEW S, NEW w \in Seq(S), w # <<>>
    PROVE  /\ Members(w) = Members(Tail(w)) \cup {Head(w)}
           /\ Sequenced(w) => /\ Sequenced(Tail(w))
                              /\ \A h \in Members(Tail(w)) : MayFollow(Head(w), h)
<1> DEFINE t == Tail(w)
<1>1. /\ Len(w) \in Nat \ {0} /\ Len(t) = Len(w) - 1 /\ Head(w) = w[1]
      /\ \A i \in 1..Len(t) : t[i] = w[i + 1]
  BY HeadTailProperties, EmptySeq
<1> HIDE DEF t
<1>2. /\ 1 \in 1..Len(w)
      /\ \A i \in 1..Len(t) : i + 1 \in 1..Len(w) /\ 1 < i + 1
      /\ \A i \in 1..Len(w) : i = 1 \/ (i - 1 \in 1..Len(t) /\ i - 1 + 1 = i)
  BY <1>1
<1>3. Members(w) = Members(t) \cup {Head(w)}
  <2>1. \A i \in 1..Len(t) : t[i] \in Members(w)
    BY <1>1, <1>2 DEF Members
  <2>2. Head(w) \in Members(w)
    BY <1>1, <1>2 DEF Members
  <2>3. ASSUME NEW i \in 1..Len(w), i # 1 PROVE w[i] \in Members(t)
    <3>1. i - 1 \in 1..Len(t) /\ t[i - 1] = w[i]
      BY <1>1, <1>2, <2>3
    <3> QED BY <3>1 DEF Members
  <2> QED BY <1>1, <2>1, <2>2, <2>3 DEF Members
<1>4. ASSUME Sequenced(w) PROVE Sequenced(t) /\ \A h \in Members(t) : MayFollow(Head(w), h)
  <2>1. ASSUME NEW i \in 1..Len(t), NEW j \in 1..Len(t), i < j PROVE MayFollow(t[i], t[j])
    <3>1. i + 1 \in 1..Len(w) /\ j + 1 \in 1..Len(w) /\ i + 1 < j + 1 /\ t[i] = w[i + 1] /\ t[j] = w[j + 1]
      BY <1>1, <1>2, <2>1
    <3> QED BY <1>4, <3>1 DEF Sequenced
  <2>2. ASSUME NEW i \in 1..Len(t) PROVE MayFollow(Head(w), t[i])
    <3>1. 1 \in 1..Len(w) /\ i + 1 \in 1..Len(w) /\ 1 < i + 1 /\ t[i] = w[i + 1] /\ Head(w) = w[1]
      BY <1>1, <1>2
    <3> QED BY <1>4, <3>1 DEF Sequenced
  <2> QED BY <2>1, <2>2 DEF Sequenced, Members
<1> QED BY <1>3, <1>4 DEF t

\* The wire is cut.
LEMMA MembersCut ==
    ASSUME NEW w \in Seq(Frames), NEW k \in 0..Len(w)
    PROVE  /\ Members(SubSeq(w, 1, k)) \subseteq Members(w)
           /\ Sequenced(w) => Sequenced(SubSeq(w, 1, k))
<1> DEFINE v == SubSeq(w, 1, k)
<1>1. Len(v) = k /\ \A i \in 1..k : i \in 1..Len(w) /\ v[i] = w[i]
  BY NumbersSub
<1> HIDE DEF v
<1> QED BY <1>1 DEF Members, Sequenced, v

\* The events of a run are among the frames.
LEMMA NumbersMembers ==
    ASSUME NEW w, NEW r
    PROVE  /\ \A n \in Numbers(w, r) : \E f \in Members(w) : IsEvent(f, r) /\ f.n = n
           /\ \A f \in Members(w) : IsEvent(f, r) => f.n \in Numbers(w, r)
BY DEF Numbers, Members

\* Nothing comes before its time: a run has taken nothing before it has its
\* queue, and the queue only after the Gateway accepted it.
Early(r) ==
    /\ stream[r] \in {"idle", "ack"} => got[r] = <<>>
    /\ stream[r] = "idle" => gateway[r] = "none"
    /\ gateway[r] \in {"none", "asked"} =>
          sent[r] = 0 /\ queue[r] = None /\ future[AgentReq(r)] # "result"
    /\ r \in toAnswer => resolver[r] \in {"wait", "done"}

\* What a frame on the wire says of its run.
FrameFits(f) ==
    /\ f.type \in {"accepted", "refused", "final"} => gateway[f.run] \notin {"none", "asked"}
    /\ f.type = "final" => gateway[f.run] \in {"done", "cut"}
    /\ f.type = "accepted" => queue[f.run] = None /\ future[AgentReq(f.run)] # "result"
    /\ f.type = "resolved" => resolver[f.run] \in {"wait", "done"} /\ f.run \notin toAnswer

WireFits == Sequenced(wire) /\ \A f \in Members(wire) : FrameFits(f)

\* A connection that is lost carries nothing, and its runs are cut.
LinkFits ==
    /\ reader \in {"lost", "gone"} => link = "down" /\ wire = <<>>
    /\ link = "down" => toAnswer = {} /\ \A r \in Runs : gateway[r] \in {"none", "cut"}

Fits == (\A r \in Runs : Early(r)) /\ WireFits /\ LinkFits

\* Every step of a stream keeps it so.
LEMMA FitsStream ==
    ASSUME Safe, Safe', Fits, NEW r \in Runs, StreamStep(r)
    PROVE  Fits'
<1> USE DEF Safe
<1> SUFFICES (\A x \in Runs : Early(x)') /\ (\A f \in Members(wire) : FrameFits(f)') /\ LinkFits'
  <2>1. wire' = wire
    BY DEF StreamStep, Ask, AskConnects, SendRequest, AckResumes, AckFails, Consume, DialogEnds, QueueTimeout, StopStream, CloseLeft,
       ResolveStarts, ResolveEnds, readerVars
  <2> QED BY <2>1 DEF Fits, WireFits
<1>1. \A f \in Members(wire) : f.run \in Runs /\ FrameFits(f)
  <2>1. \A f \in Members(wire) : f \in Frames
    BY ElementOfSeq DEF Members, TypeOK
  <2> QED BY <2>1 DEF Frames, Numbered, Fits, WireFits
<1>2. CASE Ask(r)
  <2>1. /\ stream[r] = "idle" /\ reader \in {"up", "crashed"} /\ UNCHANGED <<readerVars, queue, got, resolver, sent, toAnswer>>
        /\ gateway[r] = "none" /\ queue[r] = None
    BY <1>2 DEF Ask, Fits, Early
  <2>2. CASE link = "up"
    <3>1. /\ future' = [future EXCEPT ![AgentReq(r)] = "waiting"]
          /\ stream' = [stream EXCEPT ![r] = "ack"]
          /\ gateway' = [gateway EXCEPT ![r] = "asked"]
      BY <1>2, <2>2 DEF Ask, SendRequest
    <3>2. \A x \in Runs : /\ future'[AgentReq(x)] = IF x = r THEN "waiting" ELSE future[AgentReq(x)]
                          /\ stream'[x] = IF x = r THEN "ack" ELSE stream[x]
                          /\ gateway'[x] = IF x = r THEN "asked" ELSE gateway[x]
      BY <3>1, RequestIds DEF TypeOK
    <3>3. \A x \in Runs : Early(x)'
      BY <2>1, <3>2 DEF Fits, Early
    <3>4. \A f \in Members(wire) : FrameFits(f)'
      BY <1>1, <2>1, <3>2 DEF FrameFits
    <3>5. LinkFits'
      BY <2>1, <2>2 DEF LinkFits, Fits, readerVars
    <3> QED BY <3>3, <3>4, <3>5
  <2>3. CASE link = "down"
    <3>1. UNCHANGED <<requestVars, gateway>> /\ stream' = [stream EXCEPT ![r] = "over"]
      BY <1>2, <2>3 DEF Ask, End
    <3>2. \A x \in Runs : stream'[x] = IF x = r THEN "over" ELSE stream[x]
      BY <3>1 DEF TypeOK
    <3> QED BY <1>1, <2>1, <3>1, <3>2 DEF Fits, Early, FrameFits, LinkFits, readerVars, requestVars
  <2> QED BY <2>2, <2>3 DEF TypeOK
<1>10. CASE AskConnects(r)
  <2>1. /\ stream[r] = "idle" /\ UNCHANGED <<wire, queue, got, resolver, sent, toAnswer>>
        /\ gateway[r] = "none" /\ queue[r] = None
    BY <1>10 DEF AskConnects, Fits, Early, readerVars
  <2>2. CASE SendRequest(r) /\ reader' = "up" /\ link' = "up"
    <3>1. /\ future' = [future EXCEPT ![AgentReq(r)] = "waiting"]
          /\ stream' = [stream EXCEPT ![r] = "ack"]
          /\ gateway' = [gateway EXCEPT ![r] = "asked"]
      BY <2>2 DEF SendRequest
    <3>2. \A x \in Runs : /\ future'[AgentReq(x)] = IF x = r THEN "waiting" ELSE future[AgentReq(x)]
                          /\ stream'[x] = IF x = r THEN "ack" ELSE stream[x]
                          /\ gateway'[x] = IF x = r THEN "asked" ELSE gateway[x]
      BY <3>1, RequestIds DEF TypeOK
    <3>3. \A x \in Runs : Early(x)'
      BY <2>1, <3>2 DEF Fits, Early
    <3>4. \A f \in Members(wire) : FrameFits(f)'
      BY <1>1, <2>1, <3>2 DEF FrameFits
    <3>5. LinkFits'
      BY <2>2 DEF LinkFits
    <3> QED BY <3>3, <3>4, <3>5
  <2>3. CASE UNCHANGED <<readerVars, requestVars, gateway>> /\ \E how \in {"error", "stopped"} : End(r, how)
    <3>1. \A x \in Runs : stream'[x] = IF x = r THEN "over" ELSE stream[x]
      BY <2>3 DEF End, TypeOK
    <3> QED BY <1>1, <2>1, <2>3, <3>1 DEF Fits, Early, FrameFits, LinkFits, readerVars, requestVars
  <2> QED BY <1>10, <2>2, <2>3 DEF AskConnects
<1>3. CASE AckResumes(r)
  <2>1. /\ UNCHANGED <<readerVars, future, got, outcome, resolver, gatewayVars>>
        /\ future[AgentReq(r)] = "result" /\ stream[r] = "ack"
        /\ \A x \in Runs : /\ queue'[x] = IF x = r THEN <<>> ELSE queue[x]
                           /\ stream'[x] = IF x = r THEN "queue" ELSE stream[x]
    BY <1>3 DEF AckResumes, TypeOK
  <2> QED BY <1>1, <2>1 DEF Fits, Early, FrameFits, LinkFits, readerVars, gatewayVars
<1>4. CASE AckFails(r)
  <2>1. /\ UNCHANGED <<readerVars, future, queue, got, resolver, gatewayVars>>
        /\ \A x \in Runs : stream'[x] = IF x = r THEN "over" ELSE stream[x]
    BY <1>4 DEF AckFails, End, TypeOK
  <2> QED BY <1>1, <2>1 DEF Fits, Early, FrameFits, LinkFits, readerVars, gatewayVars
<1>5. CASE Consume(r)
  <2>1. /\ UNCHANGED <<readerVars, requestVars, gatewayVars>> /\ queue[r] # None
        /\ queue' = [queue EXCEPT ![r] = Tail(queue[r])] /\ stream[r] = "queue"
    BY <1>5, TakenTypes DEF Consume
  <2>2. \A x \in Runs : /\ queue[x] = None => queue'[x] = None
                        /\ x # r => stream'[x] = stream[x] /\ got'[x] = got[x]
    <3>1. \A x \in Runs : queue[x] = None => queue'[x] = None
      BY <2>1 DEF TypeOK
    <3>2. \/ got' = [got EXCEPT ![r] = Append(@, Head(queue[r]).n)]
          \/ UNCHANGED got
      BY <1>5 DEF Consume
    <3>3. \E to \in {"queue", "dialog", "left"} : stream' = [stream EXCEPT ![r] = to]
      <4>1. CASE stream' = [stream EXCEPT ![r] = "left"]
        BY <4>1
      <4>2. CASE stream' = [stream EXCEPT ![r] =
                   IF Head(queue[r]).type = "approval" /\ Interactive THEN "dialog" ELSE @]
        BY <2>1, <4>2
      <4> QED BY <1>5, <4>1, <4>2 DEF Consume
    <3> QED BY <3>1, <3>2, <3>3 DEF TypeOK
  <2>3. stream'[r] \in {"queue", "dialog", "left"}
    BY <1>5 DEF Consume, TypeOK
  <2>4. \A x \in Runs : resolver[x] \in {"wait", "done"} => resolver'[x] = resolver[x]
    <3>1. Head(queue[r]).type = "approval" => resolver[r] = "none"
      BY <1>5, TakenTypes DEF Registered
    <3> QED BY <1>5, <3>1 DEF Consume, TypeOK
  <2> QED BY <1>1, <2>1, <2>2, <2>3, <2>4 DEF Fits, Early, FrameFits, LinkFits, readerVars, requestVars, gatewayVars
<1>6. CASE DialogEnds(r)
  <2>1. /\ UNCHANGED <<readerVars, requestVars, queue, got, outcome, gatewayVars>> /\ resolver[r] = "none"
        /\ \A x \in Runs : /\ stream'[x] = IF x = r THEN "queue" ELSE stream[x]
                           /\ x # r => resolver'[x] = resolver[x]
    BY <1>6 DEF DialogEnds, TypeOK, Registered
  <2> QED BY <1>1, <2>1 DEF Fits, Early, FrameFits, LinkFits, readerVars, requestVars, gatewayVars
<1>7. CASE QueueTimeout(r) \/ StopStream(r) \/ CloseLeft(r)
  <2>1. /\ UNCHANGED <<readerVars, future, got, resolver, gatewayVars>>
        /\ \A x \in Runs : /\ stream'[x] = IF x = r THEN "over" ELSE stream[x]
                           /\ queue'[x] = IF x = r THEN None ELSE queue[x]
    BY <1>7 DEF QueueTimeout, StopStream, CloseLeft, End, Unsubscribe, requestVars, TypeOK
  <2> QED BY <1>1, <2>1 DEF Fits, Early, FrameFits, LinkFits, readerVars, gatewayVars
<1>8. CASE ResolveStarts(r)
  <2>1. UNCHANGED <<readerVars, queue, streamVars, gateway, sent>> /\ resolver[r] = "task"
    BY <1>8 DEF ResolveStarts
  <2>2. \A x \in Runs : /\ future'[AgentReq(x)] = future[AgentReq(x)]
                        /\ x # r => resolver'[x] = resolver[x]
                        /\ resolver'[r] \in {"wait", "done"}
    BY <1>8, RequestIds DEF ResolveStarts, TypeOK, requestVars
  <2>3. toAnswer' = toAnswer \/ (toAnswer' = toAnswer \cup {r} /\ link = "up")
    BY <1>8 DEF ResolveStarts
  <2>4. \A f \in Members(wire) : f.type = "resolved" => f.run # r
    BY <1>1, <2>1 DEF FrameFits
  <2> QED BY <1>1, <2>1, <2>2, <2>3, <2>4 DEF Fits, Early, FrameFits, LinkFits, readerVars, streamVars
<1>9. CASE ResolveEnds(r)
  <2>1. /\ UNCHANGED <<readerVars, future, queue, streamVars, gatewayVars>>
        /\ \A x \in Runs : resolver'[x] = IF x = r THEN "done" ELSE resolver[x]
    BY <1>9 DEF ResolveEnds, TypeOK
  <2> QED BY <1>1, <2>1 DEF Fits, Early, FrameFits, LinkFits, readerVars, streamVars, gatewayVars
<1> QED BY <1>2, <1>3, <1>4, <1>5, <1>6, <1>7, <1>8, <1>9, <1>10 DEF StreamStep

\* Every step of the Gateway keeps it so.
LEMMA FitsGateway ==
    ASSUME Safe, Fits, NEW r \in Runs, GatewayStep(r)
    PROVE  Fits'
<1> USE DEF Safe
<1>1. PICK f \in Frames :
             /\ SendFrame(f) /\ f.run = r
             /\ \/ /\ f.type \in {"delta", "approval"}
                   /\ gateway[r] = "running"
                   /\ sent' = [sent EXCEPT ![r] = sent[r] + 1] /\ UNCHANGED <<gateway, toAnswer>>
                \/ /\ f.type = "resolved" /\ r \in toAnswer
                   /\ toAnswer' = toAnswer \ {r} /\ UNCHANGED <<gateway, sent>>
                \/ /\ f.type = "accepted" /\ gateway[r] = "asked"
                   /\ gateway' = [gateway EXCEPT ![r] = "running"] /\ UNCHANGED <<sent, toAnswer>>
                \/ /\ f.type = "refused" /\ gateway[r] = "asked"
                   /\ gateway' = [gateway EXCEPT ![r] = "done"] /\ UNCHANGED <<sent, toAnswer>>
                \/ /\ f.type = "final" /\ gateway[r] = "running"
                   /\ gateway' = [gateway EXCEPT ![r] = "done"] /\ UNCHANGED <<sent, toAnswer>>
  BY GatewaySends
<1>2. /\ link = "up" /\ wire' = Append(wire, f)
      /\ UNCHANGED <<link, reader, requestVars, queue, streamVars, resolver>>
  BY <1>1 DEF SendFrame
<1>3. /\ wire \in Seq(Frames) /\ Members(wire') = Members(wire) \cup {f}
      /\ (\A h \in Members(wire) : MayFollow(h, f)) => Sequenced(wire')
  BY <1>2, MembersAppend DEF Fits, WireFits, TypeOK
<1>4. \A h \in Members(wire) : h.run \in Runs /\ FrameFits(h)
  <2>1. \A h \in Members(wire) : h \in Frames
    BY <1>3, ElementOfSeq DEF Members
  <2> QED BY <2>1 DEF Frames, Numbered, Fits, WireFits
<1>5. \A x \in Runs : /\ x # r => gateway'[x] = gateway[x] /\ sent'[x] = sent[x]
                      /\ \/ gateway'[r] = gateway[r]
                         \/ gateway[r] = "asked" /\ gateway'[r] \in {"running", "done"}
                         \/ gateway[r] = "running" /\ gateway'[r] = "done"
                      /\ gateway[r] \in {"none", "asked"} => sent'[r] = sent[r]
                      /\ x \in toAnswer' => x \in toAnswer
  BY <1>1 DEF TypeOK
<1>6. \A h \in Members(wire) : MayFollow(h, f)
  BY <1>1, <1>4 DEF MayFollow, FrameFits
<1>7. \A x \in Runs : Early(x)'
  BY <1>2, <1>5 DEF Fits, Early, requestVars, streamVars
<1>8. \A h \in Members(wire) : FrameFits(h)'
  BY <1>2, <1>4, <1>5 DEF FrameFits, requestVars
<1>9. FrameFits(f)'
  <2>1. CASE f.type \in {"delta", "approval"}
    BY <2>1 DEF FrameFits
  <2>2. CASE f.type = "resolved"
    BY <1>1, <1>2, <2>2 DEF FrameFits, Fits, Early
  <2>3. CASE f.type = "accepted"
    <3>1. gateway'[r] = "running" /\ gateway[r] = "asked"
      BY <1>1, <2>3 DEF TypeOK
    <3> QED BY <1>1, <1>2, <2>3, <3>1 DEF FrameFits, Fits, Early, requestVars
  <2>4. CASE f.type \in {"refused", "final"}
    <3>1. gateway'[r] = "done"
      BY <1>1, <2>4 DEF TypeOK
    <3> QED BY <1>1, <2>4, <3>1 DEF FrameFits
  <2> QED BY <1>1, <2>1, <2>2, <2>3, <2>4
<1>10. WireFits'
  BY <1>3, <1>6, <1>8, <1>9 DEF WireFits
<1>11. LinkFits'
  BY <1>2 DEF LinkFits, Fits
<1> QED BY <1>7, <1>10, <1>11 DEF Fits

\* Every step of the reader keeps it so.
LEMMA FitsReader ==
    ASSUME Safe, Safe', Fits, ReaderStep
    PROVE  Fits'
<1> USE DEF Safe
<1> DEFINE f == Head(wire)
<1>1. \A h \in Members(wire) : h.run \in Runs /\ FrameFits(h)
  <2>1. \A h \in Members(wire) : h \in Frames
    BY ElementOfSeq DEF Members, TypeOK
  <2> QED BY <2>1 DEF Frames, Numbered, Fits, WireFits
<1>2. ASSUME wire # <<>>
      PROVE  /\ Members(wire) = Members(Tail(wire)) \cup {f} /\ Sequenced(Tail(wire))
             /\ \A h \in Members(Tail(wire)) : MayFollow(f, h)
             /\ f.run \in Runs /\ FrameFits(f)
  <2>1. /\ Members(wire) = Members(Tail(wire)) \cup {f} /\ Sequenced(Tail(wire))
        /\ \A h \in Members(Tail(wire)) : MayFollow(f, h)
    BY <1>2, MembersTail DEF Fits, WireFits, TypeOK
  <2> QED BY <1>1, <2>1
<1>3. CASE RouteResponse
  <2>1. /\ wire # <<>> /\ wire' = Tail(wire) /\ reader = "up" /\ reader' \in {"up", "crashed"}
        /\ UNCHANGED <<link, streamVars, resolver, gatewayVars, pending>>
        /\ f.type \notin {"delta", "approval"}
    BY <1>3 DEF RouteResponse, ReadFrame, requestVars
  <2>2. f \in Frames /\ f.run \in Runs /\ Frame("final", f.run, 0) \in Entries
    BY <2>1, WireTypes, AgentRunAssumption DEF Frame, Entries, Numbered
  <2>3. \A x \in Runs : queue'[x] = None <=> queue[x] = None
    <3>1. CASE IsFinal(f)
      BY <1>3, <2>2, <3>1, PutOne DEF RouteResponse
    <3>2. CASE ~IsFinal(f)
      BY <1>3, <3>2 DEF RouteResponse
    <3> QED BY <3>1, <3>2
  <2>4. \A x \in Runs : \/ future'[AgentReq(x)] = future[AgentReq(x)]
                        \/ x = f.run /\ f.type \in {"accepted", "refused", "final"}
                           /\ (f.type = "refused" => future'[AgentReq(x)] # "result")
    <3>1. \/ future' = future
          \/ future' = [future EXCEPT ![RequestOf(f)] = IF f.type = "refused" THEN "error" ELSE "result"]
      BY <1>3 DEF RouteResponse, requestVars
    <3>2. /\ f.type = "resolved" => RequestOf(f) = ResolveReq(f.run)
          /\ f.type # "resolved" => RequestOf(f) = AgentReq(f.run)
      BY DEF RequestOf
    <3>3. CASE f.type = "resolved"
      BY <2>2, <3>1, <3>2, <3>3, RequestIds DEF TypeOK
    <3>4. CASE f.type # "resolved"
      <4>1. f.type \in {"accepted", "refused", "final"}
        BY <2>1, <2>2, <3>4 DEF Frames, Numbered
      <4> QED BY <2>2, <3>1, <3>2, <3>4, <4>1, RequestIds DEF TypeOK
    <3> QED BY <3>3, <3>4
  <2>5. \A x \in Runs : Early(x)'
    BY <1>2, <2>1, <2>3, <2>4 DEF Early, Fits, FrameFits, streamVars, gatewayVars
  <2>6. ASSUME NEW h \in Members(Tail(wire)) PROVE FrameFits(h)'
    <3>1. h.run \in Runs /\ FrameFits(h) /\ MayFollow(f, h)
      BY <1>1, <1>2, <2>1
    <3> QED BY <2>1, <2>3, <2>4, <3>1 DEF FrameFits, MayFollow, gatewayVars
  <2>7. LinkFits'
    BY <2>1 DEF Fits, LinkFits, gatewayVars
  <2> QED BY <1>2, <2>1, <2>5, <2>6, <2>7 DEF Fits, WireFits
<1>4. CASE RouteEvent
  <2>1. /\ wire # <<>> /\ wire' = Tail(wire) /\ reader = "up"
        /\ UNCHANGED <<link, reader, requestVars, streamVars, resolver, gatewayVars>>
    BY <1>4 DEF RouteEvent, ReadFrame
  <2>2. \A x \in Runs : queue'[x] = None <=> queue[x] = None
    BY <1>4, <2>1, WireTypes, PutOne DEF RouteEvent
  <2>3. \A x \in Runs : Early(x)'
    BY <2>1, <2>2 DEF Early, Fits, requestVars, streamVars, gatewayVars
  <2>4. \A h \in Members(Tail(wire)) : FrameFits(h)'
    BY <1>1, <1>2, <2>1, <2>2 DEF FrameFits, requestVars, gatewayVars
  <2>5. LinkFits'
    BY <2>1 DEF Fits, LinkFits, gatewayVars
  <2> QED BY <1>2, <2>1, <2>3, <2>4, <2>5 DEF Fits, WireFits
<1>5. CASE ReaderLoses \/ Reconnect \/ GiveUp
  <2>1. /\ UNCHANGED <<wire, streamVars, resolver, gatewayVars>> /\ wire = <<>> /\ link = "down"
        /\ reader' = "up" \/ link' = "down"
    BY <1>5 DEF ReaderLoses, Reconnect, GiveUp, LeaveGone, Fits, LinkFits
  <2>2. \A x \in Runs : queue'[x] = None <=> queue[x] = None
    <3>1. CASE FailRuns
      BY <3>1, FailRunsTypes
    <3>2. CASE UNCHANGED queue
      BY <3>2
    <3> QED BY <1>5, <3>1, <3>2 DEF ReaderLoses, Reconnect, GiveUp, LeaveGone, requestVars
  <2>3. \A x \in Runs : future'[AgentReq(x)] = "result" => future[AgentReq(x)] = "result"
    BY <1>5, RequestIds DEF ReaderLoses, Reconnect, GiveUp, LeaveGone, FailPending, requestVars
  <2>4. \A x \in Runs : Early(x)'
    BY <2>1, <2>2, <2>3 DEF Early, Fits, streamVars, gatewayVars
  <2>5. WireFits'
    BY <2>1, EmptySeq DEF WireFits, Sequenced, Members
  <2>6. LinkFits'
    BY <2>1 DEF Fits, LinkFits, gatewayVars
  <2> QED BY <2>4, <2>5, <2>6 DEF Fits
<1>6. CASE OvertakenExits
  <2>1. UNCHANGED <<wire, link, reader, requestVars, queue, streamVars, resolver, gatewayVars>>
    BY <1>6 DEF OvertakenExits
  <2> QED BY <2>1 DEF Fits, WireFits, LinkFits, Early, FrameFits, requestVars, streamVars, gatewayVars
<1> QED BY <1>3, <1>4, <1>5, <1>6 DEF ReaderStep

\* And so does the loss of the connection, a timer and a stop.
LEMMA FitsOthers ==
    ASSUME Safe, Fits, LinkLost \/ (\E q \in Requests : CancelWait(q)) \/ UNCHANGED vars
    PROVE  Fits'
<1> USE DEF Safe
<1>1. \A h \in Members(wire) : h.run \in Runs /\ FrameFits(h)
  <2>1. \A h \in Members(wire) : h \in Frames
    BY ElementOfSeq DEF Members, TypeOK
  <2> QED BY <2>1 DEF Frames, Numbered, Fits, WireFits
<1>2. CASE LinkLost
  <2>1. PICK k \in 0..Len(wire) : wire' = SubSeq(wire, 1, k)
    BY <1>2 DEF LinkLost
  <2>2. Members(wire') \subseteq Members(wire) /\ Sequenced(wire')
    BY <2>1, MembersCut DEF Fits, WireFits, TypeOK
  <2>3. /\ reader' \in {"up", "crashed"} /\ link' = "down" /\ toAnswer' = {}
        /\ UNCHANGED <<requestVars, queue, streamVars, resolver, sent>>
    BY <1>2 DEF LinkLost
  <2>4. \A x \in Runs : IF gateway[x] = "none" THEN gateway'[x] = "none" ELSE gateway'[x] = "cut"
    BY <1>2 DEF LinkLost, TypeOK
  <2>5. \A x \in Runs : Early(x)'
    BY <2>3, <2>4 DEF Fits, Early, requestVars, streamVars
  <2>6. \A h \in Members(wire) : FrameFits(h)'
    BY <1>1, <2>3, <2>4 DEF FrameFits, requestVars
  <2>7. LinkFits'
    BY <2>3, <2>4 DEF LinkFits
  <2> QED BY <2>2, <2>5, <2>6, <2>7 DEF Fits, WireFits
<1>3. CASE \E q \in Requests : CancelWait(q)
  <2>1. /\ UNCHANGED <<readerVars, queue, streamVars, resolver, gatewayVars>>
        /\ \A x \in Runs : future'[AgentReq(x)] = "result" => future[AgentReq(x)] = "result"
    BY <1>3, RequestIds DEF CancelWait, TypeOK
  <2>2. \A x \in Runs : Early(x)'
    BY <2>1 DEF Fits, Early, streamVars, gatewayVars
  <2>3. \A h \in Members(wire) : FrameFits(h)'
    BY <1>1, <2>1 DEF FrameFits, gatewayVars
  <2> QED BY <2>1, <2>2, <2>3 DEF Fits, WireFits, LinkFits, readerVars, gatewayVars
<1>4. CASE UNCHANGED vars
  BY <1>4 DEF Fits, WireFits, LinkFits, Early, FrameFits, vars, readerVars, requestVars, streamVars, gatewayVars
<1> QED BY <1>2, <1>3, <1>4

\* So it always is.
THEOREM FitsAlways == Spec => []Fits
<1>1. Init => Fits
  <2> SUFFICES ASSUME Init PROVE Fits
    OBVIOUS
  <2>1. wire = <<>> /\ Len(wire) = 0
    BY EmptySeq DEF Init
  <2>2. WireFits
    BY <2>1 DEF WireFits, Sequenced, Members
  <2>3. \A r \in Runs : Early(r)
    BY RequestIds DEF Init, Early
  <2>4. LinkFits
    BY DEF Init, LinkFits
  <2> QED BY <2>2, <2>3, <2>4 DEF Fits
<1>2. Safe /\ Safe' /\ Fits /\ [Next]_vars => Fits'
  BY FitsStream, FitsGateway, FitsReader, FitsOthers DEF Next
<1> QED BY <1>1, <1>2, SafeAlways, PTL DEF Spec

-----------------------------------------------------------------------------
(* Nothing is lost while the queue has room *)

\* The stream has its terminal entry, or has done with it.
Ended(r) == stream[r] \in {"left", "over"} \/ Terminated(r)

\* Up to then a queue holds no more than the events before the next one.
Room(r) ==
    gateway[r] # "cut" /\ ~Ended(r) =>
        /\ \A n \in Numbers(wire, r) : Len(Queued(r)) <= n - 1
        /\ gateway[r] = "running" => Len(Queued(r)) <= sent[r]

\* With one event, all that were sent after it are there.
Full(g, q, w, n, r) == \A m \in All(g, q, w, r) : m..n \subseteq All(g, q, w, r)

Gapless(r) ==
    gateway[r] # "cut" /\ ~Ended(r) /\ QueueSize >= MaxEvents
        => Full(got[r], Queued(r), wire, sent[r], r)

Lossless == \A r \in Runs : Room(r) /\ Gapless(r)

\* What never goes back: the end of a stream, a cut, an acceptance.
LEMMA Onward ==
    ASSUME Safe, Fits, [Next]_vars, NEW r \in Runs
    PROVE  /\ stream[r] \in {"left", "over"} => stream'[r] \in {"left", "over"}
           /\ gateway[r] = "cut" => gateway'[r] = "cut"
           /\ gateway[r] \in {"done", "cut"} => gateway'[r] \in {"done", "cut"}
           /\ gateway'[r] = "running" => gateway[r] \in {"asked", "running"}
<1> USE DEF Safe
<1>1. ASSUME NEW x \in Runs, StreamStep(x)
      PROVE  /\ stream[r] \in {"left", "over"} => stream'[r] \in {"left", "over"}
             /\ gateway[r] = "cut" => gateway'[r] = "cut"
             /\ gateway[r] \in {"done", "cut"} => gateway'[r] \in {"done", "cut"}
             /\ gateway'[r] = "running" => gateway[r] \in {"asked", "running"}
    <2>2. \/ UNCHANGED stream
        \/ /\ stream[x] \notin {"left", "over"}
           /\ \E s \in {"idle", "ack", "queue", "dialog", "left", "over"} : stream' = [stream EXCEPT ![x] = s]
        \/ stream' = [stream EXCEPT ![x] = "over"]
    BY <1>1 DEF StreamStep, Ask, AskConnects, SendRequest, AckResumes, AckFails, Consume, DialogEnds, QueueTimeout, StopStream, CloseLeft,
       ResolveStarts, ResolveEnds, streamVars, End, TypeOK
  <2>3. stream[r] \in {"left", "over"} => stream'[r] \in {"left", "over"}
    BY <2>2 DEF TypeOK
  <2>4. UNCHANGED gateway \/ (gateway[x] = "none" /\ gateway' = [gateway EXCEPT ![x] = "asked"])
    BY <1>1 DEF StreamStep, Ask, AskConnects, SendRequest, AckResumes, AckFails, Consume, DialogEnds, QueueTimeout, StopStream, CloseLeft,
       ResolveStarts, ResolveEnds, gatewayVars, Fits, Early
  <2>5. /\ gateway[r] = "cut" => gateway'[r] = "cut"
        /\ gateway[r] \in {"done", "cut"} => gateway'[r] \in {"done", "cut"}
        /\ gateway'[r] = "running" => gateway[r] \in {"asked", "running"}
    BY <2>4 DEF TypeOK
  <2> QED BY <2>3, <2>5
<1>2. ASSUME NEW x \in Runs, GatewayStep(x)
      PROVE  /\ stream[r] \in {"left", "over"} => stream'[r] \in {"left", "over"}
             /\ gateway[r] = "cut" => gateway'[r] = "cut"
             /\ gateway[r] \in {"done", "cut"} => gateway'[r] \in {"done", "cut"}
             /\ gateway'[r] = "running" => gateway[r] \in {"asked", "running"}
    <2>1. PICK f \in Frames :
             /\ SendFrame(f)
             /\ \/ UNCHANGED gateway
                \/ gateway[x] = "asked" /\ \E g \in {"running", "done"} : gateway' = [gateway EXCEPT ![x] = g]
                \/ gateway[x] = "running" /\ gateway' = [gateway EXCEPT ![x] = "done"]
    BY <1>2, GatewaySends
  <2>2. UNCHANGED stream
    BY <2>1 DEF SendFrame, streamVars
  <2>5. /\ gateway[r] = "cut" => gateway'[r] = "cut"
        /\ gateway[r] \in {"done", "cut"} => gateway'[r] \in {"done", "cut"}
        /\ gateway'[r] = "running" => gateway[r] \in {"asked", "running"}
    BY <2>1 DEF TypeOK
  <2> QED BY <2>2, <2>5
<1>3. ASSUME ReaderStep \/ LinkLost \/ (\E q \in Requests : CancelWait(q)) \/ UNCHANGED vars
      PROVE  /\ stream[r] \in {"left", "over"} => stream'[r] \in {"left", "over"}
             /\ gateway[r] = "cut" => gateway'[r] = "cut"
             /\ gateway[r] \in {"done", "cut"} => gateway'[r] \in {"done", "cut"}
             /\ gateway'[r] = "running" => gateway[r] \in {"asked", "running"}
    <2>1. UNCHANGED stream
    BY <1>3 DEF ReaderStep, RouteResponse, RouteEvent, ReadFrame, ReaderLoses, Reconnect, OvertakenExits, GiveUp, LeaveGone, LinkLost,
       CancelWait, vars, streamVars, gatewayVars
  <2>2. gateway'[r] \in {gateway[r], "cut"}
    BY <1>3 DEF ReaderStep, RouteResponse, RouteEvent, ReadFrame, ReaderLoses, Reconnect, OvertakenExits, GiveUp, LeaveGone, LinkLost,
       CancelWait, vars, gatewayVars, TypeOK
  <2> QED BY <2>1, <2>2
<1> QED BY <1>1, <1>2, <1>3 DEF Next

\* Nor does a terminal entry leave the queue but to the stream, which ends.
LEMMA EndedStays ==
    ASSUME Safe, Safe', Fits, [Next]_vars, NEW r \in Runs, Ended(r)
    PROVE  Ended(r)'
<1>1. Moves(r)
  BY StepMoves DEF Safe
<1>2. CASE stream[r] \in {"left", "over"}
  BY <1>2, Onward DEF Ended
<1>3. CASE Terminated(r)
  <2>1. Queued(r) \in Seq(Entries)
    BY QueueTypes DEF Safe
  <2>2. PICK e \in Members(Queued(r)) : e.type \in {"final", "local"}
    BY <1>3 DEF Terminated, Members
  <2>3. ASSUME e \in Members(Queued(r)') PROVE Ended(r)'
    BY <2>2, <2>3 DEF Ended, Terminated, Members
  <2>4. CASE Queued(r)' = Queued(r)
    BY <2>2, <2>3, <2>4
  <2>5. CASE stream'[r] \in {"left", "over"}
    BY <2>5 DEF Ended
  <2>6. CASE /\ Queued(r) # <<>> /\ Head(Queued(r)).type \in {"delta", "approval"}
             /\ Queued(r)' = Tail(Queued(r))
    <3>1. Members(Queued(r)) = Members(Tail(Queued(r))) \cup {Head(Queued(r))}
      BY <2>1, <2>6, MembersTail
    <3> QED BY <2>2, <2>3, <2>6, <3>1
  <2>7. ASSUME NEW f \in Entries, Queued(r)' = Append(Queued(r), f) PROVE Ended(r)'
    <3>1. Members(Append(Queued(r), f)) = Members(Queued(r)) \cup {f}
      BY <2>1, MembersAppend
    <3> QED BY <2>2, <2>3, <2>7, <3>1
  <2>8. Frame("local", r, 0) \in Entries /\ Frame("final", r, 0) \in Entries
    BY AgentRunAssumption DEF Frame, Entries, Numbered
  <2>9. CASE Queued(r)' = Append(Queued(r), Frame("local", r, 0))
    BY <2>7, <2>8, <2>9
  <2>10. CASE Queued(r)' = Append(Queued(r), Frame("final", r, 0))
    BY <2>7, <2>8, <2>10
  <2>11. CASE Head(wire) \in Entries /\ Queued(r)' = Append(Queued(r), Head(wire))
    BY <2>7, <2>11
  <2> QED BY <1>1, <2>4, <2>5, <2>6, <2>9, <2>10, <2>11 DEF Moves, Same
<1> QED BY <1>2, <1>3 DEF Ended

\* A terminal entry in the queue ends it.
LEMMA TerminalPut ==
    ASSUME Safe, NEW r \in Runs, NEW e \in Entries, e.type \in {"final", "local"},
           Queued(r)' = Append(Queued(r), e)
    PROVE  Ended(r)'
<1>1. Queued(r) \in Seq(Entries)
  BY QueueTypes DEF Safe
<1>2. Members(Append(Queued(r), e)) = Members(Queued(r)) \cup {e}
  BY <1>1, MembersAppend
<1>3. e \in Members(Queued(r)')
  BY <1>2
<1> QED BY <1>3 DEF Ended, Terminated, Members

\* The next event joins the others.
LEMMA FullSends ==
    ASSUME NEW g, NEW q, NEW w \in Seq(Frames), NEW n \in Nat, NEW r, NEW f \in Frames,
           IsEvent(f, r), f.n = n + 1, Flows(g, q, w, n, r), Full(g, q, w, n, r)
    PROVE  Full(g, q, Append(w, f), n + 1, r)
<1> DEFINE A == All(g, q, w, r)
           B == All(g, q, Append(w, f), r)
<1>1. B = A \cup {n + 1} /\ A \subseteq 1..n
  <2>1. Numbers(Append(w, f), r) = Numbers(w, r) \cup (IF IsEvent(f, r) THEN {f.n} ELSE {})
    BY NumbersAppend
  <2> QED BY <2>1 DEF Flows, All
<1>2. \A m \in A : m..n \subseteq A
  BY DEF Full
<1> HIDE DEF A, B
<1>3. ASSUME NEW m \in B PROVE m..n + 1 \subseteq B
  <2>1. CASE m = n + 1
    BY <1>1, <2>1
  <2>2. CASE m \in A
    <3>1. m \in 1..n /\ m..n + 1 = (m..n) \cup {n + 1}
      BY <1>1, <2>2
    <3> QED BY <1>1, <1>2, <2>2, <3>1
  <2> QED BY <1>1, <2>1, <2>2
<1> QED BY <1>3 DEF Full, B

\* The first event read before the run has its queue: those behind it are there.
LEMMA FullReads ==
    ASSUME NEW w \in Seq(Frames), w # <<>>, NEW n \in Nat, NEW r,
           IsEvent(Head(w), r), Flows(<<>>, <<>>, w, n, r), Full(<<>>, <<>>, w, n, r)
    PROVE  Full(<<>>, <<>>, Tail(w), n, r)
<1> DEFINE A == Numbers(w, r)
           B == Numbers(Tail(w), r)
           e == Head(w).n
<1>1. \A v : All(<<>>, <<>>, v, r) = Numbers(v, r)
  <2>1. Len(<<>>) = 0 /\ Numbers(<<>>, r) = {}
    BY EmptySeq, NumbersEmpty
  <2> QED BY <2>1 DEF All
<1>2. A \subseteq 1..n /\ \A m \in A : m..n \subseteq A
  BY <1>1 DEF Flows, Full
<1>3. A = B \cup {e} /\ \A m \in B : e < m
  BY NumbersTail DEF Flows
<1> HIDE DEF A, B, e
<1>4. ASSUME NEW m \in B PROVE m..n \subseteq B
  <2>1. m \in A /\ m \in 1..n /\ e \in 1..n /\ e < m
    BY <1>2, <1>3
  <2>2. \A i \in m..n : i \in A /\ i # e
    BY <1>2, <2>1
  <2> QED BY <1>3, <2>2
<1>5. All(<<>>, <<>>, Tail(w), r) = B
  BY <1>1 DEF B
<1> QED BY <1>4, <1>5 DEF Full

\* What is where for a run, before and after a step.
LEMMA RunTypes ==
    ASSUME Safe, NEW r \in Runs
    PROVE  /\ wire \in Seq(Frames) /\ sent[r] \in Nat /\ sent[r] <= MaxEvents /\ MaxEvents \in Nat
           /\ got[r] \in Seq(Nat) /\ Queued(r) \in Seq(Entries) /\ Len(Queued(r)) \in Nat
           /\ Flows(got[r], Queued(r), wire, sent[r], r)
           /\ Numbers(wire, r) \subseteq 1..sent[r]
           /\ QueueSize \in Nat
<1>1. got[r] \in Seq(1..MaxEvents) /\ sent[r] \in 0..MaxEvents /\ MaxEvents \in Nat /\ wire \in Seq(Frames)
  BY AgentRunAssumption DEF Safe, TypeOK
<1>2. 1..MaxEvents \subseteq Nat /\ sent[r] \in Nat /\ sent[r] <= MaxEvents
  BY <1>1
<1>3. got[r] \in Seq(Nat) /\ Queued(r) \in Seq(Entries) /\ Len(Queued(r)) \in Nat
  BY <1>1, <1>2, SeqMonotonic, QueueTypes, LenProperties DEF Safe
<1>4. Flows(got[r], Queued(r), wire, sent[r], r)
  BY DEF Safe, Flowing, Flow
<1>5. Numbers(wire, r) \subseteq 1..sent[r]
  BY <1>4 DEF Flows, All
<1> QED BY <1>1, <1>2, <1>3, <1>4, <1>5, AgentRunAssumption

\* The queue grows by the events on the wire, until its terminal entry.
LEMMA RoomKept ==
    ASSUME Safe, Safe', Fits, Fits', [Next]_vars, NEW r \in Runs, Room(r)
    PROVE  Room(r)'
<1>1. Moves(r)
  BY StepMoves DEF Safe
<1>2. PICK q \in Seq(Entries) : q = Queued(r)'
  <2>1. queue'[r] \in Seq(Entries) \cup {None} /\ <<>> \in Seq(Entries)
    BY EmptySeq DEF Safe, TypeOK
  <2> QED BY <2>1 DEF Queued
<1>3. PICK w \in Seq(Frames) : w = wire'
  BY DEF Safe, TypeOK
<1>5. PICK n \in Nat : n = sent'[r]
  <2>1. sent'[r] \in 0..MaxEvents /\ MaxEvents \in Nat
    BY AgentRunAssumption DEF Safe, TypeOK
  <2> QED BY <2>1
<1>6. Numbers(w, r) \subseteq 1..n
  <2>1. Flow(r)'
    BY DEF Safe, Flowing
  <2> QED BY <1>3, <1>5, <2>1 DEF Flow, Flows, All
<1> SUFFICES ASSUME gateway'[r] # "cut", ~Ended(r)'
             PROVE  /\ \A m \in Numbers(w, r) : Len(q) <= m - 1
                    /\ gateway'[r] = "running" => Len(q) <= n
  BY <1>2, <1>3, <1>5 DEF Room
<1>7. /\ gateway[r] # "cut" /\ ~Ended(r)
      /\ gateway'[r] = "running" => gateway[r] \in {"asked", "running"}
  BY Onward, EndedStays
<1>8. /\ Len(Queued(r)) \in Nat /\ sent[r] \in Nat /\ wire \in Seq(Frames)
      /\ Queued(r) \in Seq(Entries) /\ Numbers(wire, r) \subseteq 1..sent[r]
      /\ Flows(got[r], Queued(r), wire, sent[r], r)
  BY RunTypes
<1>9. /\ \A m \in Numbers(wire, r) : Len(Queued(r)) <= m - 1
      /\ gateway[r] = "running" => Len(Queued(r)) <= sent[r]
  BY <1>7 DEF Room
<1>10. gateway[r] = "asked" => Len(Queued(r)) = 0
  BY EmptySeq DEF Fits, Early, Queued
<1>11. CASE q = <<>>
  <2>1. Len(q) = 0
    BY <1>11, EmptySeq
  <2> QED BY <1>6, <2>1
<1>12. ASSUME Len(q) <= Len(Queued(r)), n = sent[r], Numbers(w, r) \subseteq Numbers(wire, r)
       PROVE  /\ \A m \in Numbers(w, r) : Len(q) <= m - 1
              /\ gateway'[r] = "running" => Len(q) <= n
  <2>1. Len(q) \in Nat
    BY <1>2, LenProperties
  <2>2. ASSUME NEW m \in Numbers(w, r) PROVE Len(q) <= m - 1
    <3>1. Len(Queued(r)) <= m - 1 /\ m \in Nat
      BY <1>8, <1>9, <1>12
    <3> QED BY <1>7, <1>8, <1>12, <2>1, <3>1
  <2>3. ASSUME gateway'[r] = "running" PROVE Len(q) <= n
    BY <1>7, <1>8, <1>9, <1>10, <1>12, <2>1, <2>3
  <2> QED BY <2>2, <2>3
<1>13. CASE Same(r) /\ wire' = wire
  BY <1>2, <1>3, <1>5, <1>8, <1>12, <1>13 DEF Same
<1>14. CASE Queued(r)' = <<>>
  BY <1>2, <1>11, <1>14
<1>15. CASE Same(r) /\ \E f \in Frames : ~IsEvent(f, r) /\ wire' = Append(wire, f)
  <2>1. Numbers(w, r) = Numbers(wire, r)
    <3>1. PICK f \in Frames : ~IsEvent(f, r) /\ wire' = Append(wire, f)
      BY <1>15
    <3>2. Numbers(Append(wire, f), r) = Numbers(wire, r) \cup (IF IsEvent(f, r) THEN {f.n} ELSE {})
      BY <1>8, NumbersAppend
    <3> QED BY <1>3, <3>1, <3>2
  <2> QED BY <1>2, <1>5, <1>8, <1>12, <1>15, <2>1 DEF Same
<1>16. CASE /\ Queued(r)' = Queued(r) /\ sent'[r] = sent[r] + 1 /\ gateway[r] = "running"
            /\ \E f \in Frames : IsEvent(f, r) /\ f.n = sent[r] + 1 /\ wire' = Append(wire, f)
  <2>1. Numbers(w, r) = Numbers(wire, r) \cup {sent[r] + 1}
    <3>1. PICK f \in Frames : IsEvent(f, r) /\ f.n = sent[r] + 1 /\ wire' = Append(wire, f)
      BY <1>16
    <3>2. Numbers(Append(wire, f), r) = Numbers(wire, r) \cup (IF IsEvent(f, r) THEN {f.n} ELSE {})
      BY <1>8, NumbersAppend
    <3> QED BY <1>3, <3>1, <3>2
  <2>2. Len(q) = Len(Queued(r)) /\ n = sent[r] + 1
    BY <1>2, <1>5, <1>16
  <2>3. ASSUME NEW m \in Numbers(w, r) PROVE Len(q) <= m - 1
    <3>1. CASE m \in Numbers(wire, r)
      <4>1. Len(Queued(r)) <= m - 1 /\ m \in Nat
        BY <1>8, <1>9, <3>1
      <4> QED BY <1>7, <1>8, <2>2, <4>1
    <3>2. CASE m = sent[r] + 1
      BY <1>7, <1>8, <1>9, <1>16, <2>2, <3>2
    <3> QED BY <2>1, <3>1, <3>2
  <2> QED BY <1>7, <1>8, <1>9, <1>16, <2>2, <2>3
<1>17. CASE /\ Queued(r) # <<>> /\ Queued(r)' = Tail(Queued(r))
            /\ sent'[r] = sent[r] /\ wire' = wire
  <2>1. Len(q) <= Len(Queued(r))
    BY <1>2, <1>8, <1>17, HeadTailProperties
  <2> QED BY <1>3, <1>5, <1>12, <1>17, <2>1
<1>18. CASE /\ Queued(r)' = Append(Queued(r), Frame("local", r, 0))
            /\ reader = "lost" \/ link = "down"
            /\ UNCHANGED gateway
  <2>1. gateway'[r] = "none"
    BY <1>7, <1>18 DEF Fits, LinkFits
  <2>2. Queued(r)' = <<>>
    BY <2>1 DEF Fits, Early, Queued
  <2> QED BY <1>14, <2>2
<1>19. CASE Same(r) /\ wire # <<>> /\ wire' = Tail(wire)
  <2>1. Numbers(w, r) \subseteq Numbers(wire, r)
    BY <1>3, <1>8, <1>19, NumbersTail
  <2> QED BY <1>2, <1>5, <1>8, <1>12, <1>19, <2>1 DEF Same
<1>20. CASE /\ sent'[r] = sent[r] /\ wire # <<>> /\ wire' = Tail(wire)
            /\ IsEvent(Head(wire), r) /\ Head(wire) \in Entries
            /\ Queued(r)' = Append(Queued(r), Head(wire))
  <2>1. /\ Numbers(wire, r) = Numbers(w, r) \cup {Head(wire).n}
        /\ \A m \in Numbers(w, r) : Head(wire).n < m
    BY <1>3, <1>8, <1>20, NumbersTail DEF Flows
  <2>2. Len(q) = Len(Queued(r)) + 1 /\ n = sent[r]
    BY <1>2, <1>5, <1>8, <1>20, AppendProperties
  <2>3. Head(wire).n \in 1..sent[r] /\ Len(Queued(r)) <= Head(wire).n - 1
    BY <1>8, <1>9, <2>1
  <2>4. ASSUME NEW m \in Numbers(w, r) PROVE Len(q) <= m - 1
    <3>1. Head(wire).n < m /\ m \in Nat
      BY <1>8, <2>1
    <3> QED BY <1>7, <1>8, <2>2, <2>3, <3>1
  <2> QED BY <1>7, <1>8, <2>2, <2>3, <2>4
<1>21. CASE Queued(r)' = Append(Queued(r), Frame("final", r, 0))
  <2>1. Frame("final", r, 0) \in Entries /\ Frame("final", r, 0).type = "final"
    BY AgentRunAssumption DEF Frame, Entries, Numbered
  <2> QED BY <1>21, <2>1, TerminalPut
<1>22. CASE gateway'[r] = "none"
  <2>1. Queued(r)' = <<>>
    BY <1>22 DEF Fits, Early, Queued
  <2> QED BY <1>14, <2>1
<1> QED BY <1>1, <1>13, <1>14, <1>15, <1>16, <1>17, <1>18, <1>19, <1>20, <1>21, <1>22 DEF Moves

\* An entry that is no event adds none.
LEMMA AllTells ==
    ASSUME NEW g, NEW q \in Seq(Entries), NEW w, NEW r, NEW e \in Entries, ~IsEvent(e, r)
    PROVE  All(g, Append(q, e), w, r) = All(g, q, w, r)
<1>1. Numbers(Append(q, e), r) = Numbers(q, r) \cup (IF IsEvent(e, r) THEN {e.n} ELSE {})
  BY NumbersAppend
<1> QED BY <1>1 DEF All

\* So no event of the run is dropped, and those before the queue go in order.
LEMMA GaplessKept ==
    ASSUME Safe, Safe', Fits, Fits', [Next]_vars, NEW r \in Runs, Room(r), Gapless(r)
    PROVE  Gapless(r)'
<1>1. Moves(r)
  BY StepMoves DEF Safe
<1> SUFFICES ASSUME gateway'[r] # "cut", ~Ended(r)', QueueSize >= MaxEvents
             PROVE  Full(got'[r], Queued(r)', wire', sent'[r], r)
  BY DEF Gapless
<1>2. gateway[r] # "cut" /\ ~Ended(r)
  BY Onward, EndedStays
<1>3. /\ Full(got[r], Queued(r), wire, sent[r], r) /\ Flows(got[r], Queued(r), wire, sent[r], r)
      /\ wire \in Seq(Frames) /\ sent[r] \in Nat /\ sent[r] <= MaxEvents /\ MaxEvents \in Nat
      /\ got[r] \in Seq(Nat) /\ Queued(r) \in Seq(Entries) /\ Len(Queued(r)) \in Nat
      /\ Numbers(wire, r) \subseteq 1..sent[r] /\ QueueSize \in Nat
  BY <1>2, RunTypes DEF Gapless
<1>4. ASSUME NEW g, NEW q, NEW w, All(g, q, w, r) = All(got[r], Queued(r), wire, r)
      PROVE  Full(g, q, w, sent[r], r)
  BY <1>3, <1>4 DEF Full
<1>5. CASE Same(r) /\ wire' = wire
  BY <1>3, <1>5 DEF Same
<1>6. CASE Same(r) /\ \E f \in Frames : ~IsEvent(f, r) /\ wire' = Append(wire, f)
  <2>1. PICK f \in Frames : ~IsEvent(f, r) /\ wire' = Append(wire, f)
    BY <1>6
  <2>2. All(got[r], Queued(r), Append(wire, f), r) = All(got[r], Queued(r), wire, r)
    BY <1>3, <2>1, FlowOthers
  <2> QED BY <1>4, <1>6, <2>1, <2>2 DEF Same
<1>7. CASE /\ got'[r] = got[r] /\ Queued(r)' = Queued(r) /\ sent'[r] = sent[r] + 1
           /\ \E f \in Frames : IsEvent(f, r) /\ f.n = sent[r] + 1 /\ wire' = Append(wire, f)
  <2>1. PICK f \in Frames : IsEvent(f, r) /\ f.n = sent[r] + 1 /\ wire' = Append(wire, f)
    BY <1>7
  <2>2. Full(got[r], Queued(r), Append(wire, f), sent[r] + 1, r)
    BY <1>3, <2>1, FullSends
  <2> QED BY <1>7, <2>1, <2>2
<1>8. CASE /\ Queued(r) # <<>> /\ Head(Queued(r)).type \in {"delta", "approval"}
           /\ Queued(r)' = Tail(Queued(r)) /\ got'[r] = Append(got[r], Head(Queued(r)).n)
           /\ sent'[r] = sent[r] /\ wire' = wire
  <2>1. All(Append(got[r], Head(Queued(r)).n), Tail(Queued(r)), wire, r) = All(got[r], Queued(r), wire, r)
    BY <1>3, <1>8, FlowTakes
  <2> QED BY <1>4, <1>8, <2>1
<1>9. CASE /\ Queued(r) # <<>> /\ Head(Queued(r)).type \notin {"delta", "approval"}
           /\ Queued(r)' = Tail(Queued(r))
           /\ got'[r] = got[r] /\ sent'[r] = sent[r] /\ wire' = wire
  <2>1. Numbers(Queued(r), r) = Numbers(Tail(Queued(r)), r)
                 \cup (IF IsEvent(Head(Queued(r)), r) THEN {Head(Queued(r)).n} ELSE {})
    BY <1>3, <1>9, NumbersTail
  <2>2. All(got[r], Tail(Queued(r)), wire, r) = All(got[r], Queued(r), wire, r)
    BY <1>9, <2>1 DEF All, IsEvent
  <2> QED BY <1>4, <1>9, <2>2
<1>10. CASE /\ got'[r] = got[r] /\ sent'[r] = sent[r] /\ wire' = wire
            /\ Queued(r)' = Append(Queued(r), Frame("local", r, 0))
  <2>1. Frame("local", r, 0) \in Entries /\ ~IsEvent(Frame("local", r, 0), r)
    BY AgentRunAssumption DEF Frame, Entries, Numbered, IsEvent
  <2>2. All(got[r], Append(Queued(r), Frame("local", r, 0)), wire, r) = All(got[r], Queued(r), wire, r)
    BY <1>3, <2>1, AllTells
  <2> QED BY <1>4, <1>10, <2>2
<1>11. CASE /\ Same(r) /\ wire # <<>> /\ wire' = Tail(wire)
            /\ IsEvent(Head(wire), r) => queue[r] = None \/ ~(Len(queue[r]) < QueueSize)
  <2>1. CASE ~IsEvent(Head(wire), r)
    <3>1. All(got[r], Queued(r), Tail(wire), r) = All(got[r], Queued(r), wire, r)
      BY <1>3, <1>11, <2>1, FlowReads
    <3> QED BY <1>4, <1>11, <3>1 DEF Same
  <2>2. CASE IsEvent(Head(wire), r)
    <3>1. queue[r] = None
      <4>1. Head(wire).n \in Numbers(wire, r)
        BY <1>3, <1>11, <2>2, NumbersTail
      <4>2. Len(Queued(r)) <= Head(wire).n - 1 /\ Head(wire).n \in 1..sent[r]
        BY <1>2, <1>3, <4>1 DEF Room
      <4>3. Len(Queued(r)) < QueueSize
        BY <1>3, <4>2
      <4> QED BY <1>11, <2>2, <4>3, QueueTypes DEF Safe
    <3>2. Queued(r) = <<>> /\ got[r] = <<>>
      BY <1>2, <3>1 DEF Ended, Queued, Safe, Registered, Fits, Early, TypeOK
    <3>3. Full(<<>>, <<>>, Tail(wire), sent[r], r)
      BY <1>3, <1>11, <2>2, <3>2, FullReads
    <3> QED BY <1>11, <3>2, <3>3 DEF Same
  <2> QED BY <2>1, <2>2
<1>12. CASE /\ got'[r] = got[r] /\ sent'[r] = sent[r] /\ wire # <<>> /\ wire' = Tail(wire)
            /\ IsEvent(Head(wire), r) /\ Head(wire) \in Entries
            /\ Queued(r)' = Append(Queued(r), Head(wire))
  <2>1. All(got[r], Append(Queued(r), Head(wire)), Tail(wire), r) = All(got[r], Queued(r), wire, r)
    BY <1>3, <1>12, FlowRoutes
  <2> QED BY <1>4, <1>12, <2>1
<1>13. CASE /\ got'[r] = got[r] /\ sent'[r] = sent[r] /\ wire # <<>> /\ wire' = Tail(wire)
            /\ Head(wire).type \notin {"delta", "approval"}
            /\ Queued(r)' = Append(Queued(r), Frame("final", r, 0))
  <2>1. Frame("final", r, 0) \in Entries /\ ~IsEvent(Frame("final", r, 0), r)
    BY AgentRunAssumption DEF Frame, Entries, Numbered, IsEvent
  <2>2. ~IsEvent(Head(wire), r)
    BY <1>13 DEF IsEvent
  <2>3. /\ Tail(wire) \in Seq(Frames) /\ Flows(got[r], Queued(r), Tail(wire), sent[r], r)
        /\ All(got[r], Queued(r), Tail(wire), r) = All(got[r], Queued(r), wire, r)
    BY <1>3, <1>13, <2>2, FlowReads, HeadTailProperties
  <2>4. All(got[r], Append(Queued(r), Frame("final", r, 0)), Tail(wire), r)
           = All(got[r], Queued(r), Tail(wire), r)
    BY <1>3, <2>1, AllTells
  <2> QED BY <1>4, <1>13, <2>3, <2>4
<1>14. CASE gateway'[r] = "none"
  <2>1. sent'[r] = 0
    BY <1>14 DEF Fits, Early
  <2>2. All(got'[r], Queued(r)', wire', r) \subseteq 1..sent'[r]
    <3>1. Flow(r)'
      BY DEF Safe, Flowing
    <3> QED BY <3>1 DEF Flow, Flows
  <2> QED BY <2>1, <2>2 DEF Full
<1>15. stream'[r] # "over"
  BY DEF Ended
<1> QED BY <1>1, <1>5, <1>6, <1>7, <1>8, <1>9, <1>10, <1>11, <1>12, <1>13, <1>14, <1>15 DEF Moves

\* NothingLostMidRun is an invariant: with a queue large enough for a run's
\* events, none is lost on its way to the stream before the run's terminal
\* entry, however the tasks take turns.
THEOREM NothingIsLost == Spec => []NothingLostMidRun
<1>1. Init => Lossless
  <2> SUFFICES ASSUME Init, NEW r \in Runs PROVE Room(r) /\ Gapless(r)
    BY DEF Lossless
  <2>1. /\ got[r] = <<>> /\ Queued(r) = <<>> /\ wire = <<>> /\ gateway[r] = "none"
        /\ Len(<<>>) = 0 /\ Numbers(<<>>, r) = {}
    BY EmptySeq, NumbersEmpty DEF Init, Queued
  <2> QED BY <2>1 DEF Room, Gapless, Full, All
<1>2. Safe /\ Safe' /\ Fits /\ Fits' /\ Lossless /\ [Next]_vars => Lossless'
  BY RoomKept, GaplessKept DEF Lossless
<1>3. Safe /\ Lossless => NothingLostMidRun
  <2> SUFFICES ASSUME Lossless, NEW r \in Runs, stream[r] \in {"queue", "dialog"}, gateway[r] # "cut",
                      ~Terminated(r), QueueSize >= MaxEvents, NEW m \in OnTheWay(r)
               PROVE  m..sent[r] \subseteq OnTheWay(r)
    BY DEF NothingLostMidRun
  <2>1. Full(got[r], Queued(r), wire, sent[r], r)
    BY DEF Lossless, Gapless, Ended
  <2>2. All(got[r], Queued(r), wire, r) = OnTheWay(r)
    BY DEF All, OnTheWay, Taken
  <2> QED BY <2>1, <2>2 DEF Full
<1> QED BY <1>1, <1>2, <1>3, SafeAlways, FitsAlways, PTL DEF Spec

-----------------------------------------------------------------------------
(* A final result comes from the Gateway *)

\* The reply to a run's approval answer is still to come.
Asking(r) == r \in toAnswer \/ \E f \in Members(wire) : f.type = "resolved" /\ f.run = r

\* That answer's task has stopped waiting: its reply will name nobody's request.
Late(r) == future[ResolveReq(r)] = "cancelled"

\* Unless it was late, whoever will be replied to waits for the reply; so what
\* is put on a queue as a run's result is one.
Finals(r) ==
    /\ Late(r) => resolver[r] \in {"wait", "done"}
    /\ ~Late(r) =>
          /\ \A e \in Members(Queued(r)) : e.type = "final" => gateway[r] \in {"done", "cut"}
          /\ outcome[r] = "final" => gateway[r] \in {"done", "cut"}
          /\ Asking(r) => ResolveReq(r) \in pending /\ future[ResolveReq(r)] = "waiting"

\* What is late stays late.
LEMMA LateStays ==
    ASSUME Safe, [Next]_vars, NEW r \in Runs, Late(r) => resolver[r] \in {"wait", "done"}
    PROVE  /\ Late(r) => Late(r)'
           /\ Late(r)' => resolver'[r] \in {"wait", "done"}
<1> USE DEF Safe
<1> DEFINE Kept == /\ Late(r) => Late(r)'
                   /\ Late(r)' => resolver'[r] \in {"wait", "done"}
<1>1. ASSUME future'[ResolveReq(r)] = future[ResolveReq(r)],
             resolver[r] \in {"wait", "done"} => resolver'[r] \in {"wait", "done"}
      PROVE  Kept
  BY <1>1 DEF Late
<1>2. ASSUME NEW x \in Runs, StreamStep(x) PROVE Kept
  <2>1. CASE ResolveStarts(x)
    <3>1. CASE x = r
      BY <2>1, <3>1, RequestIds DEF ResolveStarts, TypeOK, Late, requestVars
    <3>2. CASE x # r
      <4>1. resolver'[r] = resolver[r] /\ future'[ResolveReq(r)] = future[ResolveReq(r)]
        BY <2>1, <3>2, RequestIds DEF ResolveStarts, TypeOK, requestVars
      <4> QED BY <1>1, <4>1
    <3> QED BY <3>1, <3>2
  <2>2. CASE ResolveEnds(x)
    <3>1. UNCHANGED future /\ resolver'[r] \in {resolver[r], "done"}
      BY <2>2 DEF ResolveEnds, TypeOK
    <3> QED BY <1>1, <3>1
  <2>3. CASE Consume(x) \/ DialogEnds(x)
    <3>1. UNCHANGED future
      BY <2>3 DEF Consume, DialogEnds, requestVars
    <3>2. CASE Consume(x)
      <4>1. Head(queue[x]).type = "approval" => resolver[x] = "none"
        BY <3>2, TakenTypes DEF Registered
      <4>2. resolver[r] \in {"wait", "done"} => resolver'[r] = resolver[r]
        BY <3>2, <4>1 DEF Consume, TypeOK
      <4> QED BY <1>1, <3>1, <4>2
    <3>3. CASE DialogEnds(x)
      <4>1. resolver[x] = "none"
        BY <3>3 DEF DialogEnds, Registered
      <4>2. resolver[r] \in {"wait", "done"} => resolver'[r] = resolver[r]
        BY <3>3, <4>1 DEF DialogEnds, TypeOK
      <4> QED BY <1>1, <3>1, <4>2
    <3> QED BY <2>3, <3>2, <3>3
  <2>4. CASE ~(ResolveStarts(x) \/ ResolveEnds(x) \/ Consume(x) \/ DialogEnds(x))
    <3>1. /\ UNCHANGED resolver
          /\ future' = future \/ future' = [future EXCEPT ![AgentReq(x)] = "waiting"]
      BY <1>2, <2>4 DEF StreamStep, Ask, AskConnects, SendRequest, AckResumes, AckFails, QueueTimeout, StopStream,
         CloseLeft, requestVars
    <3>2. future'[ResolveReq(r)] = future[ResolveReq(r)]
      BY <3>1, RequestIds DEF TypeOK
    <3> QED BY <1>1, <3>1, <3>2
  <2> QED BY <2>1, <2>2, <2>3, <2>4
<1>3. ASSUME \/ \E x \in Runs : GatewayStep(x)
             \/ RouteEvent \/ OvertakenExits \/ LinkLost \/ UNCHANGED vars
      PROVE  Kept
  <2>1. UNCHANGED <<future, resolver>>
    BY <1>3 DEF GatewayStep, Accept, Refuse, SendEvent, Finish, AnswerResolve, SendFrame, RouteEvent,
       ReadFrame, OvertakenExits, LinkLost, vars, requestVars
  <2> QED BY <1>1, <2>1
<1>4. CASE RouteResponse
  <2>1. /\ UNCHANGED resolver
        /\ \/ UNCHANGED future
           \/ \E q \in {RequestOf(Head(wire))}, a \in {"error", "result"} :
                 future[q] = "waiting" /\ future' = [future EXCEPT ![q] = a]
    BY <1>4 DEF RouteResponse, ReadFrame, requestVars
  <2>2. /\ Late(r) => Late(r)'
        /\ Late(r)' => Late(r)
    BY <2>1, RequestIds DEF Late, TypeOK
  <2> QED BY <2>1, <2>2
<1>5. CASE ReaderLoses \/ Reconnect \/ GiveUp
  <2>1. /\ UNCHANGED resolver
        /\ UNCHANGED future \/ FailPending
    BY <1>5 DEF ReaderLoses, Reconnect, GiveUp, LeaveGone, requestVars
  <2>2. /\ Late(r) => Late(r)'
        /\ Late(r)' => Late(r)
    BY <2>1, RequestIds DEF Late, FailPending
  <2> QED BY <2>1, <2>2
<1>6. ASSUME NEW q \in Requests, CancelWait(q) PROVE Kept
  <2>1. /\ UNCHANGED resolver /\ q \in pending /\ future[q] = "waiting"
        /\ future' = [future EXCEPT ![q] = "cancelled"]
    BY <1>6 DEF CancelWait
  <2>2. CASE q = ResolveReq(r)
    <3>1. resolver[r] = "wait"
      BY <2>1, <2>2 DEF Registered
    <3> QED BY <2>1, <2>2, <3>1 DEF Late
  <2>3. CASE q # ResolveReq(r)
    BY <1>1, <2>1, <2>3, RequestIds DEF TypeOK
  <2> QED BY <2>2, <2>3
<1> QED BY <1>2, <1>3, <1>4, <1>5, <1>6 DEF Next, ReaderStep

\* The task that sent an approval answer waits until the reply has come, or is
\* late.
LEMMA AskingKept ==
    ASSUME Safe, Fits, [Next]_vars, NEW r \in Runs, Finals(r), Asking(r)', ~Late(r)'
    PROVE  (ResolveReq(r) \in pending /\ future[ResolveReq(r)] = "waiting")'
<1> USE DEF Safe
<1> DEFINE Waits == ResolveReq(r) \in pending /\ future[ResolveReq(r)] = "waiting"
<1>1. Asking(r) => Waits
  <2>1. ~Late(r)
    BY LateStays DEF Finals
  <2> QED BY <2>1 DEF Finals
<1>2. ASSUME NEW x \in Runs, StreamStep(x) PROVE Waits'
  <2>1. wire' = wire
    BY <1>2 DEF StreamStep, Ask, AskConnects, SendRequest, AckResumes, AckFails, Consume, DialogEnds, QueueTimeout, StopStream, CloseLeft,
       ResolveStarts, ResolveEnds, readerVars
  <2>2. CASE ResolveStarts(x)
    <3>1. CASE x = r /\ r \in toAnswer'
      <4>1. r \notin toAnswer
        BY <2>2, <3>1 DEF ResolveStarts, Fits, Early
      <4> QED BY <2>2, <3>1, <4>1, RequestIds DEF ResolveStarts, TypeOK
    <3>2. CASE x # r
      BY <1>1, <2>1, <2>2, <3>2, RequestIds DEF ResolveStarts, requestVars, Asking, TypeOK
    <3>3. CASE r \notin toAnswer'
      <4>1. PICK f \in Members(wire) : f.type = "resolved" /\ f.run = r
        BY <2>1, <3>3 DEF Asking
      <4>2. resolver[r] \in {"wait", "done"}
        BY <4>1 DEF Fits, WireFits, FrameFits
      <4> QED BY <2>2, <3>2, <4>2 DEF ResolveStarts
    <3> QED BY <3>1, <3>2, <3>3
  <2>3. CASE ResolveEnds(x)
    <3>1. Asking(r)
      BY <2>1, <2>3 DEF Asking, ResolveEnds, gatewayVars
    <3> QED BY <1>1, <2>3, <3>1, RequestIds DEF ResolveEnds
  <2>4. CASE ~(ResolveStarts(x) \/ ResolveEnds(x))
    <3>1. toAnswer' = toAnswer
      BY <1>2, <2>4 DEF StreamStep, Ask, AskConnects, SendRequest, AckResumes, AckFails, Consume, DialogEnds, QueueTimeout, StopStream,
         CloseLeft, gatewayVars
    <3>2. \/ pending' = pending \/ pending' = pending \cup {AgentReq(x)} \/ pending' = pending \ {AgentReq(x)}
      BY <1>2, <2>4 DEF StreamStep, Ask, AskConnects, SendRequest, AckResumes, AckFails, Consume, DialogEnds, QueueTimeout, StopStream,
         CloseLeft, requestVars
    <3>3. future' = future \/ future' = [future EXCEPT ![AgentReq(x)] = "waiting"]
      BY <1>2, <2>4 DEF StreamStep, Ask, AskConnects, SendRequest, AckResumes, AckFails, Consume, DialogEnds, QueueTimeout, StopStream,
         CloseLeft, requestVars
    <3>4. Waits
      BY <1>1, <2>1, <3>1 DEF Asking
    <3> QED BY <3>2, <3>3, <3>4, RequestIds DEF TypeOK
  <2> QED BY <2>2, <2>3, <2>4
<1>3. ASSUME NEW x \in Runs, GatewayStep(x) PROVE Waits'
  <2>1. PICK f \in Frames : /\ SendFrame(f) /\ f.run = x
                            /\ f.type = "resolved" => x \in toAnswer
                            /\ toAnswer' \subseteq toAnswer
    BY <1>3, GatewaySends
  <2>2. Members(wire') = Members(wire) \cup {f}
    BY <2>1, MembersAppend DEF SendFrame, TypeOK
  <2>3. Asking(r)
    BY <2>1, <2>2 DEF Asking
  <2> QED BY <1>1, <2>1, <2>3 DEF SendFrame, requestVars
<1>4. ASSUME RouteResponse \/ RouteEvent PROVE Waits'
  <2>1. /\ wire # <<>> /\ wire' = Tail(wire) /\ UNCHANGED <<toAnswer, pending>>
    BY <1>4 DEF RouteResponse, RouteEvent, ReadFrame, gatewayVars, requestVars
  <2>2. /\ Members(wire) = Members(wire') \cup {Head(wire)}
        /\ \A h \in Members(wire') : MayFollow(Head(wire), h)
        /\ Head(wire) \in Frames /\ FrameFits(Head(wire))
    BY <2>1, WireTypes, MembersTail DEF Fits, WireFits, TypeOK
  <2>3. Waits
    BY <1>1, <2>1, <2>2 DEF Asking
  <2>4. ~(Head(wire).type = "resolved" /\ Head(wire).run = r)
    BY <2>1, <2>2 DEF Asking, MayFollow, FrameFits
  <2>5. RequestOf(Head(wire)) \in Requests /\ RequestOf(Head(wire)) # ResolveReq(r)
    <3>1. Head(wire).run \in Runs
      BY <2>1, WireTypes
    <3> QED BY <2>4, <3>1, RequestIds DEF RequestOf
  <2>6. \/ future' = future
        \/ \E x \in {"error", "result"} : future' = [future EXCEPT ![RequestOf(Head(wire))] = x]
    BY <1>4 DEF RouteResponse, RouteEvent, requestVars
  <2> QED BY <2>1, <2>3, <2>5, <2>6 DEF TypeOK
<1>5. ASSUME ReaderLoses \/ Reconnect \/ GiveUp PROVE FALSE
  <2>1. wire = <<>> /\ toAnswer = {} /\ UNCHANGED <<wire, toAnswer>>
    BY <1>5 DEF ReaderLoses, Reconnect, GiveUp, LeaveGone, Fits, LinkFits, gatewayVars
  <2> QED BY <2>1, EmptySeq DEF Asking, Members
<1>6. ASSUME LinkLost PROVE Waits'
  <2>1. PICK k \in 0..Len(wire) : wire' = SubSeq(wire, 1, k)
    BY <1>6 DEF LinkLost
  <2>2. Members(wire') \subseteq Members(wire)
    BY <2>1, MembersCut DEF TypeOK
  <2> QED BY <1>1, <1>6, <2>2 DEF LinkLost, Asking, requestVars
<1>7. ASSUME NEW q \in Requests, CancelWait(q) PROVE Waits'
  <2>1. UNCHANGED <<wire, toAnswer, pending>> /\ future' = [future EXCEPT ![q] = "cancelled"]
    BY <1>7 DEF CancelWait, readerVars, gatewayVars
  <2>2. q # ResolveReq(r)
    BY <2>1, RequestIds DEF Late, TypeOK
  <2> QED BY <1>1, <2>1, <2>2, RequestIds DEF Asking, TypeOK
<1>9. CASE OvertakenExits
  BY <1>1, <1>9 DEF OvertakenExits, Asking, requestVars, gatewayVars
<1>8. CASE UNCHANGED vars
  BY <1>1, <1>8 DEF Asking, vars, readerVars, requestVars, gatewayVars
<1> QED BY <1>2, <1>3, <1>4, <1>5, <1>6, <1>7, <1>8, <1>9 DEF Next, ReaderStep

\* Every step keeps the results true.
LEMMA FinalsKept ==
    ASSUME Safe, Safe', Fits, [Next]_vars, NEW r \in Runs, Finals(r)
    PROVE  Finals(r)'
<1>6. (Late(r) => Late(r)') /\ (Late(r)' => resolver'[r] \in {"wait", "done"})
  BY LateStays DEF Finals
<1> SUFFICES ASSUME ~Late(r)'
             PROVE  /\ \A e \in Members(Queued(r)') : e.type = "final" => gateway'[r] \in {"done", "cut"}
                    /\ outcome'[r] = "final" => gateway'[r] \in {"done", "cut"}
                    /\ Asking(r)' => (ResolveReq(r) \in pending /\ future[ResolveReq(r)] = "waiting")'
  <2>1. Members(Queued(r)') = Members(Queued(r))'
    BY DEF Members
  <2> QED BY <1>6, <2>1 DEF Finals
<1>7. ~Late(r)
  BY <1>6
<1>1. Moves(r)
  BY StepMoves DEF Safe
<1>2. gateway[r] \in {"done", "cut"} => gateway'[r] \in {"done", "cut"}
  BY Onward
<1>3. Queued(r) \in Seq(Entries) /\ \A e \in Members(Queued(r)) : e.type = "final" => gateway[r] \in {"done", "cut"}
  BY <1>7, RunTypes DEF Finals
<1>4. ASSUME NEW e \in Members(Queued(r)'), e.type = "final"
      PROVE  gateway'[r] \in {"done", "cut"}
  <2>1. CASE Queued(r)' = Queued(r)
    BY <1>2, <1>3, <1>4, <2>1
  <2>2. CASE Queued(r)' = <<>>
    BY <1>4, <2>2, EmptySeq DEF Members
  <2>3. CASE Queued(r) # <<>> /\ Queued(r)' = Tail(Queued(r))
    <3>1. e \in Members(Queued(r))
      BY <1>3, <1>4, <2>3, MembersTail
    <3> QED BY <1>2, <1>3, <1>4, <3>1
  <2>4. ASSUME NEW f \in Entries, Queued(r)' = Append(Queued(r), f),
               f.type = "final" => gateway[r] \in {"done", "cut"}
        PROVE  gateway'[r] \in {"done", "cut"}
    <3>1. Members(Queued(r)') = Members(Queued(r)) \cup {f}
      BY <1>3, <2>4, MembersAppend
    <3> QED BY <1>2, <1>3, <1>4, <2>4, <3>1
  <2>5. /\ Frame("local", r, 0) \in Entries /\ Frame("final", r, 0) \in Entries
        /\ Frame("local", r, 0).type = "local"
    BY AgentRunAssumption DEF Frame, Entries, Numbered
  <2>6. CASE Queued(r)' = Append(Queued(r), Frame("local", r, 0))
    BY <2>4, <2>5, <2>6
  <2>7. CASE IsEvent(Head(wire), r) /\ Head(wire) \in Entries /\ Queued(r)' = Append(Queued(r), Head(wire))
    BY <2>4, <2>7 DEF IsEvent
  <2>8. CASE /\ wire # <<>> /\ Head(wire).run = r /\ IsFinal(Head(wire))
             /\ Head(wire).type \notin {"delta", "approval"}
             /\ Queued(r)' = Append(Queued(r), Frame("final", r, 0))
    <3> DEFINE f == Head(wire)
    <3>1. f \in Members(wire) /\ f \in Frames /\ FrameFits(f)
      BY <2>8, WireTypes, MembersTail DEF Fits, WireFits, Safe, TypeOK
    <3>2. f.type # "refused" /\ queue[r] # None /\ RequestOf(f) \notin pending
      BY <2>8 DEF IsFinal, NamesRun
    <3>3. f.type # "accepted"
      BY <2>8, <3>1, <3>2 DEF FrameFits
    <3>4. f.type # "resolved"
      <4>1. ASSUME f.type = "resolved" PROVE FALSE
        <5>1. Asking(r)
          BY <2>8, <3>1, <4>1 DEF Asking
        <5> QED BY <1>7, <2>8, <3>2, <4>1, <5>1 DEF Finals, RequestOf
      <4> QED BY <4>1
    <3>5. f.type = "final"
      BY <2>8, <3>1, <3>2, <3>3, <3>4 DEF Frames, Numbered
    <3>6. gateway[r] \in {"done", "cut"}
      BY <2>8, <3>1, <3>5 DEF FrameFits
    <3> QED BY <1>2, <3>6
  <2> QED BY <1>1, <2>1, <2>2, <2>3, <2>6, <2>7, <2>8 DEF Moves, Same
<1>5. outcome'[r] = "final" => gateway'[r] \in {"done", "cut"}
  <2>1. CASE outcome'[r] = outcome[r]
    BY <1>2, <1>7, <2>1 DEF Finals
  <2>2. CASE \E x \in Runs : Consume(x)
    <3>1. PICK x \in Runs : Consume(x)
      BY <2>2
    <3>2. CASE x # r
      <4>1. outcome'[r] = outcome[r]
        BY <3>1, <3>2 DEF Consume, Safe, TypeOK
      <4> QED BY <2>1, <4>1
    <3>3. CASE x = r
      <4>1. queue[r] = Queued(r) /\ queue[r] # <<>>
        BY <3>1, <3>3, TakenTypes, QueueTypes DEF Safe
      <4>2. Head(queue[r]) \in Members(Queued(r))
        BY <1>3, <4>1, MembersTail
      <4>3. CASE Head(queue[r]).type = "final"
        BY <1>2, <1>3, <4>2, <4>3
      <4>4. CASE Head(queue[r]).type # "final"
        <5>1. outcome'[r] \in {outcome[r], "lost"}
          BY <3>1, <3>3, <4>4 DEF Consume, Safe, TypeOK
        <5> QED BY <2>1, <5>1
      <4> QED BY <4>3, <4>4
    <3> QED BY <3>2, <3>3
  <2>3. CASE ~\E x \in Runs : Consume(x)
    <3>1. \/ UNCHANGED outcome
          \/ \E x \in Runs, s \in {"error", "timeout", "stopped"} : outcome' = [outcome EXCEPT ![x] = s]
      <4>1. ASSUME NEW x \in Runs, StreamStep(x)
            PROVE  \/ UNCHANGED outcome
                   \/ \E s \in {"error", "timeout", "stopped"} : outcome' = [outcome EXCEPT ![x] = s]
        BY <2>3, <4>1 DEF StreamStep, Ask, AskConnects, SendRequest, AckResumes, AckFails, DialogEnds, QueueTimeout, StopStream, CloseLeft,
           ResolveStarts, ResolveEnds, streamVars, End
      <4>2. ASSUME NEW x \in Runs, GatewayStep(x) PROVE UNCHANGED outcome
        BY <4>2 DEF GatewayStep, Accept, Refuse, SendEvent, Finish, AnswerResolve, SendFrame, streamVars
      <4>3. ASSUME ReaderStep \/ LinkLost \/ (\E q \in Requests : CancelWait(q)) \/ UNCHANGED vars
            PROVE  UNCHANGED outcome
        BY <4>3 DEF ReaderStep, RouteResponse, RouteEvent, ReadFrame, ReaderLoses, Reconnect, OvertakenExits, GiveUp, LeaveGone, LinkLost,
           CancelWait, vars, streamVars
      <4> QED BY <4>1, <4>2, <4>3 DEF Next
    <3>2. outcome'[r] \in {outcome[r], "error", "timeout", "stopped"}
      <4>1. CASE UNCHANGED outcome
        BY <4>1
      <4>2. CASE \E x \in Runs, s \in {"error", "timeout", "stopped"} : outcome' = [outcome EXCEPT ![x] = s]
        <5>1. PICK x \in Runs, s \in {"error", "timeout", "stopped"} : outcome' = [outcome EXCEPT ![x] = s]
          BY <4>2
        <5> QED BY <5>1 DEF Safe, TypeOK
      <4> QED BY <3>1, <4>1, <4>2
    <3>3. CASE outcome'[r] \in {"error", "timeout", "stopped"}
      BY <3>3
    <3> QED BY <2>1, <3>2, <3>3
  <2> QED BY <2>2, <2>3
<1> QED BY <1>4, <1>5, AskingKept

\* FinalFromGateway is an invariant: a run ends with a final result only if the
\* Gateway finished it, the connection was lost or its approval answer was late.
THEOREM FinalsAreReal == Spec => []FinalFromGateway
<1> DEFINE AllFinals == \A r \in Runs : Finals(r)
<1>1. Init => AllFinals
  <2> SUFFICES ASSUME Init, NEW r \in Runs PROVE Finals(r)
    OBVIOUS
  <2>1. /\ Queued(r) = <<>> /\ wire = <<>> /\ toAnswer = {} /\ outcome[r] = "none" /\ Len(<<>>) = 0
        /\ future[ResolveReq(r)] = "none"
    BY EmptySeq, RequestIds DEF Init, Queued
  <2> QED BY <2>1 DEF Finals, Asking, Members, Late
<1>2. Safe /\ Safe' /\ Fits /\ AllFinals /\ [Next]_vars => AllFinals'
  BY FinalsKept
<1>3. AllFinals => FinalFromGateway
  BY DEF Finals, FinalFromGateway, Late
<1> HIDE DEF AllFinals
<1> QED BY <1>1, <1>2, <1>3, SafeAlways, FitsAlways, PTL DEF Spec
=============================================================================
