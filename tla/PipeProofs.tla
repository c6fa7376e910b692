----------------------------- MODULE PipeProofs -----------------------------
(***************************************************************************)
(* Proofs about Pipe, for any number of requests, models, settings and     *)
(* edits of the valves.  Getting a client and filling the cache come       *)
(* first, then what each step does to the types, then what it does to the  *)
(* rest of the invariant.                                                  *)
(***************************************************************************)
EXTENDS Pipe, TLAPS

\* A new client costs an edit: the constant MaxEdits bounds the clients.
EditsBoundClients ==
    /\ client <= edits + 1
    /\ client # 0 /\ settingsOf[client] # valves.client => client <= edits

\* Who is on the way has a client, and it has been made.
HasClient ==
    \A t \in Tasks :
        /\ using[t] <= client
        /\ pc[t] \notin {"idle", "start", "refused"} =>
              (t = Eager /\ pc[t] = "over") \/ using[t] # 0

\* The inductive invariant.
IInv ==
    /\ TypeOK
    /\ EditsBoundClients
    /\ HasClient
    /\ OutcomeOnce
    /\ ClientsKept
    /\ KeepsItsSettings
    /\ StaticListEnforced
    /\ SelectorNeverEmpty

USE DEF PC, AtYield, AtAwait, Tasks, Clients

-----------------------------------------------------------------------------
(* Counting an outcome, and getting a client *)

\* A request that is not on its way out yet may count its outcome: its tally
\* goes from none to one, and nobody else's changes.
LEMMA CountOnce ==
  ASSUME TypeOK, OutcomeOnce, NEW r \in Requests,
         pc[r] \notin {"over", "errYield", "dropped"},
         NEW how \in Statuses, Count(r, how)
  PROVE  /\ outcome' \in [Requests -> Seq(Statuses)]
         /\ ended' \in [Requests -> 0 .. 2]
         /\ ended'[r] = 1
         /\ Len(outcome'[r]) = 1
         /\ \A q \in Requests \ {r} : ended'[q] = ended[q] /\ outcome'[q] = outcome[q]
<1>1. ended[r] = 0 /\ outcome[r] \in Seq(Statuses) /\ Len(outcome[r]) = 0
  BY DEF TypeOK, OutcomeOnce
<1>2. Append(outcome[r], how) \in Seq(Statuses) /\ Len(Append(outcome[r], how)) = 1
  BY <1>1
<1>3. outcome' = [outcome EXCEPT ![r] = Append(outcome[r], how)]
  BY DEF Count
<1>4. /\ outcome' \in [Requests -> Seq(Statuses)]
      /\ outcome'[r] = Append(outcome[r], how)
      /\ \A q \in Requests \ {r} : outcome'[q] = outcome[q]
  BY <1>2, <1>3 DEF TypeOK
<1>5. /\ ended' \in [Requests -> 0 .. 2]
      /\ ended'[r] = 1
      /\ \A q \in Requests \ {r} : ended'[q] = ended[q]
  BY <1>1 DEF TypeOK, Count
<1> QED
  BY <1>2, <1>4, <1>5

\* _get_client() gives the task a client of the current settings, made by now,
\* and swaps clients only if an edit pays for it.
LEMMA GetClientWorks ==
  ASSUME TypeOK, EditsBoundClients, HasClient, NEW t \in Tasks, GetClient(t),
         UNCHANGED valveVars
  PROVE  /\ client' \in Clients /\ client <= client'
         /\ settingsOf' \in [Clients -> Settings \cup {None}]
         /\ life' \in [Clients -> {"none", "kept", "draining", "closed"}]
         /\ using' \in [Tasks -> {0} \cup Clients]
         /\ using'[t] = client' /\ settingsOf'[client'] = valves.client
         /\ \A u \in Tasks \ {t} : using'[u] = using[u]
         /\ \A k \in Clients : k <= client => settingsOf'[k] = settingsOf[k]
         /\ EditsBoundClients'
<1>1. valves.client \in Settings
  BY DEF TypeOK, Valves
<1>2. CASE IsCurrent /\ UNCHANGED clientVars /\ using' = [using EXCEPT ![t] = client]
  BY <1>2, PipeAssumption DEF TypeOK, IsCurrent, clientVars, valveVars, EditsBoundClients
<1>3. CASE ~IsCurrent /\ SwapClient(t)
  <2>1. client <= edits /\ client + 1 \in Clients
    BY <1>3, PipeAssumption DEF TypeOK, IsCurrent, EditsBoundClients
  <2>2. client' = client + 1 /\ settingsOf' = [settingsOf EXCEPT ![client + 1] = valves.client]
    BY <1>3 DEF SwapClient
  <2>3. life' \in [Clients -> {"none", "kept", "draining", "closed"}]
    BY <1>3, <2>1 DEF TypeOK, SwapClient
  <2>4. using' = [using EXCEPT ![t] = client + 1]
    BY <1>3 DEF SwapClient
  <2>5. settingsOf' \in [Clients -> Settings \cup {None}] /\ settingsOf'[client + 1] = valves.client
    BY <1>1, <2>1, <2>2 DEF TypeOK
  <2>6. \A k \in Clients : k <= client => settingsOf'[k] = settingsOf[k]
    BY <2>1, <2>2 DEF TypeOK
  <2>7. /\ using' \in [Tasks -> {0} \cup Clients]
        /\ using'[t] = client'
        /\ \A u \in Tasks \ {t} : using'[u] = using[u]
    BY <2>1, <2>2, <2>4 DEF TypeOK
  <2>8. valves' = valves /\ edits' = edits
    BY DEF valveVars
  <2>9. EditsBoundClients'
    BY <1>1, <2>1, <2>2, <2>5, <2>8, PipeAssumption DEF TypeOK, EditsBoundClients
  <2> QED
    BY <2>1, <2>2, <2>3, <2>5, <2>6, <2>7, <2>9 DEF TypeOK
<1> QED
  BY <1>2, <1>3 DEF GetClient

-----------------------------------------------------------------------------
(* Type correctness *)

\* What _ensure_agent_cache() stores, and where its asker goes from there.
LEMMA EnsureCacheType ==
  ASSUME TypeOK, NEW t \in Tasks, EnsureCache(t)
  PROVE  cache' \in Cached \cup {None} /\ pc' \in [Tasks -> PC]
<1>1. \A cached : Validated(t, cached) \in PC
  BY DEF Validated
<1>2. ASSUME valves.agents # AutoList
      PROVE  StaticModels \in Cached
  <2>1. valves.agents \in AgentLists \ {AutoList}
    BY <1>2 DEF TypeOK, Valves
  <2>2. valves.agents \subseteq Models /\ Default \in Models
    BY <2>1, PipeAssumption
  <2>3. OrDefault(valves.agents) \subseteq Models
    BY <2>2 DEF OrDefault
  <2> QED
    BY <2>3 DEF StaticModels, Cached
<1>3. CASE valves.agents # AutoList /\ cache' = StaticModels
           /\ pc' = [pc EXCEPT ![t] = Validated(t, StaticModels)]
  <2>1. Validated(t, StaticModels) \in PC
    BY <1>1
  <2>2. pc' \in [Tasks -> PC]
    BY <1>3, <2>1 DEF TypeOK
  <2> QED
    BY <1>2, <1>3, <2>2
<1>4. CASE UNCHANGED cache /\ pc' = [pc EXCEPT ![t] = Validated(t, cache)]
  <2>1. Validated(t, cache) \in PC
    BY <1>1
  <2> QED
    BY <1>4, <2>1 DEF TypeOK
<1>5. CASE UNCHANGED cache /\ pc' = [pc EXCEPT ![t] = "discover"]
  BY <1>5 DEF TypeOK
<1> QED
  BY <1>3, <1>4, <1>5 DEF EnsureCache

\* A final event keeps the types, whether or not the stream goes on.
LEMMA FinalType ==
  ASSUME TypeOK, OutcomeOnce, NEW r \in Requests, pc[r] = "running",
         NEW failed \in BOOLEAN, Final(r, failed)
  PROVE  /\ agentError' \in [Requests -> BOOLEAN]
         /\ run' \in [Requests -> {"none", "working", "lost", "over"}]
         /\ pc' \in [Tasks -> PC]
         /\ status' \in {"unknown", "connected", "error"}
         /\ outcome' \in [Requests -> Seq(Statuses)]
         /\ ended' \in [Requests -> 0 .. 2]
<1>1. agentError' \in [Requests -> BOOLEAN]
  BY Zenon DEF Final, TypeOK
<1>2. run' \in [Requests -> {"none", "working", "lost", "over"}]
  BY DEF Final, TypeOK
<1>3. pc' \in [Tasks -> PC] /\ status' \in {"unknown", "connected", "error"}
  BY DEF Final, Complete, TypeOK
<1>4. CASE UNCHANGED endVars
  BY <1>1, <1>2, <1>3, <1>4 DEF TypeOK, endVars
<1>5. CASE Count(r, IF failed THEN "error" ELSE "success")
  <2>1. (IF failed THEN "error" ELSE "success") \in Statuses
    BY DEF Statuses
  <2> QED
    BY <1>1, <1>2, <1>3, <1>5, <2>1, CountOnce
<1> QED
  BY <1>4, <1>5 DEF Final, Complete

\* A request's step keeps the types.
LEMMA RequestType ==
  ASSUME TypeOK, EditsBoundClients, HasClient, OutcomeOnce,
         NEW r \in Requests, RequestStep(r)
  PROVE  TypeOK'
<1>1. CASE RefuseIndicator(r)
  BY <1>1 DEF TypeOK, RefuseIndicator, valveVars, clientVars, cacheVars, askVars, runVars, endVars
<1>2. CASE Announced(r)
  BY <1>2 DEF TypeOK, Announced, valveVars, clientVars, cacheVars, askVars, runVars, endVars
<1>3. CASE Iterated(r)
  BY <1>3 DEF TypeOK, Iterated, valveVars, clientVars, cacheVars, askVars, runVars, endVars
<1>4. CASE Chunk(r)
  BY <1>4 DEF TypeOK, Chunk, valveVars, clientVars, cacheVars, askVars, runVars, endVars
<1>5. CASE ChunkTaken(r)
  BY <1>5 DEF TypeOK, ChunkTaken, valveVars, clientVars, cacheVars, askVars, runVars, endVars
<1>6. CASE LastChunkTaken(r)
  BY <1>6 DEF TypeOK, LastChunkTaken, valveVars, clientVars, cacheVars, askVars, runVars, endVars
<1>7. CASE ErrorTaken(r)
  BY <1>7 DEF TypeOK, ErrorTaken, valveVars, clientVars, cacheVars, askVars, runVars, endVars
<1>8. CASE Cancelled(r)
  BY <1>8 DEF TypeOK, Cancelled, valveVars, clientVars, cacheVars, askVars, runVars, endVars
<1>9. CASE AbortRuns(r)
  BY <1>9 DEF TypeOK, AbortRuns, valveVars, clientVars, cacheVars, askVars, runVars, endVars
<1>10. CASE Arrive(r)
  <2>1. UNCHANGED valveVars /\ GetClient(r) /\ EnsureCache(r)
    BY <1>10 DEF Arrive
  <2>2. /\ client' \in Clients
        /\ settingsOf' \in [Clients -> Settings \cup {None}]
        /\ life' \in [Clients -> {"none", "kept", "draining", "closed"}]
        /\ using' \in [Tasks -> {0} \cup Clients]
    BY <2>1, GetClientWorks
  <2>3. cache' \in Cached \cup {None} /\ pc' \in [Tasks -> PC]
    BY <2>1, EnsureCacheType
  <2>4. /\ asked' \in [Requests -> Valves \cup {None}]
        /\ model' \in [Requests -> Models \cup {None}]
        /\ streams' \subseteq Requests
    BY <1>10 DEF TypeOK, Arrive
  <2>5. UNCHANGED <<valves, edits, up, status, launched, run, agentError, aborting, outcome, ended>>
    BY <1>10 DEF Arrive, valveVars, runVars, endVars
  <2> QED
    BY <2>2, <2>3, <2>4, <2>5 DEF TypeOK
<1>11. CASE Accepted(r)
  <2>1. using[r] \in Clients
    BY <1>11, PipeAssumption DEF TypeOK, HasClient, Accepted
  <2> QED
    BY <1>11, <2>1 DEF TypeOK, Accepted, valveVars, clientVars, cacheVars, askVars, runVars, endVars
<1>12. CASE RunEnds(r)
  <2>1. PICK failed \in BOOLEAN : Final(r, failed)
    BY <1>12 DEF RunEnds
  <2>2. UNCHANGED <<valveVars, clientVars, up, cache, launched, askVars, aborting>> /\ pc[r] = "running"
    BY <1>12 DEF RunEnds
  <2> QED
    BY <2>1, <2>2, FinalType DEF TypeOK, valveVars, clientVars, askVars
<1>13. CASE RunInterrupted(r)
  <2>1. PICK failed \in BOOLEAN : Final(r, failed)
    BY <1>13 DEF RunInterrupted
  <2>2. UNCHANGED <<valveVars, clientVars, up, cache, launched, askVars, aborting>> /\ pc[r] = "running"
    BY <1>13 DEF RunInterrupted
  <2> QED
    BY <2>1, <2>2, FinalType DEF TypeOK, valveVars, clientVars, askVars
<1>14. CASE Finished(r)
  <2>1. PICK how \in Statuses : Count(r, how)
    BY <1>14 DEF Finished, Complete, Statuses
  <2>2. outcome' \in [Requests -> Seq(Statuses)] /\ ended' \in [Requests -> 0 .. 2]
    BY <1>14, <2>1, CountOnce DEF Finished
  <2> QED
    BY <1>14, <2>2 DEF TypeOK, Finished, Complete, valveVars, clientVars, cacheVars, askVars, runVars, endVars
<1>15. CASE Fails(r)
  <2>1. outcome' \in [Requests -> Seq(Statuses)] /\ ended' \in [Requests -> 0 .. 2]
    BY <1>15, CountOnce DEF Fails, Statuses
  <2> QED
    BY <1>15, <2>1 DEF TypeOK, Fails, valveVars, clientVars, cacheVars, askVars, runVars, endVars
<1>16. CASE StreamClosed(r)
  <2>1. outcome' \in [Requests -> Seq(Statuses)] /\ ended' \in [Requests -> 0 .. 2]
    <3>1. CASE UNCHANGED endVars
      BY <3>1 DEF TypeOK, endVars
    <3>2. CASE Count(r, "cancelled") /\ pc[r] \in {"yielded", "lastYield"}
      BY <3>2, CountOnce DEF Statuses
    <3> QED
      BY <1>16, <3>1, <3>2 DEF StreamClosed
  <2> QED
    BY <1>16, <2>1 DEF TypeOK, StreamClosed, valveVars, clientVars, cacheVars, askVars, runVars, endVars
<1> QED
  BY <1>1, <1>2, <1>3, <1>4, <1>5, <1>6, <1>7, <1>8, <1>9, <1>10, <1>11, <1>12, <1>13, <1>14, <1>15, <1>16 DEF RequestStep

\* The answer to a discovery keeps the types.
LEMMA DiscoveredType ==
  ASSUME TypeOK, HasClient, NEW t \in Tasks, Discovered(t)
  PROVE  TypeOK'
<1>1. using[t] \in Clients
  BY DEF TypeOK, HasClient, Discovered
<1>2. up' \subseteq Clients /\ status' \in {"unknown", "connected", "error"}
  BY <1>1 DEF TypeOK, Discovered, Answered, Unreachable
<1>3. cache' \in Cached
  BY PipeAssumption DEF Discovered, Answered, Unreachable, OrDefault, Cached
<1>4. pc' \in [Tasks -> PC]
  <2>1. Validated(t, cache') \in PC
    BY DEF Validated
  <2> QED
    BY <2>1 DEF TypeOK, Discovered
<1>5. launched' \in BOOLEAN
  BY Zenon DEF TypeOK, Discovered
<1> QED
  BY <1>2, <1>3, <1>4, <1>5 DEF TypeOK, Discovered, valveVars, clientVars, cacheVars, askVars, runVars, endVars

\* So do the steps of the eager discovery, of the clients and of the editor.
LEMMA OtherType ==
  ASSUME TypeOK, EditsBoundClients, HasClient,
         \/ PipesCalled \/ EagerStarts \/ EditValves
         \/ \E k \in Clients : LinkLost(k) \/ DrainEnds(k)
  PROVE  TypeOK'
<1>1. CASE PipesCalled
  <2>1. launched' \in BOOLEAN
    BY <1>1, Zenon DEF PipesCalled
  <2>2. pc' \in [Tasks -> PC]
    BY <1>1 DEF TypeOK, PipesCalled
  <2> QED
    BY <1>1, <2>1, <2>2 DEF TypeOK, PipesCalled, valveVars, clientVars, cacheVars, askVars, runVars, endVars
<1>2. CASE EagerStarts
  <2>1. UNCHANGED valveVars /\ GetClient(Eager) /\ EnsureCache(Eager)
    BY <1>2 DEF EagerStarts
  <2>2. /\ client' \in Clients
        /\ settingsOf' \in [Clients -> Settings \cup {None}]
        /\ life' \in [Clients -> {"none", "kept", "draining", "closed"}]
        /\ using' \in [Tasks -> {0} \cup Clients]
    BY <2>1, GetClientWorks
  <2>3. cache' \in Cached \cup {None} /\ pc' \in [Tasks -> PC]
    BY <2>1, EnsureCacheType
  <2>4. UNCHANGED <<valves, edits, up, status, launched, asked, model, streams,
                    run, agentError, aborting, outcome, ended>>
    BY <1>2 DEF EagerStarts, valveVars, runVars, endVars
  <2> QED
    BY <2>2, <2>3, <2>4 DEF TypeOK
<1>3. CASE EditValves
  BY <1>3, PipeAssumption DEF TypeOK, EditValves, valveVars, clientVars, cacheVars, askVars, runVars, endVars
<1>4. ASSUME NEW k \in Clients, LinkLost(k) \/ DrainEnds(k)
      PROVE  TypeOK'
  <2>0. Lose(k)
    BY <1>4 DEF LinkLost, DrainEnds
  <2>1. up' \subseteq Clients /\ run' \in [Requests -> {"none", "working", "lost", "over"}]
    BY <2>0 DEF TypeOK, Lose
  <2>2. life' \in [Clients -> {"none", "kept", "draining", "closed"}]
    BY <1>4 DEF TypeOK, LinkLost, DrainEnds, clientVars
  <2>3. UNCHANGED <<valves, edits, client, settingsOf, cache, status, launched, pc,
                    using, asked, model, streams, agentError, aborting, outcome, ended>>
    BY <1>4 DEF LinkLost, DrainEnds, valveVars, clientVars, cacheVars, askVars, endVars
  <2> QED
    BY <2>1, <2>2, <2>3 DEF TypeOK
<1> QED
  BY <1>1, <1>2, <1>3, <1>4

-----------------------------------------------------------------------------
(* What the steps leave alone *)

\* After its arrival a request changes no setting, client or cache; it moves
\* alone, never back to its arrival, and connects no client but its own.
LEMMA RequestQuiet ==
  ASSUME TypeOK, NEW r \in Requests, RequestStep(r), ~Arrive(r)
  PROVE  /\ UNCHANGED <<valves, edits, client, settingsOf, life, using, asked, model, cache>>
         /\ \A t \in Tasks \ {r} : pc'[t] = pc[t]
         /\ \/ pc'[r] = "refused" \/ pc'[r] = pc[r]
            \/ /\ pc[r] \notin {"idle", "start", "refused"}
               /\ pc'[r] \notin {"idle", "start", "refused"}
         /\ up' = up \/ (up' = up \cup {using[r]} /\ pc[r] = "calling")
<1>1. UNCHANGED <<valves, edits, client, settingsOf, life, using, asked, model, cache>>
  BY Zenon DEF RequestStep, RefuseIndicator, Announced, Iterated, Accepted, Chunk,
       ChunkTaken, RunEnds, RunInterrupted, LastChunkTaken, Finished, Fails,
       ErrorTaken, StreamClosed, Cancelled, AbortRuns,
       valveVars, clientVars, askVars, cacheVars
<1>2. CASE UNCHANGED pc
  BY <1>1, <1>2 DEF RequestStep, RefuseIndicator, Announced, Iterated, Accepted, Chunk,
       ChunkTaken, RunEnds, RunInterrupted, LastChunkTaken, Finished, Fails,
       ErrorTaken, StreamClosed, Cancelled, AbortRuns
<1>3. CASE pc[r] = "idle" /\ pc' = [pc EXCEPT ![r] = "refused"] /\ UNCHANGED up
  BY <1>1, <1>3 DEF TypeOK
<1>4. ASSUME NEW place \in PC \ {"idle", "start", "refused"},
             pc' = [pc EXCEPT ![r] = place],
             pc[r] \notin {"idle", "start", "refused"},
             up' = up \/ (up' = up \cup {using[r]} /\ pc[r] = "calling")
      PROVE  /\ \A t \in Tasks \ {r} : pc'[t] = pc[t]
             /\ pc'[r] = place
  BY <1>4 DEF TypeOK
<1>5. \/ UNCHANGED pc
      \/ pc[r] = "idle" /\ pc' = [pc EXCEPT ![r] = "refused"] /\ UNCHANGED up
      \/ /\ \E place \in PC \ {"idle", "start", "refused"} : pc' = [pc EXCEPT ![r] = place]
         /\ pc[r] \notin {"idle", "start", "refused"}
         /\ up' = up \/ (up' = up \cup {using[r]} /\ pc[r] = "calling")
  BY DEF RequestStep, RefuseIndicator, Announced, Iterated, Accepted, Chunk,
       ChunkTaken, RunEnds, RunInterrupted, LastChunkTaken, Finished, Fails,
       ErrorTaken, StreamClosed, Cancelled, AbortRuns,
       Final, Complete
<1> QED
  BY <1>1, <1>2, <1>3, <1>4, <1>5

\* Whoever asks for the cache moves alone, and fills it from the valves or not
\* at all; a request that goes on under a static list names a model of it.
LEMMA AskerMoves ==
  ASSUME TypeOK, NEW t \in Tasks, EnsureCache(t)
  PROVE  /\ \A u \in Tasks \ {t} : pc'[u] = pc[u]
         /\ pc'[t] \in {"discover", "announce", "refused", "over"}
         /\ t # Eager => pc'[t] # "over"
         /\ t = Eager => pc'[t] \in {"discover", "over"}
         /\ cache' = cache \/ cache' = StaticModels
         /\ valves.agents # AutoList =>
               \/ pc'[t] \in {"refused", "over"}
               \/ model'[t] \in OrDefault(valves.agents)
<1>1. ASSUME NEW cached
      PROVE  /\ Validated(t, cached) \in {"announce", "refused", "over"}
             /\ t # Eager => Validated(t, cached) # "over"
             /\ t = Eager => Validated(t, cached) = "over"
             /\ Validated(t, cached) = "announce" => model'[t] \in cached.models
  BY DEF Validated
<1>2. cache' = cache \/ cache' = StaticModels
  BY DEF EnsureCache
<1>3. CASE valves.agents # AutoList /\ pc' = [pc EXCEPT ![t] = Validated(t, StaticModels)]
  <2>1. StaticModels.models = OrDefault(valves.agents)
    BY DEF StaticModels
  <2>2. pc'[t] = Validated(t, StaticModels) /\ \A u \in Tasks \ {t} : pc'[u] = pc[u]
    BY <1>3 DEF TypeOK
  <2> QED
    BY <1>1, <1>2, <2>1, <2>2
<1>4. CASE valves.agents = AutoList /\ pc' = [pc EXCEPT ![t] = Validated(t, cache)]
  <2>1. pc'[t] = Validated(t, cache) /\ \A u \in Tasks \ {t} : pc'[u] = pc[u]
    BY <1>4 DEF TypeOK
  <2> QED
    BY <1>1, <1>2, <1>4, <2>1
<1>5. CASE valves.agents = AutoList /\ pc' = [pc EXCEPT ![t] = "discover"]
  BY <1>2, <1>5 DEF TypeOK
<1> QED
  BY <1>3, <1>4, <1>5 DEF EnsureCache

\* An answered discovery moves its task alone, connects its client at most.
LEMMA DiscoveryMoves ==
  ASSUME TypeOK, NEW t \in Tasks, Discovered(t)
  PROVE  /\ UNCHANGED <<valves, edits, client, settingsOf, life, using, asked, model,
                        outcome, ended>>
         /\ pc[t] = "discover"
         /\ \A u \in Tasks \ {t} : pc'[u] = pc[u]
         /\ pc'[t] \in {"announce", "refused", "over"}
         /\ t # Eager => pc'[t] # "over"
         /\ t = Eager => pc'[t] = "over"
         /\ up' = up \/ up' = up \cup {using[t]}
         /\ cache'.models # {}
<1>1. UNCHANGED <<valves, edits, client, settingsOf, life, using, asked, model, outcome, ended>>
  BY DEF Discovered, valveVars, clientVars, askVars, endVars
<1>2. /\ Validated(t, cache') \in {"announce", "refused", "over"}
      /\ t # Eager => Validated(t, cache') # "over"
      /\ t = Eager => Validated(t, cache') = "over"
  BY DEF Validated
<1>3. pc[t] = "discover" /\ pc' = [pc EXCEPT ![t] = Validated(t, cache')]
  BY DEF Discovered
<1>4. pc'[t] = Validated(t, cache') /\ \A u \in Tasks \ {t} : pc'[u] = pc[u]
  BY <1>3 DEF TypeOK
<1>5. up' = up \/ up' = up \cup {using[t]}
  BY DEF Discovered, Answered, Unreachable
<1>6. cache'.models # {}
  BY DEF Discovered, Answered, Unreachable, OrDefault
<1> QED
  BY <1>1, <1>2, <1>3, <1>4, <1>5, <1>6

-----------------------------------------------------------------------------
(* The invariant, by kind of step *)

\* A swap retires the current client and touches no older one.
LEMMA GetClientKeeps ==
  ASSUME TypeOK, EditsBoundClients, ClientsKept, NEW t \in Tasks, GetClient(t),
         UNCHANGED <<valveVars, up>>
  PROVE  ClientsKept'
<1>1. CASE UNCHANGED clientVars
  BY <1>1 DEF ClientsKept, clientVars
<1>2. CASE ~IsCurrent /\ SwapClient(t)
  <2>1. client \in {0} \cup Clients /\ MaxEdits \in Nat /\ up' = up
    BY PipeAssumption DEF TypeOK
  <2>2. client' = client + 1
    BY <1>2 DEF SwapClient
  <2>3. ASSUME NEW k \in Clients
        PROVE  CASE k = client' -> life'[k] = "kept"
                 [] k < client' -> life'[k] \in {"draining", "closed"}
                 [] OTHER -> life'[k] = "none" /\ k \notin up'
    <3>1. life'[k] = CASE k = client -> "draining"
                       [] k = client + 1 -> "kept"
                       [] OTHER -> life[k]
      BY <1>2 DEF SwapClient
    <3>2. CASE k = client
      BY <2>1, <2>2, <3>1, <3>2
    <3>3. CASE k = client + 1
      BY <2>1, <2>2, <3>1, <3>3
    <3>4. CASE k < client
      BY <2>1, <2>2, <3>1, <3>4 DEF ClientsKept
    <3>5. CASE k > client + 1
      BY <2>1, <2>2, <3>1, <3>5 DEF ClientsKept
    <3> QED
      BY <2>1, <3>2, <3>3, <3>4, <3>5
  <2> QED
    BY <2>3 DEF ClientsKept
<1> QED
  BY <1>1, <1>2 DEF GetClient

\* A task that gets a client and looks at the cache: Arrive and EagerStarts.
LEMMA AskStep ==
  ASSUME IInv, TypeOK', NEW t \in Tasks, GetClient(t), EnsureCache(t),
         pc[t] \in {"idle", "start"}, UNCHANGED <<valveVars, up, endVars>>,
         \A r \in Requests \ {t} : asked'[r] = asked[r] /\ model'[r] = model[r],
         t # Eager => asked'[t] = valves
  PROVE  IInv'
<1> USE DEF IInv
<1>1. /\ client' \in Clients /\ client <= client'
      /\ using'[t] = client' /\ settingsOf'[client'] = valves.client
      /\ \A u \in Tasks \ {t} : using'[u] = using[u]
      /\ \A k \in Clients : k <= client => settingsOf'[k] = settingsOf[k]
      /\ EditsBoundClients'
  BY GetClientWorks
<1>2. /\ \A u \in Tasks \ {t} : pc'[u] = pc[u]
      /\ pc'[t] \in {"discover", "announce", "refused", "over"}
      /\ t # Eager => pc'[t] # "over"
      /\ cache' = cache \/ cache' = StaticModels
      /\ valves.agents # AutoList =>
            \/ pc'[t] \in {"refused", "over"}
            \/ model'[t] \in OrDefault(valves.agents)
  BY AskerMoves
<1>3. HasClient'
  BY <1>1, <1>2, PipeAssumption DEF TypeOK, HasClient
<1>4. OutcomeOnce'
  BY <1>2, PipeAssumption DEF OutcomeOnce, endVars
<1>5. ClientsKept'
  BY GetClientKeeps
<1>6. KeepsItsSettings'
  BY <1>1, PipeAssumption DEF TypeOK, HasClient, KeepsItsSettings
<1>7. StaticListEnforced'
  BY <1>2, PipeAssumption DEF StaticListEnforced
<1>8. SelectorNeverEmpty'
  BY <1>2 DEF SelectorNeverEmpty, StaticModels, OrDefault
<1> QED
  BY <1>1, <1>3, <1>4, <1>5, <1>6, <1>7, <1>8

\* A request on its way counts its outcome exactly when it turns to leave.
LEMMA RequestCounts ==
  ASSUME TypeOK, OutcomeOnce, NEW r \in Requests, RequestStep(r), ~Arrive(r)
  PROVE  OutcomeOnce'
<1>1. \A t \in Tasks \ {r} : pc'[t] = pc[t]
  BY RequestQuiet
<1>2. CASE /\ UNCHANGED endVars
           /\ pc'[r] \in {"over", "errYield"} <=> pc[r] \in {"over", "errYield"}
           /\ pc[r] = "dropped" => pc'[r] = "dropped"
  BY <1>1, <1>2 DEF OutcomeOnce, endVars
<1>3. CASE /\ pc[r] \notin {"over", "errYield", "dropped"}
           /\ pc'[r] \in {"over", "errYield"}
           /\ \E how \in Statuses : Count(r, how)
  <2>1. PICK how \in Statuses : Count(r, how)
    BY <1>3
  <2>2. /\ ended'[r] = 1 /\ Len(outcome'[r]) = 1
        /\ \A q \in Requests \ {r} : ended'[q] = ended[q] /\ outcome'[q] = outcome[q]
    BY <1>3, <2>1, CountOnce
  <2>3. ASSUME NEW q \in Requests \ {r}
        PROVE  ended'[q] = ended[q] /\ outcome'[q] = outcome[q] /\ pc'[q] = pc[q]
    BY <1>1, <2>2
  <2> DEFINE Left(q) == pc[q] \in {"over", "errYield"}
             Once(q) == /\ ended[q] <= 1 /\ Len(outcome[q]) = ended[q]
                        /\ Left(q) => ended[q] = 1
                        /\ ended[q] = 1 => Left(q) \/ pc[q] = "dropped"
  <2>4. Once(r)'
    BY <1>3, <2>2
  <2>5. ASSUME NEW q \in Requests \ {r} PROVE Once(q)'
    <3>1. Once(q)
      BY DEF OutcomeOnce
    <3> QED
      BY <2>3, <3>1
  <2> QED
    BY <2>4, <2>5 DEF OutcomeOnce
<1>4. CASE \/ RefuseIndicator(r) \/ Announced(r) \/ Iterated(r) \/ Accepted(r)
           \/ Chunk(r) \/ ChunkTaken(r) \/ LastChunkTaken(r) \/ ErrorTaken(r)
           \/ Cancelled(r) \/ AbortRuns(r)
  BY <1>2, <1>4 DEF TypeOK, RefuseIndicator, Announced, Iterated, Accepted, Chunk,
       ChunkTaken, LastChunkTaken, ErrorTaken, Cancelled, AbortRuns
<1>5. CASE RunEnds(r) \/ RunInterrupted(r)
  <2>1. PICK failed \in BOOLEAN : Final(r, failed)
    BY <1>5 DEF RunEnds, RunInterrupted
  <2>2. pc[r] = "running"
    BY <1>5 DEF RunEnds, RunInterrupted
  <2>3. CASE pc' = [pc EXCEPT ![r] = "lastYield"] /\ UNCHANGED endVars
    BY <1>2, <2>2, <2>3 DEF TypeOK
  <2>4. CASE Complete(r, failed)
    BY <1>3, <2>2, <2>4 DEF TypeOK, Complete, Statuses
  <2> QED
    BY <2>1, <2>3, <2>4 DEF Final
<1>6. CASE Finished(r) \/ Fails(r)
  BY <1>3, <1>6 DEF TypeOK, Finished, Fails, Complete, Statuses
<1>7. CASE StreamClosed(r)
  BY <1>2, <1>3, <1>7 DEF TypeOK, StreamClosed, Statuses
<1> QED
  BY <1>4, <1>5, <1>6, <1>7 DEF RequestStep

\* A request's step keeps the invariant.
LEMMA RequestKeeps ==
  ASSUME IInv, NEW r \in Requests, RequestStep(r)
  PROVE  IInv'
<1> USE DEF IInv
<1>1. TypeOK'
  BY RequestType
<1>2. CASE Arrive(r)
  <2>1. /\ \A q \in Requests \ {r} : asked'[q] = asked[q] /\ model'[q] = model[q]
        /\ asked'[r] = valves
    BY <1>2 DEF TypeOK, Arrive
  <2> QED
    BY <1>1, <1>2, <2>1, AskStep DEF Arrive
<1>3. CASE ~Arrive(r)
  <2>1. /\ UNCHANGED <<valves, edits, client, settingsOf, life, using, asked, model, cache>>
        /\ \A t \in Tasks \ {r} : pc'[t] = pc[t]
        /\ \/ pc'[r] = "refused" \/ pc'[r] = pc[r]
           \/ /\ pc[r] \notin {"idle", "start", "refused"}
              /\ pc'[r] \notin {"idle", "start", "refused"}
        /\ up' = up \/ up' = up \cup {using[r]}
    BY <1>3, RequestQuiet
  <2>2. HasClient'
    BY <2>1, PipeAssumption DEF HasClient
  <2>3. ClientsKept'
    BY <2>1 DEF TypeOK, HasClient, ClientsKept
  <2>4. EditsBoundClients' /\ KeepsItsSettings' /\ SelectorNeverEmpty'
    BY <2>1 DEF EditsBoundClients, KeepsItsSettings, SelectorNeverEmpty
  <2>5. StaticListEnforced'
    <3> SUFFICES ASSUME NEW q \in Requests, pc'[q] \in PC \ {"idle", "refused"},
                        asked[q].agents # AutoList
                 PROVE  model[q] \in OrDefault(asked[q].agents)
      BY <2>1 DEF StaticListEnforced
    <3>1. q \in Tasks /\ pc[q] \in PC
      BY DEF TypeOK, Tasks
    <3>2. pc[q] \notin {"idle", "refused"}
      BY <2>1, <3>1
    <3> QED
      BY <3>1, <3>2 DEF StaticListEnforced
  <2> QED
    BY <1>1, <1>3, <2>2, <2>3, <2>4, <2>5, RequestCounts
<1> QED
  BY <1>2, <1>3

\* So does the answer to a discovery.
LEMMA DiscoveredKeeps ==
  ASSUME IInv, NEW t \in Tasks, Discovered(t)
  PROVE  IInv'
<1> USE DEF IInv
<1>1. TypeOK'
  BY DiscoveredType
<1>2. /\ UNCHANGED <<valves, edits, client, settingsOf, life, using, asked, model,
                     outcome, ended>>
      /\ pc[t] = "discover"
      /\ \A u \in Tasks \ {t} : pc'[u] = pc[u]
      /\ pc'[t] \in {"announce", "refused", "over"}
      /\ t # Eager => pc'[t] # "over"
      /\ t = Eager => pc'[t] = "over"
      /\ up' = up \/ up' = up \cup {using[t]}
      /\ cache'.models # {}
  BY DiscoveryMoves
<1>3. HasClient'
  BY <1>2 DEF HasClient
<1>4. ClientsKept'
  BY <1>2 DEF TypeOK, HasClient, ClientsKept
<1>5. EditsBoundClients' /\ KeepsItsSettings' /\ SelectorNeverEmpty'
  BY <1>2 DEF EditsBoundClients, KeepsItsSettings, SelectorNeverEmpty
<1>6. StaticListEnforced'
  BY <1>2 DEF StaticListEnforced
<1>7. OutcomeOnce'
  BY <1>2, PipeAssumption DEF OutcomeOnce
<1> QED
  BY <1>1, <1>3, <1>4, <1>5, <1>6, <1>7

\* And so do the background task, the clients and the editor.
LEMMA OtherKeeps ==
  ASSUME IInv, \/ PipesCalled \/ EagerStarts \/ EditValves
               \/ \E k \in Clients : LinkLost(k) \/ DrainEnds(k)
  PROVE  IInv'
<1> USE DEF IInv
<1>1. TypeOK'
  BY OtherType
<1>2. CASE PipesCalled
  <2>1. UNCHANGED <<valves, edits, client, settingsOf, life, up, cache, using, asked,
                    model, outcome, ended>>
    BY <1>2 DEF PipesCalled, valveVars, clientVars, cacheVars, askVars, runVars, endVars
  <2>2. \A r \in Requests : pc'[r] = pc[r]
    BY <1>2, PipeAssumption DEF TypeOK, PipesCalled
  <2>3. pc'[Eager] \in {pc[Eager], "start"}
    BY <1>2 DEF TypeOK, PipesCalled
  <2> QED
    BY <1>1, <2>1, <2>2, <2>3 DEF EditsBoundClients, HasClient, OutcomeOnce,
         ClientsKept, KeepsItsSettings, StaticListEnforced, SelectorNeverEmpty
<1>3. CASE EagerStarts
  BY <1>1, <1>3, AskStep DEF EagerStarts
<1>4. CASE EditValves
  BY <1>1, <1>4, PipeAssumption DEF TypeOK, EditValves, EditsBoundClients, HasClient,
       OutcomeOnce, ClientsKept, KeepsItsSettings, StaticListEnforced,
       SelectorNeverEmpty, valveVars, clientVars, cacheVars, askVars, runVars, endVars
<1>5. ASSUME NEW k \in Clients, LinkLost(k) \/ DrainEnds(k)
      PROVE  IInv'
  <2>1. UNCHANGED <<valves, edits, client, settingsOf, cache, pc, using, asked, model,
                    outcome, ended>>
    BY <1>5 DEF LinkLost, DrainEnds, valveVars, clientVars, cacheVars, askVars, runVars, endVars
  <2>2. up' \subseteq up
    BY <1>5 DEF LinkLost, DrainEnds, Lose
  <2>3. ClientsKept'
    <3>1. CASE UNCHANGED life
      BY <2>1, <2>2, <3>1 DEF ClientsKept
    <3>2. CASE life[k] = "draining" /\ life' = [life EXCEPT ![k] = "closed"]
      BY <2>1, <2>2, <3>2 DEF TypeOK, ClientsKept
    <3> QED
      BY <1>5, <3>1, <3>2 DEF LinkLost, DrainEnds, clientVars
  <2> QED
    BY <1>1, <2>1, <2>3 DEF EditsBoundClients, HasClient, OutcomeOnce,
         KeepsItsSettings, StaticListEnforced, SelectorNeverEmpty
<1> QED
  BY <1>2, <1>3, <1>4, <1>5

\* The initial states satisfy the invariant.
LEMMA InitIInv ==
  ASSUME Init
  PROVE  IInv
<1>1. cache \in Cached \cup {None} /\ SelectorNeverEmpty
  <2>1. CASE valves.agents = AutoList
    BY <2>1 DEF Init, SelectorNeverEmpty
  <2>2. CASE valves.agents # AutoList
    <3>1. OrDefault(valves.agents) \subseteq Models /\ OrDefault(valves.agents) # {}
      BY <2>2, PipeAssumption DEF Init, Valves, OrDefault
    <3>2. cache = [models |-> OrDefault(valves.agents), from |-> "valves"]
      BY <2>2 DEF Init, StaticModels
    <3> QED
      BY <3>1, <3>2 DEF Cached, SelectorNeverEmpty
  <2> QED
    BY <2>1, <2>2
<1>2. launched \in BOOLEAN /\ agentError \in [Requests -> BOOLEAN]
  BY Zenon DEF Init
<1>3. TypeOK
  BY <1>1, <1>2, PipeAssumption DEF Init, TypeOK
<1> QED
  BY <1>1, <1>3, PipeAssumption DEF Init, IInv, EditsBoundClients, HasClient,
       OutcomeOnce, ClientsKept, KeepsItsSettings, StaticListEnforced

\* The invariant holds of every reachable state.
LEMMA Invariance == Spec => []IInv
<1>1. Init => IInv
  BY InitIInv
<1>2. IInv /\ [Next]_vars => IInv'
  <2> SUFFICES ASSUME IInv, [Next]_vars
               PROVE  IInv'
    OBVIOUS
  <2>1. CASE Next
    BY <2>1, RequestKeeps, DiscoveredKeeps, OtherKeeps DEF Next
  <2>2. CASE UNCHANGED vars
    BY <2>2 DEF vars, valveVars, clientVars, cacheVars, askVars, runVars, endVars, IInv, TypeOK, EditsBoundClients,
         HasClient, OutcomeOnce, ClientsKept, KeepsItsSettings, StaticListEnforced,
         SelectorNeverEmpty
  <2> QED
    BY <2>1, <2>2
<1> QED
  BY <1>1, <1>2, PTL DEF Spec

-----------------------------------------------------------------------------
(* Theorems *)

\* The variables keep their types; in particular MaxEdits edits of the valves
\* make at most MaxEdits + 1 clients.
THEOREM TypeCorrect == Spec => []TypeOK
<1>1. IInv => TypeOK
  BY DEF IInv
<1> QED
  BY <1>1, Invariance, PTL

\* No request is counted or its span ended twice, and each that ran to its end or
\* was closed at a chunk is counted (pipe() and _traced_stream_response); those
\* cancelled in an await or closed before they start are left out.
THEOREM OutcomeOnceCorrect == Spec => []OutcomeOnce
<1>1. IInv => OutcomeOnce
  BY DEF IInv
<1> QED
  BY <1>1, Invariance, PTL

\* _get_client() forgets no client without draining it.
THEOREM ClientsKeptCorrect == Spec => []ClientsKept
<1>1. IInv => ClientsKept
  BY DEF IInv
<1> QED
  BY <1>1, Invariance, PTL

\* A request talks to the Gateway of the settings it came in with.
THEOREM KeepsItsSettingsCorrect == Spec => []KeepsItsSettings
<1>1. IInv => KeepsItsSettings
  BY DEF IInv
<1> QED
  BY <1>1, Invariance, PTL

\* A static AGENT_LIST binds every request that finds it.
THEOREM StaticListCorrect == Spec => []StaticListEnforced
<1>1. IInv => StaticListEnforced
  BY DEF IInv
<1> QED
  BY <1>1, Invariance, PTL

\* A cache that has been filled never becomes empty.
THEOREM SelectorCorrect == Spec => []SelectorNeverEmpty
<1>1. IInv => SelectorNeverEmpty
  BY DEF IInv
<1> QED
  BY <1>1, Invariance, PTL
=============================================================================
