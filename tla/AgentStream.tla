---------------------------- MODULE AgentStream ----------------------------
(***************************************************************************)
(* What GatewayClient.agent_stream() promises its caller: the events it    *)
(* yields are events the Gateway sent for this run, in the order it sent   *)
(* them, none twice; some may be missing; and after the end there are no   *)
(* more.                                                                   *)
(***************************************************************************)
EXTENDS Integers, Sequences

CONSTANTS Runs, MaxEvents

VARIABLES
    sent,           \* number of events sent for each run
    got,            \* numbers of the events each stream has yielded
    over            \* the runs whose stream has ended

vars == <<sent, got, over>>

Init ==
    /\ sent = [r \in Runs |-> 0]
    /\ got = [r \in Runs |-> <<>>]
    /\ over = {}

Send(r) ==
    /\ sent[r] < MaxEvents
    /\ sent' = [sent EXCEPT ![r] = @ + 1]
    /\ UNCHANGED <<got, over>>

Last(s) == IF s = <<>> THEN 0 ELSE s[Len(s)]

Yield(r) ==
    /\ r \notin over
    /\ \E n \in Last(got[r]) + 1 .. sent[r] : got' = [got EXCEPT ![r] = Append(@, n)]
    /\ UNCHANGED <<sent, over>>

Finish(r) ==
    /\ r \notin over
    /\ over' = over \cup {r}
    /\ UNCHANGED <<sent, got>>

Next == \E r \in Runs : Send(r) \/ Yield(r) \/ Finish(r)

Spec == Init /\ [][Next]_vars
=============================================================================
