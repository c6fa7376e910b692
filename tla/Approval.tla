------------------------------ MODULE Approval ------------------------------
(***************************************************************************)
(* How one run's approval requests are answered: _handle_approval() and    *)
(* resolve_approval() (gateway_client.py).  Every answer is the work of a  *)
(* background task that outlives the stream; in render mode the task first *)
(* sleeps.  The answer is a request with a timeout of its own, whose reply *)
(* may come after it.  Verdicts are the Gateway's (external).              *)
(***************************************************************************)
EXTENDS Integers, Sequences

CONSTANTS
    Requests,           \* approval requests of one run
    Modes,              \* values of APPROVAL_MODE that are tried
    ApprovalTimeout,    \* APPROVAL_TIMEOUT, in ticks of the clock
    RequestTimeout,     \* REQUEST_TIMEOUT, in ticks of the clock
    NoRequest           \* no request at hand

ASSUME ApprovalAssumption ==
    /\ NoRequest \notin Requests
    /\ {ApprovalTimeout, RequestTimeout} \subseteq Nat \ {0}

VARIABLES
    mode,           \* the approval mode of this run
    canAsk,         \* TRUE if there is an __event_call__ (only one mode looks)
    consent,        \* TRUE for the requests whose dialog the user confirmed
    card,           \* the card shown for each request
    task,           \* the background task of each request
    decision,       \* what that task tells the Gateway
    timer,          \* ticks left of the task's sleep, or of its wait for the reply
    verdict         \* what the Gateway knows of each request

approvalVars == <<mode, canAsk, consent, card, task, decision, timer, verdict>>

ApprovalTypeOK ==
    /\ mode \in Modes /\ canAsk \in BOOLEAN
    /\ consent \in [Requests -> BOOLEAN]
    /\ card \in [Requests -> {"none", "requested", "denied"}]
    /\ task \in [Requests -> {"none", "sleeping", "ready", "sent", "late", "stray", "done"}]
    /\ decision \in [Requests -> {"none", "allow", "deny"}]
    /\ timer \in [Requests -> 0..ApprovalTimeout \cup 0..RequestTimeout]
    /\ verdict \in [Requests -> {"unasked", "pending", "allowed", "denied"}]

ApprovalInit ==
    /\ mode \in Modes
    /\ canAsk \in BOOLEAN /\ (mode # "interactive" => canAsk)
    /\ consent = [a \in Requests |-> FALSE]
    /\ card = [a \in Requests |-> "none"]
    /\ task = [a \in Requests |-> "none"]
    /\ decision = [a \in Requests |-> "none"]
    /\ timer = [a \in Requests |-> 0]
    /\ verdict = [a \in Requests |-> "unasked"]

\* A background task that answers a request at its next turn.
Schedule(a, answer) ==
    /\ task' = [task EXCEPT ![a] = "ready"]
    /\ decision' = [decision EXCEPT ![a] = answer]
    /\ UNCHANGED timer

ShowCard(a, kind) == card' = [card EXCEPT ![a] = kind]

\* Mutant: the note is shown and nobody is told.
AutoDeny_NoteOnly(a) ==
    /\ \/ mode \notin {"auto_approve", "interactive", "render"}
       \/ mode = "interactive" /\ ~canAsk
    /\ ShowCard(a, "denied")
    /\ UNCHANGED <<mode, canAsk, consent, task, decision, timer, verdict>>

\* auto_deny, an unknown mode, or interactive without a way to ask: the answer
\* is scheduled before the note is yielded.
AutoDeny(a) ==
    /\ \/ mode \notin {"auto_approve", "interactive", "render"}
       \/ mode = "interactive" /\ ~canAsk
    /\ Schedule(a, "deny")
    /\ ShowCard(a, "denied")
    /\ UNCHANGED <<mode, canAsk, consent, verdict>>

AutoApprove(a) ==
    /\ mode = "auto_approve"
    /\ Schedule(a, "allow")
    /\ UNCHANGED <<mode, canAsk, consent, card, verdict>>

\* The dialog is shown and the stream waits for the user.
OpenDialog(a) ==
    /\ mode = "interactive" /\ canAsk
    /\ UNCHANGED approvalVars

\* Mutant: the answer of an earlier dialog counts.
Response_Any(a) == IF \E b \in Requests : consent'[b] THEN "allow" ELSE "deny"

Response(a) == IF consent'[a] THEN "allow" ELSE "deny"

\* The user confirms, or refuses; a dialog that fails counts as a refusal.
\* A denial is also noted in the chat.
CloseDialog(a) ==
    /\ \E yes \in BOOLEAN : consent' = [consent EXCEPT ![a] = yes]
    /\ Schedule(a, Response(a))
    /\ IF Response(a) = "deny" THEN ShowCard(a, "denied") ELSE UNCHANGED card
    /\ UNCHANGED <<mode, canAsk, verdict>>

\* The card of render mode comes first ...
Render(a) ==
    /\ mode = "render"
    /\ ShowCard(a, "requested")
    /\ UNCHANGED <<mode, canAsk, consent, task, decision, timer, verdict>>

\* Mutant: nobody denies after the card.
StartTimer_Never(a) == UNCHANGED approvalVars

\* ... and the task that denies is created when the reader of the stream asks
\* for what follows the card.
StartTimer(a) ==
    /\ task' = [task EXCEPT ![a] = "sleeping"]
    /\ decision' = [decision EXCEPT ![a] = "deny"]
    /\ timer' = [timer EXCEPT ![a] = ApprovalTimeout]
    /\ UNCHANGED <<mode, canAsk, consent, card, verdict>>

\* The tasks whose timer runs: one sleeps, or its answer waits for the reply.
Timed(a) == task[a] \in {"sleeping", "sent"}

TimerDue(a) == Timed(a) /\ timer[a] = 0

TimerRings(a) ==
    /\ task[a] = "sleeping" /\ TimerDue(a)
    /\ task' = [task EXCEPT ![a] = "ready"]
    /\ UNCHANGED <<mode, canAsk, consent, card, decision, timer, verdict>>

TimersTick ==
    timer' = [a \in Requests |-> IF Timed(a) THEN timer[a] - 1 ELSE timer[a]]

\* resolve_approval(): nothing to do without a connection; the answer is on its
\* way once it is sent, and request() waits for the reply.
Answer(a, connected) ==
    /\ task[a] = "ready"
    /\ task' = [task EXCEPT ![a] = IF connected THEN "sent" ELSE "done"]
    /\ timer' = [timer EXCEPT ![a] = IF connected THEN RequestTimeout ELSE @]
    /\ UNCHANGED <<mode, canAsk, consent, card, decision, verdict>>

\* No reply in time: the error is logged and the request forgotten, which the
\* Gateway does not know.
AnswerTimesOut(a) ==
    /\ task[a] = "sent" /\ TimerDue(a)
    /\ task' = [task EXCEPT ![a] = "late"]
    /\ UNCHANGED <<mode, canAsk, consent, card, decision, timer, verdict>>

\* The Gateway takes an answer and replies; only the first one decides.  A late
\* reply may go astray: see Chat.
Decide(a, astray) ==
    /\ task[a] \in {"sent", "late"}
    /\ task' = [task EXCEPT ![a] = IF astray THEN "stray" ELSE "done"]
    /\ timer' = [timer EXCEPT ![a] = 0]
    /\ verdict' = [verdict EXCEPT ![a] =
                      IF @ # "pending" THEN @
                      ELSE IF decision[a] = "allow" THEN "allowed" ELSE "denied"]
    /\ UNCHANGED <<mode, canAsk, consent, card, decision>>

\* Answers on their way are lost with the connection; resolve_approval() logs
\* the error and returns.
AnswersLost ==
    LET lost == {a \in Requests : task[a] \in {"sent", "late"}} IN
    /\ task' = [a \in Requests |-> IF a \in lost THEN "done" ELSE task[a]]
    /\ timer' = [a \in Requests |-> IF a \in lost THEN 0 ELSE timer[a]]
    /\ UNCHANGED <<mode, canAsk, consent, card, decision, verdict>>
=============================================================================
