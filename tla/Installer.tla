----------------------------- MODULE Installer -----------------------------
(***************************************************************************)
(* install.py: invocations of the direct installer, one after the other or *)
(* at once, against one Open WebUI server (external) whose administrator   *)
(* may interfere.  Each request is a step that may be refused, never reach *)
(* the server, or get no answer; the last is no RuntimeError and ends the  *)
(* invocation with a traceback, the effect done or not.                    *)
(***************************************************************************)
EXTENDS Bundler

CONSTANTS
    Installers,     \* invocations of install.py
    MaxAdmin,       \* bound: interventions of the administrator
    Nobody          \* the function does not exist

ASSUME InstallerAssumption ==
    /\ Nobody \notin Installers
    /\ {MaxLines, MaxAdmin} \subseteq Nat

VARIABLES
    bundle,         \* "reading", "ok", "broken"
    content,        \* whose bundle the function is, on the server
    active,         \* is_active of the function
    valves,         \* TRUE if its valves were set
    pc,             \* what each invocation does next, or how it ended
    created,        \* the invocations that created the function
    warned,         \* the invocations that printed a warning
    bare,           \* the invocations without valves to set
    touched,        \* TRUE if the administrator ever intervened
    admin           \* interventions so far

serverVars == <<content, active, valves>>
adminVars == <<touched, admin>>
runnerVars == <<pc, created, warned, bare>>
vars == <<bundlerVars, bundle, serverVars, runnerVars, adminVars>>

Ended == {"done", "failed", "crashed"}

ServerTypeOK ==
    /\ content \in Installers \cup {Nobody}
    /\ active \in BOOLEAN /\ valves \in BOOLEAN
    /\ content = Nobody => ~active /\ ~valves

RunnerTypeOK ==
    /\ pc \in [Installers -> {"probe", "create", "update", "load", "valves", "enable"} \cup Ended]
    /\ UNION {created, warned, bare} \subseteq Installers

TypeOK ==
    /\ BundlerTypeOK
    /\ bundle \in {"reading", "ok", "broken"}
    /\ ServerTypeOK
    /\ RunnerTypeOK
    /\ touched \in BOOLEAN /\ admin \in 0..MaxAdmin

-----------------------------------------------------------------------------
(* The bundle: build_bundle(), verify_bundle() *)

Read ==
    /\ bundle = "reading"
    /\ ReadLine
    /\ UNCHANGED <<bundle, serverVars, runnerVars, adminVars>>

\* The bundle is compiled; that notices some mangled files, not all of them.
VerifyBundle ==
    /\ bundle = "reading"
    /\ lex = "body"
    /\ bundle' \in IF mangled THEN {"ok", "broken"} ELSE {"ok"}
    /\ UNCHANGED <<bundlerVars, serverVars, runnerVars, adminVars>>

-----------------------------------------------------------------------------
(* The requests of OWUIClient and what main() does with their outcomes *)

At(i, step) ==
    /\ bundle = "ok"
    /\ pc[i] = step
    /\ UNCHANGED <<bundlerVars, bundle, adminVars>>

Goto(i, step) == pc' = [pc EXCEPT ![i] = step]

\* Mutant: failures are passed over.
Warn_Silent(i) == UNCHANGED warned

\* A failure that does not end the installation is printed.
Warn(i) == warned' = warned \cup {i}

\* A request without an answer: a TimeoutError that nothing catches.
Unanswered(i) == Goto(i, "crashed") /\ UNCHANGED <<created, warned, bare>>

\* function_exists(): an error whose text has "404" in it means no, wherever
\* the digits come from; any other error ends the installation.
Probe(i) ==
    /\ At(i, "probe")
    /\ \/ content # Nobody /\ Goto(i, "update")
       \/ Goto(i, "create")
       \/ Goto(i, "failed")
       \/ Goto(i, "crashed")
    /\ UNCHANGED <<serverVars, created, warned, bare>>

\* The server refuses to create an id twice; a new function is inactive.
ServerCreates(i) ==
    /\ content = Nobody
    /\ content' = i
    /\ active' = FALSE
    /\ valves' = FALSE

Create(i) ==
    /\ At(i, "create")
    /\ \/ /\ ServerCreates(i)
          /\ created' = created \cup {i}
          /\ Goto(i, "load")
          /\ UNCHANGED <<warned, bare>>
       \/ ServerCreates(i) /\ Unanswered(i)
       \/ UNCHANGED serverVars /\ Unanswered(i)
       \/ Goto(i, "failed") /\ UNCHANGED <<serverVars, created, warned, bare>>

ServerUpdates(i) ==
    /\ content # Nobody
    /\ content' = i
    /\ UNCHANGED <<active, valves>>

Update(i) ==
    /\ At(i, "update")
    /\ \/ ServerUpdates(i) /\ Goto(i, "load") /\ UNCHANGED <<created, warned, bare>>
       \/ ServerUpdates(i) /\ Unanswered(i)
       \/ UNCHANGED serverVars /\ Unanswered(i)
       \/ Goto(i, "failed") /\ UNCHANGED <<serverVars, created, warned, bare>>

\* Only now are the valves read, from the command line, a file or the
\* terminal: a missing file or bad JSON ends the installation, no valves skip
\* the next request.
LoadValves(i) ==
    /\ At(i, "load")
    /\ \/ Goto(i, "valves") /\ UNCHANGED bare
       \/ Goto(i, "enable") /\ bare' = bare \cup {i}
       \/ Goto(i, "failed") /\ UNCHANGED bare
       \/ Goto(i, "crashed") /\ UNCHANGED bare
    /\ UNCHANGED <<serverVars, created, warned>>

\* A refusal is a warning.
SetValves(i) ==
    /\ At(i, "valves")
    /\ \/ /\ content # Nobody
          /\ valves' = TRUE
          /\ \/ Goto(i, "enable") /\ UNCHANGED <<created, warned, bare>>
             \/ Unanswered(i)
          /\ UNCHANGED <<content, active>>
       \/ UNCHANGED serverVars /\ Unanswered(i)
       \/ Goto(i, "enable") /\ Warn(i) /\ UNCHANGED <<serverVars, created, bare>>

\* Mutant: an updated function is toggled, too.
MustToggle_Always(i) == TRUE

\* Only the invocation that created the function toggles it.
MustToggle(i) == i \in created

\* /toggle flips is_active.
Enable(i) ==
    /\ At(i, "enable")
    /\ \/ /\ MustToggle(i)
          /\ content # Nobody
          /\ active' = ~active
          /\ \/ Goto(i, "done") /\ UNCHANGED <<created, warned, bare>>
             \/ Unanswered(i)
          /\ UNCHANGED <<content, valves>>
       \/ /\ MustToggle(i)
          /\ UNCHANGED serverVars
          /\ \/ Unanswered(i)
             \/ Goto(i, "done") /\ Warn(i) /\ UNCHANGED <<created, bare>>
       \/ /\ ~MustToggle(i)
          /\ Goto(i, "done")
          /\ UNCHANGED <<serverVars, created, warned, bare>>

-----------------------------------------------------------------------------
\* The administrator switches the function or deletes it.
Administer ==
    /\ admin < MaxAdmin
    /\ content # Nobody
    /\ admin' = admin + 1
    /\ touched' = TRUE
    /\ \/ active' = ~active /\ UNCHANGED <<content, valves>>
       \/ content' = Nobody /\ active' = FALSE /\ valves' = FALSE
    /\ UNCHANGED <<bundlerVars, bundle, runnerVars>>

Init ==
    /\ BundlerInit
    /\ bundle = "reading"
    /\ content = Nobody
    /\ active = FALSE
    /\ valves = FALSE
    /\ pc = [i \in Installers |-> "probe"]
    /\ created = {}
    /\ warned = {}
    /\ bare = {}
    /\ touched = FALSE
    /\ admin = 0

InstallerStep(i) ==
    \/ Probe(i) \/ Create(i) \/ Update(i) \/ LoadValves(i) \/ SetValves(i) \/ Enable(i)

Next ==
    \/ Read \/ VerifyBundle
    \/ \E i \in Installers : InstallerStep(i)
    \/ Administer

Spec == Init /\ [][Next]_vars

-----------------------------------------------------------------------------
(* Properties *)

\* No module is mangled on its way into a bundle that reaches the server:
\* every line goes that must go, and no other (_strip_*).
OnlyFaithfulBundles == content # Nobody => ~mangled

\* However often install.py runs, fails half-way or runs twice at once, it
\* never switches the function off, unless the administrator interfered
\* ("re-running against an already-enabled function would disable it").
NeverSwitchesOff ==
    [][active /\ ~active' => touched']_vars

\* An invocation that says Done and has warned of nothing is telling the truth:
\* the function is there, with its valves if it was given any, and switched on
\* if it created it; unless the administrator interfered.
DoneMeansDone ==
    \A i \in Installers :
        pc[i] = "done" /\ i \notin warned /\ ~touched =>
            /\ content # Nobody
            /\ i \notin bare => valves
            /\ i \in created => active
=============================================================================
