-------------------------- MODULE InstallerProofs --------------------------
(***************************************************************************)
(* Proofs about Installer, for any number of invocations, lines and        *)
(* interventions of the administrator.  The bundler's part of the          *)
(* invariant concerns bundlerVars alone; the other parts speak of what the *)
(* server and the invocations know of each other while the administrator   *)
(* has not interfered.                                                     *)
(***************************************************************************)
EXTENDS Installer, TLAPS

\* Where Python is in the file tells what the strippers' flags are.
FlagsInStep ==
    /\ lex = "top" => ~inDocstring /\ ~docDone /\ ~skipUntilClose
    /\ lex = "doc" => inDocstring /\ ~docDone /\ ~skipUntilClose
    /\ lex \in {"body", "string"} => ~inDocstring /\ docDone /\ ~skipUntilClose
    /\ lex = "import" => ~inDocstring /\ docDone /\ skipUntilClose

\* So far they have decided rightly on every line.
InStep == ~mangled /\ FlagsInStep

\* The steps of an invocation after its write, in order.
AfterWrite == {"load", "valves", "enable", "done"}

\* The function was created once, by the invocation that knows it, and is not
\* active before that invocation has come to the toggle.
OneCreator ==
    /\ \A i \in created : pc[i] \notin {"probe", "create", "update"}
    /\ ~touched =>
          /\ created # {} => content # Nobody
          /\ \A i, j \in created : i = j
          /\ \A i \in created : pc[i] \in {"load", "valves", "enable"} => ~active
          /\ active => created # {}

\* What an invocation has done by the time it is where it is.
Progress ==
    \A i \in Installers :
        ~touched =>
            /\ pc[i] \in AfterWrite => content # Nobody
            /\ pc[i] \in {"enable", "done"} /\ i \notin bare /\ i \notin warned => valves
            /\ pc[i] = "done" /\ i \in created /\ i \notin warned => active

\* The inductive invariant.
IInv == TypeOK /\ InStep /\ OneCreator /\ Progress

-----------------------------------------------------------------------------
(* The strippers *)

\* A line keeps the flags of the strippers where Python is, whichever of them
\* drops it (_strip_module_docstring, _strip_local_imports, _strip_future_imports).
LEMMA LineInStep ==
    ASSUME NEW line \in Lines, InStep,
           lex \in {"top", "doc", "body", "string", "import"},
           lex' = LexAfter(line),
           Drop(line) \/ KeepLine(line)
    PROVE  FlagsInStep'
<1>1. CASE lex = "top"
  <2>1. ~inDocstring /\ ~docDone /\ ~skipUntilClose
    BY <1>1, Zenon DEF InStep, FlagsInStep
  <2>2. line = "quote" \/ line = "oneline"
    BY <1>1 DEF Lines
  <2>3. ~PastDocstring(line) /\ ~CloseDocstring(line)
    BY <2>1, <2>2 DEF PastDocstring, Starts, CloseDocstring
  <2>4. OpenDocstring(line) /\ UNCHANGED skipUntilClose
    BY <2>3, Zenon DEF Drop, KeepLine, StripDocstring, StripLocalImport, StripFutureImport
  <2>5. CASE line = "quote"
    <3>1. lex' = "doc"
      BY <1>1, <2>5 DEF LexAfter
    <3>2. inDocstring' /\ ~docDone' /\ ~skipUntilClose'
      BY <2>1, <2>4, <2>5 DEF OpenDocstring
    <3> QED BY <3>1, <3>2 DEF FlagsInStep
  <2>6. CASE line = "oneline"
    <3>1. lex' = "body"
      BY <1>1, <2>6 DEF LexAfter
    <3>2. ~inDocstring' /\ docDone' /\ ~skipUntilClose'
      BY <2>1, <2>4, <2>6 DEF OpenDocstring
    <3> QED BY <3>1, <3>2 DEF FlagsInStep
  <2> QED BY <2>2, <2>5, <2>6
<1>2. CASE lex = "doc"
  <2>1. inDocstring /\ ~docDone /\ ~skipUntilClose
    BY <1>2, Zenon DEF InStep, FlagsInStep
  <2>2. line # "oneline"
    BY <1>2 DEF Lines
  <2>3. ~PastDocstring(line) /\ ~OpenDocstring(line)
    BY <2>1, Zenon DEF PastDocstring, OpenDocstring
  <2>4. CloseDocstring(line) /\ UNCHANGED skipUntilClose
    BY <2>3, Zenon DEF Drop, KeepLine, StripDocstring, StripLocalImport, StripFutureImport
  <2>5. CASE line \in Quotes
    <3>1. lex' = "body"
      BY <1>2, <2>2, <2>5 DEF LexAfter, Quotes
    <3>2. ~inDocstring' /\ docDone' /\ ~skipUntilClose'
      BY <2>1, <2>4, <2>5, Zenon DEF CloseDocstring
    <3> QED BY <3>1, <3>2 DEF FlagsInStep
  <2>6. CASE line \notin Quotes
    <3>1. lex' = "doc"
      BY <1>2, <2>6 DEF LexAfter, Quotes
    <3>2. UNCHANGED <<inDocstring, docDone, skipUntilClose>>
      BY <2>4, <2>6, Zenon DEF CloseDocstring
    <3> QED BY <2>1, <3>1, <3>2 DEF FlagsInStep
  <2> QED BY <2>5, <2>6
<1>3. CASE lex \in {"body", "string"}
  <2>1. ~inDocstring /\ docDone /\ ~skipUntilClose
    BY <1>3, Zenon DEF InStep, FlagsInStep
  <2>2. UNCHANGED <<inDocstring, docDone>>
    BY <2>1, Zenon DEF Drop, KeepLine, StripDocstring, OpenDocstring, CloseDocstring,
                       StripLocalImport, StripFutureImport
  <2>3. CASE lex = "body" /\ line = "open"
    <3>1. lex' = "import"
      BY <2>3 DEF LexAfter
    <3>2. skipUntilClose'
      BY <2>1, <2>3 DEF Drop, KeepLine, StripDocstring, OpenDocstring, CloseDocstring,
                        StripLocalImport, StripFutureImport
    <3> QED BY <2>1, <2>2, <3>1, <3>2 DEF FlagsInStep
  <2>4. CASE ~(lex = "body" /\ line = "open")
    <3>1. lex' \in {"body", "string"}
      BY <1>3, <2>4 DEF LexAfter
    <3>2. line # "open"
      BY <1>3, <2>4 DEF Lines
    <3>3. ~skipUntilClose'
      BY <2>1, <3>2 DEF Drop, KeepLine, StripDocstring, OpenDocstring, CloseDocstring,
                        StripLocalImport, StripFutureImport
    <3> QED BY <2>1, <2>2, <3>1, <3>3 DEF FlagsInStep
  <2> QED BY <2>3, <2>4
<1>4. CASE lex = "import"
  <2>1. ~inDocstring /\ docDone /\ skipUntilClose
    BY <1>4, Zenon DEF InStep, FlagsInStep
  <2>2. StripLocalImport(line)
    BY <2>1, Zenon DEF Drop, KeepLine, StripDocstring, OpenDocstring, CloseDocstring,
                       StripFutureImport
  <2>3. UNCHANGED <<inDocstring, docDone>>
    BY <2>2, Zenon DEF StripLocalImport
  <2>4. CASE line = "paren"
    <3>1. lex' = "body"
      BY <1>4, <2>4 DEF LexAfter
    <3>2. ~skipUntilClose'
      BY <2>1, <2>2, <2>4, Zenon DEF StripLocalImport
    <3> QED BY <2>1, <2>3, <3>1, <3>2 DEF FlagsInStep
  <2>5. CASE line # "paren"
    <3>1. lex' = "import"
      BY <1>4, <2>5 DEF LexAfter
    <3>2. skipUntilClose'
      BY <2>1, <2>2, <2>5, Zenon DEF StripLocalImport
    <3> QED BY <2>1, <2>3, <3>1, <3>2 DEF FlagsInStep
  <2> QED BY <2>4, <2>5
<1> QED BY <1>1, <1>2, <1>3, <1>4

\* What the strippers drop, Python does not want, and what they keep it wants.
LEMMA RightlyDropped ==
    ASSUME NEW line \in Lines, InStep,
           lex \in {"top", "doc", "body", "string", "import"}
    PROVE  /\ Drop(line) => ~Wanted(line)
           /\ KeepLine(line) => Wanted(line)
<1> USE DEF Lines, Wanted, Drop, KeepLine, StripDocstring, OpenDocstring,
            CloseDocstring, Quotes, StripLocalImport, StripFutureImport,
            PastDocstring, Starts
<1>1. CASE lex = "top"
  <2>1. ~inDocstring /\ ~docDone
    BY <1>1, Zenon DEF InStep, FlagsInStep
  <2>2. line \in {"quote", "oneline"}
    BY <1>1
  <2>3. ~KeepLine(line)
    BY <2>1, <2>2
  <2>4. ~Wanted(line)
    BY <1>1
  <2> QED BY <2>3, <2>4, Zenon
<1>2. CASE lex = "doc"
  <2>1. inDocstring
    BY <1>2, Zenon DEF InStep, FlagsInStep
  <2>2. ~KeepLine(line)
    BY <2>1, Zenon
  <2>3. ~Wanted(line)
    BY <1>2
  <2> QED BY <2>2, <2>3, Zenon
<1>3. CASE lex \in {"body", "string"}
  <2>1. ~inDocstring /\ docDone /\ ~skipUntilClose
    BY <1>3, Zenon DEF InStep, FlagsInStep
  <2>2. Drop(line) => line \in {"local", "open", "future"}
    BY <2>1
  <2>3. KeepLine(line) => line \notin {"local", "open", "future"}
    BY Zenon
  <2>4. lex = "string" => line \notin {"local", "open", "future"}
    BY <1>3
  <2>5. Wanted(line) <=> line \notin {"local", "open", "future"}
    BY <1>3, <2>4
  <2> QED BY <2>2, <2>3, <2>5, Zenon
<1>4. CASE lex = "import"
  <2>1. skipUntilClose
    BY <1>4, Zenon DEF InStep, FlagsInStep
  <2>2. ~KeepLine(line)
    BY <2>1, Zenon
  <2>3. ~Wanted(line)
    BY <1>4
  <2> QED BY <2>2, <2>3, Zenon
<1> QED BY <1>1, <1>2, <1>3, <1>4

-----------------------------------------------------------------------------
(* The type invariant, part by part *)

\* The strippers' flags stay Boolean, whichever of them drops the line.
LEMMA FlagsAreBoolean ==
    ASSUME BundlerTypeOK, NEW line, Drop(line) \/ KeepLine(line)
    PROVE  inDocstring' \in BOOLEAN /\ docDone' \in BOOLEAN /\ skipUntilClose' \in BOOLEAN
<1> USE DEF Drop, KeepLine, StripDocstring, OpenDocstring, CloseDocstring,
            StripLocalImport, StripFutureImport
<1>1. inDocstring' \in {TRUE, FALSE, inDocstring}
  BY Zenon
<1>2. docDone' \in {TRUE, FALSE, docDone}
  BY Zenon
<1>3. skipUntilClose' \in {TRUE, FALSE, skipUntilClose}
  BY Zenon
<1> QED BY <1>1, <1>2, <1>3, Zenon DEF BundlerTypeOK

\* No request leaves the function active, or with valves, and without content
\* (OWUIClient's requests, as the server carries them out).
LEMMA ServerTypes ==
    ASSUME NEW i \in Installers, TypeOK, InstallerStep(i)
    PROVE  ServerTypeOK'
<1> USE DEF At, Goto, Unanswered, Warn, serverVars
<1>1. content' \in {i, content, Nobody}
  BY DEF InstallerStep, Probe, Create, Update, LoadValves, SetValves, Enable, ServerCreates,
         ServerUpdates
<1>2. active' \in BOOLEAN
  BY Zenon DEF InstallerStep, Probe, Create, Update, LoadValves, SetValves, Enable,
               ServerCreates, ServerUpdates, TypeOK, ServerTypeOK
<1>3. valves' \in BOOLEAN
  BY Zenon DEF InstallerStep, Probe, Create, Update, LoadValves, SetValves, Enable,
               ServerCreates, ServerUpdates, TypeOK, ServerTypeOK
<1>4. content' = Nobody => content = Nobody /\ UNCHANGED serverVars
  BY InstallerAssumption DEF InstallerStep, Probe, Create, Update, LoadValves, SetValves,
                             Enable, ServerCreates, ServerUpdates
<1> QED BY <1>1, <1>2, <1>3, <1>4 DEF TypeOK, ServerTypeOK

\* An invocation goes from a step to one that exists, and is noted under its own
\* name (main()).
LEMMA RunnerTypes ==
    ASSUME NEW i \in Installers, TypeOK, InstallerStep(i)
    PROVE  RunnerTypeOK'
<1> USE DEF At, Goto, Unanswered, Warn, TypeOK, RunnerTypeOK, Ended
<1>1. CASE Probe(i)
  BY <1>1 DEF Probe
<1>2. CASE Create(i)
  BY <1>2 DEF Create
<1>3. CASE Update(i)
  BY <1>3 DEF Update
<1>4. CASE LoadValves(i)
  BY <1>4 DEF LoadValves
<1>5. CASE SetValves(i)
  BY <1>5 DEF SetValves
<1>6. CASE Enable(i)
  BY <1>6 DEF Enable
<1> QED BY <1>1, <1>2, <1>3, <1>4, <1>5, <1>6 DEF InstallerStep

-----------------------------------------------------------------------------
(* The inductive invariant, step by step *)

\* Nothing read, nothing installed.
LEMMA InitIInv == Init => IInv
<1> SUFFICES ASSUME Init PROVE IInv
  OBVIOUS
<1> USE InstallerAssumption DEF Init, BundlerInit
<1>1. TypeOK
  <2>1. BundlerTypeOK
    <3>1. ~inDocstring /\ ~docDone /\ ~skipUntilClose /\ ~mangled
      BY Zenon
    <3>2. /\ inDocstring \in BOOLEAN /\ docDone \in BOOLEAN
          /\ skipUntilClose \in BOOLEAN /\ mangled \in BOOLEAN
      BY Zenon
    <3>3. lines \in 0..MaxLines /\ lex \in {"top", "doc", "body", "string", "import"}
      OBVIOUS
    <3> QED BY <3>1, <3>2, <3>3, Zenon DEF BundlerTypeOK
  <2>2. ServerTypeOK
    BY Zenon DEF ServerTypeOK
  <2>3. RunnerTypeOK
    BY DEF RunnerTypeOK, Ended
  <2>4. bundle \in {"reading", "ok", "broken"} /\ admin \in 0..MaxAdmin
    OBVIOUS
  <2>5. touched \in BOOLEAN
    BY Zenon
  <2> QED BY <2>1, <2>2, <2>3, <2>4, <2>5, Zenon DEF TypeOK
<1>2. InStep
  BY DEF InStep, FlagsInStep
<1>3. OneCreator
  BY DEF OneCreator
<1>4. Progress
  BY DEF Progress, AfterWrite
<1> QED BY <1>1, <1>2, <1>3, <1>4 DEF IInv

\* A line of a module, whatever it is, keeps the strippers in step with Python
\* (read_module()).
LEMMA ReadStep == IInv /\ Read => IInv'
<1> SUFFICES ASSUME IInv, Read PROVE IInv'
  OBVIOUS
<1>1. PICK line \in Lines :
        /\ lex' = LexAfter(line)
        /\ \/ Drop(line) /\ mangled' = (mangled \/ Wanted(line))
           \/ KeepLine(line) /\ mangled' = (mangled \/ ~Wanted(line))
  BY DEF Read, ReadLine
<1>2. InStep /\ lex \in {"top", "doc", "body", "string", "import"}
  BY DEF IInv, TypeOK, BundlerTypeOK
<1>3. FlagsInStep'
  BY <1>1, <1>2, LineInStep
<1>4. ~mangled'
  <2>1. (Drop(line) => ~Wanted(line)) /\ (KeepLine(line) => Wanted(line))
    BY <1>2, RightlyDropped
  <2> QED BY <1>1, <1>2, <2>1, Zenon DEF InStep
<1>5. InStep'
  BY <1>3, <1>4 DEF InStep
<1>6. BundlerTypeOK'
  <2>1. lex' \in {"top", "doc", "body", "string", "import"}
    BY <1>1, <1>2 DEF LexAfter, Lines
  <2>2. lines' \in 0..MaxLines
    BY InstallerAssumption DEF IInv, TypeOK, BundlerTypeOK, Read, ReadLine
  <2>3. inDocstring' \in BOOLEAN /\ docDone' \in BOOLEAN /\ skipUntilClose' \in BOOLEAN
    BY <1>1, FlagsAreBoolean DEF IInv, TypeOK
  <2>4. mangled' \in BOOLEAN
    BY <1>4, <1>1, Zenon
  <2>5. ~(inDocstring' /\ docDone')
    BY <1>3, <2>1 DEF FlagsInStep
  <2> QED BY <2>1, <2>2, <2>3, <2>4, <2>5 DEF BundlerTypeOK
<1>7. UNCHANGED <<bundle, serverVars, runnerVars, adminVars>>
  BY DEF Read
<1>8. TypeOK'
  BY <1>6, <1>7 DEF IInv, TypeOK, ServerTypeOK, RunnerTypeOK, serverVars, runnerVars,
                    adminVars
<1>9. OneCreator' /\ Progress'
  BY <1>7 DEF IInv, OneCreator, Progress, serverVars, runnerVars, adminVars
<1> QED BY <1>5, <1>8, <1>9 DEF IInv

\* The compile check changes nothing but the verdict (verify_bundle()).
LEMMA VerifyStep == IInv /\ VerifyBundle => IInv'
<1> SUFFICES ASSUME IInv, VerifyBundle PROVE IInv'
  OBVIOUS
<1> USE DEF VerifyBundle, bundlerVars, serverVars, runnerVars, adminVars
<1>1. TypeOK'
  BY DEF IInv, TypeOK, BundlerTypeOK, ServerTypeOK, RunnerTypeOK
<1>2. InStep'
  BY DEF IInv, InStep, FlagsInStep
<1>3. OneCreator' /\ Progress'
  BY DEF IInv, OneCreator, Progress
<1> QED BY <1>1, <1>2, <1>3 DEF IInv

\* After an intervention nothing is promised any more but types and the bundle.
LEMMA AdminStep == IInv /\ Administer => IInv'
<1> SUFFICES ASSUME IInv, Administer PROVE IInv'
  OBVIOUS
<1> USE DEF Administer, bundlerVars, serverVars, runnerVars, adminVars
<1>1. TypeOK'
  <2>1. BundlerTypeOK' /\ bundle' \in {"reading", "ok", "broken"} /\ RunnerTypeOK'
    BY DEF IInv, TypeOK, BundlerTypeOK, RunnerTypeOK
  <2>2. touched' \in BOOLEAN /\ admin' \in 0..MaxAdmin
    BY InstallerAssumption DEF IInv, TypeOK
  <2>3. active' \in BOOLEAN /\ valves' \in BOOLEAN
    BY Zenon DEF IInv, TypeOK, ServerTypeOK
  <2>4. content' \in Installers \cup {Nobody}
    BY DEF IInv, TypeOK, ServerTypeOK
  <2>5. content' = Nobody => ~active' /\ ~valves'
    BY Zenon
  <2> QED BY <2>1, <2>2, <2>3, <2>4, <2>5 DEF TypeOK, ServerTypeOK
<1>2. InStep'
  BY DEF IInv, InStep, FlagsInStep
<1>3. OneCreator' /\ Progress'
  BY DEF IInv, OneCreator, Progress
<1> QED BY <1>1, <1>2, <1>3 DEF IInv

\* The requests keep the types.
LEMMA StepTypeOK == ASSUME NEW i \in Installers, TypeOK, InstallerStep(i) PROVE TypeOK'
<1>1. UNCHANGED <<bundlerVars, bundle, adminVars>>
  BY Zenon DEF InstallerStep, Probe, Create, Update, LoadValves, SetValves, Enable, At
<1>2. BundlerTypeOK'
  BY <1>1 DEF bundlerVars, TypeOK, BundlerTypeOK
<1> QED BY <1>1, <1>2, ServerTypes, RunnerTypes DEF TypeOK, adminVars

\* The requests are made when the bundle is finished.
LEMMA StepInStep == ASSUME NEW i \in Installers, InStep, InstallerStep(i) PROVE InStep'
<1>1. UNCHANGED bundlerVars
  BY Zenon DEF InstallerStep, Probe, Create, Update, LoadValves, SetValves, Enable, At
<1> QED BY <1>1 DEF bundlerVars, InStep, FlagsInStep

\* function_exists() only decides how to go on; it has no part in what is known.
LEMMA ProbeStep == ASSUME NEW i \in Installers, IInv, Probe(i) PROVE OneCreator' /\ Progress'
<1> USE DEF Probe, At, Goto, serverVars, adminVars
<1>1. OneCreator'
  BY DEF IInv, OneCreator, TypeOK, RunnerTypeOK
<1>2. Progress'
  BY DEF IInv, Progress, AfterWrite, TypeOK, RunnerTypeOK, OneCreator
<1> QED BY <1>1, <1>2

\* The server creates a function once, so the creator finds nothing that another
\* invocation could have finished (create_or_update()).
LEMMA CreateStep == ASSUME NEW i \in Installers, IInv, Create(i) PROVE OneCreator' /\ Progress'
<1>1. pc[i] = "create" /\ i \notin created /\ UNCHANGED <<touched, warned, bare>>
  BY Zenon DEF Create, At, adminVars, Unanswered, IInv, OneCreator
<1>2. /\ created \subseteq Installers
      /\ pc \in [Installers -> {"probe", "create", "update", "load", "valves", "enable"} \cup Ended]
  BY DEF IInv, TypeOK, RunnerTypeOK
<1>3. CASE ServerCreates(i)
  <2>1. content = Nobody /\ content' # Nobody /\ ~active'
    BY <1>3, InstallerAssumption DEF ServerCreates
  <2>2. ~touched => created = {}
    BY <2>1 DEF IInv, OneCreator
  <2>3. ~touched => \A j \in Installers : pc[j] \notin AfterWrite
    BY <2>1 DEF IInv, Progress
  <2>4. \/ created' = created \cup {i} /\ pc' = [pc EXCEPT ![i] = "load"]
        \/ created' = created /\ pc' = [pc EXCEPT ![i] = "crashed"]
        \/ created' = created /\ pc' = [pc EXCEPT ![i] = "failed"]
    BY Zenon DEF Create, Goto, Unanswered
  <2>5. OneCreator'
    BY <1>1, <1>2, <2>1, <2>2, <2>4 DEF OneCreator, IInv
  <2>6. Progress'
    BY <1>1, <1>2, <2>1, <2>3, <2>4 DEF Progress, AfterWrite
  <2> QED BY <2>5, <2>6
<1>4. CASE ~ServerCreates(i)
  <2>1. UNCHANGED serverVars /\ created' = created
    BY <1>4, Zenon DEF Create, Unanswered
  <2>2. pc' = [pc EXCEPT ![i] = "crashed"] \/ pc' = [pc EXCEPT ![i] = "failed"]
    BY <1>4, Zenon DEF Create, Goto, Unanswered
  <2>3. OneCreator'
    BY <1>1, <1>2, <2>1, <2>2 DEF OneCreator, IInv, serverVars
  <2>4. Progress'
    BY <1>1, <1>2, <2>1, <2>2 DEF Progress, AfterWrite, IInv, serverVars
  <2> QED BY <2>3, <2>4
<1> QED BY <1>3, <1>4

\* An update needs a function and leaves its switch and its valves alone
\* (create_or_update()).
LEMMA UpdateStep == ASSUME NEW i \in Installers, IInv, Update(i) PROVE OneCreator' /\ Progress'
<1>1. pc[i] = "update" /\ i \notin created /\ UNCHANGED <<touched, created, warned, bare>>
  BY Zenon DEF Update, At, adminVars, Unanswered, IInv, OneCreator
<1>2. /\ created \subseteq Installers
      /\ pc \in [Installers -> {"probe", "create", "update", "load", "valves", "enable"} \cup Ended]
  BY DEF IInv, TypeOK, RunnerTypeOK
<1>3. UNCHANGED <<active, valves>>
  BY Zenon DEF Update, ServerUpdates, Unanswered, serverVars
<1>4. content # Nobody => content' # Nobody
  BY InstallerAssumption DEF Update, ServerUpdates, serverVars
<1>5. \/ content' # Nobody /\ pc' = [pc EXCEPT ![i] = "load"]
      \/ pc' = [pc EXCEPT ![i] = "crashed"]
      \/ pc' = [pc EXCEPT ![i] = "failed"]
  BY InstallerAssumption DEF Update, ServerUpdates, Unanswered, Goto
<1>6. OneCreator'
  BY <1>1, <1>2, <1>3, <1>4, <1>5 DEF OneCreator, IInv
<1>7. Progress'
  BY <1>1, <1>2, <1>3, <1>4, <1>5 DEF Progress, AfterWrite, IInv
<1> QED BY <1>6, <1>7

\* Reading the valves sends nothing (load_valves()).
LEMMA LoadStep == ASSUME NEW i \in Installers, IInv, LoadValves(i) PROVE OneCreator' /\ Progress'
<1> USE DEF LoadValves, At, Goto, serverVars, adminVars
<1>1. OneCreator'
  BY DEF IInv, OneCreator, TypeOK, RunnerTypeOK
<1>2. Progress'
  BY DEF IInv, Progress, AfterWrite, TypeOK, RunnerTypeOK, OneCreator
<1> QED BY <1>1, <1>2

\* Valves are set, or a warning is printed, before the invocation goes on
\* (set_valves()).
LEMMA SetStep == ASSUME NEW i \in Installers, IInv, SetValves(i) PROVE OneCreator' /\ Progress'
<1> USE DEF SetValves, At, Goto, Warn, Unanswered, serverVars, adminVars
<1>1. OneCreator'
  BY DEF IInv, OneCreator, TypeOK, RunnerTypeOK
<1>2. Progress'
  BY DEF IInv, Progress, AfterWrite, TypeOK, RunnerTypeOK, OneCreator
<1> QED BY <1>1, <1>2

\* The creator toggles a function that nobody has switched on yet, everybody else
\* leaves the switch alone (enable()).
LEMMA EnableStep == ASSUME NEW i \in Installers, IInv, Enable(i) PROVE OneCreator' /\ Progress'
<1>1. pc[i] = "enable" /\ UNCHANGED <<touched, content, valves, created, bare>>
  BY Zenon DEF Enable, At, adminVars, serverVars, Unanswered
<1>2. /\ created \subseteq Installers
      /\ pc \in [Installers -> {"probe", "create", "update", "load", "valves", "enable"} \cup Ended]
  BY DEF IInv, TypeOK, RunnerTypeOK
<1>3. \/ i \in created /\ active' = ~active /\ warned' = warned
      \/ UNCHANGED active /\ warned' = warned /\ i \notin created /\ pc' = [pc EXCEPT ![i] = "done"]
      \/ UNCHANGED active /\ warned' = warned /\ pc' = [pc EXCEPT ![i] = "crashed"]
      \/ UNCHANGED active /\ warned' = warned \cup {i} /\ pc' = [pc EXCEPT ![i] = "done"]
  BY Zenon DEF Enable, MustToggle, Goto, Warn, Unanswered, serverVars
<1>4. pc' = [pc EXCEPT ![i] = "done"] \/ pc' = [pc EXCEPT ![i] = "crashed"]
  BY Zenon DEF Enable, Goto, Unanswered
<1>5. CASE i \in created /\ active' = ~active /\ warned' = warned
  <2>1. ~touched => active' /\ \A j \in created : j = i
    <3>1. ~touched => ~active
      BY <1>1, <1>5 DEF IInv, OneCreator
    <3> QED BY <3>1, <1>5, Zenon DEF IInv, OneCreator
  <2>2. i \in created /\ warned' = warned
    BY <1>5
  <2>3. OneCreator'
    BY <1>1, <1>2, <1>4, <2>1, <2>2 DEF OneCreator, IInv
  <2>4. Progress'
    BY <1>1, <1>2, <1>4, <2>1, <2>2 DEF Progress, AfterWrite, IInv
  <2> QED BY <2>3, <2>4
<1>6. CASE UNCHANGED active /\ warned' = warned /\ i \notin created /\ pc' = [pc EXCEPT ![i] = "done"]
  <2>1. OneCreator'
    BY <1>1, <1>2, <1>6 DEF OneCreator, IInv
  <2>2. Progress'
    BY <1>1, <1>2, <1>6 DEF Progress, AfterWrite, IInv
  <2> QED BY <2>1, <2>2
<1>7. CASE UNCHANGED active /\ warned' = warned /\ pc' = [pc EXCEPT ![i] = "crashed"]
  <2>1. OneCreator'
    BY <1>1, <1>2, <1>7 DEF OneCreator, IInv
  <2>2. Progress'
    BY <1>1, <1>2, <1>7 DEF Progress, AfterWrite, IInv
  <2> QED BY <2>1, <2>2
<1>8. CASE UNCHANGED active /\ warned' = warned \cup {i} /\ pc' = [pc EXCEPT ![i] = "done"]
  <2>1. OneCreator'
    BY <1>1, <1>2, <1>8 DEF OneCreator, IInv
  <2>2. Progress'
    BY <1>1, <1>2, <1>8 DEF Progress, AfterWrite, IInv
  <2> QED BY <2>1, <2>2
<1> QED BY <1>3, <1>5, <1>6, <1>7, <1>8

-----------------------------------------------------------------------------
(* The theorems *)

\* Every step keeps the inductive invariant.
LEMMA NextIInv == IInv /\ [Next]_vars => IInv'
<1> SUFFICES ASSUME IInv, [Next]_vars PROVE IInv'
  OBVIOUS
<1>1. CASE UNCHANGED vars
  <2> USE <1>1 DEF vars, bundlerVars, serverVars, runnerVars, adminVars
  <2>1. TypeOK'
    BY DEF IInv, TypeOK, BundlerTypeOK, ServerTypeOK, RunnerTypeOK
  <2>2. InStep'
    BY DEF IInv, InStep, FlagsInStep
  <2>3. OneCreator' /\ Progress'
    BY DEF IInv, OneCreator, Progress
  <2> QED BY <2>1, <2>2, <2>3 DEF IInv
<1>2. ASSUME NEW i \in Installers, InstallerStep(i) PROVE IInv'
  <2>1. TypeOK' /\ InStep'
    BY <1>2, StepTypeOK, StepInStep DEF IInv
  <2>2. OneCreator' /\ Progress'
    BY <1>2, ProbeStep, CreateStep, UpdateStep, LoadStep, SetStep, EnableStep
       DEF InstallerStep
  <2> QED BY <2>1, <2>2 DEF IInv
<1> QED BY <1>1, <1>2, ReadStep, VerifyStep, AdminStep DEF Next

\* The inductive invariant holds in every reachable state.
THEOREM Invariance == Spec => []IInv
<1> QED BY InitIInv, NextIInv, PTL DEF Spec

\* The variables have their types, whatever the number of invocations and lines.
THEOREM TypeCorrect == Spec => []TypeOK
<1>1. IInv => TypeOK
  BY DEF IInv
<1> QED BY <1>1, Invariance, PTL

\* Whatever the lines of the modules, a bundle that reaches the server holds what
\* Python wants kept and nothing else (read_module()).
THEOREM FaithfulBundles == Spec => []OnlyFaithfulBundles
<1>1. IInv => OnlyFaithfulBundles
  BY DEF IInv, InStep, OnlyFaithfulBundles
<1> QED BY <1>1, Invariance, PTL

\* However many invocations run at once and wherever they fail, one that ends well
\* without a warning has installed the function, given it its valves, and switched
\* it on if it created it, unless the administrator interfered (main()).
THEOREM TruthfulDone == Spec => []DoneMeansDone
<1>1. IInv => DoneMeansDone
  BY DEF IInv, Progress, AfterWrite, DoneMeansDone
<1> QED BY <1>1, Invariance, PTL

\* However many invocations run at once and wherever they fail, none switches off an
\* active function, unless the administrator interfered (the guard around
\* enable()).
THEOREM StaysOn == Spec => NeverSwitchesOff
<1>1. IInv /\ [Next]_vars => [active /\ ~active' => touched']_vars
  <2> SUFFICES ASSUME IInv, Next, active, ~active' PROVE touched'
    BY Zenon DEF vars, serverVars
  <2>1. CASE Administer
    BY <2>1, Zenon DEF Administer
  <2>2. ASSUME NEW i \in Installers, InstallerStep(i) PROVE touched'
    <3>1. UNCHANGED touched
      BY <2>2, Zenon DEF InstallerStep, Probe, Create, Update, LoadValves, SetValves,
                         Enable, At, adminVars
    <3>2. CASE ServerCreates(i) /\ Create(i)
      <4>1. content = Nobody
        BY <3>2 DEF ServerCreates
      <4> QED BY <3>1, <4>1, Zenon DEF IInv, TypeOK, ServerTypeOK
    <3>3. CASE Enable(i) /\ i \in created
      <4>1. pc[i] = "enable"
        BY <3>3 DEF Enable, At
      <4>2. ~touched => ~active
        BY <3>3, <4>1 DEF IInv, OneCreator
      <4> QED BY <3>1, <4>2, Zenon
    <3>4. CASE ~(ServerCreates(i) /\ Create(i)) /\ ~(Enable(i) /\ i \in created)
      <4>1. UNCHANGED active
        BY <2>2, <3>4, Zenon DEF InstallerStep, Probe, Create, Update, LoadValves,
                                 SetValves, Enable,
                                 MustToggle, ServerUpdates, Unanswered, serverVars
      <4> QED BY <4>1, Zenon
    <3> QED BY <3>2, <3>3, <3>4, Zenon
  <2>3. CASE Read \/ VerifyBundle
    <3>1. UNCHANGED active
      BY <2>3, Zenon DEF Read, VerifyBundle, serverVars
    <3> QED BY <3>1, Zenon
  <2> QED BY <2>1, <2>2, <2>3, Zenon DEF Next
<1> QED BY <1>1, Invariance, PTL DEF Spec, NeverSwitchesOff
=============================================================================
