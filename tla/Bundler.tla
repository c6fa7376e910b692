------------------------------ MODULE Bundler ------------------------------
(***************************************************************************)
(* read_module() (install.py): the three strippers that prepare a module   *)
(* for the bundle, as the line-by-line automata they are, beside a reader  *)
(* that knows Python's own view of the file.  A line is one of the classes *)
(* the strippers tell apart:                                               *)
(*   quote    starts with triple quotes, once    oneline  twice or more    *)
(*   tail     triple quotes, not at the start    code     none of these    *)
(*   future   "from __future__ import ..."       paren    a ")", no "("    *)
(*   local    a whole local import               open     one that goes on *)
(***************************************************************************)
EXTENDS Integers

CONSTANT MaxLines       \* bound: lines of the module

VARIABLES
    lines,              \* lines read
    lex,                \* where Python is: "top", "doc", "body", "string", "import"
    inDocstring,        \* in_docstring of _strip_module_docstring
    docDone,            \* doc_done of the same
    skipUntilClose,     \* skip_until_close of _strip_local_imports
    mangled             \* TRUE if a line was kept or dropped wrongly

bundlerVars == <<lines, lex, inDocstring, docDone, skipUntilClose, mangled>>

BundlerTypeOK ==
    /\ lines \in 0..MaxLines
    /\ lex \in {"top", "doc", "body", "string", "import"}
    /\ inDocstring \in BOOLEAN /\ docDone \in BOOLEAN
    /\ skipUntilClose \in BOOLEAN /\ mangled \in BOOLEAN
    /\ ~(inDocstring /\ docDone)

BundlerInit ==
    /\ lines = 0
    /\ lex = "top"
    /\ inDocstring = FALSE
    /\ docDone = FALSE
    /\ skipUntilClose = FALSE
    /\ mangled = FALSE

-----------------------------------------------------------------------------
(* Python's view of the repository's modules: each starts with a docstring, *)
(* prose may look like an import, and imports stand outside of strings.     *)

Lines ==
    CASE lex = "top" -> {"quote", "oneline"}
      [] lex = "doc" -> {"code", "local", "open", "future", "paren", "quote", "tail"}
      [] lex = "body" -> {"code", "paren", "local", "open", "future", "quote", "oneline"}
      [] lex = "string" -> {"code", "paren", "quote", "tail"}
      [] lex = "import" -> {"code", "paren"}

LexAfter(line) ==
    CASE lex = "top" -> IF line = "quote" THEN "doc" ELSE "body"
      [] lex \in {"doc", "string"} -> IF line \in {"quote", "tail"} THEN "body" ELSE lex
      [] lex = "import" -> IF line = "paren" THEN "body" ELSE lex
      [] lex = "body" -> IF line = "quote" THEN "string"
                         ELSE IF line = "open" THEN "import" ELSE lex

\* The docstring and the imports that the bundle makes void must go, nothing else.
Wanted(line) ==
    \/ lex = "string"
    \/ lex = "body" /\ line \notin {"local", "open", "future"}

-----------------------------------------------------------------------------
(* The strippers; a line dropped by one is not seen by the next *)

Starts(line) == line \in {"quote", "oneline"}

Quotes == {"quote", "oneline", "tail"}

\* Mutants: a docstring that closes on its first line is taken as open; the end
\* of the docstring is noted but not acted on.
OpenDocstring_OneLine(line) ==
    /\ ~inDocstring /\ ~docDone /\ Starts(line)
    /\ inDocstring' = TRUE /\ UNCHANGED docDone

CloseDocstring_StaysIn(line) ==
    /\ inDocstring
    /\ docDone' = (line \in Quotes) /\ UNCHANGED inDocstring

\* The first line that starts with triple quotes, over at once if it has two.
OpenDocstring(line) ==
    /\ ~inDocstring /\ ~docDone
    /\ \/ line = "quote" /\ inDocstring' = TRUE /\ UNCHANGED docDone
       \/ line = "oneline" /\ docDone' = TRUE /\ UNCHANGED inDocstring

\* All the lines after it, up to the next that has triple quotes anywhere.
CloseDocstring(line) ==
    /\ inDocstring
    /\ \/ line \in Quotes /\ inDocstring' = FALSE /\ docDone' = TRUE
       \/ line \notin Quotes /\ UNCHANGED <<inDocstring, docDone>>

StripDocstring(line) ==
    /\ OpenDocstring(line) \/ CloseDocstring(line)
    /\ UNCHANGED skipUntilClose

PastDocstring(line) == ~inDocstring /\ (docDone \/ ~Starts(line))

\* A local import, and all to the next line with a closing parenthesis.
StripLocalImport(line) ==
    /\ PastDocstring(line)
    /\ \/ skipUntilClose /\ line = "paren" /\ skipUntilClose' = FALSE
       \/ skipUntilClose /\ line # "paren" /\ UNCHANGED skipUntilClose
       \/ ~skipUntilClose /\ line = "open" /\ skipUntilClose' = TRUE
       \/ ~skipUntilClose /\ line = "local" /\ UNCHANGED skipUntilClose
    /\ UNCHANGED <<inDocstring, docDone>>

StripFutureImport(line) ==
    /\ PastDocstring(line) /\ ~skipUntilClose
    /\ line = "future"
    /\ UNCHANGED <<inDocstring, docDone, skipUntilClose>>

KeepLine(line) ==
    /\ PastDocstring(line) /\ ~skipUntilClose
    /\ line \notin {"local", "open", "future"}
    /\ UNCHANGED <<inDocstring, docDone, skipUntilClose>>

Drop(line) == StripDocstring(line) \/ StripLocalImport(line) \/ StripFutureImport(line)

\* One line through all of them, and what Python makes of it.
ReadLine ==
    /\ lines < MaxLines
    /\ lines' = lines + 1
    /\ \E line \in Lines :
        /\ lex' = LexAfter(line)
        /\ \/ Drop(line) /\ mangled' = (mangled \/ Wanted(line))
           \/ KeepLine(line) /\ mangled' = (mangled \/ ~Wanted(line))
=============================================================================
