---------------------------- MODULE EventMapper ----------------------------
(***************************************************************************)
(* map_agent_events() (event_mapper.py): what one run's events become on   *)
(* the user's screen.  A text is a sequence of words; the Gateway sends    *)
(* what it adds (data.delta), all it has said (data.text), or both.  Of a  *)
(* card only the done flag is kept; status lines are not.                  *)
(* The events come from Chat, which composes this module with the run.     *)
(***************************************************************************)
EXTENDS Integers, Sequences, SequencesExt

VARIABLES
    snapshot,       \* assistant_text: the text the next snapshot is compared with
    shown,          \* the assistant's text on the screen, in the order it was shown
    cards,          \* the done flag of every tool card, in the order they were shown
    finish          \* the chunk that ends the stream: "none", "stop", "error"

mapperVars == <<snapshot, shown, cards, finish>>

MapperInit ==
    /\ snapshot = <<>>
    /\ shown = <<>>
    /\ cards = <<>>
    /\ finish = "none"

\* Mutant: a full text is shown without looking at what is shown already.
Fresh_Whole(text) == text

\* The part of a full text not shown yet; all of it if it replaces the old one.
Fresh(text) ==
    IF IsPrefix(snapshot, text) THEN SubSeq(text, Len(snapshot) + 1, Len(text)) ELSE text

Emitted(e) == IF e.delta # <<>> THEN e.delta ELSE Fresh(e.text)

\* The snapshot after an event: a delta wins over a text sent beside it.
Absorb(e) ==
    IF e.delta # <<>> THEN snapshot \o e.delta
    ELSE IF e.text # <<>> THEN e.text ELSE snapshot

\* An assistant event; nothing is yielded if it brings nothing new.
ShowText(e) ==
    /\ shown' = shown \o Emitted(e)
    /\ snapshot' = Absorb(e)
    /\ UNCHANGED <<cards, finish>>

\* An item is over when its phase or its status says so; the output of a
\* command only when its phase does.
ItemDone(e) ==
    \/ e.phase = "end"
    \/ e.source = "item" /\ e.status \in {"completed", "failed", "blocked"}

\* A tool, item or command_output event: always one more card.  The cards that
\* are on the screen stay as they are, the open card of the same item included.
ShowItem(e) ==
    /\ cards' = Append(cards, ItemDone(e))
    /\ UNCHANGED <<snapshot, shown, finish>>

\* The kinds of event that leave the text alone: an error line or the note of
\* a resolved approval is yielded, a thinking or lifecycle status awaits the
\* emitter, whose errors are swallowed, anything else is dropped.
AsideKinds == {"chunk", "status", "ignored"}

\* The terminal event: one chunk, and no event after it is looked at.
MapFinal(status) ==
    /\ finish' = IF status = "ok" THEN "stop" ELSE "error"
    /\ UNCHANGED <<snapshot, shown, cards>>
=============================================================================
