----------------------------- MODULE LineEditor -----------------------------
(***************************************************************************)
(* What the input box promises: a line of text that grows and shrinks at   *)
(* its end and is the answer if the user accepts it.  A backspace may only *)
(* bring hidden text back into view; the next one then deletes.            *)
(***************************************************************************)
EXTENDS Integers, Sequences

CONSTANTS Char, MaxLen, NoText

VARIABLES
  text,    \* the line, NoText when no input box is open
  inView,  \* the end of the text can be seen, or there is none
  answer   \* the text accepted last

vars == <<text, inView, answer>>

Init == text = NoText /\ inView = TRUE /\ answer = NoText

Open == text = NoText /\ text' \in Seq(Char) /\ inView' = TRUE /\ answer' = NoText
Append1 == \E ch \in Char :
  /\ text # NoText /\ Len(text) < MaxLen
  /\ text' = Append(text, ch) /\ inView' = TRUE /\ UNCHANGED answer
Delete ==
  /\ text # NoText /\ text # << >> /\ inView
  /\ text' = SubSeq(text, 1, Len(text) - 1) /\ UNCHANGED answer
Reveal == text # NoText /\ ~inView /\ inView' = TRUE /\ UNCHANGED <<text, answer>>
Accept == text # NoText /\ answer' = text /\ text' = NoText /\ inView' = TRUE
Leave == text # NoText /\ answer' = NoText /\ text' = NoText /\ inView' = TRUE

\* another kind of box is opened
Forget == text = NoText /\ answer' = NoText /\ UNCHANGED <<text, inView>>

Next == Forget \/ Open \/ Append1 \/ Delete \/ Reveal \/ Accept \/ Leave

Spec == Init /\ [][Next]_vars
=============================================================================
