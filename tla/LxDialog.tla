------------------------------ MODULE LxDialog ------------------------------
(***************************************************************************)
(* The boxes of lxdialog that ask for a text or an answer (inputbox.c,     *)
(* yesno.c, msgbox.c), started by lxdialog.c with a mode and ended with an *)
(* exit status and, for a text that was accepted, the text on stderr.      *)
(*                                                                         *)
(* The input box keeps the text in a fixed array that ends at its first    *)
(* NUL; its field shows box_width cells of it and is repainted piece by    *)
(* piece, so the field is state of its own.                                *)
(***************************************************************************)
EXTENDS Integers, Sequences

CONSTANTS
  Char,       \* printable characters, without the % that printf would expand
  NUL, Blank, \* the end of the text, an empty cell
  MAX_LEN,
  box_width,  \* cells of the field
  InitTexts,  \* texts the box may be opened with
  NoText

\* the instances assume this of the constants
InputAssumption ==
  /\ MAX_LEN \in Nat /\ box_width \in Nat /\ 2 <= box_width /\ box_width <= MAX_LEN
  /\ NUL \notin Char /\ Blank \notin Char
  /\ InitTexts \subseteq {t \in Seq(Char) : Len(t) <= MAX_LEN}
  /\ NoText \notin Seq(Char)

VARIABLES
  mode,     \* the box that is open, "none" between two starts
  button,   \* the button selected; -1 is the field of the input box
  code,     \* the exit status of the last box
  printed,  \* what it printed: a text or NoText
  instr,    \* dialog_input_result
  scroll, input_x,
  field     \* the cells shown

vars == <<mode, button, code, printed, instr, scroll, input_x, field>>
input == <<instr, scroll, input_x, field>>

Columns == 0 .. box_width - 1
Array == [0 .. MAX_LEN -> Char \cup {NUL}]
EmptyArray == [i \in 0 .. MAX_LEN |-> NUL]

strlen(a) == CHOOSE n \in 0 .. MAX_LEN :
  a[n] = NUL /\ \A i \in 0 .. n - 1 : a[i] # NUL
Text(a) == [i \in 1 .. strlen(a) |-> a[i - 1]]

Init ==
  /\ mode = "none" /\ button = 0 /\ code = 0 /\ printed = NoText
  /\ instr = EmptyArray /\ scroll = 0 /\ input_x = 0 /\ field = [c \in Columns |-> Blank]

-----------------------------------------------------------------------------
(* lxdialog --yesno, --msgbox; a pause is asked for by --msgbox only, an   *)
(* infobox returns at once.                                                *)
Start(box, b) ==
  /\ mode = "none" /\ mode' = box /\ button' = b /\ code' = 0 /\ printed' = NoText

Ask == \E box \in {"yesno", "msgbox"} : Start(box, 0) /\ UNCHANGED input

Return(status) ==
  /\ mode' = "none" /\ code' = status /\ button' = 0
  /\ printed' = IF mode = "inputbox" /\ status = 0 THEN Text(instr) ELSE NoText
  /\ instr' = EmptyArray /\ scroll' = 0 /\ input_x' = 0 /\ field' = [c \in Columns |-> Blank]

\* the button after or before this one, of those from "first" to 1
Turn(step, first) == first + ((button - first + step + 2 - first) % (2 - first))

YesNo ==
  /\ mode = "yesno"
  /\ \/ \E answer \in {0, 1} : Return(answer)   \* y, n
     \/ Return(button)                        \* space, enter
     \/ Return(-1)                             \* ESC
     \/ /\ \E step \in {-1, 1} : button' = Turn(step, 0)
        /\ UNCHANGED <<mode, code, printed, input>>

MsgBox == mode = "msgbox" /\ (Return(0) \/ Return(-1))

-----------------------------------------------------------------------------
(* lxdialog --inputbox: the end of the text is in the field, one cell is   *)
(* left for the cursor.                                                    *)
dialog_inputbox(t) ==
  LET s == IF Len(t) >= box_width THEN Len(t) - box_width + 1 ELSE 0 IN
  /\ Start("inputbox", -1)
  /\ instr' = [i \in 0 .. MAX_LEN |-> IF i < Len(t) THEN t[i + 1] ELSE NUL]
  /\ scroll' = s /\ input_x' = Len(t) - s
  /\ field' = [c \in Columns |-> IF c < Len(t) - s THEN t[s + c + 1] ELSE Blank]

InField == mode = "inputbox" /\ button = -1

Rescrolled == IF scroll < box_width - 1 THEN 0 ELSE scroll - (box_width - 1)

Hidden(s, x, cells) ==  \* mutant: the character only disappears from the field
  /\ scroll' = s /\ input_x' = x /\ field' = [cells EXCEPT ![x] = Blank]
  /\ UNCHANGED instr
Deleted(s, x, cells) ==
  /\ scroll' = s /\ input_x' = x
  /\ instr' = [instr EXCEPT ![s + x] = NUL]
  /\ field' = [cells EXCEPT ![x] = Blank]

(* At the left edge the field only scrolls back.  It then shows cells      *)
(* behind the end of the text, too, up to box_width.                       *)
Backspace ==
  /\ InField
  /\ \/ input_x > 0 /\ Deleted(scroll, input_x - 1, field)
     \/ /\ input_x = 0 /\ scroll > 0
        /\ Deleted(Rescrolled, strlen(instr) - Rescrolled,
             [c \in Columns |-> IF instr[Rescrolled + c] = NUL THEN Blank ELSE instr[Rescrolled + c]])
  /\ UNCHANGED <<mode, button, code, printed>>

Appended(ch) == [instr EXCEPT ![scroll + input_x] = ch, ![scroll + input_x + 1] = NUL]

Scrolled(ch) == [c \in Columns |-> IF c < box_width - 1 THEN Appended(ch)[scroll + 1 + c] ELSE field[c]]

Type(ch) ==
  /\ InField /\ scroll + input_x < MAX_LEN
  /\ instr' = Appended(ch)
  /\ \/ /\ input_x = box_width - 1
        /\ scroll' = scroll + 1 /\ UNCHANGED input_x
        /\ field' = Scrolled(ch)
     \/ /\ input_x < box_width - 1
        /\ input_x' = input_x + 1 /\ UNCHANGED scroll
        /\ field' = [field EXCEPT ![input_x] = ch]
  /\ UNCHANGED <<mode, button, code, printed>>

(* field -> Ok -> Help -> field, and back                                  *)
Select ==
  /\ mode = "inputbox"
  /\ \E step \in {-1, 1} : button' = Turn(step, -1)
  /\ UNCHANGED <<mode, code, printed, input>>

CloseInput ==
  /\ mode = "inputbox"
  /\ \/ Return(IF button = -1 THEN 0 ELSE button)    \* enter, space
     \/ button # -1 /\ \E status \in {0, 1} : Return(status)   \* o, h
     \/ Return(-1)                                   \* ESC, x

Next ==
  \/ Ask \/ YesNo \/ MsgBox
  \/ \E t \in InitTexts : dialog_inputbox(t)
  \/ Backspace \/ \E ch \in Char : Type(ch)
  \/ Select \/ CloseInput

Spec == Init /\ [][Next]_vars

-----------------------------------------------------------------------------
TypeOK ==
  /\ mode \in {"none", "yesno", "msgbox", "inputbox"}
  /\ button \in -1 .. 1 /\ code \in -1 .. 1
  /\ printed \in Seq(Char) \cup {NoText}
  /\ instr \in Array /\ scroll \in 0 .. MAX_LEN /\ input_x \in Columns
  /\ field \in [Columns -> Char \cup {Blank}]

(* The cursor is at the end of the text, the array holds nothing behind    *)
(* it, and the field shows the text from scroll on with the cell of the    *)
(* cursor and those behind it empty (inputbox.c:111-175).  Scrolling back  *)
(* paints cells behind the end of the text and relies on this.             *)
FieldRight ==
  LET len == scroll + input_x IN
  /\ len <= MAX_LEN
  /\ \A i \in 0 .. MAX_LEN : instr[i] = NUL <=> i >= len
  /\ field = [c \in Columns |-> IF c < input_x THEN instr[scroll + c] ELSE Blank]

(* The box is a line editor: whatever is scrolled, a key adds or deletes   *)
(* one character at the end, at the limits it does nothing, no second      *)
(* backspace is lost, and the text accepted is the text typed.             *)
Editor == INSTANCE LineEditor WITH
  MaxLen <- MAX_LEN,
  text <- IF mode = "inputbox" THEN Text(instr) ELSE NoText,
  inView <- input_x > 0 \/ scroll = 0,
  answer <- printed

IsEditor == Editor!Spec
=============================================================================
