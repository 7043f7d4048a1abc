------------------------------ MODULE MCLxdialog ------------------------------
(***************************************************************************)
(* The boxes of lxdialog.  "kind" is the box; one box is one run of the    *)
(* program, so that the variables of the others stay as they are.          *)
(*                                                                         *)
(* menu: lists of one to seven items in a window of three rows, two of     *)
(* them with the same hot key and one with the key that also selects       *)
(* check, radio: lists of one to five items in a window of three rows      *)
(* text: files of up to nine bytes with line ends anywhere, of which a     *)
(* buffer of four holds a part, in a window of three rows and two columns  *)
(* ask: texts of up to six characters over two in a field of three cells,  *)
(* and the boxes that only have buttons                                    *)
(***************************************************************************)
EXTENDS LxMenu

CONSTANTS NUL, Blank, NoText

VARIABLES
  kind,
  listed, top, row, pressed, typed, on, printed, chosen, status, rows, more,   \* lists
  file, pos, page_length, hscroll, page, percent,                             \* text
  mode, asked, exit, answered, instr, left, input_x, field                    \* ask

lists == <<listed, top, row, pressed, typed, on, printed, chosen, status, rows, more>>
text == <<file, pos, page_length, hscroll, page, percent>>
ask == <<mode, asked, exit, answered, instr, left, input_x, field>>

MCItem == 1 .. 7
MCHot == [t \in MCItem |-> CASE t \in {2, 5} -> "u" [] t = 6 -> "select" [] OTHER -> "a"]
Upto(n) == [i \in 1 .. n |-> i]
MCLists == {Upto(n) : n \in {1, 2, 3, 5, 7}} \cup {<<4, 1, 2, 6, 5>>}
MCOldFiles == {-1, 1, 9, NoFile}

CheckHot == [t \in 1 .. 5 |-> CASE t \in {2, 5} -> "u" [] t = 4 -> "select" [] OTHER -> "a"]
CheckLists == {Upto(n) : n \in {1, 3, 5}} \cup {<<4, 1, 2, 5>>}

CheckList == INSTANCE LxCheck WITH
  items <- listed, scroll <- top, choice <- row, button <- pressed, key <- typed,
  status <- on, printed <- printed, answer <- chosen, code <- status, screen <- rows,
  arrows <- more, Item <- 1 .. 5, Hot <- CheckHot, Lists <- CheckLists,
  list_height <- menu_height, Radio <- FALSE
RadioList == INSTANCE LxCheck WITH
  items <- listed, scroll <- top, choice <- row, button <- pressed, key <- typed,
  status <- on, printed <- printed, answer <- chosen, code <- status, screen <- rows,
  arrows <- more, Item <- 1 .. 5, Hot <- CheckHot, Lists <- CheckLists,
  list_height <- menu_height, Radio <- TRUE

TextFiles ==
  UNION {{[size |-> n, newlines |-> s] : s \in SUBSET (0 .. n - 1)} : n \in {0, 3, 4, 5, 9}}
TextBox == INSTANCE LxText WITH
  screen <- page, BUF_SIZE <- 4, MAX_LEN <- 3, height <- 7, width <- 6, Files <- TextFiles

InitTexts == {<< >>, <<"a", "b">>, <<"b", "a", "a">>, <<"a", "b", "b", "a", "b", "b">>}
AskBox == INSTANCE LxDialog WITH
  button <- asked, code <- exit, printed <- answered, scroll <- left, Char <- {"a", "b"},
  MAX_LEN <- 6, box_width <- 3

ASSUME CheckList!CheckAssumption /\ RadioList!CheckAssumption
ASSUME CheckList!TagsDiffer /\ RadioList!TagsDiffer
ASSUME TextBox!TextAssumption /\ AskBox!InputAssumption

Kinds == {"menu", "check", "radio", "text", "ask"}
BoxInit == kind \in Kinds /\ Init /\ CheckList!Init /\ TextBox!Init /\ AskBox!Init
              /\ (kind # "menu" => scrltmp = NoFile)
BoxNext ==
  /\ UNCHANGED kind
  /\ \/ kind = "menu" /\ Next /\ UNCHANGED <<lists, text, ask>>
     \/ kind = "check" /\ CheckList!Next /\ UNCHANGED <<vars, text, ask>>
     \/ kind = "radio" /\ RadioList!Next /\ UNCHANGED <<vars, text, ask>>
     \/ kind = "text" /\ TextBox!Next /\ UNCHANGED <<vars, lists, ask>>
     \/ kind = "ask" /\ AskBox!Next /\ UNCHANGED <<vars, lists, text>>
BoxSpec == BoxInit /\ [][BoxNext]_<<kind, vars, lists, text, ask>>

-----------------------------------------------------------------------------
(* textbox.c:147-273, 328-535: the rows are consecutive lines of the file, *)
(* whatever part of it the buffer holds; begin_reached and end_reached     *)
(* tell whether the first and the last line are shown; "Internal error in  *)
(* back_lines()" is never reported.                                        *)
TextRight == TextBox!ScreenRight /\ TextBox!EndsKnown /\ TextBox!NoInternalError

(* What the boxes other than the menu show after painting a part of        *)
(* themselves is what the keys then act on.  The rows of a check or radio  *)
(* list are the part from scroll on, with the marks of the items, one      *)
(* highlighted, and the arrows right, whichever items were on              *)
(* (checklist.c:60-98, 204-335); the input box shows the end of the text   *)
(* that is edited (inputbox.c:127-206).                                    *)
BoxesRight == CheckList!ScreenRight /\ TextRight /\ AskBox!FieldRight

(* To its user each box is simpler than its code: a check list is a cursor *)
(* in a list, a text box a window on the lines of the file, an input box a *)
(* line that is edited at its end and answered (inputbox.c:127-206); and a *)
(* menu that a toggle has closed comes back as it was (menubox.c:240).     *)
BoxesAsPromised ==
  CheckList!IsCursor /\ TextBox!IsWindow /\ AskBox!IsEditor /\ ComesBack
=============================================================================
