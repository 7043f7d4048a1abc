------------------------------ MODULE LxCheck ------------------------------
(***************************************************************************)
(* The check list and the radio list of lxdialog                           *)
(* (scripts/lxdialog/checklist.c).  Rows are repainted one by one, with    *)
(* the mark of each item; menuconfig uses the radio list for choices.      *)
(***************************************************************************)
EXTENDS Integers, Sequences, Functions

CONSTANTS
  Item, NoItem,
  Hot,          \* [Item -> the first character of its text]
  Lists,        \* the lists it may be opened with
  list_height,
  Radio         \* FLAG_RADIO, else FLAG_CHECK

\* the instances assume this of the constants
CheckAssumption ==
  /\ list_height \in Nat \ {0}
  /\ Lists \subseteq Seq(Item) \ {<< >>}
  /\ NoItem \notin Item /\ Radio \in BOOLEAN
\* conf_choice of mconf.c tags an item with the address of its entry, so that
\* an item stands for its place in the list
TagsDiffer == \A list \in Lists : IsInjective(list)

VARIABLES items, scroll, choice, button, key,
  status,   \* the items that are on
  printed,  \* the tags printed on exit, in order
  answer,   \* the selected item when the dialog was closed, NoItem before
  code,     \* the exit status
  screen,   \* [row -> [item, on, lit]]
  arrows

vars == <<items, scroll, choice, button, key, status, printed, answer, code, screen, arrows>>

Row == [item : Item, on : BOOLEAN, lit : BOOLEAN]
AtMost(a, b)  == IF a < b THEN a ELSE b

max_choice == AtMost(list_height, Len(items))
Rows(list) == 0 .. AtMost(list_height, Len(list)) - 1
IsOpen == items # << >> /\ answer = NoItem
item_no == Len(items)
At(i) == items[i + 1]

Init ==
  /\ items = << >> /\ scroll = 0 /\ choice = 0 /\ button = 0 /\ key = "none"
  /\ status = {} /\ printed = << >> /\ answer = NoItem /\ code = 0
  /\ screen = << >> /\ arrows = {}

-----------------------------------------------------------------------------
ArrowsAt(top, row, n) ==
  (IF top > 0 THEN {"up"} ELSE {})
  \cup (IF list_height < n /\ top + row < n - 1 THEN {"down"} ELSE {})

\* the first item that is on; an item that is on after the first item counts too
FirstOn(list, on) ==
  LET later == {i \in 2 .. Len(list) : list[i] \in on} IN
  IF later = {} THEN 0 ELSE (CHOOSE i \in later : \A j \in later : i <= j) - 1

TopFor(sel) == IF sel >= list_height THEN sel - list_height + 1 ELSE 0

dialog_checklist(list, on) ==
  LET sel == FirstOn(list, on)
      top == TopFor(sel)
  IN
  /\ ~IsOpen
  /\ items' = list /\ status' = on /\ scroll' = top /\ choice' = sel - top
  /\ screen' = [r \in Rows(list) |-> [item |-> list[top + r + 1],
                  on |-> list[top + r + 1] \in on, lit |-> r = sel - top]]
  /\ arrows' = ArrowsAt(top, sel - top, Len(list))
  /\ button' = 0 /\ key' = "none" /\ answer' = NoItem /\ printed' = << >> /\ code' = 0

-----------------------------------------------------------------------------
Painted(scr, r, i, lit) ==
  [scr EXCEPT ![r] = [item |-> At(i), on |-> At(i) \in status, lit |-> lit]]

Dimmed == Painted(screen, choice, scroll + choice, FALSE)

\* wscrl: the row that comes in is painted next
ShiftedDown(scr) == [r \in Rows(items) |-> IF r = 0 THEN scr[r] ELSE scr[r - 1]]
ShiftedUp(scr) == [r \in Rows(items) |-> IF r = max_choice - 1 THEN scr[r] ELSE scr[r + 1]]

Scroll(k, by, rows, paintRow) ==
  /\ IsOpen
  /\ key' = k /\ scroll' = scroll + by
  /\ screen' = Painted(IF list_height > 1 THEN rows ELSE screen,
                       paintRow, scroll + by + paintRow, TRUE)
  /\ arrows' = ArrowsAt(scroll + by, choice, item_no)
  /\ UNCHANGED <<items, choice, button, status, printed, answer, code>>

MoveTo(k, row) ==
  /\ IsOpen
  /\ key' = k /\ choice' = row
  /\ screen' = IF row = choice THEN screen
               ELSE Painted(Dimmed, row, scroll + row, TRUE)
  /\ UNCHANGED <<items, scroll, button, status, printed, answer, code, arrows>>

KeyUp ==
  CASE choice > 0 -> MoveTo("up", choice - 1)
    [] choice = 0 /\ scroll > 0 -> Scroll("up", -1, ShiftedDown(Dimmed), 0)
    [] OTHER -> MoveTo("up", choice)

AtEnd == scroll + choice >= item_no - 1

KeyDown ==
  CASE choice < max_choice - 1 -> MoveTo("down", choice + 1)
    [] choice = max_choice - 1 /\ ~AtEnd ->
         Scroll("down", 1, ShiftedUp(Dimmed), max_choice - 1)
    [] OTHER -> MoveTo("down", choice)

(* A hot key goes to the first item in the window that has it.             *)
Hits(k) == {r \in Rows(items) : Hot[At(scroll + r)] = k}
HotKey(k) ==
  /\ Hits(k) # {}
  /\ MoveTo(k, CHOOSE r \in Hits(k) : \A q \in Hits(k) : r <= q)

-----------------------------------------------------------------------------
NextButton(k) == (button + 1) % 2

Buttons(k) ==
  /\ IsOpen /\ Hits(k) = {}
  /\ button' = NextButton(k)
  /\ key' = k
  /\ UNCHANGED <<items, scroll, choice, status, printed, answer, code, screen, arrows>>

\* the radio list turns the others off only if the chosen item was off
NewStatus(t) ==
  IF t \notin status THEN (IF Radio THEN {t} ELSE status \cup {t})
  ELSE IF Radio THEN status ELSE status \ {t}

\* what the rows show afterwards: the radio list then paints them all again
Marked(on) ==
  IF Radio
  THEN IF At(scroll + choice) \in status THEN screen
       ELSE [r \in Rows(items) |-> [item |-> At(scroll + r),
               on |-> At(scroll + r) \in on, lit |-> r = choice]]
  ELSE [screen EXCEPT ![choice].on = At(scroll + choice) \in on]

(* Space, enter and s: the Select button switches the item and prints what *)
(* is on; the Help button only closes the dialog.                          *)
Press(k) ==
  /\ IsOpen /\ Hits(k) = {}
  /\ IF button = 0
     THEN LET on == NewStatus(At(scroll + choice)) IN
          /\ status' = on /\ screen' = Marked(on)
          /\ printed' = SelectSeq(items, LAMBDA t : t \in on)
     ELSE UNCHANGED <<status, screen, printed>>
  /\ key' = k /\ answer' = At(scroll + choice) /\ code' = button
  /\ UNCHANGED <<items, scroll, choice, button, arrows>>

Help ==
  /\ IsOpen /\ Hits("help") = {}
  /\ key' = "help" /\ answer' = At(scroll + choice) /\ code' = 1
  /\ UNCHANGED <<items, scroll, choice, button, status, printed, screen, arrows>>

Escape ==
  /\ IsOpen /\ Hits("exit") = {}
  /\ key' = "exit" /\ items' = << >> /\ code' = -1
  /\ UNCHANGED <<scroll, choice, button, status, printed, answer, screen, arrows>>

\* any of the items may be on; menuconfig turns one on for a radio list
Openings(list) == SUBSET {list[i] : i \in 1 .. Len(list)}

Next ==
  \/ \E list \in Lists : \E on \in Openings(list) : dialog_checklist(list, on)
  \/ KeyUp \/ KeyDown
  \/ \E k \in {Hot[t] : t \in Item} : HotKey(k)
  \/ \E k \in {"left", "right"} : Buttons(k)
  \/ \E k \in {"space", "select", "enter"} : Press(k)
  \/ Help \/ Escape

Spec == Init /\ [][Next]_vars

-----------------------------------------------------------------------------
(* Properties.                                                             *)
TypeOK ==
  /\ items \in Seq(Item) /\ scroll \in Nat /\ choice \in Nat /\ button \in 0 .. 1
  /\ status \subseteq Item /\ printed \in Seq(Item) /\ answer \in Item \cup {NoItem}
  /\ code \in -1 .. 1
  /\ items # << >> => screen \in [Rows(items) -> Row]
  /\ arrows \subseteq {"up", "down"}

(* The rows show the part of the list from scroll on with their marks, the *)
(* chosen one highlighted; the indicators, which are not repainted by      *)
(* every move, tell whether there is more (checklist.c:60-98, 204-283).    *)
ScreenRight == items # << >> =>
  /\ choice \in Rows(items) /\ scroll + max_choice <= item_no
  /\ screen = [r \in Rows(items) |-> [item |-> At(scroll + r),
                 on |-> At(scroll + r) \in status, lit |-> r = choice]]
  /\ arrows = {a \in {"up", "down"} :
                 IF a = "up" THEN scroll > 0 ELSE scroll + max_choice < item_no}

(* The same cursor as in the menu box.                                     *)
Cursor == INSTANCE ListCursor WITH
  selected <- scroll + choice, PageSize <- list_height

IsCursor == Cursor!Spec
=============================================================================
