------------------------------- MODULE LxMenu -------------------------------
(***************************************************************************)
(* The menu box of lxdialog (scripts/lxdialog/menubox.c).  The program is  *)
(* started again for every screen; "lxdialog.scrltmp" carries the scroll   *)
(* position from one start to the next, while the list may change.         *)
(*                                                                         *)
(* Rows of the window are repainted one by one and shifted by the          *)
(* terminal, so what the user sees ("screen", "arrows") is state of its    *)
(* own, apart from scroll and choice.                                      *)
(***************************************************************************)
EXTENDS Integers, Sequences

CONSTANTS
  Item,        \* tags
  NoItem,
  Hot,         \* [Item -> hot key]: the first_alpha of the item's text
  Lists,       \* the lists menuconfig may show: non-empty sequences of items
  menu_height,
  NoFile,
  OldFiles     \* what lxdialog.scrltmp may hold at the start

ASSUME MenuAssumption ==
  /\ menu_height \in Nat \ {0}
  /\ Lists \subseteq Seq(Item) \ {<< >>}
  /\ NoItem \notin Item
  /\ NoFile \notin Int
  /\ OldFiles \subseteq Int \cup {NoFile}

VARIABLES items, scroll, choice, button, key,
  answer,   \* the tag printed on exit, NoItem before
  code,     \* the exit status
  scrltmp,  \* contents of the file
  screen,   \* [row -> [item, lit]]
  arrows    \* the scroll indicators shown: {"up", "down"} or a part of it

vars == <<items, scroll, choice, button, key, answer, code, scrltmp, screen, arrows>>

Row == [item : Item, lit : BOOLEAN]
AtMost(a, b)  == IF a < b THEN a ELSE b
AtLeast(a, b) == IF a > b THEN a ELSE b

MaxChoice(list) == AtMost(menu_height, Len(list))
max_choice == MaxChoice(items)
Rows(list) == 0 .. MaxChoice(list) - 1
IsOpen == items # << >> /\ answer = NoItem
item_no == Len(items)

Init ==
  /\ items = << >> /\ scroll = 0 /\ choice = 0 /\ button = 0 /\ key = "none"
  /\ answer = NoItem /\ code = 0 /\ screen = << >> /\ arrows = {}
  /\ scrltmp \in OldFiles

-----------------------------------------------------------------------------
\* the last item with the tag the caller names, else the first item
Current(list, tag) ==
  LET at == {i \in 1 .. Len(list) : list[i] = tag} IN
  IF at = {} THEN 0 ELSE (CHOOSE i \in at : \A j \in at : j <= i) - 1

Usable(s, sel, n, max) ==
  /\ s # NoFile
  /\ s <= sel /\ s + max > sel
  /\ s >= 0 /\ s + max <= n

\* without a saved position the selected item is put in the middle
Centred(sel, n, max) ==
  IF sel < max \div 2 THEN 0
  ELSE IF sel >= n - max \div 2 THEN n - max
  ELSE sel - max \div 2

FirstItem(s, sel, n, max) == IF Usable(s, sel, n, max) THEN s ELSE Centred(sel, n, max)

ArrowsAt(s, n) ==
  (IF s > 0 THEN {"up"} ELSE {})
  \cup (IF menu_height < n /\ s + menu_height < n THEN {"down"} ELSE {})

\* lxdialog --menu ... <tag> <list>
dialog_menu(list, tag) ==
  LET sel == Current(list, tag)
      top == FirstItem(scrltmp, sel, Len(list), MaxChoice(list))
  IN
  /\ ~IsOpen
  /\ items' = list /\ scroll' = top /\ choice' = sel - top
  /\ scrltmp' = IF Usable(scrltmp, sel, Len(list), MaxChoice(list)) THEN scrltmp ELSE NoFile
  /\ screen' = [r \in Rows(list) |-> [item |-> list[top + r + 1], lit |-> r = sel - top]]
  /\ arrows' = ArrowsAt(top, Len(list))
  /\ button' = 0 /\ key' = "none" /\ answer' = NoItem /\ code' = 0

-----------------------------------------------------------------------------
(* Moving.  The old row is painted unselected, the window is shifted by k  *)
(* rows, the rows that come in are painted, then the new row is painted    *)
(* selected.                                                               *)
KeepLit == screen  \* mutant: the old row stays highlighted
Dimmed == [screen EXCEPT ![choice] = [item |-> items[scroll + choice + 1], lit |-> FALSE]]

RowsDown(k) == [r \in Rows(items) |->
  IF r < k THEN [item |-> items[scroll - k + r + 1], lit |-> FALSE] ELSE Dimmed[r - k]]
RowsUp(k) == [r \in Rows(items) |->
  IF r < max_choice - k THEN Dimmed[r + k]
  ELSE [item |-> items[scroll + k + r + 1], lit |-> FALSE]]

Select(k, by, pos, rows) ==
  /\ IsOpen
  /\ key' = k /\ scroll' = scroll + by /\ choice' = pos
  /\ screen' = [rows EXCEPT ![pos] = [item |-> items[scroll + by + pos + 1], lit |-> TRUE]]
  /\ arrows' = ArrowsAt(scroll + by, item_no)
  /\ UNCHANGED <<items, button, answer, code, scrltmp>>

KeyUp ==
  IF choice < 2 /\ scroll > 0
  THEN Select("up", -1, choice, RowsDown(1))
  ELSE Select("up", 0, AtLeast(choice - 1, 0), Dimmed)

ScrollsDown == choice > max_choice - 3 /\ scroll + max_choice < item_no

KeyDown ==
  IF ScrollsDown
  THEN Select("down", 1, choice, RowsUp(1))
  ELSE Select("down", 0, AtMost(choice + 1, max_choice - 1), Dimmed)

\* max_choice steps, each scrolls or, when it cannot, moves the selection
PageUp ==
  LET k == AtMost(scroll, max_choice) IN
  Select("ppage", -k, AtLeast(choice - (max_choice - k), 0), RowsDown(k))

StayInPage(k) == choice  \* mutant: page down stops before the last item
PageDownChoice(k) == AtMost(choice + (max_choice - k), max_choice - 1)

PageDown ==
  LET k == AtMost(item_no - max_choice - scroll, max_choice) IN
  Select("npage", k, PageDownChoice(k), RowsUp(k))

(* A hot key goes to the next item in the window that has it, round the    *)
(* end.  y, n and m are never hot keys.                                    *)
HasKey(r, k) == Hot[items[scroll + r + 1]] = k
Hits(k) == {r \in Rows(items) : HasKey(r, k)}
Later(k) == {r \in Hits(k) : r > choice}
LeastOf(S) == CHOOSE r \in S : \A q \in S : r <= q
IsHotKey(k) == k \notin {"y", "n", "m"} /\ Hits(k) # {}

HotKey(k) ==
  /\ IsOpen /\ IsHotKey(k)
  /\ Select(k, 0, LeastOf(IF Later(k) # {} THEN Later(k) ELSE Hits(k)), Dimmed)

-----------------------------------------------------------------------------
NextButton(k) == (IF k = "left" THEN button + 2 ELSE button + 1) % 3

Buttons(k) ==
  /\ IsOpen /\ ~IsHotKey(k)
  /\ button' = NextButton(k)
  /\ key' = k
  /\ UNCHANGED <<items, scroll, choice, answer, code, scrltmp, screen, arrows>>

Exit(k, status, tag, file) ==
  /\ IsOpen /\ ~IsHotKey(k)
  /\ key' = k /\ code' = status /\ answer' = tag /\ scrltmp' = file
  /\ UNCHANGED <<scroll, choice, screen, arrows>>

Shown == items[scroll + choice + 1]

(* Toggling keys: menuconfig will show the same menu again.                *)
ToggleCode == [k \in {"select", "y", "n", "m", "space"} |->
  CASE k = "n" -> 4 [] k = "m" -> 5 [] k = "space" -> 6 [] OTHER -> 3]
SavedScroll == scroll

Toggle(k) ==
  /\ Exit(k, ToggleCode[k], Shown, SavedScroll)
  /\ UNCHANGED <<items, button>>

Enter ==
  /\ Exit("enter", button, Shown, NoFile)
  /\ UNCHANGED <<items, button>>

Help ==
  /\ Exit("help", 2, Shown, NoFile)
  /\ button' = 2 /\ UNCHANGED items

(* ESC, e and x print no tag.                                              *)
Escape ==
  /\ Exit("exit", -1, NoItem, NoFile)
  /\ items' = << >> /\ UNCHANGED button

Next ==
  \/ \E list \in Lists, tag \in Item \cup {NoItem} : dialog_menu(list, tag)
  \/ KeyUp \/ KeyDown \/ PageUp \/ PageDown
  \/ \E k \in {Hot[t] : t \in Item} : HotKey(k)
  \/ \E k \in {"left", "right"} : Buttons(k)
  \/ \E k \in DOMAIN ToggleCode : Toggle(k)
  \/ Enter \/ Help \/ Escape

Spec == Init /\ [][Next]_vars

-----------------------------------------------------------------------------
(* Properties.                                                             *)
TypeOK ==
  /\ items \in Seq(Item) /\ scroll \in Nat /\ choice \in Nat /\ button \in 0 .. 2
  /\ answer \in Item \cup {NoItem} /\ code \in -1 .. 6
  /\ scrltmp \in Int \cup {NoFile}
  /\ items # << >> => screen \in [Rows(items) -> Row]
  /\ arrows \subseteq {"up", "down"}

(* The rows that were shifted and repainted are the part of the list from  *)
(* scroll on, with exactly the chosen row highlighted, and the indicators  *)
(* tell whether there is more (menubox.c:318-402).                         *)
ScreenRight == items # << >> =>
  /\ choice \in Rows(items) /\ scroll + max_choice <= item_no
  /\ screen = [r \in Rows(items) |->
                 [item |-> items[scroll + r + 1], lit |-> r = choice]]
  /\ arrows = {a \in {"up", "down"} :
                 IF a = "up" THEN scroll > 0 ELSE scroll + max_choice < item_no}

(* The dialog behaves as a plain cursor in a list, whatever the file held, *)
(* however the window scrolls.                                             *)
Cursor == INSTANCE ListCursor WITH
  selected <- scroll + choice, PageSize <- menu_height

IsCursor == Cursor!Spec

(* After a toggle the same menu comes back exactly as it was left (the     *)
(* promise of menubox.c:35-42).                                            *)
ComesBack ==
  [][(answer # NoItem /\ code >= 3 /\ answer' = NoItem /\ items' = items
        /\ scroll' + choice' = scroll + choice)
      => screen' = screen]_vars
=============================================================================
