--------------------------- MODULE LxdialogProofs ---------------------------
(***************************************************************************)
(* What three boxes of lxdialog show is right, and each does what its user *)
(* sees it do: the menu box, the check list and the radio list are a       *)
(* cursor in a list, the input box edits a line at its end.  For every     *)
(* list, text and size of the window.                                      *)
(***************************************************************************)
EXTENDS LxMenu, SequenceTheorems, WellFoundedInduction, TLAPS

(* The menu box.  The window lies in the list and the choice in the window.*)
InWindow ==
  /\ items \in Seq(Item)
  /\ scroll \in Nat /\ choice \in Nat
  /\ scrltmp \in Int \cup {NoFile}
  /\ items # << >> => choice < max_choice /\ scroll + max_choice <= item_no

Inv == InWindow /\ ScreenRight

LEMMA LeastExists ==
  ASSUME NEW S, S \subseteq Nat, S # {}
  PROVE  /\ LeastOf(S) \in S
         /\ \A q \in S : LeastOf(S) <= q
<1>1. \E x \in S : \A y \in S : ~ (<<y, x>> \in OpToRel(<, Nat))
  BY WFMin, NatLessThanWellFounded, Zenon
<1>2. PICK x \in S : \A y \in S : ~ (<<y, x>> \in OpToRel(<, Nat))
  BY <1>1
<1>3. \A y \in S : ~(y < x)
  BY <1>2, Zenon DEF OpToRel
<1>4. \E r \in S : \A q \in S : r <= q
  BY <1>3
<1> QED
  BY <1>4 DEF LeastOf

(* The item that is selected when the dialog opens is in the list.         *)
LEMMA CurrentInList ==
  ASSUME NEW list \in Seq(Item), list # << >>, NEW tag
  PROVE  Current(list, tag) \in 0 .. Len(list) - 1
<1> DEFINE at == {i \in 1 .. Len(list) : list[i] = tag}
<1>0. Len(list) \in Nat /\ Len(list) > 0
  OBVIOUS
<1>1. CASE at = {}
  BY <1>0, <1>1 DEF Current
<1>2. CASE at # {}
  <2> DEFINE back == {Len(list) - i : i \in at}
  <2>0. PICK i0 \in at : TRUE
    BY <1>2
  <2>1. back \subseteq Nat /\ Len(list) - i0 \in back
    BY <1>0
  <2> DEFINE b == LeastOf(back)
  <2>2. b \in back /\ \A q \in back : b <= q
    BY <2>1, LeastExists
  <2> HIDE DEF b
  <2>3. PICK i \in at : b = Len(list) - i
    BY <2>2
  <2>4. \A j \in at : j <= i
    <3> TAKE j \in at
    <3>1. Len(list) - j \in back
      OBVIOUS
    <3>2. b <= Len(list) - j
      BY <2>2, <3>1
    <3> QED
      BY <1>0, <2>3, <3>2
  <2>5. (CHOOSE k \in at : \A j \in at : j <= k) \in at
    <3>1. \E k \in at : \A j \in at : j <= k
      BY <2>4
    <3> HIDE DEF at
    <3> QED
      BY <3>1
  <2> QED
    <3> DEFINE top == CHOOSE k \in at : \A j \in at : j <= k
    <3>1. Current(list, tag) = top - 1
      BY <1>2, Zenon DEF Current
    <3>2. top \in 1 .. Len(list)
      BY <2>5
    <3> HIDE DEF top
    <3> QED
      BY <1>0, <3>1, <3>2
<1> QED
  BY <1>1, <1>2

LEMMA FirstItemFits ==
  ASSUME NEW n \in Nat, NEW max \in Nat, 0 < max, max <= n,
         NEW s \in Int \cup {NoFile}, NEW sel \in 0 .. n - 1
  PROVE  LET top == FirstItem(s, sel, n, max) IN
         /\ top \in Nat /\ top <= sel /\ sel < top + max /\ top + max <= n
  BY MenuAssumption DEF FirstItem, Usable, Centred

LEMMA MaxChoiceFits ==
  ASSUME NEW list \in Seq(Item), list # << >>
  PROVE  /\ MaxChoice(list) \in Nat /\ 0 < MaxChoice(list)
         /\ MaxChoice(list) <= Len(list) /\ MaxChoice(list) <= menu_height
         /\ (menu_height < Len(list) => MaxChoice(list) = menu_height)
         /\ (Len(list) <= menu_height => MaxChoice(list) = Len(list))
<1>1. Len(list) \in Nat /\ Len(list) > 0
  OBVIOUS
<1> QED
  BY <1>1, MenuAssumption DEF MaxChoice, AtMost

(* The arrows printed for a window are right.                              *)
LEMMA ArrowsRight ==
  ASSUME NEW list \in Seq(Item), list # << >>,
         NEW top \in Nat, top + MaxChoice(list) <= Len(list)
  PROVE  ArrowsAt(top, Len(list)) =
           {a \in {"up", "down"} :
              IF a = "up" THEN top > 0 ELSE top + MaxChoice(list) < Len(list)}
<1>1. Len(list) \in Nat
  OBVIOUS
<1> QED
  BY <1>1, MaxChoiceFits, MenuAssumption DEF ArrowsAt

LEMMA OpenRight ==
  ASSUME Inv, NEW list \in Lists, NEW tag, dialog_menu(list, tag)
  PROVE  Inv'
<1>1. list \in Seq(Item) /\ list # << >> /\ Len(list) \in Nat
  BY MenuAssumption
<1> DEFINE sel == Current(list, tag)
           top == FirstItem(scrltmp, sel, Len(list), MaxChoice(list))
<1>2. /\ top \in Nat /\ top <= sel /\ sel < top + MaxChoice(list)
      /\ top + MaxChoice(list) <= Len(list) /\ sel \in Nat
  <2>1. sel \in 0 .. Len(list) - 1
    BY <1>1, CurrentInList
  <2> HIDE DEF sel
  <2>2. MaxChoice(list) \in Nat /\ 0 < MaxChoice(list) /\ MaxChoice(list) <= Len(list)
    BY <1>1, MaxChoiceFits
  <2>3. scrltmp \in Int \cup {NoFile}
    BY DEF Inv, InWindow
  <2>4. /\ top \in Nat /\ top <= sel /\ sel < top + MaxChoice(list)
        /\ top + MaxChoice(list) <= Len(list)
    BY <1>1, <2>1, <2>2, <2>3, FirstItemFits
  <2> QED
    BY <1>1, <2>1, <2>4
<1> HIDE DEF sel, top
<1>3. items' = list /\ scroll' = top /\ choice' = sel - top
  BY DEF dialog_menu, sel, top
<1>4. InWindow'
  <2>1. scrltmp' \in Int \cup {NoFile}
    BY DEF dialog_menu, Inv, InWindow
  <2>2. MaxChoice(list) \in Nat
    BY <1>1, MaxChoiceFits
  <2>3. choice' \in Nat /\ choice' < MaxChoice(list)
    BY <1>2, <1>3, <2>2
  <2> QED
    BY <1>1, <1>2, <1>3, <2>1, <2>3 DEF InWindow, max_choice, item_no
<1>5. screen' = [r \in Rows(list) |-> [item |-> list[top + r + 1], lit |-> r = sel - top]]
  BY DEF dialog_menu, sel, top
<1>6. arrows' = {a \in {"up", "down"} :
                   IF a = "up" THEN top > 0 ELSE top + MaxChoice(list) < Len(list)}
  BY <1>1, <1>2, ArrowsRight DEF dialog_menu, sel, top
<1>7. sel - top \in Rows(list)
  BY <1>1, <1>2, MaxChoiceFits DEF Rows
<1>8. ScreenRight'
  BY <1>2, <1>3, <1>5, <1>6, <1>7 DEF ScreenRight, max_choice, item_no
<1> QED
  BY <1>4, <1>8 DEF Inv

(* Painting the rows that come in and the new choice leaves the screen     *)
(* right, if before that the rows were those of the shifted window.        *)
LEMMA SelectRight ==
  ASSUME Inv, items # << >>, NEW k, NEW by \in Int, NEW pos \in Rows(items), NEW rows,
         scroll + by \in Nat, scroll + by + max_choice <= item_no,
         rows = [r \in Rows(items) |-> [item |-> items[scroll + by + r + 1], lit |-> FALSE]],
         Select(k, by, pos, rows)
  PROVE  Inv'
<1>1. /\ items \in Seq(Item) /\ scroll \in Nat /\ max_choice \in Nat
      /\ items' = items /\ scroll' = scroll + by /\ choice' = pos /\ scrltmp' = scrltmp
  BY MaxChoiceFits DEF Inv, InWindow, Select, max_choice
<1>2. pos \in Nat /\ pos < max_choice
  BY <1>1 DEF Rows, max_choice
<1>3. InWindow'
  BY <1>1, <1>2 DEF Inv, InWindow, max_choice, item_no
<1>4. screen' = [r \in Rows(items) |->
                   [item |-> items[scroll + by + r + 1], lit |-> r = pos]]
  BY <1>1 DEF Select
<1>5. arrows' = {a \in {"up", "down"} :
                   IF a = "up" THEN scroll + by > 0 ELSE scroll + by + max_choice < item_no}
  BY <1>1, ArrowsRight DEF Select, item_no, max_choice
<1>6. ScreenRight'
  BY <1>1, <1>4, <1>5 DEF ScreenRight, max_choice, item_no
<1> QED
  BY <1>3, <1>6 DEF Inv

(* The rows on the screen with the old choice painted unselected.          *)
LEMMA DimmedRows ==
  ASSUME Inv, items # << >>
  PROVE  /\ Dimmed = [r \in Rows(items) |-> [item |-> items[scroll + r + 1], lit |-> FALSE]]
         /\ Rows(items) = 0 .. max_choice - 1
  BY DEF Inv, ScreenRight, Dimmed, Rows, max_choice

LEMMA ShiftedRows ==
  ASSUME Inv, items # << >>, NEW k \in Nat, k <= max_choice
  PROVE  /\ k <= scroll => RowsDown(k) =
              [r \in Rows(items) |-> [item |-> items[scroll - k + r + 1], lit |-> FALSE]]
         /\ RowsUp(k) =
              [r \in Rows(items) |-> [item |-> items[scroll + k + r + 1], lit |-> FALSE]]
<1>1. /\ scroll \in Nat /\ max_choice \in Nat
  BY MaxChoiceFits DEF Inv, InWindow, max_choice
<1>2. \A r \in Rows(items) : ~(r < k) => r - k \in Rows(items)
  BY <1>1, DimmedRows
<1>3. \A r \in Rows(items) : r < max_choice - k => r + k \in Rows(items)
  BY <1>1, DimmedRows
<1>4. ASSUME NEW r \in Rows(items)
      PROVE  /\ ~(r < k) => Dimmed[r - k] = [item |-> items[scroll + (r - k) + 1], lit |-> FALSE]
             /\ r < max_choice - k =>
                  Dimmed[r + k] = [item |-> items[scroll + (r + k) + 1], lit |-> FALSE]
  BY <1>2, <1>3, DimmedRows
<1>5. \A r \in Rows(items) : /\ scroll + (r - k) + 1 = scroll - k + r + 1
                             /\ scroll + (r + k) + 1 = scroll + k + r + 1
  BY <1>1, DimmedRows
<1> QED
  BY <1>4, <1>5 DEF RowsDown, RowsUp

(* A move within the window.                                               *)
LEMMA InPlace ==
  ASSUME Inv, items # << >>, NEW k, NEW pos \in Rows(items), Select(k, 0, pos, Dimmed)
  PROVE  Inv'
<1>1. scroll \in Nat /\ max_choice \in Nat /\ scroll + max_choice <= item_no
  BY MaxChoiceFits DEF Inv, InWindow, max_choice, item_no
<1>2. scroll + 0 = scroll
  BY <1>1
<1> QED
  BY <1>1, <1>2, DimmedRows, SelectRight

HotKeys == {Hot[t] : t \in Item}

LEMMA MoveRight ==
  ASSUME Inv, KeyUp \/ KeyDown \/ PageUp \/ PageDown \/ \E k \in HotKeys : HotKey(k)
  PROVE  Inv'
<1>0. items # << >>
  BY DEF KeyUp, KeyDown, PageUp, PageDown, HotKey, Select, IsOpen
<1>1. /\ items \in Seq(Item) /\ item_no \in Nat /\ max_choice \in Nat /\ 0 < max_choice
      /\ scroll \in Nat /\ choice \in Nat /\ choice < max_choice
      /\ scroll + max_choice <= item_no
  BY <1>0, MaxChoiceFits DEF Inv, InWindow, max_choice, item_no
<1>2. Rows(items) = 0 .. max_choice - 1
  BY DEF Rows, max_choice
<1>3. CASE KeyUp
  <2>1. CASE choice < 2 /\ scroll > 0
    <3>1. Select("up", -1, choice, RowsDown(1))
      BY <1>3, <2>1 DEF KeyUp
    <3>2. RowsDown(1) = [r \in Rows(items) |-> [item |-> items[scroll + (-1) + r + 1], lit |-> FALSE]]
      BY <1>0, <1>1, <2>1, ShiftedRows
    <3>3. scroll + (-1) \in Nat /\ scroll + (-1) + max_choice <= item_no /\ choice \in Rows(items)
      BY <1>1, <1>2, <2>1
    <3> QED
      BY <1>0, <3>1, <3>2, <3>3, SelectRight
  <2>2. CASE ~(choice < 2 /\ scroll > 0)
    <3>1. Select("up", 0, AtLeast(choice - 1, 0), Dimmed)
      BY <1>3, <2>2 DEF KeyUp
    <3>2. AtLeast(choice - 1, 0) \in Rows(items)
      BY <1>1, <1>2 DEF AtLeast
    <3> QED
      BY <1>0, <1>1, <3>1, <3>2, InPlace
  <2> QED
    BY <2>1, <2>2
<1>4. CASE KeyDown
  <2>1. CASE ScrollsDown
    <3>1. Select("down", 1, choice, RowsUp(1)) /\ scroll + max_choice < item_no
      BY <1>4, <2>1 DEF KeyDown, ScrollsDown
    <3>2. RowsUp(1) = [r \in Rows(items) |-> [item |-> items[scroll + 1 + r + 1], lit |-> FALSE]]
      BY <1>0, <1>1, ShiftedRows
    <3>3. scroll + 1 \in Nat /\ scroll + 1 + max_choice <= item_no /\ choice \in Rows(items)
      BY <1>1, <1>2, <3>1
    <3> QED
      BY <1>0, <3>1, <3>2, <3>3, SelectRight
  <2>2. CASE ~ScrollsDown
    <3>1. Select("down", 0, AtMost(choice + 1, max_choice - 1), Dimmed)
      BY <1>4, <2>2 DEF KeyDown
    <3>2. AtMost(choice + 1, max_choice - 1) \in Rows(items)
      BY <1>1, <1>2 DEF AtMost
    <3> QED
      BY <1>0, <1>1, <3>1, <3>2, InPlace
  <2> QED
    BY <2>1, <2>2
<1>5. CASE PageUp
  <2> DEFINE k == AtMost(scroll, max_choice)
             pos == AtLeast(choice - (max_choice - k), 0)
  <2>1. k \in Nat /\ k <= scroll /\ k <= max_choice /\ -k \in Int
    BY <1>1 DEF AtMost
  <2>2. pos \in Rows(items)
    BY <1>1, <1>2, <2>1 DEF AtLeast
  <2>3. Select("ppage", -k, pos, RowsDown(k))
    BY <1>5 DEF PageUp
  <2> HIDE DEF k, pos
  <2>4. RowsDown(k) = [r \in Rows(items) |-> [item |-> items[scroll - k + r + 1], lit |-> FALSE]]
    BY <1>0, <2>1, ShiftedRows
  <2>5. scroll - k = scroll + (-k) /\ scroll + (-k) \in Nat /\ scroll + (-k) + max_choice <= item_no
    BY <1>1, <2>1
  <2> QED
    BY <1>0, <2>1, <2>2, <2>3, <2>4, <2>5, SelectRight
<1>6. CASE PageDown
  <2> DEFINE k == AtMost(item_no - max_choice - scroll, max_choice)
             pos == AtMost(choice + (max_choice - k), max_choice - 1)
  <2>1. k \in Nat /\ k <= max_choice /\ scroll + k + max_choice <= item_no
    BY <1>1 DEF AtMost
  <2>2. pos \in Rows(items)
    BY <1>1, <1>2, <2>1 DEF AtMost
  <2>3. Select("npage", k, pos, RowsUp(k))
    BY <1>6 DEF PageDown, PageDownChoice
  <2> HIDE DEF k, pos
  <2>4. RowsUp(k) = [r \in Rows(items) |-> [item |-> items[scroll + k + r + 1], lit |-> FALSE]]
    BY <1>0, <2>1, ShiftedRows
  <2> QED
    BY <1>0, <1>1, <2>1, <2>2, <2>3, <2>4, SelectRight
<1>7. CASE \E k \in HotKeys : HotKey(k)
  <2>1. PICK k : HotKey(k)
    BY <1>7
  <2>2. Rows(items) \subseteq Nat
    BY <1>1, <1>2
  <2>3. /\ Later(k) # {} => LeastOf(Later(k)) \in Later(k)
        /\ Hits(k) # {} => LeastOf(Hits(k)) \in Hits(k)
    BY <2>2, LeastExists DEF Later, Hits
  <2>4. LeastOf(IF Later(k) # {} THEN Later(k) ELSE Hits(k)) \in Rows(items)
    BY <2>1, <2>3 DEF HotKey, IsHotKey, Later, Hits
  <2>5. Select(k, 0, LeastOf(IF Later(k) # {} THEN Later(k) ELSE Hits(k)), Dimmed)
    BY <2>1 DEF HotKey
  <2> QED
    BY <1>0, <1>1, <2>4, <2>5, InPlace
<1> QED
  BY <1>3, <1>4, <1>5, <1>6, <1>7

(* The keys that do not move the selection leave the screen alone.         *)
LEMMA OtherRight ==
  ASSUME Inv, \/ \E k : Buttons(k) \/ Toggle(k)
              \/ Enter \/ Help \/ Escape \/ UNCHANGED vars
  PROVE  Inv'
<1>1. CASE Escape
  BY <1>1 DEF Escape, Exit, Inv, InWindow, ScreenRight
<1>2. CASE ~Escape
  <2>1. /\ items' = items /\ scroll' = scroll /\ choice' = choice
        /\ screen' = screen /\ arrows' = arrows
        /\ scrltmp' \in {scrltmp, scroll, NoFile}
    BY <1>2 DEF Buttons, Toggle, Enter, Help, Exit, SavedScroll, vars
  <2>2. InWindow'
    BY <2>1 DEF Inv, InWindow, max_choice, item_no
  <2>3. ScreenRight'
    BY <2>1 DEF Inv, ScreenRight, max_choice, item_no
  <2> QED
    BY <2>2, <2>3 DEF Inv
<1> QED
  BY <1>1, <1>2

LEMMA InvStep ==
  ASSUME Inv, [Next]_vars
  PROVE  Inv'
<1>1. ASSUME NEW list \in Lists, NEW tag \in Item \cup {NoItem}, dialog_menu(list, tag)
      PROVE  Inv'
  BY <1>1, OpenRight
<1>2. CASE KeyUp \/ KeyDown \/ PageUp \/ PageDown
  BY <1>2, MoveRight
<1>3. CASE \E k \in HotKeys : HotKey(k)
  BY <1>3, MoveRight
<1>4. CASE \/ \E k : Buttons(k) \/ Toggle(k)
           \/ Enter \/ Help \/ Escape \/ UNCHANGED vars
  BY <1>4, OtherRight
<1>5. (\E k \in {"left", "right"} : Buttons(k)) => \E k : Buttons(k) \/ Toggle(k)
  OBVIOUS
<1>6. (\E k \in DOMAIN ToggleCode : Toggle(k)) => \E k : Buttons(k) \/ Toggle(k)
  OBVIOUS
<1> QED
  BY <1>1, <1>2, <1>3, <1>4, <1>5, <1>6 DEF Next, HotKeys

(* What the user sees is the part of the list from "scroll" on with the    *)
(* chosen item highlighted, after any keys and for any contents of         *)
(* lxdialog.scrltmp (menubox.c:249-402).                                   *)
THEOREM ScreenIsRight ==
  Spec => []ScreenRight
<1>1. Init => Inv
  BY MenuAssumption DEF Init, Inv, InWindow, ScreenRight
<1>2. Inv /\ [Next]_vars => Inv'
  BY InvStep
<1>3. Inv => ScreenRight
  BY DEF Inv
<1> QED
  BY <1>1, <1>2, <1>3, PTL DEF Spec

-----------------------------------------------------------------------------
(* A step of the menu box is a step of the cursor.                         *)
pos == scroll + choice

LEMMA CursorMoves ==
  ASSUME Inv, NEW k, NEW by, NEW row, NEW rows, Select(k, by, row, rows)
  PROVE  /\ Cursor!IsOpen /\ key' = k /\ pos' = scroll + by + row
         /\ items' = items /\ answer' = answer
         /\ pos \in 0 .. Len(items) - 1 /\ Cursor!LastPos = Len(items) - 1
<1>1. items # << >> /\ answer = NoItem
  BY DEF Select, IsOpen
<1>2. pos \in 0 .. Len(items) - 1
  BY <1>1, MaxChoiceFits DEF Inv, InWindow, pos, max_choice, item_no
<1> QED
  BY <1>1, <1>2 DEF Select, pos, Cursor!IsOpen, Cursor!LastPos

LEMMA CursorStep ==
  ASSUME Inv, [Next]_vars, DOMAIN Hot = Item
  PROVE  [Cursor!Next]_(Cursor!vars)
<1> USE DEF pos
<1>0. items # << >> =>
        /\ items \in Seq(Item) /\ item_no \in Nat /\ max_choice \in Nat /\ 0 < max_choice
        /\ scroll \in Nat /\ choice \in Nat /\ choice < max_choice
        /\ scroll + max_choice <= item_no /\ max_choice <= menu_height
        /\ menu_height \in Nat /\ item_no = Len(items)
        /\ (menu_height < item_no => max_choice = menu_height)
        /\ (item_no <= menu_height => max_choice = item_no)
  BY MaxChoiceFits, MenuAssumption DEF Inv, InWindow, max_choice, item_no
<1>1. ASSUME NEW list \in Lists, NEW tag \in Item \cup {NoItem}, dialog_menu(list, tag)
      PROVE  Cursor!Next
  <2>1. list \in Seq(Item) /\ list # << >> /\ Len(list) \in Nat
    BY MenuAssumption
  <2> DEFINE sel == Current(list, tag)
             top == FirstItem(scrltmp, sel, Len(list), MaxChoice(list))
  <2>2. sel \in 0 .. Len(list) - 1
    BY <2>1, CurrentInList
  <2>3. sel = Cursor!StartAt(list, tag)
    BY DEF Current, Cursor!StartAt
  <2> HIDE DEF sel
  <2>4. scrltmp \in Int \cup {NoFile} /\ MaxChoice(list) \in Nat /\ 0 < MaxChoice(list)
        /\ MaxChoice(list) <= Len(list)
    BY <2>1, MaxChoiceFits DEF Inv, InWindow
  <2>5. top \in Nat
    BY <2>1, <2>2, <2>4, FirstItemFits
  <2> HIDE DEF top
  <2>6. /\ ~IsOpen /\ items' = list /\ scroll' = top /\ choice' = sel - top
        /\ key' = "none" /\ answer' = NoItem
    BY <1>1 DEF dialog_menu, sel, top
  <2>7. scroll' + choice' = sel
    BY <2>2, <2>5, <2>6
  <2>8. Cursor!Open(list, tag)
    BY <2>3, <2>6, <2>7 DEF Cursor!Open, Cursor!IsOpen, IsOpen
  <2> QED
    BY <2>8 DEF Cursor!Next
<1>2. CASE KeyUp
  <2>0. items # << >>
    BY <1>2 DEF KeyUp, Select, IsOpen
  <2>1. PICK by, row, rows : Select("up", by, row, rows) /\ scroll + by + row = AtLeast(pos - 1, 0)
    <3>1. CASE choice < 2 /\ scroll > 0
      <4>1. Select("up", -1, choice, RowsDown(1))
        BY <1>2, <3>1 DEF KeyUp
      <4>2. scroll + (-1) + choice = AtLeast(pos - 1, 0)
        BY <1>0, <3>1, <4>1 DEF AtLeast, Select, IsOpen
      <4> QED
        BY <4>1, <4>2
    <3>2. CASE ~(choice < 2 /\ scroll > 0)
      <4>1. Select("up", 0, AtLeast(choice - 1, 0), Dimmed)
        BY <1>2, <3>2 DEF KeyUp
      <4>2. scroll + 0 + AtLeast(choice - 1, 0) = AtLeast(pos - 1, 0)
        BY <1>0, <3>2, <2>0 DEF AtLeast
      <4> QED
        BY <4>1, <4>2
    <3> QED
      BY <3>1, <3>2
  <2>2. Cursor!Up
    BY <2>1, CursorMoves DEF Cursor!Up, Cursor!MoveTo, Cursor!AtLeast, AtLeast
  <2> QED
    BY <2>1, <2>2, CursorMoves DEF Cursor!Next
<1>3. CASE KeyDown
  <2>0. items # << >>
    BY <1>3 DEF KeyDown, Select, IsOpen
  <2>1. PICK by, row, rows :
          Select("down", by, row, rows) /\ scroll + by + row = AtMost(pos + 1, Len(items) - 1)
    <3>1. CASE ScrollsDown
      <4>1. Select("down", 1, choice, RowsUp(1)) /\ scroll + max_choice < item_no
        BY <1>3, <3>1 DEF KeyDown, ScrollsDown
      <4>2. scroll + 1 + choice = AtMost(pos + 1, Len(items) - 1)
        <5>1. scroll + 1 + choice = pos + 1 /\ pos + 1 <= Len(items) - 1
          BY <1>0, <2>0, <4>1
        <5> QED
          BY <1>0, <2>0, <5>1 DEF AtMost
      <4> QED
        BY <4>1, <4>2
    <3>2. CASE ~ScrollsDown
      <4>1. Select("down", 0, AtMost(choice + 1, max_choice - 1), Dimmed)
        BY <1>3, <3>2 DEF KeyDown
      <4>2. scroll + 0 + AtMost(choice + 1, max_choice - 1) = AtMost(pos + 1, Len(items) - 1)
        <5>1. CASE choice + 1 < max_choice
          <6>1. AtMost(choice + 1, max_choice - 1) = choice + 1
            BY <1>0, <2>0, <5>1 DEF AtMost
          <6>2. scroll + choice + 1 <= Len(items) - 1 /\ pos = scroll + choice /\ Len(items) \in Nat
            BY <1>0, <2>0, <5>1
          <6>3. AtMost(pos + 1, Len(items) - 1) = pos + 1
            BY <1>0, <2>0, <6>2 DEF AtMost
          <6> QED
            BY <1>0, <2>0, <6>1, <6>2, <6>3
        <5>2. CASE choice + 1 = max_choice
          <6>1. scroll + max_choice = Len(items)
            BY <1>0, <3>2, <5>2, <2>0 DEF ScrollsDown
          <6> QED
            BY <1>0, <5>2, <6>1, <2>0 DEF AtMost
        <5> QED
          BY <1>0, <2>0, <5>1, <5>2
      <4> QED
        BY <4>1, <4>2
    <3> QED
      BY <3>1, <3>2
  <2>2. Cursor!Down
    BY <2>1, CursorMoves DEF Cursor!Down, Cursor!MoveTo, Cursor!AtMost, AtMost
  <2> QED
    BY <2>1, <2>2, CursorMoves DEF Cursor!Next
<1>4. CASE PageUp
  <2> DEFINE k == AtMost(scroll, max_choice)
             row == AtLeast(choice - (max_choice - k), 0)
  <2>1. Select("ppage", -k, row, RowsDown(k))
    BY <1>4 DEF PageUp
  <2>2. scroll + (-k) + row = AtLeast(pos - menu_height, 0)
    <3>1. items # << >>
      BY <2>1 DEF Select, IsOpen
    <3> QED
      BY <1>0, <3>1 DEF AtMost, AtLeast
  <2>3. Cursor!PageUp
    BY <2>1, <2>2, CursorMoves DEF Cursor!PageUp, Cursor!MoveTo, Cursor!AtLeast, AtLeast
  <2> QED
    BY <2>1, <2>3, CursorMoves DEF Cursor!Next
<1>5. CASE PageDown
  <2> DEFINE k == AtMost(item_no - max_choice - scroll, max_choice)
             row == AtMost(choice + (max_choice - k), max_choice - 1)
  <2>1. Select("npage", k, row, RowsUp(k))
    BY <1>5 DEF PageDown, PageDownChoice
  <2>2. scroll + k + row = AtMost(pos + menu_height, Len(items) - 1)
    <3>1. items # << >>
      BY <2>1 DEF Select, IsOpen
    <3>2. k \in Int /\ ((k = max_choice /\ k <= item_no - max_choice - scroll)
                        \/ (k = item_no - max_choice - scroll /\ k <= max_choice))
      BY <1>0, <3>1 DEF AtMost
    <3> HIDE DEF k
    <3>3. row = IF choice + max_choice - k < max_choice - 1
                THEN choice + max_choice - k ELSE max_choice - 1
      BY <1>0, <3>1, <3>2 DEF AtMost
    <3> HIDE DEF row
    <3> DEFINE n == item_no
    <3>4. /\ n \in Nat /\ max_choice \in Nat /\ scroll \in Nat /\ choice \in Nat
          /\ 0 < max_choice /\ choice < max_choice /\ scroll + max_choice <= n
          /\ menu_height \in Nat
          /\ ((menu_height < n /\ max_choice = menu_height)
              \/ (n <= menu_height /\ max_choice = n))
      <4>1. /\ n \in Nat /\ menu_height \in Nat
            /\ (menu_height < n => max_choice = menu_height)
            /\ (n <= menu_height => max_choice = n)
        BY <1>0, <3>1
      <4>2. menu_height < n \/ n <= menu_height
        <5> HIDE DEF n
        <5> QED
          BY <4>1
      <4>3. (menu_height < n /\ max_choice = menu_height) \/ (n <= menu_height /\ max_choice = n)
        <5> HIDE DEF n
        <5> QED
          BY <4>1, <4>2
      <4>4. /\ max_choice \in Nat /\ scroll \in Nat /\ choice \in Nat
            /\ 0 < max_choice /\ choice < max_choice /\ scroll + max_choice <= n
        BY <1>0, <3>1
      <4> HIDE DEF n
      <4> QED
        BY <4>1, <4>3, <4>4
    <3> HIDE DEF n
    <3>5. ASSUME k = max_choice, k <= n - max_choice - scroll
          PROVE  scroll + k + row = AtMost(pos + menu_height, n - 1)
      <4>1. row = choice /\ max_choice = menu_height
        BY <3>3, <3>4, <3>5
      <4>2. scroll + k + row = AtMost(pos + menu_height, n - 1)
        BY <3>4, <3>5, <4>1 DEF AtMost
      <4> QED
        BY <4>2
    <3>6. ASSUME k = n - max_choice - scroll, k <= max_choice
          PROVE  scroll + k + row = AtMost(pos + menu_height, n - 1)
      BY <3>3, <3>4, <3>6 DEF AtMost
    <3>7. scroll + k + row = AtMost(pos + menu_height, n - 1)
      BY <3>2, <3>5, <3>6 DEF n
    <3> QED
      BY <1>0, <3>1, <3>7 DEF n
  <2>3. Cursor!PageDown
    BY <2>1, <2>2, CursorMoves DEF Cursor!PageDown, Cursor!MoveTo, Cursor!AtMost, AtMost
  <2> QED
    BY <2>1, <2>3, CursorMoves DEF Cursor!Next
<1>6. CASE \E k \in HotKeys : HotKey(k)
  <2>1. PICK k \in HotKeys : HotKey(k)
    BY <1>6
  <2> DEFINE row == LeastOf(IF Later(k) # {} THEN Later(k) ELSE Hits(k))
  <2>2. Select(k, 0, row, Dimmed)
    BY <2>1 DEF HotKey
  <2>3. Rows(items) \subseteq Nat
    BY <1>0, <2>2 DEF Rows, max_choice, Select, IsOpen
  <2>4. row \in Hits(k)
    <3>1. /\ Later(k) # {} => LeastOf(Later(k)) \in Later(k)
          /\ Hits(k) # {} => LeastOf(Hits(k)) \in Hits(k)
      BY <2>3, LeastExists DEF Later, Hits
    <3> QED
      BY <2>1, <3>1 DEF HotKey, IsHotKey, Later
  <2> HIDE DEF row
  <2>5. scroll + 0 + row \in 0 .. Len(items) - 1 /\ Hot[items[scroll + 0 + row + 1]] = k
    BY <1>0, <2>2, <2>4 DEF Hits, HasKey, Rows, max_choice, Select, IsOpen
  <2>6. Cursor!Jump(k)
    BY <2>2, <2>5, CursorMoves DEF Cursor!Jump, Cursor!MoveTo, Cursor!LastPos
  <2>7. k \in Cursor!Keys
    BY DEF HotKeys, Cursor!Keys
  <2> QED
    BY <2>2, <2>6, <2>7, CursorMoves DEF Cursor!Next
<1>7. CASE \E k \in {"left", "right"} : Buttons(k)
  <2>1. PICK k \in {"left", "right"} : Buttons(k)
    BY <1>7
  <2>2. Cursor!IsOpen /\ Cursor!Other(k)
    BY <2>1 DEF Buttons, IsOpen, Cursor!IsOpen, Cursor!Other, Cursor!MoveTo
  <2> QED
    BY <2>1, <2>2 DEF Cursor!Next, Cursor!Keys
<1>8. CASE \E k \in DOMAIN ToggleCode : Toggle(k)
  <2>1. PICK k \in DOMAIN ToggleCode : Toggle(k)
    BY <1>8
  <2>2. Cursor!IsOpen /\ Cursor!Close(k)
    BY <2>1 DEF Toggle, Exit, Shown, IsOpen, Cursor!IsOpen, Cursor!Close
  <2>3. k \in Cursor!Keys
    BY <2>1 DEF ToggleCode, Cursor!Keys
  <2> QED
    BY <2>2, <2>3 DEF Cursor!Next
<1>9. CASE Enter
  <2>1. Cursor!IsOpen /\ Cursor!Close("enter")
    BY <1>9 DEF Enter, Exit, Shown, IsOpen, Cursor!IsOpen, Cursor!Close
  <2> QED
    BY <2>1 DEF Cursor!Next, Cursor!Keys
<1>10. CASE Help
  <2>1. Cursor!IsOpen /\ Cursor!Close("help")
    BY <1>10 DEF Help, Exit, Shown, IsOpen, Cursor!IsOpen, Cursor!Close
  <2> QED
    BY <2>1 DEF Cursor!Next, Cursor!Keys
<1>11. CASE Escape
  <2>1. Cursor!IsOpen /\ Cursor!Leave("exit")
    BY <1>11 DEF Escape, Exit, IsOpen, Cursor!IsOpen, Cursor!Leave
  <2> QED
    BY <2>1 DEF Cursor!Next, Cursor!Keys
<1>12. CASE UNCHANGED vars
  BY <1>12 DEF vars, Cursor!vars
<1> QED
  BY <1>1, <1>2, <1>3, <1>4, <1>5, <1>6, <1>7, <1>8, <1>9, <1>10, <1>11, <1>12
     DEF Next, HotKeys

(* The menu box behaves as a cursor in a plain list: no scrolling, no      *)
(* stale file and no hot key makes it select or answer with another item.  *)
THEOREM MenuIsCursor ==
  ASSUME DOMAIN Hot = Item
  PROVE  Spec => IsCursor
<1>1. Init => Cursor!Init
  BY DEF Init, Cursor!Init
<1>2. Init => Inv
  BY MenuAssumption DEF Init, Inv, InWindow, ScreenRight
<1>3. Inv /\ [Next]_vars => Inv'
  BY InvStep
<1>4. Inv /\ [Next]_vars => [Cursor!Next]_(Cursor!vars)
  BY CursorStep
<1> QED
  BY <1>1, <1>2, <1>3, <1>4, PTL DEF Spec, IsCursor, Cursor!Spec

-----------------------------------------------------------------------------
(* The check list and the radio list: an instance with variables of its    *)
(* own, which assumes of its lists what menuconfig gives them.             *)
CONSTANT Radio

VARIABLES
  c_items, c_scroll, c_choice, c_button, c_key, c_status, c_printed, c_answer, c_code,
  c_screen, c_arrows

Check == INSTANCE LxCheck WITH
  items <- c_items, scroll <- c_scroll, choice <- c_choice, button <- c_button, key <- c_key,
  status <- c_status, printed <- c_printed, answer <- c_answer, code <- c_code,
  screen <- c_screen, arrows <- c_arrows, list_height <- menu_height

(* As in the menu box, and the list is one that was asked for, so that no  *)
(* item is in it twice.                                                    *)
CheckInWindow ==
  /\ c_items \in Seq(Item)
  /\ c_scroll \in Nat /\ c_choice \in Nat
  /\ c_items # << >> => /\ c_items \in Lists /\ c_choice < Check!max_choice
                        /\ c_scroll + Check!max_choice <= Check!item_no

CheckInv == CheckInWindow /\ Check!ScreenRight

\* the numbers of a list that is up
LEMMA CheckNumbers ==
  ASSUME CheckInv, c_items # << >>
  PROVE  /\ c_items \in Seq(Item) /\ c_scroll \in Nat /\ c_choice \in Nat
         /\ Check!item_no = Len(c_items) /\ Len(c_items) \in Nat /\ 0 < Len(c_items)
         /\ Check!max_choice \in Nat /\ 0 < Check!max_choice /\ Check!max_choice <= Len(c_items)
         /\ c_choice < Check!max_choice /\ c_scroll + Check!max_choice <= Len(c_items)
         /\ (menu_height < Len(c_items) => Check!max_choice = menu_height)
         /\ (Len(c_items) <= menu_height => Check!max_choice = Len(c_items))
         /\ Check!Rows(c_items) = 0 .. Check!max_choice - 1
         /\ menu_height \in Nat /\ 0 < menu_height
<1>1. /\ c_items \in Seq(Item) /\ c_scroll \in Nat /\ c_choice \in Nat
      /\ c_choice < Check!max_choice /\ c_scroll + Check!max_choice <= Check!item_no
  BY DEF CheckInv, CheckInWindow
<1>2. Check!item_no = Len(c_items) /\ Len(c_items) \in Nat /\ 0 < Len(c_items)
  BY <1>1 DEF Check!item_no
<1>3. menu_height \in Nat /\ 0 < menu_height
  BY MenuAssumption
<1>4. Check!max_choice = IF menu_height < Len(c_items) THEN menu_height ELSE Len(c_items)
  BY DEF Check!max_choice, Check!AtMost
<1>5. Check!Rows(c_items) = 0 .. Check!max_choice - 1
  BY DEF Check!Rows, Check!max_choice
<1> QED
  BY <1>1, <1>2, <1>3, <1>4, <1>5

(* The first item that is on is in the list.                               *)
LEMMA FirstOnInList ==
  ASSUME NEW list \in Seq(Item), list # << >>, NEW set
  PROVE  /\ Check!FirstOn(list, set) \in 0 .. Len(list) - 1
         /\ Check!FirstOn(list, set) # 0 => list[Check!FirstOn(list, set) + 1] \in set
<1> DEFINE later == {i \in 2 .. Len(list) : list[i] \in set}
<1>1. Len(list) \in Nat /\ Len(list) > 0
  OBVIOUS
<1>2. CASE later = {}
  BY <1>1, <1>2 DEF Check!FirstOn
<1>3. CASE later # {}
  <2>0. later \subseteq Nat
    BY <1>1
  <2>1. LeastOf(later) \in later
    BY <2>0, <1>3, LeastExists
  <2>2. Check!FirstOn(list, set) = LeastOf(later) - 1
    BY <1>3, Zenon DEF Check!FirstOn, LeastOf
  <2>3. LeastOf(later) \in 2 .. Len(list) /\ list[LeastOf(later)] \in set
    BY <2>1
  <2> DEFINE l == LeastOf(later)
  <2> HIDE DEF l, later
  <2>4. l - 1 \in 0 .. Len(list) - 1 /\ l - 1 + 1 = l
    BY <1>1, <2>3 DEF l
  <2> QED
    BY <2>2, <2>3, <2>4 DEF l
<1> QED
  BY <1>2, <1>3

LEMMA CheckOpenRight ==
  ASSUME CheckInv, NEW list \in Lists, NEW set, Check!dialog_checklist(list, set)
  PROVE  /\ CheckInv'
         /\ c_scroll' + c_choice' = Check!FirstOn(list, set)
<1>1. list \in Seq(Item) /\ list # << >> /\ Len(list) \in Nat /\ 0 < Len(list)
      /\ menu_height \in Nat /\ 0 < menu_height
  BY MenuAssumption
<1> DEFINE sel == Check!FirstOn(list, set)
           head == Check!TopFor(sel)
           max == IF menu_height < Len(list) THEN menu_height ELSE Len(list)
<1>2. sel \in 0 .. Len(list) - 1
  BY <1>1, FirstOnInList
<1>3. /\ c_items' = list /\ c_status' = set /\ c_scroll' = head /\ c_choice' = sel - head
      /\ c_screen' = [r \in Check!Rows(list) |-> [item |-> list[head + r + 1],
                        on |-> list[head + r + 1] \in set, lit |-> r = sel - head]]
      /\ c_arrows' = Check!ArrowsAt(head, sel - head, Len(list))
  BY DEF Check!dialog_checklist
<1> HIDE DEF sel
<1>4. head = IF sel >= menu_height THEN sel - menu_height + 1 ELSE 0
  BY DEF Check!TopFor
<1> HIDE DEF head
<1>5. /\ head \in Nat /\ sel - head \in Nat /\ sel - head < max /\ head + max <= Len(list)
      /\ max \in Nat /\ head + (sel - head) = sel
  <2> HIDE DEF max
  <2>1. sel \in Nat /\ sel < Len(list)
    BY <1>1, <1>2
  <2>2. /\ max \in Nat /\ 0 < max
        /\ (max = menu_height /\ max < Len(list)) \/ (max = Len(list) /\ max <= menu_height)
    BY <1>1 DEF max
  <2>3. CASE sel >= menu_height
    BY <1>1, <1>4, <2>1, <2>2, <2>3
  <2>4. CASE ~(sel >= menu_height)
    BY <1>1, <1>4, <2>1, <2>2, <2>4
  <2> QED
    BY <2>3, <2>4
<1>6. Check!max_choice' = max /\ Check!Rows(list) = 0 .. max - 1 /\ Check!item_no' = Len(list)
  BY <1>3 DEF Check!max_choice, Check!AtMost, Check!Rows, Check!item_no
<1>7. Check!ArrowsAt(head, sel - head, Len(list)) =
        {a \in {"up", "down"} : IF a = "up" THEN head > 0 ELSE head + max < Len(list)}
  <2>1. (menu_height < Len(list) /\ head + (sel - head) < Len(list) - 1) <=> head + max < Len(list)
    <3>1. max = IF menu_height < Len(list) THEN menu_height ELSE Len(list)
      OBVIOUS
    <3> HIDE DEF max
    <3>2. sel \in Nat /\ sel < Len(list)
      BY <1>1, <1>2
    <3>3. CASE sel >= menu_height
      <4>1. head = sel - menu_height + 1 /\ menu_height < Len(list) + 1
        BY <1>1, <1>4, <3>2, <3>3
      <4>2. CASE menu_height < Len(list)
        BY <1>1, <1>5, <3>1, <3>2, <4>1, <4>2
      <4>3. CASE ~(menu_height < Len(list))
        BY <1>1, <1>5, <3>1, <3>2, <3>3, <4>3
      <4> QED
        BY <4>2, <4>3
    <3>4. CASE ~(sel >= menu_height)
      BY <1>1, <1>4, <1>5, <3>1, <3>2, <3>4
    <3> QED
      BY <3>3, <3>4
  <2> QED
    BY <2>1 DEF Check!ArrowsAt
<1> HIDE DEF max
<1>8. CheckInWindow'
  BY <1>1, <1>3, <1>5, <1>6 DEF CheckInWindow
<1>9. Check!ScreenRight'
  <2>1. c_choice' \in Check!Rows(c_items')
    BY <1>3, <1>5, <1>6
  <2> QED
    BY <1>3, <1>5, <1>6, <1>7, <2>1 DEF Check!ScreenRight, Check!At
<1> QED
  BY <1>3, <1>5, <1>8, <1>9 DEF CheckInv, sel

(* The rows on the screen with the old choice painted unselected.          *)
LEMMA CheckDimmed ==
  ASSUME CheckInv, c_items # << >>
  PROVE  Check!Dimmed =
           [r \in Check!Rows(c_items) |-> [item |-> c_items[c_scroll + r + 1],
              on |-> c_items[c_scroll + r + 1] \in c_status, lit |-> FALSE]]
<1>1. /\ c_choice \in Check!Rows(c_items)
      /\ c_screen = [r \in Check!Rows(c_items) |-> [item |-> c_items[c_scroll + r + 1],
                       on |-> c_items[c_scroll + r + 1] \in c_status, lit |-> r = c_choice]]
  BY DEF CheckInv, Check!ScreenRight, Check!At
<1> QED
  BY <1>1 DEF Check!Dimmed, Check!Painted, Check!At

LEMMA CheckMoveRight ==
  ASSUME CheckInv, NEW k, NEW r \in Check!Rows(c_items), Check!MoveTo(k, r)
  PROVE  CheckInv'
<1>0. c_items # << >>
  BY DEF Check!MoveTo, Check!IsOpen
<1>1. /\ c_items' = c_items /\ c_scroll' = c_scroll /\ c_choice' = r /\ c_status' = c_status
      /\ c_arrows' = c_arrows /\ Check!max_choice' = Check!max_choice
      /\ Check!item_no' = Check!item_no /\ Check!Rows(c_items) = 0 .. Check!max_choice - 1
      /\ Check!max_choice \in Nat
  BY <1>0, CheckNumbers DEF Check!MoveTo, Check!max_choice, Check!item_no
<1>2. r \in Nat /\ r < Check!max_choice
  BY <1>1
<1>3. CheckInWindow'
  BY <1>1, <1>2 DEF CheckInv, CheckInWindow
<1>4. c_screen' = [q \in Check!Rows(c_items) |-> [item |-> c_items[c_scroll + q + 1],
                     on |-> c_items[c_scroll + q + 1] \in c_status, lit |-> q = r]]
  <2>1. CASE r = c_choice
    BY <1>0, <2>1 DEF Check!MoveTo, CheckInv, Check!ScreenRight, Check!At
  <2>2. CASE r # c_choice
    BY <1>0, <2>2, CheckDimmed DEF Check!MoveTo, Check!Painted, Check!At
  <2> QED
    BY <2>1, <2>2
<1>5. Check!ScreenRight'
  BY <1>0, <1>1, <1>4 DEF CheckInv, Check!ScreenRight, Check!At
<1> QED
  BY <1>3, <1>5 DEF CheckInv

(* The window moves by one row; the row that comes in is painted.          *)
LEMMA CheckScrollRight ==
  ASSUME CheckInv, NEW k, NEW by \in {-1, 1}, NEW rows,
         c_scroll + by \in Nat, c_scroll + by + Check!max_choice <= Check!item_no,
         by = -1 => c_choice = 0 /\ rows = Check!ShiftedDown(Check!Dimmed),
         by = 1 => c_choice = Check!max_choice - 1 /\ rows = Check!ShiftedUp(Check!Dimmed),
         Check!Scroll(k, by, rows, c_choice)
  PROVE  CheckInv'
<1>0. c_items # << >>
  BY DEF Check!Scroll, Check!IsOpen
<1>1. /\ c_items' = c_items /\ c_scroll' = c_scroll + by /\ c_choice' = c_choice
      /\ c_status' = c_status /\ Check!max_choice' = Check!max_choice
      /\ Check!item_no' = Check!item_no
  BY DEF Check!Scroll, Check!max_choice, Check!item_no
<1>2. CheckInWindow'
  BY <1>0, <1>1, CheckNumbers DEF CheckInv, CheckInWindow
<1> DEFINE n == Len(c_items)
           max == Check!max_choice
<1>3. /\ max \in Nat /\ n \in Nat /\ 0 < max /\ max < n /\ max = menu_height
      /\ Check!Rows(c_items) = 0 .. max - 1 /\ c_scroll \in Nat /\ c_choice \in Nat /\ c_choice < max
      /\ c_scroll + max <= n /\ Check!item_no = n
  BY <1>0, CheckNumbers
<1>4. c_screen' = [r \in Check!Rows(c_items) |-> [item |-> c_items[c_scroll + by + r + 1],
                     on |-> c_items[c_scroll + by + r + 1] \in c_status, lit |-> r = c_choice]]
  <2> DEFINE base == IF menu_height > 1 THEN rows ELSE c_screen
  <2>1. c_screen' = [base EXCEPT ![c_choice] = [item |-> c_items[c_scroll + by + c_choice + 1],
                       on |-> c_items[c_scroll + by + c_choice + 1] \in c_status, lit |-> TRUE]]
    BY DEF Check!Scroll, Check!Painted, Check!At
  <2>2. base = [r \in Check!Rows(c_items) |-> base[r]]
    <3>1. c_screen = [r \in Check!Rows(c_items) |-> c_screen[r]]
      BY <1>0 DEF CheckInv, Check!ScreenRight
    <3>2. rows = [r \in Check!Rows(c_items) |-> rows[r]]
      <4>1. CASE by = -1
        BY <4>1, Zenon DEF Check!ShiftedDown
      <4>2. CASE by = 1
        BY <4>2, Zenon DEF Check!ShiftedUp
      <4> QED
        BY <4>1, <4>2
    <3> QED
      BY <3>1, <3>2
  <2>3. ASSUME NEW r \in Check!Rows(c_items), r # c_choice
        PROVE  base[r] = [item |-> c_items[c_scroll + by + r + 1],
                          on |-> c_items[c_scroll + by + r + 1] \in c_status, lit |-> FALSE]
    <3>1. menu_height > 1 /\ base = rows
      BY <1>3, <2>3
    <3>2. r + by \in Check!Rows(c_items) /\ rows[r] = Check!Dimmed[r + by]
      BY <1>3, <2>3 DEF Check!ShiftedDown, Check!ShiftedUp
    <3>3. c_scroll + (r + by) + 1 = c_scroll + by + r + 1
      BY <1>3, <3>2
    <3> HIDE DEF base
    <3> QED
      BY <1>0, <3>1, <3>2, <3>3, CheckDimmed
  <2> HIDE DEF base
  <2>4. c_choice \in Check!Rows(c_items)
    BY <1>3
  <2> QED
    BY <2>1, <2>2, <2>3, <2>4
<1>5. c_arrows' = {a \in {"up", "down"} :
                     IF a = "up" THEN c_scroll + by > 0 ELSE c_scroll + by + max < n}
  <2>1. menu_height < n /\ (c_scroll + by + c_choice < n - 1 <=> c_scroll + by + max < n)
    BY <1>3
  <2>2. c_arrows' = Check!ArrowsAt(c_scroll + by, c_choice, n)
    BY <1>3 DEF Check!Scroll
  <2> QED
    BY <2>1, <2>2 DEF Check!ArrowsAt
<1>6. Check!ScreenRight'
  <2>1. c_choice \in Check!Rows(c_items)
    BY <1>3
  <2> QED
    BY <1>1, <1>3, <1>4, <1>5, <2>1 DEF Check!ScreenRight, Check!At
<1> QED
  BY <1>2, <1>6 DEF CheckInv

(* Enter and space mark one item and paint its row, or all rows again, or  *)
(* leave a radio list whose item was on as it is.                          *)
LEMMA CheckPressRight ==
  ASSUME CheckInv, Check!TagsDiffer, NEW k, Check!Press(k)
  PROVE  CheckInv'
<1>0. c_items # << >>
  BY DEF Check!Press, Check!IsOpen
<1>1. /\ c_items' = c_items /\ c_scroll' = c_scroll /\ c_choice' = c_choice /\ c_arrows' = c_arrows
      /\ Check!max_choice' = Check!max_choice /\ Check!item_no' = Check!item_no
  BY DEF Check!Press, Check!max_choice, Check!item_no
<1>2. CheckInWindow'
  BY <1>1 DEF CheckInv, CheckInWindow
<1>3. c_screen' = [r \in Check!Rows(c_items) |-> [item |-> c_items[c_scroll + r + 1],
                     on |-> c_items[c_scroll + r + 1] \in c_status', lit |-> r = c_choice]]
  <2> DEFINE Painted(r, set) == [item |-> c_items[c_scroll + r + 1],
                             on |-> c_items[c_scroll + r + 1] \in set, lit |-> r = c_choice]
  <2>1. /\ c_choice \in Check!Rows(c_items)
        /\ c_screen = [r \in Check!Rows(c_items) |-> Painted(r, c_status)]
    BY <1>0 DEF CheckInv, Check!ScreenRight, Check!At
  <2>2. CASE c_button # 0
    BY <2>1, <2>2 DEF Check!Press
  <2> DEFINE tag == c_items[c_scroll + c_choice + 1]
  <2>3. CASE c_button = 0
    <3>1. c_status' = Check!NewStatus(tag) /\ c_screen' = Check!Marked(c_status')
      BY <2>3 DEF Check!Press, Check!At
    <3>2. CASE Radio /\ tag \notin c_status
      BY <3>1, <3>2 DEF Check!Marked, Check!At
    <3>4. CASE Radio /\ tag \in c_status
      <4>1. c_status' = c_status /\ c_screen' = c_screen
        BY <3>1, <3>4 DEF Check!Marked, Check!NewStatus, Check!At
      <4> QED
        BY <2>1, <4>1
    <3>3. CASE ~Radio
      <4>1. c_screen' = [c_screen EXCEPT ![c_choice].on = tag \in c_status']
        BY <3>1, <3>3 DEF Check!Marked, Check!At
      <4>2. ASSUME NEW r \in Check!Rows(c_items), r # c_choice
            PROVE  c_items[c_scroll + r + 1] # tag
        <5> DEFINE max == Check!max_choice
                   n == Len(c_items)
        <5>0. /\ c_scroll \in Nat /\ c_choice \in Nat /\ max \in Nat /\ n \in Nat
              /\ c_choice < max /\ c_scroll + max <= n /\ r \in 0 .. max - 1
          BY <1>0, <4>2, CheckNumbers
        <5> HIDE DEF max, n
        <5>1. c_scroll + r + 1 \in 1 .. n /\ c_scroll + c_choice + 1 \in 1 .. n
              /\ c_scroll + r + 1 # c_scroll + c_choice + 1
          BY <4>2, <5>0
        <5>2. DOMAIN c_items = 1 .. Len(c_items) /\ Check!IsInjective(c_items)
          BY <1>0 DEF CheckInv, CheckInWindow, Check!TagsDiffer
        <5> QED
          BY <5>1, <5>2 DEF Check!IsInjective, n
      <4>3. ASSUME NEW r \in Check!Rows(c_items), r # c_choice
            PROVE  Painted(r, c_status') = Painted(r, c_status)
        <5>1. c_items[c_scroll + r + 1] \in c_status' <=> c_items[c_scroll + r + 1] \in c_status
          BY <3>1, <3>3, <4>2, <4>3 DEF Check!NewStatus
        <5> QED
          BY <5>1
      <4>4. c_screen' = [r \in Check!Rows(c_items) |->
                           IF r = c_choice THEN [c_screen[r] EXCEPT !.on = tag \in c_status']
                           ELSE c_screen[r]]
        BY <2>1, <4>1
      <4>5. ASSUME NEW r \in Check!Rows(c_items)
            PROVE  c_screen'[r] = Painted(r, c_status')
        BY <2>1, <4>3, <4>4
      <4> QED
        BY <4>4, <4>5
    <3> QED
      BY <3>2, <3>3, <3>4
  <2> QED
    BY <2>2, <2>3
<1>4. Check!ScreenRight'
  BY <1>0, <1>1, <1>3 DEF CheckInv, Check!ScreenRight, Check!At
<1> QED
  BY <1>2, <1>4 DEF CheckInv

(* Which of its four moves a key makes, and where the cursor goes.         *)
LEMMA CheckUp ==
  ASSUME CheckInv, Check!KeyUp
  PROVE  /\ CheckInv' /\ Check!IsOpen /\ c_key' = "up"
         /\ UNCHANGED <<c_items, c_answer>>
         /\ c_scroll' + c_choice' = Check!Cursor!AtLeast(c_scroll + c_choice - 1, 0)
<1>0. Check!IsOpen /\ c_items # << >>
  BY DEF Check!KeyUp, Check!MoveTo, Check!Scroll, Check!IsOpen
<1>1. CASE c_choice > 0
  <2>1. Check!MoveTo("up", c_choice - 1)
    BY <1>1 DEF Check!KeyUp
  <2>2. c_choice - 1 \in Check!Rows(c_items) /\ c_scroll + c_choice > 0
    BY <1>0, <1>1, CheckNumbers
  <2>3. CheckInv'
    BY <2>1, <2>2, CheckMoveRight
  <2>4. c_scroll' + c_choice' = c_scroll + c_choice - 1
    BY <1>0, <2>1, CheckNumbers DEF Check!MoveTo
  <2>5. Check!Cursor!AtLeast(c_scroll + c_choice - 1, 0) = c_scroll + c_choice - 1
    BY <1>0, <2>2, CheckNumbers DEF Check!Cursor!AtLeast
  <2> QED
    BY <1>0, <2>1, <2>3, <2>4, <2>5 DEF Check!MoveTo
<1>2. CASE c_choice = 0 /\ c_scroll > 0
  <2>1. Check!Scroll("up", -1, Check!ShiftedDown(Check!Dimmed), c_choice)
    BY <1>2 DEF Check!KeyUp
  <2>2. c_scroll + (-1) \in Nat /\ c_scroll + (-1) + Check!max_choice <= Check!item_no
    BY <1>0, <1>2, CheckNumbers
  <2>3. CheckInv'
    <3>1. -1 \in {-1, 1} /\ -1 # 1
      OBVIOUS
    <3> QED
      BY <1>2, <2>1, <2>2, <3>1, CheckScrollRight
  <2> QED
    BY <1>0, <1>2, <2>1, <2>3, CheckNumbers DEF Check!Scroll, Check!Cursor!AtLeast
<1>3. CASE ~(c_choice > 0) /\ ~(c_choice = 0 /\ c_scroll > 0)
  <2>1. Check!MoveTo("up", c_choice)
    BY <1>3 DEF Check!KeyUp
  <2>2. c_choice \in Check!Rows(c_items) /\ c_choice = 0 /\ c_scroll = 0
    BY <1>0, <1>3, CheckNumbers
  <2> QED
    <3>1. CheckInv'
      BY <2>1, <2>2, CheckMoveRight
    <3>2. Check!Cursor!AtLeast(c_scroll + c_choice - 1, 0) = 0
      BY <2>2 DEF Check!Cursor!AtLeast
    <3> QED
      BY <1>0, <2>1, <2>2, <3>1, <3>2 DEF Check!MoveTo
<1> QED
  BY <1>1, <1>2, <1>3

LEMMA CheckDown ==
  ASSUME CheckInv, Check!KeyDown
  PROVE  /\ CheckInv' /\ Check!IsOpen /\ c_key' = "down"
         /\ UNCHANGED <<c_items, c_answer>>
         /\ c_scroll' + c_choice' = Check!Cursor!AtMost(c_scroll + c_choice + 1, Len(c_items) - 1)
<1>0. Check!IsOpen /\ c_items # << >>
  BY DEF Check!KeyDown, Check!MoveTo, Check!Scroll, Check!IsOpen
<1>1. CASE c_choice < Check!max_choice - 1
  <2>1. Check!MoveTo("down", c_choice + 1)
    BY <1>0, <1>1, CheckNumbers DEF Check!KeyDown
  <2>2. c_choice + 1 \in Check!Rows(c_items) /\ c_scroll + c_choice + 1 <= Len(c_items) - 1
    BY <1>0, <1>1, CheckNumbers
  <2>3. CheckInv'
    BY <2>1, <2>2, CheckMoveRight
  <2>4. c_scroll' + c_choice' = c_scroll + c_choice + 1
    BY <1>0, <2>1, CheckNumbers DEF Check!MoveTo
  <2>5. Check!Cursor!AtMost(c_scroll + c_choice + 1, Len(c_items) - 1) = c_scroll + c_choice + 1
    BY <1>0, <2>2, CheckNumbers DEF Check!Cursor!AtMost
  <2> QED
    BY <1>0, <2>1, <2>3, <2>4, <2>5 DEF Check!MoveTo
<1>2. CASE c_choice = Check!max_choice - 1 /\ ~Check!AtEnd
  <2>1. Check!Scroll("down", 1, Check!ShiftedUp(Check!Dimmed), c_choice)
    BY <1>2, <1>0, CheckNumbers DEF Check!KeyDown
  <2>2. c_scroll + c_choice < Len(c_items) - 1
    BY <1>0, <1>2, CheckNumbers DEF Check!AtEnd
  <2>3. c_scroll + 1 \in Nat /\ c_scroll + 1 + Check!max_choice <= Check!item_no
    BY <1>0, <1>2, <2>2, CheckNumbers
  <2>4. CheckInv'
    BY <1>2, <2>1, <2>3, CheckScrollRight
  <2>5. Check!Cursor!AtMost(c_scroll + c_choice + 1, Len(c_items) - 1) = c_scroll + c_choice + 1
    <3>1. /\ c_scroll \in Nat /\ c_choice \in Nat /\ Len(c_items) \in Nat
          /\ c_scroll + c_choice + 1 <= Len(c_items) - 1
      BY <1>0, <2>2, CheckNumbers
    <3> QED
      BY <3>1 DEF Check!Cursor!AtMost
  <2>6. c_scroll' + c_choice' = c_scroll + c_choice + 1
    BY <1>0, <2>1, CheckNumbers DEF Check!Scroll
  <2> QED
    BY <1>0, <2>1, <2>4, <2>5, <2>6 DEF Check!Scroll
<1>3. CASE ~(c_choice < Check!max_choice - 1) /\ ~(c_choice = Check!max_choice - 1 /\ ~Check!AtEnd)
  <2>1. Check!MoveTo("down", c_choice)
    BY <1>3 DEF Check!KeyDown
  <2>2. c_choice \in Check!Rows(c_items) /\ c_scroll + c_choice = Len(c_items) - 1
    BY <1>0, <1>3, CheckNumbers DEF Check!AtEnd
  <2>3. CheckInv'
    BY <2>1, <2>2, CheckMoveRight
  <2>4. Check!Cursor!AtMost(c_scroll + c_choice + 1, Len(c_items) - 1) = c_scroll + c_choice
    BY <1>0, <2>2, CheckNumbers DEF Check!Cursor!AtMost
  <2> QED
    BY <1>0, <2>1, <2>3, <2>4 DEF Check!MoveTo
<1> QED
  BY <1>1, <1>2, <1>3

LEMMA CheckHotKey ==
  ASSUME CheckInv, NEW k, Check!HotKey(k)
  PROVE  CheckInv' /\ Check!Cursor!IsOpen /\ Check!Cursor!Jump(k)
<1> DEFINE hits == Check!Hits(k)
           r == LeastOf(hits)
<1>1. Check!MoveTo(k, r) /\ hits # {}
  BY Zenon DEF Check!HotKey, LeastOf
<1>2. c_items # << >> /\ Check!IsOpen
  BY <1>1 DEF Check!MoveTo, Check!IsOpen
<1>3. hits \subseteq Nat
  BY <1>2, CheckNumbers DEF Check!Hits
<1>4. r \in hits
  BY <1>1, <1>3, LeastExists
<1> HIDE DEF r
<1>5. r \in Check!Rows(c_items) /\ Hot[c_items[c_scroll + r + 1]] = k
  BY <1>4 DEF Check!Hits, Check!At
<1>6. CheckInv'
  BY <1>1, <1>5, CheckMoveRight
<1>7. c_scroll + r \in 0 .. Len(c_items) - 1
  BY <1>2, <1>5, CheckNumbers
<1> QED
  BY <1>1, <1>2, <1>5, <1>6, <1>7
     DEF Check!MoveTo, Check!IsOpen, Check!Cursor!IsOpen, Check!Cursor!Jump, Check!Cursor!MoveTo,
         Check!Cursor!LastPos

LEMMA CheckOpens ==
  ASSUME CheckInv, Check!TagsDiffer, NEW list \in Lists, NEW set, Check!dialog_checklist(list, set)
  PROVE  \E t \in Item \cup {NoItem} : Check!Cursor!Open(list, t)
<1> DEFINE sel == Check!FirstOn(list, set)
           t == IF sel = 0 THEN NoItem ELSE list[sel + 1]
<1>1. list \in Seq(Item) /\ list # << >> /\ Len(list) \in Nat /\ 0 < Len(list) /\ NoItem \notin Item
  BY MenuAssumption
<1>2. sel \in 0 .. Len(list) - 1
  BY <1>1, FirstOnInList
<1> HIDE DEF sel
<1>3. t \in Item \cup {NoItem}
  BY <1>1, <1>2
<1>4. Check!Cursor!StartAt(list, t) = sel
  <2> DEFINE at == {i \in 1 .. Len(list) : list[i] = t}
  <2>1. CASE sel = 0
    <3>1. at = {}
      BY <1>1, <2>1
    <3> QED
      BY <2>1, <3>1 DEF Check!Cursor!StartAt
  <2>2. CASE sel # 0
    <3>1. at = {sel + 1}
      <4>1. DOMAIN list = 1 .. Len(list) /\ sel + 1 \in 1 .. Len(list) /\ t = list[sel + 1]
        BY <1>1, <1>2, <2>2
      <4>2. \A i \in 1 .. Len(list) : list[i] = list[sel + 1] => i = sel + 1
        BY <4>1 DEF Check!TagsDiffer, Check!IsInjective
      <4> QED
        BY <4>1, <4>2
    <3> HIDE DEF at
    <3> DEFINE last == CHOOSE i \in at : \A j \in at : j <= i
    <3>2. last = sel + 1
      BY <1>2, <3>1
    <3>3. Check!Cursor!StartAt(list, t) = last - 1
      BY <3>1, Zenon DEF Check!Cursor!StartAt, at
    <3> HIDE DEF last
    <3> QED
      BY <1>1, <1>2, <3>2, <3>3
  <2> QED
    BY <2>1, <2>2
<1> HIDE DEF t
<1>5. c_scroll' + c_choice' = sel
  BY CheckOpenRight DEF sel
<1>6. /\ ~Check!IsOpen /\ c_items' = list /\ c_key' = "none" /\ c_answer' = NoItem
  BY DEF Check!dialog_checklist
<1> QED
  BY <1>3, <1>4, <1>5, <1>6 DEF Check!Cursor!Open, Check!IsOpen, Check!Cursor!IsOpen

(* Every step keeps the screen right and is one of the cursor.             *)
LEMMA CheckStep ==
  ASSUME CheckInv, Check!TagsDiffer, DOMAIN Hot = Item, [Check!Next]_(Check!vars)
  PROVE  CheckInv' /\ [Check!Cursor!Next]_(Check!Cursor!vars)
<1>1. ASSUME NEW list \in Lists, NEW set, Check!dialog_checklist(list, set)
      PROVE  CheckInv' /\ Check!Cursor!Next
  BY <1>1, CheckOpenRight, CheckOpens DEF Check!Cursor!Next
<1>2. CASE Check!KeyUp
  <2>0. Check!IsOpen /\ c_key' = "up" /\ UNCHANGED <<c_items, c_answer>>
        /\ c_scroll' + c_choice' = Check!Cursor!AtLeast(c_scroll + c_choice - 1, 0)
    BY <1>2, CheckUp
  <2>1. c_scroll \in Nat /\ c_choice \in Nat
    BY <2>0, CheckNumbers DEF Check!IsOpen
  <2>2. Check!Cursor!Up
    BY <2>0, <2>1 DEF Check!Cursor!Up, Check!Cursor!MoveTo, Check!Cursor!AtLeast
  <2>3. Check!Cursor!IsOpen
    BY <2>0 DEF Check!IsOpen, Check!Cursor!IsOpen
  <2> QED
    BY <1>2, <2>2, <2>3, CheckUp DEF Check!Cursor!Next
<1>3. CASE Check!KeyDown
  <2>1. Check!Cursor!IsOpen /\ Check!Cursor!Down
    BY <1>3, CheckDown DEF Check!IsOpen, Check!Cursor!IsOpen, Check!Cursor!Down, Check!Cursor!MoveTo,
       Check!Cursor!LastPos
  <2> QED
    BY <1>3, <2>1, CheckDown DEF Check!Cursor!Next
<1>4. ASSUME NEW k \in {Hot[t] : t \in Item}, Check!HotKey(k)
      PROVE  CheckInv' /\ Check!Cursor!Next
  BY <1>4, CheckHotKey DEF Check!Cursor!Next, Check!Cursor!Keys
<1>5. ASSUME NEW k \in {"left", "right"}, Check!Buttons(k)
      PROVE  CheckInv' /\ Check!Cursor!Next
  <2>1. Check!Cursor!IsOpen /\ Check!Cursor!Other(k)
    BY <1>5 DEF Check!Buttons, Check!IsOpen, Check!Cursor!IsOpen, Check!Cursor!Other, Check!Cursor!MoveTo
  <2>2. CheckInv'
    BY <1>5 DEF Check!Buttons, CheckInv, CheckInWindow, Check!ScreenRight, Check!max_choice, Check!item_no,
       Check!At
  <2> QED
    BY <2>1, <2>2 DEF Check!Cursor!Next, Check!Cursor!Keys
<1>6. ASSUME NEW k \in {"space", "select", "enter"}, Check!Press(k)
      PROVE  CheckInv' /\ Check!Cursor!Next
  <2>1. Check!Cursor!IsOpen /\ Check!Cursor!Close(k)
    BY <1>6 DEF Check!Press, Check!IsOpen, Check!At, Check!Cursor!IsOpen, Check!Cursor!Close
  <2> QED
    BY <1>6, <2>1, CheckPressRight DEF Check!Cursor!Next, Check!Cursor!Keys
<1>7. CASE Check!Help
  <2>1. Check!Cursor!IsOpen /\ Check!Cursor!Close("help")
    BY <1>7 DEF Check!Help, Check!IsOpen, Check!At, Check!Cursor!IsOpen, Check!Cursor!Close
  <2>2. CheckInv'
    BY <1>7 DEF Check!Help, CheckInv, CheckInWindow, Check!ScreenRight, Check!max_choice, Check!item_no,
       Check!At
  <2> QED
    BY <2>1, <2>2 DEF Check!Cursor!Next, Check!Cursor!Keys
<1>8. CASE Check!Escape
  <2>1. Check!Cursor!IsOpen /\ Check!Cursor!Leave("exit")
    BY <1>8 DEF Check!Escape, Check!IsOpen, Check!Cursor!IsOpen, Check!Cursor!Leave
  <2>2. CheckInv'
    BY <1>8 DEF Check!Escape, CheckInv, CheckInWindow, Check!ScreenRight
  <2> QED
    BY <2>1, <2>2 DEF Check!Cursor!Next, Check!Cursor!Keys
<1>9. CASE UNCHANGED Check!vars
  BY <1>9 DEF Check!vars, Check!Cursor!vars, CheckInv, CheckInWindow, Check!ScreenRight,
     Check!max_choice, Check!item_no, Check!At
<1> QED
  BY <1>1, <1>2, <1>3, <1>4, <1>5, <1>6, <1>7, <1>8, <1>9 DEF Check!Next

LEMMA CheckStarts ==
  Check!Init => CheckInv /\ Check!Cursor!Init
BY MenuAssumption DEF Check!Init, CheckInv, CheckInWindow, Check!ScreenRight, Check!Cursor!Init

(* The rows of a check or radio list show the items from "scroll" on with  *)
(* their marks, one of them highlighted, and the arrows tell whether there *)
(* is more, although moves repaint one or two rows (checklist.c:204-341).  *)
THEOREM CheckScreenIsRight ==
  ASSUME Check!TagsDiffer, DOMAIN Hot = Item
  PROVE  Check!Spec => []Check!ScreenRight
<1>1. CheckInv /\ [Check!Next]_(Check!vars) => CheckInv'
  BY CheckStep
<1>2. CheckInv => Check!ScreenRight
  BY DEF CheckInv
<1> QED
  BY CheckStarts, <1>1, <1>2, PTL DEF Check!Spec

(* A check or radio list is the same plain cursor as the menu box: what is *)
(* answered is the item that the keys led to.                              *)
THEOREM CheckIsCursor ==
  ASSUME Check!TagsDiffer, DOMAIN Hot = Item
  PROVE  Check!Spec => Check!IsCursor
<1>1. CheckInv /\ [Check!Next]_(Check!vars) => CheckInv'
  BY CheckStep
<1>2. CheckInv /\ [Check!Next]_(Check!vars) => [Check!Cursor!Next]_(Check!Cursor!vars)
  BY CheckStep
<1> QED
  BY CheckStarts, <1>1, <1>2, PTL DEF Check!Spec, Check!IsCursor, Check!Cursor!Spec

-----------------------------------------------------------------------------
(* The input box.                                                          *)
CONSTANTS Char, NUL, Blank, MAX_LEN, box_width, InitTexts, NoText

VARIABLES i_mode, i_button, i_code, i_printed, i_instr, i_scroll, i_x, i_field

Box == INSTANCE LxDialog WITH
  mode <- i_mode, button <- i_button, code <- i_code, printed <- i_printed, instr <- i_instr,
  scroll <- i_scroll, input_x <- i_x, field <- i_field

\* Outside the input box the array is empty and nothing is scrolled.
InputInv ==
  /\ i_instr \in Box!Array /\ i_scroll \in Nat /\ i_x \in Box!Columns
  /\ i_mode # "inputbox" => i_scroll = 0 /\ i_x = 0
  /\ Box!FieldRight

LEMMA InputNumbers ==
  ASSUME Box!InputAssumption, InputInv
  PROVE  /\ MAX_LEN \in Nat /\ box_width \in Nat /\ 2 <= box_width /\ box_width <= MAX_LEN
         /\ i_scroll \in Nat /\ i_x \in Nat /\ i_x < box_width /\ i_scroll + i_x <= MAX_LEN
         /\ Box!Columns = 0 .. box_width - 1
         /\ \A i \in 0 .. MAX_LEN : i_instr[i] = NUL <=> i >= i_scroll + i_x
BY DEF Box!InputAssumption, InputInv, Box!FieldRight, Box!Columns

(* The text of an array that holds NULs from n on only.                    *)
LEMMA TextIs ==
  ASSUME Box!InputAssumption, NEW a \in Box!Array, NEW n \in 0 .. MAX_LEN,
         \A i \in 0 .. MAX_LEN : a[i] = NUL <=> i >= n
  PROVE  /\ Box!strlen(a) = n
         /\ Box!Text(a) = [i \in 1 .. n |-> a[i - 1]]
         /\ Box!Text(a) \in Seq(Char) /\ Len(Box!Text(a)) = n /\ Box!Text(a) # NoText
<1>0. MAX_LEN \in Nat /\ NUL \notin Char /\ NoText \notin Seq(Char)
  BY DEF Box!InputAssumption
<1> DEFINE Ends(k) == a[k] = NUL /\ \A i \in 0 .. k - 1 : a[i] # NUL
<1>1. n \in Nat /\ Ends(n)
  BY <1>0
<1>2. ASSUME NEW k \in 0 .. MAX_LEN, Ends(k)
      PROVE  k = n
  BY <1>0, <1>1, <1>2
<1>3. Box!strlen(a) = n
  BY <1>1, <1>2 DEF Box!strlen
<1>4. Box!Text(a) = [i \in 1 .. n |-> a[i - 1]]
  BY <1>3 DEF Box!Text
<1>5. ASSUME NEW i \in 1 .. n
      PROVE  a[i - 1] \in Char
  <2>1. i - 1 \in 0 .. MAX_LEN /\ ~(i - 1 >= n)
    BY <1>0
  <2> QED
    BY <2>1 DEF Box!Array
<1>6. [i \in 1 .. n |-> a[i - 1]] \in Seq(Char) /\ Len([i \in 1 .. n |-> a[i - 1]]) = n
  BY <1>1, <1>5
<1> QED
  BY <1>0, <1>3, <1>4, <1>6

LEMMA InputText ==
  ASSUME Box!InputAssumption, InputInv
  PROVE  /\ Box!strlen(i_instr) = i_scroll + i_x
         /\ Box!Text(i_instr) = [i \in 1 .. i_scroll + i_x |-> i_instr[i - 1]]
         /\ Box!Text(i_instr) \in Seq(Char) /\ Len(Box!Text(i_instr)) = i_scroll + i_x
         /\ Box!Text(i_instr) # NoText
<1>1. i_scroll + i_x \in 0 .. MAX_LEN /\ i_instr \in Box!Array
  BY InputNumbers DEF InputInv
<1> QED
  BY <1>1, InputNumbers, TextIs

LEMMA EmptyBox ==
  ASSUME Box!InputAssumption, i_instr = Box!EmptyArray, i_scroll = 0, i_x = 0,
         i_field = [c \in Box!Columns |-> Blank]
  PROVE  InputInv
<1>1. MAX_LEN \in Nat /\ box_width \in Nat /\ 2 <= box_width
  BY DEF Box!InputAssumption
<1>2. 0 \in Box!Columns /\ i_instr \in Box!Array /\ \A c \in Box!Columns : ~(c < 0)
  BY <1>1 DEF Box!Columns, Box!Array, Box!EmptyArray
<1>3. Box!FieldRight
  BY <1>1, <1>2 DEF Box!FieldRight, Box!EmptyArray
<1> QED
  BY <1>2, <1>3 DEF InputInv

LEMMA ReturnRight ==
  ASSUME Box!InputAssumption, NEW status, Box!Return(status)
  PROVE  InputInv' /\ i_scroll' = 0 /\ i_mode' = "none"
<1>1. /\ i_instr' = Box!EmptyArray /\ i_scroll' = 0 /\ i_x' = 0
      /\ i_field' = [c \in Box!Columns |-> Blank] /\ i_mode' = "none"
  BY DEF Box!Return
<1>2. MAX_LEN \in Nat /\ box_width \in Nat /\ 2 <= box_width
  BY DEF Box!InputAssumption
<1>3. 0 \in Box!Columns /\ i_instr' \in Box!Array /\ \A c \in Box!Columns : ~(c < 0)
  BY <1>1, <1>2 DEF Box!Columns, Box!Array, Box!EmptyArray
<1>4. Box!FieldRight'
  BY <1>1, <1>2, <1>3 DEF Box!FieldRight, Box!EmptyArray
<1> QED
  BY <1>1, <1>3, <1>4 DEF InputInv

(* The box opens with the end of the text in the field.                    *)
LEMMA InputOpens ==
  ASSUME Box!InputAssumption, NEW t \in InitTexts, Box!dialog_inputbox(t)
  PROVE  /\ InputInv' /\ i_mode = "none" /\ i_mode' = "inputbox" /\ i_printed' = NoText
         /\ i_x' > 0 \/ i_scroll' = 0
<1>1. /\ MAX_LEN \in Nat /\ box_width \in Nat /\ 2 <= box_width /\ box_width <= MAX_LEN
      /\ NUL \notin Char /\ t \in Seq(Char) /\ Len(t) \in Nat /\ Len(t) <= MAX_LEN
  BY DEF Box!InputAssumption
<1> DEFINE s == IF Len(t) >= box_width THEN Len(t) - box_width + 1 ELSE 0
           n == Len(t)
<1>2. /\ i_mode = "none" /\ i_mode' = "inputbox" /\ i_printed' = NoText
      /\ i_instr' = [i \in 0 .. MAX_LEN |-> IF i < n THEN t[i + 1] ELSE NUL]
      /\ i_scroll' = s /\ i_x' = n - s
      /\ i_field' = [c \in Box!Columns |-> IF c < n - s THEN t[s + c + 1] ELSE Blank]
  BY DEF Box!dialog_inputbox, Box!Start
<1>3. s \in Nat /\ n - s \in 0 .. box_width - 1 /\ (n - s > 0 \/ s = 0) /\ s + (n - s) = n
  BY <1>1
<1>4. \A i \in 0 .. MAX_LEN : i < n => t[i + 1] \in Char
  BY <1>1
<1> HIDE DEF s
<1>5. i_instr' \in Box!Array /\ n - s \in Box!Columns
  BY <1>2, <1>3, <1>4 DEF Box!Array, Box!Columns
<1>6. \A i \in 0 .. MAX_LEN : i_instr'[i] = NUL <=> i >= n
  <2> SUFFICES ASSUME NEW i \in 0 .. MAX_LEN
               PROVE  i_instr'[i] = NUL <=> i >= n
    OBVIOUS
  <2>1. i_instr'[i] = IF i < n THEN t[i + 1] ELSE NUL
    BY <1>2
  <2> QED
    BY <1>1, <1>4, <2>1
<1>7. i_field' = [c \in Box!Columns |-> IF c < n - s THEN i_instr'[s + c] ELSE Blank]
  <2>1. ASSUME NEW c \in Box!Columns, c < n - s
        PROVE  i_instr'[s + c] = t[s + c + 1]
    <3>1. s + c \in 0 .. MAX_LEN /\ s + c < n
      BY <1>1, <1>3, <2>1 DEF Box!Columns
    <3> QED
      BY <1>2, <3>1
  <2> QED
    BY <1>2, <2>1
<1>8. Box!FieldRight'
  BY <1>1, <1>2, <1>3, <1>6, <1>7 DEF Box!FieldRight
<1> QED
  BY <1>2, <1>3, <1>5, <1>8 DEF InputInv

LEMMA BackspaceRight ==
  ASSUME Box!InputAssumption, InputInv, Box!Backspace
  PROVE  InputInv' /\ (Box!Editor!Delete \/ Box!Editor!Reveal)
<1> DEFINE n == i_scroll + i_x
<1>0. /\ MAX_LEN \in Nat /\ box_width \in Nat /\ 2 <= box_width /\ box_width <= MAX_LEN
      /\ i_scroll \in Nat /\ i_x \in Nat /\ i_x < box_width /\ n \in Nat /\ n <= MAX_LEN
      /\ Box!Columns = 0 .. box_width - 1
      /\ \A i \in 0 .. MAX_LEN : i_instr[i] = NUL <=> i >= n
  BY InputNumbers
<1>1. /\ i_mode = "inputbox" /\ i_mode' = "inputbox" /\ i_printed' = i_printed
  BY DEF Box!Backspace, Box!InField
<1>2. /\ i_instr \in Box!Array
      /\ i_field = [c \in Box!Columns |-> IF c < i_x THEN i_instr[i_scroll + c] ELSE Blank]
  BY DEF InputInv, Box!FieldRight
<1>3. CASE i_x > 0 /\ Box!Deleted(i_scroll, i_x - 1, i_field)
  <2>1. /\ i_scroll' = i_scroll /\ i_x' = i_x - 1
        /\ i_instr' = [i_instr EXCEPT ![i_scroll + (i_x - 1)] = NUL]
        /\ i_field' = [i_field EXCEPT ![i_x - 1] = Blank]
    BY <1>3 DEF Box!Deleted
  <2>2. i_scroll + (i_x - 1) = n - 1 /\ n - 1 \in 0 .. MAX_LEN /\ i_x - 1 \in Box!Columns
    BY <1>0, <1>3
  <2>3. i_instr' \in Box!Array /\ \A i \in 0 .. MAX_LEN :
          i_instr'[i] = IF i = n - 1 THEN NUL ELSE i_instr[i]
    BY <1>2, <2>1, <2>2 DEF Box!Array
  <2>4. \A i \in 0 .. MAX_LEN : i_instr'[i] = NUL <=> i >= n - 1
    BY <1>0, <2>2, <2>3
  <2>5. i_field' = [c \in Box!Columns |-> IF c < i_x - 1 THEN i_instr'[i_scroll + c] ELSE Blank]
    <3>1. ASSUME NEW c \in Box!Columns
          PROVE  i_field'[c] = IF c < i_x - 1 THEN i_instr'[i_scroll + c] ELSE Blank
      <4>1. CASE c < i_x - 1
        <5>1. c # i_x - 1 /\ c < i_x /\ i_scroll + c \in 0 .. MAX_LEN /\ i_scroll + c # n - 1
          BY <1>0, <4>1
        <5> QED
          BY <1>2, <2>1, <2>3, <4>1, <5>1
      <4>2. CASE c = i_x - 1
        BY <1>2, <2>1, <4>2, <1>0
      <4>3. CASE c > i_x - 1
        <5>1. c # i_x - 1 /\ ~(c < i_x)
          BY <1>0, <4>3
        <5> QED
          BY <1>0, <1>2, <2>1, <4>3, <5>1
      <4> QED
        BY <1>0, <4>1, <4>2, <4>3
    <3>2. i_field' = [c \in Box!Columns |-> i_field'[c]]
      BY <1>2, <2>1
    <3> QED
      BY <3>1, <3>2
  <2>6. InputInv'
    <3>1. i_scroll' + i_x' = n - 1 /\ n - 1 <= MAX_LEN
      BY <2>1, <2>2, <1>0
    <3>2. Box!FieldRight'
      BY <2>1, <2>4, <2>5, <3>1 DEF Box!FieldRight
    <3> QED
      BY <1>0, <1>1, <2>1, <2>2, <2>3, <3>2 DEF InputInv
  <2>7. /\ Box!Text(i_instr) = [i \in 1 .. n |-> i_instr[i - 1]] /\ Box!Text(i_instr) \in Seq(Char)
        /\ Len(Box!Text(i_instr)) = n /\ Box!Text(i_instr) # NoText
    BY InputText
  <2>8. Box!Text(i_instr)' = [i \in 1 .. n - 1 |-> i_instr'[i - 1]]
    BY <2>2, <2>3, <2>4, TextIs
  <2>9. SubSeq(Box!Text(i_instr), 1, n - 1) = [i \in 1 .. n - 1 |-> i_instr'[i - 1]]
    <3>1. SubSeq(Box!Text(i_instr), 1, n - 1) = [i \in 1 .. n - 1 |-> Box!Text(i_instr)[i]]
      BY <1>0, <2>2, <2>7
    <3>2. ASSUME NEW i \in 1 .. n - 1
          PROVE  Box!Text(i_instr)[i] = i_instr'[i - 1]
      <4>1. i \in 1 .. n /\ i - 1 \in 0 .. MAX_LEN /\ i - 1 # n - 1
        BY <1>0, <2>2
      <4> QED
        BY <2>3, <2>7, <4>1
    <3> QED
      BY <3>1, <3>2
  <2>10. Box!Editor!Delete
    <3>1. Box!Text(i_instr) # << >>
      <4> DEFINE txt == Box!Text(i_instr)
      <4>1. Len(txt) = n /\ n > 0
        BY <1>0, <1>3, <2>7
      <4> HIDE DEF txt
      <4>2. txt # << >>
        BY <4>1
      <4> QED
        BY <4>2 DEF txt
    <3> QED
      BY <1>0, <1>1, <1>3, <2>7, <2>8, <2>9, <3>1 DEF Box!Editor!Delete
  <2> QED
    BY <2>6, <2>10
<1>4. CASE i_x = 0 /\ i_scroll > 0
  <2> DEFINE r == Box!Rescrolled
             cells == [c \in Box!Columns |-> IF i_instr[r + c] = NUL THEN Blank ELSE i_instr[r + c]]
  <2>1. Box!Deleted(r, n - r, cells)
    BY <1>0, <1>4, InputText DEF Box!Backspace
  <2>2. r = IF i_scroll < box_width - 1 THEN 0 ELSE i_scroll - (box_width - 1)
    BY DEF Box!Rescrolled
  <2> HIDE DEF r
  <2>3. r \in Nat /\ n - r \in Nat /\ 0 < n - r /\ n - r < box_width /\ r + (n - r) = n
    BY <1>0, <1>4, <2>2
  <2>4. n \in 0 .. MAX_LEN /\ n - r \in Box!Columns /\ i_instr[n] = NUL
    BY <1>0, <2>3
  <2>5. i_scroll' = r /\ i_x' = n - r /\ i_instr' = i_instr
    BY <1>2, <2>1, <2>3, <2>4 DEF Box!Deleted, Box!Array
  <2>6. i_field' = [c \in Box!Columns |-> IF c < n - r THEN i_instr[r + c] ELSE Blank]
    <3>1. i_field' = [cells EXCEPT ![n - r] = Blank]
      BY <2>1 DEF Box!Deleted
    <3>2. ASSUME NEW c \in Box!Columns
          PROVE  i_field'[c] = IF c < n - r THEN i_instr[r + c] ELSE Blank
      <4>1. r + c \in 0 .. MAX_LEN
        BY <1>0, <1>4, <2>2
      <4>2. i_instr[r + c] = NUL <=> ~(c < n - r)
        BY <1>0, <2>3, <4>1
      <4>3. i_field'[c] = IF c = n - r THEN Blank
                          ELSE IF i_instr[r + c] = NUL THEN Blank ELSE i_instr[r + c]
        BY <3>1
      <4> QED
        BY <1>0, <2>3, <4>2, <4>3
    <3> QED
      BY <3>1, <3>2
  <2>7. Box!FieldRight'
    BY <1>0, <2>3, <2>5, <2>6 DEF Box!FieldRight
  <2>8. InputInv'
    BY <1>1, <1>2, <2>3, <2>4, <2>5, <2>7 DEF InputInv
  <2>9. Box!Editor!Reveal
    BY <1>0, <1>1, <1>4, <2>3, <2>5, InputText DEF Box!Editor!Reveal
  <2> QED
    BY <2>8, <2>9
<1> QED
  BY <1>0, <1>3, <1>4 DEF Box!Backspace

LEMMA AppendedText ==
  ASSUME NEW t \in Seq(Char), NEW ch \in Char, NEW n \in Nat, Len(t) = n
  PROVE  Append(t, ch) = [i \in 1 .. n + 1 |-> IF i = n + 1 THEN ch ELSE t[i]]
<1> DEFINE u == Append(t, ch)
<1>1. /\ u \in Seq(Char) /\ Len(u) = n + 1 /\ u[n + 1] = ch
      /\ \A i \in 1 .. n : u[i] = t[i]
  BY AppendProperties
<1> HIDE DEF u
<1>2. u = [i \in 1 .. n + 1 |-> u[i]]
  BY <1>1
<1>3. \A i \in 1 .. n + 1 : u[i] = IF i = n + 1 THEN ch ELSE t[i]
  BY <1>1
<1>4. u = [i \in 1 .. n + 1 |-> IF i = n + 1 THEN ch ELSE t[i]]
  BY <1>2, <1>3
<1> QED
  BY <1>4 DEF u

LEMMA TypeRight ==
  ASSUME Box!InputAssumption, InputInv, NEW ch \in Char, Box!Type(ch)
  PROVE  InputInv' /\ Box!Editor!Append1
<1> DEFINE n == i_scroll + i_x
<1>0. /\ MAX_LEN \in Nat /\ box_width \in Nat /\ 2 <= box_width /\ box_width <= MAX_LEN
      /\ i_scroll \in Nat /\ i_x \in Nat /\ i_x < box_width /\ n \in Nat /\ n < MAX_LEN
      /\ Box!Columns = 0 .. box_width - 1 /\ NUL \notin Char
      /\ \A i \in 0 .. MAX_LEN : i_instr[i] = NUL <=> i >= n
  BY InputNumbers DEF Box!Type, Box!InputAssumption
<1>1. /\ i_mode = "inputbox" /\ i_mode' = "inputbox" /\ i_printed' = i_printed
      /\ i_instr' = [i_instr EXCEPT ![n] = ch, ![n + 1] = NUL] /\ i_instr' = Box!Appended(ch)
  BY DEF Box!Type, Box!InField, Box!Appended
<1>2. /\ i_instr \in Box!Array
      /\ i_field = [c \in Box!Columns |-> IF c < i_x THEN i_instr[i_scroll + c] ELSE Blank]
  BY DEF InputInv, Box!FieldRight
<1>3. /\ i_instr' \in Box!Array
      /\ \A i \in 0 .. MAX_LEN :
           i_instr'[i] = IF i = n + 1 THEN NUL ELSE IF i = n THEN ch ELSE i_instr[i]
  <2>1. n \in 0 .. MAX_LEN /\ n + 1 \in 0 .. MAX_LEN
    BY <1>0
  <2> QED
    BY <1>1, <1>2, <2>1 DEF Box!Array
<1>4. \A i \in 0 .. MAX_LEN : i_instr'[i] = NUL <=> i >= n + 1
  BY <1>0, <1>3
<1>5. i_scroll' + i_x' = n + 1 /\ i_scroll' \in Nat /\ i_x' \in Box!Columns /\ i_x' > 0
  BY <1>0 DEF Box!Type
<1>6. i_field' = [c \in Box!Columns |-> IF c < i_x' THEN i_instr'[i_scroll' + c] ELSE Blank]
  <2>1. CASE i_x = box_width - 1
    <3>1. i_x' = i_x /\ i_scroll' = i_scroll + 1 /\ i_field' = Box!Scrolled(ch)
      BY <1>0, <2>1 DEF Box!Type
    <3>2. i_field' = [c \in Box!Columns |-> IF c < box_width - 1 THEN i_instr'[i_scroll + 1 + c]
                                            ELSE i_field[c]]
      BY <1>1, <3>1 DEF Box!Scrolled
    <3>3. \A c \in Box!Columns : ~(c < box_width - 1) => i_field[c] = Blank
      BY <1>0, <1>2, <2>1
    <3> QED
      BY <2>1, <3>1, <3>2, <3>3
  <2>2. CASE i_x < box_width - 1
    <3>1. i_x' = i_x + 1 /\ i_scroll' = i_scroll /\ i_field' = [i_field EXCEPT ![i_x] = ch]
      BY <1>0, <2>2 DEF Box!Type
    <3>2. ASSUME NEW c \in Box!Columns
          PROVE  i_field'[c] = IF c < i_x' THEN i_instr'[i_scroll' + c] ELSE Blank
      <4>1. i_field'[c] = IF c = i_x THEN ch
                          ELSE IF c < i_x THEN i_instr[i_scroll + c] ELSE Blank
        BY <1>2, <3>1
      <4>2. CASE c < i_x
        <5>1. i_scroll + c \in 0 .. MAX_LEN /\ i_scroll + c # n /\ i_scroll + c # n + 1 /\ c < i_x + 1
              /\ c # i_x
          BY <1>0, <4>2
        <5> QED
          BY <1>3, <3>1, <4>1, <4>2, <5>1
      <4>3. CASE c = i_x
        <5>1. n \in 0 .. MAX_LEN /\ n # n + 1 /\ c < i_x + 1
          BY <1>0, <4>3
        <5> QED
          BY <1>3, <3>1, <4>1, <4>3, <5>1
      <4>4. CASE c > i_x
        <5>1. c # i_x /\ ~(c < i_x) /\ ~(c < i_x + 1)
          BY <1>0, <4>4
        <5> QED
          BY <3>1, <4>1, <5>1
      <4> QED
        BY <1>0, <4>2, <4>3, <4>4
    <3>3. i_field' = [c \in Box!Columns |-> i_field'[c]]
      BY <1>2, <3>1
    <3> QED
      BY <3>2, <3>3
  <2> QED
    BY <1>0, <2>1, <2>2
<1>7. InputInv'
  <2>1. n + 1 <= MAX_LEN
    BY <1>0
  <2>2. \A i \in 0 .. MAX_LEN : i_instr'[i] = NUL <=> i >= i_scroll' + i_x'
    BY <1>4, <1>5
  <2>3. i_scroll' + i_x' <= MAX_LEN
    BY <1>5, <2>1
  <2>4. Box!FieldRight'
    BY <1>6, <2>2, <2>3 DEF Box!FieldRight
  <2> QED
    BY <1>1, <1>3, <1>5, <2>4 DEF InputInv
<1>8. /\ Box!Text(i_instr) = [i \in 1 .. n |-> i_instr[i - 1]] /\ Box!Text(i_instr) \in Seq(Char)
      /\ Len(Box!Text(i_instr)) = n /\ Box!Text(i_instr) # NoText
  BY InputText
<1>9. Box!Text(i_instr)' = [i \in 1 .. n + 1 |-> i_instr'[i - 1]]
  <2>1. n + 1 \in 0 .. MAX_LEN
    BY <1>0
  <2> QED
    BY <1>3, <1>4, <2>1, TextIs
<1>10. Append(Box!Text(i_instr), ch) = [i \in 1 .. n + 1 |-> i_instr'[i - 1]]
  <2>1. Append(Box!Text(i_instr), ch) =
          [i \in 1 .. n + 1 |-> IF i = n + 1 THEN ch ELSE Box!Text(i_instr)[i]]
    BY <1>0, <1>8, AppendedText
  <2>2. \A i \in 1 .. n : Box!Text(i_instr)[i] = i_instr'[i - 1]
    BY <1>0, <1>3, <1>8
  <2>3. i_instr'[n + 1 - 1] = ch
    BY <1>0, <1>3
  <2> QED
    BY <1>0, <2>1, <2>2, <2>3
<1>11. Box!Editor!Append1
  BY <1>0, <1>1, <1>5, <1>8, <1>9, <1>10 DEF Box!Editor!Append1
<1> QED
  BY <1>7, <1>11

(* A step that closes a box: with the text, or without.                    *)
LEMMA ReturnMaps ==
  ASSUME Box!InputAssumption, InputInv, NEW status, Box!Return(status)
  PROVE  InputInv' /\ (Box!Editor!Accept \/ Box!Editor!Leave \/ Box!Editor!Forget)
<1>1. InputInv' /\ i_scroll' = 0 /\ i_mode' = "none"
  BY ReturnRight
<1>2. i_printed' = IF i_mode = "inputbox" /\ status = 0 THEN Box!Text(i_instr) ELSE NoText
  BY DEF Box!Return
<1>3. CASE i_mode = "inputbox"
  BY <1>1, <1>2, <1>3, InputText DEF Box!Editor!Accept, Box!Editor!Leave
<1>4. CASE i_mode # "inputbox"
  BY <1>1, <1>2, <1>4 DEF Box!Editor!Forget, InputInv
<1> QED
  BY <1>1, <1>3, <1>4

LEMMA InputStep ==
  ASSUME Box!InputAssumption, InputInv, [Box!Next]_(Box!vars)
  PROVE  InputInv' /\ [Box!Editor!Next]_(Box!Editor!vars)
<1>1. ASSUME NEW status, Box!Return(status)
      PROVE  InputInv' /\ [Box!Editor!Next]_(Box!Editor!vars)
  BY <1>1, ReturnMaps DEF Box!Editor!Next
<1>2. CASE Box!Ask
  <2>1. i_mode = "none" /\ i_mode' \in {"yesno", "msgbox"} /\ i_printed' = NoText /\ UNCHANGED Box!input
    BY <1>2 DEF Box!Ask, Box!Start
  <2>2. InputInv'
    BY <2>1 DEF Box!input, InputInv, Box!FieldRight
  <2>3. Box!Editor!Forget
    BY <2>1 DEF Box!input, Box!Editor!Forget
  <2> QED
    BY <2>2, <2>3 DEF Box!Editor!Next
<1>3. ASSUME UNCHANGED <<i_mode, i_printed, Box!input>>
      PROVE  InputInv' /\ [Box!Editor!Next]_(Box!Editor!vars)
  <2>1. InputInv'
    BY <1>3 DEF Box!input, InputInv, Box!FieldRight
  <2>2. UNCHANGED Box!Editor!vars
    BY <1>3 DEF Box!input, Box!Editor!vars, Box!Text, Box!strlen
  <2> QED
    BY <2>1, <2>2
<1>4. CASE Box!YesNo
  BY <1>1, <1>3, <1>4 DEF Box!YesNo
<1>5. CASE Box!MsgBox
  BY <1>1, <1>5 DEF Box!MsgBox
<1>6. ASSUME NEW t \in InitTexts, Box!dialog_inputbox(t)
      PROVE  InputInv' /\ [Box!Editor!Next]_(Box!Editor!vars)
  <2>1. /\ InputInv' /\ i_mode = "none" /\ i_mode' = "inputbox" /\ i_printed' = NoText
        /\ i_x' > 0 \/ i_scroll' = 0
    BY <1>6, InputOpens
  <2>2. Box!Text(i_instr)' \in Seq(Char)
    <3>1. i_instr' \in Box!Array /\ i_scroll' + i_x' \in 0 .. MAX_LEN
          /\ \A i \in 0 .. MAX_LEN : i_instr'[i] = NUL <=> i >= i_scroll' + i_x'
      <4>1. /\ i_instr' \in Box!Array /\ i_scroll' \in Nat /\ i_x' \in 0 .. box_width - 1
            /\ i_scroll' + i_x' <= MAX_LEN
            /\ \A i \in 0 .. MAX_LEN : i_instr'[i] = NUL <=> i >= i_scroll' + i_x'
        BY <2>1 DEF InputInv, Box!FieldRight, Box!Columns
      <4>2. MAX_LEN \in Nat /\ box_width \in Nat
        BY DEF Box!InputAssumption
      <4>3. \A s \in Nat, x \in 0 .. box_width - 1 : s + x <= MAX_LEN => s + x \in 0 .. MAX_LEN
        BY <4>2
      <4>4. i_scroll' + i_x' \in 0 .. MAX_LEN
        BY <4>1, <4>3
      <4> QED
        BY <4>1, <4>4
    <3> QED
      BY <3>1, TextIs
  <2>3. Box!Editor!Open
    BY <2>1, <2>2 DEF Box!Editor!Open
  <2> QED
    BY <2>1, <2>3 DEF Box!Editor!Next
<1>7. CASE Box!Backspace
  BY <1>7, BackspaceRight DEF Box!Editor!Next
<1>8. ASSUME NEW ch \in Char, Box!Type(ch)
      PROVE  InputInv' /\ [Box!Editor!Next]_(Box!Editor!vars)
  BY <1>8, TypeRight DEF Box!Editor!Next
<1>9. CASE Box!Select
  BY <1>3, <1>9 DEF Box!Select
<1>10. CASE Box!CloseInput
  BY <1>1, <1>10 DEF Box!CloseInput
<1>11. CASE UNCHANGED Box!vars
  BY <1>3, <1>11 DEF Box!vars, Box!input
<1> QED
  BY <1>2, <1>4, <1>5, <1>6, <1>7, <1>8, <1>9, <1>10, <1>11 DEF Box!Next

LEMMA InputStarts ==
  ASSUME Box!InputAssumption, Box!Init
  PROVE  InputInv /\ Box!Editor!Init
<1>1. InputInv
  BY EmptyBox DEF Box!Init
<1> QED
  BY <1>1 DEF Box!Init, Box!Editor!Init

(* The field of the input box, repainted cell by cell, shows the end of    *)
(* the text, and nothing is left in the array behind it (inputbox.c:111).  *)
THEOREM FieldIsRight ==
  ASSUME Box!InputAssumption
  PROVE  Box!Spec => []Box!FieldRight
<1>1. Box!Init => InputInv
  BY InputStarts
<1>2. InputInv /\ [Box!Next]_(Box!vars) => InputInv'
  BY InputStep
<1>3. InputInv => Box!FieldRight
  BY DEF InputInv
<1> QED
  BY <1>1, <1>2, <1>3, PTL DEF Box!Spec

(* The input box is a line editor: whatever is scrolled, a key adds or     *)
(* deletes one character at the end, and the text accepted is the text     *)
(* typed (inputbox.c:127-206).                                             *)
THEOREM InputIsEditor ==
  ASSUME Box!InputAssumption
  PROVE  Box!Spec => Box!IsEditor
<1>1. Box!Init => InputInv /\ Box!Editor!Init
  BY InputStarts
<1>2. InputInv /\ [Box!Next]_(Box!vars) => InputInv'
  BY InputStep
<1>3. InputInv /\ [Box!Next]_(Box!vars) => [Box!Editor!Next]_(Box!Editor!vars)
  BY InputStep
<1> QED
  BY <1>1, <1>2, <1>3, PTL DEF Box!Spec, Box!IsEditor, Box!Editor!Spec
=============================================================================
