----------------------------- MODULE ListCursor -----------------------------
(***************************************************************************)
(* What the list dialogs promise: one item of a list is selected, a key    *)
(* moves the selection by one, by a page or to an item with that hot key,  *)
(* and the answer names the selected item.  Nothing is said of windows and *)
(* scrolling: LxMenu and LxCheck implement this.                           *)
(***************************************************************************)
EXTENDS Integers, Sequences

CONSTANTS
  Lists,     \* the item lists a dialog may be opened with
  Hot,       \* [item -> its hot key]
  PageSize,  \* how far the page keys go
  NoItem

VARIABLES
  items,     \* the list
  selected,  \* the position of the selected item, from 0
  key,       \* the last key
  answer     \* the item the dialog answered with, NoItem while it is open

vars == <<items, selected, key, answer>>

AtMost(a, b)  == IF a < b THEN a ELSE b
AtLeast(a, b) == IF a > b THEN a ELSE b

LastPos == Len(items) - 1
IsOpen == items # << >> /\ answer = NoItem

Init == items = << >> /\ selected = 0 /\ key = "none" /\ answer = NoItem

\* the position of the item the caller names, else the first
StartAt(list, item) ==
  LET at == {i \in 1 .. Len(list) : list[i] = item} IN
  IF at = {} THEN 0 ELSE (CHOOSE i \in at : \A j \in at : j <= i) - 1

Open(list, item) ==
  /\ ~IsOpen
  /\ items' = list /\ selected' = StartAt(list, item)
  /\ key' = "none" /\ answer' = NoItem

MoveTo(k, pos) ==
  /\ key' = k /\ selected' = pos
  /\ UNCHANGED <<items, answer>>

Up       == MoveTo("up",    AtLeast(selected - 1, 0))
Down     == MoveTo("down",  AtMost(selected + 1, LastPos))
PageUp   == MoveTo("ppage", AtLeast(selected - PageSize, 0))
PageDown == MoveTo("npage", AtMost(selected + PageSize, LastPos))
Jump(k)  == \E pos \in 0 .. LastPos : Hot[items[pos + 1]] = k /\ MoveTo(k, pos)

\* a key that moves nothing, and one that closes the dialog
Other(k) == MoveTo(k, selected)
Close(k) ==
  /\ key' = k /\ answer' = items[selected + 1]
  /\ UNCHANGED <<items, selected>>
Leave(k) == key' = k /\ items' = << >> /\ UNCHANGED <<selected, answer>>

MoveKeys == {"up", "down", "ppage", "npage"}

Keys == {"left", "right", "space", "select", "y", "n", "m", "enter", "help", "exit"}
          \cup {Hot[t] : t \in DOMAIN Hot}

Next ==
  \/ \E list \in Lists, item \in DOMAIN Hot \cup {NoItem} : Open(list, item)
  \/ IsOpen /\ (Up \/ Down \/ PageUp \/ PageDown)
  \/ \E k \in Keys : IsOpen /\ (Jump(k) \/ Other(k) \/ Close(k) \/ Leave(k))

Spec == Init /\ [][Next]_vars
=============================================================================
