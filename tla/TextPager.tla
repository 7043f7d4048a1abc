----------------------------- MODULE TextPager -----------------------------
(***************************************************************************)
(* What the text box promises: a window of Height lines on a text, moved   *)
(* by a line, by a page or to an end of the text, and sideways.  LxText    *)
(* implements it with a buffer that holds a part of the file.              *)
(***************************************************************************)
EXTENDS Integers

CONSTANTS Height, MaxLeft

VARIABLES
  lines,  \* how many lines the text has, 0 when no text is open
  top,    \* the first line shown, from 0
  left    \* how many columns are scrolled out at the left

vars == <<lines, top, left>>

AtMost(a, b)  == IF a < b THEN a ELSE b
AtLeast(a, b) == IF a > b THEN a ELSE b

More == top + Height < lines

Init == lines = 0 /\ top = 0 /\ left = 0

Open == lines' \in Nat \ {0} /\ top' = 0 /\ left' = 0
Leave == lines' = 0 /\ top' = 0 /\ left' = 0

Move(t, l) == lines # 0 /\ lines' = lines /\ top' = t /\ left' = l

Next ==
  \/ lines = 0 /\ Open
  \/ lines # 0 /\ Leave
  \/ Move(0, left)                              \* home
  \/ Move(AtLeast(lines - Height, 0), left)     \* end
  \/ Move(AtLeast(top - 1, 0), left)            \* up
  \/ Move(AtLeast(top - Height, 0), left)       \* page up
  \/ More /\ Move(top + 1, left)                \* down
  \/ More /\ Move(top + Height, left)           \* page down
  \/ Move(top, AtLeast(left - 1, 0))
  \/ Move(top, 0)
  \/ Move(top, AtMost(left + 1, MaxLeft))

Spec == Init /\ [][Next]_vars
=============================================================================
