------------------------------- MODULE LxText -------------------------------
(***************************************************************************)
(* The text box of lxdialog (scripts/lxdialog/textbox.c): a file is shown  *)
(* page by page through a buffer of BUF_SIZE bytes that is read again      *)
(* around the current position, forwards by get_line and backwards by      *)
(* back_lines.  A byte is told by its offset in the file, so that the      *)
(* screen says which bytes it shows.  The end of a page is where the next  *)
(* one begins: "page" is behind the lines shown, and going back counts     *)
(* page_length lines.                                                      *)
(***************************************************************************)
EXTENDS Integers, Sequences, FiniteSets

CONSTANTS
  BUF_SIZE, MAX_LEN,
  height, width,   \* of the dialog; height - 4 rows show text
  Files,           \* what may be shown: [size, newlines], newlines the offsets
  NoFile

\* the instances assume this of the constants
TextAssumption ==
  /\ BUF_SIZE \in Nat \ {0, 1} /\ MAX_LEN \in Nat
  /\ height \in Nat /\ height > 4 /\ width \in Nat /\ width > 4
  /\ \A f \in Files : f.size \in Nat /\ f.newlines \subseteq 0 .. f.size - 1
  /\ NoFile \notin Files

VARIABLES
  file,
  pos,          \* [fpos, bytes_read, page, begin, end, failed]: the buffer holds
                \* the bytes_read bytes before fpos; page is an index in it;
                \* begin_reached, end_reached; the internal error of back_lines
  page_length, hscroll,
  screen,       \* [row -> the offsets shown]
  percent       \* the offset the position indicator was computed from

vars == <<file, pos, page_length, hscroll, screen, percent>>

Height == height - 4
AtMost(a, b)  == IF a < b THEN a ELSE b
IsOpen == file # NoFile /\ ~pos.failed

-----------------------------------------------------------------------------
(* The buffer.                                                             *)
Start(p) == p.fpos - p.bytes_read
Offset(p) == Start(p) + p.page
IsNewline(p) == p.page < p.bytes_read /\ Offset(p) \in file.newlines
AtBufferEnd(p) == p.page = p.bytes_read

ReadAt(p, offset, page) ==
  LET n == AtMost(BUF_SIZE, file.size - offset) IN
  [p EXCEPT !.fpos = offset + n, !.bytes_read = n, !.page = page]

ReadNext(p) == ReadAt(p, p.fpos, 0)

ReadPrevious(p) ==
  IF Start(p) < BUF_SIZE \div 2 THEN ReadAt(p, 0, Start(p))
  ELSE ReadAt(p, Start(p) - BUF_SIZE \div 2, BUF_SIZE \div 2)

-----------------------------------------------------------------------------
(* Forwards.  The result is the new position and the line read.            *)
RECURSIVE GetLine(_, _)
GetLine(p, line) ==
  CASE IsNewline(p) -> [at |-> [p EXCEPT !.page = @ + 1], line |-> line]
    [] AtBufferEnd(p) /\ p.fpos < file.size -> GetLine(ReadNext(p), line)
    [] AtBufferEnd(p) /\ p.fpos >= file.size ->
         [at |-> [p EXCEPT !.end = TRUE], line |-> line]
    [] OTHER -> GetLine([p EXCEPT !.page = @ + 1],
                        IF Len(line) < MAX_LEN THEN Append(line, Offset(p)) ELSE line)

get_line(p) == GetLine([p EXCEPT !.end = FALSE], << >>)

Visible(line, left) == SubSeq(line, left + 1, AtMost(Len(line), left + width - 4))

(* n lines, from row 0; page_length counts them up to the end of the file. *)
RECURSIVE Lines(_, _)
Lines(p, n) ==
  IF n = 0 THEN [at |-> p, text |-> << >>, length |-> 0]
  ELSE LET first == get_line(p)
           rest == Lines(first.at, n - 1)
       IN [at |-> rest.at, text |-> <<first.line>> \o rest.text,
           length |-> IF first.at.end THEN 1 ELSE 1 + rest.length]

print_page(p, left) ==
  LET page == Lines(p, Height) IN
  /\ pos' = page.at
  /\ page_length' = page.length
  /\ screen' = [row \in 1 .. Height |-> Visible(page.text[row], left)]

-----------------------------------------------------------------------------
(* Backwards: to the newline before page, or to the begin of the file.     *)
RECURSIVE ToNewline(_)
ToNewline(p) ==
  LET back == [p EXCEPT !.page = @ - 1] IN
  CASE p.page = 0 /\ Start(p) = 0 -> [p EXCEPT !.begin = TRUE]
    [] p.page = 0 /\ Start(p) > 0 -> ToNewline(ReadPrevious(p))
    [] p.page > 0 /\ IsNewline(back) -> back
    [] OTHER -> ToNewline(back)

RECURSIVE UpLines(_, _)
UpLines(p, n) ==
  IF p.begin THEN p
  ELSE IF n = 0 THEN [p EXCEPT !.page = @ + 1]
  ELSE UpLines(ToNewline(p), n - 1)

\* over the newline that ends the last line shown, unless the file ends there
AlwaysSkip(p) == [p EXCEPT !.page = @ - 1, !.failed = ~IsNewline([p EXCEPT !.page = @ - 1])]  \* mutant
SkipNewline(p) ==
  LET q == IF p.page = 0 /\ Start(p) > 0 THEN ReadPrevious(p) ELSE p
      back == [q EXCEPT !.page = @ - 1]
  IN CASE p.end -> p
       [] ~p.end /\ q.page = 0 -> [q EXCEPT !.begin = TRUE]
       [] OTHER -> [back EXCEPT !.failed = ~IsNewline(back)]

back_lines(p, n) ==
  LET q == SkipNewline([p EXCEPT !.begin = FALSE]) IN
  IF q.failed THEN q ELSE UpLines(q, n)

-----------------------------------------------------------------------------
Init ==
  /\ file = NoFile
  /\ pos = [fpos |-> 0, bytes_read |-> 0, page |-> 0, begin |-> TRUE, end |-> FALSE, failed |-> FALSE]
  /\ page_length = 0 /\ hscroll = 0 /\ screen = << >> /\ percent = 0

Position == percent' = Offset(pos')

(* lxdialog --textbox                                                      *)
dialog_textbox(f) ==
  /\ file = NoFile
  /\ file' = f /\ hscroll' = 0
  /\ LET n == AtMost(BUF_SIZE, f.size) IN
     pos' = [fpos |-> n, bytes_read |-> n, page |-> 0, begin |-> TRUE, end |-> FALSE, failed |-> FALSE]
  /\ page_length' = 0 /\ screen' = << >> /\ percent' = 0

\* the first page is printed before a key is read
FirstPage ==
  /\ IsOpen /\ screen = << >>
  /\ print_page(pos, hscroll) /\ Position
  /\ UNCHANGED <<file, hscroll>>

Reading == IsOpen /\ screen # << >>

FirstLines ==
  /\ Reading /\ ~pos.begin
  /\ LET p == [pos EXCEPT !.begin = TRUE, !.page = 0] IN
     print_page(IF pos.fpos > pos.bytes_read THEN ReadAt(p, 0, 0) ELSE p, hscroll)
  /\ Position
  /\ UNCHANGED <<file, hscroll>>

LastLines ==
  /\ Reading
  /\ LET p == [pos EXCEPT !.end = TRUE]
         q == IF pos.fpos < file.size THEN ReadAt(p, file.size - BUF_SIZE, 0) ELSE p
         b == back_lines([q EXCEPT !.page = q.bytes_read], Height)
     IN print_page(b, hscroll)
  /\ Position
  /\ UNCHANGED <<file, hscroll>>

\* the page from back_lines(n) on, or the end of the program
PageFrom(n, left) ==
  LET b == back_lines(pos, n) IN
  IF b.failed THEN pos' = b /\ UNCHANGED <<page_length, screen>>
  ELSE print_page(b, left)

(* One line: the terminal moves the rows, only the new one is printed;     *)
(* the lines below it are read again for page, end_reached, page_length.   *)
PreviousLine ==
  /\ Reading /\ ~pos.begin
  /\ LET b == back_lines(pos, page_length + 1)
         page == Lines(b, Height)
     IN IF b.failed THEN pos' = b /\ UNCHANGED <<page_length, screen>>
        ELSE /\ pos' = page.at /\ page_length' = page.length
             /\ screen' = [row \in 1 .. Height |->
                  IF row = 1 THEN Visible(page.text[1], hscroll) ELSE screen[row - 1]]
  /\ Position
  /\ UNCHANGED <<file, hscroll>>

LeaveBegin(p) == [p EXCEPT !.begin = FALSE]

NextLine ==
  /\ Reading /\ ~pos.end
  /\ LET l == get_line(LeaveBegin(pos)) IN
     /\ pos' = l.at
     /\ screen' = [row \in 1 .. Height |->
          IF row = Height THEN Visible(l.line, hscroll) ELSE screen[row + 1]]
  /\ Position
  /\ UNCHANGED <<file, hscroll, page_length>>

PreviousPage ==
  /\ Reading /\ ~pos.begin
  /\ PageFrom(page_length + Height, hscroll) /\ Position
  /\ UNCHANGED <<file, hscroll>>

NextPage ==
  /\ Reading /\ ~pos.end
  /\ print_page(LeaveBegin(pos), hscroll) /\ Position
  /\ UNCHANGED <<file, hscroll>>

(* Sideways: the page is printed again; the position is not.               *)
SideWays(left) ==
  /\ Reading
  /\ hscroll' = left
  /\ PageFrom(page_length, left)
  /\ UNCHANGED <<file, percent>>

ScrollLeft  == hscroll > 0 /\ \E left \in {0, hscroll - 1} : SideWays(left)
ScrollRight == hscroll < MAX_LEN /\ SideWays(hscroll + 1)

Exit ==
  /\ Reading
  /\ file' = NoFile /\ hscroll' = 0 /\ page_length' = 0 /\ screen' = << >> /\ percent' = 0
  /\ pos' = [pos EXCEPT !.fpos = 0, !.bytes_read = 0, !.page = 0, !.begin = TRUE, !.end = FALSE]

Next ==
  \/ \E f \in Files : dialog_textbox(f)
  \/ FirstPage
  \/ FirstLines \/ LastLines \/ PreviousLine \/ NextLine \/ PreviousPage \/ NextPage
  \/ ScrollLeft \/ ScrollRight \/ Exit

Spec == Init /\ [][Next]_vars

-----------------------------------------------------------------------------
(* The lines of the file; one that ends with a newline has an empty line   *)
(* behind it.                                                              *)
LineCount == Cardinality(file.newlines) + 1
LinesBefore(offset) == Cardinality({n \in file.newlines : n < offset})
LineAt(i) ==
  LET bytes == {o \in 0 .. file.size - 1 : o \notin file.newlines /\ LinesBefore(o) = i}
      first == CHOOSE o \in bytes : \A q \in bytes : o <= q
  IN [c \in 1 .. AtMost(MAX_LEN, Cardinality(bytes)) |-> first + c - 1]

\* what the window can show of a line
Shown(line) ==
  LET n == AtMost(width - 4, Len(line) - hscroll) IN [c \in 1 .. n |-> line[hscroll + c]]

TopLine ==
  (IF pos.end THEN LineCount ELSE LinesBefore(Offset(pos))) - page_length

TypeOK ==
  /\ file \in Files \cup {NoFile}
  /\ pos.fpos \in Nat /\ pos.bytes_read \in 0 .. BUF_SIZE
  /\ pos.page \in 0 .. pos.bytes_read /\ Start(pos) >= 0
  /\ page_length \in 0 .. Height /\ hscroll \in 0 .. MAX_LEN
  /\ percent \in Nat

(* The rows are consecutive lines of the file, whatever part of it the     *)
(* buffer holds (textbox.c:328-535).                                       *)
ScreenRight == Reading =>
  /\ screen = [row \in 1 .. Height |->
       IF TopLine + row <= LineCount THEN Shown(LineAt(TopLine + row - 1)) ELSE << >>]
  /\ percent = Offset(pos)

(* begin_reached and end_reached, which decide what the keys may do, tell  *)
(* whether the first and the last line are shown (textbox.c:147-273).      *)
EndsKnown == Reading =>
  /\ pos.begin <=> TopLine = 0
  /\ pos.end <=> TopLine + Height >= LineCount

(* "Internal error in back_lines()" is never reported (textbox.c:383-388). *)
NoInternalError == ~pos.failed

(* The text box is a window on the lines of the file.                      *)
Window == INSTANCE TextPager WITH
  Height <- Height, MaxLeft <- MAX_LEN,
  lines <- IF Reading THEN LineCount ELSE 0,
  top <- IF Reading THEN TopLine ELSE 0,
  left <- hscroll

IsWindow == Window!Spec
=============================================================================
