------------------------------- MODULE KGconf -------------------------------
(***************************************************************************)
(* The GTK front end (scripts/kconfig/gconf.c).  Unlike mconf it keeps a   *)
(* copy of the menus, the rows of a GtkTreeStore, and corrects it after    *)
(* every change: update_tree adds and removes rows and fills those anew    *)
(* whose symbol is marked as changed.                                      *)
(*                                                                         *)
(* A row is what fill_row makes of an entry, with the rows below it.  The  *)
(* help texts, columns that are only hidden, a save under another name and *)
(* a load that fails change nothing that is modelled.  No symbol has two   *)
(* entries, and the symbol MODULES, where there is one, has none.          *)
(***************************************************************************)
EXTENDS KMenu, SequencesExt

CONSTANTS
  NoEntry,   \* the NULL menu pointer
  MaxRows    \* bound: nothing is loaded on top of more rows than these

\* the instances assume this of the constants
RowsAssumption == /\ NoEntry \notin Entry /\ MaxRows \in Nat
                         /\ Modules \in Sym => Modules \notin {SymOf[e] : e \in Entry}

VARIABLES
  view_mode,       \* "single", "split", "full"
  current,         \* the entry of the single view
  browsed,         \* the entry of the split view
  tree1, tree2,    \* the rows of the left frame, empty when it is hidden, and of the right
  show_all,
  changed,         \* the symbols with SYMBOL_CHANGED
  back_btn,        \* can it be pressed?
  config_changed,
  phase,           \* "runs", "crashed", or how the window was closed
  written,         \* is .config written from the settings as they are?
  fresh            \* history: tree2 was made and updated for this view

gui == <<view_mode, current, browsed, back_btn>>
rows == <<tree1, tree2, changed, fresh>>
file == <<config_changed, written>>
vars == <<config, gui, rows, file, show_all, phase>>

-----------------------------------------------------------------------------
(* Rows.  "now" has the values, the new symbols and show_all.              *)
Now(new, curr, all) == [new |-> new, curr |-> curr, all |-> all]
Present == Now(isNew, Shown, show_all)
Soon(all) == Now(isNew', Values(user', isNew'), all)

Grey(e, now) == now.all /\ ~menu_is_visible(e, now.curr)
fill_row(e, now) ==
  IF ~HasSym(e) THEN [entry |-> e, grey |-> Grey(e, now)]
  ELSE [entry |-> e, grey |-> Grey(e, now), new |-> SymOf[e] \in now.new,
        value |-> now.curr[SymOf[e]],
        range |-> {v \in Tri : /\ ~IsString(SymOf[e])
                               /\ sym_tristate_within_range(SymOf[e], v, now.curr)}]
Node(e, now, kids) == [row |-> fill_row(e, now), kids |-> kids]
EntryOf(node) == node.row.entry

AlwaysPlaced(e, now) == TRUE                         \* mutant
IsPlaced(e, now) == now.all \/ menu_is_visible(e, now.curr)

\* gtktree_iter_find_node: is there a row of e, at any depth?
RECURSIVE Found(_, _)
Found(nodes, e) ==
  \E i \in DOMAIN nodes : EntryOf(nodes[i]) = e \/ Found(nodes[i].kids, e)

\* fixup_rootmenu marks the menus, and what is above the first of them
RECURSIVE MarkRoot(_, _)
MarkRoot(e, inMenu) ==
  {e} \cup UNION {MarkRoot(c, inMenu \/ c \in MenuPrompt) :
                    c \in {x \in Listed(e) : x \in MenuPrompt \/ ~inMenu}}
MenuRoot == MarkRoot(Root, FALSE)

-----------------------------------------------------------------------------
(* display_tree makes rows from nothing, for the left or the right frame.  *)
Passed(e, left, view) == view = "split" /\ (left <=> e \notin MenuRoot)
Descended(menu, e, left, view) ==
  /\ ~(view # "full" /\ e \in MenuPrompt /\ ~left)
  /\ view = "single" => menu \in MenuRoot

RECURSIVE display_tree(_, _, _, _)
display_tree(menu, left, view, now) ==
  LET placed == SelectSeq(List[menu], LAMBDA e : ~Passed(e, left, view) /\ IsPlaced(e, now))
  IN [i \in DOMAIN placed |->
        Node(placed[i], now, IF Descended(menu, placed[i], left, view)
                             THEN display_tree(placed[i], left, view, now) ELSE << >>)]

\* the entries it comes to: it clears SYMBOL_CHANGED of all of them
RECURSIVE Visited(_, _, _)
Visited(menu, left, view) ==
  Listed(menu) \cup
  UNION {Visited(e, left, view) :
           e \in {x \in Listed(menu) : ~Passed(x, left, view) /\ Descended(menu, x, left, view)}}
Seen(menu, left, view) == {SymOf[e] : e \in Visited(menu, left, view)}

-----------------------------------------------------------------------------
(* update_tree: "list" is what is left of src->list, "at" the position of  *)
(* child2 in "nodes", behind the last row when it is not valid.  The loop  *)
(* ends for good when the row it removes is the last one.                  *)
NodeAt(nodes, at) == IF at <= Len(nodes) THEN EntryOf(nodes[at]) ELSE NoEntry
Removed(nodes, at) == IF at <= Len(nodes) THEN RemoveAt(nodes, at) ELSE nodes
Filled(nodes, at, now) == [nodes EXCEPT ![at].row = fill_row(@.entry, now)]

RECURSIVE UpdateFrom(_, _, _, _, _)
UpdateFrom(list, nodes, at, marked, now) ==
  IF list = << >> THEN nodes
  ELSE LET e == Head(list)
           less == Removed(nodes, at)
           Updated(more) == [more EXCEPT ![at].kids =
                               UpdateFrom(List[e], more[at].kids, 1, marked, now)]
           \* sets of one element make TLC evaluate each sequence of rows once
           Below_(given) ==
             CHOOSE all \in {UpdateFrom(Tail(list), next, at + 1, marked, now) :
                               next \in {Updated(more) : more \in {given}}} : TRUE
       IN CASE ~IsPlaced(e, now) /\ ~Found(nodes, e) ->
                 UpdateFrom(Tail(list), nodes, at, marked, now)
            [] \/ ~IsPlaced(e, now) /\ Found(nodes, e)
               \/ IsPlaced(e, now) /\ NodeAt(nodes, at) # e /\ Found(nodes, e) ->
                 IF at > Len(less) THEN less ELSE UpdateFrom(list, less, at, marked, now)
            [] IsPlaced(e, now) /\ NodeAt(nodes, at) # e /\ ~Found(nodes, e) ->
                 Below_(InsertAt(nodes, at, Node(e, now, << >>)))
            [] OTHER ->
                 Below_(IF SymOf[e] \in marked THEN Filled(nodes, at, now) ELSE nodes)

update_tree(src, nodes, marked, now) == UpdateFrom(List[src], nodes, 1, marked, now)

RECURSIVE SymsOf(_)
SymsOf(nodes) == UNION {{SymOf[EntryOf(nodes[i])]} \cup SymsOf(nodes[i].kids) : i \in DOMAIN nodes}

-----------------------------------------------------------------------------
(* What the engine marks as changed when s is asked for: what another      *)
(* value, visibility or lower limit comes out for, the members of such a   *)
(* choice, and s itself when it is not new any more.                       *)
LooksDifferent(s, curr, next) ==
  \/ curr[s] # next[s] \/ Visible(s, curr) # Visible(s, next)
  \/ LowerLimit(s, curr) # LowerLimit(s, next)
StillNew(s) == {}                                    \* mutant
Answered(s) == {s} \cap (isNew \ isNew')
DifferentOnes(curr, next) == {t \in Sym : LooksDifferent(t, curr, next)}
WithMembers(syms) == syms \cup UNION {MembersOf(c) : c \in syms \cap Choice}
NewlyMarked(s) ==
  UNION {WithMembers(own \cup Answered(s)) :
           own \in {DifferentOnes(p[1], p[2]) : p \in {<<Shown, Values(user', isNew')>>}}}

\* frames made anew, or updated, after s was asked for
Marked(s) == changed \cup NewlyMarked(s)

RedrawRight(s, menu, view, all) ==
  /\ \E now \in {Soon(all)} : tree2' = display_tree(menu, FALSE, view, now)
  /\ changed' = Marked(s) \ Seen(menu, FALSE, view)

UpdateRight(s, menu, seen) ==
  \E marked \in {Marked(s)}, now \in {Soon(show_all)} :
    /\ tree2' = update_tree(menu, tree2, marked, now)
    /\ changed' = marked \ (SymsOf(tree2') \cup seen)

SeenLeft == Seen(Root, TRUE, "split")
DrawLeft == \E now \in {Soon(show_all)} : tree1' = display_tree(Root, TRUE, "split", now)

\* the program is gone with its windows
Ends(how) == /\ phase' = how /\ tree1' = << >> /\ tree2' = << >>
             /\ view_mode' = "full" /\ current' = Root /\ browsed' = NoEntry
             /\ changed' = {} /\ UNCHANGED <<back_btn, show_all, fresh>>
Crashes == Ends("crashed")

\* display_tree_part
ShowPart(s, menu) ==
  /\ menu # NoEntry /\ RedrawRight(s, menu, view_mode, show_all) /\ fresh' = TRUE
  /\ UNCHANGED <<phase, show_all, tree1>>

UpdateAll(s) ==
  /\ UpdateRight(s, Root, {}) /\ fresh' = (fresh /\ view_mode = "full")
  /\ UNCHANGED <<tree1, phase, gui, show_all>>

\* what follows toggle_sym_value and change_sym_value
Refresh(s) ==
  \/ view_mode = "full" /\ UpdateAll(s)
  \/ view_mode = "single" /\ ShowPart(s, current) /\ UNCHANGED gui
  \/ view_mode = "split" /\ browsed = NoEntry /\ Crashes
  \/ /\ view_mode = "split" /\ browsed # NoEntry
     /\ UpdateRight(s, browsed, SeenLeft) /\ DrawLeft /\ current' = Root
     /\ UNCHANGED <<fresh, phase, view_mode, browsed, back_btn, show_all>>

-----------------------------------------------------------------------------
Init ==
  /\ ValuesInit /\ written = TRUE
  /\ view_mode = "full" /\ current = Root /\ browsed = NoEntry /\ back_btn = FALSE
  /\ show_all = FALSE /\ config_changed = FALSE /\ phase = "runs" /\ fresh = TRUE
  /\ tree1 = << >> /\ tree2 = display_tree(Root, FALSE, "full", Present) /\ changed = {}

Runs == phase = "runs"

RECURSIVE EntriesOf(_)
EntriesOf(nodes) == UNION {{EntryOf(nodes[i])} \cup EntriesOf(nodes[i].kids) : i \in DOMAIN nodes}
Clicked == {e \in EntriesOf(tree2) : HasSym(e)}

\* what is refused for n or m is asked for as y
Asked(s, v, curr) == IF sym_tristate_within_range(s, v, curr) THEN v ELSE yes
Cycled(v) == IF v = yes THEN no ELSE v + 1
SetTo(s, v, curr) == IF Accepts(s, v, curr) THEN SetTri(Settings, s, v) ELSE Settings
Toggle(s, curr) == SetTo(s, Asked(s, Cycled(curr[s].tri), curr), curr)
Edited == written' = (written /\ config' = config)

toggle_sym_value(s) == Becomes(Toggle(s, Shown)) /\ Edited /\ UNCHANGED config_changed

\* a click on the value, or two on the name where they do not go down
ToggleRow == Runs /\ \E e \in Clicked : toggle_sym_value(SymOf[e]) /\ Refresh(SymOf[e])

\* a click on N, M or Y, or one of the keys
change_sym_value ==
  /\ Runs
  /\ \E e \in Clicked, v \in Tri :
       LET s == SymOf[e]
           curr == Shown
       IN ~IsString(s) /\ Becomes(SetTo(s, Asked(s, v, curr), curr)) /\ Refresh(s)
  /\ Edited /\ config_changed' = TRUE

\* it updates the right frame as if it showed the whole tree
renderer_edited ==
  /\ Runs
  /\ \E e \in {x \in Clicked : IsString(SymOf[x])}, str \in Str :
       /\ Becomes(IF AcceptsString(SymOf[e], str) THEN SetString(Settings, SymOf[e], str)
                  ELSE Settings)
       /\ UpdateAll(SymOf[e])
  /\ Edited /\ config_changed' = TRUE

show_debug_info == Runs /\ UNCHANGED <<config, file>> /\ UpdateAll(NoSym)

show_all_options ==
  /\ Runs /\ UNCHANGED <<config, file, phase, view_mode, browsed, back_btn, tree1>>
  /\ show_all' = ~show_all /\ current' = Root
  /\ RedrawRight(NoSym, Root, view_mode, show_all') /\ fresh' = (view_mode # "split")

\* display_tree_part after current became e
ShowPartOf(e) ==
  /\ UNCHANGED <<view_mode, browsed>> /\ current' = e
  /\ ShowPart(NoSym, IF view_mode = "single" THEN e ELSE browsed)
NothingBrowsed == view_mode = "split" /\ browsed = NoEntry

\* two clicks on the name of a menu
GoDown ==
  /\ Runs /\ view_mode # "full" /\ UNCHANGED <<config, file>>
  /\ \E e \in EntriesOf(tree2) \cap MenuPrompt :
       IF NothingBrowsed THEN Crashes ELSE ShowPartOf(e) /\ back_btn' = TRUE

Up(e) == IF e = Root THEN NoEntry ELSE ParentOf(e)
UpToMenu(e) == IF Up(e) = NoEntry \/ Up(e) \in MenuPrompt THEN Up(e) ELSE Up(Up(e))
back ==
  /\ Runs /\ back_btn /\ UNCHANGED <<config, file>>
  /\ IF UpToMenu(current) = NoEntry \/ NothingBrowsed THEN Crashes
     ELSE ShowPartOf(UpToMenu(current)) /\ back_btn' = (current' # Root)

single ==
  /\ Runs /\ UNCHANGED <<config, file, phase, show_all, browsed, back_btn>> /\ tree1' = << >>
  /\ view_mode' = "single" /\ current' = Root
  /\ RedrawRight(NoSym, Root, "single", show_all) /\ fresh' = TRUE

split ==
  /\ Runs /\ UNCHANGED <<config, file, phase, show_all, browsed, back_btn>>
  /\ view_mode' = "split" /\ current' = Root /\ tree2' = << >> /\ fresh' = TRUE
  /\ DrawLeft /\ changed' = changed \ SeenLeft

ShowFull ==
  /\ Runs /\ UNCHANGED <<config, file, phase, show_all, browsed>> /\ tree1' = << >>
  /\ view_mode' = "full" /\ current' = Root
  /\ RedrawRight(NoSym, Root, "full", show_all) /\ fresh' = TRUE
full == ShowFull /\ back_btn' = FALSE

\* a click in the left frame, and what a second one does besides
Browse ==
  /\ Runs /\ view_mode = "split" /\ browsed' \in EntriesOf(tree1)
  /\ UNCHANGED <<config, file, view_mode, current, back_btn>>
  /\ ShowPart(NoSym, browsed')
BrowseTwice ==
  /\ Runs /\ view_mode = "split" /\ browsed \in EntriesOf(tree1)
  /\ \/ ~HasSym(browsed) /\ UNCHANGED <<config, file, tree1>>
     \/ HasSym(browsed) /\ toggle_sym_value(SymOf[browsed]) /\ DrawLeft
  /\ current' = browsed /\ RedrawRight(SymOf[browsed], browsed, "split", show_all) /\ fresh' = TRUE
  /\ UNCHANGED <<view_mode, browsed, back_btn, phase, show_all>>

\* conf_read marks every symbol; the rows that are there are not removed
load ==
  /\ Runs /\ Len(tree2) <= MaxRows /\ conf_read /\ Edited /\ current' = Root /\ fresh' = FALSE
  /\ tree2' = tree2 \o display_tree(Root, FALSE, view_mode, Soon(show_all))
  /\ changed' = Sym \ Seen(Root, FALSE, view_mode)
  /\ UNCHANGED <<config_changed, phase, show_all, view_mode, browsed, back_btn, tree1>>

\* a failing save is told and then taken for one
save ==
  /\ Runs /\ config_changed' = FALSE /\ written' \in {written, TRUE}
  /\ UNCHANGED <<config, rows, gui, show_all, phase>>

\* with changes a box asks first; Cancel changes nothing
Close == Runs /\ ~config_changed /\ Ends("closed") /\ UNCHANGED <<config, file>>
SaveAndClose ==
  /\ Runs /\ config_changed /\ Ends("saved") /\ UNCHANGED config
  /\ config_changed' = FALSE /\ written' \in {written, TRUE}
CloseAnyway == Runs /\ config_changed /\ Ends("declined") /\ UNCHANGED <<config, file>>

Ended == ~Runs /\ UNCHANGED vars

Next == \/ ToggleRow \/ change_sym_value \/ renderer_edited \/ show_debug_info
        \/ show_all_options \/ GoDown \/ back \/ single \/ split \/ full
        \/ Browse \/ BrowseTwice \/ load \/ save
        \/ Close \/ SaveAndClose \/ CloseAnyway \/ Ended
Spec == Init /\ [][Next]_vars

-----------------------------------------------------------------------------
(* The rows show entries; there is nothing to go back to in a full view.   *)
TypeOK ==
  /\ user \in [Sym -> [tri : Tri, val : Val]] /\ isNew \subseteq Sym
  /\ view_mode \in {"single", "split", "full"}
  /\ current \in Entry /\ browsed \in Entry \cup {NoEntry}
  /\ EntriesOf(tree1) \cup EntriesOf(tree2) \subseteq Entry /\ changed \subseteq Sym
  /\ {show_all, back_btn, config_changed, written, fresh} \subseteq BOOLEAN
  /\ phase \in {"runs", "crashed", "closed", "saved", "declined"}
  /\ Runs /\ view_mode = "full" => ~back_btn

\* the row of a symbol as it should be, without its shade
Content(row) == [new |-> row.new, value |-> row.value, range |-> row.range]
ShowsNow(row, now) ==
  HasSym(row.entry) => LET is == Content(row)
                           due == Content(fill_row(row.entry, now))
                       IN IF IsChoiceEntry(row.entry)
                          THEN [is EXCEPT !.new = due.new] = due ELSE is = due

RECURSIVE Right(_, _, _)
Right(nodes, e, now) ==
  /\ \E idx \in [DOMAIN nodes -> DOMAIN List[e]] :
       /\ \A i, j \in DOMAIN nodes : i < j => idx[i] < idx[j]
       /\ \A i \in DOMAIN nodes : EntryOf(nodes[i]) = List[e][idx[i]]
  /\ \A i \in DOMAIN nodes : /\ IsPlaced(EntryOf(nodes[i]), now)
                             /\ ShowsNow(nodes[i].row, now)
                             /\ Right(nodes[i].kids, EntryOf(nodes[i]), now)

InView == CASE view_mode = "full" -> Root
            [] view_mode = "single" -> current
            [] OTHER -> browsed

(* gconf.c:1394-1476, symbol.c:309-318: whatever a change made of other    *)
(* symbols, the right frame then holds no row too much, none twice or out  *)
(* of place, and each row of a symbol has the values of now: each symbol   *)
(* that comes out differently is marked, and no mark is lost on the way.   *)
RowsRight == Runs /\ fresh /\ tree2 # << >> => \A now \in {Present} : Right(tree2, InView, now)

(* gconf.c:945, 969: as long as only visible entries are shown, settings   *)
(* change by loading a file or by requests for shown symbols that the      *)
(* engine accepts: no row that is clicked has gone stale.                  *)
OnlyRequests ==
  [][config' # config /\ fresh /\ ~show_all => Request \/ conf_read]_vars

\* what a full view has to show below e
RECURSIVE PlacedBelow(_)
PlacedBelow(e) == LET now == Present IN
  UNION {{c} \cup PlacedBelow(c) : c \in {x \in Listed(e) : IsPlaced(x, now)}}

(* gconf.c:1390: "Update the tree by adding/removing entries": after it    *)
(* the full view has a row for every visible entry.                        *)
NoneMissing == Runs /\ fresh /\ view_mode = "full" => PlacedBelow(Root) \subseteq EntriesOf(tree2)

(* gconf.c:1024: "User click: update choice (full) or goes down (single)": *)
(* the program survives it in every view, and the Back button, and follows *)
(* no pointer that is NULL.                                                *)
KeepsRunning == phase # "crashed"

(* gconf.c:548: "Save configuration ?" is asked before a window with       *)
(* changes is closed.                                                      *)
AskedFirst == phase = "closed" => written

(* gconf.c:752: "Clicking on the box will cycle through the three states": *)
(* a click on a symbol that can be set shows another of its values.        *)
ClickActs ==
  Runs /\ fresh =>
    \A e \in Clicked :
      LET s == SymOf[e]
          curr == Shown
          st == Toggle(s, curr)
      IN ~IsString(s) /\ sym_is_changable(s, curr) /\ ~ChosenByChoice(s, Visible(s, curr)) =>
           Values(st.user, st.isNew)[s].tri # curr[s].tri
=============================================================================
