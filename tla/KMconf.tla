------------------------------- MODULE KMconf -------------------------------
(***************************************************************************)
(* The menu front end (scripts/kconfig/mconf.c): menuconfig.  It keeps no  *)
(* copy of anything: each window is made from the symbol values when it is *)
(* opened, and again after every key that lxdialog returns for.            *)
(*                                                                         *)
(* "windows" is the recursion of conf, conf_choice and the input boxes,    *)
(* the innermost last.  What leaves all as it is, help and other texts     *)
(* with their repetition after a resize, is a step that changes nothing    *)
(* and is left out; lxdialog itself is in LxMenu, LxCheck and LxDialog.    *)
(***************************************************************************)
EXTENDS KMenu, SequencesExt

VARIABLES
  single_menu_mode,
  expanded,  \* menu->data: the menus unfolded in their parent's window
  windows,   \* Seq([kind, entry])
  phase,     \* "open", "asking" to save, or how the program ended
  written    \* is .config written from the settings as they are?

vars == <<config, single_menu_mode, expanded, windows, phase, written>>

Window(kind, e) == [kind |-> kind, entry |-> e]
Kinds == {"menu", "radio", "input", "load", "save"}

Init ==
  /\ ValuesInit /\ written = TRUE
  /\ single_menu_mode \in BOOLEAN /\ expanded = {}
  /\ windows = <<Window("menu", Root)>> /\ phase = "open"

-----------------------------------------------------------------------------
(* build_conf: the items of the window of "menu", for the entry e in it.   *)
(* tag is what lxdialog gets as the first letter of the item, arrow says   *)
(* whether --->  stands behind it.                                         *)
Item(tag, e, arrow) == [tag |-> tag, entry |-> e, arrow |-> arrow]

IsSubmenu(e) == e \in MenuPrompt
\* NULL is the value of a choice that is not y and the symbol of a comment
IsValue(m, c, curr) == IF HasSym(m) THEN SymOf[m] = curr[c].val ELSE curr[c].val = NoVal
MemberShown(e, curr) ==
  {m \in Listed(e) : menu_is_visible(m, curr) /\ IsValue(m, SymOf[e], curr)}
ChoiceItem(e, curr) ==
  LET c == SymOf[e]
      shown == MemberShown(e, curr)
  IN Item(IF sym_is_changable(c, curr) \/ shown # {} THEN "t" ELSE ":", e,
          curr[c].tri = yes /\ shown # {})

\* the member of a choice that is y has no other value to be set to
SymbolTag(s, curr) ==
  CASE IsString(s) -> "s"
    [] ~IsString(s) /\ s \in ChoiceValue /\ curr[s].tri = yes -> ":"
    [] OTHER -> "t"

\* what build_conf does with the entries below e
Folded(e) == IsSubmenu(e) /\ ~(single_menu_mode /\ e \in expanded)
ClosedChoice(e, menu, curr) == IF IsChoiceEntry(e) THEN {} ELSE Listed(e) \* mutant
Inside(e, menu, curr) ==
  CASE e = menu -> Listed(e)
    [] e # menu /\ SymOf[e] = NoSym -> IF Folded(e) THEN {} ELSE Listed(e)
    [] e # menu /\ IsChoiceEntry(e) /\ curr[SymOf[e]].tri = yes ->
         {m \in MemberShown(e, curr) : List[m] # << >>}
    [] OTHER -> IF HasSym(e) /\ IsSubmenu(e) /\ ~IsString(SymOf[e]) THEN {} ELSE Listed(e)

\* the entry of the window itself is its title, not an item
OwnItem(e, menu, curr) ==
  CASE e = menu -> {}
    [] e # menu /\ SymOf[e] = NoSym ->
         {IF IsSubmenu(e) THEN Item("m", e, ~single_menu_mode) ELSE Item(":", e, FALSE)}
    [] e # menu /\ IsChoiceEntry(e) -> {ChoiceItem(e, curr)}
    [] OTHER -> {Item(SymbolTag(SymOf[e], curr), e, IsSubmenu(e) /\ ~IsString(SymOf[e]))}

RECURSIVE build_conf(_, _, _)
build_conf(e, menu, curr) ==
  IF ~menu_is_visible(e, curr) THEN {}
  ELSE OwnItem(e, menu, curr)
       \cup UNION {build_conf(c, menu, curr) : c \in Inside(e, menu, curr)}

Items(menu, curr) == build_conf(menu, menu, curr)

-----------------------------------------------------------------------------
(* conf: lxdialog returns a key and the item that is highlighted.          *)
Open == phase = "open"
Current == Last(windows)
Shows(kind) == Open /\ Current.kind = kind
Opened(kind, e) == windows' = Append(windows, Window(kind, e))
Closed == /\ windows' = SubSeq(windows, 1, Len(windows) - 1)
          /\ phase' = IF Len(windows) = 1 THEN "asking" ELSE "open"

Edited == written' = (written /\ config' = config)

Chosen(tag) == {i.entry : i \in {x \in Items(Current.entry, Shown) : x.tag = tag}}

\* the window a selected item opens, if any
Opens(e, tag, curr) ==
  CASE tag = "t" /\ IsChoiceEntry(e) /\ curr[SymOf[e]].tri = yes -> {Window("radio", e)}
    [] tag = "t" /\ ~(IsChoiceEntry(e) /\ curr[SymOf[e]].tri = yes) ->
         IF IsSubmenu(e) THEN {Window("menu", e)} ELSE {}
    [] tag = "s" -> {Window("input", e)}
    [] tag = "m" -> IF single_menu_mode THEN {} ELSE {Window("menu", e)}
    [] OTHER -> {}

Select == \* stat 0
  /\ Shows("menu")
  /\ \E i \in Items(Current.entry, Shown) :
       \/ \E w \in Opens(i.entry, i.tag, Shown) :
            windows' = Append(windows, w) /\ UNCHANGED expanded
       \/ /\ i.tag = "m" /\ single_menu_mode
          /\ expanded' = IF i.entry \in expanded THEN expanded \ {i.entry}
                         ELSE expanded \cup {i.entry}
          /\ UNCHANGED windows
  /\ UNCHANGED <<config, single_menu_mode, phase, written>>

SelectFile == \* stat 0, on the two items the main menu has besides
  /\ Shows("menu") /\ Current.entry = Root /\ Items(Root, Shown) # {}
  /\ \E kind \in {"load", "save"} : Opened(kind, Root)
  /\ UNCHANGED <<config, single_menu_mode, expanded, phase, written>>

\* stat 3, 4, 5: y, n, m; what is refused for y is tried with m
Key(s, v, curr) ==
  IF v = yes /\ ~Accepts(s, yes, curr) THEN mod ELSE v
PressKey ==
  /\ Shows("menu")
  /\ \E e \in Chosen("t"), v \in Tri :
       LET t == Key(SymOf[e], v, Shown) IN
       Accepts(SymOf[e], t, Shown) /\ Becomes(SetTri(Settings, SymOf[e], t))
  /\ Edited /\ UNCHANGED <<single_menu_mode, expanded, windows, phase>>

\* sym_toggle_tristate_value: the next value that is accepted, at last its own
After(v) == IF v = yes THEN no ELSE v + 1
TryOnce(s, curr) == IF Accepts(s, After(curr[s].tri), curr) THEN After(curr[s].tri)
                    ELSE curr[s].tri                          \* mutant
Toggled(s, curr) ==
  LET first == After(curr[s].tri)
      tries == <<first, After(first), curr[s].tri>>
  IN tries[CHOOSE i \in 1 .. 3 : /\ Accepts(s, tries[i], curr)
                                 /\ \A j \in 1 .. i - 1 : ~Accepts(s, tries[j], curr)]
sym_toggle_tristate_value ==
  /\ Shows("menu")
  /\ \E e \in Chosen("t") : Becomes(SetTri(Settings, SymOf[e], Toggled(SymOf[e], Shown)))
  /\ Edited /\ UNCHANGED <<single_menu_mode, expanded, windows, phase>>

SpaceOnMenu == \* stat 6 opens the menu, also where Enter unfolds it
  /\ Shows("menu")
  /\ \E e \in Chosen("m") : Opened("menu", e)
  /\ UNCHANGED <<config, single_menu_mode, expanded, phase, written>>

\* Exit and Escape close any window; a menu without items never opens
CloseWindow ==
  /\ Open /\ Closed
  /\ UNCHANGED <<config, single_menu_mode, expanded, written>>

-----------------------------------------------------------------------------
(* The other boxes.  A refused answer shows a text and the box again.      *)
conf_choice ==
  /\ Shows("radio") /\ Closed
  /\ \E m \in Listed(Current.entry) :
       /\ menu_is_visible(m, Shown) /\ HasSym(m)
       /\ IF Accepts(SymOf[m], yes, Shown) THEN Becomes(SetTri(Settings, SymOf[m], yes))
          ELSE UNCHANGED config
  /\ Edited /\ UNCHANGED <<single_menu_mode, expanded>>

conf_string ==
  /\ Shows("input") /\ Closed
  /\ \E str \in Str : AcceptsString(SymOf[Current.entry], str)
                      /\ Becomes(SetString(Settings, SymOf[Current.entry], str))
  /\ Edited /\ UNCHANGED <<single_menu_mode, expanded>>

conf_load ==
  /\ Shows("load") /\ Closed
  /\ conf_read
  /\ Edited /\ UNCHANGED <<single_menu_mode, expanded>>

\* the name in the box is .config unless the user types another
conf_save ==
  /\ Shows("save") /\ Closed
  /\ written' \in {written, TRUE}
  /\ UNCHANGED <<config, single_menu_mode, expanded>>

\* main: the result of conf_write is not looked at
Finish ==
  /\ phase = "asking"
  /\ \/ phase' = "saved" /\ written' \in {written, TRUE}
     \/ phase' = "not saved" /\ UNCHANGED written
  /\ UNCHANGED <<config, single_menu_mode, expanded, windows>>

Interrupt ==
  /\ phase \in {"open", "asking"} /\ phase' = "interrupted"
  /\ UNCHANGED <<config, single_menu_mode, expanded, windows, written>>

Ended == phase \in {"saved", "not saved", "interrupted"} /\ UNCHANGED vars

Next == \/ Select \/ SelectFile \/ PressKey \/ sym_toggle_tristate_value \/ SpaceOnMenu
        \/ CloseWindow \/ conf_choice \/ conf_string \/ conf_load \/ conf_save
        \/ Finish \/ Interrupt \/ Ended
Spec == Init /\ [][Next]_vars

-----------------------------------------------------------------------------
(* One window is open as long as the menus are.                            *)
TypeOK ==
  /\ user \in [Sym -> [tri : Tri, val : Val]] /\ isNew \subseteq Sym
  /\ windows \in Seq([kind : Kinds, entry : Entry]) /\ expanded \subseteq MenuPrompt
  /\ {single_menu_mode, written} \subseteq BOOLEAN
  /\ phase \in {"open", "asking", "saved", "not saved", "interrupted"}
  /\ phase = "open" => windows # << >>

RECURSIVE Below(_)
Below(e) == Listed(e) \cup UNION {Below(c) : c \in Listed(e)}

(* mconf.c:294, 373, 435: the recursion follows the menu tree down: no     *)
(* window opens itself or one above it, whatever was loaded in between.    *)
Descends ==
  \A i \in 1 .. Len(windows) - 1 :
    /\ windows[i].kind = "menu"
    /\ windows[i + 1].kind \in {"menu", "radio"} =>
         windows[i + 1].entry \in Below(windows[i].entry)

\* the windows that Enter and Space open from those in W, and so on
OpenedFrom(W, curr) ==
  UNION {UNION {Opens(i.entry, i.tag, curr)
                \cup (IF i.tag = "m" THEN {Window("menu", i.entry)} ELSE {}) :
                i \in Items(w.entry, curr)} : w \in {x \in W : x.kind = "menu"}}
RECURSIVE Reach(_, _)
Reach(W, curr) == LET more == OpenedFrom(W, curr) \ W IN
                  IF more = {} THEN W ELSE Reach(W \cup more, curr)

SetIn(w, curr) ==
  IF w.kind = "radio" THEN {m \in Listed(w.entry) : menu_is_visible(m, curr)}
  ELSE {i.entry : i \in {x \in Items(w.entry, curr) : w.kind = "menu" /\ x.tag \in {"t", "s"}}}

(* mconf.c:279-433, menu.c:321: whatever the values are, each symbol that  *)
(* is shown and can be set is an item of a window that can be opened.      *)
Reachable ==
  LET curr == Shown
      settable == {e \in Entry : /\ HasSym(e) /\ menu_is_visible(e, curr)
                                 /\ sym_is_changable(SymOf[e], curr)}
      reach == Reach({Window("menu", Root)}, curr)
  IN Open => settable \subseteq UNION {SetIn(w, curr) : w \in reach}

(* symbol.c:398: the space bar shows another value for every item that can *)
(* be set: no accepted value is without effect, no refused one ends it.    *)
SpaceActs ==
  Shows("menu") =>
    \A e \in Chosen("t") :
      LET s == SymOf[e]
          st == SetTri(Settings, s, Toggled(s, Shown))
      IN sym_is_changable(s, Shown) => Values(st.user, st.isNew)[s].tri # Shown[s].tri

(* mconf.c:28: "<Enter> selects submenus --->": every item with an arrow   *)
(* opens a window.                                                         *)
EnterOpens ==
  Shows("menu") => \A i \in Items(Current.entry, Shown) :
                     i.arrow => Opens(i.entry, i.tag, Shown) # {}

(* mconf.c:795: the program tells the user to go on with make only after   *)
(* .config holds the new configuration.                                    *)
EndMeansSaved == phase = "saved" => written

(* symbol.c, mconf.c: the front end changes settings only by loading a     *)
(* file or by requests that the engine accepts for symbols that are shown. *)
OnlyRequests == ValuesSpec
=============================================================================
