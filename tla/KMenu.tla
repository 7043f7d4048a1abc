------------------------------- MODULE KMenu -------------------------------
(***************************************************************************)
(* The finalized menu tree (scripts/kconfig/menu.c) over the symbol values *)
(* of KValues: what the front ends walk through.  Entries without a prompt *)
(* are never visible and menu_finalize lifts what was below them, so every *)
(* entry here has one.                                                     *)
(***************************************************************************)
EXTENDS KValues

CONSTANTS
  Entry, Root,
  List,      \* [Entry -> Seq(Entry)]: menu->list
  SymOf,     \* [Entry -> Sym or NoSym]
  MenuPrompt,\* the entries whose prompt is a P_MENU
  EntryCond  \* [Entry -> Expr]: the prompt's condition of an entry without symbol

Listed(e) == {List[e][i] : i \in DOMAIN List[e]}
HasSym(e) == SymOf[e] # NoSym
IsChoiceEntry(e) == SymOf[e] \in Choice
ParentOf(e) == CHOOSE p \in Entry : e \in Listed(p)

\* the instances assume this of the constants
TreeAssumption ==
  /\ IsFiniteSet(Entry) /\ List \in [Entry -> Seq(Entry)] /\ Root \in MenuPrompt /\ MenuPrompt \subseteq Entry
  /\ SymOf \in [Entry -> Sym \cup {NoSym}]
  /\ EntryCond \in [Entry -> Expr]
  \* a tree: below one entry, in one place
  /\ \A e \in Entry \ {Root} : \E p \in Entry : e \in Listed(p)
  /\ \A p, q \in Entry : p # q => Listed(p) \cap Listed(q) = {}
  /\ \A c \in Choice : \A e \in Entry : SymOf[e] = c =>
       {SymOf[m] : m \in {k \in Listed(e) : HasSym(k)}} = MembersOf(c)

\* the members of a choice are only listed below it
MembersBelowChoice ==
  /\ SymOf[Root] \notin ChoiceValue
  /\ \A e \in Entry : \A m \in Listed(e) : SymOf[m] \in ChoiceValue => IsChoiceEntry(e)

-----------------------------------------------------------------------------
PromptVisible(e, curr) ==
  (IF HasSym(e) THEN Visibility(SymOf[e], curr) ELSE EvalExpr(EntryCond[e], curr)) # no

CountsChildren(e, curr) == HasSym(e) /\ curr[SymOf[e]].tri # no

\* an entry without a visible prompt is kept for one below it
menu_is_visible(e, curr) ==
  LET kept[x \in Entry] ==
        CountsChildren(x, curr) /\ \E c \in Listed(x) : PromptVisible(c, curr) \/ kept[c]
  IN PromptVisible(e, curr) \/ kept[e]

menu_get_parent_menu(e) ==
  LET menuOf[x \in Entry] ==
        IF x = Root \/ x \in MenuPrompt THEN x ELSE menuOf[ParentOf(x)]
  IN menuOf[e]

VisibleList(e, curr) == SelectSeq(List[e], LAMBDA c : menu_is_visible(c, curr))
=============================================================================
