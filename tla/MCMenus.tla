------------------------------ MODULE MCMenus ------------------------------
(***************************************************************************)
(* menuconfig or the GTK front end over one of four files, "kind":         *)
(*                                                                         *)
(* menus (menuconfig): a submenu, a symbol with a submenu and a selected   *)
(* symbol that is only shown for the entry below it                        *)
(*   config EXPERT      bool "expert"                                      *)
(*   menuconfig NET     bool "net"; select CRC                             *)
(*     config HOST      string "host" (below NET)                          *)
(*   menu "drivers"                                                        *)
(*     config CRC       tristate "crc" if EXPERT                           *)
(*       config TABLE   tristate "table" (below CRC)                       *)
(*   endmenu                                                               *)
(*   config MODULES     bool "modules"                                     *)
(*                                                                         *)
(* choice (menuconfig): one that may be y or m, in a submenu, with an      *)
(* entry below a member; modules are always on                             *)
(*   menu "drivers"                                                        *)
(*     choice         prompt "driver" if BUS; optional                     *)
(*       config PCI   tristate "pci"                                       *)
(*         config DMA bool "dma" (below PCI)                               *)
(*       comment "old hardware"                                            *)
(*       config ISA   tristate "isa"                                       *)
(*     endchoice                                                           *)
(*   endmenu                                                               *)
(*   config BUS       tristate "bus"                                       *)
(*                                                                         *)
(* rows (GTK): entries that come and go with a symbol, and a file that is  *)
(* loaded once more                                                        *)
(*   config NET       bool "net"                                           *)
(*     config HOST    string "host" if NET (below NET)                     *)
(*   menu "drivers"                                                          *)
(*     comment "old hardware", depends on !NET                             *)
(*   endmenu                                                               *)
(*                                                                         *)
(* members (GTK): they are shown below their choice, and marked with it    *)
(*   choice DRIVER                                                         *)
(*     config PCI     bool "pci"                                           *)
(*     config ISA     bool "isa"                                           *)
(*   endchoice                                                             *)
(***************************************************************************)
EXTENDS Tristate, Sequences, TLC

CONSTANTS EXPERT, NET, HOST, CRC, TABLE, MODULES, BUS, DRIVER, PCI, DMA, ISA,
          empty, box, root, drivers, old, NoSym, NoVal, NoEntry

VARIABLES
  kind, user, isNew, phase, written,
  single_menu_mode, expanded, windows,                          \* menuconfig
  view_mode, current, browsed, tree1, tree2, show_all, changed, \* gconf
  back_btn, config_changed, fresh

mconfVars == <<single_menu_mode, expanded, windows>>
gconfVars == <<view_mode, current, browsed, tree1, tree2, show_all, changed, back_btn,
               config_changed, fresh>>

RowSyms == {NET, HOST}
MemberSyms == {DRIVER, PCI, ISA}
MenuSyms == {EXPERT, NET, HOST, CRC, TABLE, MODULES}
ChoiceSyms == {MODULES, BUS, DRIVER, PCI, DMA, ISA}
Shown == ChoiceSyms \ {MODULES}
Entries(S) == S \cup {root, drivers, old}
SymbolOf(S) == [e \in Entries(S) |-> IF e \in S THEN e ELSE NoSym]
Always(S) == [e \in Entries(S) |-> TrueExpr]
Default(S, yeses) ==
  [s \in S |-> IF s \in yeses THEN <<[cond |-> TrueExpr, value |-> {{Const(yes)}}]>> ELSE << >>]
Answers(S, val) == [s \in S |-> [tri |-> no, val |-> IF s = HOST THEN val ELSE NoVal]]

Files == [
  menus |-> [sym |-> MenuSyms,
    type |-> [s \in MenuSyms |-> CASE s = HOST -> "string" [] s \in {CRC, TABLE} -> "tristate"
                                   [] OTHER -> "boolean"],
    prompt |-> [s \in MenuSyms |-> CASE s = HOST -> {{Is(NET)}} [] s = CRC -> {{Is(EXPERT)}}
                                     [] s = TABLE -> {{Is(CRC)}} [] OTHER -> TrueExpr],
    defaults |-> Default(MenuSyms, {}),
    selects |-> {[from |-> NET, to |-> CRC, cond |-> TrueExpr]},
    members |-> << >>, optional |-> {},
    valid |-> [s \in MenuSyms |-> IF s = HOST THEN {empty, box} ELSE {}],
    order |-> <<MODULES, EXPERT, NET, HOST, CRC, TABLE>>,
    loaded |-> {[user |-> Answers(MenuSyms, box), isNew |-> new] : new \in {{}, {CRC}}},
    entry |-> Entries(MenuSyms), symOf |-> SymbolOf(MenuSyms), cond |-> Always(MenuSyms),
    list |-> [e \in Entries(MenuSyms) |->
      CASE e = root -> <<EXPERT, NET, drivers, MODULES, old>>
        [] e = NET -> <<HOST>> [] e = drivers -> <<CRC>> [] e = CRC -> <<TABLE>>
        [] OTHER -> << >>],
    menu |-> {root, NET, drivers}],
  choice |-> [sym |-> ChoiceSyms,
    type |-> [s \in ChoiceSyms |-> IF s \in {MODULES, DMA} THEN "boolean" ELSE "tristate"],
    prompt |-> [s \in ChoiceSyms |-> CASE s = MODULES -> {} [] s = DMA -> {{Is(PCI)}}
                                       [] s = DRIVER -> {{Is(BUS)}} [] OTHER -> TrueExpr],
    defaults |-> Default(ChoiceSyms, {MODULES}), selects |-> {},
    members |-> DRIVER :> <<PCI, ISA>>, optional |-> {DRIVER},
    valid |-> [s \in ChoiceSyms |-> {}],
    order |-> <<MODULES, BUS, DRIVER, PCI, ISA, DMA>>,
    loaded |-> {[user |-> Answers(ChoiceSyms, NoVal), isNew |-> new] :
                  new \in {{MODULES}, {MODULES, DRIVER}}},
    entry |-> Entries(Shown), symOf |-> SymbolOf(Shown), cond |-> Always(Shown),
    list |-> [e \in Entries(Shown) |->
      CASE e = root -> <<drivers, BUS>> [] e = drivers -> <<DRIVER>>
        [] e = DRIVER -> <<PCI, old, ISA>> [] e = PCI -> <<DMA>> [] OTHER -> << >>],
    menu |-> {root, drivers}],
  rows |-> [sym |-> RowSyms,
    type |-> [s \in RowSyms |-> IF s = HOST THEN "string" ELSE "boolean"],
    prompt |-> [s \in RowSyms |-> IF s = HOST THEN {{Is(NET)}} ELSE TrueExpr],
    defaults |-> Default(RowSyms, {}), members |-> << >>,
    valid |-> [s \in RowSyms |-> IF s = HOST THEN {box} ELSE {}], order |-> <<NET, HOST>>,
    loaded |-> {[user |-> Answers(RowSyms, NoVal), isNew |-> {HOST}]},
    entry |-> Entries(RowSyms), symOf |-> SymbolOf(RowSyms),
    cond |-> [Always(RowSyms) EXCEPT ![old] = {{IsNot(NET)}}],
    list |-> [e \in Entries(RowSyms) |->
      CASE e = root -> <<NET, drivers>> [] e = NET -> <<HOST>> [] e = drivers -> <<old>>
        [] OTHER -> << >>],
    menu |-> {root, drivers}],
  members |-> [sym |-> MemberSyms, type |-> [s \in MemberSyms |-> "boolean"],
    prompt |-> [s \in MemberSyms |-> TrueExpr],
    defaults |-> Default(MemberSyms, {}), members |-> DRIVER :> <<PCI, ISA>>,
    valid |-> [s \in MemberSyms |-> {}], order |-> <<DRIVER, PCI, ISA>>,
    loaded |-> {[user |-> Answers(MemberSyms, NoVal), isNew |-> MemberSyms]},
    entry |-> MemberSyms \cup {root},
    symOf |-> [e \in MemberSyms \cup {root} |-> IF e = root THEN NoSym ELSE e],
    cond |-> [e \in MemberSyms \cup {root} |-> TrueExpr],
    list |-> [e \in MemberSyms \cup {root} |->
      CASE e = root -> <<DRIVER>> [] e = DRIVER -> <<PCI, ISA>> [] OTHER -> << >>],
    menu |-> {root}]]

Menus == INSTANCE KMconf WITH
  Sym <- Files.menus.sym, Str <- {empty, box}, EmptyStr <- empty, Type <- Files.menus.type,
  Prompt <- Files.menus.prompt, Defaults <- Files.menus.defaults, Selects <- Files.menus.selects,
  Members <- Files.menus.members, Optional <- Files.menus.optional, Modules <- MODULES,
  ValidStr <- Files.menus.valid, Allowed <- Files.menus.valid, Order <- Files.menus.order,
  Loaded <- Files.menus.loaded, Entry <- Files.menus.entry, Root <- root,
  List <- Files.menus.list, SymOf <- Files.menus.symOf, MenuPrompt <- Files.menus.menu,
  EntryCond <- Files.menus.cond
Choices == INSTANCE KMconf WITH
  Sym <- Files.choice.sym, Str <- {empty, box}, EmptyStr <- empty, Type <- Files.choice.type,
  Prompt <- Files.choice.prompt, Defaults <- Files.choice.defaults, Selects <- Files.choice.selects,
  Members <- Files.choice.members, Optional <- Files.choice.optional, Modules <- MODULES,
  ValidStr <- Files.choice.valid, Allowed <- Files.choice.valid, Order <- Files.choice.order,
  Loaded <- Files.choice.loaded, Entry <- Files.choice.entry, Root <- root,
  List <- Files.choice.list, SymOf <- Files.choice.symOf, MenuPrompt <- Files.choice.menu,
  EntryCond <- Files.choice.cond

Rows == INSTANCE KGconf WITH
  Sym <- Files.rows.sym, Str <- {empty, box}, EmptyStr <- empty, Type <- Files.rows.type,
  Prompt <- Files.rows.prompt, Defaults <- Files.rows.defaults, Selects <- {},
  Members <- Files.rows.members, Optional <- {}, Modules <- NoSym,
  ValidStr <- Files.rows.valid, Allowed <- Files.rows.valid, Order <- Files.rows.order,
  Loaded <- Files.rows.loaded, Entry <- Files.rows.entry, Root <- root,
  List <- Files.rows.list, SymOf <- Files.rows.symOf, MenuPrompt <- Files.rows.menu,
  EntryCond <- Files.rows.cond, MaxRows <- 2
MemberRows == INSTANCE KGconf WITH
  Sym <- Files.members.sym, Str <- {empty}, EmptyStr <- empty, Type <- Files.members.type,
  Prompt <- Files.members.prompt, Defaults <- Files.members.defaults, Selects <- {},
  Members <- Files.members.members, Optional <- {}, Modules <- NoSym,
  ValidStr <- Files.members.valid, Allowed <- Files.members.valid, Order <- Files.members.order,
  Loaded <- Files.members.loaded, Entry <- Files.members.entry, Root <- root,
  List <- Files.members.list, SymOf <- Files.members.symOf, MenuPrompt <- Files.members.menu,
  EntryCond <- Files.members.cond, MaxRows <- 0

ASSUME Menus!TreeAssumption /\ Choices!TreeAssumption
ASSUME Rows!TreeAssumption /\ Rows!RowsAssumption
ASSUME MemberRows!TreeAssumption /\ MemberRows!RowsAssumption

\* The theorems about KConf apply to the file of the last kind.
ASSUME /\ MemberRows!MembersBelowChoice /\ MemberRows!PlainChoices /\ MemberRows!RequiredChoices
       /\ MemberRows!ChoicesSorted /\ MemberRows!DependenciesSorted /\ MemberRows!LoadedAnswers

vars == <<kind, user, isNew, phase, written, mconfVars, gconfVars>>

NoMconf == single_menu_mode = FALSE /\ expanded = {} /\ windows = << >>
NoGconf == /\ view_mode = "full" /\ current = root /\ browsed = NoEntry /\ tree1 = << >>
           /\ tree2 = << >> /\ show_all = FALSE /\ changed = {} /\ back_btn = FALSE
           /\ config_changed = FALSE /\ fresh = TRUE

Init == \/ kind = "menus" /\ Menus!Init /\ NoGconf
        \/ kind = "choice" /\ Choices!Init /\ NoGconf
        \/ kind = "rows" /\ Rows!Init /\ NoMconf
        \/ kind = "members" /\ MemberRows!Init /\ NoMconf
Next == /\ UNCHANGED kind
        /\ \/ kind = "menus" /\ Menus!Next /\ UNCHANGED gconfVars
           \/ kind = "choice" /\ Choices!Next /\ UNCHANGED gconfVars
           \/ kind = "rows" /\ Rows!Next /\ UNCHANGED mconfVars
           \/ kind = "members" /\ MemberRows!Next /\ UNCHANGED mconfVars
Spec == Init /\ [][Next]_vars

-----------------------------------------------------------------------------
(* mconf.c:279-433, menu.c:321: whatever the values are, each symbol that  *)
(* is shown and can be set is an item of a window that can be opened; and  *)
(* mconf.c:294, 373, 435: the recursion follows the menu tree down: no     *)
(* window opens itself or one above it, whatever was loaded in between.    *)
WindowsRight ==
  /\ kind = "menus" => Menus!Reachable /\ Menus!Descends
  /\ kind = "choice" => Choices!Reachable /\ Choices!Descends

(* symbol.c:398: the space bar shows another value for every item that can *)
(* be set: no accepted value is without effect, no refused one ends it.    *)
SpaceActs == (kind = "menus" => Menus!SpaceActs) /\ (kind = "choice" => Choices!SpaceActs)

(* gconf.c:1394-1476, symbol.c:309-318: whatever a change made of other    *)
(* symbols, the right frame then holds no row too much, none twice or out  *)
(* of place, and each row of a symbol has the values of now: each symbol   *)
(* that comes out differently is marked, and no mark is lost on the way.   *)
RowsRight == (kind = "rows" => Rows!RowsRight) /\ (kind = "members" => MemberRows!RowsRight)

(* mconf.c, gconf.c:945, 969: settings change only by loading a file or by *)
(* requests for shown symbols that the engine accepts (in the GTK front    *)
(* end as long as only visible entries are shown): no item and no row that *)
(* is used has gone stale.                                                 *)
OnlyRequests ==
  [][<<user, isNew>>' # <<user, isNew>> =>
       /\ kind = "menus" => Menus!Request \/ Menus!conf_read
       /\ kind = "choice" => Choices!Request \/ Choices!conf_read
       /\ kind = "rows" /\ fresh /\ ~show_all => Rows!Request \/ Rows!conf_read
       /\ kind = "members" /\ fresh /\ ~show_all => MemberRows!Request \/ MemberRows!conf_read
    ]_<<user, isNew>>
=============================================================================
