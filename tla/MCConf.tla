------------------------------- MODULE MCConf -------------------------------
(***************************************************************************)
(* conf over entries that make others visible before and after them, a     *)
(* choice that may be m, a symbol that is selected as m, and a string that *)
(* has a default only sometimes; the input may end at any time.            *)
(*   config MODULES  bool; default y                                       *)
(*   config FW       tristate; default m; select CRC                       *)
(*   config CRC      tristate "crc" if NET                                 *)
(*   config NET      bool "net"; select CRC if LATE                        *)
(*   menu "drivers" (visible if NET)                                       *)
(*     choice          prompt "driver"                                     *)
(*       config PCI     tristate "pci"                                     *)
(*         config DMA   bool "dma" (below PCI)                             *)
(*         config IRQ   bool "irq" (below PCI, after DMA)                  *)
(*       config ISA     tristate "isa"                                     *)
(*     endchoice                                                           *)
(*     config PORT     int "port"; default 1 if LATE                       *)
(*   endmenu                                                               *)
(*   config LATE      bool "late"                                          *)
(***************************************************************************)
EXTENDS KConf, TLC

CONSTANTS NET, CRC, DRIVER, PCI, DMA, IRQ, ISA, PORT, LATE, MODULES, FW,
          empty, one, quest, root, drivers

MCSym == {MODULES, FW, NET, CRC, DRIVER, PCI, DMA, IRQ, ISA, PORT, LATE}
MCStr == {empty, one, quest}
MCType == [s \in MCSym |-> CASE s = PORT -> "string"
                             [] s \in {MODULES, NET, DMA, IRQ, LATE} -> "boolean"
                             [] OTHER -> "tristate"]
MCPrompt == [s \in MCSym |-> CASE s \in {MODULES, FW} -> {}
                               [] s \in {CRC, DRIVER, PORT} -> {{Is(NET)}}
                               [] s \in {DMA, IRQ} -> {{Is(PCI)}} [] OTHER -> TrueExpr]
Default(cond, val) == <<[cond |-> cond, value |-> val]>>
MCDefaults == [s \in MCSym |-> CASE s = MODULES -> Default(TrueExpr, {{Const(yes)}})
                                 [] s = FW -> Default(TrueExpr, {{Const(mod)}})
                                 [] s = PORT -> Default({{Is(LATE)}}, one) [] OTHER -> << >>]
MCSelects == {[from |-> FW, to |-> CRC, cond |-> TrueExpr],
              [from |-> NET, to |-> CRC, cond |-> {{Is(LATE)}}]}
MCMembers == DRIVER :> <<PCI, ISA>>
MCValid == [s \in MCSym |-> IF s = PORT THEN {one} ELSE {}]
MCOrder == <<MODULES, FW, LATE, NET, CRC, DRIVER, PCI, ISA, DMA, IRQ, PORT>>

\* old configurations, each without the symbols of one of the sets
Known(s) == [tri |-> CASE s \in {NET, LATE, DRIVER} -> yes [] s \in {FW, ISA} -> mod
                         [] s = PCI -> yes [] OTHER -> no,
             val |-> CASE s = DRIVER -> PCI [] s = PORT -> one [] OTHER -> NoVal]
Unknown == {{}, MCSym, {CRC}, {LATE}, {NET, CRC}, {DRIVER, PCI, ISA}, {DMA, IRQ}, {PORT},
            {NET, DRIVER, PCI, ISA, PORT}}
MCLoaded == {[user |-> [s \in MCSym |-> IF s \in new THEN [tri |-> no, val |-> NoVal]
                                        ELSE Known(s)], isNew |-> new] : new \in Unknown}

MCEntry == (MCSym \ {MODULES, FW}) \cup {root, drivers}
MCList == [e \in MCEntry |->
  CASE e = root -> <<CRC, NET, drivers, LATE>> [] e = drivers -> <<DRIVER, PORT>>
    [] e = DRIVER -> <<PCI, ISA>> [] e = PCI -> <<DMA, IRQ>> [] OTHER -> << >>]
MCSymOf == [e \in MCEntry |-> IF e \in MCSym THEN e ELSE NoSym]
MCEntryCond == [e \in MCEntry |-> IF e = drivers THEN {{Is(NET)}} ELSE TrueExpr]

ASSUME TreeAssumption /\ MembersBelowChoice
ASSUME ChoicesSorted /\ DependenciesSorted /\ LoadedAnswers /\ RequiredChoices
ASSUME Fresh \in Loaded
=============================================================================
