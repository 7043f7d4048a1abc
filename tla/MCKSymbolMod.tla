---------------------------- MODULE MCKSymbolMod ----------------------------
(***************************************************************************)
(* A boolean choice whose members depend on a tristate symbol, so that m   *)
(* is what their dependencies allow:                                       *)
(*   config MODULES   bool "modules"                                       *)
(*   config USB       tristate "usb"                                       *)
(*   choice           prompt "mode"                                        *)
(*     config HOST    bool "host";   depends on USB                        *)
(*     config GADGET  bool "gadget"; depends on USB                        *)
(*   endchoice                                                             *)
(***************************************************************************)
EXTENDS KSymbol, TLC

CONSTANTS MODULES, USB, MODE, HOST, GADGET, empty

MCSym == {MODULES, USB, MODE, HOST, GADGET}
MCStr == {empty}
MCType == [s \in MCSym |-> IF s = USB THEN "tristate" ELSE "boolean"]
MCPrompt == [s \in MCSym |-> IF s \in {HOST, GADGET} THEN {{Is(USB)}} ELSE TrueExpr]
MCDefaults == [s \in MCSym |-> << >>]
MCMembers == MODE :> <<HOST, GADGET>>
MCNone == [s \in MCSym |-> {}]
MCLoaded == {[user |-> [s \in MCSym |-> Unset], isNew |-> MCSym]}
=============================================================================
