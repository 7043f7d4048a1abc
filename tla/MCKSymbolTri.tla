---------------------------- MODULE MCKSymbolTri ----------------------------
(***************************************************************************)
(* A file with MODULES, tristate symbols, a dependency chain, a default, a *)
(* reverse dependency and a comparison:                                    *)
(*   config MODULES    bool "modules"                                      *)
(*   config USB        tristate "usb"                                      *)
(*   config NET        tristate "net"; depends on USB; default m;          *)
(*                     select CRC                                          *)
(*   config CRC        tristate "crc" if USB != n                          *)
(***************************************************************************)
EXTENDS KUncached

CONSTANTS MODULES, USB, NET, CRC, empty

MCSym == {MODULES, USB, NET, CRC}
MCStr == {empty}
MCType == [s \in MCSym |-> IF s = MODULES THEN "boolean" ELSE "tristate"]
MCPrompt == [s \in MCSym |->
  CASE s = NET -> {{Is(USB)}}
    [] s = CRC -> {{Differs(USB, no)}}
    [] OTHER -> TrueExpr]
MCDefaults == [s \in MCSym |->
  IF s = NET THEN <<[cond |-> {{Is(USB)}}, value |-> {{Const(mod)}}]>>
  ELSE << >>]
MCSelects == {[from |-> NET, to |-> CRC, cond |-> {{Is(USB)}}]}
MCMembers == << >>
MCNone == [s \in MCSym |-> {}]
MCLoaded == {[user |-> [s \in MCSym |-> Unset], isNew |-> MCSym]}

MCOrder == <<MODULES, USB, NET, CRC>>

\* The theorems about KSymbol apply to this file.
MCRank == [s \in MCSym |-> CHOOSE i \in DOMAIN MCOrder : MCOrder[i] = s]
ASSUME TheoremsApply ==
  Acyclic(MCRank) /\ PlainChoices /\ RequiredChoices /\ ProperLoaded /\ Sorted
=============================================================================
