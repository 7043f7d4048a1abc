-------------------------- MODULE MCKSymbolChoice --------------------------
(***************************************************************************)
(* The engine over a choice with a default and a member that a dependency  *)
(* hides, and a string:                                                    *)
(*   config FAST      bool "fast"                                          *)
(*   choice           prompt "libc"; default NEWLIB if FAST                *)
(*     config GLIBC   bool "glibc"                                         *)
(*     config NEWLIB  bool "newlib"; depends on FAST                       *)
(*   endchoice                                                             *)
(*   config NAME      string "name"; depends on FAST                       *)
(***************************************************************************)
EXTENDS KUncached, TLC

CONSTANTS FAST, LIBC, GLIBC, NEWLIB, NAME, empty, box

MCSym == {FAST, LIBC, GLIBC, NEWLIB, NAME}
MCStr == {empty, box}
MCType == [s \in MCSym |-> IF s = NAME THEN "string" ELSE "boolean"]
MCPrompt == [s \in MCSym |-> IF s \in {NEWLIB, NAME} THEN {{Is(FAST)}} ELSE TrueExpr]
MCDefaults == [s \in MCSym |->
  IF s = LIBC THEN <<[cond |-> {{Is(FAST)}}, value |-> NEWLIB]>> ELSE << >>]
MCMembers == LIBC :> <<GLIBC, NEWLIB>>
MCWords == [s \in MCSym |-> IF s = NAME THEN {box} ELSE {}]
MCLoaded == {[user |-> [s \in MCSym |-> Unset], isNew |-> MCSym]}

MCOrder == <<FAST, LIBC, GLIBC, NEWLIB, NAME>>

\* The theorems about KSymbol and KConf apply to this file.
MCRank == [s \in MCSym |-> CASE s = FAST -> 0 [] s = LIBC -> 1 [] OTHER -> 2]
ASSUME TheoremsApply ==
  /\ Acyclic(MCRank) /\ PlainChoices /\ RequiredChoices /\ ProperLoaded /\ Sorted
  /\ Uncached!ChoicesSorted /\ Uncached!LoadedAnswers
=============================================================================
