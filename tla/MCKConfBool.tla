---------------------------- MODULE MCKConfBool ----------------------------
(***************************************************************************)
(* Loading and saving a file of the kind this repository uses: booleans,   *)
(* a dependency with a default, a choice.                                  *)
(*   config FAST      bool "fast"                                          *)
(*   choice           prompt "libc" if FAST                                *)
(*     config GLIBC   bool "glibc"                                         *)
(*     config UCLIBC  bool "uclibc"                                        *)
(*   endchoice                                                             *)
(***************************************************************************)
EXTENDS KConfData, TLC

CONSTANTS FAST, LIBC, GLIBC, UCLIBC, empty

MCSym == {FAST, LIBC, GLIBC, UCLIBC}
MCStr == {empty}
MCType == [s \in MCSym |-> "boolean"]
MCPrompt == [s \in MCSym |-> IF s = LIBC THEN {{Is(FAST)}} ELSE TrueExpr]
MCDefaults == [s \in MCSym |-> IF s = LIBC THEN
   <<[cond |-> TrueExpr, value |-> UCLIBC]>> ELSE << >>]
MCMembers == LIBC :> <<GLIBC, UCLIBC>>
MCNone == [s \in MCSym |-> {}]
MCLoaded == {}
MCHash == <<UCLIBC, LIBC, FAST, GLIBC>>
MCMenu == <<FAST, GLIBC, UCLIBC>>
MCOldFiles == {[s \in MCSym |-> NoVal],
               [s \in MCSym |-> IF s = LIBC THEN NoVal
                                ELSE IF s = GLIBC THEN no ELSE yes]}
=============================================================================
