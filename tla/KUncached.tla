----------------------------- MODULE KUncached -----------------------------
(***************************************************************************)
(* The symbol engine against what it promises: KSymbol, which caches       *)
(* values, implements KValues, which calculates all of them each time.     *)
(***************************************************************************)
EXTENDS KSymbol

CONSTANT Order     \* every symbol, after those its value depends on

Uncached == INSTANCE KValues

(* The cache does not show: the engine accepts, refuses and stores         *)
(* requests as if it computed every value from the settings each time      *)
(* (symbol.c:371-554).                                                     *)
IsUncached == Uncached!ValuesSpec

\* what the theorem assumes of Order, and of the file, which has no loops
Sorted ==
  /\ Order \in Seq(Sym)
  /\ \A s \in Sym : \E i \in 1 .. Len(Order) : Order[i] = s
  /\ \A i, j \in 1 .. Len(Order) : Order[i] = Order[j] => i = j
  /\ \A i, j \in 1 .. Len(Order) : Order[j] \in DependsOn(Order[i]) => j < i
=============================================================================
