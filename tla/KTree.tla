------------------------------- MODULE KTree -------------------------------
(* The trees that expr_alloc_* make of dependency expressions (scripts/     *)
(* kconfig/expr.c): a symbol or constant, a comparison of a symbol with a   *)
(* constant, a negation, a conjunction or disjunction, and no tree at all.  *)
Constant == {"y", "m", "n"}

Sy(s)          == [op |-> "sym", s |-> s, t |-> "", kids |-> << >>]
Comp(op, s, t) == [op |-> op, s |-> s, t |-> t, kids |-> << >>]
Not(e)         == [op |-> "not", s |-> "", t |-> "", kids |-> <<e>>]
Two(op, a, b)  == [op |-> op, s |-> "", t |-> "", kids |-> <<a, b>>]
Null           == [op |-> "null", s |-> "", t |-> "", kids |-> << >>]
=============================================================================
