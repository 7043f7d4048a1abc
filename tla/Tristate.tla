------------------------------ MODULE Tristate ------------------------------
(***************************************************************************)
(* The three-valued logic of the configuration language and the value of a *)
(* dependency expression (scripts/kconfig/expr.h, expr.c).                 *)
(*                                                                         *)
(* The C code keeps an expression as a tree of &&, ||, ! and comparisons.  *)
(* Min, max and 2-x are a distributive lattice with De Morgan's laws, so   *)
(* every tree has the value of its disjunctive normal form.  Here an       *)
(* expression is that form: a set of clauses, each a set of literals.      *)
(* Module KExpr models the tree and its rewriting.                         *)
(***************************************************************************)
EXTENDS Naturals

no  == 0
mod == 1
yes == 2
Tri == {no, mod, yes}

\* as the && of integers would do it (for the mutation test of the models)
EAndAsProduct(a, b) == a * b

EOr(a, b)  == IF a > b THEN a ELSE b
EAnd(a, b) == IF a < b THEN a ELSE b
ENot(a)    == 2 - a

(* Greatest and least element of a set of tristates; the empty clause is   *)
(* yes (a NULL expression), the empty expression is no.                    *)
MaxTri(S) == IF yes \in S THEN yes ELSE IF mod \in S THEN mod ELSE no
MinTri(S) == IF no  \in S THEN no  ELSE IF mod \in S THEN mod ELSE yes

-----------------------------------------------------------------------------
(* Literals.  "eq" and "ne" compare the printed value of a symbol with a   *)
(* constant; "const" is one of the symbols y, m and n.                     *)
Const(t)     == [op |-> "const", sym |-> t, arg |-> t]
Is(s)        == [op |-> "sym",   sym |-> s, arg |-> no]
IsNot(s)     == [op |-> "not",   sym |-> s, arg |-> no]
Equals(s, v) == [op |-> "eq",    sym |-> s, arg |-> v]
Differs(s, v) == [op |-> "ne",   sym |-> s, arg |-> v]

Literal(S, V) ==
  [op : {"const"}, sym : Tri, arg : Tri]
    \cup [op : {"sym", "not"}, sym : S, arg : {no}]
    \cup [op : {"eq", "ne"}, sym : S, arg : Tri \cup V]

LitValue(l, curr) ==
  CASE l.op = "const" -> l.arg
    [] l.op = "sym"   -> curr[l.sym].tri
    [] l.op = "not"   -> ENot(curr[l.sym].tri)
    [] l.op = "eq"    -> IF l.arg \in {curr[l.sym].tri, curr[l.sym].val}
                         THEN yes ELSE no
    [] l.op = "ne"    -> IF l.arg \in {curr[l.sym].tri, curr[l.sym].val}
                         THEN no ELSE yes

(* expr_calc_value: both operands of && and || are always evaluated.       *)
EvalExpr(e, curr) ==
  MaxTri({MinTri({LitValue(l, curr) : l \in cl}) : cl \in e})

(* The symbols whose value an evaluation of e asks for.                    *)
ExprSyms(e) == {l.sym : l \in {k \in UNION e : k.op # "const"}}

(* e && s, the form in which menu_finalize adds a parent's dependency.     *)
AndLit(e, l) == {cl \cup {l} : cl \in e}

TrueExpr == {{}}
=============================================================================
