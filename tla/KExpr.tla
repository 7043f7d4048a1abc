------------------------------- MODULE KExpr -------------------------------
(***************************************************************************)
(* Dependency expressions as the trees they are, and their rewriting       *)
(* (scripts/kconfig/expr.c).  The rewriting works in place and gets two    *)
(* pointers into trees, often into the same one: here a pointer is the     *)
(* path of a node, and an operator returns the tree it leaves behind.      *)
(*                                                                         *)
(* The operators follow the recursion of the code; the state machine at    *)
(* the end applies the passes in the orders menu_finalize (menu.c) does.   *)
(***************************************************************************)
EXTENDS Tristate, KTree, Sequences

CONSTANTS
  Boolean, Tristates,  \* the symbols of each type
  Modules,             \* the boolean symbol MODULES
  Exprs,               \* what the parser may deliver
  Parents, Bases       \* finished conditions: of the enclosing menu, of the entry above

\* the instances assume this of the constants
SymbolsAssumption == Modules \in Boolean /\ Boolean \cap Tristates = {}

Symbol == Boolean \cup Tristates
Opposite(op) == CASE op = "eq" -> "ne" [] op = "ne" -> "eq"
                  [] op = "and" -> "or" [] op = "or" -> "and"

expr_alloc_and(a, b) == IF a = Null THEN b ELSE IF b = Null THEN a ELSE Two("and", a, b)

IsConst(e, c) == e.op = "sym" /\ e.s = c
Neutral(op) == IF op = "and" THEN Sy("y") ELSE Sy("n")
Dominant(op) == IF op = "and" THEN Sy("n") ELSE Sy("y")

-----------------------------------------------------------------------------
(* expr_calc_value, for an assignment of values to the symbols; m is the   *)
(* value of an m that stands alone.                                        *)
SymValue(s, val) == CASE s = "y" -> yes [] s = "m" -> mod [] s = "n" -> no [] OTHER -> val[s]

RECURSIVE ValueWith(_, _, _)
ValueWith(e, val, m) ==
  CASE e.op = "null" -> yes
    [] e.op = "sym" -> IF e.s = "m" THEN m ELSE SymValue(e.s, val)
    [] e.op = "and" -> EAnd(ValueWith(e.kids[1], val, m), ValueWith(e.kids[2], val, m))
    [] e.op = "or"  -> EOr(ValueWith(e.kids[1], val, m), ValueWith(e.kids[2], val, m))
    [] e.op = "not" -> ENot(ValueWith(e.kids[1], val, m))
    [] e.op = "eq"  -> IF SymValue(e.s, val) = SymValue(e.t, val) THEN yes ELSE no
    [] e.op = "ne"  -> IF SymValue(e.s, val) = SymValue(e.t, val) THEN no ELSE yes

Value(e, val) == ValueWith(e, val, mod)

-----------------------------------------------------------------------------
(* Nodes by their path.                                                    *)
RECURSIVE At(_, _)
At(e, p) == IF p = << >> THEN e ELSE At(e.kids[Head(p)], Tail(p))

RECURSIVE Put(_, _, _)
Put(e, p, x) ==
  IF p = << >> THEN x ELSE [e EXCEPT !.kids[Head(p)] = Put(@, Tail(p), x)]

L(p) == Append(p, 1)
R(p) == Append(p, 2)

-----------------------------------------------------------------------------
(* expr_eliminate_yn: constants in && and || are folded, bottom up.        *)
RECURSIVE expr_eliminate_yn(_)
expr_eliminate_yn(e) ==
  IF e.op \notin {"and", "or"} THEN e
  ELSE LET a == expr_eliminate_yn(e.kids[1])
           b == expr_eliminate_yn(e.kids[2])
       IN CASE a = Dominant(e.op) -> Dominant(e.op)
            [] a = Neutral(e.op)  -> b
            [] b = Dominant(e.op) -> Dominant(e.op)
            [] b = Neutral(e.op)  -> a
            [] OTHER -> Two(e.op, a, b)

(* Terms that two expressions have in common become neutral in both.       *)
RECURSIVE EliminateEq(_, _, _, _), expr_eq(_, _)
EliminateEq(type, tree, p, q) ==
  LET a == At(tree, p)
      b == At(tree, q)
  IN CASE a.op = type -> EliminateEq(type, EliminateEq(type, tree, L(p), q), R(p), q)
       [] a.op # type /\ b.op = type ->
            EliminateEq(type, EliminateEq(type, tree, p, L(q)), p, R(q))
       [] a.op # type /\ b.op # type ->
            IF (a.op = "sym" /\ a.s \in {"y", "n"} /\ a = b) \/ ~expr_eq(a, b) THEN tree
            ELSE Put(Put(tree, p, Neutral(type)), q, Neutral(type))

\* the two expressions of expr_eliminate_eq are the kids of a pair
ByFirst(pair) ==
  IF pair.kids[1].op \in {"and", "or"}
  THEN EliminateEq(pair.kids[1].op, pair, <<1>>, <<2>>) ELSE pair
BySecond(pair) ==
  IF pair.kids[2].op \in {"and", "or"} /\ pair.kids[1].op # pair.kids[2].op
  THEN EliminateEq(pair.kids[2].op, pair, <<1>>, <<2>>) ELSE pair

expr_eliminate_eq(a, b) ==
  LET pair == BySecond(ByFirst(Two("pair", a, b)))
  IN <<expr_eliminate_yn(pair.kids[1]), expr_eliminate_yn(pair.kids[2])>>

expr_eq(a, b) ==
  /\ a.op = b.op
  /\ CASE a.op \in {"eq", "ne", "sym"} -> a = b
       [] a.op = "not" -> expr_eq(a.kids[1], b.kids[1])
       [] OTHER -> LET rest == expr_eliminate_eq(a, b) IN
                   rest[1].op = "sym" /\ rest[1] = rest[2]

-----------------------------------------------------------------------------
(* expr_join_or, expr_join_and: one term for two about the same symbol.    *)
(* The result is a sequence, empty when the terms cannot be joined.        *)
Comparison == {"eq", "ne"}
Term == Comparison \cup {"sym", "not"}

TermSym(e) == IF e.op = "not" THEN e.kids[1].s ELSE e.s

Comparable(a, b) ==
  /\ a.op \in Term /\ b.op \in Term
  /\ a.op = "not" => a.kids[1].op \in Comparison \cup {"sym"}
  /\ b.op = "not" => b.kids[1].op = "sym"
  /\ TermSym(a) = TermSym(b) /\ TermSym(a) \in Symbol

\* the terms are comparisons op of the symbol with x and y, in any order
Compare(a, b, op, x, y) == a.op = op /\ b.op = op /\ {a.t, b.t} = {x, y}
\* one is the symbol, the other a comparison
SymAnd(a, b, op, x) ==
  \/ a.op = "sym" /\ b.op = op /\ b.t = x
  \/ b.op = "sym" /\ a.op = op /\ a.t = x

expr_join_or(a, b) ==
  LET s == TermSym(a)
      NotAndSym(c, d) == c.op = "not" /\ c.kids[1].op = "sym" /\ d.op = "sym"
      Rest == CHOOSE c \in Constant : c \notin {a.t, b.t}
  IN CASE expr_eq(a, b) -> <<a>>
       [] ~expr_eq(a, b) /\ ~Comparable(a, b) -> << >>
       [] OTHER ->
            IF s \in Tristates /\ \E c, d \in Constant : c # d /\ Compare(a, b, "eq", c, d)
            THEN <<Comp("ne", s, Rest)>>
            ELSE IF s \in Boolean /\ (NotAndSym(a, b) \/ NotAndSym(b, a))
            THEN <<Sy("y")>> ELSE << >>

(* The rule for a # m and a # n; its comment in the code says m.           *)
AsCommented(s) == Comp("eq", s, "m")  \* mutant
NeitherMorN(s) == Comp("eq", s, "y")

expr_join_and(a, b) ==
  LET s == TermSym(a)
      Both(e, d) == e.op = "eq" /\ d.op = "ne" /\ e.t \in Constant /\ d.t \in Constant
      Without(e, d) == IF e.t # d.t THEN <<Comp("eq", s, e.t)>> ELSE <<Sy("n")>>
  IN CASE expr_eq(a, b) -> <<a>>
       [] ~expr_eq(a, b) /\ ~Comparable(a, b) -> << >>
       [] OTHER ->
            CASE SymAnd(a, b, "eq", "y") -> <<Comp("eq", s, "y")>>
              [] SymAnd(a, b, "ne", "n") -> <<Sy(s)>>
              [] s \in Tristates /\ Both(a, b) -> Without(a, b)
              [] s \in Tristates /\ Both(b, a) -> Without(b, a)
              [] s \in Tristates /\ Compare(a, b, "ne", "y", "n") -> <<Comp("eq", s, "m")>>
              [] s \in Tristates /\ Compare(a, b, "ne", "y", "m") -> <<Comp("eq", s, "n")>>
              [] s \in Tristates /\ Compare(a, b, "ne", "m", "n") -> <<NeitherMorN(s)>>
              [] OTHER -> << >>

Join(type, a, b) == IF type = "or" THEN expr_join_or(a, b) ELSE expr_join_and(a, b)

-----------------------------------------------------------------------------
(* expr_transform: comparisons of booleans become the symbol, negations    *)
(* move down to the terms.                                                 *)
BoolCompare(op, s, t) ==
  CASE <<op, t>> \in {<<"eq", "y">>, <<"ne", "n">>} -> Sy(s)
    [] <<op, t>> \in {<<"eq", "n">>, <<"ne", "y">>} -> Not(Sy(s))
    [] <<op, t>> = <<"eq", "m">> -> Sy("n")
    [] <<op, t>> = <<"ne", "m">> -> Sy("y")
    [] OTHER -> Comp(op, s, t)

DeMorgan(op) == Opposite(op)

NotCompared(e) == Comp(Opposite(e.op), e.s, e.t)

RECURSIVE expr_transform(_)
expr_transform(e) ==
  CASE e.op \in Comparison -> IF e.s \in Boolean THEN BoolCompare(e.op, e.s, e.t) ELSE e
    [] e.op \in {"sym", "null"} -> e
    [] e.op \in {"and", "or"} -> Two(e.op, expr_transform(e.kids[1]), expr_transform(e.kids[2]))
    [] e.op = "not" ->
         LET k == expr_transform(e.kids[1]) IN
         CASE k.op = "not" -> expr_transform(k.kids[1])
           [] k.op \in Comparison -> NotCompared(k)
           [] k.op \in {"and", "or"} ->
                expr_transform(Two(DeMorgan(k.op), Not(k.kids[1]), Not(k.kids[2])))
           [] IsConst(k, "y") -> Sy("n")
           [] IsConst(k, "m") -> Sy("m")
           [] IsConst(k, "n") -> Sy("y")
           [] OTHER -> Not(k)

(* expr_extract_eq: like EliminateEq, and tells whether anything was equal.*)
RECURSIVE ExtractEq(_, _, _, _)
ExtractEq(type, st, p, q) ==
  LET a == At(st.tree, p)
      b == At(st.tree, q)
  IN CASE a.op = type -> ExtractEq(type, ExtractEq(type, st, L(p), q), R(p), q)
       [] a.op # type /\ b.op = type -> ExtractEq(type, ExtractEq(type, st, p, L(q)), p, R(q))
       [] OTHER ->
            IF ~expr_eq(a, b) THEN st
            ELSE [tree |-> Put(Put(st.tree, p, Neutral(type)), q, Neutral(type)), hit |-> TRUE]

\* what is left of a without the terms it has in common with b
Remainder(type, a, b) ==
  LET st == ExtractEq(type, [tree |-> Two("pair", a, b), hit |-> FALSE], <<1>>, <<2>>)
  IN IF st.hit THEN expr_eliminate_yn(st.tree.kids[1]) ELSE st.tree.kids[1]

-----------------------------------------------------------------------------
(* expr_eliminate_dups.  The pointers of a pair are the same, or one is in *)
(* the tree of the other.                                                  *)
BothStay(type, tree, p, q, term) == Put(tree, q, term)  \* mutant
OneInstead(type, tree, p, q, term) == Put(Put(tree, p, Neutral(type)), q, term)

RECURSIVE Dups1(_, _, _, _)
Dups1(type, st, p, q) ==
  LET a == At(st.tree, p)
      b == At(st.tree, q)
      inner == IF a.op \in {"and", "or"} THEN Dups1(a.op, st, p, p) ELSE st
      joined == Join(type, At(inner.tree, p), At(inner.tree, q))
  IN CASE a.op = type -> Dups1(type, Dups1(type, st, L(p), q), R(p), q)
       [] a.op # type /\ b.op = type -> Dups1(type, Dups1(type, st, p, L(q)), p, R(q))
       [] OTHER ->
            CASE p = q -> st
              [] p # q /\ joined = << >> -> inner
              [] OTHER -> [tree |-> OneInstead(type, inner.tree, p, q, joined[1]), hit |-> TRUE]

(* (FOO || BAR) && (!FOO && !BAR) -> n and the same for ||: the negation   *)
(* of a inner term is looked for among the outer ones.                     *)
Contradicts(a, b) ==
  LET outer == Opposite(a.op) IN
  Remainder(outer, expr_transform(Not(a)), b) = Neutral(outer)

RECURSIVE Dups2(_, _, _, _)
Dups2(type, st, p, q) ==
  LET a == At(st.tree, p)
      b == At(st.tree, q)
      s1 == IF b.op = type THEN Dups2(type, Dups2(type, st, p, L(q)), p, R(q)) ELSE st
      c == At(s1.tree, p)
      s2 == Dups2(c.op, s1, p, p)
  IN CASE a.op = type -> Dups2(type, Dups2(type, st, L(p), q), R(p), q)
       [] a.op # type /\ (p = q \/ c.op \notin {"and", "or"}) -> s1
       [] OTHER -> IF Contradicts(At(s2.tree, p), At(s2.tree, q))
                   THEN [tree |-> Put(s2.tree, p, Neutral(c.op)), hit |-> TRUE] ELSE s2

DupsPass(e) ==
  LET st == [tree |-> e, hit |-> FALSE]
  IN IF e.op \in {"and", "or"} THEN Dups2(e.op, Dups1(e.op, st, << >>, << >>), << >>, << >>)
     ELSE st

RECURSIVE expr_eliminate_dups(_)
expr_eliminate_dups(e) ==
  LET pass == DupsPass(e)
  IN IF pass.hit THEN expr_eliminate_dups(expr_eliminate_yn(pass.tree)) ELSE pass.tree

-----------------------------------------------------------------------------
(* Conditions of menu entries (menu.c).                                    *)
RECURSIVE menu_check_dep(_), expr_trans_bool(_)
menu_check_dep(e) ==
  CASE IsConst(e, "m") -> expr_alloc_and(e, Sy(Modules))
    [] e.op \in {"not", "and", "or"} ->
         [e EXCEPT !.kids = [i \in DOMAIN @ |-> menu_check_dep(@[i])]]
    [] OTHER -> e

expr_trans_bool(e) ==
  CASE e.op \in {"not", "and", "or"} ->
         [e EXCEPT !.kids = [i \in DOMAIN @ |-> expr_trans_bool(@[i])]]
    [] e.op = "ne" /\ e.s \in Tristates /\ e.t = "n" -> Sy(e.s)
    [] OTHER -> e

(* e compared with y or n.                                                 *)
Negated(type, e) == IF type = "ne" THEN Not(e) ELSE e
SameType(type) == type  \* mutant: a negation is dropped
AcrossNot(type) == Opposite(type)

RECURSIVE expr_trans_compare(_, _, _)
expr_trans_compare(e, type, c) ==
  CASE e.op = "null" -> Negated(type, Sy(c))
    [] e.op \in {"and", "or"} ->
         Negated(type, Two(IF c = "y" THEN e.op ELSE Opposite(e.op),
                           expr_trans_compare(e.kids[1], "eq", c),
                           expr_trans_compare(e.kids[2], "eq", c)))
    [] e.op = "not" -> expr_trans_compare(e.kids[1], AcrossNot(type), c)
    [] e.op \in Comparison -> IF (type = "eq") = (c = "y") THEN e ELSE Not(e)
    [] e.op = "sym" -> Comp(type, e.s, c)

RECURSIVE expr_contains_symbol(_, _), expr_depends_symbol(_, _)
expr_contains_symbol(e, s) ==
  s \in {e.s, e.t} \/ \E i \in DOMAIN e.kids : expr_contains_symbol(e.kids[i], s)

AllNeeded(e) == e.op = "and"
expr_depends_symbol(e, s) ==
  \/ AllNeeded(e) /\ \E i \in {1, 2} : expr_depends_symbol(e.kids[i], s)
  \/ e = Sy(s)
  \/ e \in {Comp("eq", s, "y"), Comp("eq", s, "m"), Comp("ne", s, "n")}

-----------------------------------------------------------------------------
VARIABLES
  stage,
  raw, parent,  \* the condition as parsed, the one of the menu it is in
  dep,          \* the condition being rewritten
  shown,        \* the finished condition
  above, base,  \* the symbol and condition of the entry above
  nested        \* whether the entry moves below it

vars == <<stage, raw, parent, dep, shown, above, base, nested>>

Init ==
  /\ stage = "parsed"
  /\ raw \in Exprs /\ parent \in Parents
  /\ dep = menu_check_dep(raw)
  /\ shown = Null /\ above = "" /\ base = Null /\ nested = FALSE

\* both conditions of an entry, its own and its prompt's, go this way
Transform ==
  /\ stage = "parsed"
  /\ dep' = expr_alloc_and(parent, expr_transform(dep))
  /\ stage' = "joined"
  /\ UNCHANGED <<raw, parent, shown, above, base, nested>>

\* one turn of expr_eliminate_dups
EliminateDups(from, to) ==
  LET pass == DupsPass(dep) IN
  /\ stage = from
  /\ dep' = IF pass.hit THEN expr_eliminate_yn(pass.tree) ELSE pass.tree
  /\ stage' = IF pass.hit THEN from ELSE to
  /\ UNCHANGED <<raw, parent, shown, above, base, nested>>

\* the entry of a symbol that is not a tristate
TransBool ==
  /\ stage = "reduced"
  /\ dep' = expr_trans_bool(dep) /\ shown' = dep' /\ stage' = "finished"
  /\ UNCHANGED <<raw, parent, above, base, nested>>

KeepTristate ==
  /\ stage = "reduced"
  /\ shown' = dep /\ stage' = "finished"
  /\ UNCHANGED <<raw, parent, dep, above, base, nested>>

\* menu_finalize of the entry above, up to its look at this one
LookBelow ==
  /\ stage = "finished"
  /\ above' \in Boolean \cup Tristates
  /\ IF ~expr_contains_symbol(dep, above') \/ expr_depends_symbol(dep, above')
     THEN /\ nested' = expr_contains_symbol(dep, above')
          /\ dep' = dep /\ stage' = "placed"
     ELSE /\ dep' = expr_transform(expr_trans_compare(dep, "ne", "n"))
          /\ stage' = "compared" /\ UNCHANGED nested
  /\ UNCHANGED <<raw, parent, shown, base>>

\* the entry moves below if nothing of the condition above is left
Implies(d, b) ==
  LET b2 == expr_eliminate_dups(expr_transform(expr_trans_compare(b, "ne", "n")))
  IN expr_eliminate_eq(d, b2)[2] = Sy("y")

Place ==
  /\ stage = "eliminated"
  /\ base' \in Bases /\ nested' = Implies(dep, base')
  /\ stage' = "placed"
  /\ UNCHANGED <<raw, parent, dep, shown, above>>

Done == stage = "placed" /\ UNCHANGED vars

Next == \/ Transform \/ EliminateDups("joined", "reduced") \/ TransBool \/ KeepTristate
        \/ LookBelow \/ EliminateDups("compared", "eliminated") \/ Place \/ Done

Spec == Init /\ [][Next]_vars

-----------------------------------------------------------------------------
RECURSIVE IsTree(_)
IsTree(e) ==
  /\ CASE e.op \in {"sym", "null"} -> e.kids = << >>
       [] e.op \in Comparison -> e.s \in Symbol \cup Constant /\ e.t \in Symbol \cup Constant
       [] e.op = "not" -> Len(e.kids) = 1
       [] e.op \in {"and", "or"} -> Len(e.kids) = 2
  /\ \A i \in DOMAIN e.kids : e.kids[i] # Null /\ IsTree(e.kids[i])

\* Rewriting leaves trees: no operator loses or shares an operand.
TypeOK ==
  /\ stage \in {"parsed", "joined", "reduced", "finished", "compared", "eliminated", "placed"}
  /\ IsTree(dep) /\ IsTree(shown) /\ IsTree(base)
  /\ nested \in BOOLEAN

Assignment == {val \in [Symbol -> Tri] : \A b \in Boolean : val[b] # mod}

\* what the file says: an m stands for a module where modules are switched on
Meaning(val) ==
  LET m == EAnd(mod, val[Modules])
  IN EAnd(ValueWith(parent, val, m), ValueWith(raw, val, m))

\* Rewriting (expr_transform, expr_eliminate_dups) never turns a condition
\* that is y or n into anything else, whatever the symbols are.
MeaningKept ==
  stage \in {"joined", "reduced"} =>
    \A val \in Assignment : Meaning(val) # mod => Value(dep, val) = Meaning(val)

\* An entry is shown when its condition says so: expr_trans_bool may weaken y
\* to m, which counts the same for a symbol that is no tristate.
ShownAsMeant ==
  stage = "finished" =>
    \A val \in Assignment :
      Meaning(val) # mod => (Value(shown, val) = no) = (Meaning(val) = no)

RECURSIVE NotOnlyAtTerms(_)
NotOnlyAtTerms(e) ==
  /\ e.op = "not" => e.kids[1].op = "sym"
  /\ \A i \in DOMAIN e.kids : NotOnlyAtTerms(e.kids[i])

\* After expr_transform negation stands in front of symbols only, which the
\* joining of terms and expr_trans_bool take for granted.
NegationAtTerms == stage # "parsed" => NotOnlyAtTerms(dep)

\* An entry that menu_finalize moves below another one can be reached when its
\* condition holds: menu_is_visible opens the list below an entry that is
\* itself visible or whose symbol is set.  Not so when a symbol is m, because
\* !T is compared with n as if it were T compared with n.
NestedIsReachable ==
  stage = "placed" /\ nested =>
    \A val \in Assignment :
      (\A s \in Symbol : val[s] # mod) /\ Value(shown, val) # no
        => Value(base, val) # no \/ val[above] # no

RECURSIVE Size(_)
Size(e) == CASE e.op \in {"and", "or"} -> 1 + Size(e.kids[1]) + Size(e.kids[2])
             [] e.op = "not" -> 1 + Size(e.kids[1])
             [] OTHER -> 1

\* expr_eliminate_dups ends: it repeats itself only after the condition shrank.
EachTurnShrinks ==
  [][(stage \in {"joined", "compared"} /\ stage' = stage) => Size(dep') < Size(dep)]_vars

\* The comment of expr_join_and: a that is neither m nor n is m.
JoinedAsCommented ==
  \A s \in Tristates :
    /\ stage = "reduced" /\ parent = Null
    /\ raw = Two("and", Comp("ne", s, "m"), Comp("ne", s, "n"))
    => dep = Comp("eq", s, "m")
=============================================================================
