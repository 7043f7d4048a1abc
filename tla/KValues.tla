------------------------------ MODULE KValues ------------------------------
(***************************************************************************)
(* What the symbol engine promises: a configuration is the user's settings *)
(* and nothing else, every value is a function of them, and a request is   *)
(* accepted or refused by the values shown.  No cache, no recursion: the   *)
(* engine with both is KSymbol, which implements this module; the front    *)
(* ends KMconf and KConf are built on it.                                  *)
(***************************************************************************)
EXTENDS KconfigFile

CONSTANTS
  Order,     \* every symbol, after those its value depends on
  Loaded     \* what conf_read may leave behind: a set of [user, isNew]

\* Every symbol has its place in Order, a choice after what the prompts of its
\* members refer to and before its members.  The instances assume this,
ChoicesSorted ==
  /\ Order \in Seq(Sym)
  /\ \A s \in Sym : \E i \in 1 .. Len(Order) : Order[i] = s
  /\ \A i, j \in 1 .. Len(Order) : Order[i] = Order[j] => i = j
  /\ \A c, v \in 1 .. Len(Order) :
       Order[c] \in Choice /\ Order[v] \in MembersOf(Order[c]) =>
         /\ c < v
         /\ \A x \in 1 .. Len(Order) : Order[x] \in ExprSyms(Prompt[Order[v]]) => x < c

\* that it comes after what its prompts and those who select it refer to,
DependenciesSorted ==
  \A i \in 1 .. Len(Order) :
    \A x \in ExprSyms(VisExpr(Order[i])) \cup ExprSyms(RevDepExpr(Order[i])) :
      \E j \in 1 .. i - 1 : Order[j] = x

\* and this of what was read: the answer of a choice is one of its members
LoadedAnswers ==
  \A l \in Loaded :
    /\ l.user \in [Sym -> SymbolValue] /\ l.isNew \subseteq Sym
    /\ \A c \in Choice : l.user[c].val \in Sym => l.user[c].val \in MembersOf(c)

VARIABLES user, isNew

config == <<user, isNew>>

-----------------------------------------------------------------------------
(* The value of s from those of the symbols it depends on.                 *)
Visibility(s, curr) == EvalExpr(VisExpr(s), curr)
RevDep(s, curr) == IF s \in ChoiceValue THEN no ELSE EvalExpr(RevDepExpr(s), curr)

FirstMember(cand, curr) ==
  LET d == CHOOSE i \in 1 .. Len(cand) + 1 : IsFirstCandidate(cand, i, curr)
  IN IF d <= Len(cand) THEN [tri |-> yes, val |-> cand[d].value]
     ELSE [tri |-> no, val |-> NoVal]

\* (the sets of one element make TLC evaluate what they bind once)
ChosenMember(c, u, curr) ==
  CHOOSE v \in {FirstMember(cand, curr) : cand \in {Candidates(c, u[c].val)}} : TRUE

ValueOf(s, u, new, curr) ==
  LET base == CHOOSE b \in {BaseValue(s, u[s], s \notin new, vis, rev, def, curr) :
                               vis \in {Visibility(s, curr)}, rev \in {RevDep(s, curr)},
                               def \in {FirstDefault(s, curr)}} : TRUE
  IN IF s \in Choice /\ base.tri = yes
     THEN ChosenMember(s, u, [curr EXCEPT ![s].tri = yes]) ELSE base

Values(u, new) ==
  LET upTo[i \in 0 .. Len(Order)] ==
        IF i = 0 THEN [s \in Sym |-> [tri |-> no, val |-> NoVal]]
        ELSE CHOOSE next \in {[curr EXCEPT ![Order[i]] = ValueOf(Order[i], u, new, curr)] :
                                 curr \in {upTo[i - 1]}} : TRUE
  IN upTo[Len(Order)]

Shown == Values(user, isNew)

\* as sym_calc_value leaves them in sym->visible and sym->rev_dep.tri
Visible(s, curr) == Promote(IsBoolean(s, Visibility(s, curr), curr), Visibility(s, curr))
LowerLimit(s, curr) == Promote(IsBoolean(s, Visibility(s, curr), curr), RevDep(s, curr))

-----------------------------------------------------------------------------
(* The setters, on settings st = [user, isNew].                            *)
Settings == [user |-> user, isNew |-> isNew]

sym_is_changable(s, curr) == Visible(s, curr) > LowerLimit(s, curr)

sym_tristate_within_range(s, v, curr) ==
  /\ Visible(s, curr) # no /\ sym_is_changable(s, curr)
  /\ ~(v = mod /\ IsBoolean(s, Visible(s, curr), curr))
  /\ IF ChosenByChoice(s, Visible(s, curr)) THEN v = yes
     ELSE LowerLimit(s, curr) <= v /\ v <= Visible(s, curr)

Accepts(s, v, curr) ==
  ~IsString(s) /\ (curr[s].tri = v \/ sym_tristate_within_range(s, v, curr))

SetTri(st, s, v) ==
  LET picked == IF s \in ChoiceValue /\ v = yes THEN {ChoiceOf(s)} ELSE {}
  IN [user |-> [t \in Sym |-> IF t \in picked THEN [st.user[t] EXCEPT !.val = s]
                              ELSE IF t = s THEN [st.user[t] EXCEPT !.tri = v]
                              ELSE st.user[t]],
      isNew |-> st.isNew \ ({s} \cup picked)]

AcceptsString(s, str) == IsString(s) /\ str \in Allowed[s]

SetString(st, s, str) ==
  [user |-> [st.user EXCEPT ![s].val = str], isNew |-> st.isNew \ {s}]

Becomes(st) == user' = st.user /\ isNew' = st.isNew

-----------------------------------------------------------------------------
ValuesInit == \E l \in Loaded : user = l.user /\ isNew = l.isNew

\* only what is shown is changed
sym_set_tristate_value(s, v) ==
  /\ Becomes(SetTri(Settings, s, v))
  /\ LET now == Shown IN
     /\ Visible(s, now) # no \/ now[s].tri # no
     /\ Accepts(s, v, now)

sym_set_string_value(s, str) ==
  /\ Becomes(SetString(Settings, s, str))
  /\ Visible(s, Shown) # no
  /\ AcceptsString(s, str)

conf_read == \E l \in Loaded : Becomes(l)

Request == \E s \in Sym : \/ \E v \in Tri : sym_set_tristate_value(s, v)
                          \/ \E str \in Str : sym_set_string_value(s, str)

ValuesSpec == ValuesInit /\ [][config' # config /\ (Request \/ conf_read)]_config
=============================================================================
