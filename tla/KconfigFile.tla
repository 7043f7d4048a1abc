---------------------------- MODULE KconfigFile ----------------------------
(***************************************************************************)
(* A parsed and finalized Kconfig file (the symbol table after conf_parse) *)
(* and the pure part of evaluating it: every operator takes the cached     *)
(* values "curr" and the user's settings as arguments.  The state that     *)
(* caches the results is in KSymbol.                                       *)
(*                                                                         *)
(* A symbol value is C's struct symbol_value: [tri, val].  "tri" is the    *)
(* value of boolean and tristate symbols; "val" is the string of a string, *)
(* int or hex symbol, and the chosen member of a choice.                   *)
(***************************************************************************)
EXTENDS Tristate, Sequences, FiniteSets

CONSTANTS
  Sym,       \* every symbol with a type, choices included
  NoSym,     \* the NULL symbol pointer
  Str,       \* the strings that string, int and hex symbols may hold
  EmptyStr,  \* the empty string
  NoVal,     \* NULL, and "no line" in a configuration file
  Type,      \* [Sym -> {"boolean", "tristate", "string"}]
  Prompt,    \* [Sym -> expression]: OR of the conditions of the prompts
  Defaults,  \* [Sym -> Seq([cond, value])] in the order of the file
  Selects,   \* set of [from, to, cond]: "from" selects "to" under cond
  Members,   \* choice -> sequence of the choice's values
  Optional,  \* the choices that may be "no"
  Modules,   \* the symbol MODULES, NoSym when the file has none
  ValidStr,  \* [Sym -> SUBSET Str]: sym_string_valid for the symbol's type
  Allowed    \* [Sym -> SUBSET Str]: valid and inside the symbol's range

Choice == DOMAIN Members
MembersOf(c) == {Members[c][i] : i \in DOMAIN Members[c]}
ChoiceValue == UNION {MembersOf(c) : c \in Choice}
ChoiceOf(v) == CHOOSE c \in Choice : v \in MembersOf(c)

IsString(s) == Type[s] = "string"
Val == Sym \cup Str \cup {NoVal}
SymbolValue == [tri : Tri, val : Val]
Expr == SUBSET SUBSET Literal(Sym, Str)

(* A default is an expression for a boolean or tristate symbol, a constant *)
(* or another symbol for a string and a member for a choice.               *)
DefaultProp == [cond : Expr, value : Str \cup Sym \cup Expr]

ASSUME FileAssumption ==
  /\ NoSym \notin Sym
  /\ NoVal \notin Sym \cup Str
  /\ EmptyStr \in Str
  /\ Type \in [Sym -> {"boolean", "tristate", "string"}]
  /\ Prompt \in [Sym -> Expr]
  /\ Defaults \in [Sym -> Seq(DefaultProp)]
  /\ Selects \subseteq [from : Sym, to : Sym, cond : Expr]
  /\ Members \in [Choice -> Seq(Sym)]
  /\ Choice \subseteq Sym
  /\ Modules \in Sym \cup {NoSym}
  /\ ValidStr \in [Sym -> SUBSET Str]
  /\ Allowed \in [Sym -> SUBSET Str]

ASSUME TypesAssumption ==
  /\ \A s \in Sym : Allowed[s] \subseteq ValidStr[s]
  /\ \A s \in Sym : \A i \in DOMAIN Defaults[s] :
       IF IsString(s) THEN Defaults[s][i].value \in Str \cup Sym
       ELSE s \notin Choice => Defaults[s][i].value \in Expr
  /\ \A c \in Choice : \A i \in DOMAIN Defaults[c] :
       Defaults[c][i].value \in MembersOf(c)
  /\ \A c \in Choice : ~IsString(c) /\ c \notin ChoiceValue
  /\ \A v \in ChoiceValue : ~IsString(v)
  /\ \A c1, c2 \in Choice : MembersOf(c1) \cap MembersOf(c2) # {} => c1 = c2

-----------------------------------------------------------------------------
(* What menu_finalize adds to the conditions of the file: a choice value   *)
(* depends on its choice; a selecting symbol and its condition enter the   *)
(* reverse dependency of the selected one; a choice that is not optional   *)
(* is at least m while its prompt is visible.                              *)
VisExpr(s) ==
  IF s \in ChoiceValue THEN AndLit(Prompt[s], Is(ChoiceOf(s))) ELSE Prompt[s]

RevDepExpr(s) ==
  UNION ({AndLit(sel.cond, Is(sel.from)) : sel \in {x \in Selects : x.to = s}}
         \cup (IF s \in Choice \ Optional
               THEN {AndLit(Prompt[s], Const(mod))} ELSE {}))

-----------------------------------------------------------------------------
(* sym_get_type: is the symbol boolean now?                                *)
ModulesTri(curr) == IF Modules = NoSym THEN no ELSE curr[Modules].tri

IsBoolean(s, vis, curr) ==
  \/ Type[s] = "boolean"
  \/ /\ Type[s] = "tristate"
     /\ (s \in ChoiceValue /\ vis = yes) \/ ModulesTri(curr) = no

Promote(bool, t) == IF bool /\ t = mod THEN yes ELSE t

(* sym_get_default_prop tries the conditions in order.  "d" is the index  *)
(* of the first that is not no, one more than their number when all are.   *)
NumDefaults(s) == Len(Defaults[s])
DefaultHit(s, d, curr) == EvalExpr(Defaults[s][d].cond, curr) # no
IsFirstDefault(s, d, curr) ==
  /\ \A j \in 1 .. d - 1 : ~DefaultHit(s, j, curr)
  /\ d <= NumDefaults(s) => DefaultHit(s, d, curr)
FirstDefault(s, curr) ==
  CHOOSE d \in 1 .. NumDefaults(s) + 1 : IsFirstDefault(s, d, curr)

DefaultTri(s, d, curr) ==
  IF d <= NumDefaults(s) THEN EvalExpr(Defaults[s][d].value, curr) ELSE no

DefaultStr(s, d, curr) ==
  IF d > NumDefaults(s) THEN EmptyStr
  ELSE IF Defaults[s][d].value \in Sym THEN curr[Defaults[s][d].value].val
  ELSE Defaults[s][d].value

-----------------------------------------------------------------------------
(* The value sym_calc_value computes, before a choice looks for its        *)
(* member, from the visibility, the reverse dependency and the default     *)
(* just found.                                                             *)
NeverByChoice(s, vis) == FALSE              \* mutant: members answer alone
ChosenByChoice(s, vis) == s \in ChoiceValue /\ vis = yes

UsesDefault(s, hasValue, vis, rev) ==
  /\ s \notin Choice /\ ~ChosenByChoice(s, vis)
  /\ ~hasValue \/ (IF IsString(s) THEN vis ELSE EOr(vis, rev)) = no

IgnoreSelect(t, vis, rev) == EAnd(t, vis)   \* mutant: rev_dep is forgotten
Limit(t, vis, rev) == EOr(EAnd(t, vis), rev)

BaseTri(s, u, hasValue, vis, rev, d, curr) ==
  LET own == IF UsesDefault(s, hasValue, vis, rev) THEN DefaultTri(s, d, curr)
             ELSE IF hasValue THEN u.tri ELSE no
  IN CASE ChosenByChoice(s, vis) -> IF curr[ChoiceOf(s)].val = s THEN yes ELSE no
       [] ~ChosenByChoice(s, vis) /\ EOr(vis, rev) # no -> Limit(own, vis, rev)
       [] OTHER -> IF s \in Choice THEN no ELSE own

BaseStr(s, u, hasValue, vis, rev, d, curr) ==
  IF UsesDefault(s, hasValue, vis, rev) THEN DefaultStr(s, d, curr) ELSE u.val

BaseValue(s, u, hasValue, vis, rev, d, curr) ==
  IF IsString(s)
  THEN [tri |-> no, val |-> BaseStr(s, u, hasValue, vis, rev, d, curr)]
  ELSE [tri |-> Promote(IsBoolean(s, vis, curr),
                        BaseTri(s, u, hasValue, vis, rev, d, curr)),
        val |-> NoVal]

(* SYMBOL_WRITE: does the symbol get a line in the configuration file?     *)
NeedsLine(s, vis, rev, d) ==
  LET default == s \notin Choice /\ d <= NumDefaults(s) IN
  IF IsString(s) THEN vis # no \/ default
  ELSE ~ChosenByChoice(s, vis) /\ (EOr(vis, rev) # no \/ default)

-----------------------------------------------------------------------------
(* sym_calc_choice tries the user's member, then the members named by      *)
(* defaults, then all members in the order of the menu.                    *)
Candidates(c, chosen) ==
  (IF chosen \in Sym THEN <<[cond |-> TrueExpr, value |-> chosen]>> ELSE << >>)
  \o Defaults[c]
  \o [i \in 1 .. Len(Members[c]) |-> [cond |-> TrueExpr, value |-> Members[c][i]]]

CandidateHit(k, curr) ==
  /\ EvalExpr(k.cond, curr) # no
  /\ EvalExpr(VisExpr(k.value), curr) # no

IsFirstCandidate(cand, d, curr) ==
  /\ \A j \in 1 .. d - 1 : ~CandidateHit(cand[j], curr)
  /\ d <= Len(cand) => CandidateHit(cand[d], curr)

-----------------------------------------------------------------------------
(* The choices that the theorems are about.                                *)

(* Boolean choices whose members have no defaults and are never visible as *)
(* m, the only kind the menus of this repository have.                     *)
NeverMod(l) ==
  \/ l.op \in {"eq", "ne"}
  \/ l.op = "const" /\ l.arg # mod
  \/ l.op \in {"sym", "not"} /\ Type[l.sym] = "boolean"

PlainChoices ==
  \A c \in Choice :
    /\ Type[c] = "boolean"
    /\ \A v \in MembersOf(c) : /\ Type[v] = "boolean" /\ NumDefaults(v) = 0
                               /\ \A l \in UNION Prompt[v] : NeverMod(l)

(* No menu of this repository has an optional choice.                      *)
RequiredChoices == Choice \cap Optional = {}
=============================================================================
