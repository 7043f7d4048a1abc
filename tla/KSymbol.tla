------------------------------ MODULE KSymbol ------------------------------
(***************************************************************************)
(* The symbol engine of the configuration tools (scripts/kconfig/symbol.c, *)
(* confdata.c) under the front ends that drive it (conf.c, mconf.c).       *)
(*                                                                         *)
(* Every symbol caches its value; SYMBOL_VALID says that the cache may be  *)
(* used.  sym_calc_value is recursive: its activations are modelled one    *)
(* by one, "phase" holding how far each has come, "caller" the activation  *)
(* that waits for it and "top" the running one.  A symbol is marked valid  *)
(* when its calculation starts, as the code does to end recursion.         *)
(*                                                                         *)
(* The front end acts only between two calculations.  SYMBOL_CHANGED and   *)
(* MENU_CHANGED only tell a GUI what to redraw and are left out.           *)
(***************************************************************************)
EXTENDS KconfigFile

CONSTANT
  Loaded     \* what conf_read may leave behind: a set of [user, isNew]

VARIABLES
  user,     \* [Sym -> SymbolValue]  what the user or the file asked for
  isNew,    \* SYMBOL_NEW: the symbols that have no user value
  valid,    \* SYMBOL_VALID
  curr,     \* [Sym -> SymbolValue]  cached value
  visible,  \* [Sym -> Tri]          cached visibility
  revdep,   \* [Sym -> Tri]          cached rev_dep.tri
  write,    \* SYMBOL_WRITE
  phase,    \* [Sym -> Phase]        progress of the symbol's activation
  at,       \* [Sym -> Nat]          its loop index, 0 outside a loop
  caller,   \* [Sym -> Sym or NoSym] the activation it returns to
  top,      \* the running activation, NoSym when none is
  dirty,    \* sym_change_count # 0
  asked     \* (history) the last accepted request, [sym, want]

calls    == <<phase, at, caller, top>>
settings == <<user, isNew, dirty, asked>>
vars == <<settings, valid, curr, visible, revdep, write, calls>>

Phase == {"idle", "visibility", "value", "choice"}
NoRequest == [sym |-> NoSym, want |-> NoVal]
Unset == [tri |-> no, val |-> NoVal]

ASSUME LoadedAssumption ==
  Loaded \subseteq [user : [Sym -> SymbolValue], isNew : SUBSET Sym]

\* symbol_empty.curr or symbol_no.curr, the value seen by a recursive call
Blank(s) == [tri |-> no, val |-> IF IsString(s) THEN EmptyStr ELSE NoVal]

TypeOK ==
  /\ user \in [Sym -> SymbolValue] /\ curr \in [Sym -> SymbolValue]
  /\ isNew \subseteq Sym /\ valid \subseteq Sym /\ write \subseteq Sym
  /\ visible \in [Sym -> Tri] /\ revdep \in [Sym -> Tri]
  /\ phase \in [Sym -> Phase] /\ at \in [Sym -> Nat]
  /\ caller \in [Sym -> Sym \cup {NoSym}] /\ top \in Sym \cup {NoSym}
  /\ dirty \in BOOLEAN
  /\ asked \in [sym : Sym \cup {NoSym}, want : Tri \cup Val]

\* what is printed for a symbol, in the file and on the screen
StringValue(s) == IF IsString(s) THEN curr[s].val ELSE curr[s].tri

-----------------------------------------------------------------------------
(* sym_calc_value(s) called by the activation "by" (NoSym: a front end).   *)
EnterUnmarked(s, by) ==  \* mutant: SYMBOL_VALID is not set on entry
  /\ top' = s
  /\ phase' = [phase EXCEPT ![s] = "visibility"]
  /\ caller' = [caller EXCEPT ![s] = by]
  /\ UNCHANGED <<at, valid, write, curr, visible, revdep>>

Enter(s, by) ==
  /\ s \notin valid
  /\ valid' = valid \cup {s}
  /\ write' = IF s \in ChoiceValue THEN write ELSE write \ {s}
  /\ phase' = [phase EXCEPT ![s] = "visibility"]
  /\ caller' = [caller EXCEPT ![s] = by]
  /\ top' = s
  /\ UNCHANGED <<at, curr, visible, revdep>>

Return(s) ==
  /\ phase' = [phase EXCEPT ![s] = "idle"]
  /\ at' = [at EXCEPT ![s] = 0]
  /\ caller' = [caller EXCEPT ![s] = NoSym]
  /\ top' = caller[s]

(* The symbols whose value the activation of s asks for next.  "at" is the *)
(* index of the loop it is in, over defaults or over candidates: the next  *)
(* condition is evaluated only when those before it have failed.           *)
Default(s) == Defaults[s][at[s]]
Candidate(c) == Candidates(c, user[c].val)[at[c]]
HasValue(s) == s \notin isNew

TakesDefault(s) ==
  UsesDefault(s, HasValue(s), visible[s], revdep[s]) /\ at[s] <= NumDefaults(s)

NoSymbolOf(s, d) == IF IsString(s) THEN {} ELSE ExprSyms(d)  \* mutant
SymbolsOf(s, d) == IF IsString(s) THEN {d} \cap Sym ELSE ExprSyms(d)

DefaultWants(s) ==
  ExprSyms(Default(s).cond) \cup
  IF ExprSyms(Default(s).cond) \subseteq valid /\ DefaultHit(s, at[s], curr)
  THEN SymbolsOf(s, Default(s).value) ELSE {}

TypeWants(s) ==
  IF Type[s] = "tristate" /\ ~ChosenByChoice(s, visible[s])
  THEN {Modules} \cap Sym ELSE {}

MoreCandidates(c) == at[c] <= Len(Candidates(c, user[c].val))

CandidateWants(c) ==
  LET k == Candidate(c) IN
  ExprSyms(k.cond) \cup
  IF ExprSyms(k.cond) \subseteq valid /\ EvalExpr(k.cond, curr) # no
  THEN ExprSyms(VisExpr(k.value)) ELSE {}

VisibilityWants(s) == ExprSyms(VisExpr(s)) \cup
  IF s \in ChoiceValue THEN {} ELSE ExprSyms(RevDepExpr(s))

Wants(s) ==
  CASE phase[s] = "visibility" -> VisibilityWants(s)
    [] phase[s] = "value" ->
         TypeWants(s) \cup IF TakesDefault(s) THEN DefaultWants(s) ELSE {}
    [] phase[s] = "choice" -> IF MoreCandidates(s) THEN CandidateWants(s) ELSE {}
    [] OTHER -> {}

Ready(s, ph) == top = s /\ phase[s] = ph /\ Wants(s) \subseteq valid

Call(s) ==
  /\ top = s
  /\ \E t \in Wants(s) : Enter(t, s)
  /\ UNCHANGED settings

sym_calc_visibility(s) ==
  /\ Ready(s, "visibility")
  /\ visible' = [visible EXCEPT ![s] = EvalExpr(VisExpr(s), curr)]
  /\ revdep' = IF s \in ChoiceValue THEN revdep
               ELSE [revdep EXCEPT ![s] = EvalExpr(RevDepExpr(s), curr)]
  /\ curr' = [curr EXCEPT ![s] = Blank(s)]
  /\ phase' = [phase EXCEPT ![s] = "value"]
  /\ at' = [at EXCEPT ![s] = 1]
  /\ UNCHANGED <<valid, write, caller, top, settings>>

(* sym_get_default_prop goes on to the next default.                       *)
NextDefault(s) ==
  /\ Ready(s, "value")
  /\ TakesDefault(s) /\ ~DefaultHit(s, at[s], curr)
  /\ at' = [at EXCEPT ![s] = @ + 1]
  /\ UNCHANGED <<valid, curr, visible, revdep, write, phase, caller, top, settings>>

(* The members of a choice inherit its SYMBOL_WRITE.                       *)
Inherit(s, w) == w \cup (IF s \in Choice \cap w THEN MembersOf(s) ELSE {})

sym_calc_value(s) ==
  LET new == BaseValue(s, user[s], HasValue(s), visible[s], revdep[s], at[s], curr)
      bool == ~IsString(s) /\ IsBoolean(s, visible[s], curr)
      line == NeedsLine(s, visible[s], revdep[s], at[s])
      w == IF line THEN write \cup {s} ELSE write
  IN
  /\ Ready(s, "value")
  /\ TakesDefault(s) => DefaultHit(s, at[s], curr)
  /\ curr' = [curr EXCEPT ![s] = new]
  /\ visible' = [visible EXCEPT ![s] = Promote(bool, @)]
  /\ revdep' = [revdep EXCEPT ![s] = Promote(bool, @)]
  /\ IF s \in Choice /\ new.tri = yes
     THEN /\ phase' = [phase EXCEPT ![s] = "choice"]
          /\ at' = [at EXCEPT ![s] = 1]
          /\ write' = w
          /\ UNCHANGED <<caller, top>>
     ELSE /\ write' = Inherit(s, w)
          /\ Return(s)
  /\ UNCHANGED <<valid, settings>>

(* sym_calc_visibility of the candidate of choice c, when it is tried.     *)
CandidateVisible(c) ==
  IF EvalExpr(Candidate(c).cond, curr) = no THEN visible
  ELSE [visible EXCEPT ![Candidate(c).value] = EvalExpr(VisExpr(Candidate(c).value), curr)]

NextCandidate(c) ==
  /\ Ready(c, "choice")
  /\ MoreCandidates(c) /\ ~CandidateHit(Candidate(c), curr)
  /\ visible' = CandidateVisible(c)
  /\ at' = [at EXCEPT ![c] = @ + 1]
  /\ UNCHANGED <<valid, curr, revdep, write, phase, caller, top, settings>>

sym_calc_choice(c) ==
  /\ Ready(c, "choice")
  /\ MoreCandidates(c) => CandidateHit(Candidate(c), curr)
  /\ IF MoreCandidates(c)
     THEN /\ visible' = CandidateVisible(c)
          /\ curr' = [curr EXCEPT ![c] = [tri |-> yes, val |-> Candidate(c).value]]
     ELSE /\ curr' = [curr EXCEPT ![c] = [tri |-> no, val |-> NoVal]]
          /\ UNCHANGED visible
  /\ write' = Inherit(c, write)
  /\ Return(c)
  /\ UNCHANGED <<valid, revdep, settings>>

Engine == \E s \in Sym :
  \/ Call(s) \/ sym_calc_visibility(s) \/ NextDefault(s) \/ sym_calc_value(s)
  \/ NextCandidate(s) \/ sym_calc_choice(s)

-----------------------------------------------------------------------------
(* The front ends.  They show a symbol (menu_is_visible calculates it)     *)
(* before they let the user change it, and change it between calculations. *)
AtRest == top = NoSym

menu_is_visible(s) == AtRest /\ Enter(s, NoSym) /\ UNCHANGED settings

CountOnly == valid' = valid /\ dirty' = TRUE  \* mutant: the flags stay
sym_clear_all_valid == valid' = {} /\ dirty' = TRUE

AboveSelect(s, v) == visible[s] # no /\ revdep[s] <= v  \* mutant: no upper limit

sym_tristate_within_range(s, v) ==
  /\ visible[s] # no
  /\ ~(IsBoolean(s, visible[s], curr) /\ v = mod)
  /\ visible[s] > revdep[s]
  /\ IF ChosenByChoice(s, visible[s]) THEN v = yes
     ELSE revdep[s] <= v /\ v <= visible[s]

Setting(s, v) ==
  IF s \in ChoiceValue /\ v = yes
  THEN [user EXCEPT ![s].tri = v, ![ChoiceOf(s)].val = s]
  ELSE [user EXCEPT ![s].tri = v]

(* conf_sym and the keys of menuconfig.  A symbol that may not be changed  *)
(* is set to the value it has.                                             *)
sym_set_tristate_value(s, v) ==
  /\ AtRest /\ s \in valid /\ ~IsString(s)
  /\ visible[s] # no \/ curr[s].tri # no
  /\ curr[s].tri = v \/ sym_tristate_within_range(s, v)
  /\ user' = Setting(s, v)
  /\ isNew' = isNew \ ({s} \cup IF s \in ChoiceValue /\ v = yes THEN {ChoiceOf(s)} ELSE {})
  /\ IF curr[s].tri # v THEN sym_clear_all_valid ELSE UNCHANGED <<valid, dirty>>
  /\ asked' = [sym |-> s, want |-> v]
  /\ UNCHANGED <<curr, visible, revdep, write, calls>>

AnyString(s, str) == str \in Str  \* mutant: the value is not checked
sym_string_within_range(s, str) == str \in Allowed[s]

(* conf_string.  The comparison with the old setting ignores SYMBOL_NEW.   *)
sym_set_string_value(s, str) ==
  /\ AtRest /\ s \in valid /\ IsString(s)
  /\ visible[s] # no
  /\ sym_string_within_range(s, str)
  /\ isNew' = isNew \ {s}
  /\ user' = [user EXCEPT ![s].val = str]
  /\ IF user[s].val # str THEN sym_clear_all_valid ELSE UNCHANGED <<valid, dirty>>
  /\ asked' = [sym |-> s, want |-> str]
  /\ UNCHANGED <<curr, visible, revdep, write, calls>>

FrontEnd == \E s \in Sym :
  \/ menu_is_visible(s)
  \/ \E v \in Tri : sym_set_tristate_value(s, v)
  \/ \E str \in Str : sym_set_string_value(s, str)

CacheInit ==
  /\ valid = {} /\ write = {}
  /\ curr = [s \in Sym |-> Unset]
  /\ visible = [s \in Sym |-> no] /\ revdep = [s \in Sym |-> no]
  /\ phase = [s \in Sym |-> "idle"] /\ at = [s \in Sym |-> 0]
  /\ caller = [s \in Sym |-> NoSym] /\ top = NoSym
  /\ asked = NoRequest

Init ==
  /\ CacheInit
  /\ \E l \in Loaded : user = l.user /\ isNew = l.isNew
  /\ dirty = TRUE

Next == Engine \/ FrontEnd

(* A calculation is plain C code: once called it runs.                     *)
Spec == Init /\ [][Next]_vars /\ WF_vars(Engine)

-----------------------------------------------------------------------------
(* Properties.                                                             *)
Settled(s) == s \in valid /\ phase[s] = "idle"

(* The value a symbol has when its definition is applied to the values of  *)
(* the others: what a calculation from scratch would find.                 *)
TrueVisible(s) == EvalExpr(VisExpr(s), curr)
TrueRevDep(s) == IF s \in ChoiceValue THEN no ELSE EvalExpr(RevDepExpr(s), curr)

TrueBase(s) ==
  BaseValue(s, user[s], HasValue(s), TrueVisible(s), TrueRevDep(s),
            FirstDefault(s, curr), curr)

\* what the choice holds while its members are tried
Open(c) == [curr EXCEPT ![c] = [tri |-> yes, val |-> NoVal]]

TrueMember(c) ==
  LET cand == Candidates(c, user[c].val)
      d == CHOOSE i \in 1 .. Len(cand) + 1 : IsFirstCandidate(cand, i, Open(c))
  IN IF d <= Len(cand) THEN cand[d].value ELSE NoVal

TrueValue(s) ==
  IF s \in Choice /\ TrueBase(s).tri = yes
  THEN [tri |-> IF TrueMember(s) = NoVal THEN no ELSE yes, val |-> TrueMember(s)]
  ELSE TrueBase(s)

(* A value that is marked valid is never stale: it equals what the user's  *)
(* settings and the values of the other symbols determine.  About the      *)
(* places that clear SYMBOL_VALID, and those that change a setting without *)
(* doing so (symbol.c:389-394, 532-551).                                   *)
CacheCoherent == \A s \in Sym : Settled(s) => curr[s] = TrueValue(s)

(* What the user asked for and the tool accepted is the value the symbol   *)
(* has the next time it is shown.                                          *)
RequestHonoured ==
  (asked # NoRequest /\ Settled(asked.sym)) => StringValue(asked.sym) = asked.want

(* A choice that is y has exactly one member that is y, the chosen one; a  *)
(* choice that is m has none.                                              *)
ChoiceExclusive ==
  \A c \in Choice :
    (Settled(c) /\ \A v \in MembersOf(c) : Settled(v)) =>
      {v \in MembersOf(c) : curr[v].tri = yes}
        = IF curr[c].tri = yes THEN {curr[c].val} ELSE {}

(* A symbol's value stays between what others select it to and, unless it  *)
(* is hidden and takes its default, what its dependencies allow.           *)
WithinBounds ==
  \A s \in Sym : (Settled(s) /\ ~IsString(s) /\ s \notin Choice) =>
    /\ revdep[s] <= curr[s].tri
    /\ visible[s] # no => curr[s].tri <= EOr(visible[s], revdep[s])

(* Every calculation returns, whatever the dependencies refer to.          *)
CalculationEnds == (top # NoSym) ~> (top = NoSym)

-----------------------------------------------------------------------------
(* The files and settings the theorems are about.                          *)

\* every symbol a calculation of s may ask for, its own choice included
CondSyms(s) == UNION {ExprSyms(Defaults[s][d].cond) : d \in 1 .. NumDefaults(s)}
DefaultSyms(s) == UNION {SymbolsOf(s, Defaults[s][d].value) : d \in 1 .. NumDefaults(s)}
PromptSyms(c) == UNION {ExprSyms(Prompt[v]) : v \in MembersOf(c)}
DependsOn(s) ==
  VisibilityWants(s) \cup CondSyms(s)
  \cup (IF Type[s] = "tristate" THEN {Modules} \cap Sym ELSE {})
  \cup (IF s \in Choice THEN PromptSyms(s) ELSE DefaultSyms(s))

Acyclic(Rank) == \A s \in Sym : \A t \in DependsOn(s) : Rank[t] < Rank[s]

(* A choice was told of one of its members, and a string that counts as    *)
(* new has no stored answer.                                               *)
ProperLoaded == \A l \in Loaded :
  /\ \A c \in Choice : l.user[c].val \in Sym => l.user[c].val \in MembersOf(c)
  /\ \A s \in l.isNew : IsString(s) => l.user[s].val \notin Str
=============================================================================
