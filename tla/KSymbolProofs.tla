--------------------------- MODULE KSymbolProofs ----------------------------
(***************************************************************************)
(* What holds of the symbol engine for every file without circular         *)
(* dependencies whose choices are plain: a cached value is never stale, a  *)
(* choice that is y has one member, values are within their limits,        *)
(* requests are honoured, and the cache does not show: KSymbol implements  *)
(* KValues.                                                                *)
(***************************************************************************)
EXTENDS KUncached, KconfigProofs

USE DEF no, mod, yes, Tri

-----------------------------------------------------------------------------
(* A calculation asks only for symbols.                                    *)
TypeInv ==
  /\ TypeOK
  /\ \A s \in Sym : phase[s] = "choice" => s \in Choice
  /\ \A s \in Sym : phase[s] \in {"value", "choice"} => at[s] >= 1

LEMMA WantsType ==
  ASSUME TypeInv, NEW s \in Sym
  PROVE  Wants(s) \subseteq Sym
<1> USE DEF TypeInv, TypeOK
<1>1. CASE phase[s] = "visibility"
  <2>1. Wants(s) = VisibilityWants(s)
    BY <1>1 DEF Wants
  <2> QED
    BY <2>1, VisExprType, RevDepExprType, ExprSymsType DEF VisibilityWants
<1>2. CASE phase[s] = "value"
  <2>1. Wants(s) = TypeWants(s) \cup IF TakesDefault(s) THEN DefaultWants(s) ELSE {}
    BY <1>2 DEF Wants
  <2>2. TypeWants(s) \subseteq Sym
    BY DEF TypeWants
  <2>3. ASSUME TakesDefault(s) PROVE DefaultWants(s) \subseteq Sym
    <3>1. at[s] \in 1 .. NumDefaults(s)
      BY <1>2, <2>3, DefaultsType DEF TakesDefault
    <3>2. Default(s) \in DefaultProp
      BY <3>1, DefaultsType DEF Default
    <3>3. ExprSyms(Default(s).cond) \subseteq Sym
      BY <3>2, ExprSymsType DEF DefaultProp
    <3>4. SymbolsOf(s, Default(s).value) \subseteq Sym
      <4>1. CASE IsString(s)
        BY <4>1 DEF SymbolsOf
      <4>2. CASE ~IsString(s)
        <5>1. s \notin Choice
          BY <2>3 DEF TakesDefault, UsesDefault
        <5>2. Default(s).value \in Expr
          BY <3>1, <4>2, <5>1, DefaultsType DEF Default
        <5> QED
          BY <4>2, <5>2, ExprSymsType DEF SymbolsOf
      <4> QED
        BY <4>1, <4>2
    <3> QED
      BY <3>3, <3>4 DEF DefaultWants
  <2> QED
    BY <2>1, <2>2, <2>3
<1>3. CASE phase[s] = "choice"
  <2>1. Wants(s) = IF MoreCandidates(s) THEN CandidateWants(s) ELSE {}
    BY <1>3 DEF Wants
  <2>2. ASSUME MoreCandidates(s) PROVE CandidateWants(s) \subseteq Sym
    <3>1. at[s] \in 1 .. Len(Candidates(s, user[s].val))
      BY <1>3, <2>2, CandidatesType DEF MoreCandidates
    <3>2. Candidate(s).cond \in Expr /\ Candidate(s).value \in Sym
      BY <1>3, <3>1, CandidatesType DEF Candidate
    <3> QED
      BY <3>2, ExprSymsType, VisExprType DEF CandidateWants
  <2> QED
    BY <2>1, <2>2
<1>4. CASE phase[s] = "idle"
  BY <1>4 DEF Wants
<1> QED
  BY <1>1, <1>2, <1>3, <1>4 DEF Phase

-----------------------------------------------------------------------------
(* Every step keeps the types.                                             *)
LEMMA TypeInit == Init => TypeInv
<1> SUFFICES ASSUME Init PROVE TypeInv
  OBVIOUS
<1>1. PICK l \in Loaded : user = l.user /\ isNew = l.isNew
  BY DEF Init
<1>2. user \in [Sym -> SymbolValue] /\ isNew \subseteq Sym
  BY <1>1, LoadedAssumption DEF LoadedAssumption
<1>3. Unset \in SymbolValue
  BY DEF Unset, SymbolValue, Val
<1> QED
  BY <1>2, <1>3 DEF Init, CacheInit, TypeInv, TypeOK, Phase, NoRequest, Val

LEMMA EnterType ==
  ASSUME TypeInv, NEW s \in Sym, NEW by \in Sym \cup {NoSym},
         Enter(s, by), UNCHANGED settings
  PROVE  TypeInv'
<1> USE DEF TypeInv, TypeOK, Enter, settings
<1>1. phase' \in [Sym -> Phase]
  BY DEF Phase
<1>2. write' \subseteq Sym
  OBVIOUS
<1>3. \A t \in Sym : phase'[t] # "visibility" => phase'[t] = phase[t]
  OBVIOUS
<1> QED
  BY <1>1, <1>2, <1>3

LEMMA CallType ==
  ASSUME TypeInv, NEW s \in Sym, Call(s)
  PROVE  TypeInv'
<1>1. PICK t \in Wants(s) : Enter(t, s)
  BY DEF Call
<1>2. t \in Sym
  BY WantsType
<1> QED
  BY <1>1, <1>2, EnterType DEF Call

LEMMA VisibilityType ==
  ASSUME TypeInv, NEW s \in Sym, sym_calc_visibility(s)
  PROVE  TypeInv'
<1> USE DEF TypeInv, TypeOK, sym_calc_visibility, settings
<1>1. visible' \in [Sym -> Tri] /\ revdep' \in [Sym -> Tri]
  BY EvalType
<1>2. curr' \in [Sym -> SymbolValue]
  BY FileAssumption DEF Blank, SymbolValue, Val, FileAssumption
<1>3. phase' \in [Sym -> Phase] /\ at' \in [Sym -> Nat]
  BY DEF Phase
<1>4. \A t \in Sym \ {s} : phase'[t] = phase[t] /\ at'[t] = at[t]
  OBVIOUS
<1>5. phase'[s] = "value" /\ at'[s] = 1
  OBVIOUS
<1> QED
  BY <1>1, <1>2, <1>3, <1>4, <1>5

LEMMA NextDefaultType ==
  ASSUME TypeInv, NEW s \in Sym, NextDefault(s)
  PROVE  TypeInv'
  BY DEF TypeInv, TypeOK, NextDefault, Ready, settings

LEMMA ReturnType ==
  ASSUME TypeInv, NEW s \in Sym, Return(s)
  PROVE  /\ phase' \in [Sym -> Phase] /\ at' \in [Sym -> Nat]
         /\ caller' \in [Sym -> Sym \cup {NoSym}] /\ top' \in Sym \cup {NoSym}
         /\ phase'[s] = "idle"
         /\ \A t \in Sym \ {s} : phase'[t] = phase[t] /\ at'[t] = at[t]
  BY DEF TypeInv, TypeOK, Return, Phase

LEMMA InheritType ==
  ASSUME NEW s \in Sym, NEW w \in SUBSET Sym
  PROVE  Inherit(s, w) \subseteq Sym
  BY MembersType DEF Inherit

LEMMA ValueType ==
  ASSUME TypeInv, NEW s \in Sym, sym_calc_value(s)
  PROVE  TypeInv'
<1> DEFINE new == BaseValue(s, user[s], HasValue(s), visible[s], revdep[s], at[s], curr)
           line == NeedsLine(s, visible[s], revdep[s], at[s])
           w == IF line THEN write \cup {s} ELSE write
<1> HIDE DEF new, line
<1> USE DEF TypeInv, TypeOK
<1>1. phase[s] = "value"
  BY DEF sym_calc_value, Ready
<1>2. new \in SymbolValue
  <2>1. at[s] \in Nat \ {0} /\ HasValue(s) \in BOOLEAN
    BY <1>1 DEF HasValue
  <2>2. /\ user[s] \in SymbolValue /\ visible[s] \in Tri /\ revdep[s] \in Tri
        /\ curr \in [Sym -> SymbolValue]
    OBVIOUS
  <2> HIDE DEF TypeInv, TypeOK
  <2> QED
    BY <2>1, <2>2, BaseValueType DEF new
<1>3. w \in SUBSET Sym
  OBVIOUS
<1>4. curr' \in [Sym -> SymbolValue]
  BY <1>2 DEF sym_calc_value, new
<1>5. visible' \in [Sym -> Tri] /\ revdep' \in [Sym -> Tri]
  BY DEF sym_calc_value, Promote
<1>6. UNCHANGED <<valid, user, isNew, dirty, asked>>
  BY DEF sym_calc_value, settings
<1>7. CASE s \in Choice /\ new.tri = yes
  <2>1. /\ phase' = [phase EXCEPT ![s] = "choice"]
        /\ at' = [at EXCEPT ![s] = 1]
        /\ write' = w
        /\ UNCHANGED <<caller, top>>
    BY <1>7 DEF sym_calc_value, new, line
  <2> QED
    BY <1>3, <1>4, <1>5, <1>6, <1>7, <2>1 DEF Phase
<1>8. CASE ~(s \in Choice /\ new.tri = yes)
  <2>1. write' = Inherit(s, w) /\ Return(s)
    BY <1>8 DEF sym_calc_value, new, line
  <2>2. write' \subseteq Sym
    BY <1>3, <2>1, InheritType
  <2> QED
    BY <1>4, <1>5, <1>6, <2>1, <2>2, ReturnType
<1> QED
  BY <1>7, <1>8

LEMMA CandidateVisibleType ==
  ASSUME TypeInv, NEW c \in Sym
  PROVE  CandidateVisible(c) \in [Sym -> Tri]
  BY EvalType DEF TypeInv, TypeOK, CandidateVisible

LEMMA NextCandidateType ==
  ASSUME TypeInv, NEW c \in Sym, NextCandidate(c)
  PROVE  TypeInv'
  BY CandidateVisibleType DEF TypeInv, TypeOK, NextCandidate, Ready, settings

LEMMA ChoiceType ==
  ASSUME TypeInv, NEW c \in Sym, sym_calc_choice(c)
  PROVE  TypeInv'
<1> USE DEF TypeInv, TypeOK
<1>1. phase[c] = "choice" /\ c \in Choice
  BY DEF sym_calc_choice, Ready
<1>2. MoreCandidates(c) => Candidate(c).value \in Sym
  <2>1. MoreCandidates(c) => at[c] \in 1 .. Len(Candidates(c, user[c].val))
    BY <1>1, CandidatesType DEF MoreCandidates
  <2> QED
    BY <1>1, <2>1, CandidatesType DEF Candidate
<1>3. curr' \in [Sym -> SymbolValue]
  BY <1>2 DEF sym_calc_choice, SymbolValue, Val
<1>4. visible' \in [Sym -> Tri]
  BY CandidateVisibleType DEF sym_calc_choice
<1>5. write' \subseteq Sym
  BY InheritType DEF sym_calc_choice
<1>6. Return(c) /\ UNCHANGED <<valid, revdep, user, isNew, dirty, asked>>
  BY DEF sym_calc_choice, settings
<1> QED
  BY <1>3, <1>4, <1>5, <1>6, ReturnType

LEMMA FrontEndType ==
  ASSUME TypeInv, FrontEnd
  PROVE  TypeInv'
<1>1. ASSUME NEW s \in Sym, menu_is_visible(s)
      PROVE  TypeInv'
  BY <1>1, EnterType DEF menu_is_visible
<1>2. ASSUME NEW s \in Sym, NEW v \in Tri, sym_set_tristate_value(s, v)
      PROVE  TypeInv'
  <2> USE DEF TypeInv, TypeOK
  <2>1. user' \in [Sym -> SymbolValue]
    <3>1. CASE s \in ChoiceValue /\ v = yes
      <4>1. ChoiceOf(s) \in Sym
        BY <3>1, ChoiceOfType, FileAssumption DEF FileAssumption
      <4> QED
        BY <1>2, <3>1, <4>1 DEF sym_set_tristate_value, Setting, SymbolValue, Val
    <3>2. CASE ~(s \in ChoiceValue /\ v = yes)
      BY <1>2, <3>2 DEF sym_set_tristate_value, Setting, SymbolValue
    <3> QED
      BY <3>1, <3>2
  <2>2. isNew' \subseteq Sym /\ valid' \subseteq Sym /\ dirty' \in BOOLEAN
    BY <1>2 DEF sym_set_tristate_value, sym_clear_all_valid
  <2>3. asked' \in [sym : Sym \cup {NoSym}, want : Tri \cup Val]
    BY <1>2 DEF sym_set_tristate_value
  <2> QED
    BY <1>2, <2>1, <2>2, <2>3 DEF sym_set_tristate_value, calls
<1>3. ASSUME NEW s \in Sym, NEW str \in Str, sym_set_string_value(s, str)
      PROVE  TypeInv'
  <2> USE DEF TypeInv, TypeOK
  <2>1. user' \in [Sym -> SymbolValue]
    BY <1>3 DEF sym_set_string_value, SymbolValue, Val
  <2>2. isNew' \subseteq Sym /\ valid' \subseteq Sym /\ dirty' \in BOOLEAN
    BY <1>3 DEF sym_set_string_value, sym_clear_all_valid
  <2>3. asked' \in [sym : Sym \cup {NoSym}, want : Tri \cup Val]
    BY <1>3 DEF sym_set_string_value, Val
  <2> QED
    BY <1>3, <2>1, <2>2, <2>3 DEF sym_set_string_value, calls
<1> QED
  BY <1>1, <1>2, <1>3 DEF FrontEnd

LEMMA TypeStep == TypeInv /\ [Next]_vars => TypeInv'
<1> SUFFICES ASSUME TypeInv, [Next]_vars PROVE TypeInv'
  OBVIOUS
<1>1. CASE Engine
  <2>1. PICK s \in Sym : \/ Call(s) \/ sym_calc_visibility(s) \/ NextDefault(s)
                         \/ sym_calc_value(s) \/ NextCandidate(s) \/ sym_calc_choice(s)
    BY <1>1 DEF Engine
  <2> QED
    BY <2>1, CallType, VisibilityType, NextDefaultType, ValueType,
       NextCandidateType, ChoiceType
<1>2. CASE FrontEnd
  BY <1>2, FrontEndType
<1>3. CASE UNCHANGED vars
  BY <1>3 DEF vars, settings, calls, TypeInv, TypeOK
<1> QED
  BY <1>1, <1>2, <1>3 DEF Next

(* Every variable keeps its type, for every finalized Kconfig file and     *)
(* every configuration that was loaded.  In particular a calculation only  *)
(* ever enters symbols, and a choice only ever holds one of them           *)
(* (symbol.c:145-320).                                                     *)
THEOREM TypeCorrect == Spec => []TypeOK
<1>1. Spec => []TypeInv
  BY TypeInit, TypeStep, PTL DEF Spec
<1>2. TypeInv => TypeOK
  BY DEF TypeInv
<1> QED
  BY <1>1, <1>2, PTL

-----------------------------------------------------------------------------
(***************************************************************************)
(* When is a cached value right?  "Sound" says which values a symbol was   *)
(* calculated from: all it looked at is in the set S of settled symbols    *)
(* and gives its value.  A sound symbol stays sound while the settled      *)
(* symbols keep their values and when it is set to the value it has, and   *)
(* its value is the one a calculation from scratch would find.             *)
(***************************************************************************)

DefaultTaken(s, d, C, S) ==
  /\ \A j \in 1 .. d - 1 : DefaultTried(s, j, C, S)
  /\ d <= NumDefaults(s) =>
       /\ ExprSyms(Defaults[s][d].cond) \subseteq S
       /\ DefaultHit(s, d, C)
       /\ SymbolsOf(s, Defaults[s][d].value) \subseteq S

PlainSound(s, U, N, C, S) ==
  /\ VisibilityWants(s) \subseteq S /\ TypeSyms(s, C) \subseteq S
  /\ \E d \in 1 .. NumDefaults(s) + 1 :
       /\ C[s] = Base(s, U, N, C, d)
       /\ Uses(s, N, C) => DefaultTaken(s, d, C, S)

ChoiceSound(c, U, N, C, S) ==
  /\ VisibilityWants(c) \subseteq S
  /\ IF Base(c, U, N, C, 1).tri = yes THEN MemberFound(c, U, C, S)
     ELSE C[c] = Base(c, U, N, C, 1)

Sound(s, U, N, C, S) ==
  IF s \in Choice THEN ChoiceSound(s, U, N, C, S) ELSE PlainSound(s, U, N, C, S)

(* An activation that has calculated the visibility, and tried the         *)
(* defaults before "a".                                                    *)
ValueSound(s, N, C, S, vis, rev, a) ==
  /\ VisibilityWants(s) \subseteq S
  /\ vis = Vis(s, C) /\ rev = Rev(s, C)
  /\ a <= NumDefaults(s) + 1
  /\ Uses(s, N, C) => \A j \in 1 .. a - 1 : DefaultTried(s, j, C, S)

(* A choice that is yes and has tried the candidates before "a".           *)
TryingSound(c, U, N, C, S, a) ==
  /\ VisibilityWants(c) \subseteq S
  /\ Base(c, U, N, C, 1).tri = yes
  /\ C[c] = [tri |-> yes, val |-> NoVal]
  /\ a <= Len(Candidates(c, U[c].val)) + 1
  /\ \A j \in 1 .. a - 1 :
       /\ CandidateSeen(Candidates(c, U[c].val)[j], C, S)
       /\ ~CandidateHit(Candidates(c, U[c].val)[j], C)

-----------------------------------------------------------------------------
(* The visibility, the reverse dependency and the base value stay when     *)
(* what they were calculated from stays.                                   *)
LEMMA VisSame ==
  ASSUME NEW s \in Sym, NEW C, NEW C2, NEW S,
         VisibilityWants(s) \subseteq S, Agree(S, C, C2)
  PROVE  Vis(s, C) = Vis(s, C2) /\ Rev(s, C) = Rev(s, C2)
<1>1. ExprSyms(VisExpr(s)) \subseteq S
  BY DEF VisibilityWants
<1>2. s \notin ChoiceValue => ExprSyms(RevDepExpr(s)) \subseteq S
  BY DEF VisibilityWants
<1> QED
  BY <1>1, <1>2, Footprint DEF Vis, Rev

LEMMA DefaultSame ==
  ASSUME NEW s \in Sym, NEW d \in Nat \ {0}, NEW C, NEW C2, NEW S,
         s \notin Choice,
         d <= NumDefaults(s) => SymbolsOf(s, Defaults[s][d].value) \subseteq S,
         Agree(S, C, C2)
  PROVE  /\ ~IsString(s) => DefaultTri(s, d, C) = DefaultTri(s, d, C2)
         /\ IsString(s) => DefaultStr(s, d, C) = DefaultStr(s, d, C2)
<1>1. ~IsString(s) => DefaultTri(s, d, C) = DefaultTri(s, d, C2)
  BY Footprint DEF DefaultTri, SymbolsOf
<1>2. IsString(s) => DefaultStr(s, d, C) = DefaultStr(s, d, C2)
  <2> SUFFICES ASSUME IsString(s) PROVE DefaultStr(s, d, C) = DefaultStr(s, d, C2)
    OBVIOUS
  <2>1. NumDefaults(s) \in Nat
    BY DefaultsType
  <2>2. CASE d > NumDefaults(s)
    BY <2>2 DEF DefaultStr
  <2>3. CASE d <= NumDefaults(s)
    <3>1. Defaults[s][d].value \in Sym => C[Defaults[s][d].value] = C2[Defaults[s][d].value]
      BY <2>3 DEF SymbolsOf, Agree
    <3> QED
      BY <2>1, <2>3, <3>1 DEF DefaultStr
  <2> QED
    BY <2>1, <2>2, <2>3
<1> QED
  BY <1>1, <1>2

LEMMA BaseSame ==
  ASSUME NEW s \in Sym, NEW d \in Nat \ {0}, NEW S,
         NEW U, NEW N, NEW C, NEW U2, NEW N2, NEW C2,
         SameSetting(s, U, N, U2, N2), Agree(S, C, C2),
         VisibilityWants(s) \subseteq S, TypeSyms(s, C) \subseteq S,
         Uses(s, N, C) /\ d <= NumDefaults(s)
           => SymbolsOf(s, Defaults[s][d].value) \subseteq S
  PROVE  Base(s, U2, N2, C2, d) = Base(s, U, N, C, d)
<1> DEFINE vis == Vis(s, C)
           rev == Rev(s, C)
           has == s \notin N
<1>1. Vis(s, C2) = vis /\ Rev(s, C2) = rev
  BY VisSame
<1>2. IsBoolean(s, vis, C) = IsBoolean(s, vis, C2)
  BY BooleanSame DEF TypeSyms, Agree
<1>3. ASSUME UsesDefault(s, has, vis, rev)
      PROVE  /\ ~IsString(s) => DefaultTri(s, d, C) = DefaultTri(s, d, C2)
             /\ IsString(s) => DefaultStr(s, d, C) = DefaultStr(s, d, C2)
  <2>1. s \notin Choice
    BY <1>3 DEF UsesDefault
  <2>2. d <= NumDefaults(s) => SymbolsOf(s, Defaults[s][d].value) \subseteq S
    BY <1>3 DEF Uses
  <2> QED
    BY <2>1, <2>2, DefaultSame
<1>4. ASSUME ChosenByChoice(s, vis) PROVE C[ChoiceOf(s)] = C2[ChoiceOf(s)]
  <2>1. s \in ChoiceValue /\ vis # no
    BY <1>4 DEF ChosenByChoice
  <2>2. ChoiceOf(s) \in ExprSyms(VisExpr(s))
    BY <2>1, MemberAsksChoice
  <2> QED
    BY <2>2 DEF VisibilityWants, Agree
<1>5. (s \notin N2) = has /\ U2[s] = U[s]
  BY DEF SameSetting, SameNew
<1>6. CASE IsString(s)
  BY <1>1, <1>3, <1>5, <1>6 DEF Base, BaseValue, BaseStr
<1>7. CASE ~IsString(s)
  <2>1. BaseTri(s, U[s], has, vis, rev, d, C) = BaseTri(s, U[s], has, vis, rev, d, C2)
    BY <1>3, <1>4, <1>7 DEF BaseTri
  <2> QED
    BY <1>1, <1>2, <1>5, <1>7, <2>1 DEF Base, BaseValue
<1> QED
  BY <1>6, <1>7

-----------------------------------------------------------------------------
(* A symbol stays sound while the settled symbols keep their values and    *)
(* its own setting stays.                                                  *)
LEMMA UsesSame ==
  ASSUME NEW s \in Sym, NEW N, NEW C, NEW N2, NEW C2, NEW S,
         SameNew(s, N, N2), VisibilityWants(s) \subseteq S, Agree(S, C, C2)
  PROVE  Uses(s, N2, C2) = Uses(s, N, C)
<1>1. Vis(s, C) = Vis(s, C2) /\ Rev(s, C) = Rev(s, C2)
  BY VisSame
<1>2. (s \notin N2) = (s \notin N)
  BY DEF SameNew
<1> QED
  BY <1>1, <1>2 DEF Uses

LEMMA TakenSame ==
  ASSUME NEW s, NEW d, NEW C, NEW C2, NEW S, NEW S2 , S \subseteq S2,
         Agree(S, C, C2), DefaultTaken(s, d, C, S)
  PROVE  DefaultTaken(s, d, C2, S2)
<1>1. \A j \in 1 .. d - 1 : DefaultTried(s, j, C2, S2)
  BY TriedSame DEF DefaultTaken
<1>2. ASSUME d <= NumDefaults(s)
      PROVE  /\ ExprSyms(Defaults[s][d].cond) \subseteq S2
             /\ DefaultHit(s, d, C2)
             /\ SymbolsOf(s, Defaults[s][d].value) \subseteq S2
  <2>1. EvalExpr(Defaults[s][d].cond, C) = EvalExpr(Defaults[s][d].cond, C2)
    BY <1>2, Footprint DEF DefaultTaken
  <2> QED
    BY <1>2, <2>1 DEF DefaultTaken, DefaultHit
<1> QED
  BY <1>1, <1>2 DEF DefaultTaken

LEMMA PlainSame ==
  ASSUME NEW s \in Sym, NEW U, NEW N, NEW C, NEW U2, NEW N2, NEW C2, NEW S, NEW S2,
         S \subseteq S2, Agree(S, C, C2), C[s] = C2[s],
         SameSetting(s, U, N, U2, N2), PlainSound(s, U, N, C, S)
  PROVE  PlainSound(s, U2, N2, C2, S2)
<1>1. PICK d \in 1 .. NumDefaults(s) + 1 :
        /\ C[s] = Base(s, U, N, C, d)
        /\ Uses(s, N, C) => DefaultTaken(s, d, C, S)
  BY DEF PlainSound
<1>2. VisibilityWants(s) \subseteq S /\ TypeSyms(s, C) \subseteq S
  BY DEF PlainSound
<1>3. Vis(s, C) = Vis(s, C2)
  BY <1>2, VisSame
<1>4. Uses(s, N2, C2) = Uses(s, N, C)
  BY <1>2, UsesSame DEF SameSetting
<1>5. Base(s, U2, N2, C2, d) = Base(s, U, N, C, d)
  <2>1. Uses(s, N, C) /\ d <= NumDefaults(s)
          => SymbolsOf(s, Defaults[s][d].value) \subseteq S
    BY <1>1 DEF DefaultTaken
  <2>2. d \in Nat \ {0}
    BY DefaultsType
  <2> QED
    BY <1>2, <2>1, <2>2, BaseSame
<1>6. Uses(s, N2, C2) => DefaultTaken(s, d, C2, S2)
  BY <1>1, <1>4, TakenSame
<1> QED
  BY <1>1, <1>2, <1>3, <1>5, <1>6 DEF PlainSound, TypeSyms

(* The value of a choice, before it looks for its member, needs no default *)
(* and only the symbols its visibility needs.                              *)
LEMMA ChoiceBase ==
  ASSUME NEW c \in Choice, Type[c] = "boolean",
         NEW U, NEW N, NEW C, NEW U2, NEW N2, NEW C2, NEW S,
         SameSetting(c, U, N, U2, N2), Agree(S, C, C2),
         VisibilityWants(c) \subseteq S, NEW d, NEW d2
  PROVE  Base(c, U2, N2, C2, d2) = Base(c, U, N, C, d)
<1>1. c \in Sym /\ c \notin ChoiceValue /\ ~IsString(c)
  BY FileAssumption, TypesAssumption DEF FileAssumption, TypesAssumption
<1>2. Vis(c, C) = Vis(c, C2) /\ Rev(c, C) = Rev(c, C2)
  BY <1>1, VisSame
<1>3. (c \notin N2) = (c \notin N) /\ U2[c] = U[c]
  BY DEF SameSetting, SameNew
<1>4. IsBoolean(c, Vis(c, C), C) /\ IsBoolean(c, Vis(c, C), C2)
  BY DEF IsBoolean
<1>5. ~ChosenByChoice(c, Vis(c, C)) /\ ~UsesDefault(c, c \notin N, Vis(c, C), Rev(c, C))
  BY <1>1 DEF ChosenByChoice, UsesDefault
<1>6. BaseTri(c, U[c], c \notin N, Vis(c, C), Rev(c, C), d, C)
        = BaseTri(c, U[c], c \notin N, Vis(c, C), Rev(c, C), d2, C2)
  BY <1>1, <1>5 DEF BaseTri
<1> QED
  BY <1>1, <1>2, <1>3, <1>4, <1>6 DEF Base, BaseValue, Promote

LEMMA SoundSame ==
  ASSUME NEW s \in Sym, \A c \in Choice : Type[c] = "boolean",
         NEW U, NEW N, NEW U2, NEW N2, NEW C \in Valuation, NEW C2 \in Valuation,
         NEW S \in SUBSET Sym, NEW S2, S \subseteq S2, Agree(S, C, C2), C[s] = C2[s],
         SameSetting(s, U, N, U2, N2), MemberAnswers(U),
         Sound(s, U, N, C, S)
  PROVE  Sound(s, U2, N2, C2, S2)
<1>1. CASE s \in Choice
  <2>1. ChoiceSound(s, U, N, C, S)
    BY <1>1 DEF Sound
  <2>2. VisibilityWants(s) \subseteq S
    BY <2>1 DEF ChoiceSound
  <2>3. Base(s, U2, N2, C2, 1) = Base(s, U, N, C, 1)
    BY <1>1, <2>2, ChoiceBase
  <2>4. MemberFound(s, U, C, S) => MemberFound(s, U2, C2, S2)
    BY <1>1, MemberFoundSame DEF MemberAnswers, SameSetting
  <2> QED
    BY <1>1, <2>1, <2>2, <2>3, <2>4 DEF Sound, ChoiceSound
<1>2. CASE s \notin Choice
  BY <1>2, PlainSame DEF Sound
<1> QED
  BY <1>1, <1>2

LEMMA ValueSame ==
  ASSUME NEW s \in Sym, NEW N, NEW N2, NEW C, NEW C2, NEW S, NEW S2,
         S \subseteq S2, Agree(S, C, C2), SameNew(s, N, N2),
         NEW vis, NEW rev, NEW a, ValueSound(s, N, C, S, vis, rev, a)
  PROVE  ValueSound(s, N2, C2, S2, vis, rev, a)
<1>1. VisibilityWants(s) \subseteq S
  BY DEF ValueSound
<1>2. Vis(s, C) = Vis(s, C2) /\ Rev(s, C) = Rev(s, C2)
  BY <1>1, VisSame
<1>3. Uses(s, N2, C2) = Uses(s, N, C)
  BY <1>1, UsesSame
<1>4. ASSUME Uses(s, N, C), NEW j \in 1 .. a - 1 PROVE DefaultTried(s, j, C2, S2)
  BY <1>4, TriedSame DEF ValueSound
<1> QED
  BY <1>1, <1>2, <1>3, <1>4 DEF ValueSound

LEMMA TryingSame ==
  ASSUME NEW c \in Choice, Type[c] = "boolean",
         NEW U, NEW N, NEW U2, NEW N2, NEW C, NEW C2,
         NEW S, NEW S2, S \subseteq S2, Agree(S, C, C2), C[c] = C2[c],
         SameSetting(c, U, N, U2, N2), U[c].val \in Sym => U[c].val \in MembersOf(c),
         NEW a \in Nat, TryingSound(c, U, N, C, S, a)
  PROVE  TryingSound(c, U2, N2, C2, S2, a)
<1> DEFINE cand == Candidates(c, U[c].val)
<1>1. VisibilityWants(c) \subseteq S
  BY DEF TryingSound
<1>2. Base(c, U2, N2, C2, 1) = Base(c, U, N, C, 1)
  BY <1>1, ChoiceBase
<1>3. a <= Len(cand) + 1 /\ Len(cand) \in Nat
  BY CandidatesLen DEF TryingSound
<1>4. ASSUME NEW j \in 1 .. a - 1
      PROVE  CandidateSeen(cand[j], C2, S2) /\ ~CandidateHit(cand[j], C2)
  <2>1. j \in 1 .. Len(cand)
    BY <1>3
  <2>2. cand[j].value \in MembersOf(c)
    BY <2>1, CandidateMember
  <2>3. CandidateSeen(cand[j], C, S) /\ ~CandidateHit(cand[j], C)
    BY DEF TryingSound
  <2> HIDE DEF cand
  <2> QED
    BY <2>2, <2>3, CandidateSame
<1> QED
  BY <1>1, <1>2, <1>3, <1>4 DEF TryingSound, SameSetting

-----------------------------------------------------------------------------
(* A sound value is the value a calculation from scratch would find.       *)
LEMMA FirstDefaultUnique ==
  ASSUME NEW s \in Sym, NEW C, NEW S, NEW d \in 1 .. NumDefaults(s) + 1,
         DefaultTaken(s, d, C, S)
  PROVE  FirstDefault(s, C) = d
<1>1. NumDefaults(s) \in Nat
  BY DefaultsType
<1>2. IsFirstDefault(s, d, C)
  BY DEF DefaultTaken, DefaultTried, IsFirstDefault
<1>3. ASSUME NEW e \in 1 .. NumDefaults(s) + 1, IsFirstDefault(s, e, C)
      PROVE  e = d
  <2>1. CASE e < d
    BY <1>1, <1>2, <1>3, <2>1 DEF IsFirstDefault
  <2>2. CASE d < e
    BY <1>1, <1>2, <1>3, <2>2 DEF IsFirstDefault
  <2> QED
    BY <1>1, <2>1, <2>2
<1> QED
  BY <1>2, <1>3 DEF FirstDefault

LEMMA SoundTrue ==
  ASSUME NEW s \in Sym, \A c \in Choice : Type[c] = "boolean",
         MemberAnswers(user), NEW S, Sound(s, user, isNew, curr, S)
  PROVE  curr[s] = TrueValue(s)
<1> DEFINE f == FirstDefault(s, curr)
<1>1. TrueBase(s) = Base(s, user, isNew, curr, f)
  BY DEF TrueBase, Base, TrueVisible, TrueRevDep, Vis, Rev, HasValue
<1>2. CASE s \notin Choice
  <2>1. PICK d \in 1 .. NumDefaults(s) + 1 :
          /\ curr[s] = Base(s, user, isNew, curr, d)
          /\ Uses(s, isNew, curr) => DefaultTaken(s, d, curr, S)
    BY <1>2 DEF Sound, PlainSound
  <2>2. CASE Uses(s, isNew, curr)
    BY <1>1, <1>2, <2>1, <2>2, FirstDefaultUnique DEF TrueValue
  <2>3. CASE ~Uses(s, isNew, curr)
    BY <1>1, <1>2, <2>1, <2>3, NoDefaultUsed DEF TrueValue
  <2> QED
    BY <2>2, <2>3
<1>3. CASE s \in Choice
  <2>1. ~Uses(s, isNew, curr)
    BY <1>3 DEF Uses, UsesDefault
  <2>2. TrueBase(s) = Base(s, user, isNew, curr, 1)
    BY <1>1, <2>1, NoDefaultUsed
  <2>3. CASE Base(s, user, isNew, curr, 1).tri = yes
    <3> DEFINE cand == Candidates(s, user[s].val)
    <3>1. PICK d \in 1 .. Len(cand) + 1 :
            /\ \A j \in 1 .. d - 1 : ~CandidateHit(cand[j], Open(s))
            /\ d <= Len(cand) => /\ CandidateHit(cand[d], Open(s))
                                 /\ curr[s] = [tri |-> yes, val |-> cand[d].value]
            /\ d > Len(cand) => curr[s] = [tri |-> no, val |-> NoVal]
      BY <1>3, <2>3 DEF Sound, ChoiceSound, MemberFound, OpenAt, Open
    <3>2. Len(cand) \in Nat
      BY <1>3, CandidatesLen
    <3>3. IsFirstCandidate(cand, d, Open(s))
      BY <3>1 DEF IsFirstCandidate
    <3>4. TrueMember(s) = IF d <= Len(cand) THEN cand[d].value ELSE NoVal
      <4> DEFINE e == CHOOSE i \in 1 .. Len(cand) + 1 : IsFirstCandidate(cand, i, Open(s))
      <4>1. TrueMember(s) = IF e <= Len(cand) THEN cand[e].value ELSE NoVal
        BY DEF TrueMember
      <4>2. e = d
        <5> HIDE DEF cand
        <5> QED
          BY <3>2, <3>3, FirstCandidateUnique
      <4> HIDE DEF e
      <4> QED
        BY <4>1, <4>2
    <3>5. d <= Len(cand) => cand[d].value # NoVal
      <4>1. d <= Len(cand) => cand[d].value \in Sym
        BY <1>3, <3>1, <3>2, CandidatesType
      <4> QED
        BY <4>1, FileAssumption DEF FileAssumption
    <3> HIDE DEF cand
    <3> QED
      BY <1>3, <2>2, <2>3, <3>1, <3>2, <3>4, <3>5 DEF TrueValue
  <2>4. CASE Base(s, user, isNew, curr, 1).tri # yes
    BY <1>3, <2>2, <2>4 DEF TrueValue, Sound, ChoiceSound
  <2> QED
    BY <2>3, <2>4
<1> QED
  BY <1>2, <1>3

(* The value of a sound member follows from its choice alone.              *)
LEMMA SoundMember ==
  ASSUME PlainChoices, NEW v \in ChoiceValue, NEW C \in Valuation, NeverModNow(C),
         NEW U, NEW N, NEW S, Sound(v, U, N, C, S)
  PROVE  /\ VisibilityWants(v) \subseteq S
         /\ C[v] = [tri |-> IF Vis(v, C) = yes /\ C[ChoiceOf(v)].val = v THEN yes ELSE no,
                    val |-> NoVal]
<1>1. v \notin Choice /\ v \in Sym
  BY TypesAssumption, ChoiceOfType, MembersType DEF TypesAssumption
<1>2. PICK d \in 1 .. NumDefaults(v) + 1 : C[v] = Base(v, U, N, C, d)
  BY <1>1 DEF Sound, PlainSound
<1>3. d \in Nat \ {0}
  BY <1>1, DefaultsType
<1> QED
  BY <1>1, <1>2, <1>3, MemberBase DEF Sound, PlainSound

-----------------------------------------------------------------------------
(* A symbol that is set to the value it has stays sound, though its        *)
(* setting changed and no cached value was dropped.                        *)
LEMMA SetMember ==
  ASSUME PlainChoices, NEW v \in ChoiceValue, NEW C \in Valuation, NeverModNow(C),
         NEW U, NEW N, NEW U2, NEW N2, NEW S, Sound(v, U, N, C, S)
  PROVE  Sound(v, U2, N2, C, S)
<1>1. v \notin Choice /\ NumDefaults(v) = 0
  BY TypesAssumption, ChoiceOfType DEF TypesAssumption, PlainChoices
<1>2. Base(v, U, N, C, 1) = Base(v, U2, N2, C, 1)
  BY MemberBase
<1>3. PICK d \in 1 .. NumDefaults(v) + 1 : C[v] = Base(v, U, N, C, d)
  BY <1>1 DEF Sound, PlainSound
<1>4. d = 1
  BY <1>1
<1>5. DefaultTaken(v, 1, C, S)
  BY <1>1 DEF DefaultTaken
<1>6. 1 \in 1 .. NumDefaults(v) + 1
  BY <1>1
<1>7. VisibilityWants(v) \subseteq S /\ TypeSyms(v, C) \subseteq S
  BY <1>1 DEF Sound, PlainSound
<1> QED
  BY <1>1, <1>2, <1>3, <1>4, <1>5, <1>6, <1>7 DEF Sound, PlainSound

LEMMA SetTristate ==
  ASSUME NEW s \in Sym, ~IsString(s), s \notin Choice, s \notin ChoiceValue,
         NEW U \in Valuation, NEW U2, NEW N, NEW N2, NEW C \in Valuation, NEW S, s \notin N2,
         U2[s].tri = C[s].tri, Sound(s, U, N, C, S)
  PROVE  Sound(s, U2, N2, C, S)
<1> DEFINE vis == Vis(s, C)
           rev == Rev(s, C)
           b == IsBoolean(s, vis, C)
<1>1. PICK d \in 1 .. NumDefaults(s) + 1 :
        /\ C[s] = Base(s, U, N, C, d)
        /\ Uses(s, N, C) => DefaultTaken(s, d, C, S)
  BY DEF Sound, PlainSound
<1>2. vis \in Tri /\ rev \in Tri /\ b \in BOOLEAN
  BY EvalType DEF Vis, Rev, IsBoolean
<1>3. ~ChosenByChoice(s, vis)
  BY DEF ChosenByChoice
<1>4. CASE EOr(vis, rev) = no
  <2>1. UsesDefault(s, s \notin N, vis, rev) /\ UsesDefault(s, s \notin N2, vis, rev)
    BY <1>3, <1>4 DEF UsesDefault
  <2>2. Base(s, U2, N2, C, d) = Base(s, U, N, C, d)
    BY <2>1 DEF Base, BaseValue, BaseTri
  <2>3. Uses(s, N, C)
    BY <2>1 DEF Uses
  <2> QED
    BY <1>1, <2>2, <2>3 DEF Sound, PlainSound
<1>5. CASE EOr(vis, rev) # no
  <2>1. ~UsesDefault(s, s \notin N2, vis, rev)
    BY <1>5 DEF UsesDefault
  <2>2. Base(s, U2, N2, C, d) = [tri |-> Promote(b, Limit(C[s].tri, vis, rev)), val |-> NoVal]
    BY <1>3, <1>5, <2>1 DEF Base, BaseValue, BaseTri
  <2>3. PICK t \in Tri : C[s] = [tri |-> Promote(b, Limit(t, vis, rev)), val |-> NoVal]
    <3> DEFINE own == IF UsesDefault(s, s \notin N, vis, rev) THEN DefaultTri(s, d, C)
                      ELSE IF s \notin N THEN U[s].tri ELSE no
    <3>1. own \in Tri
      BY EvalType DEF DefaultTri, Valuation, SymbolValue
    <3>2. Base(s, U, N, C, d) = [tri |-> Promote(b, Limit(own, vis, rev)), val |-> NoVal]
      BY <1>3, <1>5 DEF Base, BaseValue, BaseTri
    <3> HIDE DEF own
    <3> QED
      BY <1>1, <3>1, <3>2
  <2>4. Promote(b, Limit(C[s].tri, vis, rev)) = C[s].tri
    <3> HIDE DEF vis, rev, b
    <3>1. C[s].tri = Promote(b, Limit(t, vis, rev))
      BY <2>3
    <3> QED
      BY <1>2, <1>5, <3>1, LimitAgain
  <2>5. C[s] = Base(s, U2, N2, C, d)
    BY <2>2, <2>3, <2>4
  <2>6. ~Uses(s, N2, C)
    BY <2>1 DEF Uses
  <2>7. VisibilityWants(s) \subseteq S /\ TypeSyms(s, C) \subseteq S
    BY DEF Sound, PlainSound
  <2> QED
    BY <2>5, <2>6, <2>7 DEF Sound, PlainSound
<1> QED
  BY <1>4, <1>5

LEMMA SetChoice ==
  ASSUME NEW c \in Choice, Type[c] = "boolean",
         NEW U \in Valuation, NEW U2, NEW N, NEW N2, NEW C \in Valuation, NEW S, c \notin N2,
         U2[c].tri = C[c].tri, U2[c].val = U[c].val, Sound(c, U, N, C, S)
  PROVE  Sound(c, U2, N2, C, S)
<1> DEFINE vis == Vis(c, C)
           rev == Rev(c, C)
           own == OwnTri(c, U, N)
<1>1. c \in Sym
  BY FileAssumption DEF FileAssumption
<1>2. vis \in Tri /\ rev \in Tri /\ own \in Tri
  BY <1>1, EvalType DEF Vis, Rev, OwnTri, Valuation, SymbolValue
<1>3. Base(c, U, N, C, 1) = [tri |-> ChoiceTri(own, vis, rev), val |-> NoVal]
  BY ChoiceTriIs
<1>4. Base(c, U2, N2, C, 1) = [tri |-> ChoiceTri(C[c].tri, vis, rev), val |-> NoVal]
  <2>1. OwnTri(c, U2, N2) = C[c].tri
    BY DEF OwnTri
  <2> QED
    BY <2>1, ChoiceTriIs
<1>5. MemberFound(c, U, C, S) = MemberFound(c, U2, C, S)
  BY DEF MemberFound
<1>6. VisibilityWants(c) \subseteq S
  BY DEF Sound, ChoiceSound
<1> HIDE DEF vis, rev, own
<1>7. CASE ChoiceTri(own, vis, rev) = yes
  <2>1. MemberFound(c, U, C, S)
    BY <1>3, <1>7 DEF Sound, ChoiceSound
  <2>2. C[c].tri = yes \/ C[c] = [tri |-> no, val |-> NoVal]
    <3>1. Len(Candidates(c, U[c].val)) \in Nat
      BY CandidatesLen
    <3> QED
      BY <2>1, <3>1 DEF MemberFound
  <2>3. CASE C[c].tri = yes
    <3>1. Base(c, U2, N2, C, 1).tri = yes
      BY <1>2, <1>4, <1>7, <2>3, ChoiceTriFacts
    <3> QED
      BY <1>5, <1>6, <2>1, <3>1 DEF Sound, ChoiceSound
  <2>4. CASE C[c] = [tri |-> no, val |-> NoVal]
    <3>1. ChoiceTri(no, vis, rev) \in {no, yes}
      BY <1>2, ChoiceTriFacts
    <3>2. Base(c, U2, N2, C, 1) = [tri |-> ChoiceTri(no, vis, rev), val |-> NoVal]
      BY <1>4, <2>4
    <3> QED
      BY <1>5, <1>6, <2>1, <2>4, <3>1, <3>2 DEF Sound, ChoiceSound
  <2> QED
    BY <2>2, <2>3, <2>4
<1>8. CASE ChoiceTri(own, vis, rev) # yes
  <2>1. C[c] = Base(c, U, N, C, 1)
    BY <1>3, <1>8 DEF Sound, ChoiceSound
  <2>2. ChoiceTri(C[c].tri, vis, rev) = C[c].tri
    BY <1>2, <1>3, <2>1, ChoiceTriFacts
  <2>3. Base(c, U2, N2, C, 1) = C[c] /\ C[c].tri # yes
    BY <1>3, <1>4, <1>8, <2>1, <2>2
  <2> QED
    BY <1>6, <2>3 DEF Sound, ChoiceSound
<1> QED
  BY <1>7, <1>8

(* Choosing the member that is already chosen.                             *)
LEMMA ChooseAgain ==
  ASSUME NEW c \in Choice, Type[c] = "boolean", NEW v \in MembersOf(c),
         NEW U \in Valuation, NEW U2, NEW N, NEW N2, NEW C \in Valuation, NEW S, c \notin N2,
         U[c].val \in Sym => U[c].val \in MembersOf(c),
         U2[c].tri = U[c].tri, U2[c].val = v, C[c].val = v, Sound(c, U, N, C, S)
  PROVE  Sound(c, U2, N2, C, S)
<1> DEFINE vis == Vis(c, C)
           rev == Rev(c, C)
           own == OwnTri(c, U, N)
           O == OpenAt(c, C)
           cand == Candidates(c, U[c].val)
           cand2 == Candidates(c, U2[c].val)
<1>1. c \in Sym /\ v \in Sym /\ v # NoVal
  BY MembersType, FileAssumption DEF FileAssumption
<1>2. vis \in Tri /\ rev \in Tri /\ U[c].tri \in Tri
  BY <1>1, EvalType DEF Vis, Rev, Valuation, SymbolValue
<1>3. Base(c, U, N, C, 1) = [tri |-> ChoiceTri(own, vis, rev), val |-> NoVal]
  BY ChoiceTriIs
<1>4. Base(c, U2, N2, C, 1) = [tri |-> ChoiceTri(U[c].tri, vis, rev), val |-> NoVal]
  <2>1. OwnTri(c, U2, N2) = U[c].tri
    BY DEF OwnTri
  <2> QED
    BY <2>1, ChoiceTriIs
<1>5. own = no \/ own = U[c].tri
  BY DEF OwnTri
<1>6. ChoiceTri(own, vis, rev) = yes
  <2>1. C[c] # Base(c, U, N, C, 1)
    BY <1>1, <1>3
  <2> QED
    BY <1>3, <2>1 DEF Sound, ChoiceSound
<1>7. ChoiceTri(U[c].tri, vis, rev) = yes
  <2> HIDE DEF vis, rev, own
  <2> QED
    BY <1>2, <1>5, <1>6, ChoiceTriFacts
<1>8. VisibilityWants(c) \subseteq S /\ MemberFound(c, U, C, S)
  BY <1>3, <1>6 DEF Sound, ChoiceSound
<1>9. PICK k : CandidateSeen(k, O, S) /\ CandidateHit(k, O) /\ C[c] = [tri |-> yes, val |-> k.value]
  <2>1. PICK d \in 1 .. Len(cand) + 1 :
          /\ d <= Len(cand) => /\ CandidateSeen(cand[d], O, S)
                               /\ CandidateHit(cand[d], O)
                               /\ C[c] = [tri |-> yes, val |-> cand[d].value]
          /\ d > Len(cand) => C[c] = [tri |-> no, val |-> NoVal]
    BY <1>8 DEF MemberFound
  <2>2. Len(cand) \in Nat
    BY CandidatesLen
  <2> HIDE DEF cand
  <2>3. d <= Len(cand)
    BY <1>1, <2>1, <2>2
  <2> QED
    BY <2>1, <2>3
<1>10. Len(cand2) \in Nat /\ Len(cand2) >= 1 /\ cand2[1] = [cond |-> TrueExpr, value |-> v]
  BY <1>1, CandidatesMember, CandidatesLen
<1>11. k.value = v
  BY <1>9
<1>12. EvalExpr(TrueExpr, O) # no /\ ExprSyms(TrueExpr) = {}
  BY DEF TrueExpr, EvalExpr, ExprSyms, MaxTri, MinTri
<1>13. CandidateSeen(cand2[1], O, S) /\ CandidateHit(cand2[1], O)
  <2> HIDE DEF O, cand2
  <2>1. ExprSyms(Prompt[v]) \subseteq S /\ EvalExpr(VisExpr(v), O) # no
    BY <1>9, <1>11 DEF CandidateSeen, CandidateHit
  <2> QED
    BY <1>10, <1>12, <2>1 DEF CandidateSeen, CandidateHit
<1>14. MemberFound(c, U2, C, S)
  <2>1. C[c] = [tri |-> yes, val |-> cand2[1].value]
    BY <1>9, <1>10, <1>11
  <2>2. 1 \in 1 .. Len(cand2) + 1 /\ ~(1 > Len(cand2)) /\ 1 .. 1 - 1 = {}
    BY <1>10
  <2> QED
    BY <1>13, <2>1, <2>2 DEF MemberFound
<1> QED
  BY <1>4, <1>7, <1>8, <1>14 DEF Sound, ChoiceSound

-----------------------------------------------------------------------------
(* The invariant.  Activations wait for each other in the order of Rank.   *)
Done == {s \in Sym : Settled(s)}
Busy(s) == phase[s] # "idle"

Chain(Rank) ==
  /\ \A s \in Sym : Busy(s) => s \in valid
  /\ IF top = NoSym THEN \A s \in Sym : ~Busy(s)
     ELSE Busy(top) /\ \A x \in Sym \ {top} : Busy(x) => Rank[top] < Rank[x]
  /\ \A s \in Sym : Busy(s) /\ caller[s] # NoSym =>
       Busy(caller[s]) /\ Rank[s] < Rank[caller[s]]
  /\ \A s, x \in Sym : Busy(s) /\ Busy(x) /\ Rank[s] < Rank[x] =>
       caller[s] # NoSym /\ (x = caller[s] \/ Rank[caller[s]] < Rank[x])

Calculated ==
  /\ \A s \in Done : Sound(s, user, isNew, curr, Done)
  /\ \A s \in Sym : phase[s] = "value" =>
       ValueSound(s, isNew, curr, Done, visible[s], revdep[s], at[s])
  /\ \A c \in Sym : phase[c] = "choice" =>
       TryingSound(c, user, isNew, curr, Done, at[c])

NewAnswers(U, N) == \A s \in N : IsString(s) => U[s].val \notin Str

Settings ==
  /\ \A v \in ChoiceValue : revdep[v] = no
  /\ NeverModNow(curr) /\ MemberAnswers(user) /\ NewAnswers(user, isNew)

Coherent(Rank) == TypeInv /\ Chain(Rank) /\ Calculated /\ Settings

-----------------------------------------------------------------------------
(* The activations form a chain, the running one the lowest.               *)
LEMMA ChainEnter ==
  ASSUME NEW Rank \in [Sym -> Nat], TypeInv, Chain(Rank), NEW t \in Sym,
         Enter(t, top), top # NoSym => Rank[t] < Rank[top]
  PROVE  Chain(Rank)'
<1> USE DEF Chain, Busy, TypeInv, TypeOK
<1>1. /\ t \notin valid /\ valid' = valid \cup {t} /\ top' = t
      /\ phase' = [phase EXCEPT ![t] = "visibility"]
      /\ caller' = [caller EXCEPT ![t] = top]
  BY DEF Enter
<1>2. ~Busy(t)
  BY <1>1
<1>3. \A x \in Sym : Busy(x)' <=> (Busy(x) \/ x = t)
  BY <1>1
<1>4. \A x \in Sym : Busy(x) => x # t /\ top # NoSym /\ top \in Sym /\ Rank[t] < Rank[x]
  BY <1>2
<1>5. \A x \in Sym : Busy(x) => caller'[x] = caller[x]
  BY <1>1, <1>4
<1>6. t # NoSym
  BY FileAssumption DEF FileAssumption
<1>7. \A x \in Sym : Busy(x)' => x \in valid'
  BY <1>1, <1>3
<1>8. Busy(t)' /\ \A x \in Sym \ {t} : Busy(x)' => Rank[t] < Rank[x]
  BY <1>3, <1>4
<1>9. ASSUME NEW x \in Sym, Busy(x)', caller'[x] # NoSym
      PROVE  Busy(caller[x])' /\ Rank[x] < Rank[caller'[x]]
  <2>1. CASE x = t
    BY <1>1, <1>9, <2>1
  <2>2. CASE x # t
    <3>1. Busy(x) /\ caller'[x] = caller[x]
      BY <1>3, <1>5, <1>9, <2>2
    <3>2. Busy(caller[x]) /\ Rank[x] < Rank[caller[x]] /\ caller[x] \in Sym
      BY <1>9, <3>1
    <3> QED
      BY <1>3, <3>1, <3>2
  <2> QED
    BY <2>1, <2>2
<1>10. \A s, x \in Sym : Busy(s)' /\ Busy(x)' /\ Rank[s] < Rank[x] =>
         caller'[s] # NoSym /\ (x = caller'[s] \/ Rank[caller'[s]] < Rank[x])
  <2> SUFFICES ASSUME NEW s \in Sym, NEW x \in Sym, Busy(s)', Busy(x)', Rank[s] < Rank[x]
               PROVE  caller'[s] # NoSym /\ (x = caller'[s] \/ Rank[caller'[s]] < Rank[x])
    OBVIOUS
  <2>1. Busy(x)
    BY <1>3, <1>4
  <2>2. CASE s = t
    BY <1>1, <1>4, <2>1, <2>2, FileAssumption DEF FileAssumption
  <2>3. CASE s # t
    BY <1>3, <1>5, <2>1, <2>3
  <2> QED
    BY <2>2, <2>3
<1> QED
  BY <1>1, <1>6, <1>7, <1>8, <1>9, <1>10

LEMMA ChainReturn ==
  ASSUME NEW Rank \in [Sym -> Nat], TypeInv, Chain(Rank), NEW s \in Sym,
         top = s, Return(s), UNCHANGED valid
  PROVE  Chain(Rank)'
<1> USE DEF Chain, Busy, TypeInv, TypeOK
<1>1. /\ phase' = [phase EXCEPT ![s] = "idle"] /\ top' = caller[s]
      /\ caller' = [caller EXCEPT ![s] = NoSym]
  BY DEF Return
<1>2. \A x \in Sym : Busy(x)' <=> (Busy(x) /\ x # s)
  BY <1>1
<1>3. \A x \in Sym \ {s} : caller'[x] = caller[x]
  BY <1>1
<1>4. s # NoSym /\ \A x \in Sym \ {s} : Busy(x) => Rank[s] < Rank[x]
  BY FileAssumption DEF FileAssumption
<1>5. \A x \in Sym : Busy(x)' => x \in valid'
  BY <1>2
<1>6. CASE caller[s] = NoSym
  <2>1. \A x \in Sym : ~Busy(x)'
    BY <1>2, <1>4, <1>6
  <2> QED
    BY <1>1, <1>6, <2>1
<1>7. CASE caller[s] # NoSym
  <2>1. PICK y \in Sym : y = caller[s] /\ Busy(y) /\ Rank[s] < Rank[y] /\ y # s
    BY <1>4, <1>7
  <2>2. \A x \in Sym \ {y} : Busy(x)' => Rank[y] < Rank[x]
    BY <1>2, <1>4, <1>7, <2>1
  <2>3. \A x \in Sym : Busy(x)' /\ caller'[x] # NoSym =>
          Busy(caller[x])' /\ Rank[x] < Rank[caller'[x]]
    <3> SUFFICES ASSUME NEW x \in Sym, Busy(x)', caller'[x] # NoSym
                 PROVE  Busy(caller[x])' /\ Rank[x] < Rank[caller'[x]]
      OBVIOUS
    <3>1. x # s /\ Busy(x) /\ caller'[x] = caller[x]
      BY <1>2, <1>3
    <3>2. Busy(caller[x]) /\ Rank[x] < Rank[caller[x]] /\ caller[x] \in Sym
      BY <3>1
    <3>3. caller[x] # s
      BY <1>4, <3>1, <3>2
    <3> QED
      BY <1>2, <3>1, <3>2, <3>3
  <2>4. \A t, x \in Sym : Busy(t)' /\ Busy(x)' /\ Rank[t] < Rank[x] =>
          caller'[t] # NoSym /\ (x = caller'[t] \/ Rank[caller'[t]] < Rank[x])
    <3> SUFFICES ASSUME NEW t \in Sym, NEW x \in Sym, Busy(t)', Busy(x)', Rank[t] < Rank[x]
                 PROVE  caller'[t] # NoSym /\ (x = caller'[t] \/ Rank[caller'[t]] < Rank[x])
      OBVIOUS
    <3>1. Busy(t) /\ Busy(x) /\ caller'[t] = caller[t]
      BY <1>2, <1>3
    <3> QED
      BY <3>1
  <2>5. Busy(y)'
    BY <1>2, <2>1
  <2> QED
    BY <1>1, <1>5, <1>7, <2>1, <2>2, <2>3, <2>4, <2>5
<1> QED
  BY <1>6, <1>7

LEMMA ChainKeep ==
  ASSUME NEW Rank, Chain(Rank), TypeInv, UNCHANGED <<valid, caller, top>>,
         \A x \in Sym : Busy(x)' <=> Busy(x)
  PROVE  Chain(Rank)'
<1> HIDE DEF Busy
<1>1. \A x \in Sym : caller[x] \in Sym \cup {NoSym}
  BY DEF TypeInv, TypeOK
<1>2. top \in Sym \cup {NoSym}
  BY DEF TypeInv, TypeOK
<1> QED
  BY <1>1, <1>2 DEF Chain

-----------------------------------------------------------------------------
(* A calculation asks only for what it depends on.                         *)
LEMMA WantsDepend ==
  ASSUME TypeInv, MemberAnswers(user), NEW s \in Sym
  PROVE  /\ Wants(s) \subseteq DependsOn(s) \cup {s}
         /\ phase[s] # "choice" => Wants(s) \subseteq DependsOn(s)
<1> USE DEF TypeInv, TypeOK
<1>1. CASE phase[s] = "visibility"
  BY <1>1 DEF Wants, DependsOn
<1>2. CASE phase[s] = "value"
  <2>1. TypeWants(s) \subseteq DependsOn(s)
    BY DEF TypeWants, DependsOn
  <2>2. ASSUME TakesDefault(s) PROVE DefaultWants(s) \subseteq DependsOn(s)
    <3>1. at[s] \in 1 .. NumDefaults(s)
      BY <1>2, <2>2, DefaultsType DEF TakesDefault
    <3>2. ExprSyms(Default(s).cond) \subseteq DependsOn(s)
      BY <3>1 DEF Default, DependsOn, CondSyms
    <3>3. SymbolsOf(s, Default(s).value) \subseteq DependsOn(s)
      <4>1. s \notin Choice
        BY <2>2 DEF TakesDefault, UsesDefault
      <4>2. DefaultSyms(s) \subseteq DependsOn(s)
        BY <4>1 DEF DependsOn
      <4>3. SymbolsOf(s, Default(s).value) \subseteq DefaultSyms(s)
        BY <3>1 DEF Default, DefaultSyms
      <4> QED
        BY <4>2, <4>3
    <3> QED
      BY <3>2, <3>3 DEF DefaultWants
  <2> QED
    BY <1>2, <2>1, <2>2 DEF Wants
<1>3. CASE phase[s] = "choice"
  <2>1. s \in Choice
    BY <1>3
  <2>2. ASSUME MoreCandidates(s) PROVE CandidateWants(s) \subseteq DependsOn(s) \cup {s}
    <3>1. at[s] \in 1 .. Len(Candidates(s, user[s].val))
      BY <1>3, <2>1, <2>2, CandidatesLen DEF MoreCandidates
    <3>2. Candidate(s) \in MemberProp(s)
      BY <2>1, <3>1, CandidateMember DEF Candidate, MemberAnswers
    <3>3. ExprSyms(Candidate(s).cond) \subseteq DependsOn(s)
      <4>1. CASE Candidate(s).cond = TrueExpr
        BY <4>1 DEF TrueExpr, ExprSyms
      <4>2. CASE Candidate(s).cond \in {Defaults[s][d].cond : d \in 1 .. NumDefaults(s)}
        BY <4>2 DEF DependsOn, CondSyms
      <4> QED
        BY <3>2, <4>1, <4>2 DEF MemberProp
    <3>4. ExprSyms(VisExpr(Candidate(s).value)) \subseteq DependsOn(s) \cup {s}
      <4>1. Candidate(s).value \in MembersOf(s)
        BY <3>2 DEF MemberProp
      <4>2. ExprSyms(Prompt[Candidate(s).value]) \subseteq DependsOn(s)
        <5>1. PromptSyms(s) \subseteq DependsOn(s)
          BY <2>1 DEF DependsOn
        <5>2. ExprSyms(Prompt[Candidate(s).value]) \subseteq PromptSyms(s)
          BY <4>1 DEF PromptSyms
        <5> QED
          BY <5>1, <5>2
      <4> QED
        BY <2>1, <4>1, <4>2, MemberOfChoice, VisExprSyms
    <3> QED
      BY <3>3, <3>4 DEF CandidateWants
  <2> QED
    BY <1>3, <2>2 DEF Wants
<1>4. CASE phase[s] = "idle"
  BY <1>4 DEF Wants
<1> QED
  BY <1>1, <1>2, <1>3, <1>4 DEF Phase

LEMMA DependsType ==
  ASSUME NEW Rank \in [Sym -> Nat], Acyclic(Rank), NEW s \in Sym, NEW x \in DependsOn(s)
  PROVE  Rank[x] < Rank[s]
  BY DEF Acyclic

(* When it goes on, all it asked for is settled.                           *)
LEMMA ReadyDone ==
  ASSUME NEW Rank \in [Sym -> Nat], Acyclic(Rank), TypeInv, Chain(Rank),
         MemberAnswers(user), NEW s \in Sym, top = s, Wants(s) \subseteq valid
  PROVE  /\ Wants(s) \ {s} \subseteq Done
         /\ phase[s] # "choice" => Wants(s) \subseteq Done
<1>1. phase[s] # "choice" => s \notin Wants(s)
  BY WantsDepend, DependsType
<1> SUFFICES ASSUME NEW x \in Wants(s), x # s PROVE x \in Done
  BY <1>1
<1>2. x \in Sym /\ x \in valid
  BY DEF TypeInv, TypeOK
<1>3. Rank[x] < Rank[s]
  BY WantsDepend, DependsType
<1>4. ~Busy(x)
  <2>1. top # NoSym
    BY FileAssumption DEF FileAssumption
  <2> QED
    BY <1>2, <1>3, <2>1 DEF Chain
<1> QED
  BY <1>2, <1>4 DEF Busy, Done, Settled

(* What stays calculated when only symbol s moves.                         *)
LEMMA CalculatedKeep ==
  ASSUME PlainChoices, TypeInv, TypeInv', Calculated, Settings, UNCHANGED <<user, isNew>>,
         NEW s \in Sym, s \notin Done, \A x \in Sym \ {s} : curr'[x] = curr[x],
         Done \subseteq Done', Done' \subseteq Done \cup {s},
         s \in Done' => Sound(s, user, isNew, curr', Done'),
         phase'[s] = "value" =>
           ValueSound(s, isNew, curr', Done', visible'[s], revdep'[s], at'[s]),
         phase'[s] = "choice" => TryingSound(s, user, isNew, curr', Done', at'[s]),
         \A x \in Sym \ {s} :
           /\ phase'[x] = phase[x] /\ at'[x] = at[x]
           /\ phase[x] = "value" => visible'[x] = visible[x] /\ revdep'[x] = revdep[x]
  PROVE  Calculated'
<1>1. Done \in SUBSET Sym /\ curr \in Valuation /\ curr' \in Valuation
  BY DEF Done, Valuation, TypeInv, TypeOK
<1>2. Agree(Done, curr, curr')
  BY <1>1 DEF Agree
<1>3. \A x : SameSetting(x, user, isNew, user, isNew) /\ SameNew(x, isNew, isNew)
  BY DEF SameSetting, SameNew
<1>4. \A c \in Choice : Type[c] = "boolean" /\ c \in Sym
  BY FileAssumption DEF PlainChoices, FileAssumption
<1>5. MemberAnswers(user)
  BY DEF Settings
<1>6. ASSUME NEW x \in Done' PROVE Sound(x, user, isNew, curr', Done')
  <2>1. CASE x = s
    BY <1>6, <2>1
  <2>2. CASE x # s
    <3>1. x \in Done /\ x \in Sym
      BY <1>6, <2>2 DEF Done
    <3>2. Sound(x, user, isNew, curr, Done) /\ curr'[x] = curr[x]
      BY <2>2, <3>1 DEF Calculated
    <3> HIDE DEF Done
    <3> QED
      BY <1>1, <1>2, <1>3, <1>4, <1>5, <3>1, <3>2, SoundSame
  <2> QED
    BY <2>1, <2>2
<1>7. ASSUME NEW x \in Sym, phase'[x] = "value"
      PROVE  ValueSound(x, isNew, curr', Done', visible'[x], revdep'[x], at'[x])
  <2>1. CASE x = s
    BY <1>7, <2>1
  <2>2. CASE x # s
    <3>1. ValueSound(x, isNew, curr, Done, visible'[x], revdep'[x], at'[x])
      BY <1>7, <2>2 DEF Calculated
    <3> QED
      BY <1>2, <1>3, <3>1, ValueSame
  <2> QED
    BY <2>1, <2>2
<1>8. ASSUME NEW x \in Sym, phase'[x] = "choice"
      PROVE  TryingSound(x, user, isNew, curr', Done', at'[x])
  <2>1. CASE x = s
    BY <1>8, <2>1
  <2>2. CASE x # s
    <3>1. TryingSound(x, user, isNew, curr, Done, at[x]) /\ at'[x] = at[x]
      BY <1>8, <2>2 DEF Calculated
    <3>2. x \in Choice /\ at[x] \in Nat
      BY <1>8, <2>2 DEF TypeInv, TypeOK
    <3>3. curr'[x] = curr[x]
      BY <2>2
    <3> QED
      BY <1>2, <1>3, <1>4, <1>5, <3>1, <3>2, <3>3, TryingSame DEF MemberAnswers
  <2> QED
    BY <2>1, <2>2
<1> QED
  BY <1>6, <1>7, <1>8 DEF Calculated

-----------------------------------------------------------------------------
(* Every step of the engine keeps the invariant.                           *)
LEMMA EnterCoherent ==
  ASSUME NEW Rank \in [Sym -> Nat], PlainChoices, Coherent(Rank), TypeInv',
         NEW t \in Sym, Enter(t, top), top # NoSym => Rank[t] < Rank[top],
         UNCHANGED settings
  PROVE  Coherent(Rank)'
<1> USE DEF Coherent
<1>1. /\ t \notin valid /\ valid' = valid \cup {t}
      /\ phase' = [phase EXCEPT ![t] = "visibility"]
      /\ UNCHANGED <<at, curr, visible, revdep>>
  BY DEF Enter
<1>2. phase'[t] = "visibility" /\ \A x \in Sym \ {t} : phase'[x] = phase[x]
  BY <1>1 DEF TypeInv, TypeOK
<1>3. t \notin Done /\ Done' = Done
  BY <1>1, <1>2 DEF Done, Settled
<1>4. UNCHANGED <<user, isNew>>
  BY DEF settings
<1>5. Calculated'
  BY <1>1, <1>2, <1>3, <1>4, CalculatedKeep
<1>6. Chain(Rank)'
  BY ChainEnter
<1>7. Settings'
  BY <1>1, <1>4 DEF Settings
<1> QED
  BY <1>5, <1>6, <1>7

LEMMA CallCoherent ==
  ASSUME NEW Rank \in [Sym -> Nat], Acyclic(Rank), PlainChoices, Coherent(Rank), TypeInv',
         NEW s \in Sym, Call(s)
  PROVE  Coherent(Rank)'
<1>1. PICK t \in Wants(s) : Enter(t, s)
  BY DEF Call
<1>2. TypeInv /\ MemberAnswers(user) /\ Chain(Rank)
  BY DEF Coherent, Settings
<1>3. t \in Sym
  BY <1>2, WantsType
<1>4. s \in valid /\ t \notin valid /\ top = s
  <2>1. s # NoSym
    BY FileAssumption DEF FileAssumption
  <2>2. Busy(s)
    BY <1>2, <2>1 DEF Call, Chain
  <2> QED
    BY <1>1, <1>2, <2>2 DEF Call, Chain, Enter
<1>5. Rank[t] < Rank[s]
  BY <1>1, <1>2, <1>4, WantsDepend, DependsType
<1> QED
  BY <1>1, <1>3, <1>4, <1>5, EnterCoherent DEF Call

LEMMA VisibilityCoherent ==
  ASSUME NEW Rank \in [Sym -> Nat], Acyclic(Rank), PlainChoices, Coherent(Rank), TypeInv',
         NEW s \in Sym, sym_calc_visibility(s)
  PROVE  Coherent(Rank)'
<1>1. TypeInv /\ MemberAnswers(user) /\ Chain(Rank) /\ Calculated /\ Settings
  BY DEF Coherent, Settings
<1>2. /\ top = s /\ phase[s] = "visibility" /\ Wants(s) \subseteq valid
      /\ visible' = [visible EXCEPT ![s] = Vis(s, curr)]
      /\ revdep' = IF s \in ChoiceValue THEN revdep ELSE [revdep EXCEPT ![s] = Rev(s, curr)]
      /\ curr' = [curr EXCEPT ![s] = Blank(s)]
      /\ phase' = [phase EXCEPT ![s] = "value"] /\ at' = [at EXCEPT ![s] = 1]
      /\ UNCHANGED <<valid, caller, top, user, isNew>>
  BY DEF sym_calc_visibility, Ready, Vis, Rev, settings
<1>3. VisibilityWants(s) \subseteq Done
  <2>1. Wants(s) \ {s} \subseteq Done
    BY <1>1, <1>2, ReadyDone
  <2>2. Wants(s) = VisibilityWants(s)
    BY <1>2 DEF Wants
  <2>3. s \notin VisibilityWants(s)
    BY DependsType DEF DependsOn
  <2> QED
    BY <2>1, <2>2, <2>3
<1>4. /\ phase'[s] = "value" /\ at'[s] = 1 /\ visible'[s] = Vis(s, curr)
      /\ revdep'[s] = Rev(s, curr)
      /\ \A x \in Sym \ {s} : /\ phase'[x] = phase[x] /\ at'[x] = at[x]
                              /\ visible'[x] = visible[x] /\ revdep'[x] = revdep[x]
                              /\ curr'[x] = curr[x]
  BY <1>1, <1>2 DEF TypeInv, TypeOK, Settings, Rev
<1>5. s \notin Done /\ Done' = Done
  BY <1>2, <1>4 DEF Done, Settled
<1>6. Agree(Done, curr, curr')
  BY <1>4, <1>5 DEF Agree, Done
<1>7. ValueSound(s, isNew, curr', Done', visible'[s], revdep'[s], at'[s])
  <2>1. Vis(s, curr') = Vis(s, curr) /\ Rev(s, curr') = Rev(s, curr)
    BY <1>3, <1>6, VisSame
  <2>2. NumDefaults(s) \in Nat
    BY DefaultsType
  <2> QED
    BY <1>3, <1>4, <1>5, <2>1, <2>2 DEF ValueSound
<1>8. Calculated'
  BY <1>1, <1>2, <1>4, <1>5, <1>7, CalculatedKeep
<1>9. Chain(Rank)'
  <2>1. \A x \in Sym : Busy(x)' <=> Busy(x)
    BY <1>2, <1>4 DEF Busy
  <2> QED
    BY <1>1, <1>2, <2>1, ChainKeep
<1>10. Settings'
  <2>1. NeverModNow(curr')
    BY <1>1, <1>2 DEF Settings, NeverModNow, Blank, TypeInv, TypeOK
  <2>2. \A v \in ChoiceValue : revdep'[v] = no
    BY <1>1, <1>4, ChoiceOfType, MembersType DEF Settings, Rev
  <2> QED
    BY <1>1, <1>2, <2>1, <2>2 DEF Settings
<1> QED
  BY <1>8, <1>9, <1>10 DEF Coherent

LEMMA NextDefaultCoherent ==
  ASSUME NEW Rank \in [Sym -> Nat], Acyclic(Rank), PlainChoices, Coherent(Rank), TypeInv',
         NEW s \in Sym, NextDefault(s)
  PROVE  Coherent(Rank)'
<1>1. TypeInv /\ MemberAnswers(user) /\ Chain(Rank) /\ Calculated /\ Settings
  BY DEF Coherent, Settings
<1>2. /\ top = s /\ phase[s] = "value" /\ Wants(s) \subseteq valid
      /\ TakesDefault(s) /\ ~DefaultHit(s, at[s], curr)
      /\ at' = [at EXCEPT ![s] = @ + 1]
      /\ UNCHANGED <<valid, curr, visible, revdep, phase, caller, top, user, isNew>>
  BY DEF NextDefault, Ready, settings
<1>3. ValueSound(s, isNew, curr, Done, visible[s], revdep[s], at[s])
  BY <1>1, <1>2 DEF Calculated
<1>4. at[s] \in 1 .. NumDefaults(s) /\ NumDefaults(s) \in Nat
  BY <1>1, <1>2, DefaultsType DEF TakesDefault, TypeInv, TypeOK
<1>5. DefaultTried(s, at[s], curr, Done)
  <2>1. Wants(s) \ {s} \subseteq Done
    BY <1>1, <1>2, ReadyDone
  <2>2. ExprSyms(Default(s).cond) \subseteq Wants(s)
    BY <1>2 DEF Wants, DefaultWants
  <2>3. ExprSyms(Default(s).cond) \subseteq DependsOn(s)
    BY <1>4 DEF Default, DependsOn, CondSyms
  <2>4. s \notin ExprSyms(Default(s).cond)
    BY <2>3, DependsType
  <2> QED
    BY <1>2, <2>1, <2>2, <2>4 DEF DefaultTried, Default
<1>6. at'[s] = at[s] + 1 /\ \A x \in Sym \ {s} : at'[x] = at[x]
  BY <1>1, <1>2 DEF TypeInv, TypeOK
<1>7. s \notin Done /\ Done' = Done
  BY <1>2 DEF Done, Settled
<1>8. ValueSound(s, isNew, curr, Done, visible[s], revdep[s], at[s] + 1)
  BY <1>3, <1>4, <1>5 DEF ValueSound
<1>9. Calculated'
  BY <1>1, <1>2, <1>6, <1>7, <1>8, CalculatedKeep
<1>10. Chain(Rank)' /\ Settings'
  <2>1. \A x \in Sym : Busy(x)' <=> Busy(x)
    BY <1>2 DEF Busy
  <2> QED
    BY <1>1, <1>2, <2>1, ChainKeep DEF Settings
<1> QED
  BY <1>9, <1>10 DEF Coherent

LEMMA ValueCoherent ==
  ASSUME NEW Rank \in [Sym -> Nat], Acyclic(Rank), PlainChoices, Coherent(Rank), TypeInv',
         NEW s \in Sym, sym_calc_value(s)
  PROVE  Coherent(Rank)'
<1> DEFINE d == at[s]
           new == BaseValue(s, user[s], HasValue(s), visible[s], revdep[s], d, curr)
           opens == s \in Choice /\ new.tri = yes
<1>1. TypeInv /\ MemberAnswers(user) /\ Chain(Rank) /\ Calculated /\ Settings
  BY DEF Coherent, Settings
<1>2. /\ top = s /\ phase[s] = "value" /\ Wants(s) \subseteq valid
      /\ TakesDefault(s) => DefaultHit(s, d, curr)
      /\ curr' = [curr EXCEPT ![s] = new]
      /\ \E bool : /\ visible' = [visible EXCEPT ![s] = Promote(bool, @)]
                   /\ revdep' = [revdep EXCEPT ![s] = Promote(bool, @)]
      /\ opens => /\ phase' = [phase EXCEPT ![s] = "choice"]
                  /\ at' = [at EXCEPT ![s] = 1] /\ UNCHANGED <<caller, top>>
      /\ ~opens => Return(s)
      /\ UNCHANGED <<valid, user, isNew>>
  BY DEF sym_calc_value, Ready, settings
<1> HIDE DEF new
<1>3. ValueSound(s, isNew, curr, Done, visible[s], revdep[s], d)
  BY <1>1, <1>2 DEF Calculated
<1>4. NumDefaults(s) \in Nat /\ d \in 1 .. NumDefaults(s) + 1 /\ d \in Nat \ {0}
  <2>1. NumDefaults(s) \in Nat
    BY DefaultsType
  <2> QED
    BY <1>1, <1>2, <1>3, <2>1 DEF TypeInv, TypeOK, ValueSound
<1>5. new = Base(s, user, isNew, curr, d)
  BY <1>3 DEF new, Base, HasValue, ValueSound
<1>6. Wants(s) \subseteq Done
  BY <1>1, <1>2, ReadyDone
<1>7. VisibilityWants(s) \subseteq Done /\ TypeSyms(s, curr) \subseteq Done
  <2>1. TypeWants(s) \subseteq Wants(s)
    BY <1>2 DEF Wants
  <2>2. TypeWants(s) = TypeSyms(s, curr)
    BY <1>3 DEF TypeWants, TypeSyms, ValueSound
  <2> QED
    BY <1>3, <1>6, <2>1, <2>2 DEF ValueSound
<1>8. ASSUME Uses(s, isNew, curr) PROVE DefaultTaken(s, d, curr, Done)
  <2>1. \A j \in 1 .. d - 1 : DefaultTried(s, j, curr, Done)
    BY <1>3, <1>8 DEF ValueSound
  <2>2. ASSUME d <= NumDefaults(s)
        PROVE  /\ ExprSyms(Defaults[s][d].cond) \subseteq Done
               /\ DefaultHit(s, d, curr)
               /\ SymbolsOf(s, Defaults[s][d].value) \subseteq Done
    <3>1. TakesDefault(s)
      BY <1>3, <1>8, <2>2 DEF TakesDefault, Uses, ValueSound, HasValue
    <3>2. DefaultWants(s) \subseteq Wants(s) /\ DefaultHit(s, d, curr)
      BY <1>2, <3>1 DEF Wants
    <3>3. ExprSyms(Default(s).cond) \subseteq DefaultWants(s)
      BY DEF DefaultWants
    <3>4. SymbolsOf(s, Default(s).value) \subseteq DefaultWants(s)
      BY <1>2, <3>2, <3>3 DEF DefaultWants
    <3> QED
      BY <1>6, <3>2, <3>3, <3>4 DEF Default
  <2> QED
    BY <2>1, <2>2 DEF DefaultTaken
<1>9. /\ curr'[s] = new /\ \A x \in Sym \ {s} : curr'[x] = curr[x]
      /\ \A x \in Sym \ {s} : /\ phase'[x] = phase[x] /\ at'[x] = at[x]
                              /\ visible'[x] = visible[x] /\ revdep'[x] = revdep[x]
      /\ phase'[s] = IF opens THEN "choice" ELSE "idle"
      /\ opens => at'[s] = 1
  <2>1. /\ curr'[s] = new /\ \A x \in Sym \ {s} : curr'[x] = curr[x]
        /\ \A x \in Sym \ {s} : visible'[x] = visible[x] /\ revdep'[x] = revdep[x]
    BY <1>1, <1>2 DEF TypeInv, TypeOK
  <2>2. CASE opens
    BY <1>1, <1>2, <2>1, <2>2 DEF TypeInv, TypeOK
  <2>3. CASE ~opens
    BY <1>1, <1>2, <2>1, <2>3 DEF TypeInv, TypeOK, Return
  <2> QED
    BY <2>2, <2>3
<1>10. s \notin Done /\ Agree(Done, curr, curr')
  BY <1>2, <1>9 DEF Done, Settled, Agree
<1>11. s \in valid
  <2>1. s # NoSym
    BY FileAssumption DEF FileAssumption
  <2> QED
    BY <1>1, <1>2, <2>1 DEF Chain
<1>12. Done' = IF opens THEN Done ELSE Done \cup {s}
  BY <1>2, <1>9, <1>11 DEF Done, Settled
<1>13. Base(s, user, isNew, curr', d) = new
  <2>1. SameSetting(s, user, isNew, user, isNew)
    BY DEF SameSetting, SameNew
  <2>2. Uses(s, isNew, curr) /\ d <= NumDefaults(s)
          => SymbolsOf(s, Defaults[s][d].value) \subseteq Done
    BY <1>8 DEF DefaultTaken
  <2> QED
    BY <1>4, <1>5, <1>7, <1>10, <2>1, <2>2, BaseSame
<1>14. s \in Choice => Base(s, user, isNew, curr', 1) = new
  <2>1. s \in Choice => ~Uses(s, isNew, curr')
    BY DEF Uses, UsesDefault
  <2> QED
    BY <1>13, <2>1, NoDefaultUsed
<1>15. ASSUME opens PROVE Calculated' /\ Chain(Rank)'
  <2>1. new = [tri |-> yes, val |-> NoVal]
    <3>1. ~IsString(s)
      BY <1>15, TypesAssumption DEF TypesAssumption
    <3> QED
      BY <1>15, <3>1 DEF new, BaseValue
  <2>2. TryingSound(s, user, isNew, curr', Done', at'[s])
    <3>1. Len(Candidates(s, user[s].val)) \in Nat
      BY <1>15, CandidatesLen
    <3> QED
      BY <1>7, <1>9, <1>12, <1>14, <1>15, <2>1, <3>1 DEF TryingSound
  <2>3. Calculated'
    BY <1>1, <1>2, <1>9, <1>10, <1>12, <1>15, <2>2, CalculatedKeep
  <2>4. Chain(Rank)'
    <3>1. \A x \in Sym : Busy(x)' <=> Busy(x)
      BY <1>2, <1>9, <1>15 DEF Busy
    <3> QED
      BY <1>1, <1>2, <1>15, <3>1, ChainKeep
  <2> QED
    BY <2>3, <2>4
<1>16. ASSUME ~opens PROVE Calculated' /\ Chain(Rank)'
  <2>1. Sound(s, user, isNew, curr', Done')
    <3>1. CASE s \in Choice
      BY <1>7, <1>9, <1>12, <1>14, <1>16, <3>1 DEF Sound, ChoiceSound
    <3>2. CASE s \notin Choice
      <4>1. Vis(s, curr) = Vis(s, curr') /\ Uses(s, isNew, curr) = Uses(s, isNew, curr')
        <5>1. SameNew(s, isNew, isNew)
          BY DEF SameNew
        <5> QED
          BY <1>7, <1>10, <5>1, VisSame, UsesSame
      <4>2. Done \subseteq Done'
        BY <1>12, <1>16
      <4>3. Uses(s, isNew, curr') => DefaultTaken(s, d, curr', Done')
        BY <1>8, <1>10, <4>1, <4>2, TakenSame
      <4>4. VisibilityWants(s) \subseteq Done' /\ TypeSyms(s, curr') \subseteq Done'
        BY <1>7, <4>1, <4>2 DEF TypeSyms
      <4> QED
        BY <1>4, <1>9, <1>13, <3>2, <4>3, <4>4 DEF Sound, PlainSound
    <3> QED
      BY <3>1, <3>2
  <2>2. Calculated'
    BY <1>1, <1>2, <1>9, <1>10, <1>12, <1>16, <2>1, CalculatedKeep
  <2>3. Chain(Rank)'
    BY <1>1, <1>2, <1>16, ChainReturn
  <2> QED
    BY <2>2, <2>3
<1>17. Settings'
  <2>1. Type[s] = "boolean" => new.tri # mod
    <3>1. Type[s] = "boolean" => ~IsString(s) /\ IsBoolean(s, visible[s], curr)
      BY DEF IsString, IsBoolean
    <3> QED
      BY <3>1 DEF new, BaseValue, Promote
  <2>2. NeverModNow(curr')
    BY <1>1, <1>9, <2>1 DEF Settings, NeverModNow
  <2>3. \A v \in ChoiceValue : revdep'[v] = no
    <3>1. \A v \in ChoiceValue : v \in Sym
      BY ChoiceOfType, MembersType
    <3>2. s \in ChoiceValue => revdep'[s] = no
      BY <1>1, <1>2 DEF Settings, Promote, TypeInv, TypeOK
    <3> QED
      BY <1>1, <1>9, <3>1, <3>2 DEF Settings
  <2> QED
    BY <1>1, <1>2, <2>2, <2>3 DEF Settings
<1> QED
  BY <1>15, <1>16, <1>17 DEF Coherent

LEMMA CandidateReady ==
  ASSUME NEW Rank \in [Sym -> Nat], Acyclic(Rank), Coherent(Rank),
         NEW c \in Sym, Ready(c, "choice"), MoreCandidates(c)
  PROVE  /\ at[c] \in 1 .. Len(Candidates(c, user[c].val))
         /\ Candidate(c).value \in MembersOf(c)
         /\ CandidateSeen(Candidate(c), curr, Done)
<1> DEFINE k == Candidate(c)
<1>1. TypeInv /\ MemberAnswers(user) /\ Chain(Rank) /\ c \in Choice
      /\ top = c /\ phase[c] = "choice" /\ Wants(c) \subseteq valid
  BY DEF Coherent, Settings, Ready, TypeInv
<1>2. at[c] \in 1 .. Len(Candidates(c, user[c].val))
  BY <1>1, CandidatesLen DEF MoreCandidates, TypeInv, TypeOK
<1>3. k \in MemberProp(c) /\ k.value \in MembersOf(c)
  BY <1>1, <1>2, CandidateMember DEF Candidate, MemberAnswers
<1> HIDE DEF k
<1>4. CandidateWants(c) \ {c} \subseteq Done /\ CandidateWants(c) \subseteq valid
  BY <1>1, ReadyDone DEF Wants
<1>5. ExprSyms(k.cond) \subseteq CandidateWants(c)
  BY DEF CandidateWants, k
<1>6. c \notin ExprSyms(k.cond)
  <2>1. CASE k.cond = TrueExpr
    BY <2>1 DEF TrueExpr, ExprSyms
  <2>2. CASE k.cond \in {Defaults[c][d].cond : d \in 1 .. NumDefaults(c)}
    <3>1. ExprSyms(k.cond) \subseteq DependsOn(c)
      BY <2>2 DEF DependsOn, CondSyms
    <3> QED
      BY <3>1, DependsType
  <2> QED
    BY <1>3, <2>1, <2>2 DEF MemberProp
<1>7. ASSUME EvalExpr(k.cond, curr) # no PROVE ExprSyms(Prompt[k.value]) \subseteq Done
  <2>1. ExprSyms(VisExpr(k.value)) \subseteq CandidateWants(c)
    BY <1>4, <1>5, <1>7 DEF CandidateWants, k
  <2>2. ExprSyms(Prompt[k.value]) \subseteq ExprSyms(VisExpr(k.value))
    <3> SUFFICES ASSUME NEW cl \in Prompt[k.value], NEW l \in cl, l.op # "const"
                 PROVE  l.sym \in ExprSyms(VisExpr(k.value))
      BY DEF ExprSyms
    <3>1. cl \cup {Is(ChoiceOf(k.value))} \in VisExpr(k.value)
      BY <1>1, <1>3, MemberOfChoice DEF VisExpr, AndLit
    <3> QED
      BY <3>1 DEF ExprSyms
  <2>3. ExprSyms(Prompt[k.value]) \subseteq DependsOn(c)
    <3>1. ExprSyms(Prompt[k.value]) \subseteq PromptSyms(c)
      BY <1>3 DEF PromptSyms
    <3> QED
      BY <1>1, <3>1 DEF DependsOn
  <2>4. c \notin ExprSyms(Prompt[k.value])
    BY <2>3, DependsType
  <2> QED
    BY <1>4, <2>1, <2>2, <2>4
<1> QED
  BY <1>2, <1>3, <1>4, <1>5, <1>6, <1>7 DEF CandidateSeen, k

(* The visibility written for a candidate is the one its own calculation   *)
(* has found, if it has come that far.                                     *)
LEMMA CandidateVisibleSame ==
  ASSUME TypeInv, Calculated, NEW c, NEW x \in Sym, phase[x] = "value"
  PROVE  CandidateVisible(c)[x] = visible[x]
<1>1. visible[x] = EvalExpr(VisExpr(x), curr)
  BY DEF Calculated, ValueSound, Vis
<1> QED
  BY <1>1 DEF CandidateVisible, TypeInv, TypeOK

LEMMA NextCandidateCoherent ==
  ASSUME NEW Rank \in [Sym -> Nat], Acyclic(Rank), PlainChoices, Coherent(Rank), TypeInv',
         NEW c \in Sym, NextCandidate(c)
  PROVE  Coherent(Rank)'
<1> DEFINE cand == Candidates(c, user[c].val)
<1>1. TypeInv /\ Chain(Rank) /\ Calculated /\ Settings
  BY DEF Coherent
<1>2. /\ Ready(c, "choice") /\ MoreCandidates(c) /\ phase[c] = "choice"
      /\ ~CandidateHit(Candidate(c), curr) /\ visible' = CandidateVisible(c)
      /\ at' = [at EXCEPT ![c] = @ + 1]
      /\ UNCHANGED <<valid, curr, revdep, phase, caller, top, user, isNew>>
  BY DEF NextCandidate, Ready, settings
<1>3. TryingSound(c, user, isNew, curr, Done, at[c])
  BY <1>1, <1>2 DEF Calculated
<1>4. at[c] \in 1 .. Len(cand) /\ CandidateSeen(cand[at[c]], curr, Done)
  BY <1>2, CandidateReady DEF Candidate
<1>5. at'[c] = at[c] + 1 /\ \A x \in Sym \ {c} : at'[x] = at[x]
  BY <1>1, <1>2 DEF TypeInv, TypeOK
<1>6. c \notin Done /\ Done' = Done
  BY <1>2 DEF Done, Settled
<1>7. TryingSound(c, user, isNew, curr, Done, at[c] + 1)
  <2>1. ~CandidateHit(cand[at[c]], curr)
    BY <1>2 DEF Candidate
  <2>2. Len(cand) \in Nat
    BY <1>1, <1>2, CandidatesLen DEF TypeInv
  <2>3. \A j \in 1 .. at[c] : j \in 1 .. at[c] - 1 \/ j = at[c]
    BY <1>4, <2>2
  <2> QED
    BY <1>3, <1>4, <2>1, <2>2, <2>3 DEF TryingSound
<1>8. \A x \in Sym : phase[x] = "value" => visible'[x] = visible[x]
  BY <1>1, <1>2, CandidateVisibleSame
<1>9. Calculated'
  BY <1>1, <1>2, <1>5, <1>6, <1>7, <1>8, CalculatedKeep
<1>10. Chain(Rank)' /\ Settings'
  <2>1. \A x \in Sym : Busy(x)' <=> Busy(x)
    BY <1>2 DEF Busy
  <2> QED
    BY <1>1, <1>2, <2>1, ChainKeep DEF Settings
<1> QED
  BY <1>9, <1>10 DEF Coherent

LEMMA ChoiceCoherent ==
  ASSUME NEW Rank \in [Sym -> Nat], Acyclic(Rank), PlainChoices, Coherent(Rank), TypeInv',
         NEW c \in Sym, sym_calc_choice(c)
  PROVE  Coherent(Rank)'
<1> DEFINE d == at[c]
           cand == Candidates(c, user[c].val)
<1>1. TypeInv /\ Chain(Rank) /\ Calculated /\ Settings /\ MemberAnswers(user)
  BY DEF Coherent, Settings
<1>2. /\ Ready(c, "choice") /\ phase[c] = "choice" /\ top = c
      /\ d <= Len(cand) => /\ CandidateHit(cand[d], curr)
                           /\ curr' = [curr EXCEPT ![c] = [tri |-> yes, val |-> cand[d].value]]
      /\ ~(d <= Len(cand)) => curr' = [curr EXCEPT ![c] = [tri |-> no, val |-> NoVal]]
      /\ visible' \in {visible, CandidateVisible(c)}
      /\ Return(c) /\ UNCHANGED <<valid, revdep, user, isNew>>
  BY DEF sym_calc_choice, Ready, settings, MoreCandidates, Candidate
<1>3. c \in Choice /\ TryingSound(c, user, isNew, curr, Done, d)
  BY <1>1, <1>2 DEF Calculated, TypeInv
<1>4. Len(cand) \in Nat /\ d \in 1 .. Len(cand) + 1
  <2>1. Len(cand) \in Nat
    BY <1>3, CandidatesLen
  <2> QED
    BY <1>1, <1>2, <1>3, <2>1 DEF TypeInv, TypeOK, TryingSound
<1>5. /\ \A x \in Sym \ {c} : /\ phase'[x] = phase[x] /\ at'[x] = at[x]
                              /\ curr'[x] = curr[x] /\ revdep'[x] = revdep[x]
      /\ phase'[c] = "idle"
  BY <1>1, <1>2, <1>4 DEF TypeInv, TypeOK, Return
<1>6. c \in valid
  <2>1. c # NoSym
    BY FileAssumption DEF FileAssumption
  <2> QED
    BY <1>1, <1>2, <2>1 DEF Chain
<1>7. c \notin Done /\ Done' = Done \cup {c}
  BY <1>2, <1>5, <1>6 DEF Done, Settled
<1>8. Agree(Done, curr, curr')
  BY <1>5, <1>7 DEF Agree, Done
<1>9. OpenAt(c, curr') = curr
  <2>1. curr[c] = [tri |-> yes, val |-> NoVal]
    BY <1>3 DEF TryingSound
  <2>2. curr \in Valuation /\ curr' \in Valuation
    BY <1>1 DEF Valuation, TypeInv, TypeOK
  <2> QED
    BY <1>5, <2>1, <2>2 DEF OpenAt, Valuation
<1>10. MemberFound(c, user, curr', Done')
  <2>1. ASSUME NEW j \in 1 .. d - 1
        PROVE  CandidateSeen(cand[j], curr, Done') /\ ~CandidateHit(cand[j], curr)
    <3>1. CandidateSeen(cand[j], curr, Done) /\ ~CandidateHit(cand[j], curr)
      BY <1>3 DEF TryingSound
    <3> QED
      BY <1>7, <3>1 DEF CandidateSeen
  <2>2. ASSUME d <= Len(cand)
        PROVE  /\ CandidateSeen(cand[d], curr, Done')
               /\ CandidateHit(cand[d], curr)
               /\ curr'[c] = [tri |-> yes, val |-> cand[d].value]
    <3>1. CandidateSeen(cand[d], curr, Done)
      BY <1>2, <2>2, CandidateReady DEF Candidate, MoreCandidates
    <3> QED
      BY <1>1, <1>2, <1>7, <2>2, <3>1 DEF CandidateSeen, TypeInv, TypeOK
  <2>3. d > Len(cand) => curr'[c] = [tri |-> no, val |-> NoVal]
    BY <1>1, <1>2, <1>4 DEF TypeInv, TypeOK
  <2> QED
    BY <1>4, <1>9, <2>1, <2>2, <2>3 DEF MemberFound
<1>11. Sound(c, user, isNew, curr', Done')
  <2>1. VisibilityWants(c) \subseteq Done /\ Base(c, user, isNew, curr, 1).tri = yes
    BY <1>3 DEF TryingSound
  <2>2. SameSetting(c, user, isNew, user, isNew) /\ Type[c] = "boolean"
    BY <1>3 DEF SameSetting, SameNew, PlainChoices
  <2>3. Base(c, user, isNew, curr', 1) = Base(c, user, isNew, curr, 1)
    BY <1>3, <1>8, <2>1, <2>2, ChoiceBase
  <2> QED
    BY <1>3, <1>7, <1>10, <2>1, <2>3 DEF Sound, ChoiceSound
<1>12. \A x \in Sym : phase[x] = "value" => visible'[x] = visible[x]
  BY <1>1, <1>2, CandidateVisibleSame
<1>13. Calculated'
  BY <1>1, <1>2, <1>5, <1>7, <1>11, <1>12, CalculatedKeep
<1>14. Chain(Rank)'
  BY <1>1, <1>2, ChainReturn
<1>15. Settings'
  <2>1. curr'[c].tri # mod
    BY <1>1, <1>2, <1>4 DEF TypeInv, TypeOK
  <2>2. NeverModNow(curr')
    BY <1>1, <1>5, <2>1 DEF Settings, NeverModNow
  <2> QED
    BY <1>1, <1>2, <2>2 DEF Settings
<1> QED
  BY <1>13, <1>14, <1>15 DEF Coherent

-----------------------------------------------------------------------------
(* So does every step of a front end.                                      *)
LEMMA ForgetCoherent ==
  ASSUME NEW Rank, Coherent(Rank), TypeInv', top = NoSym, valid' = {},
         UNCHANGED <<curr, revdep, calls>>, Settings'
  PROVE  Coherent(Rank)'
<1>1. \A x \in Sym : phase'[x] = "idle"
  BY DEF Coherent, Chain, Busy, calls
<1>2. Done' = {}
  BY DEF Done, Settled
<1>3. Calculated'
  BY <1>1, <1>2 DEF Calculated
<1>4. Chain(Rank)'
  BY <1>1 DEF Chain, Busy, calls
<1> QED
  BY <1>3, <1>4 DEF Coherent

LEMMA StayCoherent ==
  ASSUME NEW Rank, Coherent(Rank), TypeInv', top = NoSym,
         UNCHANGED <<valid, curr, calls>>, Settings',
         \A x \in Done : Sound(x, user', isNew', curr, Done)
  PROVE  Coherent(Rank)'
<1>1. \A x \in Sym : phase[x] = "idle" /\ phase'[x] = "idle"
  BY DEF Coherent, Chain, Busy, calls
<1>2. Done' = Done
  BY <1>1 DEF Done, Settled
<1>3. Calculated'
  BY <1>1, <1>2 DEF Calculated
<1>4. Chain(Rank)'
  BY <1>1 DEF Chain, Busy, calls
<1> QED
  BY <1>3, <1>4 DEF Coherent

LEMMA SetTristateCoherent ==
  ASSUME NEW Rank \in [Sym -> Nat], PlainChoices, Coherent(Rank), TypeInv',
         NEW s \in Sym, NEW v \in Tri, sym_set_tristate_value(s, v)
  PROVE  Coherent(Rank)'
<1> DEFINE c == ChoiceOf(s)
           told == s \in ChoiceValue /\ v = yes
<1>1. TypeInv /\ Chain(Rank) /\ Calculated /\ Settings /\ user \in Valuation /\ curr \in Valuation
  BY DEF Coherent, Valuation, TypeInv, TypeOK
<1>2. /\ top = NoSym /\ s \in valid /\ ~IsString(s)
      /\ user' = Setting(s, v)
      /\ isNew' = isNew \ ({s} \cup IF told THEN {c} ELSE {})
      /\ curr[s].tri # v => valid' = {}
      /\ curr[s].tri = v => valid' = valid
      /\ UNCHANGED <<curr, visible, revdep, calls>>
  BY DEF sym_set_tristate_value, AtRest, sym_clear_all_valid
<1>3. s \in ChoiceValue => c \in Choice /\ c \in Sym /\ s \in MembersOf(c) /\ c # s
  BY ChoiceOfType, FileAssumption, TypesAssumption DEF FileAssumption, TypesAssumption
<1>4. /\ user'[s].tri = v /\ user'[s].val = user[s].val
      /\ told => user'[c].tri = user[c].tri /\ user'[c].val = s
      /\ \A x \in Sym \ ({s} \cup IF told THEN {c} ELSE {}) : user'[x] = user[x]
  <2>1. CASE told
    BY <1>1, <1>2, <1>3, <2>1 DEF Setting, Valuation, SymbolValue
  <2>2. CASE ~told
    BY <1>1, <1>2, <2>2 DEF Setting, Valuation, SymbolValue
  <2> QED
    BY <2>1, <2>2
<1>5. Settings'
  <2>1. MemberAnswers(user')
    <3> SUFFICES ASSUME NEW x \in Choice, user'[x].val \in Sym
                 PROVE  user'[x].val \in MembersOf(x)
      BY DEF MemberAnswers
    <3>1. x \in Sym
      BY FileAssumption DEF FileAssumption
    <3>2. user'[x].val = user[x].val \/ (told /\ x = c)
      BY <1>4, <3>1
    <3> QED
      BY <1>1, <1>3, <1>4, <3>2 DEF Settings, MemberAnswers
  <2>2. NewAnswers(user', isNew')
    <3> SUFFICES ASSUME NEW x \in isNew', IsString(x) PROVE user'[x].val \notin Str
      BY DEF NewAnswers
    <3>1. x \in isNew /\ x \in Sym /\ x # s /\ (told => x # c)
      BY <1>1, <1>2 DEF TypeInv, TypeOK
    <3> QED
      BY <1>1, <1>4, <3>1 DEF Settings, NewAnswers
  <2> QED
    BY <1>1, <1>2, <2>1, <2>2 DEF Settings
<1>6. CASE curr[s].tri # v
  BY <1>1, <1>2, <1>5, <1>6, ForgetCoherent
<1>7. CASE curr[s].tri = v
  <2>1. s \in Done
    BY <1>1, <1>2 DEF Done, Settled, Chain, Busy
  <2>2. \A x \in Done : x \in Sym /\ Sound(x, user, isNew, curr, Done)
    BY <1>1 DEF Calculated, Done
  <2>3. NeverModNow(curr) /\ MemberAnswers(user)
    BY <1>1 DEF Settings
  <2>4. ASSUME NEW x \in Done PROVE Sound(x, user', isNew', curr, Done)
    <3>1. CASE x = s
      <4>1. s \notin isNew' /\ user'[s].tri = curr[s].tri
        BY <1>2, <1>4, <1>7
      <4>2. CASE s \in ChoiceValue
        BY <1>1, <2>2, <2>3, <3>1, <4>2, SetMember
      <4>3. CASE s \in Choice
        <5>1. Type[s] = "boolean"
          BY <4>3 DEF PlainChoices
        <5> QED
          BY <1>1, <1>4, <2>2, <3>1, <4>1, <4>3, <5>1, SetChoice
      <4>4. CASE s \notin Choice /\ s \notin ChoiceValue
        BY <1>1, <1>2, <2>2, <3>1, <4>1, <4>4, SetTristate
      <4> QED
        BY <4>2, <4>3, <4>4
    <3>2. CASE told /\ x = c
      <4>1. curr[c].val = s
        <5>1. curr[s].tri = yes
          BY <1>7, <3>2
        <5> QED
          <6>1. Sound(s, user, isNew, curr, Done) /\ s \in ChoiceValue
            BY <2>1, <2>2, <3>2
          <6>2. curr[s] = [tri |-> IF Vis(s, curr) = yes /\ curr[c].val = s THEN yes ELSE no,
                           val |-> NoVal]
            BY <1>1, <2>3, <6>1, SoundMember
          <6> QED
            BY <5>1, <6>2
      <4>2. c \notin isNew' /\ Type[c] = "boolean"
        BY <1>2, <1>3, <3>2 DEF PlainChoices
      <4> QED
        BY <1>1, <1>3, <1>4, <2>2, <2>3, <3>2, <4>1, <4>2, ChooseAgain DEF MemberAnswers
    <3>3. CASE x # s /\ ~(told /\ x = c)
      <4>1. x \in Sym /\ Sound(x, user, isNew, curr, Done)
        BY <2>2
      <4>2. SameSetting(x, user, isNew, user', isNew')
        BY <1>2, <1>4, <3>3, <4>1 DEF SameSetting, SameNew
      <4>3. Agree(Done, curr, curr) /\ Done \in SUBSET Sym
        BY DEF Agree, Done
      <4>4. \A e \in Choice : Type[e] = "boolean"
        BY DEF PlainChoices
      <4> QED
        BY <1>1, <2>3, <4>1, <4>2, <4>3, <4>4, SoundSame
    <3> QED
      BY <3>1, <3>2, <3>3
  <2> QED
    BY <1>1, <1>2, <1>5, <1>7, <2>4, StayCoherent
<1> QED
  BY <1>6, <1>7

LEMMA SetStringCoherent ==
  ASSUME NEW Rank \in [Sym -> Nat], PlainChoices, Coherent(Rank), TypeInv',
         NEW s \in Sym, NEW str \in Str, sym_set_string_value(s, str)
  PROVE  Coherent(Rank)'
<1>1. TypeInv /\ Chain(Rank) /\ Calculated /\ Settings /\ user \in Valuation /\ curr \in Valuation
  BY DEF Coherent, Valuation, TypeInv, TypeOK
<1>2. /\ top = NoSym /\ s \in valid /\ IsString(s) /\ s \notin Choice
      /\ user' = [user EXCEPT ![s].val = str] /\ isNew' = isNew \ {s}
      /\ user[s].val # str => valid' = {}
      /\ user[s].val = str => valid' = valid
      /\ UNCHANGED <<curr, visible, revdep, calls>>
  BY TypesAssumption DEF TypesAssumption, sym_set_string_value, AtRest, sym_clear_all_valid
<1>3. user'[s] = [user[s] EXCEPT !.val = str] /\ \A x \in Sym \ {s} : user'[x] = user[x]
  BY <1>1, <1>2 DEF Valuation
<1>4. Settings'
  <2>1. MemberAnswers(user')
    <3>1. \A x \in Choice : x \in Sym /\ x # s
      BY <1>2, FileAssumption DEF FileAssumption
    <3> QED
      BY <1>1, <1>3, <3>1 DEF Settings, MemberAnswers
  <2>2. NewAnswers(user', isNew')
    <3>1. \A x \in isNew' : x \in Sym \ {s} /\ x \in isNew
      BY <1>1, <1>2 DEF TypeInv, TypeOK
    <3> QED
      BY <1>1, <1>3, <3>1 DEF Settings, NewAnswers
  <2> QED
    BY <1>1, <1>2, <2>1, <2>2 DEF Settings
<1>5. CASE user[s].val # str
  BY <1>1, <1>2, <1>4, <1>5, ForgetCoherent
<1>6. CASE user[s].val = str
  <2>1. s \notin isNew
    BY <1>1, <1>2, <1>6 DEF Settings, NewAnswers
  <2>2. isNew' = isNew
    BY <1>2, <2>1
  <2>3. user'[s] = user[s]
    BY <1>1, <1>3, <1>6 DEF Valuation, SymbolValue
  <2>4. user' = user
    BY <1>1, <1>2, <1>3, <2>3 DEF Valuation
  <2>5. \A x \in Done : Sound(x, user', isNew', curr, Done)
    BY <1>1, <2>2, <2>4 DEF Calculated
  <2> QED
    BY <1>1, <1>2, <1>4, <1>6, <2>5, StayCoherent
<1> QED
  BY <1>5, <1>6

-----------------------------------------------------------------------------
LEMMA CoherentInit ==
  ASSUME NEW Rank, ProperLoaded, Init
  PROVE  Coherent(Rank)
<1>1. TypeInv
  BY TypeInit
<1>2. PICK l \in Loaded : user = l.user /\ isNew = l.isNew
  BY DEF Init
<1>3. MemberAnswers(user) /\ NewAnswers(user, isNew)
  BY <1>2 DEF ProperLoaded, MemberAnswers, NewAnswers
<1>4. Chain(Rank) /\ Calculated
  BY DEF Init, CacheInit, Chain, Busy, Calculated, Done, Settled
<1>5. Settings
  <2>1. \A v \in ChoiceValue : v \in Sym
    BY ChoiceOfType, MembersType
  <2> QED
    BY <1>3, <2>1 DEF Init, CacheInit, Settings, NeverModNow, Unset
<1> QED
  BY <1>1, <1>4, <1>5 DEF Coherent

LEMMA CoherentStep ==
  ASSUME NEW Rank \in [Sym -> Nat], Acyclic(Rank), PlainChoices, Coherent(Rank), [Next]_vars
  PROVE  Coherent(Rank)'
<1>1. TypeInv'
  BY TypeStep DEF Coherent
<1>2. CASE Engine
  <2>1. PICK s \in Sym : \/ Call(s) \/ sym_calc_visibility(s) \/ NextDefault(s)
                         \/ sym_calc_value(s) \/ NextCandidate(s) \/ sym_calc_choice(s)
    BY <1>2 DEF Engine
  <2> QED
    BY <1>1, <2>1, CallCoherent, VisibilityCoherent, NextDefaultCoherent, ValueCoherent,
       NextCandidateCoherent, ChoiceCoherent
<1>3. CASE FrontEnd
  <2>1. ASSUME NEW s \in Sym, menu_is_visible(s) PROVE Coherent(Rank)'
    <3>1. Enter(s, top) /\ top = NoSym /\ UNCHANGED settings
      BY <2>1 DEF menu_is_visible, AtRest
    <3> QED
      BY <1>1, <3>1, EnterCoherent
  <2>2. ASSUME NEW s \in Sym, NEW v \in Tri, sym_set_tristate_value(s, v)
        PROVE  Coherent(Rank)'
    BY <1>1, <2>2, SetTristateCoherent
  <2>3. ASSUME NEW s \in Sym, NEW str \in Str, sym_set_string_value(s, str)
        PROVE  Coherent(Rank)'
    BY <1>1, <2>3, SetStringCoherent
  <2> QED
    BY <1>3, <2>1, <2>2, <2>3 DEF FrontEnd
<1>4. CASE UNCHANGED vars
  <2>1. UNCHANGED <<user, isNew, valid, curr, visible, revdep, phase, at, caller, top>>
    BY <1>4 DEF vars, settings, calls
  <2>2. Done' = Done
    BY <2>1 DEF Done, Settled
  <2>3. Chain(Rank)' /\ Calculated' /\ Settings'
    BY <2>1, <2>2 DEF Coherent, Chain, Busy, Calculated, Settings
  <2> QED
    BY <1>1, <2>3 DEF Coherent
<1> QED
  BY <1>2, <1>3, <1>4 DEF Next

LEMMA CoherentCache ==
  ASSUME NEW Rank, PlainChoices, Coherent(Rank)
  PROVE  CacheCoherent
<1> SUFFICES ASSUME NEW s \in Sym, Settled(s) PROVE curr[s] = TrueValue(s)
  BY DEF CacheCoherent
<1>1. Sound(s, user, isNew, curr, Done)
  BY DEF Coherent, Calculated, Done
<1>2. \A c \in Choice : Type[c] = "boolean"
  BY DEF PlainChoices
<1> QED
  BY <1>1, <1>2, SoundTrue DEF Coherent, Settings

LEMMA CoherentExclusive ==
  ASSUME NEW Rank \in [Sym -> Nat], Acyclic(Rank), PlainChoices, Coherent(Rank)
  PROVE  ChoiceExclusive
<1> SUFFICES ASSUME NEW c \in Choice, Settled(c), \A v \in MembersOf(c) : Settled(v)
             PROVE  {v \in MembersOf(c) : curr[v].tri = yes}
                      = IF curr[c].tri = yes THEN {curr[c].val} ELSE {}
  BY DEF ChoiceExclusive
<1>1. /\ TypeInv /\ Calculated /\ NeverModNow(curr) /\ MemberAnswers(user)
      /\ curr \in Valuation /\ c \in Sym /\ MembersOf(c) \subseteq Sym
  BY MembersType, FileAssumption
     DEF Coherent, Settings, TypeInv, TypeOK, Valuation, FileAssumption
<1>2. ASSUME NEW v \in MembersOf(c)
      PROVE  curr[v].tri = yes <=> Vis(v, curr) = yes /\ curr[c].val = v
  <2>1. v \in ChoiceValue /\ ChoiceOf(v) = c
    BY MemberOfChoice
  <2>2. Sound(v, user, isNew, curr, Done)
    BY <1>1 DEF Calculated, Done
  <2>3. curr[v] = [tri |-> IF Vis(v, curr) = yes /\ curr[ChoiceOf(v)].val = v THEN yes ELSE no,
                   val |-> NoVal]
    BY <1>1, <2>1, <2>2, SoundMember
  <2> QED
    BY <2>1, <2>3
<1>3. CASE curr[c].tri = yes
  <2> DEFINE O == OpenAt(c, curr)
             cand == Candidates(c, user[c].val)
             w == curr[c].val
  <2>1. ChoiceSound(c, user, isNew, curr, Done)
    BY <1>1 DEF Calculated, Done, Sound
  <2>2. MemberFound(c, user, curr, Done)
    <3>1. Base(c, user, isNew, curr, 1).tri = yes
      BY <1>3, <2>1 DEF ChoiceSound
    <3> QED
      BY <2>1, <3>1 DEF ChoiceSound
  <2>3. w \in MembersOf(c) /\ EvalExpr(VisExpr(w), O) # no
    <3>1. PICK d \in 1 .. Len(cand) + 1 :
            /\ d <= Len(cand) => CandidateHit(cand[d], O) /\ w = cand[d].value
            /\ d > Len(cand) => curr[c] = [tri |-> no, val |-> NoVal]
      BY <2>2 DEF MemberFound
    <3>2. Len(cand) \in Nat
      BY CandidatesLen
    <3>3. d \in 1 .. Len(cand)
      BY <1>3, <3>1, <3>2
    <3>4. cand[d].value \in MembersOf(c)
      BY <1>1, <3>3, CandidateMember DEF MemberAnswers
    <3> QED
      BY <3>1, <3>3, <3>4 DEF CandidateHit
  <2>4. w \in ChoiceValue /\ ChoiceOf(w) = c
    BY <2>3, MemberOfChoice
  <2>5. ASSUME NEW cl \in VisExpr(w), NEW l \in cl
        PROVE  LitValue(l, curr) = LitValue(l, O)
    <3>1. PICK cl2 \in Prompt[w] : cl = cl2 \cup {Is(c)}
      BY <2>4 DEF VisExpr, AndLit
    <3>2. CASE l = Is(c)
      BY <1>1, <1>3, <3>2 DEF Is, LitValue, OpenAt, Valuation
    <3>3. CASE l \in cl2
      <4>1. l.op # "const" => l.sym \in ExprSyms(Prompt[w])
        BY <3>3 DEF ExprSyms
      <4>2. ExprSyms(Prompt[w]) \subseteq PromptSyms(c)
        BY <2>3 DEF PromptSyms
      <4>3. l.op # "const" => l.sym \in DependsOn(c)
        BY <4>1, <4>2 DEF DependsOn
      <4>4. l.op # "const" => l.sym # c
        BY <1>1, <4>3, DependsType
      <4>5. l.op # "const" => O[l.sym] = curr[l.sym]
        <5>1. ExprSyms(Prompt[w]) \subseteq Sym
          BY <1>1, <2>3, ExprSymsType, FileAssumption DEF FileAssumption
        <5> QED
          BY <1>1, <4>1, <4>4, <5>1 DEF OpenAt, Valuation
      <4> QED
        BY <4>5, LitSame
    <3> QED
      BY <3>1, <3>2, <3>3
  <2>6. Vis(w, curr) # no
    <3>1. EvalExpr(VisExpr(w), curr) = EvalExpr(VisExpr(w), O)
      BY <2>5, EvalSame
    <3> QED
      BY <2>3, <3>1 DEF Vis
  <2>7. Vis(w, curr) = yes
    BY <1>1, <2>4, <2>6, MemberNeverMod
  <2> QED
    BY <1>2, <1>3, <2>3, <2>7
<1>4. CASE curr[c].tri # yes
  <2>1. curr[c].tri = no
    <3>1. Type[c] = "boolean"
      BY DEF PlainChoices
    <3>2. curr[c].tri \in Tri
      BY <1>1 DEF Valuation, SymbolValue
    <3> QED
      BY <1>1, <1>4, <3>1, <3>2 DEF NeverModNow
  <2>2. \A v \in MembersOf(c) : Vis(v, curr) = no
    BY <2>1, MemberOfChoice, ClosedChoice
  <2> QED
    BY <1>2, <1>4, <2>2
<1> QED
  BY <1>3, <1>4

(* In every file whose dependencies are acyclic and whose choices are      *)
(* plain, a value marked valid equals what a calculation from scratch      *)
(* would find, though the setters leave the marks of all symbols alone     *)
(* when a symbol is set to the value it has (symbol.c:389-394, 532-551).   *)
THEOREM CacheIsCoherent ==
  ASSUME NEW Rank \in [Sym -> Nat], Acyclic(Rank), PlainChoices, ProperLoaded
  PROVE  Spec => []CacheCoherent
<1>1. Init => Coherent(Rank)
  BY CoherentInit
<1>2. Coherent(Rank) /\ [Next]_vars => Coherent(Rank)'
  BY CoherentStep
<1>3. Coherent(Rank) => CacheCoherent
  BY CoherentCache
<1> QED
  BY <1>1, <1>2, <1>3, PTL DEF Spec

(* In those files a choice that is y has exactly one member that is y, the *)
(* chosen one, and a choice that is not y has none, once all of them are   *)
(* calculated (symbol.c:225-268, 291-298).                                 *)
THEOREM ChoiceIsExclusive ==
  ASSUME NEW Rank \in [Sym -> Nat], Acyclic(Rank), PlainChoices, ProperLoaded
  PROVE  Spec => []ChoiceExclusive
<1>1. Init => Coherent(Rank)
  BY CoherentInit
<1>2. Coherent(Rank) /\ [Next]_vars => Coherent(Rank)'
  BY CoherentStep
<1>3. Coherent(Rank) => ChoiceExclusive
  BY CoherentExclusive
<1> QED
  BY <1>1, <1>2, <1>3, PTL DEF Spec

-----------------------------------------------------------------------------
(***************************************************************************)
(* What the tool accepted is what it shows: for every file without         *)
(* circular dependencies whose choices are plain and not optional,         *)
(* RequestHonoured and WithinBounds are invariants of the symbol engine.   *)
(***************************************************************************)

(* The cached visibility and reverse dependency are those of the settled   *)
(* values, m being y for a boolean.                                        *)
Bool(s, C) == IsBoolean(s, Vis(s, C), C)
LimitsOf(s) == /\ visible[s] = Promote(Bool(s, curr), Vis(s, curr))
               /\ revdep[s] = Promote(Bool(s, curr), Rev(s, curr))
Limited == {s \in Sym : s \in Done \/ phase[s] = "choice"}
Limits == \A s \in Limited : LimitsOf(s)

LEMMA LimitedAsks ==
  ASSUME NEW Rank, PlainChoices, Coherent(Rank), NEW s \in Limited
  PROVE  VisibilityWants(s) \subseteq Done /\ TypeSyms(s, curr) \subseteq Done
<1>1. CASE phase[s] = "choice"
  <2>1. s \in Choice /\ TryingSound(s, user, isNew, curr, Done, at[s])
    BY <1>1 DEF Coherent, Calculated, TypeInv, Limited
  <2> QED
    BY <2>1 DEF TryingSound, PlainChoices, TypeSyms
<1>2. CASE s \in Done
  <2>1. Sound(s, user, isNew, curr, Done)
    BY <1>2 DEF Coherent, Calculated
  <2> QED
    BY <2>1 DEF Sound, ChoiceSound, PlainSound, PlainChoices, TypeSyms
<1> QED
  BY <1>1, <1>2 DEF Limited

LEMMA BoolSame ==
  ASSUME NEW s \in Sym, NEW S, NEW C, NEW C2, Agree(S, C, C2),
         VisibilityWants(s) \subseteq S, TypeSyms(s, C) \subseteq S
  PROVE  Vis(s, C2) = Vis(s, C) /\ Rev(s, C2) = Rev(s, C) /\ Bool(s, C2) = Bool(s, C)
<1>1. Vis(s, C2) = Vis(s, C) /\ Rev(s, C2) = Rev(s, C)
  BY VisSame
<1>2. Type[s] = "tristate" /\ ~ChosenByChoice(s, Vis(s, C)) /\ Modules \in Sym
        => C[Modules] = C2[Modules]
  BY DEF TypeSyms, Agree
<1> QED
  BY <1>1, <1>2, BooleanSame DEF Bool

LEMMA LimitsOfSame ==
  ASSUME NEW s \in Sym, NEW S, Agree(S, curr, curr'),
         VisibilityWants(s) \subseteq S, TypeSyms(s, curr) \subseteq S,
         visible'[s] = Promote(Bool(s, curr), Vis(s, curr)),
         revdep'[s] = Promote(Bool(s, curr), Rev(s, curr))
  PROVE  LimitsOf(s)'
<1>1. Vis(s, curr') = Vis(s, curr) /\ Rev(s, curr') = Rev(s, curr) /\ Bool(s, curr') = Bool(s, curr)
  BY BoolSame
<1> QED
  BY <1>1 DEF LimitsOf

LEMMA LimitsKeep ==
  ASSUME NEW Rank, PlainChoices, Coherent(Rank), Limits, Agree(Done, curr, curr'),
         \A x \in Limited' : \/ LimitsOf(x)'
                             \/ /\ x \in Limited /\ visible'[x] = visible[x]
                                /\ revdep'[x] = revdep[x]
  PROVE  Limits'
<1> SUFFICES ASSUME NEW x \in Limited' PROVE LimitsOf(x)'
  BY DEF Limits
<1>1. CASE x \in Limited /\ visible'[x] = visible[x] /\ revdep'[x] = revdep[x]
  <2>1. VisibilityWants(x) \subseteq Done /\ TypeSyms(x, curr) \subseteq Done /\ x \in Sym
    BY <1>1, LimitedAsks DEF Limited
  <2>2. visible'[x] = Promote(Bool(x, curr), Vis(x, curr)) /\ revdep'[x] = Promote(Bool(x, curr), Rev(x, curr))
    BY <1>1 DEF Limits, LimitsOf
  <2> HIDE DEF Done
  <2> QED
    BY <2>1, <2>2, LimitsOfSame
<1> QED
  BY <1>1

-----------------------------------------------------------------------------
(* What a step of a calculation changes: at most one symbol, not settled   *)
(* before, gets a value.                                                   *)
Calculates == Engine \/ \E s \in Sym : menu_is_visible(s)

LEMMA CalculationKeeps ==
  ASSUME NEW Rank \in [Sym -> Nat], Coherent(Rank), TypeInv', Calculates
  PROVE  /\ UNCHANGED settings /\ Done \subseteq Done' /\ Agree(Done, curr, curr')
         /\ \E s \in Sym : Done' \subseteq Done \cup {s}
<1> USE DEF Coherent, TypeInv, TypeOK
<1>1. ASSUME NEW s \in Sym, NEW by, Enter(s, by), UNCHANGED settings
      PROVE  Done' = Done /\ curr' = curr
  BY <1>1 DEF Enter, Done, Settled
<1>2. ASSUME NEW s \in Sym, Call(s) \/ menu_is_visible(s)
      PROVE  Done' = Done /\ curr' = curr /\ UNCHANGED settings
  <2>1. CASE Call(s)
    <3>1. PICK t \in Wants(s) : Enter(t, s)
      BY <2>1 DEF Call
    <3>2. t \in Sym
      BY <3>1, WantsType
    <3> QED
      BY <1>1, <2>1, <3>1, <3>2 DEF Call
  <2>2. CASE menu_is_visible(s)
    BY <1>1, <2>2 DEF menu_is_visible
  <2> QED
    BY <1>2, <2>1, <2>2
<1>3. ASSUME NEW s \in Sym, sym_calc_visibility(s) \/ NextDefault(s) \/ NextCandidate(s)
      PROVE  Done' = Done /\ Agree(Done, curr, curr') /\ UNCHANGED settings
  BY <1>3 DEF sym_calc_visibility, NextDefault, NextCandidate, Ready, Done, Settled, Agree
<1>4. ASSUME NEW s \in Sym, sym_calc_value(s) \/ sym_calc_choice(s)
      PROVE  /\ UNCHANGED settings /\ Done \subseteq Done' /\ Agree(Done, curr, curr')
             /\ Done' \subseteq Done \cup {s}
  <2>1. UNCHANGED settings /\ UNCHANGED valid /\ phase[s] # "idle"
    BY <1>4 DEF sym_calc_value, sym_calc_choice, Ready
  <2>2. \A x \in Sym \ {s} : curr'[x] = curr[x]
    BY <1>4 DEF sym_calc_value, sym_calc_choice
  <2>3. \A x \in Sym \ {s} : phase'[x] = phase[x]
    BY <1>4 DEF sym_calc_value, sym_calc_choice, Return
  <2> QED
    BY <2>1, <2>2, <2>3 DEF Done, Settled, Agree
<1>5. \A x : Agree(Done, x, x)
  BY DEF Agree
<1> QED
  BY <1>2, <1>3, <1>4, <1>5 DEF Calculates, Engine

LEMMA CalculationLimits ==
  ASSUME NEW Rank \in [Sym -> Nat], Acyclic(Rank), PlainChoices, Coherent(Rank), TypeInv',
         Limits, Calculates
  PROVE  Limits'
<1> USE DEF TypeInv, TypeOK
<1>1. /\ TypeInv /\ MemberAnswers(user) /\ Chain(Rank) /\ Calculated /\ Settings
      /\ Agree(Done, curr, curr') /\ Done \subseteq Done'
  BY CalculationKeeps DEF Coherent, Settings
<1>2. ASSUME NEW s \in Sym, NEW by, Enter(s, by)
      PROVE  Limits'
  <2>1. UNCHANGED <<curr, visible, revdep>> /\ Limited' \subseteq Limited
    BY <1>1, <1>2 DEF Enter, Limited, Done, Settled
  <2> QED
    BY <1>1, <2>1, LimitsKeep
<1>3. ASSUME NEW s \in Sym, sym_calc_visibility(s)
      PROVE  Limits'
  <2>1. Limited' \subseteq Limited \ {s} /\ \A x \in Sym \ {s} : visible'[x] = visible[x] /\ revdep'[x] = revdep[x]
    BY <1>1, <1>3 DEF sym_calc_visibility, Ready, Limited, Done, Settled
  <2> QED
    BY <1>1, <2>1, LimitsKeep DEF Limited
<1>4. ASSUME NEW s \in Sym, NextDefault(s)
      PROVE  Limits'
  <2>1. Limited' = Limited /\ UNCHANGED <<visible, revdep>>
    BY <1>1, <1>4 DEF NextDefault, Ready, Limited, Done, Settled
  <2> QED
    BY <1>1, <2>1, LimitsKeep
<1>5. ASSUME NEW s \in Sym, sym_calc_value(s)
      PROVE  Limits'
  <2>1. phase[s] = "value" /\ top = s /\ Wants(s) \subseteq valid
    BY <1>5 DEF sym_calc_value, Ready
  <2>2. ValueSound(s, isNew, curr, Done, visible[s], revdep[s], at[s])
    BY <1>1, <2>1 DEF Calculated
  <2>3. VisibilityWants(s) \subseteq Done /\ TypeSyms(s, curr) \subseteq Done
    <3>1. TypeWants(s) \subseteq Wants(s)
      BY <2>1 DEF Wants
    <3>2. TypeWants(s) = TypeSyms(s, curr)
      BY <2>2 DEF TypeWants, TypeSyms, ValueSound
    <3>3. Wants(s) \subseteq Done
      BY <1>1, <2>1, ReadyDone
    <3> QED
      BY <2>2, <3>1, <3>2, <3>3 DEF ValueSound
  <2>4. /\ visible'[s] = Promote(Bool(s, curr), Vis(s, curr))
        /\ revdep'[s] = Promote(Bool(s, curr), Rev(s, curr))
    <3>1. visible[s] = Vis(s, curr) /\ revdep[s] = Rev(s, curr)
      BY <2>2 DEF ValueSound
    <3>2. (~IsString(s) /\ IsBoolean(s, visible[s], curr)) = Bool(s, curr)
      BY <3>1 DEF Bool, IsString, IsBoolean
    <3>3. /\ visible' = [visible EXCEPT ![s] = Promote(~IsString(s) /\ IsBoolean(s, visible[s], curr), @)]
          /\ revdep' = [revdep EXCEPT ![s] = Promote(~IsString(s) /\ IsBoolean(s, visible[s], curr), @)]
      BY <1>5 DEF sym_calc_value
    <3> QED
      BY <1>1, <3>1, <3>2, <3>3
  <2>5. LimitsOf(s)'
    <3> HIDE DEF Done
    <3> QED
      BY <1>1, <2>3, <2>4, LimitsOfSame
  <2>6. \A x \in Sym \ {s} : visible'[x] = visible[x] /\ revdep'[x] = revdep[x] /\ phase'[x] = phase[x]
    BY <1>1, <1>5 DEF sym_calc_value, Return
  <2>7. \A x \in Limited' : x = s \/ (x \in Limited /\ visible'[x] = visible[x] /\ revdep'[x] = revdep[x])
    <3>1. valid' = valid
      BY <1>5 DEF sym_calc_value
    <3> QED
      BY <2>6, <3>1 DEF Limited, Done, Settled
  <2> QED
    BY <1>1, <2>5, <2>7, LimitsKeep
<1>6. ASSUME NEW c \in Sym, NEW x \in Limited, phase[c] = "choice", Ready(c, "choice"), MoreCandidates(c)
      PROVE  CandidateVisible(c)[x] = visible[x]
  <2> DEFINE v == Candidate(c).value
  <2>1. c \in Choice /\ v \in MembersOf(c) /\ v \in ChoiceValue /\ ChoiceOf(v) = c /\ v \in Sym
    BY <1>1, <1>6, CandidateReady, MemberOfChoice, MembersType DEF Coherent
  <2>2. CASE x = v
    <3>1. v \notin Choice
      BY <2>1, TypesAssumption DEF TypesAssumption
    <3>2. c \notin Done /\ VisibilityWants(v) \subseteq Done
      BY <1>6, <2>2, LimitedAsks DEF Done, Settled
    <3>3. c \notin ExprSyms(VisExpr(v))
      BY <3>2 DEF VisibilityWants
    <3>4. Vis(v, curr) = no
      BY <2>1, <3>3, MemberAsksChoice
    <3>5. visible[v] = no
      BY <1>6, <2>2, <3>4 DEF Limits, LimitsOf, Promote
    <3> QED
      BY <1>1, <2>1, <2>2, <3>4, <3>5 DEF CandidateVisible, Vis
  <2>3. CASE x # v
    BY <1>1, <2>1, <2>3 DEF CandidateVisible, Limited
  <2> QED
    BY <2>2, <2>3
<1>7. ASSUME NEW c \in Sym, NextCandidate(c)
      PROVE  Limits'
  <2>1. Limited' = Limited /\ visible' = CandidateVisible(c) /\ revdep' = revdep
    BY <1>1, <1>7 DEF NextCandidate, Ready, Limited, Done, Settled
  <2>2. Ready(c, "choice") /\ phase[c] = "choice" /\ MoreCandidates(c)
    BY <1>7 DEF NextCandidate, Ready
  <2> QED
    BY <1>1, <1>6, <2>1, <2>2, LimitsKeep
<1>8. ASSUME NEW c \in Sym, sym_calc_choice(c)
      PROVE  Limits'
  <2>1. /\ Ready(c, "choice") /\ phase[c] = "choice" /\ revdep' = revdep /\ valid' = valid
        /\ MoreCandidates(c) => visible' = CandidateVisible(c)
        /\ ~MoreCandidates(c) => visible' = visible
    BY <1>8 DEF sym_calc_choice, Ready
  <2>2. Limited' \subseteq Limited
    BY <1>1, <1>8, <2>1 DEF sym_calc_choice, Return, Limited, Done, Settled
  <2> QED
    BY <1>1, <1>6, <2>1, <2>2, LimitsKeep
<1>9. ASSUME NEW s \in Sym, Call(s) \/ menu_is_visible(s)
      PROVE  Limits'
  <2>1. Wants(s) \subseteq Sym
    BY <1>1, WantsType
  <2> QED
    BY <1>2, <1>9, <2>1 DEF Call, menu_is_visible
<1> QED
  BY <1>3, <1>4, <1>5, <1>7, <1>8, <1>9 DEF Calculates, Engine

LEMMA SettingLimits ==
  ASSUME NEW Rank, PlainChoices, Coherent(Rank), Limits, top = NoSym,
         UNCHANGED <<curr, visible, revdep, calls>>, valid' \in {valid, {}}
  PROVE  Limits'
<1>1. \A x \in Sym : phase[x] = "idle" /\ phase'[x] = "idle"
  BY DEF Coherent, Chain, Busy, calls
<1>2. Limited' \subseteq Limited
  BY <1>1 DEF Limited, Done, Settled
<1>3. Agree(Done, curr, curr')
  BY DEF Agree
<1> QED
  BY <1>2, <1>3, LimitsKeep

-----------------------------------------------------------------------------
(* A value lies between its limits.                                        *)
Between(v, vis, rev) == rev <= v /\ (vis # no => v <= EOr(vis, rev))

LEMMA PromoteBetween ==
  ASSUME NEW t \in Tri, NEW vis \in Tri, NEW rev \in Tri, NEW b \in BOOLEAN, Between(t, vis, rev)
  PROVE  Between(Promote(b, t), Promote(b, vis), Promote(b, rev))
BY DEF Between, Promote, EOr

LEMMA LimitBetween ==
  ASSUME NEW t \in Tri, NEW vis \in Tri, NEW rev \in Tri
  PROVE  Limit(t, vis, rev) \in Tri /\ Between(Limit(t, vis, rev), vis, rev)
BY DEF Between, Limit, EOr, EAnd

LEMMA BaseBounded ==
  ASSUME NEW s \in Sym, ~IsString(s), s \notin Choice, NEW C \in Valuation, NEW U \in Valuation, NEW N,
         NEW d \in Nat \ {0}
  PROVE  Between(Base(s, U, N, C, d).tri, Promote(Bool(s, C), Vis(s, C)), Promote(Bool(s, C), Rev(s, C)))
<1> DEFINE vis == Vis(s, C)
           rev == Rev(s, C)
           own == IF UsesDefault(s, s \notin N, vis, rev) THEN DefaultTri(s, d, C)
                  ELSE IF s \notin N THEN U[s].tri ELSE no
           t == BaseTri(s, U[s], s \notin N, vis, rev, d, C)
<1>1. vis \in Tri /\ rev \in Tri /\ Bool(s, C) \in BOOLEAN /\ own \in Tri
  BY EvalType DEF Vis, Rev, Bool, IsBoolean, DefaultTri, Valuation, SymbolValue
<1>2. Base(s, U, N, C, d).tri = Promote(Bool(s, C), t)
  BY DEF Base, BaseValue, Bool
<1>3. t \in Tri /\ Between(t, vis, rev)
  <2>1. CASE ChosenByChoice(s, vis)
    <3>1. vis = yes /\ rev = no /\ t \in {no, yes}
      BY <2>1 DEF ChosenByChoice, Rev, BaseTri
    <3> HIDE DEF t
    <3> QED
      BY <3>1 DEF Between, EOr
  <2>2. CASE ~ChosenByChoice(s, vis) /\ EOr(vis, rev) # no
    <3>1. t = Limit(own, vis, rev)
      BY <2>2 DEF BaseTri
    <3> HIDE DEF vis, rev, own, t
    <3> QED
      BY <1>1, <3>1, LimitBetween
  <2>3. CASE ~ChosenByChoice(s, vis) /\ EOr(vis, rev) = no
    <3>1. t = own
      BY <2>3 DEF BaseTri
    <3> HIDE DEF vis, rev, own, t
    <3> QED
      BY <1>1, <2>3, <3>1 DEF Between, EOr
  <2> QED
    BY <2>1, <2>2, <2>3
<1> HIDE DEF vis, rev, own, t
<1>4. Between(Promote(Bool(s, C), t), Promote(Bool(s, C), vis), Promote(Bool(s, C), rev))
  BY <1>1, <1>3, PromoteBetween
<1> QED
  BY <1>2, <1>4 DEF vis, rev

LEMMA CoherentBounds ==
  ASSUME NEW Rank, PlainChoices, Coherent(Rank), Limits
  PROVE  WithinBounds
<1> SUFFICES ASSUME NEW s \in Sym, Settled(s), ~IsString(s), s \notin Choice
             PROVE  /\ revdep[s] <= curr[s].tri
                    /\ visible[s] # no => curr[s].tri <= EOr(visible[s], revdep[s])
  BY DEF WithinBounds
<1>1. s \in Done /\ PlainSound(s, user, isNew, curr, Done) /\ LimitsOf(s)
  BY DEF Coherent, Calculated, Done, Sound, Limits, Limited
<1>2. PICK d \in 1 .. NumDefaults(s) + 1 : curr[s] = Base(s, user, isNew, curr, d)
  BY <1>1 DEF PlainSound
<1>3. d \in Nat \ {0} /\ user \in Valuation /\ curr \in Valuation
  BY DefaultsType DEF Coherent, TypeInv, TypeOK, Valuation
<1> QED
  BY <1>1, <1>2, <1>3, BaseBounded DEF LimitsOf, Between

LEMMA LimitsInit == Init => Limits
BY DEF Init, CacheInit, Limits, Limited, Done, Settled

LEMMA LimitsStep ==
  ASSUME NEW Rank \in [Sym -> Nat], Acyclic(Rank), PlainChoices, Coherent(Rank),
         Limits, [Next]_vars
  PROVE  Limits'
<1>1. TypeInv'
  BY TypeStep DEF Coherent
<1>2. CASE Calculates
  BY <1>1, <1>2, CalculationLimits
<1>3. ASSUME NEW s \in Sym, \/ \E v \in Tri : sym_set_tristate_value(s, v)
                           \/ \E str \in Str : sym_set_string_value(s, str)
      PROVE  Limits'
  <2>1. top = NoSym /\ UNCHANGED <<curr, visible, revdep, calls>> /\ valid' \in {valid, {}}
    BY <1>3 DEF sym_set_tristate_value, sym_set_string_value, AtRest, sym_clear_all_valid
  <2> QED
    BY <2>1, SettingLimits
<1>4. CASE UNCHANGED vars
  <2>1. UNCHANGED <<curr, visible, revdep>> /\ Limited' = Limited
    BY <1>4 DEF vars, calls, Limited, Done, Settled
  <2>2. Agree(Done, curr, curr')
    BY <2>1 DEF Agree
  <2> QED
    BY <2>1, <2>2, LimitsKeep
<1> QED
  BY <1>2, <1>3, <1>4 DEF Next, FrontEnd, Calculates

(* In every file whose dependencies are acyclic and whose choices are      *)
(* plain, a calculated boolean or tristate is at least what others select  *)
(* it to and, while it is visible, at most what its dependencies and those *)
(* selections allow; the limits are those sym_calc_value cached beside the *)
(* value (symbol.c:300-333, 341-350).                                      *)
THEOREM ValuesAreBounded ==
  ASSUME NEW Rank \in [Sym -> Nat], Acyclic(Rank), PlainChoices, ProperLoaded
  PROVE  Spec => []WithinBounds
<1> DEFINE Inv == Coherent(Rank) /\ Limits
<1>1. Init => Inv
  BY CoherentInit, LimitsInit
<1>2. Inv /\ [Next]_vars => Inv'
  BY CoherentStep, LimitsStep
<1>3. Inv => WithinBounds
  BY CoherentBounds
<1> QED
  BY <1>1, <1>2, <1>3, PTL DEF Spec

-----------------------------------------------------------------------------
(* Two sound values of a symbol that were calculated from values that      *)
(* agree are the same, whichever symbols were settled.                     *)
LEMMA CandidateDepends ==
  ASSUME NEW c \in Choice, NEW chosen, chosen \in Sym => chosen \in MembersOf(c),
         NEW d \in 1 .. Len(Candidates(c, chosen))
  PROVE  /\ ExprSyms(Candidates(c, chosen)[d].cond) \subseteq DependsOn(c)
         /\ ExprSyms(Prompt[Candidates(c, chosen)[d].value]) \subseteq DependsOn(c)
         /\ Candidates(c, chosen)[d].value \in MembersOf(c)
<1> DEFINE k == Candidates(c, chosen)[d]
<1>1. k \in MemberProp(c) /\ k.value \in MembersOf(c)
  BY CandidateMember
<1> HIDE DEF k
<1>2. ExprSyms(k.cond) \subseteq DependsOn(c)
  <2>1. CASE k.cond = TrueExpr
    BY <2>1 DEF TrueExpr, ExprSyms
  <2>2. CASE k.cond \in {Defaults[c][j].cond : j \in 1 .. NumDefaults(c)}
    BY <2>2 DEF DependsOn, CondSyms
  <2> QED
    BY <1>1, <2>1, <2>2 DEF MemberProp
<1>3. ExprSyms(Prompt[k.value]) \subseteq DependsOn(c)
  <2>1. PromptSyms(c) \subseteq DependsOn(c)
    BY DEF DependsOn
  <2>2. ExprSyms(Prompt[k.value]) \subseteq PromptSyms(c)
    BY <1>1 DEF PromptSyms
  <2> QED
    BY <2>1, <2>2
<1> QED
  BY <1>1, <1>2, <1>3 DEF k

LEMMA AskedBelow ==
  ASSUME NEW Rank \in [Sym -> Nat], Acyclic(Rank), NEW s \in Sym
  PROVE  /\ s \notin DependsOn(s)
         /\ VisibilityWants(s) \subseteq DependsOn(s)
         /\ \A C : TypeSyms(s, C) \subseteq DependsOn(s)
         /\ \A d \in 1 .. NumDefaults(s) :
              /\ ExprSyms(Defaults[s][d].cond) \subseteq DependsOn(s)
              /\ s \notin Choice => SymbolsOf(s, Defaults[s][d].value) \subseteq DependsOn(s)
<1>1. s \notin DependsOn(s)
  BY DependsType
<1>2. VisibilityWants(s) \subseteq DependsOn(s) /\ \A C : TypeSyms(s, C) \subseteq DependsOn(s)
  BY DEF DependsOn, TypeSyms
<1>3. ASSUME NEW d \in 1 .. NumDefaults(s)
      PROVE  ExprSyms(Defaults[s][d].cond) \subseteq DependsOn(s)
  <2>1. CondSyms(s) \subseteq DependsOn(s)
    BY DEF DependsOn
  <2> QED
    BY <2>1 DEF CondSyms
<1>4. ASSUME NEW d \in 1 .. NumDefaults(s), s \notin Choice
      PROVE  SymbolsOf(s, Defaults[s][d].value) \subseteq DependsOn(s)
  <2>1. DefaultSyms(s) \subseteq DependsOn(s)
    BY <1>4 DEF DependsOn
  <2> QED
    BY <2>1 DEF DefaultSyms
<1> QED
  BY <1>1, <1>2, <1>3, <1>4

(* The first default, and the first member, is the same.                   *)
LEMMA SameTaken ==
  ASSUME NEW Rank \in [Sym -> Nat], Acyclic(Rank), NEW s \in Sym,
         NEW C, NEW C2, NEW S, NEW S2, Agree(S \cap S2 \cap DependsOn(s), C, C2),
         NEW d \in 1 .. NumDefaults(s) + 1, NEW d2 \in 1 .. NumDefaults(s) + 1,
         DefaultTaken(s, d, C, S), DefaultTaken(s, d2, C2, S2)
  PROVE  d = d2
<1>1. NumDefaults(s) \in Nat
  BY DefaultsType
<1>2. ASSUME NEW j \in 1 .. NumDefaults(s),
             ExprSyms(Defaults[s][j].cond) \subseteq S, ExprSyms(Defaults[s][j].cond) \subseteq S2
      PROVE  DefaultHit(s, j, C) = DefaultHit(s, j, C2)
  <2>1. ExprSyms(Defaults[s][j].cond) \subseteq S \cap S2 \cap DependsOn(s)
    BY <1>2, AskedBelow
  <2> QED
    BY <2>1, Footprint DEF DefaultHit
<1>3. ~(d < d2)
  <2> SUFFICES ASSUME d < d2 PROVE FALSE
    OBVIOUS
  <2>1. d \in 1 .. NumDefaults(s) /\ d \in 1 .. d2 - 1
    BY <1>1
  <2> QED
    BY <1>2, <2>1 DEF DefaultTaken, DefaultTried
<1>4. ~(d2 < d)
  <2> SUFFICES ASSUME d2 < d PROVE FALSE
    OBVIOUS
  <2>1. d2 \in 1 .. NumDefaults(s) /\ d2 \in 1 .. d - 1
    BY <1>1
  <2> QED
    BY <1>2, <2>1 DEF DefaultTaken, DefaultTried
<1> QED
  BY <1>1, <1>3, <1>4

LEMMA SameMember ==
  ASSUME NEW Rank \in [Sym -> Nat], Acyclic(Rank), NEW c \in Choice,
         NEW U, U[c].val \in Sym => U[c].val \in MembersOf(c),
         NEW C \in Valuation, NEW C2 \in Valuation, NEW S \in SUBSET Sym, NEW S2 \in SUBSET Sym,
         Agree(S \cap S2 \cap DependsOn(c), C, C2), MemberFound(c, U, C, S), MemberFound(c, U, C2, S2)
  PROVE  C[c] = C2[c]
<1> DEFINE cand == Candidates(c, U[c].val)
           O == OpenAt(c, C)
           O2 == OpenAt(c, C2)
           T == S \cap S2 \cap DependsOn(c)
<1>1. c \in Sym /\ Len(cand) \in Nat
  BY CandidatesLen, FileAssumption DEF FileAssumption
<1>2. Agree(T, O, O2) /\ O[c] = O2[c]
  BY OpenSame DEF T, O, O2
<1>3. ASSUME NEW j \in 1 .. Len(cand), CandidateSeen(cand[j], O, S), CandidateSeen(cand[j], O2, S2)
      PROVE  CandidateHit(cand[j], O) = CandidateHit(cand[j], O2)
  <2>1. /\ ExprSyms(cand[j].cond) \subseteq DependsOn(c) /\ ExprSyms(Prompt[cand[j].value]) \subseteq DependsOn(c)
        /\ cand[j].value \in MembersOf(c) /\ c \notin DependsOn(c)
    BY <1>1, CandidateDepends, AskedBelow
  <2> HIDE DEF cand, O, O2
  <2>2. ExprSyms(cand[j].cond) \subseteq T
    BY <1>3, <2>1 DEF CandidateSeen, T
  <2>3. EvalExpr(cand[j].cond, O) = EvalExpr(cand[j].cond, O2)
    BY <1>2, <2>2, Footprint
  <2>4. CandidateSeen(cand[j], O, T)
    BY <1>3, <2>1, <2>2, <2>3 DEF CandidateSeen, T
  <2> HIDE DEF T
  <2> QED
    BY <1>2, <2>1, <2>4, CandidateSame
<1>4. PICK d \in 1 .. Len(cand) + 1 :
        /\ \A j \in 1 .. d - 1 : CandidateSeen(cand[j], O, S) /\ ~CandidateHit(cand[j], O)
        /\ d <= Len(cand) => /\ CandidateSeen(cand[d], O, S)
                             /\ CandidateHit(cand[d], O)
                             /\ C[c] = [tri |-> yes, val |-> cand[d].value]
        /\ d > Len(cand) => C[c] = [tri |-> no, val |-> NoVal]
  BY DEF MemberFound
<1>5. PICK d2 \in 1 .. Len(cand) + 1 :
        /\ \A j \in 1 .. d2 - 1 : CandidateSeen(cand[j], O2, S2) /\ ~CandidateHit(cand[j], O2)
        /\ d2 <= Len(cand) => /\ CandidateSeen(cand[d2], O2, S2)
                              /\ CandidateHit(cand[d2], O2)
                              /\ C2[c] = [tri |-> yes, val |-> cand[d2].value]
        /\ d2 > Len(cand) => C2[c] = [tri |-> no, val |-> NoVal]
  BY DEF MemberFound
<1> HIDE DEF cand, O, O2, T
<1>6. ~(d < d2)
  <2> SUFFICES ASSUME d < d2 PROVE FALSE
    OBVIOUS
  <2>1. d \in 1 .. Len(cand) /\ d \in 1 .. d2 - 1 /\ d <= Len(cand)
    BY <1>1
  <2> QED
    BY <1>3, <1>4, <1>5, <2>1
<1>7. ~(d2 < d)
  <2> SUFFICES ASSUME d2 < d PROVE FALSE
    OBVIOUS
  <2>1. d2 \in 1 .. Len(cand) /\ d2 \in 1 .. d - 1 /\ d2 <= Len(cand)
    BY <1>1
  <2> QED
    BY <1>3, <1>4, <1>5, <2>1
<1>8. d = d2
  BY <1>1, <1>6, <1>7
<1>9. d <= Len(cand) \/ d > Len(cand)
  BY <1>1
<1> QED
  BY <1>4, <1>5, <1>8, <1>9

LEMMA SoundUnique ==
  ASSUME NEW Rank \in [Sym -> Nat], Acyclic(Rank), PlainChoices, NEW s \in Sym,
         NEW U, NEW N, MemberAnswers(U),
         NEW C \in Valuation, NEW C2 \in Valuation, NEW S \in SUBSET Sym, NEW S2 \in SUBSET Sym,
         Agree(S \cap S2 \cap DependsOn(s), C, C2), Sound(s, U, N, C, S), Sound(s, U, N, C2, S2)
  PROVE  C[s] = C2[s]
<1> DEFINE T == S \cap S2 \cap DependsOn(s)
<1>0. SameSetting(s, U, N, U, N) /\ SameNew(s, N, N)
  BY DEF SameSetting, SameNew
<1>1. VisibilityWants(s) \subseteq T
  <2>1. VisibilityWants(s) \subseteq S /\ VisibilityWants(s) \subseteq S2
    BY DEF Sound, ChoiceSound, PlainSound
  <2> QED
    BY <2>1, AskedBelow
<1>2. CASE s \in Choice
  <2>1. Type[s] = "boolean" /\ (U[s].val \in Sym => U[s].val \in MembersOf(s))
    BY <1>2 DEF PlainChoices, MemberAnswers
  <2>2. Base(s, U, N, C, 1) = Base(s, U, N, C2, 1)
    <3> HIDE DEF T
    <3> QED
      BY <1>0, <1>1, <1>2, <2>1, ChoiceBase DEF T
  <2>3. CASE Base(s, U, N, C, 1).tri = yes
    <3>1. MemberFound(s, U, C, S) /\ MemberFound(s, U, C2, S2)
      BY <1>2, <2>2, <2>3 DEF Sound, ChoiceSound
    <3> QED
      BY <1>2, <2>1, <3>1, SameMember
  <2>4. CASE Base(s, U, N, C, 1).tri # yes
    BY <1>2, <2>2, <2>4 DEF Sound, ChoiceSound
  <2> QED
    BY <2>3, <2>4
<1>3. CASE s \notin Choice
  <2>1. PICK d \in 1 .. NumDefaults(s) + 1 :
          /\ C[s] = Base(s, U, N, C, d)
          /\ Uses(s, N, C) => DefaultTaken(s, d, C, S)
    BY <1>3 DEF Sound, PlainSound
  <2>2. PICK d2 \in 1 .. NumDefaults(s) + 1 :
          /\ C2[s] = Base(s, U, N, C2, d2)
          /\ Uses(s, N, C2) => DefaultTaken(s, d2, C2, S2)
    BY <1>3 DEF Sound, PlainSound
  <2>3. d \in Nat \ {0} /\ NumDefaults(s) \in Nat
    BY DefaultsType
  <2>4. Uses(s, N, C) = Uses(s, N, C2) /\ Vis(s, C) = Vis(s, C2)
    <3> HIDE DEF T
    <3> QED
      BY <1>0, <1>1, UsesSame, VisSame DEF T
  <2>5. TypeSyms(s, C) \subseteq T
    <3>1. TypeSyms(s, C) \subseteq S /\ TypeSyms(s, C2) \subseteq S2 /\ TypeSyms(s, C) = TypeSyms(s, C2)
      BY <1>3, <2>4 DEF Sound, PlainSound, TypeSyms
    <3> QED
      BY <3>1, AskedBelow
  <2>6. CASE Uses(s, N, C)
    <3>1. d = d2
      BY <2>1, <2>2, <2>4, <2>6, SameTaken
    <3>2. d <= NumDefaults(s) => SymbolsOf(s, Defaults[s][d].value) \subseteq T
      <4> SUFFICES ASSUME d <= NumDefaults(s) PROVE SymbolsOf(s, Defaults[s][d].value) \subseteq T
        OBVIOUS
      <4>1. d \in 1 .. NumDefaults(s)
        BY <2>3
      <4>2. SymbolsOf(s, Defaults[s][d].value) \subseteq S /\ SymbolsOf(s, Defaults[s][d].value) \subseteq S2
        BY <2>1, <2>2, <2>4, <2>6, <3>1 DEF DefaultTaken
      <4> QED
        BY <1>3, <4>1, <4>2, AskedBelow
    <3>3. Base(s, U, N, C, d) = Base(s, U, N, C2, d)
      <4> HIDE DEF T
      <4> QED
        BY <1>0, <1>1, <2>3, <2>5, <3>2, BaseSame DEF T
    <3> QED
      BY <2>1, <2>2, <3>1, <3>3
  <2>7. CASE ~Uses(s, N, C)
    <3>1. Base(s, U, N, C, d) = Base(s, U, N, C2, d)
      <4> HIDE DEF T
      <4> QED
        BY <1>0, <1>1, <2>3, <2>5, <2>7, BaseSame DEF T
    <3>2. Base(s, U, N, C2, d) = Base(s, U, N, C2, d2)
      BY <2>4, <2>7, NoDefaultUsed
    <3> QED
      BY <2>1, <2>2, <3>1, <3>2
  <2> QED
    BY <2>6, <2>7
<1> QED
  BY <1>2, <1>3
-----------------------------------------------------------------------------
(* A promise: with the settings U and N, symbol s will have the value w in *)
(* every sound calculation that finds the symbols of K as C has them.      *)
StrOf(s, C) == IF IsString(s) THEN C[s].val ELSE C[s].tri

Pledged(s, w, U, N, C, K) ==
  \A C2 \in Valuation, S2 \in SUBSET Sym :
    /\ NeverModNow(C2) /\ Agree(K \cap S2, C, C2)
    /\ s \in S2 /\ \A x \in S2 : Sound(x, U, N, C2, S2)
    => StrOf(s, C2) = w

(* The symbols of K depend only on each other: their values cannot differ. *)
Fixed(U, N, C, S, K) ==
  \A x \in K : Sound(x, U, N, C, S) /\ DependsOn(x) \cap S \subseteq K

Promise == asked # NoRequest =>
  \E C \in Valuation, S \in SUBSET Sym : \E K \in SUBSET S :
    /\ Fixed(user, isNew, C, S, K)
    /\ Agree(Done \cap K, curr, C)
    /\ Pledged(asked.sym, asked.want, user, isNew, C, K)

LEMMA PromiseHonoured ==
  ASSUME NEW Rank, Coherent(Rank), Promise
  PROVE  RequestHonoured
<1> SUFFICES ASSUME asked # NoRequest, Settled(asked.sym)
             PROVE  StringValue(asked.sym) = asked.want
  BY DEF RequestHonoured
<1>1. asked.sym \in Done /\ curr \in Valuation /\ NeverModNow(curr) /\ Done \in SUBSET Sym
      /\ \A x \in Done : Sound(x, user, isNew, curr, Done)
  BY DEF Coherent, Calculated, Settings, TypeInv, TypeOK, Valuation, Done, Settled
<1>2. PICK C \in Valuation, S \in SUBSET Sym : \E K \in SUBSET S :
        /\ Agree(Done \cap K, curr, C)
        /\ Pledged(asked.sym, asked.want, user, isNew, C, K)
  BY DEF Promise
<1>3. PICK K \in SUBSET S : /\ Agree(Done \cap K, curr, C)
                            /\ Pledged(asked.sym, asked.want, user, isNew, C, K)
  BY <1>2
<1>4. Agree(K \cap Done, C, curr)
  BY <1>3 DEF Agree
<1>5. StrOf(asked.sym, curr) = asked.want
  BY <1>1, <1>3, <1>4 DEF Pledged
<1> QED
  BY <1>5 DEF StrOf, StringValue

(* A symbol that has the value already keeps it.                           *)
LEMMA PledgeKept ==
  ASSUME NEW U, NEW N, NEW C, NEW S, \A x \in S : Sound(x, U, N, C, S),
         NEW s \in S, NEW w, StrOf(s, C) = w
  PROVE  Fixed(U, N, C, S, S) /\ Pledged(s, w, U, N, C, S)
<1>1. ASSUME NEW C2, NEW S2, s \in S2, Agree(S \cap S2, C, C2)
      PROVE  StrOf(s, C2) = w
  BY <1>1 DEF Agree, StrOf
<1> QED
  BY <1>1 DEF Fixed, Pledged

(* A calculation keeps the promise: a symbol of K that it settles gets the *)
(* value it has in C.                                                      *)
LEMMA CalculationPromise ==
  ASSUME NEW Rank \in [Sym -> Nat], Acyclic(Rank), PlainChoices,
         Coherent(Rank), Coherent(Rank)', Promise, Calculates
  PROVE  Promise'
<1> SUFFICES ASSUME asked # NoRequest PROVE Promise'
  BY CalculationKeeps DEF Promise, Coherent, settings
<1>1. UNCHANGED settings /\ Done \subseteq Done' /\ Agree(Done, curr, curr')
  BY CalculationKeeps DEF Coherent
<1>2. PICK s \in Sym : Done' \subseteq Done \cup {s}
  BY CalculationKeeps DEF Coherent
<1>3. PICK C \in Valuation, S \in SUBSET Sym : \E K \in SUBSET S :
        /\ Fixed(user, isNew, C, S, K)
        /\ Agree(Done \cap K, curr, C)
        /\ Pledged(asked.sym, asked.want, user, isNew, C, K)
  BY DEF Promise
<1>4. PICK K \in SUBSET S :
        /\ Fixed(user, isNew, C, S, K)
        /\ Agree(Done \cap K, curr, C)
        /\ Pledged(asked.sym, asked.want, user, isNew, C, K)
  BY <1>3
<1>5. /\ user' = user /\ isNew' = isNew /\ asked' = asked
  BY <1>1 DEF settings
<1>6. curr' \in Valuation /\ MemberAnswers(user) /\ Done' \in SUBSET Sym
      /\ \A x \in Done' : Sound(x, user, isNew, curr', Done')
  BY <1>5 DEF Coherent, Calculated, Settings, TypeInv, TypeOK, Valuation, Done
<1>7. \A x \in Done \cap K : curr'[x] = C[x]
  BY <1>1, <1>4 DEF Agree
<1>8. ASSUME s \in Done' \cap K, s \notin Done
      PROVE  curr'[s] = C[s]
  <2>1. s \notin DependsOn(s)
    BY AskedBelow
  <2>2. Done' \cap S \cap DependsOn(s) \subseteq Done \cap K
    BY <1>2, <1>4, <1>8, <2>1 DEF Fixed
  <2>3. Agree(Done' \cap S \cap DependsOn(s), curr', C)
    BY <1>7, <2>2 DEF Agree
  <2>4. Sound(s, user, isNew, C, S) /\ Sound(s, user, isNew, curr', Done')
    BY <1>4, <1>6, <1>8 DEF Fixed
  <2> HIDE DEF Done
  <2> QED
    BY <1>6, <2>3, <2>4, SoundUnique
<1>9. Agree(Done' \cap K, curr', C)
  BY <1>2, <1>7, <1>8 DEF Agree
<1> HIDE DEF Done
<1> QED
  BY <1>4, <1>5, <1>9 DEF Promise
-----------------------------------------------------------------------------
(* What an accepted request promises.  Nothing a symbol depends on is      *)
(* changed by setting it, nor, for a member, by choosing it.               *)
Below(Rank, r) == {x \in Done : Rank[x] < r}

LEMMA BelowFixed ==
  ASSUME NEW Rank \in [Sym -> Nat], Acyclic(Rank), PlainChoices, Coherent(Rank),
         NEW r \in Nat, NEW U2, NEW N2,
         \A x \in Below(Rank, r) : SameSetting(x, user, isNew, U2, N2)
  PROVE  Fixed(U2, N2, curr, Done, Below(Rank, r))
<1> SUFFICES ASSUME NEW x \in Below(Rank, r)
             PROVE  /\ Sound(x, U2, N2, curr, Done)
                    /\ DependsOn(x) \cap Done \subseteq Below(Rank, r)
  BY DEF Fixed
<1>1. x \in Sym /\ x \in Done /\ Sound(x, user, isNew, curr, Done) /\ MemberAnswers(user)
      /\ curr \in Valuation /\ Done \in SUBSET Sym
  BY DEF Below, Done, Coherent, Calculated, Settings, TypeInv, TypeOK, Valuation
<1>2. Agree(Done, curr, curr) /\ \A c \in Choice : Type[c] = "boolean"
  BY DEF Agree, PlainChoices
<1>3. Sound(x, U2, N2, curr, Done)
  <2> HIDE DEF Done
  <2> QED
    BY <1>1, <1>2, SoundSame
<1>4. ASSUME NEW y \in DependsOn(x) \cap Done
      PROVE  y \in Below(Rank, r)
  <2>1. Rank[y] < Rank[x] /\ y \in Sym /\ Rank[x] < r
    BY <1>1 DEF Acyclic, Below, Done
  <2> QED
    BY <1>1, <2>1 DEF Below
<1> QED
  BY <1>3, <1>4

(* The symbols s asks for are below it, and found again.                   *)
LEMMA FoundBelow ==
  ASSUME NEW Rank \in [Sym -> Nat], Acyclic(Rank), PlainChoices, Coherent(Rank),
         NEW s \in Done, NEW C2, NEW S2, Agree(Below(Rank, Rank[s]) \cap S2, curr, C2),
         VisibilityWants(s) \subseteq S2
  PROVE  /\ Vis(s, C2) = Vis(s, curr) /\ Rev(s, C2) = Rev(s, curr)
         /\ TypeSyms(s, C2) \subseteq S2 => Bool(s, C2) = Bool(s, curr)
<1> DEFINE T == Below(Rank, Rank[s]) \cap S2
<1>1. s \in Sym /\ s \in Limited
  BY DEF Done, Limited
<1>2. VisibilityWants(s) \subseteq Done /\ TypeSyms(s, curr) \subseteq Done
  BY <1>1, LimitedAsks
<1>3. \A y \in DependsOn(s) \cap Done : y \in Below(Rank, Rank[s])
  BY <1>1 DEF Acyclic, Below
<1>4. VisibilityWants(s) \subseteq T
  BY <1>1, <1>2, <1>3, AskedBelow
<1> HIDE DEF Done, T
<1>5. Vis(s, curr) = Vis(s, C2) /\ Rev(s, curr) = Rev(s, C2)
  BY <1>1, <1>4, VisSame DEF T
<1>6. ASSUME TypeSyms(s, C2) \subseteq S2 PROVE Bool(s, C2) = Bool(s, curr)
  <2>1. TypeSyms(s, curr) = TypeSyms(s, C2)
    BY <1>5 DEF TypeSyms
  <2>2. TypeSyms(s, curr) \subseteq T
    BY <1>1, <1>2, <1>3, <1>6, <2>1, AskedBelow DEF T
  <2> QED
    BY <1>1, <1>4, <2>2, BoolSame DEF T
<1> QED
  BY <1>5, <1>6

(* A value within the limits is the one the calculation gives.             *)
LEMMA AcceptedLimit ==
  ASSUME NEW v \in Tri, NEW vis \in Tri, NEW rev \in Tri, NEW b \in BOOLEAN,
         vis # no, ~(b /\ v = mod), Promote(b, rev) <= v, v <= Promote(b, vis)
  PROVE  Promote(b, Limit(v, vis, rev)) = v
BY DEF Promote, Limit, EOr, EAnd

LEMMA StringPledged ==
  ASSUME NEW Rank \in [Sym -> Nat], Acyclic(Rank), PlainChoices, Coherent(Rank), Limits,
         NEW s \in Done, IsString(s), visible[s] # no,
         NEW w, NEW U2, NEW N2, s \notin N2, U2[s].val = w
  PROVE  Pledged(s, w, U2, N2, curr, Below(Rank, Rank[s]))
<1> SUFFICES ASSUME NEW C2, NEW S2, Agree(Below(Rank, Rank[s]) \cap S2, curr, C2),
                    Sound(s, U2, N2, C2, S2)
             PROVE  C2[s].val = w
  BY DEF Pledged, StrOf
<1>1. s \in Sym /\ s \notin Choice /\ Vis(s, curr) # no
  BY TypesAssumption DEF TypesAssumption, Done, Limits, Limited, LimitsOf, Promote
<1>2. VisibilityWants(s) \subseteq S2
  BY <1>1 DEF Sound, PlainSound
<1>3. Vis(s, C2) # no
  <2> HIDE DEF Done
  <2> QED
    BY <1>1, <1>2, FoundBelow
<1>4. PICK d : C2[s] = Base(s, U2, N2, C2, d)
  BY <1>1 DEF Sound, PlainSound
<1> QED
  BY <1>3, <1>4 DEF Base, BaseValue, BaseStr, UsesDefault

LEMMA PlainPledged ==
  ASSUME NEW Rank \in [Sym -> Nat], Acyclic(Rank), PlainChoices, Coherent(Rank), Limits,
         NEW s \in Done, ~IsString(s), s \notin Choice, s \notin ChoiceValue,
         NEW v \in Tri, sym_tristate_within_range(s, v),
         NEW U2, NEW N2, s \notin N2, U2[s].tri = v
  PROVE  Pledged(s, v, U2, N2, curr, Below(Rank, Rank[s]))
<1> SUFFICES ASSUME NEW C2, NEW S2, Agree(Below(Rank, Rank[s]) \cap S2, curr, C2),
                    Sound(s, U2, N2, C2, S2)
             PROVE  C2[s].tri = v
  BY DEF Pledged, StrOf
<1> DEFINE vis == Vis(s, curr)
           rev == Rev(s, curr)
           b == Bool(s, curr)
<1>1. s \in Sym /\ vis \in Tri /\ rev \in Tri /\ b \in BOOLEAN
  BY EvalType DEF Done, Vis, Rev, Bool, IsBoolean
<1>2. visible[s] = Promote(b, vis) /\ revdep[s] = Promote(b, rev)
  BY <1>1 DEF Limits, Limited, LimitsOf
<1>3. IsBoolean(s, visible[s], curr) = b
  BY DEF Bool, IsBoolean
<1>4. vis # no /\ ~(b /\ v = mod) /\ Promote(b, rev) <= v /\ v <= Promote(b, vis)
  BY <1>2, <1>3 DEF sym_tristate_within_range, ChosenByChoice, Promote
<1>5. VisibilityWants(s) \subseteq S2 /\ TypeSyms(s, C2) \subseteq S2
  BY DEF Sound, PlainSound
<1>6. Vis(s, C2) = vis /\ Rev(s, C2) = rev /\ IsBoolean(s, vis, C2) = b
  <2> HIDE DEF Done
  <2>1. Vis(s, C2) = vis /\ Rev(s, C2) = rev /\ Bool(s, C2) = b
    BY <1>5, FoundBelow
  <2> QED
    BY <2>1 DEF Bool
<1>7. PICK d : C2[s] = Base(s, U2, N2, C2, d)
  BY DEF Sound, PlainSound
<1> HIDE DEF vis, rev, b
<1>8. EOr(vis, rev) # no
  BY <1>1, <1>4 DEF EOr
<1>9. BaseTri(s, U2[s], s \notin N2, vis, rev, d, C2) = Limit(v, vis, rev)
  BY <1>8 DEF BaseTri, UsesDefault, ChosenByChoice
<1>10. C2[s].tri = Promote(b, Limit(v, vis, rev))
  BY <1>6, <1>7, <1>9 DEF Base, BaseValue
<1> QED
  BY <1>1, <1>4, <1>10, AcceptedLimit
(* A choice that may not be no can never be set to another value.          *)
LEMMA ChoiceStays ==
  ASSUME PlainChoices, RequiredChoices, Limits, NEW c \in Choice, c \in Done, NEW v,
         curr \in Valuation
  PROVE  ~sym_tristate_within_range(c, v)
<1>1. c \in Sym /\ c \notin ChoiceValue /\ c \notin Optional /\ Type[c] = "boolean"
  BY FileAssumption, TypesAssumption
     DEF FileAssumption, TypesAssumption, RequiredChoices, PlainChoices
<1>2. Vis(c, curr) \in Tri /\ Rev(c, curr) \in Tri /\ Bool(c, curr)
  BY <1>1, EvalType DEF Vis, Rev, Bool, IsBoolean
<1>3. visible[c] = Promote(TRUE, Vis(c, curr)) /\ revdep[c] = Promote(TRUE, Rev(c, curr))
  BY <1>1, <1>2 DEF Limits, Limited, LimitsOf
<1>4. Vis(c, curr) # no => Rev(c, curr) # no
  <2> SUFFICES ASSUME Vis(c, curr) # no PROVE Rev(c, curr) # no
    OBVIOUS
  <2>1. EvalExpr(Prompt[c], curr) # no
    BY <1>1 DEF Vis, VisExpr
  <2>2. PICK cl \in Prompt[c] : MinTri({LitValue(l, curr) : l \in cl}) # no
    BY <2>1 DEF EvalExpr, MaxTri
  <2>3. cl \cup {Const(mod)} \in RevDepExpr(c)
    <3>1. cl \cup {Const(mod)} \in AndLit(Prompt[c], Const(mod))
      BY DEF AndLit
    <3>2. c \in Choice \ Optional
      BY <1>1
    <3> QED
      BY <3>1, <3>2 DEF RevDepExpr
  <2>4. LitValue(Const(mod), curr) = mod
    BY DEF LitValue, Const
  <2>5. no \notin {LitValue(l, curr) : l \in cl}
    BY <2>2 DEF MinTri
  <2>6. no \notin {LitValue(l, curr) : l \in cl \cup {Const(mod)}}
    BY <2>4, <2>5
  <2>7. mod \in {LitValue(l, curr) : l \in cl \cup {Const(mod)}}
    BY <2>4
  <2>8. MinTri({LitValue(l, curr) : l \in cl \cup {Const(mod)}}) = mod
    BY <2>6, <2>7 DEF MinTri
  <2>9. mod \in {MinTri({LitValue(l, curr) : l \in k}) : k \in RevDepExpr(c)}
    BY <2>3, <2>8
  <2>10. EvalExpr(RevDepExpr(c), curr) # no
    BY <2>9 DEF EvalExpr, MaxTri
  <2> QED
    BY <1>1, <2>10 DEF Rev
<1> QED
  BY <1>2, <1>3, <1>4 DEF sym_tristate_within_range, Promote

(* A member that is chosen is the first candidate its choice tries, and is *)
(* as visible as it was.                                                   *)
LEMMA MemberOpen ==
  ASSUME NEW v \in ChoiceValue, NEW C, NEW C2, NEW S, Agree(S \cap DependsOn(ChoiceOf(v)), C, C2),
         ExprSyms(VisExpr(v)) \subseteq S,
         C[ChoiceOf(v)].tri = C2[ChoiceOf(v)].tri
  PROVE  Vis(v, C) = Vis(v, C2)
<1> DEFINE c == ChoiceOf(v)
<1>1. c \in Choice /\ v \in MembersOf(c)
  BY ChoiceOfType
<1>2. ExprSyms(Prompt[v]) \subseteq DependsOn(c)
  BY <1>1 DEF DependsOn, PromptSyms
<1>3. ASSUME NEW cl \in VisExpr(v), NEW l \in cl
      PROVE  LitValue(l, C) = LitValue(l, C2)
  <2>1. PICK cl2 \in Prompt[v] : cl = cl2 \cup {Is(c)}
    BY <1>3 DEF VisExpr, AndLit
  <2>2. CASE l \in cl2
    <3>1. l.op # "const" => l.sym \in ExprSyms(Prompt[v])
      BY <2>2 DEF ExprSyms
    <3>2. l.op # "const" => l.sym \in ExprSyms(VisExpr(v))
      BY <1>3 DEF ExprSyms
    <3> QED
      BY <1>2, <3>1, <3>2, LitSame DEF Agree
  <2>3. CASE l = Is(c)
    BY <2>3 DEF LitValue, Is
  <2> QED
    BY <2>1, <2>2, <2>3
<1> QED
  BY <1>3, EvalSame DEF Vis
LEMMA MemberPledged ==
  ASSUME NEW Rank \in [Sym -> Nat], Acyclic(Rank), PlainChoices, Coherent(Rank), Limits,
         NEW s \in ChoiceValue, s \in Done, NEW v \in Tri, sym_tristate_within_range(s, v),
         NEW U2, NEW N2, ChoiceOf(s) \notin N2, U2[ChoiceOf(s)].val = s,
         U2[ChoiceOf(s)].tri = user[ChoiceOf(s)].tri
  PROVE  Pledged(s, yes, U2, N2, curr, Below(Rank, Rank[ChoiceOf(s)]))
<1> DEFINE c == ChoiceOf(s)
           B == Below(Rank, Rank[c])
           vis == Vis(c, curr)
           rev == Rev(c, curr)
           own == OwnTri(c, user, isNew)
<1>1. /\ c \in Choice /\ c \in Sym /\ s \in MembersOf(c) /\ s \in Sym /\ s # c
      /\ ~IsString(s) /\ Type[c] = "boolean"
      /\ \A x \in MembersOf(c) : x # NoVal
  BY ChoiceOfType, MembersType, FileAssumption, TypesAssumption
     DEF FileAssumption, TypesAssumption, PlainChoices
<1>2. /\ curr \in Valuation /\ user \in Valuation /\ NeverModNow(curr)
      /\ \A x \in Done : x \in Sym /\ Sound(x, user, isNew, curr, Done)
  BY DEF Coherent, Calculated, Settings, TypeInv, TypeOK, Valuation, Done
<1>3. Vis(s, curr) = yes
  <2>1. Vis(s, curr) \in {no, yes}
    BY <1>2, MemberNeverMod
  <2>2. visible[s] # no /\ visible[s] = Promote(Bool(s, curr), Vis(s, curr))
    BY <1>1 DEF Limits, Limited, LimitsOf, sym_tristate_within_range
  <2> QED
    BY <2>1, <2>2 DEF Promote
<1>4. ExprSyms(VisExpr(s)) \subseteq Done /\ c \in Done
  <2>1. VisibilityWants(s) \subseteq Done
    BY <1>1, LimitedAsks DEF Limited
  <2>2. c \in ExprSyms(VisExpr(s))
    BY <1>3, MemberAsksChoice
  <2> QED
    BY <2>1, <2>2 DEF VisibilityWants
<1>5. curr[c].tri = yes
  <2>1. curr[c].tri # no
    BY <1>3, ClosedChoice
  <2> QED
    BY <1>1, <1>2, <2>1 DEF NeverModNow, Valuation, SymbolValue
<1>6. vis \in Tri /\ rev \in Tri /\ user[c].tri \in Tri /\ (own = no \/ own = user[c].tri)
  BY <1>1, <1>2, EvalType DEF Vis, Rev, Valuation, SymbolValue, OwnTri
<1>7. ChoiceTri(own, vis, rev) = yes
  <2>1. Base(c, user, isNew, curr, 1).tri = ChoiceTri(own, vis, rev)
    BY <1>1, ChoiceTriIs
  <2>2. Sound(c, user, isNew, curr, Done)
    BY <1>2, <1>4
  <2> QED
    BY <1>1, <1>5, <2>1, <2>2 DEF Sound, ChoiceSound
<1>8. ChoiceTri(user[c].tri, vis, rev) = yes
  <2> HIDE DEF vis, rev, own
  <2> QED
    BY <1>6, <1>7, ChoiceTriFacts
<1> SUFFICES ASSUME NEW C2 \in Valuation, NEW S2 \in SUBSET Sym, NeverModNow(C2),
                    Agree(B \cap S2, curr, C2), s \in S2,
                    \A x \in S2 : Sound(x, U2, N2, C2, S2)
             PROVE  C2[s].tri = yes
  BY <1>1 DEF Pledged, StrOf
<1> DEFINE O == OpenAt(c, C2)
           cand == Candidates(c, U2[c].val)
<1>9. /\ VisibilityWants(s) \subseteq S2
      /\ C2[s] = [tri |-> IF Vis(s, C2) = yes /\ C2[c].val = s THEN yes ELSE no, val |-> NoVal]
  BY SoundMember
<1>10. ExprSyms(VisExpr(s)) \subseteq S2 /\ c \in S2
  BY <1>3, <1>9, MemberAsksChoice DEF VisibilityWants
<1>11. Sound(c, U2, N2, C2, S2) /\ VisibilityWants(c) \subseteq S2
  BY <1>1, <1>10 DEF Sound, ChoiceSound
<1>12. Vis(c, C2) = vis /\ Rev(c, C2) = rev
  <2> HIDE DEF Done
  <2> QED
    BY <1>4, <1>11, FoundBelow
<1>13. MemberFound(c, U2, C2, S2)
  <2>1. OwnTri(c, U2, N2) = user[c].tri
    BY DEF OwnTri
  <2>2. Base(c, U2, N2, C2, 1).tri = yes
    BY <1>1, <1>8, <1>12, <2>1, ChoiceTriIs
  <2> QED
    BY <1>1, <1>11, <2>2 DEF Sound, ChoiceSound
<1>14. O[c].tri = yes /\ \A x \in Sym \ {c} : O[x] = C2[x]
  BY <1>1 DEF OpenAt, Valuation
<1>15. \A x \in Done \cap S2 \cap DependsOn(c) : x \in B \cap S2 /\ x # c /\ x \in Sym
  BY <1>1, <1>2, DependsType DEF Below, Acyclic
<1>16. Vis(s, O) = yes
  <2>1. Agree(Done \cap S2 \cap DependsOn(c), curr, O)
    BY <1>14, <1>15 DEF Agree
  <2>2. ExprSyms(VisExpr(s)) \subseteq Done \cap S2
    BY <1>4, <1>10
  <2>3. curr[c].tri = O[c].tri
    BY <1>5, <1>14
  <2> DEFINE T == Done \cap S2
  <2> HIDE DEF T, O, c
  <2>4. Vis(s, curr) = Vis(s, O)
    BY <2>1, <2>2, <2>3, MemberOpen DEF T, c
  <2> QED
    BY <1>3, <2>4
<1>17. Len(cand) \in Nat /\ Len(cand) >= 1 /\ cand[1] = [cond |-> TrueExpr, value |-> s]
  BY <1>1, CandidatesMember, CandidatesLen
<1>18. CandidateHit(cand[1], O)
  <2>1. EvalExpr(TrueExpr, O) # no
    BY DEF TrueExpr, EvalExpr, MaxTri, MinTri
  <2> HIDE DEF O, cand
  <2> QED
    BY <1>16, <1>17, <2>1 DEF CandidateHit, Vis
<1>19. C2[c] = [tri |-> yes, val |-> s]
  <2>1. PICK d \in 1 .. Len(cand) + 1 :
          /\ \A j \in 1 .. d - 1 : ~CandidateHit(cand[j], O)
          /\ d <= Len(cand) => C2[c] = [tri |-> yes, val |-> cand[d].value]
    BY <1>13 DEF MemberFound
  <2> HIDE DEF O, cand
  <2>2. d = 1
    BY <1>17, <1>18, <2>1
  <2> QED
    BY <1>17, <2>1, <2>2
<1>20. Vis(s, C2) = yes
  <2>1. Agree(Done \cap S2 \cap DependsOn(c), curr, C2)
    BY <1>15 DEF Agree
  <2>2. ExprSyms(VisExpr(s)) \subseteq Done \cap S2
    BY <1>4, <1>10
  <2>3. curr[c].tri = C2[c].tri
    BY <1>5, <1>19
  <2> DEFINE T == Done \cap S2
  <2> HIDE DEF T, c
  <2>4. Vis(s, curr) = Vis(s, C2)
    BY <2>1, <2>2, <2>3, MemberOpen DEF T, c
  <2> QED
    BY <1>3, <2>4
<1> QED
  BY <1>9, <1>19, <1>20
LEMMA StayPromise ==
  ASSUME NEW Rank, Coherent(Rank)', Done' = Done, curr' = curr,
         asked'.sym \in Done, StrOf(asked'.sym, curr) = asked'.want
  PROVE  Promise'
<1>1. curr' \in Valuation /\ Done' \in SUBSET Sym
      /\ \A x \in Done' : Sound(x, user', isNew', curr', Done')
  BY DEF Coherent, Calculated, TypeInv, TypeOK, Valuation, Done
<1> HIDE DEF Done
<1>2. /\ Fixed(user', isNew', curr', Done', Done')
      /\ Pledged(asked'.sym, asked'.want, user', isNew', curr', Done')
  BY <1>1, PledgeKept
<1>3. Agree(Done' \cap Done', curr', curr')
  BY DEF Agree
<1> QED
  BY <1>1, <1>2, <1>3 DEF Promise

LEMMA ForgetPromise ==
  ASSUME NEW Rank, Coherent(Rank), NEW r, valid' = {},
         Fixed(user', isNew', curr, Done, Below(Rank, r)),
         Pledged(asked'.sym, asked'.want, user', isNew', curr, Below(Rank, r))
  PROVE  Promise'
<1>1. Done' = {} /\ curr \in Valuation /\ Done \in SUBSET Sym /\ Below(Rank, r) \subseteq Done
  BY DEF Done, Settled, Below, Coherent, TypeInv, TypeOK, Valuation
<1>2. Agree(Done' \cap Below(Rank, r), curr', curr)
  BY <1>1 DEF Agree
<1> HIDE DEF Done
<1> QED
  BY <1>1, <1>2 DEF Promise

LEMMA AtRestDone ==
  ASSUME NEW Rank, Coherent(Rank), top = NoSym, NEW s \in Sym, s \in valid,
         UNCHANGED calls, valid' \in {valid, {}}
  PROVE  s \in Done /\ (valid' = valid => Done' = Done)
<1>1. \A x \in Sym : phase[x] = "idle" /\ phase'[x] = "idle"
  BY DEF Coherent, Chain, Busy, calls
<1> QED
  BY <1>1 DEF Done, Settled

LEMMA SetTristatePromise ==
  ASSUME NEW Rank \in [Sym -> Nat], Acyclic(Rank), PlainChoices, RequiredChoices,
         Coherent(Rank), Coherent(Rank)', Limits,
         NEW s \in Sym, NEW v \in Tri, sym_set_tristate_value(s, v)
  PROVE  Promise'
<1> DEFINE c == ChoiceOf(s)
           told == s \in ChoiceValue /\ v = yes
<1>1. TypeInv /\ user \in Valuation /\ curr \in Valuation
  BY DEF Coherent, Valuation, TypeInv, TypeOK
<1>2. /\ top = NoSym /\ s \in valid /\ ~IsString(s)
      /\ user' = Setting(s, v)
      /\ isNew' = isNew \ ({s} \cup IF told THEN {c} ELSE {})
      /\ curr[s].tri # v => valid' = {} /\ sym_tristate_within_range(s, v)
      /\ curr[s].tri = v => valid' = valid
      /\ curr' = curr /\ UNCHANGED calls
      /\ asked'.sym = s /\ asked'.want = v
  BY DEF sym_set_tristate_value, AtRest, sym_clear_all_valid
<1>3. s \in ChoiceValue => c \in Choice /\ c \in Sym /\ s \in MembersOf(c) /\ c # s
  BY ChoiceOfType, FileAssumption, TypesAssumption DEF FileAssumption, TypesAssumption
<1>4. /\ user'[s].tri = v
      /\ told => user'[c].tri = user[c].tri /\ user'[c].val = s
      /\ \A x \in Sym \ ({s} \cup IF told THEN {c} ELSE {}) : user'[x] = user[x]
  <2>1. CASE told
    BY <1>1, <1>2, <1>3, <2>1 DEF Setting, Valuation, SymbolValue
  <2>2. CASE ~told
    BY <1>1, <1>2, <2>2 DEF Setting, Valuation, SymbolValue
  <2> QED
    BY <2>1, <2>2
<1>5. s \in Done /\ (valid' = valid => Done' = Done)
  BY <1>2, AtRestDone
<1>6. CASE curr[s].tri = v
  <2>1. StrOf(s, curr) = v
    BY <1>2, <1>6 DEF StrOf
  <2> HIDE DEF Done
  <2> QED
    BY <1>2, <1>5, <1>6, <2>1, StayPromise
<1>7. CASE curr[s].tri # v
  <2>1. sym_tristate_within_range(s, v) /\ valid' = {}
    BY <1>2, <1>7
  <2>2. CASE s \in Choice
    BY <1>1, <1>5, <2>1, <2>2, ChoiceStays
  <2>3. CASE s \in ChoiceValue
    <3>1. v = yes
      <4>1. Vis(s, curr) \in {no, yes}
        BY <1>1, <2>3, MemberNeverMod DEF Coherent, Settings
      <4>2. visible[s] # no /\ visible[s] = Promote(Bool(s, curr), Vis(s, curr))
        BY <1>5, <2>1 DEF Limits, Limited, LimitsOf, sym_tristate_within_range
      <4> QED
        BY <2>1, <2>3, <4>1, <4>2 DEF sym_tristate_within_range, ChosenByChoice, Promote
    <3>2. c \notin isNew' /\ user'[c].val = s /\ user'[c].tri = user[c].tri
      BY <1>2, <1>4, <2>3, <3>1
    <3>3. Pledged(s, yes, user', isNew', curr, Below(Rank, Rank[c]))
      <4> HIDE DEF Done
      <4> QED
        BY <1>5, <2>1, <2>3, <3>2, MemberPledged
    <3>4. Rank[c] < Rank[s]
      <4>1. c \in DependsOn(s)
        <5>1. Vis(s, curr) # no
          BY <1>5, <2>1 DEF Limits, Limited, LimitsOf, sym_tristate_within_range, Promote
        <5> QED
          BY <2>3, <5>1, MemberAsksChoice DEF DependsOn, VisibilityWants
      <4> QED
        BY <4>1 DEF Acyclic
    <3>5. \A x \in Below(Rank, Rank[c]) : SameSetting(x, user, isNew, user', isNew')
      <4> SUFFICES ASSUME NEW x \in Below(Rank, Rank[c])
                   PROVE  SameSetting(x, user, isNew, user', isNew')
        OBVIOUS
      <4>1. x \in Sym /\ x # s /\ x # c
        BY <1>3, <2>3, <3>4 DEF Below, Done
      <4> QED
        BY <1>2, <1>4, <4>1 DEF SameSetting, SameNew
    <3>6. Fixed(user', isNew', curr, Done, Below(Rank, Rank[c]))
      BY <1>3, <2>3, <3>5, BelowFixed
    <3> HIDE DEF Done
    <3> QED
      BY <1>2, <2>1, <3>1, <3>3, <3>6, ForgetPromise
  <2>4. CASE s \notin Choice /\ s \notin ChoiceValue
    <3>1. Pledged(s, v, user', isNew', curr, Below(Rank, Rank[s]))
      <4>1. s \notin isNew' /\ user'[s].tri = v
        BY <1>2, <1>4
      <4> HIDE DEF Done
      <4> QED
        BY <1>2, <1>5, <2>1, <2>4, <4>1, PlainPledged
    <3>2. \A x \in Below(Rank, Rank[s]) : SameSetting(x, user, isNew, user', isNew')
      <4> SUFFICES ASSUME NEW x \in Below(Rank, Rank[s])
                   PROVE  SameSetting(x, user, isNew, user', isNew')
        OBVIOUS
      <4>1. x \in Sym /\ x # s
        BY DEF Below, Done
      <4> QED
        BY <1>2, <1>4, <2>4, <4>1 DEF SameSetting, SameNew
    <3>3. Fixed(user', isNew', curr, Done, Below(Rank, Rank[s]))
      BY <3>2, BelowFixed
    <3> HIDE DEF Done
    <3> QED
      BY <1>2, <2>1, <3>1, <3>3, ForgetPromise
  <2> QED
    BY <2>2, <2>3, <2>4
<1> QED
  BY <1>6, <1>7

LEMMA SetStringPromise ==
  ASSUME NEW Rank \in [Sym -> Nat], Acyclic(Rank), PlainChoices,
         Coherent(Rank), Coherent(Rank)', Limits,
         NEW s \in Sym, NEW str \in Str, sym_set_string_value(s, str)
  PROVE  Promise'
<1>1. TypeInv /\ user \in Valuation /\ curr \in Valuation
  BY DEF Coherent, Valuation, TypeInv, TypeOK
<1>2. /\ top = NoSym /\ s \in valid /\ IsString(s) /\ visible[s] # no /\ s \notin Choice
      /\ user' = [user EXCEPT ![s].val = str] /\ isNew' = isNew \ {s}
      /\ user[s].val # str => valid' = {}
      /\ user[s].val = str => valid' = valid
      /\ curr' = curr /\ UNCHANGED calls
      /\ asked'.sym = s /\ asked'.want = str
  BY TypesAssumption DEF TypesAssumption, sym_set_string_value, AtRest, sym_clear_all_valid
<1>3. user'[s].val = str /\ \A x \in Sym \ {s} : user'[x] = user[x]
  BY <1>1, <1>2 DEF Valuation, SymbolValue
<1>4. s \in Done /\ (valid' = valid => Done' = Done)
  BY <1>2, AtRestDone
<1>5. CASE user[s].val = str
  <2>1. s \notin isNew
    BY <1>2, <1>5 DEF Coherent, Settings, NewAnswers
  <2>2. Sound(s, user, isNew, curr, Done) /\ Vis(s, curr) # no
    BY <1>2, <1>4 DEF Coherent, Calculated, Limits, Limited, LimitsOf, Promote
  <2>3. PICK d : curr[s] = Base(s, user, isNew, curr, d)
    BY <1>2, <2>2 DEF Sound, PlainSound
  <2>4. StrOf(s, curr) = str
    BY <1>2, <1>5, <2>1, <2>2, <2>3 DEF Base, BaseValue, BaseStr, UsesDefault, StrOf
  <2> HIDE DEF Done
  <2> QED
    BY <1>2, <1>4, <1>5, <2>4, StayPromise
<1>6. CASE user[s].val # str
  <2>1. Pledged(s, str, user', isNew', curr, Below(Rank, Rank[s]))
    <3>1. s \notin isNew'
      BY <1>2
    <3> HIDE DEF Done
    <3> QED
      BY <1>2, <1>3, <1>4, <3>1, StringPledged
  <2>2. \A x \in Below(Rank, Rank[s]) : SameSetting(x, user, isNew, user', isNew')
    <3> SUFFICES ASSUME NEW x \in Below(Rank, Rank[s])
                 PROVE  SameSetting(x, user, isNew, user', isNew')
      OBVIOUS
    <3>1. x \in Sym /\ x # s
      BY DEF Below, Done
    <3> QED
      BY <1>2, <1>3, <3>1 DEF SameSetting, SameNew
  <2>3. Fixed(user', isNew', curr, Done, Below(Rank, Rank[s]))
    BY <2>2, BelowFixed
  <2> HIDE DEF Done
  <2> QED
    BY <1>2, <1>6, <2>1, <2>3, ForgetPromise
<1> QED
  BY <1>5, <1>6

LEMMA PromiseStep ==
  ASSUME NEW Rank \in [Sym -> Nat], Acyclic(Rank), PlainChoices, RequiredChoices,
         Coherent(Rank), Coherent(Rank)', Limits, Promise, [Next]_vars
  PROVE  Promise'
<1>1. CASE Calculates
  BY <1>1, CalculationPromise
<1>2. ASSUME NEW s \in Sym, NEW v \in Tri, sym_set_tristate_value(s, v)
      PROVE  Promise'
  BY <1>2, SetTristatePromise
<1>3. ASSUME NEW s \in Sym, NEW str \in Str, sym_set_string_value(s, str)
      PROVE  Promise'
  BY <1>3, SetStringPromise
<1>4. CASE UNCHANGED vars
  <2>1. UNCHANGED <<asked, user, isNew, curr>> /\ Done' = Done
    BY <1>4 DEF vars, settings, calls, Done, Settled
  <2> HIDE DEF Done
  <2> QED
    BY <2>1 DEF Promise
<1> QED
  BY <1>1, <1>2, <1>3, <1>4 DEF Next, FrontEnd, Calculates

(* In every file whose dependencies are acyclic and whose choices are      *)
(* plain and not optional, what the user asked for and the tool accepted   *)
(* is the value the symbol has whenever it is shown again, however the     *)
(* calculations are interleaved (symbol.c:365-404, 511-555).               *)
THEOREM RequestsAreHonoured ==
  ASSUME NEW Rank \in [Sym -> Nat], Acyclic(Rank), PlainChoices, RequiredChoices, ProperLoaded
  PROVE  Spec => []RequestHonoured
<1> DEFINE Inv == Coherent(Rank) /\ Limits /\ Promise
<1>1. Init => Inv
  <2>1. Init => asked = NoRequest
    BY DEF Init, CacheInit
  <2> QED
    BY <2>1, CoherentInit, LimitsInit DEF Promise
<1>2. Inv /\ [Next]_vars => Inv'
  BY CoherentStep, LimitsStep, PromiseStep
<1>3. Inv => RequestHonoured
  BY PromiseHonoured
<1> QED
  BY <1>1, <1>2, <1>3, PTL DEF Spec
-----------------------------------------------------------------------------
(* The refinement.  What KValues calculates, symbol by symbol in their     *)
(* order, is sound for every symbol, what the cache holds is sound for the *)
(* settled ones, and sound values are unique.  So the values and limits by *)
(* which the engine accepts or refuses a request are those of KValues.     *)
USE DEF Uncached!no, Uncached!mod, Uncached!yes, Uncached!Tri

-----------------------------------------------------------------------------
(* KValues and KSymbol read the file in the same way.                      *)
LEMMA TriSame ==
  /\ Uncached!no = no /\ Uncached!mod = mod /\ Uncached!yes = yes /\ Uncached!Tri = Tri
  /\ \A S : Uncached!MaxTri(S) = MaxTri(S) /\ Uncached!MinTri(S) = MinTri(S)
  /\ \A a, b : Uncached!EOr(a, b) = EOr(a, b) /\ Uncached!EAnd(a, b) = EAnd(a, b)
  /\ \A s : Uncached!Is(s) = Is(s) /\ Uncached!Const(s) = Const(s)
  /\ \A e, l : Uncached!AndLit(e, l) = AndLit(e, l)
<1>1. Uncached!no = no /\ Uncached!mod = mod /\ Uncached!yes = yes /\ Uncached!Tri = Tri
  BY DEF Uncached!Tri
<1>2. \A S : Uncached!MaxTri(S) = MaxTri(S) /\ Uncached!MinTri(S) = MinTri(S)
  BY DEF Uncached!MaxTri, MaxTri, Uncached!MinTri, MinTri
<1>3. \A a, b : Uncached!EOr(a, b) = EOr(a, b) /\ Uncached!EAnd(a, b) = EAnd(a, b)
  BY DEF Uncached!EOr, EOr, Uncached!EAnd, EAnd
<1>4. \A s : Uncached!Is(s) = Is(s) /\ Uncached!Const(s) = Const(s)
  BY DEF Uncached!Is, Is, Uncached!Const, Const
<1>5. \A e, l : Uncached!AndLit(e, l) = AndLit(e, l)
  BY DEF Uncached!AndLit, AndLit
<1> QED
  BY <1>1, <1>2, <1>3, <1>4, <1>5

LEMMA LitIs == \A l, C : Uncached!LitValue(l, C) = LitValue(l, C)
  BY DEF Uncached!LitValue, LitValue, Uncached!ENot, ENot

LEMMA EvalIs == \A e, C : Uncached!EvalExpr(e, C) = EvalExpr(e, C)
<1> TAKE e, C
<1>1. \A cl \in e : {Uncached!LitValue(l, C) : l \in cl} = {LitValue(l, C) : l \in cl}
  BY LitIs
<1>2. {MinTri({Uncached!LitValue(l, C) : l \in cl}) : cl \in e}
        = {MinTri({LitValue(l, C) : l \in cl}) : cl \in e}
  BY <1>1
<1>3. {Uncached!MinTri({Uncached!LitValue(l, C) : l \in cl}) : cl \in e}
        = {MinTri({Uncached!LitValue(l, C) : l \in cl}) : cl \in e}
  BY TriSame
<1> QED
  BY <1>2, <1>3, TriSame DEF Uncached!EvalExpr, EvalExpr

LEMMA FileSame ==
  /\ Uncached!Choice = Choice /\ Uncached!ChoiceValue = ChoiceValue
  /\ \A c : Uncached!MembersOf(c) = MembersOf(c)
  /\ \A v : Uncached!ChoiceOf(v) = ChoiceOf(v)
  /\ \A s : Uncached!IsString(s) <=> IsString(s)
  /\ \A s : Uncached!VisExpr(s) = VisExpr(s)
  /\ \A s : Uncached!RevDepExpr(s) = RevDepExpr(s)
  /\ \A s : Uncached!NumDefaults(s) = NumDefaults(s)
  /\ \A c, v : Uncached!Candidates(c, v) = Candidates(c, v)
<1>1. Uncached!Choice = Choice
  BY DEF Uncached!Choice, Choice
<1>2. \A c : Uncached!MembersOf(c) = MembersOf(c)
  BY DEF Uncached!MembersOf, MembersOf
<1>3. Uncached!ChoiceValue = ChoiceValue
  BY <1>1, <1>2 DEF Uncached!ChoiceValue, ChoiceValue
<1>4. \A v : Uncached!ChoiceOf(v) = ChoiceOf(v)
  BY <1>1, <1>2 DEF Uncached!ChoiceOf, ChoiceOf
<1>5. \A s : Uncached!VisExpr(s) = VisExpr(s)
  BY <1>3, <1>4, TriSame DEF Uncached!VisExpr, VisExpr
<1>6. \A s : Uncached!RevDepExpr(s) = RevDepExpr(s)
  BY <1>1, TriSame DEF Uncached!RevDepExpr, RevDepExpr
<1>7. \A c, v : Uncached!Candidates(c, v) = Candidates(c, v)
  BY DEF Uncached!Candidates, Candidates, Uncached!TrueExpr, TrueExpr
<1>8. \A s : Uncached!IsString(s) <=> IsString(s)
  BY DEF Uncached!IsString, IsString
<1>9. \A s : Uncached!NumDefaults(s) = NumDefaults(s)
  BY DEF Uncached!NumDefaults, NumDefaults
<1> QED
  BY <1>1, <1>2, <1>3, <1>4, <1>5, <1>6, <1>7, <1>8, <1>9

LEMMA ValueSame0 ==
  /\ \A b, t : Uncached!Promote(b, t) = Promote(b, t)
  /\ \A s, vis : Uncached!ChosenByChoice(s, vis) <=> ChosenByChoice(s, vis)
  /\ \A s, vis, C : Uncached!IsBoolean(s, vis, C) <=> IsBoolean(s, vis, C)
  /\ \A s, C : Uncached!FirstDefault(s, C) = FirstDefault(s, C)
  /\ \A k, C : Uncached!CandidateHit(k, C) <=> CandidateHit(k, C)
  /\ \A cand, d, C : Uncached!IsFirstCandidate(cand, d, C) <=> IsFirstCandidate(cand, d, C)
<1>1. \A b, t : Uncached!Promote(b, t) = Promote(b, t)
  BY DEF Uncached!Promote, Promote
<1>2. \A s, vis : Uncached!ChosenByChoice(s, vis) <=> ChosenByChoice(s, vis)
  BY FileSame DEF Uncached!ChosenByChoice, ChosenByChoice
<1>3. \A s, vis, C : Uncached!IsBoolean(s, vis, C) <=> IsBoolean(s, vis, C)
  <2>1. \A C : Uncached!ModulesTri(C) = ModulesTri(C)
    BY DEF Uncached!ModulesTri, ModulesTri
  <2> QED
    BY <2>1, FileSame DEF Uncached!IsBoolean, IsBoolean
<1>4. \A s, d, C : Uncached!IsFirstDefault(s, d, C) <=> IsFirstDefault(s, d, C)
  <2>1. \A s, d, C : Uncached!DefaultHit(s, d, C) <=> DefaultHit(s, d, C)
    BY EvalIs DEF Uncached!DefaultHit, DefaultHit
  <2> QED
    BY <2>1, FileSame DEF Uncached!IsFirstDefault, IsFirstDefault
<1>5. \A s, C : Uncached!FirstDefault(s, C) = FirstDefault(s, C)
  BY <1>4, FileSame DEF Uncached!FirstDefault, FirstDefault
<1>6. \A k, C : Uncached!CandidateHit(k, C) <=> CandidateHit(k, C)
  BY EvalIs, FileSame DEF Uncached!CandidateHit, CandidateHit
<1>7. \A cand, d, C : Uncached!IsFirstCandidate(cand, d, C) <=> IsFirstCandidate(cand, d, C)
  BY <1>6 DEF Uncached!IsFirstCandidate, IsFirstCandidate
<1> QED
  BY <1>1, <1>2, <1>3, <1>5, <1>6, <1>7

LEMMA BaseIs ==
  ASSUME NEW s, NEW u, NEW has \in BOOLEAN, NEW vis, NEW rev, NEW d, NEW C
  PROVE  Uncached!BaseValue(s, u, has, vis, rev, d, C) = BaseValue(s, u, has, vis, rev, d, C)
<1>1. Uncached!UsesDefault(s, has, vis, rev) <=> UsesDefault(s, has, vis, rev)
  BY FileSame, ValueSame0, TriSame DEF Uncached!UsesDefault, UsesDefault
<1>2. Uncached!DefaultTri(s, d, C) = DefaultTri(s, d, C)
  BY FileSame, EvalIs DEF Uncached!DefaultTri, DefaultTri
<1>3. Uncached!DefaultStr(s, d, C) = DefaultStr(s, d, C)
  BY FileSame DEF Uncached!DefaultStr, DefaultStr
<1>4. \A t : Uncached!Limit(t, vis, rev) = Limit(t, vis, rev)
  BY TriSame DEF Uncached!Limit, Limit
<1>5. Uncached!BaseTri(s, u, has, vis, rev, d, C) = BaseTri(s, u, has, vis, rev, d, C)
  BY <1>1, <1>2, <1>4, FileSame, ValueSame0, TriSame DEF Uncached!BaseTri, BaseTri
<1>6. Uncached!BaseStr(s, u, has, vis, rev, d, C) = BaseStr(s, u, has, vis, rev, d, C)
  BY <1>1, <1>3 DEF Uncached!BaseStr, BaseStr
<1>7. Uncached!IsBoolean(s, vis, C) <=> IsBoolean(s, vis, C)
  BY ValueSame0
<1>8. Uncached!Promote(Uncached!IsBoolean(s, vis, C), Uncached!BaseTri(s, u, has, vis, rev, d, C))
        = Promote(IsBoolean(s, vis, C), BaseTri(s, u, has, vis, rev, d, C))
  BY <1>5, <1>7 DEF Uncached!Promote, Promote
<1> QED
  BY <1>6, <1>8, FileSame DEF Uncached!BaseValue, BaseValue

LEMMA ValueIs ==
  ASSUME NEW s, NEW U, NEW N, NEW C
  PROVE  Uncached!ValueOf(s, U, N, C) =
           LET base == Base(s, U, N, C, FirstDefault(s, C)) IN
           IF s \in Choice /\ base.tri = yes
           THEN LET cand == Candidates(s, U[s].val)
                    O == [C EXCEPT ![s].tri = yes]
                    d == CHOOSE i \in 1 .. Len(cand) + 1 : IsFirstCandidate(cand, i, O)
                IN IF d <= Len(cand) THEN [tri |-> yes, val |-> cand[d].value]
                   ELSE [tri |-> no, val |-> NoVal]
           ELSE base
<1> DEFINE base == Base(s, U, N, C, FirstDefault(s, C))
           found(cand, O) == CHOOSE i \in 1 .. Len(cand) + 1 : IsFirstCandidate(cand, i, O)
           member(cand, O) == IF found(cand, O) <= Len(cand)
                              THEN [tri |-> yes, val |-> cand[found(cand, O)].value]
                              ELSE [tri |-> no, val |-> NoVal]
<1>1. Uncached!Visibility(s, C) = Vis(s, C) /\ Uncached!RevDep(s, C) = Rev(s, C)
  BY EvalIs, FileSame DEF Uncached!Visibility, Vis, Uncached!RevDep, Rev
<1>2. Uncached!BaseValue(s, U[s], s \notin N, Vis(s, C), Rev(s, C), FirstDefault(s, C), C) = base
  BY BaseIs DEF Base
<1>3. (CHOOSE b \in {Uncached!BaseValue(s, U[s], s \notin N, vis, rev, def, C) :
                       vis \in {Uncached!Visibility(s, C)}, rev \in {Uncached!RevDep(s, C)},
                       def \in {Uncached!FirstDefault(s, C)}} : TRUE) = base
  BY <1>1, <1>2, ValueSame0
<1>4. \A cand, O : Uncached!FirstMember(cand, O) = member(cand, O)
  BY ValueSame0 DEF Uncached!FirstMember
<1> HIDE DEF base, found, member
<1>5. \A O : Uncached!ChosenMember(s, U, O) = member(Candidates(s, U[s].val), O)
  <2> TAKE O
  <2>1. {Uncached!FirstMember(cand, O) : cand \in {Uncached!Candidates(s, U[s].val)}}
          = {member(Candidates(s, U[s].val), O)}
    BY <1>4, FileSame
  <2> QED
    BY <2>1 DEF Uncached!ChosenMember
<1>6. Uncached!ValueOf(s, U, N, C) =
        IF s \in Choice /\ base.tri = yes
        THEN member(Candidates(s, U[s].val), [C EXCEPT ![s].tri = yes]) ELSE base
  BY <1>3, <1>5, FileSame DEF Uncached!ValueOf
<1> QED
  BY <1>6 DEF base, found, member

-----------------------------------------------------------------------------
(* The symbols a value depends on are symbols.                             *)
LEMMA DependsSym ==
  ASSUME NEW s \in Sym
  PROVE  DependsOn(s) \subseteq Sym
<1>1. VisibilityWants(s) \subseteq Sym
  BY VisExprType, RevDepExprType, ExprSymsType DEF VisibilityWants
<1>2. ASSUME NEW d \in 1 .. NumDefaults(s)
      PROVE  /\ ExprSyms(Defaults[s][d].cond) \subseteq Sym
             /\ s \notin Choice => SymbolsOf(s, Defaults[s][d].value) \subseteq Sym
  <2>1. Defaults[s][d] \in DefaultProp
    BY DefaultsType
  <2>2. ~IsString(s) /\ s \notin Choice => Defaults[s][d].value \in Expr
    BY DefaultsType
  <2> QED
    BY <2>1, <2>2, ExprSymsType DEF DefaultProp, SymbolsOf
<1>3. CondSyms(s) \subseteq Sym /\ (s \notin Choice => DefaultSyms(s) \subseteq Sym)
  BY <1>2 DEF CondSyms, DefaultSyms
<1>4. s \in Choice => PromptSyms(s) \subseteq Sym
  <2> SUFFICES ASSUME s \in Choice, NEW v \in MembersOf(s) PROVE ExprSyms(Prompt[v]) \subseteq Sym
    BY DEF PromptSyms
  <2>1. v \in Sym
    BY MembersType
  <2> QED
    BY <2>1, ExprSymsType, FileAssumption DEF FileAssumption
<1> QED
  BY <1>1, <1>3, <1>4 DEF DependsOn

-----------------------------------------------------------------------------
(* A value calculated from sound values is sound.                          *)
LEMMA PlainCalculated ==
  ASSUME NEW Rank \in [Sym -> Nat], Acyclic(Rank), NEW s \in Sym, s \notin Choice,
         NEW U, NEW N, NEW C \in Valuation, NEW C2 \in Valuation, Agree(Sym \ {s}, C, C2),
         C2[s] = Uncached!ValueOf(s, U, N, C)
  PROVE  Sound(s, U, N, C2, DependsOn(s))
<1> DEFINE D == DependsOn(s)
           d == FirstDefault(s, C)
<1>1. Agree(D, C, C2)
  BY AskedBelow, DependsSym DEF Agree
<1>2. d \in 1 .. NumDefaults(s) + 1 /\ IsFirstDefault(s, d, C) /\ NumDefaults(s) \in Nat
  BY FirstDefaultExists, DefaultsType
<1>3. VisibilityWants(s) \subseteq D /\ \A X : TypeSyms(s, X) \subseteq D
  BY AskedBelow
<1>4. C2[s] = Base(s, U, N, C, d)
  BY ValueIs
<1> HIDE DEF d, D
<1>5. d <= NumDefaults(s) => SymbolsOf(s, Defaults[s][d].value) \subseteq D
  BY <1>2, AskedBelow DEF D
<1>6. Base(s, U, N, C2, d) = Base(s, U, N, C, d)
  BY <1>1, <1>2, <1>3, <1>5, BaseSame DEF SameSetting, SameNew
<1>7. DefaultTaken(s, d, C, D)
  <2>1. ASSUME NEW j \in 1 .. NumDefaults(s)
        PROVE  ExprSyms(Defaults[s][j].cond) \subseteq D
    BY AskedBelow DEF D
  <2>2. \A j \in 1 .. d - 1 : j \in 1 .. NumDefaults(s)
    BY <1>2
  <2> QED
    BY <1>2, <1>5, <2>1, <2>2 DEF DefaultTaken, DefaultTried, IsFirstDefault
<1>8. DefaultTaken(s, d, C2, D)
  BY <1>1, <1>7, TakenSame
<1> QED
  BY <1>2, <1>3, <1>4, <1>6, <1>8 DEF Sound, PlainSound, D

LEMMA ChoiceCalculated ==
  ASSUME NEW Rank \in [Sym -> Nat], Acyclic(Rank), NEW c \in Choice, Type[c] = "boolean",
         NEW U, NEW N, U[c].val \in Sym => U[c].val \in MembersOf(c),
         NEW C \in Valuation, NEW C2 \in Valuation, Agree(Sym \ {c}, C, C2), C[c] = Unset,
         C2[c] = Uncached!ValueOf(c, U, N, C)
  PROVE  Sound(c, U, N, C2, DependsOn(c))
<1> DEFINE D == DependsOn(c)
           cand == Candidates(c, U[c].val)
           O == OpenAt(c, C)
           O2 == OpenAt(c, C2)
           e == CHOOSE i \in 1 .. Len(cand) + 1 : IsFirstCandidate(cand, i, O)
<1>1. c \in Sym
  BY FileAssumption DEF FileAssumption
<1>2. D \subseteq Sym /\ Agree(D, C, C2)
  BY <1>1, AskedBelow, DependsSym DEF Agree
<1>3. VisibilityWants(c) \subseteq D
  BY <1>1, AskedBelow
<1>4. Base(c, U, N, C2, 1) = Base(c, U, N, C, FirstDefault(c, C))
  <2>1. SameSetting(c, U, N, U, N)
    BY DEF SameSetting, SameNew
  <2> QED
    BY <1>2, <1>3, <2>1, ChoiceBase
<1>5. [C EXCEPT ![c].tri = yes] = O
  <2>1. [C[c] EXCEPT !.tri = yes] = [tri |-> yes, val |-> NoVal]
    BY DEF Unset
  <2> QED
    BY <2>1 DEF OpenAt
<1>6. C2[c] = IF Base(c, U, N, C2, 1).tri = yes
              THEN IF e <= Len(cand) THEN [tri |-> yes, val |-> cand[e].value]
                   ELSE [tri |-> no, val |-> NoVal]
              ELSE Base(c, U, N, C2, 1)
  BY <1>4, <1>5, ValueIs
<1>7. Len(cand) \in Nat
  BY CandidatesLen
<1>8. e \in 1 .. Len(cand) + 1 /\ IsFirstCandidate(cand, e, O)
  <2>1. \E i \in 1 .. Len(cand) + 1 : IsFirstCandidate(cand, i, O)
    <3> HIDE DEF cand, O
    <3> QED
      BY <1>7, FirstCandidateExists
  <2> QED
    BY <2>1
<1>9. O[c] = O2[c] /\ Agree(D, O, O2)
  BY <1>2, OpenSame
<1>10. ASSUME NEW j \in 1 .. Len(cand)
       PROVE  /\ CandidateSeen(cand[j], O2, D)
              /\ CandidateHit(cand[j], O2) <=> CandidateHit(cand[j], O)
  <2>1. /\ ExprSyms(cand[j].cond) \subseteq D /\ ExprSyms(Prompt[cand[j].value]) \subseteq D
        /\ cand[j].value \in MembersOf(c)
    BY CandidateDepends
  <2> HIDE DEF cand, O, O2, D
  <2>2. CandidateSeen(cand[j], O, D)
    BY <2>1 DEF CandidateSeen
  <2> QED
    BY <1>9, <2>1, <2>2, CandidateSame
<1> HIDE DEF cand, O, e, D
<1>11. ASSUME Base(c, U, N, C2, 1).tri = yes
       PROVE  MemberFound(c, U, C2, D)
  <2>1. \A j \in 1 .. e - 1 : j \in 1 .. Len(cand)
    BY <1>7, <1>8
  <2>2. \A j \in 1 .. e - 1 : CandidateSeen(cand[j], O2, D) /\ ~CandidateHit(cand[j], O2)
    BY <1>8, <1>10, <2>1 DEF IsFirstCandidate
  <2>3. e <= Len(cand) => CandidateSeen(cand[e], O2, D) /\ CandidateHit(cand[e], O2)
    BY <1>7, <1>8, <1>10 DEF IsFirstCandidate
  <2>4. /\ e <= Len(cand) => C2[c] = [tri |-> yes, val |-> cand[e].value]
        /\ e > Len(cand) => C2[c] = [tri |-> no, val |-> NoVal]
    BY <1>6, <1>7, <1>8, <1>11
  <2> QED
    BY <1>8, <2>2, <2>3, <2>4 DEF MemberFound, cand
<1> QED
  BY <1>3, <1>6, <1>11 DEF Sound, ChoiceSound, D

-----------------------------------------------------------------------------
(* KValues calculates the symbols in their order, each once.               *)
Calculate(i, U, N, C) == [C EXCEPT ![Order[i]] = Uncached!ValueOf(Order[i], U, N, C)]

Calculation(f, n, U, N) ==
  /\ f[0] = [s \in Sym |-> Unset]
  /\ \A i \in 1 .. n : f[i] = Calculate(i, U, N, f[i - 1])

LEMMA CalculationExists ==
  ASSUME NEW U, NEW N, NEW n \in Nat
  PROVE  \E f : f = [i \in 0 .. n |-> f[i]] /\ Calculation(f, n, U, N)
<1> DEFINE Ends(k) == \E f : f = [i \in 0 .. k |-> f[i]] /\ Calculation(f, k, U, N)
           T == {k \in Nat : ~Ends(k)}
<1>1. SUFFICES ASSUME T # {} PROVE FALSE
  OBVIOUS
<1>2. PICK k \in T : \A m \in T : k <= m
  <2>1. T \in SUBSET Nat
    OBVIOUS
  <2> HIDE DEF T
  <2> QED
    BY <1>1, <2>1, LeastNat
<1>3. Ends(0)
  <2> DEFINE f == [i \in 0 .. 0 |-> [s \in Sym |-> Unset]]
  <2>1. f = [i \in 0 .. 0 |-> f[i]] /\ Calculation(f, 0, U, N)
    BY DEF Calculation
  <2> QED
    BY <2>1
<1>4. k # 0 /\ k - 1 \in Nat /\ ~(k <= k - 1)
  <2> HIDE DEF Ends
  <2> QED
    BY <1>3
<1>5. Ends(k - 1)
  <2> HIDE DEF Ends
  <2> QED
    BY <1>2, <1>4
<1>6. PICK g : g = [i \in 0 .. k - 1 |-> g[i]] /\ Calculation(g, k - 1, U, N)
  BY <1>5
<1>7. Ends(k)
  <2> DEFINE f == [i \in 0 .. k |-> IF i = k THEN Calculate(k, U, N, g[k - 1]) ELSE g[i]]
  <2>1. f = [i \in 0 .. k |-> f[i]]
    OBVIOUS
  <2>2. f[0] = g[0] /\ f[k] = Calculate(k, U, N, g[k - 1]) /\ f[k - 1] = g[k - 1]
    BY <1>4
  <2>3. \A i \in 1 .. k - 1 : f[i] = g[i] /\ f[i - 1] = g[i - 1]
    BY <1>4
  <2>4. \A i \in 1 .. k : i = k \/ i \in 1 .. k - 1
    BY <1>4
  <2> HIDE DEF f
  <2>5. Calculation(f, k, U, N)
    BY <1>6, <2>2, <2>3, <2>4 DEF Calculation
  <2> QED
    BY <2>1, <2>5
<1> QED
  BY <1>7

LEMMA ValuesAre ==
  ASSUME NEW U, NEW N, Sorted
  PROVE  \E f : Calculation(f, Len(Order), U, N) /\ Uncached!Values(U, N) = f[Len(Order)]
<1> DEFINE n == Len(Order)
           Start == [s \in Sym |-> Unset]
           Rec(f) == f = [i \in 0 .. n |->
             IF i = 0 THEN [s \in Sym |-> [tri |-> Uncached!no, val |-> NoVal]]
             ELSE CHOOSE next \in {[X EXCEPT ![Order[i]] = Uncached!ValueOf(Order[i], U, N, X)] :
                                     X \in {f[i - 1]}} : TRUE]
           h == CHOOSE f : Rec(f)
<1>1. n \in Nat
  BY DEF Sorted
<1>2. \A i, C : (CHOOSE next \in {[X EXCEPT ![Order[i]] = Uncached!ValueOf(Order[i], U, N, X)] :
                                     X \in {C}} : TRUE) = Calculate(i, U, N, C)
  <2> TAKE i, C
  <2>1. {[X EXCEPT ![Order[i]] = Uncached!ValueOf(Order[i], U, N, X)] : X \in {C}}
          = {Calculate(i, U, N, C)}
    BY DEF Calculate
  <2> QED
    BY <2>1
<1>3. PICK g : g = [i \in 0 .. n |-> g[i]] /\ Calculation(g, n, U, N)
  <2> HIDE DEF n
  <2> QED
    BY <1>1, CalculationExists
<1>4. Rec(g)
  <2>1. \A i \in 0 .. n : i # 0 => i \in 1 .. n
    BY <1>1
  <2>2. \A i \in 0 .. n : g[i] = IF i = 0 THEN Start ELSE Calculate(i, U, N, g[i - 1])
    BY <1>3, <2>1 DEF Calculation
  <2>3. Start = [s \in Sym |-> [tri |-> Uncached!no, val |-> NoVal]]
    BY TriSame DEF Unset
  <2> HIDE DEF n, Start
  <2> QED
    BY <1>2, <1>3, <2>2, <2>3
<1>5. Rec(h)
  BY <1>4
<1>6. Calculation(h, n, U, N)
  <2>1. h[0] = Start
    <3>1. 0 \in 0 .. n /\ Start = [s \in Sym |-> [tri |-> Uncached!no, val |-> NoVal]]
      BY <1>1, TriSame DEF Unset
    <3> HIDE DEF h, Start
    <3> QED
      BY <1>5, <3>1
  <2>2. \A i \in 1 .. n : i \in 0 .. n /\ i # 0
    BY <1>1
  <2>3. \A i \in 1 .. n : h[i] = Calculate(i, U, N, h[i - 1])
    <3> HIDE DEF h
    <3> QED
      BY <1>2, <1>5, <2>2
  <2> QED
    BY <2>1, <2>3 DEF Calculation
<1>7. Uncached!Values(U, N) = h[n]
  BY DEF Uncached!Values
<1> HIDE DEF h, n
<1> QED
  BY <1>6, <1>7 DEF n

LEMMA ValueOfType ==
  ASSUME NEW s \in Sym, NEW U \in Valuation, NEW N, NEW C \in Valuation
  PROVE  Uncached!ValueOf(s, U, N, C) \in SymbolValue
<1> DEFINE base == Base(s, U, N, C, FirstDefault(s, C))
           cand == Candidates(s, U[s].val)
           O == [C EXCEPT ![s].tri = yes]
           d == CHOOSE i \in 1 .. Len(cand) + 1 : IsFirstCandidate(cand, i, O)
<1>1. base \in SymbolValue
  <2>1. FirstDefault(s, C) \in Nat \ {0}
    BY FirstDefaultExists, DefaultsType
  <2>2. Vis(s, C) \in Tri /\ Rev(s, C) \in Tri
    BY EvalType DEF Vis, Rev
  <2>3. C \in [Sym -> SymbolValue] /\ U[s] \in SymbolValue
    BY DEF Valuation
  <2> QED
    BY <2>1, <2>2, <2>3, BaseValueType DEF Base
<1>2. ASSUME s \in Choice, d <= Len(cand)
      PROVE  cand[d].value \in Sym
  <2>1. Len(cand) \in Nat
    BY <1>2, CandidatesLen
  <2>2. \E i \in 1 .. Len(cand) + 1 : IsFirstCandidate(cand, i, O)
    <3> HIDE DEF cand, O
    <3> QED
      BY <2>1, FirstCandidateExists
  <2>3. d \in 1 .. Len(cand)
    <3> HIDE DEF cand, O
    <3> QED
      BY <1>2, <2>1, <2>2
  <2> QED
    BY <1>2, <2>3, CandidatesType
<1> HIDE DEF base, cand, O, d
<1>3. Uncached!ValueOf(s, U, N, C) =
        IF s \in Choice /\ base.tri = yes
        THEN IF d <= Len(cand) THEN [tri |-> yes, val |-> cand[d].value]
             ELSE [tri |-> no, val |-> NoVal]
        ELSE base
  BY ValueIs DEF base, cand, O, d
<1>4. s \in Choice /\ d <= Len(cand) => [tri |-> yes, val |-> cand[d].value] \in SymbolValue
  BY <1>2 DEF SymbolValue, Val
<1>5. [tri |-> no, val |-> NoVal] \in SymbolValue
  BY DEF SymbolValue, Val
<1> QED
  BY <1>1, <1>3, <1>4, <1>5

LEMMA CalculationType ==
  ASSUME NEW f, NEW n \in Nat, NEW U \in Valuation, NEW N, Calculation(f, n, U, N),
         \A i \in 1 .. n : Order[i] \in Sym
  PROVE  \A i \in 0 .. n : f[i] \in Valuation
<1> DEFINE T == {i \in 0 .. n : f[i] \notin Valuation}
<1>1. SUFFICES ASSUME T # {} PROVE FALSE
  OBVIOUS
<1>2. PICK k \in T : \A m \in T : k <= m
  <2>1. T \in SUBSET Nat
    OBVIOUS
  <2> HIDE DEF T
  <2> QED
    BY <1>1, <2>1, LeastNat
<1>3. k # 0
  <2>1. Unset \in SymbolValue
    BY DEF Unset, SymbolValue, Val
  <2> QED
    BY <2>1 DEF Calculation, Valuation
<1>4. k \in 1 .. n /\ k - 1 \in 0 .. n /\ f[k - 1] \in Valuation
  BY <1>2, <1>3
<1>5. f[k] = Calculate(k, U, N, f[k - 1])
  BY <1>4 DEF Calculation
<1>6. Uncached!ValueOf(Order[k], U, N, f[k - 1]) \in SymbolValue
  BY <1>4, ValueOfType
<1>7. f[k] \in Valuation
  BY <1>4, <1>5, <1>6 DEF Calculate, Valuation
<1> QED
  BY <1>7

(* A symbol has no value before its turn and keeps it afterwards.          *)
LEMMA CalculationStays ==
  ASSUME NEW f, NEW n \in Nat, NEW U \in Valuation, NEW N, Calculation(f, n, U, N),
         \A i \in 1 .. n : Order[i] \in Sym,
         \A i, j \in 1 .. n : Order[i] = Order[j] => i = j
  PROVE  /\ \A i \in 0 .. n : \A j \in 1 .. n : i < j => f[i][Order[j]] = Unset
         /\ \A i \in 0 .. n : \A j \in 1 .. i : f[n][Order[j]] = f[i][Order[j]]
<1> DEFINE Early(i) == \A j \in 1 .. n : i < j => f[i][Order[j]] = Unset
           Late(i) == \A k \in 0 .. i : \A j \in 1 .. k : f[i][Order[j]] = f[k][Order[j]]
           T == {i \in 0 .. n : ~(Early(i) /\ Late(i))}
<1>1. \A i \in 0 .. n : Early(i) /\ Late(i)
  <2>1. SUFFICES ASSUME T # {} PROVE FALSE
    OBVIOUS
  <2>2. PICK i \in T : \A m \in T : i <= m
    <3>1. T \in SUBSET Nat
      OBVIOUS
    <3> HIDE DEF T
    <3> QED
      BY <2>1, <3>1, LeastNat
  <2>3. Early(0) /\ Late(0)
    BY DEF Calculation
  <2>4. i \in 1 .. n /\ i - 1 \in 0 .. n /\ ~(i <= i - 1)
    <3> HIDE DEF Early, Late
    <3> QED
      BY <2>3
  <2>5. Early(i - 1) /\ Late(i - 1)
    <3> HIDE DEF Early, Late
    <3> QED
      BY <2>2, <2>4
  <2>6. f[i] = Calculate(i, U, N, f[i - 1]) /\ f[i - 1] \in Valuation
    BY <2>4, CalculationType DEF Calculation
  <2>7. \A j \in 1 .. n : j # i => f[i][Order[j]] = f[i - 1][Order[j]]
    BY <2>4, <2>6 DEF Calculate, Valuation
  <2>8. Early(i)
    BY <2>4, <2>5, <2>7
  <2>9. Late(i)
    <3> TAKE k \in 0 .. i
    <3> TAKE j \in 1 .. k
    <3>1. CASE k = i
      BY <3>1
    <3>2. CASE k # i
      <4>1. k \in 0 .. i - 1 /\ j \in 1 .. n /\ j # i
        BY <2>4, <3>2
      <4> QED
        BY <2>5, <2>7, <4>1
    <3> QED
      BY <3>1, <3>2
  <2> QED
    BY <2>2, <2>8, <2>9
<1>2. n \in 0 .. n
  OBVIOUS
<1>3. Late(n)
  <2> HIDE DEF Early, Late
  <2> QED
    BY <1>1, <1>2
<1> QED
  BY <1>1, <1>3

-----------------------------------------------------------------------------
(* All values are sound.                                                   *)
RankOf == [s \in Sym |-> CHOOSE i \in 1 .. Len(Order) : Order[i] = s]

LEMMA RankIs ==
  ASSUME Sorted
  PROVE  RankOf \in [Sym -> Nat] /\ Acyclic(RankOf)
<1>1. \A s \in Sym : RankOf[s] \in 1 .. Len(Order) /\ Order[RankOf[s]] = s
  BY DEF Sorted, RankOf
<1>2. Len(Order) \in Nat
  BY DEF Sorted
<1>3. RankOf \in [Sym -> Nat]
  BY <1>1, <1>2 DEF RankOf
<1>4. ASSUME NEW s \in Sym, NEW t \in DependsOn(s)
      PROVE  RankOf[t] < RankOf[s]
  <2>1. t \in Sym
    BY DependsSym
  <2> DEFINE i == RankOf[s]
             j == RankOf[t]
  <2>2. i \in 1 .. Len(Order) /\ j \in 1 .. Len(Order) /\ Order[i] = s /\ Order[j] = t
    BY <1>1, <2>1
  <2> HIDE DEF i, j
  <2>3. j < i
    BY <2>2, <1>4 DEF Sorted
  <2> QED
    BY <2>3 DEF i, j
<1> QED
  BY <1>3, <1>4 DEF Acyclic

LEMMA ValuesSound ==
  ASSUME Sorted, PlainChoices, NEW U \in Valuation, NEW N, MemberAnswers(U)
  PROVE  LET V == Uncached!Values(U, N) IN
         V \in Valuation /\ \A s \in Sym : Sound(s, U, N, V, Sym)
<1> DEFINE V == Uncached!Values(U, N)
           n == Len(Order)
<1>1. PICK f : Calculation(f, n, U, N) /\ V = f[n]
  BY ValuesAre
<1>2. n \in Nat /\ \A i \in 1 .. n : Order[i] \in Sym
  BY DEF Sorted
<1>3. \A i, j \in 1 .. n : Order[i] = Order[j] => i = j
  BY DEF Sorted
<1>4. \A c \in Choice : Type[c] = "boolean"
  BY DEF PlainChoices
<1> HIDE DEF V, n
<1>5. \A i \in 0 .. n : f[i] \in Valuation
  BY <1>1, <1>2, CalculationType
<1>6. /\ \A i \in 0 .. n : \A j \in 1 .. n : i < j => f[i][Order[j]] = Unset
      /\ \A i \in 0 .. n : \A j \in 1 .. i : V[Order[j]] = f[i][Order[j]]
  <2>1. Calculation(f, n, U, N) /\ V = f[n]
    BY <1>1
  <2>2. /\ \A i \in 0 .. n : \A j \in 1 .. n : i < j => f[i][Order[j]] = Unset
        /\ \A i \in 0 .. n : \A j \in 1 .. i : f[n][Order[j]] = f[i][Order[j]]
    BY <2>1, <1>2, <1>3, CalculationStays
  <2> QED
    BY <2>1, <2>2
<1>7. V \in Valuation
  BY <1>1, <1>2, <1>5
<1>8. ASSUME NEW s \in Sym PROVE Sound(s, U, N, V, Sym)
  <2>1. PICK i \in 1 .. n : Order[i] = s
    BY DEF Sorted, n
  <2> DEFINE C == f[i - 1]
             C2 == f[i]
  <2>2. i - 1 \in 0 .. n /\ i \in 0 .. n /\ i \in 1 .. i /\ i - 1 < i
    BY <1>2
  <2>3. C \in Valuation /\ C2 \in Valuation /\ C[s] = Unset /\ V[s] = C2[s]
    BY <1>5, <1>6, <2>1, <2>2
  <2>4. C2 = Calculate(i, U, N, C)
    BY <1>1 DEF Calculation
  <2> HIDE DEF C, C2
  <2>5. Agree(Sym \ {s}, C, C2) /\ C2[s] = Uncached!ValueOf(s, U, N, C)
    BY <2>1, <2>3, <2>4 DEF Calculate, Valuation, Agree
  <2>6. RankOf \in [Sym -> Nat] /\ Acyclic(RankOf)
    BY RankIs
  <2>7. Sound(s, U, N, C2, DependsOn(s))
    <3>1. CASE s \in Choice
      BY <1>4, <2>3, <2>5, <2>6, <3>1, ChoiceCalculated DEF MemberAnswers
    <3>2. CASE s \notin Choice
      BY <2>3, <2>5, <2>6, <3>2, PlainCalculated
    <3> QED
      BY <3>1, <3>2
  <2>8. Agree(DependsOn(s), C2, V)
    <3> SUFFICES ASSUME NEW t \in DependsOn(s) PROVE C2[t] = V[t]
      BY DEF Agree
    <3>1. PICK j \in 1 .. n : Order[j] = t
      BY DependsSym DEF Sorted, n
    <3>2. j < i
      BY <2>1, <3>1 DEF Sorted, n
    <3>3. j \in 1 .. i
      BY <1>2, <3>2
    <3> QED
      BY <1>6, <2>2, <3>1, <3>3 DEF C2
  <2>9. SameSetting(s, U, N, U, N)
    BY DEF SameSetting, SameNew
  <2> QED
    BY <1>4, <1>7, <2>3, <2>7, <2>8, <2>9, DependsSym, SoundSame
<1> QED
  BY <1>7, <1>8 DEF V

-----------------------------------------------------------------------------
(* The cache holds what KValues calculates.                                *)
LEMMA ShownIs ==
  ASSUME Sorted, PlainChoices, Coherent(RankOf)
  PROVE  Uncached!Shown \in Valuation /\ Agree(Done, curr, Uncached!Shown)
<1> DEFINE V == Uncached!Values(user, isNew)
           T == {s \in Done : curr[s] # V[s]}
           R == {RankOf[s] : s \in T}
<1>1. Uncached!Shown = V
  BY DEF Uncached!Shown
<1>2. user \in Valuation /\ curr \in Valuation /\ MemberAnswers(user)
  BY DEF Coherent, TypeInv, TypeOK, Valuation, Settings
<1>3. V \in Valuation /\ \A s \in Sym : Sound(s, user, isNew, V, Sym)
  BY <1>2, ValuesSound
<1>4. RankOf \in [Sym -> Nat] /\ Acyclic(RankOf) /\ Done \in SUBSET Sym
  BY RankIs DEF Done
<1>5. \A s \in Done : Sound(s, user, isNew, curr, Done)
  BY DEF Coherent, Calculated
<1> HIDE DEF V, Done
<1>6. SUFFICES ASSUME T # {} PROVE FALSE
  BY <1>1, <1>3 DEF Agree
<1>7. PICK s \in T : \A t \in T : RankOf[s] <= RankOf[t]
  <2>1. R \in SUBSET Nat /\ R # {}
    BY <1>4, <1>6
  <2>2. PICK r \in R : \A q \in R : r <= q
    <3> HIDE DEF R
    <3> QED
      BY <2>1, LeastNat
  <2> QED
    BY <2>2
<1>8. s \in Sym /\ s \in Done /\ curr[s] # V[s]
  BY <1>4, <1>7
<1>9. Agree(Done \cap Sym \cap DependsOn(s), curr, V)
  <2> SUFFICES ASSUME NEW t \in DependsOn(s), t \in Done PROVE curr[t] = V[t]
    BY DEF Agree
  <2>1. t \in Sym /\ RankOf[t] < RankOf[s] /\ RankOf[t] \in Nat /\ RankOf[s] \in Nat
    BY <1>4, <1>8 DEF Acyclic
  <2>2. t \notin T
    BY <1>7, <2>1
  <2> QED
    BY <2>2
<1>10. Sound(s, user, isNew, curr, Done) /\ Sound(s, user, isNew, V, Sym)
  BY <1>3, <1>5, <1>8
<1> QED
  BY <1>2, <1>3, <1>4, <1>8, <1>9, <1>10, SoundUnique

(* The cached limits are those of the values shown.                        *)
LEMMA LimitsShown ==
  ASSUME Sorted, PlainChoices, Coherent(RankOf), Limits, NEW s \in Done
  PROVE  /\ visible[s] = Uncached!Visible(s, Uncached!Shown)
         /\ revdep[s] = Uncached!LowerLimit(s, Uncached!Shown)
         /\ IsBoolean(s, visible[s], curr) <=> IsBoolean(s, visible[s], Uncached!Shown)
         /\ visible[s] \in Tri /\ revdep[s] \in Tri
<1> DEFINE V == Uncached!Shown
<1>1. s \in Sym /\ s \in Limited
  BY DEF Done, Limited
<1>2. Agree(Done, curr, V)
  BY ShownIs
<1>3. VisibilityWants(s) \subseteq Done /\ TypeSyms(s, curr) \subseteq Done
  BY <1>1, LimitedAsks
<1> HIDE DEF V, Done
<1>4. Vis(s, V) = Vis(s, curr) /\ Rev(s, V) = Rev(s, curr) /\ Bool(s, V) = Bool(s, curr)
  BY <1>1, <1>2, <1>3, BoolSame
<1>5. visible[s] = Promote(Bool(s, curr), Vis(s, curr)) /\ revdep[s] = Promote(Bool(s, curr), Rev(s, curr))
  BY <1>1 DEF Limits, LimitsOf
<1>6. Uncached!Visibility(s, V) = Vis(s, V) /\ Uncached!RevDep(s, V) = Rev(s, V)
  BY EvalIs, FileSame DEF Uncached!Visibility, Vis, Uncached!RevDep, Rev
<1>7. Uncached!IsBoolean(s, Vis(s, V), V) <=> Bool(s, V)
  BY ValueSame0 DEF Bool
<1>8. Uncached!Visible(s, V) = Promote(Bool(s, V), Vis(s, V))
  BY <1>6, <1>7 DEF Uncached!Visible, Uncached!Promote, Promote
<1>9. Uncached!LowerLimit(s, V) = Promote(Bool(s, V), Rev(s, V))
  BY <1>6, <1>7 DEF Uncached!LowerLimit, Uncached!Promote, Promote
<1>10. IsBoolean(s, visible[s], curr) = IsBoolean(s, visible[s], V)
  <2>1. ASSUME Type[s] = "tristate", ~ChosenByChoice(s, visible[s]), Modules \in Sym
        PROVE  curr[Modules] = V[Modules]
    <3>1. ~ChosenByChoice(s, Vis(s, curr))
      BY <1>5, <2>1 DEF ChosenByChoice, Promote
    <3>2. Modules \in Done
      BY <1>3, <2>1, <3>1 DEF TypeSyms
    <3> QED
      BY <1>2, <3>2 DEF Agree
  <2> QED
    BY <1>1, <2>1, BooleanSame
<1>11. visible[s] \in Tri /\ revdep[s] \in Tri
  BY <1>1 DEF Coherent, TypeInv, TypeOK
<1> QED
  BY <1>4, <1>5, <1>8, <1>9, <1>10, <1>11 DEF V

-----------------------------------------------------------------------------
(* A request is answered as KValues answers it.                            *)
LEMMA TristateRequest ==
  ASSUME Sorted, PlainChoices, Coherent(RankOf), Limits,
         NEW s \in Sym, NEW v \in Tri, sym_set_tristate_value(s, v)
  PROVE  Uncached!sym_set_tristate_value(s, v)
<1> DEFINE V == Uncached!Shown
           c == ChoiceOf(s)
           told == s \in ChoiceValue /\ v = yes
           picked == IF told THEN {c} ELSE {}
           st == Uncached!Settings
<1>1. s \in Done
  BY AtRestDone DEF sym_set_tristate_value, AtRest, sym_clear_all_valid
<1>2. curr[s] = V[s]
  BY <1>1, ShownIs DEF Agree
<1>3. /\ visible[s] = Uncached!Visible(s, V) /\ revdep[s] = Uncached!LowerLimit(s, V)
      /\ IsBoolean(s, visible[s], curr) <=> IsBoolean(s, visible[s], V)
      /\ visible[s] \in Tri /\ revdep[s] \in Tri
  BY <1>1, LimitsShown
<1>4. user \in Valuation
  BY DEF Coherent, TypeInv, TypeOK, Valuation
<1> HIDE DEF V
<1>5. Uncached!Accepts(s, v, V)
  <2>1. CASE curr[s].tri = v
    BY <1>2, <2>1, FileSame DEF Uncached!Accepts, sym_set_tristate_value
  <2>2. CASE curr[s].tri # v
    <3>1. sym_tristate_within_range(s, v) /\ ~IsString(s)
      BY <2>2 DEF sym_set_tristate_value
    <3>2. /\ Uncached!IsBoolean(s, visible[s], V) <=> IsBoolean(s, visible[s], V)
          /\ Uncached!ChosenByChoice(s, visible[s]) <=> ChosenByChoice(s, visible[s])
      BY ValueSame0
    <3>3. visible[s] > revdep[s]
      BY <3>1 DEF sym_tristate_within_range
    <3>4. Uncached!sym_is_changable(s, V)
      BY <1>3, <3>3 DEF Uncached!sym_is_changable
    <3>5. Uncached!sym_tristate_within_range(s, v, V)
      BY <1>3, <3>1, <3>2, <3>4
         DEF Uncached!sym_tristate_within_range, sym_tristate_within_range
    <3> QED
      BY <3>1, <3>5, FileSame DEF Uncached!Accepts
  <2> QED
    BY <2>1, <2>2
<1>6. Uncached!Visible(s, V) # no \/ V[s].tri # no
  BY <1>2, <1>3 DEF sym_set_tristate_value
<1>7. user' = Setting(s, v) /\ isNew' = isNew \ ({s} \cup picked)
  BY DEF sym_set_tristate_value
<1>8. st.user = user /\ st.isNew = isNew
  BY DEF Uncached!Settings
<1>9. Setting(s, v) = [t \in Sym |-> IF t \in picked THEN [user[t] EXCEPT !.val = s]
                                     ELSE IF t = s THEN [user[t] EXCEPT !.tri = v]
                                     ELSE user[t]]
  <2>1. CASE told
    <3>1. c \in Sym /\ c # s
      BY <2>1, ChoiceOfType, FileAssumption, TypesAssumption DEF FileAssumption, TypesAssumption
    <3> HIDE DEF c
    <3> QED
      BY <1>4, <2>1, <3>1 DEF Setting, Valuation, c
  <2>2. CASE ~told
    BY <1>4, <2>2 DEF Setting, Valuation
  <2> QED
    BY <2>1, <2>2
<1>10. (IF s \in Uncached!ChoiceValue /\ v = Uncached!yes THEN {Uncached!ChoiceOf(s)} ELSE {}) = picked
  BY FileSame
<1> HIDE DEF st, picked
<1>11. Uncached!SetTri(st, s, v) =
         [user |-> [t \in Sym |-> IF t \in picked THEN [user[t] EXCEPT !.val = s]
                                  ELSE IF t = s THEN [user[t] EXCEPT !.tri = v]
                                  ELSE user[t]],
          isNew |-> isNew \ ({s} \cup picked)]
  BY <1>8, <1>10 DEF Uncached!SetTri
<1>12. Uncached!Becomes(Uncached!SetTri(st, s, v))
  BY <1>7, <1>9, <1>11 DEF Uncached!Becomes
<1> QED
  BY <1>5, <1>6, <1>12 DEF Uncached!sym_set_tristate_value, V, st

LEMMA StringRequest ==
  ASSUME Sorted, PlainChoices, Coherent(RankOf), Limits,
         NEW s \in Sym, NEW str \in Str, sym_set_string_value(s, str)
  PROVE  Uncached!sym_set_string_value(s, str)
<1>1. s \in Done
  BY AtRestDone DEF sym_set_string_value, AtRest, sym_clear_all_valid
<1>2. visible[s] = Uncached!Visible(s, Uncached!Shown)
  BY <1>1, LimitsShown
<1>3. Uncached!AcceptsString(s, str)
  BY FileSame DEF sym_set_string_value, sym_string_within_range, Uncached!AcceptsString
<1>4. Uncached!Becomes(Uncached!SetString(Uncached!Settings, s, str))
  BY DEF sym_set_string_value, Uncached!Becomes, Uncached!SetString, Uncached!Settings
<1> QED
  BY <1>2, <1>3, <1>4 DEF Uncached!sym_set_string_value, sym_set_string_value

LEMMA UncachedStep ==
  ASSUME Sorted, PlainChoices, Coherent(RankOf), Limits, [Next]_vars
  PROVE  [Uncached!config' # Uncached!config /\ (Uncached!Request \/ Uncached!conf_read)]_(Uncached!config)
<1>1. CASE Calculates
  <2>1. RankOf \in [Sym -> Nat] /\ TypeInv'
    BY RankIs, TypeStep DEF Coherent
  <2>2. UNCHANGED settings
    BY <1>1, <2>1, CalculationKeeps
  <2> QED
    BY <2>2 DEF settings, Uncached!config
<1>2. ASSUME NEW s \in Sym, NEW v \in Tri, sym_set_tristate_value(s, v)
      PROVE  Uncached!Request
  BY <1>2, TristateRequest DEF Uncached!Request
<1>3. ASSUME NEW s \in Sym, NEW str \in Str, sym_set_string_value(s, str)
      PROVE  Uncached!Request
  BY <1>3, StringRequest DEF Uncached!Request
<1>4. CASE UNCHANGED vars
  BY <1>4 DEF vars, settings, Uncached!config
<1> QED
  BY <1>1, <1>2, <1>3, <1>4 DEF Next, FrontEnd, Calculates

(* In every file whose symbols can be sorted by their dependencies and     *)
(* whose choices are plain, the engine accepts, refuses and stores         *)
(* requests as if it calculated every value from the settings each time    *)
(* (symbol.c:371-554), however the calculations are interleaved.           *)
THEOREM EngineIsUncached ==
  ASSUME Sorted, PlainChoices, ProperLoaded
  PROVE  Spec => IsUncached
<1> DEFINE Inv == Coherent(RankOf) /\ Limits
<1>0. RankOf \in [Sym -> Nat] /\ Acyclic(RankOf)
  BY RankIs
<1>1. Init => Inv
  BY <1>0, CoherentInit, LimitsInit
<1>2. Inv /\ [Next]_vars => Inv'
  BY <1>0, CoherentStep, LimitsStep
<1>3. Init => Uncached!ValuesInit
  BY DEF Init, Uncached!ValuesInit
<1>4. Inv /\ [Next]_vars =>
        [Uncached!config' # Uncached!config /\ (Uncached!Request \/ Uncached!conf_read)]_(Uncached!config)
  BY UncachedStep
<1> HIDE DEF Inv
<1> QED
  BY <1>1, <1>2, <1>3, <1>4, PTL DEF Spec, IsUncached, Uncached!ValuesSpec
=============================================================================
