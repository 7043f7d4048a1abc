--------------------------- MODULE KconfigProofs ----------------------------
(***************************************************************************)
(* What is proved of the calculation of values for every finalized Kconfig *)
(* file: types, what a value depends on, and the values of choices and of  *)
(* their members.                                                          *)
(***************************************************************************)
EXTENDS KconfigFile, SequenceTheorems, WellFoundedInduction, TLAPS

USE DEF no, mod, yes, Tri

-----------------------------------------------------------------------------
(* The value of every expression is a tristate.                            *)
LEMMA EvalType == \A e, c : EvalExpr(e, c) \in Tri
  BY DEF EvalExpr, MaxTri

LEMMA LogicType == \A a, b \in Tri : EOr(a, b) \in Tri /\ EAnd(a, b) \in Tri
  BY DEF EOr, EAnd

(* The symbols of an expression are symbols.                               *)
LEMMA LiteralType ==
  ASSUME NEW l \in Literal(Sym, Str), l.op # "const"
  PROVE  l.sym \in Sym
  BY DEF Literal

LEMMA ExprSymsType ==
  ASSUME NEW e \in Expr
  PROVE  ExprSyms(e) \subseteq Sym
<1> SUFFICES ASSUME NEW cl \in e, NEW l \in cl, l.op # "const"
             PROVE  l.sym \in Sym
  BY DEF ExprSyms
<1>1. l \in Literal(Sym, Str)
  BY DEF Expr
<1> QED
  BY <1>1, LiteralType

LEMMA AndLitType ==
  ASSUME NEW e \in Expr, NEW l \in Literal(Sym, Str)
  PROVE  AndLit(e, l) \in Expr
  BY DEF AndLit, Expr

LEMMA ChoiceOfType ==
  ASSUME NEW s \in ChoiceValue
  PROVE  ChoiceOf(s) \in Choice /\ s \in MembersOf(ChoiceOf(s))
<1>1. \E c \in Choice : s \in MembersOf(c)
  BY DEF ChoiceValue
<1> QED
  BY <1>1 DEF ChoiceOf

LEMMA VisExprType ==
  ASSUME NEW s \in Sym
  PROVE  VisExpr(s) \in Expr
<1>1. Prompt[s] \in Expr
  BY FileAssumption DEF FileAssumption
<1>2. CASE s \in ChoiceValue
  <2>1. ChoiceOf(s) \in Sym
    BY <1>2, ChoiceOfType, FileAssumption DEF FileAssumption
  <2>2. Is(ChoiceOf(s)) \in Literal(Sym, Str)
    BY <2>1 DEF Is, Literal
  <2> QED
    BY <1>1, <1>2, <2>2, AndLitType DEF VisExpr
<1> QED
  BY <1>1, <1>2 DEF VisExpr

LEMMA RevDepExprType ==
  ASSUME NEW s \in Sym
  PROVE  RevDepExpr(s) \in Expr
<1> DEFINE ByMembers == {AndLit(sel.cond, Is(sel.from)) : sel \in {x \in Selects : x.to = s}}
           ByPrompt == IF s \in Choice \ Optional
                       THEN {AndLit(Prompt[s], Const(mod))} ELSE {}
<1>1. ByMembers \subseteq Expr
  <2>1. ASSUME NEW sel \in Selects
        PROVE  sel.cond \in Expr /\ Is(sel.from) \in Literal(Sym, Str)
    <3>1. sel \in [from : Sym, to : Sym, cond : Expr]
      BY FileAssumption DEF FileAssumption
    <3> QED
      BY <3>1 DEF Is, Literal
  <2> QED
    BY <2>1, AndLitType
<1>2. ByPrompt \subseteq Expr
  <2>1. Prompt[s] \in Expr
    BY FileAssumption DEF FileAssumption
  <2>2. Const(mod) \in Literal(Sym, Str)
    BY DEF Const, Literal
  <2> QED
    BY <2>1, <2>2, AndLitType
<1>3. RevDepExpr(s) = UNION (ByMembers \cup ByPrompt)
  BY DEF RevDepExpr
<1> QED
  BY <1>1, <1>2, <1>3 DEF Expr

(* A default of a string is a string or a symbol, a default of a choice    *)
(* one of its members.                                                     *)
LEMMA DefaultsType ==
  ASSUME NEW s \in Sym
  PROVE  /\ NumDefaults(s) \in Nat
         /\ DOMAIN Defaults[s] = 1 .. NumDefaults(s)
         /\ \A d \in 1 .. NumDefaults(s) : Defaults[s][d] \in DefaultProp
         /\ IsString(s) =>
              \A d \in 1 .. NumDefaults(s) : Defaults[s][d].value \in Str \cup Sym
         /\ ~IsString(s) /\ s \notin Choice =>
              \A d \in 1 .. NumDefaults(s) : Defaults[s][d].value \in Expr
         /\ s \in Choice =>
              \A d \in 1 .. NumDefaults(s) : Defaults[s][d].value \in MembersOf(s)
<1>1. Defaults[s] \in Seq(DefaultProp)
  BY FileAssumption DEF FileAssumption
<1>2. NumDefaults(s) \in Nat /\ DOMAIN Defaults[s] = 1 .. NumDefaults(s)
  BY <1>1 DEF NumDefaults
<1>3. \A d \in 1 .. NumDefaults(s) : Defaults[s][d] \in DefaultProp
  BY <1>1, <1>2
<1> QED
  BY <1>2, <1>3, TypesAssumption DEF TypesAssumption

LEMMA MembersType ==
  ASSUME NEW c \in Choice
  PROVE  /\ Len(Members[c]) \in Nat
         /\ DOMAIN Members[c] = 1 .. Len(Members[c])
         /\ \A i \in 1 .. Len(Members[c]) : Members[c][i] \in MembersOf(c)
         /\ MembersOf(c) \subseteq Sym
<1>1. Members[c] \in Seq(Sym)
  BY FileAssumption DEF FileAssumption
<1>2. Len(Members[c]) \in Nat /\ DOMAIN Members[c] = 1 .. Len(Members[c])
  BY <1>1
<1>3. \A i \in 1 .. Len(Members[c]) : Members[c][i] \in Sym
  BY <1>1
<1>4. MembersOf(c) = {Members[c][i] : i \in 1 .. Len(Members[c])}
  BY <1>2 DEF MembersOf
<1>5. ASSUME NEW i \in 1 .. Len(Members[c]) PROVE Members[c][i] \in MembersOf(c)
  BY <1>4
<1>6. MembersOf(c) \subseteq Sym
  BY <1>3, <1>4
<1> QED
  BY <1>2, <1>5, <1>6

(* The candidates of a choice: the user's answer, the defaults, the        *)
(* members.  Every one of them is a symbol.                                *)
CandidateProp == [cond : SUBSET SUBSET Literal(Sym, Str), value : Sym]

LEMMA CandidatesType ==
  ASSUME NEW c \in Choice, NEW chosen
  PROVE  /\ Len(Candidates(c, chosen)) \in Nat
         /\ \A d \in 1 .. Len(Candidates(c, chosen)) :
              /\ Candidates(c, chosen)[d].cond \in Expr
              /\ Candidates(c, chosen)[d].value \in Sym
<1> DEFINE A == IF chosen \in Sym THEN <<[cond |-> TrueExpr, value |-> chosen]>> ELSE << >>
           M == [i \in 1 .. Len(Members[c]) |-> [cond |-> TrueExpr, value |-> Members[c][i]]]
<1>1. TrueExpr \in Expr
  BY DEF TrueExpr, Expr
<1>2. A \in Seq(CandidateProp)
  <2>1. CASE chosen \in Sym
    <3>1. [cond |-> TrueExpr, value |-> chosen] \in CandidateProp
      BY <1>1, <2>1 DEF CandidateProp, Expr
    <3>2. A = <<[cond |-> TrueExpr, value |-> chosen]>>
      BY <2>1
    <3> QED
      BY <3>1, <3>2
  <2>2. CASE chosen \notin Sym
    <3>1. A = << >>
      BY <2>2
    <3> QED
      BY <3>1
  <2> QED
    BY <2>1, <2>2
<1>3. c \in Sym
  BY FileAssumption DEF FileAssumption
<1>4. Defaults[c] \in Seq(CandidateProp)
  <2>1. Defaults[c] \in Seq(DefaultProp)
    BY <1>3, FileAssumption DEF FileAssumption
  <2>2. \A d \in 1 .. Len(Defaults[c]) : Defaults[c][d] \in CandidateProp
    BY <1>3, <2>1, DefaultsType, MembersType DEF DefaultProp, CandidateProp, Expr, NumDefaults
  <2> QED
    BY <2>1, <2>2
<1>5. M \in Seq(CandidateProp)
  BY <1>1, MembersType DEF CandidateProp, Expr
<1>6. Candidates(c, chosen) = (A \o Defaults[c]) \o M
  BY DEF Candidates
<1>7. Candidates(c, chosen) \in Seq(CandidateProp)
  <2> HIDE DEF A, M
  <2> QED  BY <1>2, <1>4, <1>5, <1>6
<1>8. Len(Candidates(c, chosen)) \in Nat
  BY <1>7
<1>9. ASSUME NEW d \in 1 .. Len(Candidates(c, chosen))
      PROVE  Candidates(c, chosen)[d] \in CandidateProp
  BY <1>7
<1> QED
  BY <1>8, <1>9 DEF CandidateProp, Expr

-----------------------------------------------------------------------------
(* A calculated value has the type of a value.                             *)
LEMMA BaseValueType ==
  ASSUME NEW s \in Sym, NEW u \in SymbolValue, NEW has \in BOOLEAN,
         NEW vis \in Tri, NEW rev \in Tri, NEW d \in Nat \ {0},
         NEW c \in [Sym -> SymbolValue]
  PROVE  BaseValue(s, u, has, vis, rev, d, c) \in SymbolValue
<1>1. CASE IsString(s)
  <2>1. DefaultStr(s, d, c) \in Val
    <3>1. CASE d > NumDefaults(s)
      BY <3>1, FileAssumption DEF DefaultStr, Val, FileAssumption
    <3>2. CASE ~(d > NumDefaults(s))
      <4>1. Defaults[s][d].value \in Str \cup Sym
        BY <1>1, <3>2, DefaultsType
      <4>2. CASE Defaults[s][d].value \in Sym
        BY <3>2, <4>2 DEF DefaultStr, SymbolValue
      <4>3. CASE Defaults[s][d].value \notin Sym
        BY <3>2, <4>1, <4>3 DEF DefaultStr, Val
      <4> QED
        BY <4>2, <4>3
    <3> QED
      BY <3>1, <3>2
  <2>2. u.val \in Val
    BY DEF SymbolValue
  <2>3. BaseStr(s, u, has, vis, rev, d, c) \in Val
    BY <2>1, <2>2 DEF BaseStr
  <2> QED
    BY <1>1, <2>3 DEF BaseValue, SymbolValue
<1>2. CASE ~IsString(s)
  <2>1. DefaultTri(s, d, c) \in Tri
    BY EvalType DEF DefaultTri
  <2>2. u.tri \in Tri
    BY DEF SymbolValue
  <2>3. \A t \in Tri : Limit(t, vis, rev) \in Tri
    BY LogicType DEF Limit
  <2>4. BaseTri(s, u, has, vis, rev, d, c) \in Tri
    BY <2>1, <2>2, <2>3 DEF BaseTri
  <2>5. Promote(IsBoolean(s, vis, c), BaseTri(s, u, has, vis, rev, d, c)) \in Tri
    BY <2>4 DEF Promote
  <2> QED
    BY <1>2, <2>5 DEF BaseValue, SymbolValue, Val
<1> QED
  BY <1>1, <1>2

-----------------------------------------------------------------------------
(* What a value is calculated from, as functions of the cached values C,   *)
(* the settings U and N and the settled symbols S.                         *)
Vis(s, C) == EvalExpr(VisExpr(s), C)

Rev(s, C) == IF s \in ChoiceValue THEN no ELSE EvalExpr(RevDepExpr(s), C)

Base(s, U, N, C, d) == BaseValue(s, U[s], s \notin N, Vis(s, C), Rev(s, C), d, C)

Uses(s, N, C) == UsesDefault(s, s \notin N, Vis(s, C), Rev(s, C))

TypeSyms(s, C) ==
  IF Type[s] = "tristate" /\ ~ChosenByChoice(s, Vis(s, C)) THEN {Modules} \cap Sym ELSE {}

DefaultTried(s, j, C, S) ==
  ExprSyms(Defaults[s][j].cond) \subseteq S /\ ~DefaultHit(s, j, C)

OpenAt(c, C) == [C EXCEPT ![c] = [tri |-> yes, val |-> NoVal]]

CandidateSeen(k, C, S) ==
  /\ ExprSyms(k.cond) \subseteq S
  /\ EvalExpr(k.cond, C) # no => ExprSyms(Prompt[k.value]) \subseteq S

MemberFound(c, U, C, S) ==
  LET cand == Candidates(c, U[c].val) IN
  \E d \in 1 .. Len(cand) + 1 :
    /\ \A j \in 1 .. d - 1 : /\ CandidateSeen(cand[j], OpenAt(c, C), S)
                             /\ ~CandidateHit(cand[j], OpenAt(c, C))
    /\ d <= Len(cand) => /\ CandidateSeen(cand[d], OpenAt(c, C), S)
                         /\ CandidateHit(cand[d], OpenAt(c, C))
                         /\ C[c] = [tri |-> yes, val |-> cand[d].value]
    /\ d > Len(cand) => C[c] = [tri |-> no, val |-> NoVal]

Valuation == [Sym -> SymbolValue]

(* Facts about the values and the settings.                                *)
NeverModNow(C) == \A s \in Sym : Type[s] = "boolean" => C[s].tri # mod

MemberAnswers(U) == \A c \in Choice : U[c].val \in Sym => U[c].val \in MembersOf(c)

-----------------------------------------------------------------------------
(* Values and settings that are the same.                                  *)
Agree(S, C, C2) == \A x \in S : C[x] = C2[x]

SameNew(s, N, N2) == s \in N2 <=> s \in N

SameSetting(s, U, N, U2, N2) == U2[s] = U[s] /\ SameNew(s, N, N2)

(* An expression has the same value when its literals have.                *)
LEMMA EvalSame ==
  ASSUME NEW e, NEW C, NEW C2,
         \A cl \in e : \A l \in cl : LitValue(l, C) = LitValue(l, C2)
  PROVE  EvalExpr(e, C) = EvalExpr(e, C2)
<1>1. ASSUME NEW cl \in e
      PROVE  {LitValue(l, C) : l \in cl} = {LitValue(l, C2) : l \in cl}
  OBVIOUS
<1>2. {MinTri({LitValue(l, C) : l \in cl}) : cl \in e}
        = {MinTri({LitValue(l, C2) : l \in cl}) : cl \in e}
  BY <1>1
<1> QED
  BY <1>2 DEF EvalExpr

LEMMA LitSame ==
  ASSUME NEW l, NEW C, NEW C2, l.op # "const" => C[l.sym] = C2[l.sym]
  PROVE  LitValue(l, C) = LitValue(l, C2)
  BY DEF LitValue

(* It depends only on the symbols in it.                                   *)
LEMMA Footprint ==
  ASSUME NEW e, NEW C, NEW C2, NEW S,
         ExprSyms(e) \subseteq S, Agree(S, C, C2)
  PROVE  EvalExpr(e, C) = EvalExpr(e, C2)
<1>1. ASSUME NEW cl \in e, NEW l \in cl
      PROVE  LitValue(l, C) = LitValue(l, C2)
  <2>1. l.op # "const" => l.sym \in ExprSyms(e)
    BY DEF ExprSyms
  <2> QED
    BY <2>1, LitSame DEF Agree
<1> QED
  BY <1>1, EvalSame

(* A visible member has asked for its choice.                              *)
LEMMA MemberAsksChoice ==
  ASSUME NEW v \in ChoiceValue, NEW C, Vis(v, C) # no
  PROVE  ChoiceOf(v) \in ExprSyms(VisExpr(v))
<1>1. VisExpr(v) # {}
  <2>1. SUFFICES ASSUME VisExpr(v) = {} PROVE FALSE
    OBVIOUS
  <2>2. {MinTri({LitValue(l, C) : l \in cl}) : cl \in VisExpr(v)} = {}
    BY <2>1
  <2> QED
    BY <2>2 DEF Vis, EvalExpr, MaxTri
<1>2. PICK cl \in VisExpr(v) : TRUE
  BY <1>1
<1>3. Is(ChoiceOf(v)) \in cl
  BY <1>2 DEF VisExpr, AndLit
<1>4. Is(ChoiceOf(v)).op # "const" /\ Is(ChoiceOf(v)).sym = ChoiceOf(v)
  BY DEF Is
<1> QED
  BY <1>2, <1>3, <1>4 DEF ExprSyms

LEMMA MemberOfChoice ==
  ASSUME NEW c \in Choice, NEW v \in MembersOf(c)
  PROVE  v \in ChoiceValue /\ ChoiceOf(v) = c
<1>1. v \in ChoiceValue
  BY DEF ChoiceValue
<1>2. ChoiceOf(v) \in Choice /\ v \in MembersOf(ChoiceOf(v))
  BY <1>1, ChoiceOfType
<1>3. MembersOf(ChoiceOf(v)) \cap MembersOf(c) # {}
  BY <1>2
<1> QED
  BY <1>1, <1>2, <1>3, TypesAssumption DEF TypesAssumption

LEMMA VisExprSyms ==
  ASSUME NEW v \in ChoiceValue
  PROVE  ExprSyms(VisExpr(v)) \subseteq ExprSyms(Prompt[v]) \cup {ChoiceOf(v)}
<1> SUFFICES ASSUME NEW cl \in VisExpr(v), NEW l \in cl, l.op # "const"
             PROVE  l.sym \in ExprSyms(Prompt[v]) \cup {ChoiceOf(v)}
  BY DEF ExprSyms
<1>1. PICK cl2 \in Prompt[v] : cl = cl2 \cup {Is(ChoiceOf(v))}
  BY DEF VisExpr, AndLit
<1>2. CASE l \in cl2
  BY <1>1, <1>2 DEF ExprSyms
<1>3. CASE l = Is(ChoiceOf(v))
  BY <1>3 DEF Is
<1> QED
  BY <1>1, <1>2, <1>3

LEMMA BooleanSame ==
  ASSUME NEW s \in Sym, NEW vis, NEW C, NEW C2,
         Type[s] = "tristate" /\ ~ChosenByChoice(s, vis) /\ Modules \in Sym
           => C[Modules] = C2[Modules]
  PROVE  IsBoolean(s, vis, C) = IsBoolean(s, vis, C2)
<1>1. Modules = NoSym \/ Modules \in Sym
  BY FileAssumption DEF FileAssumption
<1> QED
  BY <1>1 DEF IsBoolean, ChosenByChoice, ModulesTri

LEMMA TriedSame ==
  ASSUME NEW s, NEW j, NEW C, NEW C2, NEW S, NEW S2 , S \subseteq S2,
         Agree(S, C, C2), DefaultTried(s, j, C, S)
  PROVE  DefaultTried(s, j, C2, S2)
<1>1. EvalExpr(Defaults[s][j].cond, C) = EvalExpr(Defaults[s][j].cond, C2)
  BY Footprint DEF DefaultTried
<1> QED
  BY <1>1 DEF DefaultTried, DefaultHit

LEMMA CandidateSame ==
  ASSUME NEW k, NEW C, NEW C2, NEW S, NEW S2, NEW c \in Choice, S \subseteq S2,
         k.value \in MembersOf(c), C[c] = C2[c],
         Agree(S, C, C2), CandidateSeen(k, C, S)
  PROVE  CandidateSeen(k, C2, S2) /\ CandidateHit(k, C) = CandidateHit(k, C2)
<1>1. EvalExpr(k.cond, C) = EvalExpr(k.cond, C2)
  BY Footprint DEF CandidateSeen
<1>2. CandidateSeen(k, C2, S2)
  BY <1>1 DEF CandidateSeen
<1>3. ASSUME EvalExpr(k.cond, C) # no
      PROVE  EvalExpr(VisExpr(k.value), C) = EvalExpr(VisExpr(k.value), C2)
  <2>1. k.value \in ChoiceValue /\ ChoiceOf(k.value) = c
    BY MemberOfChoice
  <2>2. ExprSyms(VisExpr(k.value)) \subseteq S \cup {c}
    BY <1>3, <2>1, VisExprSyms DEF CandidateSeen
  <2>3. Agree(S \cup {c}, C, C2)
    BY DEF Agree
  <2> QED
    BY <2>2, <2>3, Footprint
<1> QED
  BY <1>1, <1>2, <1>3 DEF CandidateHit

(* A candidate is a member of the choice, tried always or under the        *)
(* condition of a default; the user's answer is the first.                 *)
MemberProp(c) ==
  [cond : {TrueExpr} \cup {Defaults[c][d].cond : d \in 1 .. NumDefaults(c)},
   value : MembersOf(c)]

LEMMA CandidatesMember ==
  ASSUME NEW c \in Choice, NEW chosen, chosen \in Sym => chosen \in MembersOf(c)
  PROVE  /\ Candidates(c, chosen) \in Seq(MemberProp(c))
         /\ chosen \in Sym =>
              /\ Len(Candidates(c, chosen)) >= 1
              /\ Candidates(c, chosen)[1] = [cond |-> TrueExpr, value |-> chosen]
<1> DEFINE A == IF chosen \in Sym THEN <<[cond |-> TrueExpr, value |-> chosen]>> ELSE << >>
           M == [i \in 1 .. Len(Members[c]) |-> [cond |-> TrueExpr, value |-> Members[c][i]]]
           P == MemberProp(c)
<1>1. A \in Seq(P) /\ (chosen \in Sym => Len(A) = 1 /\ A[1] = [cond |-> TrueExpr, value |-> chosen])
  <2>1. CASE chosen \in Sym
    <3>1. [cond |-> TrueExpr, value |-> chosen] \in P
      BY <2>1 DEF MemberProp
    <3>2. A = <<[cond |-> TrueExpr, value |-> chosen]>>
      BY <2>1
    <3> HIDE DEF A, P
    <3> QED
      BY <3>1, <3>2
  <2>2. CASE chosen \notin Sym
    <3>1. A = << >>
      BY <2>2
    <3> QED
      BY <2>2, <3>1
  <2> QED
    BY <2>1, <2>2
<1>2. Defaults[c] \in Seq(P)
  <2>1. c \in Sym
    BY FileAssumption DEF FileAssumption
  <2>2. Defaults[c] \in Seq(DefaultProp)
    BY <2>1, FileAssumption DEF FileAssumption
  <2>3. ASSUME NEW d \in 1 .. Len(Defaults[c]) PROVE Defaults[c][d] \in P
    <3>1. d \in 1 .. NumDefaults(c)
      BY DEF NumDefaults
    <3>2. Defaults[c][d] \in DefaultProp /\ Defaults[c][d].value \in MembersOf(c)
      BY <2>1, <3>1, DefaultsType
    <3> QED
      BY <3>1, <3>2 DEF DefaultProp, MemberProp
  <2> HIDE DEF P
  <2> QED
    BY <2>2, <2>3
<1>3. M \in Seq(P)
  <2>1. Len(Members[c]) \in Nat
    BY MembersType
  <2>2. ASSUME NEW i \in 1 .. Len(Members[c]) PROVE M[i] \in P
    BY MembersType DEF MemberProp
  <2>3. \A i \in 1 .. Len(Members[c]) : [cond |-> TrueExpr, value |-> Members[c][i]] \in P
    BY <2>2
  <2> HIDE DEF P
  <2> QED
    BY <2>1, <2>3
<1>4. Candidates(c, chosen) = (A \o Defaults[c]) \o M
  BY DEF Candidates
<1> HIDE DEF A, M, P
<1>5. /\ Candidates(c, chosen) \in Seq(P)
      /\ chosen \in Sym => /\ Len(Candidates(c, chosen)) >= 1
                           /\ Candidates(c, chosen)[1] = A[1]
  BY <1>1, <1>2, <1>3, <1>4
<1> QED
  BY <1>1, <1>5 DEF P

LEMMA CandidateMember ==
  ASSUME NEW c \in Choice, NEW chosen, chosen \in Sym => chosen \in MembersOf(c),
         NEW d \in 1 .. Len(Candidates(c, chosen))
  PROVE  /\ Candidates(c, chosen)[d] \in MemberProp(c)
         /\ Candidates(c, chosen)[d].value \in MembersOf(c)
<1>1. Candidates(c, chosen) \in Seq(MemberProp(c))
  BY CandidatesMember
<1>2. Candidates(c, chosen)[d] \in MemberProp(c)
  BY <1>1
<1> QED
  BY <1>2 DEF MemberProp

LEMMA CandidatesLen ==
  ASSUME NEW c \in Choice, NEW chosen
  PROVE  Len(Candidates(c, chosen)) \in Nat
  BY CandidatesType

LEMMA OpenSame ==
  ASSUME NEW c \in Choice, NEW C \in Valuation, NEW C2 \in Valuation, NEW S \in SUBSET Sym,
         Agree(S, C, C2)
  PROVE  /\ OpenAt(c, C)[c] = OpenAt(c, C2)[c]
         /\ OpenAt(c, C)[c] = [tri |-> yes, val |-> NoVal]
         /\ Agree(S, OpenAt(c, C), OpenAt(c, C2))
<1>1. c \in Sym
  BY FileAssumption DEF FileAssumption
<1> QED
  BY <1>1 DEF OpenAt, Valuation, Agree

LEMMA MemberFoundSame ==
  ASSUME NEW c \in Choice, NEW U, NEW U2, NEW C \in Valuation, NEW C2 \in Valuation,
         NEW S \in SUBSET Sym, NEW S2, S \subseteq S2, Agree(S, C, C2), C[c] = C2[c],
         U2[c] = U[c], U[c].val \in Sym => U[c].val \in MembersOf(c),
         MemberFound(c, U, C, S)
  PROVE  MemberFound(c, U2, C2, S2)
<1> DEFINE cand == Candidates(c, U[c].val)
           O == OpenAt(c, C)
           O2 == OpenAt(c, C2)
<1>1. PICK d \in 1 .. Len(cand) + 1 :
        /\ \A j \in 1 .. d - 1 : CandidateSeen(cand[j], O, S) /\ ~CandidateHit(cand[j], O)
        /\ d <= Len(cand) => /\ CandidateSeen(cand[d], O, S)
                             /\ CandidateHit(cand[d], O)
                             /\ C[c] = [tri |-> yes, val |-> cand[d].value]
        /\ d > Len(cand) => C[c] = [tri |-> no, val |-> NoVal]
  BY DEF MemberFound
<1>2. O[c] = O2[c] /\ Agree(S, O, O2)
  BY OpenSame
<1>3. \A j \in 1 .. Len(cand) : cand[j].value \in MembersOf(c)
  BY CandidateMember
<1>4. ASSUME NEW j \in 1 .. Len(cand), CandidateSeen(cand[j], O, S)
      PROVE  CandidateSeen(cand[j], O2, S2) /\ CandidateHit(cand[j], O) = CandidateHit(cand[j], O2)
  <2> HIDE DEF O, O2, cand
  <2> QED
    BY <1>2, <1>3, <1>4, CandidateSame
<1>5. Len(cand) \in Nat
  BY CandidatesLen
<1>6. /\ \A j \in 1 .. d - 1 : CandidateSeen(cand[j], O2, S2) /\ ~CandidateHit(cand[j], O2)
      /\ d <= Len(cand) => /\ CandidateSeen(cand[d], O2, S2)
                           /\ CandidateHit(cand[d], O2)
                           /\ C2[c] = [tri |-> yes, val |-> cand[d].value]
      /\ d > Len(cand) => C2[c] = [tri |-> no, val |-> NoVal]
  <2> HIDE DEF O, O2, cand
  <2>1. \A j \in 1 .. d - 1 : j \in 1 .. Len(cand)
    BY <1>5
  <2>2. d <= Len(cand) => d \in 1 .. Len(cand)
    BY <1>5
  <2> QED
    BY <1>1, <1>4, <2>1, <2>2
<1> QED
  BY <1>6 DEF MemberFound

-----------------------------------------------------------------------------
(* What a value does not depend on; the first candidate is only one.       *)
LEMMA NoDefaultUsed ==
  ASSUME NEW s \in Sym, NEW U, NEW N, NEW C, ~Uses(s, N, C), NEW d, NEW d2
  PROVE  Base(s, U, N, C, d) = Base(s, U, N, C, d2)
<1>1. BaseTri(s, U[s], s \notin N, Vis(s, C), Rev(s, C), d, C)
        = BaseTri(s, U[s], s \notin N, Vis(s, C), Rev(s, C), d2, C)
  BY DEF Uses, BaseTri
<1>2. BaseStr(s, U[s], s \notin N, Vis(s, C), Rev(s, C), d, C)
        = BaseStr(s, U[s], s \notin N, Vis(s, C), Rev(s, C), d2, C)
  BY DEF Uses, BaseStr
<1> QED
  BY <1>1, <1>2 DEF Base, BaseValue

LEMMA FirstCandidateUnique ==
  ASSUME NEW cand, Len(cand) \in Nat, NEW C, NEW d \in 1 .. Len(cand) + 1,
         IsFirstCandidate(cand, d, C)
  PROVE  (CHOOSE i \in 1 .. Len(cand) + 1 : IsFirstCandidate(cand, i, C)) = d
<1>1. ASSUME NEW e \in 1 .. Len(cand) + 1, IsFirstCandidate(cand, e, C)
      PROVE  e = d
  <2>1. CASE e < d
    BY <1>1, <2>1 DEF IsFirstCandidate
  <2>2. CASE d < e
    BY <1>1, <2>2 DEF IsFirstCandidate
  <2> QED
    BY <2>1, <2>2
<1> QED
  BY <1>1

-----------------------------------------------------------------------------
(* The members of plain choices.                                           *)
LEMMA NeverModValue ==
  ASSUME NEW l, NeverMod(l), NEW C, NeverModNow(C),
         l \in Literal(Sym, Str), C \in Valuation
  PROVE  LitValue(l, C) \in {no, yes}
<1>1. l.op \in {"eq", "ne"} => LitValue(l, C) \in {no, yes}
  BY DEF LitValue
<1>2. l.op = "const" => l.arg \in Tri
  BY DEF Literal
<1>3. l.op \in {"sym", "not"} => l.sym \in Sym /\ C[l.sym].tri \in Tri
  BY DEF Literal, Valuation, SymbolValue
<1>4. CASE l.op = "const"
  BY <1>2, <1>4 DEF NeverMod, LitValue
<1>5. CASE l.op \in {"sym", "not"}
  <2>1. C[l.sym].tri \in {no, yes}
    BY <1>3, <1>5 DEF NeverMod, NeverModNow
  <2> QED
    BY <1>5, <2>1 DEF LitValue, ENot
<1>6. l.op \in {"const", "sym", "not", "eq", "ne"}
  BY DEF Literal
<1> QED
  BY <1>1, <1>4, <1>5, <1>6

LEMMA MemberNeverMod ==
  ASSUME PlainChoices, NEW v \in ChoiceValue, NEW C \in Valuation, NeverModNow(C)
  PROVE  Vis(v, C) \in {no, yes}
<1> DEFINE c == ChoiceOf(v)
<1>1. c \in Choice /\ v \in MembersOf(c) /\ c \in Sym /\ v \in Sym
  BY ChoiceOfType, MembersType, FileAssumption DEF FileAssumption
<1>2. Type[c] = "boolean" /\ \A l \in UNION Prompt[v] : NeverMod(l)
  BY <1>1 DEF PlainChoices
<1>3. Prompt[v] \in Expr
  BY <1>1, FileAssumption DEF FileAssumption
<1>4. ASSUME NEW cl \in VisExpr(v), NEW l \in cl
      PROVE  LitValue(l, C) # mod
  <2>1. PICK cl2 \in Prompt[v] : cl = cl2 \cup {Is(c)}
    BY DEF VisExpr, AndLit
  <2>2. CASE l \in cl2
    <3>1. NeverMod(l)
      BY <1>2, <2>1, <2>2
    <3>2. l \in Literal(Sym, Str)
      BY <1>3, <2>1, <2>2 DEF Expr
    <3> QED
      BY <3>1, <3>2, NeverModValue
  <2>3. CASE l = Is(c)
    BY <1>1, <1>2, <2>3 DEF Is, LitValue, NeverModNow
  <2> QED
    BY <2>1, <2>2, <2>3
<1>5. ASSUME NEW cl \in VisExpr(v)
      PROVE  MinTri({LitValue(l, C) : l \in cl}) # mod
  BY <1>4 DEF MinTri
<1> QED
  BY <1>5 DEF Vis, EvalExpr, MaxTri

(* Nothing is visible in a choice that is no.                              *)
LEMMA ClosedChoice ==
  ASSUME NEW v \in ChoiceValue, NEW C, C[ChoiceOf(v)].tri = no
  PROVE  Vis(v, C) = no
<1>1. ASSUME NEW cl \in VisExpr(v)
      PROVE  MinTri({LitValue(l, C) : l \in cl}) = no
  <2>1. Is(ChoiceOf(v)) \in cl
    BY DEF VisExpr, AndLit
  <2>2. LitValue(Is(ChoiceOf(v)), C) = no
    BY DEF Is, LitValue
  <2> QED
    BY <2>1, <2>2 DEF MinTri
<1> QED
  BY <1>1 DEF Vis, EvalExpr, MaxTri

(* The value of a member follows from its choice alone.                    *)
LEMMA MemberBase ==
  ASSUME PlainChoices, NEW v \in ChoiceValue, NEW C \in Valuation, NeverModNow(C),
         NEW U, NEW N, NEW d \in Nat \ {0}
  PROVE  Base(v, U, N, C, d)
           = [tri |-> IF Vis(v, C) = yes /\ C[ChoiceOf(v)].val = v THEN yes ELSE no,
              val |-> NoVal]
<1>1. Vis(v, C) \in {no, yes} /\ Rev(v, C) = no
  BY MemberNeverMod DEF Rev
<1>2. v \notin Choice /\ ~IsString(v)
  BY TypesAssumption DEF TypesAssumption
<1>3. NumDefaults(v) = 0
  BY ChoiceOfType DEF PlainChoices
<1>4. CASE Vis(v, C) = yes
  <2>1. ChosenByChoice(v, Vis(v, C))
    BY <1>4 DEF ChosenByChoice
  <2> QED
    BY <1>2, <1>4, <2>1 DEF Base, BaseValue, BaseTri, Promote
<1>5. CASE Vis(v, C) = no
  <2>1. ~ChosenByChoice(v, Vis(v, C)) /\ EOr(Vis(v, C), Rev(v, C)) = no
    BY <1>1, <1>5 DEF ChosenByChoice, EOr
  <2>2. UsesDefault(v, v \notin N, Vis(v, C), Rev(v, C))
    BY <1>2, <2>1 DEF UsesDefault
  <2>3. DefaultTri(v, d, C) = no
    BY <1>3 DEF DefaultTri
  <2>4. BaseTri(v, U[v], v \notin N, Vis(v, C), Rev(v, C), d, C) = no
    BY <1>2, <2>1, <2>2, <2>3 DEF BaseTri
  <2> QED
    BY <1>2, <1>5, <2>4 DEF Base, BaseValue, Promote
<1> QED
  BY <1>1, <1>4, <1>5

LEMMA LimitAgain ==
  ASSUME NEW t \in Tri, NEW vis \in Tri, NEW rev \in Tri, NEW b \in BOOLEAN
  PROVE  LET p == Promote(b, Limit(t, vis, rev)) IN
         EOr(vis, rev) # no => Promote(b, Limit(p, vis, rev)) = p
  BY DEF Promote, Limit, EOr, EAnd

(* What a plain choice is before it looks for its member.                  *)
ChoiceTri(own, vis, rev) ==
  IF EOr(vis, rev) = no THEN no ELSE Promote(TRUE, Limit(own, vis, rev))

OwnTri(c, U, N) == IF c \in N THEN no ELSE U[c].tri

LEMMA ChoiceTriIs ==
  ASSUME NEW c \in Choice, Type[c] = "boolean", NEW U, NEW N, NEW C
  PROVE  Base(c, U, N, C, 1) = [tri |-> ChoiceTri(OwnTri(c, U, N), Vis(c, C), Rev(c, C)),
                                val |-> NoVal]
<1>1. c \notin ChoiceValue /\ ~IsString(c)
  BY TypesAssumption DEF TypesAssumption
<1>2. ~ChosenByChoice(c, Vis(c, C)) /\ ~UsesDefault(c, c \notin N, Vis(c, C), Rev(c, C))
  BY <1>1 DEF ChosenByChoice, UsesDefault
<1>3. IsBoolean(c, Vis(c, C), C)
  BY DEF IsBoolean
<1>4. CASE EOr(Vis(c, C), Rev(c, C)) = no
  BY <1>1, <1>2, <1>3, <1>4 DEF Base, BaseValue, BaseTri, ChoiceTri, Promote
<1>5. CASE EOr(Vis(c, C), Rev(c, C)) # no
  BY <1>1, <1>2, <1>3, <1>5 DEF Base, BaseValue, BaseTri, ChoiceTri, OwnTri
<1> QED
  BY <1>4, <1>5

LEMMA ChoiceTriFacts ==
  ASSUME NEW own \in Tri, NEW vis \in Tri, NEW rev \in Tri
  PROVE  /\ ChoiceTri(own, vis, rev) \in {no, yes}
         /\ ChoiceTri(ChoiceTri(own, vis, rev), vis, rev) = ChoiceTri(own, vis, rev)
         /\ ChoiceTri(no, vis, rev) = yes => ChoiceTri(own, vis, rev) = yes
  BY DEF ChoiceTri, Promote, Limit, EOr, EAnd

-----------------------------------------------------------------------------
(* The first default and the first candidate exist.                        *)
LEMMA WellFounded ==
  \E R : IsWellFoundedOn(R, Nat) /\ \A x, y \in Nat : y < x => <<y, x>> \in R
<1> DEFINE R == OpToRel(<, Nat)
<1>1. IsWellFoundedOn(R, Nat)
  BY NatLessThanWellFounded
<1>2. \A x, y \in Nat : y < x => <<y, x>> \in R
  BY DEF OpToRel
<1> HIDE DEF R
<1> QED
  BY <1>1, <1>2, Zenon

LEMMA LeastNat ==
  ASSUME NEW T \in SUBSET Nat, T # {}
  PROVE  \E n \in T : \A m \in T : n <= m
<1>1. PICK R : IsWellFoundedOn(R, Nat) /\ \A x, y \in Nat : y < x => <<y, x>> \in R
  BY WellFounded
<1>2. PICK n \in T : \A m \in T : ~ (<<m, n>> \in R)
  BY <1>1, WFMin
<1>3. \A m \in T : ~ (m < n)
  BY <1>1, <1>2
<1> QED
  BY <1>3

LEMMA FirstHit ==
  ASSUME NEW n \in Nat, NEW H
  PROVE  \E d \in 1 .. n + 1 : (\A j \in 1 .. d - 1 : j \notin H) /\ (d <= n => d \in H)
<1> DEFINE T == {j \in 1 .. n : j \in H}
<1>1. CASE T = {}
  BY <1>1
<1>2. CASE T # {}
  <2>1. PICK d \in T : \A m \in T : d <= m
    <3>1. T \in SUBSET Nat
      OBVIOUS
    <3> HIDE DEF T
    <3> QED
      BY <1>2, <3>1, LeastNat
  <2>2. \A j \in 1 .. d - 1 : j \notin H
    BY <2>1
  <2> QED
    BY <2>1, <2>2
<1> QED
  BY <1>1, <1>2

LEMMA FirstDefaultExists ==
  ASSUME NEW s \in Sym, NEW C
  PROVE  /\ FirstDefault(s, C) \in 1 .. NumDefaults(s) + 1
         /\ IsFirstDefault(s, FirstDefault(s, C), C)
<1> DEFINE H == {j \in 1 .. NumDefaults(s) : DefaultHit(s, j, C)}
<1>1. NumDefaults(s) \in Nat
  BY DefaultsType
<1>2. PICK d \in 1 .. NumDefaults(s) + 1 :
        (\A j \in 1 .. d - 1 : j \notin H) /\ (d <= NumDefaults(s) => d \in H)
  <2> HIDE DEF H
  <2> QED
    BY <1>1, FirstHit
<1>3. IsFirstDefault(s, d, C)
  <2>1. \A j \in 1 .. d - 1 : j \in 1 .. NumDefaults(s)
    BY <1>1
  <2> QED
    BY <1>2, <2>1 DEF IsFirstDefault
<1> QED
  BY <1>3 DEF FirstDefault

LEMMA FirstCandidateExists ==
  ASSUME NEW cand, Len(cand) \in Nat, NEW C
  PROVE  \E d \in 1 .. Len(cand) + 1 : IsFirstCandidate(cand, d, C)
<1> DEFINE H == {j \in 1 .. Len(cand) : CandidateHit(cand[j], C)}
<1>1. PICK d \in 1 .. Len(cand) + 1 :
        (\A j \in 1 .. d - 1 : j \notin H) /\ (d <= Len(cand) => d \in H)
  <2> HIDE DEF H
  <2> QED
    BY FirstHit
<1>2. \A j \in 1 .. d - 1 : j \in 1 .. Len(cand)
  OBVIOUS
<1> QED
  BY <1>1, <1>2 DEF IsFirstCandidate
=============================================================================
