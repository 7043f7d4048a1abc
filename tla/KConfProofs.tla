---------------------------- MODULE KConfProofs -----------------------------
(***************************************************************************)
(* What holds of the line oriented front end for every menu tree: nothing  *)
(* that can be set is left without an answer, and old answers stay.        *)
(***************************************************************************)
EXTENDS KConf, KconfigProofs, FiniteSetTheorems

USE DEF no, mod, yes, Tri

-----------------------------------------------------------------------------
(* The pending calls.                                                      *)
Calls1 == [fn : Fns, entry : Entry, new : BOOLEAN]
Pending(t, fn, e) == \E i \in 1 .. Len(t) : t[i].fn = fn /\ t[i].entry = e

LEMMA CallType ==
  ASSUME NEW fn \in Fns, NEW e \in Entry, NEW new \in BOOLEAN
  PROVE  Frame(fn, e, new) \in Calls1 /\ <<Frame(fn, e, new)>> \in Seq(Calls1)
BY DEF Frame, Calls1

\* what is called comes before the rest, and the rest stays
LEMMA GoesTo ==
  ASSUME NEW t \in Seq(Calls1), t # << >>, NEW calls \in Seq(Calls1)
  PROVE  /\ calls \o Tail(t) \in Seq(Calls1)
         /\ \A i \in 1 .. Len(calls) : Pending(calls \o Tail(t), calls[i].fn, calls[i].entry)
         /\ \A fn, e : Pending(t, fn, e) /\ ~(fn = Head(t).fn /\ e = Head(t).entry)
                         => Pending(calls \o Tail(t), fn, e)
         /\ \A i \in 1 .. Len(calls \o Tail(t)) :
              \/ \E j \in 1 .. Len(calls) : (calls \o Tail(t))[i] = calls[j]
              \/ \E j \in 1 .. Len(t) : (calls \o Tail(t))[i] = t[j]
<1> DEFINE u == calls \o Tail(t)
           n == Len(calls)
<1>1. /\ Tail(t) \in Seq(Calls1) /\ Len(Tail(t)) = Len(t) - 1 /\ Len(t) \in Nat \ {0}
      /\ \A j \in 1 .. Len(t) - 1 : Tail(t)[j] = t[j + 1]
  BY EmptySeq, HeadTailProperties
<1>2. /\ n \in Nat /\ u \in Seq(Calls1) /\ Len(u) = n + Len(t) - 1
      /\ \A i \in 1 .. Len(u) : u[i] = IF i <= n THEN calls[i] ELSE Tail(t)[i - n]
  BY <1>1
<1> HIDE DEF u
<1>3. \A i \in 1 .. n : u[i] = calls[i] /\ i \in 1 .. Len(u)
  BY <1>1, <1>2
<1>4. \A j \in 1 .. Len(t) - 1 : n + j \in 1 .. Len(u) /\ u[n + j] = t[j + 1]
  BY <1>1, <1>2
<1>5. ASSUME NEW fn, NEW e, Pending(t, fn, e), ~(fn = Head(t).fn /\ e = Head(t).entry)
      PROVE  Pending(u, fn, e)
  <2>1. PICK i \in 1 .. Len(t) : t[i].fn = fn /\ t[i].entry = e
    BY <1>5 DEF Pending
  <2>2. Head(t) = t[1]
    BY <1>1
  <2>3. i # 1
    BY <1>5, <2>1, <2>2
  <2>4. i - 1 \in 1 .. Len(t) - 1 /\ (i - 1) + 1 = i
    BY <1>1, <2>1, <2>3
  <2> QED
    BY <1>4, <2>1, <2>4 DEF Pending
<1>6. ASSUME NEW i \in 1 .. Len(u)
      PROVE  \/ \E j \in 1 .. n : u[i] = calls[j]
             \/ \E j \in 1 .. Len(t) : u[i] = t[j]
  <2>1. CASE i <= n
    <3>1. i \in 1 .. n
      BY <1>2, <2>1
    <3> QED
      BY <1>3, <3>1
  <2>2. CASE ~(i <= n)
    <3>1. i - n \in 1 .. Len(t) - 1 /\ (i - n) + 1 \in 1 .. Len(t)
      BY <1>1, <1>2, <2>2
    <3>2. u[i] = t[(i - n) + 1]
      BY <1>1, <1>2, <2>2, <3>1
    <3> QED
      BY <3>1, <3>2
  <2> QED
    BY <2>1, <2>2
<1>7. \A i \in 1 .. n : Pending(u, calls[i].fn, calls[i].entry)
  BY <1>3 DEF Pending
<1> QED
  BY <1>2, <1>5, <1>6, <1>7 DEF u

-----------------------------------------------------------------------------
(* A walk that has not found anything so far has passed the entries of S.  *)
Passed(S, t) ==
  /\ S \subseteq Entry
  /\ menu_is_visible(Root, Shown) => Root \in S \/ Pending(t, "check", Root)
  /\ \A e \in S : SymOf[e] # NoSym => ~Asks(SymOf[e])
  /\ \A e \in S : \/ Pending(t, "children", e)
                  \/ \A c \in Inner(e, Shown) : c \in S \/ Pending(t, "check", c)

NothingNew ==
  /\ phase = "checking" /\ ~conf_cnt =>
       /\ todo \in Seq(Calls1)
       /\ \A i \in 1 .. Len(todo) : todo[i].fn \in {"check", "children"}
       /\ \E S : Passed(S, todo)
  /\ EverythingAsked

LEMMA StartsPassed ==
  ASSUME Root \in Entry
  PROVE  /\ <<Call("check", Root)>> \in Seq(Calls1)
         /\ \A i \in 1 .. Len(<<Call("check", Root)>>) : <<Call("check", Root)>>[i].fn = "check"
         /\ Passed({}, <<Call("check", Root)>>)
<1>1. Call("check", Root) \in Calls1
  BY CallType DEF Call, Fns
<1>2. Pending(<<Call("check", Root)>>, "check", Root)
  BY DEF Pending, Call, Frame
<1> QED
  BY <1>1, <1>2 DEF Passed, Call, Frame

\* lists of calls
LEMMA CallsType ==
  ASSUME TreeAssumption, NEW fn \in Fns, NEW e \in Entry
  PROVE  /\ Calls(fn, List[e]) \in Seq(Calls1) /\ Len(Calls(fn, List[e])) = Len(List[e])
         /\ DOMAIN List[e] = 1 .. Len(List[e])
         /\ \A i \in 1 .. Len(List[e]) : /\ Calls(fn, List[e])[i] = Call(fn, List[e][i])
                                        /\ List[e][i] \in Entry
<1>1. List[e] \in Seq(Entry)
  BY DEF TreeAssumption
<1>2. \A x \in Entry : Call(fn, x) \in Calls1
  BY CallType DEF Call
<1> QED
  BY <1>1, <1>2 DEF Calls
-----------------------------------------------------------------------------
(* The walk of the whole tree, level by level.                             *)
Wider(E, curr) == UNION {{e} \cup Inner(e, curr) : e \in E}
Level(f, n, curr) ==
  /\ f[0] = {e \in {Root} : menu_is_visible(e, curr)}
  /\ \A i \in 1 .. n : f[i] = Wider(f[i - 1], curr)

LEMMA LevelsExist ==
  ASSUME NEW curr0, NEW n \in Nat
  PROVE  \E f : f = [i \in 0 .. n |-> f[i]] /\ Level(f, n, curr0)
<1> DEFINE UpTo(k) == \E f : f = [i \in 0 .. k |-> f[i]] /\ Level(f, k, curr0)
           T == {k \in Nat : ~UpTo(k)}
<1>1. SUFFICES ASSUME T # {} PROVE FALSE
  OBVIOUS
<1>2. PICK k \in T : \A m \in T : k <= m
  <2>1. T \in SUBSET Nat
    OBVIOUS
  <2> HIDE DEF T
  <2> QED
    BY <1>1, <2>1, LeastNat
<1>3. UpTo(0)
  <2> DEFINE f == [i \in 0 .. 0 |-> {e \in {Root} : menu_is_visible(e, curr0)}]
  <2>1. f = [i \in 0 .. 0 |-> f[i]] /\ Level(f, 0, curr0)
    BY DEF Level
  <2> QED
    BY <2>1
<1>4. k # 0 /\ k - 1 \in Nat /\ ~(k <= k - 1)
  <2> HIDE DEF UpTo
  <2> QED
    BY <1>3
<1>5. UpTo(k - 1)
  <2> HIDE DEF UpTo
  <2> QED
    BY <1>2, <1>4
<1>6. PICK g : g = [i \in 0 .. k - 1 |-> g[i]] /\ Level(g, k - 1, curr0)
  BY <1>5
<1>7. UpTo(k)
  <2> DEFINE f == [i \in 0 .. k |-> IF i = k THEN Wider(g[k - 1], curr0) ELSE g[i]]
  <2>1. f = [i \in 0 .. k |-> f[i]]
    OBVIOUS
  <2>2. f[0] = g[0] /\ f[k] = Wider(g[k - 1], curr0) /\ f[k - 1] = g[k - 1]
    BY <1>4
  <2>3. \A i \in 1 .. k - 1 : f[i] = g[i] /\ f[i - 1] = g[i - 1]
    BY <1>4
  <2>4. \A i \in 1 .. k : i = k \/ i \in 1 .. k - 1
    BY <1>4
  <2> HIDE DEF f
  <2>5. Level(f, k, curr0)
    BY <1>6, <2>2, <2>3, <2>4 DEF Level
  <2> QED
    BY <2>1, <2>5
<1> QED
  BY <1>7

LEMMA WalkedIs ==
  ASSUME TreeAssumption, NEW curr0
  PROVE  /\ Cardinality(Entry) \in Nat
         /\ \E f : Level(f, Cardinality(Entry), curr0) /\ Walked(curr0) = f[Cardinality(Entry)]
<1> DEFINE n == Cardinality(Entry)
           First == {e \in {Root} : menu_is_visible(e, curr0)}
           Rec(f) == f = [i \in 0 .. n |->
             IF i = 0 THEN {e \in {Root} : menu_is_visible(e, curr0)}
             ELSE UNION {{e} \cup Inner(e, curr0) : e \in f[i - 1]}]
           h == CHOOSE f : Rec(f)
<1>1. n \in Nat
  BY FS_CardinalityType DEF TreeAssumption
<1>2. PICK g : g = [i \in 0 .. n |-> g[i]] /\ Level(g, n, curr0)
  <2> HIDE DEF n
  <2> QED
    BY <1>1, LevelsExist
<1>3. Rec(g)
  <2>1. \A i \in 0 .. n : i # 0 => i \in 1 .. n
    BY <1>1
  <2>2. \A i \in 0 .. n : g[i] = IF i = 0 THEN First
                                  ELSE UNION {{e} \cup Inner(e, curr0) : e \in g[i - 1]}
    BY <1>2, <2>1 DEF Level, Wider
  <2> HIDE DEF n, First
  <2> QED
    BY <1>2, <2>2 DEF First
<1>4. Rec(h)
  BY <1>3
<1>5. Level(h, n, curr0)
  <2>1. 0 \in 0 .. n /\ \A i \in 1 .. n : i \in 0 .. n /\ i # 0
    BY <1>1
  <2> HIDE DEF h
  <2> QED
    BY <1>4, <2>1 DEF Level, Wider
<1>6. Walked(curr0) = h[n]
  BY DEF Walked
<1> HIDE DEF h, n
<1> QED
  BY <1>1, <1>5, <1>6 DEF n

\* what is closed under going down contains the walk
LEMMA WalkedWithin ==
  ASSUME TreeAssumption, NEW curr0, NEW S,
         menu_is_visible(Root, curr0) => Root \in S,
         \A e \in S : Inner(e, curr0) \subseteq S
  PROVE  Walked(curr0) \subseteq S
<1> DEFINE n == Cardinality(Entry)
<1>1. PICK f : n \in Nat /\ Level(f, n, curr0) /\ Walked(curr0) = f[n]
  BY WalkedIs
<1> HIDE DEF n
<1> DEFINE T == {k \in 0 .. n : ~(f[k] \subseteq S)}
<1>2. SUFFICES ASSUME T # {} PROVE FALSE
  BY <1>1
<1>3. PICK k \in T : \A m \in T : k <= m
  <2>1. T \in SUBSET Nat
    BY <1>1
  <2> HIDE DEF T
  <2> QED
    BY <1>2, <2>1, LeastNat
<1>4. k # 0
  BY <1>1 DEF Level
<1>5. k \in 1 .. n /\ k - 1 \in 0 .. n /\ ~(k <= k - 1)
  BY <1>1, <1>4
<1>6. f[k - 1] \subseteq S
  BY <1>3, <1>5
<1>7. f[k] = Wider(f[k - 1], curr0)
  BY <1>1, <1>5 DEF Level
<1>8. f[k] \subseteq S
  BY <1>6, <1>7 DEF Wider
<1> QED
  BY <1>8

LEMMA PassedAll ==
  ASSUME TreeAssumption, NEW S, Passed(S, << >>)
  PROVE  Settable(Shown) \cap isNew = {}
<1>1. \A fn, e : ~Pending(<< >>, fn, e)
  BY DEF Pending
<1>2. Walked(Shown) \subseteq S
  BY <1>1, WalkedWithin DEF Passed
<1>3. ASSUME NEW e \in Walked(Shown), SymOf[e] # NoSym
      PROVE  ~Asks(SymOf[e])
  BY <1>2, <1>3 DEF Passed
<1> QED
  BY <1>3 DEF Settable, Asks

-----------------------------------------------------------------------------
(* Every step keeps it.                                                    *)
LEMMA NewsInit == TreeAssumption /\ Init => NothingNew
<1> SUFFICES ASSUME TreeAssumption, Init PROVE NothingNew
  OBVIOUS
<1>1. Root \in Entry /\ phase # "done"
  BY DEF TreeAssumption, Init
<1>2. phase = "checking" => todo = <<Call("check", Root)>>
  BY DEF Init
<1>3. EverythingAsked
  BY <1>1 DEF EverythingAsked
<1>4. <<Call("check", Root)>> \in Seq(Calls1) /\ Passed({}, <<Call("check", Root)>>)
      /\ \A i \in 1 .. Len(<<Call("check", Root)>>) : <<Call("check", Root)>>[i].fn = "check"
  BY <1>1, StartsPassed
<1> QED
  BY <1>2, <1>3, <1>4 DEF NothingNew

\* what a step changes of the configuration and of the calls decides
LEMMA NewsKept ==
  ASSUME NothingNew, UNCHANGED config, phase' # "done",
         phase' = "checking" /\ ~conf_cnt' =>
           /\ todo' \in Seq(Calls1)
           /\ \A i \in 1 .. Len(todo') : todo'[i].fn \in {"check", "children"}
           /\ \E S : Passed(S, todo')
  PROVE  NothingNew'
<1>1. Shown' = Shown /\ isNew' = isNew
  BY DEF config, Shown
<1>2. \A S : Passed(S, todo') <=> Passed(S, todo)'
  BY <1>1 DEF Passed, Asks
<1> QED
  BY <1>2 DEF NothingNew, EverythingAsked

LEMMA CheckConfKeeps ==
  ASSUME TreeAssumption, NothingNew, NEW e \in Entry, check_conf(e)
  PROVE  NothingNew'
<1>1. /\ phase' = phase /\ phase # "done" /\ UNCHANGED config
      /\ todo # << >> /\ Head(todo).fn = "check" /\ Head(todo).entry = e
  BY DEF check_conf, Top, Keeps, Running
<1> SUFFICES ASSUME phase = "checking", ~conf_cnt'
             PROVE  /\ todo' \in Seq(Calls1)
                    /\ \A i \in 1 .. Len(todo') : todo'[i].fn \in {"check", "children"}
                    /\ \E S : Passed(S, todo')
  BY <1>1, NewsKept
<1> DEFINE vis == menu_is_visible(e, Shown)
           calls == IF vis THEN <<Call("children", e)>> ELSE << >>
<1>2. /\ UNCHANGED conf_cnt /\ todo' = calls \o Tail(todo)
      /\ vis => SymOf[e] = NoSym \/ ~Asks(SymOf[e])
  <2>1. CASE ~vis
    BY <2>1 DEF check_conf, Returns, Goes
  <2>2. CASE vis /\ SymOf[e] # NoSym /\ Asks(SymOf[e])
    BY <2>2 DEF check_conf
  <2>3. CASE vis /\ ~(SymOf[e] # NoSym /\ Asks(SymOf[e]))
    BY <2>3 DEF check_conf, Goes
  <2> QED
    BY <2>1, <2>2, <2>3
<1>3. /\ todo \in Seq(Calls1)
      /\ \A i \in 1 .. Len(todo) : todo[i].fn \in {"check", "children"}
  BY <1>2 DEF NothingNew
<1>4. PICK S : Passed(S, todo)
  BY <1>2 DEF NothingNew
<1>5. /\ calls \in Seq(Calls1) /\ \A j \in 1 .. Len(calls) : calls[j].fn = "children"
      /\ vis => 1 \in 1 .. Len(calls) /\ calls[1].fn = "children" /\ calls[1].entry = e
  <2>1. <<Call("children", e)>> \in Seq(Calls1)
    BY CallType DEF Call, Fns
  <2> QED
    BY <2>1 DEF Call, Frame
<1> HIDE DEF vis, calls
<1>6. /\ todo' \in Seq(Calls1)
      /\ \A i \in 1 .. Len(calls) : Pending(todo', calls[i].fn, calls[i].entry)
      /\ \A fn, x : Pending(todo, fn, x) /\ ~(fn = "check" /\ x = e) => Pending(todo', fn, x)
      /\ \A i \in 1 .. Len(todo') :
              \/ \E j \in 1 .. Len(calls) : todo'[i] = calls[j]
              \/ \E j \in 1 .. Len(todo) : todo'[i] = todo[j]
  BY <1>1, <1>2, <1>3, <1>5, GoesTo
<1>7. \A i \in 1 .. Len(todo') : todo'[i].fn \in {"check", "children"}
  BY <1>3, <1>5, <1>6
<1>8. CASE ~vis
  <2>1. \A x \in S : \A c \in Inner(x, Shown) : c # e
    BY <1>8 DEF Inner, vis
  <2>2. Passed(S, todo')
    BY <1>4, <1>6, <1>8, <2>1 DEF Passed, vis
  <2> QED
    BY <1>6, <1>7, <2>2
<1>9. CASE vis
  <2>1. Pending(todo', "children", e)
    BY <1>5, <1>6, <1>9
  <2>2. Passed(S \cup {e}, todo')
    BY <1>2, <1>4, <1>6, <1>9, <2>1 DEF Passed
  <2> QED
    BY <1>6, <1>7, <2>2
<1> QED
  BY <1>8, <1>9

LEMMA CheckChildrenKeeps ==
  ASSUME TreeAssumption, NothingNew, NEW e \in Entry, check_children(e)
  PROVE  NothingNew'
<1>1. /\ phase' = phase /\ phase # "done" /\ UNCHANGED <<config, conf_cnt>>
      /\ todo # << >> /\ Head(todo).fn = "children" /\ Head(todo).entry = e
  BY DEF check_children, Top, Keeps, Running, config
<1> SUFFICES ASSUME phase = "checking", ~conf_cnt
             PROVE  /\ todo' \in Seq(Calls1)
                    /\ \A i \in 1 .. Len(todo') : todo'[i].fn \in {"check", "children"}
                    /\ \E S : Passed(S, todo')
  BY <1>1, NewsKept
<1> DEFINE closed == IsChoiceEntry(e) /\ Shown[SymOf[e]].tri # mod
           calls == IF closed THEN << >> ELSE Calls("check", List[e])
<1>2. todo' = calls \o Tail(todo)
  BY DEF check_children, Goes
<1>3. /\ todo \in Seq(Calls1)
      /\ \A i \in 1 .. Len(todo) : todo[i].fn \in {"check", "children"}
  BY DEF NothingNew
<1>4. PICK S : Passed(S, todo)
  BY DEF NothingNew
<1>5. /\ calls \in Seq(Calls1) /\ \A j \in 1 .. Len(calls) : calls[j].fn = "check"
      /\ ~closed => \A c \in Listed(e) : \E j \in 1 .. Len(calls) : calls[j].entry = c
  <2>1. /\ Calls("check", List[e]) \in Seq(Calls1)
        /\ Len(Calls("check", List[e])) = Len(List[e]) /\ DOMAIN List[e] = 1 .. Len(List[e])
        /\ \A i \in 1 .. Len(List[e]) : Calls("check", List[e])[i] = Call("check", List[e][i])
    BY CallsType DEF Fns
  <2>2. \A x : Call("check", x).fn = "check" /\ Call("check", x).entry = x
    BY DEF Call, Frame
  <2>3. CASE closed
    BY <2>3
  <2>4. CASE ~closed
    <3>1. calls = Calls("check", List[e])
      BY <2>4
    <3> HIDE DEF closed, calls
    <3>2. \A i \in 1 .. Len(calls) : calls[i].fn = "check" /\ calls[i].entry = List[e][i]
      BY <2>1, <2>2, <3>1
    <3> QED
      BY <2>1, <3>1, <3>2 DEF Listed
  <2> QED
    BY <2>3, <2>4
<1>6. closed => Inner(e, Shown) = {}
  BY DEF Inner
<1> HIDE DEF closed, calls
<1>7. /\ todo' \in Seq(Calls1)
      /\ \A i \in 1 .. Len(calls) : Pending(todo', calls[i].fn, calls[i].entry)
      /\ \A fn, x : Pending(todo, fn, x) /\ ~(fn = "children" /\ x = e) => Pending(todo', fn, x)
      /\ \A i \in 1 .. Len(todo') :
              \/ \E j \in 1 .. Len(calls) : todo'[i] = calls[j]
              \/ \E j \in 1 .. Len(todo) : todo'[i] = todo[j]
  BY <1>1, <1>2, <1>3, <1>5, GoesTo
<1>8. \A i \in 1 .. Len(todo') : todo'[i].fn \in {"check", "children"}
  BY <1>3, <1>5, <1>7
<1>9. \A c \in Inner(e, Shown) : Pending(todo', "check", c)
  <2>1. ~closed => Inner(e, Shown) \subseteq Listed(e)
    BY DEF Inner, closed
  <2> QED
    BY <1>5, <1>6, <1>7, <2>1
<1>10. Passed(S, todo')
  BY <1>4, <1>7, <1>9 DEF Passed
<1> QED
  BY <1>7, <1>8, <1>10

LEMMA CheckedKeeps ==
  ASSUME TreeAssumption, NothingNew, checked
  PROVE  NothingNew'
<1>1. /\ phase = "checking" /\ todo = << >> /\ UNCHANGED config /\ Root \in Entry
  BY DEF checked, config, TreeAssumption
<1>2. CASE conf_cnt
  <2>1. phase' = "checking" /\ todo' = <<Call("check", Root)>>
    BY <1>1, <1>2 DEF checked
  <2>2. /\ <<Call("check", Root)>> \in Seq(Calls1) /\ Passed({}, <<Call("check", Root)>>)
        /\ \A i \in 1 .. Len(<<Call("check", Root)>>) : <<Call("check", Root)>>[i].fn = "check"
    BY <1>1, StartsPassed
  <2> QED
    BY <1>1, <2>1, <2>2, NewsKept
<1>3. CASE ~conf_cnt
  <2>1. PICK S : Passed(S, << >>)
    BY <1>1, <1>3 DEF NothingNew
  <2>2. Settable(Shown) \cap isNew = {}
    BY <2>1, PassedAll
  <2>3. Shown' = Shown /\ isNew' = isNew
    BY <1>1 DEF config, Shown
  <2>4. phase' = "done" /\ Settable(Shown') \cap isNew' = {}
    BY <1>3, <2>2, <2>3 DEF checked
  <2> QED
    BY <2>4 DEF NothingNew, EverythingAsked
<1> QED
  BY <1>2, <1>3

LEMMA NewsStep == TreeAssumption /\ NothingNew /\ [Next]_vars => NothingNew'
<1> SUFFICES ASSUME TreeAssumption, NothingNew, [Next]_vars PROVE NothingNew'
  OBVIOUS
<1>1. ASSUME NEW e \in Entry, conf(e) \/ conf_sym(e) \/ conf_string(e) \/ conf_choice(e)
      PROVE  NothingNew'
  <2>1. /\ phase' = phase /\ conf_cnt' = conf_cnt /\ phase \in {"asking", "checking"}
        /\ todo # << >> /\ Head(todo).fn \in {"conf", "ask", "choice"}
    BY <1>1 DEF conf, conf_sym, conf_string, conf_choice, Top, Running, Keeps
  <2>2. ~(phase = "checking" /\ ~conf_cnt)
    <3> SUFFICES ASSUME phase = "checking", ~conf_cnt PROVE FALSE
      OBVIOUS
    <3>1. todo \in Seq(Calls1) /\ \A i \in 1 .. Len(todo) : todo[i].fn \in {"check", "children"}
      BY DEF NothingNew
    <3>2. Head(todo) = todo[1] /\ 1 \in 1 .. Len(todo)
      BY <2>1, <3>1, EmptySeq
    <3> QED
      BY <2>1, <3>1, <3>2
  <2> QED
    BY <2>1, <2>2 DEF NothingNew, EverythingAsked
<1>2. ASSUME NEW e \in Entry, check_conf(e) PROVE NothingNew'
  BY <1>2, CheckConfKeeps
<1>3. ASSUME NEW e \in Entry, check_children(e) PROVE NothingNew'
  BY <1>3, CheckChildrenKeeps
<1>4. CASE asked
  <2>1. /\ UNCHANGED config /\ phase' = "checking" /\ todo' = <<Call("check", Root)>>
        /\ Root \in Entry
    BY <1>4 DEF asked, config, TreeAssumption
  <2>2. /\ <<Call("check", Root)>> \in Seq(Calls1) /\ Passed({}, <<Call("check", Root)>>)
        /\ \A i \in 1 .. Len(<<Call("check", Root)>>) : <<Call("check", Root)>>[i].fn = "check"
    BY <2>1, StartsPassed
  <2> QED
    BY <2>1, <2>2, NewsKept
<1>5. CASE checked
  BY <1>5, CheckedKeeps
<1>6. CASE Aborts
  BY <1>6 DEF Aborts, NothingNew, EverythingAsked
<1>7. CASE Exited \/ InputEnds \/ UNCHANGED vars
  <2>1. UNCHANGED <<config, phase, conf_cnt, todo>>
    BY <1>7 DEF Exited, InputEnds, vars, config
  <2>2. Shown' = Shown /\ isNew' = isNew
    BY <2>1 DEF config, Shown
  <2>3. \A S : Passed(S, todo') <=> Passed(S, todo)'
    BY <2>2 DEF Passed, Asks
  <2>4. EverythingAsked'
    BY <2>1, <2>2 DEF NothingNew, EverythingAsked
  <2>5. \A S : Passed(S, todo)' <=> Passed(S, todo)
    BY <2>1, <2>2 DEF Passed, Asks
  <2> QED
    BY <2>1, <2>4, <2>5 DEF NothingNew
<1> QED
  BY <1>1, <1>2, <1>3, <1>4, <1>5, <1>6, <1>7 DEF Next, Steps, Walk

(* conf.c:574: whatever the menus and the file of the user are like, and   *)
(* whenever the input ends, a run that comes to its end leaves no symbol   *)
(* that it can walk to and set without an answer.                          *)
THEOREM EverythingIsAsked ==
  ASSUME TreeAssumption
  PROVE  Spec => []EverythingAsked
<1>1. Init => NothingNew
  BY NewsInit
<1>2. NothingNew /\ [Next]_vars => NothingNew'
  BY NewsStep
<1>3. NothingNew => EverythingAsked
  BY DEF NothingNew
<1> QED
  BY <1>1, <1>2, <1>3, PTL DEF Spec

-----------------------------------------------------------------------------
(* Old answers.  KValues calculates the symbols in their order, each once. *)
Unset == [tri |-> no, val |-> NoVal]
Calculate(i, U, N, C) == [C EXCEPT ![Order[i]] = ValueOf(Order[i], U, N, C)]

Calculation(f, n, U, N) ==
  /\ f[0] = [s \in Sym |-> Unset]
  /\ \A i \in 1 .. n : f[i] = Calculate(i, U, N, f[i - 1])

LEMMA ValueIs ==
  ASSUME NEW s, NEW U, NEW N, NEW C
  PROVE  ValueOf(s, U, N, C) =
           LET base == Base(s, U, N, C, FirstDefault(s, C)) IN
           IF s \in Choice /\ base.tri = yes
           THEN FirstMember(Candidates(s, U[s].val), [C EXCEPT ![s].tri = yes])
           ELSE base
<1> DEFINE base == Base(s, U, N, C, FirstDefault(s, C))
<1>1. Visibility(s, C) = Vis(s, C) /\ RevDep(s, C) = Rev(s, C)
  BY DEF Visibility, Vis, RevDep, Rev
<1>2. (CHOOSE b \in {BaseValue(s, U[s], s \notin N, vis, rev, def, C) :
                       vis \in {Visibility(s, C)}, rev \in {RevDep(s, C)},
                       def \in {FirstDefault(s, C)}} : TRUE) = base
  BY <1>1 DEF Base
<1> HIDE DEF base
<1>3. \A O : ChosenMember(s, U, O) = FirstMember(Candidates(s, U[s].val), O)
  <2> TAKE O
  <2>1. {FirstMember(cand, O) : cand \in {Candidates(s, U[s].val)}}
          = {FirstMember(Candidates(s, U[s].val), O)}
    OBVIOUS
  <2> QED
    BY <2>1 DEF ChosenMember
<1> QED
  BY <1>2, <1>3 DEF ValueOf, base

LEMMA FirstMemberIs ==
  ASSUME NEW c \in Choice, NEW chosen, NEW O
  PROVE  \E d \in 1 .. Len(Candidates(c, chosen)) + 1 :
           /\ IsFirstCandidate(Candidates(c, chosen), d, O)
           /\ FirstMember(Candidates(c, chosen), O) =
                IF d <= Len(Candidates(c, chosen))
                THEN [tri |-> yes, val |-> Candidates(c, chosen)[d].value] ELSE Unset
<1> DEFINE cand == Candidates(c, chosen)
           d == CHOOSE i \in 1 .. Len(cand) + 1 : IsFirstCandidate(cand, i, O)
<1>1. Len(cand) \in Nat
  BY CandidatesLen
<1>2. FirstMember(cand, O) = IF d <= Len(cand) THEN [tri |-> yes, val |-> cand[d].value] ELSE Unset
  BY DEF FirstMember, Unset
<1>3. \E i \in 1 .. Len(cand) + 1 : IsFirstCandidate(cand, i, O)
  <2> HIDE DEF cand
  <2> QED
    BY <1>1, FirstCandidateExists
<1>4. d \in 1 .. Len(cand) + 1 /\ IsFirstCandidate(cand, d, O)
  BY <1>3
<1> HIDE DEF cand, d
<1> QED
  BY <1>2, <1>4 DEF cand

LEMMA CalculationExists ==
  ASSUME NEW U, NEW N, NEW n \in Nat
  PROVE  \E f : f = [i \in 0 .. n |-> f[i]] /\ Calculation(f, n, U, N)
<1> DEFINE UpTo(k) == \E f : f = [i \in 0 .. k |-> f[i]] /\ Calculation(f, k, U, N)
           T == {k \in Nat : ~UpTo(k)}
<1>1. SUFFICES ASSUME T # {} PROVE FALSE
  OBVIOUS
<1>2. PICK k \in T : \A m \in T : k <= m
  <2>1. T \in SUBSET Nat
    OBVIOUS
  <2> HIDE DEF T
  <2> QED
    BY <1>1, <2>1, LeastNat
<1>3. UpTo(0)
  <2> DEFINE f == [i \in 0 .. 0 |-> [s \in Sym |-> Unset]]
  <2>1. f = [i \in 0 .. 0 |-> f[i]] /\ Calculation(f, 0, U, N)
    BY DEF Calculation
  <2> QED
    BY <2>1
<1>4. k # 0 /\ k - 1 \in Nat /\ ~(k <= k - 1)
  <2> HIDE DEF UpTo
  <2> QED
    BY <1>3
<1>5. UpTo(k - 1)
  <2> HIDE DEF UpTo
  <2> QED
    BY <1>2, <1>4
<1>6. PICK g : g = [i \in 0 .. k - 1 |-> g[i]] /\ Calculation(g, k - 1, U, N)
  BY <1>5
<1>7. UpTo(k)
  <2> DEFINE f == [i \in 0 .. k |-> IF i = k THEN Calculate(k, U, N, g[k - 1]) ELSE g[i]]
  <2>1. f = [i \in 0 .. k |-> f[i]]
    OBVIOUS
  <2>2. f[0] = g[0] /\ f[k] = Calculate(k, U, N, g[k - 1]) /\ f[k - 1] = g[k - 1]
    BY <1>4
  <2>3. \A i \in 1 .. k - 1 : f[i] = g[i] /\ f[i - 1] = g[i - 1]
    BY <1>4
  <2>4. \A i \in 1 .. k : i = k \/ i \in 1 .. k - 1
    BY <1>4
  <2> HIDE DEF f
  <2>5. Calculation(f, k, U, N)
    BY <1>6, <2>2, <2>3, <2>4 DEF Calculation
  <2> QED
    BY <2>1, <2>5
<1> QED
  BY <1>7

LEMMA ValuesAre ==
  ASSUME NEW U, NEW N, ChoicesSorted
  PROVE  \E f : Calculation(f, Len(Order), U, N) /\ Values(U, N) = f[Len(Order)]
<1> DEFINE n == Len(Order)
           Start == [s \in Sym |-> Unset]
           Rec(f) == f = [i \in 0 .. n |->
             IF i = 0 THEN [s \in Sym |-> [tri |-> no, val |-> NoVal]]
             ELSE CHOOSE next \in {[X EXCEPT ![Order[i]] = ValueOf(Order[i], U, N, X)] :
                                     X \in {f[i - 1]}} : TRUE]
           h == CHOOSE f : Rec(f)
<1>1. n \in Nat
  BY DEF ChoicesSorted
<1>2. \A i, C : (CHOOSE next \in {[X EXCEPT ![Order[i]] = ValueOf(Order[i], U, N, X)] :
                                     X \in {C}} : TRUE) = Calculate(i, U, N, C)
  <2> TAKE i, C
  <2>1. {[X EXCEPT ![Order[i]] = ValueOf(Order[i], U, N, X)] : X \in {C}}
          = {Calculate(i, U, N, C)}
    BY DEF Calculate
  <2> QED
    BY <2>1
<1>3. PICK g : g = [i \in 0 .. n |-> g[i]] /\ Calculation(g, n, U, N)
  <2> HIDE DEF n
  <2> QED
    BY <1>1, CalculationExists
<1>4. Rec(g)
  <2>1. \A i \in 0 .. n : i # 0 => i \in 1 .. n
    BY <1>1
  <2>2. \A i \in 0 .. n : g[i] = IF i = 0 THEN Start ELSE Calculate(i, U, N, g[i - 1])
    BY <1>3, <2>1 DEF Calculation
  <2>3. Start = [s \in Sym |-> [tri |-> no, val |-> NoVal]]
    BY DEF Unset
  <2> HIDE DEF n, Start
  <2> QED
    BY <1>2, <1>3, <2>2, <2>3
<1>5. Rec(h)
  BY <1>4
<1>6. Calculation(h, n, U, N)
  <2>1. h[0] = Start
    <3>1. 0 \in 0 .. n /\ Start = [s \in Sym |-> [tri |-> no, val |-> NoVal]]
      BY <1>1 DEF Unset
    <3> HIDE DEF h, Start
    <3> QED
      BY <1>5, <3>1
  <2>2. \A i \in 1 .. n : i \in 0 .. n /\ i # 0
    BY <1>1
  <2>3. \A i \in 1 .. n : h[i] = Calculate(i, U, N, h[i - 1])
    <3> HIDE DEF h
    <3> QED
      BY <1>2, <1>5, <2>2
  <2> QED
    BY <2>1, <2>3 DEF Calculation
<1>7. Values(U, N) = h[n]
  BY DEF Values
<1> HIDE DEF h, n
<1> QED
  BY <1>6, <1>7 DEF n

LEMMA ValueOfType ==
  ASSUME NEW s \in Sym, NEW U \in Valuation, NEW N, NEW C \in Valuation
  PROVE  ValueOf(s, U, N, C) \in SymbolValue
<1> DEFINE base == Base(s, U, N, C, FirstDefault(s, C))
           cand == Candidates(s, U[s].val)
           O == [C EXCEPT ![s].tri = yes]
<1>1. base \in SymbolValue
  <2>1. FirstDefault(s, C) \in Nat \ {0}
    BY FirstDefaultExists, DefaultsType
  <2>2. Vis(s, C) \in Tri /\ Rev(s, C) \in Tri
    BY EvalType DEF Vis, Rev
  <2>3. C \in [Sym -> SymbolValue] /\ U[s] \in SymbolValue
    BY DEF Valuation
  <2> QED
    BY <2>1, <2>2, <2>3, BaseValueType DEF Base
<1>2. s \in Choice => FirstMember(cand, O) \in SymbolValue
  <2> SUFFICES ASSUME s \in Choice PROVE FirstMember(cand, O) \in SymbolValue
    OBVIOUS
  <2>1. PICK d \in 1 .. Len(cand) + 1 :
          FirstMember(cand, O) = IF d <= Len(cand)
                                 THEN [tri |-> yes, val |-> cand[d].value] ELSE Unset
    BY FirstMemberIs
  <2>2. Len(cand) \in Nat /\ \A i \in 1 .. Len(cand) : cand[i].value \in Sym
    BY CandidatesType
  <2> HIDE DEF cand, O
  <2> QED
    BY <2>1, <2>2 DEF SymbolValue, Val, Unset
<1>3. ValueOf(s, U, N, C) = IF s \in Choice /\ base.tri = yes THEN FirstMember(cand, O) ELSE base
  BY ValueIs
<1> HIDE DEF base, cand, O
<1> QED
  BY <1>1, <1>2, <1>3

LEMMA CalculationType ==
  ASSUME NEW f, NEW n \in Nat, NEW U \in Valuation, NEW N, Calculation(f, n, U, N),
         \A i \in 1 .. n : Order[i] \in Sym
  PROVE  \A i \in 0 .. n : f[i] \in Valuation
<1> DEFINE T == {i \in 0 .. n : f[i] \notin Valuation}
<1>1. SUFFICES ASSUME T # {} PROVE FALSE
  OBVIOUS
<1>2. PICK k \in T : \A m \in T : k <= m
  <2>1. T \in SUBSET Nat
    OBVIOUS
  <2> HIDE DEF T
  <2> QED
    BY <1>1, <2>1, LeastNat
<1>3. k # 0
  <2>1. Unset \in SymbolValue
    BY DEF Unset, SymbolValue, Val
  <2> QED
    BY <2>1 DEF Calculation, Valuation
<1>4. k \in 1 .. n /\ k - 1 \in 0 .. n /\ f[k - 1] \in Valuation
  BY <1>2, <1>3
<1>5. f[k] = Calculate(k, U, N, f[k - 1])
  BY <1>4 DEF Calculation
<1>6. ValueOf(Order[k], U, N, f[k - 1]) \in SymbolValue
  BY <1>4, ValueOfType
<1>7. f[k] \in Valuation
  BY <1>4, <1>5, <1>6 DEF Calculate, Valuation
<1> QED
  BY <1>7

LEMMA CalculationStays ==
  ASSUME NEW f, NEW n \in Nat, NEW U \in Valuation, NEW N, Calculation(f, n, U, N),
         \A i \in 1 .. n : Order[i] \in Sym,
         \A i, j \in 1 .. n : Order[i] = Order[j] => i = j
  PROVE  /\ \A i \in 0 .. n : \A j \in 1 .. n : i < j => f[i][Order[j]] = Unset
         /\ \A i \in 0 .. n : \A j \in 1 .. i : f[n][Order[j]] = f[i][Order[j]]
<1> DEFINE Early(i) == \A j \in 1 .. n : i < j => f[i][Order[j]] = Unset
           Late(i) == \A k \in 0 .. i : \A j \in 1 .. k : f[i][Order[j]] = f[k][Order[j]]
           T == {i \in 0 .. n : ~(Early(i) /\ Late(i))}
<1>1. \A i \in 0 .. n : Early(i) /\ Late(i)
  <2>1. SUFFICES ASSUME T # {} PROVE FALSE
    OBVIOUS
  <2>2. PICK i \in T : \A m \in T : i <= m
    <3>1. T \in SUBSET Nat
      OBVIOUS
    <3> HIDE DEF T
    <3> QED
      BY <2>1, <3>1, LeastNat
  <2>3. Early(0) /\ Late(0)
    BY DEF Calculation
  <2>4. i \in 1 .. n /\ i - 1 \in 0 .. n /\ ~(i <= i - 1)
    <3> HIDE DEF Early, Late
    <3> QED
      BY <2>3
  <2>5. Early(i - 1) /\ Late(i - 1)
    <3> HIDE DEF Early, Late
    <3> QED
      BY <2>2, <2>4
  <2>6. f[i] = Calculate(i, U, N, f[i - 1]) /\ f[i - 1] \in Valuation
    BY <2>4, CalculationType DEF Calculation
  <2>7. \A j \in 1 .. n : j # i => f[i][Order[j]] = f[i - 1][Order[j]]
    BY <2>4, <2>6 DEF Calculate, Valuation
  <2>8. Early(i)
    BY <2>4, <2>5, <2>7
  <2>9. Late(i)
    <3> TAKE k \in 0 .. i
    <3> TAKE j \in 1 .. k
    <3>1. CASE k = i
      BY <3>1
    <3>2. CASE k # i
      <4>1. k \in 0 .. i - 1 /\ j \in 1 .. n /\ j # i
        BY <2>4, <3>2
      <4> QED
        BY <2>5, <2>7, <4>1
    <3> QED
      BY <3>1, <3>2
  <2> QED
    BY <2>2, <2>8, <2>9
<1>2. n \in 0 .. n
  OBVIOUS
<1>3. Late(n)
  <2> HIDE DEF Early, Late
  <2> QED
    BY <1>1, <1>2
<1> QED
  BY <1>1, <1>3

LEMMA CalculationUnique ==
  ASSUME NEW f, NEW g, NEW n \in Nat, NEW U, NEW N, NEW U2, NEW N2,
         Calculation(f, n, U, N), Calculation(g, n, U2, N2),
         \A i \in 1 .. n : ValueOf(Order[i], U2, N2, f[i - 1]) = ValueOf(Order[i], U, N, f[i - 1])
  PROVE  f[n] = g[n]
<1> DEFINE T == {i \in 0 .. n : f[i] # g[i]}
<1>1. SUFFICES ASSUME T # {} PROVE FALSE
  OBVIOUS
<1>2. PICK k \in T : \A m \in T : k <= m
  <2>1. T \in SUBSET Nat
    OBVIOUS
  <2> HIDE DEF T
  <2> QED
    BY <1>1, <2>1, LeastNat
<1>3. k # 0
  BY DEF Calculation
<1>4. k \in 1 .. n /\ k - 1 \in 0 .. n /\ ~(k <= k - 1)
  BY <1>3
<1>5. f[k - 1] = g[k - 1]
  BY <1>2, <1>4
<1>6. f[k] = Calculate(k, U, N, f[k - 1]) /\ g[k] = Calculate(k, U2, N2, f[k - 1])
  BY <1>4, <1>5 DEF Calculation
<1>7. f[k] = g[k]
  BY <1>4, <1>6 DEF Calculate
<1> QED
  BY <1>7

\* settings that give each symbol in turn the same value give all the same
LEMMA SameValues ==
  ASSUME ChoicesSorted, NEW f, NEW U, NEW N, NEW U2, NEW N2, Calculation(f, Len(Order), U, N),
         \A i \in 1 .. Len(Order) :
           ValueOf(Order[i], U2, N2, f[i - 1]) = ValueOf(Order[i], U, N, f[i - 1])
  PROVE  Values(U2, N2) = f[Len(Order)]
<1>1. PICK g : Calculation(g, Len(Order), U2, N2) /\ Values(U2, N2) = g[Len(Order)]
  BY ValuesAre
<1>2. Len(Order) \in Nat
  BY DEF ChoicesSorted
<1> QED
  BY <1>1, <1>2, CalculationUnique

-----------------------------------------------------------------------------
(* What a calculation has done when it comes to a symbol, and in the end.  *)
LEMMA ValueNeverMod ==
  ASSUME NEW s \in Sym, Type[s] = "boolean", NEW U, NEW N, NEW C
  PROVE  ValueOf(s, U, N, C).tri # mod
<1>1. Base(s, U, N, C, FirstDefault(s, C)).tri # mod
  BY DEF Base, BaseValue, IsString, IsBoolean, Promote
<1>2. s \in Choice => FirstMember(Candidates(s, U[s].val), [C EXCEPT ![s].tri = yes]).tri # mod
  BY FirstMemberIs DEF Unset
<1> QED
  BY <1>1, <1>2, ValueIs

Calculated(f, U, N) == U \in Valuation /\ Calculation(f, Len(Order), U, N)
Final(f) == f[Len(Order)]

LEMMA CalculatedIs ==
  ASSUME ChoicesSorted, NEW f, NEW U, NEW N, Calculated(f, U, N), NEW i \in 1 .. Len(Order)
  PROVE  /\ Order[i] \in Sym /\ f[i - 1] \in Valuation /\ NeverModNow(f[i - 1])
         /\ Final(f) \in Valuation /\ NeverModNow(Final(f))
         /\ Final(f)[Order[i]] = ValueOf(Order[i], U, N, f[i - 1])
         /\ \A j \in 1 .. i - 1 : f[i - 1][Order[j]] = Final(f)[Order[j]]
<1> DEFINE n == Len(Order)
<1>1. n \in Nat /\ \A j \in 1 .. n : Order[j] \in Sym
  BY DEF ChoicesSorted
<1>2. \A j, k \in 1 .. n : Order[j] = Order[k] => j = k
  BY DEF ChoicesSorted
<1>3. Calculation(f, n, U, N) /\ U \in Valuation
  BY DEF Calculated
<1>4. \A j \in 0 .. n : f[j] \in Valuation
  BY <1>1, <1>3, CalculationType
<1>5. \A k \in 0 .. n : \A j \in 1 .. k : f[n][Order[j]] = f[k][Order[j]]
  BY <1>1, <1>2, <1>3, CalculationStays
<1> HIDE DEF n
<1>6. \A j \in 1 .. n : f[j][Order[j]] = ValueOf(Order[j], U, N, f[j - 1])
  <2> TAKE j \in 1 .. n
  <2>1. j - 1 \in 0 .. n
    BY <1>1
  <2> QED
    BY <1>1, <1>3, <1>4, <2>1 DEF Calculation, Calculate, Valuation
<1>7. \A j \in 1 .. n : f[n][Order[j]] = ValueOf(Order[j], U, N, f[j - 1])
  BY <1>1, <1>5, <1>6
<1>8. NeverModNow(f[n])
  <2>1. \A s \in Sym : \E j \in 1 .. n : Order[j] = s
    BY DEF ChoicesSorted, n
  <2> QED
    BY <1>1, <1>7, <2>1, ValueNeverMod DEF NeverModNow
<1>9. \A k \in 0 .. n : NeverModNow(f[k])
  <2> SUFFICES ASSUME NEW k \in 0 .. n, NEW s \in Sym, Type[s] = "boolean"
               PROVE  f[k][s].tri # mod
    BY DEF NeverModNow
  <2>1. PICK j \in 1 .. n : Order[j] = s
    BY DEF ChoicesSorted, n
  <2>2. CASE j <= k
    <3>1. j \in 1 .. k
      BY <1>1, <2>2
    <3> QED
      BY <1>5, <1>8, <2>1, <3>1 DEF NeverModNow
  <2>3. CASE ~(j <= k)
    <3>1. f[k][Order[j]] = Unset
      <4>1. k < j
        BY <1>1, <2>3
      <4> QED
        BY <1>1, <1>2, <1>3, <4>1, CalculationStays
    <3> QED
      BY <2>1, <3>1 DEF Unset
  <2> QED
    BY <2>2, <2>3
<1>10. i - 1 \in 0 .. n /\ n \in 0 .. n /\ i \in 1 .. n
  BY <1>1 DEF n
<1> QED
  BY <1>1, <1>4, <1>5, <1>7, <1>8, <1>9, <1>10 DEF Final, n
-----------------------------------------------------------------------------
(* A member and its choice in a calculation.                               *)
LEMMA VisThere ==
  ASSUME NEW w \in ChoiceValue, NEW X, NEW Y, Agree(ExprSyms(Prompt[w]), X, Y),
         X[ChoiceOf(w)].tri = Y[ChoiceOf(w)].tri
  PROVE  Vis(w, X) = Vis(w, Y)
<1>1. ASSUME NEW cl \in VisExpr(w), NEW l \in cl
      PROVE  LitValue(l, X) = LitValue(l, Y)
  <2>1. PICK cl2 \in Prompt[w] : cl = cl2 \cup {Is(ChoiceOf(w))}
    BY DEF VisExpr, AndLit
  <2>2. CASE l \in cl2
    <3>1. l.op # "const" => l.sym \in ExprSyms(Prompt[w])
      BY <2>1, <2>2 DEF ExprSyms
    <3> QED
      BY <3>1, LitSame DEF Agree
  <2>3. CASE l = Is(ChoiceOf(w))
    BY <2>3 DEF Is, LitValue
  <2> QED
    BY <2>1, <2>2, <2>3
<1> QED
  BY <1>1, EvalSame DEF Vis

LEMMA MemberType ==
  ASSUME NEW k \in Choice, NEW w \in MembersOf(k)
  PROVE  /\ k \in Sym /\ w \in Sym /\ w # NoVal /\ w \notin Choice /\ ~IsString(w)
         /\ w \in ChoiceValue /\ ChoiceOf(w) = k
         /\ ExprSyms(Prompt[w]) \subseteq Sym
<1>1. k \in Sym /\ w \in Sym
  BY MembersType, FileAssumption DEF FileAssumption
<1>2. w \in ChoiceValue /\ ChoiceOf(w) = k
  BY MemberOfChoice
<1>3. Prompt[w] \in Expr /\ w # NoVal
  BY <1>1, FileAssumption DEF FileAssumption
<1>4. w \notin Choice /\ ~IsString(w)
  BY <1>2, TypesAssumption DEF TypesAssumption
<1> QED
  BY <1>1, <1>2, <1>3, <1>4, ExprSymsType

\* where they are calculated, what the prompt of the member asks for is there
LEMMA InPlace ==
  ASSUME ChoicesSorted, NEW f, NEW U, NEW N, Calculated(f, U, N),
         NEW k \in Choice, NEW w \in MembersOf(k)
  PROVE  \E c, v \in 1 .. Len(Order) :
           /\ Order[c] = k /\ Order[v] = w /\ f[v - 1][k] = Final(f)[k]
           /\ k \notin ExprSyms(Prompt[w])
           /\ Agree(ExprSyms(Prompt[w]), f[c - 1], Final(f))
           /\ Agree(ExprSyms(Prompt[w]), f[v - 1], Final(f))
<1>1. k \in Sym /\ w \in Sym /\ ExprSyms(Prompt[w]) \subseteq Sym
  BY MemberType
<1>2. PICK c, v \in 1 .. Len(Order) : Order[c] = k /\ Order[v] = w
  BY <1>1 DEF ChoicesSorted
<1>3. /\ c < v
      /\ \A x \in 1 .. Len(Order) : Order[x] \in ExprSyms(Prompt[w]) => x < c
  BY <1>2 DEF ChoicesSorted
<1>4. \A i \in 1 .. Len(Order) : \A j \in 1 .. i - 1 : f[i - 1][Order[j]] = Final(f)[Order[j]]
  BY CalculatedIs
<1>5. \A j \in 1 .. Len(Order) : j < c => j \in 1 .. c - 1 /\ j \in 1 .. v - 1
  BY <1>3
<1>6. ASSUME NEW x \in ExprSyms(Prompt[w])
      PROVE  f[c - 1][x] = Final(f)[x] /\ f[v - 1][x] = Final(f)[x]
  <2>1. PICK j \in 1 .. Len(Order) : Order[j] = x
    BY <1>1 DEF ChoicesSorted
  <2>2. j \in 1 .. c - 1 /\ j \in 1 .. v - 1
    BY <1>3, <1>5, <2>1
  <2> QED
    BY <1>4, <2>1, <2>2
<1>7. k \notin ExprSyms(Prompt[w])
  BY <1>2, <1>3
<1>8. f[v - 1][k] = Final(f)[k]
  <2>1. c \in 1 .. v - 1
    BY <1>3
  <2> QED
    BY <1>2, <1>4, <2>1
<1> QED
  BY <1>2, <1>6, <1>7, <1>8 DEF Agree

LEMMA MemberValue ==
  ASSUME PlainChoices, ChoicesSorted, NEW f, NEW U, NEW N, Calculated(f, U, N),
         NEW k \in Choice, NEW w \in MembersOf(k)
  PROVE  /\ Final(f)[w] =
              [tri |-> IF Vis(w, Final(f)) = yes /\ Final(f)[k].val = w THEN yes ELSE no,
               val |-> NoVal]
         /\ Vis(w, Final(f)) \in {no, yes}
<1> DEFINE V == Final(f)
<1>1. PICK v \in 1 .. Len(Order) :
        Order[v] = w /\ f[v - 1][k] = V[k] /\ Agree(ExprSyms(Prompt[w]), f[v - 1], V)
  BY InPlace
<1>2. /\ w \in Sym /\ w \in ChoiceValue /\ w \notin Choice /\ ChoiceOf(w) = k
  BY MemberType
<1>3. /\ V \in Valuation /\ NeverModNow(V)
      /\ f[v - 1] \in Valuation /\ NeverModNow(f[v - 1])
      /\ V[w] = ValueOf(w, U, N, f[v - 1])
  BY <1>1, CalculatedIs
<1> HIDE DEF V
<1>4. Vis(w, f[v - 1]) = Vis(w, V)
  BY <1>1, <1>2, VisThere
<1>5. V[w] = Base(w, U, N, f[v - 1], FirstDefault(w, f[v - 1]))
  BY <1>2, <1>3, ValueIs
<1>6. FirstDefault(w, f[v - 1]) \in Nat \ {0}
  BY <1>2, FirstDefaultExists, DefaultsType
<1>7. V[w] = [tri |-> IF Vis(w, V) = yes /\ V[k].val = w THEN yes ELSE no, val |-> NoVal]
  BY <1>1, <1>2, <1>3, <1>4, <1>5, <1>6, MemberBase
<1> QED
  BY <1>2, <1>3, <1>7, MemberNeverMod DEF V

-----------------------------------------------------------------------------
(* The value of a choice.                                                  *)
LEMMA ChoiceIs ==
  ASSUME NEW c \in Choice, Type[c] = "boolean", NEW U, NEW N, NEW C
  PROVE  ValueOf(c, U, N, C) =
           IF ChoiceTri(OwnTri(c, U, N), Vis(c, C), Rev(c, C)) = yes
           THEN FirstMember(Candidates(c, U[c].val), [C EXCEPT ![c].tri = yes])
           ELSE [tri |-> ChoiceTri(OwnTri(c, U, N), Vis(c, C), Rev(c, C)), val |-> NoVal]
<1>1. c \in Sym /\ ~Uses(c, N, C)
  BY FileAssumption DEF FileAssumption, Uses, UsesDefault
<1>2. Base(c, U, N, C, FirstDefault(c, C)) = Base(c, U, N, C, 1)
  BY <1>1, NoDefaultUsed
<1> DEFINE t == ChoiceTri(OwnTri(c, U, N), Vis(c, C), Rev(c, C))
           base == Base(c, U, N, C, FirstDefault(c, C))
           member == FirstMember(Candidates(c, U[c].val), [C EXCEPT ![c].tri = yes])
<1>3. base = [tri |-> t, val |-> NoVal]
  BY <1>2, ChoiceTriIs
<1>4. ValueOf(c, U, N, C) = IF base.tri = yes THEN member ELSE base
  BY ValueIs
<1> HIDE DEF t, base, member
<1>5. ValueOf(c, U, N, C) = IF t = yes THEN member ELSE [tri |-> t, val |-> NoVal]
  BY <1>3, <1>4
<1> QED
  BY <1>5 DEF t, member

\* a chosen member is one that the open choice shows
LEMMA ChosenHit ==
  ASSUME NEW c \in Choice, Type[c] = "boolean", NEW U, NEW N, NEW C, NEW w \in Sym,
         MemberAnswers(U), ValueOf(c, U, N, C).val = w
  PROVE  /\ ChoiceTri(OwnTri(c, U, N), Vis(c, C), Rev(c, C)) = yes
         /\ ValueOf(c, U, N, C) = [tri |-> yes, val |-> w]
         /\ w \in MembersOf(c)
         /\ Vis(w, [C EXCEPT ![c].tri = yes]) # no
<1> DEFINE cand == Candidates(c, U[c].val)
           O == [C EXCEPT ![c].tri = yes]
<1>1. w # NoVal
  BY FileAssumption DEF FileAssumption
<1>2. /\ ChoiceTri(OwnTri(c, U, N), Vis(c, C), Rev(c, C)) = yes
      /\ ValueOf(c, U, N, C) = FirstMember(cand, O)
  BY <1>1, ChoiceIs
<1>3. PICK d \in 1 .. Len(cand) + 1 :
        /\ IsFirstCandidate(cand, d, O)
        /\ FirstMember(cand, O) =
                IF d <= Len(cand) THEN [tri |-> yes, val |-> cand[d].value] ELSE Unset
  BY FirstMemberIs
<1>4. Len(cand) \in Nat
  BY CandidatesLen
<1>5. d <= Len(cand) /\ cand[d].value = w
  <2> HIDE DEF cand, O
  <2> QED
    BY <1>1, <1>2, <1>3 DEF Unset
<1>6. CandidateHit(cand[d], O)
  BY <1>3, <1>5 DEF IsFirstCandidate
<1>7. d \in 1 .. Len(cand) /\ (U[c].val \in Sym => U[c].val \in MembersOf(c))
  <2> HIDE DEF cand
  <2> QED
    BY <1>3, <1>4, <1>5 DEF MemberAnswers
<1>8. cand[d].value \in MembersOf(c)
  BY <1>7, CandidateMember
<1> HIDE DEF cand, O
<1>9. Vis(w, O) # no
  BY <1>5, <1>6 DEF CandidateHit, Vis
<1> QED
  BY <1>2, <1>3, <1>5, <1>8, <1>9 DEF O

(* The chosen member is y, and what is y is chosen.                        *)
LEMMA ChosenIsYes ==
  ASSUME PlainChoices, ChoicesSorted, NEW f, NEW U, NEW N, Calculated(f, U, N),
         MemberAnswers(U), NEW k \in Choice, NEW w \in Sym, Final(f)[k].val = w
  PROVE  /\ w \in MembersOf(k) /\ Final(f)[k].tri = yes
         /\ Vis(w, Final(f)) = yes /\ Final(f)[w].tri = yes
<1> DEFINE V == Final(f)
<1>1. k \in Sym /\ Type[k] = "boolean"
  BY FileAssumption DEF FileAssumption, PlainChoices
<1>2. PICK i \in 1 .. Len(Order) : Order[i] = k
  BY <1>1 DEF ChoicesSorted
<1>3. V[k] = ValueOf(k, U, N, f[i - 1])
  BY <1>2, CalculatedIs
<1>4. w \in MembersOf(k) /\ V[k].tri = yes
  <2>1. ValueOf(k, U, N, f[i - 1]).val = w
    BY <1>3
  <2> DEFINE C == f[i - 1]
  <2> HIDE DEF C, V
  <2>2. ValueOf(k, U, N, C).val = w
    BY <2>1 DEF C
  <2>3. w \in MembersOf(k) /\ ValueOf(k, U, N, C) = [tri |-> yes, val |-> w]
    BY <1>1, <2>2, ChosenHit
  <2> QED
    BY <1>3, <2>3 DEF C
<1>5. PICK c \in 1 .. Len(Order) : Order[c] = k /\ k \notin ExprSyms(Prompt[w])
                                  /\ Agree(ExprSyms(Prompt[w]), f[c - 1], V)
  BY <1>4, InPlace
<1> DEFINE O == [f[c - 1] EXCEPT ![k].tri = yes]
<1>6. Vis(w, O) # no
  <2>1. V[k] = ValueOf(k, U, N, f[c - 1])
    BY <1>5, CalculatedIs
  <2> QED
    BY <1>1, <2>1, ChosenHit
<1>7. f[c - 1] \in Valuation
  BY CalculatedIs
<1>8. O[k].tri = yes /\ Agree(ExprSyms(Prompt[w]), O, V)
  <2>1. \A x : x # k => O[x] = f[c - 1][x] \/ x \notin Sym
    BY <1>7 DEF Valuation
  <2>2. O[k].tri = yes
    BY <1>1, <1>7 DEF Valuation, SymbolValue
  <2>3. ExprSyms(Prompt[w]) \subseteq Sym
    BY <1>4, MemberType
  <2> HIDE DEF O
  <2> QED
    BY <1>5, <2>1, <2>2, <2>3 DEF Agree
<1> HIDE DEF V, O
<1>9. w \in ChoiceValue /\ ChoiceOf(w) = k
  BY <1>4, MemberType
<1>10. Vis(w, V) = Vis(w, O)
  BY <1>4, <1>8, <1>9, VisThere
<1>11. /\ V[w] = [tri |-> IF Vis(w, V) = yes /\ V[k].val = w THEN yes ELSE no, val |-> NoVal]
       /\ Vis(w, V) \in {no, yes}
  BY <1>4, MemberValue DEF V
<1>12. Vis(w, V) = yes
  BY <1>6, <1>10, <1>11
<1> QED
  BY <1>4, <1>11, <1>12 DEF V

LEMMA YesIsChosen ==
  ASSUME PlainChoices, ChoicesSorted, NEW f, NEW U, NEW N, Calculated(f, U, N),
         NEW k \in Choice, NEW w \in MembersOf(k), Final(f)[w].tri = yes
  PROVE  Final(f)[k].val = w
<1>1. Final(f)[w] =
        [tri |-> IF Vis(w, Final(f)) = yes /\ Final(f)[k].val = w THEN yes ELSE no,
         val |-> NoVal]
  BY MemberValue
<1> QED
  BY <1>1
-----------------------------------------------------------------------------
(* A symbol that is set to the value it has gets this value again.         *)
LEMMA SettingAgain ==
  ASSUME NEW s, NEW U, NEW N, NEW U2, NEW N2, NEW C, SameSetting(s, U, N, U2, N2)
  PROVE  ValueOf(s, U2, N2, C) = ValueOf(s, U, N, C)
<1>1. U2[s] = U[s] /\ (s \notin N2) = (s \notin N)
  BY DEF SameSetting, SameNew
<1>2. \A d : Base(s, U2, N2, C, d) = Base(s, U, N, C, d)
  BY <1>1 DEF Base
<1> DEFINE base == Base(s, U, N, C, FirstDefault(s, C))
           member == FirstMember(Candidates(s, U[s].val), [C EXCEPT ![s].tri = yes])
<1>3. ValueOf(s, U, N, C) = IF s \in Choice /\ base.tri = yes THEN member ELSE base
  BY ValueIs
<1>4. ValueOf(s, U2, N2, C) = IF s \in Choice /\ base.tri = yes THEN member ELSE base
  BY <1>1, <1>2, ValueIs
<1> QED
  BY <1>3, <1>4

LEMMA PlainIs ==
  ASSUME NEW s \in Sym \ Choice, NEW U, NEW N, NEW C
  PROVE  ValueOf(s, U, N, C) = Base(s, U, N, C, FirstDefault(s, C))
  BY ValueIs

LEMMA TriAgain ==
  ASSUME NEW s \in Sym, ~IsString(s), s \notin Choice, s \notin ChoiceValue,
         NEW U \in Valuation, NEW N, NEW U2, NEW N2, NEW C \in Valuation, s \notin N2,
         U2[s].tri = ValueOf(s, U, N, C).tri
  PROVE  ValueOf(s, U2, N2, C) = ValueOf(s, U, N, C)
<1> DEFINE vis == Vis(s, C)
           rev == Rev(s, C)
           b == IsBoolean(s, vis, C)
           d == FirstDefault(s, C)
           v == ValueOf(s, U, N, C)
<1>1. v = Base(s, U, N, C, d) /\ ValueOf(s, U2, N2, C) = Base(s, U2, N2, C, d)
  BY PlainIs
<1>2. vis \in Tri /\ rev \in Tri /\ b \in BOOLEAN
  BY EvalType DEF Vis, Rev, IsBoolean
<1>3. ~ChosenByChoice(s, vis)
  BY DEF ChosenByChoice
<1>4. CASE EOr(vis, rev) = no
  <2>1. UsesDefault(s, s \notin N, vis, rev) /\ UsesDefault(s, s \notin N2, vis, rev)
    BY <1>3, <1>4 DEF UsesDefault
  <2>2. Base(s, U2, N2, C, d) = Base(s, U, N, C, d)
    BY <2>1 DEF Base, BaseValue, BaseTri
  <2> QED
    BY <1>1, <2>2
<1>5. CASE EOr(vis, rev) # no
  <2>1. ~UsesDefault(s, s \notin N2, vis, rev)
    BY <1>5 DEF UsesDefault
  <2>2. Base(s, U2, N2, C, d) = [tri |-> Promote(b, Limit(v.tri, vis, rev)), val |-> NoVal]
    BY <1>3, <1>5, <2>1 DEF Base, BaseValue, BaseTri
  <2>3. PICK t \in Tri : v = [tri |-> Promote(b, Limit(t, vis, rev)), val |-> NoVal]
    <3> DEFINE own == IF UsesDefault(s, s \notin N, vis, rev) THEN DefaultTri(s, d, C)
                      ELSE IF s \notin N THEN U[s].tri ELSE no
    <3>1. own \in Tri
      BY EvalType DEF DefaultTri, Valuation, SymbolValue
    <3>2. Base(s, U, N, C, d) = [tri |-> Promote(b, Limit(own, vis, rev)), val |-> NoVal]
      BY <1>3, <1>5 DEF Base, BaseValue, BaseTri
    <3> HIDE DEF own, v
    <3> QED
      BY <1>1, <3>1, <3>2
  <2> HIDE DEF vis, rev, b, v, d
  <2>4. v.tri = Promote(b, Limit(t, vis, rev)) /\ v = [tri |-> v.tri, val |-> NoVal]
    BY <2>3
  <2>5. Promote(b, Limit(v.tri, vis, rev)) = v.tri
    BY <1>2, <1>5, <2>4, LimitAgain
  <2> QED
    BY <1>1, <2>2, <2>4, <2>5 DEF v
<1> QED
  BY <1>4, <1>5

LEMMA StringAgain ==
  ASSUME NEW s \in Sym, IsString(s), NEW U, NEW N, NEW U2, NEW N2, NEW C,
         s \notin N, s \notin N2, U2[s].val = ValueOf(s, U, N, C).val
  PROVE  ValueOf(s, U2, N2, C) = ValueOf(s, U, N, C)
<1> DEFINE d == FirstDefault(s, C)
           uses == UsesDefault(s, TRUE, Vis(s, C), Rev(s, C))
<1>1. s \notin Choice /\ (s \notin N) = TRUE /\ (s \notin N2) = TRUE
  BY TypesAssumption DEF TypesAssumption
<1>2. ValueOf(s, U, N, C) = Base(s, U, N, C, d) /\ ValueOf(s, U2, N2, C) = Base(s, U2, N2, C, d)
  BY <1>1, PlainIs
<1>3. \A X, M : s \notin M =>
        Base(s, X, M, C, d) = [tri |-> no, val |-> IF uses THEN DefaultStr(s, d, C) ELSE X[s].val]
  BY DEF Base, BaseValue, BaseStr
<1> HIDE DEF d, uses
<1> QED
  BY <1>2, <1>3

LEMMA ChoiceAgain ==
  ASSUME NEW c \in Choice, Type[c] = "boolean",
         NEW U \in Valuation, NEW N, NEW U2, NEW N2, NEW C, c \notin N2,
         U2[c].tri = ValueOf(c, U, N, C).tri, U2[c].val = U[c].val
  PROVE  ValueOf(c, U2, N2, C) = ValueOf(c, U, N, C)
<1> DEFINE vis == Vis(c, C)
           rev == Rev(c, C)
           own == OwnTri(c, U, N)
           own2 == OwnTri(c, U2, N2)
           O == [C EXCEPT ![c].tri = yes]
           member == FirstMember(Candidates(c, U[c].val), O)
           v == ValueOf(c, U, N, C)
<1>1. vis \in Tri /\ rev \in Tri /\ own \in Tri
  BY EvalType, FileAssumption DEF FileAssumption, Vis, Rev, OwnTri, Valuation, SymbolValue
<1>2. v = IF ChoiceTri(own, vis, rev) = yes THEN member
          ELSE [tri |-> ChoiceTri(own, vis, rev), val |-> NoVal]
  BY ChoiceIs
<1>3. ValueOf(c, U2, N2, C) = IF ChoiceTri(own2, vis, rev) = yes THEN member
                              ELSE [tri |-> ChoiceTri(own2, vis, rev), val |-> NoVal]
  BY ChoiceIs
<1>4. own2 = v.tri
  BY DEF OwnTri
<1>5. member.tri = yes \/ member = Unset
  <2>1. PICK d \in 1 .. Len(Candidates(c, U[c].val)) + 1 :
          member = IF d <= Len(Candidates(c, U[c].val))
                   THEN [tri |-> yes, val |-> Candidates(c, U[c].val)[d].value] ELSE Unset
    BY FirstMemberIs
  <2> HIDE DEF member
  <2> QED
    BY <2>1
<1> HIDE DEF vis, rev, own, own2, member, v, O
<1>6. CASE ChoiceTri(own, vis, rev) = yes
  <2>1. v = member
    BY <1>2, <1>6
  <2>2. CASE member.tri = yes
    <3>1. ChoiceTri(yes, vis, rev) = yes
      <4>1. ChoiceTri(ChoiceTri(own, vis, rev), vis, rev) = ChoiceTri(own, vis, rev)
        BY <1>1, ChoiceTriFacts
      <4> QED
        BY <1>6, <4>1
    <3> QED
      BY <1>3, <1>4, <2>1, <2>2, <3>1 DEF v
  <2>3. CASE member = Unset
    <3>1. own2 = no /\ ChoiceTri(no, vis, rev) \in {no, yes}
      BY <1>1, <1>4, <2>1, <2>3, ChoiceTriFacts DEF Unset
    <3> QED
      BY <1>3, <2>1, <2>3, <3>1 DEF Unset, v
  <2> QED
    BY <1>5, <2>2, <2>3
<1>7. CASE ChoiceTri(own, vis, rev) # yes
  <2>1. v = [tri |-> ChoiceTri(own, vis, rev), val |-> NoVal]
    BY <1>2, <1>7
  <2>2. own2 = ChoiceTri(own, vis, rev)
    BY <1>4, <2>1
  <2>3. ChoiceTri(own2, vis, rev) = own2
    BY <1>1, <2>2, ChoiceTriFacts
  <2> QED
    BY <1>3, <1>7, <2>1, <2>2, <2>3 DEF v
<1> QED
  BY <1>6, <1>7

\* the member that is chosen already becomes the answer of the user
LEMMA PickAgain ==
  ASSUME NEW c \in Choice, Type[c] = "boolean", NEW w \in MembersOf(c),
         NEW U \in Valuation, NEW N, NEW U2, NEW N2, NEW C, c \notin N2, MemberAnswers(U),
         U2[c].tri = U[c].tri, U2[c].val = w, ValueOf(c, U, N, C).val = w
  PROVE  ValueOf(c, U2, N2, C) = ValueOf(c, U, N, C)
<1> DEFINE vis == Vis(c, C)
           rev == Rev(c, C)
           own == OwnTri(c, U, N)
           own2 == OwnTri(c, U2, N2)
           O == [C EXCEPT ![c].tri = yes]
           cand == Candidates(c, w)
<1>1. c \in Sym /\ w \in Sym /\ w # NoVal
  BY MemberType
<1>2. /\ ChoiceTri(own, vis, rev) = yes /\ Vis(w, O) # no
      /\ ValueOf(c, U, N, C) = [tri |-> yes, val |-> w]
  BY <1>1, ChosenHit
<1>3. vis \in Tri /\ rev \in Tri /\ own2 \in Tri /\ (own = no \/ own = own2)
  BY <1>1, EvalType DEF Vis, Rev, OwnTri, Valuation, SymbolValue
<1>4. ValueOf(c, U2, N2, C) = IF ChoiceTri(own2, vis, rev) = yes THEN FirstMember(cand, O)
                              ELSE [tri |-> ChoiceTri(own2, vis, rev), val |-> NoVal]
  BY ChoiceIs
<1>5. Len(cand) \in Nat /\ Len(cand) >= 1 /\ cand[1] = [cond |-> TrueExpr, value |-> w]
  BY <1>1, CandidatesMember, CandidatesLen
<1>6. EvalExpr(TrueExpr, O) # no
  BY DEF TrueExpr, EvalExpr, MaxTri, MinTri
<1> HIDE DEF vis, rev, own, own2, O, cand
<1>7. ChoiceTri(own2, vis, rev) = yes
  BY <1>2, <1>3, ChoiceTriFacts
<1>8. CandidateHit(cand[1], O)
  BY <1>2, <1>5, <1>6 DEF CandidateHit, Vis
<1>9. 1 \in 1 .. Len(cand) + 1 /\ IsFirstCandidate(cand, 1, O)
  BY <1>5, <1>8 DEF IsFirstCandidate
<1>10. FirstMember(cand, O) = [tri |-> yes, val |-> w]
  <2>1. (CHOOSE i \in 1 .. Len(cand) + 1 : IsFirstCandidate(cand, i, O)) = 1
    BY <1>5, <1>9, FirstCandidateUnique
  <2>2. FirstMember(cand, O) = [tri |-> yes, val |-> cand[1].value]
    BY <1>5, <2>1 DEF FirstMember
  <2> QED
    BY <1>5, <2>2
<1> QED
  BY <1>2, <1>4, <1>7, <1>10
(* conf.c:93: an answer that is the value shown leaves every value.        *)
LEMMA MemberAgain ==
  ASSUME PlainChoices, NEW v \in ChoiceValue, NEW C \in Valuation, NeverModNow(C),
         NEW U, NEW N, NEW U2, NEW N2
  PROVE  ValueOf(v, U2, N2, C) = ValueOf(v, U, N, C)
<1>1. v \in Sym \ Choice
  BY ChoiceOfType, MemberType
<1>2. FirstDefault(v, C) \in Nat \ {0}
  BY <1>1, FirstDefaultExists, DefaultsType
<1>3. Base(v, U2, N2, C, FirstDefault(v, C)) = Base(v, U, N, C, FirstDefault(v, C))
  BY <1>2, MemberBase
<1> QED
  BY <1>1, <1>3, PlainIs

LEMMA SettingsOf ==
  ASSUME NEW U \in Valuation, NEW N, NEW s \in Sym, NEW v
  PROVE  LET st == SetTri([user |-> U, isNew |-> N], s, v)
             picked == IF s \in ChoiceValue /\ v = yes THEN {ChoiceOf(s)} ELSE {}
         IN /\ \A t \in Sym : st.user[t] = IF t \in picked THEN [U[t] EXCEPT !.val = s]
                                           ELSE IF t = s THEN [U[t] EXCEPT !.tri = v]
                                           ELSE U[t]
            /\ st.isNew = N \ ({s} \cup picked)
            /\ v \in Tri => st.user \in Valuation
<1> DEFINE picked == IF s \in ChoiceValue /\ v = yes THEN {ChoiceOf(s)} ELSE {}
           st == SetTri([user |-> U, isNew |-> N], s, v)
<1>1. st = [user |-> [t \in Sym |-> IF t \in picked THEN [U[t] EXCEPT !.val = s]
                                    ELSE IF t = s THEN [U[t] EXCEPT !.tri = v] ELSE U[t]],
            isNew |-> N \ ({s} \cup picked)]
  BY DEF SetTri
<1>2. ASSUME v \in Tri, NEW t \in Sym
      PROVE  (IF t \in picked THEN [U[t] EXCEPT !.val = s]
              ELSE IF t = s THEN [U[t] EXCEPT !.tri = v] ELSE U[t]) \in SymbolValue
  BY <1>2 DEF Valuation, SymbolValue, Val
<1> HIDE DEF picked, st
<1>3. v \in Tri => st.user \in Valuation
  BY <1>1, <1>2 DEF Valuation
<1> QED
  BY <1>1, <1>3 DEF picked, st

LEMMA AnswerAgain ==
  ASSUME PlainChoices, ChoicesSorted, NEW U \in Valuation, NEW N, MemberAnswers(U),
         NEW s \in Sym, ~IsString(s)
  PROVE  LET st == SetTri([user |-> U, isNew |-> N], s, Values(U, N)[s].tri)
         IN Values(st.user, st.isNew) = Values(U, N)
<1>1. PICK f : Calculation(f, Len(Order), U, N) /\ Values(U, N) = f[Len(Order)]
  BY ValuesAre
<1>2. Calculated(f, U, N) /\ Values(U, N) = Final(f)
  BY <1>1 DEF Calculated, Final
<1> DEFINE v == Final(f)[s].tri
           st == SetTri([user |-> U, isNew |-> N], s, v)
           U2 == st.user
           N2 == st.isNew
           picked == IF s \in ChoiceValue /\ v = yes THEN {ChoiceOf(s)} ELSE {}
<1>3. /\ \A t \in Sym : U2[t] = IF t \in picked THEN [U[t] EXCEPT !.val = s]
                                ELSE IF t = s THEN [U[t] EXCEPT !.tri = v]
                                ELSE U[t]
      /\ N2 = N \ ({s} \cup picked)
  BY SettingsOf
<1>4. picked # {} => \E k \in Choice : picked = {k} /\ s \in MembersOf(k) /\ Final(f)[k].val = s
  <2> SUFFICES ASSUME s \in ChoiceValue, v = yes
               PROVE  \E k \in Choice : picked = {k} /\ s \in MembersOf(k) /\ Final(f)[k].val = s
    OBVIOUS
  <2>1. ChoiceOf(s) \in Choice /\ s \in MembersOf(ChoiceOf(s)) /\ picked = {ChoiceOf(s)}
    BY ChoiceOfType
  <2> HIDE DEF picked
  <2>2. Final(f)[ChoiceOf(s)].val = s
    BY <1>2, <2>1, YesIsChosen
  <2> QED
    BY <2>1, <2>2
<1> HIDE DEF picked, U2, N2, st, v
<1>5. ASSUME NEW i \in 1 .. Len(Order)
      PROVE  ValueOf(Order[i], U2, N2, f[i - 1]) = ValueOf(Order[i], U, N, f[i - 1])
  <2> DEFINE o == Order[i]
             C == f[i - 1]
  <2>1. o \in Sym /\ C \in Valuation /\ NeverModNow(C) /\ Final(f)[o] = ValueOf(o, U, N, C)
    BY <1>2, CalculatedIs
  <2> HIDE DEF o, C
  <2>2. U[o] \in SymbolValue
    BY <2>1 DEF Valuation
  <2>3. CASE o \in picked
    <3>1. o \in Choice /\ s \in MembersOf(o) /\ Final(f)[o].val = s
      BY <1>4, <2>3
    <3>2. Type[o] = "boolean"
      BY <3>1 DEF PlainChoices
    <3>3. o \notin N2 /\ U2[o].tri = U[o].tri /\ U2[o].val = s
      <4>1. U2[o] = [U[o] EXCEPT !.val = s]
        BY <1>3, <2>1, <2>3
      <4> QED
        BY <1>3, <2>2, <2>3, <4>1 DEF SymbolValue
    <3>4. ValueOf(o, U, N, C).val = s
      BY <2>1, <3>1
    <3>5. ValueOf(o, U2, N2, C) = ValueOf(o, U, N, C)
      BY <3>1, <3>2, <3>3, <3>4, PickAgain
    <3> QED
      BY <3>5 DEF o, C
  <2>4. CASE o = s /\ o \notin picked
    <3>1. o \notin N2 /\ U2[o].tri = v /\ U2[o].val = U[o].val
      <4>1. U2[o] = [U[o] EXCEPT !.tri = v]
        BY <1>3, <2>1, <2>4
      <4> QED
        BY <1>3, <2>2, <2>4, <4>1 DEF SymbolValue
    <3>2. v = ValueOf(o, U, N, C).tri
      BY <2>1, <2>4 DEF v
    <3>3. CASE o \in ChoiceValue
      BY <2>1, <3>3, MemberAgain DEF o, C
    <3>4. CASE o \in Choice
      <4>1. Type[o] = "boolean"
        BY <3>4 DEF PlainChoices
      <4>2. ValueOf(o, U2, N2, C) = ValueOf(o, U, N, C)
        BY <3>1, <3>2, <3>4, <4>1, ChoiceAgain
      <4> QED
        BY <4>2 DEF o, C
    <3>5. CASE o \notin ChoiceValue /\ o \notin Choice
      <4>1. ValueOf(o, U2, N2, C) = ValueOf(o, U, N, C)
        BY <2>1, <2>4, <3>1, <3>2, <3>5, TriAgain
      <4> QED
        BY <4>1 DEF o, C
    <3> QED
      BY <3>3, <3>4, <3>5
  <2>5. CASE o # s /\ o \notin picked
    <3>1. SameSetting(o, U, N, U2, N2)
      BY <1>3, <2>1, <2>5 DEF SameSetting, SameNew
    <3> QED
      BY <3>1, SettingAgain DEF o, C
  <2> QED
    BY <2>3, <2>4, <2>5
<1>6. Values(U2, N2) = f[Len(Order)]
  BY <1>1, <1>5, SameValues
<1> QED
  BY <1>1, <1>2, <1>6 DEF U2, N2, st, v

LEMMA TextAgain ==
  ASSUME ChoicesSorted, NEW U \in Valuation, NEW N, NEW s \in Sym, IsString(s), s \notin N
  PROVE  LET st == SetString([user |-> U, isNew |-> N], s, Values(U, N)[s].val)
         IN Values(st.user, st.isNew) = Values(U, N)
<1>1. PICK f : Calculation(f, Len(Order), U, N) /\ Values(U, N) = f[Len(Order)]
  BY ValuesAre
<1>2. Calculated(f, U, N) /\ Values(U, N) = Final(f)
  BY <1>1 DEF Calculated, Final
<1> DEFINE str == Final(f)[s].val
           U2 == [U EXCEPT ![s].val = str]
           N2 == N \ {s}
<1>3. SetString([user |-> U, isNew |-> N], s, str) = [user |-> U2, isNew |-> N2]
  BY DEF SetString
<1>4. /\ \A t \in Sym : t # s => U2[t] = U[t]
      /\ U2[s].val = str /\ N2 = N \ {s}
  BY DEF Valuation, SymbolValue
<1> HIDE DEF U2, N2, str
<1>5. ASSUME NEW i \in 1 .. Len(Order)
      PROVE  ValueOf(Order[i], U2, N2, f[i - 1]) = ValueOf(Order[i], U, N, f[i - 1])
  <2> DEFINE o == Order[i]
             C == f[i - 1]
  <2>1. o \in Sym /\ Final(f)[o] = ValueOf(o, U, N, C)
    BY <1>2, CalculatedIs
  <2> HIDE DEF o, C
  <2>2. CASE o = s
    <3>1. U2[o].val = ValueOf(o, U, N, C).val /\ o \notin N2 /\ o \notin N
      BY <1>4, <2>1, <2>2 DEF str
    <3>2. ValueOf(o, U2, N2, C) = ValueOf(o, U, N, C)
      BY <2>1, <2>2, <3>1, StringAgain
    <3> QED
      BY <3>2 DEF o, C
  <2>3. CASE o # s
    <3>1. SameSetting(o, U, N, U2, N2)
      BY <1>4, <2>1, <2>3 DEF SameSetting, SameNew
    <3> QED
      BY <3>1, SettingAgain DEF o, C
  <2> QED
    BY <2>2, <2>3
<1>6. Values(U2, N2) = f[Len(Order)]
  BY <1>1, <1>5, SameValues
<1> QED
  BY <1>1, <1>2, <1>3, <1>6 DEF str
-----------------------------------------------------------------------------
(* What the walk keeps: the calls for questions are for entries that have  *)
(* something to ask, and the answers are of their types.                   *)
Place == Entry \cup {menu_get_parent_menu(e) : e \in Entry}
Askable ==
  {k \in [fn : Fns, entry : Place, new : BOOLEAN] :
     /\ k.fn = "ask" => k.entry \in Entry /\ HasSym(k.entry)
     /\ k.fn = "choice" => k.entry \in Entry /\ IsChoiceEntry(k.entry)}

AnswersRight ==
  /\ todo \in Seq(Askable)
  /\ input_mode \in AskModes =>
       user \in Valuation /\ isNew \subseteq Sym /\ MemberAnswers(user)

LEMMA AskableCall ==
  ASSUME NEW fn \in {"conf", "check", "children"}, NEW e \in Place
  PROVE  Call(fn, e) \in Askable /\ <<Call(fn, e)>> \in Seq(Askable)
<1>1. Call(fn, e) \in Askable
  BY DEF Call, Frame, Askable, Fns
<1> QED
  BY <1>1

LEMMA AskableCalls ==
  ASSUME TreeAssumption, NEW fn \in {"conf", "check"}, NEW e \in Entry
  PROVE  Calls(fn, List[e]) \in Seq(Askable)
<1>1. List[e] \in Seq(Entry)
  BY DEF TreeAssumption
<1>2. \A x \in Entry : Call(fn, x) \in Askable
  BY AskableCall DEF Place
<1> QED
  BY <1>1, <1>2 DEF Calls

LEMMA AskableGoes ==
  ASSUME NEW t \in Seq(Askable), t # << >>, NEW calls \in Seq(Askable)
  PROVE  calls \o Tail(t) \in Seq(Askable) /\ Head(t) \in Askable
<1>1. Tail(t) \in Seq(Askable) /\ Head(t) \in Askable
  BY EmptySeq, HeadTailProperties
<1> QED
  BY <1>1

LEMMA EmptyCalls == << >> \in Seq(Askable)
  OBVIOUS

LEMMA ConfGoes ==
  ASSUME TreeAssumption, todo \in Seq(Askable), NEW e \in Entry, conf(e)
  PROVE  todo' \in Seq(Askable)
<1> DEFINE s == SymOf[e]
           asks == IF sym_is_changable(s, Shown) THEN <<Call("ask", e)>> ELSE << >>
           own == IF s = NoSym THEN << >> ELSE <<Call("ask", e)>>
           below == Calls("conf", List[e])
           choice == <<Frame("choice", e, s \in isNew)>>
<1>1. todo # << >>
  BY DEF conf, Top
<1>2. \/ todo' = << >> \o Tail(todo)
      \/ todo' = <<Call("check", e)>> \o Tail(todo)
      \/ s \in Choice /\ todo' = (asks \o choice) \o Tail(todo)
      \/ todo' = (own \o below) \o Tail(todo)
  BY DEF conf, Goes, Returns
<1>3. e \in Place
  BY DEF Place
<1>4. HasSym(e) => Call("ask", e) \in Askable
  BY <1>3 DEF Call, Frame, Askable, Fns
<1>5. s \in Choice => HasSym(e) /\ IsChoiceEntry(e)
  BY FileAssumption DEF FileAssumption, HasSym, IsChoiceEntry
<1>6. s \in Choice => asks \o choice \in Seq(Askable)
  <2> SUFFICES ASSUME s \in Choice PROVE asks \o choice \in Seq(Askable)
    OBVIOUS
  <2>1. Frame("choice", e, s \in isNew) \in Askable
    BY <1>3, <1>5 DEF Frame, Askable, Fns
  <2>2. choice \in Seq(Askable)
    BY <2>1
  <2>3. asks \in Seq(Askable)
    BY <1>4, <1>5
  <2> HIDE DEF asks, choice
  <2> QED
    BY <2>2, <2>3
<1>7. own \o below \in Seq(Askable)
  <2>1. own \in Seq(Askable)
    BY <1>4 DEF HasSym
  <2>2. below \in Seq(Askable)
    BY AskableCalls
  <2> HIDE DEF own, below
  <2> QED
    BY <2>1, <2>2
<1>8. <<Call("check", e)>> \in Seq(Askable)
  BY <1>3, AskableCall
<1> HIDE DEF s, asks, own, below, choice
<1> QED
  BY <1>1, <1>2, <1>6, <1>7, <1>8, AskableGoes, EmptyCalls

LEMMA ChoiceGoes ==
  ASSUME TreeAssumption, todo \in Seq(Askable), NEW e \in Entry, conf_choice(e)
  PROVE  todo' \in Seq(Askable)
<1>1. todo # << >>
  BY DEF conf_choice, Top
<1>2. ASSUME NEW m \in Answers(e, Head(todo).new)
      PROVE  FirstBelow(m) \in Seq(Askable)
  <2>1. List[e] \in Seq(Entry)
    BY DEF TreeAssumption
  <2>2. m \in Listed(e)
    BY DEF Answers, Offered
  <2>3. m \in Entry
    BY <2>1, <2>2 DEF Listed
  <2>4. List[m] \in Seq(Entry)
    BY <2>3 DEF TreeAssumption
  <2>5. CASE List[m] = << >>
    BY <2>5, EmptyCalls DEF FirstBelow
  <2>6. CASE List[m] # << >>
    <3>1. Head(List[m]) \in Place
      BY <2>4, <2>6, EmptySeq DEF Place
    <3> QED
      BY <2>6, <3>1, AskableCall DEF FirstBelow
  <2> QED
    BY <2>5, <2>6
<1>3. Calls("conf", List[e]) \in Seq(Askable)
  BY AskableCalls
<1>4. \/ todo' = << >> \o Tail(todo) \/ todo' = Calls("conf", List[e]) \o Tail(todo)
      \/ todo' = todo
      \/ \E m \in Answers(e, Head(todo).new) : todo' = FirstBelow(m) \o Tail(todo)
  BY DEF conf_choice, Goes, Returns
<1> QED
  BY <1>1, <1>2, <1>3, <1>4, AskableGoes, EmptyCalls

LEMMA CheckGoes ==
  ASSUME TreeAssumption, todo \in Seq(Askable), NEW e \in Entry,
         check_conf(e) \/ check_children(e)
  PROVE  todo' \in Seq(Askable)
<1>1. todo # << >>
  BY DEF check_conf, check_children, Top
<1>2. e \in Place /\ menu_get_parent_menu(e) \in Place
  BY DEF Place
<1>3. \/ todo' = << >> \o Tail(todo)
      \/ todo' = <<Call("conf", menu_get_parent_menu(e)), Call("children", e)>> \o Tail(todo)
      \/ todo' = <<Call("children", e)>> \o Tail(todo)
      \/ todo' = Calls("check", List[e]) \o Tail(todo)
  BY DEF check_conf, check_children, Goes, Returns
<1>4. /\ Call("conf", menu_get_parent_menu(e)) \in Askable
      /\ Call("children", e) \in Askable
  BY <1>2, AskableCall
<1>5. /\ <<Call("conf", menu_get_parent_menu(e)), Call("children", e)>> \in Seq(Askable)
      /\ <<Call("children", e)>> \in Seq(Askable)
  BY <1>4
<1>6. Calls("check", List[e]) \in Seq(Askable)
  BY AskableCalls
<1> QED
  BY <1>1, <1>3, <1>5, <1>6, AskableGoes, EmptyCalls
-----------------------------------------------------------------------------
(* What is answered.                                                       *)
LEMMA ShownType ==
  ASSUME ChoicesSorted, user \in Valuation, NEW s \in Sym
  PROVE  Shown[s] \in SymbolValue
<1>1. PICK f : Calculation(f, Len(Order), user, isNew) /\ Shown = f[Len(Order)]
  BY ValuesAre DEF Shown
<1>2. Calculated(f, user, isNew) /\ Shown = Final(f)
  BY <1>1 DEF Calculated, Final
<1>3. PICK i \in 1 .. Len(Order) : Order[i] = s
  BY DEF ChoicesSorted
<1>4. Shown \in Valuation
  BY <1>2, CalculatedIs
<1> QED
  BY <1>4 DEF Valuation

LEMMA TriKeeps ==
  ASSUME user \in Valuation, isNew \subseteq Sym, MemberAnswers(user),
         NEW s \in Sym, NEW v \in Tri, Becomes(SetTri(Settings, s, v))
  PROVE  user' \in Valuation /\ isNew' \subseteq Sym /\ MemberAnswers(user')
<1> DEFINE picked == IF s \in ChoiceValue /\ v = yes THEN {ChoiceOf(s)} ELSE {}
<1>1. /\ \A t \in Sym : user'[t] = IF t \in picked THEN [user[t] EXCEPT !.val = s]
                                   ELSE IF t = s THEN [user[t] EXCEPT !.tri = v] ELSE user[t]
      /\ isNew' = isNew \ ({s} \cup picked) /\ user' \in Valuation
  BY SettingsOf DEF Becomes, Settings
<1>2. picked # {} => s \in MembersOf(ChoiceOf(s)) /\ picked = {ChoiceOf(s)}
  BY ChoiceOfType
<1> HIDE DEF picked
<1>3. ASSUME NEW c \in Choice, user'[c].val \in Sym
      PROVE  user'[c].val \in MembersOf(c)
  <2>1. c \in Sym /\ user[c] \in SymbolValue
    BY FileAssumption DEF FileAssumption, Valuation
  <2>2. CASE c \in picked
    <3>1. user'[c].val = s
      BY <1>1, <2>1, <2>2 DEF SymbolValue
    <3> QED
      BY <1>2, <2>2, <3>1
  <2>3. CASE c \notin picked
    <3>1. user'[c].val = user[c].val
      BY <1>1, <2>1, <2>3 DEF SymbolValue
    <3> QED
      BY <1>3, <3>1 DEF MemberAnswers
  <2> QED
    BY <2>2, <2>3
<1> QED
  BY <1>1, <1>3 DEF MemberAnswers

LEMMA StringKeeps ==
  ASSUME user \in Valuation, isNew \subseteq Sym, MemberAnswers(user),
         NEW s \in Sym, NEW str, AcceptsString(s, str), Becomes(SetString(Settings, s, str))
  PROVE  user' \in Valuation /\ isNew' \subseteq Sym /\ MemberAnswers(user')
<1>1. str \in Val /\ s \notin Choice
  BY FileAssumption, TypesAssumption
     DEF FileAssumption, TypesAssumption, AcceptsString, Val
<1>2. user' = [user EXCEPT ![s].val = str] /\ isNew' = isNew \ {s}
  BY DEF Becomes, SetString, Settings
<1>3. user' \in Valuation
  BY <1>1, <1>2 DEF Valuation, SymbolValue
<1>4. \A c \in Choice : user'[c] = user[c]
  BY <1>1, <1>2, FileAssumption DEF FileAssumption, Valuation
<1> QED
  BY <1>2, <1>3, <1>4 DEF MemberAnswers

LEMMA RightInit == TreeAssumption /\ LoadedAnswers /\ Init => AnswersRight
<1> SUFFICES ASSUME TreeAssumption, LoadedAnswers, Init PROVE AnswersRight
  OBVIOUS
<1>1. Root \in Place
  BY DEF TreeAssumption, Place
<1>2. todo = <<Call("check", Root)>> \/ todo = <<Call("conf", Root)>>
  BY DEF Init
<1>3. input_mode \in AskModes => user \in Valuation /\ isNew \subseteq Sym /\ MemberAnswers(user)
  BY DEF Init, ValuesInit, LoadedAnswers, Valuation, MemberAnswers
<1> QED
  BY <1>1, <1>2, <1>3, AskableCall DEF AnswersRight

LEMMA AskSymKeeps ==
  ASSUME ChoicesSorted, AnswersRight, NEW e \in Entry, SymOf[e] \in Sym, conf_sym(e),
         input_mode \in AskModes
  PROVE  user' \in Valuation /\ isNew' \subseteq Sym /\ MemberAnswers(user')
<1> DEFINE s == SymOf[e]
<1>1. user \in Valuation /\ isNew \subseteq Sym /\ MemberAnswers(user)
  BY DEF AnswersRight
<1>2. PICK v \in Replies(s, Shown) : Becomes(SetTri(Settings, s, v))
  BY DEF conf_sym
<1>3. Shown[s].tri \in Tri
  BY <1>1, ShownType DEF SymbolValue
<1>4. v \in Tri
  BY <1>2, <1>3 DEF Replies, AskModes
<1> QED
  BY <1>1, <1>2, <1>4, TriKeeps

LEMMA AskStringKeeps ==
  ASSUME AnswersRight, NEW e \in Entry, SymOf[e] \in Sym, conf_string(e), input_mode \in AskModes
  PROVE  user' \in Valuation /\ isNew' \subseteq Sym /\ MemberAnswers(user')
<1> DEFINE s == SymOf[e]
<1>1. user \in Valuation /\ isNew \subseteq Sym /\ MemberAnswers(user)
  BY DEF AnswersRight
<1>2. PICK str \in StrReplies(s, Shown) :
        IF AcceptsString(s, str) THEN Becomes(SetString(Settings, s, str))
        ELSE UNCHANGED config
  BY DEF conf_string, config
<1>3. CASE AcceptsString(s, str)
  BY <1>1, <1>2, <1>3, StringKeeps
<1>4. CASE ~AcceptsString(s, str)
  BY <1>1, <1>2, <1>4 DEF config
<1> QED
  BY <1>3, <1>4

LEMMA AskChoiceKeeps ==
  ASSUME TreeAssumption, AnswersRight, NEW e \in Entry, conf_choice(e), input_mode \in AskModes
  PROVE  user' \in Valuation /\ isNew' \subseteq Sym /\ MemberAnswers(user')
<1>1. user \in Valuation /\ isNew \subseteq Sym /\ MemberAnswers(user)
  BY DEF AnswersRight
<1>2. CASE UNCHANGED config
  BY <1>1, <1>2 DEF config
<1>3. CASE ~UNCHANGED config
  <2>1. PICK m \in Offered(e, Shown) : Becomes(SetTri(Settings, SymOf[m], yes))
    BY <1>3 DEF conf_choice, Answers
  <2>2. SymOf[m] \in Sym
    <3>1. List[e] \in Seq(Entry) /\ m \in Listed(e) /\ HasSym(m)
      BY <2>1 DEF TreeAssumption, Offered
    <3>2. m \in Entry
      BY <3>1 DEF Listed
    <3> QED
      BY <3>1, <3>2 DEF TreeAssumption, HasSym
  <2> QED
    BY <1>1, <2>1, <2>2, TriKeeps
<1> QED
  BY <1>2, <1>3

LEMMA TopIs ==
  ASSUME TreeAssumption, AnswersRight, todo # << >>
  PROVE  /\ Head(todo) \in Askable
         /\ Head(todo).fn = "ask" => Head(todo).entry \in Entry /\ SymOf[Head(todo).entry] \in Sym
         /\ Head(todo).fn = "choice" => Head(todo).entry \in Entry /\ SymOf[Head(todo).entry] \in Choice
<1>1. Head(todo) \in Askable
  BY AskableGoes, EmptyCalls DEF AnswersRight
<1> QED
  BY <1>1 DEF Askable, TreeAssumption, HasSym, IsChoiceEntry

LEMMA RightStep ==
  TreeAssumption /\ ChoicesSorted /\ AnswersRight /\ [Next]_vars => AnswersRight'
<1> SUFFICES ASSUME TreeAssumption, ChoicesSorted, AnswersRight, [Next]_vars PROVE AnswersRight'
  OBVIOUS
<1> DEFINE Right == user \in Valuation /\ isNew \subseteq Sym /\ MemberAnswers(user)
<1>1. todo \in Seq(Askable) /\ (input_mode \in AskModes => Right)
  BY DEF AnswersRight
<1>2. UNCHANGED config => (Right' <=> Right)
  BY DEF config, MemberAnswers
<1>3. todo # << >> => /\ Head(todo) \in Askable
                      /\ Head(todo).fn = "ask" => SymOf[Head(todo).entry] \in Sym
  BY TopIs
<1>4. ASSUME NEW e \in Entry, conf(e) \/ check_conf(e) \/ check_children(e) PROVE AnswersRight'
  <2>1. UNCHANGED <<config, input_mode>>
    BY <1>4 DEF conf, check_conf, check_children, Keeps
  <2>2. todo' \in Seq(Askable)
    BY <1>1, <1>4, ConfGoes, CheckGoes
  <2> QED
    BY <1>1, <1>2, <2>1, <2>2 DEF AnswersRight
<1>5. ASSUME NEW e \in Entry, conf_sym(e) \/ conf_string(e) PROVE AnswersRight'
  <2>1. /\ todo # << >> /\ Head(todo).fn = "ask" /\ Head(todo).entry = e
        /\ input_mode' = input_mode
        /\ todo' = << >> \o Tail(todo) \/ todo' = todo
    BY <1>5 DEF conf_sym, conf_string, Top, Keeps, Returns, Goes
  <2>2. SymOf[e] \in Sym
    BY <1>3, <2>1
  <2>3. todo' \in Seq(Askable)
    BY <1>1, <2>1, AskableGoes, EmptyCalls
  <2>4. input_mode \in AskModes => Right'
    BY <1>5, <2>2, AskSymKeeps, AskStringKeeps
  <2> QED
    BY <2>1, <2>3, <2>4 DEF AnswersRight
<1>6. ASSUME NEW e \in Entry, conf_choice(e) PROVE AnswersRight'
  <2>1. input_mode' = input_mode
    BY <1>6 DEF conf_choice, Keeps
  <2>2. todo' \in Seq(Askable)
    BY <1>1, <1>6, ChoiceGoes
  <2>3. input_mode \in AskModes => Right'
    BY <1>6, AskChoiceKeeps
  <2> QED
    BY <2>1, <2>2, <2>3 DEF AnswersRight
<1>7. CASE asked \/ checked
  <2>1. UNCHANGED config /\ (todo' = todo \/ todo' = <<Call("check", Root)>>)
        /\ (input_mode' \in AskModes => input_mode \in AskModes)
    BY <1>7 DEF asked, checked, AskModes
  <2>2. <<Call("check", Root)>> \in Seq(Askable)
    BY AskableCall DEF Place, TreeAssumption
  <2> QED
    BY <1>1, <1>2, <2>1, <2>2 DEF AnswersRight
<1>8. CASE Aborts \/ Exited \/ InputEnds \/ UNCHANGED vars
  <2>1. UNCHANGED <<config, input_mode, todo>>
    BY <1>8 DEF Aborts, Exited, InputEnds, vars
  <2> QED
    BY <1>1, <1>2, <2>1 DEF AnswersRight
<1> QED
  BY <1>4, <1>5, <1>6, <1>7, <1>8 DEF Next, Steps, Walk

-----------------------------------------------------------------------------
(* Old answers pass.                                                       *)
Passing == input_mode \in {"ask_new", "ask_silent"}

LEMMA OldSymPasses ==
  ASSUME PlainChoices, ChoicesSorted, AnswersRight, Passing,
         NEW e \in Entry, SymOf[e] \in Sym, SymOf[e] \notin isNew, conf_sym(e)
  PROVE  Values(user', isNew') = Shown
<1> DEFINE s == SymOf[e]
<1>1. user \in Valuation /\ MemberAnswers(user) /\ ~IsAsked(FALSE) /\ input_mode # "set_default"
      /\ input_mode \in AskModes
  BY DEF AnswersRight, Passing, AskModes, IsAsked
<1>2. Replies(s, Shown) = {Shown[s].tri}
  <2>1. (s \in isNew) = FALSE
    OBVIOUS
  <2> QED
    BY <1>1, <2>1 DEF Replies
<1>3. ~IsString(s) /\ Becomes(SetTri(Settings, s, Shown[s].tri))
  BY <1>2 DEF conf_sym
<1> QED
  BY <1>1, <1>3, AnswerAgain DEF Becomes, Settings, Shown

LEMMA OldStringPasses ==
  ASSUME ChoicesSorted, AnswersRight, Passing,
         NEW e \in Entry, SymOf[e] \in Sym, SymOf[e] \notin isNew, conf_string(e)
  PROVE  Values(user', isNew') = Shown
<1> DEFINE s == SymOf[e]
<1>1. user \in Valuation /\ ~IsAsked(FALSE)
  BY DEF AnswersRight, Passing, AskModes, IsAsked
<1>2. StrReplies(s, Shown) = {Shown[s].val}
  <2>1. (s \in isNew) = FALSE
    OBVIOUS
  <2> QED
    BY <1>1, <2>1 DEF StrReplies
<1>3. IsString(s) /\ (\/ Becomes(SetString(Settings, s, Shown[s].val)) \/ UNCHANGED config)
  BY <1>2 DEF conf_string
<1>4. CASE UNCHANGED config
  BY <1>4 DEF config, Shown
<1>5. CASE Becomes(SetString(Settings, s, Shown[s].val))
  BY <1>1, <1>3, <1>5, TextAgain DEF Becomes, Settings, Shown
<1> QED
  BY <1>3, <1>4, <1>5

\* the member taken at a choice that is not new is the one it has
LEMMA OldMember ==
  ASSUME TreeAssumption, PlainChoices, ChoicesSorted, AnswersRight, Passing,
         NEW e \in Entry, SymOf[e] \in Choice, Shown[SymOf[e]].tri = yes,
         NEW m \in Answers(e, FALSE)
  PROVE  SymOf[m] \in Sym /\ Shown[SymOf[m]].tri = yes
<1> DEFINE c == SymOf[e]
           w == Shown[c].val
           S == Offered(e, Shown)
<1>1. PICK f : Calculation(f, Len(Order), user, isNew) /\ Shown = f[Len(Order)]
  BY ValuesAre DEF Shown
<1>2. Calculated(f, user, isNew) /\ Shown = Final(f) /\ MemberAnswers(user)
  BY <1>1 DEF Calculated, Final, AnswersRight, Passing, AskModes
<1>3. c \in Sym /\ Type[c] = "boolean"
  BY FileAssumption DEF FileAssumption, PlainChoices
<1>4. w \in Sym
  <2>1. PICK i \in 1 .. Len(Order) : Order[i] = c
    BY <1>3 DEF ChoicesSorted
  <2>2. Shown[c] = ValueOf(c, user, isNew, f[i - 1])
    BY <1>2, <2>1, CalculatedIs
  <2> DEFINE cand == Candidates(c, user[c].val)
             member == FirstMember(cand, [f[i - 1] EXCEPT ![c].tri = yes])
  <2>3. Shown[c] = member
    <3> DEFINE t == ChoiceTri(OwnTri(c, user, isNew), Vis(c, f[i - 1]), Rev(c, f[i - 1]))
    <3>1. Shown[c] = IF t = yes THEN member ELSE [tri |-> t, val |-> NoVal]
      BY <1>3, <2>2, ChoiceIs
    <3> HIDE DEF t, member
    <3> QED
      BY <3>1
  <2>4. PICK d \in 1 .. Len(cand) + 1 :
          member = IF d <= Len(cand) THEN [tri |-> yes, val |-> cand[d].value] ELSE Unset
    BY FirstMemberIs
  <2>5. Len(cand) \in Nat /\ \A j \in 1 .. Len(cand) : cand[j].value \in Sym
    BY CandidatesType
  <2> HIDE DEF cand, member
  <2>6. d <= Len(cand) /\ Shown[c].val = cand[d].value
    BY <2>3, <2>4 DEF Unset
  <2> QED
    BY <2>5, <2>6
<1>5. w \in MembersOf(c) /\ Vis(w, Shown) = yes /\ Shown[w].tri = yes
  BY <1>2, <1>4, ChosenIsYes
<1>6. PICK k \in Listed(e) : HasSym(k) /\ SymOf[k] = w
  <2>1. {SymOf[x] : x \in {y \in Listed(e) : HasSym(y)}} = MembersOf(c)
    BY DEF TreeAssumption
  <2> QED
    BY <1>5, <2>1
<1>7. k \in S
  <2>1. PromptVisible(k, Shown)
    BY <1>5, <1>6 DEF PromptVisible, Visibility, Vis
  <2>2. menu_is_visible(k, Shown)
    BY <2>1 DEF menu_is_visible
  <2> QED
    BY <1>6, <2>2 DEF Offered
<1>8. m \in S /\ (~OnlyOne(e) => SymOf[m] = w)
  <2>1. ~IsAsked(FALSE) /\ input_mode # "set_random"
    BY DEF Passing, IsAsked
  <2> QED
    BY <2>1 DEF Answers
<1>9. CASE OnlyOne(e)
  <2>1. IsFiniteSet(S)
    <3>1. S \subseteq Entry
      BY DEF Offered, Listed, TreeAssumption
    <3> QED
      BY <3>1, FS_Subset DEF TreeAssumption
  <2>2. PICK x : S = {x}
    BY <1>9, <2>1, FS_Singleton DEF OnlyOne
  <2>3. m = k
    BY <1>7, <1>8, <2>2
  <2> QED
    BY <1>4, <1>5, <1>6, <2>3
<1> QED
  BY <1>4, <1>5, <1>8, <1>9

LEMMA OldChoicePasses ==
  ASSUME TreeAssumption, PlainChoices, ChoicesSorted, AnswersRight, Passing,
         NEW e \in Entry, SymOf[e] \in Choice, ~Head(todo).new, Head(todo) \in Askable,
         conf_choice(e)
  PROVE  Values(user', isNew') = Shown
<1>1. user \in Valuation /\ MemberAnswers(user)
  BY DEF AnswersRight, Passing, AskModes
<1>2. Head(todo).new = FALSE
  BY DEF Askable
<1>3. CASE UNCHANGED config
  BY <1>3 DEF config, Shown
<1>4. CASE ~UNCHANGED config
  <2>1. PICK m \in Answers(e, FALSE) :
          /\ Shown[SymOf[e]].tri = yes
          /\ Accepts(SymOf[m], yes, Shown) /\ Becomes(SetTri(Settings, SymOf[m], yes))
    BY <1>2, <1>4 DEF conf_choice
  <2>2. SymOf[m] \in Sym /\ Shown[SymOf[m]].tri = yes
    BY <2>1, OldMember
  <2>3. ~IsString(SymOf[m]) /\ Becomes(SetTri(Settings, SymOf[m], Shown[SymOf[m]].tri))
    BY <2>1, <2>2 DEF Accepts
  <2> QED
    BY <1>1, <2>2, <2>3, AnswerAgain DEF Becomes, Settings, Shown
<1> QED
  BY <1>3, <1>4

OldPasses ==
  (input_mode \in {"ask_new", "ask_silent"} /\ todo # << >>
   /\ (Head(todo).fn = "ask" => SymOf[Head(todo).entry] \notin isNew)
   /\ (Head(todo).fn = "choice" => ~Head(todo).new))
  => Values(user', isNew') = Shown

LEMMA OldStep ==
  TreeAssumption /\ PlainChoices /\ ChoicesSorted /\ AnswersRight /\ [Next]_vars => OldPasses
<1> SUFFICES ASSUME TreeAssumption, PlainChoices, ChoicesSorted, AnswersRight, [Next]_vars,
                    Passing, todo # << >>,
                    Head(todo).fn = "ask" => SymOf[Head(todo).entry] \notin isNew,
                    Head(todo).fn = "choice" => ~Head(todo).new
             PROVE  Values(user', isNew') = Shown
  BY DEF OldPasses, Passing
<1>1. /\ Head(todo) \in Askable
      /\ Head(todo).fn = "ask" => SymOf[Head(todo).entry] \in Sym
      /\ Head(todo).fn = "choice" => SymOf[Head(todo).entry] \in Choice
  BY TopIs
<1>2. ASSUME NEW e \in Entry, conf_sym(e) PROVE Values(user', isNew') = Shown
  <2>1. Head(todo).fn = "ask" /\ Head(todo).entry = e
    BY <1>2 DEF conf_sym, Top
  <2> QED
    BY <1>1, <1>2, <2>1, OldSymPasses
<1>3. ASSUME NEW e \in Entry, conf_string(e) PROVE Values(user', isNew') = Shown
  <2>1. Head(todo).fn = "ask" /\ Head(todo).entry = e
    BY <1>3 DEF conf_string, Top
  <2> QED
    BY <1>1, <1>3, <2>1, OldStringPasses
<1>4. ASSUME NEW e \in Entry, conf_choice(e) PROVE Values(user', isNew') = Shown
  <2>1. Head(todo).fn = "choice" /\ Head(todo).entry = e
    BY <1>4 DEF conf_choice, Top
  <2> QED
    BY <1>1, <1>4, <2>1, OldChoicePasses
<1>5. CASE UNCHANGED config
  BY <1>5 DEF config, Shown
<1>6. ASSUME NEW e \in Entry, conf(e) \/ check_conf(e) \/ check_children(e)
      PROVE  UNCHANGED config
  BY <1>6 DEF conf, check_conf, check_children
<1>7. ASSUME asked \/ checked \/ Aborts \/ Exited \/ InputEnds \/ UNCHANGED vars
      PROVE  UNCHANGED config
  BY <1>7 DEF asked, checked, Aborts, Exited, InputEnds, vars
<1> QED
  BY <1>2, <1>3, <1>4, <1>5, <1>6, <1>7 DEF Next, Steps, Walk

(* conf.c:93, 331-383, 402: whatever the menus are like, oldconfig and     *)
(* silentoldconfig let every value that was in the file pass: no step that *)
(* comes to a symbol or a choice which is not new changes any value.       *)
THEOREM OldAnswersStay ==
  ASSUME TreeAssumption, PlainChoices, ChoicesSorted, LoadedAnswers
  PROVE  Spec => OldAnswersKept
<1>1. Init => AnswersRight
  BY RightInit
<1>2. AnswersRight /\ [Next]_vars => AnswersRight'
  BY RightStep
<1>3. AnswersRight /\ [Next]_vars => OldPasses
  BY OldStep
<1> QED
  BY <1>1, <1>2, <1>3, PTL DEF Spec, OldAnswersKept, OldPasses
-----------------------------------------------------------------------------
(* allyesconfig.  The symbols that are not about choices: their values.    *)
Ordinary == {s \in Sym : s \notin Choice /\ s \notin ChoiceValue /\ ~IsString(s)}

LEMMA OrdinaryValue ==
  ASSUME ChoicesSorted, DependenciesSorted, user \in Valuation, NEW s \in Ordinary
  PROVE  \E C \in Valuation : \E d \in Nat \ {0} :
           /\ Shown[s] = Base(s, user, isNew, C, d)
           /\ Vis(s, C) = Vis(s, Shown) /\ Rev(s, C) = Rev(s, Shown)
<1>1. PICK f : Calculated(f, user, isNew) /\ Shown = Final(f)
  <2>1. PICK f : Calculation(f, Len(Order), user, isNew) /\ Shown = f[Len(Order)]
    BY ValuesAre DEF Shown
  <2> QED
    BY <2>1 DEF Calculated, Final
<1>2. s \in Sym /\ s \notin Choice
  BY DEF Ordinary
<1>3. PICK i \in 1 .. Len(Order) : Order[i] = s
  BY <1>2 DEF ChoicesSorted
<1> DEFINE C == f[i - 1]
           d == FirstDefault(s, C)
<1>4. /\ C \in Valuation /\ Shown[s] = ValueOf(s, user, isNew, C)
      /\ \A j \in 1 .. i - 1 : C[Order[j]] = Shown[Order[j]]
  BY <1>1, <1>3, CalculatedIs
<1>5. Shown[s] = Base(s, user, isNew, C, d)
  <2>1. ValueOf(s, user, isNew, C) = Base(s, user, isNew, C, FirstDefault(s, C))
    BY <1>2, ValueIs
  <2> QED
    BY <1>4, <2>1
<1>6. d \in Nat \ {0}
  BY <1>2, <1>4, FirstDefaultExists, DefaultsType
<1>7. Agree(ExprSyms(VisExpr(s)) \cup ExprSyms(RevDepExpr(s)), C, Shown)
  <2>1. ASSUME NEW x \in ExprSyms(VisExpr(s)) \cup ExprSyms(RevDepExpr(s))
        PROVE  C[x] = Shown[x]
    <3>1. PICK j \in 1 .. i - 1 : Order[j] = x
      BY <1>3, <2>1 DEF DependenciesSorted
    <3> QED
      BY <1>4, <3>1
  <2> QED
    BY <2>1 DEF Agree
<1>8. EvalExpr(VisExpr(s), C) = EvalExpr(VisExpr(s), Shown)
  BY <1>7, Footprint
<1>9. EvalExpr(RevDepExpr(s), C) = EvalExpr(RevDepExpr(s), Shown)
  BY <1>7, Footprint
<1>10. Vis(s, C) = Vis(s, Shown) /\ Rev(s, C) = Rev(s, Shown)
  BY <1>8, <1>9 DEF Vis, Rev
<1> QED
  BY <1>4, <1>5, <1>6, <1>10

\* what makes it more than n
LEMMA MoreThanNo ==
  ASSUME ChoicesSorted, DependenciesSorted, user \in Valuation, NEW s \in Ordinary,
         \/ Rev(s, Shown) # no
         \/ Vis(s, Shown) # no /\ s \notin isNew /\ user[s].tri # no
  PROVE  Shown[s].tri # no
<1>1. PICK C \in Valuation, d \in Nat \ {0} :
        /\ Shown[s] = Base(s, user, isNew, C, d)
        /\ Vis(s, C) = Vis(s, Shown) /\ Rev(s, C) = Rev(s, Shown)
  BY OrdinaryValue
<1> DEFINE vis == Vis(s, C)
           rev == Rev(s, C)
           has == s \notin isNew
<1>2. s \in Sym /\ s \notin Choice /\ s \notin ChoiceValue /\ ~IsString(s)
  BY DEF Ordinary
<1>3. vis \in Tri /\ rev \in Tri /\ user[s].tri \in Tri /\ DefaultTri(s, d, C) \in Tri
  BY <1>2, EvalType DEF Vis, Rev, Valuation, SymbolValue, DefaultTri
<1>4. ~ChosenByChoice(s, vis)
  BY <1>2 DEF ChosenByChoice
<1>5. EOr(vis, rev) # no
  BY <1>1, <1>3 DEF EOr
<1>6. BaseTri(s, user[s], has, vis, rev, d, C) # no
  <2>1. CASE rev # no
    <3>1. \A t \in Tri : Limit(t, vis, rev) # no
      BY <1>3, <2>1 DEF Limit, EOr, EAnd
    <3> QED
      BY <1>3, <1>4, <1>5, <3>1 DEF BaseTri
  <2>2. CASE rev = no
    <3>1. vis # no /\ has /\ user[s].tri # no
      BY <1>1, <2>2
    <3>2. ~UsesDefault(s, has, vis, rev)
      BY <1>2, <1>5, <3>1 DEF UsesDefault
    <3>3. BaseTri(s, user[s], has, vis, rev, d, C) = Limit(user[s].tri, vis, rev)
      BY <1>4, <1>5, <3>1, <3>2 DEF BaseTri
    <3> QED
      BY <1>3, <3>1, <3>3 DEF Limit, EOr, EAnd
  <2> QED
    BY <2>1, <2>2
<1> HIDE DEF vis, rev, has
<1>7. BaseValue(s, user[s], has, vis, rev, d, C).tri # no
  BY <1>2, <1>6 DEF BaseValue, Promote
<1> QED
  BY <1>1, <1>7 DEF Base, vis, rev, has

\* a menu entry that is visible has a visible prompt or a symbol that is not n
LEMMA MenuVisible ==
  ASSUME TreeAssumption, NEW e \in Entry, NEW curr0, menu_is_visible(e, curr0)
  PROVE  PromptVisible(e, curr0) \/ CountsChildren(e, curr0)
<1> DEFINE Deep(K, x) == CountsChildren(x, curr0)
                           /\ \E c \in Listed(x) : PromptVisible(c, curr0) \/ c \in K
           Closed == {K \in SUBSET Entry : \A x \in K : Deep(K, x)}
           Kept == UNION Closed
           Rec(f) == f = [x \in Entry |->
             CountsChildren(x, curr0) /\ \E c \in Listed(x) : PromptVisible(c, curr0) \/ f[c]]
           g == [x \in Entry |-> x \in Kept]
           h == CHOOSE f : Rec(f)
<1>1. \A x \in Entry : Listed(x) \subseteq Entry
  BY DEF TreeAssumption, Listed
<1>2. \A x \in Kept : Deep(Kept, x)
  OBVIOUS
<1>3. ASSUME NEW x \in Entry, Deep(Kept, x) PROVE x \in Kept
  <2>1. \A y \in Kept \cup {x} : Deep(Kept \cup {x}, y)
    <3> HIDE DEF Kept
    <3> QED
      BY <1>2, <1>3
  <2>2. Kept \cup {x} \in SUBSET Entry
    OBVIOUS
  <2>3. Kept \cup {x} \in Closed
    <3> HIDE DEF Kept, Deep
    <3> QED
      BY <2>1, <2>2
  <2> HIDE DEF Closed
  <2> QED
    BY <2>3
<1>4. Rec(g)
  <2>1. ASSUME NEW x \in Entry
        PROVE  (x \in Kept) = (CountsChildren(x, curr0)
                                /\ \E c \in Listed(x) : PromptVisible(c, curr0) \/ g[c])
    <3>1. \A c \in Listed(x) : g[c] = (c \in Kept)
      BY <1>1
    <3>2. (\E c \in Listed(x) : PromptVisible(c, curr0) \/ g[c])
            <=> \E c \in Listed(x) : PromptVisible(c, curr0) \/ c \in Kept
      <4> HIDE DEF g, Kept
      <4> QED
        BY <3>1
    <3>3. x \in Kept <=> Deep(Kept, x)
      <4> HIDE DEF Kept, Deep
      <4> QED
        BY <1>2, <1>3
    <3> HIDE DEF g, Kept
    <3> QED
      BY <3>2, <3>3
  <2> HIDE DEF Kept
  <2> QED
    BY <2>1
<1>5. Rec(h)
  <2> HIDE DEF g
  <2> QED
    BY <1>4
<1>6. h[e] => CountsChildren(e, curr0)
  <2> HIDE DEF h
  <2>1. h[e] = (CountsChildren(e, curr0)
                /\ \E c \in Listed(e) : PromptVisible(c, curr0) \/ h[c])
    BY <1>5
  <2> QED
    BY <2>1
<1>7. PromptVisible(e, curr0) \/ h[e]
  BY DEF menu_is_visible
<1> HIDE DEF h
<1> QED
  BY <1>6, <1>7
\* the answer to a question about one of them
LEMMA YesAnswer ==
  ASSUME TreeAssumption, ChoicesSorted, DependenciesSorted, user \in Valuation,
         input_mode = "set_yes", NEW e \in Entry, SymOf[e] \in Ordinary,
         menu_is_visible(e, Shown), NEW v \in Replies(SymOf[e], Shown)
  PROVE  v # no
<1> DEFINE s == SymOf[e]
           vis == Visible(s, Shown)
           low == LowerLimit(s, Shown)
           bool == IsBoolean(s, vis, Shown)
           second == IF bool THEN yes ELSE mod
           range == {t \in Tri : sym_tristate_within_range(s, t, Shown)}
           wanted == <<yes, second, no>>
           hits == {i \in DOMAIN wanted : wanted[i] \in range}
           first == CHOOSE i \in hits : \A j \in hits : i <= j
<1>1. s \in Sym /\ s \notin Choice /\ s \notin ChoiceValue /\ ~IsString(s) /\ s # NoSym
  BY FileAssumption DEF Ordinary, FileAssumption
<1>2. Visibility(s, Shown) = Vis(s, Shown) /\ RevDep(s, Shown) = Rev(s, Shown)
      /\ Vis(s, Shown) \in Tri /\ Rev(s, Shown) \in Tri
  BY <1>1, EvalType DEF Visibility, Vis, RevDep, Rev
<1>3. bool = IsBoolean(s, Vis(s, Shown), Shown)
  BY <1>1 DEF IsBoolean
<1>4. /\ vis = Promote(bool, Vis(s, Shown)) /\ low = Promote(bool, Rev(s, Shown))
      /\ vis \in Tri /\ low \in Tri
  <2>1. vis = Promote(IsBoolean(s, Vis(s, Shown), Shown), Vis(s, Shown))
        /\ low = Promote(IsBoolean(s, Vis(s, Shown), Shown), Rev(s, Shown))
    BY <1>2 DEF Visible, LowerLimit
  <2> HIDE DEF vis, low, bool
  <2> QED
    BY <1>2, <1>3, <2>1 DEF Promote
<1>5. sym_is_changable(s, Shown) <=> vis > low
  BY DEF sym_is_changable
<1>6. CASE sym_is_changable(s, Shown)
  <2>1. \A t \in Tri : t \in range <=> /\ vis # no /\ ~(t = mod /\ bool)
                                       /\ low <= t /\ t <= vis
    BY <1>1, <1>6 DEF sym_tristate_within_range, ChosenByChoice
  <2>2. yes \in range \/ second \in range
    <3>1. CASE vis = yes
      <4> HIDE DEF vis, low, bool, range
      <4> QED
        BY <1>4, <2>1, <3>1
    <3>2. CASE vis = mod
      <4> HIDE DEF vis, low, bool, range
      <4>1. ~bool
        BY <1>4, <3>2 DEF Promote
      <4>2. low <= mod
        BY <1>4, <1>5, <1>6, <3>2
      <4> QED
        BY <1>4, <2>1, <3>2, <4>1, <4>2
    <3> HIDE DEF vis, low, bool, range
    <3> QED
      BY <1>4, <1>5, <1>6, <3>1, <3>2
  <2>3. 1 \in hits \/ 2 \in hits
    <3> HIDE DEF range, second
    <3> QED
      BY <2>2
  <2>4. first \in {1, 2}
    <3>1. hits \subseteq {1, 2, 3}
      BY DEF wanted
    <3> HIDE DEF hits
    <3>2. \E i \in hits : \A j \in hits : i <= j
      BY <2>3, <3>1
    <3>3. first \in hits /\ \A j \in hits : first <= j
      BY <3>2
    <3> HIDE DEF first
    <3> QED
      BY <2>3, <3>1, <3>3
  <2>5. wanted[first] # no
    <3>1. second # no
      OBVIOUS
    <3> HIDE DEF second, first
    <3> QED
      BY <2>4, <3>1
  <2>6. Automatic(s, Shown) = {wanted[first]}
    <3>1. hits # {}
      <4> HIDE DEF hits
      <4> QED
        BY <2>3
    <3> QED
      BY <3>1 DEF Automatic
  <2>7. Replies(s, Shown) = Automatic(s, Shown)
    BY <1>6 DEF Replies, AskModes
  <2> QED
    BY <2>5, <2>6, <2>7
<1>7. CASE ~sym_is_changable(s, Shown)
  <2>1. v = Shown[s].tri
    BY <1>7 DEF Replies
  <2>2. CASE CountsChildren(e, Shown)
    BY <2>1, <2>2 DEF CountsChildren
  <2>3. CASE PromptVisible(e, Shown)
    <3>1. Vis(s, Shown) # no
      BY <1>1, <1>2, <2>3 DEF PromptVisible, HasSym
    <3> HIDE DEF s, vis, low, bool
    <3>2. Rev(s, Shown) # no
      BY <1>2, <1>4, <1>5, <1>7, <3>1 DEF Promote
    <3>3. Shown[s].tri # no
      BY <3>2, MoreThanNo DEF s
    <3> QED
      BY <2>1, <3>3
  <2> QED
    BY <2>2, <2>3, MenuVisible
<1> QED
  BY <1>6, <1>7

\* Where the questions are: a question is next, once its entry is visible.
NoAsk(t) == \A i \in 1 .. Len(t) : t[i].fn # "ask"
AskedInTime(t) == \A i \in 1 .. Len(t) : t[i].fn = "ask" => i = 1 /\ menu_is_visible(t[i].entry, Shown)

LEMMA NoAskParts ==
  ASSUME NEW t \in Seq(Askable), t # << >>, AskedInTime(t), NEW calls \in Seq(Askable), NoAsk(calls)
  PROVE  NoAsk(calls \o Tail(t)) /\ NoAsk(Tail(t)) /\ Tail(t) \in Seq(Askable)
<1>1. Tail(t) \in Seq(Askable)
  BY EmptySeq, HeadTailProperties
<1>2. NoAsk(Tail(t))
  <2>1. \A i \in 1 .. Len(Tail(t)) : Tail(t)[i] = t[i + 1] /\ i + 1 \in 1 .. Len(t) /\ i + 1 # 1
    BY EmptySeq, HeadTailProperties
  <2> QED
    BY <2>1 DEF NoAsk, AskedInTime
<1>3. \A u \in Seq(Askable) : NoAsk(u) => NoAsk(calls \o u)
  <2> SUFFICES ASSUME NEW u \in Seq(Askable), NoAsk(u) PROVE NoAsk(calls \o u)
    OBVIOUS
  <2>1. \A i \in 1 .. Len(calls \o u) :
          (calls \o u)[i] = IF i <= Len(calls) THEN calls[i] ELSE u[i - Len(calls)]
    OBVIOUS
  <2>2. \A i \in 1 .. Len(calls \o u) : i <= Len(calls) => i \in 1 .. Len(calls)
    OBVIOUS
  <2>3. \A i \in 1 .. Len(calls \o u) : ~(i <= Len(calls)) => i - Len(calls) \in 1 .. Len(u)
    OBVIOUS
  <2> QED
    BY <2>1, <2>2, <2>3 DEF NoAsk
<1> QED
  BY <1>1, <1>2, <1>3

LEMMA NoAskTail ==
  ASSUME NEW t \in Seq(Askable), t # << >>, AskedInTime(t)
  PROVE  NoAsk(<< >> \o Tail(t))
<1>1. NoAsk(<< >>)
  BY DEF NoAsk
<1> QED
  BY <1>1, EmptyCalls, NoAskParts

LEMMA AskComesFirst ==
  ASSUME NEW k \in Askable, menu_is_visible(k.entry, Shown), NEW rest \in Seq(Askable), NoAsk(rest),
         NEW t \in Seq(Askable), NoAsk(t)
  PROVE  AskedInTime((<<k>> \o rest) \o t)
<1> DEFINE u == <<k>> \o rest
<1>1. u \in Seq(Askable) /\ Len(u) = Len(rest) + 1 /\ u[1] = k
      /\ \A i \in 2 .. Len(u) : u[i] = rest[i - 1]
  OBVIOUS
<1>2. \A i \in 2 .. Len(u) : u[i].fn # "ask"
  <2>1. \A i \in 2 .. Len(u) : i - 1 \in 1 .. Len(rest)
    BY <1>1
  <2> QED
    BY <1>1, <2>1 DEF NoAsk
<1> HIDE DEF u
<1>3. \A i \in 1 .. Len(u \o t) : (u \o t)[i] = IF i <= Len(u) THEN u[i] ELSE t[i - Len(u)]
  BY <1>1
<1>4. ASSUME NEW i \in 1 .. Len(u \o t), (u \o t)[i].fn = "ask"
      PROVE  i = 1 /\ (u \o t)[i] = k
  <2>1. CASE i <= Len(u)
    <3>1. i = 1
      <4>1. i # 1 => i \in 2 .. Len(u)
        BY <1>1, <2>1
      <4> QED
        BY <1>2, <1>3, <1>4, <2>1, <4>1
    <3> QED
      BY <1>1, <1>3, <2>1, <3>1
  <2>2. CASE ~(i <= Len(u))
    <3>1. i - Len(u) \in 1 .. Len(t)
      BY <1>1, <2>2
    <3> QED
      BY <1>3, <1>4, <2>2, <3>1 DEF NoAsk
  <2> QED
    BY <2>1, <2>2
<1> QED
  BY <1>4 DEF AskedInTime, u

LEMMA NoAskCalls ==
  ASSUME TreeAssumption, NEW e \in Entry, NEW fn \in {"conf", "check"}
  PROVE  Calls(fn, List[e]) \in Seq(Askable) /\ NoAsk(Calls(fn, List[e]))
<1>1. List[e] \in Seq(Entry)
  BY DEF TreeAssumption
<1>2. NoAsk(Calls(fn, List[e]))
  BY <1>1 DEF NoAsk, Calls, Call, Frame
<1> QED
  BY <1>2, AskableCalls

LEMMA NoAskIsInTime ==
  ASSUME NEW t, NoAsk(t)
  PROVE  AskedInTime(t)
BY DEF NoAsk, AskedInTime

LEMMA ConfAsks ==
  ASSUME TreeAssumption, todo \in Seq(Askable), AskedInTime(todo), NEW e \in Entry, conf(e)
  PROVE  AskedInTime(todo')
<1> DEFINE s == SymOf[e]
           ask == <<Call("ask", e)>>
           below == Calls("conf", List[e])
           choice == <<Frame("choice", e, s \in isNew)>>
           check == <<Call("check", e)>>
<1>1. todo # << >>
  BY DEF conf, Top
<1>2. \/ todo' = << >> \o Tail(todo) \/ todo' = check \o Tail(todo)
      \/ s \in Choice /\ todo' = (<< >> \o choice) \o Tail(todo)
      \/ todo' = (<< >> \o below) \o Tail(todo)
      \/ /\ menu_is_visible(e, Shown) /\ s # NoSym
         /\ \/ s \in Choice /\ todo' = (ask \o choice) \o Tail(todo)
            \/ todo' = (ask \o below) \o Tail(todo)
  <2>1. s \in Choice => s # NoSym
    BY FileAssumption DEF FileAssumption
  <2> QED
    BY <2>1 DEF conf, Goes, Returns
<1>3. e \in Place
  BY DEF Place
<1>4. s # NoSym => Call("ask", e) \in Askable /\ Call("ask", e).entry = e
  BY <1>3 DEF Call, Frame, Askable, Fns, HasSym
<1>5. s \in Choice => choice \in Seq(Askable) /\ NoAsk(choice)
  <2> SUFFICES ASSUME s \in Choice PROVE choice \in Seq(Askable) /\ NoAsk(choice)
    OBVIOUS
  <2>1. Frame("choice", e, s \in isNew) \in Askable
    BY <1>3 DEF Frame, Askable, Fns, IsChoiceEntry
  <2> QED
    BY <2>1 DEF NoAsk, Frame
<1>6. below \in Seq(Askable) /\ NoAsk(below)
  BY NoAskCalls
<1>7. check \in Seq(Askable) /\ NoAsk(check) /\ << >> \in Seq(Askable) /\ NoAsk(<< >>)
  BY <1>3, AskableCall, EmptyCalls DEF NoAsk, Call, Frame
<1>8. NoAsk(Tail(todo)) /\ Tail(todo) \in Seq(Askable)
  BY <1>1, <1>7, NoAskParts
<1> HIDE DEF ask, below, choice, check, s
<1>9. \A calls \in Seq(Askable) : NoAsk(calls) => AskedInTime(calls \o Tail(todo))
  BY <1>1, NoAskParts, NoAskIsInTime
<1>10. << >> \o below = below /\ (s \in Choice => << >> \o choice = choice)
  BY <1>5, <1>6
<1>11. ASSUME menu_is_visible(e, Shown), s # NoSym, NEW rest \in Seq(Askable), NoAsk(rest)
       PROVE  AskedInTime((ask \o rest) \o Tail(todo))
  BY <1>4, <1>8, <1>11, AskComesFirst DEF ask
<1> QED
  BY <1>2, <1>5, <1>6, <1>7, <1>9, <1>10, <1>11

-----------------------------------------------------------------------------
(* The settings are of their types and the questions in time, in any mode. *)
Held ==
  /\ input_mode \in InputModes
  /\ user \in Valuation /\ isNew \subseteq Sym /\ MemberAnswers(user)
  /\ AskedInTime(todo)

LEMMA HeldInit == TreeAssumption /\ LoadedAnswers /\ Init => Held
<1> SUFFICES ASSUME TreeAssumption, LoadedAnswers, Init PROVE Held
  OBVIOUS
<1>1. ValuesInit => user \in Valuation /\ isNew \subseteq Sym /\ MemberAnswers(user)
  BY DEF ValuesInit, LoadedAnswers, Valuation, MemberAnswers
<1>2. ASSUME user = Fresh.user, isNew = Fresh.isNew
      PROVE  user \in Valuation /\ isNew \subseteq Sym /\ MemberAnswers(user)
  <2>1. user = [s \in Sym |-> Unset] /\ isNew = Sym
    BY <1>2 DEF Fresh, Unset
  <2>2. Unset \in SymbolValue /\ Unset.val \notin Sym
    BY FileAssumption DEF Unset, SymbolValue, Val, FileAssumption
  <2> QED
    BY <2>1, <2>2, FileAssumption DEF Valuation, MemberAnswers, FileAssumption
<1>3. user \in Valuation /\ isNew \subseteq Sym /\ MemberAnswers(user)
  BY <1>1, <1>2 DEF Init
<1>4. todo = <<Call("conf", Root)>> \/ todo = <<Call("check", Root)>>
  BY DEF Init
<1>5. AskedInTime(todo)
  BY <1>4 DEF AskedInTime, Call, Frame
<1>6. input_mode \in InputModes
  BY ModesAssumption DEF Init, ModesAssumption
<1> QED
  BY <1>3, <1>5, <1>6 DEF Held

LEMMA AutomaticType ==
  ASSUME input_mode \in {"set_yes", "set_mod", "set_no", "set_random"}, NEW s
  PROVE  Automatic(s, Shown) \subseteq Tri
<1> DEFINE range == {t \in Tri : sym_tristate_within_range(s, t, Shown)}
           second == IF IsBoolean(s, Visible(s, Shown), Shown) THEN yes ELSE mod
           wanted == CASE input_mode = "set_yes"    -> <<yes, second, no>>
                       [] input_mode = "set_mod"    -> <<second, no>>
                       [] input_mode = "set_no"     -> <<no>>
                       [] input_mode = "set_random" -> << >>
           hits == {i \in DOMAIN wanted : wanted[i] \in range}
           first == CHOOSE i \in hits : \A j \in hits : i <= j
<1>1. DOMAIN wanted \subseteq {1, 2, 3}
  <2> HIDE DEF second
  <2> QED
    OBVIOUS
<1>2. hits \subseteq {1, 2, 3} /\ \A i \in hits : wanted[i] \in range
  <2> HIDE DEF wanted, range
  <2> QED
    BY <1>1
<1>3. hits # {} => first \in hits
  <2> SUFFICES ASSUME hits # {} PROVE first \in hits
    OBVIOUS
  <2> HIDE DEF hits
  <2>1. \E i \in hits : \A j \in hits : i <= j
    BY <1>2
  <2> QED
    BY <2>1
<1>4. hits # {} => wanted[first] \in range
  <2> HIDE DEF hits, wanted, range, first
  <2> QED
    BY <1>2, <1>3
<1>5. Automatic(s, Shown) = IF hits = {} THEN range ELSE {wanted[first]}
  BY DEF Automatic
<1>6. range \subseteq Tri
  OBVIOUS
<1> HIDE DEF hits, wanted, range, first
<1> QED
  BY <1>4, <1>5, <1>6

\* what conf_sym does: an entry that is visible gets an answer that is accepted
LEMMA AskedSym ==
  ASSUME TreeAssumption, ChoicesSorted, AnswersRight, Held, NEW e \in Entry, conf_sym(e)
  PROVE  /\ SymOf[e] \in Sym /\ ~IsString(SymOf[e]) /\ menu_is_visible(e, Shown)
         /\ \E v \in Tri : /\ v \in Replies(SymOf[e], Shown) /\ Accepts(SymOf[e], v, Shown)
                           /\ Becomes(SetTri(Settings, SymOf[e], v))
<1> DEFINE s == SymOf[e]
<1>1. /\ todo # << >> /\ Head(todo) = todo[1] /\ todo[1].fn = "ask" /\ todo[1].entry = e
      /\ Len(todo) \in Nat \ {0} /\ todo \in Seq(Askable)
  BY HeadTailProperties, EmptySeq DEF conf_sym, Top, AnswersRight
<1>2. s \in Sym /\ ~IsString(s)
  BY <1>1, TopIs DEF conf_sym
<1>3. menu_is_visible(e, Shown)
  BY <1>1 DEF Held, AskedInTime
<1>4. PICK v \in Replies(s, Shown) : Accepts(s, v, Shown) /\ Becomes(SetTri(Settings, s, v))
  BY DEF conf_sym
<1>5. v \in Tri
  <2>1. Shown[s].tri \in Tri
    BY <1>2, ShownType DEF Held, SymbolValue
  <2>2. CASE input_mode \in {"set_yes", "set_mod", "set_no", "set_random"}
    BY <1>4, <2>1, <2>2, AutomaticType DEF Replies, AskModes
  <2>3. CASE input_mode \in AskModes \cup {"set_default"}
    BY <1>4, <2>1, <2>3 DEF Replies, AskModes
  <2> QED
    BY <2>2, <2>3 DEF Held, InputModes
<1> QED
  BY <1>2, <1>3, <1>4, <1>5

\* and conf_string: a visible string gets a text that is allowed, or stays
LEMMA AskedString ==
  ASSUME TreeAssumption, AnswersRight, Held, NEW e \in Entry, conf_string(e)
  PROVE  /\ SymOf[e] \in Sym /\ IsString(SymOf[e]) /\ menu_is_visible(e, Shown)
         /\ \/ UNCHANGED <<config, todo>>
            \/ /\ todo # << >> /\ todo' = << >> \o Tail(todo)
               /\ \E str : /\ AcceptsString(SymOf[e], str)
                           /\ Becomes(SetString(Settings, SymOf[e], str))
<1> DEFINE s == SymOf[e]
<1>1. /\ todo # << >> /\ Head(todo) = todo[1] /\ todo[1].fn = "ask" /\ todo[1].entry = e
      /\ Len(todo) \in Nat \ {0} /\ todo \in Seq(Askable)
  BY HeadTailProperties, EmptySeq DEF conf_string, Top, AnswersRight
<1>2. s \in Sym /\ IsString(s)
  BY <1>1, TopIs DEF conf_string
<1>3. menu_is_visible(e, Shown)
  BY <1>1 DEF Held, AskedInTime
<1>4. PICK str : IF AcceptsString(s, str) THEN Becomes(SetString(Settings, s, str)) /\ Returns
                 ELSE UNCHANGED <<config, todo>>
  BY DEF conf_string
<1> QED
  BY <1>1, <1>2, <1>3, <1>4 DEF Returns, Goes

\* and conf_choice: a member that is visible is taken if that is accepted
LEMMA AskedChoice ==
  ASSUME TreeAssumption, AnswersRight, NEW e \in Entry, conf_choice(e)
  PROVE  /\ SymOf[e] \in Choice
         /\ \/ UNCHANGED config
            \/ \E m \in Entry : /\ SymOf[m] \in MembersOf(SymOf[e]) /\ menu_is_visible(m, Shown)
                                /\ Accepts(SymOf[m], yes, Shown)
                                /\ Becomes(SetTri(Settings, SymOf[m], yes))
<1> DEFINE c == SymOf[e]
<1>1. todo # << >> /\ Head(todo).fn = "choice" /\ Head(todo).entry = e
  BY DEF conf_choice, Top
<1>2. c \in Choice
  BY <1>1, TopIs
<1>3. ASSUME NEW m \in Offered(e, Shown)
      PROVE  SymOf[m] \in MembersOf(c) /\ m \in Entry /\ menu_is_visible(m, Shown)
  <2>1. {SymOf[k] : k \in {j \in Listed(e) : HasSym(j)}} = MembersOf(c)
    BY <1>2 DEF TreeAssumption
  <2>2. m \in Listed(e) /\ HasSym(m) /\ menu_is_visible(m, Shown)
    BY <1>3 DEF Offered
  <2>3. List[e] \in Seq(Entry)
    BY DEF TreeAssumption
  <2> QED
    BY <2>1, <2>2, <2>3 DEF Listed
<1>4. Answers(e, Head(todo).new) \subseteq Offered(e, Shown)
  BY DEF Answers
<1>5. CASE ~UNCHANGED config
  <2>1. PICK m \in Answers(e, Head(todo).new) :
          Accepts(SymOf[m], yes, Shown) /\ Becomes(SetTri(Settings, SymOf[m], yes))
    BY <1>5 DEF conf_choice
  <2> QED
    BY <1>2, <1>3, <1>4, <2>1
<1> QED
  BY <1>2, <1>5

LEMMA ChoiceCalls ==
  ASSUME TreeAssumption, AnswersRight, AskedInTime(todo), NEW e \in Entry, conf_choice(e)
  PROVE  NoAsk(todo') \/ UNCHANGED <<config, todo>>
<1>1. todo # << >> /\ todo \in Seq(Askable)
  BY DEF conf_choice, Top, AnswersRight
<1>2. Offered(e, Shown) \subseteq Entry
  BY DEF Offered, Listed, TreeAssumption
<1>3. \A m \in Entry : FirstBelow(m) \in Seq(Askable) /\ NoAsk(FirstBelow(m))
  <2> SUFFICES ASSUME NEW m \in Entry
               PROVE  FirstBelow(m) \in Seq(Askable) /\ NoAsk(FirstBelow(m))
    OBVIOUS
  <2>1. CASE List[m] = << >>
    BY <2>1, EmptyCalls DEF FirstBelow, NoAsk
  <2>2. CASE List[m] # << >>
    <3>1. Head(List[m]) \in Place
      BY <2>2, EmptySeq DEF Place, TreeAssumption
    <3>2. <<Call("conf", Head(List[m]))>> \in Seq(Askable)
      BY <3>1, AskableCall
    <3>3. NoAsk(<<Call("conf", Head(List[m]))>>)
      BY DEF NoAsk, Call, Frame
    <3> QED
      BY <2>2, <3>2, <3>3 DEF FirstBelow
  <2> QED
    BY <2>1, <2>2
<1>4. \/ todo' = << >> \o Tail(todo)
      \/ todo' = Calls("conf", List[e]) \o Tail(todo)
      \/ \E m \in Answers(e, Head(todo).new) : todo' = FirstBelow(m) \o Tail(todo)
      \/ UNCHANGED <<config, todo>>
  BY DEF conf_choice, Returns, Goes
<1>5. NoAsk(<< >> \o Tail(todo))
  BY <1>1, NoAskTail
<1>6. NoAsk(Calls("conf", List[e]) \o Tail(todo))
  BY <1>1, NoAskCalls, NoAskParts
<1>7. \A m \in Answers(e, Head(todo).new) : NoAsk(FirstBelow(m) \o Tail(todo))
  BY <1>1, <1>2, <1>3, NoAskParts DEF Answers
<1> QED
  BY <1>4, <1>5, <1>6, <1>7

LEMMA CheckCalls ==
  ASSUME TreeAssumption, AnswersRight, AskedInTime(todo), NEW e \in Entry,
         check_conf(e) \/ check_children(e)
  PROVE  NoAsk(todo')
<1> DEFINE p == menu_get_parent_menu(e)
           both == <<Call("conf", p), Call("children", e)>>
           down == <<Call("children", e)>>
<1>1. todo # << >> /\ todo \in Seq(Askable)
  BY DEF check_conf, check_children, Top, AnswersRight
<1>2. \/ todo' = << >> \o Tail(todo) \/ todo' = both \o Tail(todo) \/ todo' = down \o Tail(todo)
      \/ todo' = Calls("check", List[e]) \o Tail(todo)
  BY DEF check_conf, check_children, Returns, Goes
<1>3. both \in Seq(Askable) /\ NoAsk(both) /\ down \in Seq(Askable) /\ NoAsk(down)
  <2>1. p \in Place /\ e \in Place
    BY DEF Place
  <2>2. Call("conf", p) \in Askable /\ Call("children", e) \in Askable
    BY <2>1, AskableCall
  <2>3. both \in Seq(Askable) /\ down \in Seq(Askable)
    BY <2>2
  <2>4. NoAsk(both) /\ NoAsk(down)
    BY DEF NoAsk, Call, Frame
  <2> QED
    BY <2>3, <2>4
<1> HIDE DEF both, down
<1> QED
  BY <1>1, <1>2, <1>3, NoAskTail, NoAskCalls, NoAskParts

LEMMA HeldStep ==
  TreeAssumption /\ ChoicesSorted /\ AnswersRight /\ Held /\ [Next]_vars => Held'
<1> SUFFICES ASSUME TreeAssumption, ChoicesSorted, AnswersRight, Held, [Next]_vars
             PROVE  Held'
  OBVIOUS
<1> DEFINE Right == user \in Valuation /\ isNew \subseteq Sym /\ MemberAnswers(user)
<1>1. input_mode' \in InputModes
  <2>1. input_mode' = input_mode \/ input_mode' = "ask_silent"
    BY DEF Next, Steps, Walk, conf, conf_sym, conf_string, conf_choice, check_conf,
           check_children, Keeps, asked, checked, Aborts, Exited, InputEnds, vars
  <2> QED
    BY <2>1 DEF Held, InputModes, AskModes
<1>2. Right /\ todo \in Seq(Askable) /\ AskedInTime(todo)
  BY DEF Held, AnswersRight
<1>3. UNCHANGED config => Right'
  BY <1>2 DEF config, MemberAnswers
<1>4. ASSUME UNCHANGED config, AskedInTime(todo')
      PROVE  Held'
  BY <1>1, <1>3, <1>4 DEF Held, config, AskedInTime, Shown
<1>5. ASSUME Right', NoAsk(todo')
      PROVE  Held'
  <2>1. AskedInTime(todo)'
    BY <1>5 DEF NoAsk, AskedInTime
  <2> QED
    BY <1>1, <1>5, <2>1 DEF Held
<1>6. ASSUME NEW e \in Entry, conf(e) PROVE Held'
  <2>1. UNCHANGED config
    BY <1>6 DEF conf
  <2> QED
    BY <1>2, <1>4, <1>6, <2>1, ConfAsks
<1>7. ASSUME NEW e \in Entry, conf_sym(e) PROVE Held'
  <2>1. Right'
    BY <1>2, <1>7, AskedSym, TriKeeps
  <2>2. todo # << >> /\ todo' = << >> \o Tail(todo)
    BY <1>7 DEF conf_sym, Top, Returns, Goes
  <2> QED
    BY <1>2, <1>5, <2>1, <2>2, NoAskTail
<1>8. ASSUME NEW e \in Entry, conf_string(e) PROVE Held'
  <2>1. CASE UNCHANGED <<config, todo>>
    BY <1>2, <1>4, <2>1
  <2>2. CASE ~UNCHANGED <<config, todo>>
    <3>1. todo # << >> /\ todo' = << >> \o Tail(todo)
      BY <1>8, <2>2, AskedString
    <3>2. Right'
      BY <1>2, <1>8, <2>2, AskedString, StringKeeps
    <3> QED
      BY <1>2, <1>5, <3>1, <3>2, NoAskTail
  <2> QED
    BY <2>1, <2>2
<1>9. ASSUME NEW e \in Entry, conf_choice(e) PROVE Held'
  <2>1. Right'
    <3>1. CASE UNCHANGED config
      BY <1>3, <3>1
    <3>2. CASE ~UNCHANGED config
      <4>1. PICK m \in Entry : /\ SymOf[e] \in Choice /\ SymOf[m] \in MembersOf(SymOf[e])
                               /\ Becomes(SetTri(Settings, SymOf[m], yes))
        BY <1>9, <3>2, AskedChoice
      <4>2. SymOf[m] \in Sym
        BY <4>1, MemberType
      <4> QED
        BY <1>2, <4>1, <4>2, TriKeeps
    <3> QED
      BY <3>1, <3>2
  <2>2. NoAsk(todo') \/ UNCHANGED <<config, todo>>
    BY <1>2, <1>9, ChoiceCalls
  <2> QED
    BY <1>2, <1>4, <1>5, <2>1, <2>2
<1>10. ASSUME NEW e \in Entry, check_conf(e) \/ check_children(e) PROVE Held'
  <2>1. UNCHANGED config /\ NoAsk(todo')
    BY <1>2, <1>10, CheckCalls DEF check_conf, check_children
  <2> QED
    BY <1>4, <2>1, NoAskIsInTime
<1>11. CASE asked \/ checked
  <2>1. UNCHANGED config /\ (todo' = todo \/ todo' = <<Call("check", Root)>>)
    BY <1>11 DEF asked, checked
  <2>2. AskedInTime(<<Call("check", Root)>>)
    BY DEF AskedInTime, Call, Frame
  <2> QED
    BY <1>2, <1>4, <2>1, <2>2
<1>12. CASE Aborts \/ Exited \/ InputEnds \/ UNCHANGED vars
  <2>1. UNCHANGED <<config, todo>>
    BY <1>12 DEF Aborts, Exited, InputEnds, vars
  <2> QED
    BY <1>2, <1>4, <2>1
<1> QED
  BY <1>6, <1>7, <1>8, <1>9, <1>10, <1>11, <1>12 DEF Next, Steps, Walk

-----------------------------------------------------------------------------
(* Every step of allyesconfig keeps every answer above n.                  *)
AnsweredYes ==
  input_mode = "set_yes" => \A s \in Ordinary \ isNew : user[s].tri # no

LEMMA YesInit == Init => AnsweredYes
<1> SUFFICES ASSUME Init, input_mode = "set_yes" PROVE Ordinary \ isNew = {}
  BY DEF AnsweredYes
<1>1. isNew = Sym
  BY DEF Init, AskModes, Fresh
<1> QED
  BY <1>1 DEF Ordinary

LEMMA YesSym ==
  ASSUME TreeAssumption, ChoicesSorted, DependenciesSorted, AnswersRight, Held, AnsweredYes,
         input_mode = "set_yes", NEW e \in Entry, conf_sym(e), NEW t \in Ordinary \ isNew'
  PROVE  user'[t].tri # no
<1> DEFINE s == SymOf[e]
<1>1. PICK v \in Tri : v \in Replies(s, Shown) /\ Becomes(SetTri(Settings, s, v))
  BY AskedSym
<1>2. s \in Sym /\ menu_is_visible(e, Shown)
  BY AskedSym
<1>3. s \in Ordinary => v # no
  BY <1>1, <1>2, YesAnswer DEF Held
<1> DEFINE picked == IF s \in ChoiceValue /\ v = yes THEN {ChoiceOf(s)} ELSE {}
<1>4. /\ \A x \in Sym : user'[x] = IF x \in picked THEN [user[x] EXCEPT !.val = s]
                                   ELSE IF x = s THEN [user[x] EXCEPT !.tri = v] ELSE user[x]
      /\ isNew' = isNew \ ({s} \cup picked)
  BY <1>1, <1>2, SettingsOf DEF Becomes, Settings, Held
<1>5. picked \subseteq Choice
  BY ChoiceOfType
<1>6. t \in Sym /\ t \notin picked
  BY <1>5 DEF Ordinary
<1> HIDE DEF picked
<1>7. CASE t = s
  <2>1. user'[t] = [user[t] EXCEPT !.tri = v] /\ user[t] \in SymbolValue
    BY <1>4, <1>6, <1>7 DEF Held, Valuation
  <2> QED
    BY <1>3, <1>7, <2>1 DEF SymbolValue
<1>8. CASE t # s
  <2>1. user'[t] = user[t] /\ t \notin isNew
    BY <1>4, <1>6, <1>8
  <2> QED
    BY <2>1 DEF AnsweredYes
<1> QED
  BY <1>7, <1>8

LEMMA YesString ==
  ASSUME TreeAssumption, AnswersRight, Held, AnsweredYes, input_mode = "set_yes",
         NEW e \in Entry, conf_string(e), NEW t \in Ordinary \ isNew'
  PROVE  user'[t].tri # no
<1> DEFINE s == SymOf[e]
<1>1. CASE UNCHANGED config
  BY <1>1 DEF AnsweredYes, config
<1>2. CASE ~UNCHANGED config
  <2>1. PICK str : Becomes(SetString(Settings, s, str))
    BY <1>2, AskedString
  <2>2. user' = [user EXCEPT ![s].val = str] /\ isNew' = isNew \ {s}
    BY <2>1 DEF Becomes, SetString, Settings
  <2>3. t # s /\ t \in Sym
    BY AskedString DEF Ordinary
  <2>4. user'[t] = user[t] /\ t \notin isNew
    BY <2>2, <2>3 DEF Held, Valuation
  <2> QED
    BY <2>4 DEF AnsweredYes
<1> QED
  BY <1>1, <1>2

LEMMA YesChoice ==
  ASSUME TreeAssumption, AnswersRight, Held, AnsweredYes, input_mode = "set_yes",
         NEW e \in Entry, conf_choice(e), NEW t \in Ordinary \ isNew'
  PROVE  user'[t].tri # no
<1> DEFINE c == SymOf[e]
<1>1. CASE UNCHANGED config
  BY <1>1 DEF AnsweredYes, config
<1>2. CASE ~UNCHANGED config
  <2>1. PICK w \in MembersOf(c) : c \in Choice /\ Becomes(SetTri(Settings, w, yes))
    BY <1>2, AskedChoice
  <2>2. w \in Sym /\ w \in ChoiceValue /\ ChoiceOf(w) = c /\ c \in Sym
    BY <2>1, MemberType
  <2>3. /\ \A x \in Sym : user'[x] = IF x \in {c} THEN [user[x] EXCEPT !.val = w]
                                     ELSE IF x = w THEN [user[x] EXCEPT !.tri = yes] ELSE user[x]
        /\ isNew' = isNew \ {w, c}
    BY <2>1, <2>2, SettingsOf DEF Becomes, Settings, Held
  <2>4. t # w /\ t # c /\ t \in Sym
    BY <2>1, <2>2 DEF Ordinary
  <2>5. user'[t] = user[t] /\ t \notin isNew
    BY <2>3, <2>4
  <2> QED
    BY <2>5 DEF AnsweredYes
<1> QED
  BY <1>1, <1>2

LEMMA YesStep ==
  TreeAssumption /\ ChoicesSorted /\ DependenciesSorted /\ AnswersRight /\ Held /\ AnsweredYes
  /\ [Next]_vars => AnsweredYes'
<1> SUFFICES ASSUME TreeAssumption, ChoicesSorted, DependenciesSorted, AnswersRight, Held,
                    AnsweredYes, [Next]_vars, input_mode' = "set_yes", NEW t \in Ordinary \ isNew'
             PROVE  user'[t].tri # no
  BY DEF AnsweredYes
<1>1. input_mode = "set_yes"
  BY DEF Next, Steps, Walk, conf, conf_sym, conf_string, conf_choice, check_conf, check_children,
         Keeps, asked, checked, Aborts, Exited, InputEnds, vars
<1>2. CASE UNCHANGED config
  BY <1>1, <1>2 DEF AnsweredYes, config
<1>3. CASE ~UNCHANGED config
  <2>1. PICK e \in Entry : conf_sym(e) \/ conf_string(e) \/ conf_choice(e)
    BY <1>3 DEF Next, Steps, Walk, conf, check_conf, check_children, asked, checked, Aborts,
                Exited, InputEnds, vars
  <2> QED
    BY <1>1, <2>1, YesSym, YesString, YesChoice
<1> QED
  BY <1>2, <1>3

-----------------------------------------------------------------------------
(* At the end: what can be set is neither a choice nor a member of one.    *)
LEMMA RequiredAtLeastMod ==
  ASSUME RequiredChoices, NEW c \in Choice, NEW C, Vis(c, C) # no
  PROVE  Rev(c, C) # no
<1>1. c \notin ChoiceValue /\ c \in Choice \ Optional
  BY TypesAssumption DEF TypesAssumption, RequiredChoices
<1>2. VisExpr(c) = Prompt[c]
  BY <1>1 DEF VisExpr
<1>3. PICK cl \in Prompt[c] : MinTri({LitValue(l, C) : l \in cl}) # no
  <2>1. SUFFICES ASSUME \A cl \in Prompt[c] : MinTri({LitValue(l, C) : l \in cl}) = no PROVE FALSE
    OBVIOUS
  <2>2. \A t \in {MinTri({LitValue(l, C) : l \in cl}) : cl \in Prompt[c]} : t = no
    BY <2>1
  <2> QED
    BY <1>2, <2>2 DEF Vis, EvalExpr, MaxTri
<1>4. \A l \in cl : LitValue(l, C) # no
  BY <1>3 DEF MinTri
<1>5. LitValue(Const(mod), C) # no
  BY DEF LitValue, Const
<1> DEFINE both == cl \cup {Const(mod)}
<1>6. MinTri({LitValue(l, C) : l \in both}) \in {mod, yes}
  BY <1>4, <1>5 DEF MinTri
<1>7. both \in RevDepExpr(c)
  <2>1. both \in AndLit(Prompt[c], Const(mod))
    BY <1>3 DEF AndLit
  <2>2. AndLit(Prompt[c], Const(mod)) \subseteq RevDepExpr(c)
    BY <1>1 DEF RevDepExpr
  <2> QED
    BY <2>1, <2>2
<1> HIDE DEF both
<1>8. EvalExpr(RevDepExpr(c), C) # no
  <2> DEFINE T == {MinTri({LitValue(l, C) : l \in k}) : k \in RevDepExpr(c)}
             t == MinTri({LitValue(l, C) : l \in both})
  <2>1. t \in T /\ EvalExpr(RevDepExpr(c), C) = MaxTri(T)
    BY <1>7 DEF EvalExpr
  <2> HIDE DEF t, T
  <2>2. t \in {mod, yes}
    BY <1>6 DEF t
  <2> QED
    BY <2>1, <2>2 DEF MaxTri
<1> QED
  BY <1>1, <1>8 DEF Rev

LEMMA ChoiceNotSettable ==
  ASSUME PlainChoices, RequiredChoices, NEW c \in Choice, NEW C
  PROVE  ~sym_is_changable(c, C)
<1>1. c \notin ChoiceValue /\ Type[c] = "boolean"
  BY TypesAssumption DEF TypesAssumption, PlainChoices
<1>2. Visible(c, C) = Promote(TRUE, Vis(c, C)) /\ LowerLimit(c, C) = Promote(TRUE, Rev(c, C))
  BY <1>1 DEF Visible, LowerLimit, IsBoolean, Visibility, RevDep, Vis, Rev
<1>3. Vis(c, C) \in Tri /\ Rev(c, C) \in Tri
  BY EvalType DEF Vis, Rev
<1>4. Vis(c, C) # no => Rev(c, C) # no
  BY RequiredAtLeastMod
<1> QED
  BY <1>2, <1>3, <1>4 DEF sym_is_changable, Promote

LEMMA MembersNotWalked ==
  ASSUME TreeAssumption, MembersBelowChoice, PlainChoices, ChoicesSorted, user \in Valuation,
         NEW e \in Walked(Shown)
  PROVE  e \in Entry /\ SymOf[e] \notin ChoiceValue
<1> DEFINE S == {x \in Entry : SymOf[x] \notin ChoiceValue}
<1>1. Root \in S
  BY DEF TreeAssumption, MembersBelowChoice
<1>2. ASSUME NEW c \in Choice PROVE Shown[c].tri # mod
  <2>1. PICK f : Calculation(f, Len(Order), user, isNew) /\ Shown = f[Len(Order)]
    BY ValuesAre DEF Shown
  <2>2. Calculated(f, user, isNew) /\ Shown = Final(f)
    BY <2>1 DEF Calculated, Final
  <2>3. c \in Sym /\ Type[c] = "boolean"
    BY FileAssumption DEF FileAssumption, PlainChoices
  <2>4. PICK i \in 1 .. Len(Order) : Order[i] = c
    BY <2>3 DEF ChoicesSorted
  <2>5. NeverModNow(Shown)
    BY <2>2, CalculatedIs
  <2> QED
    BY <2>3, <2>5 DEF NeverModNow
<1>3. ASSUME NEW x \in S, NEW m \in Inner(x, Shown) PROVE m \in S
  <2>1. m \in Listed(x) /\ ~IsChoiceEntry(x)
    BY <1>2 DEF Inner, IsChoiceEntry
  <2>2. m \in Entry
    BY <2>1 DEF TreeAssumption, Listed
  <2> QED
    BY <2>1, <2>2 DEF MembersBelowChoice
<1> HIDE DEF S
<1>4. Walked(Shown) \subseteq S
  BY <1>1, <1>3, WalkedWithin
<1> QED
  BY <1>4 DEF S

LEMMA YesAtTheEnd ==
  TreeAssumption /\ MembersBelowChoice /\ PlainChoices /\ RequiredChoices /\ ChoicesSorted
  /\ DependenciesSorted /\ EverythingAsked /\ Held /\ AnsweredYes => YesToAll
<1> SUFFICES ASSUME TreeAssumption, MembersBelowChoice, PlainChoices, RequiredChoices,
                    ChoicesSorted, DependenciesSorted, EverythingAsked, Held, AnsweredYes,
                    phase = "done", input_mode = "set_yes",
                    NEW s \in Settable(Shown), ~IsString(s)
             PROVE  Shown[s].tri # no
  BY DEF YesToAll
<1>1. \A x \in Ordinary \ isNew : user[x].tri # no
  BY DEF AnsweredYes
<1>2. user \in Valuation
  BY DEF Held
<1>3. PICK e \in Walked(Shown) : SymOf[e] = s /\ s # NoSym /\ sym_is_changable(s, Shown)
  BY DEF Settable
<1>4. e \in Entry /\ s \notin ChoiceValue
  BY <1>2, <1>3, MembersNotWalked
<1>5. s \notin Choice
  BY <1>3, ChoiceNotSettable
<1>6. s \in Sym
  BY <1>3, <1>4 DEF TreeAssumption
<1>7. s \in Ordinary
  BY <1>4, <1>5, <1>6 DEF Ordinary
<1>8. s \notin isNew
  BY DEF EverythingAsked
<1>9. user[s].tri # no
  BY <1>1, <1>7, <1>8
<1>10. Vis(s, Shown) # no
  <2>1. Visible(s, Shown) > LowerLimit(s, Shown)
    BY <1>3 DEF sym_is_changable
  <2>2. Vis(s, Shown) \in Tri /\ RevDep(s, Shown) \in Tri /\ Visibility(s, Shown) = Vis(s, Shown)
    BY EvalType DEF Vis, RevDep, Visibility
  <2> QED
    BY <2>1, <2>2 DEF Visible, LowerLimit, Promote
<1> QED
  BY <1>2, <1>7, <1>8, <1>9, <1>10, MoreThanNo

(* conf.c:119-127, 331-397, 574: whatever the menus are like, allyesconfig *)
(* leaves nothing at n that could be more, also of what became visible, or *)
(* lost the value it was given by others, after the walk had passed it.    *)
THEOREM YesReachesAll ==
  ASSUME TreeAssumption, MembersBelowChoice, PlainChoices, RequiredChoices,
         ChoicesSorted, DependenciesSorted, LoadedAnswers
  PROVE  Spec => []YesToAll
<1> DEFINE Inv == AnswersRight /\ NothingNew /\ Held /\ AnsweredYes
<1>1. Init => Inv
  BY RightInit, NewsInit, HeldInit, YesInit
<1>2. Inv /\ [Next]_vars => Inv'
  BY RightStep, NewsStep, HeldStep, YesStep
<1>3. Inv => YesToAll
  BY YesAtTheEnd DEF NothingNew
<1> HIDE DEF Inv
<1> QED
  BY <1>1, <1>2, <1>3, PTL DEF Spec

-----------------------------------------------------------------------------
(* conf implements KValues: every change is a request for what is shown.   *)
LEMMA ShownEnough ==
  ASSUME TreeAssumption, NEW e \in Entry, SymOf[e] \in Sym, menu_is_visible(e, Shown)
  PROVE  Visible(SymOf[e], Shown) # no \/ Shown[SymOf[e]].tri # no
<1> DEFINE s == SymOf[e]
<1>1. CASE CountsChildren(e, Shown)
  BY <1>1 DEF CountsChildren
<1>2. CASE PromptVisible(e, Shown)
  <2>1. Visibility(s, Shown) # no
    BY <1>2, FileAssumption DEF PromptVisible, HasSym, FileAssumption
  <2> QED
    BY <2>1 DEF Visible, Promote
<1> QED
  BY <1>1, <1>2, MenuVisible

LEMMA StringIsNo ==
  ASSUME ChoicesSorted, user \in Valuation, NEW s \in Sym, IsString(s)
  PROVE  Shown[s].tri = no
<1>1. PICK f : Calculated(f, user, isNew) /\ Shown = Final(f)
  <2>1. PICK f : Calculation(f, Len(Order), user, isNew) /\ Shown = f[Len(Order)]
    BY ValuesAre DEF Shown
  <2> QED
    BY <2>1 DEF Calculated, Final
<1>2. PICK i \in 1 .. Len(Order) : Order[i] = s
  BY DEF ChoicesSorted
<1>3. Shown[s] = ValueOf(s, user, isNew, f[i - 1])
  BY <1>1, <1>2, CalculatedIs
<1>4. s \notin Choice
  BY TypesAssumption DEF TypesAssumption
<1>5. ValueOf(s, user, isNew, f[i - 1]) = Base(s, user, isNew, f[i - 1], FirstDefault(s, f[i - 1]))
  BY <1>4, ValueIs
<1> QED
  BY <1>3, <1>5 DEF Base, BaseValue

LEMMA Requests ==
  TreeAssumption /\ ChoicesSorted /\ AnswersRight /\ Held /\ [Next]_vars
    => UNCHANGED config \/ Request
<1> SUFFICES ASSUME TreeAssumption, ChoicesSorted, AnswersRight, Held, [Next]_vars, ~UNCHANGED config
             PROVE  Request
  OBVIOUS
<1>1. PICK e \in Entry : conf_sym(e) \/ conf_string(e) \/ conf_choice(e)
  BY DEF Next, Steps, Walk, conf, check_conf, check_children, asked, checked, Aborts,
         Exited, InputEnds, vars
<1> DEFINE s == SymOf[e]
<1>2. CASE conf_sym(e)
  <2>1. s \in Sym /\ menu_is_visible(e, Shown)
    BY <1>2, AskedSym
  <2>2. PICK v \in Tri : Accepts(s, v, Shown) /\ Becomes(SetTri(Settings, s, v))
    BY <1>2, AskedSym
  <2>3. sym_set_tristate_value(s, v)
    BY <2>1, <2>2, ShownEnough DEF sym_set_tristate_value
  <2> QED
    BY <2>1, <2>3 DEF Request
<1>3. CASE conf_string(e)
  <2>1. s \in Sym /\ IsString(s) /\ menu_is_visible(e, Shown)
    BY <1>3, AskedString
  <2>2. PICK str : AcceptsString(s, str) /\ Becomes(SetString(Settings, s, str))
    BY <1>3, AskedString
  <2>3. str \in Str
    BY <2>1, <2>2, FileAssumption DEF FileAssumption, AcceptsString
  <2>4. Visible(s, Shown) # no
    BY <2>1, ShownEnough, StringIsNo DEF Held
  <2> QED
    BY <2>1, <2>2, <2>3, <2>4 DEF Request, sym_set_string_value
<1>4. CASE conf_choice(e)
  <2>1. PICK m \in Entry : /\ s \in Choice /\ SymOf[m] \in MembersOf(s) /\ menu_is_visible(m, Shown)
                           /\ Accepts(SymOf[m], yes, Shown)
                           /\ Becomes(SetTri(Settings, SymOf[m], yes))
    BY <1>4, AskedChoice
  <2>2. SymOf[m] \in Sym
    BY <2>1, MemberType
  <2>3. sym_set_tristate_value(SymOf[m], yes)
    BY <2>1, <2>2, ShownEnough DEF sym_set_tristate_value
  <2> QED
    BY <2>2, <2>3 DEF Request
<1> QED
  BY <1>1, <1>2, <1>3, <1>4

(* conf.c:93-136, 331-397, symbol.c:444-548: in every mode, and for every  *)
(* menu tree, conf implements what the engine promises its front ends: it  *)
(* changes settings only by requests that are accepted, for symbols that   *)
(* are shown when it makes them.  No file at all is one of those it reads. *)
THEOREM ConfMakesRequests ==
  ASSUME TreeAssumption, ChoicesSorted, LoadedAnswers, Fresh \in Loaded
  PROVE  Spec => OnlyRequests
<1> DEFINE Inv == AnswersRight /\ Held
<1>1. Init => Inv
  BY RightInit, HeldInit
<1>2. Inv /\ [Next]_vars => Inv'
  BY RightStep, HeldStep
<1>3. Init => ValuesInit
  BY DEF Init, ValuesInit
<1>4. Inv /\ [Next]_vars => [config' # config /\ (Request \/ conf_read)]_config
  BY Requests
<1> HIDE DEF Inv
<1> QED
  BY <1>1, <1>2, <1>3, <1>4, PTL DEF Spec, OnlyRequests, ValuesSpec

=============================================================================
