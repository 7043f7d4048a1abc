------------------------------- MODULE KConf -------------------------------
(***************************************************************************)
(* The line oriented front end (scripts/kconfig/conf.c): make config,      *)
(* oldconfig and the modes that answer by themselves.                      *)
(*                                                                         *)
(* It walks through the menu tree and asks, which changes what is visible  *)
(* ahead of it and behind it, then walks again for symbols that are new    *)
(* until a walk finds none.  "todo" is what is left of the recursive walk: *)
(* the calls still to be made, the next one first.  A question that is     *)
(* answered with nonsense or a request for help is asked again, which      *)
(* changes nothing: those answers are left out, except the one that a      *)
(* string symbol takes for its value.                                      *)
(***************************************************************************)
EXTENDS KMenu

CONSTANTS
  Modes,    \* the modes it is started in
  CanEnd,   \* may the input end before the questions do?
  Help      \* the string "?"

VARIABLES
  input_mode, valid_stdin, rootEntry, conf_cnt,
  phase,    \* asking, checking, done or aborted
  todo,     \* Seq([fn, entry, new]): pending calls
  eof       \* the input has ended

vars == <<config, input_mode, valid_stdin, rootEntry, conf_cnt, phase, todo, eof>>

Fns == {"conf", "ask", "choice", "check", "children"}
Frame(fn, e, new) == [fn |-> fn, entry |-> e, new |-> new]
Call(fn, e) == Frame(fn, e, FALSE)
Calls(fn, entries) == [i \in DOMAIN entries |-> Call(fn, entries[i])]

AskModes == {"ask_all", "ask_new", "ask_silent"}
InputModes == AskModes \cup {"set_default", "set_yes", "set_mod", "set_no", "set_random"}
ASSUME ModesAssumption == Modes \subseteq InputModes

Fresh == [user |-> [s \in Sym |-> [tri |-> no, val |-> NoVal]], isNew |-> Sym]

\* set_yes, set_mod, set_no and set_random start from nothing
Init ==
  /\ input_mode \in Modes
  /\ IF input_mode \in AskModes \cup {"set_default"} THEN ValuesInit
     ELSE user = Fresh.user /\ isNew = Fresh.isNew
  /\ valid_stdin \in (IF input_mode = "ask_silent" THEN BOOLEAN ELSE {TRUE})
  /\ rootEntry = Root /\ conf_cnt = FALSE /\ eof = FALSE
  /\ IF input_mode = "ask_silent"
     THEN phase = "checking" /\ todo = <<Call("check", Root)>>
     ELSE phase = "asking" /\ todo = <<Call("conf", Root)>>

-----------------------------------------------------------------------------
Running == phase \in {"asking", "checking"}

\* the next call is fn, for entry e; what it calls comes before the rest
Top(fn, e) == Running /\ todo # << >> /\ Head(todo).fn = fn /\ Head(todo).entry = e
Goes(calls) == todo' = calls \o Tail(todo)
Returns == Goes(<< >>)
Keeps == UNCHANGED <<input_mode, valid_stdin, phase, eof>>

conf(e) ==
  LET s == SymOf[e] IN
  /\ Top("conf", e)
  /\ \E curr \in {Shown} :
     CASE ~menu_is_visible(e, curr) -> Returns
       [] menu_is_visible(e, curr) /\ e \in MenuPrompt
            /\ input_mode = "ask_silent" /\ rootEntry # e -> Goes(<<Call("check", e)>>)
       [] OTHER ->
            IF s \in Choice
            THEN Goes((IF sym_is_changable(s, curr) THEN <<Call("ask", e)>> ELSE << >>)
                      \o <<Frame("choice", e, s \in isNew)>>)
            ELSE Goes((IF s = NoSym THEN << >> ELSE <<Call("ask", e)>>)
                      \o Calls("conf", List[e]))
  /\ UNCHANGED <<config, rootEntry, conf_cnt>> /\ Keeps

-----------------------------------------------------------------------------
(* conf_askvalue: does the symbol get a question, and which answer else?   *)
AskAgain(new) == input_mode \in AskModes       \* mutant: oldconfig asks all
IsAsked(new) == \/ input_mode = "ask_all"
                \/ input_mode \in {"ask_new", "ask_silent"} /\ new

\* silentoldconfig with redirected input would have to ask
check_stdin(new) == input_mode = "ask_silent" /\ ~valid_stdin /\ new

AnyInRange(s, curr) == {v \in Tri : sym_tristate_within_range(s, v, curr)} \* mutant
\* each mode falls through to the next when its answer is out of range
Automatic(s, curr) ==
  LET range == {v \in Tri : sym_tristate_within_range(s, v, curr)}
      second == IF IsBoolean(s, Visible(s, curr), curr) THEN yes ELSE mod
      wanted == CASE input_mode = "set_yes"    -> <<yes, second, no>>
                  [] input_mode = "set_mod"    -> <<second, no>>
                  [] input_mode = "set_no"     -> <<no>>
                  [] input_mode = "set_random" -> << >>
      hits == {i \in DOMAIN wanted : wanted[i] \in range}
  IN IF hits = {} THEN range ELSE {wanted[CHOOSE i \in hits : \A j \in hits : i <= j]}

Replies(s, curr) ==
  CASE ~sym_is_changable(s, curr) \/ input_mode = "set_default" -> {curr[s].tri}
    [] sym_is_changable(s, curr) /\ input_mode \in AskModes ->
         IF IsAsked(s \in isNew) /\ ~eof THEN Tri ELSE {curr[s].tri}
    [] OTHER -> Automatic(s, curr)

\* "?" is read with its newline, so that it is not taken for a call for help
Typed == Str \ {EmptyStr}
StrReplies(s, curr) ==
  {curr[s].val} \cup (IF IsAsked(s \in isNew) /\ ~eof THEN Typed ELSE {})

\* conf_sym: the setter takes the answer, or the question is asked again
conf_sym(e) ==
  LET s == SymOf[e] IN
  /\ Top("ask", e) /\ ~IsString(s)
  /\ ~(check_stdin(s \in isNew) /\ sym_is_changable(s, Shown))
  /\ \E curr \in {Shown} : \E v \in Replies(s, curr) :
       Accepts(s, v, curr) /\ Becomes(SetTri(Settings, s, v))
  /\ Returns
  /\ UNCHANGED <<rootEntry, conf_cnt>> /\ Keeps

conf_string(e) ==
  LET s == SymOf[e] IN
  /\ Top("ask", e) /\ IsString(s)
  /\ ~check_stdin(s \in isNew)
  /\ \E str \in StrReplies(s, Shown) :
       IF AcceptsString(s, str) THEN Becomes(SetString(Settings, s, str)) /\ Returns
       ELSE UNCHANGED <<config, todo>>
  /\ UNCHANGED <<rootEntry, conf_cnt>> /\ Keeps

\* The members that conf_choice lists and may take.  With the input at its end
\* the line stays "0", which is none of them.
Offered(e, curr) == {m \in Listed(e) : HasSym(m) /\ menu_is_visible(m, curr)}
OnlyOne(e) == Cardinality(Offered(e, Shown)) = 1
MustChoose(e) == Shown[SymOf[e]].tri = yes /\ ~OnlyOne(e)
Answers(e, new) ==
  CASE OnlyOne(e) \/ input_mode = "set_random" -> Offered(e, Shown)
    [] ~OnlyOne(e) /\ IsAsked(new) -> IF eof THEN {} ELSE Offered(e, Shown)
    [] OTHER -> {m \in Offered(e, Shown) : SymOf[m] = Shown[SymOf[e]].val}

\* after the member, only the first of the entries below it is walked
FirstBelow(m) == IF List[m] = << >> THEN << >> ELSE <<Call("conf", Head(List[m]))>>

conf_choice(e) ==
  LET c == SymOf[e]
      tri == Shown[c].tri
  IN
  /\ Top("choice", e)
  /\ ~(MustChoose(e) /\ check_stdin(Head(todo).new))
  /\ \/ tri = no /\ Returns /\ UNCHANGED config
     \/ tri = mod /\ Goes(Calls("conf", List[e])) /\ UNCHANGED config
     \/ /\ tri = yes
        /\ \E m \in Answers(e, Head(todo).new) :
             /\ IF Accepts(SymOf[m], yes, Shown) THEN Becomes(SetTri(Settings, SymOf[m], yes))
                ELSE UNCHANGED config
             /\ Goes(FirstBelow(m))
     \/ tri = yes /\ Answers(e, Head(todo).new) = {} /\ UNCHANGED <<config, todo>>
  /\ UNCHANGED <<rootEntry, conf_cnt>> /\ Keeps

-----------------------------------------------------------------------------
(* check_conf: look for what is new, and walk through its whole menu.      *)
Asks(s) == sym_is_changable(s, Shown) /\ s \in isNew

check_conf(e) ==
  LET s == SymOf[e] IN
  /\ Top("check", e)
  /\ CASE ~menu_is_visible(e, Shown) -> Returns /\ UNCHANGED <<rootEntry, conf_cnt>>
       [] menu_is_visible(e, Shown) /\ s # NoSym /\ Asks(s) ->
            /\ conf_cnt' = TRUE /\ rootEntry' = menu_get_parent_menu(e)
            /\ Goes(<<Call("conf", rootEntry'), Call("children", e)>>)
       [] OTHER -> Goes(<<Call("children", e)>>) /\ UNCHANGED <<rootEntry, conf_cnt>>
  /\ UNCHANGED config /\ Keeps

check_children(e) ==
  /\ Top("children", e)
  /\ Goes(IF IsChoiceEntry(e) /\ Shown[SymOf[e]].tri # mod THEN << >>
          ELSE Calls("check", List[e]))
  /\ UNCHANGED <<config, rootEntry, conf_cnt>> /\ Keeps

-----------------------------------------------------------------------------
(* main: the walk that asks, then walks that check until one finds none.   *)
KeepCount == conf_cnt' = conf_cnt              \* mutant
ResetCount == conf_cnt' = FALSE

asked ==
  /\ phase = "asking" /\ todo = << >>
  /\ phase' = "checking" /\ todo' = <<Call("check", Root)>> /\ ResetCount
  /\ IF input_mode = "ask_all" THEN input_mode' = "ask_silent" ELSE UNCHANGED input_mode
  /\ UNCHANGED <<config, valid_stdin, rootEntry, eof>>

OnePass ==                                     \* mutant: no second check
  /\ phase = "checking" /\ todo = << >> /\ phase' = "done"
  /\ UNCHANGED <<config, input_mode, valid_stdin, rootEntry, conf_cnt, todo, eof>>
checked ==
  /\ phase = "checking" /\ todo = << >>
  /\ IF conf_cnt THEN todo' = <<Call("check", Root)>> /\ ResetCount /\ UNCHANGED phase
     ELSE phase' = "done" /\ UNCHANGED <<todo, conf_cnt>>
  /\ UNCHANGED <<config, input_mode, valid_stdin, rootEntry, eof>>

Aborts ==
  /\ Running /\ todo # << >>
  /\ LET e == Head(todo).entry IN
     \/ /\ Head(todo).fn = "ask"
        /\ check_stdin(SymOf[e] \in isNew) /\ sym_is_changable(SymOf[e], Shown)
     \/ /\ Head(todo).fn = "choice"
        /\ MustChoose(e) /\ check_stdin(Head(todo).new)
  /\ phase' = "aborted"
  /\ UNCHANGED <<config, input_mode, valid_stdin, rootEntry, conf_cnt, todo, eof>>

\* the process is gone: .config is written (done) or not (aborted)
Exited == ~Running /\ UNCHANGED vars

InputEnds ==
  /\ CanEnd /\ Running /\ input_mode \in AskModes /\ ~eof /\ eof' = TRUE
  /\ UNCHANGED <<config, input_mode, valid_stdin, rootEntry, conf_cnt, phase, todo>>

Walk == \E e \in Entry : \/ conf(e) \/ conf_sym(e) \/ conf_string(e) \/ conf_choice(e)
                         \/ check_conf(e) \/ check_children(e)
Steps == Walk \/ asked \/ checked \/ Aborts \/ Exited
Next == Steps \/ InputEnds

\* The user goes on answering, and some answer to each question is accepted in
\* the end: the program itself has no other process to wait for.
Spec == Init /\ [][Next]_vars /\ WF_vars(Steps)

-----------------------------------------------------------------------------
(* The pending calls, the settings and the phase are of their types.       *)
TypeOK ==
  /\ user \in [Sym -> [tri : Tri, val : Val]] /\ isNew \subseteq Sym
  /\ input_mode \in Modes \cup {"ask_silent"} /\ rootEntry \in MenuPrompt
  /\ {valid_stdin, conf_cnt, eof} \subseteq BOOLEAN
  /\ phase \in {"asking", "checking", "done", "aborted"}
  /\ todo \in Seq([fn : Fns, entry : Entry, new : BOOLEAN])

\* The entries a walk of the whole tree comes to: below a choice that is y or n
\* only conf_choice looks, and there only at the member just taken.
Inner(e, curr) ==
  IF IsChoiceEntry(e) /\ curr[SymOf[e]].tri # mod THEN {}
  ELSE {c \in Listed(e) : menu_is_visible(c, curr)}
Walked(curr) ==
  LET upTo[n \in 0 .. Cardinality(Entry)] ==
        IF n = 0 THEN {e \in {Root} : menu_is_visible(e, curr)}
        ELSE UNION {{e} \cup Inner(e, curr) : e \in upTo[n - 1]}
  IN upTo[Cardinality(Entry)]
Settable(curr) ==
  {s \in {SymOf[e] : e \in Walked(curr)} \ {NoSym} : sym_is_changable(s, curr)}

(* conf.c:574: when the program ends, every symbol it can walk to and set  *)
(* has an answer, although each answer shows and hides symbols in front of *)
(* the walk and behind it.                                                 *)
EverythingAsked == phase = "done" => Settable(Shown) \cap isNew = {}

(* conf.c:93, 402: oldconfig and silentoldconfig let every value that was  *)
(* in the file pass, also when they pass by its symbol several times.      *)
OldAnswersKept ==
  [][ (input_mode \in {"ask_new", "ask_silent"} /\ todo # << >>
       /\ (Head(todo).fn = "ask" => SymOf[Head(todo).entry] \notin isNew)
       /\ (Head(todo).fn = "choice" => ~Head(todo).new))
      => Values(user', isNew') = Shown ]_vars

(* conf.c:119-127: allyesconfig leaves nothing at n that could be more,    *)
(* whatever became visible, or could be more, after it was passed.         *)
YesToAll ==
  (phase = "done" /\ input_mode = "set_yes") =>
    \A s \in Settable(Shown) : ~IsString(s) => Shown[s].tri # no

(* conf.c:177: a "?" is answered with the help text, it is no string value.*)
HelpIsNoValue == \A s \in Sym : IsString(s) => user[s].val # Help

(* The loops that no input ends: a default that its own symbol refuses,    *)
(* and a new choice of several members with the input at its end.          *)
Stuck ==
  /\ Running /\ todo # << >>
  /\ LET e == Head(todo).entry IN
     \/ /\ Head(todo).fn = "ask" /\ IsString(SymOf[e])
        /\ StrReplies(SymOf[e], Shown) \cap Allowed[SymOf[e]] = {}
     \/ /\ Head(todo).fn = "choice" /\ eof /\ MustChoose(e)
        /\ IsAsked(Head(todo).new)

(* conf.c:146, 190, 574: the walks come to an end in every mode, also when *)
(* the input ends early, except at the questions that Stuck names.         *)
Ends == <>(~Running \/ Stuck)

(* symbol.c, conf.c: the front end changes settings only by requests that  *)
(* the engine accepts for symbols that are shown.                          *)
OnlyRequests == ValuesSpec
=============================================================================
