----------------------------- MODULE KConfData -----------------------------
(***************************************************************************)
(* Reading and writing the configuration file (scripts/kconfig/confdata.c) *)
(* on top of the symbol engine: conf_read parses the file into the user's  *)
(* settings, calculates every symbol and marks the answers it does not     *)
(* trust as new; conf_write calculates the symbols in menu order and puts  *)
(* those that need a line into a temporary file that a rename installs.    *)
(* A process may stop anywhere; the next one starts from the file.         *)
(*                                                                         *)
(* A file gives every symbol the value on its line, NoVal without a line.  *)
(***************************************************************************)
EXTENDS KSymbol

CONSTANTS
  HashOrder, \* the symbols in the order for_all_symbols visits them
  MenuOrder, \* the menu entries with a symbol; may name a symbol twice
  OldFiles,  \* the files the first process may find
  CanFail    \* may the rename of the finished file fail?

VARIABLES
  job,   \* the front end's call: start, idle, read, write or exited
  pos,   \* loop index of conf_read and conf_write
  out,   \* the lines conf_write has put in the temporary file
  disk,  \* the configuration file
  saved  \* (history) what was printed at the last save, NoLines before

files == <<job, pos, out, disk, saved>>
allVars == <<vars, files>>

Line == Tri \cup Str \cup {NoVal}
NoLines == [s \in Sym |-> NoVal]
PlainSym == Sym \ Choice
InMenu == {MenuOrder[i] : i \in DOMAIN MenuOrder}

\* the instances assume this of the constants
OrderAssumption ==
  /\ HashOrder \in Seq(Sym) /\ {HashOrder[i] : i \in DOMAIN HashOrder} = Sym
  /\ MenuOrder \in Seq(PlainSym)
  /\ OldFiles \subseteq [Sym -> Line] /\ CanFail \in BOOLEAN

FilesTypeOK ==
  /\ job \in {"start", "idle", "read", "write", "exited"}
  /\ pos \in 1 .. Len(HashOrder) + Len(MenuOrder) + 1
  /\ out \in [Sym -> Line] /\ disk \in [Sym -> Line] /\ saved \in [Sym -> Line]

-----------------------------------------------------------------------------
(* conf_read, first half: forget every setting, then take one per line.    *)
HasLine(s) == disk[s] # NoVal

\* "m" for a boolean symbol is not recognised and leaves the symbol new
Recognised(s) == HasLine(s) /\ ~(Type[s] = "boolean" /\ disk[s] = mod)

LineTri(s) == IF Recognised(s) /\ ~IsString(s) THEN disk[s] ELSE no

FromFile(s) ==
  IF IsString(s) THEN [tri |-> no, val |-> disk[s]]
  ELSE IF s \notin Choice THEN [tri |-> LineTri(s), val |-> NoVal]
  ELSE LET on == {i \in DOMAIN Members[s] : LineTri(Members[s][i]) = yes} IN
       [tri |-> MaxTri({LineTri(v) : v \in MembersOf(s)}),
        \* the last member that is y wins
        val |-> IF on = {} THEN NoVal
                ELSE Members[s][CHOOSE i \in on : \A j \in on : j <= i]]

AllNew == Sym  \* mutant: SYMBOL_NEW is not cleared by a line

KeptNew == {s \in Sym : IF s \in Choice THEN \A v \in MembersOf(s) : ~HasLine(v)
                        ELSE ~Recognised(s)}

Unreadable == \E s \in Sym : IsString(s) /\ HasLine(s) /\ disk[s] \notin ValidStr[s]

conf_read ==
  /\ AtRest /\ job \in {"start", "idle"}
  /\ IF Unreadable
     THEN job' = "exited" /\ UNCHANGED <<vars, pos>>
     ELSE /\ job' = "read" /\ pos' = 1
          /\ user' = [s \in Sym |-> FromFile(s)]
          /\ isNew' = KeptNew
          /\ valid' = {}
          /\ asked' = NoRequest
          /\ UNCHANGED <<dirty, curr, visible, revdep, write, calls>>
  /\ UNCHANGED <<out, disk, saved>>

(* conf_read, second half, for one symbol.  The visibility of a choice's   *)
(* members is read as it is cached.                                        *)
Distrusted(s) ==
  (IF s \notin isNew \cup ChoiceValue
      /\ (visible[s] = no \/ (IsString(s) /\ user[s].val \notin Allowed[s]))
   THEN {s} ELSE {})
  \cup (IF s \in Choice /\ \E v \in MembersOf(s) : visible[v] # no /\ v \in isNew
        THEN {s} ELSE {})

ReadSymbol ==
  /\ AtRest /\ job = "read" /\ pos <= Len(HashOrder)
  /\ LET s == HashOrder[pos] IN
     IF s \notin valid
     THEN Enter(s, NoSym) /\ UNCHANGED <<settings, pos>>
     ELSE /\ isNew' = isNew \cup Distrusted(s)
          /\ pos' = pos + 1
          /\ UNCHANGED <<user, dirty, asked, valid, curr, visible, revdep, write, calls>>
  /\ UNCHANGED <<job, out, disk, saved>>

ReadEnd ==
  /\ AtRest /\ job = "read" /\ pos > Len(HashOrder)
  /\ dirty' = TRUE
  /\ job' = "idle" /\ pos' = 1
  /\ UNCHANGED <<user, isNew, asked, valid, curr, visible, revdep, write, calls,
                 out, disk, saved>>

-----------------------------------------------------------------------------
conf_write ==
  /\ AtRest /\ job = "idle"
  /\ job' = "write" /\ pos' = 1 /\ out' = NoLines
  /\ IF dirty THEN UNCHANGED <<valid, dirty>> ELSE sym_clear_all_valid
  /\ UNCHANGED <<user, isNew, asked, curr, visible, revdep, write, calls, disk, saved>>

WriteSymbol ==
  /\ AtRest /\ job = "write" /\ pos <= Len(MenuOrder)
  /\ LET s == MenuOrder[pos]
         asks == {s} \cup IF s \in write /\ Type[s] = "tristate"
                          THEN {Modules} \cap Sym ELSE {}
     IN
     IF ~(asks \subseteq valid)
     THEN /\ Enter(IF s \in valid THEN Modules ELSE s, NoSym)
          /\ UNCHANGED <<pos, out>>
     ELSE /\ out' = IF s \in write THEN [out EXCEPT ![s] = StringValue(s)] ELSE out
          /\ write' = write \ {s}
          /\ pos' = pos + 1
          /\ UNCHANGED <<valid, curr, visible, revdep, calls>>
  /\ UNCHANGED <<settings, job, disk, saved>>

WriteEnds == AtRest /\ job = "write" /\ pos > Len(MenuOrder)

WriteCommit ==
  /\ WriteEnds
  /\ disk' = out /\ dirty' = FALSE
  /\ saved' = [s \in Sym |-> IF s \in Choice THEN NoVal ELSE StringValue(s)]
  /\ job' = "idle" /\ pos' = 1 /\ out' = NoLines
  /\ UNCHANGED <<user, isNew, asked, valid, curr, visible, revdep, write, calls>>

\* the last rename fails: conf_write returns 1 and the user is told
WriteFails ==
  /\ CanFail /\ WriteEnds
  /\ job' = "idle" /\ pos' = 1 /\ out' = NoLines
  /\ UNCHANGED <<vars, disk, saved>>

-----------------------------------------------------------------------------
(* The random, yes, mod and no modes of conf start without reading a file. *)
SkipRead ==
  /\ job = "start" /\ job' = "idle"
  /\ UNCHANGED <<vars, pos, out, disk, saved>>

(* The process ends, by exit or killed, and a new one parses the menus.    *)
Restart ==
  /\ job # "start" /\ job' = "start" /\ pos' = 1 /\ out' = NoLines
  /\ user' = [s \in Sym |-> Unset] /\ isNew' = Sym /\ dirty' = TRUE
  /\ valid' = {} /\ write' = {}
  /\ curr' = [s \in Sym |-> Unset]
  /\ visible' = [s \in Sym |-> no] /\ revdep' = [s \in Sym |-> no]
  /\ phase' = [s \in Sym |-> "idle"] /\ at' = [s \in Sym |-> 0]
  /\ caller' = [s \in Sym |-> NoSym] /\ top' = NoSym
  /\ asked' = NoRequest
  /\ UNCHANGED <<disk, saved>>

FilesInit ==
  /\ CacheInit /\ dirty = TRUE
  /\ user = [s \in Sym |-> Unset] /\ isNew = Sym
  /\ job = "start" /\ pos = 1 /\ out = NoLines
  /\ disk \in OldFiles /\ saved = NoLines

Calculate == Engine /\ UNCHANGED files
Use == job = "idle" /\ FrontEnd /\ UNCHANGED files
Loops == ReadSymbol \/ ReadEnd \/ WriteSymbol \/ WriteCommit \/ WriteFails

FilesNext ==
  \/ Calculate \/ Use \/ Loops
  \/ conf_read \/ conf_write \/ SkipRead \/ Restart

FilesSpec == /\ FilesInit /\ [][FilesNext]_allVars
             /\ WF_allVars(Calculate) /\ WF_allVars(Loops)

-----------------------------------------------------------------------------
(* Properties.                                                             *)

\* the lines the file must have, from the values shown
Lined(s) ==
  \E c \in {s} \cup (IF s \in ChoiceValue THEN {ChoiceOf(s)} ELSE {}) :
    NeedsLine(c, TrueVisible(c), TrueRevDep(c), FirstDefault(c, curr))

Complete(lines) ==
  \A s \in InMenu :
    /\ Lined(s) => lines[s] = StringValue(s)
    /\ lines[s] # NoVal =>
         lines[s] = StringValue(s) /\ (~Lined(s) => s \in ChoiceValue /\ lines[s] = no)

SavesAll == WriteCommit => Complete(disk')

(* A save that succeeds leaves a file with the value shown for every       *)
(* symbol that needs a line; a line too many only says that a member of a  *)
(* hidden choice is not set.  About SYMBOL_WRITE, set by the calculation   *)
(* and cleared by the write itself (confdata.c:305, 326-328).              *)
SaveComplete == [][SavesAll]_allVars

(* A save that follows a failed one may come out empty (SYMBOL_WRITE is    *)
(* used up, confdata.c:328), but never with a part of the configuration.   *)
SavesAllOrNothing == WriteCommit => disk' = NoLines \/ Complete(disk')

(* A process that loads a saved file shows the values that were saved.     *)
ReloadsSame == ReadEnd /\ saved # NoLines => \A s \in PlainSym : StringValue(s) = saved[s]

(* No file this program has saved makes it exit when it is loaded.         *)
SavedIsReadable == saved # NoLines => job # "exited"
=============================================================================
