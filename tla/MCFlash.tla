------------------------------ MODULE MCFlash ------------------------------
(***************************************************************************)
(* The installer, with two releases, images of two chunks and cards with   *)
(* the kernel and the root file system under one name, the other or both.  *)
(* Two translations share the run, which makes one of the three, "kind":   *)
(*                                                                         *)
(* encsh: makes the installer's script readable and back                   *)
(*                                                                         *)
(* conditions: all trees of two levels over a boolean and a tristate       *)
(* symbol, and all of one level with more kinds of terms, rewritten as     *)
(* when kconfig reads a file                                               *)
(***************************************************************************)
EXTENDS Updater, KTree

VARIABLES kind, byte, plain, away, option,                           \* encsh
          stage, raw, parent, dep, shown, above, base, nested        \* conditions

script == <<byte, plain, away, option>>
trees == <<stage, raw, parent, dep, shown, above, base, nested>>

Complete == {{"zImage.bin", "initrd.bin"}, {"zImage.bin", "INITRD.BIN"},
             {"zImage.bin", "initrd.bin", "INITRD.BIN"}}

Translation == INSTANCE EncSh WITH MaxRuns <- 2

ASSUME Translation!EncShAssumption

Grow(terms) == terms \cup {Not(e) : e \in terms}
               \cup {Two(op, e, f) : op \in {"and", "or"}, e, f \in terms}
FewTerms == {Sy("A"), Sy("T"), Comp("eq", "T", "n"), Comp("ne", "T", "y")}
ManyTerms == {Sy("A"), Sy("T"), Sy("m"), Sy("y")}
             \cup {Comp(op, s, c) : op \in {"eq", "ne"}, s \in {"A", "T"}, c \in Constant}
MCExprs == {Null} \cup Grow(Grow(FewTerms)) \cup Grow(ManyTerms)
MCParents == {Null, Sy("T")}
MCBases == {Null, Comp("ne", "T", "n"), Comp("eq", "T", "n"), Two("or", Sy("A"), Not(Sy("T")))}

Tree == INSTANCE KExpr WITH
  Boolean <- {"A", "MODULES"}, Tristates <- {"T"}, Modules <- "MODULES",
  Exprs <- MCExprs, Parents <- MCParents, Bases <- MCBases
ASSUME Tree!SymbolsAssumption

NoInstaller ==
  Init /\ card = [release |-> 1, files |-> {"zImage.bin", "initrd.bin"}] /\ flash["root"][1] = 1
NoScript == byte = 0 /\ plain = 0 /\ away = 0 /\ option = ""
NoTree == /\ stage = "none" /\ nested = FALSE /\ above = ""
          /\ raw = Null /\ parent = Null /\ dep = Null /\ shown = Null /\ base = Null
AllInit ==
  \/ kind = "installer" /\ Init /\ NoScript /\ NoTree
  \/ kind = "encsh" /\ NoInstaller /\ Translation!Init /\ NoTree
  \/ kind = "conditions" /\ NoInstaller /\ NoScript /\ Tree!Init
AllNext ==
  /\ UNCHANGED kind
  /\ \/ kind = "installer" /\ Next /\ UNCHANGED <<script, trees>>
     \/ kind = "encsh" /\ Translation!Next /\ UNCHANGED <<vars, trees>>
     \/ kind = "conditions" /\ Tree!Next /\ UNCHANGED <<vars, script>>
AllSpec == AllInit /\ [][AllNext]_<<kind, vars, script, trees>>

-----------------------------------------------------------------------------
(* encsh.c:11-28: every byte is in the table once, so that as many runs in *)
(* one direction as in the other, in whatever order, give the file back.   *)
ComesBack == kind = "encsh" => Translation!ComesBack

(* expr_transform, expr_eliminate_dups: rewriting never turns a condition  *)
(* that is y or n into anything else, whatever the symbols are.            *)
MeaningKept == kind = "conditions" => Tree!MeaningKept

(* menu.c:190-213: an entry that menu_finalize moves below another one can *)
(* be reached when its condition holds.                                    *)
NestedIsReachable == kind = "conditions" => Tree!NestedIsReachable

(* expr.c:609-624: expr_eliminate_dups ends, it repeats itself only after  *)
(* the condition shrank.                                                   *)
EachTurnShrinks == Tree!EachTurnShrinks
=============================================================================
