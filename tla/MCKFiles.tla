------------------------------- MODULE MCKFiles -------------------------------
(***************************************************************************)
(* The files of KSave, two processes saving .config and another file; and  *)
(* the symbol engine and its file on one of these examples, "kind":        *)
(*                                                                         *)
(* drivers: a choice that may be y (one driver) or m (any as modules)      *)
(*   config MODULES    bool "modules"                                      *)
(*   choice DRIVER     with tristate PCI and ISA                           *)
(* libc: a choice with a member that a dependency hides and a default      *)
(*   config USB        bool "usb"                                          *)
(*   choice LIBC       prompt "libc"; default NEWLIB if USB                *)
(*                     with bool GLIBC, UCLIBC and NEWLIB if USB           *)
(* strings: a default that is another string's value, a hidden string, and *)
(* a number with a range that "p0" is outside of                           *)
(*   config USB        bool "usb"                                          *)
(*   config HOST       string "host name"; default "box"                   *)
(*   config NAME       string "domain"; depends on USB; default HOST       *)
(*   config PORT       int "port"; depends on NAME = "lan"; range 1 9;     *)
(*                     default 7                                           *)
(* saved: the same without HOST and with a PORT that is always visible,    *)
(* loaded, saved and loaded again; the empty string is no number           *)
(* booleans: a choice that can be hidden, loaded, saved and loaded again   *)
(*   config USB        bool "usb"                                          *)
(*   choice LIBC       prompt "libc" if USB; default UCLIBC                *)
(*                     with bool GLIBC and UCLIBC                          *)
(* failing: saves whose last rename fails                                  *)
(*   config USB        bool "usb"                                          *)
(*   config PCI        bool "pci"; depends on USB; default y               *)
(***************************************************************************)
EXTENDS KSave, Tristate, Sequences, TLC

CONSTANTS p1, p2, dotconfig, other,
          MODULES, USB, DRIVER, PCI, ISA, LIBC, GLIBC, UCLIBC, NEWLIB, HOST, NAME, PORT,
          empty, box, lan, p0, p7, p9, NoSym, NoVal

VARIABLES kind, user, isNew, valid, curr, visible, revdep, write, phase, at,
          caller, top, dirty, asked, job, pos, out, disk, saved

engine == <<user, isNew, valid, curr, visible, revdep, write, phase, at,
            caller, top, dirty, asked>>
files == <<job, pos, out, disk, saved>>
allVars == <<kind, vars, engine, files>>

Words == {box, lan}
Lines(f) == [s \in f.sym |-> NoVal]    \* a file without lines
None(S) == [s \in S |-> {}]
NoDefaults(S) == [s \in S |-> << >>]
Given(e, v) == <<[cond |-> e, value |-> v]>>

Drivers == {MODULES, DRIVER, PCI, ISA}
Libc == {USB, LIBC, GLIBC, UCLIBC, NEWLIB}
Strings == {USB, HOST, NAME, PORT}
Saved == {USB, NAME, PORT}
Booleans == {USB, LIBC, GLIBC, UCLIBC}
Failing == {USB, PCI}
StringType(S) == [s \in S |-> IF s = USB THEN "boolean" ELSE "string"]
StringValid(S, words, numbers) == [s \in S |->
  CASE s = PORT -> numbers [] s \in {HOST, NAME} -> words [] OTHER -> {}]

Files == [
  drivers |-> [sym |-> Drivers,
    type |-> [s \in Drivers |-> IF s = MODULES THEN "boolean" ELSE "tristate"],
    prompt |-> [s \in Drivers |-> TrueExpr], defaults |-> NoDefaults(Drivers),
    members |-> DRIVER :> <<PCI, ISA>>, modules |-> MODULES,
    valid |-> None(Drivers), allowed |-> None(Drivers),
    hash |-> <<MODULES, DRIVER, PCI, ISA>>, menu |-> <<MODULES, PCI, ISA>>,
    old |-> {}, fails |-> FALSE],
  libc |-> [sym |-> Libc, type |-> [s \in Libc |-> "boolean"],
    prompt |-> [s \in Libc |-> IF s = NEWLIB THEN {{Is(USB)}} ELSE TrueExpr],
    defaults |-> [NoDefaults(Libc) EXCEPT ![LIBC] = Given({{Is(USB)}}, NEWLIB)],
    members |-> LIBC :> <<GLIBC, UCLIBC, NEWLIB>>, modules |-> NoSym,
    valid |-> None(Libc), allowed |-> None(Libc),
    hash |-> <<USB, LIBC, GLIBC, UCLIBC, NEWLIB>>, menu |-> << >>, old |-> {}, fails |-> FALSE],
  strings |-> [sym |-> Strings, type |-> StringType(Strings),
    prompt |-> [s \in Strings |-> CASE s = NAME -> {{Is(USB)}}
                                    [] s = PORT -> {{Equals(NAME, lan)}}
                                    [] OTHER -> TrueExpr],
    defaults |-> [s \in Strings |-> CASE s = HOST -> Given(TrueExpr, box)
                                      [] s = NAME -> Given({{Is(USB)}}, HOST)
                                      [] s = PORT -> Given({{Equals(NAME, lan)}}, p7)
                                      [] OTHER -> << >>],
    members |-> << >>, modules |-> NoSym,
    valid |-> StringValid(Strings, Words, {p0, p7, p9}),
    allowed |-> StringValid(Strings, Words, {p7, p9}),
    hash |-> <<USB, HOST, NAME, PORT>>, menu |-> <<USB, HOST, NAME, PORT>>,
    old |-> {}, fails |-> FALSE],
  saved |-> [sym |-> Saved, type |-> StringType(Saved),
    prompt |-> [s \in Saved |-> IF s = NAME THEN {{Is(USB)}} ELSE TrueExpr],
    defaults |-> [s \in Saved |-> CASE s = NAME -> Given({{Is(USB)}}, box)
                                    [] s = PORT -> Given(TrueExpr, p7)
                                    [] OTHER -> << >>],
    members |-> << >>, modules |-> NoSym,
    valid |-> StringValid(Saved, Words \cup {empty}, {p0, p7}),
    allowed |-> StringValid(Saved, Words \cup {empty}, {p7}),
    hash |-> <<PORT, NAME, USB>>, menu |-> <<USB, NAME, PORT>>,
    old |-> {[s \in Saved |-> NoVal],
             [s \in Saved |-> CASE s = USB -> yes [] s = NAME -> lan [] s = PORT -> p7]},
    fails |-> FALSE],
  booleans |-> [sym |-> Booleans, type |-> [s \in Booleans |-> "boolean"],
    prompt |-> [s \in Booleans |-> IF s = LIBC THEN {{Is(USB)}} ELSE TrueExpr],
    defaults |-> [NoDefaults(Booleans) EXCEPT ![LIBC] = Given(TrueExpr, UCLIBC)],
    members |-> LIBC :> <<GLIBC, UCLIBC>>, modules |-> NoSym,
    valid |-> None(Booleans), allowed |-> None(Booleans),
    hash |-> <<UCLIBC, LIBC, USB, GLIBC>>, menu |-> <<USB, GLIBC, UCLIBC>>,
    old |-> {[s \in Booleans |-> NoVal],
             [s \in Booleans |-> CASE s = LIBC -> NoVal [] s = GLIBC -> no [] OTHER -> yes]},
    fails |-> FALSE],
  failing |-> [sym |-> Failing, type |-> [s \in Failing |-> "boolean"],
    prompt |-> [s \in Failing |-> IF s = PCI THEN {{Is(USB)}} ELSE TrueExpr],
    defaults |-> [NoDefaults(Failing) EXCEPT ![PCI] = Given({{Is(USB)}}, {{Const(yes)}})],
    members |-> << >>, modules |-> NoSym,
    valid |-> None(Failing), allowed |-> None(Failing),
    hash |-> <<PCI, USB>>, menu |-> <<USB, PCI>>,
    old |-> {[s \in Failing |-> NoVal], [s \in Failing |-> yes]}, fails |-> TRUE]]

Unknown(f) == {[user |-> [s \in f.sym |-> [tri |-> no, val |-> NoVal]], isNew |-> f.sym]}
OtherStr == {empty, p0, p7, p9} \cup Words

DriversFile == INSTANCE KConfData WITH
  Sym <- Files.drivers.sym, Str <- OtherStr, EmptyStr <- empty, Type <- Files.drivers.type,
  Prompt <- Files.drivers.prompt, Defaults <- Files.drivers.defaults, Selects <- {},
  Members <- Files.drivers.members, Optional <- {}, Modules <- Files.drivers.modules,
  ValidStr <- Files.drivers.valid, Allowed <- Files.drivers.allowed, Loaded <- Unknown(Files.drivers),
  HashOrder <- Files.drivers.hash, MenuOrder <- Files.drivers.menu, OldFiles <- Files.drivers.old, CanFail <- Files.drivers.fails
LibcFile == INSTANCE KConfData WITH
  Sym <- Files.libc.sym, Str <- OtherStr, EmptyStr <- empty, Type <- Files.libc.type,
  Prompt <- Files.libc.prompt, Defaults <- Files.libc.defaults, Selects <- {},
  Members <- Files.libc.members, Optional <- {}, Modules <- Files.libc.modules,
  ValidStr <- Files.libc.valid, Allowed <- Files.libc.allowed, Loaded <- Unknown(Files.libc),
  HashOrder <- Files.libc.hash, MenuOrder <- Files.libc.menu, OldFiles <- Files.libc.old, CanFail <- Files.libc.fails
StringsFile == INSTANCE KConfData WITH
  Sym <- Files.strings.sym, Str <- OtherStr, EmptyStr <- empty, Type <- Files.strings.type,
  Prompt <- Files.strings.prompt, Defaults <- Files.strings.defaults, Selects <- {},
  Members <- Files.strings.members, Optional <- {}, Modules <- Files.strings.modules,
  ValidStr <- Files.strings.valid, Allowed <- Files.strings.allowed, Loaded <- Unknown(Files.strings),
  HashOrder <- Files.strings.hash, MenuOrder <- Files.strings.menu, OldFiles <- Files.strings.old, CanFail <- Files.strings.fails
SavedFile == INSTANCE KConfData WITH
  Sym <- Files.saved.sym, Str <- OtherStr, EmptyStr <- empty, Type <- Files.saved.type,
  Prompt <- Files.saved.prompt, Defaults <- Files.saved.defaults, Selects <- {},
  Members <- Files.saved.members, Optional <- {}, Modules <- Files.saved.modules,
  ValidStr <- Files.saved.valid, Allowed <- Files.saved.allowed, Loaded <- Unknown(Files.saved),
  HashOrder <- Files.saved.hash, MenuOrder <- Files.saved.menu, OldFiles <- Files.saved.old, CanFail <- Files.saved.fails
BooleansFile == INSTANCE KConfData WITH
  Sym <- Files.booleans.sym, Str <- OtherStr, EmptyStr <- empty, Type <- Files.booleans.type,
  Prompt <- Files.booleans.prompt, Defaults <- Files.booleans.defaults, Selects <- {},
  Members <- Files.booleans.members, Optional <- {}, Modules <- Files.booleans.modules,
  ValidStr <- Files.booleans.valid, Allowed <- Files.booleans.allowed, Loaded <- Unknown(Files.booleans),
  HashOrder <- Files.booleans.hash, MenuOrder <- Files.booleans.menu, OldFiles <- Files.booleans.old, CanFail <- Files.booleans.fails
FailingFile == INSTANCE KConfData WITH
  Sym <- Files.failing.sym, Str <- OtherStr, EmptyStr <- empty, Type <- Files.failing.type,
  Prompt <- Files.failing.prompt, Defaults <- Files.failing.defaults, Selects <- {},
  Members <- Files.failing.members, Optional <- {}, Modules <- Files.failing.modules,
  ValidStr <- Files.failing.valid, Allowed <- Files.failing.allowed, Loaded <- Unknown(Files.failing),
  HashOrder <- Files.failing.hash, MenuOrder <- Files.failing.menu, OldFiles <- Files.failing.old, CanFail <- Files.failing.fails

\* the same engine without its cache
DriversValues == INSTANCE KValues WITH
  Sym <- Files.drivers.sym, Str <- OtherStr, EmptyStr <- empty, Type <- Files.drivers.type,
  Prompt <- Files.drivers.prompt, Defaults <- Files.drivers.defaults, Selects <- {},
  Members <- Files.drivers.members, Optional <- {}, Modules <- Files.drivers.modules,
  ValidStr <- Files.drivers.valid, Allowed <- Files.drivers.allowed, Loaded <- Unknown(Files.drivers), Order <- Files.drivers.hash
LibcValues == INSTANCE KValues WITH
  Sym <- Files.libc.sym, Str <- OtherStr, EmptyStr <- empty, Type <- Files.libc.type,
  Prompt <- Files.libc.prompt, Defaults <- Files.libc.defaults, Selects <- {},
  Members <- Files.libc.members, Optional <- {}, Modules <- Files.libc.modules,
  ValidStr <- Files.libc.valid, Allowed <- Files.libc.allowed, Loaded <- Unknown(Files.libc), Order <- Files.libc.hash
StringsValues == INSTANCE KValues WITH
  Sym <- Files.strings.sym, Str <- OtherStr, EmptyStr <- empty, Type <- Files.strings.type,
  Prompt <- Files.strings.prompt, Defaults <- Files.strings.defaults, Selects <- {},
  Members <- Files.strings.members, Optional <- {}, Modules <- Files.strings.modules,
  ValidStr <- Files.strings.valid, Allowed <- Files.strings.allowed, Loaded <- Unknown(Files.strings), Order <- Files.strings.hash

\* The theorems about KSymbol apply to the choice with a hidden member.
LibcRank == [s \in Libc |-> CASE s = USB -> 0 [] s = LIBC -> 1 [] OTHER -> 2]
ASSUME SavedFile!OrderAssumption /\ BooleansFile!OrderAssumption /\ FailingFile!OrderAssumption
ASSUME TheoremsApply ==
  LibcFile!Acyclic(LibcRank) /\ LibcFile!PlainChoices
  /\ LibcFile!RequiredChoices /\ LibcFile!ProperLoaded

\* the engine alone, or with the file
NoFile(f) == job = "idle" /\ pos = 1 /\ out = Lines(f) /\ disk = Lines(f) /\ saved = Lines(f)
EngineInit ==
  \/ kind = "drivers" /\ DriversFile!Init /\ NoFile(Files.drivers)
  \/ kind = "libc" /\ LibcFile!Init /\ NoFile(Files.libc)
  \/ kind = "strings" /\ StringsFile!Init /\ NoFile(Files.strings)
  \/ kind = "saved" /\ SavedFile!FilesInit
  \/ kind = "booleans" /\ BooleansFile!FilesInit
  \/ kind \in {"failing", "processes"} /\ FailingFile!FilesInit

AllInit == Init /\ EngineInit /\ (kind # "processes" => name = [p \in Proc |-> dotconfig])
AllNext ==
  \/ kind = "processes" /\ Next /\ UNCHANGED <<kind, engine, files>>
  \/ kind = "drivers" /\ DriversFile!Next /\ UNCHANGED <<kind, vars, files>>
  \/ kind = "libc" /\ LibcFile!Next /\ UNCHANGED <<kind, vars, files>>
  \/ kind = "strings" /\ StringsFile!Next /\ UNCHANGED <<kind, vars, files>>
  \/ kind = "saved" /\ SavedFile!FilesNext /\ UNCHANGED <<kind, vars>>
  \/ kind = "booleans" /\ BooleansFile!FilesNext /\ UNCHANGED <<kind, vars>>
  \/ kind = "failing" /\ FailingFile!FilesNext /\ UNCHANGED <<kind, vars>>
AllSpec == AllInit /\ [][AllNext]_allVars

-----------------------------------------------------------------------------
(* The engine with choices that may be m or have a hidden member, with     *)
(* strings, and after loading and failing saves.                           *)
(* symbol.c:389-394, 532-551: no value that is marked valid is stale;      *)
(* 371-554: what was accepted is shown afterwards; 171-208: a choice that  *)
(* is y has exactly one member that is y, also when it may be m and        *)
(* MODULES changes.                                                        *)
EngineRight ==
  /\ kind = "drivers" => DriversFile!CacheCoherent /\ DriversFile!ChoiceExclusive
  /\ kind = "libc" => LibcFile!CacheCoherent /\ LibcFile!ChoiceExclusive
  /\ kind = "strings" => StringsFile!CacheCoherent
  /\ kind = "saved" => SavedFile!CacheCoherent
  /\ kind = "booleans" => BooleansFile!CacheCoherent /\ BooleansFile!ChoiceExclusive
  /\ kind = "failing" => FailingFile!CacheCoherent
  /\ kind = "drivers" => DriversFile!RequestHonoured
  /\ kind = "libc" => LibcFile!RequestHonoured
  /\ kind = "strings" => StringsFile!RequestHonoured

(* symbol.c:371-554: the cache does not show: the engine accepts, refuses  *)
(* and stores requests as if it computed every value from the settings     *)
(* each time (KValues).                                                    *)
IsUncached ==
  [][<<user, isNew>>' # <<user, isNew>> =>
       /\ kind = "drivers" => DriversValues!Request
       /\ kind = "libc" => LibcValues!Request
       /\ kind = "strings" => StringsValues!Request]_<<user, isNew>>

(* confdata.c:305, 326-328: strings and numbers are saved as they are      *)
(* shown, without a line that is missing or too many and without one that  *)
(* makes the program exit when it is loaded (194); 328, 425: a save that   *)
(* follows a failed one may come out empty, but never with a part of the   *)
(* configuration; 71-257: a process that loads a saved file shows what was *)
(* saved.                                                                  *)
SavedAndReloaded ==
  [][/\ kind = "booleans" => BooleansFile!SavesAll /\ BooleansFile!ReloadsSame
     /\ kind = "saved" => SavedFile!SavesAll /\ SavedFile!SavedIsReadable' /\ SavedFile!ReloadsSame
     /\ kind = "failing" => FailingFile!SavesAllOrNothing]_allVars
=============================================================================
