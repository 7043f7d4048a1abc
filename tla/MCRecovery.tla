----------------------------- MODULE MCRecovery -----------------------------
(***************************************************************************)
(* What comes to an end after all, in one of four systems, "kind":         *)
(*                                                                         *)
(* loop: a calculation over dependencies that form a loop; conf_parse      *)
(* prints a warning for them (sym_check_deps) and carries on               *)
(*   config USB        bool "usb"; depends on NET                          *)
(*   config NET        bool "net"; depends on !USB || CRC                  *)
(*   config CRC        bool "crc"; default USB                             *)
(* build: one package, all commands of the build, and a failure or a kill  *)
(* ipkg: an application, a library and a base package, and a failure or a  *)
(* kill                                                                    *)
(* flash: one release, one backup, two failures, noticed or not            *)
(***************************************************************************)
EXTENDS BuildState, Tristate

CONSTANTS USB, NET, CRC, empty, NoSym, NoVal, app, lib, base, a, l, b, NoList

VARIABLES
  kind,
  user, isNew, valid, curr, visible, revdep, write, phase, at, caller, top, dirty,
  requestOf,                                                               \* loop
  status, inst_ver, list, onDisk, avail_ver, step, args, pkgs, batch, upgrade,
  failed, begun, lost,                                                     \* ipkg
  card, flash, block, vtmp, home, backups, mode, file, wflg, pos, from, told,
  cuts                                                                     \* flash

loopVars == <<user, isNew, valid, curr, visible, revdep, write, phase, at, caller,
              top, dirty, requestOf>>
ipkgVars == <<status, inst_ver, list, onDisk, avail_ver, step, args, pkgs, batch,
              upgrade, failed, begun, lost>>
flashVars == <<card, flash, block, vtmp, home, backups, mode, file, wflg, pos, from,
               told, cuts>>

Syms == {USB, NET, CRC}
None == [s \in Syms |-> {}]
Prompts == [s \in Syms |-> CASE s = USB -> {{Is(NET)}}
                             [] s = NET -> {{IsNot(USB)}, {Is(CRC)}}
                             [] OTHER -> TrueExpr]
DefaultsOf == [s \in Syms |->
  IF s = CRC THEN <<[cond |-> TrueExpr, value |-> {{Is(USB)}}]>> ELSE << >>]
Unknown == {[user |-> [s \in Syms |-> [tri |-> no, val |-> NoVal]], isNew |-> Syms]}
Engine == INSTANCE KSymbol WITH
  asked <- requestOf, Sym <- Syms, Str <- {empty}, EmptyStr <- empty,
  Type <- [s \in Syms |-> "boolean"], Prompt <- Prompts, Defaults <- DefaultsOf,
  Selects <- {}, Members <- << >>, Optional <- {}, Modules <- NoSym,
  ValidStr <- None, Allowed <- None, Loaded <- Unknown

MCOrder == <<lib>>
MCUses == [p \in Pkg |-> {}]

Known == {app, lib, base}
DepsOf == [p \in Known |-> CASE p = app -> {lib} [] p = lib -> {base} [] OTHER -> {}]
Holds == [p \in Known |-> [v \in {1} |->
  CASE p = app -> {a} [] p = lib -> {l} [] OTHER -> {b}]]
Manager == INSTANCE Ipkg WITH
  pc <- step, faults <- failed, Pkg <- Known, File <- {a, l, b}, Deps <- DepsOf,
  Feed <- Known, Contents <- Holds, Version <- {1}, CanKill <- TRUE, MaxFaults <- 1

Cards == {{"zImage.bin", "initrd.bin"}, {"zImage.bin", "INITRD.BIN"},
          {"zImage.bin", "initrd.bin", "INITRD.BIN"}}
Installer == INSTANCE Updater WITH
  pc <- mode, target <- file, faults <- cuts, Release <- {1}, Chunks <- 2,
  BackupName <- {"b1"}, Silent <- TRUE, MaxFaults <- 2

AllInit ==
  /\ Init /\ Engine!Init /\ Manager!Init /\ Installer!Init
  /\ \/ kind = "flash"
     \/ kind \in {"loop", "build", "ipkg"} /\ card.files = {"zImage.bin", "initrd.bin"}

\* only the system that runs moves
OnlyLoop == kind = "loop" /\ UNCHANGED <<kind, vars, ipkgVars, flashVars>>
OnlyBuild == kind = "build" /\ UNCHANGED <<kind, loopVars, ipkgVars, flashVars>>
OnlyIpkg == kind = "ipkg" /\ UNCHANGED <<kind, loopVars, vars, flashVars>>
OnlyFlash == kind = "flash" /\ UNCHANGED <<kind, loopVars, vars, ipkgVars>>

AllNext ==
  \/ OnlyLoop /\ Engine!Next
  \/ OnlyBuild /\ Next
  \/ OnlyIpkg /\ Manager!Next
  \/ OnlyFlash /\ Installer!Next

\* Each system goes on with what it has begun, and its user now and then makes
\* an image, installs a package or installs a release, whatever else they do.
GoesOn ==
  \/ OnlyLoop /\ Engine!Engine
  \/ OnlyBuild /\ Steps
  \/ OnlyIpkg /\ Manager!Steps
  \/ OnlyFlash /\ Installer!Steps
Boots == OnlyFlash /\ Installer!Boot
Asks ==
  \/ OnlyBuild /\ Start("image")
  \/ OnlyIpkg /\ Manager!Retry
  \/ OnlyFlash /\ Installer!Install
allVars == <<kind, loopVars, vars, ipkgVars, flashVars>>
AllSpec ==
  /\ AllInit /\ [][AllNext]_allVars
  /\ WF_allVars(GoesOn) /\ WF_allVars(Boots) /\ SF_allVars(Asks)

-----------------------------------------------------------------------------
(* symbol.c:219: every calculation returns, also in a loop.                *)
CalculationEnds == []<>(top = NoSym)

(* Makefile: whatever was broken off, new sources came or was cleaned, the *)
(* images that follow are made to the end: no recipe misses for ever what  *)
(* an older state file vouches for, unless a rootclean or clean was broken *)
(* off and no clean ends after it.                                         *)
BuildRecovers == []<>(kind = "build" => finished = "image" \/ broken)

(* ipkg:862: a dependency chain that broke off is taken up by the next     *)
(* commands, in whatever order they come, if nothing fails any more: a     *)
(* package does not stay wanted, but is installed or, if the user or a     *)
(* full disk says so, no longer mentioned.                                 *)
WantedIsInstalled == \A p \in Known : []<>(status[p] # "wanted")

(* updater.sh.src:324-457: after whatever failures, installations are      *)
(* carried through to the end.                                             *)
Finishes == []<>(kind = "flash" => told = "installed")
=============================================================================
