-------------------------------- MODULE Ipkg --------------------------------
(***************************************************************************)
(* The package manager of the target system (scripts/bin/ipkg) with one    *)
(* destination and one feed: install, upgrade and remove, each a shell     *)
(* script that changes the status file, the file lists and the root file   *)
(* system in steps, and may be killed or fail at any of them.              *)
(*                                                                         *)
(* A package in the status file is wanted ("install ok not-installed") or  *)
(* installed.  Every command that installs first asks for the packages     *)
(* that are still wanted.                                                  *)
(*                                                                         *)
(* The script runs under set -e, but what is called in a condition or      *)
(* before || does not: an installation goes on after a write that failed,  *)
(* unless it looks at the result.  A removal, and the marks of an upgrade, *)
(* are under set -e.  A paragraph of the status file that was cut in the   *)
(* middle counts as lost; files can always be created and renamed.         *)
(***************************************************************************)
EXTENDS Naturals, FiniteSets, SequencesExt

CONSTANTS
  Pkg, File,
  Deps,      \* [Pkg -> SUBSET Pkg]
  Feed,      \* the packages of the feed; the others are typing errors
  Contents,  \* [Pkg -> [Version -> SUBSET File]]
  Version,   \* {1, ..., n}
  NoList,    \* there is no list of the package's files
  CanKill,   \* may the script be killed?
  MaxFaults  \* bound: downloads, scripts and disks fail so many times

\* the instances assume this of the constants
IpkgAssumption ==
  /\ IsFiniteSet(Pkg) /\ Deps \in [Pkg -> SUBSET Pkg] /\ Feed \subseteq Pkg
  /\ MaxFaults \in Nat /\ Version \subseteq Nat \ {0} /\ 1 \in Version
  /\ Contents \in [Pkg -> [Version -> SUBSET File]]
  /\ \A p \in Feed : Deps[p] \subseteq Feed
\* no two packages have a file of the same name
OwnFiles(p) == UNION {Contents[p][v] : v \in Version}
DistinctFiles == \A p, q \in Pkg : p # q => OwnFiles(p) \cap OwnFiles(q) = {}

VARIABLES
  status,    \* [Pkg -> {"absent", "wanted", "installed"}]
  inst_ver,  \* [Pkg -> Version \cup {0}]: the Version field
  list,      \* [Pkg -> (SUBSET File) \cup {NoList}]: info/pkg.list
  onDisk,    \* the files in the root file system
  avail_ver, \* the version of every package in the feed
  pc,        \* the next step of the command that runs, or "idle"
  args,      \* the packages it still has to get
  pkgs,      \* those of the present one, with its dependencies
  batch,     \* all of them, done or not
  upgrade,   \* ipkg_upgrade: "asked", and "now" once it knows what is installed
  faults,    \* faults so far
  begun,     \* history: unpacking or removing it was broken off, or goes on
  lost       \* history: its paragraph or list was lost and nobody noticed

disk == <<status, inst_ver, list, onDisk>>
proc == <<pc, args, pkgs, batch, upgrade>>
history == <<begun, lost>>
vars == <<disk, avail_ver, proc, faults, history>>

Mentioned == {p \in Pkg : status[p] # "absent"}
Installed == {p \in Pkg : status[p] = "installed"}
NeverWanted == {}                                        \* mutant
Wanted == {p \in Pkg : status[p] = "wanted"}
FilesOf(p) == Contents[p][avail_ver]

Init ==
  /\ status = [p \in Pkg |-> "absent"] /\ inst_ver = [p \in Pkg |-> 0]
  /\ list = [p \in Pkg |-> NoList] /\ onDisk = {} /\ avail_ver = 1
  /\ pc = "idle" /\ args = << >> /\ pkgs = << >> /\ batch = {}
  /\ upgrade = "no" /\ faults = 0 /\ begun = {} /\ lost = {}

-----------------------------------------------------------------------------
Idle == pc = "idle"
At(step) == pc = step
Goes(step) == pc' = step /\ UNCHANGED <<args, pkgs, batch, upgrade>>
Exits == pc' = "idle" /\ args' = << >> /\ pkgs' = << >> /\ batch' = {} /\ upgrade' = "no"

\* the status file with the paragraphs that are kept and those of new requests
StatusFile(kept, marked) ==
  /\ status' = [p \in Pkg |-> IF p \in kept THEN status[p]
                             ELSE IF p \in marked THEN "wanted" ELSE "absent"]
  /\ inst_ver' = [p \in Pkg |-> IF p \in kept THEN inst_ver[p] ELSE 0]
Others(p) == Mentioned \ {p}

\* a package, then what it depends on, level by level, without what is
\* installed or not in the feed; the order within a level is that of the names
Level(p) ==
  LET level[n \in 0..Cardinality(Pkg)] ==
        IF n = 0 THEN {p}
        ELSE {d \in UNION {Deps[q] : q \in level[n - 1]} : d \in Feed \ Installed}
               \ UNION {level[i] : i \in 0..(n - 1)}
  IN level
Closure(p) == {q \in Pkg : \E n \in 0..Cardinality(Pkg) : q \in Level(p)[n]}
ipkg_depends(p) ==
  LET level == Level(p)
      NotBefore(q, r) == \A m, n \in 0..Cardinality(Pkg) :
                           q \in level[m] /\ r \in level[n] => n <= m
  IN {packages \in SetToSeqs(Closure(p)) :
        \A i, j \in DOMAIN packages : i < j => NotBefore(packages[j], packages[i])}

\* the user agrees to install what is still wanted, or does not
Starts(packages, up) ==
  /\ Idle /\ pc' = "next" /\ upgrade' = up
  /\ \E first \in {<< >>, SetToSeq(Wanted)} : args' = first \o packages
  /\ UNCHANGED <<disk, avail_ver, pkgs, batch, faults, history>>

ipkg_install(p) == Starts(<<p>>, "no")
ipkg_upgrade == Starts(<< >>, "asked")

\* ipkg update: a new feed
ipkg_update ==
  /\ Idle /\ avail_ver + 1 \in Version /\ avail_ver' = avail_ver + 1
  /\ UNCHANGED <<disk, proc, faults, history>>

-----------------------------------------------------------------------------
(* ipkg_upgrade goes through what is installed when the wanted packages are *)
(* dealt with, and looks at the version of each when its turn comes.       *)
ListInstalled ==
  /\ At("next") /\ args = << >> /\ upgrade = "asked"
  /\ args' = SetToSeq(Installed) /\ upgrade' = "now"
  /\ UNCHANGED <<disk, avail_ver, pc, pkgs, batch, faults, history>>

Outdated(p) == p \in Installed \cap Feed /\ inst_ver[p] < avail_ver
UpToDate ==
  /\ At("next") /\ args # << >> /\ upgrade = "now" /\ ~Outdated(Head(args))
  /\ args' = Tail(args)
  /\ UNCHANGED <<disk, avail_ver, pc, pkgs, batch, upgrade, faults, history>>

(* ipkg_get_install_dest.                                                  *)
GetInstall ==
  /\ At("next") /\ pkgs = << >>
  /\ \/ args = << >> /\ upgrade # "asked" /\ Exits
     \/ /\ args # << >> /\ (upgrade = "now" => Outdated(Head(args)))
        /\ pkgs' \in ipkg_depends(Head(args)) /\ args' = Tail(args)
        /\ batch' = ToSet(pkgs') /\ pc' = "mark" /\ UNCHANGED upgrade
  /\ UNCHANGED <<disk, avail_ver, faults, history>>

MarkWanted == StatusFile(Mentioned, batch)
Mark ==
  /\ At("mark") /\ MarkWanted /\ Goes("fetch")
  /\ UNCHANGED <<list, onDisk, avail_ver, faults, history>>

\* the test for a package without a file name comes after the name is composed
Fetched == pkgs # << >> /\ Head(pkgs) \in Feed
Fetch ==
  /\ At("fetch")
  /\ IF pkgs = << >> THEN Goes("next") ELSE Fetched /\ Goes("check")
  /\ UNCHANGED <<disk, avail_ver, faults, history>>

\* dependencies that are scheduled count as there
Check ==
  /\ At("check")
  /\ IF Closure(Head(pkgs)) \ {Head(pkgs)} \subseteq Mentioned
     THEN Goes("unpack") ELSE Exits
  /\ UNCHANGED <<disk, avail_ver, faults, history>>

NotUnpacked == UNCHANGED onDisk                          \* mutant
Unpacked == onDisk' = onDisk \cup FilesOf(Head(pkgs))
Unpack ==
  /\ At("unpack") /\ Unpacked /\ Goes("list")
  /\ UNCHANGED <<status, inst_ver, list, avail_ver, faults, history>>

List ==
  /\ At("list") /\ list' = [list EXCEPT ![Head(pkgs)] = FilesOf(Head(pkgs))]
  /\ lost' = lost \ {Head(pkgs)} /\ Goes("postinst")
  /\ UNCHANGED <<status, inst_ver, onDisk, avail_ver, faults, begun>>

\* its failure is ignored: set -e is not in force in the condition of an if
postinst ==
  /\ At("postinst") /\ Goes("forget")
  /\ UNCHANGED <<disk, avail_ver, faults, history>>

\* ipkg_status_update_sd: the old paragraph is removed, the new one appended
StatusRemove ==
  /\ At("forget") /\ Goes("record") /\ StatusFile(Others(Head(pkgs)), {})
  /\ UNCHANGED <<list, onDisk, avail_ver, faults, history>>

GoesOn == pc' = "fetch" /\ pkgs' = Tail(pkgs) /\ UNCHANGED <<args, batch, upgrade>>
Recorded(p) == inst_ver' = [inst_ver EXCEPT ![p] = avail_ver]
StatusAppend ==
  /\ At("record") /\ GoesOn
  /\ status' = [status EXCEPT ![Head(pkgs)] = "installed"]
  /\ Recorded(Head(pkgs)) /\ begun' = begun \ {Head(pkgs)}
  /\ UNCHANGED <<list, onDisk, avail_ver, faults, lost>>

-----------------------------------------------------------------------------
(* ipkg_remove_pkg_dest.                                                   *)
ipkg_remove(p) ==
  /\ Idle /\ p \in Mentioned
  /\ IF p \in Installed
     THEN /\ pc' = "prerm" /\ pkgs' = <<p>>
          /\ UNCHANGED <<status, inst_ver, args, batch, upgrade>>
     ELSE StatusFile(Others(p), {}) /\ UNCHANGED proc
  /\ UNCHANGED <<list, onDisk, avail_ver, faults, history>>

ListOf(p) == IF list[p] = NoList THEN {} ELSE list[p]

prerm ==
  /\ At("prerm") /\ Goes("files")
  /\ UNCHANGED <<disk, avail_ver, faults, history>>

\* the files of the list, whoever else has them too
RemoveFile ==
  /\ At("files")
  /\ IF ListOf(Head(pkgs)) \cap onDisk = {}
     THEN Goes("postrm") /\ UNCHANGED <<onDisk, begun>>
     ELSE /\ \E f \in ListOf(Head(pkgs)) \cap onDisk : onDisk' = onDisk \ {f}
          /\ begun' = begun \cup {Head(pkgs)} /\ UNCHANGED proc
  /\ UNCHANGED <<status, inst_ver, list, avail_ver, faults, lost>>

postrm ==
  /\ At("postrm") /\ Goes("purge") /\ StatusFile(Others(Head(pkgs)), {})
  /\ UNCHANGED <<list, onDisk, avail_ver, faults, history>>

Purge ==
  /\ At("purge") /\ Exits
  /\ list' = [list EXCEPT ![Head(pkgs)] = NoList]
  /\ UNCHANGED <<status, inst_ver, onDisk, avail_ver, faults, history>>

-----------------------------------------------------------------------------
(* What goes wrong.  A failure that is looked at ends the whole script,    *)
(* also what other packages it was called for.                             *)
Failing == faults < MaxFaults /\ faults' = faults + 1

NotFound == \* a package that is not in the feed
  /\ At("fetch") /\ pkgs # << >> /\ ~Fetched /\ Exits
  /\ UNCHANGED <<disk, avail_ver, faults, history>>

StepFails == \* the download, preinst, and what a removal does, under set -e
  /\ Failing
  /\ \/ At("fetch") /\ pkgs # << >>
     \/ pc \in {"check", "prerm", "files", "postrm", "purge"}
  /\ Exits /\ UNCHANGED <<disk, avail_ver, history>>

\* under set -e some packages are marked, else any paragraphs may be lost, too
MarkFails ==
  /\ Failing /\ At("mark") /\ ~(batch \subseteq Mentioned)
  /\ \/ /\ upgrade # "now" /\ Goes("fetch")
        /\ \E kept \in SUBSET Mentioned, marked \in SUBSET batch :
             StatusFile(kept, marked) /\ lost' = lost \cup (Mentioned \ kept)
     \/ /\ upgrade = "now" \/ CanKill
        /\ Exits /\ UNCHANGED lost
        /\ \E marked \in SUBSET batch : StatusFile(Mentioned, marked)
  /\ UNCHANGED <<list, onDisk, avail_ver, begun>>

AfterBadUnpackOn == Goes("list")                         \* mutant
AfterBadUnpack == Exits
\* a file that is being replaced may be cut short
UnpackFails ==
  /\ Failing /\ At("unpack") /\ AfterBadUnpack
  /\ \E some \in SUBSET FilesOf(Head(pkgs)) :
       \/ onDisk' = onDisk \cup some
       \/ \E f \in FilesOf(Head(pkgs)) : onDisk' = (onDisk \cup some) \ {f}
  /\ begun' = begun \cup {Head(pkgs)}
  /\ UNCHANGED <<status, inst_ver, list, avail_ver, lost>>

\* of the commands that make the list only the last one is looked at
ListFails ==
  /\ Failing /\ At("list") /\ Exits
  /\ list' = [list EXCEPT ![Head(pkgs)] = NoList]
  /\ UNCHANGED <<status, inst_ver, onDisk, avail_ver, history>>

ListIsShort ==
  /\ Failing /\ At("list") /\ (Goes("postinst") \/ (CanKill /\ Exits))
  /\ \E some \in SUBSET FilesOf(Head(pkgs)) : list' = [list EXCEPT ![Head(pkgs)] = some]
  /\ lost' = lost \cup {Head(pkgs)}
  /\ UNCHANGED <<status, inst_ver, onDisk, avail_ver, begun>>

\* on a full disk mv installs what sed could write of the other paragraphs
StatusIsShort ==
  /\ Failing /\ At("forget") /\ Goes("record")
  /\ \E kept \in SUBSET Others(Head(pkgs)) :
       StatusFile(kept, {}) /\ lost' = lost \cup (Others(Head(pkgs)) \ kept)
  /\ UNCHANGED <<list, onDisk, avail_ver, begun>>

AppendFails ==
  /\ Failing /\ At("record") /\ GoesOn /\ lost' = lost \cup {Head(pkgs)}
  /\ UNCHANGED <<disk, avail_ver, begun>>

Kill ==
  /\ CanKill /\ Failing /\ ~Idle /\ Exits
  /\ UNCHANGED <<disk, avail_ver, history>>

-----------------------------------------------------------------------------
Steps ==
  \/ ListInstalled \/ UpToDate \/ GetInstall \/ Mark \/ Fetch \/ Check \/ Unpack
  \/ List \/ postinst \/ StatusRemove \/ StatusAppend
  \/ prerm \/ RemoveFile \/ postrm \/ Purge \/ NotFound
Faults ==
  \/ StepFails \/ MarkFails \/ UnpackFails \/ ListFails \/ ListIsShort
  \/ StatusIsShort \/ AppendFails \/ Kill
User == \/ \E p \in Pkg : ipkg_install(p) \/ ipkg_remove(p)
        \/ ipkg_upgrade \/ ipkg_update

Next == Steps \/ Faults \/ User

\* A command that is started goes on.  Now and then, whatever else they do,
\* the user installs something and agrees to install what is wanted.
Retry == \E p \in Pkg : ipkg_install(p) /\ args' = SetToSeq(Wanted) \o <<p>>
Spec == Init /\ [][Next]_vars /\ WF_vars(Steps) /\ SF_vars(Retry)

-----------------------------------------------------------------------------
(* The status file, the lists and the script's progress have their types.  *)
TypeOK ==
  /\ status \in [Pkg -> {"absent", "wanted", "installed"}]
  /\ inst_ver \in [Pkg -> Version \cup {0}]
  /\ \A p \in Pkg : p \in Installed <=> inst_ver[p] # 0
  /\ list \in [Pkg -> (SUBSET File) \cup {NoList}] /\ onDisk \subseteq File
  /\ args \in Seq(Pkg) /\ pkgs \in Seq(Pkg) /\ batch \subseteq Pkg
  /\ upgrade \in {"no", "asked", "now"}

(* ipkg:591-634: whatever earlier commands left, and whatever fails, the  *)
(* files of a package the running command is done with are there; and it   *)
(* is in the status file with the feed's version, its list right, unless   *)
(* just its own paragraph or list was lost by a write that failed without  *)
(* being noticed: what befalls one package does not harm another.          *)
DoneIsWhole ==
  (pc \in {"fetch", "check", "unpack", "list", "postinst", "forget", "record", "next"}) =>
    \A p \in batch \ ToSet(pkgs) :
      /\ FilesOf(p) \subseteq onDisk
      /\ p \notin lost => /\ status[p] = "installed" /\ inst_ver[p] = avail_ver
                         /\ list[p] = FilesOf(p)

(* ipkg:749, 785: whatever fails or is killed, also unnoticed, a package   *)
(* that the status file calls installed has all files of the version it    *)
(* names, unless unpacking or removing just this package was broken off:   *)
(* files come before the paragraph, and no list has files of others.       *)
InstalledIsThere ==
  \A p \in Installed \ begun : Contents[p][inst_ver[p]] \subseteq onDisk

(* ipkg:862: a dependency chain that broke off is taken up by the next     *)
(* commands, in whatever order they come, if nothing fails any more: a     *)
(* package does not stay wanted, but is installed or, if the user or a     *)
(* full disk says so, no longer mentioned.                                 *)
WantedIsInstalled == \A p \in Pkg : (status[p] = "wanted") ~> (status[p] # "wanted")
=============================================================================
