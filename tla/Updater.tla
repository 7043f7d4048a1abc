------------------------------ MODULE Updater ------------------------------
(***************************************************************************)
(* The installer on a Zaurus: updater.sh writes the kernel and the root    *)
(* file system from a card to the flash, and saves, restores and formats   *)
(* the user partition.  The power may fail anywhere, writes fail, and the  *)
(* card may be another one at the next start.                              *)
(*                                                                         *)
(* An image is the number of its release; a chunk of flash that holds      *)
(* nothing useful is Blank.  A card with both initrd.bin and INITRD.BIN is *)
(* a FAT one, on which they are the same file.                             *)
(***************************************************************************)
EXTENDS Naturals, Sequences

CONSTANTS
  Release,     \* the releases there are cards of, positive
  Cards,       \* the sets of files that are on a card
  Chunks,      \* into how many pieces an image is cut
  BackupName,  \* the names of backups
  Silent,      \* whether calls fail whose result is not looked at
  MaxFaults    \* bound: failing calls and power failures

ASSUME UpdaterAssumption ==
  /\ Release \subseteq Nat \ {0} /\ Chunks \in Nat \ {0}
  /\ Silent \in BOOLEAN /\ MaxFaults \in Nat

VARIABLES
  card,      \* [release, files]
  flash,     \* [Part -> [1..Chunks -> image or Blank]]
  block,     \* [Block -> [Part -> release]]: the version blocks
  vtmp,      \* VTMPNAME and MTMPNAME: the blocks to be written
  home,      \* what is in the user partition
  backups,   \* [BackupName -> what was saved under the name]
  pc,        \* the step the script is at, "off" if it does not run
  target,    \* the position in Targets
  wflg,      \* WFLG_KERNEL, WFLG_INITRD: the parts dealt with since the start
  pos,       \* DATAPOS: the next chunk; the next block when pc is "commit"
  from,      \* what is written to the user partition, or saved from it as
  told,      \* the last message: "quiet", "OK", "error", "installed"
  faults

vars == <<card, flash, block, vtmp, home, backups, pc, target, wflg, pos, from, told, faults>>
rom == <<flash, block>>
user == <<home, backups>>

Part == {"kernel", "root"}
Blank == 0
Blocks == <<"VERBLOCK", "MVRBLOCK">>
Block == {Blocks[n] : n \in 1..2}
Data == {"user", "default", "part", "none"}
Targets == <<"zImage.bin", "initrd.bin", "INITRD.BIN">>
PartOf(file) == IF file = "zImage.bin" THEN "kernel" ELSE "root"

Init ==
  /\ card \in [release : Release, files : Cards]
  /\ \E r \in Release : /\ flash = [p \in Part |-> [n \in 1..Chunks |-> r]]
                       /\ block = [b \in Block |-> [p \in Part |-> r]]
  /\ vtmp = block
  /\ home = "user" /\ backups = [n \in BackupName |-> "none"] /\ from = "none"
  /\ pc = "off" /\ target = 1 /\ wflg = {} /\ pos = 1 /\ told = "quiet" /\ faults = 0

Whole(part, release) == \A n \in 1..Chunks : flash[part][n] = release
Fault == faults < MaxFaults /\ faults' = faults + 1
Here == Targets[target]
Now == PartOf(Here)

-----------------------------------------------------------------------------
Boot ==
  /\ pc = "off" /\ pc' = "menu" /\ card' \in [release : Release, files : Cards]
  /\ wflg' = {} /\ told' = "quiet" /\ UNCHANGED <<rom, vtmp, user, target, pos, from, faults>>

\* Install new ROM
Install ==
  /\ pc = "menu" /\ pc' = "next" /\ target' = 1
  /\ UNCHANGED <<card, rom, vtmp, user, wflg, pos, from, told, faults>>

Skip ==
  /\ pc = "next" /\ target <= Len(Targets) /\ (Here \notin card.files \/ Now \in wflg)
  /\ target' = target + 1
  /\ UNCHANGED <<card, rom, vtmp, user, pc, wflg, pos, from, told, faults>>

Take ==
  /\ pc = "next" /\ target <= Len(Targets) /\ Here \in card.files /\ Now \notin wflg
  /\ wflg' = wflg \cup {Now} /\ pos' = 1
  /\ pc' = IF Now = "root" THEN "erase" ELSE "header"
  /\ UNCHANGED <<card, rom, vtmp, user, target, from, told, faults>>

Erase ==
  /\ pc = "erase" /\ pc' = "header"
  /\ flash' = [flash EXCEPT ![Now] = [n \in 1..Chunks |-> Blank]]
  /\ UNCHANGED <<card, block, vtmp, user, target, wflg, pos, from, told, faults>>

\* Both blocks are read and changed before the image is written.
Header ==
  /\ pc = "header" /\ pc' = "write"
  /\ vtmp' = [b \in Block |-> [block[b] EXCEPT ![Now] = card.release]]
  /\ UNCHANGED <<card, rom, user, target, wflg, pos, from, told, faults>>

\* writeflash
More == pos <= Chunks
Stays == pos                      \* mutant
Advanced == pos + 1
WriteChunk ==
  /\ pc = "write" /\ More /\ pos' = Advanced
  /\ flash' = [flash EXCEPT ![Now][pos] = card.release]
  /\ UNCHANGED <<card, block, vtmp, user, pc, target, wflg, from, told, faults>>

\* Only nandcp is asked how it went.  nandlogical, which writes the kernel, is not.
Noticed == Now = "root"
GoesOn == "commit"                \* mutant
Exit3 == "off"
ChunkFails ==
  /\ pc = "write" /\ More /\ Fault
  /\ \/ Noticed /\ pc' = Exit3 /\ told' = "error" /\ UNCHANGED pos
     \/ ~Noticed /\ Silent /\ pos' = Advanced /\ UNCHANGED <<pc, told>>
  /\ flash' = [flash EXCEPT ![Now][pos] = Blank]
  /\ UNCHANGED <<card, block, vtmp, user, target, wflg, from>>

Written ==
  /\ pc = "write" /\ ~More /\ pc' = "commit" /\ pos' = 1
  /\ UNCHANGED <<card, rom, vtmp, user, target, wflg, from, told, faults>>

Commit ==
  /\ pc = "commit" /\ block' = [block EXCEPT ![Blocks[pos]] = vtmp[Blocks[pos]]]
  /\ IF pos < Len(Blocks)
     THEN pos' = pos + 1 /\ UNCHANGED <<pc, target, told>>
     ELSE pos' = 1 /\ pc' = "next" /\ target' = target + 1 /\ told' = "OK"
  /\ UNCHANGED <<card, flash, vtmp, user, wflg, from, faults>>

\* Congratulation!!!
Installed ==
  /\ pc = "next" /\ target > Len(Targets) /\ pc' = "ask" /\ told' = "installed"
  /\ UNCHANGED <<card, rom, vtmp, user, target, wflg, pos, from, faults>>

Answer ==
  /\ pc = "ask" /\ pc' \in {"format", "menu"}
  /\ UNCHANGED <<card, rom, vtmp, user, target, wflg, pos, from, told, faults>>

-----------------------------------------------------------------------------
\* The files of a new user partition are on the root partition.
Defaults == IF \E r \in Release : Whole("root", r) THEN "default" ELSE "none"

homeformat ==
  /\ pc \in {"menu", "format"} /\ pc' = "fill" /\ home' = "none" /\ from' = Defaults
  /\ UNCHANGED <<card, rom, vtmp, backups, target, wflg, pos, told, faults>>

homerestore ==
  /\ pc = "menu" /\ pc' = "fill" /\ home' = "none"
  /\ \E n \in BackupName : backups[n] # "none" /\ from' = backups[n]
  /\ UNCHANGED <<card, rom, vtmp, backups, target, wflg, pos, told, faults>>

Fill ==
  /\ pc = "fill" /\ pc' = "menu" /\ home' = from
  /\ UNCHANGED <<card, rom, vtmp, backups, target, wflg, pos, from, told, faults>>

\* The old backup of that name goes first.
homebackup ==
  /\ pc = "menu" /\ pc' = "save"
  /\ \E n \in BackupName :
       from' = n /\ backups' = [backups EXCEPT ![n] = "part"]
  /\ UNCHANGED <<card, rom, vtmp, home, target, wflg, pos, told, faults>>

Saves(data) ==
  /\ pc = "save" /\ pc' = "menu" /\ from' = "none"
  /\ backups' = [backups EXCEPT ![from] = data]
  /\ UNCHANGED <<card, rom, vtmp, home, target, wflg, pos, told>>
Save == Saves(home) /\ UNCHANGED faults

\* mount, tar and gzip are not asked how they went: the card is full, the
\* partition was not mounted, or the archive is damaged.
SaveFails == Silent /\ Fault /\ \E data \in {"part", "none"} : Saves(data)
FillFails ==
  /\ pc = "fill" /\ Silent /\ Fault /\ pc' = "menu" /\ home' \in {"part", "none"}
  /\ UNCHANGED <<card, rom, vtmp, backups, target, wflg, pos, from, told>>

\* fsro_resize moves the border between the two partitions.
flashresize ==
  /\ pc = "menu" /\ pc' = "off" /\ home' = "none"
  /\ flash' = [flash EXCEPT !["root"] = [n \in 1..Chunks |-> Blank]]
  /\ UNCHANGED <<card, block, vtmp, backups, target, wflg, pos, from, told, faults>>

Reboot ==
  /\ pc = "menu" /\ pc' = "off"
  /\ UNCHANGED <<card, rom, vtmp, user, target, wflg, pos, from, told, faults>>

\* The chunk or the files that are just written stay half written.
PowerCut ==
  /\ pc # "off" /\ Fault /\ pc' = "off"
  /\ flash' = IF pc = "write" /\ More THEN [flash EXCEPT ![Now][pos] = Blank] ELSE flash
  /\ home' = IF pc = "fill" /\ from # "none" THEN "part" ELSE home
  /\ UNCHANGED <<card, block, vtmp, backups, target, wflg, pos, from, told>>

Steps == \/ Skip \/ Take \/ Erase \/ Header \/ WriteChunk \/ Written \/ Commit \/ Installed
         \/ Answer \/ (pc = "format" /\ homeformat) \/ Fill \/ Save
User == Install \/ homeformat \/ homerestore \/ homebackup \/ flashresize \/ Reboot
Failure == ChunkFails \/ SaveFails \/ FillFails \/ PowerCut
Next == Boot \/ Steps \/ User \/ Failure

Spec == Init /\ [][Next]_vars
\* The device is switched on again, the script goes on, and the user now and
\* then chooses to install.
FairSpec == Spec /\ WF_vars(Boot) /\ WF_vars(Steps) /\ SF_vars(Install)

-----------------------------------------------------------------------------
(* The flash, the card and the script's variables have the values that     *)
(* updater.sh gives them; a position is at most one behind the last chunk. *)
TypeOK ==
  /\ card \in [release : Release, files : Cards]
  /\ flash \in [Part -> [1..Chunks -> Release \cup {Blank}]]
  /\ block \in [Block -> [Part -> Release]] /\ vtmp \in [Block -> [Part -> Release]]
  /\ home \in Data /\ backups \in [BackupName -> Data] /\ from \in Data \cup BackupName
  /\ pc \in {"off", "menu", "next", "erase", "header", "write", "commit", "ask", "format", "fill", "save"}
  /\ target \in 1..Len(Targets) + 1 /\ wflg \subseteq Part /\ pos \in 1..Chunks + 1
  /\ told \in {"quiet", "OK", "error", "installed"} /\ faults \in 0..MaxFaults

(* updater.sh.src:423-426: a version block gets a new release of a part    *)
(* only when the whole image of that release is in the flash, and loses    *)
(* nothing that the other part's update has put there.                     *)
VersionIsWritten ==
  [][\A b \in Block, p \in Part :
       block'[b][p] # block[b][p] => p = Now /\ Whole(p, block'[b][p])]_vars

(* updater.sh.src:442-446: when the installation is announced, the kernel  *)
(* and the root file system are both whole, however often power or writes  *)
(* failed before and however often it was chosen.                          *)
InstalledIsWhole ==
  pc = "ask" => \A p \in Part : \E r \in Release : Whole(p, r)

(* updater.sh.src:324-457: after whatever failures, installations are      *)
(* carried through to the end.                                             *)
Finishes == []<>(told = "installed")
=============================================================================
