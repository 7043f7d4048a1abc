---------------------------- MODULE UpdaterProofs ----------------------------
(***************************************************************************)
(* For any releases, cards, image size, backups and number of faults: what *)
(* the installer records and announces is there, as long as no call fails  *)
(* unnoticed.                                                              *)
(***************************************************************************)
EXTENDS Updater, TLAPS

(* What the cards have to hold: the kernel, and a root file system under   *)
(* one of its names (updater.sh.src:335 passes over files that are not     *)
(* there).                                                                 *)
CompleteCards ==
  \A files \in Cards : \A p \in Part : \E t \in DOMAIN Targets :
    Targets[t] \in files /\ PartOf(Targets[t]) = p

Updates == {"erase", "header", "write", "commit"}

-----------------------------------------------------------------------------
(* The inductive invariant, in parts.                                      *)

\* what is to be filled in is data, what is to be saved has a name
FromRight == /\ pc = "fill" => from \in Data
             /\ pc = "save" => from \in BackupName

\* the part at hand is one that was taken
HereRight == pc \in Updates => target \in DOMAIN Targets /\ Now \in wflg

\* the chunks before pos hold the card's release
ChunksRight ==
  /\ pc \in {"erase", "header"} => pos = 1
  /\ pc = "write" => \A n \in 1..Chunks : n < pos => flash[Now][n] = card.release
  /\ pc = "commit" => Whole(Now, card.release) /\ pos \in DOMAIN Blocks

\* the blocks to be written differ from those in the flash in this part only
BlocksRight ==
  pc \in {"write", "commit"} =>
    \A b \in Block : /\ vtmp[b][Now] = card.release
                     /\ \A p \in Part \ {Now} : vtmp[b][p] = block[b][p]

\* a part that was dealt with since the start is whole, unless it is at hand
InFlash(p) == \E r \in Release : Whole(p, r)
PartsRight ==
  pc # "off" => \A p \in wflg : (pc \in Updates => p # Now) => InFlash(p)

\* the files that were passed are not on the card, or their part is taken
Passed == \A t \in DOMAIN Targets :
            t < target /\ Targets[t] \in card.files => PartOf(Targets[t]) \in wflg
PassedRight == /\ pc \in Updates \cup {"next", "ask"} => Passed
               /\ pc = "ask" => target = 4

\* of the flash, and of what is filled in or saved
RomInv == HereRight /\ ChunksRight /\ BlocksRight /\ PartsRight /\ PassedRight
UserInv == FromRight
UpdaterInv == TypeOK /\ RomInv /\ UserInv

-----------------------------------------------------------------------------
LEMMA TargetsAre ==
  /\ DOMAIN Targets = 1..3 /\ Len(Targets) = 3
  /\ \A t \in 1..3 : PartOf(Targets[t]) \in Part
BY DEF Targets, PartOf, Part

LEMMA BlocksAre ==
  /\ DOMAIN Blocks = 1..2 /\ Len(Blocks) = 2
  /\ Block = {Blocks[1], Blocks[2]} /\ Blocks[1] # Blocks[2]
BY DEF Blocks, Block

LEMMA SamePart ==
  ASSUME NEW p, flash'[p] = flash[p]
  PROVE  InFlash(p)' <=> InFlash(p)
BY DEF InFlash, Whole

-----------------------------------------------------------------------------
(* The types, in three parts. *)
RomType ==
  /\ card \in [release : Release, files : Cards]
  /\ flash \in [Part -> [1..Chunks -> Release \cup {Blank}]]
  /\ block \in [Block -> [Part -> Release]] /\ vtmp \in [Block -> [Part -> Release]]
UserType ==
  /\ home \in Data /\ backups \in [BackupName -> Data] /\ from \in Data \cup BackupName
ScriptType ==
  /\ pc \in {"off", "menu", "next", "erase", "header", "write", "commit", "ask", "format", "fill", "save"}
  /\ target \in 1..4 /\ wflg \subseteq Part /\ pos \in 1..Chunks + 1
  /\ told \in {"quiet", "OK", "error", "installed"} /\ faults \in 0..MaxFaults

LEMMA BoundsAre == Chunks \in Nat /\ Chunks >= 1 /\ MaxFaults \in Nat /\ Len(Targets) + 1 = 4
BY UpdaterAssumption, TargetsAre

LEMMA TypeParts == TypeOK <=> RomType /\ UserType /\ ScriptType
<1>1. 1..Len(Targets) + 1 = 1..4
  BY BoundsAre
<1> QED
  BY <1>1 DEF TypeOK, RomType, UserType, ScriptType

LEMMA NowIsPart ==
  ASSUME target \in DOMAIN Targets
  PROVE  Now \in Part
BY TargetsAre DEF Now, Here

LEMMA InvInit ==
  ASSUME Init
  PROVE  UpdaterInv
<1> USE DEF Init
<1>1. PICK r \in Release : /\ flash = [p \in Part |-> [n \in 1..Chunks |-> r]]
                           /\ block = [b \in Block |-> [p \in Part |-> r]]
  OBVIOUS
<1>2. RomType
  BY <1>1 DEF RomType
<1>3. UserType
  BY DEF UserType, Data
<1>4. ScriptType
  BY BoundsAre DEF ScriptType
<1>5. RomInv
  BY DEF RomInv, HereRight, ChunksRight, BlocksRight, PartsRight, PassedRight, Updates
<1>6. UserInv
  BY DEF UserInv, FromRight
<1> QED
  BY <1>2, <1>3, <1>4, <1>5, <1>6, TypeParts DEF UpdaterInv

(* The steps with which nothing fails unnoticed. *)
Honest ==
  \/ Boot \/ Install \/ Skip \/ Take \/ Erase \/ Header \/ WriteChunk \/ ChunkFails \/ Written \/ Commit
  \/ Installed \/ Answer \/ homeformat \/ homerestore \/ Fill \/ homebackup \/ Save
  \/ flashresize \/ Reboot \/ PowerCut

LEMMA HonestSteps ==
  ASSUME Silent = FALSE, Next
  PROVE  Honest
BY DEF Next, Steps, User, Failure, SaveFails, FillFails, Honest

-----------------------------------------------------------------------------
(* What the steps leave as it is: outside of an installation everything    *)
(* about the flash stays, during one everything about the user's files.    *)
Quiet == UNCHANGED <<card, flash, block, vtmp, target, wflg, pos>> /\ pc # "off"
         /\ pc \notin Updates \cup {"next"} /\ pc' \notin Updates \cup {"next", "ask"}

LEMMA QuietKeeps ==
  ASSUME RomInv, Quiet
  PROVE  RomInv'
<1> USE DEF Quiet, RomInv
<1>1. HereRight' /\ ChunksRight' /\ BlocksRight'
  BY DEF HereRight, ChunksRight, BlocksRight, Updates
<1>2. PartsRight'
  BY SamePart DEF PartsRight
<1>3. PassedRight'
  BY DEF PassedRight
<1> QED
  BY <1>1, <1>2, <1>3

LEMMA QuietSteps ==
  ASSUME homeformat \/ homerestore \/ Fill \/ homebackup \/ Save
  PROVE  Quiet
BY DEF homeformat, homerestore, Fill, homebackup, Save, Saves, Quiet, Updates, rom

LEMMA UserKept ==
  ASSUME UserInv, UNCHANGED user, pc' \notin {"fill", "save"}
  PROVE  UserInv'
BY DEF UserInv, FromRight, user

-----------------------------------------------------------------------------
LEMMA TypeNext ==
  ASSUME UpdaterInv, Honest
  PROVE  TypeOK'
<1> USE UpdaterAssumption, TargetsAre, BlocksAre
<1>0. RomType /\ UserType /\ ScriptType /\ FromRight /\ HereRight
  BY TypeParts DEF UpdaterInv, RomInv, UserInv
<1>1. RomType'
  <2>0. pc \in Updates => Now \in Part
    BY <1>0, NowIsPart DEF HereRight
  <2>1. card' \in [release : Release, files : Cards]
    BY <1>0 DEF Honest, RomType, Boot, Install, Skip, Take, Erase, Header, WriteChunk, ChunkFails, Written, Commit,
        Installed, Answer, homeformat, homerestore, Fill, homebackup, Save, flashresize, Reboot, PowerCut, Saves, rom, user
  <2>2. CASE UNCHANGED <<flash, block, vtmp>>
    BY <1>0, <2>1, <2>2 DEF RomType
  <2>3. CASE Erase
    BY <1>0, <2>0, <2>1, <2>3 DEF Erase, RomType
  <2>4. CASE Header
    BY <1>0, <2>0, <2>1, <2>4 DEF Header, RomType, rom
  <2>5. CASE WriteChunk
    <3>1. pos \in 1..Chunks /\ Now \in Part
      BY <1>0, <2>0, <2>5 DEF WriteChunk, More, ScriptType, Updates
    <3> QED
      BY <1>0, <2>1, <2>5, <3>1 DEF WriteChunk, RomType
  <2>6. CASE ChunkFails
    <3>1. pos \in 1..Chunks /\ Now \in Part
      BY <1>0, <2>0, <2>6 DEF ChunkFails, More, ScriptType, Updates
    <3> QED
      BY <1>0, <2>1, <2>6, <3>1 DEF ChunkFails, RomType
  <2>7. CASE Commit
    BY <1>0, <2>1, <2>7 DEF Commit, RomType
  <2>8. CASE flashresize
    BY <1>0, <2>1, <2>8 DEF flashresize, RomType
  <2>9. CASE PowerCut
    <3>1. pc = "write" /\ More => pos \in 1..Chunks /\ Now \in Part
      BY <1>0, <2>0 DEF More, ScriptType, Updates
    <3> QED
      BY <1>0, <2>1, <2>9, <3>1 DEF PowerCut, RomType
  <2> QED
    BY <2>2, <2>3, <2>4, <2>5, <2>6, <2>7, <2>8, <2>9
    DEF Honest, Boot, Install, Skip, Take, Written, Installed, Answer, homeformat, homerestore,
        Fill, homebackup, Save, Saves, Reboot, rom
<1>2. UserType'
  <2>1. CASE UNCHANGED <<user, from>>
    BY <1>0, <2>1 DEF UserType, user
  <2>2. CASE homeformat
    BY <1>0, <2>2 DEF homeformat, Defaults, UserType, Data
  <2>3. CASE homerestore
    BY <1>0, <2>3 DEF homerestore, UserType, Data
  <2>4. CASE Fill
    BY <1>0, <2>4 DEF Fill, UserType, FromRight
  <2>5. CASE homebackup
    BY <1>0, <2>5 DEF homebackup, UserType, Data
  <2>6. CASE Save
    BY <1>0, <2>6 DEF Save, Saves, UserType, Data, FromRight
  <2>7. CASE flashresize
    BY <1>0, <2>7 DEF flashresize, UserType, Data
  <2>8. CASE PowerCut
    BY <1>0, <2>8 DEF PowerCut, UserType, Data
  <2> QED
    BY <2>1, <2>2, <2>3, <2>4, <2>5, <2>6, <2>7, <2>8
    DEF Honest, Boot, Install, Skip, Take, Erase, Header, WriteChunk, ChunkFails, Written, Commit,
        Installed, Answer, Reboot, user
<1>3. ScriptType'
  <2>1. CASE Take
    BY <1>0, <2>1, NowIsPart DEF Take, ScriptType
  <2>2. CASE WriteChunk
    BY <1>0, <2>2 DEF WriteChunk, ScriptType, More, Advanced
  <2>3. CASE ChunkFails
    BY <1>0, <2>3 DEF ChunkFails, Fault, ScriptType, More, Advanced, Exit3
  <2>4. CASE Commit
    <3>1. target \in 1..3 /\ (pos < 2 => pos + 1 \in 1..Chunks + 1)
      BY <1>0, <2>4 DEF Commit, HereRight, ScriptType, Updates
    <3> QED
      BY <1>0, <2>4, <3>1 DEF Commit, ScriptType
  <2>5. CASE PowerCut
    BY <1>0, <2>5 DEF PowerCut, Fault, ScriptType
  <2>6. CASE Boot \/ Install \/ Skip \/ Erase \/ Header \/ Written
    BY <1>0, <2>6 DEF Boot, Install, Skip, Erase, Header, Written, ScriptType
  <2>7. CASE Installed \/ Answer \/ homeformat \/ homerestore \/ Fill \/ homebackup \/ Save \/ flashresize \/ Reboot
    BY <1>0, <2>7 DEF Installed, Answer, homeformat, homerestore, Fill, homebackup, Save, Saves,
                      flashresize, Reboot, ScriptType
  <2> QED
    BY <2>1, <2>2, <2>3, <2>4, <2>5, <2>6, <2>7 DEF Honest
<1> QED
  <2>1. (TypeOK <=> RomType /\ UserType /\ ScriptType)'
    BY DEF TypeOK, RomType, UserType, ScriptType
  <2> QED
    BY <1>1, <1>2, <1>3, <2>1

-----------------------------------------------------------------------------
(* The user's files. *)
LEMMA UserNext ==
  ASSUME UpdaterInv, Honest
  PROVE  UserInv'
<1>0. UserType /\ ScriptType /\ FromRight /\ HereRight
  BY TypeParts DEF UpdaterInv, UserInv, RomInv
<1>1. CASE UNCHANGED user /\ pc' \notin {"fill", "save"}
  BY <1>1, UserKept DEF UpdaterInv
<1>2. CASE homeformat
  <2>1. Defaults \in Data
    BY DEF Defaults, Data
  <2> QED
    BY <1>0, <1>2, <2>1 DEF homeformat, UserInv, FromRight
<1>3. CASE homerestore
  BY <1>0, <1>3 DEF homerestore, UserInv, FromRight, UserType
<1>4. CASE Fill
  BY <1>0, <1>4 DEF Fill, UserInv, FromRight
<1>5. CASE homebackup
  BY <1>0, <1>5 DEF homebackup, UserInv, FromRight, UserType
<1>6. CASE Save
  BY <1>6 DEF Save, Saves, UserInv, FromRight
<1>7. CASE flashresize \/ PowerCut
  BY <1>0, <1>7 DEF flashresize, PowerCut, UserInv, FromRight
<1>8. CASE Boot \/ Install \/ Skip \/ Take \/ Erase \/ Header \/ WriteChunk \/ ChunkFails
  BY <1>1, <1>8 DEF Boot, Install, Skip, Take, Erase, Header, WriteChunk, ChunkFails, Exit3
<1>9. CASE Written \/ Commit \/ Installed \/ Answer \/ Reboot
  BY <1>1, <1>9 DEF Written, Commit, Installed, Answer, Reboot
<1> QED
  BY <1>2, <1>3, <1>4, <1>5, <1>6, <1>7, <1>8, <1>9 DEF Honest

-----------------------------------------------------------------------------
(* The flash. *)
LEMMA OffKeeps ==
  ASSUME pc' = "off"
  PROVE  RomInv'
BY DEF RomInv, HereRight, ChunksRight, BlocksRight, PartsRight, PassedRight, Updates

LEMMA RomNext ==
  ASSUME UpdaterInv, Silent = FALSE, Honest
  PROVE  RomInv'
<1> USE UpdaterAssumption, TargetsAre DEF Updates
<1>0. RomType /\ ScriptType /\ HereRight /\ ChunksRight /\ BlocksRight /\ PartsRight /\ PassedRight
  BY TypeParts DEF UpdaterInv, RomInv
<1>1. CASE Quiet
  BY <1>1, QuietKeeps DEF UpdaterInv
<1>2. CASE pc' = "off"
  BY <1>2, OffKeeps
<1>3. CASE Boot
  <2>1. pc' = "menu" /\ wflg' = {}
    BY <1>3 DEF Boot
  <2> QED
    BY <2>1 DEF RomInv, HereRight, ChunksRight, BlocksRight, PartsRight, PassedRight
<1>4. CASE Install
  <2>1. /\ pc = "menu" /\ pc' = "next" /\ target' = 1
        /\ UNCHANGED <<card, flash, wflg>>
    BY <1>4 DEF Install, rom
  <2>2. PartsRight'
    BY <1>0, <2>1, SamePart DEF PartsRight
  <2>3. Passed'
    BY <2>1 DEF Passed
  <2> QED
    BY <2>1, <2>2, <2>3 DEF RomInv, HereRight, ChunksRight, BlocksRight, PassedRight
<1>5. CASE Skip
  <2>1. /\ pc = "next" /\ pc' = "next" /\ target' = target + 1 /\ target \in 1..3
        /\ (Here \notin card.files \/ Now \in wflg) /\ UNCHANGED <<card, flash, wflg>>
    BY <1>0, <1>5 DEF Skip, rom, ScriptType
  <2>2. PartsRight'
    BY <1>0, <2>1, SamePart DEF PartsRight
  <2>3. Passed'
    BY <1>0, <2>1 DEF Passed, PassedRight, Here, Now
  <2> QED
    BY <2>1, <2>2, <2>3 DEF RomInv, HereRight, ChunksRight, BlocksRight, PassedRight
<1>6. CASE Take
  <2>1. /\ pc = "next" /\ pc' \in {"erase", "header"} /\ pos' = 1 /\ target \in 1..3 /\ wflg' = wflg \cup {Now}
        /\ UNCHANGED <<card, flash, target>> /\ Now' = Now
    BY <1>0, <1>6 DEF Take, rom, ScriptType, Now, Here
  <2>2. HereRight' /\ ChunksRight' /\ BlocksRight'
    BY <2>1 DEF HereRight, ChunksRight, BlocksRight
  <2>3. PartsRight'
    BY <1>0, <2>1, SamePart DEF PartsRight
  <2>4. PassedRight'
    BY <1>0, <2>1 DEF Passed, PassedRight
  <2> QED
    BY <2>2, <2>3, <2>4 DEF RomInv
<1>7. CASE Erase
  <2>1. /\ pc = "erase" /\ pc' = "header" /\ pos' = pos /\ flash' = [flash EXCEPT ![Now] = [n \in 1..Chunks |-> Blank]]
        /\ UNCHANGED <<card, target, wflg>> /\ Now' = Now
    BY <1>7 DEF Erase, Now, Here
  <2>2. HereRight' /\ ChunksRight' /\ BlocksRight' /\ PassedRight'
    BY <1>0, <2>1 DEF HereRight, ChunksRight, BlocksRight, PassedRight, Passed
  <2>3. PartsRight'
    <3>1. \A p \in wflg : p # Now => flash'[p] = flash[p]
      BY <1>0, <2>1 DEF RomType, ScriptType
    <3> QED
      BY <1>0, <2>1, <3>1, SamePart DEF PartsRight
  <2> QED
    BY <2>2, <2>3 DEF RomInv
<1>8. CASE Header
  <2>1. /\ pc = "header" /\ pc' = "write" /\ pos = pos'
        /\ vtmp' = [b \in Block |-> [block[b] EXCEPT ![Now] = card.release]]
        /\ UNCHANGED <<card, flash, block, target, wflg>> /\ Now' = Now
    BY <1>8 DEF Header, Now, Here, rom
  <2>2. Now \in Part
    BY <1>0, <2>1, NowIsPart DEF HereRight
  <2>3. HereRight' /\ PassedRight'
    BY <1>0, <2>1 DEF HereRight, PassedRight, Passed
  <2>4. ChunksRight'
    BY <1>0, <2>1 DEF ChunksRight, ScriptType
  <2>5. BlocksRight'
    BY <1>0, <2>1, <2>2 DEF BlocksRight, RomType
  <2>6. PartsRight'
    BY <1>0, <2>1, SamePart DEF PartsRight
  <2> QED
    BY <2>3, <2>4, <2>5, <2>6 DEF RomInv
<1>9. CASE WriteChunk
  <2>1. /\ pc = "write" /\ pc' = "write" /\ pos' = pos + 1 /\ pos \in 1..Chunks
        /\ flash' = [flash EXCEPT ![Now][pos] = card.release]
        /\ UNCHANGED <<card, vtmp, block, target, wflg>> /\ Now' = Now
    BY <1>0, <1>9 DEF WriteChunk, More, Advanced, Now, Here, ScriptType
  <2>2. Now \in Part
    BY <1>0, <2>1, NowIsPart DEF HereRight
  <2>3. HereRight' /\ PassedRight' /\ BlocksRight'
    BY <1>0, <2>1 DEF HereRight, PassedRight, Passed, BlocksRight
  <2>4. ChunksRight'
    <3>1. \A n \in 1..Chunks : n < pos => flash[Now][n] = card.release
      BY <1>0, <2>1 DEF ChunksRight
    <3>2. flash'[Now] = [flash[Now] EXCEPT ![pos] = card.release] /\ flash[Now] \in [1..Chunks -> Release \cup {Blank}]
      BY <1>0, <2>1, <2>2 DEF RomType
    <3>3. \A n \in 1..Chunks : n < pos + 1 => flash'[Now][n] = card.release
      BY <2>1, <3>1, <3>2
    <3> QED
      BY <2>1, <3>3 DEF ChunksRight
  <2>5. PartsRight'
    <3>1. \A p \in wflg : p # Now => flash'[p] = flash[p]
      BY <1>0, <2>1 DEF RomType, ScriptType
    <3> QED
      BY <1>0, <2>1, <3>1, SamePart DEF PartsRight
  <2> QED
    BY <2>3, <2>4, <2>5 DEF RomInv
<1>10. CASE ChunkFails
  BY <1>2, <1>10 DEF ChunkFails, Exit3
<1>11. CASE Written
  <2>1. /\ pc = "write" /\ pc' = "commit" /\ pos' = 1 /\ pos = Chunks + 1
        /\ UNCHANGED <<card, flash, vtmp, block, target, wflg>> /\ Now' = Now
    BY <1>0, <1>11 DEF Written, More, Now, Here, ScriptType, rom
  <2>2. Whole(Now, card.release)
    BY <1>0, <2>1 DEF ChunksRight, Whole
  <2>3. ChunksRight'
    BY <2>1, <2>2, BlocksAre DEF ChunksRight, Whole
  <2>4. HereRight' /\ PassedRight' /\ BlocksRight'
    BY <1>0, <2>1 DEF HereRight, PassedRight, Passed, BlocksRight
  <2>5. PartsRight'
    BY <1>0, <2>1, SamePart DEF PartsRight
  <2> QED
    BY <2>3, <2>4, <2>5 DEF RomInv
<1>12. CASE Commit
  <2>1. /\ pc = "commit" /\ block' = [block EXCEPT ![Blocks[pos]] = vtmp[Blocks[pos]]]
        /\ UNCHANGED <<card, flash, vtmp, wflg>> /\ pos \in 1..2 /\ target \in 1..3 /\ Now \in wflg
        /\ Blocks[pos] \in Block /\ Whole(Now, card.release)
    BY <1>0, <1>12, BlocksAre DEF Commit, ChunksRight, HereRight
  <2>2. CASE pos < Len(Blocks)
    <3>1. pc' = "commit" /\ pos' = 2 /\ target' = target /\ Now' = Now
      BY <1>12, <2>1, <2>2, BlocksAre DEF Commit, Now, Here
    <3>2. HereRight' /\ PassedRight' /\ ChunksRight'
      BY <1>0, <2>1, <3>1, BlocksAre DEF HereRight, PassedRight, Passed, ChunksRight, Whole
    <3>3. BlocksRight'
      BY <1>0, <2>1, <3>1 DEF BlocksRight, RomType
    <3>4. PartsRight'
      BY <1>0, <2>1, <3>1, SamePart DEF PartsRight
    <3> QED
      BY <3>2, <3>3, <3>4 DEF RomInv
  <2>3. CASE ~(pos < Len(Blocks))
    <3>1. pc' = "next" /\ target' = target + 1
      BY <1>12, <2>3 DEF Commit
    <3>2. HereRight' /\ ChunksRight' /\ BlocksRight'
      BY <3>1 DEF HereRight, ChunksRight, BlocksRight
    <3>3. InFlash(Now)
      BY <1>0, <2>1 DEF InFlash, RomType
    <3>4. PartsRight'
      BY <1>0, <2>1, <3>1, <3>3, SamePart DEF PartsRight
    <3>5. PassedRight'
      BY <1>0, <2>1, <3>1 DEF Passed, PassedRight, Now, Here
    <3> QED
      BY <3>2, <3>4, <3>5 DEF RomInv
  <2> QED
    BY <2>2, <2>3
<1>13. CASE Installed
  <2>1. pc = "next" /\ pc' = "ask" /\ target = 4 /\ target' = 4 /\ UNCHANGED <<card, flash, wflg>>
    BY <1>0, <1>13 DEF Installed, rom, ScriptType
  <2>2. PassedRight'
    BY <1>0, <2>1 DEF PassedRight, Passed
  <2>3. PartsRight'
    BY <1>0, <2>1, SamePart DEF PartsRight
  <2> QED
    BY <2>1, <2>2, <2>3 DEF RomInv, HereRight, ChunksRight, BlocksRight
<1>14. CASE Answer
  <2>1. pc = "ask" /\ pc' \in {"format", "menu"} /\ UNCHANGED <<card, flash, wflg>>
    BY <1>14 DEF Answer, rom
  <2>2. PartsRight'
    BY <1>0, <2>1, SamePart DEF PartsRight
  <2> QED
    BY <2>1, <2>2 DEF RomInv, HereRight, ChunksRight, BlocksRight, PassedRight
<1>15. CASE flashresize \/ Reboot \/ PowerCut
  BY <1>2, <1>15 DEF flashresize, Reboot, PowerCut
<1>16. CASE homeformat \/ homerestore \/ Fill \/ homebackup \/ Save
  BY <1>1, <1>16, QuietSteps
<1> QED
  BY <1>3, <1>4, <1>5, <1>6, <1>7, <1>8, <1>9, <1>10, <1>11, <1>12, <1>13, <1>14, <1>15, <1>16 DEF Honest

-----------------------------------------------------------------------------
LEMMA InvNext ==
  ASSUME UpdaterInv, Silent = FALSE, [Next]_vars
  PROVE  UpdaterInv'
<1>1. CASE Next
  BY <1>1, HonestSteps, TypeNext, RomNext, UserNext DEF UpdaterInv
<1>2. CASE UNCHANGED vars
  <2>1. TypeOK'
    BY <1>2 DEF UpdaterInv, TypeOK, vars
  <2>2. RomInv'
    BY <1>2 DEF UpdaterInv, RomInv, HereRight, ChunksRight, BlocksRight, PartsRight, PassedRight, Passed,
                InFlash, Whole, Now, Here, vars
  <2>3. UserInv'
    BY <1>2 DEF UpdaterInv, UserInv, FromRight, vars
  <2> QED
    BY <2>1, <2>2, <2>3 DEF UpdaterInv
<1> QED
  BY <1>1, <1>2

(* updater.sh.src:324-457: the invariant that the results below rest on:   *)
(* what the script has read, written and passed over, at each of its steps.*)
THEOREM InvHolds ==
  ASSUME Silent = FALSE
  PROVE  Spec => []UpdaterInv
BY InvInit, InvNext, PTL DEF Spec

(* updater.sh.src:442-446: for any releases, any complete cards and any    *)
(* size of the image, when the script congratulates, each part is the      *)
(* whole image of one release, whatever was broken off before: a part that *)
(* the script passes over was written whole since the device was started.  *)
THEOREM InstalledMeansWhole ==
  ASSUME Silent = FALSE, CompleteCards
  PROVE  Spec => []InstalledIsWhole
<1>1. ASSUME UpdaterInv, pc = "ask", NEW p \in Part
      PROVE  \E r \in Release : Whole(p, r)
  <2>1. card.files \in Cards /\ PassedRight /\ PartsRight
    BY <1>1, TypeParts DEF UpdaterInv, RomInv, RomType
  <2>2. PICK t \in DOMAIN Targets : Targets[t] \in card.files /\ PartOf(Targets[t]) = p
    BY <2>1 DEF CompleteCards
  <2>3. p \in wflg
    BY <1>1, <2>1, <2>2, TargetsAre DEF PassedRight, Passed
  <2> QED
    BY <1>1, <2>1, <2>3 DEF PartsRight, InFlash, Updates
<1>2. UpdaterInv => InstalledIsWhole
  BY <1>1 DEF InstalledIsWhole
<1> QED
  BY <1>2, InvHolds, PTL

(* updater.sh.src:423-426: for any image size, a version block is given a  *)
(* release of a part only at that part's turn and with its whole image in  *)
(* the flash; neither block loses the other part's release.                *)
THEOREM VersionsAreWritten ==
  ASSUME Silent = FALSE
  PROVE  Spec => VersionIsWritten
<1> DEFINE Step == \A b \in Block, p \in Part :
                     block'[b][p] # block[b][p] => p = Now /\ Whole(p, block'[b][p])
<1>1. ASSUME UpdaterInv, [Next]_vars
      PROVE  [Step]_vars
  <2>1. CASE Commit
    <3>1. /\ Blocks[pos] \in Block /\ block' = [block EXCEPT ![Blocks[pos]] = vtmp[Blocks[pos]]]
          /\ Whole(Now, card.release)
          /\ \A b \in Block : /\ vtmp[b][Now] = card.release
                              /\ \A p \in Part \ {Now} : vtmp[b][p] = block[b][p]
      BY <1>1, <2>1, BlocksAre DEF Commit, UpdaterInv, RomInv, ChunksRight, BlocksRight
    <3>2. block \in [Block -> [Part -> Release]]
      BY <1>1, TypeParts DEF UpdaterInv, RomType
    <3> QED
      BY <3>1, <3>2
  <2>2. CASE UNCHANGED block
    BY <2>2
  <2> QED
    BY <1>1, <2>1, <2>2, HonestSteps
    DEF Honest, Boot, Install, Skip, Take, Erase, Header, WriteChunk, ChunkFails, Written, Installed, Answer,
        homeformat, homerestore, Fill, homebackup, Save, Saves, flashresize, Reboot, PowerCut, rom, vars
<1>2. Spec => [][UpdaterInv /\ Next]_vars
  BY InvHolds, PTL DEF Spec
<1>3. [UpdaterInv /\ Next]_vars => [Step]_vars
  BY <1>1 DEF vars
<1> QED
  BY <1>2, <1>3, PTL DEF VersionIsWritten
=============================================================================
