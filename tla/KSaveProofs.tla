----------------------------- MODULE KSaveProofs -----------------------------
(***************************************************************************)
(* For any number of processes, names and saves: no configuration that     *)
(* was saved is lost, and no save touches what another one writes, as long *)
(* as the disk has room.                                                   *)
(***************************************************************************)
EXTENDS KSave, TLAPS

(* What is about to be renamed into place is whole: nobody else writes to  *)
(* the temporary file of a process.                                        *)
OwnWhole == \A p \in Proc : pc[p] \in {"backup", "rename"} => temp[p] = conf[p]

Inv == TypeOK /\ OwnWhole /\ LastIsKept

LEMMA Room ==
  ASSUME DiskFull = FALSE
  PROVE  /\ Written = Config /\ Written \ Config = {} /\ Missing \in Config
<1>1. Written = Config
  BY DEF Written
<1> QED
  BY <1>1, KSaveAssumption DEF Config, Missing

LEMMA InvInit ==
  ASSUME DiskFull = FALSE, Init
  PROVE  Inv
<1> USE DEF Init
<1>1. Missing \in Config /\ saves \in Config
  BY Room DEF Missing
<1>2. TypeOK
  BY <1>1, Room DEF TypeOK
<1>3. OwnWhole /\ LastIsKept
  BY DEF OwnWhole, LastIsKept
<1> QED
  BY <1>2, <1>3 DEF Inv

LEMMA InvNext ==
  ASSUME DiskFull = FALSE, Inv, [Next]_vars
  PROVE  Inv'
<1> USE Room, KSaveAssumption DEF Inv, TypeOK, Goes
<1>1. ASSUME NEW p \in Proc, Begin(p)
      PROVE  Inv'
  <2>1. saves' \in Config
    BY <1>1 DEF Begin, Config
  <2>2. TypeOK'
    BY <1>1, <2>1 DEF Begin
  <2>3. OwnWhole'
    BY <1>1 DEF Begin, OwnWhole
  <2>4. LastIsKept'
    BY <1>1 DEF Begin, LastIsKept
  <2> QED
    BY <2>2, <2>3, <2>4
<1>2. ASSUME NEW p \in Proc, Open(p)
      PROVE  Inv'
  <2>1. TypeOK'
    BY <1>2 DEF Open, TmpName
  <2>2. OwnWhole'
    BY <1>2 DEF Open, OwnWhole, TmpName
  <2>3. LastIsKept'
    BY <1>2 DEF Open, LastIsKept
  <2> QED
    BY <2>1, <2>2, <2>3
<1>3. ASSUME NEW p \in Proc, Write(p)
      PROVE  Inv'
  <2>1. temp' = [temp EXCEPT ![p] = conf[p]]
    BY <1>3 DEF Write, TmpName
  <2>2. TypeOK'
    BY <1>3, <2>1 DEF Write
  <2>3. OwnWhole'
    BY <1>3, <2>1 DEF Write, OwnWhole
  <2>4. LastIsKept'
    BY <1>3 DEF Write, LastIsKept
  <2> QED
    BY <2>2, <2>3, <2>4
<1>4. ASSUME NEW p \in Proc, Backup(p)
      PROVE  Inv'
  <2>1. TypeOK'
    BY <1>4 DEF Backup, Moved
  <2>2. OwnWhole'
    BY <1>4 DEF Backup, OwnWhole
  <2>3. LastIsKept'
    BY <1>4 DEF Backup, Moved, LastIsKept
  <2> QED
    BY <2>1, <2>2, <2>3
<1>5. ASSUME NEW p \in Proc, Rename(p)
      PROVE  Inv'
  <2>1. temp[p] = conf[p]
    BY <1>5 DEF Rename, OwnWhole
  <2>2. TypeOK'
    BY <1>5, <2>1 DEF Rename, TmpName
  <2>3. OwnWhole'
    BY <1>5 DEF Rename, OwnWhole, TmpName
  <2>4. LastIsKept'
    BY <1>5, <2>1 DEF Rename, LastIsKept, TmpName
  <2> QED
    BY <2>2, <2>3, <2>4
<1>6. ASSUME NEW p \in Proc, Stop(p)
      PROVE  Inv'
  <2>1. TypeOK'
    BY <1>6 DEF Stop
  <2>2. OwnWhole'
    BY <1>6 DEF Stop, OwnWhole
  <2>3. LastIsKept'
    BY <1>6 DEF Stop, LastIsKept
  <2> QED
    BY <2>1, <2>2, <2>3
<1>7. CASE UNCHANGED vars
  BY <1>7 DEF vars, OwnWhole, LastIsKept
<1> QED
  BY <1>1, <1>2, <1>3, <1>4, <1>5, <1>6, <1>7 DEF Next

(* confdata.c:418-426: with room on the disk, whoever is killed wherever,  *)
(* the configuration that was saved last under a name is in its file, or   *)
(* in its backup while there is no file.                                   *)
THEOREM SavedIsKept ==
  ASSUME DiskFull = FALSE
  PROVE  Spec => []LastIsKept
<1>1. Init => Inv
  BY InvInit
<1>2. Inv /\ [Next]_vars => Inv'
  BY InvNext
<1>3. Inv => LastIsKept
  BY DEF Inv
<1> QED
  BY <1>1, <1>2, <1>3, PTL DEF Spec

(* confdata.c:281, 424: with room on the disk, a save puts nothing under a *)
(* name but what its process was to write there.                           *)
THEOREM SavedIsWhole ==
  ASSUME DiskFull = FALSE
  PROVE  Spec => NothingElse
<1> DEFINE Kept == \A f \in Name :
       /\ file'[f] \notin {file[f], Missing} =>
            \E p \in Proc : pc[p] = "rename" /\ name[p] = f /\ file'[f] = conf[p]
       /\ old'[f] \in {old[f], file[f]}
<1>1. Init => Inv
  BY InvInit
<1>2. Inv /\ [Next]_vars => Inv'
  BY InvNext
<1>3. ASSUME Inv, [Next]_vars
      PROVE  [Kept]_vars
  <2> USE <1>3 DEF Inv, TypeOK
  <2>1. ASSUME NEW p \in Proc, Backup(p)
        PROVE  Kept
    BY <2>1 DEF Backup, Moved
  <2>2. ASSUME NEW p \in Proc, Rename(p)
        PROVE  Kept
    <3>1. file' = [file EXCEPT ![name[p]] = conf[p]]
      BY <2>2 DEF Rename, OwnWhole, TmpName
    <3> QED
      BY <2>2, <3>1 DEF Rename
  <2>3. ASSUME NEW p \in Proc, Begin(p) \/ Open(p) \/ Write(p) \/ Stop(p)
        PROVE  Kept
    <3>1. UNCHANGED <<file, old>>
      BY <2>3 DEF Begin, Open, Write, Stop
    <3> QED
      BY <3>1
  <2> QED
    BY <2>1, <2>2, <2>3 DEF Next
<1> QED
  BY <1>1, <1>2, <1>3, PTL DEF Spec, NothingElse
=============================================================================
