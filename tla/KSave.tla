------------------------------- MODULE KSave -------------------------------
(***************************************************************************)
(* How conf_write replaces a configuration file: it writes a temporary     *)
(* file of its own, renames the old file to .old and the new one to the    *)
(* name asked for.  Several processes save at the same time, their opens   *)
(* and renames fail, and each may be killed between any two steps.         *)
(*                                                                         *)
(* A configuration is the number of the save it was made for.  autoconf.h  *)
(* and .config.cmd, which this builder does not read, are left out.        *)
(***************************************************************************)
EXTENDS Naturals

CONSTANTS
  Proc,      \* the processes
  Name,      \* the names that are saved to: .config and others
  MaxSaves,  \* bound
  DiskFull   \* whether the disk may be full

ASSUME KSaveAssumption == MaxSaves \in Nat /\ DiskFull \in BOOLEAN

VARIABLES
  file,      \* [Name -> Nat]: the configuration in the file, Missing if none
  old,       \* [Name -> Nat]: the same for name.old
  temp,      \* [Proc -> Nat]: .tmpconfig.<pid>
  pc, name, backup,  \* of every process: its step, and what it saves how
  conf,      \* [Proc -> Nat]: the configuration that it saves
  saves,     \* the number of saves so far
  last       \* [Name -> Nat]: history: the save that was finished last

vars == <<file, old, temp, pc, name, backup, conf, saves, last>>

Missing == 0
Partial == MaxSaves + 1    \* a file that is not, or not wholly, written
Config == 0..MaxSaves
Written == Config \cup (IF DiskFull THEN {Partial} ELSE {})

Init ==
  /\ file = [f \in Name |-> Missing] /\ old = file /\ last = file
  /\ temp = [p \in Proc |-> Missing] /\ conf = temp /\ saves = 0
  /\ pc = [p \in Proc |-> "idle"] /\ name \in [Proc -> Name] /\ backup = [p \in Proc |-> TRUE]

Goes(p, step) == pc' = [pc EXCEPT ![p] = step]

\* Only a name that is empty or ends in a slash is saved without a backup: the
\* default name that stands for it is recognised by its address.
Begin(p) ==
  /\ pc[p] = "idle" /\ saves < MaxSaves /\ saves' = saves + 1
  /\ conf' = [conf EXCEPT ![p] = saves']
  /\ \E f \in Name, b \in BOOLEAN :
       name' = [name EXCEPT ![p] = f] /\ backup' = [backup EXCEPT ![p] = b]
  /\ Goes(p, "open") /\ UNCHANGED <<file, old, temp, last>>

\* The process identifier is part of the temporary name.
OneForAll(p) == CHOOSE q \in Proc : TRUE    \* mutant
TmpName(p) == p
Open(p) ==
  /\ pc[p] = "open" /\ temp' = [temp EXCEPT ![TmpName(p)] = Partial] /\ Goes(p, "write")
  /\ UNCHANGED <<file, old, name, backup, conf, saves, last>>

\* No result of fprintf or fclose is looked at.
Write(p) ==
  /\ pc[p] = "write"
  /\ \E w \in {conf[p]} \cup (Written \ Config) : temp' = [temp EXCEPT ![TmpName(p)] = w]
  /\ Goes(p, IF backup[p] THEN "backup" ELSE "rename")
  /\ UNCHANGED <<file, old, name, backup, conf, saves, last>>

\* rename(name, name.old), without a look at the result
Lost(f) == file' = [file EXCEPT ![f] = Missing] /\ UNCHANGED old    \* mutant
Moved(f) == IF file[f] = Missing THEN UNCHANGED <<file, old>>
            ELSE /\ file' = [file EXCEPT ![f] = Missing]
                 /\ old' = [old EXCEPT ![f] = file[f]]
Backup(p) ==
  /\ pc[p] = "backup" /\ Goes(p, "rename")
  /\ Moved(name[p]) \/ UNCHANGED <<file, old>>
  /\ UNCHANGED <<temp, name, backup, conf, saves, last>>

Rename(p) ==
  /\ pc[p] = "rename" /\ temp[TmpName(p)] # Missing /\ Goes(p, "idle")
  /\ file' = [file EXCEPT ![name[p]] = temp[TmpName(p)]]
  /\ temp' = [temp EXCEPT ![TmpName(p)] = Missing]
  /\ last' = [last EXCEPT ![name[p]] = conf[p]]
  /\ UNCHANGED <<old, name, backup, conf, saves>>

\* a failing fopen or a failing last rename returns 1, a signal ends it all
Stop(p) ==
  /\ pc[p] # "idle" /\ Goes(p, "idle")
  /\ UNCHANGED <<file, old, temp, name, backup, conf, saves, last>>

Next == \E p \in Proc :
  Begin(p) \/ Open(p) \/ Write(p) \/ Backup(p) \/ Rename(p) \/ Stop(p)

Spec == Init /\ [][Next]_vars

-----------------------------------------------------------------------------
(* Files and backups hold whole configurations, unless the disk is full.   *)
TypeOK ==
  /\ file \in [Name -> Written] /\ old \in [Name -> Written] /\ last \in [Name -> Config]
  /\ temp \in [Proc -> Config \cup {Partial}] /\ conf \in [Proc -> Config]
  /\ pc \in [Proc -> {"idle", "open", "write", "backup", "rename"}]
  /\ name \in [Proc -> Name] /\ backup \in [Proc -> BOOLEAN] /\ saves \in Config

(* confdata.c:418-426: whoever is killed wherever, the configuration that  *)
(* was saved last under a name is there: in its file, or in the .old file  *)
(* while there is no other.                                                *)
LastIsKept == \A f \in Name : file[f] = last[f] \/ (file[f] = Missing /\ old[f] = last[f])

(* confdata.c:281, 424: what a save puts under a name is what that process *)
(* was to write there, and not a file half written or that of another; a   *)
(* backup only ever takes what was in the file.                            *)
NothingElse ==
  [][\A f \in Name :
       /\ file'[f] \notin {file[f], Missing} =>
            \E p \in Proc : pc[p] = "rename" /\ name[p] = f /\ file'[f] = conf[p]
       /\ old'[f] \in {old[f], file[f]}]_vars
=============================================================================
