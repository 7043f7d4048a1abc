--------------------------- MODULE PackagesProofs ---------------------------
(***************************************************************************)
(* Proofs about the package manager, for every set of packages, files and  *)
(* versions and every dependency graph.                                    *)
(*                                                                         *)
(* What a command has done with a package stays so until the command ends: *)
(* the invariant follows the package it works on through the steps of its  *)
(* installation, and says which of them are behind it, whether they failed *)
(* or not.  It carries over to what the status file says of all packages.  *)
(***************************************************************************)
EXTENDS Packages, TLAPS, FiniteSetTheorems, SequenceTheorems

Removing == {"prerm", "files", "postrm", "purge"}
Installing == {"check", "unpack", "list", "postinst", "forget", "record"}

\* which packages a command is about, at each of its steps
Progress ==
  /\ pc \in {"idle", "next", "mark", "fetch"} \cup Installing \cup Removing
  /\ pc \in {"idle"} \cup Removing => batch = {}
  /\ pc = "mark" => batch \subseteq ToSet(pkgs)
  /\ pc \in Installing \cup Removing => pkgs # << >>

\* the steps behind the package that is being installed
Written ==
  /\ pc \in {"list", "postinst", "forget", "record"} =>
       FilesOf(Head(pkgs)) \subseteq onDisk
  /\ pc \in {"postinst", "forget", "record"} /\ Head(pkgs) \notin lost =>
       list[Head(pkgs)] = FilesOf(Head(pkgs))

Types == TypeOK /\ avail_ver \in Version
Whole == Types /\ Progress /\ Written /\ DoneIsWhole

\* the lists name files of their own package only
OwnLists == \A p \in Pkg : list[p] # NoList => list[p] \subseteq OwnFiles(p)
There == Whole /\ OwnLists /\ InstalledIsThere

-----------------------------------------------------------------------------
(* Sequences of packages. *)

(* The packages of a list that is not empty are its first one and those of *)
(* the rest.                                                               *)
LEMMA HeadAndTail ==
  ASSUME NEW s \in Seq(Pkg), s # << >>
  PROVE  /\ Head(s) \in ToSet(s) /\ Head(s) \in Pkg /\ Tail(s) \in Seq(Pkg)
         /\ ToSet(s) = {Head(s)} \cup ToSet(Tail(s))
<1>1. /\ Len(s) \in Nat \ {0} /\ DOMAIN s = 1..Len(s) /\ \A i \in 1..Len(s) : s[i] \in Pkg
      /\ Tail(s) \in Seq(Pkg) /\ DOMAIN Tail(s) = 1..(Len(s) - 1) /\ Head(s) = s[1]
      /\ \A i \in 1..(Len(s) - 1) : Tail(s)[i] = s[i + 1]
  OBVIOUS
<1>2. ToSet(s) \subseteq {Head(s)} \cup ToSet(Tail(s))
  <2> SUFFICES ASSUME NEW i \in 1..Len(s), i # 1 PROVE s[i] \in ToSet(Tail(s))
    BY <1>1 DEF ToSet
  <2>1. i - 1 \in 1..(Len(s) - 1) /\ Tail(s)[i - 1] = s[i]
    BY <1>1
  <2> QED BY <1>1, <2>1 DEF ToSet
<1>3. ToSet(Tail(s)) \subseteq ToSet(s)
  <2> SUFFICES ASSUME NEW i \in 1..(Len(s) - 1) PROVE Tail(s)[i] \in ToSet(s)
    BY <1>1 DEF ToSet
  <2>1. i + 1 \in 1..Len(s) /\ Tail(s)[i] = s[i + 1]
    BY <1>1
  <2> QED BY <1>1, <2>1 DEF ToSet
<1>4. Head(s) \in ToSet(s)
  BY <1>1 DEF ToSet
<1> QED BY <1>1, <1>2, <1>3, <1>4

(* A set of packages can be put in a sequence.                             *)
LEMMA SetToSeqType ==
  ASSUME IpkgAssumption, NEW S \in SUBSET Pkg
  PROVE  SetToSeq(S) \in Seq(Pkg)
<1>1. IsFiniteSet(S) /\ Cardinality(S) \in Nat
  BY FS_Subset, FS_CardinalityType DEF IpkgAssumption
<1>2. PICK f \in [1..Cardinality(S) -> S] : IsInjective(f)
  <2>1. ExistsBijection(1..Cardinality(S), S)
    BY <1>1, FS_CardinalityType
  <2>2. PICK f \in Bijection(1..Cardinality(S), S) : TRUE
    BY <2>1 DEF ExistsBijection
  <2> QED BY <2>2 DEF Bijection, Injection, IsInjective
<1>3. SetToSeq(S) \in [1..Cardinality(S) -> S]
  BY <1>2 DEF SetToSeq
<1> QED BY <1>1, <1>3, SeqDef

(* What is to be installed with a package is a sequence of packages.       *)
LEMMA DependsType ==
  ASSUME IpkgAssumption, NEW p \in Pkg, NEW s \in ipkg_depends(p)
  PROVE  s \in Seq(Pkg)
<1>1. Closure(p) \subseteq Pkg
  BY DEF Closure
<1>2. Cardinality(Closure(p)) \in Nat
  BY <1>1, FS_Subset, FS_CardinalityType DEF IpkgAssumption
<1>3. s \in [1..Cardinality(Closure(p)) -> Closure(p)]
  BY DEF ipkg_depends, SetToSeqs
<1>4. s \in [1..Cardinality(Closure(p)) -> Pkg]
  BY <1>1, <1>3
<1> QED BY <1>2, <1>4, SeqDef

-----------------------------------------------------------------------------
(* The invariant. *)

(* Nothing is installed or running at the start.                           *)
LEMMA InitWhole == IpkgAssumption /\ Init => Whole
<1> SUFFICES ASSUME IpkgAssumption, Init PROVE Whole
  OBVIOUS
<1>1. Types
  <2>1. list \in [Pkg -> (SUBSET File) \cup {NoList}] /\ onDisk \subseteq File
    <3>1. NoList \in (SUBSET File) \cup {NoList}
      BY Zenon
    <3> QED BY <3>1 DEF Init
  <2>2. /\ args \in Seq(Pkg) /\ pkgs \in Seq(Pkg) /\ batch \subseteq Pkg
        /\ upgrade \in {"no", "asked", "now"}
    BY EmptySeq DEF Init
  <2>3. \A p \in Pkg : p \in Installed <=> inst_ver[p] # 0
    BY DEF Init, Installed
  <2>4. /\ status \in [Pkg -> {"absent", "wanted", "installed"}]
        /\ inst_ver \in [Pkg -> Version \cup {0}] /\ avail_ver \in Version
    BY DEF Init, IpkgAssumption
  <2> QED BY <2>1, <2>2, <2>3, <2>4 DEF Types, TypeOK
<1>2. Progress /\ Written /\ DoneIsWhole
  BY DEF Init, Progress, Written, DoneIsWhole, Removing, Installing
<1> QED BY <1>1, <1>2 DEF Whole

(* A status file that is written anew, whole or not, has what is kept and  *)
(* nothing else that is installed.                                         *)
LEMMA StatusFileKeeps ==
  ASSUME Types, NEW kept, NEW marked, StatusFile(kept, marked)
  PROVE  /\ status' \in [Pkg -> {"absent", "wanted", "installed"}]
         /\ inst_ver' \in [Pkg -> Version \cup {0}]
         /\ \A p \in Pkg : status'[p] = "installed" <=> inst_ver'[p] # 0
         /\ \A p \in Pkg : status'[p] = "installed" => status[p] = "installed" /\ p \in kept
         /\ \A p \in Pkg : p \in kept => status'[p] = status[p] /\ inst_ver'[p] = inst_ver[p]
<1>1. \A p \in Pkg : /\ status'[p] = (IF p \in kept THEN status[p]
                                       ELSE IF p \in marked THEN "wanted" ELSE "absent")
                      /\ inst_ver'[p] = (IF p \in kept THEN inst_ver[p] ELSE 0)
  BY DEF StatusFile
<1>2. \A p \in Pkg : status[p] = "installed" <=> inst_ver[p] # 0
  BY DEF Types, TypeOK, Installed
<1>3. /\ status' \in [Pkg -> {"absent", "wanted", "installed"}]
      /\ inst_ver' \in [Pkg -> Version \cup {0}]
  BY DEF StatusFile, Types, TypeOK
<1> QED BY <1>1, <1>2, <1>3

(* What a command adds or removes has the type of what it is kept in.      *)
LEMMA NextTypes ==
  ASSUME IpkgAssumption, Whole, Next
  PROVE  Types'
<1> USE DEF Whole, Types, Installed
<1>h. pkgs # << >> => Head(pkgs) \in Pkg /\ Tail(pkgs) \in Seq(Pkg)
  BY HeadAndTail DEF TypeOK
<1>a. args # << >> => Head(args) \in Pkg /\ Tail(args) \in Seq(Pkg)
  BY HeadAndTail DEF TypeOK
<1>f. \A p \in Pkg : FilesOf(p) \subseteq File
  BY DEF FilesOf, IpkgAssumption
<1>w. pc \in Installing \cup Removing => pkgs # << >>
  BY DEF Progress
<1> DEFINE ProcType == /\ args \in Seq(Pkg) /\ pkgs \in Seq(Pkg) /\ batch \subseteq Pkg
                       /\ upgrade \in {"no", "asked", "now"}
<1>0. /\ Exits => ProcType'
      /\ \A step : Goes(step) => ProcType'
      /\ GoesOn /\ pkgs # << >> => ProcType'
  <2>1. Exits => ProcType'
    BY EmptySeq DEF Exits
  <2>2. \A step : Goes(step) => ProcType'
    BY DEF Goes, TypeOK
  <2>3. GoesOn /\ pkgs # << >> => ProcType'
    BY <1>h DEF GoesOn, TypeOK
  <2> QED BY <2>1, <2>2, <2>3
<1>s. ASSUME NEW kept, NEW marked, StatusFile(kept, marked), ProcType',
             UNCHANGED <<list, onDisk, avail_ver>>
      PROVE  Types'
  BY <1>s, StatusFileKeeps DEF TypeOK
<1>1. CASE GetInstall
  <2> USE <1>1 DEF GetInstall
  <2>1. CASE args = << >>
    BY <2>1, <1>0 DEF disk, TypeOK
  <2>2. CASE args # << >>
    <3>1. pkgs' \in Seq(Pkg)
      BY <2>2, <1>a, DependsType
    <3>2. ToSet(pkgs') \subseteq Pkg
      BY <3>1 DEF ToSet
    <3> QED BY <2>2, <3>1, <3>2, <1>a DEF disk, TypeOK
  <2> QED BY <2>1, <2>2
<1>2. CASE Mark
  BY <1>2, <1>s, <1>0 DEF Mark, MarkWanted
<1>3. CASE Fetch \/ Check \/ postinst \/ prerm
  BY <1>3, <1>0 DEF Fetch, Check, postinst, prerm, Goes, disk, TypeOK
<1>4. CASE Unpack
  BY <1>4, <1>f, <1>h, <1>w DEF Unpack, Unpacked, Goes, TypeOK, At, Installing
<1>5. CASE UnpackFails
  <2>1. Head(pkgs) \in Pkg
    BY <1>5, <1>h, <1>w DEF UnpackFails, At, Installing
  <2>2. onDisk' \subseteq File
    BY <1>5, <2>1, <1>f DEF UnpackFails, TypeOK
  <2> QED BY <1>5, <2>2, <1>0 DEF UnpackFails, AfterBadUnpack, TypeOK
<1>6. CASE List \/ ListFails \/ ListIsShort \/ Purge
  <2>1. list' \in [Pkg -> (SUBSET File) \cup {NoList}]
    <3>1. \E new \in (SUBSET File) \cup {NoList} : list' = [list EXCEPT ![Head(pkgs)] = new]
      <4>1. CASE List
        <5>1. FilesOf(Head(pkgs)) \in SUBSET File
          BY <4>1, <1>f, <1>h, <1>w DEF List, At, Installing
        <5> QED BY <4>1, <5>1, Zenon DEF List
      <4>2. CASE ListFails \/ Purge
        <5>1. list' = [list EXCEPT ![Head(pkgs)] = NoList]
          BY <4>2 DEF ListFails, Purge
        <5> QED BY <5>1, Zenon
      <4>3. CASE ListIsShort
        <5>1. PICK some \in SUBSET FilesOf(Head(pkgs)) : list' = [list EXCEPT ![Head(pkgs)] = some]
          BY <4>3 DEF ListIsShort
        <5>2. some \in SUBSET File
          BY <4>3, <1>f, <1>h, <1>w DEF ListIsShort, At, Installing
        <5> QED BY <5>1, <5>2, Zenon
      <4> QED BY <1>6, <4>1, <4>2, <4>3
    <3> QED BY <3>1 DEF TypeOK
  <2>2. ProcType'
    BY <1>6, <1>0 DEF List, ListFails, ListIsShort, Purge
  <2>3. UNCHANGED <<status, inst_ver, onDisk, avail_ver>>
    BY <1>6 DEF List, ListFails, ListIsShort, Purge
  <2> QED BY <2>1, <2>2, <2>3 DEF TypeOK
<1>7. CASE StatusRemove \/ postrm \/ StatusIsShort \/ MarkFails
  <2>1. \E kept, marked : StatusFile(kept, marked)
    BY <1>7 DEF StatusRemove, postrm, StatusIsShort, MarkFails
  <2>2. ProcType' /\ UNCHANGED <<list, onDisk, avail_ver>>
    BY <1>7, <1>0 DEF StatusRemove, postrm, StatusIsShort, MarkFails
  <2> QED BY <2>1, <2>2, <1>s
<1>8. CASE StatusAppend
  <2>1. pkgs # << >> /\ Head(pkgs) \in Pkg
    BY <1>8, <1>h, <1>w DEF StatusAppend, At, Installing
  <2>2. ProcType'
    BY <1>8, <2>1, <1>0 DEF StatusAppend
  <2> QED BY <1>8, <2>1, <2>2 DEF StatusAppend, Recorded, TypeOK, IpkgAssumption
<1>9. CASE RemoveFile
  BY <1>9 DEF RemoveFile, Goes, proc, TypeOK
<1>10. CASE NotFound \/ StepFails \/ Kill \/ AppendFails
  <2>1. ProcType'
    BY <1>10, <1>0, <1>w DEF NotFound, StepFails, Kill, AppendFails, At, Installing
  <2> QED BY <1>10, <2>1 DEF NotFound, StepFails, Kill, AppendFails, disk, TypeOK
<1>11. CASE ListInstalled \/ UpToDate
  <2>1. SetToSeq(Installed) \in Seq(Pkg)
    BY SetToSeqType
  <2> QED BY <1>11, <2>1, <1>a DEF ListInstalled, UpToDate, disk, TypeOK
<1>12. ASSUME NEW packages \in Seq(Pkg), NEW up \in {"no", "asked"}, Starts(packages, up)
       PROVE  Types'
  <2>1. SetToSeq(Wanted) \in Seq(Pkg)
    BY SetToSeqType DEF Wanted
  <2>2. args' \in Seq(Pkg)
    <3>1. PICK first \in {<< >>, SetToSeq(Wanted)} : args' = first \o packages
      BY <1>12 DEF Starts
    <3>2. first \in Seq(Pkg)
      BY <2>1, EmptySeq
    <3> QED BY <3>1, <3>2, ConcatProperties
  <2> QED BY <1>12, <2>2 DEF Starts, disk, TypeOK
<1>13. CASE ipkg_upgrade
  <2>1. << >> \in Seq(Pkg)
    BY EmptySeq
  <2> QED BY <1>13, <2>1, <1>12 DEF ipkg_upgrade
<1>14. ASSUME NEW p \in Pkg, ipkg_install(p)
       PROVE  Types'
  <2>1. <<p>> \in Seq(Pkg)
    OBVIOUS
  <2> QED BY <1>14, <1>12, <2>1 DEF ipkg_install
<1>15. ASSUME NEW p \in Pkg, ipkg_remove(p)
       PROVE  Types'
  <2>1. ProcType' /\ UNCHANGED <<list, onDisk, avail_ver>>
    <3>1. <<p>> \in Seq(Pkg)
      OBVIOUS
    <3> QED BY <1>15, <3>1 DEF ipkg_remove, proc, TypeOK
  <2>2. CASE StatusFile(Others(p), {})
    BY <2>1, <2>2, <1>s
  <2>3. CASE UNCHANGED <<status, inst_ver>>
    BY <2>1, <2>3 DEF TypeOK
  <2> QED BY <1>15, <2>2, <2>3 DEF ipkg_remove
<1>16. CASE ipkg_update
  BY <1>16 DEF ipkg_update, disk, proc, TypeOK
<1> QED
  BY <1>1, <1>2, <1>3, <1>4, <1>5, <1>6, <1>7, <1>8, <1>9, <1>10, <1>11, <1>13, <1>14, <1>15, <1>16
     DEF Next, Steps, Faults, User

(* Each step of a command leads to the next one, with its package.         *)
LEMMA NextProgress ==
  ASSUME IpkgAssumption, Whole, Next
  PROVE  Progress'
<1> USE DEF Whole, Types, Progress, Removing, Installing
<1>0. Exits => Progress'
  BY DEF Exits
<1>1. CASE GetInstall \/ ListInstalled \/ UpToDate
  BY <1>1, <1>0 DEF GetInstall, ListInstalled, UpToDate, At
<1>2. CASE Mark \/ Fetch \/ Check \/ Unpack \/ List \/ postinst \/ StatusRemove
  BY <1>2, <1>0
     DEF Mark, Fetch, Fetched, Check, Unpack, List, postinst, StatusRemove, At, Goes
<1>3. CASE StatusAppend \/ AppendFails
  BY <1>3 DEF StatusAppend, AppendFails, GoesOn, At
<1>4. CASE prerm \/ RemoveFile \/ postrm \/ Purge
  BY <1>4, <1>0 DEF prerm, RemoveFile, postrm, Purge, proc, At, Goes
<1>5. CASE NotFound \/ StepFails \/ UnpackFails \/ ListFails \/ Kill
  BY <1>5, <1>0 DEF NotFound, StepFails, UnpackFails, AfterBadUnpack, ListFails, Kill
<1>6. CASE MarkFails \/ ListIsShort \/ StatusIsShort
  BY <1>6, <1>0 DEF MarkFails, ListIsShort, StatusIsShort, At, Goes
<1>7. CASE \E packages, up : Starts(packages, up)
  BY <1>7 DEF Starts, Idle
<1>8. ASSUME NEW p \in Pkg, ipkg_remove(p)
      PROVE  Progress'
  BY <1>8 DEF ipkg_remove, Idle, proc
<1>9. CASE ipkg_update
  BY <1>9 DEF ipkg_update, Idle, proc
<1> QED
  BY <1>1, <1>2, <1>3, <1>4, <1>5, <1>6, <1>7, <1>8, <1>9
     DEF Next, Steps, Faults, User, ipkg_install, ipkg_upgrade

(* The files of a package are unpacked, then listed, then recorded.        *)
LEMMA NextWritten ==
  ASSUME IpkgAssumption, Whole, Next
  PROVE  Written'
<1> USE DEF Whole, Types
<1>h. pkgs # << >> => Head(pkgs) \in Pkg
  BY HeadAndTail DEF TypeOK
<1>0. pc' \notin {"list", "postinst", "forget", "record"} => Written'
  BY DEF Written
<1>1. CASE GetInstall \/ ListInstalled \/ UpToDate \/ Mark \/ Fetch \/ Check \/ StatusAppend
           \/ AppendFails
  BY <1>1, <1>0
     DEF GetInstall, ListInstalled, UpToDate, Mark, Fetch, Check, StatusAppend, AppendFails,
         GoesOn, Goes, Exits, At
<1>2. CASE Unpack
  BY <1>2 DEF Unpack, Unpacked, Goes, FilesOf, Written
<1>3. CASE List
  <2>1. Head(pkgs) \in Pkg
    BY <1>3, <1>h DEF List, At, Progress, Installing
  <2>2. list'[Head(pkgs)] = FilesOf(Head(pkgs))
    BY <1>3, <2>1, Zenon DEF List, TypeOK
  <2> QED BY <1>3, <2>2 DEF List, At, Goes, FilesOf, Written
<1>4. CASE ListIsShort
  <2>1. CASE Exits
    BY <2>1, <1>0 DEF Exits
  <2>2. CASE Goes("postinst")
    BY <1>4, <2>2 DEF ListIsShort, At, Goes, FilesOf, Written
  <2> QED BY <1>4, <2>1, <2>2 DEF ListIsShort
<1>5. CASE postinst \/ StatusRemove \/ StatusIsShort
  BY <1>5 DEF postinst, StatusRemove, StatusIsShort, disk, history, At, Goes, FilesOf, Written
<1>6. CASE prerm \/ RemoveFile \/ postrm \/ Purge
  BY <1>6, <1>0 DEF prerm, RemoveFile, postrm, Purge, proc, At, Goes, Exits
<1>7. CASE NotFound \/ StepFails \/ MarkFails \/ UnpackFails \/ ListFails \/ Kill
  BY <1>7, <1>0
     DEF NotFound, StepFails, MarkFails, UnpackFails, AfterBadUnpack, ListFails, Kill, Exits, Goes
<1>8. CASE User
  BY <1>8, <1>0
     DEF User, ipkg_install, ipkg_upgrade, ipkg_update, ipkg_remove, Starts, Idle, proc
<1> QED
  BY <1>1, <1>2, <1>3, <1>4, <1>5, <1>6, <1>7, <1>8 DEF Next, Steps, Faults

\* a package a command is done with
Complete(p) ==
  /\ FilesOf(p) \subseteq onDisk
  /\ p \notin lost => /\ status[p] = "installed" /\ inst_ver[p] = avail_ver
                     /\ list[p] = FilesOf(p)

Working == Installing \cup {"fetch", "next"}

(* What a command is done with is not touched while it goes on with the    *)
(* other packages of the batch, but for what is lost on a full disk.       *)
LEMMA NextComplete ==
  ASSUME IpkgAssumption, Whole, Next, pc \in Working, pc' \in Working,
         NEW p \in Pkg, p # Head(pkgs), Complete(p)
  PROVE  Complete(p)'
<1> USE DEF Whole, Types, Working, Installing
<1>1. CASE GetInstall \/ ListInstalled \/ UpToDate \/ Fetch \/ Check \/ postinst
  BY <1>1
     DEF GetInstall, ListInstalled, UpToDate, Fetch, Check, postinst, disk, history, Complete, FilesOf
<1>2. CASE Unpack
  BY <1>2 DEF Unpack, Unpacked, history, Complete, FilesOf
<1>3. CASE List \/ ListIsShort
  <2>1. list'[p] = list[p]
    BY <1>3, Zenon DEF List, ListIsShort, TypeOK
  <2>2. UNCHANGED <<status, inst_ver, onDisk, avail_ver>> /\ (p \in lost => p \in lost')
    BY <1>3 DEF List, ListIsShort
  <2> QED BY <2>1, <2>2 DEF Complete, FilesOf
<1>4. CASE StatusRemove \/ StatusIsShort
  <2>1. PICK kept \in SUBSET Others(Head(pkgs)) :
          /\ StatusFile(kept, {}) /\ lost \subseteq lost'
          /\ Others(Head(pkgs)) \ kept \subseteq lost'
    <3>1. CASE StatusRemove
      BY <3>1 DEF StatusRemove, history
    <3>2. CASE StatusIsShort
      BY <3>2 DEF StatusIsShort
    <3> QED BY <1>4, <3>1, <3>2
  <2>2. p \notin lost' => p \in kept
    BY <2>1 DEF Complete, Others, Mentioned
  <2>3. p \in kept => status'[p] = status[p] /\ inst_ver'[p] = inst_ver[p]
    BY <2>1, StatusFileKeeps
  <2>4. UNCHANGED <<list, onDisk, avail_ver>>
    BY <1>4 DEF StatusRemove, StatusIsShort
  <2> QED BY <2>1, <2>2, <2>3, <2>4 DEF Complete, FilesOf
<1>5. CASE StatusAppend
  BY <1>5 DEF StatusAppend, Recorded, TypeOK, Complete, FilesOf
<1>6. CASE AppendFails
  BY <1>6 DEF AppendFails, disk, Complete, FilesOf
<1>7. CASE Mark \/ prerm \/ RemoveFile \/ postrm \/ Purge \/ MarkFails
  BY <1>7 DEF Mark, prerm, RemoveFile, postrm, Purge, MarkFails, At
<1>8. CASE NotFound \/ StepFails \/ UnpackFails \/ ListFails \/ Kill
  BY <1>8 DEF NotFound, StepFails, UnpackFails, AfterBadUnpack, ListFails, Kill, Exits
<1>9. CASE User
  BY <1>9
     DEF User, ipkg_install, ipkg_upgrade, ipkg_update, ipkg_remove, Starts, Idle
<1> QED
  BY <1>1, <1>2, <1>3, <1>4, <1>5, <1>6, <1>7, <1>8, <1>9 DEF Next, Steps, Faults

(* Between the commands, and at their start, nothing is done.              *)
LEMMA NextDone ==
  ASSUME IpkgAssumption, Whole, Next
  PROVE  DoneIsWhole'
<1> USE DEF Whole, Types, Installing
<1>h. pkgs # << >> => /\ Head(pkgs) \in Pkg /\ Head(pkgs) \in ToSet(pkgs)
                      /\ ToSet(pkgs) = {Head(pkgs)} \cup ToSet(Tail(pkgs))
  BY HeadAndTail DEF TypeOK
<1>e. ASSUME pkgs = << >>
      PROVE  ToSet(pkgs) = {}
  BY <1>e DEF ToSet
<1> SUFFICES ASSUME pc' \in Working, NEW p \in batch' \ ToSet(pkgs)'
             PROVE  Complete(p)'
  BY DEF DoneIsWhole, Complete, Working
<1> USE DEF Working
<1>p. p \in Pkg
  BY NextTypes DEF TypeOK
<1>0. ASSUME pc \in Working, UNCHANGED <<batch, pkgs>>, pkgs # << >>
      PROVE  Complete(p)'
  <2>1. p # Head(pkgs)
    BY <1>0, <1>h
  <2>2. Complete(p)
    BY <1>0 DEF DoneIsWhole, Complete
  <2> QED BY <1>0, <1>p, <2>1, <2>2, NextComplete
<1>1. CASE GetInstall
  BY <1>1 DEF GetInstall, Exits
<1>2. CASE Mark \/ MarkFails
  BY <1>2 DEF Mark, MarkFails, At, Goes, Exits, Progress
<1>3. CASE Fetch
  <2>1. CASE pkgs = << >>
    <3>1. Complete(p)
      BY <1>3, <2>1, <1>e DEF Fetch, Goes, At, DoneIsWhole, Complete
    <3> QED BY <1>3, <3>1 DEF Fetch, disk, history, Complete, FilesOf
  <2>2. CASE pkgs # << >>
    BY <1>3, <2>2, <1>0 DEF Fetch, Goes, At
  <2> QED BY <2>1, <2>2
<1>4. CASE ListInstalled \/ UpToDate
  <2>1. Complete(p)
    BY <1>4 DEF ListInstalled, UpToDate, At, DoneIsWhole, Complete
  <2> QED BY <1>4, <2>1 DEF ListInstalled, UpToDate, disk, history, Complete, FilesOf
<1>5. CASE Check \/ Unpack \/ List \/ ListIsShort \/ postinst \/ StatusRemove \/ StatusIsShort
  BY <1>5, <1>0
     DEF Check, Unpack, List, ListIsShort, postinst, StatusRemove, StatusIsShort, At, Goes, Exits,
         Progress
<1>6. CASE StatusAppend \/ AppendFails
  <2>1. pkgs # << >> /\ pc = "record" /\ batch' = batch /\ pkgs' = Tail(pkgs)
    BY <1>6 DEF StatusAppend, AppendFails, GoesOn, At, Progress
  <2>2. CASE p = Head(pkgs)
    BY <1>6, <2>1, <2>2, <1>p
       DEF StatusAppend, AppendFails, Recorded, TypeOK, Written, disk, Complete, FilesOf
  <2>3. CASE p # Head(pkgs)
    <3>1. p \notin ToSet(pkgs)
      BY <2>1, <2>3, <1>h
    <3>2. Complete(p)
      BY <2>1, <3>1 DEF DoneIsWhole, Complete
    <3> QED BY <1>p, <2>1, <2>3, <3>2, NextComplete
  <2> QED BY <2>2, <2>3
<1>7. CASE prerm \/ RemoveFile \/ postrm \/ Purge
  BY <1>7 DEF prerm, RemoveFile, postrm, Purge, proc, At, Goes, Exits
<1>8. CASE NotFound \/ StepFails \/ UnpackFails \/ ListFails \/ Kill
  BY <1>8 DEF NotFound, StepFails, UnpackFails, AfterBadUnpack, ListFails, Kill, Exits
<1>9. CASE User
  BY <1>9
     DEF User, ipkg_install, ipkg_upgrade, ipkg_update, ipkg_remove, Starts, Idle, proc,
         Progress
<1> QED
  BY <1>1, <1>2, <1>3, <1>4, <1>5, <1>6, <1>7, <1>8, <1>9 DEF Next, Steps, Faults

(* Every state is as the invariant says.                                   *)
THEOREM WholeHolds == IpkgAssumption => (Spec => []Whole)
<1> SUFFICES ASSUME IpkgAssumption PROVE Spec => []Whole
  OBVIOUS
<1>1. Init => Whole
  BY InitWhole
<1>2. Whole /\ [Next]_vars => Whole'
  <2> SUFFICES ASSUME Whole, [Next]_vars PROVE Whole'
    OBVIOUS
  <2>1. CASE Next
    BY <2>1, NextTypes, NextProgress, NextWritten, NextDone DEF Whole
  <2>2. CASE UNCHANGED vars
    BY <2>2
       DEF vars, disk, proc, history, Whole, Types, TypeOK, Installed, Progress, Written,
           DoneIsWhole, FilesOf
  <2> QED BY <2>1, <2>2
<1> QED BY <1>1, <1>2, PTL DEF Spec

(* ipkg:591-634: whatever was left by commands that failed or were killed, *)
(* whatever writes fail unnoticed, and however the dependencies, files and *)
(* versions are, what the running command is done with is whole, but for   *)
(* what was just lost of it.                                               *)
THEOREM DoneStaysWhole == IpkgAssumption => (Spec => []DoneIsWhole)
<1>1. Whole => DoneIsWhole
  BY DEF Whole
<1> QED BY <1>1, WholeHolds, PTL

-----------------------------------------------------------------------------
(* What the status file says of the files. *)

LEMMA OwnFilesHave ==
  ASSUME IpkgAssumption, NEW p \in Pkg, NEW v \in Version
  PROVE  Contents[p][v] \subseteq OwnFiles(p)
BY DEF OwnFiles, IpkgAssumption

(* The list of a package is made from the package.                         *)
LEMMA NextOwnLists ==
  ASSUME IpkgAssumption, Whole, OwnLists, Next
  PROVE  OwnLists'
<1> USE DEF Whole, Types
<1>h. pkgs # << >> => Head(pkgs) \in Pkg
  BY HeadAndTail DEF TypeOK
<1>f. \A p \in Pkg : FilesOf(p) \subseteq OwnFiles(p)
  BY OwnFilesHave DEF FilesOf
<1>1. CASE UNCHANGED list
  BY <1>1 DEF OwnLists
<1>2. ASSUME NEW new, list' = [list EXCEPT ![Head(pkgs)] = new],
             new # NoList => new \subseteq OwnFiles(Head(pkgs))
      PROVE  OwnLists'
  <2> SUFFICES ASSUME NEW p \in Pkg, list'[p] # NoList PROVE list'[p] \subseteq OwnFiles(p)
    BY DEF OwnLists
  <2>1. CASE p = Head(pkgs)
    <3>1. list'[p] = new
      BY <1>2, <2>1, Zenon DEF TypeOK
    <3> QED BY <1>2, <2>1, <3>1
  <2>2. CASE p # Head(pkgs)
    <3>1. list'[p] = list[p]
      BY <1>2, <2>2, Zenon DEF TypeOK
    <3> QED BY <3>1 DEF OwnLists
  <2> QED BY <2>1, <2>2
<1>3. CASE List
  <2>1. Head(pkgs) \in Pkg
    BY <1>3, <1>h DEF List, At, Progress, Installing
  <2>2. list' = [list EXCEPT ![Head(pkgs)] = FilesOf(Head(pkgs))]
    BY <1>3 DEF List
  <2> QED BY <2>1, <2>2, <1>2, <1>f
<1>4. CASE ListIsShort
  <2>1. Head(pkgs) \in Pkg
    BY <1>4, <1>h DEF ListIsShort, At, Progress, Installing
  <2>2. PICK some \in SUBSET FilesOf(Head(pkgs)) : list' = [list EXCEPT ![Head(pkgs)] = some]
    BY <1>4 DEF ListIsShort
  <2>3. some \subseteq OwnFiles(Head(pkgs))
    BY <2>1, <1>f
  <2> QED BY <2>2, <2>3, <1>2
<1>5. CASE ListFails \/ Purge
  <2>1. list' = [list EXCEPT ![Head(pkgs)] = NoList]
    BY <1>5 DEF ListFails, Purge
  <2> QED BY <2>1, <1>2
<1> QED
  BY <1>1, <1>3, <1>4, <1>5
     DEF Next, Steps, Faults, User, GetInstall, ListInstalled, UpToDate, Mark, Fetch, Check, Unpack,
         postinst, StatusRemove, StatusAppend, prerm, RemoveFile, postrm, NotFound, StepFails,
         MarkFails, UnpackFails, StatusIsShort, AppendFails, Kill, ipkg_install, ipkg_upgrade,
         ipkg_update, ipkg_remove, Starts, disk

(* Files come before the paragraph that speaks of them, and only what is   *)
(* begun takes any away.                                                   *)
LEMMA NextThere ==
  ASSUME IpkgAssumption, DistinctFiles, There, Next
  PROVE  InstalledIsThere'
<1> USE DEF There, Whole, Types, Installed
<1> SUFFICES ASSUME NEW p \in Pkg, status'[p] = "installed", p \notin begun'
             PROVE  Contents[p][inst_ver'[p]] \subseteq onDisk'
  BY DEF InstalledIsThere
<1>h. pkgs # << >> => Head(pkgs) \in Pkg
  BY HeadAndTail DEF TypeOK
<1>w. pc \in Installing \cup Removing => pkgs # << >>
  BY DEF Progress
<1>0. ASSUME status[p] = "installed", p \notin begun
      PROVE  Contents[p][inst_ver[p]] \subseteq onDisk
  BY <1>0 DEF InstalledIsThere
<1>o. ASSUME status[p] = "installed", NEW q \in Pkg, q # p, NEW f \in OwnFiles(q)
      PROVE  f \notin Contents[p][inst_ver[p]]
  <2>1. inst_ver[p] \in Version
    BY <1>o DEF TypeOK
  <2>2. Contents[p][inst_ver[p]] \subseteq OwnFiles(p)
    BY <2>1, OwnFilesHave
  <2> QED BY <1>o, <2>2 DEF DistinctFiles
<1>s. ASSUME NEW kept, NEW marked, StatusFile(kept, marked), UNCHANGED <<onDisk, begun>>
      PROVE  Contents[p][inst_ver'[p]] \subseteq onDisk'
  <2>1. p \in kept /\ status[p] = "installed" /\ inst_ver'[p] = inst_ver[p]
    BY <1>s, StatusFileKeeps
  <2> QED BY <1>s, <2>1, <1>0
<1>1. CASE UNCHANGED <<status, inst_ver>> /\ onDisk \subseteq onDisk' /\ begun \subseteq begun'
  BY <1>1, <1>0
<1>2. CASE Mark \/ MarkFails \/ StatusRemove \/ StatusIsShort \/ postrm
  BY <1>2, <1>s DEF Mark, MarkWanted, MarkFails, StatusRemove, StatusIsShort, postrm, history
<1>3. CASE StatusAppend
  <2>1. /\ Head(pkgs) \in Pkg /\ FilesOf(Head(pkgs)) \subseteq onDisk /\ onDisk' = onDisk
        /\ status' = [status EXCEPT ![Head(pkgs)] = "installed"]
        /\ inst_ver' = [inst_ver EXCEPT ![Head(pkgs)] = avail_ver]
        /\ begun' = begun \ {Head(pkgs)}
    BY <1>3, <1>h, <1>w DEF StatusAppend, Recorded, At, Installing, Written
  <2>2. CASE p = Head(pkgs)
    BY <2>1, <2>2 DEF FilesOf, TypeOK
  <2>3. CASE p # Head(pkgs)
    BY <2>1, <2>3, <1>0 DEF TypeOK
  <2> QED BY <2>2, <2>3
<1>4. CASE RemoveFile
  <2>0. UNCHANGED <<status, inst_ver>> /\ Head(pkgs) \in Pkg
    BY <1>4, <1>h, <1>w DEF RemoveFile, At, Removing
  <2>1. CASE UNCHANGED <<onDisk, begun>>
    BY <2>0, <2>1, <1>0
  <2>2. CASE \E f \in ListOf(Head(pkgs)) \cap onDisk :
               onDisk' = onDisk \ {f} /\ begun' = begun \cup {Head(pkgs)}
    <3>1. PICK f \in ListOf(Head(pkgs)) :
            onDisk' = onDisk \ {f} /\ begun' = begun \cup {Head(pkgs)}
      BY <2>2
    <3>2. f \in OwnFiles(Head(pkgs))
      BY <2>0, <3>1 DEF ListOf, OwnLists
    <3> QED BY <2>0, <3>1, <3>2, <1>0, <1>o
  <2> QED BY <1>4, <2>1, <2>2 DEF RemoveFile
<1>5. CASE UnpackFails
  <2>1. /\ UNCHANGED <<status, inst_ver>> /\ Head(pkgs) \in Pkg /\ begun' = begun \cup {Head(pkgs)}
        /\ \A f \in onDisk : f \notin onDisk' => f \in FilesOf(Head(pkgs))
    BY <1>5, <1>h, <1>w DEF UnpackFails, At, Installing
  <2>2. FilesOf(Head(pkgs)) \subseteq OwnFiles(Head(pkgs))
    BY <2>1, OwnFilesHave DEF FilesOf
  <2> QED BY <2>1, <2>2, <1>0, <1>o
<1>6. CASE \E q \in Pkg : ipkg_remove(q)
  <2>1. CASE UNCHANGED <<status, inst_ver, onDisk, begun>>
    BY <2>1, <1>0
  <2>2. CASE \E q \in Pkg : StatusFile(Others(q), {}) /\ UNCHANGED <<onDisk, begun>>
    BY <2>2, <1>s
  <2> QED BY <1>6, <2>1, <2>2 DEF ipkg_remove, history
<1> QED
  BY <1>1, <1>2, <1>3, <1>4, <1>5, <1>6
     DEF Next, Steps, Faults, User, GetInstall, ListInstalled, UpToDate, Fetch, Check, Unpack, Unpacked,
         List, postinst, prerm, Purge, NotFound, StepFails, ListFails, ListIsShort,
         AppendFails, Kill, ipkg_install, ipkg_upgrade, ipkg_update, Starts, disk, history

(* ipkg:749, 785: for any packages without common files, however commands  *)
(* fail, are killed or lose what they write, a package that the status     *)
(* file calls installed has its files, but one of which just the unpacking *)
(* or the removal was broken off.                                          *)
THEOREM InstalledStaysThere ==
  IpkgAssumption /\ DistinctFiles => (Spec => []InstalledIsThere)
<1> SUFFICES ASSUME IpkgAssumption, DistinctFiles PROVE Spec => []InstalledIsThere
  OBVIOUS
<1>1. Init => OwnLists /\ InstalledIsThere
  BY DEF Init, OwnLists, InstalledIsThere, Installed
<1>2. Whole /\ OwnLists /\ InstalledIsThere /\ [Next]_vars => (OwnLists /\ InstalledIsThere)'
  <2>1. ASSUME Whole, OwnLists, InstalledIsThere, Next PROVE (OwnLists /\ InstalledIsThere)'
    BY <2>1, NextOwnLists, NextThere DEF There
  <2>2. OwnLists /\ InstalledIsThere /\ UNCHANGED vars => (OwnLists /\ InstalledIsThere)'
    BY DEF vars, disk, history, OwnLists, InstalledIsThere, Installed
  <2> QED BY <2>1, <2>2
<1> QED BY <1>1, <1>2, WholeHolds, PTL DEF Spec
-----------------------------------------------------------------------------
(***************************************************************************)
(* The index lists the newest files and no newest file is ever deleted,    *)
(* for any packages, versions and times, whatever is built meanwhile and   *)
(* wherever the script is killed.                                          *)
(***************************************************************************)

\* one the script may list: no file of its package was newer at the start
Newest(f) ==
  f \in Index!There(before) /\ \A g \in Index!There(before) : g[1] = f[1] => before[g] <= before[f]

FeedTypes ==
  /\ time \in [Index!PackageFile -> Nat] /\ before \in [Index!PackageFile -> Nat]
  /\ clock \in Nat \ {0}
  /\ unread \subseteq Index!PackageFile /\ listed \subseteq Index!PackageFile

\* a file the outer loop has not come to is as it was; one it has come to is
\* either the newest and listed or deleted
Scanned ==
  mkPackages \in {"runs", "done"} => \A f \in Index!PackageFile :
    /\ f \in unread => f \notin listed /\ f \in Index!There(before) /\ time[f] = before[f]
    /\ f \notin unread /\ Newest(f) => f \in listed
    /\ f \notin unread /\ ~Newest(f) => f \notin listed /\ time[f] = Index!Absent
    /\ f \in listed => time[f] = before[f]

\* of every package that had a file at the start, one as new is still there:
\* the newest file is found although files between it and another are gone
Outlived ==
  mkPackages \in {"runs", "done"} => \A f \in Index!There(before) :
    \E g \in Index!There(time) : /\ g[1] = f[1] /\ time[g] = before[g]
                           /\ before[g] >= before[f]

AllScanned == mkPackages = "done" => unread = {}

FeedInv == FeedTypes /\ Scanned /\ Outlived /\ AllScanned

-----------------------------------------------------------------------------
\* While nothing is built, a file is deleted if and only if it is not one of
\* the newest.
LEMMA DeletedAreOld ==
  ASSUME FeedInv, mkPackages = "runs", NEW f \in unread
  PROVE  Index!Deleted(f) <=> ~Newest(f)
<1>1. f \in Index!PackageFile /\ f \in Index!There(before) /\ time[f] = before[f]
  BY DEF FeedInv, FeedTypes, Scanned
<1>2. ASSUME NEW other \in Index!There(time)
      PROVE  other \in Index!There(before) /\ time[other] = before[other]
  BY DEF FeedInv, FeedTypes, Scanned, Index!There, Newest, Index!Absent
<1>3. Index!Deleted(f) => ~Newest(f)
  <2> SUFFICES ASSUME Index!Deleted(f) PROVE ~Newest(f)
    OBVIOUS
  <2>1. PICK other \in Index!There(time) : other[1] = f[1] /\ time[other] > time[f]
    BY DEF Index!Deleted, Index!Newer
  <2>2. other \in Index!There(before) /\ before[other] > before[f]
    BY <1>1, <1>2, <2>1
  <2>3. other \in Index!PackageFile /\ before[other] \in Nat /\ before[f] \in Nat
    BY <1>1 DEF Index!There, FeedInv, FeedTypes
  <2> QED
    BY <2>1, <2>2, <2>3 DEF Newest
<1>4. ~Newest(f) => Index!Deleted(f)
  <2> SUFFICES ASSUME ~Newest(f) PROVE Index!Deleted(f)
    OBVIOUS
  <2>1. PICK g \in Index!There(before) : g[1] = f[1] /\ ~(before[g] <= before[f])
    BY <1>1 DEF Newest
  <2>2. PICK h \in Index!There(time) : h[1] = g[1] /\ time[h] = before[h] /\ before[h] >= before[g]
    BY DEF FeedInv, Outlived
  <2>3. \A x \in {f, g, h} : x \in Index!PackageFile /\ before[x] \in Nat
    BY <1>1 DEF Index!There, FeedInv, FeedTypes
  <2>4. before[h] > before[f]
    BY <2>1, <2>2, <2>3
  <2> QED
    BY <1>1, <2>1, <2>2, <2>3, <2>4 DEF Index!Deleted, Index!Newer
<1> QED
  BY <1>3, <1>4

LEMMA FeedInit ==
  ASSUME Index!Init
  PROVE  FeedInv
  BY DEF Index!Init, FeedInv, FeedTypes, Scanned, Outlived, AllScanned, Index!Absent

LEMMA StartFeed ==
  ASSUME FeedInv, Index!Start
  PROVE  FeedInv'
<1>1. FeedTypes'
  BY DEF FeedInv, FeedTypes, Index!Start, Index!There
<1>2. Scanned'
  BY DEF FeedInv, FeedTypes, Index!Start, Index!There, Scanned, Newest
<1>3. Outlived'
  <2> SUFFICES ASSUME NEW f \in Index!There(time)
               PROVE  \E g \in Index!There(time) : g[1] = f[1] /\ time[g] >= time[f]
    BY DEF Outlived, Index!Start, Index!There
  <2>1. time[f] >= time[f]
    BY DEF FeedInv, FeedTypes, Index!There
  <2> QED
    BY <2>1
<1> QED
  BY <1>1, <1>2, <1>3 DEF FeedInv, AllScanned, Index!Start

LEMMA PutFeed ==
  ASSUME FeedInv, NEW f \in Index!PackageFile, Index!Put(f)
  PROVE  FeedInv'
<1>1. FeedTypes'
  BY DEF FeedInv, FeedTypes, Index!Put
<1>2. mkPackages' \notin {"runs", "done"}
  BY DEF Index!Put
<1> QED
  BY <1>1, <1>2 DEF FeedInv, Scanned, Outlived, AllScanned

LEMMA ScanFeed ==
  ASSUME FeedInv, Index!Scan
  PROVE  FeedInv'
<1>1. PICK f \in unread :
        /\ mkPackages \in {"runs", "late"} /\ unread' = unread \ {f}
        /\ IF Index!Deleted(f) THEN time' = [time EXCEPT ![f] = Index!Absent] /\ UNCHANGED listed
           ELSE listed' = listed \cup {f} /\ UNCHANGED time
        /\ UNCHANGED <<clock, before, mkPackages>>
  BY DEF Index!Scan
<1>2. f \in Index!PackageFile
  BY DEF FeedInv, FeedTypes
<1>3. FeedTypes'
  BY <1>1, <1>2 DEF FeedInv, FeedTypes, Index!Absent
<1>4. CASE mkPackages = "late"
  BY <1>1, <1>3, <1>4 DEF FeedInv, Scanned, Outlived, AllScanned
<1>5. CASE mkPackages = "runs"
  <2>0. Index!Deleted(f) <=> ~Newest(f)
    BY <1>5, DeletedAreOld
  <2>1. \A g \in Index!PackageFile : Newest(g)' <=> Newest(g)
    BY <1>1 DEF Newest, Index!There
  <2>2. f \notin listed /\ f \in Index!There(before) /\ time[f] = before[f]
    BY <1>2, <1>5 DEF FeedInv, Scanned
  <2>3. ASSUME NEW g \in Index!PackageFile
        PROVE  /\ g \in unread' => g \notin listed' /\ g \in Index!There(before') /\ time'[g] = before'[g]
               /\ g \notin unread' /\ Newest(g)' => g \in listed'
               /\ g \notin unread' /\ ~Newest(g)' => g \notin listed' /\ time'[g] = Index!Absent
               /\ g \in listed' => time'[g] = before'[g]
    <3>0. /\ g \in unread => g \notin listed /\ g \in Index!There(before) /\ time[g] = before[g]
          /\ g \notin unread /\ Newest(g) => g \in listed
          /\ g \notin unread /\ ~Newest(g) => g \notin listed /\ time[g] = Index!Absent
          /\ g \in listed => time[g] = before[g]
      BY <1>5 DEF FeedInv, Scanned
    <3>1. CASE g = f /\ Index!Deleted(f)
      BY <1>1, <1>2, <2>0, <2>1, <2>2, <3>1 DEF FeedInv, FeedTypes
    <3>2. CASE g = f /\ ~Index!Deleted(f)
      BY <1>1, <2>0, <2>1, <2>2, <3>2
    <3>3. CASE g # f
      <4>1. time'[g] = time[g] /\ (g \in unread' <=> g \in unread) /\ (g \in listed' <=> g \in listed)
        BY <1>1, <3>3 DEF FeedInv, FeedTypes
      <4> QED
        BY <1>1, <2>1, <3>0, <4>1
    <3> QED
      BY <3>1, <3>2, <3>3
  <2>4. Scanned'
    BY <2>3 DEF Scanned
  <2>5. Outlived'
    <3> SUFFICES ASSUME NEW g \in Index!There(before)
                 PROVE  \E h \in Index!There(time') : /\ h[1] = g[1] /\ time'[h] = before[h]
                                                /\ before[h] >= before[g]
      BY <1>1 DEF Outlived, Index!There
    <3>1. PICK h \in Index!There(time) : h[1] = g[1] /\ time[h] = before[h] /\ before[h] >= before[g]
      BY <1>5 DEF FeedInv, Outlived
    <3>2. CASE ~Index!Deleted(f)
      BY <1>1, <3>1, <3>2
    <3>3. CASE Index!Deleted(f) /\ h # f
      <4>1. time'[h] = time[h] /\ h \in Index!There(time')
        BY <1>1, <3>3 DEF FeedInv, FeedTypes, Index!There
      <4> QED
        BY <3>1, <4>1
    <3>4. CASE Index!Deleted(f) /\ h = f
      <4>1. PICK other \in Index!There(time) : other # f /\ other[1] = f[1] /\ time[other] > time[f]
        BY <3>4 DEF Index!Deleted, Index!Newer
      <4>2. time'[other] = time[other] /\ other \in Index!There(time')
        BY <1>1, <3>4, <4>1 DEF FeedInv, FeedTypes, Index!There
      <4>3. time[other] = before[other]
        BY <1>5 DEF FeedInv, FeedTypes, Scanned, Index!There, Index!Absent
      <4>4. before[other] >= before[g]
        <5>1. before[other] \in Nat /\ before[f] \in Nat /\ before[g] \in Nat
          BY <1>2 DEF FeedInv, FeedTypes, Index!There
        <5> QED
          BY <2>2, <3>1, <3>4, <4>1, <4>3, <5>1
      <4> QED
        BY <3>1, <3>4, <4>1, <4>2, <4>3, <4>4
    <3> QED
      BY <3>2, <3>3, <3>4
  <2> QED
    BY <1>1, <1>3, <1>5, <2>4, <2>5 DEF FeedInv, AllScanned
<1> QED
  BY <1>1, <1>4, <1>5

LEMMA FinishFeed ==
  ASSUME FeedInv, Index!Finish
  PROVE  FeedInv'
  BY DEF FeedInv, Index!Finish, FeedTypes, Scanned, Outlived, AllScanned, Newest, Index!There

LEMMA FeedStep ==
  ASSUME FeedInv, [Index!Next]_(Index!vars)
  PROVE  FeedInv'
<1>1. CASE Index!Kill
  BY <1>1 DEF FeedInv, Index!Kill, FeedTypes, Scanned, Outlived, AllScanned
<1>2. CASE UNCHANGED Index!vars
  BY <1>2 DEF FeedInv, Index!vars, FeedTypes, Scanned, Outlived, AllScanned, Newest, Index!There
<1> QED
  BY <1>1, <1>2, StartFeed, ScanFeed, FinishFeed, PutFeed DEF Index!Next

(* The invariant of mkPackages: what the outer loop has come to is the     *)
(* newest of its package and listed, or deleted; and one as new as any     *)
(* file of the start is still there.                                       *)
THEOREM ScanIsRight == Index!Spec => []FeedInv
  BY FeedInit, FeedStep, PTL DEF Index!Spec

(* After a run during which nothing was built, exactly the files are       *)
(* listed, and left, that were the newest of their package (mkPackages:    *)
(* 13-21).                                                                 *)
THEOREM IndexListsNewest == Index!Spec => []NewestListed
<1>1. ASSUME FeedInv PROVE NewestListed
  <2> SUFFICES ASSUME mkPackages = "done"
               PROVE  /\ listed = {f \in Index!There(before) : Newest(f)}
                      /\ Index!There(time) = listed
    BY DEF NewestListed, Index!NewestListed, Newest
  <2>1. unread = {} /\ listed \subseteq Index!PackageFile
    BY <1>1 DEF FeedInv, FeedTypes, AllScanned
  <2>2. \A f \in Index!PackageFile : f \in listed <=> Newest(f)
    BY <1>1, <2>1 DEF FeedInv, Scanned
  <2>3. \A f \in Index!PackageFile : f \in listed <=> f \in Index!There(time)
    <3> SUFFICES ASSUME NEW f \in Index!PackageFile PROVE f \in listed <=> time[f] # Index!Absent
      BY DEF Index!There
    <3>1. f \in listed => time[f] = before[f] /\ Newest(f)
      BY <1>1, <2>2 DEF FeedInv, Scanned
    <3>2. f \notin listed => time[f] = Index!Absent
      BY <1>1, <2>1, <2>2 DEF FeedInv, Scanned
    <3> QED
      BY <3>1, <3>2 DEF Newest, Index!There
  <2>4. \A f : (Newest(f) \/ f \in Index!There(time)) => f \in Index!PackageFile
    BY DEF Newest, Index!There
  <2> QED
    BY <2>1, <2>2, <2>3, <2>4 DEF Newest
<1> QED
  BY <1>1, ScanIsRight, PTL

(* Also while packages are built and wherever the script is killed, a file *)
(* is deleted only while a newer one of its package stays (mkPackages:33). *)
THEOREM NewestIsKept == Index!Spec => Index!NewestKept
<1> DEFINE Kept == \A f \in Index!There(time) : time'[f] = Index!Absent =>
                     \E g \in Index!There(time') : g[1] = f[1] /\ time'[g] > time[f]
<1>1. ASSUME FeedInv, [Index!Next]_(Index!vars) PROVE Kept
  <2> SUFFICES ASSUME NEW f \in Index!There(time), time'[f] = Index!Absent
               PROVE  \E g \in Index!There(time') : g[1] = f[1] /\ time'[g] > time[f]
    OBVIOUS
  <2>0. f \in Index!PackageFile /\ time[f] # Index!Absent /\ time \in [Index!PackageFile -> Nat]
    BY <1>1 DEF Index!There, FeedInv, FeedTypes
  <2>1. ~\E h \in Index!PackageFile : Index!Put(h)
    <3> SUFFICES ASSUME NEW h \in Index!PackageFile, Index!Put(h) PROVE FALSE
      OBVIOUS
    <3>1. clock' # Index!Absent
      BY <1>1 DEF Index!Put, FeedInv, FeedTypes, Index!Absent
    <3> QED
      BY <2>0, <3>1 DEF Index!Put
  <2>2. Index!Scan
    BY <1>1, <2>0, <2>1 DEF Index!Next, Index!Start, Index!Finish, Index!Kill, Index!vars
  <2>3. Index!Deleted(f) /\ time' = [time EXCEPT ![f] = Index!Absent]
    BY <2>0, <2>2 DEF Index!Scan
  <2>4. PICK other \in Index!There(time) : other # f /\ other[1] = f[1] /\ time[other] > time[f]
    BY <2>3 DEF Index!Deleted, Index!Newer
  <2>5. time'[other] = time[other] /\ other \in Index!There(time')
    BY <2>0, <2>3, <2>4 DEF Index!There
  <2> QED
    BY <2>4, <2>5
<1>2. FeedInv /\ [Index!Next]_(Index!vars) => [Kept]_(Index!vars)
  BY <1>1
<1>3. Index!Spec => [][Kept]_(Index!vars)
  BY <1>2, ScanIsRight, PTL DEF Index!Spec
<1> QED
  BY <1>3 DEF Index!NewestKept
=============================================================================
