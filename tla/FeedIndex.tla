----------------------------- MODULE FeedIndex -----------------------------
(***************************************************************************)
(* mkPackages lists the packages of a feed directory in the file Packages  *)
(* and deletes those of which there is a newer file.  Other packages are   *)
(* built into the directory meanwhile, and the script may be killed.       *)
(***************************************************************************)
EXTENDS Naturals

CONSTANTS Package, Version, MaxTime    \* MaxTime bounds the clock

\* the instances assume this of the constants
FeedIndexAssumption == MaxTime \in Nat

PackageFile == Package \X Version
Absent == 0

VARIABLES
  time,    \* [PackageFile -> time of change, or Absent]
  clock,   \* in the units of file times: several files may get the same
  todo,    \* the files the outer loop has not come to
  index,   \* the files described in Packages
  before,  \* history: time, when the script was started
  state    \* "idle", "runs", "done"; "late": it runs, and something was built since

vars == <<time, clock, todo, index, before, state>>

Init ==
  /\ time = [f \in PackageFile |-> Absent] /\ clock = 1 /\ todo = {} /\ index = {}
  /\ before = time /\ state = "idle"

There(files) == {f \in PackageFile : files[f] # Absent}

\* A package is built.
Put(f) ==
  /\ clock' \in {clock, clock + 1} /\ clock' <= MaxTime
  /\ time' = [time EXCEPT ![f] = clock']
  /\ state' = CASE state = "runs" -> "late" [] state = "done" -> "idle" [] OTHER -> state
  /\ UNCHANGED <<todo, index, before>>

Start ==
  /\ state \in {"idle", "done"} /\ state' = "runs" /\ before' = time
  /\ todo' = There(time) /\ index' = {} /\ UNCHANGED <<time, clock>>

NotOlder(other, f) == time[other] >= time[f]    \* mutant
Newer(other, f) == time[other] > time[f]
Deleted(f) == \E other \in There(time) : other # f /\ other[1] = f[1] /\ Newer(other, f)
Scan ==
  \E f \in todo :
    /\ state \in {"runs", "late"} /\ todo' = todo \ {f}
    /\ IF Deleted(f) THEN time' = [time EXCEPT ![f] = Absent] /\ UNCHANGED index
       ELSE index' = index \cup {f} /\ UNCHANGED time
    /\ UNCHANGED <<clock, before, state>>

Finish ==
  /\ state \in {"runs", "late"} /\ todo = {}
  /\ state' = IF state = "runs" THEN "done" ELSE "idle"
  /\ UNCHANGED <<time, clock, todo, index, before>>

Kill ==
  /\ state \in {"runs", "late"} /\ state' = "idle" /\ todo' = {}
  /\ UNCHANGED <<time, clock, index, before>>

Next == Start \/ Scan \/ Finish \/ Kill \/ \E f \in PackageFile : Put(f)

Spec == Init /\ [][Next]_vars

-----------------------------------------------------------------------------
(* mkPackages:13-21: after a run without others, exactly the files are     *)
(* listed that were the newest of their package at its start, all of them  *)
(* when several are of the same time, and no other file is left.           *)
NewestListed ==
  state = "done" =>
    /\ index = {f \in There(before) : \A g \in There(before) : g[1] = f[1] => before[g] <= before[f]}
    /\ There(time) = index

(* mkPackages:33: whatever is built meanwhile and wherever the script      *)
(* ends, it deletes a file only while a newer one of the same package is   *)
(* there to stay.                                                          *)
NewestKept ==
  [][\A f \in There(time) : time'[f] = Absent =>
       \E g \in There(time') : g[1] = f[1] /\ time'[g] > time[f]]_vars
=============================================================================
