---------------------------- MODULE MCPackages ----------------------------
(***************************************************************************)
(* What becomes of packages that are built: they are listed in the feed's  *)
(* index, and installed.  Only one of the two moves in a run, "kind".      *)
(*                                                                         *)
(* feed: two packages, of which there are files of two versions            *)
(* ipkg: an application that needs a library, whose second version has     *)
(* another file; "typo" is no package of the feed                          *)
(***************************************************************************)
EXTENDS Packages

CONSTANTS app, lib, typo, a, l1, l2

VARIABLE kind

MCDeps == [p \in Pkg |-> IF p = app THEN {lib} ELSE {}]
MCContents == [p \in Pkg |-> [v \in Version |->
  CASE p = app -> {a} [] p = lib -> (IF v = 1 THEN {l1} ELSE {l1, l2}) [] OTHER -> {}]]

ASSUME Index!FeedIndexAssumption /\ IpkgAssumption /\ DistinctFiles

AllVars == <<kind, feedVars, vars>>
AllInit == kind \in {"feed", "ipkg"} /\ Index!Init /\ Init
AllNext ==
  /\ UNCHANGED kind
  /\ \/ kind = "feed" /\ Index!Next /\ UNCHANGED vars
     \/ kind = "ipkg" /\ Next /\ UNCHANGED feedVars
AllSpec == AllInit /\ [][AllNext]_AllVars
=============================================================================
