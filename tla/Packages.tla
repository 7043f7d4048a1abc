------------------------------ MODULE Packages ------------------------------
(***************************************************************************)
(* What becomes of packages that are built: mkPackages lists them in the   *)
(* feed's index, and ipkg installs them.  The two share no state but the   *)
(* feed, of which ipkg sees one index at a time.                           *)
(***************************************************************************)
EXTENDS Ipkg

CONSTANTS
  Built,     \* the packages of which there are files in the feed directory
  MaxTime    \* bound: the clock of the build host

VARIABLES time, clock, unread, listed, before, mkPackages

feedVars == <<time, clock, unread, listed, before, mkPackages>>

Index == INSTANCE FeedIndex WITH
  todo <- unread, index <- listed, state <- mkPackages, Package <- Built

(* mkPackages:13-21: after a run without others, exactly the files are     *)
(* listed that were the newest of their package at its start.              *)
NewestListed == Index!NewestListed
=============================================================================
