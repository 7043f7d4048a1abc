------------------------------ MODULE MCBuild ------------------------------
(***************************************************************************)
(* The build of an application and of a library it is built with, through  *)
(* make world, make image, package_clean and rootclean, with new sources   *)
(* and a recipe that fails or is broken off.                               *)
(***************************************************************************)
EXTENDS BuildState

CONSTANTS app, lib

MCOrder == <<app, lib>>
MCUses == [p \in Pkg |-> IF p = app THEN {lib} ELSE {}]
=============================================================================
