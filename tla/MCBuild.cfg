CONSTANTS
  app = app
  lib = lib
  Pkg = {app, lib}
  Packages <- MCOrder
  Commands = {"world", "image", "all"}
  Uses <- MCUses
  MaxVersion = 2
  MaxFaults = 1
SPECIFICATION Spec
INVARIANTS
  NothingToDoIsRight
