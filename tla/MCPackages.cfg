CONSTANTS
  app = app
  lib = lib
  typo = typo
  a = a
  l1 = l1
  l2 = l2
  NoList = NoList
  Pkg = {app, lib, typo}
  File = {a, l1, l2}
  Deps <- MCDeps
  Feed = {app, lib}
  Contents <- MCContents
  Version = {1, 2}
  CanKill = TRUE
  MaxFaults = 2
  Built = {app, lib}
  MaxTime = 3
SPECIFICATION AllSpec
INVARIANTS
  NewestListed
  DoneIsWhole
  InstalledIsThere
