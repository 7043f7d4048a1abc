CONSTANTS
  USB = USB
  NET = NET
  CRC = CRC
  empty = empty
  NoSym = NoSym
  NoVal = NoVal
  app = app
  lib = lib
  base = base
  a = a
  l = l
  b = b
  NoList = NoList
  Pkg = {lib}
  Packages <- MCOrder
  Commands = {"get", "world", "image", "all"}
  Uses <- MCUses
  MaxVersion = 2
  MaxFaults = 1
SPECIFICATION AllSpec
PROPERTIES
  CalculationEnds
  BuildRecovers
  WantedIsInstalled
  Finishes
