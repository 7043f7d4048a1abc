CONSTANTS
  p1 = p1
  p2 = p2
  dotconfig = dotconfig
  other = other
  MODULES = MODULES
  USB = USB
  DRIVER = DRIVER
  PCI = PCI
  ISA = ISA
  LIBC = LIBC
  GLIBC = GLIBC
  UCLIBC = UCLIBC
  NEWLIB = NEWLIB
  HOST = HOST
  NAME = NAME
  PORT = PORT
  empty = empty
  box = box
  lan = lan
  p0 = p0
  p7 = p7
  p9 = p9
  NoSym = NoSym
  NoVal = NoVal
  Proc = {p1, p2}
  Name = {dotconfig, other}
  MaxSaves = 3
  DiskFull = FALSE
SPECIFICATION AllSpec
INVARIANTS
  LastIsKept
  EngineRight
PROPERTIES
  NothingElse
  IsUncached
  SavedAndReloaded
CHECK_DEADLOCK FALSE
