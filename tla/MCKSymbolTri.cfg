CONSTANTS
  MODULES = MODULES
  USB = USB
  NET = NET
  CRC = CRC
  empty = empty
  Sym <- MCSym
  NoSym = NoSym
  Str <- MCStr
  EmptyStr = empty
  NoVal = NoVal
  Type <- MCType
  Prompt <- MCPrompt
  Defaults <- MCDefaults
  Selects <- MCSelects
  Members <- MCMembers
  Optional = {}
  Modules = MODULES
  ValidStr <- MCNone
  Allowed <- MCNone
  Loaded <- MCLoaded
  Order <- MCOrder
SPECIFICATION Spec
INVARIANTS
  TypeOK
  CacheCoherent
  RequestHonoured
  WithinBounds
PROPERTY IsUncached
