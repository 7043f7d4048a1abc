CONSTANTS
  FAST = FAST
  LIBC = LIBC
  GLIBC = GLIBC
  NEWLIB = NEWLIB
  NAME = NAME
  empty = empty
  box = box
  Sym <- MCSym
  NoSym = NoSym
  Str <- MCStr
  EmptyStr = empty
  NoVal = NoVal
  Type <- MCType
  Prompt <- MCPrompt
  Defaults <- MCDefaults
  Selects = {}
  Members <- MCMembers
  Optional = {}
  Modules = NoSym
  ValidStr <- MCWords
  Allowed <- MCWords
  Loaded <- MCLoaded
  Order <- MCOrder
SPECIFICATION Spec
INVARIANTS
  CacheCoherent
  ChoiceExclusive
PROPERTIES
  IsUncached
