CONSTANTS
  MODULES = MODULES
  USB = USB
  MODE = MODE
  HOST = HOST
  GADGET = GADGET
  empty = empty
  Sym <- MCSym
  NoSym = NoSym
  Str <- MCStr
  EmptyStr = empty
  NoVal = NoVal
  Type <- MCType
  Prompt <- MCPrompt
  Defaults <- MCDefaults
  Selects = {}
  Members <- MCMembers
  Optional = {}
  Modules = MODULES
  ValidStr <- MCNone
  Allowed <- MCNone
  Loaded <- MCLoaded
SPECIFICATION Spec
INVARIANTS
  ChoiceExclusive
