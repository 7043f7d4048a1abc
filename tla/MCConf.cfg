CONSTANTS
  NET = NET
  CRC = CRC
  DRIVER = DRIVER
  PCI = PCI
  DMA = DMA
  IRQ = IRQ
  ISA = ISA
  PORT = PORT
  LATE = LATE
  MODULES = MODULES
  FW = FW
  empty = empty
  one = one
  quest = quest
  root = root
  drivers = drivers
  NoSym = NoSym
  NoVal = NoVal
  Sym <- MCSym
  Str <- MCStr
  EmptyStr = empty
  Type <- MCType
  Prompt <- MCPrompt
  Defaults <- MCDefaults
  Selects <- MCSelects
  Members <- MCMembers
  Optional = {}
  Modules = MODULES
  ValidStr <- MCValid
  Allowed <- MCValid
  Order <- MCOrder
  Loaded <- MCLoaded
  Entry <- MCEntry
  Root = root
  List <- MCList
  SymOf <- MCSymOf
  MenuPrompt = {root, drivers}
  EntryCond <- MCEntryCond
  Modes <- InputModes
  CanEnd = TRUE
  Help = quest
SPECIFICATION Spec
INVARIANTS
  EverythingAsked
  YesToAll
PROPERTIES
  OldAnswersKept
  Ends
