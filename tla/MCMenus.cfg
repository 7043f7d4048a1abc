CONSTANTS
  EXPERT = EXPERT
  NET = NET
  HOST = HOST
  CRC = CRC
  TABLE = TABLE
  MODULES = MODULES
  BUS = BUS
  DRIVER = DRIVER
  PCI = PCI
  DMA = DMA
  ISA = ISA
  empty = empty
  box = box
  root = root
  drivers = drivers
  old = old
  NoSym = NoSym
  NoVal = NoVal
  NoEntry = NoEntry
SPECIFICATION Spec
INVARIANTS
  WindowsRight
  SpaceActs
  RowsRight
PROPERTY OnlyRequests
