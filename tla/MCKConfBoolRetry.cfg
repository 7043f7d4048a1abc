CONSTANTS
  FAST = FAST
  LIBC = LIBC
  GLIBC = GLIBC
  UCLIBC = UCLIBC
  empty = empty
  Sym <- MCSym
  NoSym = NoSym
  Str <- MCStr
  EmptyStr = empty
  NoVal = NoVal
  Type <- MCType
  Prompt <- MCPrompt
  Defaults <- MCDefaults
  Selects = {}
  Members <- MCMembers
  Optional = {}
  Modules = NoSym
  ValidStr <- MCNone
  Allowed <- MCNone
  Loaded <- MCLoaded
  HashOrder <- MCHash
  MenuOrder <- MCMenu
  OldFiles <- MCOldFiles
  CanFail = TRUE
SPECIFICATION FilesSpec
PROPERTY SaveComplete
