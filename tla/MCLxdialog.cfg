CONSTANTS
  Item <- MCItem
  NoItem = NoItem
  Hot <- MCHot
  Lists <- MCLists
  menu_height = 3
  NoFile = NoFile
  OldFiles <- MCOldFiles
  NUL = NUL
  Blank = Blank
  NoText = NoText
SPECIFICATION BoxSpec
INVARIANTS
  ScreenRight
  BoxesRight
PROPERTIES
  IsCursor
  BoxesAsPromised
