SPECIFICATION FairSpec
CONSTANTS
  Source = {"src", "hdr"}
  Target = {"gen", "prog"}
  kids <- MCKids
  Modes <- BuildModes
  MaxVersion = 3
  MaxEdits = 2
  MaxTrouble = 2
INVARIANTS
  TypeOK
  SettledIsClean
  CacheTrue
PROPERTIES
  NothingBuiltTwice
  Settles
