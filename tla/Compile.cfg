SPECIFICATION Spec
CONSTANTS
  StackDepth = 5
  Disk <- Disk1
  Imported <- PrefixedDecls
  Sources <- AllSources
  OldPlans <- OldPlans1
  Lost <- LostInJson
INVARIANTS
  TypeOK
  ReadBack
  TypesAreSound
  CircularIffCycle
  AliasKeepsReferences
  CyclesExact
  CyclesFound
  CrashesAreKnown
  ExpansionIsManual
  StepsAreGone
  InnerOrderKept
  DiffExact
PROPERTIES
  NearsItsEnd
