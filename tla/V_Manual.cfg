SPECIFICATION Spec
CONSTANTS
  StackDepth = 5
  Disk <- Disk1
  Imported <- PrefixedDecls
  Sources <- ContractSources
  OldPlans <- OldPlans1
  Lost <- LostInJson
INVARIANT GeneratedIsManual
