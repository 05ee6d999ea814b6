CONSTANTS
  Sizes = {0, 3, 64, 96}
  Names = {alpha}
  NoName = NoName
  Cores = {0}
  CoreIds = {0, 7}
  NoCore = NoCore
  MaxConsumers = 3
SPECIFICATION FairSpec
INVARIANTS
  TypeOK
  BuildsPipeline
  SettingsApplyOnce
  ThreadsOwned
  IInv
PROPERTIES
  DropCompletes
