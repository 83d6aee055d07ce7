SPECIFICATION Spec
CONSTANTS
  NumBanks = 6
  BanksPerSector = 2
  Chunks = 2
  LastSequence = 7
  Values = {0, 1}
  AutoErase = TRUE
  MayErase = FALSE
  CrashPhases = {"idle", "chunk", "program", "commit"}
  FailPhases = {"chunk"}
INVARIANTS TypeOK RestartFindsCurrent ReadsLastWrite SequencesDistinct
PROPERTIES DurableRegister
