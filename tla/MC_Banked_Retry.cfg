SPECIFICATION Spec
CONSTANTS
  NumBanks = 4
  BanksPerSector = 2
  Chunks = 1
  LastSequence = 6
  Values = {0, 1}
  AutoErase = FALSE
  MayErase = FALSE
  CrashPhases = {"idle"}
  FailPhases = {"compare"}
INVARIANT RestartFindsCurrent
