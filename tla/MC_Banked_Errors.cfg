SPECIFICATION Spec
CONSTANTS
  NumBanks = 4
  BanksPerSector = 2
  Chunks = 2
  LastSequence = 5
  Values = {0}
  AutoErase = TRUE
  MayErase = TRUE
  CrashPhases = {"idle", "chunk", "partition"}
  FailPhases = {"chunk", "compare", "program", "erase", "rewrite", "autoErase", "maskedErase",
                "partition"}
INVARIANT ScanMatchesLoop
