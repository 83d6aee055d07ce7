SPECIFICATION FairSpec
CONSTANTS
  None = None
  right = right
  wrong = wrong
  Streams = {right, wrong}
  Verdict <- McVerdict
  Encrypted = {right}
  Expires <- McExpires
  Packets = {1, 2}
  LastTime = 2
  NumAlarms = 2
  QueueRoom = 2
  MaxLosses = 2
  MaxGasps = 1
  CrashPhases = {"copy", "init", "start", "confirm", "pend", "save", "saveRun", "patch", "decrypt", "build", "waitIdle", "swapSave", "reset", "clear", "copyNv"}
  Overlap = {}
  Shortages = {"packet", "cancel", "apply"}
INVARIANTS FirmwareFitsNv NeverBricked CompleteIsWhole NothingOverwritten
PROPERTIES SwapsAsAsked PatchEnds
