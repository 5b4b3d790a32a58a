CONSTANTS
  Source = {vblank, timer}
  Copy = {1, 2}
SPECIFICATION Spec
INVARIANTS LoadRestores CommitUnderWay SettledAgrees
PROPERTIES OnlyAckForgets HaltedWakes
