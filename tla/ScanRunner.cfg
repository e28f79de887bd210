SPECIFICATION FairSpec
CONSTANTS
  s1 = s1  s2 = s2
  Scans = {s1, s2}
  Faults = {"rejected", "failed"}
  MaxPolls = 2
INVARIANTS OutcomeIsEarned NothingRunsOn
PROPERTIES ScanEnds AbortedScanEnds
CHECK_DEADLOCK FALSE
