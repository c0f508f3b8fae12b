SPECIFICATION FairSpec
CONSTANT MaxFaults = 3
INVARIANTS
  TypeOK
  FlashChecked
  NothingWrong
  RecoveryVerdict
PROPERTIES
  GoldenKept
  Recoverable
