\* One command of the flash fails.
SPECIFICATION Spec
CONSTANT MaxFaults = 1
INVARIANTS
  CompleteMeansSuccess
