SPECIFICATION StepsSpec
CONSTANTS
  Values <- ManyValues
  MaxValues = 3
  Memory <- Words
INVARIANTS
  ServedOnce
  OwnRegisters
