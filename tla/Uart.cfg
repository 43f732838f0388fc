SPECIFICATION FairSpec
CONSTANTS
  FIFO_LEN = 2
  Triggers = {1, 2}
  uart16550 = TRUE
  ModemLines = {"RTS"}
  IERs <- MCIERs
  CharMod = 4
INVARIANTS InterruptsExact JobsExact StreamsExact
PROPERTIES TxLeaves
