SPECIFICATION FairSpec
CONSTANTS
  NBD = 3
  TxBdNums = {1, 2}
  TxBdReset = 2
  MaxWaiting = 1
  PacketMod = 3
INVARIANTS RingsExact OwedIsActive
PROPERTIES TxProceeds
