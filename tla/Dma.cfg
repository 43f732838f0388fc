SPECIFICATION FairSpec
CONSTANTS
  AddrMod = 8
  Sizes = {1, 2, 3}
  Masks = {1, 3, 7}
INVARIANTS ChannelsExact OwedIsActive
PROPERTIES TransferEnds
