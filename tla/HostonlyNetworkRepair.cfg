SPECIFICATION FairSpec
CONSTANTS
  None = None
  Addresses <- TwoAddresses
  Addresses6 <- OneAddress6
  Ranges <- OneRange
  Faults <- AnyFaults
  MaxTrouble = 3
INVARIANT TypeOK
INVARIANT OkMeansConfigured
INVARIANT NoSilentLeak
PROPERTY KeepsContract
PROPERTY Converges
CHECK_DEADLOCK FALSE
