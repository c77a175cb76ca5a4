SPECIFICATION FairSpec
CONSTANTS
  None = None
  Attributes <- TwoAttributes
  Rules <- ThreeRules
  RuleNames <- TwoNames
  NameOf <- RuleName
  Readable <- UdpRules
  Lists <- SomeLists
  Faults <- AnyFaults
  MaxTrouble = 4
INVARIANT TypeOK
INVARIANT OkMeansConfigured
PROPERTY KeepsContract
PROPERTY Converges
CHECK_DEADLOCK FALSE
