SPECIFICATION Spec
CONSTANTS
  Memories <- ThreeMemories
  Printed <- AsPrinted
  Levels <- TwoLevels
  MaxNics = 2
  Rules <- OneRule
  Folders <- TwoFolders
  Kinds <- AllKinds
  Sources <- TwoSources
  Failing <- AnyCommand
  MaxTrouble = 4
INVARIANT TypeOK
INVARIANT OkMeansApplied
INVARIANT PlanSettles
INVARIANT FailedUpdateIsVisible
