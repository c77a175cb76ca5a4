SPECIFICATION FairSpec
CONSTANTS
  r1 = r1
  r2 = r2
  u1 = u1
  u2 = u2
  u3 = u3
  n1 = n1
  n2 = n2
  None = None
  Resources <- OneResource
  Names <- OneName
  NameOf <- OneOwnName
  Kind <- ImageOnly
  Unstable <- Nobody
  Forwarding <- Nobody
  Uuids <- TwoUuids
  Faults <- UserDelete
  MaxTrouble = 2
PROPERTY GoneIsForgotten
