SPECIFICATION FairPeersSpec
CHECK_DEADLOCK FALSE
CONSTANTS
  n1 = n1
  n2 = n2
  i1 = i1
  i2 = i2
  i3 = i3
  Node = {n1, n2}
  IP = {i1, i2, i3}
  None = None
  Anywhere = Anywhere
  InitialNodes <- MCInitialNodes
  InitialService = i1
  InitialSlice <- MCInitialSlice
  StaticApiCIDR = None
  MaxChanges = 3
INVARIANTS
  ApiPoliciesCurrent
  PoliciesInPlace
PROPERTIES
  NodesReachPolicies
