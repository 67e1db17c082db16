SPECIFICATION FairSpec
CONSTANTS
  Replica = {r1, r2}
  Owner = {o1}
  Draft <- MCDraft
  AllowAllNs = FALSE
  NoExemption = NoExemption
  Object <- MCObject
  NoRequest = NoRequest
INVARIANTS
  HardenedUnlessExempt
  DenialsAreJustified
  MutationIsStable
PROPERTIES
  StoreImplementsView
  StoresCatchUp
