SPECIFICATION FairSpec
CONSTANTS
  None = None
  Tokens <- MCTokens
  Digits = {"53"}
  NameLimit = 40
  TenantDomain = "uds.dev"
  AdminDomain = "admin.uds.dev"
  AllowPublicClients = FALSE
  Replica = {"r1"}
  Draft <- MCDraft
  MaxRaces = 2
INVARIANTS OneOwner IndexesMatchMap
PROPERTY FreedClientsReturn
CHECK_DEADLOCK FALSE
