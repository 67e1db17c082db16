SPECIFICATION NetworkSpec
CONSTANTS
  None = None
  Tokens <- MCTokens
  Digits = {}
  NameLimit = 80
  TenantDomain = "uds.dev"
  AdminDomain = "admin.uds.dev"
  AllowPublicClients = FALSE
  KubeApiPeers = {"10.43.0.1/32"}
  KubeNodePeers = {"10.1.0.1/32"}
  Revision <- MCDraft
  Workload <- MCWorkload
  MaxGen = 3
  MaxFaults = 1
CHECK_DEADLOCK FALSE
INVARIANTS
  EverythingServed
  NoEntryWithoutToken
  NothingLeftBehind
