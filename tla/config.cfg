SPECIFICATION FairSpec
CHECK_DEADLOCK FALSE
CONSTANTS
  w = w
  a = a
  c1 = c1
  bad = bad
  d1 = d1
  d2 = d2
  cidr = cidr
  Proc = {w, a}
  Watcher = w
  Package = {"pkg"}
  None = None
  Cert = {c1, bad, d1, d2}
  Cidr = {cidr}
  Domain = {"example.org"}
  Uri = {"uri"}
  Specs <- MCSpecs
  Parsing = {c1}
  Origin = {"dod"}
  ShippedCerts <- MCShippedCerts
  Secrets <- MCSecrets
  Modes = {"AUTO", "SIGNED_JWT"}
  DefaultMode = "AUTO"
  DefaultDomain = "uds.dev"
  InitialSpec <- MCInitial
  InitialShipped <- MCInitialShipped
  InitialSecret <- MCInitialSecret
  MaxChanges = 2
  MaxFaults = 1
INVARIANTS
  FollowsConfig
  BundlesCurrent
  AuthserviceFollows
PROPERTIES
  EventuallyProcessed
