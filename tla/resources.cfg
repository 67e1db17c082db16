SPECIFICATION FairSpec
CONSTANTS
  a = a
  b = b
  pod = pod
  svc = svc
  c1 = c1
  c2 = c2
  p1 = p1
  p2 = p2
  m = m
  None = None
  Package <- MCPackage
  Client = {c1, c2}
  Pod = {pod}
  Service = {svc}
  In <- MCIn
  Port = {p1, p2}
  Probe = {m}
  Specs <- MCSpecs
  InitialSpec <- MCInitialSpec
  InitialStates <- MCInitialStates
  MaxChanges <- MCMaxChanges
  MaxFaults = 1
CHECK_DEADLOCK FALSE
INVARIANTS  LabelsExact ReadyIsServed NothingRemains
PROPERTIES EventuallySettled
