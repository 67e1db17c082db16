SPECIFICATION Spec
CHECK_DEADLOCK FALSE
CONSTANTS
  deploy = deploy
  job = job
  p1 = p1
  p2 = p2
  p3 = p3
  p4 = p4
  Resource = {"cert", "conf"}
  Mesh = "istio"
  Data = {"a", "b"}
  InitialData = "a"
  None = None
  Invalid = Invalid
  Controller = {deploy, job}
  ControllerKind <- MCControllerKind
  Pod = {p1, p2, p3, p4}
  Owner <- MCOwner
  Uses <- MCUses
  Selectors <- MCSelectors
  MaxChanges = 2
  MaxFaults = 1
INVARIANTS
  
  
  MarkedIsClean
