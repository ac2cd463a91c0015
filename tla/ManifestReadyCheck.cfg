CONSTANTS
  CRStates = {"Ready", "Warning", "Processing"}
  Paths = {"status.state", "status.phase"}
  DefaultPath = "status.state"
  MaxResources = 2
  MaxReplicas = 1
  Nil = Nil
  Absent = Absent
  NotString = NotString
  BadJSON = BadJSON

SPECIFICATION Spec
INVARIANT ReadyMeansAllDeploymentsReady
