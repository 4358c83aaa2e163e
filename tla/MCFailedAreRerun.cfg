SPECIFICATION SpecMenu
CONSTANTS
  e1 = e1
  e2 = e2
  rcv = rcv
  prx = prx
  snd = snd
  snd2 = snd2
  None = None
  NumServers = 2
  Experiments <- MCExperiments
  Scenarios = {0, 1}
  Receivers <- MCReceivers
  Proxies <- MCProxies
  Senders <- MCSenders
  Deployed <- MCDeployed
  Builds <- MCBuilds
  ReasonRest <- MCReasonRest
  TestProxy <- MCTestProxy
  MaxFailures = 2
  Lists <- MCLists
  Rerun <- MCRerun
  ScenarioList <- MCScenarioList
  StartFrom = e1
  MaxMenus = 2
INVARIANTS FailedAreRerun
CHECK_DEADLOCK FALSE
