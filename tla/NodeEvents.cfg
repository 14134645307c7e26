\* Two calls, two deploys, blocks that carry one deploy or both.
CONSTANTS
  d1 = d1
  d2 = d2
  ok = ok
  errored = errored
  DeployIds = {d1, d2}
  Outcomes = {ok, errored}
  Callers = {c1, c2}
  Absent = Absent
  Listener = Listener
  Free = Free
  Noise = Noise
  Blocks <- TwoDeployBlocks
  MaxEmits = 2
SPECIFICATION FairSpec
INVARIANTS
  IInv
PROPERTIES
  LoneCallWoken
  EveryCallReturns
  DeliveredIsRecorded
  ImplementsWatch
