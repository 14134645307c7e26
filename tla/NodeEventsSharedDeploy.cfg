\* Two calls waiting for the same deploy.
CONSTANTS
  d1 = d1
  d2 = d2
  ok = ok
  errored = errored
  DeployIds = {d1}
  Outcomes = {ok, errored}
  Callers = {c1, c2}
  Absent = Absent
  Listener = Listener
  Free = Free
  Noise = Noise
  Blocks <- OneDeployBlocks
  MaxEmits = 1
SPECIFICATION Spec
PROPERTY AllWaitersNotified
