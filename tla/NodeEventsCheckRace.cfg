\* One call, one deploy: the wait that misses its event.
CONSTANTS
  d1 = d1
  d2 = d2
  ok = ok
  errored = errored
  DeployIds = {d1}
  Outcomes = {ok, errored}
  Callers = {c1}
  Absent = Absent
  Listener = Listener
  Free = Free
  Noise = Noise
  Blocks <- OneDeployBlocks
  MaxEmits = 1
SPECIFICATION Spec
PROPERTY SomeIfFinalisedInTime
