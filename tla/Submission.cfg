\* Calls of any kind on one F1r3flyApi, a chain that outgrows the window.
CONSTANTS
  Calls = {a, b}
  Api = Api
  Shared = TRUE
  MaxHead = 4
  Window = 2
SPECIFICATION SubmissionFairSpec
INVARIANTS
  SubmissionIInv
  SequentialDeploysNeverRegress
  ProposedHoldsDeploy
  CallersAreTold
PROPERTIES
  SamplingEnds
CHECK_DEADLOCK FALSE
