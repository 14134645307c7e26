\* Every graph of up to four blocks with up to three parents each.
CONSTANTS
  Rows = 4
  MaxParents = 3
SPECIFICATION Spec
INVARIANTS
  IInv
  EdgesMeetTheirParent
PROPERTY NodesStandOnTheirLine
CHECK_DEADLOCK FALSE
