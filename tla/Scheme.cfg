SPECIFICATION Spec
CONSTANTS
  Q = 1048573
  Attribute = {1, 2, 3}
  Tree <- Policies
  Seed = {1}
  MaxCommands = 4
  MaxDepth = 2
  Name = {1,2,3}
INVARIANTS RecombinesIffSatisfied OpensIffSatisfied OpensAsModelled PartsOfOneKeyOnly BoundToItsPolicy
CHECK_DEADLOCK FALSE
