\* a mutex that blocks when it is locked twice
CONSTANTS
  Clients = {c1}
  NodeIds = {"n1", "n2"}
  Configs <- TwoNodes
  Ptrs = {p1}
  Handles = {h1, h2}
  MaxReloads = 0
  RelockOutcomes = {"blocks"}
  NoPtr = NoPtr
  NoOne = NoOne
SPECIFICATION FairSpec
PROPERTY RequestsAnswered
CHECK_DEADLOCK FALSE
