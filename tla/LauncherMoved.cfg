\* a reload while an allocation is in flight
CONSTANTS
  Clients = {c1, c2}
  NodeIds = {"n1", "n2"}
  Configs <- TwoNodes
  Ptrs = {p1, p2}
  Handles = {h1, h2}
  MaxReloads = 1
  RelockOutcomes = {"enters"}
  NoPtr = NoPtr
  NoOne = NoOne
SPECIFICATION Spec
INVARIANT OwnedIsLive
CHECK_DEADLOCK FALSE
