\* two clients, two nodes, one cell, one reload; any outcome of a second lock
CONSTANTS
  Clients = {c1, c2}
  NodeIds = {"n1", "n2"}
  Configs <- TwoNodes
  Ptrs = {p1}
  Handles = {h1}
  MaxReloads = 1
  RelockOutcomes = {"blocks", "enters", "throws"}
  NoPtr = NoPtr
  NoOne = NoOne
SPECIFICATION FairSpec
PROPERTY AnsweredUnlessStuck
CHECK_DEADLOCK FALSE
