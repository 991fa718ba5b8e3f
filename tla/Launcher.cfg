\* two clients, two nodes, two cells, one handle per node, one reload; any
\* outcome of locking a std::mutex twice, so the event loop may stop
CONSTANTS
  Clients = {c1, c2}
  NodeIds = {"n1", "n2"}
  Configs <- TwoNodes
  Ptrs = {p1, p2}
  Handles = {h1}
  MaxReloads = 1
  RelockOutcomes = {"blocks", "enters", "throws"}
  NoPtr = NoPtr
  NoOne = NoOne
SPECIFICATION Spec
SYMMETRY Sym
INVARIANTS TypeOK PointersMapped OwnedStaysLive RemoteAccounted
CHECK_DEADLOCK FALSE
