CONSTANTS
  alpha = alpha
  beta = beta
  peer = peer
  fed1 = fed1
  fed2 = fed2
  th1 = th1
  th2 = th2
  NoUrl = NoUrl
  Servers = {alpha, beta}
  Peers = {peer}
  Feds = {fed1, fed2}
  Threads = {th1, th2}
  Tables <- MCTables
  MaxRows = 4
  MaxRequests = 3
SYMMETRY Symmetric
SPECIFICATION Spec
INVARIANTS TypeOK JoinedWasAdmitted
PROPERTIES RemovalsWanted SyncSparesMembers
CHECK_DEADLOCK FALSE
