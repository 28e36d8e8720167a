SPECIFICATION FairSpec
CONSTANTS
  Job = {j1}
  Hr = {h1, h2}
  Worker = {w1}
  Round = {c1}
  MaxRequests = 3
INVARIANTS
  TypeOK
  OnlyNewestIsActive
  DeletedIsSettled
  SnapshotOfNewest
PROPERTY
  RunningEnds
