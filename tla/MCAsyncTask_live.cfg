SPECIFICATION FairSpec
CONSTANTS
  Task = {t1}
  ResumeTask = {}
  Worker = {w1, w2}
  Dispatcher = {d1}
  Token = {k1, k2}
  NoToken = NoToken
  NoTask = NoTask
  MaxRetries = 1
  SoftLimit = 2
  HardLimit = 3
  ExecLease = 1
  DispatchLease = 1
  StallAfter = 2
  BatchSize = 1
  MaxCopies = 1
  MaxFaults = 1
PROPERTY RunningSettles
PROPERTY UndispatchedIsPublished
PROPERTY StaleWorkerWritesNothing
