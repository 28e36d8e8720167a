SPECIFICATION HSpec
CONSTANTS
  Task = {t1}
  ResumeTask = {t1}
  Worker = {w1, w2}
  Dispatcher = {d1}
  Token = {k1, k2, k3}
  NoToken = NoToken
  NoTask = NoTask
  MaxRetries = 1
  SoftLimit = 1
  HardLimit = 2
  ExecLease = 3
  DispatchLease = 1
  StallAfter = 4
  BatchSize = 1
  MaxCopies = 2
  MaxFaults = 2
SYMMETRY Symmetry
INVARIANT TypeOK
INVARIANT ExclusiveExecution
INVARIANT ResultAgreesWithTask
INVARIANT DispatchedIsInFlight
PROPERTY ImplementsLifecycle
