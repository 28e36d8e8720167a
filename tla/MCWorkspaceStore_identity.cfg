SPECIFICATION Spec
CONSTANTS
  None = None
  candidate1 = candidate1
  hr1 = hr1
  User = {candidate1, hr1}
  RoleOf <- Roles
  MaxOps = 2
  MaxCommands = 2
  MaxVisits = 2
  MaxFaults = 1
  MaxFailures = 2
CHECK_DEADLOCK FALSE
INVARIANT OneIdentity
