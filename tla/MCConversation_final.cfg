SPECIFICATION Spec
CONSTANTS
  Client = {c1, c2}
  Request = {r1, r2}
  Query = Query
  MaxFaults = 0
SYMMETRY Symmetry
PROPERTY JudgedIsFinal
