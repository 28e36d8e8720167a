SPECIFICATION FairSpec
CONSTANTS
  Client = {c1, c2}
  Request = {r1, r2}
  Query = Query
  MaxFaults = 1
INVARIANTS
  TypeOK
  OneReplyEach
  ReplyIsOwn
  JudgedByAnAnswer
  OpenIsAttended
PROPERTIES
  JudgedStaysAlone
  TurnSettles
