SPECIFICATION HSpec
CONSTANTS
  Contents = {c1}
  Uploads = {u1, u2}
  NoUpload = NoUpload
  Candidates = {cand}
  HrUsers = {hr}
  Deliveries = {}
  Cleanup = Cleanup
  Resets = {}
  BatchSize = 1
  MaxFaults = 0
INVARIANT ClaimedIsUnreferenced
