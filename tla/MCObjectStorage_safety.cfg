SPECIFICATION HSpec
CONSTANTS
  Contents = {c1, c2}
  Uploads = {u1, u2}
  NoUpload = NoUpload
  Candidates = {cand}
  HrUsers = {hr}
  Deliveries = {d1}
  Cleanup = Cleanup
  Resets = {r1}
  BatchSize = 1
  MaxFaults = 1
SYMMETRY Symmetry
INVARIANTS TypeOK ResourceKeepsFile AttachmentKeepsFile NoFileForgotten
