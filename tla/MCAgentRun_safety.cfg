SPECIFICATION Spec
CONSTANTS
  Candidate = {c1}
  Request = {q1, q2}
  Hr = {h1, h2}
  Content = {t1}
  Target = {1, 2}
  Order <- Stages
  MaxJobs = 2
  MaxResumes = 2
  MatchLimit = 1
SYMMETRY Symmetry
INVARIANTS
  TypeOK
  RunKeepsResume
  OffersFinishRun
  AchievedByOffers
PROPERTIES
  ImplementsRunLifecycle
  FinishedStays
