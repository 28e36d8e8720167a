SPECIFICATION Spec
CONSTANTS
  Place = {"hangzhou", "beijing"}
  Skill <- SkillNumber
  Unknown = Unknown
  Pairs <- AllPairs
  Text <- Texts
  Wanted <- Requests
  Null = Null
  Present = Present
  Replies <- Answers
  Today = 13
CHECK_DEADLOCK FALSE
INVARIANTS
  ThresholdIsExact
  MoreEvidenceNeverHurts
  
  AnswerDecides
  ProfileIsFaithful
  ExperienceIsCoveredTime
