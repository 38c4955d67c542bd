SPECIFICATION BackSpec
CONSTANTS
  Candidates = {1, 2}
  Limit = 1
  CodeFiles = {1, 2, 3, 4}
  Workloads <- MCWorkloads
  CodeLoads <- MCCodeLoads
  Days <- MCDays
INVARIANT AnswersTrue
PROPERTIES
  EvidenceSettled
  VectorsFollow
  OncePerGeneration
  CodeFollows
