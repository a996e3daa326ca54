CONSTANTS
  Files <- MCFiles
  Category <- MCCategory
  Strip <- MCStrip
  MaxChunk = 1
  MaxInput = 3
  Limits = {0, 1}
  MaxRuns = 2
  Workers = {w1, w2}
  w1 = w1
  w2 = w2
  Reviews = {a1}
  a1 = a1
  MaxCalls = 1
  TopK = 2
  Similarity <- MCSimilarity
  HighTerms <- MCHighTerms
  MediumTerms <- MCMediumTerms
SPECIFICATION FairSpec
INVARIANTS
  ParsesFaithfully
  EmbedsInOrder
  TypeOK
  ClausesAreWhole
  FinishedStaysComplete
  SearchMissesNothing
  RiskIsOfText
PROPERTIES
  RiskIsKept
  RunsGetThrough
  EverythingIngested
CHECK_DEADLOCK FALSE
