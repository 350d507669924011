CONSTANTS
  CodePoint <- MCCodePoint
  Alphabets <- MCAlphabets
  Queries <- MCQueries
  Texts <- MCTexts
  MaxCandidates = 5

SPECIFICATION Spec
INVARIANTS
  BreaksFollowRules
  CanonicalEquivalence
  SmartMatching
  MatchIsEmbedding
  BoundaryMatchesAreLongest
  ResultsAreOrdered
