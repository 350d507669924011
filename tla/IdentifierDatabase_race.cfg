CONSTANTS
  t1 = t1  t2 = t2
  Threads = {t1, t2}
  Places <- RacePlaces
  BufferPlaces <- RaceBufferPlaces
  SyntaxPlaces <- MCSyntaxPlaces
  Texts <- MCTexts
  LongTexts = {"long"}
  Empty = ""
  Queries = {"f"}
  Ranking <- MCRanking
  MaxCandidates = 0
  BufferContents <- MCBufferContents
  Keywords <- MCKeywords
  TagContents <- MCTagContents
  NoCall = NoCall  Pending = Pending  Garbage = Garbage
  MaxRequests = 2

SPECIFICATION Spec
INVARIANTS
  QueryReadsLiveCandidates

\* The number of requests is bounded.
CHECK_DEADLOCK FALSE
