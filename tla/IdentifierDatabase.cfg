CONSTANTS
  t1 = t1  t2 = t2
  Threads = {t1, t2}
  Places <- MCPlaces
  BufferPlaces <- MCBufferPlaces
  SyntaxPlaces <- MCSyntaxPlaces
  Texts <- MCTexts
  LongTexts = {"long"}
  Empty = ""
  Queries = {"f"}
  Ranking <- MCRanking
  MaxCandidates = 2
  BufferContents <- MCBufferContents
  Keywords <- MCKeywords
  TagContents <- MCTagContents
  NoCall = NoCall  Pending = Pending  Garbage = Garbage
  MaxRequests = 3

SPECIFICATION Spec
INVARIANTS
  TagsAreCurrent
PROPERTIES
  StoreSpec

\* The number of requests is bounded.
CHECK_DEADLOCK FALSE
