SPECIFICATION FairRag
CONSTANTS
  a1 = a1
  a2 = a2
  a3 = a3
  Articles = {a1, a2, a3}
  TopK = 2
  Scores = {1, 2}
  MaxQueries = 2
  MaxChunks = 2
INVARIANTS BestHitKept
PROPERTIES AnswerEnds
