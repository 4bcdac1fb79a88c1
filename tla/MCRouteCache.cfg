CONSTANTS
  r1 = r1
  r2 = r2
  w1 = w1
  w2 = w2
  Readers = {r1, r2}
  Writers = {w1, w2}
  MaxVersion = 3
SPECIFICATION FairSpec
INVARIANT AnswerFresh
PROPERTIES ViewSpec LoadReturns
