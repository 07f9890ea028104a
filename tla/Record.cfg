\* One key, an object that comes and goes, and a later build that calls one
\* fact more a measure; an older build's row may already be there.
CONSTANTS
  k1 = k1  o1 = o1  state = state  count = count  d1 = d1  d2 = d2  null = null
  Keys <- OneKey  Readings <- ObjectComesAndGoes
  Decls <- TwoDecls  Measures <- BothMeasuresLater
  None = null  MaxTime = 2  MaxReadings = 2
SPECIFICATION Spec
INVARIANT TypeOK
INVARIANT AnswerIsTheRealDifference
INVARIANT NewestRowIsTheLastReadingKept
INVARIANT PruneKeepsABaseline
CHECK_DEADLOCK FALSE
