SPECIFICATION Spec
CONSTANTS
  BITS = 24
  PTRS = 2
  Images <- MCImages
  Junk <- MCJunk
  Summaries <- MCSummaries
INVARIANTS SummaryRight VerdictRight
