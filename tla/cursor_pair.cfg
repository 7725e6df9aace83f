SPECIFICATION FairSpec
CONSTANTS
  c1 = c1
  c2 = c2
  None = None
  Cursors = {c1, c2}
  Streaming = {c2}
  Answers <- MCFewAnswers
  MaxStatements = 2
  Sizes = {2}
  Offsets = {1}
  Kills = TRUE
  Disconnects = TRUE
  ConverterRaises = TRUE
INVARIANTS TypeOK StreamOwned RowsDescribed ExecuteStartsAfresh OutOfSyncOnlyByStream
PROPERTY MethodsReturn
