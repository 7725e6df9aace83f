SPECIFICATION Spec
CONSTANTS
  c1 = c1
  c2 = c2
  None = None
  Cursors = {c2}
  Streaming = {c2}
  Answers <- MCAnswers
  MaxStatements = 4
  Sizes = {2}
  Offsets = {0, 2}
  Kills = TRUE
  Disconnects = TRUE
  ConverterRaises = FALSE
INVARIANTS RowsInOrder SetsOfOwnStatement EmptyMeansEnd ExecuteStartsAfresh
