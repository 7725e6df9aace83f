SPECIFICATION Spec
CONSTANTS
  Prefix = 2
  Postfix = 1
  MaxLength = 10
  Lengths = {1, 2, 4, 8}
  MaxArgs = 4
  None = None
  Counts <- MCCounts
INVARIANTS TypeOK EachRowOnce StatementsFit StatementsFull RowcountOfAll
CHECK_DEADLOCK FALSE
