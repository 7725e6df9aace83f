SPECIFICATION Spec
CONSTANTS
  None = None
  Names <- MCServerNames
  DefaultCharset = "utf8mb4"
  MaxStatements = 0
  MaxSessions = 1
INVARIANT EncodingAlwaysFollows
CHECK_DEADLOCK FALSE
