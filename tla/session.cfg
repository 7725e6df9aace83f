SPECIFICATION Spec
CONSTANTS
  None = None
  Names <- MCNames
  DefaultCharset = "utf8mb4"
  MaxStatements = 2
  MaxSessions = 3
INVARIANTS TypeOK AutocommitAsAsked EncodingFollows NoRowVanishes
PROPERTIES ReconnectsOnlyAsked CommitKeepsAll RollbackUndoes
CHECK_DEADLOCK FALSE
