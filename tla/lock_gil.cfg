SPECIFICATION FairSpec
CONSTANTS
  t1 = t1
  t2 = t2
  t3 = t3
  stored = stored
  streamed = streamed
  None = None
  Threads <- MCThreads
  Depth = 2
  Results <- MCResults
  Unbuffered = {streamed}
  MaxRows = 2
  Gil = TRUE
  Calls <- MCCalls
  CallbackCalls <- MCSafeCallbacks
  NoMemory = FALSE
INVARIANTS TypeOK HandleExclusive OpenMeansUp ReadsOwnOutcome LockHeldInCall
PROPERTIES FollowsProtocol LockReleased CallsReturn
