SPECIFICATION Spec
CONSTANTS
  t1 = t1
  t2 = t2
  t3 = t3
  stored = stored
  streamed = streamed
  None = None
  Threads <- MCThreeThreads
  Depth = 2
  Results <- MCResults
  Unbuffered = {streamed}
  MaxRows = 2
  Gil = FALSE
  Calls <- MCCalls
  CallbackCalls <- MCSafeCallbacks
  NoMemory = TRUE
INVARIANTS NativeExclusive OpenMeansUp ReadsOwnOutcome DeallocatedLast
SYMMETRY MCSymmetry
CHECK_DEADLOCK FALSE
