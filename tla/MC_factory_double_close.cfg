\* Two goroutines call Close on the same group.
CONSTANTS
  Closers = {k1, k2}
  ErrorChCapacity = 10
  MaxErrors = 1
  MaxMerges = 1
  FairErrorsCall = TRUE
SPECIFICATION Spec
CHECK_DEADLOCK FALSE
PROPERTY CloseReturns
