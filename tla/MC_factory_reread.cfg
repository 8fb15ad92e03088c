\* The user calls Errors() again and reads only the newest stream.
CONSTANTS
  Closers = {k1}
  ErrorChCapacity = 10
  MaxErrors = 2
  MaxMerges = 2
  FairErrorsCall = TRUE
SPECIFICATION Spec
CHECK_DEADLOCK FALSE
PROPERTY ErrorsEventuallyDelivered
