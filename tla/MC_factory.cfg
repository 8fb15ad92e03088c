\* One Close caller; the user ranges over a single Errors() stream; more
\* errors than errorCh holds, so the handler blocks on a full channel.
CONSTANTS
  Closers = {k1}
  ErrorChCapacity = 10
  MaxErrors = 11
  MaxMerges = 1
  FairErrorsCall = TRUE
SPECIFICATION Spec
INVARIANT TypeOK
PROPERTY CloseReturns
PROPERTY HandleSpec
