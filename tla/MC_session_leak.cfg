\* A controller resumes a group while the caller closes it.
CONSTANTS
  Groups = {g1}
  Tokens = {t1}
  Internal = Internal
  NoToken = NoToken
  NoGroup = NoGroup
  NoSession = NoSession
  Configs = {c1, c2}
  InitConfig = c1
  CommandVersion = 1
  Versions = {1}
  LockProtocol = "release"
  LockTimeouts = TRUE
  PauseUnmanaged = FALSE
  StartManaged = FALSE
  MaxInstances = 2
  MaxCloses = 1
  MaxPauses = 1
  MaxReconfigures = 0
  MaxFactoryFailures = 0
SPECIFICATION Spec
INVARIANT StartOnlyStopped
