CONSTANTS
  Groups = {g1, g2}
  Tokens = {t1}
  Internal = Internal
  NoToken = NoToken
  NoGroup = NoGroup
  NoSession = NoSession
  Configs = {c1, c2}
  InitConfig = c1
  CommandVersion = 1
  Versions = {1}
  LockProtocol = "release"
  LockTimeouts = TRUE
  PauseUnmanaged = FALSE
  StartManaged = FALSE
  MaxInstances = 2
  MaxCloses = 0
  MaxPauses = 2
  MaxReconfigures = 1
  MaxFactoryFailures = 0
SPECIFICATION Spec
INVARIANT NoStrandedInternalLock
