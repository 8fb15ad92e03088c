CONSTANTS
  Groups = {g1}
  Tokens = {t1}
  Internal = Internal
  NoToken = NoToken
  NoGroup = NoGroup
  NoSession = NoSession
  Configs = {c1, c2}
  InitConfig = c1
  CommandVersion = 1
  Versions = {1, 2}
  LockProtocol = "release"
  LockTimeouts = TRUE
  PauseUnmanaged = TRUE
  StartManaged = FALSE
  MaxInstances = 3
  MaxCloses = 1
  MaxPauses = 1
  MaxReconfigures = 2
  MaxFactoryFailures = 1
SPECIFICATION Spec
INVARIANT LiveGroupsRegistered
