\* One group; the caller starts an id that is already managed.
CONSTANTS
  Groups = {g1}
  Tokens = {t1}
  Internal = Internal
  NoToken = NoToken
  NoGroup = NoGroup
  NoSession = NoSession
  Configs = {c1, c2}
  InitConfig = c1
  CommandVersion = 1
  Versions = {1}
  LockProtocol = "release"
  LockTimeouts = TRUE
  PauseUnmanaged = FALSE
  StartManaged = TRUE
  MaxInstances = 2
  MaxCloses = 0
  MaxPauses = 0
  MaxReconfigures = 0
  MaxFactoryFailures = 0
SPECIFICATION Spec
INVARIANT LiveGroupsRegistered
