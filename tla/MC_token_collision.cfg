\* Two controllers, one of which sends the string internalToken as its lock
\* token, and Reconfigure; "hold" protocol, one pause each.
CONSTANTS
  Groups = {g1, g2}
  Tokens = {t1, Internal}
  Internal = Internal
  NoToken = NoToken
  NoGroup = NoGroup
  NoSession = NoSession
  Configs = {c1, c2}
  InitConfig = c1
  CommandVersion = 1
  Versions = {1}
  LockProtocol = "hold"
  LockTimeouts = TRUE
  PauseUnmanaged = FALSE
  StartManaged = FALSE
  MaxInstances = 2
  MaxCloses = 0
  MaxPauses = 1
  MaxReconfigures = 2
  MaxFactoryFailures = 0
SPECIFICATION Spec
PROPERTY ForeignLockRespected
