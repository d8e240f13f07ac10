SPECIFICATION Spec
CONSTANTS
  a = a
  b = b
  Caller = {a, b}
  ConfigType = {t1}
  Url = {u1, u2}
  None = None
  Dummy = Dummy
INVARIANTS
  TypeOK
  ReleasedByOwnDownload
  OwnTransfer
  InstalledAsAsked
PROPERTIES
  StartedIsReported
CHECK_DEADLOCK FALSE
