CONSTANTS
  PDIDX_MAX = 2
  SID_MAX = 2
  Rights = {0, 9}
  NULL = NULL
  NoThread = NoThread
  Threads = {T1, T2}
  KernelLock = TRUE
  MaxStretch = 3
  MaxRef = 2
SPECIFICATION Spec


INVARIANT TypeOK IdsNeverReissued RightsPersist RefsCounted StretchDestroyedOnce
PROPERTY  ImplementsMmuDomains
