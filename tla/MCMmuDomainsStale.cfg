CONSTANTS
  PDIDX_MAX = 2
  SID_MAX = 4
  Rights = {0, 9}
  NULL = NULL
  StaleCallers = TRUE
  MaxGen = 2
  MaxRef = 2

SPECIFICATION Spec
CONSTRAINT Bounded
PROPERTY OnlyLiveIdsServed
