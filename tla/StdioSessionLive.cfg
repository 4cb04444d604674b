\* Liveness of the session: two reviews share a pool of one slot.
SPECIFICATION FairSpec
CONSTANTS
  d1 = d1
  d2 = d2
  v1 = v1
  v2 = v2
  pool = pool
  Requests = {v1, v2}
  Delegates <- MCDelegates
  Kimi = {v2}
  Keys = {pool}
  KeyOf <- MCKeyOf
  Limit <- MCLimit
PROPERTIES
  CloseEndsSession
  CancelEndsRequest
