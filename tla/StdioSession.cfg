\* Safety of the session: a delegate and a review share a pool of one slot.
SPECIFICATION Spec
CONSTANTS
  d1 = d1
  d2 = d2
  v1 = v1
  v2 = v2
  pool = pool
  Requests = {d1, v1}
  Delegates <- MCDelegates
  Kimi = {d1}
  Keys = {pool}
  KeyOf <- MCKeyOf
  Limit <- MCLimit
INVARIANTS
  NothingOutlivesSession
  SlotsMatchTasks
  EventsInOrder
PROPERTIES
  OutcomeIsFirstFailure
  NothingStartsAfterClose
  ImplementsServer
