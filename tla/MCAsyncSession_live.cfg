\* One worker, held by its client; every call has a request id of its own.
SPECIFICATION Spec
CONSTANTS
  m1 = m1
  s1 = s1
  w1 = w1
  w2 = w2
  Calls = {m1, s1}
  Stops = {s1}
  Workers = {w1}
  Hold = {w1}
  RequestID <- OwnIds
PROPERTIES EveryCallReturns SubscribedIsRun KeepsPromise
\* calls run out, and a subscriber may stay blocked for ever
CHECK_DEADLOCK FALSE
