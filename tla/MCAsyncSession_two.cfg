\* Two workers of one session id, neither held; the calls share a request id.
SPECIFICATION SafeSpec
CONSTANTS
  m1 = m1
  s1 = s1
  w1 = w1
  w2 = w2
  Calls = {m1, s1}
  Stops = {s1}
  Workers = {w1, w2}
  Hold = {}
  RequestID <- SharedId
SYMMETRY WorkerSymmetry
INVARIANTS TypeOK AnsweredByARun RunsInOrder OneResponseEach StopIsLast
\* calls run out, and a subscriber may stay blocked for ever
CHECK_DEADLOCK FALSE
