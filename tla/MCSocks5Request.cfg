\* Two addresses: the client's and a target's, or two targets while it is unknown.
SPECIFICATION Spec
CONSTANTS
  p1 = p1
  p2 = p2
  Peers = {p1, p2}
  NoPeer = NoPeer
INVARIANTS EndedIsReleased OneVerdict LockLeaksByForwardOnly
PROPERTIES OneEndEndsAll ExpiryEnds
\* a request ends
CHECK_DEADLOCK FALSE
