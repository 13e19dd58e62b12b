\* Four requests: the shortest list that loses one is head, two removed, one lost.
SPECIFICATION Spec
CONSTANTS
  r1 = r1
  r2 = r2
  r3 = r3
  r4 = r4
  Requests = {r1, r2, r3, r4}
  Nil = Nil
SYMMETRY RequestSymmetry
INVARIANTS DrainIsComplete DiesOnlyOvertaken BackLinksAgree ListEnds
\* the server returns or the process dies
CHECK_DEADLOCK FALSE
