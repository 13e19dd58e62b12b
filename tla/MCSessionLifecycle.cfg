\* Two starts, two sweepers, one failed operation, one restart.
SPECIFICATION Spec
CONSTANTS
  r1 = r1
  r2 = r2
  loop = loop
  endpoint = endpoint
  Runs = {r1, r2}
  Sweepers = {loop, endpoint}
  MaxFailures = 1
  MaxCrashes = 1
INVARIANTS TypeOK OneBrowser QuietIsClean FileGoesWithRecord
PROPERTIES DeadRecordGoesAway
\* starts run out
CHECK_DEADLOCK FALSE
