SPECIFICATION FairSpec
CONSTANTS
  Worker = {"w1"}
  MaxUsize = 2
  MaxArgs = 2
  BuildMayFail = TRUE
INVARIANTS TypeOK ConfigAsWritten RuntimeAsConfigured WhoWaits
PROPERTIES MainStarts CallsReturn
\* The program ends, and threads that block each other stay so.
CHECK_DEADLOCK FALSE
