SPECIFICATION FairSpec
CONSTANTS
  Limit = 2
  MaxTests = 3
INVARIANTS TypeOK RoundTripFaithful Verdict
PROPERTY ProgramEnds
\* The program ends.
CHECK_DEADLOCK FALSE
