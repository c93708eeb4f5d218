\* Two configurations that are valid, one that is not, and a missing file.
CONSTANTS
  default = default
  edited = edited
  wrong = wrong
  Missing = Missing
  Valid <- TwoValid
  Invalid <- OneInvalid
  Default = default
SPECIFICATION FairSpec
INVARIANTS ServerThreadServes
\* The program ends.
CHECK_DEADLOCK FALSE
