\* Two configurations that are valid, one that is not, and a missing file.
CONSTANTS
  default = default
  edited = edited
  wrong = wrong
  Missing = Missing
  Valid <- TwoValid
  Invalid <- OneInvalid
  Default = default
SPECIFICATION FairSpec
INVARIANTS TypeOK ServerFindsMutex RunsOnItsConfig QueueGoesLast EndsAlone
PROPERTIES OneThreadEach TermEndsUnlessReinitialised HupServed
\* The program ends.
CHECK_DEADLOCK FALSE
