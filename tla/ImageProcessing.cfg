\* Three uploads, three names, four levels, three pixels overflow.
CONSTANTS
  MaxLevel = 3
  Contrast = 1
  IntMax = 7
  RoundsDown <- ShortSums
  Image <- Images
  Name <- Names
  MaxUploads = 3
  NoImage = NoImage
  NoFile = NoFile
SPECIFICATION Spec
INVARIANTS TypeOK SavedFromOriginal OutputsMatchResults
\* The uploads of a behaviour are finitely many.
CHECK_DEADLOCK FALSE
