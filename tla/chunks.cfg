SPECIFICATION Spec
CONSTANTS
  TARGET_CHARS = 550
  MAX_CHARS = 800
  MIN_CHARS = 120
  TitleChars = 60
  Sizes = {59, 119, 499, 620, 801}
  MaxLines = 6
INVARIANTS
  NothingLost
  ChunkSizes
\* The text ends.
CHECK_DEADLOCK FALSE
