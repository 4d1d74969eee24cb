SPECIFICATION Spec
CONSTANTS
  Programs <- MCPrograms
  DISK_DELAY = 3
  KEY_QUEUE = 6
  TvWords = 4
INVARIANT Computed
INVARIANT KeysKept
PROPERTY Terminates
PROPERTY KeysTaken
