\* Each part in its small instance; bounds in MCReading.
CONSTANTS
  LastByte = 3
  LastSeq = 3
  LastWrite = 4
SPECIFICATION Spec
INVARIANTS TableReads DamageShows
PROPERTIES AreCursors ShowsSnapshot
CHECK_DEADLOCK FALSE
