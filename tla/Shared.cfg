\* Each object in its small instance; bounds in MCShared.
SPECIFICATION Spec
INVARIANTS CacheAgrees ReadersFind
PROPERTIES CacheKeepsPromise SystemShared ClientOwns
CHECK_DEADLOCK FALSE
