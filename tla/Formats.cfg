\* Each format in its small widths; bounds in MCFormats.
SPECIFICATION Spec
INVARIANTS KeysOrdered RecordsReadBack ChecksumSees TextIsOne
CHECK_DEADLOCK FALSE
