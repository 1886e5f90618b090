\* Three clients, four calls, every fault of a file but a failed append; the
\* bounds of the other parts are in MCDurability.
CONSTANTS
  Threads = {t1, t2, t3}
  None = None
  Kinds = {"write", "sync", "flush"}
  Faults = {"sync", "newlog", "table", "manifest", "work"}
  MaxOps = 4
  GroupLimit = 2
  BufferSize = 1
  Slowdown = 1
  Stop = 2
  Trigger = 1
  Chunks = 1
SPECIFICATION PartSpec
SYMMETRY Symmetry
INVARIANTS QueueDurable SequenceUnique QuietWhenClosed AnswersSurvive AlwaysOpens LogReadsBack DamageIsLocal RepairKeeps
CHECK_DEADLOCK FALSE
