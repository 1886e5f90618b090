\* Two clients and three calls; four items of work; bounds in MCProgress.
CONSTANTS
  Threads = {t1, t2}
  None = None
  Items = {i1, i2, i3, i4}
  p1 = p1
SPECIFICATION FairSpec
PROPERTY MakesProgress
CHECK_DEADLOCK FALSE
