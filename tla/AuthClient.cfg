\* Two accounts, two calls at once, every fault; no symmetry, for CallsComplete.
CONSTANTS
  Users = {u1, u2}
  NoUser = NoUser
  Calls = {c1, c2}
  Faults = {"store", "load", "lookup", "revoke"}
SPECIFICATION FairAuthSpec
INVARIANTS TypeOK SessionPersisted OwnIsCurrent
PROPERTIES EndsOnlyOwnSession CallsComplete
