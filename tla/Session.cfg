\* Safety of the life cycle: two requests at a time, storage and database faults.
CONSTANTS
  Users = {u1, u2}
  NoUser = NoUser
  Calls = {c1, c2}
  Faults = {"store", "load", "write"}
  MaxWrites = 1
SPECIFICATION Spec
SYMMETRY Symmetry
INVARIANTS TypeOK AlertBelongs
PROPERTIES InsideKeepsSession
