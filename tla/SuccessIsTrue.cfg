\* What the success alert says, with one request at a time and no fault.
CONSTANTS
  Users = {u1}
  NoUser = NoUser
  Calls = {c1}
  Faults = {}
  MaxWrites = 1
SPECIFICATION Spec
INVARIANTS SuccessIsTrue
