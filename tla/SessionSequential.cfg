\* One request at a time; requests, lookups and loads fail, nothing refuses a write.
CONSTANTS
  Users = {u1, u2}
  NoUser = NoUser
  Calls = {c1}
  Faults = {"load", "lookup", "revoke"}
  MaxWrites = 1
SPECIFICATION FairSpec
INVARIANTS LoginMeansSignedOut
PROPERTIES SignInSpinnerEnds
