\* Whom a deactivation deletes while a sign-in of another account is in flight.
CONSTANTS
  Users = {u1, u2}
  NoUser = NoUser
  Calls = {c1, c2}
  Faults = {}
  MaxWrites = 1
SPECIFICATION FairSpec
PROPERTY DeletesWhoWasVerified
