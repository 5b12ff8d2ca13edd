SPECIFICATION FairSpec
CONSTANTS
  r1 = r1  r2 = r2  r3 = r3  here = here  there = there
  None = None
  Runs = {r1, r2, r3}
  Processes = {here, there}
  Proc <- TwoAndOne
  Leases = TRUE
  TakeOver = {r2, r3}
  MaxLost = 1
  Mortal = {here}
INVARIANTS NoLateWrite ClaimIsTheOwners NoNameLeaked
PROPERTIES TakeoverGoesOn
CHECK_DEADLOCK FALSE
