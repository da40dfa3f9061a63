SPECIFICATION Spec
CONSTANTS
  c1 = c1
  c2 = c2
  p1 = p1
  p2 = p2
  Requests <- MCRequests
  Passwords <- MCPasswords
  Shares = {"photos"}
  MaxMade = 3
  MaxFaults = 1
  MaxRestarts = 2
SYMMETRY MCSymmetry
INVARIANTS
  OnlyMaster
  PasswordKeepsKey
  AnsweredKeyRecovers
CHECK_DEADLOCK FALSE
