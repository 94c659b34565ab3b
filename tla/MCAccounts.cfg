CONSTANTS
  n1 = n1
  n2 = n2
  none = none
  id1 = id1
  id2 = id2
  x1 = x1
  x2 = x2
  r1 = r1
  r2 = r2
  r3 = r3
  h1 = h1
  Names = {n1, n2}
  NoName = none
  ObjectIds = {id1, id2}
  Ulids = {x1, x2}
  Forms <- MCForms
  Registrations = {r1, r2, r3}
  RoleChanges = {h1}
  MaxFailedCalls = 1
SPECIFICATION AccountsSpec
SYMMETRY AccountSymmetry
INVARIANTS AccountsTypeOK OneAccountPerName AnswersAreTrue AdminsHoldTheKey
CHECK_DEADLOCK FALSE
