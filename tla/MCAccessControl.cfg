SPECIFICATION AccessSpec
CONSTANTS
  admin = admin
  user = user
  c1 = c1
  c2 = c2
  c3 = c3
  c4 = c4
  Users <- MCUsers
  RoleOf <- MCRoleOf
  Calls <- MCCalls
  Requests <- MCRequests
  Granted <- MCGranted
  Literals <- MCLiterals
  MaxTokens = 2
  MaxFailures = 1
SYMMETRY Symmetric
VIEW Seen
\* The requests are finitely many, and then nothing is left to do.
CHECK_DEADLOCK FALSE
INVARIANTS
  AccessTypeOK
  PermissionsComeFromAdmins
  ShippedPermissionsReturn
  ServedPathsWereGranted
PROPERTIES
  RevokedTokenStaysOut
