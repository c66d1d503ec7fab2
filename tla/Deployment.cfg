\* Two instances that start over and over while staff changes the one permission, two roles and two accounts.
SPECIFICATION FairSpec
CONSTANTS
  Instance = {i1, i2}
  User = {"owner", "admin"}
  Owner = "owner"
  Role = {"SUPER_ADMIN", "ADMIN"}
  Permission = {"roles.write"}
  RolePermissions <- SeededRoles
  Retries = 2
INVARIANTS DeployTypeOK ServesSeeded
PROPERTIES StartEnds
