SPECIFICATION Spec
CONSTANTS
  Roles = {su, priv}
  Superusers = {su}
  PrivilegedRoles = {su, priv}
  SupautilsSuperuser = su
  NoRole = NoRole
  MaxDepth = 3
INVARIANTS
  ScriptLatchDownWhenIdle
