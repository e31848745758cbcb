SPECIFICATION ETFairSpec
CONSTANTS
  su = su
  priv = priv
  Roles = {su, priv, reserved}
  Superusers = {su}
  PrivilegedRoles = {su, priv}
  SupautilsSuperuser = su
  NoRole = NoRole
  MaxDepth = 3
  Functions <- MCFunctions
  OwnerOf <- MCOwnerOf
  Definers <- MCDefiners
  ReservedRoles = {reserved}
INVARIANTS
  DelegationInv
  SwitchOwnership
  PrevIsCallers
  IdentityDiscipline
  DelegatedRunsAsSuperuser
  ScriptLatch
  NoFunctionGainsSuperuser
  SkippedWhenDelegated
  DefinerSkippedForSession
PROPERTIES
  SessionRoleKept
  KeepsPromise
  SwitchEnds
