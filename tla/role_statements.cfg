SPECIFICATION Spec
CONSTANTS
  conf = conf
  both = both
  unborn = unborn
  Names = {su, conf, both, unborn, grp, priv, usr, spare}
  Superusers = {su}
  ExistingRoles = {su, conf, both, grp, priv, usr}
  PredefinedRoles = {grp}
  ReservedRoles <- MCReservedRoles
  ReservedMemberships = {grp, both, spare}
  PrivilegedRole = priv
  AllowedConfigs = {allowed}
  SuperuserConfigs = {allowed, suset}
  UserConfigs = {userset}
  Users = {priv, usr}
  Groups = {grp, both, priv, spare}
  MaxMemberships = 2
INVARIANTS
  RInv
  ReservedRolesKept
  ReservedMembershipsKept
  DelegationIsLimited
