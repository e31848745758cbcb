SPECIFICATION FairSpec
CONSTANTS
  Sessions = {s1, s2}
  role = role
  RoleOf <- MCRoleOf
  Tables = {t1, t2}
  Nobody = Nobody
  Names = {"a", "b", "c"}
  Grants <- MCGrants
  SchemaRenames <- MCSchemaRenames
  Superuser = postgres
INVARIANTS
  SInv
  DelegatedExactlyOnGrants
  AttributeIsAdministrators
  OwnedByCreator
PROPERTIES
  StatementEnds
