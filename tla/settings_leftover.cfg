SPECIFICATION Spec
CONSTANTS
  Slots = {0, 1, 2}
  Unset = Unset
  Texts = {"r1", "r2", "t1", "t2", "5", "ext", "s", "schema", "version"}
  Backends = {b1}
  GrantDocs <- MCGrantDocs
  OverrideDocs <- MCOverrideDocs
  MaxTables = 3
INVARIANTS
  GrantsMatchAfterReload
