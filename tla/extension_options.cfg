SPECIFICATION Spec
CONSTANTS
  Users = {postgres, supa, user}
  Superusers = {postgres}
  SupautilsSuperuser = supa
  Statements <- MCStatements
  Overrides <- MCOverrides
  Constraints <- MCConstraints
  Machines <- MCMachines
  Unset = Unset
  SizeMax = 15
  Values <- MCValues
  MaxOptions = 5
INVARIANTS
  ExtInv
  VersionIsRestricted
  OverrideDecidesSchema
  NothingElseChanges
  ConstraintsMet
