SPECIFICATION Spec
CONSTANTS
  role = role
  owner = owner
  CurrentRole = role
  HintRoleSettings <- MCHintRoleSettings
  Columns <- MCColumns
  Grantable <- MCGrantable
  Queries <- MCQueries
  Table = Table
  Nobody = Nobody
INVARIANTS
  HintInv
  HintWhenDenied
  HintIsExact
PROPERTIES
  HintsLeadToSuccess
