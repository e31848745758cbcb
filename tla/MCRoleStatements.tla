--------------------------- MODULE MCRoleStatements ---------------------------
(***************************************************************************)
(* One entry of each kind in supautils.reserved_roles: a role that does    *)
(* not exist yet, one with a *, and one listed both ways.                  *)
(***************************************************************************)
EXTENDS RoleStatements

CONSTANTS conf, both, unborn

Entry(role, configurable) == [role |-> role, configurable |-> configurable]

MCReservedRoles ==
  {Entry(unborn, FALSE), Entry(conf, TRUE), Entry(both, TRUE), Entry(both, FALSE)}

=============================================================================
