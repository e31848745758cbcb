------------------------- MODULE MCPermissionHints -------------------------
(***************************************************************************)
(* A table t, of which privileges on columns are granted too, and a table  *)
(* u, which a view may be over; every combination of grants, and a role    *)
(* that is in supautils.hint_roles or is not.                              *)
(***************************************************************************)
EXTENDS PermissionHints

CONSTANTS role, owner

MCHintRoleSettings == {{role}, {owner}}

MCColumns == {"c1", "c2"}

Cols(select, insert, update) == [SELECT |-> select, INSERT |-> insert, UPDATE |-> update]

MCGrantable ==
  {Grant(role, "t", Table, p) : p \in TablePrivileges}
  \cup {Grant(role, "t", c, "SELECT") : c \in MCColumns}
  \cup {Grant(role, "t", "c1", p) : p \in {"INSERT", "UPDATE"}}
  \cup {Grant(r, "u", Table, "SELECT") : r \in {role, owner}}

\* select c1, select *, count(*), update, delete ... where, insert ... on
\* conflict, with default values, for update
OfT ==
  {Info("t", {"SELECT"}, Cols({"c1"}, {}, {}), Nobody),
   Info("t", {"SELECT"}, Cols({"*"}, {}, {}), Nobody),
   Info("t", {"SELECT"}, Cols({}, {}, {}), Nobody),
   Info("t", {"UPDATE"}, Cols({}, {}, {"c1"}), Nobody),
   Info("t", {"SELECT", "DELETE"}, Cols({"c2"}, {}, {}), Nobody),
   Info("t", {"SELECT", "INSERT", "UPDATE"}, Cols({"c1"}, {"c1"}, {"c1"}), Nobody),
   Info("t", {"INSERT"}, Cols({}, {}, {}), Nobody),
   Info("t", {"SELECT", "UPDATE"}, Cols({"c1", "*"}, {}, {}), Nobody)}

OfU(checkAs) == Info("u", {"SELECT"}, Cols({"c1"}, {}, {}), checkAs)

MCQueries ==
  {<<i>> : i \in OfT} \cup {<<i, OfU(Nobody)>> : i \in OfT}
  \cup {<<OfU(c), i>> : c \in {Nobody, owner}, i \in OfT}

=============================================================================
