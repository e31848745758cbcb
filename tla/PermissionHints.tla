-------------------------- MODULE PermissionHints --------------------------
(***************************************************************************)
(* A role runs a query, follows the hint that supautils_executor_start     *)
(* adds to a permission error, and runs the query again: the search for    *)
(* the missing privileges of src/src/permission_hints.c beside the test of *)
(* PostgreSQL that refused the query.                                      *)
(***************************************************************************)
EXTENDS Naturals, Sequences

CONSTANTS
  CurrentRole,
  HintRoleSettings, \* the values supautils.hint_roles may have, sets of roles
  Columns,    \* the columns of each relation
  Grantable,  \* grants: [role, relation, column, privilege], column = Table
              \* for one on the whole relation
  Queries,    \* sequences of RTEPermissionInfo, see Info
  Table,      \* no column
  Nobody      \* InvalidOid

VARIABLES
  hintRoles,  \* supautils.hint_roles
  acl,        \* the privileges the roles have
  query,      \* what the query demands of each of its relations
  mayExecute, \* the functions it calls may be executed
  state,      \* "ready" to run, "denied" or "done"
  hint        \* the hint of the error, or NoHint

vars == <<hintRoles, acl, query, mayExecute, state, hint>>

TablePrivileges == {"SELECT", "INSERT", "UPDATE", "DELETE"}

ColumnPrivileges == {"SELECT", "INSERT", "UPDATE"}

\* Relation privileges that no hint is given for.
Unhinted == {"TRUNCATE", "TRIGGER", "REFERENCES"}

\* cols has the columns that are read, inserted and updated; "*" stands for
\* the whole row.  checkAs is the owner of the view the relation is reached
\* through, or Nobody.
Info(relation, required, cols, checkAs) ==
  [relation |-> relation, required |-> required, cols |-> cols, checkAs |-> checkAs]

\* The executor is asked for no other privileges, and asks nobody for a whole row
\* that is inserted or updated.
ASSUME QueriesAssumption ==
  \A q \in Queries :
    /\ DOMAIN q \subseteq Nat
    /\ \A i \in DOMAIN q :
         /\ q[i].relation # Nobody
         /\ q[i].required \subseteq TablePrivileges
         /\ "*" \notin q[i].cols["INSERT"] \cup q[i].cols["UPDATE"]

ASSUME GrantableAssumption == \A g \in Grantable : g.privilege \in TablePrivileges

NoHint == [relation |-> Nobody, privileges |-> {}]

Grant(role, relation, column, privilege) ==
  [role |-> role, relation |-> relation, column |-> column, privilege |-> privilege]

UserOf(info) == IF info.checkAs = Nobody THEN CurrentRole ELSE info.checkAs

-----------------------------------------------------------------------------
(* PostgreSQL: ExecCheckOneRelPerms *)

OnRelation(held, info, privilege) ==
  Grant(UserOf(info), info.relation, Table, privilege) \in held

OnColumn(held, info, column, privilege) ==
  Grant(UserOf(info), info.relation, column, privilege) \in held

\* Whether the query may use the relation with the grants in held.
Permitted(held, info) ==
  \A p \in info.required :
    \/ OnRelation(held, info, p)
    \/ /\ p \in ColumnPrivileges
       /\ info.cols[p] = {}
       /\ \E c \in Columns : OnColumn(held, info, c, p)
    \/ /\ p \in ColumnPrivileges
       /\ info.cols[p] # {}
       /\ \A c \in (info.cols[p] \ {"*"}) \cup (IF "*" \in info.cols[p] THEN Columns ELSE {}) :
            OnColumn(held, info, c, p)

Denied == {i \in DOMAIN query : ~Permitted(acl, query[i])}

FirstDenied == CHOOSE i \in Denied : \A j \in Denied : i <= j

-----------------------------------------------------------------------------
(* src/src/permission_hints.c *)

\* Faulty: one column is enough for a whole row.
HasColumnPermsAny(info, privilege) ==
  LET cols == info.cols[privilege] IN
  IF cols = {} \/ "*" \in cols
    THEN \E c \in Columns : OnColumn(acl, info, c, privilege)
    ELSE \A c \in cols : OnColumn(acl, info, c, privilege)

\* has_column_perms
HasColumnPerms(info, privilege) ==
  LET cols == info.cols[privilege] IN
  IF cols = {}
    THEN \E c \in Columns : OnColumn(acl, info, c, privilege)
    ELSE \A col \in cols :
           IF col = "*" /\ privilege = "SELECT"
             THEN \A c \in Columns : OnColumn(acl, info, c, privilege)
             ELSE OnColumn(acl, info, col, privilege)

\* Faulty: privileges on columns are not looked at.
MissingOnRelation(info) ==
  {p \in info.required : ~OnRelation(acl, info, p)}

\* get_missing_aclmode
Missing(info) ==
  LET missing == {p \in info.required : ~OnRelation(acl, info, p)}
  IN  missing \ {p \in missing \cap ColumnPrivileges : HasColumnPerms(info, p)}

\* Faulty: only the first entry of the list is looked at.
FindMissingInFirst ==
  IF Missing(query[1]) = {} THEN NoHint
  ELSE [relation |-> query[1].relation, privileges |-> Missing(query[1])]

\* find_missing_perm
FindMissing ==
  LET lacking == {i \in DOMAIN query : Missing(query[i]) # {}}
  IN  IF lacking = {} THEN NoHint
      ELSE LET first == CHOOSE i \in lacking : \A j \in lacking : i <= j
           IN  [relation |-> query[first].relation, privileges |-> Missing(query[first])]

\* build_privileges_string
PrivilegesString(missing) == missing \cap TablePrivileges

\* supautils_executor_start, what PG_CATCH adds to the error.
HintFor(missing) ==
  IF missing.privileges \cap Unhinted # {} \/ PrivilegesString(missing.privileges) = {}
    THEN NoHint
    ELSE [missing EXCEPT !.privileges = PrivilegesString(@)]

-----------------------------------------------------------------------------

\* Faulty: an error that has got a hint is not thrown again.
FailsQuietly(newHint) ==
  /\ state' = IF newHint = NoHint THEN "denied" ELSE "done"
  /\ hint' = newHint

Fails(newHint) == state' = "denied" /\ hint' = newHint

\* ExecutorStart: the relations are checked first, the functions after them.
ExecutorStart ==
  /\ state = "ready"
  /\ IF Denied = {} /\ mayExecute
       THEN state' = "done" /\ hint' = NoHint
       ELSE Fails(IF CurrentRole \in hintRoles THEN HintFor(FindMissing) ELSE NoHint)
  /\ UNCHANGED <<hintRoles, acl, query, mayExecute>>

\* GRANT privileges ON relation TO current role, as the hint says.
FollowHint ==
  /\ state = "denied"
  /\ hint # NoHint
  /\ acl' = acl \cup {Grant(CurrentRole, hint.relation, Table, p) : p \in hint.privileges}
  /\ state' = "ready"
  /\ hint' = NoHint
  /\ UNCHANGED <<hintRoles, query, mayExecute>>

\* The query runs again when it is done, or when its error has no hint.
Again ==
  /\ state = "done" \/ (state = "denied" /\ hint = NoHint)
  /\ state' = "ready"
  /\ UNCHANGED <<hintRoles, acl, query, mayExecute, hint>>

Init ==
  /\ hintRoles \in HintRoleSettings
  /\ acl \in SUBSET Grantable
  /\ query \in Queries
  /\ mayExecute \in BOOLEAN
  /\ state = "ready"
  /\ hint = NoHint

Next == ExecutorStart \/ FollowHint \/ Again

\* The user keeps trying.
Spec == Init /\ [][Next]_vars /\ WF_vars(Next)

-----------------------------------------------------------------------------

TypeOK ==
  /\ \A g \in acl : g.privilege \in TablePrivileges
  /\ query \in Queries
  /\ state \in {"ready", "denied", "done"}
  /\ hint.privileges \subseteq TablePrivileges
  /\ (hint.relation = Nobody) <=> (hint.privileges = {})
  /\ hint # NoHint => state = "denied"

\* A role of supautils.hint_roles that PostgreSQL refuses a relation gets a
\* hint, about the relation that was refused; an error of another kind gets
\* none, and neither does another role.
HintWhenDenied ==
  state = "denied" =>
    hint.relation = IF CurrentRole \in hintRoles /\ Denied # {}
                      THEN query[FirstDenied].relation
                      ELSE Nobody

\* With all the privileges a hint asks for PostgreSQL permits the relation,
\* without any one of them it does not.
IsExact(held, info, asked) ==
  LET With(privileges) ==
        held \cup {Grant(CurrentRole, asked.relation, Table, p) : p \in privileges}
  IN  /\ Permitted(With(asked.privileges), info)
      /\ \A p \in asked.privileges : ~Permitted(With(asked.privileges \ {p}), info)

\* README, Enhanced hints: the hint has the exact privileges missing to clear
\* the error.  It holds of relations that are checked for the current role
\* itself.
HintIsExact ==
  (state = "denied" /\ hint # NoHint) =>
    /\ Denied # {}
    /\ query[FirstDenied].checkAs = Nobody => IsExact(acl, query[FirstDenied], hint)

(* The inductive invariant *)

HintInv == TypeOK /\ HintWhenDenied /\ HintIsExact

\* Whoever follows the hints ends up with a query that runs, if it reaches its
\* relations directly and may execute its functions.
HintsLeadToSuccess ==
  (/\ CurrentRole \in hintRoles
   /\ mayExecute
   /\ \A i \in DOMAIN query : query[i].checkAs = Nobody)
  ~> (state = "done")

=============================================================================
