--------------------------- MODULE RoleStatements ---------------------------
(***************************************************************************)
(* The role statements of supautils_hook (src/src/supautils.c): which ones *)
(* it rejects, which it runs as superuser, which it leaves to PostgreSQL,  *)
(* and what that adds up to over sequences of statements that create,      *)
(* rename, drop and regroup roles.  The statements are those of roles that *)
(* are not superusers and have CREATEROLE, on PostgreSQL 13 to 15 (from 16 *)
(* on CREATE ROLE runs as the caller); one that is rejected, by the hook   *)
(* or by PostgreSQL, is no step.  Superusers are not granted to anyone.    *)
(***************************************************************************)
EXTENDS Naturals, Sequences, FiniteSets, SequencesExt

CONSTANTS
  Names,               \* the names a role may have
  Superusers,          \* the superuser roles
  ExistingRoles,       \* the roles of the cluster at the start
  PredefinedRoles,     \* those PostgreSQL does not let anyone change or drop
  ReservedRoles,       \* supautils.reserved_roles: a set of
                       \* [role, configurable], an entry with * is configurable
  ReservedMemberships, \* supautils.reserved_memberships
  PrivilegedRole,      \* supautils.privileged_role
  AllowedConfigs,      \* supautils.privileged_role_allowed_configs
  SuperuserConfigs,    \* the parameters only a superuser may set
  UserConfigs,         \* the other parameters
  Users,               \* the roles that issue statements
  Groups,              \* the roles that are granted to others
  MaxMemberships       \* bound on the memberships at a time

ASSUME NamesAssumption ==
  /\ Superusers \cup PredefinedRoles \subseteq ExistingRoles
  /\ ExistingRoles \cup {PrivilegedRole} \cup Groups \cup Users \subseteq Names
  /\ ReservedRoles \subseteq [role : Names, configurable : BOOLEAN]
  /\ (Groups \cup Users) \cap Superusers = {}
  /\ MaxMemberships \in Nat

\* A parameter is either left to a superuser or not.
ASSUME ConfigsAssumption == SuperuserConfigs \cap UserConfigs = {}

VARIABLES roles,   \* the roles that exist
          members, \* the pairs <<role, group>>: role is a member of group
          change   \* history: what the last statement changed, and for whom

vars == <<roles, members, change>>

Kinds == {"none", "create", "create_bypassrls", "drop", "rename", "login",
          "bypassrls", "superuser", "config", "grant", "revoke", "group"}

-----------------------------------------------------------------------------
(* The checks *)

\* is_reserved_role: an entry with a * gives way where settings are concerned.
IsReservedRole(target, allowConfigurable) ==
  \E entry \in ReservedRoles :
    /\ entry.role = target
    /\ ~(entry.configurable /\ allowConfigurable)

\* The role and the groups it is in, directly or through others.
GroupsOf(role, pairs) ==
  LET reach[n \in 0..MaxMemberships] ==
        IF n = 0 THEN {role}
        ELSE reach[n - 1] \cup {pair[2] : pair \in {m \in pairs : m[1] \in reach[n - 1]}}
  IN  reach[MaxMemberships]

\* has_privs_of_role: membership is inherited.
HasPrivsOf(role, group) == role \in Superusers \/ group \in GroupsOf(role, members)

\* is_role_privileged, and is_current_role_privileged of the current user
IsPrivileged(role) ==
  /\ PrivilegedRole \in roles
  /\ role \in roles
  /\ HasPrivsOf(role, PrivilegedRole)

\* confirm_reserved_memberships returns.
Grantable(group) == group \notin ReservedMemberships

-----------------------------------------------------------------------------
(* The history *)

Reserved == {entry.role : entry \in ReservedRoles}

Protected == {role \in Names :
                role \in Reserved \cup Superusers \/ IsPrivileged(role)}

\* The memberships worth recording: those of the reserved roles, and those in
\* the reserved memberships.
Watched(pairs) == {m \in pairs : m[1] \in Reserved \/ m[2] \in ReservedMemberships}

\* The kind of change, the protected roles it was about, the watched memberships
\* that it really gave and took, the parameters it set, and whether the role that
\* asked for it was privileged.
Change(kind, changed, configs, user) ==
  [kind |-> kind, changed |-> changed \cap Protected, configs |-> configs,
   gained |-> Watched(members' \ members), lost |-> Watched(members \ members'),
   privileged |-> IsPrivileged(user)]

-----------------------------------------------------------------------------
(* The handlers.  A statement runs as caller, with what PostgreSQL lets      *)
(* CREATEROLE do, or as superuser.                                           *)

\* Faulty: a privileged role may alter any role that is not reserved.
AlterRoleOfPrivileged(user, target, option) ==
  /\ target \in roles
  /\ ~IsReservedRole(target, FALSE)
  /\ IF IsPrivileged(user)
       THEN option # "superuser"
       ELSE target \notin Superusers /\ option = "login"
  /\ target \notin PredefinedRoles
  /\ UNCHANGED <<roles, members>>
  /\ change' = Change(option, {target}, {}, user)

\* ALTER ROLE target <option>
AlterRole(user, target, option) ==
  /\ target \in roles
  /\ ~IsReservedRole(target, FALSE)
  /\ IF IsPrivileged(user)
       THEN ~IsPrivileged(target) /\ option # "superuser"
       ELSE target \notin Superusers /\ option = "login"
  /\ target \notin PredefinedRoles
  /\ UNCHANGED <<roles, members>>
  /\ change' = Change(option, {target}, {}, user)

\* ALTER GROUP group ADD USER added, DROP USER dropped: ALTER ROLE with a list
\* of members, which the hook does not look at.
AlterGroup(user, group, added, dropped) ==
  /\ {group} \cup added \cup dropped \subseteq roles
  /\ ~IsReservedRole(group, FALSE)
  /\ IF IsPrivileged(user) THEN ~IsPrivileged(group) ELSE group \notin Superusers
  /\ group \notin PredefinedRoles
  /\ \A member \in added : ~HasPrivsOf(group, member)
  /\ members' = (members \cup {<<member, group>> : member \in added})
                        \ {<<member, group>> : member \in dropped}
  /\ UNCHANGED roles
  /\ change' = Change("group", {group}, {}, user)

\* ALTER ROLE target SET config
AlterRoleSet(user, target, config) ==
  /\ target \in roles
  /\ ~IsReservedRole(target, IsPrivileged(user))
  /\ target \notin PredefinedRoles
  /\ \/ IsPrivileged(user) /\ config \in AllowedConfigs
     \/ target \notin Superusers /\ config \in UserConfigs
  /\ UNCHANGED <<roles, members>>
  /\ change' = Change("config", {target}, {config}, user)

\* Faulty: the groups of IN ROLE are not looked at.
CreateRoleInAny(user, name, option, in, with) ==
  /\ name \notin roles
  /\ ~IsReservedRole(name, FALSE)
  /\ option = "login"
  /\ in \cup with \subseteq roles
  /\ roles' = roles \cup {name}
  /\ members' = members \cup {<<name, group>> : group \in in}
  /\ change' = Change("create", {name}, {}, user)

\* CREATE ROLE name <option> [IN ROLE group] [ROLE member]
CreateRole(user, name, option, in, with) ==
  /\ name \notin roles
  /\ ~IsReservedRole(name, FALSE)
  /\ option # "superuser"
  /\ \A group \in in : Grantable(group)
  /\ with # {} => Grantable(name)
  /\ in \cup with \subseteq roles
  /\ \A group \in in, member \in with : ~HasPrivsOf(group, member)
  /\ option = "bypassrls" => IsPrivileged(user)
  /\ roles' = roles \cup {name}
  /\ members' = members \cup {<<name, group>> : group \in in}
                        \cup {<<member, name>> : member \in with}
  /\ change' = Change(IF option = "bypassrls" THEN "create_bypassrls" ELSE "create",
                      {name}, {}, user)

\* Faulty: the memberships of the dropped roles stay behind.
DropRoleLeavesMembers(user, specs) ==
  /\ \A i \in DOMAIN specs : ~IsReservedRole(specs[i], FALSE)
  /\ Range(specs) \subseteq roles \ (Superusers \cup PredefinedRoles \cup {user})
  /\ roles' = roles \ Range(specs)
  /\ UNCHANGED members
  /\ change' = Change("drop", Range(specs), {}, user)

\* DROP ROLE specs: the loop over the roles stops at CURRENT_USER and the
\* like, which PostgreSQL then rejects.
DropRole(user, specs) ==
  LET special == {i \in DOMAIN specs : specs[i] = "current_user"}
      looked  == {i \in DOMAIN specs : \A j \in special : i < j}
  IN  /\ \A i \in looked : ~IsReservedRole(specs[i], FALSE)
      /\ special = {}
      /\ Range(specs) \subseteq roles \ (Superusers \cup PredefinedRoles \cup {user})
      /\ roles' = roles \ Range(specs)
      /\ members' = {m \in members : {m[1], m[2]} \cap Range(specs) = {}}
      /\ change' = Change("drop", Range(specs), {}, user)

\* GRANT groups TO grantees.  PostgreSQL rejects circular memberships.
GrantRole(user, groups, grantees) ==
  /\ \A group \in groups : Grantable(group)
  /\ \A grantee \in grantees : ~IsReservedRole(grantee, IsPrivileged(user))
  /\ groups \cup grantees \subseteq roles
  /\ \A group \in groups, grantee \in grantees : ~HasPrivsOf(group, grantee)
  /\ members' = members \cup (grantees \X groups)
  /\ UNCHANGED roles
  /\ change' = Change("grant", {}, {}, user)

\* REVOKE groups FROM grantees
RevokeRole(user, groups, grantees) ==
  /\ \A grantee \in grantees : ~IsReservedRole(grantee, IsPrivileged(user))
  /\ groups \cup grantees \subseteq roles
  /\ members' = members \ (grantees \X groups)
  /\ UNCHANGED roles
  /\ change' = Change("revoke", {}, {}, user)

\* Faulty: the new name is not looked at.
RenameRoleToAny(user, old, new) ==
  LET Renamed(role) == IF role = old THEN new ELSE role
  IN  /\ ~IsReservedRole(old, FALSE)
      /\ old \in roles \ (Superusers \cup PredefinedRoles \cup {user})
      /\ new \notin roles
      /\ roles' = (roles \ {old}) \cup {new}
      /\ members' = {<<Renamed(m[1]), Renamed(m[2])>> : m \in members}
      /\ change' = Change("rename", {old, new}, {}, user)

\* ALTER ROLE old RENAME TO new
RenameRole(user, old, new) ==
  LET Renamed(role) == IF role = old THEN new ELSE role
  IN  /\ ~IsReservedRole(old, FALSE)
      /\ ~IsReservedRole(new, FALSE)
      /\ old \in roles \ (Superusers \cup PredefinedRoles \cup {user})
      /\ new \notin roles
      /\ roles' = (roles \ {old}) \cup {new}
      /\ members' = {<<Renamed(m[1]), Renamed(m[2])>> : m \in members}
      /\ change' = Change("rename", {old, new}, {}, user)

-----------------------------------------------------------------------------

Init ==
  /\ roles = ExistingRoles
  /\ members = {}
  /\ change = [kind |-> "none", changed |-> {}, configs |-> {}, gained |-> {},
               lost |-> {}, privileged |-> FALSE]

Options == {"login", "bypassrls", "superuser"}

\* Lists of one or two, and none where the clause may be left out.
Some(S) == {T \in SUBSET S : Cardinality(T) \in 1..2}

AtMostOne(S) == {{}} \cup {{x} : x \in S}

Next ==
  /\ \E user \in Users \cap roles :
       \/ \E target \in Names, option \in Options : AlterRole(user, target, option)
       \/ \E group \in Groups, list \in Some(Names) :
            AlterGroup(user, group, list, {}) \/ AlterGroup(user, group, {}, list)
       \/ \E target \in Names, config \in SuperuserConfigs \cup UserConfigs :
            AlterRoleSet(user, target, config)
       \/ \E name \in Names, option \in Options,
             in \in AtMostOne(Groups), with \in AtMostOne(Names) :
            CreateRole(user, name, option, in, with)
       \/ \E specs \in SeqOf(Names \cup {"current_user"}, 2) \ {<<>>} :
            DropRole(user, specs)
       \/ \E groups \in Some(Groups), grantees \in Some(Names) :
            GrantRole(user, groups, grantees) \/ RevokeRole(user, groups, grantees)
       \/ \E old, new \in Names : RenameRole(user, old, new)
  /\ Cardinality(members') <= MaxMemberships

Spec == Init /\ [][Next]_vars

-----------------------------------------------------------------------------
(* Properties *)

TypeOK ==
  /\ roles \subseteq Names
  /\ Superusers \subseteq roles
  /\ members \subseteq roles \X roles
  /\ change.kind \in Kinds
  /\ change.changed \subseteq Names
  /\ change.gained \subseteq members
  /\ change.lost \subseteq Names \X Names
  /\ change.privileged \in BOOLEAN

Configurable == {role \in Reserved : ~IsReservedRole(role, TRUE)}

\* README, Reserved Roles: no sequence of statements alters, renames, drops,
\* replaces or brings into being a reserved role.  Only a privileged role may
\* change its settings, and GRANT or REVOKE memberships of it, and only where
\* every entry of the setting that names it has a *.  The hook asks nothing of
\* the other statements that change who is in what (ALTER GROUP, CREATE ROLE with
\* members, renaming and dropping a group): those may change a reserved role's
\* memberships, but never in a reserved or a predefined role.
ReservedRolesKept ==
  /\ roles \cap Reserved = ExistingRoles \cap Reserved
  /\ change.changed \cap Reserved # {} =>
       /\ change.kind = "config" /\ change.privileged
       /\ change.changed \cap Reserved \subseteq Configurable
  /\ \A m \in change.gained \cup change.lost : m[1] \in Reserved =>
       IF change.kind \in {"grant", "revoke"}
         THEN change.privileged /\ m[1] \in Configurable
         ELSE m[2] \notin Reserved \cup PredefinedRoles

\* README, Reserved Memberships: a predefined or reserved role that the setting
\* lists has no members; an ordinary role that it lists gets none by GRANT or
\* CREATE ROLE, only by ALTER GROUP, where the setting is not asked, or from a
\* group that is renamed to its name.
ReservedMembershipsKept ==
  /\ \A m \in members : m[2] \in ReservedMemberships =>
       m[2] \notin Reserved \cup PredefinedRoles
  /\ \A m \in change.gained : m[2] \in ReservedMemberships =>
       change.kind \in {"group", "rename"}

\* What PostgreSQL keeps for superusers is done at most for a privileged role,
\* never to the attributes of a superuser or of a privileged role, and for
\* settings only with the parameters that are listed; nobody becomes a
\* superuser.
DelegationIsLimited ==
  /\ change.kind # "superuser"
  /\ change.kind \in {"bypassrls", "create_bypassrls"} => change.privileged
  /\ change.kind = "bypassrls" => \A role \in change.changed : ~IsPrivileged(role)
  /\ (change.kind = "config" /\ change.configs \cap SuperuserConfigs # {}) =>
       change.privileged /\ change.configs \subseteq AllowedConfigs
  /\ change.changed \cap Superusers # {} => change.kind = "config"

-----------------------------------------------------------------------------
(* The inductive invariant *)

\* Nothing takes a predefined role's name away from it, so no group is renamed to
\* a predefined role that the setting keeps.
PredefinedKept == PredefinedRoles \subseteq roles

RInv ==
  /\ TypeOK
  /\ PredefinedKept
  /\ ReservedRolesKept
  /\ ReservedMembershipsKept
  /\ DelegationIsLimited

=============================================================================
