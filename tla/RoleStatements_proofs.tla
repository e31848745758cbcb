----------------------- MODULE RoleStatements_proofs ------------------------
(***************************************************************************)
(* RInv is an invariant of RoleStatements: no sequence of statements       *)
(* touches a reserved role, makes members of a predefined or reserved role *)
(* that supautils.reserved_memberships lists, or delegates more than the   *)
(* hook means to.                                                          *)
(***************************************************************************)
EXTENDS RoleStatements, TLAPS

\* What a statement leaves in the history.
LEMMA ChangeFields ==
  ASSUME NEW kind, NEW changed, NEW configs, NEW user
  PROVE  /\ Change(kind, changed, configs, user).kind = kind
         /\ Change(kind, changed, configs, user).changed = changed \cap Protected
         /\ Change(kind, changed, configs, user).changed \subseteq Names
         /\ Change(kind, changed, configs, user).configs = configs
         /\ Change(kind, changed, configs, user).gained \subseteq members' \ members
         /\ Change(kind, changed, configs, user).lost \subseteq members \ members'
         /\ Change(kind, changed, configs, user).privileged = IsPrivileged(user)
         /\ Change(kind, changed, configs, user).privileged \in BOOLEAN
<1>1. IsPrivileged(user) \in BOOLEAN
  BY DEF IsPrivileged
<1>2. \A pairs : Watched(pairs) \subseteq pairs
  BY DEF Watched
<1>. QED
  BY <1>1, <1>2 DEF Change, Protected

\* A role that the hook lets be renamed, dropped or given members is not reserved.
LEMMA NotReserved ==
  ASSUME NEW role, ~IsReservedRole(role, FALSE)
  PROVE  role \notin Reserved
BY DEF Reserved, IsReservedRole

\* A reserved role that does not stop a user is one whose entries all have a *,
\* and the user is privileged.
LEMMA ReservedGivesWay ==
  ASSUME NEW user, NEW role \in Reserved, ~IsReservedRole(role, IsPrivileged(user))
  PROVE  IsPrivileged(user) /\ role \in Configurable
<1>1. IsPrivileged(user) \in BOOLEAN
  BY DEF IsPrivileged
<1>2. CASE IsPrivileged(user)
  <2>1. IsPrivileged(user) = TRUE
    BY <1>1, <1>2
  <2>. QED
    BY <1>2, <2>1 DEF Configurable
<1>3. CASE ~IsPrivileged(user)
  <2>1. IsPrivileged(user) = FALSE
    BY <1>1, <1>3
  <2>. QED
    BY <2>1 DEF Reserved, IsReservedRole
<1>. QED
  BY <1>2, <1>3

\* The initial states satisfy the invariant.
LEMMA InitInv == Init => RInv
<1>. SUFFICES ASSUME Init PROVE RInv
  OBVIOUS
<1>. QED
  BY NamesAssumption
     DEF Init, RInv, TypeOK, PredefinedKept, ReservedRolesKept,
         ReservedMembershipsKept, DelegationIsLimited, Kinds

\* An attribute is changed of a role that is neither reserved nor privileged.
LEMMA AlterRoleInv ==
  ASSUME RInv, NEW user \in Users, NEW target \in Names, NEW option \in Options,
         AlterRole(user, target, option)
  PROVE  RInv'
<1>. USE NamesAssumption DEF RInv, AlterRole
<1>1. TypeOK'
  <2>1. roles' \subseteq Names /\ Superusers \subseteq roles'
    BY DEF TypeOK
  <2>2. members' \subseteq roles' \X roles'
    BY DEF TypeOK
  <2>3. change'.kind \in Kinds
    BY ChangeFields DEF TypeOK, Kinds, Options
  <2>4. change'.changed \subseteq Names /\ change'.privileged \in BOOLEAN
    BY ChangeFields
  <2>5. change'.gained \subseteq members' /\ change'.lost \subseteq Names \X Names
    BY ChangeFields DEF TypeOK
  <2>. QED
    BY <2>1, <2>2, <2>3, <2>4, <2>5 DEF TypeOK
<1>5. PredefinedKept'
  BY DEF PredefinedKept, TypeOK
<1>2. ReservedRolesKept'
  <2>1. change'.gained \cup change'.lost = {}
    BY ChangeFields
  <2>2. change'.changed \subseteq {target}
    BY ChangeFields
  <2>3. target \notin Reserved
    BY NotReserved
  <2>. QED
    BY <2>1, <2>2, <2>3 DEF ReservedRolesKept
<1>3. ReservedMembershipsKept'
  <2>1. change'.gained = {}
    BY ChangeFields
  <2>. QED
    BY <2>1 DEF ReservedMembershipsKept
<1>4. DelegationIsLimited'
  <2>1. /\ change'.kind = option
        /\ change'.changed \subseteq {target}
        /\ change'.privileged = IsPrivileged(user)
    BY ChangeFields
  <2>2. target \notin Superusers
    BY DEF IsPrivileged, HasPrivsOf
  <2>3. IsPrivileged(target)' = IsPrivileged(target)
    BY DEF IsPrivileged, HasPrivsOf
  <2>. QED
    BY <2>1, <2>2, <2>3 DEF DelegationIsLimited, Options
<1>. QED
  BY <1>1, <1>5, <1>2, <1>3, <1>4

\* A group that takes or loses members is neither reserved nor predefined,
\* whoever the members are.
LEMMA AlterGroupInv ==
  ASSUME RInv, NEW user \in Users, NEW group \in Groups, NEW added, NEW dropped,
         AlterGroup(user, group, added, dropped)
  PROVE  RInv'
<1>. USE NamesAssumption DEF RInv, AlterGroup
<1>1. TypeOK'
  <2>1. roles' \subseteq Names /\ Superusers \subseteq roles'
    BY DEF TypeOK
  <2>2. members' \subseteq roles' \X roles'
    BY DEF TypeOK
  <2>3. change'.kind \in Kinds
    BY ChangeFields DEF TypeOK, Kinds, Options
  <2>4. change'.changed \subseteq Names /\ change'.privileged \in BOOLEAN
    BY ChangeFields
  <2>5. change'.gained \subseteq members' /\ change'.lost \subseteq Names \X Names
    BY ChangeFields DEF TypeOK
  <2>. QED
    BY <2>1, <2>2, <2>3, <2>4, <2>5 DEF TypeOK
<1>5. PredefinedKept'
  BY DEF PredefinedKept, TypeOK
<1>2. ReservedRolesKept'
  <2>1. group \notin Reserved \cup PredefinedRoles
    BY NotReserved
  <2>2. /\ change'.kind = "group"
        /\ change'.changed \cap Reserved = {}
        /\ \A m \in change'.gained \cup change'.lost : m[2] = group
    BY <2>1, ChangeFields
  <2>. QED
    BY <2>1, <2>2 DEF ReservedRolesKept
<1>3. ReservedMembershipsKept'
  <2>1. group \notin Reserved \cup PredefinedRoles
    BY NotReserved
  <2>2. \A m \in members' : m \in members \/ m[2] = group
    OBVIOUS
  <2>3. change'.kind = "group"
    BY ChangeFields
  <2>. QED
    BY <2>1, <2>2, <2>3 DEF ReservedMembershipsKept
<1>4. DelegationIsLimited'
  <2>1. change'.kind = "group" /\ change'.changed \subseteq {group}
    BY ChangeFields
  <2>. QED
    BY <2>1 DEF DelegationIsLimited
<1>. QED
  BY <1>1, <1>5, <1>2, <1>3, <1>4

\* A setting of a reserved role gives way to a privileged role only.
LEMMA AlterRoleSetInv ==
  ASSUME RInv, NEW user \in Users, NEW target \in Names, NEW config,
         AlterRoleSet(user, target, config)
  PROVE  RInv'
<1>. USE NamesAssumption DEF RInv, AlterRoleSet
<1>1. TypeOK'
  <2>1. roles' \subseteq Names /\ Superusers \subseteq roles'
    BY DEF TypeOK
  <2>2. members' \subseteq roles' \X roles'
    BY DEF TypeOK
  <2>3. change'.kind \in Kinds
    BY ChangeFields DEF TypeOK, Kinds, Options
  <2>4. change'.changed \subseteq Names /\ change'.privileged \in BOOLEAN
    BY ChangeFields
  <2>5. change'.gained \subseteq members' /\ change'.lost \subseteq Names \X Names
    BY ChangeFields DEF TypeOK
  <2>. QED
    BY <2>1, <2>2, <2>3, <2>4, <2>5 DEF TypeOK
<1>5. PredefinedKept'
  BY DEF PredefinedKept, TypeOK
<1>2. ReservedRolesKept'
  <2>1. /\ change'.kind = "config"
        /\ change'.changed \subseteq {target}
        /\ change'.privileged = IsPrivileged(user)
    BY ChangeFields
  <2>2. target \in Reserved => IsPrivileged(user) /\ target \in Configurable
    BY ReservedGivesWay
  <2>3. change'.gained \cup change'.lost = {}
    BY ChangeFields
  <2>. QED
    BY <2>1, <2>2, <2>3 DEF ReservedRolesKept
<1>3. ReservedMembershipsKept'
  <2>1. change'.gained = {}
    BY ChangeFields
  <2>. QED
    BY <2>1 DEF ReservedMembershipsKept
<1>4. DelegationIsLimited'
  <2>1. /\ change'.kind = "config"
        /\ change'.configs = {config}
        /\ change'.privileged = IsPrivileged(user)
    BY ChangeFields
  <2>2. config \in SuperuserConfigs => IsPrivileged(user) /\ config \in AllowedConfigs
    BY ConfigsAssumption
  <2>. QED
    BY <2>1, <2>2 DEF DelegationIsLimited
<1>. QED
  BY <1>1, <1>5, <1>2, <1>3, <1>4

\* The new role is neither reserved nor predefined, and its groups are grantable;
\* so is the role itself if it has members.
LEMMA CreateRoleInv ==
  ASSUME RInv, NEW user \in Users, NEW name \in Names, NEW option \in Options,
         NEW in \in SUBSET Groups, NEW with \in SUBSET Names,
         CreateRole(user, name, option, in, with)
  PROVE  RInv'
<1>. USE NamesAssumption DEF RInv, CreateRole
<1>1. TypeOK'
  <2>1. roles' \subseteq Names /\ Superusers \subseteq roles'
    BY DEF TypeOK
  <2>2. members' \subseteq roles' \X roles'
    BY DEF TypeOK
  <2>3. change'.kind \in Kinds
    BY ChangeFields DEF TypeOK, Kinds, Options
  <2>4. change'.changed \subseteq Names /\ change'.privileged \in BOOLEAN
    BY ChangeFields
  <2>5. change'.gained \subseteq members' /\ change'.lost \subseteq Names \X Names
    BY ChangeFields DEF TypeOK
  <2>. QED
    BY <2>1, <2>2, <2>3, <2>4, <2>5 DEF TypeOK
<1>5. PredefinedKept'
  BY DEF PredefinedKept, TypeOK
<1>2. ReservedRolesKept'
  <2>1. name \notin Reserved \cup PredefinedRoles
    BY NotReserved DEF PredefinedKept
  <2>2. /\ change'.kind \notin {"grant", "revoke"}
        /\ change'.changed \cap Reserved = {}
    BY <2>1, ChangeFields
  <2>3. \A m \in change'.gained \cup change'.lost : m[1] = name \/ m[2] = name
    BY ChangeFields
  <2>4. roles' \cap Reserved = roles \cap Reserved
    BY <2>1
  <2>. QED
    BY <2>1, <2>2, <2>3, <2>4 DEF ReservedRolesKept
<1>3. ReservedMembershipsKept'
  <2>1. name \notin Reserved \cup PredefinedRoles
    BY NotReserved DEF PredefinedKept
  <2>2. \A m \in members' : \/ m \in members
                            \/ m[2] \notin ReservedMemberships
    BY DEF Grantable
  <2>3. \A m \in change'.gained : m[2] \notin ReservedMemberships
    BY <2>2, ChangeFields
  <2>. QED
    BY <2>2, <2>3 DEF ReservedMembershipsKept
<1>4. DelegationIsLimited'
  <2>1. /\ change'.kind \in {"create", "create_bypassrls"}
        /\ change'.kind = "create_bypassrls" => IsPrivileged(user)
        /\ change'.changed \subseteq {name}
        /\ change'.privileged = IsPrivileged(user)
    BY ChangeFields
  <2>2. name \notin Superusers
    BY DEF TypeOK
  <2>. QED
    BY <2>1, <2>2 DEF DelegationIsLimited
<1>. QED
  BY <1>1, <1>5, <1>2, <1>3, <1>4

\* The loop has looked at every role that is dropped.
LEMMA DropRoleInv ==
  ASSUME RInv, NEW user \in Users, NEW specs,
         DropRole(user, specs)
  PROVE  RInv'
<1>. USE NamesAssumption DEF RInv, DropRole
<1>1. TypeOK'
  <2>1. roles' \subseteq Names /\ Superusers \subseteq roles'
    BY DEF TypeOK
  <2>2. members' \subseteq roles' \X roles'
    BY DEF TypeOK
  <2>3. change'.kind \in Kinds
    BY ChangeFields DEF TypeOK, Kinds, Options
  <2>4. change'.changed \subseteq Names /\ change'.privileged \in BOOLEAN
    BY ChangeFields
  <2>5. change'.gained \subseteq members' /\ change'.lost \subseteq Names \X Names
    BY ChangeFields DEF TypeOK
  <2>. QED
    BY <2>1, <2>2, <2>3, <2>4, <2>5 DEF TypeOK
<1>5. PredefinedKept'
  BY DEF PredefinedKept, TypeOK
<1>2. ReservedRolesKept'
  <2>1. \A i \in DOMAIN specs : ~IsReservedRole(specs[i], FALSE)
    OBVIOUS
  <2>2. Range(specs) \cap (Reserved \cup PredefinedRoles) = {}
    BY <2>1 DEF Range, Reserved, IsReservedRole
  <2>3. /\ change'.kind = "drop"
        /\ change'.changed \subseteq Range(specs)
    BY ChangeFields
  <2>4. \A m \in change'.gained \cup change'.lost :
          m[1] \in Range(specs) \/ m[2] \in Range(specs)
    BY ChangeFields
  <2>5. roles' \cap Reserved = roles \cap Reserved
    BY <2>2
  <2>. QED
    BY <2>2, <2>3, <2>4, <2>5 DEF ReservedRolesKept
<1>3. ReservedMembershipsKept'
  <2>1. members' \subseteq members /\ change'.gained = {}
    BY ChangeFields
  <2>. QED
    BY <2>1 DEF ReservedMembershipsKept
<1>4. DelegationIsLimited'
  <2>1. change'.kind = "drop" /\ change'.changed \subseteq Range(specs)
    BY ChangeFields
  <2>. QED
    BY <2>1 DEF DelegationIsLimited
<1>. QED
  BY <1>1, <1>5, <1>2, <1>3, <1>4

\* Only grantable groups are granted.
LEMMA GrantRoleInv ==
  ASSUME RInv, NEW user \in Users, NEW groups \in SUBSET Groups, NEW grantees \in SUBSET Names,
         GrantRole(user, groups, grantees)
  PROVE  RInv'
<1>. USE NamesAssumption DEF RInv, GrantRole
<1>1. TypeOK'
  <2>1. roles' \subseteq Names /\ Superusers \subseteq roles'
    BY DEF TypeOK
  <2>2. members' \subseteq roles' \X roles'
    BY DEF TypeOK
  <2>3. change'.kind \in Kinds
    BY ChangeFields DEF TypeOK, Kinds, Options
  <2>4. change'.changed \subseteq Names /\ change'.privileged \in BOOLEAN
    BY ChangeFields
  <2>5. change'.gained \subseteq members' /\ change'.lost \subseteq Names \X Names
    BY ChangeFields DEF TypeOK
  <2>. QED
    BY <2>1, <2>2, <2>3, <2>4, <2>5 DEF TypeOK
<1>5. PredefinedKept'
  BY DEF PredefinedKept, TypeOK
<1>2. ReservedRolesKept'
  <2>1. /\ change'.kind = "grant"
        /\ change'.changed = {}
        /\ change'.privileged = IsPrivileged(user)
    BY ChangeFields
  <2>2. \A m \in change'.gained \cup change'.lost : m[1] \in grantees
    BY ChangeFields
  <2>3. ASSUME NEW role \in grantees, role \in Reserved
        PROVE  IsPrivileged(user) /\ role \in Configurable
    BY <2>3, ReservedGivesWay
  <2>. QED
    BY <2>1, <2>2, <2>3 DEF ReservedRolesKept
<1>3. ReservedMembershipsKept'
  <2>1. \A m \in members' : m \in members \/ m[2] \notin ReservedMemberships
    BY DEF Grantable
  <2>2. \A m \in change'.gained : m[2] \notin ReservedMemberships
    BY <2>1, ChangeFields
  <2>. QED
    BY <2>1, <2>2 DEF ReservedMembershipsKept
<1>4. DelegationIsLimited'
  <2>1. change'.kind = "grant" /\ change'.changed = {}
    BY ChangeFields
  <2>. QED
    BY <2>1 DEF DelegationIsLimited
<1>. QED
  BY <1>1, <1>5, <1>2, <1>3, <1>4

\* Revoking takes memberships away.
LEMMA RevokeRoleInv ==
  ASSUME RInv, NEW user \in Users, NEW groups \in SUBSET Groups, NEW grantees \in SUBSET Names,
         RevokeRole(user, groups, grantees)
  PROVE  RInv'
<1>. USE NamesAssumption DEF RInv, RevokeRole
<1>1. TypeOK'
  <2>1. roles' \subseteq Names /\ Superusers \subseteq roles'
    BY DEF TypeOK
  <2>2. members' \subseteq roles' \X roles'
    BY DEF TypeOK
  <2>3. change'.kind \in Kinds
    BY ChangeFields DEF TypeOK, Kinds, Options
  <2>4. change'.changed \subseteq Names /\ change'.privileged \in BOOLEAN
    BY ChangeFields
  <2>5. change'.gained \subseteq members' /\ change'.lost \subseteq Names \X Names
    BY ChangeFields DEF TypeOK
  <2>. QED
    BY <2>1, <2>2, <2>3, <2>4, <2>5 DEF TypeOK
<1>5. PredefinedKept'
  BY DEF PredefinedKept, TypeOK
<1>2. ReservedRolesKept'
  <2>1. /\ change'.kind = "revoke"
        /\ change'.changed = {}
        /\ change'.privileged = IsPrivileged(user)
    BY ChangeFields
  <2>2. \A m \in change'.gained \cup change'.lost : m[1] \in grantees
    BY ChangeFields
  <2>3. ASSUME NEW role \in grantees, role \in Reserved
        PROVE  IsPrivileged(user) /\ role \in Configurable
    BY <2>3, ReservedGivesWay
  <2>. QED
    BY <2>1, <2>2, <2>3 DEF ReservedRolesKept
<1>3. ReservedMembershipsKept'
  <2>1. members' \subseteq members /\ change'.gained = {}
    BY ChangeFields
  <2>. QED
    BY <2>1 DEF ReservedMembershipsKept
<1>4. DelegationIsLimited'
  <2>1. change'.kind = "revoke" /\ change'.changed = {}
    BY ChangeFields
  <2>. QED
    BY <2>1 DEF DelegationIsLimited
<1>. QED
  BY <1>1, <1>5, <1>2, <1>3, <1>4

\* Neither name is reserved, and no predefined role is free to be replaced: only
\* an ordinary role's name can be taken, with the members of the renamed role.
LEMMA RenameRoleInv ==
  ASSUME RInv, NEW user \in Users, NEW old \in Names, NEW new \in Names,
         RenameRole(user, old, new)
  PROVE  RInv'
<1>. USE NamesAssumption DEF RInv, RenameRole
<1>1. TypeOK'
  <2>1. roles' \subseteq Names /\ Superusers \subseteq roles'
    BY DEF TypeOK
  <2>2. members' \subseteq roles' \X roles'
    BY DEF TypeOK
  <2>3. change'.kind \in Kinds
    BY ChangeFields DEF TypeOK, Kinds, Options
  <2>4. change'.changed \subseteq Names /\ change'.privileged \in BOOLEAN
    BY ChangeFields
  <2>5. change'.gained \subseteq members' /\ change'.lost \subseteq Names \X Names
    BY ChangeFields DEF TypeOK
  <2>. QED
    BY <2>1, <2>2, <2>3, <2>4, <2>5 DEF TypeOK
<1>5. PredefinedKept'
  BY DEF PredefinedKept, TypeOK
<1>2. ReservedRolesKept'
  <2>1. {old, new} \cap (Reserved \cup PredefinedRoles) = {}
    BY NotReserved DEF PredefinedKept
  <2>2. /\ change'.kind = "rename"
        /\ change'.changed \cap Reserved = {}
    BY <2>1, ChangeFields
  <2>3. \A m \in members \ members' : m[1] = old \/ m[2] = old
    BY DEF TypeOK
  <2>4. \A m \in members' \ members : m[1] = new \/ m[2] = new
    BY DEF TypeOK
  <2>5. \A m \in change'.gained \cup change'.lost :
          \/ m[1] \in {old, new}
          \/ m[2] \in {old, new}
    BY <2>3, <2>4, ChangeFields
  <2>6. roles' \cap Reserved = roles \cap Reserved
    BY <2>1
  <2>. QED
    BY <2>1, <2>2, <2>5, <2>6 DEF ReservedRolesKept
<1>3. ReservedMembershipsKept'
  <2>1. new \notin Reserved \cup PredefinedRoles
    BY NotReserved DEF PredefinedKept
  <2>2. \A m \in members' : m[2] = new \/ \E n \in members : m[2] = n[2]
    OBVIOUS
  <2>3. change'.kind = "rename"
    BY ChangeFields
  <2>. QED
    BY <2>1, <2>2, <2>3 DEF ReservedMembershipsKept
<1>4. DelegationIsLimited'
  <2>1. change'.kind = "rename" /\ change'.changed \subseteq {old, new}
    BY ChangeFields
  <2>2. {old, new} \cap Superusers = {}
    BY DEF TypeOK
  <2>. QED
    BY <2>1, <2>2 DEF DelegationIsLimited
<1>. QED
  BY <1>1, <1>5, <1>2, <1>3, <1>4

\* Every statement keeps the invariant, and so does standing still.
LEMMA NextInv == RInv /\ [Next]_vars => RInv'
<1>. SUFFICES ASSUME RInv, [Next]_vars PROVE RInv'
  OBVIOUS
<1>1. ASSUME NEW user \in Users, NEW target \in Names, NEW option \in Options,
             AlterRole(user, target, option)
      PROVE  RInv'
  BY <1>1, AlterRoleInv
<1>2. ASSUME NEW user \in Users, NEW group \in Groups, NEW list \in Some(Names),
             AlterGroup(user, group, list, {}) \/ AlterGroup(user, group, {}, list)
      PROVE  RInv'
  BY <1>2, AlterGroupInv
<1>3. ASSUME NEW user \in Users, NEW target \in Names,
             NEW config \in SuperuserConfigs \cup UserConfigs,
             AlterRoleSet(user, target, config)
      PROVE  RInv'
  BY <1>3, AlterRoleSetInv
<1>4. ASSUME NEW user \in Users, NEW name \in Names, NEW option \in Options,
             NEW in \in AtMostOne(Groups), NEW with \in AtMostOne(Names),
             CreateRole(user, name, option, in, with)
      PROVE  RInv'
  <2>1. in \in SUBSET Groups /\ with \in SUBSET Names
    BY DEF AtMostOne
  <2>. QED
    BY <1>4, <2>1, CreateRoleInv
<1>5. ASSUME NEW user \in Users, NEW specs, DropRole(user, specs)
      PROVE  RInv'
  BY <1>5, DropRoleInv
<1>6. ASSUME NEW user \in Users, NEW groups \in Some(Groups), NEW grantees \in Some(Names),
             GrantRole(user, groups, grantees) \/ RevokeRole(user, groups, grantees)
      PROVE  RInv'
  <2>1. groups \in SUBSET Groups /\ grantees \in SUBSET Names
    BY DEF Some
  <2>. QED
    BY <1>6, <2>1, GrantRoleInv, RevokeRoleInv
<1>7. ASSUME NEW user \in Users, NEW old \in Names, NEW new \in Names,
             RenameRole(user, old, new)
      PROVE  RInv'
  BY <1>7, RenameRoleInv
<1>8. CASE UNCHANGED vars
  BY <1>8 DEF vars, RInv, TypeOK, PredefinedKept, ReservedRolesKept,
              ReservedMembershipsKept, DelegationIsLimited, IsPrivileged, HasPrivsOf
<1>. QED
  BY <1>1, <1>2, <1>3, <1>4, <1>5, <1>6, <1>7, <1>8 DEF Next

-----------------------------------------------------------------------------

\* Over all sequences of statements, the invariant of the role statements holds,
\* for every setting of reserved roles and reserved memberships: the three promises
\* below, and a catalog that names only roles that exist.
THEOREM Invariance == Spec => []RInv
<1>1. Init => RInv
  BY InitInv
<1>2. RInv /\ [Next]_vars => RInv'
  BY NextInv
<1>. QED
  BY <1>1, <1>2, PTL DEF Spec

\* Whatever the setting and the sequence of statements of roles with CREATEROLE, a
\* reserved role is not altered, renamed, dropped or made, GRANT and REVOKE touch
\* its memberships only for a privileged role and where a * lets them, and the
\* statements that the hook does not ask give it no reserved or predefined group.
THEOREM ReservedRolesStay == Spec => []ReservedRolesKept
<1>1. RInv => ReservedRolesKept
  BY DEF RInv
<1>. QED
  BY <1>1, Invariance, PTL

\* Whatever supautils.reserved_memberships lists, its predefined and reserved roles
\* have no members, and its other roles get them only by ALTER GROUP or from a
\* group that takes their name.
THEOREM ReservedMembershipsStay == Spec => []ReservedMembershipsKept
<1>1. RInv => ReservedMembershipsKept
  BY DEF RInv
<1>. QED
  BY <1>1, Invariance, PTL

\* What the hook runs as superuser for a privileged role stays within what the
\* settings list, and spares superusers and privileged roles.
THEOREM DelegationStaysLimited == Spec => []DelegationIsLimited
<1>1. RInv => DelegationIsLimited
  BY DEF RInv
<1>. QED
  BY <1>1, Invariance, PTL

=============================================================================
