----------------------- MODULE PermissionHints_proofs ----------------------
(***************************************************************************)
(* The hint of a permission error names what PostgreSQL misses: nothing    *)
(* less, nothing more, and on the relation it refused.                     *)
(***************************************************************************)
EXTENDS PermissionHints, InductionLemmas

-----------------------------------------------------------------------------
(* has_column_perms and get_missing_aclmode beside PostgreSQL's own test *)

\* What PostgreSQL asks of one privilege.
PermittedOne(held, info, p) ==
  \/ OnRelation(held, info, p)
  \/ /\ p \in ColumnPrivileges
     /\ info.cols[p] = {}
     /\ \E c \in Columns : OnColumn(held, info, c, p)
  \/ /\ p \in ColumnPrivileges
     /\ info.cols[p] # {}
     /\ \A c \in (info.cols[p] \ {"*"}) \cup (IF "*" \in info.cols[p] THEN Columns ELSE {}) :
          OnColumn(held, info, c, p)

\* PostgreSQL's test, privilege by privilege.
LEMMA PermittedFacts ==
  ASSUME NEW held, NEW info
  PROVE  Permitted(held, info) <=> \A p \in info.required : PermittedOne(held, info, p)
BY DEF Permitted, PermittedOne

\* has_column_perms finds what PostgreSQL finds, for a whole row too.
LEMMA ColumnsAgree ==
  ASSUME NEW info, NEW p \in ColumnPrivileges,
         "*" \notin info.cols["INSERT"] \cup info.cols["UPDATE"]
  PROVE  PermittedOne(acl, info, p) <=> (OnRelation(acl, info, p) \/ HasColumnPerms(info, p))
<1> DEFINE cols == info.cols[p]
           asked == (cols \ {"*"}) \cup (IF "*" \in cols THEN Columns ELSE {})
<1>1. CASE cols = {}
  BY <1>1 DEF PermittedOne, HasColumnPerms
<1>2. CASE cols # {}
  <2>1. HasColumnPerms(info, p) <=> \A c \in asked : OnColumn(acl, info, c, p)
    <3>1. "*" \in cols => p = "SELECT"
      BY DEF ColumnPrivileges
    <3>2. HasColumnPerms(info, p) <=>
            \A col \in cols : IF col = "*" /\ p = "SELECT"
                                THEN \A c \in Columns : OnColumn(acl, info, c, p)
                                ELSE OnColumn(acl, info, col, p)
      BY <1>2 DEF HasColumnPerms
    <3>3. CASE "*" \in cols
      BY <3>1, <3>2, <3>3
    <3>4. CASE "*" \notin cols
      BY <3>2, <3>4
    <3>. QED
      BY <3>3, <3>4
  <2>2. PermittedOne(acl, info, p) <=>
          (OnRelation(acl, info, p) \/ \A c \in asked : OnColumn(acl, info, c, p))
    BY <1>2 DEF PermittedOne
  <2>. QED
    BY <2>1, <2>2
<1>. QED
  BY <1>1, <1>2

\* get_missing_aclmode returns the privileges that PostgreSQL refuses.
LEMMA MissingAgrees ==
  ASSUME NEW info, "*" \notin info.cols["INSERT"] \cup info.cols["UPDATE"]
  PROVE  Missing(info) = {p \in info.required : ~PermittedOne(acl, info, p)}
<1>1. ASSUME NEW p \in ColumnPrivileges
      PROVE  PermittedOne(acl, info, p) <=> (OnRelation(acl, info, p) \/ HasColumnPerms(info, p))
  BY ColumnsAgree
<1>2. ASSUME NEW p, p \notin ColumnPrivileges
      PROVE  PermittedOne(acl, info, p) <=> OnRelation(acl, info, p)
  BY <1>2 DEF PermittedOne
<1>. QED
  BY <1>1, <1>2 DEF Missing

\* More grants permit no less.
LEMMA PermittedMonotone ==
  ASSUME NEW held, NEW more, held \subseteq more, NEW info, NEW p,
         PermittedOne(held, info, p)
  PROVE  PermittedOne(more, info, p)
BY DEF PermittedOne, OnRelation, OnColumn

\* A grant of another privilege does not help.
LEMMA OtherGrants ==
  ASSUME NEW held, NEW more, NEW info, NEW p,
         \A g \in more \ held : g.privilege # p,
         PermittedOne(more, info, p)
  PROVE  PermittedOne(held, info, p)
<1>1. \A column : Grant(UserOf(info), info.relation, column, p) \in more
                    => Grant(UserOf(info), info.relation, column, p) \in held
  BY DEF Grant
<1>. QED
  BY <1>1 DEF PermittedOne, OnRelation, OnColumn

-----------------------------------------------------------------------------
(* find_missing_perm *)

\* A refused query has a first relation that is refused.
LEMMA FirstDeniedFacts ==
  ASSUME TypeOK, Denied # {}
  PROVE  FirstDenied \in Denied
<1>1. Denied \in SUBSET Nat
  BY QueriesAssumption DEF TypeOK, Denied
<1>. QED
  BY <1>1, LeastNumber DEF FirstDenied

\* find_missing_perm names the relation PostgreSQL reports, and what it refuses.
LEMMA FindMissingFacts ==
  ASSUME TypeOK
  PROVE  FindMissing = IF Denied = {} THEN NoHint
                       ELSE [relation   |-> query[FirstDenied].relation,
                             privileges |-> Missing(query[FirstDenied])]
<1>1. \A i \in DOMAIN query : Missing(query[i]) # {} <=> ~Permitted(acl, query[i])
  BY MissingAgrees, PermittedFacts, QueriesAssumption DEF TypeOK
<1>2. {i \in DOMAIN query : Missing(query[i]) # {}} = Denied
  BY <1>1 DEF Denied
<1>. QED
  BY <1>2 DEF FindMissing, FirstDenied

\* What the hint says.
LEMMA HintFacts ==
  ASSUME TypeOK
  PROVE  HintFor(FindMissing) = FindMissing
<1>1. CASE Denied = {}
  BY <1>1, FindMissingFacts DEF HintFor, NoHint, PrivilegesString
<1>2. CASE Denied # {}
  <2> DEFINE first == query[FirstDenied]
  <2>1. first.required \subseteq TablePrivileges /\ ~Permitted(acl, first)
        /\ "*" \notin first.cols["INSERT"] \cup first.cols["UPDATE"]
    BY <1>2, FirstDeniedFacts, QueriesAssumption DEF TypeOK, Denied
  <2> HIDE DEF first
  <2>2. Missing(first) \subseteq TablePrivileges /\ Missing(first) # {}
    BY <2>1, MissingAgrees, PermittedFacts
  <2>3. FindMissing = [relation |-> first.relation, privileges |-> Missing(first)]
    BY <1>2, FindMissingFacts DEF first
  <2>. QED
    BY <2>2, <2>3 DEF HintFor, PrivilegesString, Unhinted, TablePrivileges
<1>. QED
  BY <1>1, <1>2

-----------------------------------------------------------------------------
(* Every step keeps the invariant *)

\* The privileges of the hint clear the error, and each of them is needed.
LEMMA MissingIsExact ==
  ASSUME TypeOK, Denied # {}, query[FirstDenied].checkAs = Nobody
  PROVE  LET info == query[FirstDenied]
             With(privileges) ==
               acl \cup {Grant(CurrentRole, info.relation, Table, p) : p \in privileges}
         IN  /\ Permitted(With(Missing(info)), info)
             /\ \A p \in Missing(info) : ~Permitted(With(Missing(info) \ {p}), info)
<1> DEFINE info == query[FirstDenied]
           With(privileges) ==
             acl \cup {Grant(CurrentRole, info.relation, Table, p) : p \in privileges}
<1>1. "*" \notin info.cols["INSERT"] \cup info.cols["UPDATE"] /\ UserOf(info) = CurrentRole
  BY FirstDeniedFacts, QueriesAssumption DEF TypeOK, Denied, UserOf
<1>2. Missing(info) = {p \in info.required : ~PermittedOne(acl, info, p)}
  BY <1>1, MissingAgrees
<1>3. ASSUME NEW p \in info.required
      PROVE  PermittedOne(With(Missing(info)), info, p)
  <2>1. CASE p \in Missing(info)
    BY <1>1, <2>1 DEF PermittedOne, OnRelation
  <2>2. CASE p \notin Missing(info)
    <3>1. PermittedOne(acl, info, p) /\ acl \subseteq With(Missing(info))
      BY <1>2, <2>2
    <3>. QED
      BY <3>1, PermittedMonotone
  <2>. QED
    BY <2>1, <2>2
<1>4. ASSUME NEW p \in Missing(info)
      PROVE  ~PermittedOne(With(Missing(info) \ {p}), info, p)
  <2>1. \A g \in With(Missing(info) \ {p}) \ acl : g.privilege # p
    BY DEF Grant
  <2>2. ~PermittedOne(acl, info, p)
    BY <1>2
  <2> HIDE DEF With
  <2>. QED
    BY <2>1, <2>2, OtherGrants
<1>5. Permitted(With(Missing(info)), info)
  BY <1>3, PermittedFacts
<1>6. \A p \in Missing(info) : ~Permitted(With(Missing(info) \ {p}), info)
  BY <1>2, <1>4, PermittedFacts
<1>. QED
  BY <1>5, <1>6

\* The hook keeps the invariant.
LEMMA ExecutorStartInv ==
  ASSUME HintInv, ExecutorStart
  PROVE  HintInv'
<1>1. /\ TypeOK /\ UNCHANGED <<hintRoles, acl, query>>
      /\ Denied' = Denied /\ FirstDenied' = FirstDenied
  BY DEF HintInv, ExecutorStart, Denied, Permitted, OnRelation, OnColumn, FirstDenied
<1>2. CASE Denied = {} /\ mayExecute
  BY <1>1, <1>2 DEF ExecutorStart, HintInv, TypeOK, HintWhenDenied, HintIsExact, NoHint
<1>3. CASE ~(Denied = {} /\ mayExecute)
  <2>1. /\ state' = "denied"
        /\ hint' = IF CurrentRole \in hintRoles THEN FindMissing ELSE NoHint
    BY <1>1, <1>3, HintFacts DEF ExecutorStart, Fails
  <2>2. CASE Denied = {} \/ CurrentRole \notin hintRoles
    <3>1. hint' = NoHint /\ NoHint.relation = Nobody /\ NoHint.privileges = {}
      BY <1>1, <2>1, <2>2, FindMissingFacts DEF NoHint
    <3>. QED
      BY <1>1, <2>1, <2>2, <3>1 DEF TypeOK, HintInv, HintWhenDenied, HintIsExact
  <2>3. CASE Denied # {} /\ CurrentRole \in hintRoles
    <3> DEFINE first == query[FirstDenied]
    <3>1. /\ first.relation # Nobody /\ first.required \subseteq TablePrivileges
          /\ "*" \notin first.cols["INSERT"] \cup first.cols["UPDATE"]
          /\ ~Permitted(acl, first)
      BY <1>1, <2>3, FirstDeniedFacts, QueriesAssumption DEF TypeOK, Denied
    <3>2. Missing(first) \subseteq TablePrivileges /\ Missing(first) # {}
      BY <3>1, MissingAgrees, PermittedFacts
    <3>3. hint' = [relation |-> first.relation, privileges |-> Missing(first)]
      BY <1>1, <2>1, <2>3, FindMissingFacts
    <3>4. hint'.relation = first.relation /\ hint'.privileges = Missing(first)
      BY <3>3
    <3>5. TypeOK'
      BY <1>1, <2>1, <3>1, <3>2, <3>4 DEF TypeOK
    <3>6. HintWhenDenied'
      BY <1>1, <2>1, <2>3, <3>4 DEF HintWhenDenied
    <3>7. HintIsExact'
      BY <1>1, <2>3, <3>4, MissingIsExact
         DEF HintIsExact, IsExact
    <3>. QED
      BY <3>5, <3>6, <3>7 DEF HintInv
  <2>. QED
    BY <2>2, <2>3
<1>. QED
  BY <1>2, <1>3

\* So does a user who follows the hint.
LEMMA FollowHintInv ==
  ASSUME HintInv, FollowHint
  PROVE  HintInv'
<1>1. \A p \in hint.privileges : Grant(CurrentRole, hint.relation, Table, p).privilege = p
  BY DEF Grant
<1>2. TypeOK'
  BY <1>1 DEF HintInv, FollowHint, TypeOK, NoHint
<1>. QED
  BY <1>2 DEF HintInv, FollowHint, HintWhenDenied, HintIsExact

\* Every step keeps the invariant.
LEMMA NextInv == HintInv /\ [Next]_vars => HintInv'
<1>. SUFFICES ASSUME HintInv, [Next]_vars PROVE HintInv'
  OBVIOUS
<1>1. CASE ExecutorStart
  BY <1>1, ExecutorStartInv
<1>2. CASE FollowHint
  BY <1>2, FollowHintInv
<1>3. CASE Again
  BY <1>3 DEF Again, HintInv, TypeOK, HintWhenDenied, HintIsExact
<1>4. CASE UNCHANGED vars
  <2>1. Denied' = Denied /\ FirstDenied' = FirstDenied
    BY <1>4 DEF vars, Denied, FirstDenied, Permitted, OnRelation, OnColumn
  <2>2. HintIsExact'
    BY <1>4, <2>1 DEF vars, HintInv, HintIsExact
  <2>. QED
    BY <1>4, <2>1, <2>2 DEF vars, HintInv, TypeOK, HintWhenDenied
<1>. QED
  BY <1>1, <1>2, <1>3, <1>4 DEF Next

-----------------------------------------------------------------------------

\* The invariant of the hints holds for any queries, grants and columns.
THEOREM Invariance == Spec => []HintInv
<1>1. Init => HintInv
  BY GrantableAssumption
     DEF Init, HintInv, TypeOK, HintWhenDenied, HintIsExact, NoHint
<1>2. HintInv /\ [Next]_vars => HintInv'
  BY NextInv
<1>. QED
  BY <1>1, <1>2, PTL DEF Spec

\* A role of supautils.hint_roles gets a hint exactly when PostgreSQL refuses a
\* relation, and the hint is about the relation of the error.
THEOREM HintsComeWithErrors == Spec => []HintWhenDenied
<1>1. HintInv => HintWhenDenied
  BY DEF HintInv
<1>. QED
  BY <1>1, Invariance, PTL

\* The hint lists the privileges that are missing, all of them and no other.
THEOREM HintsAreExact == Spec => []HintIsExact
<1>1. HintInv => HintIsExact
  BY DEF HintInv
<1>. QED
  BY <1>1, Invariance, PTL

=============================================================================
