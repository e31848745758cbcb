-------------------------- MODULE Sessions_proofs --------------------------
(***************************************************************************)
(* SInv is an invariant of Sessions, and with it the answer of the policy  *)
(* check is right when the statement runs, and the attribute SUPERUSER and *)
(* the ownership of objects are what administrators and creators expect.   *)
(* One lemma for each action, then the three facts about Spec.             *)
(***************************************************************************)
EXTENDS Sessions, TLAPS

\* The role of a session, and what the setting gives it, are in the types.
LEMMA RolesPlaces ==
  ASSUME NEW s \in Sessions
  PROVE  RoleOf[s] \in Roles /\ PlacesOf(RoleOf[s]) \subseteq Places
  BY DEF Roles, Places

\* A place of the setting holds a name.
LEMMA PlacesNamed ==
  ASSUME NEW role, NEW place \in PlacesOf(role)
  PROVE  NameAt(place) \in Names
<1>1. PICK i \in DOMAIN Grants : place \in {i} \X (DOMAIN Grants[i].tables)
  BY DEF PlacesOf
<1>2. place[1] = i /\ place[2] \in DOMAIN Grants[i].tables
  BY <1>1
<1>3. Grants[i].tables \in Seq(Names)
  BY GrantsAssumption
<1>. QED BY <1>2, <1>3 DEF NameAt

\* The updates of a check that the actions make keep its type.
LEMMA ChecksUpdated ==
  ASSUME NEW c \in Checks, NEW places \in SUBSET Places
  PROVE  /\ [c EXCEPT !.rest = places] \in Checks
         /\ \A table \in Tables : [c EXCEPT !.target = table, !.rest = places] \in Checks
         /\ \A granted \in BOOLEAN :
              [c EXCEPT !.rest = places, !.granted = granted] \in Checks
  BY DEF Checks

\* The initial states satisfy the invariant.
LEMMA InitInv == Init => SInv
<1>. SUFFICES ASSUME Init PROVE SInv
  OBVIOUS
<1>1. TypeOK
  BY SessionsAssumption, GrantsAssumption
     DEF Init, TypeOK, Checks, NoCheck, Pcs, Roles, Resources
<1>2. OneNameEach /\ TargetHeld /\ RowHeld /\ TakenBackIsRaced
  BY DEF Init, OneNameEach, TargetHeld, RowHeld, TakenBackIsRaced, Roles
<1>3. AttributeIsAdministrators /\ MadeInTurn /\ OwnedByCreator
  BY DEF Init, AttributeIsAdministrators, MadeInTurn, OwnedByCreator, Roles
<1>. QED BY <1>1, <1>2, <1>3 DEF SInv

\* The oid the check found is the one its name has, and it is now locked: the
\* places with that name are all still to be looked at.
LEMMA LockTargetInv ==
  ASSUME SInv, NEW s \in Sessions,
         LockTarget(s), UNCHANGED ownerVars
  PROVE  SInv'
<1>. USE SessionsAssumption, RolesPlaces
        DEF LockTarget, Goto, Take, Available, ownerVars, SInv, TypeOK
<1>1. TypeOK'
  <2>1. check[s] \in Checks /\ PlacesOf(RoleOf[s]) \in SUBSET Places
    OBVIOUS
  <2>2. catalog[check[s].name] \in Tables
    BY DEF TargetHeld
  <2>3. check' \in [Sessions -> Checks]
    BY <2>1, <2>2, ChecksUpdated
  <2>4. holder' \in [Resources -> Sessions \cup {Nobody}]
    BY <2>2 DEF Resources
  <2>. QED BY <2>3, <2>4 DEF Pcs
<1>2. OneNameEach'
  BY DEF OneNameEach
<1>3. TargetHeld'
  BY DEF Checks, OneNameEach, TargetHeld, Resources, NoCheck
<1>4. RowHeld' /\ MadeInTurn'
  BY DEF RowHeld, MadeInTurn, Roles, Resources
<1>5. TakenBackIsRaced' /\ AttributeIsAdministrators' /\ OwnedByCreator'
  BY DEF MadeInTurn, TakenBackIsRaced, AttributeIsAdministrators, OwnedByCreator
<1>. QED BY <1>1, <1>2, <1>3, <1>4, <1>5

\* A place whose name no table has is not one of the name of the target.
LEMMA SkipMissingInv ==
  ASSUME SInv, NEW s \in Sessions,
         SkipMissing(s), UNCHANGED ownerVars
  PROVE  SInv'
<1>. USE SessionsAssumption, RolesPlaces
        DEF SkipMissing, ownerVars, SInv, TypeOK
<1>1. TypeOK'
  <2>1. PICK place \in check[s].rest : check' = [check EXCEPT ![s].rest = @ \ {place}]
    OBVIOUS
  <2>2. check[s] \in Checks /\ check[s].rest \ {place} \in SUBSET Places
    BY DEF Checks
  <2>3. [check[s] EXCEPT !.rest = check[s].rest \ {place}] \in Checks
    BY <2>2, ChecksUpdated
  <2>4. check' \in [Sessions -> Checks]
    BY <2>1, <2>3
  <2>. QED
    BY <2>4
<1>2. OneNameEach'
  BY DEF OneNameEach
<1>3. TargetHeld'
  BY DEF Checks, OneNameEach, TargetHeld, Resources, NoCheck
<1>4. RowHeld' /\ MadeInTurn'
  BY DEF RowHeld, MadeInTurn, Roles, Resources
<1>5. TakenBackIsRaced' /\ AttributeIsAdministrators' /\ OwnedByCreator'
  BY DEF MadeInTurn, TakenBackIsRaced, AttributeIsAdministrators, OwnedByCreator
<1>. QED BY <1>1, <1>2, <1>3, <1>4, <1>5

\* As long as the target has its name, the place is one of that name exactly if its
\* table is the target, because no table has two names.
LEMMA LockGrantedInv ==
  ASSUME SInv, NEW s \in Sessions,
         LockGranted(s), UNCHANGED ownerVars
  PROVE  SInv'
<1>. USE SessionsAssumption, RolesPlaces DEF ownerVars, SInv, TypeOK
<1>. PICK place \in check[s].rest :
       LET table == catalog[NameAt(place)] IN
       /\ IsFirst(place, check[s].rest)
       /\ table # Nobody
       /\ Available(s, table)
       /\ Take(s, table)
       /\ IF table = check[s].target
            THEN Answer(s, TRUE)
            ELSE check' = [check EXCEPT ![s].rest = @ \ {place}] /\ UNCHANGED pc
  BY DEF LockGranted
<1>. USE DEF LockGranted, Goto, Take, Available
<1>1. check[s] \in Checks /\ check[s].rest \in SUBSET Places
  BY DEF Checks
<1>2. place \in PlacesOf(RoleOf[s]) /\ NameAt(place) \in Names
  BY PlacesNamed DEF TargetHeld
<1>3. catalog[NameAt(place)] \in Tables
  BY <1>2
<1>4. holder' \in [Resources -> Sessions \cup {Nobody}]
  BY <1>3 DEF Resources
<1>5. UNCHANGED <<catalog, attribute, draft>>
  OBVIOUS
<1>6. CASE catalog[NameAt(place)] = check[s].target
  <2>1. /\ pc' = [pc EXCEPT ![s] = "run"]
        /\ check' = [check EXCEPT ![s] = [@ EXCEPT !.rest = {}, !.granted = TRUE]]
    BY <1>6 DEF Answer
  <2>2. [check[s] EXCEPT !.rest = {}, !.granted = TRUE] \in Checks
    BY <1>1, ChecksUpdated
  <2>3. TypeOK'
    BY <1>4, <2>1, <2>2 DEF Pcs
  <2>4. OneNameEach'
    BY DEF OneNameEach
  <2>5. ~check[s].moved => NameAt(place) = check[s].name
    BY <1>2, <1>6 DEF TargetHeld, OneNameEach
  <2>6. TargetHeld'
    BY <1>2, <1>3, <2>1, <2>5 DEF Checks, TargetHeld, Resources
  <2>7. RowHeld' /\ MadeInTurn'
    BY <1>3, <2>1 DEF RowHeld, MadeInTurn, Roles, Resources
  <2>8. TakenBackIsRaced' /\ AttributeIsAdministrators' /\ OwnedByCreator'
    BY <2>1 DEF TakenBackIsRaced, AttributeIsAdministrators, OwnedByCreator
  <2>. QED BY <2>3, <2>4, <2>6, <2>7, <2>8
<1>7. CASE catalog[NameAt(place)] # check[s].target
  <2>1. UNCHANGED pc /\ check' = [check EXCEPT ![s].rest = @ \ {place}]
    BY <1>7
  <2>2. [check[s] EXCEPT !.rest = check[s].rest \ {place}] \in Checks
    BY <1>1, ChecksUpdated
  <2>3. TypeOK'
    BY <1>4, <2>1, <2>2
  <2>4. OneNameEach'
    BY DEF OneNameEach
  <2>5. ~check[s].moved => NameAt(place) # check[s].name
    BY <1>7 DEF TargetHeld
  <2>6. TargetHeld'
    BY <1>3, <2>1, <2>5 DEF Checks, TargetHeld, Resources
  <2>7. RowHeld' /\ MadeInTurn'
    BY <1>3, <2>1 DEF RowHeld, MadeInTurn, Roles, Resources
  <2>8. TakenBackIsRaced' /\ AttributeIsAdministrators' /\ OwnedByCreator'
    BY <2>1 DEF TakenBackIsRaced, AttributeIsAdministrators, OwnedByCreator
  <2>. QED BY <2>3, <2>4, <2>6, <2>7, <2>8
<1>. QED BY <1>6, <1>7

\* No place is left, so none has the name of the target.
LEMMA NotGrantedInv ==
  ASSUME SInv, NEW s \in Sessions,
         NotGranted(s), UNCHANGED ownerVars
  PROVE  SInv'
<1>. USE SessionsAssumption, RolesPlaces
        DEF NotGranted, Answer, Goto, ownerVars, SInv, TypeOK
<1>1. TypeOK'
  <2>1. check' \in [Sessions -> Checks]
    BY ChecksUpdated
  <2>. QED BY <2>1 DEF Pcs
<1>2. OneNameEach'
  BY DEF OneNameEach
<1>3. TargetHeld'
  BY DEF Checks, OneNameEach, TargetHeld, Resources, NoCheck
<1>4. RowHeld' /\ MadeInTurn'
  BY DEF RowHeld, MadeInTurn, Roles, Resources
<1>5. TakenBackIsRaced' /\ AttributeIsAdministrators' /\ OwnedByCreator'
  BY DEF MadeInTurn, TakenBackIsRaced, AttributeIsAdministrators, OwnedByCreator
<1>. QED BY <1>1, <1>2, <1>3, <1>4, <1>5

\* The statement is over and the session holds its table to the end.
LEMMA RunInv ==
  ASSUME SInv, NEW s \in Sessions,
         pc[s] = "run", Run(s), UNCHANGED ownerVars
  PROVE  SInv'
<1>. USE SessionsAssumption, RolesPlaces
        DEF Checks, Run, Goto, Take, Available, ownerVars, SInv, TypeOK
<1>1. TypeOK'
  BY DEF Pcs, Roles, Resources, NoCheck
<1>2. OneNameEach'
  BY DEF OneNameEach
<1>3. TargetHeld'
  BY DEF OneNameEach, TargetHeld, Resources, NoCheck
<1>4. RowHeld' /\ MadeInTurn'
  BY DEF RowHeld, MadeInTurn, Roles, Resources
<1>5. TakenBackIsRaced' /\ AttributeIsAdministrators' /\ OwnedByCreator'
  BY DEF MadeInTurn, TakenBackIsRaced, AttributeIsAdministrators, OwnedByCreator
<1>. QED BY <1>1, <1>2, <1>3, <1>4, <1>5

\* The row is held by the session that is waited for.
LEMMA WaitForRowInv ==
  ASSUME SInv, NEW s \in Sessions,
         WaitForRow(s), UNCHANGED <<catalog, check>>
  PROVE  SInv'
<1>. USE SessionsAssumption, RolesPlaces
        DEF Checks, WaitForRow, Goto, Available, ownerVars, SInv, TypeOK
<1>1. TypeOK'
  BY DEF Pcs, Roles, Resources, NoCheck
<1>2. OneNameEach' /\ TargetHeld'
  BY DEF OneNameEach, TargetHeld, Resources
<1>3. RowHeld'
  BY DEF RowHeld, Roles, Resources
<1>4. TakenBackIsRaced' /\ AttributeIsAdministrators'
  BY DEF RowHeld, TakenBackIsRaced, AttributeIsAdministrators, Roles
<1>5. MadeInTurn' /\ OwnedByCreator'
  BY DEF MadeInTurn, OwnedByCreator, Roles
<1>. QED BY <1>1, <1>2, <1>3, <1>4, <1>5

\* Past its superuser() test, a role with the attribute got it meanwhile.
LEMMA RaiseInv ==
  ASSUME SInv, NEW s \in Sessions,
         Raise(s), UNCHANGED <<catalog, check>>
  PROVE  SInv'
<1>. USE SessionsAssumption, RolesPlaces
        DEF Checks, Raise, Goto, Take, Available, ownerVars, SInv, TypeOK
<1>1. TypeOK'
  BY DEF Pcs, Roles, Resources, NoCheck
<1>2. OneNameEach' /\ TargetHeld'
  BY DEF OneNameEach, TargetHeld, Resources
<1>3. RowHeld'
  BY DEF RowHeld, Roles, Resources
<1>4. TakenBackIsRaced' /\ AttributeIsAdministrators'
  BY DEF RowHeld, TakenBackIsRaced, AttributeIsAdministrators, Roles
<1>5. MadeInTurn' /\ OwnedByCreator'
  BY DEF MadeInTurn, OwnedByCreator, Roles
<1>. QED BY <1>1, <1>2, <1>3, <1>4, <1>5

\* The object is the role's before the attribute is taken back.
LEMMA ChangeOwnerInv ==
  ASSUME SInv, NEW s \in Sessions,
         ChangeOwner(s), UNCHANGED <<catalog, check>>
  PROVE  SInv'
<1>. USE SessionsAssumption, RolesPlaces
        DEF Checks, ChangeOwner, Give, Goto, IsSuper, ownerVars, SInv, TypeOK
<1>1. TypeOK'
  BY DEF Pcs, Roles, Resources, NoCheck
<1>2. OneNameEach' /\ TargetHeld'
  BY DEF OneNameEach, TargetHeld, Resources
<1>3. RowHeld'
  BY DEF RowHeld, Roles, Resources
<1>4. TakenBackIsRaced' /\ AttributeIsAdministrators'
  BY DEF RowHeld, TakenBackIsRaced, AttributeIsAdministrators, Roles
<1>5. MadeInTurn' /\ OwnedByCreator'
  BY DEF MadeInTurn, OwnedByCreator, Roles
<1>. QED BY <1>1, <1>2, <1>3, <1>4, <1>5

\* A publication changes hands without the attribute.
LEMMA ChangePublicationOwnerInv ==
  ASSUME SInv, NEW s \in Sessions,
         ChangePublicationOwner(s), UNCHANGED <<catalog, check>>
  PROVE  SInv'
<1>. USE SessionsAssumption, RolesPlaces
        DEF Checks, ChangePublicationOwner, Give, Goto, ownerVars, SInv, TypeOK
<1>1. TypeOK'
  BY DEF Pcs, Roles, Resources, NoCheck
<1>2. OneNameEach' /\ TargetHeld'
  BY DEF OneNameEach, TargetHeld, Resources
<1>3. RowHeld'
  BY DEF RowHeld, Roles, Resources
<1>4. TakenBackIsRaced' /\ AttributeIsAdministrators'
  BY DEF RowHeld, TakenBackIsRaced, AttributeIsAdministrators, Roles
<1>5. MadeInTurn' /\ OwnedByCreator'
  BY DEF MadeInTurn, OwnedByCreator, Roles
<1>. QED BY <1>1, <1>2, <1>3, <1>4, <1>5

\* The attribute is taken back from a row that the session has held since Raise.
LEMMA LowerInv ==
  ASSUME SInv, NEW s \in Sessions,
         Lower(s), UNCHANGED <<catalog, check>>
  PROVE  SInv'
<1>. USE SessionsAssumption, RolesPlaces
        DEF Checks, Lower, Goto, ownerVars, SInv, TypeOK
<1>1. TypeOK'
  BY DEF Pcs, Roles, Resources, NoCheck
<1>2. OneNameEach' /\ TargetHeld'
  BY DEF OneNameEach, TargetHeld, Resources
<1>3. RowHeld'
  BY DEF RowHeld, Roles, Resources
<1>4. TakenBackIsRaced' /\ AttributeIsAdministrators'
  BY DEF RowHeld, TakenBackIsRaced, AttributeIsAdministrators, Roles
<1>5. MadeInTurn' /\ OwnedByCreator'
  BY DEF MadeInTurn, OwnedByCreator, Roles
<1>. QED BY <1>1, <1>2, <1>3, <1>4, <1>5

\* Only a transaction that took the attribute back writes it, and it writes
\* NOSUPERUSER.
LEMMA CommitInv ==
  ASSUME SInv, NEW s \in Sessions,
         CommitTransaction(s)
  PROVE  SInv'
<1>. USE SessionsAssumption, RolesPlaces
        DEF Checks, CommitTransaction, Commit, ReleaseAll, Wake, IsSuper, SInv, TypeOK
<1>1. TypeOK'
  BY DEF Pcs, Roles, Resources, NoCheck
<1>2. OneNameEach'
  BY DEF OneNameEach
<1>3. TargetHeld'
  BY DEF OneNameEach, TargetHeld, Resources, NoCheck
<1>4. RowHeld'
  BY DEF RowHeld, Roles, Resources
<1>5. TakenBackIsRaced'
  BY DEF RowHeld, TakenBackIsRaced, AttributeIsAdministrators, Roles, Resources
<1>6. AttributeIsAdministrators'
  <2>. SUFFICES ASSUME NEW role \in Roles
                PROVE  \/ attribute'[role] = intended'[role]
                       \/ ~attribute'[role] /\ role \in raced'
    BY DEF AttributeIsAdministrators
  <2>1. CASE role # RoleOf[s]
    BY <2>1 DEF AttributeIsAdministrators
  <2>2. CASE role = RoleOf[s] /\ draft[s] = "unchanged"
    BY <2>2 DEF AttributeIsAdministrators
  <2>3. CASE role = RoleOf[s] /\ draft[s] = "ordinary"
    BY <2>3 DEF TakenBackIsRaced
  <2>4. draft[s] # "superuser"
    BY DEF RowHeld
  <2>. QED BY <2>1, <2>2, <2>3, <2>4
<1>7. MadeInTurn'
  BY DEF MadeInTurn, OwnedByCreator
<1>8. OwnedByCreator'
  BY DEF MadeInTurn, OwnedByCreator, Roles
<1>. QED BY <1>1, <1>2, <1>3, <1>4, <1>5, <1>6, <1>7, <1>8

\* The change of the row goes with the transaction.
LEMMA EndByErrorInv ==
  ASSUME SInv, NEW s \in Sessions,
         EndByError(s)
  PROVE  SInv'
<1>. USE SessionsAssumption, RolesPlaces
        DEF Checks, EndByError, Abort, ReleaseAll, Wake, SInv, TypeOK
<1>1. TypeOK'
  BY DEF Pcs, Roles, Resources, NoCheck
<1>2. OneNameEach'
  BY DEF OneNameEach
<1>3. TargetHeld'
  BY DEF OneNameEach, TargetHeld, Resources, NoCheck
<1>4. RowHeld'
  BY DEF RowHeld, Roles, Resources
<1>5. TakenBackIsRaced'
  BY DEF RowHeld, TakenBackIsRaced, AttributeIsAdministrators, Roles, Resources
<1>6. AttributeIsAdministrators'
  BY DEF AttributeIsAdministrators, RowHeld, TakenBackIsRaced, Roles, Resources
<1>7. MadeInTurn'
  BY DEF MadeInTurn, OwnedByCreator
<1>8. OwnedByCreator'
  BY DEF MadeInTurn, OwnedByCreator, Roles
<1>. QED BY <1>1, <1>2, <1>3, <1>4, <1>5, <1>6, <1>7, <1>8

\* A transaction begins with nothing locked.
LEMMA BeginInv ==
  ASSUME SInv, NEW s \in Sessions,
         Begin(s), UNCHANGED <<catalog, check, ownerVars>>
  PROVE  SInv'
<1>. USE SessionsAssumption, RolesPlaces
        DEF Checks, Begin, Goto, ownerVars, SInv, TypeOK
<1>1. TypeOK'
  BY DEF Pcs, Roles, Resources, NoCheck
<1>2. OneNameEach' /\ TargetHeld'
  BY DEF OneNameEach, TargetHeld, Resources
<1>3. RowHeld'
  BY DEF RowHeld, Roles, Resources
<1>4. TakenBackIsRaced' /\ AttributeIsAdministrators'
  BY DEF RowHeld, TakenBackIsRaced, AttributeIsAdministrators, Roles
<1>5. MadeInTurn' /\ OwnedByCreator'
  BY DEF MadeInTurn, OwnedByCreator, Roles
<1>. QED BY <1>1, <1>2, <1>3, <1>4, <1>5

\* A statement on a table begins.
LEMMA StartPolicyInv ==
  ASSUME SInv, NEW s \in Sessions, NEW name \in Names,
         StartPolicy(s, name), made' = [made EXCEPT ![s] = Nobody],
         UNCHANGED <<intended, raced>>
  PROVE  SInv'
<1>. USE SessionsAssumption, RolesPlaces DEF Checks, StartPolicy, Goto, SInv, TypeOK
<1>1. TypeOK'
  BY DEF Pcs, Roles, Resources, NoCheck
<1>2. OneNameEach'
  BY DEF OneNameEach
<1>3. TargetHeld'
  BY DEF OneNameEach, TargetHeld, Resources, NoCheck
<1>4. RowHeld' /\ MadeInTurn'
  BY DEF RowHeld, MadeInTurn, Roles, Resources
<1>5. TakenBackIsRaced' /\ AttributeIsAdministrators' /\ OwnedByCreator'
  BY DEF MadeInTurn, TakenBackIsRaced, AttributeIsAdministrators, OwnedByCreator
<1>. QED BY <1>1, <1>2, <1>3, <1>4, <1>5

\* The object is the superuser's until alter_owner.
LEMMA CreateObjectInv ==
  ASSUME SInv, NEW s \in Sessions, NEW kind \in Kinds,
         CreateObject(s, kind), UNCHANGED <<catalog, check>>
  PROVE  SInv'
<1>. USE SessionsAssumption, RolesPlaces
        DEF Checks, CreateObject, AlterOwnerPoint, Goto, IsSuper, SInv, TypeOK
<1>1. TypeOK'
  BY DEF Pcs, Roles, Resources, NoCheck
<1>2. OneNameEach' /\ TargetHeld'
  BY DEF OneNameEach, TargetHeld, Resources
<1>3. RowHeld'
  BY DEF RowHeld, Roles, Resources
<1>4. TakenBackIsRaced' /\ AttributeIsAdministrators'
  BY DEF RowHeld, TakenBackIsRaced, AttributeIsAdministrators, Roles
<1>5. MadeInTurn'
  BY DEF MadeInTurn, OwnedByCreator
<1>6. OwnedByCreator'
  BY DEF MadeInTurn, OwnedByCreator, Roles
<1>. QED BY <1>1, <1>2, <1>3, <1>4, <1>5, <1>6

\* A statement whose name goes with the schema no longer counts on it.
LEMMA RenameSchemaInv ==
  ASSUME SInv, NEW m \in Names, NEW n \in Names,
         RenameSchema(m, n), UNCHANGED ownerVars
  PROVE  SInv'
<1>. USE SessionsAssumption, RolesPlaces DEF RenameSchema, txVars, ownerVars, SInv, TypeOK
<1>1. TypeOK'
  <2>1. \A c \in Checks : [c EXCEPT !.moved = TRUE] \in Checks
    BY DEF Checks
  <2>2. check' \in [Sessions -> Checks]
    BY <2>1
  <2>. QED BY <2>2
<1>2. OneNameEach'
  BY DEF OneNameEach
<1>3. TargetHeld'
  <2>1. \A s \in Sessions :
          /\ check'[s].name = check[s].name /\ check'[s].target = check[s].target
          /\ check'[s].rest = check[s].rest /\ check'[s].granted = check[s].granted
          /\ pc[s] \in {"grants", "run"} /\ ~check'[s].moved =>
               check[s].name # m /\ ~check[s].moved
    BY DEF Checks
  <2>2. \A s \in Sessions :
          pc[s] \in {"grants", "run"} /\ ~check'[s].moved =>
            catalog'[check[s].name] = catalog[check[s].name]
    BY <2>1 DEF TargetHeld, Resources
  <2>. QED BY <2>1, <2>2 DEF TargetHeld
<1>4. RowHeld' /\ TakenBackIsRaced' /\ AttributeIsAdministrators'
  BY DEF RowHeld, TakenBackIsRaced, AttributeIsAdministrators
<1>5. MadeInTurn' /\ OwnedByCreator'
  BY DEF MadeInTurn, OwnedByCreator
<1>. QED BY <1>1, <1>2, <1>3, <1>4, <1>5

\* Locked tables keep their names.
LEMMA RenameTableInv ==
  ASSUME SInv, NEW m \in Names, NEW n \in Names,
         RenameTable(m, n), UNCHANGED ownerVars
  PROVE  SInv'
<1>. USE SessionsAssumption, RolesPlaces
        DEF Checks, RenameTable, Unlocked, txVars, ownerVars, SInv, TypeOK
<1>1. TypeOK'
  BY DEF Pcs, Roles, Resources, NoCheck
<1>2. OneNameEach'
  BY DEF OneNameEach
<1>3. TargetHeld'
  BY DEF OneNameEach, TargetHeld, Resources, NoCheck
<1>4. RowHeld' /\ TakenBackIsRaced' /\ AttributeIsAdministrators'
  BY DEF RowHeld, TakenBackIsRaced, AttributeIsAdministrators
<1>5. MadeInTurn' /\ OwnedByCreator'
  BY DEF MadeInTurn, OwnedByCreator
<1>. QED BY <1>1, <1>2, <1>3, <1>4, <1>5

\* Locked tables stay.
LEMMA DropTableInv ==
  ASSUME SInv, NEW n \in Names,
         DropTable(n), UNCHANGED ownerVars
  PROVE  SInv'
<1>. USE SessionsAssumption, RolesPlaces
        DEF Checks, DropTable, Unlocked, txVars, ownerVars, SInv, TypeOK
<1>1. TypeOK'
  BY DEF Pcs, Roles, Resources, NoCheck
<1>2. OneNameEach'
  BY DEF OneNameEach
<1>3. TargetHeld'
  BY DEF OneNameEach, TargetHeld, Resources, NoCheck
<1>4. RowHeld' /\ TakenBackIsRaced' /\ AttributeIsAdministrators'
  BY DEF RowHeld, TakenBackIsRaced, AttributeIsAdministrators
<1>5. MadeInTurn' /\ OwnedByCreator'
  BY DEF MadeInTurn, OwnedByCreator
<1>. QED BY <1>1, <1>2, <1>3, <1>4, <1>5

\* A new table takes a name no table has, so not one of a locked table.
LEMMA CreateTableInv ==
  ASSUME SInv, NEW n \in Names, NEW t \in Tables,
         CreateTable(n, t), UNCHANGED ownerVars
  PROVE  SInv'
<1>. USE SessionsAssumption, RolesPlaces
        DEF Checks, CreateTable, txVars, ownerVars, SInv, TypeOK
<1>1. TypeOK'
  BY DEF Pcs, Roles, Resources, NoCheck
<1>2. OneNameEach'
  BY DEF OneNameEach
<1>3. TargetHeld'
  BY DEF OneNameEach, TargetHeld, Resources, NoCheck
<1>4. RowHeld' /\ TakenBackIsRaced' /\ AttributeIsAdministrators'
  BY DEF RowHeld, TakenBackIsRaced, AttributeIsAdministrators
<1>5. MadeInTurn' /\ OwnedByCreator'
  BY DEF MadeInTurn, OwnedByCreator
<1>. QED BY <1>1, <1>2, <1>3, <1>4, <1>5

\* An administrator's change counts as intended, and as raced if a statement of
\* the role is past its superuser() test.
LEMMA SetAttributeInv ==
  ASSUME SInv, NEW role \in Roles, NEW value \in BOOLEAN,
         SetAttribute(role, value), UNCHANGED <<catalog, check>>
  PROVE  SInv'
<1>. USE SessionsAssumption, RolesPlaces DEF Checks, SetAttribute, SInv, TypeOK
<1>1. TypeOK'
  BY DEF Pcs, Roles, Resources, NoCheck
<1>2. OneNameEach' /\ TargetHeld'
  BY DEF OneNameEach, TargetHeld, Resources
<1>3. RowHeld'
  BY DEF RowHeld, Roles, Resources
<1>4. TakenBackIsRaced' /\ AttributeIsAdministrators'
  BY DEF RowHeld, TakenBackIsRaced, AttributeIsAdministrators, Roles
<1>5. MadeInTurn' /\ OwnedByCreator'
  BY DEF MadeInTurn, OwnedByCreator, Roles
<1>. QED BY <1>1, <1>2, <1>3, <1>4, <1>5

\* Every step keeps the invariant.
LEMMA NextInv == SInv /\ [Next]_vars => SInv'
<1>. SUFFICES ASSUME SInv, [Next]_vars PROVE SInv'
  OBVIOUS
<1>1. ASSUME NEW s \in Sessions, Statement(s) PROVE SInv'
  BY <1>1, BeginInv, StartPolicyInv, CreateObjectInv DEF Statement
<1>2. ASSUME NEW s \in Sessions, PolicyStep(s), UNCHANGED ownerVars PROVE SInv'
  BY <1>2, LockTargetInv, SkipMissingInv, LockGrantedInv, NotGrantedInv, RunInv
     DEF PolicyStep, RunAsSuperuser, RunAsCaller
<1>3. ASSUME NEW s \in Sessions, Raise(s) \/ OwnerStep(s), UNCHANGED <<catalog, check>>
      PROVE  SInv'
  BY <1>3, RaiseInv, WaitForRowInv, ChangeOwnerInv, ChangePublicationOwnerInv, LowerInv
     DEF OwnerStep
<1>4. ASSUME NEW s \in Sessions, CommitTransaction(s) PROVE SInv'
  BY <1>4, CommitInv
<1>5. ASSUME NEW s \in Sessions, StatementError(s) \/ DeadlockDetected(s) \/ EndByError(s)
      PROVE  SInv'
  BY <1>5, EndByErrorInv DEF StatementError, DeadlockDetected
<1>6. CASE Others
  BY <1>6, RenameTableInv, RenameSchemaInv, DropTableInv, CreateTableInv, SetAttributeInv
     DEF Others
<1>7. CASE UNCHANGED vars
  <2>. USE <1>7 DEF vars, txVars, ownerVars, SInv
  <2>1. TypeOK' /\ OneNameEach' /\ TargetHeld'
    BY DEF TypeOK, OneNameEach, TargetHeld
  <2>2. RowHeld' /\ TakenBackIsRaced' /\ AttributeIsAdministrators'
    BY DEF RowHeld, TakenBackIsRaced, AttributeIsAdministrators
  <2>3. MadeInTurn' /\ OwnedByCreator'
    BY DEF MadeInTurn, OwnedByCreator
  <2>. QED BY <2>1, <2>2, <2>3
<1>. QED BY <1>1, <1>2, <1>3, <1>4, <1>5, <1>6, <1>7 DEF Next

\* The invariant holds in every state: the types, that locked tables keep their
\* names, that a raised row is held, who owns what.
THEOREM Invariance == Spec => []SInv
<1>. QED BY InitInv, NextInv, PTL DEF Spec

\* What the check answered is so of the table the name has when the statement
\* runs.
LEMMA GrantsSeen ==
  ASSUME SInv, NEW s \in Sessions, pc[s] = "run", ~check[s].moved
  PROVE  check[s].granted <=> catalog[check[s].name] \in GrantedTables(RoleOf[s])
<1>. DEFINE name == check[s].name
            granting == {place \in PlacesOf(RoleOf[s]) : NameAt(place) = name}
<1>1. name \in Names /\ catalog[name] \in Tables /\ (check[s].granted <=> granting # {})
  BY DEF SInv, TargetHeld
<1>2. catalog[name] # Nobody
  BY <1>1, SessionsAssumption DEF Resources
<1>3. ASSUME granting # {} PROVE catalog[name] \in GrantedTables(RoleOf[s])
  BY <1>2, <1>3 DEF GrantedTables
<1>4. ASSUME catalog[name] \in GrantedTables(RoleOf[s]) PROVE granting # {}
  <2>1. PICK place \in PlacesOf(RoleOf[s]) : catalog[NameAt(place)] = catalog[name]
    BY <1>4 DEF GrantedTables
  <2>2. NameAt(place) = name
    BY <1>1, <1>2, <2>1, PlacesNamed DEF SInv, OneNameEach
  <2>. QED BY <2>1, <2>2
<1>. QED BY <1>1, <1>3, <1>4

\* A policy statement or DROP TRIGGER runs as superuser exactly if the setting
\* gives its role the table that the name has when it runs, whatever tables other
\* sessions rename, drop and create meanwhile and whatever other schemas they
\* rename: for every setting, every number of sessions and tables.
THEOREM GrantsTheorem == Spec => []DelegatedExactlyOnGrants
<1>1. SInv => DelegatedExactlyOnGrants
  BY GrantsSeen DEF DelegatedExactlyOnGrants
<1>. QED BY <1>1, Invariance, PTL

\* No transaction, however it ends, leaves a role an attribute SUPERUSER that no
\* administrator gave it, and it takes one away only when the administrator gave
\* it in the middle of a statement of the role.
THEOREM AttributeTheorem == Spec => []AttributeIsAdministrators
<1>1. SInv => AttributeIsAdministrators
  BY DEF SInv
<1>. QED BY <1>1, Invariance, PTL

\* When alter_owner and its handler are through, the object belongs to the role
\* that created it and never to the superuser.
THEOREM OwnershipTheorem == Spec => []OwnedByCreator
<1>1. SInv => OwnedByCreator
  BY DEF SInv
<1>. QED BY <1>1, Invariance, PTL

=============================================================================
