---------------------------- MODULE OwnerChanges ----------------------------
(***************************************************************************)
(* CREATE FOREIGN DATA WRAPPER, PUBLICATION and EVENT TRIGGER of the       *)
(* privileged role: the object is created by the superuser and then given  *)
(* to the caller by alter_owner (src/src/utils.c).  Two kinds of object    *)
(* can only be owned by a superuser, so alter_owner makes the caller one   *)
(* for the moment of the change.  The row of pg_authid that it updates is  *)
(* one that administrators and other sessions update too.                  *)
(***************************************************************************)
EXTENDS Transactions

CONSTANT Superuser  \* supautils.superuser

ASSUME SuperuserAssumption == Superuser \notin Roles

Kinds == {"fdw", "publication", "event_trigger"}

VARIABLES
  made,     \* the owner of the object that each session's last statement of an
            \* ordinary role created, or Nobody
  intended, \* history: what an administrator last set each role's attribute to
  raced     \* history: roles whose attribute an administrator set while a
            \* statement of the role was past its own superuser() test

ownerVars == <<made, intended, raced>>

-----------------------------------------------------------------------------

\* Faulty: alter_owner has no case for event triggers.
AlterOwnerPointUnhandled(kind) ==
  CASE kind = "fdw" -> "raise" [] kind = "publication" -> "give" [] OTHER -> "unhandled"

\* The cases of alter_owner.
AlterOwnerPoint(kind) == IF kind = "publication" THEN "give" ELSE "raise"

\* The handler up to the end of the chained hook: the switched superuser has
\* created the object.  What a superuser creates is not given to anyone.
CreateObject(s, kind) ==
  /\ pc[s] = "ready"
  /\ IF IsSuper(s)
       THEN made' = [made EXCEPT ![s] = Nobody] /\ UNCHANGED pc
       ELSE made' = [made EXCEPT ![s] = Superuser] /\ Goto(s, AlterOwnerPoint(kind))
  /\ UNCHANGED <<holder, attribute, draft, intended, raced>>

\* alter_role_super(role_name, true).
Raise(s) ==
  /\ pc[s] = "raise"
  /\ Available(s, RoleOf[s])
  /\ Take(s, RoleOf[s])
  /\ draft' = [draft EXCEPT ![s] = "superuser"]
  /\ Goto(s, "owner")
  /\ UNCHANGED <<attribute, ownerVars>>

\* The same, when another transaction has updated the row and not ended.
WaitForRow(s) ==
  /\ pc[s] = "raise"
  /\ ~Available(s, RoleOf[s])
  /\ Goto(s, "raise_wait")
  /\ UNCHANGED <<holder, attribute, draft, ownerVars>>

Give(s, point) ==
  /\ made' = [made EXCEPT ![s] = RoleOf[s]]
  /\ Goto(s, point)
  /\ UNCHANGED <<holder, attribute, draft, intended, raced>>

\* Faulty: the attribute is not taken back, or the owner is not changed.
ChangeOwnerOnly(s) == pc[s] = "owner" /\ IsSuper(s) /\ Give(s, "ready")

RaiseAndLowerOnly(s) ==
  /\ pc[s] = "owner"
  /\ Goto(s, "lower")
  /\ UNCHANGED <<holder, attribute, draft, ownerVars>>

\* AlterForeignDataWrapperOwner, AlterEventTriggerOwner: the new owner must be
\* a superuser.
ChangeOwner(s) == pc[s] = "owner" /\ IsSuper(s) /\ Give(s, "lower")

\* AlterPublicationOwner.
ChangePublicationOwner(s) == pc[s] = "give" /\ Give(s, "ready")

\* alter_role_super(role_name, false).
Lower(s) ==
  /\ pc[s] = "lower"
  /\ draft' = [draft EXCEPT ![s] = "ordinary"]
  /\ Goto(s, "ready")
  /\ UNCHANGED <<holder, attribute, made, intended, raced>>

-----------------------------------------------------------------------------

\* ALTER ROLE role SUPERUSER or NOSUPERUSER of an administrator, committed.
SetAttribute(role, value) ==
  /\ holder[role] = Nobody
  /\ attribute' = [attribute EXCEPT ![role] = value]
  /\ intended' = [intended EXCEPT ![role] = value]
  /\ raced' = IF \E s \in Sessions : RoleOf[s] = role /\ pc[s] = "raise"
                THEN raced \cup {role} ELSE raced \ {role}
  /\ UNCHANGED <<holder, pc, draft, made>>

-----------------------------------------------------------------------------

\* The committed attribute is the one an administrator gave the role: wherever
\* errors, deadlocks and cancellations end a transaction, it leaves behind no
\* superuser that nobody made, and only an administrator who gave the attribute
\* in the middle of a statement of that role can lose it to
\* alter_role_super(role_name, false).
AttributeIsAdministrators ==
  \A role \in Roles :
    \/ attribute[role] = intended[role]
    \/ ~attribute[role] /\ role \in raced

\* What a statement of an ordinary role created belongs to that role when the
\* statement is over.
OwnedByCreator ==
  \A s \in Sessions : pc[s] = "ready" => made[s] \in {RoleOf[s], Nobody}

=============================================================================
