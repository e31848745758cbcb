------------------------------ MODULE Sessions ------------------------------
(***************************************************************************)
(* Sessions whose transactions mix the statements of PolicyLocks and of    *)
(* OwnerChanges, with the locks both take.                                 *)
(***************************************************************************)
EXTENDS PolicyLocks, OwnerChanges

vars == <<txVars, catalog, check, ownerVars>>

\* The session that s waits for, or Nobody.
Blocker ==
  [s \in Sessions |->
     LET needed == IF pc[s] = "raise_wait" THEN RoleOf[s] ELSE TableNeeded(s)
     IN  IF needed = Nobody \/ Available(s, needed) THEN Nobody ELSE holder[needed]]

-----------------------------------------------------------------------------

Init ==
  /\ holder = [r \in Resources |-> Nobody]
  /\ pc = [s \in Sessions |-> "idle"]
  /\ attribute = [role \in Roles |-> FALSE]
  /\ draft = [s \in Sessions |-> "unchanged"]
  /\ catalog \in [Names -> Tables \cup {Nobody}]
  /\ \A m, n \in Names : catalog[m] = catalog[n] => m = n \/ catalog[m] = Nobody
  /\ check = [s \in Sessions |-> NoCheck]
  /\ made = [s \in Sessions |-> Nobody]
  /\ intended = attribute
  /\ raced = {}

PolicyStep(s) ==
  \/ LockTarget(s)
  \/ SkipMissing(s)
  \/ LockGranted(s)
  \/ NotGranted(s)
  \/ RunAsSuperuser(s)
  \/ RunAsCaller(s)

OwnerStep(s) ==
  \/ WaitForRow(s)
  \/ ChangeOwner(s)
  \/ ChangePublicationOwner(s)
  \/ Lower(s)

CommitTransaction(s) ==
  /\ Commit(s)
  /\ made' = [made EXCEPT ![s] = Nobody]
  /\ UNCHANGED <<catalog, check, intended, raced>>

EndByError(s) ==
  /\ Abort(s)
  /\ check' = [check EXCEPT ![s] = NoCheck]
  /\ made' = [made EXCEPT ![s] = Nobody]
  /\ UNCHANGED <<catalog, intended, raced>>

\* The errors that must come: the target of the statement does not exist, or no
\* longer does, or the row to be updated has a new version ("tuple concurrently
\* updated").
StatementError(s) ==
  /\ \/ pc[s] \in {"target", "run"} /\ catalog[check[s].name] = Nobody
     \/ pc[s] = "updated"
  /\ EndByError(s)

\* The deadlock detector chooses one of the sessions in the cycle.
DeadlockDetected(s) ==
  /\ InWaitCycle(s, Blocker)
  /\ EndByError(s)

Statement(s) ==
  \/ Begin(s) /\ UNCHANGED <<catalog, check, ownerVars>>
  \/ /\ \E name \in Names : StartPolicy(s, name)
     /\ made' = [made EXCEPT ![s] = Nobody]
     /\ UNCHANGED <<intended, raced>>
  \/ \E kind \in Kinds : CreateObject(s, kind) /\ UNCHANGED <<catalog, check>>

Others ==
  \/ /\ \/ \E m, n \in Names : RenameTable(m, n) \/ RenameSchema(m, n)
        \/ \E n \in Names : DropTable(n)
        \/ \E n \in Names, t \in Tables : CreateTable(n, t)
     /\ UNCHANGED ownerVars
  \/ /\ \E role \in Roles, value \in BOOLEAN : SetAttribute(role, value)
     /\ UNCHANGED <<catalog, check>>

Next ==
  \/ \E s \in Sessions :
       \/ Statement(s)
       \/ PolicyStep(s) /\ UNCHANGED ownerVars
       \/ (Raise(s) \/ OwnerStep(s)) /\ UNCHANGED <<catalog, check>>
       \/ CommitTransaction(s)
       \/ StatementError(s)
       \/ DeadlockDetected(s)
       \/ EndByError(s)
  \/ Others

Spec == Init /\ [][Next]_vars

\* Lock queues are first come, first served, so a lock that becomes free again
\* and again is granted; a statement on a name that comes and goes runs or fails;
\* clients end their transactions; the detector runs.
Fairness ==
  /\ \A s \in Sessions :
       /\ SF_vars((PolicyStep(s) /\ UNCHANGED ownerVars) \/ StatementError(s))
       /\ SF_vars(Raise(s) /\ UNCHANGED <<catalog, check>>)
       /\ WF_vars(OwnerStep(s) /\ UNCHANGED <<catalog, check>>)
       /\ SF_vars(CommitTransaction(s))
  /\ WF_vars(\E s \in Sessions : DeadlockDetected(s))

FairSpec == Spec /\ Fairness

-----------------------------------------------------------------------------

Pcs == {"idle", "ready", "target", "grants", "run", "raise", "raise_wait",
        "updated", "owner", "lower", "give"}

Places == UNION {PlacesOf(role) : role \in Roles}

Checks == [name : Names \cup {Nobody}, target : Tables \cup {Nobody},
           rest : SUBSET Places, granted : BOOLEAN, moved : BOOLEAN]

TypeOK ==
  /\ holder \in [Resources -> Sessions \cup {Nobody}]
  /\ pc \in [Sessions -> Pcs]
  /\ attribute \in [Roles -> BOOLEAN]
  /\ draft \in [Sessions -> {"unchanged", "superuser", "ordinary"}]
  /\ catalog \in [Names -> Tables \cup {Nobody}]
  /\ check \in [Sessions -> Checks]
  /\ made \in [Sessions -> Roles \cup {Superuser, Nobody}]
  /\ intended \in [Roles -> BOOLEAN]
  /\ raced \subseteq Roles

-----------------------------------------------------------------------------
(* The inductive invariant *)

\* No table has two names.
OneNameEach ==
  \A m, n \in Names : catalog[m] = catalog[n] => m = n \/ catalog[m] = Nobody

\* Once its target is locked a statement knows it by its name, unless that went
\* with the schema, and what it has looked at of the setting was something else.
TargetHeld ==
  \A s \in Sessions :
    LET name == check[s].name
        granting == {place \in PlacesOf(RoleOf[s]) : NameAt(place) = name}
    IN  /\ pc[s] \in {"target", "grants", "run"} => name \in Names
        /\ pc[s] \in {"grants", "run"} =>
             /\ check[s].target \in Tables
             /\ holder[check[s].target] = s
             /\ ~check[s].moved => catalog[name] = check[s].target
        /\ pc[s] = "grants" =>
             /\ check[s].rest \subseteq PlacesOf(RoleOf[s])
             /\ ~check[s].moved => granting \subseteq check[s].rest
        /\ pc[s] = "run" /\ ~check[s].moved => (check[s].granted <=> granting # {})

\* A session that has changed its role's row has the row, and is a superuser
\* only inside alter_owner.
RowHeld ==
  \A s \in Sessions :
    /\ draft[s] # "unchanged" => holder[RoleOf[s]] = s
    /\ draft[s] = "superuser" <=> pc[s] \in {"owner", "lower"}
    /\ pc[s] = "raise_wait" => holder[RoleOf[s]] # Nobody

\* An attribute that a statement will take back was set while it ran.
TakenBackIsRaced ==
  \A s \in Sessions :
    /\ pc[s] \in {"raise", "raise_wait"} /\ draft[s] = "unchanged" /\ attribute[RoleOf[s]]
         => RoleOf[s] \in raced
    /\ draft[s] # "unchanged" /\ (attribute[RoleOf[s]] \/ intended[RoleOf[s]])
         => RoleOf[s] \in raced

MadeInTurn ==
  \A s \in Sessions :
    /\ pc[s] \in {"idle", "target", "grants", "run"} => made[s] = Nobody
    /\ pc[s] = "lower" => made[s] = RoleOf[s]

SInv ==
  /\ TypeOK
  /\ OneNameEach
  /\ TargetHeld
  /\ RowHeld
  /\ TakenBackIsRaced
  /\ AttributeIsAdministrators
  /\ MadeInTurn
  /\ OwnedByCreator

-----------------------------------------------------------------------------

\* Every statement comes to an end, by its own end, an error or the deadlock
\* detector: two sessions that lock the tables of the setting in different
\* orders, or tables and the row of their role, do not wait for ever.
StatementEnds ==
  \A s \in Sessions : pc[s] \notin {"idle", "ready"} ~> pc[s] \in {"idle", "ready"}

=============================================================================
