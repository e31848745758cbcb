---------------------------- MODULE PolicyLocks -----------------------------
(***************************************************************************)
(* CREATE, ALTER, DROP and COMMENT ON POLICY, and DROP TRIGGER, of roles   *)
(* that do not own the table: the check of supautils.policy_grants in      *)
(* src/src/policy_grants.c (drop_trigger_grants.c has the same text) and   *)
(* the handlers of supautils_hook that rest on it.                         *)
(*                                                                         *)
(* The check resolves and locks the target, and then, in their order, the  *)
(* tables of the setting up to the one that is the target.  Meanwhile      *)
(* other sessions rename, drop and create tables they are not locked out   *)
(* of, and rename schemas, which nothing locks them out of; what runs      *)
(* afterwards resolves the name of the target again.  Names are qualified, *)
(* each in a schema of its own: the search path is not modelled.           *)
(***************************************************************************)
EXTENDS Transactions

CONSTANTS
  Names,        \* qualified names of tables
  Grants,       \* the setting: a sequence of entries [role, tables]
  SchemaRenames \* bound: the pairs <<name, newName>> that schemas are renamed by

ASSUME GrantsAssumption ==
  /\ \A i \in DOMAIN Grants : Grants[i].tables \in Seq(Names)
  /\ Nobody \notin Names
  /\ SchemaRenames \subseteq Names \X Names

VARIABLES
  catalog, \* the table of each name, or Nobody
  check    \* the statement of each session: the name of its target, the oid
           \* the check found, the places of the setting still to be looked
           \* at, the answer; history: whether the name was taken from the
           \* target with its schema since the check found it

NoCheck == [name |-> Nobody, target |-> Nobody, rest |-> {}, granted |-> FALSE,
            moved |-> FALSE]

-----------------------------------------------------------------------------

\* The places <<i, j>> of the setting where a role is given a name, in the
\* order of the two loops.
PlacesOf(role) ==
  UNION {{i} \X (DOMAIN Grants[i].tables) :
           i \in {e \in DOMAIN Grants : Grants[e].role = role}}

NameAt(place) == Grants[place[1]].tables[place[2]]

IsFirst(place, places) ==
  \A other \in places :
    \/ place[1] < other[1]
    \/ place[1] = other[1] /\ place[2] <= other[2]

\* A policy statement, or DROP TRIGGER, reaches the hook; superusers are left
\* to PostgreSQL.
StartPolicy(s, name) ==
  /\ pc[s] = "ready"
  /\ ~IsSuper(s)
  /\ Goto(s, "target")
  /\ check' = [check EXCEPT ![s] = [NoCheck EXCEPT !.name = name]]
  /\ UNCHANGED <<holder, attribute, draft, catalog>>

\* Faulty: RangeVarGetRelid(table, NoLock, false).
LockTargetUnlocked(s) ==
  LET target == catalog[check[s].name] IN
  /\ pc[s] = "target"
  /\ target # Nobody
  /\ Goto(s, "grants")
  /\ check' = [check EXCEPT ![s].target = target, ![s].rest = PlacesOf(RoleOf[s])]
  /\ UNCHANGED <<holder, attribute, draft, catalog>>

\* RangeVarGetRelid(table, AccessExclusiveLock, false): the name is resolved
\* again after any wait, so the table locked is the one it has then.
LockTarget(s) ==
  LET target == catalog[check[s].name] IN
  /\ pc[s] = "target"
  /\ target # Nobody
  /\ Available(s, target)
  /\ Take(s, target)
  /\ Goto(s, "grants")
  /\ check' = [check EXCEPT ![s].target = target, ![s].rest = PlacesOf(RoleOf[s])]
  /\ UNCHANGED <<attribute, draft, catalog>>

Answer(s, granted) ==
  /\ Goto(s, "run")
  /\ check' = [check EXCEPT ![s] = [@ EXCEPT !.rest = {}, !.granted = granted]]

\* Faulty: a table that does not exist is tried again.
SkipMissingRetries(s) ==
  /\ pc[s] = "grants"
  /\ \E place \in check[s].rest :
       IsFirst(place, check[s].rest) /\ catalog[NameAt(place)] = Nobody
  /\ UNCHANGED <<holder, pc, attribute, draft, catalog, check>>

\* A name of the setting that no table has: continue.
SkipMissing(s) ==
  /\ pc[s] = "grants"
  /\ \E place \in check[s].rest :
       /\ IsFirst(place, check[s].rest)
       /\ catalog[NameAt(place)] = Nobody
       /\ check' = [check EXCEPT ![s].rest = @ \ {place}]
  /\ UNCHANGED <<holder, pc, attribute, draft, catalog>>

\* The next name of the setting is resolved and its table locked; a match
\* returns true.
LockGranted(s) ==
  /\ pc[s] = "grants"
  /\ \E place \in check[s].rest :
       LET table == catalog[NameAt(place)] IN
       /\ IsFirst(place, check[s].rest)
       /\ table # Nobody
       /\ Available(s, table)
       /\ Take(s, table)
       /\ IF table = check[s].target
            THEN Answer(s, TRUE)
            ELSE check' = [check EXCEPT ![s].rest = @ \ {place}] /\ UNCHANGED pc
  /\ UNCHANGED <<attribute, draft, catalog>>

NotGranted(s) ==
  /\ pc[s] = "grants"
  /\ check[s].rest = {}
  /\ Answer(s, FALSE)
  /\ UNCHANGED <<holder, attribute, draft, catalog>>

\* prev_hook or standard_ProcessUtility, on the table the name has now.
Run(s) ==
  /\ LET table == catalog[check[s].name] IN
       /\ table # Nobody
       /\ Available(s, table)
       /\ Take(s, table)
  /\ Goto(s, "ready")
  /\ check' = [check EXCEPT ![s] = NoCheck]
  /\ UNCHANGED <<attribute, draft, catalog>>

RunAsSuperuser(s) == pc[s] = "run" /\ check[s].granted /\ Run(s)

\* PostgreSQL may refuse the caller, which is an Abort.
RunAsCaller(s) == pc[s] = "run" /\ ~check[s].granted /\ Run(s)

-----------------------------------------------------------------------------
(* Transactions of other sessions, which commit at once: those on a table    *)
(* need AccessExclusiveLock, ALTER SCHEMA RENAME takes no lock on its tables *)

Unlocked(name) == catalog[name] # Nobody /\ holder[catalog[name]] = Nobody

\* ALTER SCHEMA RENAME, as it changes the qualified name of a table in it.
RenameSchema(name, newName) ==
  /\ <<name, newName>> \in SchemaRenames
  /\ catalog[name] # Nobody
  /\ catalog[newName] = Nobody
  /\ catalog' = [catalog EXCEPT ![name] = Nobody, ![newName] = catalog[name]]
  /\ check' = [s \in Sessions |->
                 IF pc[s] \in {"grants", "run"} /\ check[s].name = name
                   THEN [check[s] EXCEPT !.moved = TRUE] ELSE check[s]]
  /\ UNCHANGED txVars

\* ALTER TABLE RENAME, or SET SCHEMA
RenameTable(name, newName) ==
  /\ Unlocked(name)
  /\ catalog[newName] = Nobody
  /\ catalog' = [catalog EXCEPT ![name] = Nobody, ![newName] = catalog[name]]
  /\ UNCHANGED <<txVars, check>>

DropTable(name) ==
  /\ Unlocked(name)
  /\ catalog' = [catalog EXCEPT ![name] = Nobody]
  /\ UNCHANGED <<txVars, check>>

CreateTable(name, table) ==
  /\ catalog[name] = Nobody
  /\ \A n \in Names : catalog[n] # table
  /\ catalog' = [catalog EXCEPT ![name] = table]
  /\ UNCHANGED <<txVars, check>>

-----------------------------------------------------------------------------

\* The table a session at this point cannot go on without.
TableNeeded(s) ==
  LET rest == check[s].rest IN
  CASE pc[s] \in {"target", "run"} -> catalog[check[s].name]
    [] pc[s] = "grants" /\ rest # {} ->
         catalog[NameAt(CHOOSE place \in rest : IsFirst(place, rest))]
    [] OTHER -> Nobody

GrantedTables(role) == {catalog[NameAt(place)] : place \in PlacesOf(role)} \ {Nobody}

\* When a statement runs, as superuser or as the caller, the answer of the
\* check is still right of the table that its name has at that moment: it is
\* one of those the setting gives the role or it is not.  No rename, drop or
\* creation between the check and the run makes it another table, and none
\* during the check, nor a name of no table, makes the check miss a grant.  Only
\* a rename of the schema, which the lock of the table does not keep out, may.
DelegatedExactlyOnGrants ==
  \A s \in Sessions :
    pc[s] = "run" /\ ~check[s].moved
      => (check[s].granted <=> catalog[check[s].name] \in GrantedTables(RoleOf[s]))

=============================================================================
