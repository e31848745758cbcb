---------------------------- MODULE Transactions ----------------------------
(***************************************************************************)
(* What supautils' statements meet in PostgreSQL when several sessions run *)
(* them: exclusive locks that are kept to the end of the transaction, the  *)
(* rows of pg_authid with the change a transaction has made but not        *)
(* committed, and the deadlock detector.  External: from the calls that    *)
(* src/src/policy_grants.c and src/src/utils.c make.                       *)
(***************************************************************************)
EXTENDS Naturals, Sequences

CONSTANTS
  Sessions,
  RoleOf,    \* the current role of each session
  Tables,    \* the relations that can exist, by oid
  Nobody     \* no session, no table and no role

Roles == {RoleOf[s] : s \in Sessions}

\* A table under AccessExclusiveLock, or the row of a role that was updated.
Resources == Tables \cup Roles

ASSUME SessionsAssumption ==
  /\ Tables \cap Roles = {}
  /\ Nobody \notin Sessions \cup Resources

VARIABLES
  holder,    \* the session that has each resource
  pc,        \* the point each session has reached
  attribute, \* rolsuper of each role, as committed
  draft      \* rolsuper of its role as the session's transaction has left it

txVars == <<holder, pc, attribute, draft>>

-----------------------------------------------------------------------------

Goto(s, point) == pc' = [pc EXCEPT ![s] = point]

Available(s, resource) == holder[resource] \in {s, Nobody}

Take(s, resource) == holder' = [holder EXCEPT ![resource] = s]

\* superuser(), as the session sees its own transaction's changes.
IsSuper(s) ==
  IF draft[s] = "unchanged" THEN attribute[RoleOf[s]] ELSE draft[s] = "superuser"

Begin(s) ==
  /\ pc[s] = "idle"
  /\ Goto(s, "ready")
  /\ UNCHANGED <<holder, attribute, draft>>

ReleaseAll(s) ==
  holder' = [r \in Resources |-> IF holder[r] = s THEN Nobody ELSE holder[r]]

\* A waiting update of a row fails if the transaction it waits for commits a
\* new version, and goes ahead if that one aborts.
Wake(s, point) ==
  pc' = [t \in Sessions |->
           IF t = s THEN "idle"
           ELSE IF pc[t] = "raise_wait" /\ holder[RoleOf[t]] = s THEN point
           ELSE pc[t]]

Commit(s) ==
  /\ pc[s] = "ready"
  /\ ReleaseAll(s)
  /\ Wake(s, "updated")
  /\ attribute' = [attribute EXCEPT ![RoleOf[s]] = IsSuper(s)]
  /\ draft' = [draft EXCEPT ![s] = "unchanged"]

\* An error, a cancellation or the end of the session.
Abort(s) ==
  /\ pc[s] # "idle"
  /\ ReleaseAll(s)
  /\ Wake(s, "raise")
  /\ draft' = [draft EXCEPT ![s] = "unchanged"]
  /\ UNCHANGED attribute

\* s waits for itself through the sessions that each wait for the next one.
InWaitCycle(s, blocker) ==
  \E C \in SUBSET Sessions :
    /\ s \in C
    /\ \A t \in C : blocker[t] \in C
    /\ \A t \in C : \E u \in C : blocker[u] = t

=============================================================================
