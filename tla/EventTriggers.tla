--------------------------- MODULE EventTriggers ---------------------------
(***************************************************************************)
(* Event triggers firing in the statements of UtilityHook: the function    *)
(* manager hook of supautils.c decides for each call of a function that    *)
(* returns event_trigger whether it runs or is replaced by a no-op.  The   *)
(* decision rests on the identity the hook of UtilityHook left in force.   *)
(***************************************************************************)
EXTENDS UtilityHook

CONSTANTS
  Functions,     \* the functions that event triggers execute
  OwnerOf,       \* the owner of each
  Definers,      \* those that are SECURITY DEFINER
  ReservedRoles  \* supautils.reserved_roles

ASSUME FunctionsAssumption ==
  /\ OwnerOf \in [Functions -> Roles]
  /\ Definers \subseteq Functions
  /\ ReservedRoles \subseteq Roles

VARIABLE fired   \* history: the call the last step made, if any, and who ran it

etVars == <<ident, outerRole, prev, isSwitched, runningScript, stack, raising,
            switchLost, latchLost, fired>>

NoCall == [fn |-> "none", runs |-> FALSE, user |-> NoRole]

-----------------------------------------------------------------------------

\* A superuser or a reserved role runs only functions a superuser owns, a
\* superuser only its own.
Skips(role, owner) ==
  \/ IsSuper(role) /\ owner # role
  \/ role \in ReservedRoles /\ ~IsSuper(owner)

\* The identity a function runs with: fmgr_security_definer has set it when
\* the hook is called.
UserInside(fn) == IF fn \in Definers THEN OwnerOf[fn] ELSE ident.user

\* Faulty variants: the role is taken from GetUserId, or from GetOuterUserId,
\* for every function; or superusers are not looked at.
SkippedForUser(fn) == Skips(UserInside(fn), OwnerOf[fn])

SkippedForOuter(fn) == Skips(outerRole, OwnerOf[fn])

SkippedForReserved(fn) ==
  LET role == IF fn \in Definers THEN outerRole ELSE UserInside(fn)
  IN  role \in ReservedRoles /\ ~IsSuper(OwnerOf[fn])

\* supautils_fmgr_hook, FHET_START
Skipped(fn) ==
  LET role == IF fn \in Definers THEN outerRole ELSE UserInside(fn)
  IN  Skips(role, OwnerOf[fn])

\* A statement reaches an event that fn is attached to.  The code of fn runs
\* in a frame of its own if it is SECURITY DEFINER, else in the statement's.
Fire(fn) ==
  /\ Running
  /\ Top.kind \in StmtKinds
  /\ Top.pc \in {"util", "util_as_caller", "chain"}
  /\ fired' = [fn |-> fn, runs |-> ~Skipped(fn), user |-> UserInside(fn)]
  /\ IF fn \in Definers /\ ~Skipped(fn)
       THEN BeginDefiner(OwnerOf[fn])
       ELSE UNCHANGED vars

ETInit == Init /\ fired = NoCall

ETNext ==
  \/ \E fn \in Functions : Fire(fn)
  \/ Next /\ fired' = NoCall

ETSpec == ETInit /\ [][ETNext]_etVars

ETFairSpec == ETSpec /\ Fairness

-----------------------------------------------------------------------------

\* The code of a function that no superuser owns never starts with the
\* identity of a superuser, however the statement that fires it came to run
\* as one: by delegation, SET ROLE or a SECURITY DEFINER caller.
NoFunctionGainsSuperuser ==
  (fired.runs /\ IsSuper(fired.user)) => IsSuper(OwnerOf[fired.fn])

\* README, Non-Superuser Event Triggers: the triggers of the privileged role
\* will not fire in statements that are delegated (publications, foreign data
\* wrappers, extensions), also when the statement is nested in another delegated
\* one and did not switch itself.  It holds of functions that run with the
\* identity of their caller.
SkippedWhenDelegated ==
  (fired.runs /\ fired.fn \notin Definers /\ InDelegated)
  => IsSuper(OwnerOf[fired.fn])

\* Issue 140, quoted in the hook: a SECURITY DEFINER function that no
\* superuser owns is not run in the session of a superuser or of a reserved
\* role.
DefinerSkippedForSession ==
  (fired.runs /\ fired.fn \in Definers /\ ~IsSuper(OwnerOf[fired.fn]))
  => outerRole \notin Superusers \cup ReservedRoles

=============================================================================
