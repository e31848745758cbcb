# supautils in TLA+

supautils is a PostgreSQL extension that lets roles that are not superusers run
some statements that need one, and protects roles the service needs. It sits in
four hooks of a backend (utility statements, function calls, executor start, and
the check and assign hooks of its settings). This directory models the part of
it whose correctness depends on the order of events, checks it with TLC on small
instances and proves the core with TLAPS for all of them. Source paths below
are relative to the repository.

## The system

| Component | State | Operations | What makes it correct |
|---|---|---|---|
| Switching (`src/utils.c`, the macros of `src/pg_prelude.h`) | `prev_role_oid`, `prev_role_sec_context`, `is_switched_to_superuser`, and PostgreSQL's user id and security context | `switch_to_superuser`, `switch_to_original_role`, the `PG_CATCH` of `run_process_utility_hook_with_cleanup` | code runs under the identity of its caller except inside a delegated statement; after every return and every error the identity is that of the caller |
| Utility hook (`supautils_hook` in `src/supautils.c`) | the locals of each active call | one handler per kind of statement: early returns, switch, chained hook, change of owner, restore | the switch is taken and given back once, however statements nest and fail |
| Custom scripts (`src/extension_custom_scripts.c`) | `running_custom_script` | the three scripts of `CREATE EXTENSION` | scripts do not nest |
| Role statements (`src/supautils.c:328-606`) | the catalog of roles and memberships | ALTER, CREATE, DROP, RENAME ROLE, GRANT, REVOKE | reserved roles and memberships stay as they are; a privileged role gets only what is delegated |
| Event triggers (`src/event_triggers.c`, `supautils_fmgr_hook`) | none of its own; reads the identity | decides to run or skip a function | nobody's trigger runs as a more powerful role |
| JSON settings (`policy_grants.c`, `drop_trigger_grants.c`, `extensions_parameter_overrides.c`, `constrained_extensions.c`) | the parse state, the arrays of entries | the token handlers | a document of the documented shape, and no other, is accepted and means what it says |
| Check and assign hooks (`src/supautils.c:1125-1344`) | the arrays in use in each backend | check, assign | what a backend acts on is the value in force |
| Policy and trigger grants at run time (`policy_grants.c:143`, `drop_trigger_grants.c:143`) | locks on the target and the tables of the setting, kept to the end of the transaction | `is_current_role_granted_table_policy` and its twin, the handlers that rest on them | the answer is right of the table the statement then runs on; nobody waits for ever |
| Extension options and constraints (`src/supautils.c:266-318`, `extensions_parameter_overrides.c:130`, `constrained_extensions.c:175`) | the list of options in the statement's tree, which outlives the execution | version restriction, resources, schema override | the options that run are the ones the settings allow, and no others change |
| Owner of delegated objects (`alter_owner`) | the `pg_authid` row of the caller | raise to superuser, change owner, lower again | the attribute is always taken back, the object is the caller's |
| Permission hints (`permission_hints.c`, `src/supautils.c:203-264`) | none; reads the ACLs | search for the missing privileges after an error | the hint names what PostgreSQL missed, and following it helps |
| Placeholders, list settings | none | tests on strings | not modelled |

The components meet in one place: the identity of the backend. The utility hook
changes it, the functions and scripts that run inside a statement come back
into the utility hook, the function manager hook reads it, and PostgreSQL
saves and restores it around functions and subtransactions without knowing of
supautils' static variables. The settings reach the hooks only through the
arrays that the check and assign hooks fill.

The hard behaviour is nesting and failure: a statement runs triggers,
functions, scripts and extension scripts that run statements; any of them may
raise an error, which a `PG_CATCH`, a subtransaction or nobody catches; the
static variables outlive the transaction. For settings it is the split between
a value that is checked and a value that is in force, with values that are
rejected halfway. Between sessions it is locks and the rows of `pg_authid`, which are
held to the end of a transaction that may mix several statements; within a session
it is a tree of a statement that the hook changes and PostgreSQL keeps.

## Modules

**`UtilityHook`** is one backend. `ident` is `GetUserIdAndSecContext`, `outerRole`
the role of `SET ROLE`, `prev` and `isSwitched` the static variables of
`utils.c`, `runningScript` the latch of the scripts. `stack` holds one frame per
active hook call (its `pc` is the point reached in the handler, `already` its
`already_switched_to_superuser`), per block (transaction, savepoint or exception
block) and per SECURITY DEFINER function. `raising` means that an error is on
its way; `UnwindStatement`, `UnwindDefiner` and `AbortBlock` take it down one
frame at a time. The handlers are grouped by their order of calls in
`StmtKinds`; which statement of a group it is does not matter to the identity.
`Fail` is every `ereport` that can be reached at a point; `SwitchFails` the one
inside `switch_to_superuser`. `switchLost` and `latchLost` record that an error
left a handler past the only `PG_CATCH`, so that the invariants can say exactly
what is still true afterwards. Query cancellation is `Fail` too, at the points
where the code checks for interrupts.

**`Impersonation`** is the promise, with no static variables and no handlers: code runs
as its caller, as the owner of the function it is in, or, once and in a
restricted context, as the superuser; each return and each caught error puts
the caller's identity back. `KeepsPromise` states that `UtilityHook` implements
it, with `who` the identity (`Who`, or nobody while an error is on its way) and
`callers` the entry identities on the stack (`Callers`).

**`EventTriggers`** extends `UtilityHook` with the firing of functions in the
statement on top, the decision of `supautils_fmgr_hook`, and the call it leads to.

**`RoleStatements`** has the catalog (`roles`, `members`) and one action per
statement: what the hook rejects, what it runs as superuser (the privileged
branch) and what is left to PostgreSQL's rules for `CREATEROLE`. `change` records
what the last statement did: the roles it altered, and of the memberships of reserved roles and
in reserved memberships (`Watched`) those it gave and those it took away, whichever list of the statement they
come from. `AlterGroup` is `ALTER GROUP ... ADD` and
`DROP USER`, which reaches the hook as `ALTER ROLE` with a list of members. It models builds for PostgreSQL
13 to 15. Superusers are not granted to anyone in it. `supautils.reserved_memberships` may list any
name: a predefined role, a reserved one, an ordinary role like `role_with_reserved_membership` of
`test/init.conf.in:9`, a role that does not exist.

**`JsonSettings`** has the documents (trees of arrays and objects), the tokens
`pg_parse_json` reads them as, the handlers of the parsers as operators on the parse
state, and the documents' reference meaning; **`SettingsParser`** is the parse of
one document, token by token, whole or cut off by a syntax error. `drop_trigger_grants.c` repeats `policy_grants.c`
line by line and is modelled by the same operators.

**`SettingsReload`** has both designs of hooks, and PostgreSQL's side: `ALTER
SYSTEM` and `pg_file_settings` check a value and put nothing in force, a reload takes
the settings in the order of the file and an error ends it there.
`drop_trigger_grants` has the design of `policy_grants`, `constrained_extensions`
that of `extensions_parameter_overrides`.

**`Transactions`** is what concurrent sessions meet in PostgreSQL (exclusive
locks on tables and on updated rows, kept to the end of the transaction; the
attribute `rolsuper` as committed and as a transaction has left it; the deadlock
detector). All of it is external. Two modules extend it: **`PolicyLocks`** has the
check of `policy_grants.c`, lock by lock, then the run of the statement as superuser or as the
caller, among renames, drops and creations of tables, and renames of schemas, which no lock on a table
keeps out (`moved` records that one took the target's name away after the check found it); **`OwnerChanges`** has `alter_owner`
between the creation of the object and the end of the handler, among administrators
who set the attribute. A waiting update fails when the transaction it waited for
commits ("tuple concurrently updated"), as `simple_heap_update` does. **`Sessions`**
composes them: each session runs transactions of both kinds of statements, and an
error, a cancellation or the deadlock detector may end them at any point.
`drop_trigger_grants.c` has the text of `policy_grants.c`, so a policy statement
stands for `DROP TRIGGER` too.

**`ExtensionOptions`** is one statement, CREATE or ALTER EXTENSION, whose tree is
kept (in a function or a prepared statement) and executed by several roles while the settings
and the machine change. `options` is the list in the tree: what the hook deletes
from it stays deleted, and the schema option it puts in is freed with the
execution (`place`). `Readings` are the outcomes of reading a freed option: it is
still there, or it is something PostgreSQL refuses. `Restrict`, `Constrain` and `Override` are applied in the
order of the handler, and an error in between leaves the tree as it is at that point. Whom
the statement runs as is in `UtilityHook`.

**`PermissionHints`** puts the search of `permission_hints.c` beside PostgreSQL's own test
(`Permitted`, after `ExecCheckOneRelPerms`), and adds a user who grants what
the hint says and tries again.

The operators marked "Faulty" are plausible mistakes in the definition that
follows them; `PROJECT.json` pairs each property with one that it refutes.

## Runs

| Run | Instance | Shows |
|---|---|---|
| `hook` | event triggers in a superuser's, the privileged role's and a reserved role's sessions, two owners with and without SECURITY DEFINER, depth 3 (560 thousand states) | the inductive invariant `DelegationInv` (`IInv` with `SwitchFound`), `SwitchOwnership`, `PrevIsCallers`, `IdentityDiscipline`, `DelegatedRunsAsSuperuser`, `ScriptLatch`; the step property `SessionRoleKept`; what functions run and as whom (`NoFunctionGainsSuperuser`, `SkippedWhenDelegated`, `DefinerSkippedForSession`); the refinement `KeepsPromise`; `SwitchEnds` |
| `role_statements` | eight names, two of which issue statements; reserved memberships that are a predefined role, a reserved one and a name nobody has yet, which can become an ordinary role; two memberships at a time (7.7 thousand states) | the inductive invariant `RInv`, `ReservedRolesKept`, `ReservedMembershipsKept`, `DelegationIsLimited` |
| `settings_parser` | every document of two fields a level, cut-off samples | `ParserTypeOK`: for documents with fewer fields than the array has slots, which nothing in the code makes sure of, no handler writes past it; `AcceptsTheGrammar`, `ReadsTheMeaning` |
| `settings_reload` | one backend, four values of one setting and three of the other | the inductive invariant `ReloadInv`, `OverridesMatchSetting`, `NoDanglingGrants`, `GrantsFollowLastCheck`, `RejectionIsConfined` |
| `sessions` | two sessions of one role that two entries of the setting grant two names, an entry of another role between them, two tables, three names, each in a schema of its own, one of which is renamed (108 thousand states) | the inductive invariant `SInv`; `DelegatedExactlyOnGrants`: at the moment a statement runs the answer is right of the table its name has, if its schema was not renamed since the check found it; `AttributeIsAdministrators`: only administrators make superusers that last; `OwnedByCreator`; `StatementEnds` |
| `extension_options` | three roles (superuser, `supautils.superuser`, user), every list of up to three options, five values of the overrides, sizes of four bits (557 thousand states) | the inductive invariant `ExtInv`, `VersionIsRestricted`, `OverrideDecidesSchema`, `NothingElseChanges`, `ConstraintsMet` |
| `permission_hints` | every set of twelve grants on two relations, queries on one and two of them, a role in `supautils.hint_roles` and one that is not (262 thousand states) | the inductive invariant `HintInv`, `HintWhenDenied`, `HintIsExact`, `HintsLeadToSuccess` |
| `hook_switch_lost`, `hook_latch_lost`, `hook_update`, `settings_leftover`, `extension_version_lost` | as above | counterexamples to what the tests and the README say; see Findings |

Bounds. Depth 3 holds a transaction, a delegated statement and something nested
in it. The proofs do not depend on the depth. Two memberships are what it takes to make a role
privileged through another one. Two fields a level are the fewest with which a handler
can take one entry for another, and documents nest one level deeper than any that
is accepted. Entries pile up to three tables (`MaxTables`). One backend is enough for
reloads: backends share only the file, which `EditFile` changes freely. Documents
have fewer fields than the arrays have slots (`InputsAssumption`, `ReloadAssumption`): what
happens beyond `MAX_POLICY_GRANTS` is outside the model, and the checks say nothing of it. Two sessions of one role
can wait for each other on tables, on the row of the role, and on one of each; a
third adds only longer cycles. `SchemaRenames` bounds the renames of schemas to the one that gives a
name that is not granted the place of one that is; the proof has them all. Lists of three options hold one that is given twice
and another; `MaxOptions` stops executions of a tree that holds five. Sizes wrap
at `SizeMax + 1`, sixteen here, like those of a `size_t`. Two columns tell a column, all columns and any
column apart. Deadlock is checked in
every run.

Fairness in `hook`. PostgreSQL propagates an error without delay, so `Unwind`
is weakly fair. Code that runs may call more code again and again, so
progress of the code at a given depth is a matter of getting to run again:
`Fairness` says that a frame that gets to run infinitely often advances (strong
fairness per depth). It assumes that the statements, functions and scripts of a
session terminate, and nothing of the choice between error and success.

Fairness in `sessions`. PostgreSQL's lock queues are served in order, so a statement that
waits for a lock that is free again and again takes it (strong fairness), or, should another session's
rename or drop take the name away first, ends with the error; a
client ends a transaction in which it can (strong fairness of `CommitTransaction`: the
errors of `EndByError` are not assumed); the deadlock detector runs. In
`permission_hints` the user keeps trying (weak fairness of `Next`).

## Findings

- `hook_switch_lost`: `switch_to_superuser` (`src/utils.c:22`) raises the flag, but only
  errors inside the chained hook lower it. After an error in a custom script,
  in `override_ext_options`, in `alter_owner` or in the lookup of the superuser itself, the
  flag stays up, and later delegated statements of the session run as the caller.
- `hook_latch_lost`: after an error in a custom script `running_custom_script`
  stays up, and the session skips all scripts silently.
- `hook_update`: `ALTER EXTENSION` runs the chained hook as superuser, restores the role,
  breaks, and runs it a second time as the caller (`src/supautils.c:684`, `1122`).
- `settings_leftover`: after `policy_grants` was given a value that is rejected behind
  a complete entry, the tables of that entry remain, and the next accepted value
  adds to them (`src/supautils.c:1184-1199`).
- `extension_version_lost`: with `supautils.restrict_extension_versions` at `warn`, the version is deleted from
  the statement's own tree (`src/supautils.c:314`, `614`, `665`). When the tree is a cached one, a
  superuser or `supautils.superuser` who executes it later does not get the version they
  asked for, though the README exempts them.

Three gaps have no run of their own, because a property that passes names them as its exceptions;
without the exception TLC finds each of them within a few steps:

- `ReservedRolesKept`: GRANT to a reserved role is checked, but `ALTER GROUP g ADD USER reserved`
  (`src/supautils.c:369`) and `CREATE ROLE g ROLE reserved` (`489`) are not asked about their members.
  `test/sql/reserved_roles.sql:54` says that memberships cannot be granted to reserved roles.
- `ReservedMembershipsKept`: `ALTER GROUP` of a reserved membership that is an ordinary role, as
  the one in `test/init.conf.in:9`, adds members; `test/sql/reserved_memberships.sql:5` says that
  reserved memberships cannot be granted. A group that is renamed to a reserved name that is free brings its
  members along too (`src/supautils.c:599`).
- `DelegatedExactlyOnGrants`: the lock on the target (`src/policy_grants.c:148`) keeps renames and drops of the
  table out, but not `ALTER SCHEMA RENAME`. If the schema is renamed while the check waits, and the name has another table
  when the statement resolves it again, the statement runs as superuser on a table the setting does not give the role.

## Proofs

Each theorem holds for every value of the constants that satisfies the named assumptions of its
module. The proofs have one lemma per action (or per group of actions with the same effect), then
the inductive invariant, then the theorems. What is listed as a property of a run above and as a theorem here is
the same definition.

`UtilityHook_proofs` proves, from `RolesAssumption` and `DepthAssumption` only,
that `IInv` is inductive. `SwitchOwnership` and `IdentityDiscipline` are not
inductive alone: to know what a `Release` restores one needs that `prev` is what the
caller of the holder would resume with (`PrevIsCallers`), and to keep that one needs that
`SET ROLE` cannot take effect meanwhile, which follows from restrictions only
accumulating on the way into the stack (`Nesting`), and that an abort brings back
a role that is still the session's (`SavedRoles`). `WellFormed` ties kinds of frames to
their points. The proof has lemmas for what a push, a pop, a replacement of the top
frame and a `SET ROLE` do to the shape of the stack and to the holders, then one
lemma per action, then `NextIInv`. The theorems are `Invariance`, `TypeCorrect`,
`SwitchHasOneOwner`, `SavedIdentityIsCallers`, `IdentityIsDisciplined`,
`ScriptsNeverNest`, and for steps `SessionRoleIsKept`.

The second half of the module goes on from there. A handler that finds the flag up switches nothing and
counts on the switch being in force until it is done: `DelegatedRunsAsSuperuser` needs that the frame
that took the switch is still below (`SwitchFound`), which with `IInv` is inductive (`DelegationInv`,
theorems `DelegationInvariance` and `DelegatedRuns`). From the holder up to the delegated statement
the identity could change only at a SECURITY DEFINER function, a block or another statement; that it
does not is shown for the least frame of the stack where it would (`LeastNumber`). `PromiseKept` is the refinement:
the initial states map to initial states, and each action, under `Who` and `Callers`, to one action of
`Impersonation` or to a stutter. The interesting steps are the ones where the code restores what a static variable
holds and the promise what the caller had: `Release` and the `PG_CATCH` (by `PrevIsCallers`), and
`AbortBlock`, where PostgreSQL restores what it saved itself. One more assumption: `NoRoleAssumption`, nobody is
not an identity.

`EventTriggers_proofs` proves the three properties of the function manager hook. To the variables of `UtilityHook`
a firing function is a SECURITY DEFINER function that starts or nothing at all (`BehavesAsUtilityHook`), so what is proved
there holds here (`DelegatedRunsWithTriggers`). `DelegatedStatementsSkip` needs it: inside a delegated statement, and
inside one nested in it whose handler found the switch in force, the identity is the superuser's.

`RoleStatements_proofs` proves `RInv`, and from it `ReservedRolesStay`, `ReservedMembershipsStay` and
`DelegationStaysLimited`, for any reserved roles and any reserved memberships. `ReservedMembershipsKept` is not inductive
alone: a predefined group of the setting could be dropped and made again with members, were predefined roles not
there to stay (`PredefinedKept`). The two theorems on protected names say exactly how much the unchecked statements can do: a reserved role may join
a group through `ALTER GROUP` or `CREATE ROLE ... ROLE`, but no predefined or reserved one, and a reserved membership may get
members through `ALTER GROUP` or a rename if it is an ordinary role, and by no GRANT. The assumptions say
that superusers and predefined roles exist at the start and that no group or user the
statements name is a superuser (`NamesAssumption`), and that a parameter needs a superuser or does not (`ConfigsAssumption`).

`PermissionHints_proofs` proves `HintInv`. Its core is that two searches written apart agree: `has_column_perms` and
`get_missing_aclmode` find a privilege missing exactly when `Permitted`, PostgreSQL's own test, does, for any sets of
columns, and `find_missing_perm` stops at the relation PostgreSQL stopped at (the first denied one, by
`LeastNumber`). `QueriesAssumption` says what the executor guarantees of a query's permission
infos, `GrantableAssumption` that what is granted meanwhile are table privileges.

`ExtensionOptions_proofs` proves `ExtInv`. The loops of `restrict_version_specification` and
`override_ext_options` are folds in the model; `WithoutKeepsOthers` and `OverrideOptionsResult` say what they return
for every list and every setting, by induction over their steps: the loop over the entries keeps `OverriddenUpTo`, and
`OverrideStep` is one entry. `SizeIsMet` is about the sizes that are parsed as signed and compared as unsigned
numbers. `NothingElseChanges` needs that a tree that has not been executed is as it was written
(`FreshTree`). The assumptions say that values of the settings and statements are well formed, and that no machine has
more than half of a `size_t`'s bytes (`SizesAssumption`).

`Sessions_proofs` proves, from `SessionsAssumption` and `GrantsAssumption`
only, that `SInv` is inductive, for any number of sessions,
tables and names and any setting. Each of its parts is what another one needs:
`DelegatedExactlyOnGrants` follows from `TargetHeld` (from the moment the target is
locked the name stays its name, unless its schema is renamed, and a place of the setting that has been passed over had
another name) with `OneNameEach` (two names with one table would make the comparison
of oids say more than the names do). `AttributeIsAdministrators` needs `RowHeld` (between
`Raise` and the end of the transaction no one else writes the role's row, and the
draft is superuser only inside `alter_owner`) and `TakenBackIsRaced` (a role that had the
attribute past its own superuser() test got it in between). `OwnedByCreator` needs
`MadeInTurn`. There is one lemma per action, then `NextInv`, and the theorems
`Invariance`, `GrantsTheorem`, `AttributeTheorem`, `OwnershipTheorem`.

`InductionLemmas` has what the others use: the least and the greatest number of a set (`LeastNumber`, `MaxOfSome`), induction
over the numbers stated for sets (`SetInduction`; the library's theorem takes an operator, which the provers cannot
instantiate), that the function by which a fold is defined exists (`FoldExists`), and what is true of machines that
take one token after the other: `Run` is the state they come to, a run over two pieces is the run over the second from where the
first ended (`RunBoth`), a set of states that every token keeps is not left (`RunType`), and a fold of the community modules is such a
run (`FoldIsRun`).

`Settings_proofs` proves `AcceptsTheGrammar` and `ReadsTheMeaning` of any document that has room in the array, by
induction over the parts of each level. The tokens of a value are its own and those of its parts in between
(`RunOverObject`, `GrantsItems`). A part that is as the setting wants it takes the machine from a state in which nothing is
wrong (`Fine`) to the next one, with a known change to the entries; any other part ends in `Stuck`, where an error is noted and from which
no token leads away, or already its first token decides. From a list of parts (`RunOverPieces`), each level says so of
the next: `GrantsField` and `GrantsDocument`, `OverridesParam`, `OverridesField` and `OverridesDocument`, `ConstraintsLimit`,
`ConstraintsField` and `ConstraintsDocument`. `GrantsMeaning`, `OverridesMeaning` and `ConstraintsMeaning` read the
README's meaning off the entries; the last of several values of a field is found by `LastIsGiven`. The inductive
invariant of the parse is `ParserInv`: the tokens that are left lead from the present state to the state that the whole input leads to.
It speaks of `Run`, which TLC cannot evaluate. `ParserTypeOK` follows, because the index never falls and ends at no more than
the number of fields. The theorems are `ParserTypes`, `ParsersAcceptTheGrammar` and `ParsersReadTheMeaning`.

For the hooks the module proves that `ReloadInv` is inductive (`Invariance`): each array in use is what its hook makes of a value.
`OverridesMatchSetting` is a part of it. For `policy_grants` what the array holds depends on the
value checked last (`HasGrants`), and, as long as no check failed, also on there being no table left past the entries in use (`NothingLeft`
in `Clean`), which is what a rejected value breaks and `settings_leftover` shows. `CheckHookKept` is the check hook in any
action, `ReloadKept` the reload, which may end after either setting. The theorems are `OverridesMatch`,
`GrantsNeverDangle`, `GrantsFollowChecks` and `RejectionsAreConfined`. The assumptions: `TextsAssumption`, texts of documents are neither
the absent value nor a freed pointer; `InputsAssumption` and `ReloadAssumption`, documents have room in the arrays, which
the code does not test, and nest at most one level deeper than any that is accepted (`Documents`).

Only model-checked, or only proved:

- `SwitchEnds`, `StatementEnds` and `HintsLeadToSuccess`: liveness is out of the provers' reach.
- `ParserInv` only has a proof: `Run` is not a formula that TLC can evaluate. What it implies is checked.
- Documents that nest deeper than `Documents` are in neither: the handlers have noted an error before they reach that depth, but
  the tokens of a tree of any depth would be a recursive definition.
- The findings: a run that ends in a counterexample has no theorem.

## Not modelled

- ALTER ROLE ALL SET: it has no role, and `get_rolespec_name` (`src/supautils.c:396`) reads a null
  pointer, an outcome without a model. The PostgreSQL 16 branch of CREATE ROLE, because
  what CREATEROLE may do there rests on admin options that `RoleStatements` does not keep.
- Who may run an extension statement as superuser (`privileged_extensions.c`), which parameters of
  SET and which objects of COMMENT are delegated: choices at the start of a
  statement in `UtilityHook`. They test one name against one list and keep no state.
- The placeholder and list settings: tests on one string.
- Search paths: `PolicyLocks` has qualified names, each in a schema of its own. The hook looks an unqualified name up
  with the caller's search path and the statement again as the superuser; `$user`, a schema the caller may not use, a
  table that another session creates in an earlier schema of the path in between, or a schema that is renamed, make it another table.
- `supautils.hint_roles` is one value for a whole behaviour; a reload between the error and the next try is left out.
- Hints through views: the README knows of the limitation; `HintIsExact` and
  `HintsLeadToSuccess` leave relations out that are checked for a view's owner.
- `DROP POLICY IF EXISTS` on a missing table fails in the check; `StatementError` has it, and
  nothing in the repository says what should happen.
- Blocks reserved for the administrator, which `f_bfree` counts as free.
- Contents of scripts, log and error texts, tests, benchmarks, packaging.

## Plan

Every safety property that a run checks has a theorem. What is left is to model more: the admin options of PostgreSQL 16 in
`RoleStatements`, and search paths in `PolicyLocks`.
