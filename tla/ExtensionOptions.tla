-------------------------- MODULE ExtensionOptions --------------------------
(***************************************************************************)
(* CREATE and ALTER EXTENSION in supautils_hook: what the settings make of *)
(* the options of the statement, and what the hook leaves in its tree.     *)
(* Whom the statement runs as is in UtilityHook.                           *)
(*                                                                         *)
(* The tree is that of a statement in a function or a prepared statement:  *)
(* PostgreSQL keeps it for the session and hands it to the hook at every   *)
(* execution, to be read only.  The hook edits its list of options in      *)
(* place, and puts an option in it that lives no longer than the execution.*)
(***************************************************************************)
EXTENDS Integers, Sequences, SequencesExt

CONSTANTS
  Users,              \* the roles that execute statements
  Superusers,
  SupautilsSuperuser, \* supautils.superuser
  Statements,         \* statements: [kind, name, options]
  Overrides,          \* values of extensions_parameter_overrides
  Constraints,        \* values of constrained_extensions
  Machines,           \* resources of the machine: [cpu, mem, disk]
  Values,             \* the versions, names of schemas and flags in options
  Unset,              \* NULL
  SizeMax,            \* the greatest size_t, 2^64 - 1
  MaxOptions          \* bound on the options a tree holds

ASSUME ExtensionsAssumption ==
  /\ Superusers \subseteq Users
  /\ SizeMax \in Nat /\ SizeMax % 2 = 1
  /\ MaxOptions \in Nat
  /\ Unset \notin Values

VARIABLES
  mode,        \* supautils.restrict_extension_versions
  epos,        \* supautils.extensions_parameter_overrides, a sequence of [name, schema]
  cexts,       \* supautils.constrained_extensions, a sequence of [name, cpu, mem, disk]
  machine,
  source,      \* the statement as it was written
  options,     \* the list of options in its tree
  fresh,       \* the tree has not been executed yet
  last         \* history: what the last step ran

vars == <<mode, epos, cexts, machine, source, options, fresh, last>>

Modes == {"off", "warn", "error"}

\* Where the node of an option is: in the tree, in the memory of the execution,
\* or in memory that was freed while the list still points to it.
Places == {"tree", "execution", "freed"}

OptionNames == {"new_version", "schema", "cascade", "garbage"}

Option(name, value) == [name |-> name, value |-> value, place |-> "tree"]

MadeHere(name, value) == [Option(name, value) EXCEPT !.place = "execution"]

Garbage(option) == [option EXCEPT !.name = "garbage"]

Options == [name : OptionNames, value : Values, place : Places]

ASSUME StatementsAssumption ==
  \A statement \in Statements :
    /\ statement.options \in Seq({option \in Options : option.place = "tree"})
    /\ Len(statement.options) <= MaxOptions

ASSUME OverridesAssumption ==
  \A setting \in Overrides :
    /\ setting \in Seq(Range(setting))
    /\ \A i \in DOMAIN setting : setting[i].schema \in Values \cup {Unset}

\* pg_size_bytes returns an int64, and no machine has half of the size_t's bytes.
ASSUME SizesAssumption ==
  /\ \A m \in Machines :
       /\ m.cpu \in Nat
       /\ {m.mem, m.disk} \subseteq 0..SizeMax \div 2
  /\ \A setting \in Constraints : \A i \in DOMAIN setting :
       /\ setting[i].cpu \in Int
       /\ {setting[i].mem, setting[i].disk} \subseteq -(SizeMax \div 2) - 1..SizeMax \div 2

NoRun == [user |-> Unset, result |-> "none", options |-> <<>>, fresh |-> FALSE]

-----------------------------------------------------------------------------
(* The functions the handlers call: a result is the error, if any, and the *)
(* list of options                                                         *)

Ok(list) == [error |-> "none", options |-> list]

Error(message, list) == [error |-> message, options |-> list]

Given(list, name) == \E i \in DOMAIN list : list[i].name = name

GivenTwice(list, name) ==
  \E i, j \in DOMAIN list : i # j /\ list[i].name = name /\ list[j].name = name

Without(list, name) ==
  FoldLeft(LAMBDA kept, option :
             IF option.name = name THEN kept ELSE Append(kept, option), <<>>, list)

IsSuper(user) == user \in Superusers

Exempt(user) == IsSuper(user) \/ user = SupautilsSuperuser

\* Faulty: only the first version in the list is looked at.
RestrictFirstVersion(user, list) ==
  LET first == CHOOSE i \in DOMAIN list : list[i].name = "new_version" IN
  IF mode = "off" \/ Exempt(user) \/ ~Given(list, "new_version") THEN Ok(list)
  ELSE IF mode = "error" THEN Error("version", list)
  ELSE Ok(RemoveAt(list, first))

\* restrict_version_specification
RestrictVersion(user, list) ==
  IF mode = "off" \/ Exempt(user) \/ ~Given(list, "new_version") THEN Ok(list)
  ELSE IF mode = "error" THEN Error("version", list)
  ELSE Ok(Without(list, "new_version"))

\* A size in bytes, from pg_size_bytes, in an unsigned variable.
AsSize(n) == n % (SizeMax + 1)

\* Faulty: sizes are compared as signed numbers.
ExceedsSigned(cext) ==
  \/ cext.cpu # 0 /\ cext.cpu > machine.cpu
  \/ cext.mem # 0 /\ cext.mem > machine.mem
  \/ cext.disk # 0 /\ cext.disk > machine.disk

\* constrain_extension, the tests on one entry of the setting.
Exceeds(cext) ==
  \/ cext.cpu # 0 /\ cext.cpu > machine.cpu
  \/ cext.mem # 0 /\ AsSize(cext.mem) > machine.mem
  \/ cext.disk # 0 /\ AsSize(cext.disk) > machine.disk

ConstrainExtension(name, list) ==
  IF \E i \in DOMAIN cexts : cexts[i].name = name /\ Exceeds(cexts[i])
    THEN Error("resources", list)
    ELSE Ok(list)

\* Faulty: the schema of the user is kept, or the other options are not.
OverrideIfNone(schema, list) ==
  IF Given(list, "schema") THEN list ELSE Append(list, MadeHere("schema", schema))

OverrideReplacesAll(schema, list) == <<MadeHere("schema", schema)>>

\* lappend(list_delete_ptr(options, schema_option), schema_override_option)
OverrideSchema(schema, list) ==
  Append(Without(list, "schema"), MadeHere("schema", schema))

\* Faulty: an entry without a schema overrides it too.
ApplyOverrideAlways(name, result, epo) ==
  IF epo.name # name \/ result.error # "none" THEN result
  ELSE IF GivenTwice(result.options, "schema") THEN Error("conflict", result.options)
  ELSE Ok(OverrideSchema(epo.schema, result.options))

\* override_ext_options for EXT_CREATE, one entry of the setting.
ApplyOverride(name, result, epo) ==
  IF epo.name # name \/ result.error # "none" THEN result
  ELSE IF GivenTwice(result.options, "schema") THEN Error("conflict", result.options)
  ELSE IF epo.schema = Unset THEN result
  ELSE Ok(OverrideSchema(epo.schema, result.options))

OverrideOptions(name, list) ==
  FoldLeft(LAMBDA result, epo : ApplyOverride(name, result, epo), Ok(list), epos)

-----------------------------------------------------------------------------

\* Reading a freed option is undefined: it is still there, or something else
\* is.  (A crash is Forget.)
Readings ==
  {[i \in DOMAIN options |-> IF i \in lost THEN Garbage(options[i]) ELSE options[i]] :
     lost \in SUBSET {i \in DOMAIN options : options[i].place = "freed"}}

\* PostgreSQL refuses options it does not know and options given twice.
Acceptable(list) ==
  /\ \A i \in DOMAIN list : list[i].name # "garbage"
  /\ \A i, j \in DOMAIN list : list[i].name = list[j].name => i = j

\* The hook is done with the statement: what ran, and what it leaves in the
\* tree, where the options it made are freed.
Finish(user, outcome) ==
  /\ last' = [user |-> user, options |-> outcome.options, fresh |-> fresh,
              result |-> IF outcome.error # "none" THEN outcome.error
                         ELSE IF Acceptable(outcome.options) THEN "ran" ELSE "refused"]
  /\ options' = [i \in DOMAIN outcome.options |->
                   IF outcome.options[i].place = "execution"
                     THEN [outcome.options[i] EXCEPT !.place = "freed"]
                     ELSE outcome.options[i]]
  /\ fresh' = FALSE
  /\ UNCHANGED <<mode, epos, cexts, machine, source>>

Then(result, next) == IF result.error = "none" THEN next ELSE result

\* What the handler of CREATE EXTENSION makes of the options.
CreateOptions(user, list) ==
  LET restricted  == RestrictVersion(user, list)
      constrained == Then(restricted, ConstrainExtension(source.name, restricted.options))
  IN  Then(constrained, OverrideOptions(source.name, constrained.options))

\* The hook breaks for superusers.  The override of EXT_ALTER changes nothing.
AlterOptions(user, list) == IF IsSuper(user) THEN Ok(list) ELSE RestrictVersion(user, list)

CreateExtension(user, list) ==
  /\ source.kind = "create"
  /\ Finish(user, CreateOptions(user, list))

\* The chained hook runs with the options once as the superuser, if the
\* extension is privileged, and then always as the caller.
AlterExtension(user, list) ==
  /\ source.kind = "alter"
  /\ Finish(user, AlterOptions(user, list))

Execute(user) ==
  /\ Len(options) < MaxOptions
  /\ \E list \in Readings : CreateExtension(user, list) \/ AlterExtension(user, list)

\* The function or prepared statement is parsed again, in this or, after a
\* crash or a disconnection, in another session.
Forget ==
  /\ options' = source.options
  /\ fresh' = TRUE
  /\ last' = NoRun
  /\ UNCHANGED <<mode, epos, cexts, machine, source>>

\* A reload, and the disk filling up or an upgrade of the machine.
Reconfigure ==
  /\ mode' \in Modes
  /\ epos' \in Overrides
  /\ last' = NoRun
  /\ UNCHANGED <<cexts, machine, source, options, fresh>>

ChangeMachine ==
  /\ machine' \in Machines
  /\ last' = NoRun
  /\ UNCHANGED <<mode, epos, cexts, source, options, fresh>>

Init ==
  /\ mode \in Modes
  /\ epos \in Overrides
  /\ cexts \in Constraints
  /\ machine \in Machines
  /\ source \in Statements
  /\ options = source.options
  /\ fresh = TRUE
  /\ last = NoRun

Next ==
  \/ \E user \in Users : Execute(user)
  \/ Forget
  \/ Reconfigure
  \/ ChangeMachine

Spec == Init /\ [][Next]_vars

-----------------------------------------------------------------------------

TypeOK ==
  /\ mode \in Modes
  /\ epos \in Overrides /\ cexts \in Constraints
  /\ machine \in Machines
  /\ source \in Statements
  /\ options \in Seq(Options) /\ last.options \in Seq(Options)
  /\ Len(options) <= MaxOptions

Ran == last.result = "ran"

\* While the restriction is on, no execution by a role that is not exempt runs
\* with a version, however often the option is given and whatever the tree has
\* been through.
VersionIsRestricted ==
  Ran /\ mode # "off" /\ ~Exempt(last.user) => ~Given(last.options, "new_version")

\* The entries of the setting that have a schema for the extension of the statement.
Overriding == {i \in DOMAIN epos : epos[i].name = source.name /\ epos[i].schema # Unset}

ValuesGiven(list, name) == {list[i].value : i \in {i \in DOMAIN list : list[i].name = name}}

\* A schema in the setting, the last if there are several, is the one that
\* CREATE EXTENSION runs with, also when the tree still holds the option of an
\* earlier execution.
OverrideDecidesSchema ==
  Ran /\ source.kind = "create" /\ Overriding # {}
    => ValuesGiven(last.options, "schema") = {epos[Max(Overriding)].schema}

\* The first execution runs with the options that were written, except the
\* version of a role that is not exempt and the schema that is overridden.
NothingElseChanges ==
  Ran /\ last.fresh =>
    \A i \in DOMAIN source.options :
      \/ \E j \in DOMAIN last.options : last.options[j] = source.options[i]
      \/ source.options[i].name = "new_version" /\ mode = "warn" /\ ~Exempt(last.user)
      \/ source.options[i].name = "schema" /\ Overriding # {}

\* An extension is created only on a machine that has what the entries of the
\* setting demand, as the numbers they stand for: zero demands nothing, and no
\* machine has a negative size.
ConstraintsMet ==
  Ran /\ source.kind = "create" =>
    \A i \in DOMAIN cexts : cexts[i].name = source.name =>
      /\ cexts[i].cpu <= machine.cpu \/ cexts[i].cpu = 0
      /\ cexts[i].mem \in 0..machine.mem
      /\ cexts[i].disk \in 0..machine.disk

(* The inductive invariant *)

\* A tree that has not been executed is as it was written.
FreshTree == fresh => options = source.options

ExtInv ==
  /\ TypeOK
  /\ FreshTree
  /\ VersionIsRestricted
  /\ OverrideDecidesSchema
  /\ NothingElseChanges
  /\ ConstraintsMet

-----------------------------------------------------------------------------
(* What the README says *)

\* Restrict Extension Versions: superusers and supautils.superuser are exempt.
ExemptKeepVersion ==
  Ran /\ Exempt(last.user)
    => ValuesGiven(last.options, "new_version") = ValuesGiven(source.options, "new_version")

=============================================================================
