--------------------------- MODULE SettingsReload ---------------------------
(***************************************************************************)
(* How the JSON settings of supautils.c reach the backends.  PostgreSQL    *)
(* calls a setting's check hook with a proposed value, and its assign hook *)
(* when the value is put in force; a check alone (ALTER SYSTEM, the view   *)
(* pg_file_settings) puts nothing in force.  A server reload takes every   *)
(* setting of the configuration file in its order, in each backend.        *)
(*                                                                         *)
(* The hooks come in two designs, one of each is modelled:                 *)
(*   extensions_parameter_overrides (constrained_extensions is the same):  *)
(*     the check hook parses into an array of its own, the assign hook     *)
(*     clears the array in use and parses into it;                         *)
(*   policy_grants (drop_trigger_grants is the same): the check hook does  *)
(*     both on the array in use, and there is no assign hook.              *)
(* All of them ereport(ERROR) on a value they reject.                      *)
(***************************************************************************)
EXTENDS JsonSettings

CONSTANTS Backends,     \* the server processes
          GrantDocs,    \* the values of policy_grants that are tried
          OverrideDocs, \* those of extensions_parameter_overrides
          MaxTables     \* bound on the tables an entry piles up

ASSUME ReloadAssumption ==
  /\ Backends # {}
  /\ GrantDocs \cup OverrideDocs \subseteq Documents \ {Unset}
  /\ \A doc \in GrantDocs \cup OverrideDocs : 0..Len(doc.parts) \subseteq Slots
  /\ MaxTables \in Nat

VARIABLES
  file,        \* the values in the configuration file
  grantsFirst, \* policy_grants comes first in the file
  value,       \* value[b]: the settings in force in backend b
  pgs,         \* pgs[b]: policy_grants pgs[] and total_pgs
  epos,        \* epos[b]: epos[] and total_epos
  checked,     \* history: the value of policy_grants last checked in b
  rejected,    \* history: a check of policy_grants failed in b
  loaded       \* history: nothing was checked in b since its last full reload

vars == <<file, grantsFirst, value, pgs, epos, checked, rejected, loaded>>

-----------------------------------------------------------------------------

\* Faulty: the tables of a freed entry are still counted.
FreeGrantsKeepsTables(array) ==
  [i \in Slots |-> IF i < array.total
                     THEN GrantsEntry(Freed, array.entries[i].tables)
                     ELSE array.entries[i]]

\* The loop at the head of the check hook; entries past the total are not
\* looked at.
FreeGrants(array) ==
  [i \in Slots |-> IF i < array.total THEN GrantsEntry(Freed, <<>>)
                                      ELSE array.entries[i]]

\* Faulty variants: the total is lowered only by a parse that succeeds; a parse
\* that fails takes back one entry.
PolicyGrantsCheckHookKeepsTotal(array, doc) ==
  LET p == ParsePolicyGrants(doc, FreeGrants(array))
  IN  IF doc = Unset THEN [entries |-> FreeGrants(array), total |-> 0, ok |-> TRUE]
      ELSE IF p.error THEN [entries |-> p.entries, total |-> array.total, ok |-> FALSE]
      ELSE [entries |-> p.entries, total |-> p.total, ok |-> TRUE]

PolicyGrantsCheckHookTakesBack(array, doc) ==
  LET p == ParsePolicyGrants(doc, FreeGrants(array))
  IN  IF doc = Unset THEN [entries |-> FreeGrants(array), total |-> 0, ok |-> TRUE]
      ELSE IF p.error THEN [entries |-> p.entries, total |-> p.total - 1, ok |-> FALSE]
      ELSE [entries |-> p.entries, total |-> p.total, ok |-> TRUE]

\* policy_grants_check_hook: the array it leaves, and whether it returns.
PolicyGrantsCheckHook(array, doc) ==
  LET p == ParsePolicyGrants(doc, FreeGrants(array))
  IN  IF doc = Unset THEN [entries |-> FreeGrants(array), total |-> 0, ok |-> TRUE]
      ELSE IF p.error THEN [entries |-> p.entries, total |-> 0, ok |-> FALSE]
      ELSE [entries |-> p.entries, total |-> p.total, ok |-> TRUE]

\* extensions_parameter_overrides_check_hook, on an array of its own.
OverridesCheckHook(doc) ==
  IF doc = Unset THEN TRUE ELSE ~ParseParameterOverrides(doc, NoOverrides).error

\* Faulty: the array is not cleared before the parse.
OverridesAssignHookUncleared(array, doc) ==
  LET p == ParseParameterOverrides(doc, array.entries)
  IN  IF doc = Unset THEN array ELSE [entries |-> p.entries, total |-> p.total]

\* extensions_parameter_overrides_assign_hook
OverridesAssignHook(array, doc) ==
  LET p == ParseParameterOverrides(doc, NoOverrides)
  IN  IF doc = Unset THEN [entries |-> NoOverrides, total |-> 0]
                     ELSE [entries |-> p.entries, total |-> p.total]

-----------------------------------------------------------------------------
(* PostgreSQL's side *)

Init ==
  /\ file = [grants |-> Unset, overrides |-> Unset]
  /\ grantsFirst \in BOOLEAN
  /\ value = [b \in Backends |-> file]
  /\ pgs = [b \in Backends |-> [entries |-> NoGrants, total |-> 0]]
  /\ epos = [b \in Backends |-> [entries |-> NoOverrides, total |-> 0]]
  /\ checked = [b \in Backends |-> Unset]
  /\ rejected = [b \in Backends |-> FALSE]
  /\ loaded = [b \in Backends |-> TRUE]

\* The check hook of policy_grants runs in b on doc.
CheckGrants(b, doc) ==
  LET result == PolicyGrantsCheckHook(pgs[b], doc)
  IN  /\ \A i \in Slots : Len(result.entries[i].tables) <= MaxTables
      /\ pgs' = [pgs EXCEPT ![b] = [entries |-> result.entries,
                                    total   |-> result.total]]
      /\ checked' = [checked EXCEPT ![b] = doc]
      /\ rejected' = [rejected EXCEPT ![b] = @ \/ ~result.ok]

Accepts(b, doc) == PolicyGrantsCheckHook(pgs[b], doc).ok

\* ALTER SYSTEM SET supautils.policy_grants: the file is written if the check
\* hook returns, and nothing is put in force.
AlterSystemGrants(b, doc) ==
  /\ CheckGrants(b, doc)
  /\ file' = IF Accepts(b, doc) THEN [file EXCEPT !.grants = doc] ELSE file
  /\ loaded' = [loaded EXCEPT ![b] = FALSE]
  /\ UNCHANGED <<grantsFirst, value, epos>>

AlterSystemOverrides(b, doc) ==
  /\ OverridesCheckHook(doc)
  /\ file' = [file EXCEPT !.overrides = doc]
  /\ UNCHANGED <<grantsFirst, value, pgs, epos, checked, rejected, loaded>>

\* The file is edited by hand, or by ALTER SYSTEM RESET: nothing is checked.
EditFile(setting, doc) ==
  /\ file' = [file EXCEPT ![setting] = doc]
  /\ UNCHANGED <<grantsFirst, value, pgs, epos, checked, rejected, loaded>>

\* A setting that left the file is reset before the others are taken, and one
\* that was in force in no version is not looked at.
GrantsReached ==
  (file.grants # Unset /\ ~grantsFirst) => OverridesCheckHook(file.overrides)

OverridesReached(b) ==
  (file.overrides # Unset /\ grantsFirst) => Accepts(b, file.grants)

\* ProcessConfigFile after a SIGHUP: an error in a check hook ends it there.
Reload(b) ==
  /\ IF GrantsReached /\ (file.grants # Unset \/ value[b].grants # Unset)
       THEN CheckGrants(b, file.grants)
       ELSE UNCHANGED <<pgs, checked, rejected>>
  /\ LET grants == IF GrantsReached /\ Accepts(b, file.grants)
                     THEN file.grants ELSE value[b].grants
         assign == OverridesReached(b) /\ OverridesCheckHook(file.overrides)
     IN  /\ value' = [value EXCEPT ![b] =
                        [grants    |-> grants,
                         overrides |-> IF assign THEN file.overrides ELSE @.overrides]]
         /\ epos' = [epos EXCEPT ![b] =
                       IF assign THEN OverridesAssignHook(@, file.overrides) ELSE @]
  /\ loaded' = [loaded EXCEPT ![b] = value'[b] = file]
  /\ UNCHANGED <<file, grantsFirst>>

\* SELECT ... FROM pg_file_settings: the values in the file are checked only.
ViewFileSettings(b) ==
  /\ file.grants # Unset /\ GrantsReached
  /\ CheckGrants(b, file.grants)
  /\ loaded' = [loaded EXCEPT ![b] = FALSE]
  /\ UNCHANGED <<file, grantsFirst, value, epos>>

Next ==
  \/ \E b \in Backends, doc \in GrantDocs : AlterSystemGrants(b, doc)
  \/ \E b \in Backends, doc \in OverrideDocs : AlterSystemOverrides(b, doc)
  \/ \E doc \in GrantDocs \cup {Unset} : EditFile("grants", doc)
  \/ \E doc \in OverrideDocs \cup {Unset} : EditFile("overrides", doc)
  \/ \E b \in Backends : Reload(b) \/ ViewFileSettings(b)

Spec == Init /\ [][Next]_vars

-----------------------------------------------------------------------------
(* Properties *)

Overrides(b) == Counted(epos[b].entries, epos[b].total)

Grants(b) == GrantsOf(pgs[b].entries, pgs[b].total)

Meant(doc) == IF doc = Unset THEN {} ELSE GrantsMeant(doc)

\* The array of a setting and the number of entries in use.
Array(E) == [entries : [Slots -> E], total : Slots]

\* The entries in use are those of the value.
HasOverrides(array, doc) ==
  Counted(array.entries, array.total) = IF doc = Unset THEN <<>> ELSE OverridesMeant(doc)

\* The entries in use are what is left of the value checked last: nothing, or
\* roles with at least the tables the value gives them.
HasGrants(array, doc) ==
  IF doc = Unset \/ ~WellFormedGrants(doc)
    THEN array.total = 0
    ELSE /\ GrantsMeant(doc) \subseteq GrantsOf(array.entries, array.total)
         /\ \A grant \in GrantsOf(array.entries, array.total) :
              \E i \in DOMAIN doc.parts : doc.parts[i].name = grant[1]
         /\ \A i \in 0..array.total - 1 : array.entries[i].role \in Texts

\* No table is left over past the entries in use.
NothingLeft(array) == \A i \in Slots : i >= array.total => array.entries[i].tables = <<>>

Clean(array, doc) ==
  GrantsOf(array.entries, array.total) = Meant(doc) /\ NothingLeft(array)

Values == [grants : GrantDocs \cup {Unset}, overrides : OverrideDocs \cup {Unset}]

\* The types, and what the check hook of policy_grants keeps true of every backend.
GrantsInv ==
  /\ pgs \in [Backends -> Array(GrantsEntries)]
  /\ checked \in [Backends -> GrantDocs \cup {Unset}]
  /\ rejected \in [Backends -> BOOLEAN]
  /\ \A b \in Backends :
       /\ \A i \in Slots : Len(pgs[b].entries[i].tables) <= MaxTables
       /\ HasGrants(pgs[b], checked[b])
       /\ ~rejected[b] => Clean(pgs[b], checked[b])

\* The same for the assign hook of extensions_parameter_overrides.
OverridesInv ==
  /\ file \in Values
  /\ value \in [Backends -> Values]
  /\ epos \in [Backends -> Array(OverridesEntries)]
  /\ loaded \in [Backends -> BOOLEAN]
  /\ \A b \in Backends : HasOverrides(epos[b], value[b].overrides)

\* The inductive invariant: what the arrays in use hold, of the value checked last
\* and of the value in force.
ReloadInv == GrantsInv /\ OverridesInv

\* The entries CREATE EXTENSION uses are those of the value in force in the
\* backend, whatever else was checked, rejected or left in the file, and however
\* far a reload went.
OverridesMatchSetting ==
  \A b \in Backends :
    Overrides(b) = IF value[b].overrides = Unset THEN <<>>
                                                 ELSE OverridesMeant(value[b].overrides)

\* The counted entries hold no pointer that a check hook has freed.
NoDanglingGrants ==
  \A b \in Backends : \A i \in 0..pgs[b].total - 1 :
    pgs[b].entries[i].role \notin {Freed, Unset}

\* What a backend acts on is the value it checked last, in force or not, as
\* long as every value it checked was accepted.
GrantsFollowLastCheck ==
  \A b \in Backends : ~rejected[b] => Grants(b) = Meant(checked[b])

\* After a rejection nobody has a grant; after the next value that is accepted
\* each role it names has at least the grants it gives, and no other role any.
RejectionIsConfined ==
  \A b \in Backends :
    LET doc == checked[b] IN
    IF doc # Unset /\ ~WellFormedGrants(doc)
      THEN Grants(b) = {}
      ELSE /\ Meant(doc) \subseteq Grants(b)
           /\ \A grant \in Grants(b) : \E i \in DOMAIN doc.parts : doc.parts[i].name = grant[1]

\* README, Manage Policies: the setting allows the roles it names to manage
\* policies for the tables it names.  After a reload that went through, those
\* are the grants of the backend.
GrantsMatchAfterReload ==
  \A b \in Backends : loaded[b] => Grants(b) = Meant(value[b].grants)

=============================================================================
