------------------------ MODULE MCExtensionOptions ------------------------
(***************************************************************************)
(* An extension, settings for it and for another one, and every list of up *)
(* to three of the options of CREATE EXTENSION.                            *)
(***************************************************************************)
EXTENDS ExtensionOptions

MCOptions == {Option("new_version", "1.0"), Option("schema", "s1"), Option("cascade", "true")}

MCValues == {"1.0", "s1", "s2", "s3", "true"}

Statement(kind, list) == [kind |-> kind, name |-> "ext", options |-> list]

MCStatements ==
  {Statement("create", list) : list \in BoundedSeq(MCOptions, 3)}
  \cup {Statement("alter", list) : list \in BoundedSeq({Option("new_version", "1.0")}, 2)}

Override(name, schema) == [name |-> name, schema |-> schema]

MCOverrides ==
  {<<>>, <<Override("other", "s3")>>, <<Override("ext", Unset)>>, <<Override("ext", "s1")>>,
   <<Override("other", "s1"), Override("ext", "s2"), Override("ext", Unset), Override("ext", "s3")>>}

Constraint(name, cpu, mem, disk) ==
  [name |-> name, cpu |-> cpu, mem |-> mem, disk |-> disk]

MCConstraints ==
  {<<>>,
   <<Constraint("other", 2, 2, 2), Constraint("ext", 1, 1, -1)>>,
   <<Constraint("ext", 0, 0, 2), Constraint("ext", 2, 1, 0)>>}

Machine(cpu, mem, disk) == [cpu |-> cpu, mem |-> mem, disk |-> disk]

MCMachines == {Machine(1, 1, 1), Machine(2, 1, 1), Machine(2, 1, 2)}

=============================================================================
