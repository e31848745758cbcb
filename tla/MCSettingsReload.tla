-------------------------- MODULE MCSettingsReload --------------------------
(***************************************************************************)
(* Values of the two settings: for policy_grants some of one and of two    *)
(* roles, and some whose parse fails after an entry, in an entry, or at a  *)
(* syntax error; for the overrides one with a schema, one without, and one *)
(* that is rejected.                                                       *)
(***************************************************************************)
EXTENDS SettingsReload

Field(name, val) == [name |-> name, value |-> val]

Tables(names) == List([i \in DOMAIN names |-> String(names[i])])

OneRole == Object(<<Field("r1", Tables(<<"t1">>))>>)

TwoRoles == Object(<<Field("r1", Tables(<<"t2">>)), Field("r2", Tables(<<"t1">>))>>)

FailsAfterEntry == Object(<<Field("r1", Tables(<<"t2">>)), Field("r2", Number("5"))>>)

FailsInEntry == Object(<<Field("r2", List(<<String("t1"), Number("5")>>))>>)

MCGrantDocs == {OneRole, TwoRoles, FailsAfterEntry, FailsInEntry}

WithSchema == Object(<<Field("ext", Object(<<Field("schema", String("s"))>>))>>)

WithoutSchema == Object(<<Field("ext", Object(<<>>))>>)

BadParameter == Object(<<Field("ext", Object(<<Field("version", String("s"))>>))>>)

MCOverrideDocs == {WithSchema, WithoutSchema, BadParameter}

=============================================================================
