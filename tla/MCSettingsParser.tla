-------------------------- MODULE MCSettingsParser --------------------------
(***************************************************************************)
(* The documents that are parsed: every shape up to two fields a level,    *)
(* right or wrong for the setting, whole or cut off by a syntax error.     *)
(***************************************************************************)
EXTENDS SettingsParser

Field(name, value) == [name |-> name, value |-> value]

Upto(n, S) == SeqOf(S, n)

Leaves == {String("t1"), String("t2"), Number("4"), List(<<>>), Object(<<>>)}

TopFields(values) == {Field(n, v) : n \in {"a", "b"}, v \in values}

GrantValues ==
  Leaves \cup {List(items) : items \in Upto(2, Leaves)}
         \cup {Object(<<Field("a", List(<<String("t1")>>))>>)}

GrantDocs == Leaves \cup {Object(fs) : fs \in Upto(2, TopFields(GrantValues))}

ExtensionValues(params, values) ==
  Leaves \cup {Object(fs) : fs \in Upto(2, {Field(n, v) : n \in params, v \in values})}

\* One extension, or a first one with the value given and any second one.
ExtensionDocs(first, params, values) ==
  LET fields == TopFields(ExtensionValues(params, values))
  IN  Leaves \cup {Object(<<f>>) : f \in fields}
             \cup {Object(<<Field("a", first), f>>) : f \in fields}

Whole(setting, docs) == {[setting |-> setting, doc |-> d, cut |-> Unset] : d \in docs}

Cut(setting, docs) ==
  UNION {{[setting |-> setting, doc |-> d, cut |-> n] : n \in 0..Len(Tokens(d))} : d \in docs}

MCInputs ==
  LET overrides == ExtensionDocs(Object(<<Field("schema", String("s"))>>), {"schema", "mem"}, Leaves)
      limits    == ExtensionDocs(Object(<<Field("mem", String("1"))>>), {"cpu", "mem", "disk", "schema"},
                                 {String(Unset), String("2"), Number("4"), List(<<>>), Object(<<>>)})
      samples   == {Object(<<Field("a", List(<<String("t1"), String("t2")>>)), Field("b", List(<<>>))>>),
                    Object(<<Field("a", Object(<<Field("schema", String("t1"))>>))>>),
                    Object(<<Field("a", Object(<<Field("cpu", Number("4")), Field("mem", String("2"))>>))>>)}
  IN  UNION {Whole("policy_grants", GrantDocs),
             Whole("extensions_parameter_overrides", overrides),
             Whole("constrained_extensions", limits)}
      \cup UNION {Cut(setting, samples) : setting \in Settings}

=============================================================================
