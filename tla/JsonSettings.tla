---------------------------- MODULE JsonSettings ----------------------------
(***************************************************************************)
(* The settings whose value is a JSON document: how policy_grants.c (and   *)
(* its twin drop_trigger_grants.c), extensions_parameter_overrides.c and   *)
(* constrained_extensions.c turn one into an array of entries.             *)
(*                                                                         *)
(* pg_parse_json walks the document and calls a handler at each token.  A  *)
(* handler knows only the state of the parse; on the first token out of    *)
(* place it notes an error and the walk goes on to the end.                *)
(***************************************************************************)
EXTENDS Naturals, Sequences, SequencesExt

CONSTANTS Slots,   \* the indices of the arrays of entries, from 0
          Unset,   \* a NULL pointer, a number that was not given, or no value
          Texts    \* the names, strings and numbers of documents

\* What pfree leaves of a name.
Freed == "freed"

ASSUME SlotsAssumption == 0 \in Slots /\ Slots \subseteq Nat

ASSUME TextsAssumption == Texts \cap {Unset, Freed} = {}

Strings == Texts \cup {Unset}

-----------------------------------------------------------------------------
(* Documents and the tokens they are read as *)

Text(kind, text) == [kind |-> kind, text |-> text, parts |-> <<>>]

String(text) == Text("string", text)

\* A scalar of any other type: a number, a boolean or null.
Number(text) == Text("number", text)

List(parts) == [kind |-> "array", text |-> Unset, parts |-> parts]

\* An object; each of its parts is a [name, value].
Object(parts) == [kind |-> "object", text |-> Unset, parts |-> parts]

Token(kind, text) == [kind |-> kind, text |-> text]

SyntaxError == Token("syntax_error", Unset)

\* The value of a part.
Inner(value, i) ==
  IF value.kind = "object" THEN value.parts[i].value ELSE value.parts[i]

\* One piece after the other.
Joined(pieces) == FoldLeft(LAMBDA joined, piece : joined \o piece, <<>>, pieces)

\* The tokens of a value, given those of each value inside it.
TokensWith(value, inside) ==
  CASE value.kind = "array" ->
         <<Token("array_start", Unset)>> \o Joined(inside) \o <<Token("array_end", Unset)>>
    [] value.kind = "object" ->
         <<Token("object_start", Unset)>>
         \o Joined([i \in DOMAIN inside |->
                     <<Token("field", value.parts[i].name)>> \o inside[i]])
         \o <<Token("object_end", Unset)>>
    [] OTHER -> <<Token(value.kind, value.text)>>

Tokens0(value) == TokensWith(value, <<>>)

Tokens1(value) ==
  TokensWith(value, [i \in DOMAIN value.parts |-> Tokens0(Inner(value, i))])

Tokens2(value) ==
  TokensWith(value, [i \in DOMAIN value.parts |-> Tokens1(Inner(value, i))])

Tokens(doc) == TokensWith(doc, [i \in DOMAIN doc.parts |-> Tokens2(Inner(doc, i))])

\* The values whose parts are from S.  The text of a string may also be Unset:
\* it is then no size.
Nested(S) ==
  [kind : {"string"}, text : Texts \cup {Unset}, parts : {<<>>}]
  \cup [kind : {"number"}, text : Texts, parts : {<<>>}]
  \cup [kind : {"array"}, text : {Unset}, parts : Seq(S)]
  \cup [kind : {"object"}, text : {Unset}, parts : Seq([name : Texts, value : S])]

\* The documents that Tokens reads to the end: they nest one level deeper than
\* those that are accepted.
Documents == Nested(Nested(Nested(Nested({}))))

-----------------------------------------------------------------------------
(* The state of a parse *)

\* What parse_policy_grants, parse_extensions_parameter_overrides and
\* parse_constrained_extensions start from: the caller's array as it is.
StartParse(entries) ==
  [state |-> "toplevel_start", error |-> FALSE, total |-> 0, entries |-> entries]

\* parse->state = ..._UNEXPECTED_...; parse->error_msg = ...
Reject(p) == [p EXCEPT !.state = "unexpected", !.error = TRUE]

\* The counted entries.
Counted(entries, total) == [i \in 1..total |-> entries[i - 1]]

-----------------------------------------------------------------------------
(* policy_grants.c: { "role": ["table", ...], ... } *)

GrantsEntry(role, tables) == [role |-> role, tables |-> tables]

GrantsEntries == [role : Strings \cup {Freed}, tables : Seq(Strings)]

NoGrants == [i \in Slots |-> GrantsEntry(Unset, <<>>)]

GrantsArrayStart(p) ==
  CASE p.state = "tables_start"              -> [p EXCEPT !.state = "table"]
    [] p.state \in {"toplevel_start", "table"} -> Reject(p)
    [] OTHER                                 -> p

\* Faulty: the entry is not counted when its array ends.
GrantsArrayEndUncounted(p) ==
  IF p.state = "table" THEN [p EXCEPT !.state = "toplevel_field"] ELSE p

\* Faulty: the end of any array ends an entry.
GrantsArrayEndAny(p) == [p EXCEPT !.state = "toplevel_field", !.total = @ + 1]

GrantsArrayEnd(p) ==
  IF p.state = "table"
    THEN [p EXCEPT !.state = "toplevel_field", !.total = @ + 1]
    ELSE p

GrantsObjectStart(p) ==
  CASE p.state = "toplevel_start"            -> [p EXCEPT !.state = "toplevel_field"]
    [] p.state \in {"tables_start", "table"} -> Reject(p)
    [] OTHER                                 -> p

GrantsFieldStart(p, name) ==
  IF p.state = "toplevel_field"
    THEN [p EXCEPT !.entries[p.total].role = name, !.state = "tables_start"]
    ELSE p

\* Faulty: any scalar is taken for the name of a table.
GrantsScalarUntyped(p, kind, text) ==
  CASE p.state = "table" ->
         [p EXCEPT !.entries[p.total].tables = Append(@, text)]
    [] p.state \in {"toplevel_start", "tables_start"} -> Reject(p)
    [] OTHER -> p

\* The tables of an entry are appended to those it has.
GrantsScalar(p, kind, text) ==
  CASE p.state = "table" /\ kind = "string" ->
         [p EXCEPT !.entries[p.total].tables = Append(@, text)]
    [] p.state = "table" /\ kind # "string" -> Reject(p)
    [] p.state \in {"toplevel_start", "tables_start"} -> Reject(p)
    [] OTHER -> p

GrantsToken(p, token) ==
  CASE token.kind = "array_start"          -> GrantsArrayStart(p)
    [] token.kind = "array_end"            -> GrantsArrayEnd(p)
    [] token.kind = "object_start"         -> GrantsObjectStart(p)
    [] token.kind = "field"                -> GrantsFieldStart(p, token.text)
    [] token.kind \in {"string", "number"} -> GrantsScalar(p, token.kind, token.text)
    [] token.kind = "syntax_error"         -> [p EXCEPT !.error = TRUE]
    [] OTHER                               -> p

ParsePolicyGrants(doc, entries) ==
  FoldLeft(GrantsToken, StartParse(entries), Tokens(doc))

-----------------------------------------------------------------------------
(* extensions_parameter_overrides.c: { "ext": { "schema": "name" }, ... } *)

OverridesEntry(name, schema) == [name |-> name, schema |-> schema]

OverridesEntries == [name : Strings, schema : Strings]

NoOverrides == [i \in Slots |-> OverridesEntry(Unset, Unset)]

OverridesObjectStart(p) ==
  CASE p.state = "toplevel_start" -> [p EXCEPT !.state = "toplevel_field"]
    [] p.state = "schema"         -> Reject(p)
    [] OTHER                      -> p

OverridesObjectEnd(p) ==
  IF p.state = "overrides_start"
    THEN [p EXCEPT !.state = "toplevel_field", !.total = @ + 1]
    ELSE p

\* Faulty: the name of a parameter is not looked at.
OverridesFieldStartAny(p, name) ==
  CASE p.state = "toplevel_field" ->
         [p EXCEPT !.entries[p.total].name = name, !.state = "overrides_start"]
    [] p.state = "overrides_start" -> [p EXCEPT !.state = "schema"]
    [] OTHER -> p

OverridesFieldStart(p, name) ==
  CASE p.state = "toplevel_field" ->
         [p EXCEPT !.entries[p.total].name = name, !.state = "overrides_start"]
    [] p.state = "overrides_start" /\ name = "schema" -> [p EXCEPT !.state = "schema"]
    [] p.state = "overrides_start" /\ name # "schema" -> Reject(p)
    [] OTHER -> p

OverridesScalar(p, kind, text) ==
  CASE p.state = "schema" /\ kind = "string" ->
         [p EXCEPT !.entries[p.total].schema = text, !.state = "overrides_start"]
    [] p.state = "schema" /\ kind # "string" -> Reject(p)
    [] p.state \in {"toplevel_start", "overrides_start"} -> Reject(p)
    [] OTHER -> p

\* Every array is out of place.
OverridesToken(p, token) ==
  CASE token.kind = "array_start"          -> Reject(p)
    [] token.kind = "object_start"         -> OverridesObjectStart(p)
    [] token.kind = "object_end"           -> OverridesObjectEnd(p)
    [] token.kind = "field"                -> OverridesFieldStart(p, token.text)
    [] token.kind \in {"string", "number"} -> OverridesScalar(p, token.kind, token.text)
    [] token.kind = "syntax_error"         -> [p EXCEPT !.error = TRUE]
    [] OTHER                               -> p

ParseParameterOverrides(doc, entries) ==
  FoldLeft(OverridesToken, StartParse(entries), Tokens(doc))

-----------------------------------------------------------------------------
(* constrained_extensions.c: { "ext": { "cpu": 4, "mem": "1 GB" }, ... } *)

Resources == {"cpu", "mem", "disk"}

\* Zero is no constraint.
NoConstraint == [r \in Resources |-> "0"]

ConstraintsEntries == [name : Strings, limits : [Resources -> Strings \cup {"0"}]]

NoConstraints == [i \in Slots |-> [name |-> Unset, limits |-> NoConstraint]]

ConstrainedObjectStart(p) ==
  CASE p.state = "toplevel_start" -> [p EXCEPT !.state = "toplevel_field"]
    [] p.state \in Resources      -> Reject(p)
    [] OTHER                      -> p

ConstrainedObjectEnd(p) ==
  IF p.state = "constraints_start"
    THEN [p EXCEPT !.state = "toplevel_field", !.total = @ + 1]
    ELSE p

ConstrainedFieldStart(p, name) ==
  CASE p.state = "toplevel_field" ->
         [p EXCEPT !.entries[p.total].name = name, !.state = "constraints_start"]
    [] p.state = "constraints_start" /\ name \in Resources -> [p EXCEPT !.state = name]
    [] p.state = "constraints_start" /\ name \notin Resources -> Reject(p)
    [] OTHER -> p

\* Faulty: the parse stays in the field it has read the value of.
ConstrainedScalarStays(p, kind, text) ==
  CASE p.state \in Resources ->
         IF kind = (IF p.state = "cpu" THEN "number" ELSE "string") /\ text # Unset
           THEN [p EXCEPT !.entries[p.total].limits[p.state] = text]
           ELSE Reject(p)
    [] p.state \in {"toplevel_start", "constraints_start"} -> Reject(p)
    [] OTHER -> p

\* atoi takes every number; pg_size_bytes raises for a text that is no size,
\* which is the text Unset here.
ConstrainedScalar(p, kind, text) ==
  CASE p.state \in Resources ->
         IF kind = (IF p.state = "cpu" THEN "number" ELSE "string") /\ text # Unset
           THEN [p EXCEPT !.entries[p.total].limits[p.state] = text,
                          !.state = "constraints_start"]
           ELSE Reject(p)
    [] p.state \in {"toplevel_start", "constraints_start"} -> Reject(p)
    [] OTHER -> p

ConstrainedToken(p, token) ==
  CASE token.kind = "array_start"          -> Reject(p)
    [] token.kind = "object_start"         -> ConstrainedObjectStart(p)
    [] token.kind = "object_end"           -> ConstrainedObjectEnd(p)
    [] token.kind = "field"                -> ConstrainedFieldStart(p, token.text)
    [] token.kind \in {"string", "number"} -> ConstrainedScalar(p, token.kind, token.text)
    [] token.kind = "syntax_error"         -> [p EXCEPT !.error = TRUE]
    [] OTHER                               -> p

-----------------------------------------------------------------------------
(* What the README says a document means *)

\* The README's "a json object" whose fields satisfy Good.
ObjectOf(value, Good(_)) ==
  /\ value.kind = "object"
  /\ \A i \in DOMAIN value.parts : Good(value.parts[i])

WellFormedGrants(doc) ==
  ObjectOf(doc, LAMBDA role :
    /\ role.value.kind = "array"
    /\ \A i \in DOMAIN role.value.parts : role.value.parts[i].kind = "string")

\* The pairs of a role and the name of a table it may manage.
GrantsMeant(doc) ==
  UNION {{<<role.name, table.text>> : table \in Range(role.value.parts)} :
           role \in Range(doc.parts)}

GrantsOf(entries, total) ==
  UNION {{<<entries[i].role, table>> : table \in Range(entries[i].tables)} :
           i \in 0..total - 1}

WellFormedOverrides(doc) ==
  ObjectOf(doc, LAMBDA ext :
    ObjectOf(ext.value, LAMBDA param : /\ param.name = "schema"
                                       /\ param.value.kind = "string"))

WellFormedConstraints(doc) ==
  ObjectOf(doc, LAMBDA ext :
    ObjectOf(ext.value, LAMBDA limit :
      /\ limit.name \in Resources
      /\ limit.value.kind = IF limit.name = "cpu" THEN "number" ELSE "string"
      /\ limit.value.text # Unset))

\* The last value given to a field, or the default.
LastGiven(parts, name, default) ==
  LET given == {i \in DOMAIN parts : parts[i].name = name}
  IN  IF given = {} THEN default ELSE parts[Max(given)].value.text

OverridesMeant(doc) ==
  [i \in DOMAIN doc.parts |->
     OverridesEntry(doc.parts[i].name,
                    LastGiven(doc.parts[i].value.parts, "schema", Unset))]

ConstraintsMeant(doc) ==
  [i \in DOMAIN doc.parts |->
     [name   |-> doc.parts[i].name,
      limits |-> [r \in Resources |->
                    LastGiven(doc.parts[i].value.parts, r, NoConstraint[r])]]]

=============================================================================
