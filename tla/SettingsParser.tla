--------------------------- MODULE SettingsParser ---------------------------
(***************************************************************************)
(* One parse of a JSON setting, token by token: the handlers of            *)
(* JsonSettings as pg_parse_json calls them.                               *)
(***************************************************************************)
EXTENDS JsonSettings

CONSTANT Inputs  \* the [setting, doc, cut] that are parsed; cut is the number
                 \* of tokens before a syntax error, or Unset

Settings == {"policy_grants", "extensions_parameter_overrides", "constrained_extensions"}

\* No array is full: a document has fewer fields than there are slots.
ASSUME InputsAssumption ==
  \A in \in Inputs :
    /\ in.setting \in Settings
    /\ in.doc \in Documents
    /\ 0..Len(in.doc.parts) \subseteq Slots
    /\ in.cut \in 0..Len(Tokens(in.doc)) \cup {Unset}

VARIABLES input, \* the document that is parsed, and for which setting
          rest,  \* the tokens that are left
          parse  \* the parse state

parserVars == <<input, rest, parse>>

\* A lexer error ends the walk where it is met.
TokensOf(in) ==
  IF in.cut = Unset
    THEN Tokens(in.doc)
    ELSE Append(SubSeq(Tokens(in.doc), 1, in.cut), SyntaxError)

Empty(setting) ==
  CASE setting = "policy_grants"                  -> NoGrants
    [] setting = "extensions_parameter_overrides" -> NoOverrides
    [] setting = "constrained_extensions"         -> NoConstraints

ParserInit ==
  /\ input \in Inputs
  /\ rest = TokensOf(input)
  /\ parse = StartParse(Empty(input.setting))

\* pg_parse_json reads a token and calls the setting's handler for it.
Call(setting, Handle(_, _)) ==
  /\ rest # <<>>
  /\ input.setting = setting
  /\ parse' = Handle(parse, Head(rest))
  /\ rest' = Tail(rest)
  /\ UNCHANGED input

GrantsStep == Call("policy_grants", GrantsToken)

OverridesStep == Call("extensions_parameter_overrides", OverridesToken)

ConstraintsStep == Call("constrained_extensions", ConstrainedToken)

\* The parse_... function has returned.
Returned == rest = <<>> /\ UNCHANGED parserVars

ParserNext == GrantsStep \/ OverridesStep \/ ConstraintsStep \/ Returned

ParserSpec == ParserInit /\ [][ParserNext]_parserVars

-----------------------------------------------------------------------------

States == {"toplevel_start", "toplevel_field", "tables_start", "table",
           "overrides_start", "schema", "constraints_start", "unexpected"}
          \cup Resources

TokenKinds == {"array_start", "array_end", "object_start", "object_end", "field",
               "string", "number", "syntax_error"}

TokenSet == [kind : TokenKinds, text : Strings]

EntriesOf(setting) ==
  CASE setting = "policy_grants"                  -> GrantsEntries
    [] setting = "extensions_parameter_overrides" -> OverridesEntries
    [] setting = "constrained_extensions"         -> ConstraintsEntries

\* The index total is one past the last entry that is complete: it stays inside
\* the array when the document has fewer fields than the array has slots.
ParserTypeOK ==
  /\ input.setting \in Settings
  /\ rest \in Seq(TokenSet)
  /\ parse \in [state : States, error : BOOLEAN, total : Slots,
                 entries : [Slots -> EntriesOf(input.setting)]]

WellFormed(in) ==
  /\ in.cut = Unset
  /\ CASE in.setting = "policy_grants" -> WellFormedGrants(in.doc)
       [] in.setting = "extensions_parameter_overrides" -> WellFormedOverrides(in.doc)
       [] in.setting = "constrained_extensions" -> WellFormedConstraints(in.doc)

\* A parse that ends without an error has read a document of the shape the
\* README gives for the setting, and every such document is accepted: what is
\* out of place is noticed by handlers that see one token at a time.
AcceptsTheGrammar == rest = <<>> => (~parse.error <=> WellFormed(input))

\* An accepted document has become the entries it stands for: nothing is lost,
\* merged or left over when fields and roles are repeated or empty.
ReadsTheMeaning ==
  (rest = <<>> /\ ~parse.error) =>
    CASE input.setting = "policy_grants" ->
           GrantsOf(parse.entries, parse.total) = GrantsMeant(input.doc)
      [] input.setting = "extensions_parameter_overrides" ->
           Counted(parse.entries, parse.total) = OverridesMeant(input.doc)
      [] input.setting = "constrained_extensions" ->
           Counted(parse.entries, parse.total) = ConstraintsMeant(input.doc)

=============================================================================
