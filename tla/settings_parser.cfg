SPECIFICATION ParserSpec
CONSTANTS
  Slots = {0, 1, 2}
  Unset = Unset
  Texts = {"a", "b", "t1", "t2", "s", "1", "2", "4", "schema", "cpu", "mem", "disk"}
  Inputs <- MCInputs
INVARIANTS
  ParserTypeOK
  AcceptsTheGrammar
  ReadsTheMeaning
