SPECIFICATION Spec
CONSTANTS
  Entry = {1, 2, 3}
  NoQuery = ""
  Query = {"", "rust"}
  Matches <- WordIn
  NoRow = norow
  Load <- Loads
  Session = {"yesterday"}
  NoSession = nosession
INVARIANTS
  NoResumeInStrict
PROPERTIES
  FocusKeepsItsEntry
