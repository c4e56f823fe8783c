\* "mboxrd" (mbox.go:14): what is read out of a file against what was written into it.
SPECIFICATION SpoolSpec
CONSTANTS
  SpoolGroups = {"bin", "misc"}
  Messages = {"x", "y"}
  GroupsOf <- MCGroupsOf
  QuotedIn <- MCQuotedIn
  Depth <- MCDepth
  Posters = {"p"}
  Importers = {"i"}
  SpoolSweepers = {"s"}
  Banned0 = {}
  Nothing = Nothing
INVARIANTS
  ReadsBackAsWritten
