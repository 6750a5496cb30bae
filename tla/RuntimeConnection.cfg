SPECIFICATION FairSpec
CONSTANTS
  Link <- MCLink
  NoLink = 0
  MaxConnects = 3
INVARIANTS
  NeverGivesUp RetriesDoNotMultiply OneSocketListens
PROPERTIES
  Reconnects ProvidersSynced
CHECK_DEADLOCK FALSE
