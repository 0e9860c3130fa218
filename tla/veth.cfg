SPECIFICATION FairSpec
CONSTANTS
  Endpoints = {e1, e2}
  Hash <- MCHash
  None = None
  MaxFaults = 2
  MaxCrashes = 1
CHECK_DEADLOCK FALSE
INVARIANT VethInv
INVARIANT GlobalRulesOnce
INVARIANT RulesTakeEffect
INVARIANT JoinedIsWired
INVARIANT NothingLeftBehind
INVARIANT SubnetsApart
PROPERTY CallsEnd
