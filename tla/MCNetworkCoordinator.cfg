CONSTANTS
  Partition = {p1, p2, p3}
  Name = {a, b, c}
  Caller = {c1, c2}
  MaxEntries = 2
  MaxPositiveTtl = 1
  MaxNegativeTtl = 1
  MaxTime = 2
  MaxPartitions = 2
  MaxVersion = 2
  MaxDrops = 1
  Key <- MCKey
  Outcome <- MCOutcome
  Published <- MCPublished
  Request <- MCRequest
SPECIFICATION Spec
SYMMETRY Symmetry
CONSTRAINT OneSideAtATime
INVARIANTS
  StoresConsistent
  NoEntryOutlivesDrop
  SentIsPermitted
  
  HeadersAreTheBrowsers
  CancelIsSeen
