SPECIFICATION FairSpec
CONSTANTS
  e1 = e1
  e2 = e2
  s1 = s1
  s2 = s2
  Entries = {e1, e2}
  NameOf <- MCNameOf
  KindOf <- MCKindOf
  Immediate = {e1}
  MaxStarts = 2
  Stoppers = {s1, s2}
CHECK_DEADLOCK FALSE
INVARIANT LoopsMatchEntries
 
