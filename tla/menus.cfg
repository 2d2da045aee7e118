SPECIFICATION MenusSpec
CONSTANTS
  a1 = a1
  a2 = a2
  a3 = a3
  a4 = a4
  App = {a1}
  Conn = {c1, c2}
  Source = {s1}
  Message = {m1}
  MaxRequest = 2
  Time = {1, 2}
  SortName <- Names
  ChatApp = {}
  Empathy = {}
  MaxEntries = 3
INVARIANTS MenusTypeOK NewestFirst ItemsShown EntriesHaveAProxy
PROPERTIES StoppedLeavesNothing
