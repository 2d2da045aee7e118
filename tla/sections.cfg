SPECIFICATION MenusSpec
CONSTANTS
  a1 = a1
  a2 = a2
  a3 = a3
  a4 = a4
  App = {a1, a2, a3, a4}
  Conn = {c1}
  Source = {}
  Message = {}
  MaxRequest = 1
  Time = {1}
  SortName <- Names
  ChatApp = {a1}
  Empathy = {a4}
  MaxEntries = 1
INVARIANTS SectionsInOrder SectionOfEach
