SPECIFICATION FairSpec
CONSTANTS
  App = {a1}
  Conn = {c1, c2}
  Source = {s1}
  Message = {m1}
  MaxRequest = 3
INVARIANTS TypeOK IndInv CancelledNeverRemote ItemsHaveAProxy
PROPERTIES RegistrationCompletes QuietWhenAlone
