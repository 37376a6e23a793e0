\* Two RPC threads and the console; two orders under a quota of one; four
\* generations, enough to authorize, pause, resume and end.
CONSTANTS
  o1 = o1
  o2 = o2
  o3 = o3
  Orders = {o1, o2}
  RpcThreads = {t1, t2}
  Console = console
  MaxOrders = 1
  MaxGeneration = 4
SPECIFICATION Spec
SYMMETRY Symmetry
INVARIANTS
  TypeOK
  OneCurrentPermit
  AuthorizationIsCurrent
PROPERTIES
  OldCommandsDie
  ImplementsBudget
