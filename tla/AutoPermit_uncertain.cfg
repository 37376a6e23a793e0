\* docs/P1-VALIDATION.zh-CN.md:15 against the one pause file.
CONSTANTS
  o1 = o1
  o2 = o2
  o3 = o3
  Orders = {o1, o2, o3}
  RpcThreads = {t1}
  Console = console
  MaxOrders = 3
  MaxGeneration = 4
SPECIFICATION Spec
PROPERTIES
  UncertaintyPauses
