CONSTANTS
  Previews = {p1, p2}
  Signals = {s1, s2}
  Threads = {t1, t2}
  NoPreview = NoPreview
  NoSignal = NoSignal
  MaxDailyNotional = 1
  MaxApprovals = 1
  MaxEras = 3
SYMMETRY Symmetric
SPECIFICATION Spec
INVARIANTS TypeOK OrderIsThePreviewedOne LimitUnlessStale
PROPERTIES GrantsEnd ImplementsLedger
CHECK_DEADLOCK FALSE
