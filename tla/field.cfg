CONSTANTS
  e1 = e1
  e2 = e2
  t1 = t1
  t2 = t2
  h1 = h1
  h2 = h2
  Entries = {e1, e2}
  Issues = {e1}
  Threads = {t1, t2}
  Handlers = {h1, h2}
  MaxLosses = 1
SPECIFICATION FieldSpec
INVARIANTS
  NotForgotten
  TwiceOnlyIfUnsure
  CountersFollow
PROPERTY QueuedIsSynced
CONSTRAINT Focus
CHECK_DEADLOCK FALSE
