CONSTANTS
  Writers = {w1, w2}
  Workers = {k1, k2}
  Consumers = {c1, c2}
  Organizations = {o1, o2}
  Nobody = Nobody
  MaxEvents = 3
  MaxOutbox = 3
  MaxBatch = 2
  MaxAudit = 3
SPECIFICATION Spec
CONSTRAINT OneFocus
INVARIANTS Inv AppendsExtend
PROPERTIES FeedSpec EntriesSettle
CHECK_DEADLOCK FALSE
