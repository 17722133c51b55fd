SPECIFICATION Spec
CONSTANTS
  Txs = {t1, t2, t3}
  Limit = 2
  MaxEvents = 5
SYMMETRY Symmetry
INVARIANTS TypeOK
PROPERTIES NothingSkipped DeliveredOnce
