SPECIFICATION Spec
CONSTANTS
  Files <- MCFiles
  k_max_instruments = 4
  RingLimit = 2
  NoUpdate = NoUpdate
  n_instruments = 2
  k_gpu_batch = 3
  Routed <- MCRouted
  NetReturn <- MCNetReturn
INVARIANTS Reproducible EachBatchOnce
PROPERTY BacktestEnds
CHECK_DEADLOCK FALSE
