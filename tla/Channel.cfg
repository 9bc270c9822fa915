SPECIFICATION Spec
CONSTANTS
  Threads = {t1, t2, t3}
  Values = {v1, v2}
  MaxSends = 3
INVARIANTS Fifo EndMeansDrained LateSends
PROPERTIES ReceiversReturn
