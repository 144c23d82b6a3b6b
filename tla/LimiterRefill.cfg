SPECIFICATION Spec
CONSTANTS
  token = 5
  burst = 5
  rate = 500000000
  PerSecond = 2
  MaxPeriod = 16
INVARIANT RefilledOnDemand
