SPECIFICATION FairSpec
CONSTANTS
  Brokers = {"zerodha", "dhan"}
  MaxFaults = 3
  MaxFailures = 2
  MaxOrders = 2
INVARIANTS GapRepairedUnlessJoined
PROPERTIES OwedIsPaid LossIsNoticed
