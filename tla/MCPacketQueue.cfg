CONSTANTS
  InitSize = 7
  PayloadSizes = {1, 65}
  QueueSize = 2
  Durations <- MCDurations
  DurMax = 2
  MaxHeld = 2
  Ids = {1, 2}
SPECIFICATION QueueSpec
INVARIANTS RegionsOwned TotalsExact
PROPERTIES ImplementsFifo
