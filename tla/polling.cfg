SPECIFICATION FairPollSpec
CONSTANTS
  k1 = k1
  None = None
  NoKey = NoKey
  Loop = Loop
  Tasks = {1, 2, 3, 4}
  Keys = {k1}
  KeyOf <- OneChat
  Limit = 2
  Capacity = 2
  Producers = {Loop}
  MaxBatch = 2
INVARIANTS NoSlotIdle NoProducerStranded NothingForgotten DeliveredOnce Outstanding CleanStop
PROPERTIES Implements EveryUpdateIsHandled StopEnds
CHECK_DEADLOCK FALSE
