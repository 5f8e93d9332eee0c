\* The queue of answers holds those of one round and no more; all queues fill.
SPECIFICATION FairSpec
CONSTANTS
  RoundSize = 3
  RequestCapacity = 4
  ResponseCapacity = 6
  UpdateCapacity = 2
  MaxAnswers = 2
INVARIANT NeverBothWaiting
PROPERTY RoundEnds
