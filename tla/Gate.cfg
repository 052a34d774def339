CONSTANTS
  Threads = {a, b, c, d}
  Permits = 2
  MaxCalls = 1
  MaxSpurious = 1
SPECIFICATION Spec
INVARIANTS
  MemoryIsBounded
  AnswersAreSound
  NoLostWakeup
PROPERTY EveryCallIsServed
CHECK_DEADLOCK FALSE
