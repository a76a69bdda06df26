SPECIFICATION Spec
CONSTANTS
  Modules = {1, 2, 3}
  LongPaths = {2}
  Callbacks = {c1, c2}
  NodeMax = 2
  MaxEvents = 3
INVARIANT DueEventsAreCalled
PROPERTY RunEventsEnds
