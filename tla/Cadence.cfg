\* Checks that end within the interval, with the tick, and several ticks late.
CONSTANT Interval = 6
SPECIFICATION Spec
INVARIANTS
  NoBurst
  LatencyIsNotAdded
