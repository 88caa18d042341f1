SPECIFICATION Spec
CONSTANTS
  Time = {0, 1}
  MaxEvents = 3
INVARIANT LenCountsLive
PROPERTY ImplementsOrderedEvents
