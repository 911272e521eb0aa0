CONSTANTS
    TIMER_COUNT = 3
    Thousand = 2
    Delays = {0, 1, 5}
    Deltas = {1, 2}
    MaxElapsed = 13
SPECIFICATION Spec
INVARIANT Accurate
PROPERTIES DelayNotShort TimeoutNotEarly
