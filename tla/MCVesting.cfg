\* Totals 0..7 are not multiples of the durations 1..6, so the floor matters;
\* the clock covers times before, inside and after every schedule.
CONSTANTS
    MaxTotal = 7
    Past = 2
    MaxTime = 4
SPECIFICATION Spec
INVARIANT
    VestedIsFloor
PROPERTY NeverRelocks
\* The clock stops at MaxTime.
CHECK_DEADLOCK FALSE
