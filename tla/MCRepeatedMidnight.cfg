SPECIFICATION Spec
CONSTANTS
    DAY = 24
    Offsets <- Both
    Horizon = 150
    Zones <- AllZones
\* The clock stops at the horizon.
CHECK_DEADLOCK FALSE
INVARIANTS
    ReportsAreDays
