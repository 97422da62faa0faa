\* Every file and environment; durations of three bits, so that five hours overflow.
CONSTANTS
    Tenants = {1, 2}
    Hours = {0, 1, 5}
    DefaultHours = 2
    Span = 4
SPECIFICATION IdSpec
INVARIANTS
    IdTypeOK
    InspectionStaysOn
PROPERTIES
    ServedAsIntended
    UsableWhenIssued
