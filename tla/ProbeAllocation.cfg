SPECIFICATION Spec
CONSTANTS
    Cases <- MCCases
    RateUnit = 60
INVARIANTS
    EveryPlanFits
    ReportSound
PROPERTIES
    TurnsDescend
