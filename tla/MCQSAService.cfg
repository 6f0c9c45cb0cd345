\* Killed commands whose systemd-run ends with them.
CONSTANTS
    MaxStarts = 4
    MaxFaults = 3
    DispatchOutlives = FALSE
SPECIFICATION Spec
CHECK_DEADLOCK FALSE
INVARIANTS
    Controllable
    RecordHonest
