\* A systemd-run that outlives its killed command.
CONSTANTS
    MaxStarts = 2
    MaxFaults = 1
    DispatchOutlives = TRUE
SPECIFICATION Spec
CHECK_DEADLOCK FALSE
INVARIANTS
    Controllable
