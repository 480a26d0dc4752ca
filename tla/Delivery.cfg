SPECIFICATION Spec
CONSTANTS
    Devices = {phone}
    Backgrounds = {phone}
    MaxEvents = 3
    Legacy = {1}
    Failures = {2}
    MaxIds = 2
    MaxFaults = 1
    MaxSlow = 1
INVARIANTS TypeOK AcknowledgedWereHandled AlertsRepeatOnlyInDoubt
PROPERTIES EventsArrive
CHECK_DEADLOCK FALSE
