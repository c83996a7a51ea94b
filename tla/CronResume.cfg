SPECIFICATION Spec
CONSTANTS
    Jobs = {"brief"}
    Callers = {"c1", "c2"}
    MaxRetries = 1
    MaxTicks = 2
    MaxAdds = 2
    MaxFaults = 1
    MaxQueue = 1
    None = None
INVARIANT ActiveIsOn
CHECK_DEADLOCK FALSE
