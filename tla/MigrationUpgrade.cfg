SPECIFICATION Spec
CONSTANTS
    Devices = {d1}
    Rules = {r1}
    MaxStops = 0
INVARIANT DevicesSurvive
