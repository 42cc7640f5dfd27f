SPECIFICATION Spec
CONSTANTS
    Records = {r1, r2}
    Values <- SmallAndLarge
    Size <- SizeOf
    MaxFiles = 1
    MaxBytes = 3
    MaxCalls = 2
    MaxFaults = 0
INVARIANT QuotaHolds
