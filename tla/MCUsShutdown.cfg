CONSTANTS
    ClientSlots = {1, 2}
    MaxSessions = 3
SPECIFICATION Spec
INVARIANT TypeOK
