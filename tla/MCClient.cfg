CONSTANTS
    Modes = {"simple", "enhanced"}
    CommandsOf <- MCCommandsOf
    UrbsOf <- MCUrbsOf
    MaxRequests = 3
    MaxListed = 2
SPECIFICATION Spec
\* The client rests in fgets once the user stops typing.
CHECK_DEADLOCK FALSE
INVARIANT TypeOK
PROPERTY UrbsAnswered
