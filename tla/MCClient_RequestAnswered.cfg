CONSTANTS
    Modes = {"enhanced"}
    CommandsOf <- MCCommandsPing
    UrbsOf <- MCUrbsNone
    MaxRequests = 3
    MaxListed = 2
SPECIFICATION Spec
\* The client rests in fgets once the user stops typing.
CHECK_DEADLOCK FALSE
PROPERTY RequestAnswered
