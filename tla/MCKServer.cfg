CONSTANTS
    MaxDevices <- MCMaxDevices
    MaxClients <- MCMaxClients
    MaxSessions <- MCMaxSessions
    ForeignDetach = FALSE
SPECIFICATION Spec
INVARIANT TypeOK
INVARIANT OneOwner
