CONSTANTS
    MaxDevices <- MCMaxDevices
    MaxClients <- MCMaxClients
    MaxSessions <- MCMaxSessions
    MaxDeviceIds <- MCMaxDeviceIds
    MaxSubmits <- MCMaxSubmits
    RemoteIds <- MCRemoteIds
    Hosts = {h1}
SYMMETRY HostSymmetry
SPECIFICATION Spec
INVARIANT NoSilentDrop
