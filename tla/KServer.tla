------------------------------ MODULE KServer ------------------------------
(***************************************************************************)
(* The driver-backed server, server/vusb_server.c, together with the       *)
(* kernel driver's device registry that it drives through IOCTLs           *)
(* (driver/vusb_ioctl.c, driver/vusb_device.c).                            *)
(*                                                                         *)
(* The driver keeps DeviceContext->Devices[VUSB_MAX_DEVICES]; a device's   *)
(* id is its slot + 1, so ids are reused.  Each session keeps its own      *)
(* client->Devices[] array of the ids it attached.  The driver's default   *)
(* queue dispatches IOCTLs one at a time, so each IOCTL is one step.       *)
(*                                                                         *)
(* A session's DEVICE_ATTACH (plug-in IOCTL, then the store into           *)
(* client->Devices) and its disconnect (removal from ctx->Clients, then    *)
(* one unplug IOCTL per tracked entry) are single steps here.  The parts   *)
(* of these handlers touch only the session's own array or one driver      *)
(* slot, so every interleaving of those parts with another session's       *)
(* steps has the same effect as some order of whole steps.                 *)
(*                                                                         *)
(* ForeignDetach says whether a client may name, in DEVICE_DETACH, an id   *)
(* it was not given.  The server accepts any id.                           *)
(***************************************************************************)
EXTENDS Integers, FiniteSets, FiniteSetsExt

CONSTANTS
    MaxDevices,     \* VUSB_MAX_DEVICES: driver slots, and entries of client->Devices
    MaxClients,     \* ctx->Config.MaxClients
    MaxSessions,    \* bound on ctx->NextSessionId (connections ever accepted)
    ForeignDetach   \* TRUE: DEVICE_DETACH may carry any id

ASSUME MaxDevices \in Nat \ {0} /\ MaxClients \in Nat \ {0} /\ ForeignDetach \in BOOLEAN

DevIds == 1..MaxDevices          \* slot + 1
Entries == 1..MaxDevices         \* index of client->Devices[]
SessionIds == 1..MaxSessions
NoReply == [status |-> "NONE", dev |-> 0]

VARIABLES
    DrvDevices,      \* ids whose slot DeviceContext->Devices[id-1] is not NULL
    Clients,         \* sessions present in ctx->Clients[]
    NextSessionId,   \* ctx->NextSessionId
    ClientDevices,   \* client->Devices[i]: its DeviceId when Active, else 0
    attachReply,     \* the last DEVICE_ATTACH response sent to each session
    stale            \* history: driver devices left by an earlier server process

vars == <<DrvDevices, Clients, NextSessionId, ClientDevices, attachReply, stale>>

-----------------------------------------------------------------------------
(* Driver side: VusbCreateVirtualDevice, VusbDestroyVirtualDevice and the  *)
(* IOCTL handlers around them.                                             *)

\* VusbCreateVirtualDevice: fails when DeviceCount >= MaxDevices; otherwise
\* the lowest NULL slot, DeviceId = slot + 1.
CreateFails == Cardinality(DrvDevices) >= MaxDevices
LowestFreeId == CHOOSE d \in DevIds \ DrvDevices : \A e \in 1..(d-1) : e \in DrvDevices
CreatedId == IF CreateFails THEN 0 ELSE LowestFreeId

\* VusbHandlePluginDevice: the status of VusbCreateVirtualDevice is overwritten by
\* that of WdfRequestRetrieveOutputBuffer before the response Status is set, so the
\* response reports SUCCESS whether or not a device was created.
PluginResponseStatus == "SUCCESS"

\* VusbDestroyVirtualDevice: ids outside 1..VUSB_MAX_DEVICES and empty slots fail.
DestroyDevice(devs, d) == devs \ {d}

\* VusbHandlePluginDevice: the device is created, then the response carries
\* the retrieve status and the id VusbCreateVirtualDevice wrote (0 on failure).
PluginResponse == [status |-> PluginResponseStatus, dev |-> CreatedId]
PluginCreate == IF CreateFails THEN DrvDevices ELSE DrvDevices \cup {LowestFreeId}

\* VusbServerPluginDevice: 0 and the response's id when the IOCTL reports
\* SUCCESS, -1 and id 0 otherwise.
PluginDevice ==
    IF PluginResponse.status = "SUCCESS"
    THEN [result |-> 0, id |-> PluginResponse.dev]
    ELSE [result |-> -1, id |-> 0]

\* VusbServerUnplugDevice -> IOCTL_VUSB_UNPLUG_DEVICE -> VusbHandleUnplugDevice:
\* the driver destroys the device; the server ignores the result.
UnplugDevice(devs, d) == DestroyDevice(devs, d)

-----------------------------------------------------------------------------
(* Session side.                                                           *)

Tracked(s) == {ClientDevices[s][i] : i \in Entries} \ {0}

\* The first inactive entry of client->Devices, if any.
FreeEntries(s) == {i \in Entries : ClientDevices[s][i] = 0}
FirstFreeEntry(s) == CHOOSE i \in FreeEntries(s) : \A j \in FreeEntries(s) : i <= j

\* VusbEvtDeviceAdd: the device context is zeroed, so every slot of Devices[]
\* is NULL.
DriverInit == DrvDevices = {}

Init ==
    /\ DriverInit
    /\ Clients = {}
    /\ NextSessionId = 0
    /\ ClientDevices = [s \in SessionIds |-> [i \in Entries |-> 0]]
    /\ attachReply = [s \in SessionIds |-> NoReply]
    /\ stale = {}

\* Mutation of Accept: the session is added whether or not a slot is free.
Accept_NoFullCheck ==
    /\ NextSessionId < MaxSessions
    /\ NextSessionId' = NextSessionId + 1
    /\ Clients' = Clients \cup {NextSessionId + 1}
    /\ UNCHANGED <<DrvDevices, ClientDevices, attachReply, stale>>

\* VusbServerAcceptClient: the first free slot of ctx->Clients gets a new
\* session (calloc'd, so its Devices[] are all inactive).  A full server closes
\* the socket and changes nothing.
Accept ==
    /\ NextSessionId < MaxSessions
    /\ Cardinality(Clients) < MaxClients
    /\ NextSessionId' = NextSessionId + 1
    /\ Clients' = Clients \cup {NextSessionId + 1}
    /\ UNCHANGED <<DrvDevices, ClientDevices, attachReply, stale>>

\* VusbServerRun: accept() fails and the loop continues.
AcceptRetry == UNCHANGED vars

\* VusbServerHandleDeviceAttach: IOCTL_VUSB_PLUGIN_DEVICE, then, if the result is
\* 0 and the id > 0, the id goes to the first inactive entry of client->Devices
\* (none free: not tracked); the response carries the result and the id.
Attach(s) ==
    /\ s \in Clients
    /\ DrvDevices' = PluginCreate
    /\ LET result == PluginDevice.result
           deviceId == PluginDevice.id
       IN /\ ClientDevices' =
                IF result = 0 /\ deviceId > 0 /\ FreeEntries(s) # {}
                THEN [ClientDevices EXCEPT ![s][FirstFreeEntry(s)] = deviceId]
                ELSE ClientDevices
          /\ attachReply' = [attachReply EXCEPT ![s] =
                [status |-> IF result = 0 THEN "SUCCESS" ELSE "ERROR", dev |-> deviceId]]
    /\ UNCHANGED <<Clients, NextSessionId, stale>>

\* VusbServerHandleDeviceDetach: IOCTL_VUSB_UNPLUG_DEVICE for the id in the
\* payload, with no ownership check, then the first matching entry of the
\* session's own client->Devices is cleared.
Detach(s, d) ==
    /\ s \in Clients
    /\ DrvDevices' = UnplugDevice(DrvDevices, d)
    /\ ClientDevices' =
          IF \E i \in Entries : ClientDevices[s][i] = d
          THEN LET i == CHOOSE i \in Entries : ClientDevices[s][i] = d
                                            /\ \A j \in 1..(i-1) : ClientDevices[s][j] # d
               IN [ClientDevices EXCEPT ![s][i] = 0]
          ELSE ClientDevices
    /\ stale' = stale \ {d}
    /\ UNCHANGED <<Clients, NextSessionId, attachReply>>

\* Mutation of Disconnect: the client is freed without unplugging its devices.
Disconnect_NoUnplug(s) ==
    /\ s \in Clients
    /\ Clients' = Clients \ {s}
    /\ ClientDevices' = [ClientDevices EXCEPT ![s] = [i \in Entries |-> 0]]
    /\ UNCHANGED <<DrvDevices, NextSessionId, attachReply, stale>>

\* VusbClientThread leaving its loop (peer close, recv error, bad header,
\* oversized payload, DISCONNECT), then VusbServerDisconnectClient: removal
\* from ctx->Clients, one unplug per active entry, free(client).
Disconnect(s) ==
    /\ s \in Clients
    /\ Clients' = Clients \ {s}
    /\ DrvDevices' = FoldSet(LAMBDA d, devs : UnplugDevice(devs, d), DrvDevices, Tracked(s))
    /\ ClientDevices' = [ClientDevices EXCEPT ![s] = [i \in Entries |-> 0]]
    /\ UNCHANGED <<NextSessionId, attachReply, stale>>

\* The server process ends with its sessions still open and a new one
\* starts.  Nothing clears ctx->Running and no console handler is installed,
\* so VusbServerRun never returns and VusbServerCleanup is never reached: the
\* process ends by the console's default Ctrl+C handler (or a crash), and no
\* session thread gets to VusbServerDisconnectClient.  The driver has no
\* file-cleanup callback, so its devices stay.  main of the new process
\* (VusbServerInit, VusbServerOpenDriver, VusbServerRun) starts with no
\* sessions and does not look at the driver's devices.
Restart ==
    /\ Clients' = {}
    /\ NextSessionId' = 0
    /\ ClientDevices' = [s \in SessionIds |-> [i \in Entries |-> 0]]
    /\ attachReply' = [s \in SessionIds |-> NoReply]
    /\ stale' = DrvDevices
    /\ UNCHANGED DrvDevices

\* Ids a DEVICE_DETACH may carry: its own tracked ids, or any 32-bit value
\* (0 and ids past VUSB_MAX_DEVICES only fail in the driver, so one of them stands
\* for all).
DetachIds(s) == IF ForeignDetach THEN 0..(MaxDevices + 1) ELSE Tracked(s)

Next ==
    \/ Accept
    \/ AcceptRetry
    \/ Restart
    \/ \E s \in SessionIds :
          \/ Attach(s)
          \/ \E d \in DetachIds(s) : Detach(s, d)
          \/ Disconnect(s)

Spec == Init /\ [][Next]_vars

-----------------------------------------------------------------------------
(* Properties.                                                             *)

TypeOK ==
    /\ DrvDevices \subseteq DevIds
    /\ Clients \subseteq SessionIds /\ Cardinality(Clients) <= MaxClients
    /\ NextSessionId \in 0..MaxSessions
    /\ ClientDevices \in [SessionIds -> [Entries -> 0..MaxDevices]]
    /\ attachReply \in [SessionIds -> {NoReply} \cup [status : {"SUCCESS", "ERROR"}, dev : 0..MaxDevices]]
    /\ stale \subseteq DrvDevices

\* One owner (spec: every active device id has exactly one owning session):
\* each device the running server process created is held by exactly one
\* entry of one live session's client->Devices, and every entry of a live
\* session names a device the driver still has.  Attach, detach and
\* disconnect of several sessions, with id reuse by the driver and across
\* restarts, must keep both.  Devices left by an earlier process are
\* NoStaleDevices' concern.
OneOwner ==
    /\ \A d \in DrvDevices \ stale :
          Cardinality({<<s, i>> \in Clients \X Entries : ClientDevices[s][i] = d}) = 1
    /\ \A s \in Clients : Tracked(s) \subseteq DrvDevices

\* A DEVICE_ATTACH answered with SUCCESS names a device that was created
\* (spec: a full registry is reported with Error status, TooManyDevices).
AttachSuccessNamesDevice ==
    \A s \in SessionIds : attachReply[s].status = "SUCCESS" => attachReply[s].dev # 0

\* Shutdown leaves no device behind (spec 5: server shutdown closes every
\* session; 4.4: a closing session detaches every device it owns): once the
\* server process has ended and a new one runs, the driver holds no device
\* of the old process.
NoStaleDevices == stale = {}
=============================================================================
