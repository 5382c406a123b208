------------------------------ MODULE UsServer ------------------------------
(***************************************************************************)
(* The userspace server, userspace/vusb_userspace.c: the device registry   *)
(* ctx->Devices[] with its per-device pending-URB lists, the sessions in   *)
(* ctx->Clients[] each served by its own ClientThread, and the host-side   *)
(* URB API (VusbUsSubmitUrb, VusbUsCancelUrb) called by other threads.    *)
(*                                                                         *)
(* A session thread handles one message at a time; the messages that      *)
(* change server state are DEVICE_ATTACH, DEVICE_DETACH and URB_COMPLETE;  *)
(* every way out of the receive loop (peer close, bad header, oversized    *)
(* payload, DISCONNECT) ends in the same cleanup.  Replies, logging,       *)
(* descriptors and transfer data are left out: no property reads them.    *)
(*                                                                         *)
(* Two steps are split where the code drops or never takes a lock between  *)
(* them: HandleDeviceAttach creates the device under DeviceLock and sets   *)
(* its owner afterwards, and the host API looks the device up without      *)
(* DeviceLock before it takes the device's UrbLock.                        *)
(***************************************************************************)
EXTENDS Naturals, FiniteSets

CONSTANTS
    MaxDevices,    \* VUSB_US_MAX_DEVICES: slots of ctx->Devices and of client->DeviceIds
    MaxClients,    \* VUSB_US_MAX_CLIENTS: slots of ctx->Clients
    MaxSessions,   \* bound on ctx->NextSessionId (connections ever accepted)
    MaxDeviceIds,  \* bound on ctx->NextDeviceId (devices ever created)
    MaxSubmits,    \* bound on URBs submitted through VusbUsSubmitUrb
    RemoteIds,     \* DeviceInfo.DeviceId values clients put in DEVICE_ATTACH
    Hosts          \* threads calling the host URB API

ASSUME MaxDevices \in Nat \ {0} /\ MaxClients \in Nat \ {0}
ASSUME RemoteIds \subseteq Nat

NULL == 0                    \* OwnerClient not yet set; also "the host API" as a completer
Slots == 1..MaxDevices
SessionIds == 1..MaxSessions
Toks == 1..MaxSubmits        \* identity of a host URB (the caller's PVUSB_US_PENDING_URB)
UrbIds == 1..MaxSubmits

VARIABLES
    Devices,        \* ctx->Devices[]
    NextDeviceId,   \* ctx->NextDeviceId
    NextSessionId,  \* ctx->NextSessionId
    Clients,        \* sessions present in ctx->Clients[]
    DeviceIds,      \* client->DeviceIds[0 .. DeviceCount-1]
    attaching,      \* HandleDeviceAttach after VusbUsCreateDevice, before ownership is set
    hostOp,         \* a host API call after VusbUsGetDevice, before UrbLock is taken
    target,         \* history: device id each host URB was submitted for (0: not yet)
    completions,    \* history: how often each host URB was completed
    completedBy,    \* history: each completion, who made it and the device's owner then
    phase           \* "running" until VusbUsStop; "exited" once VusbUsCleanup has run

vars == <<Devices, NextDeviceId, NextSessionId, Clients, DeviceIds,
          attaching, hostOp, target, completions, completedBy, phase>>

UrbRec == [tok : Toks, UrbId : UrbIds]

DeviceRec == [Active : BOOLEAN, DeviceId : 0..MaxDeviceIds,
              OwnerClient : {NULL} \cup SessionIds, RemoteDeviceId : {0} \cup RemoteIds,
              NextUrbId : 0..MaxSubmits, PendingUrbs : SUBSET UrbRec]

NoAttach == [dev |-> 0, remote |-> 0]
Idle == [op |-> "idle", slot |-> 1, dev |-> 0, urb |-> 0]

-----------------------------------------------------------------------------
(* Helpers of vusb_userspace.c.                                            *)

\* FindFreeDeviceSlot: the first inactive slot.
FindFreeDeviceSlot == CHOOSE i \in Slots : ~Devices[i].Active /\ \A j \in 1..(i-1) : Devices[j].Active

\* VusbUsGetDevice: the active slot holding deviceId, if any.
GetDevice(d) == {i \in Slots : Devices[i].Active /\ Devices[i].DeviceId = d}

\* CleanupDevice: frees every pending URB (no completion, no event) and deactivates.
CleanupDevice(dev) == [dev EXCEPT !.PendingUrbs = {}, !.Active = FALSE]

\* VusbUsDestroyDevice: under DeviceLock, CleanupDevice on slot i, the
\* active slot holding the id (the caller has found it with GetDevice).
DestroyDevice(devs, i) == [devs EXCEPT ![i] = CleanupDevice(@)]

\* Mutation of CompleteUrb: the URB is completed but never unlinked.
CompleteUrb_NoUnlink(i, u, by) ==
    \/ \E rec \in Devices[i].PendingUrbs :
          /\ rec.UrbId = u
          /\ completions' = [completions EXCEPT ![rec.tok] = @ + 1]
          /\ completedBy' = completedBy \cup
                {[tok |-> rec.tok, by |-> by, owner |-> Devices[i].OwnerClient]}
          /\ UNCHANGED Devices
    \/ /\ \A rec \in Devices[i].PendingUrbs : rec.UrbId # u
       /\ UNCHANGED <<Devices, completions, completedBy, phase>>

\* VusbUsCompleteUrb on a slot already resolved: find by UrbId, complete once, unlink.
\* An unknown urbId returns -1 and changes nothing.
CompleteUrb(i, u, by) ==
    \/ \E rec \in Devices[i].PendingUrbs :
          /\ rec.UrbId = u
          /\ Devices' = [Devices EXCEPT ![i].PendingUrbs = @ \ {rec}]
          /\ completions' = [completions EXCEPT ![rec.tok] = @ + 1]
          /\ completedBy' = completedBy \cup
                {[tok |-> rec.tok, by |-> by, owner |-> Devices[i].OwnerClient]}
    \/ /\ \A rec \in Devices[i].PendingUrbs : rec.UrbId # u
       /\ UNCHANGED <<Devices, completions, completedBy, phase>>

Submitted == {t \in Toks : target[t] # 0}
InFlightSubmits == {h \in Hosts : hostOp[h].op = "submit"}

-----------------------------------------------------------------------------
Init ==
    /\ Devices = [i \in Slots |-> [Active |-> FALSE, DeviceId |-> 0, OwnerClient |-> NULL,
                                   RemoteDeviceId |-> 0, NextUrbId |-> 0, PendingUrbs |-> {}]]
    /\ NextDeviceId = 0
    /\ NextSessionId = 0
    /\ Clients = {}
    /\ DeviceIds = [s \in SessionIds |-> {}]
    /\ attaching = [s \in SessionIds |-> NoAttach]
    /\ hostOp = [h \in Hosts |-> Idle]
    /\ target = [t \in Toks |-> 0]
    /\ completions = [t \in Toks |-> 0]
    /\ completedBy = {}
    /\ phase = "running"

\* Mutation of Accept: the client is added without looking for a free slot.
Accept_NoFullCheck ==
    /\ phase = "running"
    /\ NextSessionId < MaxSessions
    /\ NextSessionId' = NextSessionId + 1
    /\ Clients' = Clients \cup {NextSessionId + 1}
    /\ UNCHANGED <<Devices, NextDeviceId, DeviceIds, attaching, hostOp,
                   target, completions, completedBy, phase>>

\* VusbUsRun accept loop: a new session takes the next SessionId; it is dropped
\* when ctx->Clients is full or CreateThread fails.
Accept ==
    /\ phase = "running"
    /\ NextSessionId < MaxSessions
    /\ NextSessionId' = NextSessionId + 1
    /\ \/ /\ Cardinality(Clients) < MaxClients
          /\ Clients' = Clients \cup {NextSessionId + 1}
       \/ UNCHANGED Clients
    /\ UNCHANGED <<Devices, NextDeviceId, DeviceIds, attaching, hostOp,
                   target, completions, completedBy, phase>>

\* VusbUsRun accept loop: select times out or accept fails; the loop continues.
AcceptRetry == phase = "running" /\ UNCHANGED vars

SessionIdle(s) == s \in Clients /\ attaching[s] = NoAttach

\* A session thread that can take a new message: ClientThread's loop runs
\* while client->Connected && ctx->Running; no thread step is modelled after
\* Shutdown (see there).
Receiving(s) == SessionIdle(s) /\ phase = "running"

\* Mutation of AttachCreate: slot reuse resets NextUrbId but keeps the old list.
AttachCreate_KeepPending(s, r) ==
    /\ Receiving(s)
    /\ \E i \in Slots : ~Devices[i].Active
    /\ NextDeviceId < MaxDeviceIds
    /\ Devices' = [Devices EXCEPT ![FindFreeDeviceSlot] =
                     [Active |-> TRUE, DeviceId |-> NextDeviceId + 1, OwnerClient |-> NULL,
                      RemoteDeviceId |-> 0, NextUrbId |-> 0, PendingUrbs |-> @.PendingUrbs]]
    /\ NextDeviceId' = NextDeviceId + 1
    /\ attaching' = [attaching EXCEPT ![s] = [dev |-> NextDeviceId + 1, remote |-> r]]
    /\ UNCHANGED <<NextSessionId, Clients, DeviceIds, hostOp, target, completions, completedBy, phase>>

\* HandleDeviceAttach, first half: VusbUsCreateDevice under DeviceLock.
AttachCreate(s, r) ==
    /\ Receiving(s)
    /\ \E i \in Slots : ~Devices[i].Active
    /\ NextDeviceId < MaxDeviceIds
    /\ Devices' = [Devices EXCEPT ![FindFreeDeviceSlot] =
                     [Active |-> TRUE, DeviceId |-> NextDeviceId + 1, OwnerClient |-> NULL,
                      RemoteDeviceId |-> 0, NextUrbId |-> 0, PendingUrbs |-> {}]]
    /\ NextDeviceId' = NextDeviceId + 1
    /\ attaching' = [attaching EXCEPT ![s] = [dev |-> NextDeviceId + 1, remote |-> r]]
    /\ UNCHANGED <<NextSessionId, Clients, DeviceIds, hostOp, target, completions, completedBy, phase>>

\* HandleDeviceAttach, second half: set owner and remote id, then track the
\* device in client->DeviceIds while DeviceCount < VUSB_US_MAX_DEVICES.
AttachOwn(s) ==
    /\ attaching[s] # NoAttach /\ phase = "running"
    /\ LET a == attaching[s] IN
       /\ Devices' = [i \in Slots |->
                        IF i \in GetDevice(a.dev)
                        THEN [Devices[i] EXCEPT !.OwnerClient = s, !.RemoteDeviceId = a.remote]
                        ELSE Devices[i]]
       /\ DeviceIds' = IF Cardinality(DeviceIds[s]) < MaxDevices
                       THEN [DeviceIds EXCEPT ![s] = @ \cup {a.dev}]
                       ELSE DeviceIds
    /\ attaching' = [attaching EXCEPT ![s] = NoAttach]
    /\ UNCHANGED <<NextDeviceId, NextSessionId, Clients, hostOp, target, completions, completedBy, phase>>

\* Mutation of Detach: the device is destroyed but stays in client->DeviceIds.
Detach_NoUntrack(s, d) ==
    /\ Receiving(s)
    /\ \E i \in GetDevice(d) :
          /\ Devices[i].OwnerClient = s
          /\ Devices' = [Devices EXCEPT ![i] = CleanupDevice(@)]
    /\ UNCHANGED <<NextDeviceId, NextSessionId, Clients, DeviceIds, attaching, hostOp,
                   target, completions, completedBy, phase>>

\* HandleDeviceDetach: only the owner's request destroys the device
\* (VusbUsDestroyDevice -> CleanupDevice) and drops it from DeviceIds.
Detach(s, d) ==
    /\ Receiving(s)
    /\ \E i \in GetDevice(d) :
          /\ Devices[i].OwnerClient = s
          /\ Devices' = DestroyDevice(Devices, i)
    /\ DeviceIds' = [DeviceIds EXCEPT ![s] = @ \ {d}]
    /\ UNCHANGED <<NextDeviceId, NextSessionId, Clients, attaching, hostOp,
                   target, completions, completedBy, phase>>

\* HandleUrbComplete: under DeviceLock, the first active device of any session
\* whose RemoteDeviceId equals the message's DeviceId gets VusbUsCompleteUrb.
UrbComplete(s, r, u) ==
    /\ Receiving(s)
    /\ \E i \in Slots :
          /\ Devices[i].Active /\ Devices[i].RemoteDeviceId = r
          /\ \A j \in 1..(i-1) : ~(Devices[j].Active /\ Devices[j].RemoteDeviceId = r)
          /\ CompleteUrb(i, u, s)
    /\ UNCHANGED <<NextDeviceId, NextSessionId, Clients, DeviceIds, attaching, hostOp, target, phase>>

\* ClientThread cleanup: CleanupDevice for every tracked device, under
\* DeviceLock, then removal from ctx->Clients.
Teardown(s) ==
    /\ SessionIdle(s) /\ phase = "running"
    /\ Devices' = [i \in Slots |->
                     IF Devices[i].Active /\ Devices[i].DeviceId \in DeviceIds[s]
                     THEN CleanupDevice(Devices[i]) ELSE Devices[i]]
    /\ Clients' = Clients \ {s}
    /\ DeviceIds' = [DeviceIds EXCEPT ![s] = {}]   \* free(client)
    /\ UNCHANGED <<NextDeviceId, NextSessionId, attaching, hostOp,
                   target, completions, completedBy, phase>>

\* VusbUsSubmitUrb / VusbUsCancelUrb, first half: VusbUsGetDevice, no lock held.
HostLookup(h, d, op, u) ==
    /\ hostOp[h] = Idle /\ phase = "running"
    /\ op = "submit" => Cardinality(Submitted) + Cardinality(InFlightSubmits) < MaxSubmits
    /\ \E i \in GetDevice(d) : hostOp' = [hostOp EXCEPT ![h] = [op |-> op, slot |-> i, dev |-> d, urb |-> u]]
    /\ UNCHANGED <<Devices, NextDeviceId, NextSessionId, Clients, DeviceIds, attaching,
                   target, completions, completedBy, phase>>

\* VusbUsSubmitUrb, second half: under the slot's UrbLock, UrbId = ++NextUrbId,
\* insert at the head of PendingUrbs; the slot is not checked again.
HostSubmit(h) ==
    /\ hostOp[h].op = "submit" /\ phase = "running"
    /\ LET i == hostOp[h].slot
           t == CHOOSE x \in Toks : x \notin Submitted /\ \A y \in 1..(x-1) : y \in Submitted
       IN /\ Devices' = [Devices EXCEPT ![i].NextUrbId = @ + 1,
                           ![i].PendingUrbs = @ \cup {[tok |-> t, UrbId |-> Devices[i].NextUrbId + 1]}]
          /\ target' = [target EXCEPT ![t] = hostOp[h].dev]
    /\ hostOp' = [hostOp EXCEPT ![h] = Idle]
    /\ UNCHANGED <<NextDeviceId, NextSessionId, Clients, DeviceIds, attaching, completions, completedBy, phase>>

\* VusbUsCancelUrb, second half: VusbUsCompleteUrb(..., VUSB_STATUS_CANCELED).
HostCancel(h) ==
    /\ hostOp[h].op = "cancel" /\ phase = "running"
    /\ CompleteUrb(hostOp[h].slot, hostOp[h].urb, NULL)
    /\ hostOp' = [hostOp EXCEPT ![h] = Idle]
    /\ UNCHANGED <<NextDeviceId, NextSessionId, Clients, DeviceIds, attaching, target, phase>>

\* Shutdown: VusbUsStop, from the console handler (Ctrl+C) or the console
\* thread's 'q', clears ctx->Running and closes the listen socket, so the
\* accept loop of VusbUsRun ends.  VusbUsRun then sets each client's
\* Connected to FALSE without closing its socket and waits at most 5 s for
\* its thread; a thread blocked in recv does not wake, so the wait can end
\* with sessions still present.  main then calls VusbUsCleanup, which runs
\* CleanupDevice on every active slot and deletes the locks, and returns.
\* No thread step is taken between VusbUsStop and VusbUsCleanup in the model:
\* each one commutes with VusbUsStop, which writes only Running.
Shutdown ==
    /\ phase = "running"
    /\ phase' = "exited"
    /\ Devices' = [i \in Slots |-> IF Devices[i].Active THEN CleanupDevice(Devices[i]) ELSE Devices[i]]
    /\ UNCHANGED <<NextDeviceId, NextSessionId, Clients, DeviceIds, attaching,
                   hostOp, target, completions, completedBy>>

\* The process has exited.
Exited == phase = "exited" /\ UNCHANGED vars

Next ==
    \/ Shutdown
    \/ Exited
    \/ Accept
    \/ AcceptRetry
    \/ \E s \in SessionIds :
          \/ \E r \in RemoteIds : AttachCreate(s, r)
          \/ AttachOwn(s)
          \/ \E d \in 1..NextDeviceId : Detach(s, d)
          \/ \E r \in RemoteIds \cup {0}, u \in UrbIds : UrbComplete(s, r, u)
          \/ Teardown(s)
    \/ \E h \in Hosts :
          \/ \E d \in 1..NextDeviceId, u \in UrbIds :
                \/ HostLookup(h, d, "submit", 0)
                \/ HostLookup(h, d, "cancel", u)
          \/ HostSubmit(h)
          \/ HostCancel(h)

Spec == Init /\ [][Next]_vars

-----------------------------------------------------------------------------
(* Properties.                                                             *)

TypeOK ==
    /\ Devices \in [Slots -> DeviceRec]
    /\ NextDeviceId \in 0..MaxDeviceIds /\ NextSessionId \in 0..MaxSessions
    /\ Clients \subseteq SessionIds /\ Cardinality(Clients) <= MaxClients
    /\ DeviceIds \in [SessionIds -> SUBSET (1..MaxDeviceIds)]
    /\ attaching \in [SessionIds -> {NoAttach} \cup [dev : 1..MaxDeviceIds, remote : RemoteIds]]
    /\ hostOp \in [Hosts -> {Idle} \cup [op : {"submit", "cancel"}, slot : Slots,
                                         dev : 1..MaxDeviceIds, urb : {0} \cup UrbIds]]
    /\ target \in [Toks -> 0..MaxDeviceIds]
    /\ completions \in [Toks -> Nat]
    /\ phase \in {"running", "exited"}

\* Ownership closure (HandleDeviceAttach, HandleDeviceDetach, ClientThread
\* cleanup): a live session tracks exactly the active devices it owns, and
\* every active device whose attach has finished is owned by a live session;
\* this holds until VusbUsCleanup frees the devices under the sessions.
OwnershipClosure ==
    phase # "exited" =>
        /\ \A s \in Clients : \A d \in DeviceIds[s] :
              \E i \in GetDevice(d) : Devices[i].OwnerClient = s
        /\ \A i \in Slots :
              Devices[i].Active /\ Devices[i].OwnerClient = NULL =>
                 \E s \in Clients : attaching[s].dev = Devices[i].DeviceId
        /\ \A i \in Slots :
              Devices[i].Active /\ Devices[i].OwnerClient # NULL =>
                 /\ Devices[i].OwnerClient \in Clients
                 /\ Devices[i].DeviceId \in DeviceIds[Devices[i].OwnerClient]

\* The pending-URB table that ctx->Devices[].PendingUrbs form together, keyed
\* by the slot's DeviceId and the entry's UrbId; inactive slots included,
\* since VusbUsSubmitUrb can still link a URB into one.
PendingTable ==
    UNION {{[dev |-> Devices[i].DeviceId, id |-> r.UrbId, tok |-> r.tok] : r \in Devices[i].PendingUrbs}
           : i \in Slots}

Table == INSTANCE UrbTable WITH
    Devs <- 0..MaxDeviceIds, Ids <- UrbIds,
    table <- PendingTable, inserted <- Submitted, completions <- completions

\* The userspace server implements the pending-URB table (spec 4.3, less the
\* completion on purge): every step of the sessions and of the host API
\* threads - submits through a stale lookup, completions by UrbId under
\* UrbLock, host cancels, slot reuse by VusbUsCreateDevice, teardown - either
\* leaves the table alone or inserts a fresh URB under an unused key,
\* completes and unlinks exactly one entry, or discards whole devices.  So
\* no URB is completed twice, none is completed without being pending, and
\* no entry changes its key or URB in place.
UrbTableRefined == Table!Spec

\* Detach cancels all (spec: destruction cancels every pending URB): every
\* submitted URB is pending on an active device or has been completed.
NoSilentDrop ==
    \A t \in Submitted :
       \/ completions[t] > 0
       \/ \E i \in Slots : Devices[i].Active /\ \E rec \in Devices[i].PendingUrbs : rec.tok = t

\* URB_COMPLETE from a session completes only URBs of devices that session owns.
CompletionByOwner == \A c \in completedBy : c.by # NULL => c.by = c.owner
=============================================================================
