------------------------------ MODULE UrbPath ------------------------------
(***************************************************************************)
(* The path of a URB through the driver-backed system:                     *)
(*   - the kernel driver's PendingUrbList and its GET_PENDING_URB and      *)
(*     COMPLETE_URB IOCTLs (driver/vusb_device.c, driver/vusb_ioctl.c);    *)
(*   - the server's URB forwarder thread (server/vusb_server_urb.c);       *)
(*   - the TCP stream to one client and the enhanced client's receive      *)
(*     thread (client/vusb_client_enhanced.c, client/vusb_client_urb.c);   *)
(*   - the stream back and the server session thread's URB_COMPLETE        *)
(*     handler (server/vusb_server.c).                                     *)
(*                                                                         *)
(* No code in the repository creates a URB entry from the USB stack        *)
(* (VusbUrbCreate has no caller), and ServerUrbInit and ServerUrbStart      *)
(* have no caller either.  A URB's arrival is therefore an environment     *)
(* step standing for the host-controller submitter, and the forwarder is   *)
(* modelled as it runs once started.                                       *)
(*                                                                         *)
(* Devices are fixed during a behaviour: Binding[d] is the RemoteId that   *)
(* the session tracking driver device d recorded at attach (0: no session  *)
(* tracks d), and LocalIds are the client's captured devices.              *)
(***************************************************************************)
EXTENDS Naturals, Sequences, SequencesExt

CONSTANTS
    MaxUrbs,     \* bound on DeviceContext->NextUrbId
    DrvDevs,     \* driver device ids present
    Binding,     \* [DrvDevs -> Nat]: RemoteId of the tracking entry, 0 if none
    LocalIds,    \* LocalIds of the client's captured devices
    Shapes       \* the URB sizes the submitter may queue (see Shape)

\* A URB's size, as far as the frame limits tell sizes apart:
\*   "fit"    its SUBMIT_URB and its URB_COMPLETE fit in one frame;
\*   "outBig" OUT data larger than the forwarder's VUSB_MAX_PACKET_SIZE
\*            buffer for IOCTL_VUSB_GET_PENDING_URB;
\*   "inBig"  an IN buffer larger than VUSB_MAX_PACKET_SIZE - 16 - 20
\*            bytes (a 64 KiB bulk read), so the device may return more
\*            data than one URB_COMPLETE frame may carry.
Shape == {"fit", "outBig", "inBig"}

ASSUME Binding \in [DrvDevs -> Nat] /\ Shapes \subseteq Shape

UrbIds == 1..MaxUrbs

VARIABLES
    drvList,     \* DeviceContext->PendingUrbList, head first
    NextUrbId,   \* DeviceContext->NextUrbId
    urbDev,      \* UrbEntry->DeviceId
    urbShape,    \* the URB's Shape
    fwd,         \* forwarder thread: idle, parked on an overlapped IOCTL, holding a
                 \* URB, or holding a URB and the client pointer it looked up
    sessionUp,   \* the client's session: in ctx->Clients, Connected, socket open
    srvPending,  \* ctx->PendingList of the forwarder (UrbIds)
    toClient,    \* SUBMIT_URB frames in the server->client stream
    toServer,    \* URB_COMPLETE frames in the client->server stream: [urb, over]
    framed,      \* history: UrbIds in the order they were framed as SUBMIT_URB
    executedOn,  \* history: the client devices each URB's transfer ran on
    delivered,   \* history: URB_COMPLETEs the session thread has handled
    completed,   \* history: URBs whose original request the driver completed
    cancelled    \* history: URBs that IOCTL_VUSB_CANCEL_URB found and completed

vars == <<drvList, NextUrbId, urbDev, urbShape, fwd, sessionUp, srvPending,
          toClient, toServer, framed, executedOn, delivered, completed, cancelled>>

Idle == [st |-> "idle", urb |-> 0]
Created == 1..NextUrbId

-----------------------------------------------------------------------------
(* Driver.                                                                 *)

\* VusbFindUrb followed by VusbCompleteUrb: the entry is searched in
\* PendingUrbList by UrbId only; if found it is unlinked and its request
\* completed, otherwise STATUS_NOT_FOUND and nothing changes.
DriverComplete(u) ==
    IF Contains(drvList, u)
    THEN /\ drvList' = Remove(drvList, u)
         /\ completed' = completed \cup {u}
    ELSE UNCHANGED <<drvList, completed>>

\* The host-controller submitter: VusbUrbCreate (UrbId = ++NextUrbId) and
\* VusbQueueUrb (InsertTailList).
Submit(d, shape) ==
    /\ NextUrbId < MaxUrbs
    /\ NextUrbId' = NextUrbId + 1
    /\ urbDev' = [urbDev EXCEPT ![NextUrbId + 1] = d]
    /\ urbShape' = [urbShape EXCEPT ![NextUrbId + 1] = shape]
    /\ drvList' = Append(drvList, NextUrbId + 1)
    /\ UNCHANGED <<fwd, sessionUp, srvPending, toClient, toServer, framed, executedOn,
                   delivered, completed, cancelled>>

\* Mutation of Cancel: the URB is completed but stays in PendingUrbList.
Cancel_KeepEntry(u) ==
    /\ Contains(drvList, u)
    /\ completed' = completed \cup {u}
    /\ cancelled' = cancelled \cup {u}
    /\ UNCHANGED <<drvList, NextUrbId, urbDev, urbShape, sessionUp, fwd, srvPending, toClient,
                   toServer, framed, executedOn, delivered>>

\* IOCTL_VUSB_CANCEL_URB from any caller of the control device:
\* VusbHandleCancelUrb, then VusbCancelUrb, which completes the entry with
\* STATUS_CANCELLED if VusbFindUrb finds it in PendingUrbList.  Nothing in
\* the repository sends this IOCTL, so it is an environment step.
Cancel(u) ==
    /\ DriverComplete(u)
    /\ cancelled' = IF Contains(drvList, u) THEN cancelled \cup {u} ELSE cancelled
    /\ UNCHANGED <<NextUrbId, urbDev, urbShape, sessionUp, fwd, srvPending, toClient, toServer,
                   framed, executedOn, delivered>>

-----------------------------------------------------------------------------
(* Forwarder thread, UrbForwarderThread.                                   *)

\* Mutation of FwdGetPending: the requeue path does not return.
FwdGetPending_NoReturn ==
    /\ fwd = Idle
    /\ \/ /\ drvList # <<>>
          /\ LET u == Head(drvList) IN
             IF urbShape[u] = "outBig"
             THEN /\ drvList' = Append(Tail(drvList), u)
                  /\ fwd' = [st |-> "hold", urb |-> u]
             ELSE /\ drvList' = Tail(drvList)
                  /\ fwd' = [st |-> "hold", urb |-> u]
       \/ /\ drvList = <<>>
          /\ fwd' = [st |-> "parked", urb |-> 0]
          /\ UNCHANGED drvList
    /\ UNCHANGED <<NextUrbId, urbDev, urbShape, sessionUp, srvPending, toClient, toServer,
                   framed, executedOn, delivered, completed, cancelled>>

\* Mutation of FwdGetPending: the URB is taken from the tail of the list.
FwdGetPending_Tail ==
    /\ fwd = Idle
    /\ \/ /\ drvList # <<>>
          /\ LET u == drvList[Len(drvList)] IN
             IF urbShape[u] = "outBig"
             THEN /\ drvList' = Append(Front(drvList), u)
                  /\ UNCHANGED fwd
             ELSE /\ drvList' = Front(drvList)
                  /\ fwd' = [st |-> "hold", urb |-> u]
       \/ /\ drvList = <<>>
          /\ fwd' = [st |-> "parked", urb |-> 0]
          /\ UNCHANGED drvList
    /\ UNCHANGED <<NextUrbId, urbDev, urbShape, sessionUp, srvPending, toClient, toServer,
                   framed, executedOn, delivered, completed, cancelled>>

\* Mutation of FwdGetPending: a URB too large is put back at the head.
FwdGetPending_RequeueHead ==
    /\ fwd = Idle
    /\ \/ /\ drvList # <<>>
          /\ LET u == Head(drvList) IN
             IF urbShape[u] = "outBig"
             THEN UNCHANGED <<drvList, fwd>>
             ELSE /\ drvList' = Tail(drvList)
                  /\ fwd' = [st |-> "hold", urb |-> u]
       \/ /\ drvList = <<>>
          /\ fwd' = [st |-> "parked", urb |-> 0]
          /\ UNCHANGED drvList
    /\ UNCHANGED <<NextUrbId, urbDev, urbShape, sessionUp, srvPending, toClient, toServer,
                   framed, executedOn, delivered, completed, cancelled>>

\* DeviceIoControl(IOCTL_VUSB_GET_PENDING_URB) on the driver's sequential
\* queue, VusbHandleGetPendingUrb:
\*   - VusbDequeueUrb removes the head of PendingUrbList (the entry is NOT
\*     kept in the list, whatever the comment after the copy says);
\*   - a URB whose OUT data does not fit in the buffer is put back with
\*     VusbQueueUrb (at the tail) and the IOCTL fails: Sleep(100), continue;
\*   - otherwise the forwarder receives it;
\*   - an empty list forwards the request to PendingUrbQueue: ERROR_IO_PENDING.
FwdGetPending ==
    /\ fwd = Idle
    /\ \/ /\ drvList # <<>>
          /\ LET u == Head(drvList) IN
             IF urbShape[u] = "outBig"
             THEN /\ drvList' = Append(Tail(drvList), u)
                  /\ UNCHANGED fwd
             ELSE /\ drvList' = Tail(drvList)
                  /\ fwd' = [st |-> "hold", urb |-> u]
       \/ /\ drvList = <<>>
          /\ fwd' = [st |-> "parked", urb |-> 0]
          /\ UNCHANGED drvList
    /\ UNCHANGED <<NextUrbId, urbDev, urbShape, sessionUp, srvPending, toClient, toServer,
                   framed, executedOn, delivered, completed, cancelled>>

\* WaitForSingleObject(..., 100) times out: CancelIoEx, ResetEvent, continue.
\* Nothing ever completes a request parked in PendingUrbQueue except this
\* cancel, so the wait never ends with WAIT_OBJECT_0.
FwdTimeout ==
    /\ fwd.st = "parked"
    /\ fwd' = Idle
    /\ UNCHANGED <<drvList, NextUrbId, urbDev, urbShape, sessionUp, srvPending, toClient,
                   toServer, framed, executedOn, delivered, completed, cancelled>>

\* ServerUrbFindClientForDevice: under ClientLock, a client in ctx->Clients
\* that is Connected and has an active entry whose DeviceId is d.
HasClient(d) == sessionUp /\ Binding[d] # 0

\* ServerUrbForward, up to the lookup: no client for the device:
\* IOCTL_VUSB_COMPLETE_URB with NO_DEVICE.  Otherwise the forwarder keeps
\* the client pointer, after ClientLock is released, and builds the frame.
FwdForward ==
    /\ fwd.st = "hold"
    /\ LET u == fwd.urb IN
       IF HasClient(urbDev[u])
       THEN /\ fwd' = [st |-> "send", urb |-> u]
            /\ UNCHANGED <<drvList, completed>>
       ELSE /\ DriverComplete(u)
            /\ fwd' = Idle
    /\ UNCHANGED <<NextUrbId, urbDev, urbShape, sessionUp, srvPending, toClient, toServer,
                   framed, executedOn, delivered, cancelled>>

\* ServerUrbForward, the rest: the URB is tracked at the head of
\* ctx->PendingList and SUBMIT_URB, its DeviceId field set to the driver's
\* DeviceId, is sent on client->Socket.  If the session thread has ended
\* meanwhile, client was freed by VusbServerDisconnectClient; its Socket,
\* set to INVALID_SOCKET before the free, makes send() fail: the URB stays
\* tracked and no frame is written.
FwdSend ==
    /\ fwd.st = "send"
    /\ LET u == fwd.urb IN
       /\ srvPending' = srvPending \cup {u}
       /\ IF sessionUp
          THEN /\ toClient' = Append(toClient, u)
               /\ framed' = Append(framed, u)
          ELSE UNCHANGED <<toClient, framed>>
    /\ fwd' = Idle
    /\ UNCHANGED <<drvList, NextUrbId, urbDev, urbShape, sessionUp, toServer, executedOn,
                   delivered, completed, cancelled>>

-----------------------------------------------------------------------------
(* Client receive thread and server session thread.                       *)

\* A URB_COMPLETE for URB u; over: its payload, 20 bytes and the data,
\* exceeds VUSB_MAX_PACKET_SIZE - sizeof(VUSB_HEADER).
Answer(u, over) == [urb |-> u, over |-> over]

\* ClientUrbProcess mallocs TransferBufferLength bytes for an IN transfer and
\* SendUrbCompletion frames whatever the device returned into them, with
\* no bound of its own: the data exceeds a frame only for an "inBig" URB
\* that ran on a device.  Which one happens depends on the device.
AnswerSizes(u) ==
    IF urbShape[u] = "inBig" /\ urbDev[u] \in LocalIds THEN BOOLEAN ELSE {FALSE}

\* Mutation of ClientReceive: a URB for an unknown device is not answered.
ClientReceive_NoDevSilent ==
    /\ toClient # <<>>
    /\ LET u == Head(toClient) IN
       /\ executedOn' = [executedOn EXCEPT ![u] = {urbDev[u]} \cap LocalIds]
       /\ toServer' = IF urbDev[u] \in LocalIds THEN Append(toServer, Answer(u, FALSE))
                     ELSE toServer
    /\ toClient' = Tail(toClient)
    /\ UNCHANGED <<drvList, NextUrbId, urbDev, urbShape, sessionUp, fwd, srvPending, framed,
                   delivered, completed, cancelled>>

\* Mutation of ClientReceive: the transfer runs without the device lookup.
ClientReceive_NoLookup ==
    /\ toClient # <<>>
    /\ LET u == Head(toClient) IN
       /\ executedOn' = [executedOn EXCEPT ![u] = {urbDev[u]}]
       /\ toServer' = Append(toServer, Answer(u, FALSE))
    /\ toClient' = Tail(toClient)
    /\ UNCHANGED <<drvList, NextUrbId, urbDev, urbShape, sessionUp, fwd, srvPending, framed,
                   delivered, completed, cancelled>>

\* ReceiveThread reads one SUBMIT_URB; ProcessServerMessage calls
\* ClientUrbProcess, which looks the frame's DeviceId up among the client's
\* LocalIds (UsbCaptureFindDevice).  Not found: URB_COMPLETE with NO_DEVICE.
\* Found: the transfer runs on that device and URB_COMPLETE carries its
\* status and the data read.  Every path sends exactly one URB_COMPLETE;
\* once the server has closed the session, send() fails.
ClientReceive ==
    /\ toClient # <<>>
    /\ LET u == Head(toClient) IN
       /\ executedOn' = [executedOn EXCEPT ![u] = {urbDev[u]} \cap LocalIds]
       /\ \E over \in AnswerSizes(u) :
             toServer' = IF sessionUp THEN Append(toServer, Answer(u, over)) ELSE toServer
    /\ toClient' = Tail(toClient)
    /\ UNCHANGED <<drvList, NextUrbId, urbDev, urbShape, sessionUp, fwd, srvPending, framed,
                   delivered, completed, cancelled>>

\* VusbClientThread's check after the header: a payload longer than
\* VUSB_MAX_PACKET_SIZE - sizeof(header) is "Payload too large".
PayloadTooLarge(m) == m.over

\* VusbClientThread leaves its loop: Connected = FALSE, and
\* VusbServerDisconnectClient removes the client from ctx->Clients, unplugs
\* its devices and closes the socket; what the client sent after is never
\* read.  The driver devices' URBs stay in PendingUrbList.
SessionClose ==
    /\ sessionUp' = FALSE
    /\ toServer' = <<>>

\* VusbClientThread reads one URB_COMPLETE.  Too large: the session ends.
\* Otherwise VusbServerHandleUrbComplete forwards it to the driver as
\* IOCTL_VUSB_COMPLETE_URB.  ServerUrbComplete, which would unlink the URB
\* from the forwarder's PendingList, is not called.
ServerReceive ==
    /\ sessionUp
    /\ toServer # <<>>
    /\ LET m == Head(toServer) IN
       IF PayloadTooLarge(m)
       THEN /\ SessionClose
            /\ UNCHANGED <<drvList, completed, delivered>>
       ELSE /\ DriverComplete(m.urb)
            /\ delivered' = delivered \cup {m.urb}
            /\ toServer' = Tail(toServer)
            /\ UNCHANGED sessionUp
    /\ UNCHANGED <<NextUrbId, urbDev, urbShape, fwd, srvPending, toClient, framed,
                   executedOn, cancelled>>

-----------------------------------------------------------------------------

\* VusbEvtDeviceAdd: the device context is zeroed and PendingUrbList is an
\* empty list head.
DriverInit == drvList = <<>> /\ NextUrbId = 0

Init ==
    /\ DriverInit
    /\ urbDev = [u \in UrbIds |-> CHOOSE d \in DrvDevs : TRUE]
    /\ urbShape = [u \in UrbIds |-> "fit"]
    /\ fwd = Idle
    /\ sessionUp = TRUE
    /\ srvPending = {}
    /\ toClient = <<>>
    /\ toServer = <<>>
    /\ framed = <<>>
    /\ executedOn = [u \in UrbIds |-> {}]
    /\ delivered = {}
    /\ completed = {}
    /\ cancelled = {}

FwdStep == FwdGetPending \/ FwdTimeout \/ FwdForward \/ FwdSend

Next ==
    \/ \E d \in DrvDevs, shape \in Shapes : Submit(d, shape)
    \/ \E u \in Created : Cancel(u)
    \/ FwdStep
    \/ ClientReceive
    \/ ServerReceive

\* The forwarder, the client's receive thread and the session thread loop
\* for as long as they run; the submitter owes nothing.
Fairness ==
    /\ WF_vars(FwdStep)
    /\ WF_vars(ClientReceive)
    /\ WF_vars(ServerReceive)

Spec == Init /\ [][Next]_vars /\ Fairness

-----------------------------------------------------------------------------
(* Properties.                                                             *)

TypeOK ==
    /\ drvList \in Seq(UrbIds) /\ NextUrbId \in 0..MaxUrbs
    /\ urbDev \in [UrbIds -> DrvDevs] /\ urbShape \in [UrbIds -> Shape]
    /\ fwd \in {Idle} \cup [st : {"parked"}, urb : {0}] \cup [st : {"hold", "send"}, urb : Created]
    /\ sessionUp \in BOOLEAN
    /\ srvPending \subseteq Created
    /\ toClient \in Seq(Created) /\ toServer \in Seq([urb : Created, over : BOOLEAN])
    /\ framed \in Seq(Created)
    /\ executedOn \in [UrbIds -> SUBSET LocalIds]
    /\ delivered \subseteq Created /\ completed \subseteq Created /\ cancelled \subseteq Created

\* The number of places a URB is held in: the driver's list, the forwarder's
\* buffer, and the two streams.
Copies(u) ==
    Len(SelectSeq(drvList, LAMBDA x : x = u))
    + (IF fwd.st \in {"hold", "send"} /\ fwd.urb = u THEN 1 ELSE 0)
    + Len(SelectSeq(toClient, LAMBDA x : x = u))
    + Len(SelectSeq(toServer, LAMBDA m : m.urb = u))

\* A URB is never in two places at once: the GET_PENDING_URB requeue path
\* (VusbQueueUrb, then return) and the forwarder's hand-off must not leave
\* one copy in the driver's list while another travels to the client, where
\* it would be run twice.
SingleCopy == \A u \in Created : Copies(u) <= 1

\* SUBMIT_URB frames leave the server in the order the submitter queued the
\* URBs (spec: per endpoint, no reordering between the pull and the frame
\* write), even though a URB too large is moved to the tail of the list.
FramesInSubmitOrder == IsSorted(framed, LAMBDA a, b : a < b)

\* Every URB that fits the forwarder's buffer eventually leaves the driver's
\* list, although a URB that does not fit is requeued forever and the
\* forwarder parks and cancels its request whenever the list is empty.
FitFetched ==
    \A u \in UrbIds : (Contains(drvList, u) /\ ~urbShape[u] = "outBig") ~> ~Contains(drvList, u)

\* Every URB forwarded to a client is answered: the client sends one
\* URB_COMPLETE on every path of ClientUrbProcess and the session thread
\* handles it.
ForwardedAnswered == \A u \in UrbIds : u \in srvPending ~> u \in delivered

\* Every URB the submitter queues is eventually completed to it (spec: the
\* host-controller completer observes each completion).
UrbEventuallyCompleted == \A u \in UrbIds : u \in Created ~> u \in completed

\* The client ran the URB's transfer on the device that was attached as the
\* URB's driver device, whenever that device is still captured (spec S2:
\* SUBMIT_URB is addressed to the device's remote id).
ExecutedOnAttachedDevice ==
    \A u \in Created :
        (Contains(framed, u) /\ ~Contains(toClient, u) /\ Binding[urbDev[u]] \in LocalIds)
            => executedOn[u] = {Binding[urbDev[u]]}

\* The forwarder's PendingList holds only URBs whose URB_COMPLETE has not
\* been handled yet (ServerUrbComplete unlinks them).
ServerPendingUnanswered == srvPending \cap delivered = {}

\* A cancel that finds its URB wins (spec: CANCEL_URB is advisory, and
\* either outcome is valid, but only one): a URB that VusbCancelUrb found in
\* PendingUrbList and completed with STATUS_CANCELLED is never framed as
\* SUBMIT_URB, so no client runs its transfer, whatever the forwarder's
\* dequeue, requeue of large URBs and hand-off were doing at the time.
CancelledNeverRun ==
    \A u \in cancelled : ~Contains(framed, u) /\ executedOn[u] = {}
=============================================================================
