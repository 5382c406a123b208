------------------------------ MODULE Capture -------------------------------
(***************************************************************************)
(* The enhanced client's capture context (client/vusb_capture.c) and the   *)
(* two threads that use it (client/vusb_client_enhanced.c):                *)
(*   - the main thread: UsbCaptureInit, the startup                        *)
(*     UsbCaptureRefreshDevices, the connect, the interactive loop (scan,  *)
(*     info and attach open a device; quit), then Running = FALSE,         *)
(*     closesocket, WaitForSingleObject(ReceiveThread, 2000) and           *)
(*     UsbCaptureCleanup;                                                  *)
(*   - ReceiveThread: each SUBMIT_URB runs ClientUrbProcess               *)
(*     (client/vusb_client_urb.c): UsbCaptureFindDevice, an open if the    *)
(*     device is not open, and a WinUSB transfer of up to 5 s.             *)
(*                                                                         *)
(* ctx->Lock is taken by UsbCaptureEnumerateDevices, the open loop of      *)
(* UsbCaptureRefreshDevices and UsbCaptureCleanup, all run by the main      *)
(* thread; ReceiveThread, UsbCaptureFindDevice and UsbCaptureOpenDevice     *)
(* never take it, so it orders nothing between the threads and is not      *)
(* state here.  UsbCaptureOpenDevice is three steps around its shared      *)
(* reads and writes: the Opened check, CreateFileW into                    *)
(* device->DeviceHandle, WinUsb_Initialize into device->WinUsbHandle.      *)
(*                                                                         *)
(* Handles are numbers; 0 stands for NULL and INVALID_HANDLE_VALUE alike   *)
(* (closing either closes nothing).  Descriptors, statistics, paths and    *)
(* printing are left out.                                                  *)
(***************************************************************************)
EXTENDS Naturals, Sequences, SequencesExt

CONSTANTS
    MaxDevices,  \* MAX_USB_DEVICES
    Order,       \* the devices SetupDiEnumDeviceInterfaces returns, in its order
    VidPid,      \* [devices -> VID/PID parsed from the device path]
    Ids,         \* device ids a SUBMIT_URB or an info/attach command may name
    MaxUrbs,     \* bound on SUBMIT_URB frames received
    MaxHandles   \* bound on handles created

Slots == 1..MaxDevices
Threads == {"main", "rx"}

VARIABLES
    dev,          \* ctx->Devices[]
    NextLocalId,  \* ctx->NextLocalId
    DeviceCount,  \* ctx->DeviceCount
    th,           \* per thread: program counter, the slot it works on, where an open returns, the handle in use
    Running,      \* ctx->Running
    Connected,    \* ctx->Base.Connected
    sockOpen,     \* the socket has not been closed by either end
    urbs,         \* SUBMIT_URB frames received
    nextH,        \* handles created so far; the next one is nextH + 1
    fileOpen,     \* device handles CreateFileW opened and CloseHandle has not closed
    wusbOpen      \* WinUSB handles WinUsb_Initialize created and WinUsb_Free has not freed

vars == <<dev, NextLocalId, DeviceCount, th, Running, Connected, sockOpen, urbs,
          nextH, fileOpen, wusbOpen>>

Empty == [active |-> FALSE, localId |-> 0, vp |-> 0, opened |-> FALSE, dh |-> 0, wh |-> 0]

-----------------------------------------------------------------------------
(* Device table.                                                           *)

\* UsbCaptureFindDevice: an active slot with that LocalId, 0 if none.
FindDevice(id) ==
    IF \E s \in Slots : dev[s].active /\ dev[s].localId = id
    THEN CHOOSE s \in Slots : dev[s].active /\ dev[s].localId = id
    ELSE 0

\* One device interface of UsbCaptureEnumerateDevices: skipped when an
\* active slot has its VID/PID (UsbCaptureFindDeviceByVidPid) or the table
\* is full; otherwise the first free slot is zeroed and takes LocalId =
\* NextLocalId++.
AddDevice(t, p) ==
    IF \/ \E s \in Slots : t.dev[s].active /\ t.dev[s].vp = VidPid[p]
       \/ t.count >= MaxDevices
    THEN t
    ELSE LET s == CHOOSE i \in Slots : ~t.dev[i].active
                                       /\ \A j \in 1..(i - 1) : t.dev[j].active
         IN [dev |-> [t.dev EXCEPT ![s] = [Empty EXCEPT !.active = TRUE,
                                           !.localId = t.next, !.vp = VidPid[p]]],
             next |-> t.next + 1, count |-> t.count + 1]

\* UsbCaptureCloseDevice: WinUsb_Free and CloseHandle on whatever handles
\* the slot holds, then Opened = FALSE.
CloseDevice(d) == [d EXCEPT !.opened = FALSE, !.dh = 0, !.wh = 0]

-----------------------------------------------------------------------------
(* UsbCaptureOpenDevice, run by either thread on slot th[t].slot.          *)

\* Where a thread goes when UsbCaptureOpenDevice returns (ok: 0).  In
\* ClientUrbProcess success goes on to the transfer and failure sends an
\* ERROR completion; the refresh loop goes on to the next slot; info and
\* attach return to the prompt (GetDescriptors and printing left out).
AfterOpen(t, ok) ==
    CASE t = "rx" /\ ok -> [th[t] EXCEPT !.pc = "xfer0"]
      [] t = "rx"       -> [th[t] EXCEPT !.pc = "recv", !.slot = 0]
      [] th[t].ret = "refresh" -> [th[t] EXCEPT !.pc = "refresh", !.slot = th[t].slot + 1]
      [] OTHER          -> [th[t] EXCEPT !.pc = "prompt", !.slot = 0]

\* if (device->Opened) return -1.
OpenCheck(t) ==
    /\ th[t].pc = "check"
    /\ th' = IF dev[th[t].slot].opened
             THEN [th EXCEPT ![t] = AfterOpen(t, FALSE)]
             ELSE [th EXCEPT ![t].pc = "create"]
    /\ UNCHANGED <<dev, NextLocalId, DeviceCount, Running, Connected, sockOpen, urbs,
                   nextH, fileOpen, wusbOpen>>

\* device->DeviceHandle = CreateFileW(...); INVALID_HANDLE_VALUE: return -1.
OpenCreate(t) ==
    /\ th[t].pc = "create"
    /\ LET s == th[t].slot IN
       \/ /\ nextH < MaxHandles
          /\ nextH' = nextH + 1
          /\ fileOpen' = fileOpen \cup {nextH + 1}
          /\ dev' = [dev EXCEPT ![s].dh = nextH + 1]
          /\ th' = [th EXCEPT ![t].pc = "init"]
       \/ /\ dev' = [dev EXCEPT ![s].dh = 0]
          /\ th' = [th EXCEPT ![t] = AfterOpen(t, FALSE)]
          /\ UNCHANGED <<nextH, fileOpen>>
    /\ UNCHANGED <<NextLocalId, DeviceCount, Running, Connected, sockOpen, urbs, wusbOpen>>

\* WinUsb_Initialize(device->DeviceHandle, &device->WinUsbHandle), reading
\* the handle the slot holds now.  Success: Opened = TRUE.  Failure:
\* CloseHandle(device->DeviceHandle), DeviceHandle = INVALID, return -1.
OpenInit(t) ==
    /\ th[t].pc = "init"
    /\ LET s == th[t].slot
           h == dev[s].dh
       IN \/ /\ h \in fileOpen
             /\ nextH < MaxHandles
             /\ nextH' = nextH + 1
             /\ wusbOpen' = wusbOpen \cup {nextH + 1}
             /\ dev' = [dev EXCEPT ![s].wh = nextH + 1, ![s].opened = TRUE]
             /\ th' = [th EXCEPT ![t] = AfterOpen(t, TRUE)]
             /\ UNCHANGED fileOpen
          \/ /\ fileOpen' = fileOpen \ {h}
             /\ dev' = [dev EXCEPT ![s].dh = 0]
             /\ th' = [th EXCEPT ![t] = AfterOpen(t, FALSE)]
             /\ UNCHANGED <<nextH, wusbOpen>>
    /\ UNCHANGED <<NextLocalId, DeviceCount, Running, Connected, sockOpen, urbs>>

Open(t) == OpenCheck(t) \/ OpenCreate(t) \/ OpenInit(t)

-----------------------------------------------------------------------------
(* Main thread: main() and RunEnhancedInteractive.                         *)

\* UsbCaptureEnumerateDevices, under ctx->Lock: every device interface in
\* SetupAPI's order, each by AddDevice.
Enumerate ==
    /\ th["main"].pc = "enum"
    /\ LET t == FoldLeft(AddDevice, [dev |-> dev, next |-> NextLocalId, count |-> DeviceCount], Order)
       IN /\ dev' = t.dev
          /\ NextLocalId' = t.next
          /\ DeviceCount' = t.count
    /\ th' = [th EXCEPT !["main"].pc = "refresh", !["main"].slot = 1]
    /\ UNCHANGED <<Running, Connected, sockOpen, urbs, nextH, fileOpen, wusbOpen>>

\* The open loop of UsbCaptureRefreshDevices: each slot that is active and
\* not open is opened; after the last slot the refresh returns to main's
\* startup or to the prompt.
RefreshSlot ==
    /\ th["main"].pc = "refresh"
    /\ LET s == th["main"].slot IN
       th' = CASE s > MaxDevices -> [th EXCEPT !["main"].pc = th["main"].after, !["main"].slot = 0]
               [] dev[s].active /\ ~dev[s].opened ->
                      [th EXCEPT !["main"].pc = "check", !["main"].ret = "refresh"]
               [] OTHER -> [th EXCEPT !["main"].slot = s + 1]
    /\ UNCHANGED <<dev, NextLocalId, DeviceCount, Running, Connected, sockOpen, urbs,
                   nextH, fileOpen, wusbOpen>>

\* VusbClientConnect succeeds: Running = TRUE and ReceiveThread starts.
Connect ==
    /\ th["main"].pc = "connect"
    /\ Running' = TRUE /\ Connected' = TRUE /\ sockOpen' = TRUE
    /\ th' = [th EXCEPT !["main"].pc = "prompt", !["rx"].pc = "recv"]
    /\ UNCHANGED <<dev, NextLocalId, DeviceCount, urbs, nextH, fileOpen, wusbOpen>>

\* VusbClientConnect fails: UsbCaptureCleanup, return 1.
ConnectFailed ==
    /\ th["main"].pc = "connect"
    /\ th' = [th EXCEPT !["main"].pc = "cleanup"]
    /\ UNCHANGED <<dev, NextLocalId, DeviceCount, Running, Connected, sockOpen, urbs,
                   nextH, fileOpen, wusbOpen>>

\* "scan": UsbCaptureRefreshDevices.
UiScan ==
    /\ th["main"].pc = "prompt" /\ Running /\ Connected
    /\ th' = [th EXCEPT !["main"].pc = "enum", !["main"].after = "prompt"]
    /\ UNCHANGED <<dev, NextLocalId, DeviceCount, Running, Connected, sockOpen, urbs,
                   nextH, fileOpen, wusbOpen>>

\* "info <id>" and AttachRealDevice ("attach <id>"): UsbCaptureFindDevice,
\* then UsbCaptureOpenDevice if !device->Opened.  (The attach request
\* itself is Client's.)
UiOpen(id) ==
    /\ th["main"].pc = "prompt" /\ Running /\ Connected
    /\ LET s == FindDevice(id) IN
       th' = IF s # 0 /\ ~dev[s].opened
             THEN [th EXCEPT !["main"].pc = "check", !["main"].slot = s, !["main"].ret = "prompt"]
             ELSE th
    /\ UNCHANGED <<dev, NextLocalId, DeviceCount, Running, Connected, sockOpen, urbs,
                   nextH, fileOpen, wusbOpen>>

\* The loop ends on "quit", on end of input, or when the next command finds
\* ctx->Base.Connected cleared by ReceiveThread: Running = FALSE,
\* closesocket, and the wait for ReceiveThread.
UiLeave ==
    /\ th["main"].pc = "prompt"
    /\ Running' = FALSE /\ sockOpen' = FALSE
    /\ th' = [th EXCEPT !["main"].pc = "wait"]
    /\ UNCHANGED <<dev, NextLocalId, DeviceCount, Connected, urbs, nextH, fileOpen, wusbOpen>>

\* ReceiveThread is in ClientUrbProcess: closing the socket does not end a
\* transfer, whose pipe timeout is 5000 ms.
RxBusy == th["rx"].pc \in {"check", "create", "init", "xfer0", "xfer"}

\* WaitForSingleObject(ctx->ReceiveThread, 2000) returns when the thread
\* has ended, or after 2 s while it is still inside a transfer.
Wait ==
    /\ th["main"].pc = "wait"
    /\ th["rx"].pc = "done" \/ RxBusy
    /\ th' = [th EXCEPT !["main"].pc = "cleanup"]
    /\ UNCHANGED <<dev, NextLocalId, DeviceCount, Running, Connected, sockOpen, urbs,
                   nextH, fileOpen, wusbOpen>>

\* UsbCaptureCleanup: every active slot is closed (UsbCaptureCloseDevice),
\* under a lock ReceiveThread never takes.
Cleanup ==
    /\ th["main"].pc = "cleanup"
    /\ fileOpen' = fileOpen \ {dev[s].dh : s \in {i \in Slots : dev[i].active}}
    /\ wusbOpen' = wusbOpen \ {dev[s].wh : s \in {i \in Slots : dev[i].active}}
    /\ dev' = [s \in Slots |-> IF dev[s].active THEN CloseDevice(dev[s]) ELSE dev[s]]
    /\ th' = [th EXCEPT !["main"].pc = "exit"]
    /\ UNCHANGED <<NextLocalId, DeviceCount, Running, Connected, sockOpen, urbs, nextH>>

\* WSACleanup and return from main: the process ends, and ReceiveThread
\* with it.
Exit ==
    /\ th["main"].pc = "exit"
    /\ th' = [th EXCEPT !["main"].pc = "exited"]
    /\ UNCHANGED <<dev, NextLocalId, DeviceCount, Running, Connected, sockOpen, urbs,
                   nextH, fileOpen, wusbOpen>>

\* The process has ended; nothing more happens.
Exited == th["main"].pc = "exited" /\ UNCHANGED vars

-----------------------------------------------------------------------------
(* ReceiveThread and ClientUrbProcess.                                     *)

\* The process has not ended.
Alive == th["main"].pc # "exited"

\* The loop test (ctx->Running && Connected) and recv of one frame.  A
\* failed test or a failed recv (the socket closed by either end) ends the
\* thread with Connected = 0.  A SUBMIT_URB naming id runs
\* UsbCaptureFindDevice: not found, a NO_DEVICE completion is sent; found
\* and not open, UsbCaptureOpenDevice; found and open, the transfer.
RxRecv ==
    /\ Alive /\ th["rx"].pc = "recv"
    /\ \/ /\ ~(Running /\ sockOpen)
          /\ Connected' = FALSE
          /\ th' = [th EXCEPT !["rx"].pc = "done"]
          /\ UNCHANGED urbs
       \/ /\ Running /\ sockOpen /\ urbs < MaxUrbs
          /\ urbs' = urbs + 1
          /\ \E id \in Ids :
                LET s == FindDevice(id) IN
                th' = CASE s = 0 -> th
                        [] dev[s].opened -> [th EXCEPT !["rx"].pc = "xfer0", !["rx"].slot = s]
                        [] OTHER -> [th EXCEPT !["rx"].pc = "check", !["rx"].slot = s]
          /\ UNCHANGED Connected
    /\ UNCHANGED <<dev, NextLocalId, DeviceCount, Running, sockOpen, nextH, fileOpen, wusbOpen>>

\* The transfer call (UsbCaptureControlTransfer, BulkTransfer or
\* InterruptTransfer): if (!device->Opened) return -1; otherwise the WinUSB
\* call runs on device->WinUsbHandle as read now.  Isochronous and unknown
\* transfer types fail without touching the device.  A failure sends an
\* ERROR completion.
RxXferStart ==
    /\ Alive /\ th["rx"].pc = "xfer0"
    /\ LET s == th["rx"].slot IN
       \/ /\ dev[s].opened
          /\ th' = [th EXCEPT !["rx"].pc = "xfer", !["rx"].h = dev[s].wh]
       \/ /\ ~dev[s].opened
          /\ th' = [th EXCEPT !["rx"].pc = "recv", !["rx"].slot = 0]
       \/ th' = [th EXCEPT !["rx"].pc = "recv", !["rx"].slot = 0]
    /\ UNCHANGED <<dev, NextLocalId, DeviceCount, Running, Connected, sockOpen, urbs,
                   nextH, fileOpen, wusbOpen>>

\* The WinUSB call returns (at the latest at its 5 s pipe timeout) and
\* SendUrbCompletion reports its status.
RxXferEnd ==
    /\ Alive /\ th["rx"].pc = "xfer"
    /\ th' = [th EXCEPT !["rx"].pc = "recv", !["rx"].slot = 0, !["rx"].h = 0]
    /\ UNCHANGED <<dev, NextLocalId, DeviceCount, Running, Connected, sockOpen, urbs,
                   nextH, fileOpen, wusbOpen>>

\* The server closes the connection.
PeerClose ==
    /\ Alive /\ sockOpen /\ Running
    /\ sockOpen' = FALSE
    /\ UNCHANGED <<dev, NextLocalId, DeviceCount, th, Running, Connected, urbs,
                   nextH, fileOpen, wusbOpen>>

-----------------------------------------------------------------------------

\* UsbCaptureInit zeroes the context and sets NextLocalId = 1; main then
\* runs UsbCaptureRefreshDevices before connecting.
Init ==
    /\ dev = [s \in Slots |-> Empty]
    /\ NextLocalId = 1
    /\ DeviceCount = 0
    /\ th = [t \in Threads |-> [pc |-> IF t = "main" THEN "enum" ELSE "off",
                                slot |-> 0, ret |-> "prompt", after |-> "connect", h |-> 0]]
    /\ Running = FALSE /\ Connected = FALSE /\ sockOpen = FALSE
    /\ urbs = 0
    /\ nextH = 0 /\ fileOpen = {} /\ wusbOpen = {}

Next ==
    \/ Enumerate \/ RefreshSlot \/ Connect \/ ConnectFailed
    \/ UiScan \/ \E id \in Ids : UiOpen(id) \/ UiLeave
    \/ Wait \/ Cleanup \/ Exit \/ Exited
    \/ \E t \in Threads : Alive /\ Open(t)
    \/ RxRecv \/ RxXferStart \/ RxXferEnd \/ PeerClose

Spec == Init /\ [][Next]_vars

-----------------------------------------------------------------------------
(* Properties.                                                             *)

TypeOK ==
    /\ dev \in [Slots -> [active : BOOLEAN, localId : Nat, vp : Nat \cup Range(VidPid),
                          opened : BOOLEAN, dh : 0..MaxHandles, wh : 0..MaxHandles]]
    /\ NextLocalId \in Nat /\ DeviceCount \in 0..MaxDevices
    /\ th["main"].pc \in {"enum", "refresh", "connect", "prompt", "check", "create", "init",
                          "wait", "cleanup", "exit", "exited"}
    /\ th["rx"].pc \in {"off", "recv", "check", "create", "init", "xfer0", "xfer", "done"}
    /\ \A t \in Threads : th[t].slot \in 0..(MaxDevices + 1) /\ th[t].h \in 0..MaxHandles
    /\ Running \in BOOLEAN /\ Connected \in BOOLEAN /\ sockOpen \in BOOLEAN
    /\ urbs \in 0..MaxUrbs /\ nextH \in 0..MaxHandles
    /\ fileOpen \subseteq 1..nextH /\ wusbOpen \subseteq 1..nextH

\* Every handle the client holds to a captured device is accounted for
\* while the process runs: each open device handle and WinUSB handle is the
\* one its slot records (so UsbCaptureCleanup closes it), and a WinUSB
\* transfer of ReceiveThread never runs on a handle already freed.  This is
\* about UsbCaptureOpenDevice called without ctx->Lock by ReceiveThread and
\* by the main thread's scan, info and attach, and about UsbCaptureCleanup
\* running after WaitForSingleObject(ReceiveThread, 2000) timed out.
HandlesSound ==
    Alive =>
        /\ \A h \in fileOpen : \E s \in Slots : dev[s].dh = h
        /\ \A h \in wusbOpen : \E s \in Slots : dev[s].wh = h
        /\ th["rx"].pc = "xfer" => th["rx"].h \in wusbOpen

=============================================================================
