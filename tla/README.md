# TLA+ models of usb-over-ip

This directory holds TLA+ models of the USB-over-IP system in `src/`, the TLC
configurations that check them, and `PROJECT.json`. That file lists the
components, the runs, the mutants, the code each definition models, the
findings, and the hazards.

## The system

A *client* machine exports physical USB devices to a *server* machine over TCP.
Every message starts with a 16-byte header: magic, version, command, length and
sequence (`protocol/vusb_protocol.h`). The repository has two server
implementations that share the protocol.

| Part | Source | State | Operations that change it |
|---|---|---|---|
| Framing | `protocol/vusb_protocol.h` (in `Client`, `UrbPath`) | none | `VusbInitHeader`, `VusbValidateHeader` (magic and version only) |
| Userspace server | `userspace/vusb_userspace.c` | `ctx->Devices[16]` (active flag, local id, owner session, remote id, pending URB list, `NextUrbId`); `ctx->Clients[32]`; `NextDeviceId`, `NextSessionId`; per session `DeviceIds[]` | accept; `DEVICE_ATTACH`, `DEVICE_DETACH`, `URB_COMPLETE`; session teardown; host API `VusbUsSubmitUrb`, `VusbUsCompleteUrb`, `VusbUsCancelUrb`; shutdown |
| Driver-backed server | `server/vusb_server.c` | `Clients[32]`, each with `Devices[16]` = {Active, DeviceId, RemoteId} | accept; attach through `IOCTL_VUSB_PLUGIN_DEVICE`; detach through `IOCTL_VUSB_UNPLUG_DEVICE`; `URB_COMPLETE` forwarded as `IOCTL_VUSB_COMPLETE_URB`; disconnect unplugs the tracked devices |
| URB forwarder | `server/vusb_server_urb.c` | server `PendingList` of {UrbId, DeviceId, Client} | thread pulling `GET_PENDING_URB` (100 ms timeout, `CancelIoEx`, retry); forward as `SUBMIT_URB`; complete by UrbId. `ServerUrbInit` and `ServerUrbStart` are called nowhere |
| Kernel driver | `driver/vusb_device.c`, `vusb_ioctl.c`, `vusb_driver.c` | `Devices[16]` slots with `DeviceCount`; `PendingUrbList`; `PendingUrbQueue` of parked requests | create (lowest free slot, id = slot+1), destroy; queue, dequeue, find-and-remove and complete URBs; IOCTL dispatch on one sequential queue |
| Simple client | `client/vusb_client.c` | socket, `Sequence`, simulated device ids | connect handshake, attach (waits for the reply), detach (does not wait), list, ping |
| Enhanced client | `client/vusb_client_enhanced.c`, `vusb_client_urb.c` | receive thread, URB dispatcher | `PING` becomes `PONG`; `SUBMIT_URB` runs the transfer on the capture backend, then sends one `URB_COMPLETE`; `CANCEL_URB` does nothing |
| Capture backend | `client/vusb_capture.c` | `ctx->Devices[32]` (Active, LocalId from `NextLocalId`, VID/PID, Opened, `DeviceHandle`, `WinUsbHandle`), `DeviceCount`, `ctx->Lock` | enumerate (skips a VID/PID already present), open, close, cleanup; control, bulk and interrupt transfers |
| Userspace console | `userspace/vusb_userspace_main.c` | the console thread; `ctx->Running` | Ctrl+C handler and `q` call `VusbUsStop`; `main` runs `VusbUsInit`, the console thread, `VusbUsRun`, `VusbUsCleanup` |
| Tools | `tools/*` | none of interest | installer, IOCTL test |

How the parts interact:
- A session thread runs for each client connection. It handles one message at
  a time.
- The host side, which is the driver for the driver-backed server and
  unspecified callers of the `VusbUs*Urb` API for the userspace server,
  submits URBs from other threads.
- Completions come back on the session thread.
- In the userspace server, the Ctrl+C handler and the console thread stop
  the accept loop. `main` then waits for the session threads for a bounded
  time and frees the shared state.
- In the enhanced client, the main thread (startup refresh, `scan`, `info`,
  `attach`, quit and cleanup) and `ReceiveThread` (each `SUBMIT_URB`) both
  look devices up and open them in the capture context. Only the main thread
  ever takes `ctx->Lock`.

### Hard behaviours

- Several session threads and host threads share the registry:
  - the userspace server drops `DeviceLock` in the middle of an attach;
  - it looks a device up without any lock before taking the device's `UrbLock`.
- Several things are keyed by ids that are not unique across sessions:
  - remote ids are chosen per client, starting from 1;
  - driver device ids are reused slot numbers.
- Teardown and detach must finish every pending URB.
- In the driver, URBs move between the pending list, user mode and the
  completion path.
- Requests that find no URB are parked, and are served only by a timeout and
  a retry.
- A session thread frees its own client record. The accept loop and the
  shutdown wait still use that record afterwards, and a thread whose 5 s
  wait timed out outlives the locks that `VusbUsCleanup` deletes.
- Every receiver treats a payload over 65 520 bytes as fatal and ends the
  session. No sender bounds what it frames: the client puts all of an IN
  transfer's data into one `URB_COMPLETE`.
- The enhanced client opens a captured device from two threads with no lock,
  and frees its WinUSB handles after waiting 2 s for a receive thread whose
  transfers may take 5 s.

### What makes each part correct

These properties are taken from `spec.md`:

- **Registry:** every active device has exactly one owning live session. A live
  session tracks exactly the devices it owns (ownership closure). Ids point at
  the right device.
- **Pending-URB table:**
  - every URB is completed at most once;
  - destruction of a device completes all of its URBs ("detach cancels all");
  - a completion reaches only the URB it names, on a device the sending
    session owns;
  - UrbIds pending on a device are distinct.
- **Driver queue:** a URB handed to user mode can still be completed. Every
  submitted URB is eventually completed.
- **Clients:** every `SUBMIT_URB` gets exactly one `URB_COMPLETE`. A response
  is paired with its request.

## Modules

### UsServer (userspace server), with MCUsServer

`UsServer.tla` models `userspace/vusb_userspace.c`.

| Variable | Code |
|---|---|
| `Devices` | `ctx->Devices[]`, one record per slot: `Active`, `DeviceId`, `OwnerClient`, `RemoteDeviceId`, `NextUrbId`, `PendingUrbs` |
| `NextDeviceId`, `NextSessionId` | the context counters |
| `Clients` | the sessions present in `ctx->Clients[]` |
| `DeviceIds` | `client->DeviceIds` |
| `attaching` | a session thread between `VusbUsCreateDevice` and the owner assignment in `HandleDeviceAttach` |
| `hostOp` | a host thread between `VusbUsGetDevice` and `EnterCriticalSection(&device->UrbLock)` |
| `target`, `completions`, `completedBy` | history: what each host URB was submitted for, how often it was completed, and who completed it |
| `phase` | `running` until `VusbUsStop`; `exited` once `VusbUsCleanup` has run |

A host URB is identified by a token, standing for the caller's URB structure.

| Action | Code |
|---|---|
| `Accept` | the accept loop of `VusbUsRun` |
| `AcceptRetry` | the `select` timeout or failed `accept` (`continue`) |
| `AttachCreate`, `AttachOwn` | `HandleDeviceAttach`, split where it leaves `DeviceLock` |
| `Detach` | `HandleDeviceDetach` (ownership checked, `VusbUsDestroyDevice`, swap-remove from `DeviceIds`) |
| `UrbComplete` | `HandleUrbComplete` (first active device of any session with that remote id) |
| `Teardown` | every exit of `ClientThread`'s loop followed by its cleanup |
| `HostLookup`, `HostSubmit`, `HostCancel` | `VusbUsSubmitUrb` and `VusbUsCancelUrb`, split at the unlocked lookup |
| `Shutdown` | `VusbUsStop`, the end of `VusbUsRun`, and `VusbUsCleanup` (`CleanupDevice` on every active slot) |

Every thread step is guarded by the running phase. `VusbUsStop` writes only
`Running`, which no handler reads, so a step taken between `VusbUsStop` and
`VusbUsCleanup` reaches a state it also reaches before `VusbUsStop`. The
steps that may still run after `VusbUsCleanup` are modelled in `UsShutdown`.
`OwnershipClosure` holds up to `Shutdown`. After it the sessions that
outlived the wait still track devices that were freed under them.

Left out because no property reads them: messages that change no server state
(`CONNECT` only sets `Authenticated`, which nothing reads; `PING`;
`DEVICE_LIST`), replies, descriptors and data.

`MCUsServer` has these bounds:
- 2 registry slots, 2 client slots, 3 sessions, 2 device ids;
- 2 host URBs, one host thread;
- one remote id, so any two sessions collide.

With these bounds:
- a third connection is rejected;
- slots are destroyed and reused (device 2 takes the slot device 1 left);
- a detach and a re-attach fit between the two halves of a host call;
- two sessions claim the same remote id.

| Run | Expect | What it shows |
|---|---|---|
| `us_server` | pass (504k states, under a minute) | `OwnershipClosure`: tracking and ownership agree in both directions. `UrbTableRefined`: the server implements `UrbTable` (see below) |
| `us_silent_drop` | violation of `NoSilentDrop` | `CleanupDevice` frees pending URBs without completing them |
| `us_cross_session` | violation of `CompletionByOwner` | `URB_COMPLETE` from one session completes another session's URB. It also reaches a device whose attach is unfinished, through remote id 0 |

UsServer has no fairness: all its properties are safety properties.

The host submit race is in the model: `HostLookup`, then `Detach` and
`AttachCreate` on the same slot, then `HostSubmit` links the URB to the new
device. No run states that a URB stays on the device it names (see the
hazard at `vusb_userspace.c:211`).

### UrbTable (abstract pending-URB table), refined by UsServer

`UrbTable` states the contract of spec.md section 4.3. The table is a set
of entries `[dev, id, tok]`, where `tok` is the caller's URB. It has three
actions:

- `Insert`: a URB never inserted before, under a key that no pending entry has;
- `Complete`: removes one entry and counts one completion of its URB;
- `Discard`: drops every entry of a set of devices.

Section 4.3 has purge complete each entry with `NoDevice`. The code frees
them instead; the `us_silent_drop` run reports this. So `Discard` here is
silent, which leaves uniqueness, at-most-once completion, and entries that
never change key or URB as what the refinement checks.

`UsServer` instantiates it as `Table` with `PendingTable` for `table`. That
is the union over all slots, inactive ones included, of each slot's
`PendingUrbs`, keyed by the slot's `DeviceId`. `UrbTableRefined ==
Table!Spec` is a property of the `us_server` run. It replaces two
invariants that it implies: at-most-once completion and unique UrbIds per
device. The two mutants break it:

- a completion that does not unlink;
- slot reuse that keeps the old list, so entries change device.

### UsShutdown (userspace server threads, console and shutdown), with MCUsShutdown_NoUseAfterFree.cfg

`UsShutdown` models the lifetime of the userspace server's client records and
locks. It covers these threads:
- the main thread: `VusbUsInit`, `VusbUsRun` with its accept loop and its
  wait for client threads, then `VusbUsCleanup`, then the end of `main`;
- one `ClientThread` per session;
- the console thread and the Ctrl+C handler, both of which call `VusbUsStop`.

The registry and the URB lists belong to `UsServer`. Here a message handler is
only a section that enters `DeviceLock`.

| Variable | Code |
|---|---|
| `Running`, `Clients`, `NextSessionId` | `ctx->Running`, `ctx->Clients[]`, `ctx->NextSessionId` |
| `Connected` | `client->Connected` |
| `tpc`, `cpc`, `mpc` | where each session thread, the console thread and the main thread are |
| `accepting`, `widx`, `waitFor` | the record being started; `i` of the wait loop; the thread being waited for |
| `mainHolds`, `locksDeleted` | the wait loop holds `ClientLock`; `VusbUsCleanup` has deleted the locks |
| `faults` | history: a freed record written or read, a deleted lock entered |

| Action | Code |
|---|---|
| `Listen`, `Accept`, `AcceptFull` | `VusbUsRun`: socket, bind, listen, `Running = TRUE`; add to the first free slot or reject |
| `CreateClientThread`, `SetThread`, `CreateThreadFailed` | `client->Thread = CreateThread(...)`, split between the thread's start and the store |
| `CtrlC`, `ConsoleQuit`, `ConsoleExit` | `ConsoleHandler`; `ConsoleThread`'s `q` and its `while (ctx->Running)` |
| `AcceptLoopExit`, `ScanEmpty`, `ScanClient`, `ScanEnd` | the end of `VusbUsRun`: close the listen socket, then walk `ctx->Clients` under `ClientLock` |
| `ReadThread`, `ReadThreadNull`, `WaitReturns` | `WaitForSingleObject(ctx->Clients[i]->Thread, 5000)` after `ClientLock` is released |
| `Cleanup`, `Return` | `VusbUsCleanup` (`CleanupDevice` under `DeviceLock`, `DeleteCriticalSection`), then `main` returns |
| `Receive`, `Process`, `CleanupDevices`, `Unlist` | `ClientThread`: `recv`, `ProcessClientMessage` and the loop test, then its cleanup and `free(client)` |

A thread's critical section is one step. It is enabled only while no
other thread holds that lock across steps. Only the wait loop holds
`ClientLock` across steps.

`WaitReturns` has no guard on the thread: a wait for a thread blocked in
`recv` ends by its 5 s timeout. Connected is cleared but the socket stays
open, so `recv` does not return.

`MCUsShutdown_NoUseAfterFree.cfg` has these bounds:
- 2 client slots and 3 sessions, so a connection can be rejected;
- slots are emptied during the wait.

| Run | Expect | What it shows |
|---|---|---|
| `us_shutdown_race` | violation of `NoUseAfterFree` | in 8 steps a client thread whose peer closes at once frees its record before the accept loop stores the thread handle in it |

The same property is also violated on two other paths:
- the wait loop reads `ctx->Clients[i]->Thread` through a slot emptied after
  `ClientLock` was released (12 steps);
- a session thread whose wait timed out enters `DeviceLock` after
  `VusbUsCleanup` deleted it (15 steps).

TLC reports the shortest trace. The other two were found by checking the
fault kinds separately. The console thread can also return before
`VusbUsRun` sets `Running`: `ConsoleExit` is enabled before `Listen`. After
that, `q` does nothing.

### KServer (driver-backed server and driver registry), with MCKServer

`KServer.tla` models `server/vusb_server.c` with the part of the kernel driver it
drives: `VusbCreateVirtualDevice`, `VusbDestroyVirtualDevice` and their IOCTL
handlers. The driver's IOCTL queue is sequential, so each IOCTL is one step.

| Variable | Code |
|---|---|
| `DrvDevices` | the ids whose slot `DeviceContext->Devices[id-1]` is not NULL |
| `Clients`, `NextSessionId` | `ctx->Clients[]`, `ctx->NextSessionId` |
| `ClientDevices` | each session's `client->Devices[]`: the `DeviceId` of an active entry, else 0 |
| `attachReply` | the last `DEVICE_ATTACH` response sent to each session |
| `stale` | history: the driver devices left behind by an earlier server process |

| Action | Code |
|---|---|
| `Accept`, `AcceptRetry` | `VusbServerAcceptClient`; a failed `accept` in `VusbServerRun` |
| `Attach` | `HandleDeviceAttach`, `PluginDevice`, `VusbHandlePluginDevice`, `VusbCreateVirtualDevice` (lowest free slot, id = slot + 1) |
| `Detach` | `HandleDeviceDetach`, `UnplugDevice`, `VusbDestroyVirtualDevice`; no ownership check |
| `Disconnect` | every exit of `VusbClientThread`'s loop, then `DisconnectClient` |
| `Restart` | the server process ends with its sessions open, and `main` starts a new one |

The IOCTL round trips are helpers the actions use. `PluginResponse` is what
`VusbHandlePluginDevice` writes: the retrieve status, which overwrites the
create status, and the id, which is 0 when the registry is full. `PluginDevice`
is `VusbServerPluginDevice`'s result and id. `UnplugDevice` is
`VusbServerUnplugDevice` followed by `VusbHandleUnplugDevice`, and its result is
ignored. `Disconnect` folds `UnplugDevice` over the session's tracked ids.

Attach and disconnect are single steps. Their parts touch only the session's
own array or one driver slot, so any interleaving equals some order of whole
steps. The constant `ForeignDetach` says whether a client may name an id it
was not given.

Nothing clears `ctx->Running` and no console handler is installed. So
`VusbServerRun` never returns, and `VusbServerCleanup` is unreachable. The
server ends only by being terminated (the console's default Ctrl+C handler,
or a crash), and none of its sessions get to `DisconnectClient`. The driver
has no file-cleanup callback and keeps their devices. `Restart` is that end,
followed by a fresh `main`.

`MCKServer` has 2 driver slots (also 2 entries per session), 2 client slots and
4 sessions. So the registry fills, ids are reused, and a client slot is
reused.

| Run | Expect | What it shows |
|---|---|---|
| `k_server` | pass (21k states) | `OneOwner`: with clients that detach only their own ids, every device the running process created is tracked by exactly one entry of one live session, and no live session tracks a destroyed id. This holds across restarts and the driver's id reuse |

With `ForeignDetach = TRUE`, TLC finds `OneOwner` violated. Two sessions
connect, one attaches a device, and the other sends a `DEVICE_DETACH` naming
that id: the device is destroyed while its owner still tracks the id, which
the driver hands to the next attach. No run checks this setting. The hazard
is listed in `PROJECT.json`.

`NoStaleDevices` is also stated: once the process has ended and a new one
runs, the driver holds no device of the old process. It fails (a session
attaches a device and the process ends; the new process starts with the
device in the driver, owned by no one), but the project's run budget went to
`capture_handle_race`; the hazard is listed in `PROJECT.json`.

`AttachSuccessNamesDevice` is also stated, but no run checks it.
`VusbHandlePluginDevice` overwrites the create status, so a full registry is
answered `SUCCESS` with id 0. The model has that overwrite as the constant
`PluginResponseStatus`, so a run would only restate it. The bug is listed as
a hazard.

### UrbPath (driver URB list, forwarder, client dispatcher), with MCUrbPath

`UrbPath.tla` follows a URB from the driver to the client and back. It covers:

- the driver's `PendingUrbList` with `GET_PENDING_URB` and `COMPLETE_URB`;
- the server's forwarder thread (`server/vusb_server_urb.c`);
- the SUBMIT_URB stream to one client;
- the enhanced client's receive thread (`ProcessServerMessage`, `ClientUrbProcess`);
- the URB_COMPLETE stream back;
- the session thread's `VusbServerHandleUrbComplete`.

Two pieces of this path are never connected in the code:

- Nothing creates a driver URB entry: `VusbUrbCreate` has no caller. A URB's
  arrival (`Submit`) therefore stands for the host-controller submitter of
  spec §4.5.
- `ServerUrbInit` and `ServerUrbStart` have no caller. The model runs the
  forwarder as it would behave once started.

Devices are fixed for a behaviour:

- `Binding[d]` is the `RemoteId` that the session tracking driver device `d`
  recorded, or 0 when no session tracks `d`;
- `LocalIds` are the client's captured devices.

URB sizes matter only where a frame limit cuts them, so a URB has a shape:
- `"fit"`: everything fits;
- `"outBig"`: OUT data larger than the forwarder's `GET_PENDING_URB` buffer;
- `"inBig"`: an IN buffer over 65 500 bytes, such as a 64 KiB bulk read, into
  which the device may return more than one `URB_COMPLETE` frame can carry.
The constant `Shapes` says which shapes the submitter queues.

The session to the client is up until its thread ends. Only a too-large
`URB_COMPLETE` ends it here: `VusbClientThread` leaves its loop and
`VusbServerDisconnectClient` removes the client and closes the socket.

| Variable | Code |
|---|---|
| `drvList`, `NextUrbId` | `PendingUrbList` (head first), `DeviceContext->NextUrbId` |
| `urbDev`, `urbShape` | the entry's `DeviceId`; its shape |
| `fwd` | the forwarder thread: idle, parked on an overlapped IOCTL, holding a fetched URB, or holding it with the client pointer it looked up |
| `sessionUp` | the client is in `ctx->Clients`, `Connected`, with its socket open |
| `srvPending` | the forwarder's `ctx->PendingList` |
| `toClient`, `toServer` | the frames in the two TCP directions |
| `framed`, `executedOn`, `delivered`, `completed`, `cancelled` | history: frame order, the client device each transfer ran on, handled `URB_COMPLETE`s, requests the driver completed, URBs a cancel found and completed |

| Action | Code |
|---|---|
| `Submit` | `VusbUrbCreate` and `VusbQueueUrb` (tail) |
| `Cancel` | `IOCTL_VUSB_CANCEL_URB`: `VusbCancelUrb` completes the entry if it is still in the list, and otherwise does nothing. Nothing in the repository sends it |
| `FwdGetPending` | `GET_PENDING_URB` through `VusbHandleGetPendingUrb`. It dequeues the head. A URB too large goes back to the tail and the IOCTL fails (`Sleep`, retry). An empty list parks the request in `PendingUrbQueue` |
| `FwdTimeout` | the 100 ms wait expires: `CancelIoEx` and retry. Nothing else completes a parked request |
| `FwdForward` | `ServerUrbForward` up to `ServerUrbFindClientForDevice`. With no owning client, `COMPLETE_URB` with `NO_DEVICE`. Otherwise the forwarder keeps the client pointer after `ClientLock` is released |
| `FwdSend` | the rest of `ServerUrbForward`: the URB is tracked in `PendingList` and `SUBMIT_URB` is sent on the client's socket. If the session ended in between, the client record was freed; the model takes the outcome where `send()` fails |
| `ClientReceive` | `ClientUrbProcess`: the device is looked up by the frame's `DeviceId`; one `URB_COMPLETE` on every path, carrying all the data an IN transfer returned (`AnswerSizes`). After the session has ended, `send()` fails |
| `ServerReceive` | `VusbClientThread` reads the `URB_COMPLETE`. A payload over `VUSB_MAX_PACKET_SIZE - 16` is fatal (`PayloadTooLarge`, `SessionClose`). Otherwise `VusbServerHandleUrbComplete` issues `COMPLETE_URB` (`VusbFindUrb`, `VusbCompleteUrb`) |

**Fairness.** Weak fairness holds for the forwarder's steps, the client's
receive thread and the session thread. Each is a `while` loop that runs as long
as the component runs, and none blocks on anything but its input. The submitter
has no fairness.

**Bounds.** `MCUrbPath` has three URBs and three driver devices:

- device 1 is attached from the client's device 2, which the client knows;
- device 2 is tracked by no session;
- device 3 is attached from the client's device 3.

This reaches every branch:

- the forwarder's `NO_DEVICE` path;
- the client's `NO_DEVICE` path and its transfer path;
- a large URB requeued behind two others;
- parking with an empty list.

`urb_path` queues `"fit"` and `"outBig"` URBs. `urb_answer_too_large` queues
`"fit"` and `"inBig"` ones.

| Run | Expect | What it shows |
|---|---|---|
| `urb_path` | pass (15k states) | `SingleCopy`: a URB is never in two places. `FramesInSubmitOrder`. `FitFetched`: every URB that fits leaves the driver's list despite requeues and park, cancel and retry. `ForwardedAnswered`: every forwarded URB is answered and handled. `CancelledNeverRun`: a URB that `VusbCancelUrb` found and completed is never framed, so no client runs it. A cancel after the forwarder's dequeue finds nothing and is lost, which the spec allows (`CANCEL_URB` is advisory) |
| `urb_completion_lost` | violation of `UrbEventuallyCompleted` | `GET_PENDING_URB` removes the URB from the list that `COMPLETE_URB` searches, so no URB is ever completed to the submitter |
| `urb_answer_too_large` | violation of `ForwardedAnswered` | a 64 KiB IN read is forwarded. The client frames everything the device returned in one `URB_COMPLETE`. The session thread rejects the payload as too large and ends the session, so the URB is never answered. The spec caps a frame's payload at 65 520 bytes but caps neither `buf_len` nor `actual_length`, and has no way to split a completion |

`UrbPath` also defines `ExecutedOnAttachedDevice`: the client runs a URB
on the device its driver device was attached from. `SUBMIT_URB` carries the
driver's device id, and the client resolves it as a local id. With
`LocalIds <- MCLocalIdsAll` and `Shapes = {"fit"}`, TLC finds it violated in 6
states: a URB for driver device 1, attached from the client's device 2, runs on
the client's device 1. No cfg checks it.

`UrbPath` also defines `ServerPendingUnanswered`: a URB answered by the client
leaves the forwarder's `PendingList`. `ServerUrbComplete`, which would remove it,
has no caller, so the property fails. No run checks it, because the forwarder
is never started in the server as built.

### Client (client sockets, both clients), with MCClient

`Client` models one client connection. The server's session thread answers
requests. The client side is either the simple client (`vusb_client.c`), or the
enhanced client (`vusb_client_enhanced.c`), which has two threads reading the
same socket: the interactive thread and `ReceiveThread`.

The TCP stream toward the client is a sequence of frames plus `off`, the number
of bytes of the head frame already read. A read of `n` bytes, `Consume(n)`,
takes bytes across frame boundaries exactly as `recv(..., MSG_WAITALL)` does.
`Peek(n)` is what such a read sees:

- a read that starts on a frame boundary sees the frame's command and sequence;
- any other read sees garbage, which `VusbValidateHeader` rejects.

| Variable | Code |
|---|---|
| `mode` | which client program runs |
| `toServer`, `toClient`, `off` | the two directions of the socket |
| `listed` | the devices the server would list for this session |
| `Sequence` | `ctx->Sequence` |
| `ui` | the interactive thread: waiting for input, in a `recv` for a reply, or in the `VUSB_DEVICE_INFO` loop |
| `rx` | `ReceiveThread`: not started, reading a header, or reading a payload |
| `urbsSent`, `urbsDone` | `SUBMIT_URB` frames written; `URB_COMPLETE` frames the session thread handled |
| `misread` | reads by the interactive thread that were not the whole reply they expected |

| Action | Code |
|---|---|
| `ServerHandle` | `VusbServerProcessMessage` and its handlers: the size of every reply, one `VUSB_DEVICE_INFO` per device after the `DEVICE_LIST` response, and no reply to `URB_COMPLETE` |
| `ServerPushUrb` | `ServerUrbForward` writing a `SUBMIT_URB` |
| `UiSend` | the send half of `VusbClientConnect`, `AttachDevice`, `DetachDevice`, `ListDevices` and `Ping`; `DetachDevice` reads no ack |
| `UiConnected`, `UiReplied`, `UiListed`, `UiInfo` | their `recv` halves |
| `RxHeader`, `RxBody` | `ReceiveThread` and `ProcessServerMessage`; a `SUBMIT_URB` is answered through `SendUrbCompletion`, which takes `++ctx->Sequence` |

**Fairness.** Weak fairness on the server's loop and on every blocked `recv`
whose bytes are available. The user and the forwarder owe nothing, so the run
sets `CHECK_DEADLOCK FALSE`: the client may rest at its prompt.

**Bounds.** `MCClient` runs both programs:

- the simple client issues `attach`, `detach`, `list` and `ping`;
- the enhanced client's user only detaches, which reads no reply, while the
  forwarder writes two `SUBMIT_URB` frames.

Three requests and up to two listed devices are enough to reach list replies
of 0, 1 and 2 records, and URBs arriving between interactive requests.

| Run | Expect | What it shows |
|---|---|---|
| `client_session` | pass | `UrbsAnswered`: every `SUBMIT_URB` gets a `URB_COMPLETE` that the server handles, with detach acks and interactive requests interleaved |
| `client_reply_stolen` | violation of `RequestAnswered` | in the enhanced client, `ReceiveThread` takes the `PONG`, logs it as unhandled, and the `ping` command waits in `recv` forever |

| `client_detach_hang` | violation of `RequestAnswered` | the simple client's `detach` leaves the server's header-only ack unread. A later `list` reads that ack and 8 bytes of the `DEVICE_LIST` header, so `DeviceCount` is the header's Version and Command, 0x00120100. The loop then waits in `recv` for records that never come |

`UiListed` takes `DeviceCount` from the bytes it actually reads (`CountSeen`):
- on a `DEVICE_LIST` response, the response's count;
- on a header-only frame, the next header's Version | Command << 16. That is
  at least 0x00010100, a count no stream of the model can satisfy (`Endless`);
- anywhere else, any count.

The history variable `misread` counts the replies read from the wrong
bytes. After a `detach` it becomes non-zero in the simple client, so no run
states that replies stay paired.

### Capture (enhanced client's capture context and its two threads), with MCCapture

`Capture` models `client/vusb_capture.c` as the enhanced client uses it:
`main` in `vusb_client_enhanced.c` and `RunEnhancedInteractive` on one thread,
`ReceiveThread` with `ClientUrbProcess` (`vusb_client_urb.c`) on the other.

| Variable | Code |
|---|---|
| `dev` | `ctx->Devices[]`: `Active`, `LocalId`, VID/PID, `Opened`, `DeviceHandle`, `WinUsbHandle` |
| `NextLocalId`, `DeviceCount` | the context's counters |
| `th` | each thread's program counter, the slot it works on, where an open returns, and the WinUSB handle a running transfer uses |
| `Running`, `Connected`, `sockOpen` | `ctx->Running`, `ctx->Base.Connected`, the socket not yet closed |
| `nextH`, `fileOpen`, `wusbOpen` | handles created; device handles and WinUSB handles not yet closed or freed |

| Action | Code |
|---|---|
| `Enumerate` | `UsbCaptureEnumerateDevices`: `AddDevice` per interface, skipping a VID/PID already active or a full table |
| `RefreshSlot` | the open loop of `UsbCaptureRefreshDevices` |
| `OpenCheck`, `OpenCreate`, `OpenInit` | `UsbCaptureOpenDevice`: the `Opened` test, `CreateFileW` into `DeviceHandle`, `WinUsb_Initialize` reading `DeviceHandle` and writing `WinUsbHandle` (failure closes `DeviceHandle`) |
| `Connect`, `ConnectFailed` | `VusbClientConnect`, the start of `ReceiveThread`, or cleanup and exit |
| `UiScan`, `UiOpen`, `UiLeave` | `scan`; `info` and `AttachRealDevice`; the end of the loop, `Running = FALSE` and `closesocket` |
| `Wait`, `Cleanup`, `Exit` | `WaitForSingleObject(ReceiveThread, 2000)`, `UsbCaptureCleanup`, the return from `main` |
| `RxRecv` | the loop test, `recv`, and `UsbCaptureFindDevice` on the URB's `DeviceId` |
| `RxXferStart`, `RxXferEnd` | the transfer call's `Opened` test and WinUSB call on `WinUsbHandle`, and `SendUrbCompletion` |
| `PeerClose` | the server closing the connection |

`UsbCaptureOpenDevice` is split at its shared writes, because neither
`ReceiveThread` nor `info` and `attach` take `ctx->Lock`, and the lock
holders (enumeration, the refresh loop, cleanup) all run on the main thread.
`Enumerate` and `Cleanup` are single steps: the other thread only reads the
fields they write, and the property looks at the handles they close as a
whole. `Wait` may time out only while `ReceiveThread` is inside
`ClientUrbProcess`, whose transfers set a 5000 ms pipe timeout. Elsewhere,
closing the socket ends the thread at once.

`MCCapture` has 2 slots, two devices with different VID/PIDs, URBs and
commands naming LocalIds 1 and 2 or an unknown id 3, 2 URBs and 4 handles.
So each thread can open each device once, and the startup open can fail and
leave a device for a later open. `MCCapture.cfg` checks `TypeOK` over the
whole space (66k states).

| Run | Expect | What it shows |
|---|---|---|
| `capture_handle_race` | violation of `HandlesSound` | the user quits while a transfer runs. The 2 s wait times out, and `UsbCaptureCleanup` frees the WinUSB handle the transfer is using (16 steps). The open race breaks the same property too: the startup open fails, then `info 1` and a `SUBMIT_URB` for device 1 both pass the `Opened` test. The second `CreateFileW` overwrites the first handle, which is leaked (17 steps, found with the timeout path excluded) |

## Plan

Modules in order of importance:

1. `UsServer` and `UsShutdown`, done. Next: a property for a submit or a
   cancel that hits a reused slot.
2. `KServer`, done. `VusbServerCleanup` is never reached, because nothing
   clears `ctx->Running`. So the only end of the process is `Restart`. Next:
   `URB_COMPLETE` forwarding joins `UrbPath`.
3. `UrbPath`, done, with the session ending on a too-large answer. Next:
   compose it with `KServer` so that detach races a forward (URBs of a
   destroyed device), and state the forwarder's use of a freed client.
4. `UrbTable`, done for `UsServer`. Next: map `UrbPath`'s driver list to it.
5. `Capture`, done for the two threads. Next: unplug and re-plug, where
   the stale slot keeps its path and a device of the same VID/PID is never
   captured.
6. `Client`, done. Next: the race on `ctx->Sequence` between
   `SendUrbCompletion` and the interactive thread.
7. Framing: header validation is `Client`'s `Peek`, and `CountSeen` gives the
   bytes of a misread list count. Next: a second host thread in `UsServer`,
   so that a cancel can land on a reused slot.

Not modelled:
- the capture backend's descriptor reads and the asynchronous transfer API (no caller); a transfer is the time it holds `WinUsbHandle`;
- URB parsing and descriptor handling in the driver (`vusb_urb.c`). No path
  calls `VusbUrbCreate`, `VusbUrbParse` or `HandleStandardRequest`, and the rest
  is data conversion;
- the byte layout of frames and `VusbInitHeader`. Frames are records of command,
  sequence and length. `VusbValidateHeader` is `Client`'s `Peek`, which rejects a
  read that starts inside a frame;
- length fields a hostile peer could send. `ActualLength` (vusb_server.c:578) and
  `TransferBufferLength` (vusb_client_enhanced.c:236) are trusted without being
  compared with the payload received. The two programs always agree on them;
- tools, logging, statistics and the console's listings, which only read
  state;
- `VusbServerCleanup` of the driver-backed server, which no path reaches.
