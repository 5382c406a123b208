----------------------------- MODULE UsShutdown -----------------------------
(***************************************************************************)
(* Lifetime of the userspace server's client records and locks: the accept *)
(* loop of VusbUsRun, each session's ClientThread, VusbUsStop (console     *)
(* handler or 'q'), the wait for client threads at the end of VusbUsRun and *)
(* VusbUsCleanup, as main runs them one after the other.                   *)
(*                                                                         *)
(* A ClientThread frees its own client record once it has taken itself off *)
(* ctx->Clients; the main thread keeps using that record after CreateThread *)
(* (client->Thread = ...) and after releasing ClientLock in the wait loop   *)
(* (ctx->Clients[i]->Thread).  VusbUsCleanup deletes DeviceLock and        *)
(* ClientLock while a session thread whose wait timed out may still take   *)
(* them.  The registry and the URB tables are UsServer's; here a message   *)
(* handler is only a section under DeviceLock.                             *)
(*                                                                         *)
(* Critical sections of the session threads are single steps: a thread     *)
(* steps only while the lock it enters is not held across steps, which only *)
(* the main thread's wait loop does with ClientLock.                       *)
(***************************************************************************)
EXTENDS Naturals

CONSTANTS
    ClientSlots,   \* VUSB_US_MAX_CLIENTS slots of ctx->Clients
    MaxSessions    \* bound on accepted connections

Sessions == 1..MaxSessions
NULL == 0          \* an empty slot of ctx->Clients

VARIABLES
    Running,        \* ctx->Running
    cpc,            \* where the console thread is
    Clients,        \* ctx->Clients: slot -> session, or NULL
    NextSessionId,  \* ctx->NextSessionId
    Connected,      \* client->Connected of each session
    tpc,            \* where each session's ClientThread is
    mpc,            \* where the main thread is
    accepting,      \* the session the accept loop is starting
    widx,           \* i of the wait loop at the end of VusbUsRun
    waitFor,        \* the session whose thread the wait loop waits for
    mainHolds,      \* the main thread holds ClientLock (wait loop)
    locksDeleted,   \* VusbUsCleanup has deleted DeviceLock and ClientLock
    faults          \* history: uses of a freed client or a deleted lock

vars == <<Running, cpc, Clients, NextSessionId, Connected, tpc, mpc, accepting,
          widx, waitFor, mainHolds, locksDeleted, faults>>

Slot(c) == CHOOSE i \in ClientSlots : Clients[i] = c
FreeSlots == {i \in ClientSlots : Clients[i] = NULL}
FirstFree == CHOOSE i \in FreeSlots : \A j \in FreeSlots : i <= j
Freed(c) == tpc[c] = "done"

\* Entering a critical section deleted by VusbUsCleanup.
EnterLock == IF locksDeleted THEN {"deletedLock"} ELSE {}

Init ==
    /\ Running = FALSE      \* VusbUsInit
    /\ cpc = "loop"         \* main starts ConsoleThread before VusbUsRun
    /\ Clients = [i \in ClientSlots |-> NULL]
    /\ NextSessionId = 0
    /\ Connected = [c \in Sessions |-> FALSE]
    /\ tpc = [c \in Sessions |-> "none"]
    /\ mpc = "start"
    /\ accepting = NULL
    /\ widx = 1
    /\ waitFor = NULL
    /\ mainHolds = FALSE
    /\ locksDeleted = FALSE
    /\ faults = {}

----------------------------------------------------------------------------
(* The main thread: VusbUsRun, then VusbUsCleanup.                          *)

\* VusbUsRun creates, binds and listens on its socket, then sets Running.
Listen ==
    /\ mpc = "start"
    /\ Running' = TRUE /\ mpc' = "accept"
    /\ UNCHANGED <<cpc, Clients, NextSessionId, Connected, tpc, accepting,
                   widx, waitFor, mainHolds, locksDeleted, faults>>

\* accept() returned a connection: calloc and ++NextSessionId; under
\* ClientLock the record takes the first free slot.
Accept ==
    /\ mpc = "accept" /\ Running
    /\ NextSessionId < MaxSessions /\ FreeSlots # {}
    /\ NextSessionId' = NextSessionId + 1
    /\ Clients' = [Clients EXCEPT ![FirstFree] = NextSessionId + 1]
    /\ Connected' = [Connected EXCEPT ![NextSessionId + 1] = TRUE]
    /\ mpc' = "create" /\ accepting' = NextSessionId + 1
    /\ UNCHANGED <<Running, cpc, tpc, widx, waitFor, mainHolds, locksDeleted, faults>>

\* Every slot is taken: the connection is closed and the record freed.
AcceptFull ==
    /\ mpc = "accept" /\ Running
    /\ NextSessionId < MaxSessions /\ FreeSlots = {}
    /\ NextSessionId' = NextSessionId + 1
    /\ UNCHANGED <<Running, cpc, Clients, Connected, tpc, mpc, accepting,
                   widx, waitFor, mainHolds, locksDeleted, faults>>

\* CreateThread starts ClientThread on the record; the assignment of its
\* result to client->Thread is the next step.
CreateClientThread ==
    /\ mpc = "create"
    /\ tpc' = [tpc EXCEPT ![accepting] = "recv"]
    /\ mpc' = "setThread"
    /\ UNCHANGED <<Running, cpc, Clients, NextSessionId, Connected, accepting,
                   widx, waitFor, mainHolds, locksDeleted, faults>>

\* client->Thread = CreateThread(...): a write into the record the new
\* thread may already have freed.
SetThread ==
    /\ mpc = "setThread"
    /\ faults' = faults \cup (IF Freed(accepting) THEN {"freedClient"} ELSE {})
    /\ mpc' = "accept" /\ accepting' = NULL
    /\ UNCHANGED <<Running, cpc, Clients, NextSessionId, Connected, tpc, widx,
                   waitFor, mainHolds, locksDeleted>>

\* CreateThread failed: the record leaves its slot under ClientLock and is
\* freed.
CreateThreadFailed ==
    /\ mpc = "create"
    /\ Clients' = [Clients EXCEPT ![Slot(accepting)] = NULL]
    /\ Connected' = [Connected EXCEPT ![accepting] = FALSE]
    /\ mpc' = "accept" /\ accepting' = NULL
    /\ UNCHANGED <<Running, cpc, NextSessionId, tpc, widx, waitFor, mainHolds,
                   locksDeleted, faults>>

\* Ctrl+C or Ctrl+Break: ConsoleHandler calls VusbUsStop, which clears
\* Running (and closes the listen socket once there is one), at any moment
\* of the process, before VusbUsRun has set Running too.
CtrlC ==
    /\ mpc # "exited"
    /\ Running' = FALSE
    /\ UNCHANGED <<cpc, Clients, NextSessionId, Connected, tpc, mpc, accepting,
                   widx, waitFor, mainHolds, locksDeleted, faults>>

\* ConsoleThread's loop runs while Running: 'q' calls VusbUsStop ...
ConsoleQuit ==
    /\ mpc # "exited" /\ cpc = "loop" /\ Running
    /\ Running' = FALSE
    /\ UNCHANGED <<cpc, Clients, NextSessionId, Connected, tpc, mpc, accepting,
                   widx, waitFor, mainHolds, locksDeleted, faults>>

\* ... and the thread returns as soon as it finds Running clear.
ConsoleExit ==
    /\ mpc # "exited" /\ cpc = "loop" /\ ~Running
    /\ cpc' = "done"
    /\ UNCHANGED <<Running, Clients, NextSessionId, Connected, tpc, mpc,
                   accepting, widx, waitFor, mainHolds, locksDeleted, faults>>

\* The accept loop sees Running cleared, closes the listen socket and
\* enters ClientLock for the wait loop.
AcceptLoopExit ==
    /\ mpc = "accept" /\ ~Running
    /\ mpc' = "scan" /\ widx' = 1 /\ mainHolds' = TRUE
    /\ UNCHANGED <<Running, cpc, Clients, NextSessionId, Connected, tpc, accepting,
                   waitFor, locksDeleted, faults>>

\* The wait loop over ctx->Clients, under ClientLock: an empty slot is
\* skipped.
ScanEmpty ==
    /\ mpc = "scan" /\ widx \in ClientSlots /\ Clients[widx] = NULL
    /\ widx' = widx + 1
    /\ UNCHANGED <<Running, cpc, Clients, NextSessionId, Connected, tpc, mpc,
                   accepting, waitFor, mainHolds, locksDeleted, faults>>

\* For a client, Connected is cleared (its socket is not closed) and
\* ClientLock released before the wait.
ScanClient ==
    /\ mpc = "scan" /\ widx \in ClientSlots /\ Clients[widx] # NULL
    /\ Connected' = [Connected EXCEPT ![Clients[widx]] = FALSE]
    /\ mpc' = "readThread" /\ mainHolds' = FALSE
    /\ UNCHANGED <<Running, cpc, Clients, NextSessionId, tpc, accepting, widx,
                   waitFor, locksDeleted, faults>>

\* Past the last slot ClientLock is released and VusbUsRun returns.
ScanEnd ==
    /\ mpc = "scan" /\ widx \notin ClientSlots
    /\ mpc' = "cleanup" /\ mainHolds' = FALSE
    /\ UNCHANGED <<Running, cpc, Clients, NextSessionId, Connected, tpc,
                   accepting, widx, waitFor, locksDeleted, faults>>

\* WaitForSingleObject(ctx->Clients[i]->Thread, 5000) reads the slot again
\* after ClientLock was released: the thread may have emptied it meanwhile,
\* and the read of ->Thread through NULL ends the process.
ReadThread ==
    /\ mpc = "readThread" /\ Clients[widx] # NULL
    /\ waitFor' = Clients[widx] /\ mpc' = "waiting"
    /\ UNCHANGED <<Running, cpc, Clients, NextSessionId, Connected, tpc,
                   accepting, widx, mainHolds, locksDeleted, faults>>

ReadThreadNull ==
    /\ mpc = "readThread" /\ Clients[widx] = NULL
    /\ faults' = faults \cup {"nullClient"} /\ mpc' = "exited"
    /\ UNCHANGED <<Running, cpc, Clients, NextSessionId, Connected, tpc,
                   accepting, widx, waitFor, mainHolds, locksDeleted>>

\* The wait returns when the thread has ended or after 5 s, whichever is
\* first, so whether or not the thread has ended; then ClientLock is
\* entered again for the next slot.
WaitReturns ==
    /\ mpc = "waiting"
    /\ mpc' = "scan" /\ widx' = widx + 1 /\ mainHolds' = TRUE
    /\ waitFor' = NULL
    /\ UNCHANGED <<Running, cpc, Clients, NextSessionId, Connected, tpc, accepting,
                   locksDeleted, faults>>

\* VusbUsCleanup from main, after waiting at most 1 s for the console thread:
\* VusbUsStop again, CleanupDevice on every active slot under DeviceLock,
\* then DeleteCriticalSection on ClientLock, DeviceLock and CaptureLock.
Cleanup ==
    /\ mpc = "cleanup"
    /\ mpc' = "return" /\ locksDeleted' = TRUE
    /\ UNCHANGED <<Running, cpc, Clients, NextSessionId, Connected, tpc, accepting,
                   widx, waitFor, mainHolds, faults>>

\* main returns and the process ends with every thread in it.
Return ==
    /\ mpc = "return"
    /\ mpc' = "exited"
    /\ UNCHANGED <<Running, cpc, Clients, NextSessionId, Connected, tpc, accepting,
                   widx, waitFor, mainHolds, locksDeleted, faults>>

Exited == mpc = "exited" /\ UNCHANGED vars

----------------------------------------------------------------------------
(* ClientThread of session c.  No thread runs once the process has ended.  *)

Alive == mpc # "exited"

\* recv of a header and payload: a message arrives, or recv fails (peer
\* closed, error, bad header, oversized or short payload) and the loop ends.
Receive(c) ==
    /\ Alive /\ tpc[c] = "recv"
    /\ \E ok \in BOOLEAN : tpc' = [tpc EXCEPT ![c] = IF ok THEN "process" ELSE "cleanup"]
    /\ UNCHANGED <<Running, cpc, Clients, NextSessionId, Connected, mpc, accepting,
                   widx, waitFor, mainHolds, locksDeleted, faults>>

\* ProcessClientMessage: DISCONNECT clears Connected; ATTACH, DETACH,
\* URB_COMPLETE and DEVICE_LIST enter DeviceLock; CONNECT, PING and unknown
\* commands take no lock.  Then the loop tests Connected && ctx->Running.
Process(c) ==
    /\ Alive /\ tpc[c] = "process"
    /\ \E cmd \in {"disconnect", "device", "other"} :
          LET conn == Connected[c] /\ cmd # "disconnect" IN
          /\ Connected' = [Connected EXCEPT ![c] = conn]
          /\ faults' = faults \cup (IF cmd = "device" THEN EnterLock ELSE {})
          /\ tpc' = [tpc EXCEPT ![c] = IF conn /\ Running THEN "recv" ELSE "cleanup"]
    /\ UNCHANGED <<Running, cpc, Clients, NextSessionId, mpc, accepting, widx,
                   waitFor, mainHolds, locksDeleted>>

\* cleanup: Connected = FALSE, free the buffer, CleanupDevice on the
\* session's devices under DeviceLock.
CleanupDevices(c) ==
    /\ Alive /\ tpc[c] = "cleanup"
    /\ Connected' = [Connected EXCEPT ![c] = FALSE]
    /\ faults' = faults \cup EnterLock
    /\ tpc' = [tpc EXCEPT ![c] = "unlist"]
    /\ UNCHANGED <<Running, cpc, Clients, NextSessionId, mpc, accepting, widx,
                   waitFor, mainHolds, locksDeleted>>

\* Under ClientLock the record leaves ctx->Clients; then its socket is
\* closed, the record freed and the thread returns.
Unlist(c) ==
    /\ Alive /\ tpc[c] = "unlist" /\ ~mainHolds
    /\ Clients' = [i \in ClientSlots |-> IF Clients[i] = c THEN NULL ELSE Clients[i]]
    /\ faults' = faults \cup EnterLock
    /\ tpc' = [tpc EXCEPT ![c] = "done"]
    /\ UNCHANGED <<Running, cpc, NextSessionId, Connected, mpc, accepting, widx,
                   waitFor, mainHolds, locksDeleted>>

Next ==
    \/ Accept \/ CreateClientThread \/ SetThread \/ CreateThreadFailed
    \/ CtrlC \/ ConsoleQuit \/ ConsoleExit \/ Listen \/ AcceptFull
    \/ AcceptLoopExit \/ ScanEmpty \/ ScanClient \/ ScanEnd
    \/ ReadThread \/ ReadThreadNull \/ WaitReturns
    \/ Cleanup \/ Return \/ Exited
    \/ \E c \in Sessions : Receive(c) \/ Process(c) \/ CleanupDevices(c) \/ Unlist(c)

Spec == Init /\ [][Next]_vars

----------------------------------------------------------------------------
TypeOK ==
    /\ Running \in BOOLEAN
    /\ cpc \in {"loop", "done"}
    /\ Clients \in [ClientSlots -> Sessions \cup {NULL}]
    /\ NextSessionId \in 0..MaxSessions
    /\ Connected \in [Sessions -> BOOLEAN]
    /\ tpc \in [Sessions -> {"none", "recv", "process", "cleanup", "unlist", "done"}]
    /\ mpc \in {"start", "accept", "create", "setThread", "scan", "readThread", "waiting",
                "cleanup", "return", "exited"}
    /\ accepting \in Sessions \cup {NULL}
    /\ waitFor \in Sessions \cup {NULL}
    /\ mainHolds \in BOOLEAN /\ locksDeleted \in BOOLEAN
    /\ faults \subseteq {"freedClient", "nullClient", "deletedLock"}

\* A client record is used only while it is allocated, and a lock only
\* before VusbUsCleanup deletes it: neither the accept loop (client->Thread),
\* nor the wait loop (ctx->Clients[i]->Thread), nor a session thread that
\* outlived the 5 s wait ever touches freed or deleted state.
NoUseAfterFree == faults = {}
====
