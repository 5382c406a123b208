------------------------------ MODULE Client -------------------------------
(***************************************************************************)
(* A client's TCP session with the driver-backed server, as a byte stream. *)
(*                                                                         *)
(* The interactive thread (client/vusb_client.c: VusbClientConnect,        *)
(* AttachDevice, DetachDevice, ListDevices, Ping) sends one request and    *)
(* reads its reply with recv(..., sizeof(reply), MSG_WAITALL); it never    *)
(* looks at the reply's Sequence.  The enhanced client                     *)
(* (client/vusb_client_enhanced.c) also runs ReceiveThread, which reads a  *)
(* header and its payload from the same socket, in a loop.  The server     *)
(* (server/vusb_server.c, VusbServerProcessMessage) handles one request at *)
(* a time and writes the reply frames; its forwarder may write SUBMIT_URB  *)
(* frames at any time.                                                     *)
(*                                                                         *)
(* The stream to the client is a sequence of frames with their sizes in    *)
(* bytes, and an offset into the first.  A recv of n bytes is one step     *)
(* when n bytes are there; when both threads wait in recv, either may get  *)
(* them.  A read that starts inside a frame sees no valid header.          *)
(***************************************************************************)
EXTENDS Naturals, Sequences

CONSTANTS
    Modes,        \* which clients may run: "simple" (vusb_client.c), "enhanced"
    CommandsOf,   \* [Modes -> commands the user may type]
    UrbsOf,       \* [Modes -> bound on SUBMIT_URB frames the forwarder writes]
    MaxRequests,  \* bound on requests sent after CONNECT
    MaxListed     \* bound on devices the server lists

ASSUME /\ Modes \subseteq {"simple", "enhanced"}
       /\ \A m \in Modes : CommandsOf[m] \subseteq {"attach", "detach", "list", "ping"}

\* sizeof the packed structures of protocol/vusb_protocol.h.
HdrSize == 16
InfoSize == 208
SubmitSize == 48
ReplySize == [connect |-> 32, attach |-> 24, list |-> 24, ping |-> 16]

\* The command of the reply that VusbServerProcessMessage writes.
ReplyCmd == [connect |-> "CONNECT", attach |-> "DEVICE_ATTACH", list |-> "DEVICE_LIST",
             ping |-> "PONG", detach |-> "DEVICE_DETACH"]

Garbage == [cmd |-> "NONE", seq |-> 0, whole |-> FALSE]

VARIABLES
    mode,       \* the client program running
    toServer,   \* requests not yet handled by the session thread
    toClient,   \* frames written by the server, not yet fully read
    off,        \* bytes of the first frame already read
    listed,     \* devices the server would list
    Sequence,   \* ctx->Sequence
    ui,         \* the interactive thread
    rx,         \* ReceiveThread
    urbsSent,   \* SUBMIT_URB frames written
    urbsDone,   \* URB_COMPLETE frames the session thread handled
    misread     \* history: replies the interactive thread read wrongly

vars == <<mode, toServer, toClient, off, listed, Sequence, ui, rx, urbsSent, urbsDone, misread>>

-----------------------------------------------------------------------------
(* The stream.                                                             *)

RECURSIVE Bytes(_)
Bytes(s) == IF s = <<>> THEN 0 ELSE Head(s).len + Bytes(Tail(s))

Avail == Bytes(toClient) - off

\* What a read of n bytes sees: a header, and whether it read exactly one
\* whole frame; a read starting inside a frame sees garbage.
Peek(n) ==
    IF off = 0
    THEN [cmd |-> Head(toClient).cmd, seq |-> Head(toClient).seq,
          whole |-> Head(toClient).len = n]
    ELSE Garbage

\* The stream after n more bytes are read: <<frames, offset>>.
RECURSIVE Skip(_, _, _)
Skip(s, o, n) ==
    IF n = 0 THEN <<s, o>>
    ELSE IF n < Head(s).len - o THEN <<s, o + n>>
    ELSE Skip(Tail(s), 0, n - (Head(s).len - o))

Consume(n) ==
    /\ toClient' = Skip(toClient, off, n)[1]
    /\ off' = Skip(toClient, off, n)[2]

\* A frame; n is the DeviceCount of a DEVICE_LIST response.
Frame(cmd, seq, len, n) == [cmd |-> cmd, seq |-> seq, len |-> len, n |-> n]

-----------------------------------------------------------------------------
(* Server side.                                                            *)

\* VusbServerHandleDeviceList: the DEVICE_LIST response with DeviceCount,
\* then one VUSB_DEVICE_INFO per tracked device, each by its own send().
ListFrames(seq) ==
    <<Frame("DEVICE_LIST", seq, ReplySize.list, listed)>>
        \o [i \in 1..listed |-> Frame("INFO", seq, InfoSize, 0)]

\* VusbClientThread reads one request; VusbServerProcessMessage handles it.
\* CONNECT: CONNECT response.  PING: VusbServerSendPong.  DEVICE_ATTACH:
\* response with SUCCESS (the driver's status is lost, see KServer).
\* DEVICE_DETACH: header-only ack.  DEVICE_LIST: the response, then one
\* VUSB_DEVICE_INFO per device, each by its own send().  URB_COMPLETE:
\* forwarded to the driver, no reply.
ServerHandle ==
    /\ toServer # <<>>
    /\ LET r == Head(toServer) IN
       CASE r.cmd = "connect" ->
              /\ toClient' = Append(toClient, Frame("CONNECT", r.seq, ReplySize.connect, 0))
              /\ UNCHANGED <<listed, urbsDone>>
         [] r.cmd = "ping" ->
              /\ toClient' = Append(toClient, Frame("PONG", r.seq, HdrSize, 0))
              /\ UNCHANGED <<listed, urbsDone>>
         [] r.cmd = "attach" ->
              /\ toClient' = Append(toClient, Frame("DEVICE_ATTACH", r.seq, ReplySize.attach, 0))
              /\ listed' = IF listed < MaxListed THEN listed + 1 ELSE listed
              /\ UNCHANGED urbsDone
         [] r.cmd = "detach" ->
              /\ toClient' = Append(toClient, Frame("DEVICE_DETACH", r.seq, HdrSize, 0))
              /\ listed' = IF listed > 0 THEN listed - 1 ELSE 0
              /\ UNCHANGED urbsDone
         [] r.cmd = "list" ->
              /\ toClient' = toClient \o ListFrames(r.seq)
              /\ UNCHANGED <<listed, urbsDone>>
         [] r.cmd = "urb_complete" ->
              /\ urbsDone' = urbsDone + 1
              /\ UNCHANGED <<toClient, listed>>
    /\ toServer' = Tail(toServer)
    /\ UNCHANGED <<mode, off, Sequence, ui, rx, urbsSent, misread>>

\* ServerUrbForward writes a SUBMIT_URB (an IN URB: no data follows).  The
\* forwarder is never started by the server as written (ServerUrbStart has
\* no caller), so UrbsOf bounds what it would write once started.  It
\* finds a session by FindClientForDevice, so only after the CONNECT
\* exchange, by which time the enhanced client runs ReceiveThread.
ServerPushUrb ==
    /\ rx.st # "off"
    /\ urbsSent < UrbsOf[mode]
    /\ toClient' = Append(toClient, Frame("SUBMIT_URB", 0, SubmitSize, 0))
    /\ urbsSent' = urbsSent + 1
    /\ UNCHANGED <<mode, toServer, off, listed, Sequence, ui, rx, urbsDone, misread>>

-----------------------------------------------------------------------------
(* Interactive thread.                                                     *)

\* VusbClientConnect sends CONNECT; then each command sends its request with
\* ++ctx->Sequence.  VusbClientDetachDevice returns after send() without
\* reading the acknowledgement.
UiSend(cmd) ==
    /\ \/ ui.st = "connect" /\ cmd = "connect"
       \/ ui.st = "idle" /\ cmd \in CommandsOf[mode] /\ Sequence <= MaxRequests
    /\ Sequence' = Sequence + 1
    /\ toServer' = Append(toServer, [cmd |-> cmd, seq |-> Sequence + 1])
    /\ ui' = IF cmd = "detach" THEN [ui EXCEPT !.st = "idle"]
             ELSE [st |-> "recv", cmd |-> cmd, seq |-> Sequence + 1, left |-> 0]
    /\ UNCHANGED <<mode, toClient, off, listed, rx, urbsSent, urbsDone, misread>>

\* recv(sizeof(reply), MSG_WAITALL) for the request in ui: the bytes are
\* consumed, and a read that is not the request's whole reply is counted.
RecvReply(seen) ==
    /\ Consume(ReplySize[ui.cmd])
    /\ misread' = IF seen = [cmd |-> ReplyCmd[ui.cmd], seq |-> ui.seq, whole |-> TRUE]
                  THEN misread ELSE misread + 1

\* VusbClientConnect's reply: an invalid header or a status other than
\* SUCCESS closes the socket and the program exits; otherwise the enhanced
\* client starts ReceiveThread.
UiConnected ==
    /\ ui.st = "recv" /\ ui.cmd = "connect"
    /\ Avail >= ReplySize.connect
    /\ LET seen == Peek(ReplySize.connect)
           ok == seen.cmd = "CONNECT"
       IN /\ RecvReply(seen)
          /\ ui' = [ui EXCEPT !.st = IF ok THEN "idle" ELSE "closed"]
          /\ rx' = IF ok /\ mode = "enhanced" THEN [rx EXCEPT !.st = "hdr"] ELSE rx
    /\ UNCHANGED <<mode, toServer, listed, Sequence, urbsSent, urbsDone>>

\* VusbClientAttachDevice and VusbClientPing: one recv, then the status or
\* the command is printed.
UiReplied ==
    /\ ui.st = "recv" /\ ui.cmd \in {"attach", "ping"}
    /\ Avail >= ReplySize[ui.cmd]
    /\ RecvReply(Peek(ReplySize[ui.cmd]))
    /\ ui' = [ui EXCEPT !.st = "idle"]
    /\ UNCHANGED <<mode, toServer, listed, Sequence, rx, urbsSent, urbsDone>>

\* A DeviceCount no stream of this model can satisfy.
Endless == MaxListed + 1

\* DeviceCount is bytes 20..23 of the 24-byte read.  On a DEVICE_LIST
\* response it is the response's count.  A read that starts on a header-only
\* frame (an unread DEVICE_DETACH ack, a PONG) takes Version | Command << 16
\* of the next header: at least 0x00010100 records.  Any other read takes
\* another reply's field or payload bytes: any count.
CountSeen ==
    CASE off = 0 /\ Head(toClient).cmd = "DEVICE_LIST" -> {Head(toClient).n}
      [] off = 0 /\ Head(toClient).len = HdrSize      -> {Endless}
      [] OTHER                                        -> 0..Endless

\* VusbClientListDevices: the response's DeviceCount says how many
\* VUSB_DEVICE_INFO to read.
UiListed ==
    /\ ui.st = "recv" /\ ui.cmd = "list"
    /\ Avail >= ReplySize.list
    /\ LET seen == Peek(ReplySize.list) IN
       /\ RecvReply(seen)
       /\ \E n \in CountSeen :
             ui' = [ui EXCEPT !.st = IF n = 0 THEN "idle" ELSE "info", !.left = n]
    /\ UNCHANGED <<mode, toServer, listed, Sequence, rx, urbsSent, urbsDone>>

\* Mutation of UiInfo: the loop does not end after the last device.
UiInfo_NoEnd ==
    /\ ui.st = "info"
    /\ Avail >= InfoSize
    /\ Consume(InfoSize)
    /\ misread' = IF Peek(InfoSize) = [cmd |-> "INFO", seq |-> ui.seq, whole |-> TRUE]
                  THEN misread ELSE misread + 1
    /\ ui' = [ui EXCEPT !.left = ui.left - 1]
    /\ UNCHANGED <<mode, toServer, listed, Sequence, rx, urbsSent, urbsDone>>

\* VusbClientListDevices: one recv(sizeof(VUSB_DEVICE_INFO)) per device; an
\* Endless count never runs out.
UiInfo ==
    /\ ui.st = "info"
    /\ Avail >= InfoSize
    /\ Consume(InfoSize)
    /\ misread' = IF Peek(InfoSize) = [cmd |-> "INFO", seq |-> ui.seq, whole |-> TRUE]
                  THEN misread ELSE misread + 1
    /\ ui' = IF ui.left = Endless THEN ui
             ELSE [ui EXCEPT !.st = IF ui.left = 1 THEN "idle" ELSE "info", !.left = ui.left - 1]
    /\ UNCHANGED <<mode, toServer, listed, Sequence, rx, urbsSent, urbsDone>>

-----------------------------------------------------------------------------
(* ReceiveThread of the enhanced client.                                   *)

\* recv of a header.  VusbValidateHeader fails on a header read from inside
\* a frame: continue.  A valid header with Length 0 is processed at once.
RxHeader ==
    /\ rx.st = "hdr"
    /\ Avail >= HdrSize
    /\ Consume(HdrSize)
    /\ LET seen == Peek(HdrSize) IN
       rx' = IF seen = Garbage \/ Head(toClient).len = HdrSize THEN rx
             ELSE [st |-> "body", cmd |-> seen.cmd, len |-> Head(toClient).len - HdrSize]
    /\ UNCHANGED <<mode, toServer, listed, Sequence, ui, urbsSent, urbsDone, misread>>

\* Mutation of RxBody: a SUBMIT_URB is processed without a URB_COMPLETE.
RxBody_NoComplete ==
    /\ rx.st = "body"
    /\ Avail >= rx.len
    /\ Consume(rx.len)
    /\ rx' = [st |-> "hdr", cmd |-> "NONE", len |-> 0]
    /\ UNCHANGED <<mode, toServer, listed, Sequence, ui, urbsSent, urbsDone, misread>>

\* SendUrbCompletion: a URB_COMPLETE with ++ctx->Base.Sequence.
SendUrbCompletion ==
    /\ Sequence' = Sequence + 1
    /\ toServer' = Append(toServer, [cmd |-> "urb_complete", seq |-> Sequence + 1])

\* recv of the payload, then ProcessServerMessage: SUBMIT_URB runs
\* ClientUrbProcess, which sends one URB_COMPLETE; a reply meant for the
\* interactive thread is an "Unhandled command" and is dropped.
RxBody ==
    /\ rx.st = "body"
    /\ Avail >= rx.len
    /\ Consume(rx.len)
    /\ IF rx.cmd = "SUBMIT_URB" THEN SendUrbCompletion ELSE UNCHANGED <<toServer, Sequence>>
    /\ rx' = [st |-> "hdr", cmd |-> "NONE", len |-> 0]
    /\ UNCHANGED <<mode, listed, ui, urbsSent, urbsDone, misread>>

-----------------------------------------------------------------------------

\* VusbClientInit: Sequence 0, not connected.
Init ==
    /\ mode \in Modes
    /\ toServer = <<>>
    /\ toClient = <<>>
    /\ off = 0
    /\ listed = 0
    /\ Sequence = 0
    /\ ui = [st |-> "connect", cmd |-> "connect", seq |-> 0, left |-> 0]
    /\ rx = [st |-> "off", cmd |-> "NONE", len |-> 0]
    /\ urbsSent = 0
    /\ urbsDone = 0
    /\ misread = 0

Next ==
    \/ ServerHandle
    \/ ServerPushUrb
    \/ \E cmd \in CommandsOf[mode] \cup {"connect"} : UiSend(cmd)
    \/ UiConnected
    \/ UiReplied
    \/ UiListed
    \/ UiInfo
    \/ RxHeader
    \/ RxBody

\* The session thread and ReceiveThread loop while connected, and a thread
\* blocked in recv returns once its bytes are there.  The user and the
\* forwarder owe nothing.
Fairness ==
    /\ WF_vars(ServerHandle)
    /\ WF_vars(UiConnected) /\ WF_vars(UiReplied) /\ WF_vars(UiListed) /\ WF_vars(UiInfo)
    /\ WF_vars(RxHeader) /\ WF_vars(RxBody)

Spec == Init /\ [][Next]_vars /\ Fairness

-----------------------------------------------------------------------------
(* Properties.                                                             *)

TypeOK ==
    /\ mode \in Modes
    /\ off \in Nat /\ (toClient = <<>> => off = 0)
    /\ toClient # <<>> => off < Head(toClient).len
    /\ listed \in 0..MaxListed /\ Sequence \in 0..(MaxRequests + 1 + urbsSent)
    /\ ui.st \in {"connect", "recv", "idle", "info", "closed"}
    /\ ui.st = "info" => ui.left \in 1..Endless
    /\ rx.st \in {"off", "hdr", "body"}
    /\ misread \in Nat /\ urbsSent \in Nat /\ urbsDone \in Nat

\* Every request the interactive thread waits on is answered, whatever
\* commands came before: the blocking recv of vusb_client.c returns and the
\* thread is back at the prompt.
RequestAnswered == ui.st \in {"recv", "info"} ~> ui.st \in {"idle", "closed"}

\* Every SUBMIT_URB written to the enhanced client is answered with a
\* URB_COMPLETE that the session thread handles.
UrbsAnswered == \A k \in 1..2 : urbsSent >= k ~> urbsDone >= k

=============================================================================
