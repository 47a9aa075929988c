----------------------------- MODULE NetConnect -----------------------------
(***************************************************************************)
(* Connection set-up (src/src/net_ib.cc): anpNetListen, anpNetConnect and  *)
(* anpNetAccept bring the queue pairs of a sender and a receiver together  *)
(* over a socket; the close calls take them apart.                         *)
(*                                                                         *)
(* Neither call blocks: each does what the socket allows, keeps its place  *)
(* in an ncclIbCommStage and returns, and the caller calls again.  One     *)
(* action is the code between two labels; whether a call goes on with the  *)
(* next label or a later call does makes no difference to the peer.        *)
(* Metadata travels in chunks, as a non-blocking socket may take or give   *)
(* any part of it.                                                         *)
(***************************************************************************)
EXTENDS Integers, Sequences

CONSTANTS
    NDevs,          \* ndevs of both merged devices
    QpsPerConn,     \* ncclParamIbQpsPerConn()
    SendMtu,        \* portAttr.active_mtu of each device of the sender
    RecvMtu,        \* the same of the receiver
    MetaLen,        \* chunks of an ncclIbConnectionMetadata
    SockCap,        \* bound: chunks a socket direction holds
    MaxFaults       \* bound: failed calls and a broken socket

ASSUME ConnectConstantsAssumption ==
    /\ NDevs \in Nat \ {0} /\ QpsPerConn \in Nat \ {0}
    /\ SendMtu \in [0 .. NDevs - 1 -> 1 .. 5]      \* enum ibv_mtu
    /\ RecvMtu \in [0 .. NDevs - 1 -> 1 .. 5]
    /\ MetaLen \in Nat \ {0} /\ SockCap \in Nat \ {0} /\ MaxFaults \in Nat

Devs == 0 .. NDevs - 1
Qps == 0 .. QpsPerConn * NDevs - 1

VARIABLES
    listening,  \* the listen socket exists and the sender has its handle
    link,       \* the socket between the two
    toRecv,     \* chunks on their way to the receiver
    toSend,     \* chunks on their way to the sender
    sStage,     \* stage of ncclIbHandle
    rStage,     \* stage of ncclIbListenComm
    sQp, rQp,   \* base.qps
    sComm,      \* what the caller has of the send communicator
    rComm,
    faults

vars == <<listening, link, toRecv, toSend, sStage, rStage, sQp, rQp, sComm,
          rComm, faults>>

NoQpn == <<"none", 0>>
Qpns == {"send", "recv"} \X Qps \cup {NoQpn}
Mtus == 0 .. 5
QpState == [state : {"RESET", "INIT", "RTS"}, dest : Qpns, mtu : Mtus]

\* ncclIbConnectionMetadata: a QP number and a device for each QP, the MTU of
\* each device.
Metadata == [qpn : [Qps -> Qpns], qpDev : [Qps -> Devs], mtu : [Devs -> Mtus]]
NoMeta == [qpn |-> [q \in Qps |-> NoQpn], qpDev |-> [q \in Qps |-> 0],
           mtu |-> [d \in Devs |-> 0]]
Chunk == [kind : {"meta", "ready"}, i : 1 .. MetaLen, body : Metadata]

SendStates == {"Start", "Connect", "Send", "Connecting", "Connected"}
RecvStates == {"Start", "Accept", "Recv", "Send", "PendingReady"}
CommStates == {"none", "returned", "closed", "failed"}

\* The type invariant of the module.
TypeOK ==
    /\ listening \in BOOLEAN
    /\ link \in {"none", "connecting", "up", "broken"}
    /\ toRecv \in Seq(Chunk) /\ Len(toRecv) <= SockCap
    /\ toSend \in Seq(Chunk) /\ Len(toSend) <= SockCap
    /\ sStage \in [state : SendStates, offset : 0 .. MetaLen, buffer : Metadata]
    /\ rStage \in [state : RecvStates, offset : 0 .. MetaLen, buffer : Metadata]
    /\ sQp \in [Qps -> QpState]
    /\ rQp \in [Qps -> QpState]
    /\ sComm \in CommStates
    /\ rComm \in CommStates
    /\ faults \in 0 .. MaxFaults

ResetQp == [state |-> "RESET", dest |-> NoQpn, mtu |-> 0]
StartStage == [state |-> "Start", offset |-> 0, buffer |-> NoMeta]

Init ==
    /\ listening = FALSE
    /\ link = "none"
    /\ toRecv = <<>>
    /\ toSend = <<>>
    /\ sStage = StartStage
    /\ rStage = StartStage
    /\ sQp = [q \in Qps |-> ResetQp]
    /\ rQp = [q \in Qps |-> ResetQp]
    /\ sComm = "none"
    /\ rComm = "none"
    /\ faults = 0

-----------------------------------------------------------------------------

\* Mutant: the index does not go back to the first device.
DevIndexUnwrapped(q) == q

\* Both sides alternate their QPs between their devices.
DevIndex(q) == q % NDevs

\* ncclSocketProgress: the chunks from offset + 1 on, as far as they get.
Chunks(kind, offset, n, body) ==
    [k \in 1 .. n |-> [kind |-> kind, i |-> offset + k, body |-> body]]

SocketSend(sock, kind, offset, n, body) ==
    sock \o Chunks(kind, offset, n, body)

Take(sock, n) == SubSeq(sock, n + 1, Len(sock))

SmallerOf(a, b) == IF a < b THEN a ELSE b

\* A call is in state st of its stage.
SendIn(st) == sComm = "none" /\ sStage.state = st
RecvIn(st) == rComm = "none" /\ rStage.state = st

\* A QP after ncclIbCreateQp, and after ncclIbRtrQp and ncclIbRtsQp.
Created == [state |-> "INIT", dest |-> NoQpn, mtu |-> 0]
Connected(qpn, mtu) == [state |-> "RTS", dest |-> qpn, mtu |-> mtu]

-----------------------------------------------------------------------------
(* anpNetConnect *)

\* The first call: the socket starts to connect.
ConnectStart ==
    /\ SendIn("Start")
    /\ listening /\ link = "none"
    /\ link' = "connecting"
    /\ sStage' = [sStage EXCEPT !.state = "Connect"]
    /\ UNCHANGED <<listening, toRecv, toSend, rStage, sQp, rQp, sComm, rComm,
                   faults>>

\* ib_connect_check: the socket is ready; the QPs are created and described.
SendMeta == [qpn |-> [q \in Qps |-> <<"send", q>>],
             qpDev |-> [q \in Qps |-> DevIndex(q)],
             mtu |-> SendMtu]

ConnectCheck ==
    /\ SendIn("Connect")
    /\ link = "up"
    /\ sQp' = [q \in Qps |-> Created]
    /\ sStage' = [state |-> "Send", offset |-> 0, buffer |-> SendMeta]
    /\ UNCHANGED <<listening, link, toRecv, toSend, rStage, rQp, sComm, rComm,
                   faults>>

\* ib_send: the metadata goes out.  The offset of the stage is kept from call
\* to call; with the last chunk it is reset for what the sender reads next.
ConnectSend ==
    /\ SendIn("Send")
    /\ link = "up"
    /\ \E n \in 1 .. MetaLen - sStage.offset :
          /\ Len(toRecv) + n <= SockCap
          /\ toRecv' = SocketSend(toRecv, "meta", sStage.offset, n, sStage.buffer)
          /\ sStage' = IF sStage.offset + n = MetaLen
                       THEN [state |-> "Connecting", offset |-> 0,
                             buffer |-> NoMeta]
                       ELSE [sStage EXCEPT !.offset = @ + n]
    /\ UNCHANGED <<listening, link, toSend, rStage, sQp, rQp, sComm, rComm,
                   faults>>

\* Mutant: a device stands for its QP.
SenderQpsByDevice(meta) ==
    [q \in Qps |-> Connected(meta.qpn[meta.qpDev[q]], meta.mtu[meta.qpDev[q]])]

\* ib_connect: the receiver's metadata comes in; with its last chunk the QPs
\* are connected, each over the MTU the receiver adjusted for its device.
SenderQps(meta) ==
    [q \in Qps |-> Connected(meta.qpn[q], meta.mtu[meta.qpDev[q]])]

ConnectRecv ==
    /\ SendIn("Connecting")
    /\ link = "up"
    /\ \E n \in 1 .. Len(toSend) :
          /\ sStage.offset + n <= MetaLen
          /\ toSend' = Take(toSend, n)
          /\ IF sStage.offset + n = MetaLen
             THEN /\ sQp' = SenderQps(toSend[n].body)
                  /\ sStage' = [state |-> "Connected", offset |-> 0,
                                buffer |-> toSend[n].body]
             ELSE /\ sStage' = [sStage EXCEPT !.offset = @ + n]
                  /\ UNCHANGED sQp
    /\ UNCHANGED <<listening, link, toRecv, rStage, rQp, sComm, rComm, faults>>

\* ib_send_ready: base.ready goes out and the caller gets the communicator.
ConnectReady ==
    /\ SendIn("Connected")
    /\ link = "up"
    /\ Len(toRecv) < SockCap
    /\ toRecv' = SocketSend(toRecv, "ready", 0, 1, NoMeta)
    /\ sStage' = StartStage
    /\ sComm' = "returned"
    /\ UNCHANGED <<listening, link, toSend, rStage, sQp, rQp, rComm, faults>>

-----------------------------------------------------------------------------
(* anpNetListen and anpNetAccept *)

Listen ==
    /\ ~listening
    /\ listening' = TRUE
    /\ UNCHANGED <<link, toRecv, toSend, sStage, rStage, sQp, rQp, sComm, rComm,
                   faults>>

AcceptStart ==
    /\ RecvIn("Start")
    /\ listening
    /\ rStage' = [rStage EXCEPT !.state = "Accept"]
    /\ UNCHANGED <<listening, link, toRecv, toSend, sStage, sQp, rQp, sComm,
                   rComm, faults>>

\* ib_accept_check: the accepted socket is ready.
AcceptCheck ==
    /\ RecvIn("Accept")
    /\ link = "up"
    /\ rStage' = [state |-> "Recv", offset |-> 0, buffer |-> NoMeta]
    /\ UNCHANGED <<listening, link, toRecv, toSend, sStage, sQp, rQp, sComm,
                   rComm, faults>>

\* ib_recv: the receiver creates and connects its QPs as soon as it has the
\* sender's metadata, over the MTU of the sender's device, and only then
\* describes them.
ReceiverQps(meta) ==
    [q \in Qps |-> Connected(meta.qpn[q], meta.mtu[meta.qpDev[q]])]

\* "Adjust the MTU": what the receiver reports for a device is the smaller one.
RecvMeta(meta) ==
    [qpn |-> [q \in Qps |-> <<"recv", q>>],
     qpDev |-> [q \in Qps |-> DevIndex(q)],
     mtu |-> [d \in Devs |-> SmallerOf(meta.mtu[d], RecvMtu[d])]]

\* Mutant: the offset is not reset between the metadata read and written.
ReplyStageKeepsOffset(meta) ==
    [state |-> "Send", offset |-> MetaLen - 1, buffer |-> RecvMeta(meta)]

ReplyStage(meta) ==
    [state |-> "Send", offset |-> 0, buffer |-> RecvMeta(meta)]

AcceptRecv ==
    /\ RecvIn("Recv")
    /\ link = "up"
    /\ \E n \in 1 .. Len(toRecv) :
          /\ rStage.offset + n <= MetaLen
          /\ toRecv' = Take(toRecv, n)
          /\ IF rStage.offset + n = MetaLen
             THEN /\ rQp' = ReceiverQps(toRecv[n].body)
                  /\ rStage' = ReplyStage(toRecv[n].body)
             ELSE /\ rStage' = [rStage EXCEPT !.offset = @ + n]
                  /\ UNCHANGED rQp
    /\ UNCHANGED <<listening, link, toSend, sStage, sQp, sComm, rComm, faults>>

\* ib_send
AcceptSend ==
    /\ RecvIn("Send")
    /\ link = "up"
    /\ \E n \in 1 .. MetaLen - rStage.offset :
          /\ Len(toSend) + n <= SockCap
          /\ toSend' = SocketSend(toSend, "meta", rStage.offset, n, rStage.buffer)
          /\ rStage' = IF rStage.offset + n = MetaLen
                       THEN [rStage EXCEPT !.state = "PendingReady", !.offset = 0]
                       ELSE [rStage EXCEPT !.offset = @ + n]
    /\ UNCHANGED <<listening, link, toRecv, sStage, sQp, rQp, sComm, rComm,
                   faults>>

\* Mutant: the receiver does not wait for base.ready.
ReadyAnyway == TRUE

\* ib_recv_ready waits for the sender's base.ready.
ReadyArrived == toRecv # <<>>

AcceptReady ==
    /\ RecvIn("PendingReady")
    /\ link = "up"
    /\ ReadyArrived
    /\ toRecv' = Take(toRecv, SmallerOf(1, Len(toRecv)))
    /\ rStage' = StartStage
    /\ rComm' = "returned"
    /\ UNCHANGED <<listening, link, toSend, sStage, sQp, rQp, sComm, faults>>

-----------------------------------------------------------------------------
(* The close calls, the socket (external) and what may fail *)

\* The socket is closed too; what was written to it still arrives.
CloseSend ==
    /\ sComm = "returned"
    /\ sComm' = "closed"
    /\ sQp' = [q \in Qps |-> ResetQp]
    /\ UNCHANGED <<listening, link, toRecv, toSend, sStage, rStage, rQp, rComm,
                   faults>>

CloseRecv ==
    /\ rComm = "returned"
    /\ rComm' = "closed"
    /\ rQp' = [q \in Qps |-> ResetQp]
    /\ UNCHANGED <<listening, link, toRecv, toSend, sStage, rStage, sQp, sComm,
                   faults>>

\* The connection is made.
SocketUp ==
    /\ link = "connecting"
    /\ link' = "up"
    /\ UNCHANGED <<listening, toRecv, toSend, sStage, rStage, sQp, rQp, sComm,
                   rComm, faults>>

InjectFault == faults < MaxFaults /\ faults' = faults + 1

SocketBreaks ==
    /\ link = "up"
    /\ link' = "broken"
    /\ InjectFault
    /\ UNCHANGED <<listening, toRecv, toSend, sStage, rStage, sQp, rQp, sComm,
                   rComm>>

\* A call returns an error, of the socket or of a verb of its set-up.  What it
\* made so far stays.
ConnectFails ==
    /\ sComm = "none" /\ sStage.state # "Start"
    /\ \/ link = "broken" /\ UNCHANGED faults
       \/ link # "broken" /\ InjectFault
    /\ sComm' = "failed"
    /\ UNCHANGED <<listening, link, toRecv, toSend, sStage, rStage, sQp, rQp,
                   rComm>>

AcceptFails ==
    /\ rComm = "none" /\ rStage.state # "Start"
    /\ \/ link = "broken" /\ UNCHANGED faults
       \/ link # "broken" /\ InjectFault
    /\ rComm' = "failed"
    /\ UNCHANGED <<listening, link, toRecv, toSend, sStage, rStage, sQp, rQp,
                   sComm>>

\* Both communicators are closed or lost.
Ended ==
    /\ sComm \in {"closed", "failed"} /\ rComm \in {"closed", "failed"}
    /\ UNCHANGED vars

Connect == ConnectStart \/ ConnectCheck \/ ConnectSend \/ ConnectRecv
             \/ ConnectReady
Accept == AcceptStart \/ AcceptCheck \/ AcceptRecv \/ AcceptSend \/ AcceptReady

Next ==
    \/ Listen \/ SocketUp
    \/ ConnectStart \/ ConnectCheck \/ ConnectSend \/ ConnectRecv \/ ConnectReady
    \/ AcceptStart \/ AcceptCheck \/ AcceptRecv \/ AcceptSend \/ AcceptReady
    \/ CloseSend \/ CloseRecv
    \/ SocketBreaks \/ ConnectFails \/ AcceptFails
    \/ Ended

Spec == Init /\ [][Next]_vars

\* Both callers call until they have their communicator.
FairSpec == Spec /\ WF_vars(Listen) /\ WF_vars(SocketUp) /\ WF_vars(Connect)
                 /\ WF_vars(Accept)

-----------------------------------------------------------------------------
(* Properties *)

\* Whoever has a communicator may use it at once: the QPs of the other side
\* are connected, unless the other side closed them already.  The receiver
\* writes its first CTS as soon as anpNetAccept returns.
PeerReady ==
    /\ (rComm = "returned" /\ sComm # "closed") =>
          \A q \in Qps : sQp[q].state = "RTS"
    /\ (sComm = "returned" /\ rComm # "closed") =>
          \A q \in Qps : rQp[q].state = "RTS"

\* Connected QPs point at each other: QP q of one side at QP q of the other,
\* which is what lets the two sides count their QPs in step.
QpsPaired ==
    \A q \in Qps :
        /\ sQp[q].state = "RTS" => sQp[q].dest = <<"recv", q>>
        /\ rQp[q].state = "RTS" => rQp[q].dest = <<"send", q>>

\* The two directions stay framed: what a side reads next is the chunk its
\* stage expects, across any number of partial reads and writes.
Framed ==
    /\ (rStage.state = "Recv" /\ toRecv # <<>>) =>
          toRecv[1].kind = "meta" /\ toRecv[1].i = rStage.offset + 1
    /\ (rStage.state = "PendingReady" /\ toRecv # <<>>) =>
          toRecv[1].kind = "ready"
    /\ (sStage.state = "Connecting" /\ toSend # <<>>) =>
          toSend[1].kind = "meta" /\ toSend[1].i = sStage.offset + 1

\* "Adjust the MTU" (anpNetAccept): the two ends of a connection use the same
\* MTU.
MtuAgreed ==
    \A q \in Qps : (sQp[q].state = "RTS" /\ rQp[q].state = "RTS") =>
        sQp[q].mtu = rQp[q].mtu

\* When nothing fails both callers get their communicator: neither waits for
\* bytes the other does not send.
Established == <>(faults > 0 \/ (sComm # "none" /\ rComm # "none"))
=============================================================================
