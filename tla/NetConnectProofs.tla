-------------------------- MODULE NetConnectProofs --------------------------
(***************************************************************************)
(* Connection set-up, for every number of devices and QPs, any length of   *)
(* the metadata and any way the socket splits it: the types, the framing   *)
(* of the two directions, the pairing of the QPs, and that whoever has a   *)
(* communicator finds the QPs of the other side connected.                 *)
(*                                                                         *)
(* The inductive invariant counts: each direction of the socket is a       *)
(* stream known in advance, the stage of a side tells how far it has       *)
(* written the one and read the other, and what the socket holds is the    *)
(* part of the stream between the two.  A side that has read something of  *)
(* the peer thus knows how far the peer has come.                          *)
(***************************************************************************)
EXTENDS NetConnect, SequenceTheorems, TLAPS

\* The streams: the sender's metadata and its base.ready, and the receiver's
\* metadata.
ForRecv(i) ==
    IF i <= MetaLen THEN [kind |-> "meta", i |-> i, body |-> SendMeta]
    ELSE [kind |-> "ready", i |-> 1, body |-> NoMeta]

ForSend(i) == [kind |-> "meta", i |-> i, body |-> RecvMeta(SendMeta)]

\* The caller has, or had, its communicator.
SendUp == sComm \in {"returned", "closed"}
RecvUp == rComm \in {"returned", "closed"}

\* How many chunks a side has written and read.
SendWritten ==
    CASE sStage.state = "Send" -> sStage.offset
      [] sStage.state \in {"Connecting", "Connected"} -> MetaLen
      [] OTHER -> IF SendUp THEN MetaLen + 1 ELSE 0

SendRead ==
    CASE sStage.state = "Connecting" -> sStage.offset
      [] sStage.state = "Connected" -> MetaLen
      [] OTHER -> IF SendUp THEN MetaLen ELSE 0

RecvRead ==
    CASE rStage.state = "Recv" -> rStage.offset
      [] rStage.state \in {"Send", "PendingReady"} -> MetaLen
      [] OTHER -> IF RecvUp THEN MetaLen + 1 ELSE 0

RecvWritten ==
    CASE rStage.state = "Send" -> rStage.offset
      [] rStage.state = "PendingReady" -> MetaLen
      [] OTHER -> IF RecvUp THEN MetaLen ELSE 0

\* A socket holds a piece of the stream, from chunk r + 1 on.
FollowsRecv(sock, r) == \A k \in 1 .. Len(sock) : sock[k] = ForRecv(r + k)
FollowsSend(sock, r) == \A k \in 1 .. Len(sock) : sock[k] = ForSend(r + k)

\* A socket direction holds what was written and not read.
Streams ==
    /\ SendWritten = RecvRead + Len(toRecv) /\ FollowsRecv(toRecv, RecvRead)
    /\ RecvWritten = SendRead + Len(toSend) /\ FollowsSend(toSend, SendRead)

\* A stage ends with its last chunk, and a communicator is handed out once.
Stages ==
    /\ sStage.state \in {"Send", "Connecting"} => sStage.offset < MetaLen
    /\ rStage.state \in {"Recv", "Send"} => rStage.offset < MetaLen
    /\ sStage.state = "Send" => sStage.buffer = SendMeta
    /\ rStage.state = "Send" => rStage.buffer = RecvMeta(SendMeta)
    /\ SendUp => sStage.state = "Start"
    /\ RecvUp => rStage.state = "Start"

\* The QPs are connected, to the peer's QP of the same number, from the end of
\* the peer's metadata to the close call, and at no other time.
QpsFollow ==
    \A q \in Qps :
        /\ IF sStage.state = "Connected" \/ sComm = "returned"
           THEN sQp[q].state = "RTS" /\ sQp[q].dest = <<"recv", q>>
           ELSE sQp[q].state # "RTS"
        /\ IF rStage.state \in {"Send", "PendingReady"} \/ rComm = "returned"
           THEN rQp[q].state = "RTS" /\ rQp[q].dest = <<"send", q>>
           ELSE rQp[q].state # "RTS"

ConnectInv == TypeOK /\ Streams /\ Stages /\ QpsFollow

-----------------------------------------------------------------------------
(* Types of the parts *)

LEMMA ConnectConstants ==
    /\ NDevs \in Nat \ {0} /\ QpsPerConn \in Nat \ {0}
    /\ MetaLen \in Nat \ {0} /\ SockCap \in Nat \ {0} /\ MaxFaults \in Nat
    /\ SendMtu \in [Devs -> 1 .. 5] /\ RecvMtu \in [Devs -> 1 .. 5]
    /\ 0 \in Devs /\ Qps \subseteq Nat
    /\ \A q \in Qps : DevIndex(q) \in Devs
  <1>1. QpsPerConn * NDevs \in Int
    BY ConnectConstantsAssumption
  <1>2. \A q \in Qps : q \in Nat
    BY <1>1 DEF Qps
  <1>3. \A q \in Nat : q % NDevs \in 0 .. NDevs - 1
    BY ConnectConstantsAssumption
  <1>4. \A q \in Qps : DevIndex(q) \in Devs
    BY <1>2, <1>3 DEF Devs, DevIndex
  <1>5. 0 \in Devs
    BY ConnectConstantsAssumption DEF Devs
  <1> QED
    BY <1>2, <1>4, <1>5, ConnectConstantsAssumption DEF Devs

LEMMA MetaTypes ==
    /\ NoMeta \in Metadata /\ SendMeta \in Metadata
    /\ \A m \in Metadata : RecvMeta(m) \in Metadata
  <1> USE ConnectConstants
  <1>1. /\ NoQpn \in Qpns
        /\ \A q \in Qps : <<"send", q>> \in Qpns /\ <<"recv", q>> \in Qpns
    BY DEF Qpns
  <1>2. NoMeta \in Metadata
    BY <1>1 DEF NoMeta, Metadata, Mtus
  <1>3. SendMeta \in Metadata
    <2>1. SendMtu \in [Devs -> Mtus]
      <3>1. \A d \in Devs : SendMtu[d] \in 1 .. 5
        OBVIOUS
      <3>2. 1 .. 5 \subseteq Mtus
        BY DEF Mtus
      <3> QED
        BY <3>1, <3>2
    <2> QED
      BY <1>1, <2>1 DEF SendMeta, Metadata
  <1>4. ASSUME NEW m \in Metadata PROVE RecvMeta(m) \in Metadata
    <2>1. \A d \in Devs : SmallerOf(m.mtu[d], RecvMtu[d]) \in Mtus
      BY DEF Metadata, Mtus, SmallerOf
    <2> QED
      BY <1>1, <2>1 DEF RecvMeta, Metadata
  <1> QED
    BY <1>2, <1>3, <1>4

LEMMA QpTypes ==
    /\ [q \in Qps |-> ResetQp] \in [Qps -> QpState]
    /\ [q \in Qps |-> Created] \in [Qps -> QpState]
    /\ \A m \in Metadata : /\ SenderQps(m) \in [Qps -> QpState]
                           /\ ReceiverQps(m) \in [Qps -> QpState]
  <1>1. NoQpn \in Qpns /\ 0 \in Mtus
    BY DEF Qpns, Mtus
  <1>2. ASSUME NEW m \in Metadata, NEW q \in Qps
        PROVE  Connected(m.qpn[q], m.mtu[m.qpDev[q]]) \in QpState
    <2>1. m.qpn[q] \in Qpns /\ m.qpDev[q] \in Devs
      BY <1>2 DEF Metadata
    <2>2. m.mtu[m.qpDev[q]] \in Mtus
      BY <1>2, <2>1 DEF Metadata
    <2> QED
      BY <2>1, <2>2 DEF Connected, QpState
  <1> QED
    BY <1>1, <1>2 DEF ResetQp, Created, QpState, SenderQps, ReceiverQps

-----------------------------------------------------------------------------
(* The socket *)

\* new is sock with n chunks more, of which offset went before.
Sent(new, sock, kind, offset, n, body) ==
    /\ new \in Seq(Chunk) /\ Len(new) = Len(sock) + n /\ Len(sock) \in Nat
    /\ \A k \in 1 .. Len(sock) + n :
          new[k] = IF k <= Len(sock) THEN sock[k]
                   ELSE [kind |-> kind, i |-> offset + (k - Len(sock)),
                         body |-> body]

LEMMA SocketSendChunks ==
    ASSUME NEW sock \in Seq(Chunk), NEW kind \in {"meta", "ready"},
           NEW offset \in Nat, NEW n \in Nat, offset + n <= MetaLen,
           NEW body \in Metadata
    PROVE  Sent(SocketSend(sock, kind, offset, n, body), sock, kind, offset, n, body)
  <1> DEFINE c == Chunks(kind, offset, n, body)
  <1>1. c \in [1 .. n -> Chunk]
    BY ConnectConstants DEF Chunks, Chunk
  <1>2. c \in Seq(Chunk) /\ Len(c) = n
    BY <1>1
  <1>3. \A k \in 1 .. n :
           c[k] = [kind |-> kind, i |-> offset + k, body |-> body]
    BY DEF Chunks
  <1> HIDE DEF c
  <1>4. Len(sock) \in Nat
    OBVIOUS
  <1>5. /\ sock \o c \in Seq(Chunk) /\ Len(sock \o c) = Len(sock) + n
        /\ \A k \in 1 .. Len(sock) + n :
              (sock \o c)[k] = IF k <= Len(sock) THEN sock[k]
                               ELSE c[k - Len(sock)]
    BY <1>2, ConcatProperties
  <1>6. SocketSend(sock, kind, offset, n, body) = sock \o c
    BY DEF SocketSend, c
  <1>7. ASSUME NEW k \in 1 .. Len(sock) + n, ~(k <= Len(sock))
        PROVE  c[k - Len(sock)] = [kind |-> kind,
                                   i |-> offset + (k - Len(sock)),
                                   body |-> body]
    BY <1>3, <1>4, <1>7, k - Len(sock) \in 1 .. n
  <1> QED
    BY <1>4, <1>5, <1>6, <1>7 DEF Sent

LEMMA TakeChunks ==
    ASSUME NEW sock \in Seq(Chunk), NEW n \in 0 .. Len(sock)
    PROVE  /\ Take(sock, n) \in Seq(Chunk)
           /\ Len(Take(sock, n)) = Len(sock) - n
           /\ Len(sock) \in Nat
           /\ \A k \in 1 .. Len(sock) - n : Take(sock, n)[k] = sock[n + k]
  <1>1. Len(sock) \in Nat /\ \A k \in 1 .. Len(sock) : sock[k] \in Chunk
    BY ElementOfSeq
  <1>2. /\ SubSeq(sock, n + 1, Len(sock)) \in Seq(Chunk)
        /\ Len(SubSeq(sock, n + 1, Len(sock)))
             = IF n + 1 <= Len(sock) THEN Len(sock) - (n + 1) + 1 ELSE 0
        /\ \A k \in 1 .. Len(sock) - (n + 1) + 1 :
              SubSeq(sock, n + 1, Len(sock))[k] = sock[(n + 1) + k - 1]
    BY <1>1, SubSeqProperties
  <1> QED
    BY <1>1, <1>2 DEF Take


-----------------------------------------------------------------------------
(* The invariant, action by action *)

LEMMA StartStageType ==
    /\ StartStage \in [state : SendStates, offset : 0 .. MetaLen,
                      buffer : Metadata]
    /\ StartStage \in [state : RecvStates, offset : 0 .. MetaLen,
                      buffer : Metadata]
    /\ StartStage.state = "Start"
  <1>1. 0 \in 0 .. MetaLen /\ NoMeta \in Metadata
    BY ConnectConstants, MetaTypes
  <1> QED
    BY <1>1 DEF StartStage, SendStates, RecvStates

LEMMA InitConnectInv == Init => ConnectInv
  <1> SUFFICES ASSUME Init PROVE ConnectInv
    OBVIOUS
  <1>1. /\ StartStage.state = "Start" /\ StartStage.offset = 0
        /\ StartStage.buffer = NoMeta /\ ~SendUp /\ ~RecvUp
    BY DEF StartStage, Init, SendUp, RecvUp
  <1>2. TypeOK
    <2>1. <<>> \in Seq(Chunk) /\ Len(<<>>) = 0
      BY EmptySeq
    <2>2. /\ StartStage \in [state : SendStates, offset : 0 .. MetaLen,
                            buffer : Metadata]
          /\ StartStage \in [state : RecvStates, offset : 0 .. MetaLen,
                            buffer : Metadata]
      BY StartStageType
    <2>3. 0 <= SockCap /\ 0 \in 0 .. MaxFaults
      BY ConnectConstants
    <2> QED
      BY <2>1, <2>2, <2>3, QpTypes DEF Init, TypeOK, CommStates
  <1>3. Streams
    BY <1>1 DEF Init, Streams, SendWritten, SendRead, RecvRead, RecvWritten,
                FollowsRecv, FollowsSend
  <1>4. Stages
    BY <1>1 DEF Init, Stages
  <1>5. QpsFollow
    BY <1>1 DEF Init, QpsFollow, ResetQp
  <1> QED
    BY <1>2, <1>3, <1>4, <1>5 DEF ConnectInv

\* The facts of a state every step below starts from.
LEMMA ConnectShapes ==
    ASSUME TypeOK
    PROVE  /\ sStage.state \in SendStates /\ sStage.offset \in 0 .. MetaLen
           /\ sStage.buffer \in Metadata
           /\ rStage.state \in RecvStates /\ rStage.offset \in 0 .. MetaLen
           /\ rStage.buffer \in Metadata
           /\ toRecv \in Seq(Chunk) /\ Len(toRecv) \in Nat
           /\ toSend \in Seq(Chunk) /\ Len(toSend) \in Nat
           /\ DOMAIN sStage = {"state", "offset", "buffer"}
           /\ DOMAIN rStage = {"state", "offset", "buffer"}
  BY DEF TypeOK

LEMMA ConnectFacts ==
    ASSUME ConnectInv
    PROVE  /\ TypeOK /\ Streams /\ Stages /\ QpsFollow
           /\ sStage.offset \in Nat /\ sStage.offset <= MetaLen
           /\ rStage.offset \in Nat /\ rStage.offset <= MetaLen
           /\ sStage.buffer \in Metadata /\ rStage.buffer \in Metadata
           /\ toRecv \in Seq(Chunk) /\ Len(toRecv) \in Nat
           /\ toSend \in Seq(Chunk) /\ Len(toSend) \in Nat
           /\ MetaLen \in Nat \ {0} /\ SockCap \in Nat
  BY ConnectShapes, ConnectConstants DEF ConnectInv

\* A step that moves no chunk, no stage and no QP.
LEMMA ConnectFrame ==
    ASSUME ConnectInv, TypeOK',
           UNCHANGED <<toRecv, toSend, sStage, rStage, sQp, rQp>>,
           sComm' # sComm => sComm = "none" /\ sComm' = "failed",
           rComm' # rComm => rComm = "none" /\ rComm' = "failed"
    PROVE  ConnectInv'
  <1>1. (SendUp' <=> SendUp) /\ (RecvUp' <=> RecvUp)
        /\ (sComm' = "returned" <=> sComm = "returned")
        /\ (rComm' = "returned" <=> rComm = "returned")
    BY DEF SendUp, RecvUp
  <1>2. Streams'
    BY <1>1 DEF ConnectInv, Streams, SendWritten, SendRead, RecvRead,
                RecvWritten
  <1>3. Stages' /\ QpsFollow'
    BY <1>1 DEF ConnectInv, Stages, QpsFollow
  <1> QED
    BY <1>2, <1>3 DEF ConnectInv

LEMMA QuietStepsInv ==
    ASSUME ConnectInv,
           \/ Listen \/ SocketUp \/ SocketBreaks \/ ConnectFails
           \/ AcceptFails \/ UNCHANGED vars
    PROVE  ConnectInv'
  <1>1. TypeOK'
    <2>1. TypeOK
      BY DEF ConnectInv
    <2>2. CASE Listen \/ SocketUp \/ UNCHANGED vars
      BY <2>1, <2>2 DEF TypeOK, Listen, SocketUp, vars
    <2>3. CASE SocketBreaks \/ ConnectFails \/ AcceptFails
      <3>1. faults' \in 0 .. MaxFaults
        BY <2>1, <2>3, ConnectConstants
        DEF SocketBreaks, ConnectFails, AcceptFails, InjectFault, TypeOK
      <3> QED
        BY <2>1, <2>3, <3>1
        DEF SocketBreaks, ConnectFails, AcceptFails, TypeOK, CommStates
    <2> QED
      BY <2>2, <2>3
  <1> QED
    BY <1>1, ConnectFrame DEF Listen, SocketUp, SocketBreaks, ConnectFails,
                              AcceptFails, vars

LEMMA ConnectStartInv ==
    ASSUME ConnectInv, ConnectStart PROVE ConnectInv'
  <1> USE ConnectShapes DEF ConnectInv
  <1>1. /\ sComm = "none" /\ sStage.state = "Start"
        /\ sStage' = [sStage EXCEPT !.state = "Connect"]
        /\ UNCHANGED <<listening, toRecv, toSend, rStage, sQp, rQp, sComm, rComm,
                       faults>>
        /\ link' = "connecting"
    BY DEF ConnectStart, SendIn
  <1>2. sStage'.state = "Connect"
    BY <1>1
  <1>3. TypeOK'
    BY <1>1 DEF TypeOK, SendStates
  <1>4. Streams'
    BY <1>1, <1>2 DEF Streams, SendWritten, SendRead, RecvRead, RecvWritten,
                      SendUp, RecvUp
  <1>5. Stages' /\ QpsFollow'
    BY <1>1, <1>2 DEF Stages, QpsFollow, SendUp, RecvUp
  <1> QED
    BY <1>3, <1>4, <1>5

LEMMA ConnectCheckInv ==
    ASSUME ConnectInv, ConnectCheck PROVE ConnectInv'
  <1> USE ConnectShapes DEF ConnectInv
  <1>1. /\ sComm = "none" /\ sStage.state = "Connect"
        /\ sStage' = [state |-> "Send", offset |-> 0, buffer |-> SendMeta]
        /\ sQp' = [q \in Qps |-> Created]
        /\ UNCHANGED <<listening, link, toRecv, toSend, rStage, rQp, sComm,
                       rComm, faults>>
    BY DEF ConnectCheck, SendIn
  <1>2. /\ sStage'.state = "Send" /\ sStage'.offset = 0
        /\ sStage'.buffer = SendMeta
    BY <1>1
  <1>3. TypeOK'
    BY <1>1, MetaTypes, QpTypes, ConnectConstants DEF TypeOK, SendStates
  <1>4. Streams'
    BY <1>1, <1>2 DEF Streams, SendWritten, SendRead, RecvRead, RecvWritten,
                      SendUp, RecvUp
  <1>5. Stages' /\ QpsFollow'
    BY <1>1, <1>2, ConnectConstants
    DEF Stages, QpsFollow, SendUp, RecvUp, Created
  <1> QED
    BY <1>3, <1>4, <1>5

LEMMA AcceptStartInv ==
    ASSUME ConnectInv, AcceptStart PROVE ConnectInv'
  <1> USE ConnectShapes DEF ConnectInv
  <1>1. /\ rComm = "none" /\ rStage.state = "Start"
        /\ rStage' = [rStage EXCEPT !.state = "Accept"]
        /\ UNCHANGED <<listening, link, toRecv, toSend, sStage, sQp, rQp, sComm,
                       rComm, faults>>
    BY DEF AcceptStart, RecvIn
  <1>2. rStage'.state = "Accept"
    BY <1>1
  <1>3. TypeOK'
    BY <1>1 DEF TypeOK, RecvStates
  <1>4. Streams'
    BY <1>1, <1>2 DEF Streams, SendWritten, SendRead, RecvRead, RecvWritten,
                      SendUp, RecvUp
  <1>5. Stages' /\ QpsFollow'
    BY <1>1, <1>2 DEF Stages, QpsFollow, SendUp, RecvUp
  <1> QED
    BY <1>3, <1>4, <1>5

LEMMA AcceptCheckInv ==
    ASSUME ConnectInv, AcceptCheck PROVE ConnectInv'
  <1> USE ConnectShapes DEF ConnectInv
  <1>1. /\ rComm = "none" /\ rStage.state = "Accept"
        /\ rStage' = [state |-> "Recv", offset |-> 0, buffer |-> NoMeta]
        /\ UNCHANGED <<listening, link, toRecv, toSend, sStage, sQp, rQp, sComm,
                       rComm, faults>>
    BY DEF AcceptCheck, RecvIn
  <1>2. rStage'.state = "Recv" /\ rStage'.offset = 0
    BY <1>1
  <1>3. TypeOK'
    BY <1>1, MetaTypes, ConnectConstants DEF TypeOK, RecvStates
  <1>4. Streams'
    BY <1>1, <1>2 DEF Streams, SendWritten, SendRead, RecvRead, RecvWritten,
                      SendUp, RecvUp
  <1>5. Stages' /\ QpsFollow'
    BY <1>1, <1>2, ConnectConstants DEF Stages, QpsFollow, SendUp, RecvUp
  <1> QED
    BY <1>3, <1>4, <1>5


\* A stage that moves on by some chunks.
LEMMA StageMoves ==
    ASSUME NEW St, NEW g \in [state : St, offset : 0 .. MetaLen,
                              buffer : Metadata],
           NEW n \in Nat, g.offset + n <= MetaLen
    PROVE  LET h == [g EXCEPT !.offset = @ + n]
           IN  /\ h \in [state : St, offset : 0 .. MetaLen, buffer : Metadata]
               /\ h.state = g.state /\ h.offset = g.offset + n
               /\ h.buffer = g.buffer
  BY ConnectConstants

\* More of a stream is written: what the socket holds still follows it.
LEMMA SendMore ==
    ASSUME NEW sock \in Seq(Chunk), NEW r \in Nat, NEW o \in Nat, NEW n \in Nat,
           r + Len(sock) = o, o + n <= MetaLen, FollowsRecv(sock, r)
    PROVE  LET new == SocketSend(sock, "meta", o, n, SendMeta)
           IN  /\ new \in Seq(Chunk) /\ Len(new) = Len(sock) + n
               /\ FollowsRecv(new, r)
  <1> DEFINE new == SocketSend(sock, "meta", o, n, SendMeta)
  <1>1. /\ new \in Seq(Chunk) /\ Len(new) = Len(sock) + n /\ Len(sock) \in Nat
        /\ \A k \in 1 .. Len(sock) + n :
              new[k] = IF k <= Len(sock) THEN sock[k]
                       ELSE [kind |-> "meta", i |-> o + (k - Len(sock)),
                             body |-> SendMeta]
    <2>1. "meta" \in {"meta", "ready"} /\ SendMeta \in Metadata
      BY MetaTypes
    <2>2. Sent(new, sock, "meta", o, n, SendMeta)
      BY <2>1, SocketSendChunks
    <2> QED
      BY <2>2 DEF Sent
  <1> HIDE DEF new
  <1>2. ASSUME NEW k \in 1 .. Len(sock) + n PROVE new[k] = ForRecv(r + k)
    <2>1. CASE k <= Len(sock)
      <3>1. k \in 1 .. Len(sock) /\ new[k] = sock[k]
        BY <1>1, <2>1
      <3> QED
        BY <3>1 DEF FollowsRecv
    <2>2. CASE ~(k <= Len(sock))
      <3>0. Len(sock) \in Nat
        BY <1>1
      <3>1. o + (k - Len(sock)) = r + k /\ r + k <= MetaLen
        BY <3>0, ConnectConstants
      <3>2. new[k] = [kind |-> "meta", i |-> o + (k - Len(sock)),
                      body |-> SendMeta]
        BY <1>1, <2>2
      <3> QED
        BY <3>1, <3>2 DEF ForRecv
    <2> QED
      BY <2>1, <2>2
  <1>3. FollowsRecv(new, r)
    BY <1>1, <1>2 DEF FollowsRecv
  <1> QED
    BY <1>1, <1>3 DEF new

LEMMA SendReady ==
    ASSUME NEW sock \in Seq(Chunk), NEW r \in Nat,
           MetaLen = r + Len(sock), FollowsRecv(sock, r)
    PROVE  LET new == SocketSend(sock, "ready", 0, 1, NoMeta)
           IN  /\ new \in Seq(Chunk) /\ Len(new) = Len(sock) + 1
               /\ FollowsRecv(new, r)
  <1> DEFINE new == SocketSend(sock, "ready", 0, 1, NoMeta)
  <1>1. 0 + 1 <= MetaLen /\ 0 \in Nat /\ 1 \in Nat /\ NoMeta \in Metadata
    BY ConnectConstants, MetaTypes
  <1>2. /\ new \in Seq(Chunk) /\ Len(new) = Len(sock) + 1 /\ Len(sock) \in Nat
        /\ \A k \in 1 .. Len(sock) + 1 :
              new[k] = IF k <= Len(sock) THEN sock[k]
                       ELSE [kind |-> "ready", i |-> 0 + (k - Len(sock)),
                             body |-> NoMeta]
    <2>1. Sent(new, sock, "ready", 0, 1, NoMeta)
      BY <1>1, "ready" \in {"meta", "ready"}, SocketSendChunks
    <2> QED
      BY <2>1 DEF Sent
  <1> HIDE DEF new
  <1>3. ASSUME NEW k \in 1 .. Len(sock) + 1 PROVE new[k] = ForRecv(r + k)
    <2>1. CASE k <= Len(sock)
      <3>1. k \in 1 .. Len(sock) /\ new[k] = sock[k]
        BY <1>2, <2>1
      <3> QED
        BY <3>1 DEF FollowsRecv
    <2>2. CASE ~(k <= Len(sock))
      <3>1. 0 + (k - Len(sock)) = 1 /\ ~(r + k <= MetaLen)
        BY <1>2, <2>2, ConnectConstants
      <3>2. new[k] = [kind |-> "ready", i |-> 0 + (k - Len(sock)),
                      body |-> NoMeta]
        BY <1>2, <2>2
      <3> QED
        BY <3>1, <3>2 DEF ForRecv
    <2> QED
      BY <2>1, <2>2
  <1>4. FollowsRecv(new, r)
    BY <1>2, <1>3 DEF FollowsRecv
  <1> QED
    BY <1>2, <1>4 DEF new

LEMMA ReplyMore ==
    ASSUME NEW sock \in Seq(Chunk), NEW r \in Nat, NEW o \in Nat, NEW n \in Nat,
           r + Len(sock) = o, o + n <= MetaLen, FollowsSend(sock, r)
    PROVE  LET new == SocketSend(sock, "meta", o, n, RecvMeta(SendMeta))
           IN  /\ new \in Seq(Chunk) /\ Len(new) = Len(sock) + n
               /\ FollowsSend(new, r)
  <1> DEFINE new == SocketSend(sock, "meta", o, n, RecvMeta(SendMeta))
  <1>1. RecvMeta(SendMeta) \in Metadata
    BY MetaTypes
  <1>2. /\ new \in Seq(Chunk) /\ Len(new) = Len(sock) + n /\ Len(sock) \in Nat
        /\ \A k \in 1 .. Len(sock) + n :
              new[k] = IF k <= Len(sock) THEN sock[k]
                       ELSE [kind |-> "meta", i |-> o + (k - Len(sock)),
                             body |-> RecvMeta(SendMeta)]
    <2>1. Sent(new, sock, "meta", o, n, RecvMeta(SendMeta))
      BY <1>1, "meta" \in {"meta", "ready"}, SocketSendChunks
    <2> QED
      BY <2>1 DEF Sent
  <1> HIDE DEF new
  <1>3. ASSUME NEW k \in 1 .. Len(sock) + n PROVE new[k] = ForSend(r + k)
    <2>1. CASE k <= Len(sock)
      <3>1. k \in 1 .. Len(sock) /\ new[k] = sock[k]
        BY <1>2, <2>1
      <3> QED
        BY <3>1 DEF FollowsSend
    <2>2. CASE ~(k <= Len(sock))
      <3>0. Len(sock) \in Nat
        BY <1>2
      <3>1. o + (k - Len(sock)) = r + k
        BY <3>0
      <3>2. new[k] = [kind |-> "meta", i |-> o + (k - Len(sock)),
                      body |-> RecvMeta(SendMeta)]
        BY <1>2, <2>2
      <3> QED
        BY <3>1, <3>2 DEF ForSend
    <2> QED
      BY <2>1, <2>2
  <1>4. FollowsSend(new, r)
    BY <1>2, <1>3 DEF FollowsSend
  <1> QED
    BY <1>2, <1>4 DEF new

\* Some of a stream is read: the rest follows from where the reader is.
LEMMA ReadMore ==
    ASSUME NEW sock \in Seq(Chunk), NEW r \in Nat, NEW n \in 1 .. Len(sock)
    PROVE  LET rest == Take(sock, n)
           IN  /\ rest \in Seq(Chunk) /\ Len(rest) = Len(sock) - n
               /\ Len(sock) \in Nat
               /\ FollowsRecv(sock, r) => /\ FollowsRecv(rest, r + n)
                                          /\ sock[n] = ForRecv(r + n)
               /\ FollowsSend(sock, r) => /\ FollowsSend(rest, r + n)
                                          /\ sock[n] = ForSend(r + n)
  <1> DEFINE rest == Take(sock, n)
  <1>1. Len(sock) \in Nat /\ n \in Nat /\ n \in 0 .. Len(sock)
    OBVIOUS
  <1>2. /\ rest \in Seq(Chunk) /\ Len(rest) = Len(sock) - n
        /\ \A k \in 1 .. Len(sock) - n : rest[k] = sock[n + k]
    BY <1>1, TakeChunks
  <1> HIDE DEF rest
  <1>3. \A k \in 1 .. Len(rest) : /\ n + k \in 1 .. Len(sock)
                                  /\ r + (n + k) = (r + n) + k
    BY <1>1, <1>2
  <1>4. FollowsRecv(sock, r) => /\ FollowsRecv(rest, r + n)
                                /\ sock[n] = ForRecv(r + n)
    BY <1>1, <1>2, <1>3 DEF FollowsRecv
  <1>5. FollowsSend(sock, r) => /\ FollowsSend(rest, r + n)
                                /\ sock[n] = ForSend(r + n)
    BY <1>1, <1>2, <1>3 DEF FollowsSend
  <1> QED
    BY <1>1, <1>2, <1>4, <1>5 DEF rest

LEMMA ConnectSendInv ==
    ASSUME ConnectInv, ConnectSend PROVE ConnectInv'
  <1>1. /\ sComm = "none" /\ sStage.state = "Send"
        /\ UNCHANGED <<listening, link, toSend, rStage, sQp, rQp, sComm, rComm,
                       faults>>
    BY DEF ConnectSend, SendIn
  <1>2. PICK n \in 1 .. MetaLen - sStage.offset :
          /\ Len(toRecv) + n <= SockCap
          /\ toRecv' = SocketSend(toRecv, "meta", sStage.offset, n,
                                  sStage.buffer)
          /\ sStage' = IF sStage.offset + n = MetaLen
                       THEN [state |-> "Connecting", offset |-> 0,
                             buffer |-> NoMeta]
                       ELSE [sStage EXCEPT !.offset = @ + n]
    BY DEF ConnectSend
  <1>3. /\ TypeOK /\ Streams /\ Stages /\ QpsFollow
        /\ MetaLen \in Nat \ {0} /\ sStage.offset \in Nat /\ toRecv \in Seq(Chunk)
        /\ n \in Nat /\ n >= 1 /\ sStage.offset + n <= MetaLen
        /\ sStage.buffer = SendMeta
    BY <1>1, ConnectFacts DEF Stages
  <1>4. /\ SendWritten = sStage.offset /\ SendRead = 0
        /\ RecvRead' = RecvRead /\ RecvWritten' = RecvWritten /\ RecvRead \in Nat
    BY <1>1, ConnectFacts
    DEF SendWritten, SendRead, SendUp, RecvRead, RecvWritten, RecvUp
  <1>5. /\ toRecv' \in Seq(Chunk) /\ Len(toRecv') = Len(toRecv) + n
        /\ FollowsRecv(toRecv', RecvRead)
        /\ sStage.offset = RecvRead + Len(toRecv)
    BY <1>2, <1>3, <1>4, SendMore DEF Streams
  <1>6. /\ sStage' \in [state : SendStates, offset : 0 .. MetaLen,
                        buffer : Metadata]
        /\ \/ /\ sStage'.state = "Connecting" /\ sStage'.offset = 0
              /\ sStage.offset + n = MetaLen
           \/ /\ sStage'.state = "Send" /\ sStage'.buffer = SendMeta
              /\ sStage'.offset = sStage.offset + n /\ sStage'.offset < MetaLen
    <2>1. CASE sStage.offset + n = MetaLen
      BY <1>2, <1>3, <2>1, MetaTypes DEF SendStates
    <2>2. CASE sStage.offset + n # MetaLen
      BY <1>1, <1>2, <1>3, <2>2, StageMoves DEF TypeOK
    <2> QED
      BY <2>1, <2>2
  <1>7. TypeOK'
    BY <1>1, <1>2, <1>3, <1>5, <1>6 DEF TypeOK
  <1>8. SendWritten' = sStage.offset + n /\ SendRead' = 0
    BY <1>1, <1>6 DEF SendWritten, SendRead, SendUp
  <1>9. Streams'
    <2>1. Len(toRecv) \in Nat
      BY <1>3
    <2> QED
      BY <1>1, <1>3, <1>4, <1>5, <1>8, <2>1 DEF Streams
  <1>10. Stages' /\ QpsFollow'
    BY <1>1, <1>3, <1>6 DEF Stages, QpsFollow, SendUp, RecvUp
  <1> QED
    BY <1>7, <1>9, <1>10 DEF ConnectInv

LEMMA ConnectRecvInv ==
    ASSUME ConnectInv, ConnectRecv PROVE ConnectInv'
  <1>1. /\ sComm = "none" /\ sStage.state = "Connecting"
        /\ UNCHANGED <<listening, link, toRecv, rStage, rQp, sComm, rComm,
                       faults>>
    BY DEF ConnectRecv, SendIn
  <1>2. PICK n \in 1 .. Len(toSend) :
          /\ sStage.offset + n <= MetaLen
          /\ toSend' = Take(toSend, n)
          /\ IF sStage.offset + n = MetaLen
             THEN /\ sQp' = SenderQps(toSend[n].body)
                  /\ sStage' = [state |-> "Connected", offset |-> 0,
                                buffer |-> toSend[n].body]
             ELSE /\ sStage' = [sStage EXCEPT !.offset = @ + n]
                  /\ UNCHANGED sQp
    BY DEF ConnectRecv
  <1>3. /\ TypeOK /\ Streams /\ Stages /\ QpsFollow
        /\ MetaLen \in Nat \ {0} /\ sStage.offset \in Nat /\ toSend \in Seq(Chunk)
        /\ n \in Nat /\ n >= 1 /\ Len(toSend) \in Nat /\ SockCap \in Nat
    BY ConnectFacts
  <1>4. /\ SendWritten = MetaLen /\ SendRead = sStage.offset
        /\ RecvRead' = RecvRead /\ RecvWritten' = RecvWritten
    BY <1>1 DEF SendWritten, SendRead, RecvRead, RecvWritten, RecvUp
  <1>5. /\ toSend' \in Seq(Chunk) /\ Len(toSend') = Len(toSend) - n
        /\ FollowsSend(toSend', sStage.offset + n)
        /\ toSend[n] = ForSend(sStage.offset + n)
    BY <1>2, <1>3, <1>4, ReadMore DEF Streams
  <1>6. toSend[n].body = RecvMeta(SendMeta) /\ RecvMeta(SendMeta) \in Metadata
    BY <1>5, MetaTypes DEF ForSend
  <1>7. CASE sStage.offset + n = MetaLen
    <2>1. /\ sStage' = [state |-> "Connected", offset |-> 0,
                        buffer |-> RecvMeta(SendMeta)]
          /\ sQp' = SenderQps(RecvMeta(SendMeta))
      BY <1>2, <1>6, <1>7
    <2>2. /\ sStage' \in [state : SendStates, offset : 0 .. MetaLen,
                          buffer : Metadata]
          /\ sStage'.state = "Connected"
      BY <1>3, <1>6, <2>1 DEF SendStates
    <2>3. /\ sQp' \in [Qps -> QpState]
          /\ \A q \in Qps : sQp'[q].state = "RTS" /\ sQp'[q].dest = <<"recv", q>>
      BY <1>6, <2>1, QpTypes DEF SenderQps, Connected, RecvMeta
    <2>4. TypeOK'
      BY <1>1, <1>3, <1>5, <2>2, <2>3 DEF TypeOK
    <2>5. SendWritten' = MetaLen /\ SendRead' = sStage.offset + n
      BY <1>7, <2>2 DEF SendWritten, SendRead
    <2>6. Streams'
      BY <1>1, <1>3, <1>4, <1>5, <2>5 DEF Streams
    <2>7. Stages' /\ QpsFollow'
      BY <1>1, <1>3, <2>2, <2>3 DEF Stages, QpsFollow, SendUp, RecvUp
    <2> QED
      BY <2>4, <2>6, <2>7 DEF ConnectInv
  <1>8. CASE sStage.offset + n # MetaLen
    <2>1. /\ sStage' \in [state : SendStates, offset : 0 .. MetaLen,
                          buffer : Metadata]
          /\ sStage'.state = "Connecting" /\ sStage'.offset = sStage.offset + n
          /\ sStage'.offset < MetaLen /\ UNCHANGED sQp
      BY <1>1, <1>2, <1>3, <1>8, StageMoves DEF TypeOK
    <2>2. TypeOK'
      BY <1>1, <1>3, <1>5, <2>1 DEF TypeOK
    <2>3. SendWritten' = MetaLen /\ SendRead' = sStage.offset + n
      BY <2>1 DEF SendWritten, SendRead
    <2>4. Streams'
      BY <1>1, <1>3, <1>4, <1>5, <2>3 DEF Streams
    <2>5. Stages' /\ QpsFollow'
      BY <1>1, <1>3, <2>1 DEF Stages, QpsFollow, SendUp, RecvUp
    <2> QED
      BY <2>2, <2>4, <2>5 DEF ConnectInv
  <1> QED
    BY <1>7, <1>8

LEMMA ConnectReadyInv ==
    ASSUME ConnectInv, ConnectReady PROVE ConnectInv'
  <1>1. /\ sComm = "none" /\ sStage.state = "Connected"
        /\ sComm' = "returned" /\ sStage' = StartStage
        /\ toRecv' = SocketSend(toRecv, "ready", 0, 1, NoMeta)
        /\ Len(toRecv) < SockCap
        /\ UNCHANGED <<listening, link, toSend, rStage, sQp, rQp, rComm, faults>>
    BY DEF ConnectReady, SendIn
  <1>2. /\ TypeOK /\ Streams /\ Stages /\ QpsFollow
        /\ MetaLen \in Nat \ {0} /\ toRecv \in Seq(Chunk) /\ Len(toRecv) \in Nat
        /\ SockCap \in Nat
    BY ConnectFacts
  <1>3. /\ SendWritten = MetaLen /\ SendRead = MetaLen
        /\ RecvRead' = RecvRead /\ RecvWritten' = RecvWritten /\ RecvRead \in Nat
    BY <1>1, ConnectFacts
    DEF SendWritten, SendRead, RecvRead, RecvWritten, RecvUp
  <1>4. /\ toRecv' \in Seq(Chunk) /\ Len(toRecv') = Len(toRecv) + 1
        /\ FollowsRecv(toRecv', RecvRead) /\ MetaLen = RecvRead + Len(toRecv)
    BY <1>1, <1>2, <1>3, SendReady DEF Streams
  <1>5. sStage'.state = "Start" /\ SendUp'
    BY <1>1, StartStageType DEF SendUp
  <1>6. TypeOK'
    BY <1>1, <1>2, <1>4, StartStageType DEF TypeOK, CommStates
  <1>7. SendWritten' = MetaLen + 1 /\ SendRead' = MetaLen
    BY <1>5 DEF SendWritten, SendRead
  <1>8. Streams'
    BY <1>1, <1>2, <1>3, <1>4, <1>7 DEF Streams
  <1>9. Stages' /\ QpsFollow'
    BY <1>1, <1>2, <1>5 DEF Stages, QpsFollow, SendUp, RecvUp
  <1> QED
    BY <1>6, <1>8, <1>9 DEF ConnectInv

LEMMA AcceptRecvInv ==
    ASSUME ConnectInv, AcceptRecv PROVE ConnectInv'
  <1>1. /\ rComm = "none" /\ rStage.state = "Recv"
        /\ UNCHANGED <<listening, link, toSend, sStage, sQp, sComm, rComm,
                       faults>>
    BY DEF AcceptRecv, RecvIn
  <1>2. PICK n \in 1 .. Len(toRecv) :
          /\ rStage.offset + n <= MetaLen
          /\ toRecv' = Take(toRecv, n)
          /\ IF rStage.offset + n = MetaLen
             THEN /\ rQp' = ReceiverQps(toRecv[n].body)
                  /\ rStage' = ReplyStage(toRecv[n].body)
             ELSE /\ rStage' = [rStage EXCEPT !.offset = @ + n]
                  /\ UNCHANGED rQp
    BY DEF AcceptRecv
  <1>3. /\ TypeOK /\ Streams /\ Stages /\ QpsFollow
        /\ MetaLen \in Nat \ {0} /\ rStage.offset \in Nat /\ toRecv \in Seq(Chunk)
        /\ n \in Nat /\ n >= 1 /\ Len(toRecv) \in Nat /\ SockCap \in Nat
    BY ConnectFacts
  <1>4. /\ RecvRead = rStage.offset /\ RecvWritten = 0
        /\ SendRead' = SendRead /\ SendWritten' = SendWritten
    BY <1>1 DEF SendWritten, SendRead, RecvRead, RecvWritten, SendUp, RecvUp
  <1>5. /\ toRecv' \in Seq(Chunk) /\ Len(toRecv') = Len(toRecv) - n
        /\ FollowsRecv(toRecv', rStage.offset + n)
        /\ toRecv[n] = ForRecv(rStage.offset + n)
    BY <1>2, <1>3, <1>4, ReadMore DEF Streams
  <1>6. toRecv[n].body = SendMeta /\ SendMeta \in Metadata
        /\ RecvMeta(SendMeta) \in Metadata
    BY <1>2, <1>5, MetaTypes DEF ForRecv
  <1>7. CASE rStage.offset + n = MetaLen
    <2>1. /\ rStage' = [state |-> "Send", offset |-> 0,
                        buffer |-> RecvMeta(SendMeta)]
          /\ rQp' = ReceiverQps(SendMeta)
      BY <1>2, <1>6, <1>7 DEF ReplyStage
    <2>2. /\ rStage' \in [state : RecvStates, offset : 0 .. MetaLen,
                          buffer : Metadata]
          /\ rStage'.state = "Send" /\ rStage'.offset = 0
          /\ rStage'.buffer = RecvMeta(SendMeta)
      BY <1>3, <1>6, <2>1 DEF RecvStates
    <2>3. /\ rQp' \in [Qps -> QpState]
          /\ \A q \in Qps : rQp'[q].state = "RTS" /\ rQp'[q].dest = <<"send", q>>
      BY <1>6, <2>1, QpTypes DEF ReceiverQps, Connected, SendMeta
    <2>4. TypeOK'
      BY <1>1, <1>3, <1>5, <2>2, <2>3 DEF TypeOK
    <2>5. RecvWritten' = 0 /\ RecvRead' = rStage.offset + n
      BY <1>7, <2>2 DEF RecvWritten, RecvRead
    <2>6. Streams'
      BY <1>1, <1>3, <1>4, <1>5, <2>5 DEF Streams
    <2>7. Stages' /\ QpsFollow'
      BY <1>1, <1>3, <2>2, <2>3 DEF Stages, QpsFollow, SendUp, RecvUp
    <2> QED
      BY <2>4, <2>6, <2>7 DEF ConnectInv
  <1>8. CASE rStage.offset + n # MetaLen
    <2>1. /\ rStage' \in [state : RecvStates, offset : 0 .. MetaLen,
                          buffer : Metadata]
          /\ rStage'.state = "Recv" /\ rStage'.offset = rStage.offset + n
          /\ rStage'.offset < MetaLen /\ UNCHANGED rQp
      BY <1>1, <1>2, <1>3, <1>8, StageMoves DEF TypeOK
    <2>2. TypeOK'
      BY <1>1, <1>3, <1>5, <2>1 DEF TypeOK
    <2>3. RecvWritten' = 0 /\ RecvRead' = rStage.offset + n
      BY <1>1, <2>1 DEF RecvWritten, RecvRead, RecvUp
    <2>4. Streams'
      BY <1>1, <1>3, <1>4, <1>5, <2>3 DEF Streams
    <2>5. Stages' /\ QpsFollow'
      BY <1>1, <1>3, <2>1 DEF Stages, QpsFollow, SendUp, RecvUp
    <2> QED
      BY <2>2, <2>4, <2>5 DEF ConnectInv
  <1> QED
    BY <1>7, <1>8

LEMMA AcceptSendInv ==
    ASSUME ConnectInv, AcceptSend PROVE ConnectInv'
  <1>1. /\ rComm = "none" /\ rStage.state = "Send"
        /\ UNCHANGED <<listening, link, toRecv, sStage, sQp, rQp, sComm, rComm,
                       faults>>
    BY DEF AcceptSend, RecvIn
  <1>2. PICK n \in 1 .. MetaLen - rStage.offset :
          /\ Len(toSend) + n <= SockCap
          /\ toSend' = SocketSend(toSend, "meta", rStage.offset, n,
                                  rStage.buffer)
          /\ rStage' = IF rStage.offset + n = MetaLen
                       THEN [rStage EXCEPT !.state = "PendingReady",
                                           !.offset = 0]
                       ELSE [rStage EXCEPT !.offset = @ + n]
    BY DEF AcceptSend
  <1>3. /\ TypeOK /\ Streams /\ Stages /\ QpsFollow
        /\ MetaLen \in Nat \ {0} /\ rStage.offset \in Nat /\ toSend \in Seq(Chunk)
        /\ n \in Nat /\ n >= 1 /\ rStage.offset + n <= MetaLen
        /\ rStage.buffer = RecvMeta(SendMeta) /\ Len(toSend) \in Nat
    BY <1>1, ConnectFacts DEF Stages
  <1>4. /\ RecvWritten = rStage.offset /\ RecvRead = MetaLen
        /\ SendRead' = SendRead /\ SendWritten' = SendWritten /\ SendRead \in Nat
    BY <1>1, ConnectFacts
    DEF SendWritten, SendRead, SendUp, RecvRead, RecvWritten
  <1>5. /\ toSend' \in Seq(Chunk) /\ Len(toSend') = Len(toSend) + n
        /\ FollowsSend(toSend', SendRead)
        /\ rStage.offset = SendRead + Len(toSend)
    BY <1>2, <1>3, <1>4, ReplyMore DEF Streams
  <1>6. /\ rStage' \in [state : RecvStates, offset : 0 .. MetaLen,
                        buffer : Metadata]
        /\ \/ rStage'.state = "PendingReady" /\ rStage.offset + n = MetaLen
           \/ /\ rStage'.state = "Send"
              /\ rStage'.buffer = RecvMeta(SendMeta)
              /\ rStage'.offset = rStage.offset + n /\ rStage'.offset < MetaLen
    <2>1. CASE rStage.offset + n = MetaLen
      <3>1. /\ rStage \in [state : RecvStates, offset : 0 .. MetaLen,
                           buffer : Metadata]
            /\ rStage' = [rStage EXCEPT !.state = "PendingReady",
                                        !.offset = 0]
        BY <1>2, <1>3, <2>1 DEF TypeOK
      <3>2. 0 \in 0 .. MetaLen /\ "PendingReady" \in RecvStates
        BY <1>3 DEF RecvStates
      <3> QED
        BY <2>1, <3>1, <3>2
    <2>2. CASE rStage.offset + n # MetaLen
      BY <1>1, <1>2, <1>3, <2>2, StageMoves DEF TypeOK
    <2> QED
      BY <2>1, <2>2
  <1>7. TypeOK'
    BY <1>1, <1>2, <1>3, <1>5, <1>6 DEF TypeOK
  <1>8. RecvWritten' = rStage.offset + n /\ RecvRead' = MetaLen
    BY <1>6 DEF RecvWritten, RecvRead
  <1>9. Streams'
    BY <1>1, <1>3, <1>4, <1>5, <1>8 DEF Streams
  <1>10. Stages' /\ QpsFollow'
    BY <1>1, <1>3, <1>6 DEF Stages, QpsFollow, SendUp, RecvUp
  <1> QED
    BY <1>7, <1>9, <1>10 DEF ConnectInv

LEMMA AcceptReadyInv ==
    ASSUME ConnectInv, AcceptReady PROVE ConnectInv'
  <1>1. /\ rComm = "none" /\ rStage.state = "PendingReady"
        /\ rComm' = "returned" /\ rStage' = StartStage
        /\ toRecv # <<>> /\ toRecv' = Take(toRecv, SmallerOf(1, Len(toRecv)))
        /\ UNCHANGED <<listening, link, toSend, sStage, sQp, rQp, sComm, faults>>
    BY DEF AcceptReady, RecvIn, ReadyArrived
  <1>2. /\ TypeOK /\ Streams /\ Stages /\ QpsFollow
        /\ MetaLen \in Nat \ {0} /\ toRecv \in Seq(Chunk) /\ Len(toRecv) \in Nat
        /\ SockCap \in Nat
    BY ConnectFacts
  <1>3. Len(toRecv) >= 1
    <2>1. Len(toRecv) \in Nat \ {0}
      BY <1>1, <1>2, EmptySeq
    <2> QED
      BY <2>1
  <1>4. SmallerOf(1, Len(toRecv)) = 1 /\ 1 \in 1 .. Len(toRecv)
    <2>1. \A m \in Nat : m >= 1 => SmallerOf(1, m) = 1 /\ 1 \in 1 .. m
      BY DEF SmallerOf
    <2> QED
      BY <1>2, <1>3, <2>1
  <1>5. /\ RecvRead = MetaLen /\ RecvWritten = MetaLen
        /\ SendRead' = SendRead /\ SendWritten' = SendWritten
    BY <1>1 DEF SendRead, SendWritten, SendUp, RecvRead, RecvWritten
  <1>6. /\ toRecv' \in Seq(Chunk) /\ Len(toRecv') = Len(toRecv) - 1
        /\ FollowsRecv(toRecv', MetaLen + 1)
    BY <1>1, <1>2, <1>4, <1>5, ReadMore DEF Streams
  <1>7. rStage'.state = "Start" /\ RecvUp'
    BY <1>1, StartStageType DEF RecvUp
  <1>8. TypeOK'
    BY <1>1, <1>2, <1>6, StartStageType DEF TypeOK, CommStates
  <1>9. RecvRead' = MetaLen + 1 /\ RecvWritten' = MetaLen
    BY <1>7 DEF RecvRead, RecvWritten
  <1>10. Streams'
    BY <1>1, <1>2, <1>5, <1>6, <1>9 DEF Streams
  <1>11. Stages' /\ QpsFollow'
    BY <1>1, <1>2, <1>7 DEF Stages, QpsFollow, SendUp, RecvUp
  <1> QED
    BY <1>8, <1>10, <1>11 DEF ConnectInv

LEMMA CloseInv ==
    ASSUME ConnectInv, CloseSend \/ CloseRecv PROVE ConnectInv'
  <1> USE ConnectShapes DEF ConnectInv
  <1>1. UNCHANGED <<listening, link, toRecv, toSend, sStage, rStage, faults>>
    BY DEF CloseSend, CloseRecv
  <1>2. TypeOK'
    BY QpTypes DEF CloseSend, CloseRecv, TypeOK, CommStates
  <1>3. (SendUp' <=> SendUp) /\ (RecvUp' <=> RecvUp)
    BY DEF CloseSend, CloseRecv, SendUp, RecvUp
  <1>4. Streams'
    BY <1>1, <1>3 DEF Streams, SendWritten, SendRead, RecvRead, RecvWritten
  <1>5. Stages'
    BY <1>1, <1>3 DEF Stages
  <1>6. QpsFollow'
    BY <1>1 DEF CloseSend, CloseRecv, QpsFollow, Stages, SendUp, RecvUp, ResetQp
  <1> QED
    BY <1>2, <1>4, <1>5, <1>6

LEMMA NextConnectInv == ConnectInv /\ [Next]_vars => ConnectInv'
  BY QuietStepsInv, ConnectStartInv, ConnectCheckInv, ConnectSendInv,
     ConnectRecvInv, ConnectReadyInv, AcceptStartInv, AcceptCheckInv,
     AcceptRecvInv, AcceptSendInv, AcceptReadyInv, CloseInv DEF Next, Ended

-----------------------------------------------------------------------------
(* The theorems *)

\* The type invariant of connection set-up.
THEOREM ConnectTypeCorrect == Spec => []TypeOK
  <1>1. ConnectInv => TypeOK
    BY DEF ConnectInv
  <1> QED
    BY <1>1, InitConnectInv, NextConnectInv, PTL DEF Spec

\* However the socket splits the metadata over calls, a side that reads finds
\* the chunk its stage is at.
THEOREM FramedCorrect == Spec => []Framed
  <1>1. ConnectInv => Framed
    <2> SUFFICES ASSUME ConnectInv PROVE Framed
      OBVIOUS
    <2>1. /\ TypeOK /\ Streams /\ Stages
          /\ toRecv # <<>> => 1 \in 1 .. Len(toRecv)
          /\ toSend # <<>> => 1 \in 1 .. Len(toSend)
      BY ConnectShapes, EmptySeq DEF ConnectInv
    <2>2. ASSUME toRecv # <<>> PROVE toRecv[1] = ForRecv(RecvRead + 1)
      BY <2>1, <2>2 DEF Streams, FollowsRecv
    <2>3. ASSUME toSend # <<>> PROVE toSend[1] = ForSend(SendRead + 1)
      BY <2>1, <2>3 DEF Streams, FollowsSend
    <2>4. rStage.state = "Recv" => RecvRead = rStage.offset
                                   /\ rStage.offset + 1 <= MetaLen
      BY <2>1, ConnectShapes, ConnectConstants DEF RecvRead, Stages
    <2>5. rStage.state = "PendingReady" => ~(RecvRead + 1 <= MetaLen)
      BY <2>1, ConnectConstants DEF RecvRead
    <2>6. sStage.state = "Connecting" => SendRead = sStage.offset
      BY DEF SendRead
    <2> QED
      BY <2>2, <2>3, <2>4, <2>5, <2>6 DEF Framed, ForRecv, ForSend
  <1> QED
    BY <1>1, InitConnectInv, NextConnectInv, PTL DEF Spec

\* A connected QP points at the peer's QP of the same number.
THEOREM QpsPairedCorrect == Spec => []QpsPaired
  <1>1. ConnectInv => QpsPaired
    BY DEF ConnectInv, QpsFollow, QpsPaired
  <1> QED
    BY <1>1, InitConnectInv, NextConnectInv, PTL DEF Spec

\* A caller that has its communicator finds the QPs of the other side connected
\* unless they are closed already: it read the peer's last chunk, which the peer
\* wrote after connecting its own QPs.
THEOREM PeerReadyCorrect == Spec => []PeerReady
  <1>1. ConnectInv => PeerReady
    <2> SUFFICES ASSUME ConnectInv PROVE PeerReady
      OBVIOUS
    <2> USE ConnectShapes, ConnectConstants DEF ConnectInv
    <2>1. ASSUME rComm = "returned", sComm # "closed"
          PROVE  \A q \in Qps : sQp[q].state = "RTS"
      <3>1. RecvUp /\ rStage.state = "Start"
        BY <2>1 DEF RecvUp, Stages
      <3>2. RecvRead = MetaLen + 1
        BY <3>1 DEF RecvRead
      <3>3. SendWritten >= MetaLen + 1
        BY <3>2 DEF Streams
      <3>4. SendUp
        BY <3>3 DEF SendWritten, Stages
      <3> QED
        BY <2>1, <3>4 DEF SendUp, QpsFollow
    <2>2. ASSUME sComm = "returned", rComm # "closed"
          PROVE  \A q \in Qps : rQp[q].state = "RTS"
      <3>1. SendUp /\ sStage.state = "Start"
        BY <2>2 DEF SendUp, Stages
      <3>2. SendRead = MetaLen
        BY <3>1 DEF SendRead
      <3>3. RecvWritten >= MetaLen
        BY <3>2 DEF Streams
      <3>4. rStage.state = "PendingReady" \/ RecvUp
        BY <3>3 DEF RecvWritten, Stages
      <3> QED
        BY <2>2, <3>4 DEF RecvUp, QpsFollow
    <2> QED
      BY <2>1, <2>2 DEF PeerReady
  <1> QED
    BY <1>1, InitConnectInv, NextConnectInv, PTL DEF Spec
=============================================================================
