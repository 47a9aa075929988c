---------------------------- MODULE NetTransport ----------------------------
(***************************************************************************)
(* The data path of the plugin (src/src/net_ib.cc): one connected pair of  *)
(* a send communicator and a receive communicator on one device            *)
(* (ndevs = 1, IB_SPLIT_DATA_ON_QPS = 0: what assert(nqps == 1) of         *)
(* ncclIbMultiSend asks for), built with CTS_RCVR_OFFLOAD_ENABLED.         *)
(*                                                                         *)
(* Three parties run concurrently:                                         *)
(*  - the sending proxy thread: Isend, SendTestPoll, SendTestDone;         *)
(*  - the receiving proxy thread: IrecvDefault, IrecvPostCTS, Flush,       *)
(*    RecvTestPoll, RecvTestDone and, outside the plugin, Consume;         *)
(*  - the NICs (external): CtsArrive, Deliver, Ack, FlushRead.             *)
(* The faults PostRecvFails, PostFifoFails, PostSendFails, PostFlushFails, *)
(* QpBreaks exercise the error paths of the same functions.                *)
(*                                                                         *)
(* A message is named by its number, the step of the caller that posts it. *)
(* A work queue is the set of its WQEs; the NIC serves the lowest message  *)
(* of each QP first, which is the order they were posted in.  A completion *)
(* queue is the set of its CQEs, polled in any order: a superset of the    *)
(* orders of the hardware.                                                 *)
(***************************************************************************)
EXTENDS Integers, FiniteSets

CONSTANTS
    MaxRequests,      \* MAX_REQUESTS: requests of a comm, slots of its FIFOs
    NQps,             \* base.nqps: the QPs of the connection
    Window,           \* steps a caller keeps open at once (external)
    NMsgs,            \* bound: the messages of a behaviour
    Workloads,        \* bound: what the callers exchange, one of these
    AdaptiveRouting,  \* comm->ar
    ArThreshold,      \* ncclParamIbArThreshold()
    FlushEnabled,     \* comm->flushEnabled
    MaxFaults         \* bound: injected post failures and broken QPs

Msgs == 0 .. NMsgs - 1

\* The size of a message and its protocol.  For the LL protocols the sender
\* passes NCCL_NET_USE_WRITE_OP and the receiver
\* NCCL_NET_OPTIONAL_RECV_COMPLETION.
Message == [size : Nat, proto : {"Simple", "LL"}]

ASSUME ConstantsAssumption ==
    /\ MaxRequests \in Nat \ {0}
    /\ NQps \in 1 .. MaxRequests
    /\ Window \in 1 .. MaxRequests
    /\ NMsgs \in Nat
    /\ Workloads \subseteq [Msgs -> Message]
    /\ AdaptiveRouting \in BOOLEAN
    /\ ArThreshold \in Nat
    /\ FlushEnabled \in BOOLEAN
    /\ MaxFaults \in Nat

ReqIds == 0 .. MaxRequests - 1
Slots == 0 .. MaxRequests - 1
Qps == 0 .. NQps - 1
FlushQp == NQps            \* gpuFlush.qp, created beside the NQps data QPs
None == -1

VARIABLES
    \* the send communicator
    sReqs,      \* base.reqs
    fifoHead,
    fifoReqs,   \* the request a FIFO slot waits for, None for NULL
    sQpIndex,   \* base.qpIndex
    sRes,       \* "error" once a call failed: the caller makes no other
    \* the receive communicator
    rReqs,
    fifoTail,   \* remFifo.fifoTail
    rQpIndex,
    sizesFifo,
    rRes,
    \* the queues of the NICs
    dataWqes,   \* posted data, not executed
    ackWqes,    \* executed data, not acknowledged
    sSq,        \* entries of the data send queues not yet retired
    sCq,
    recvWqes,   \* posted receives
    ctsWqes,    \* posted CTS writes, not executed
    rSq,        \* entries of the CTS send queues not yet retired
    ctsTable,   \* CTS that arrived at the sender's NIC, not used yet
    flushWqes,
    rCq,
    landed,     \* the message whose data is in the buffer of a receive
    broken,     \* QPs in the error state
    \* the callers (external)
    work,       \* the messages they exchange
    sStep, rStep,
    faults

sVars == <<sReqs, fifoHead, fifoReqs, sQpIndex, sRes, sStep>>
rVars == <<rReqs, fifoTail, rQpIndex, sizesFifo, rRes, rStep>>
sQueues == <<dataWqes, sSq>>
rQueues == <<ctsWqes, rSq, recvWqes, flushWqes>>
wire == <<ackWqes, ctsTable, landed>>
faultVars == <<broken, faults>>
vars == <<sVars, rVars, sQueues, rQueues, wire, sCq, rCq, faultVars, work>>

-----------------------------------------------------------------------------
(* Shapes *)

SendReq == [type : {"UNUSED", "SEND"}, events : Int]
RecvReq == [type : {"UNUSED", "RECV", "FLUSH"}, events : Int, slot : Slots]
DataWqe == [msg : Msgs, qp : Qps, wr_id : ReqIds, size : Nat, 
            opcode : {"RDMA_WRITE", "RDMA_WRITE_WITH_IMM"}]
RecvWqe == [msg : Msgs, qp : Qps, wr_id : ReqIds]
CtsWqe == [msg : Msgs, qp : Qps, wr_id : ReqIds, 
           flags : {"SIGNALED", "UNSIGNALED"}]
Place == [msg : Msgs, qp : Qps]
FlushWqe == [msg : Msgs, wr_id : ReqIds]
SendCqe == [msg : Msgs, qp : Qps, wr_id : ReqIds]
RecvCqe == [msg : Msgs, qp : 0 .. NQps, wr_id : ReqIds, size : Nat,
            opcode : {"RECV_RDMA_WITH_IMM", "RDMA_WRITE", "RDMA_READ"}]
Result == {"ok", "error"}
SendStep == [st : {"idle", "posted", "done"}, req : ReqIds]
RecvStep == [st : {"idle", "posted", "rcvd", "flushing", "done"},
             req : ReqIds, size : Nat]

SendTypeOK ==
    /\ sReqs \in [ReqIds -> SendReq]
    /\ fifoHead \in Nat
    /\ fifoReqs \in [Slots -> ReqIds \cup {None}]
    /\ sQpIndex \in Qps
    /\ sRes \in Result
    /\ sStep \in [Msgs -> SendStep]

RecvTypeOK ==
    /\ rReqs \in [ReqIds -> RecvReq]
    /\ fifoTail \in Nat
    /\ rQpIndex \in Qps
    /\ sizesFifo \in [Slots -> Nat]
    /\ rRes \in Result
    /\ rStep \in [Msgs -> RecvStep]

SendQueuesTypeOK ==
    /\ dataWqes \subseteq DataWqe
    /\ sSq \subseteq [msg : Msgs, qp : Qps, n : 1 .. 2]

RecvQueuesTypeOK ==
    /\ recvWqes \subseteq RecvWqe
    /\ ctsWqes \subseteq CtsWqe
    /\ rSq \subseteq Place
    /\ flushWqes \subseteq FlushWqe

WireTypeOK ==
    /\ ackWqes \subseteq DataWqe
    /\ ctsTable \subseteq Place
    /\ landed \in [Msgs -> Msgs \cup {None}]

CqTypeOK ==
    /\ sCq \subseteq SendCqe
    /\ rCq \subseteq RecvCqe

FaultTypeOK ==
    /\ broken \subseteq Qps
    /\ faults \in 0 .. MaxFaults

\* The type invariant of the module.
TypeOK ==
    /\ SendTypeOK
    /\ RecvTypeOK
    /\ SendQueuesTypeOK
    /\ RecvQueuesTypeOK
    /\ WireTypeOK
    /\ CqTypeOK
    /\ FaultTypeOK
    /\ work \in Workloads

Init ==
    /\ sReqs = [r \in ReqIds |-> [type |-> "UNUSED", events |-> 0]]
    /\ fifoHead = 0
    /\ fifoReqs = [s \in Slots |-> None]
    /\ sQpIndex = 0
    /\ sRes = "ok"
    /\ rReqs = [r \in ReqIds |-> [type |-> "UNUSED", events |-> 0, slot |-> 0]]
    /\ fifoTail = 0
    /\ rQpIndex = 0
    /\ sizesFifo = [s \in Slots |-> 0]
    /\ rRes = "ok"
    /\ dataWqes = {} /\ ackWqes = {} /\ sSq = {} /\ sCq = {}
    /\ recvWqes = {} /\ ctsWqes = {} /\ rSq = {} /\ ctsTable = {}
    /\ flushWqes = {} /\ rCq = {}
    /\ landed = [m \in Msgs |-> None]
    /\ broken = {}
    /\ work \in Workloads
    /\ sStep = [m \in Msgs |-> [st |-> "idle", req |-> 0]]
    /\ rStep = [m \in Msgs |-> [st |-> "idle", req |-> 0, size |-> 0]]
    /\ faults = 0

-----------------------------------------------------------------------------
(* The callers: RCCL's proxy posts the steps of a connection in order and  *)
(* keeps at most Window of them open.                                      *)

MayPost(step, t) ==
    /\ step[t].st = "idle"
    /\ \A u \in Msgs : u < t => step[u].st # "idle"
    /\ \A u \in Msgs : u + Window <= t => step[u].st = "done"

SendMayPost(t) == sRes = "ok" /\ MayPost(sStep, t)
RecvMayPost(t) == rRes = "ok" /\ MayPost(rStep, t)

\* ncclIbGetRequest: the first unused request.
GetRequest(reqs, r) ==
    /\ reqs[r].type = "UNUSED"
    /\ \A i \in ReqIds : i < r => reqs[i].type # "UNUSED"

\* ncclIbFreeRequest: nothing but the type is reset.
FreeRequest(reqs, r) == [reqs EXCEPT ![r].type = "UNUSED"]

\* Mutant: one event is taken for none.
TestDoneEarly(req) == req.events <= 1

\* anpNetTest ends when no event of the request is left.
TestDone(req) == req.events = 0

\* The next WQE a NIC serves on its QP.
First(wqes, w) ==
    /\ w \in wqes
    /\ w.qp \notin broken
    /\ \A v \in wqes : v.qp = w.qp => w.msg <= v.msg

\* A polled completion retires its send queue entry and all before it.
Retire(sq, c) == {e \in sq : e.qp # c.qp \/ e.msg > c.msg}

InjectFault ==
    /\ faults < MaxFaults
    /\ faults' = faults + 1

-----------------------------------------------------------------------------
(* The send communicator *)

\* A message larger than the threshold goes out as an RDMA_WRITE and a 0-byte
\* RDMA_WRITE_WITH_IMM when adaptive routing is on; a message of the LL
\* protocols (use_write_op) as one RDMA_WRITE without immediate data.
NWrs(t) ==
    IF work[t].proto = "Simple" /\ AdaptiveRouting /\ work[t].size > ArThreshold
    THEN 2 ELSE 1

DataOpcode(t) ==
    IF work[t].proto = "LL" THEN "RDMA_WRITE" ELSE "RDMA_WRITE_WITH_IMM"

\* Mutant: the event is counted in anpNetIsend and in ncclIbMultiSend again.
SendRequestTwice == [type |-> "SEND", events |-> 2]

\* The request anpNetIsend fills in: one event, for the one QP used.
SendRequest == [type |-> "SEND", events |-> 1]

\* Mutant: the QP index is not wrapped around.
NextQpUnwrapped(q) == q + 1

\* Select the next qpIndex.
NextQp(q) == (q + 1) % NQps

\* ncclIbMultiSend: the chain is posted to the current QP, its last WR
\* signalled, and the QP index moves on.
MultiSend(t, r) ==
    /\ dataWqes' = dataWqes \cup {[msg |-> t, qp |-> sQpIndex, wr_id |-> r,
                                   size |-> work[t].size,
                                   opcode |-> DataOpcode(t)]}
    /\ sSq' = sSq \cup {[msg |-> t, qp |-> sQpIndex, n |-> i] :
                            i \in 1 .. NWrs(t)}
    /\ sQpIndex' = NextQp(sQpIndex)

SendSlot == fifoHead % MaxRequests

\* anpNetIsend.  The slot's request is set and cleared in one successful call.
Isend(t) ==
    /\ SendMayPost(t)
    /\ fifoReqs[SendSlot] = None
    /\ \E r \in ReqIds :
          /\ GetRequest(sReqs, r)
          /\ sReqs' = [sReqs EXCEPT ![r] = SendRequest]
          /\ MultiSend(t, r)
          /\ sStep' = [sStep EXCEPT ![t] = [st |-> "posted", req |-> r]]
    /\ fifoHead' = fifoHead + 1
    /\ UNCHANGED <<fifoReqs, sRes, rVars, rQueues, wire, sCq, rCq, faultVars,
                   work>>

\* ibv_post_send fails in ncclIbMultiSend: the request stays allocated, with
\* its event, and in the slot; the caller gets the error.
PostSendFails(t) ==
    /\ SendMayPost(t)
    /\ fifoReqs[SendSlot] = None
    /\ \E r \in ReqIds :
          /\ GetRequest(sReqs, r)
          /\ sReqs' = [sReqs EXCEPT ![r] = SendRequest]
          /\ fifoReqs' = [fifoReqs EXCEPT ![SendSlot] = r]
    /\ sRes' = "error"
    /\ InjectFault
    /\ UNCHANGED <<fifoHead, sQpIndex, sStep, rVars, sQueues, rQueues, wire,
                   sCq, rCq, broken, work>>

\* anpNetTest handles one completion of the send side; r is the request tested.
SendTestPoll(r) ==
    /\ sRes = "ok"
    /\ \E t \in Msgs : sStep[t].st = "posted" /\ sStep[t].req = r
    /\ ~TestDone(sReqs[r])
    /\ \E c \in sCq :
          /\ sCq' = sCq \ {c}
          /\ sSq' = Retire(sSq, c)
          /\ IF sReqs[c.wr_id].type = "SEND" /\ sReqs[c.wr_id].events <= 0
             THEN sRes' = "error" /\ UNCHANGED sReqs
             ELSE /\ sReqs' = [sReqs EXCEPT ![c.wr_id].events = @ - 1]
                  /\ UNCHANGED sRes
    /\ UNCHANGED <<fifoHead, fifoReqs, sQpIndex, sStep, rVars, dataWqes,
                   rQueues, wire, rCq, faultVars, work>>

\* anpNetTest finds no event left: done, and the request is free.
SendTestDone(t) ==
    /\ sRes = "ok"
    /\ sStep[t].st = "posted"
    /\ TestDone(sReqs[sStep[t].req])
    /\ sReqs' = FreeRequest(sReqs, sStep[t].req)
    /\ sStep' = [sStep EXCEPT ![t].st = "done"]
    /\ UNCHANGED <<fifoHead, fifoReqs, sQpIndex, sRes, rVars, sQueues, rQueues,
                   wire, sCq, rCq, faultVars, work>>

\* anpNetTest polls a completion whose status is not IBV_WC_SUCCESS.
SendTestError(r) ==
    /\ sRes = "ok"
    /\ \E t \in Msgs : sStep[t].st = "posted" /\ sStep[t].req = r
    /\ ~TestDone(sReqs[r])
    /\ \E w \in dataWqes \cup ackWqes : w.qp \in broken
    /\ sRes' = "error"
    /\ UNCHANGED <<sReqs, fifoHead, fifoReqs, sQpIndex, sStep, rVars, sQueues,
                   rQueues, wire, sCq, rCq, faultVars, work>>

-----------------------------------------------------------------------------
(* The receive communicator *)

\* Mutant: the slot does not move with the tail.
RecvSlotFixed == 0

RecvSlot == fifoTail % MaxRequests

\* Mutant: a QP that was given no slot.
CtsQpSlotUnset(q) == None

\* ncclIbCreateQp gives QP i of a receive communicator the slot i.
CtsQpSlot(q) == q

\* ncclIbPostFifo signals the CTS when the FIFO slot is the QP's own.
CtsFlags ==
    IF RecvSlot = CtsQpSlot(rQpIndex) THEN "SIGNALED" ELSE "UNSIGNALED"

\* Mutant: a signalled CTS is not counted.
RecvRequestUncounted(events) ==
    [type |-> "RECV", events |-> events, slot |-> RecvSlot]

\* What a request holds once ncclIbPostFifo added its event, if any, to the
\* events counted before.
RecvRequest(events) ==
    [type |-> "RECV",
     events |-> IF CtsFlags = "SIGNALED" THEN events + 1 ELSE events,
     slot |-> RecvSlot]

\* Mutant: CTS go round the devices, as in the code commented out in
\* ncclIbPostFifo, and not round the QPs.
PostFifoByDevice(t, r) ==
    /\ sizesFifo' = [sizesFifo EXCEPT ![RecvSlot] = 0]
    /\ ctsWqes' = ctsWqes \cup {[msg |-> t, qp |-> 0, wr_id |-> r,
                                 flags |-> CtsFlags]}
    /\ rSq' = rSq \cup {[msg |-> t, qp |-> 0]}
    /\ fifoTail' = fifoTail + 1
    /\ rQpIndex' = NextQp(rQpIndex)

\* ncclIbPostFifo, the post succeeding.
PostFifo(t, r) ==
    /\ sizesFifo' = [sizesFifo EXCEPT ![RecvSlot] = 0]
    /\ ctsWqes' = ctsWqes \cup {[msg |-> t, qp |-> rQpIndex, wr_id |-> r,
                                 flags |-> CtsFlags]}
    /\ rSq' = rSq \cup {[msg |-> t, qp |-> rQpIndex]}
    /\ fifoTail' = fifoTail + 1
    /\ rQpIndex' = NextQp(rQpIndex)

\* anpNetIrecvDefault: a receive WQE on the current QP, then the CTS.
IrecvDefault(t) ==
    /\ RecvMayPost(t)
    /\ work[t].proto = "Simple"
    /\ \E r \in ReqIds :
          /\ GetRequest(rReqs, r)
          /\ rReqs' = [rReqs EXCEPT ![r] = RecvRequest(1)]
          /\ recvWqes' = recvWqes \cup
                            {[msg |-> t, qp |-> rQpIndex, wr_id |-> r]}
          /\ PostFifo(t, r)
          /\ rStep' = [rStep EXCEPT ![t] =
                          [st |-> "posted", req |-> r, size |-> 0]]
    /\ UNCHANGED <<rRes, sVars, sQueues, flushWqes, wire, sCq, rCq, faultVars,
                   work>>

\* anpNetIrecvPostCTS: the CTS alone, for the LL protocols.
IrecvPostCTS(t) ==
    /\ RecvMayPost(t)
    /\ work[t].proto = "LL"
    /\ \E r \in ReqIds :
          /\ GetRequest(rReqs, r)
          /\ rReqs' = [rReqs EXCEPT ![r] = RecvRequest(0)]
          /\ PostFifo(t, r)
          /\ rStep' = [rStep EXCEPT ![t] =
                          [st |-> "posted", req |-> r, size |-> 0]]
    /\ UNCHANGED <<rRes, sVars, sQueues, recvWqes, flushWqes, wire, sCq, rCq,
                   faultVars, work>>

\* Mutant: the request is not freed on the error path.
PostRecvFailsLeaks(t) ==
    /\ RecvMayPost(t)
    /\ work[t].proto = "Simple"
    /\ \E r \in ReqIds :
          /\ GetRequest(rReqs, r)
          /\ rReqs' = [rReqs EXCEPT ![r] =
                          [@ EXCEPT !.type = "RECV", !.events = 1]]
    /\ InjectFault
    /\ UNCHANGED <<fifoTail, rQpIndex, sizesFifo, rRes, rStep, sVars, sQueues,
                   rQueues, wire, sCq, rCq, broken, work>>

\* ibv_post_recv fails in anpNetIrecvDefault: the request is freed with its
\* event still counted, and the call returns ncclSuccess without writing
\* *request.  The caller is taken to have cleared it before the call (external):
\* it finds no request and comes back with the same step.
PostRecvFails(t) ==
    /\ RecvMayPost(t)
    /\ work[t].proto = "Simple"
    /\ \E r \in ReqIds :
          /\ GetRequest(rReqs, r)
          /\ rReqs' = [rReqs EXCEPT ![r].events = 1]
    /\ InjectFault
    /\ UNCHANGED <<fifoTail, rQpIndex, sizesFifo, rRes, rStep, sVars, sQueues,
                   rQueues, wire, sCq, rCq, broken, work>>

\* ibv_post_send fails in ncclIbPostFifo.  anpNetIrecvDefault frees the
\* request, whose receive WQE stays posted; anpNetIrecvPostCTS does not.
PostFifoFails(t) ==
    /\ RecvMayPost(t)
    /\ \E r \in ReqIds :
          /\ GetRequest(rReqs, r)
          /\ IF work[t].proto = "LL"
             THEN /\ rReqs' = [rReqs EXCEPT ![r] = RecvRequest(0)]
                  /\ UNCHANGED recvWqes
             ELSE /\ rReqs' = [rReqs EXCEPT ![r] =
                                 [RecvRequest(1) EXCEPT !.type = "UNUSED"]]
                  /\ recvWqes' = recvWqes \cup
                                    {[msg |-> t, qp |-> rQpIndex, wr_id |-> r]}
    /\ sizesFifo' = [sizesFifo EXCEPT ![RecvSlot] = 0]
    /\ rRes' = "error"
    /\ InjectFault
    /\ UNCHANGED <<fifoTail, rQpIndex, rStep, sVars, sQueues, ctsWqes, rSq,
                   flushWqes, wire, sCq, rCq, broken, work>>

\* The request anpNetFlush fills in; the receive it served last left the slot.
FlushRequest(req, events) ==
    [type |-> "FLUSH", events |-> events, slot |-> req.slot]

\* anpNetFlush: an RDMA read on the flush QP, unless flushing is off or the
\* receive was empty; then the caller gets no request and goes on (Consume).
Flush(t) ==
    /\ rRes = "ok"
    /\ rStep[t].st = "rcvd"
    /\ work[t].proto = "Simple"
    /\ FlushEnabled
    /\ rStep[t].size # 0
    /\ \E r \in ReqIds :
          /\ GetRequest(rReqs, r)
          /\ rReqs' = [rReqs EXCEPT ![r] = FlushRequest(@, 1)]
          /\ flushWqes' = flushWqes \cup {[msg |-> t, wr_id |-> r]}
          /\ rStep' = [rStep EXCEPT ![t] =
                          [@ EXCEPT !.st = "flushing", !.req = r]]
    /\ UNCHANGED <<fifoTail, rQpIndex, sizesFifo, rRes, sVars, sQueues, ctsWqes,
                   rSq, recvWqes, wire, sCq, rCq, faultVars, work>>

\* ibv_post_send fails in anpNetFlush: the request stays allocated.
PostFlushFails(t) ==
    /\ rRes = "ok"
    /\ rStep[t].st = "rcvd"
    /\ work[t].proto = "Simple"
    /\ FlushEnabled
    /\ rStep[t].size # 0
    /\ \E r \in ReqIds :
          /\ GetRequest(rReqs, r)
          /\ rReqs' = [rReqs EXCEPT ![r] = FlushRequest(@, 0)]
    /\ rRes' = "error"
    /\ InjectFault
    /\ UNCHANGED <<fifoTail, rQpIndex, sizesFifo, rStep, sVars, sQueues,
                   rQueues, wire, sCq, rCq, broken, work>>

\* A request some open step of the receiver holds.
RecvHolds(r) ==
    \E t \in Msgs : rStep[t].st \in {"posted", "flushing"} /\ rStep[t].req = r

\* anpNetTest handles one completion of the receive side.
RecvTestPoll(r) ==
    /\ rRes = "ok"
    /\ RecvHolds(r)
    /\ ~TestDone(rReqs[r])
    /\ \E c \in rCq :
          /\ rCq' = rCq \ {c}
          /\ rSq' = IF c.opcode = "RDMA_WRITE" THEN Retire(rSq, c) ELSE rSq
          /\ IF c.opcode = "RECV_RDMA_WITH_IMM" /\ rReqs[c.wr_id].type # "RECV"
             THEN rRes' = "error" /\ UNCHANGED <<rReqs, sizesFifo>>
             ELSE /\ rReqs' = [rReqs EXCEPT ![c.wr_id].events = @ - 1]
                  /\ sizesFifo' = IF c.opcode = "RECV_RDMA_WITH_IMM"
                                  THEN [sizesFifo EXCEPT
                                          ![rReqs[c.wr_id].slot] = c.size]
                                  ELSE sizesFifo
                  /\ UNCHANGED rRes
    /\ UNCHANGED <<fifoTail, rQpIndex, rStep, sVars, sQueues, ctsWqes, recvWqes,
                   flushWqes, wire, sCq, faultVars, work>>

\* anpNetTest finds no event left: a receive reports the size in its slot.
RecvTestDone(t) ==
    /\ rRes = "ok"
    /\ rStep[t].st \in {"posted", "flushing"}
    /\ TestDone(rReqs[rStep[t].req])
    /\ rStep' = [rStep EXCEPT ![t] =
          IF @.st = "posted"
          THEN [@ EXCEPT !.st = "rcvd",
                         !.size = sizesFifo[rReqs[rStep[t].req].slot]]
          ELSE [@ EXCEPT !.st = "done"]]
    /\ rReqs' = FreeRequest(rReqs, rStep[t].req)
    /\ UNCHANGED <<fifoTail, rQpIndex, sizesFifo, rRes, sVars, sQueues, rQueues,
                   wire, sCq, rCq, faultVars, work>>

\* anpNetTest polls a completion whose status is not IBV_WC_SUCCESS.
RecvTestError(r) ==
    /\ rRes = "ok"
    /\ RecvHolds(r)
    /\ ~TestDone(rReqs[r])
    /\ \E w \in recvWqes \cup ctsWqes : w.qp \in broken
    /\ rRes' = "error"
    /\ UNCHANGED <<rReqs, fifoTail, rQpIndex, sizesFifo, rStep, sVars, sQueues,
                   rQueues, wire, sCq, rCq, faultVars, work>>

\* The GPU takes a step: a message of the LL protocols is recognised by the
\* flags in its data, so its step ends when the data is there.
Consume(t) ==
    /\ rStep[t].st = "rcvd"
    /\ work[t].proto = "LL" => landed[t] # None
    /\ rStep' = [rStep EXCEPT ![t].st = "done"]
    /\ UNCHANGED <<rReqs, fifoTail, rQpIndex, sizesFifo, rRes, sVars, sQueues,
                   rQueues, wire, sCq, rCq, faultVars, work>>

-----------------------------------------------------------------------------
(* The NICs *)

\* A CTS write reaches the sender's NIC, and completes there if signalled.
CtsArrive(q) ==
    /\ \E w \in ctsWqes :
          /\ w.qp = q /\ First(ctsWqes, w)
          /\ ctsWqes' = ctsWqes \ {w}
          /\ ctsTable' = ctsTable \cup {[msg |-> w.msg, qp |-> q]}
          /\ rCq' = IF w.flags = "SIGNALED"
                    THEN rCq \cup {[msg |-> w.msg, qp |-> q, wr_id |-> w.wr_id,
                                    size |-> 0, opcode |-> "RDMA_WRITE"]}
                    ELSE rCq
    /\ UNCHANGED <<sVars, rVars, sQueues, rSq, recvWqes, flushWqes, ackWqes,
                   landed, sCq, faultVars, work>>

\* The sender's NIC pairs the first data WQE of a QP with the first CTS of that
\* QP and writes to the buffer it names; immediate data takes the QP's first
\* receive WQE and completes it.
Deliver(q) ==
    /\ \E d \in dataWqes, c \in ctsTable :
          /\ d.qp = q /\ First(dataWqes, d)
          /\ c.qp = q /\ First(ctsTable, c)
          /\ dataWqes' = dataWqes \ {d}
          /\ ackWqes' = ackWqes \cup {d}
          /\ ctsTable' = ctsTable \ {c}
          /\ landed' = [landed EXCEPT ![c.msg] = d.msg]
          /\ IF d.opcode = "RDMA_WRITE_WITH_IMM"
             THEN \E w \in recvWqes :
                     /\ w.qp = q /\ First(recvWqes, w)
                     /\ recvWqes' = recvWqes \ {w}
                     /\ rCq' = rCq \cup
                           {[msg |-> w.msg, qp |-> q, wr_id |-> w.wr_id,
                             size |-> d.size, opcode |-> "RECV_RDMA_WITH_IMM"]}
             ELSE UNCHANGED <<recvWqes, rCq>>
    /\ UNCHANGED <<sVars, rVars, sSq, ctsWqes, rSq, flushWqes, sCq, faultVars,
                   work>>

\* The acknowledgement completes the data WQE at the sender.
Ack(q) ==
    /\ \E d \in ackWqes :
          /\ d.qp = q /\ First(ackWqes, d)
          /\ ackWqes' = ackWqes \ {d}
          /\ sCq' = sCq \cup {[msg |-> d.msg, qp |-> q, wr_id |-> d.wr_id]}
    /\ UNCHANGED <<sVars, rVars, sQueues, rQueues, ctsTable, landed, rCq,
                   faultVars, work>>

FlushRead ==
    /\ \E w \in flushWqes :
          /\ flushWqes' = flushWqes \ {w}
          /\ rCq' = rCq \cup {[msg |-> w.msg, qp |-> FlushQp, wr_id |-> w.wr_id,
                               size |-> 0, opcode |-> "RDMA_READ"]}
    /\ UNCHANGED <<sVars, rVars, sQueues, ctsWqes, rSq, recvWqes, wire, sCq,
                   faultVars, work>>

QpBreaks(q) ==
    /\ q \notin broken
    /\ broken' = broken \cup {q}
    /\ InjectFault
    /\ UNCHANGED <<sVars, rVars, sQueues, rQueues, wire, sCq, rCq, work>>

-----------------------------------------------------------------------------

AllDone == \A t \in Msgs : sStep[t].st = "done" /\ rStep[t].st = "done"

\* Every message has been sent and received: nothing is left to do.
Finished == AllDone /\ UNCHANGED vars

Send == \/ \E t \in Msgs : Isend(t) \/ SendTestDone(t)
        \/ \E r \in ReqIds : SendTestPoll(r)

Recv == \/ \E t \in Msgs : \/ IrecvDefault(t) \/ IrecvPostCTS(t) \/ Flush(t)
                           \/ RecvTestDone(t) \/ Consume(t)
        \/ \E r \in ReqIds : RecvTestPoll(r)

Nic == \/ \E q \in Qps : CtsArrive(q) \/ Deliver(q) \/ Ack(q)
       \/ FlushRead

Fault == \/ \E t \in Msgs : \/ PostSendFails(t) \/ PostRecvFails(t)
                            \/ PostFifoFails(t) \/ PostFlushFails(t)
         \/ \E q \in Qps : QpBreaks(q)
         \/ \E r \in ReqIds : SendTestError(r) \/ RecvTestError(r)

Next == Send \/ Recv \/ Nic \/ Fault \/ Finished

Spec == Init /\ [][Next]_vars

\* The proxy threads poll their open requests in a loop, the GPU takes what
\* arrived, and the NICs do not stop.  No caller has to post.
Fairness ==
    /\ \A t \in Msgs : /\ WF_vars(SendTestDone(t)) /\ WF_vars(RecvTestDone(t))
                       /\ WF_vars(Consume(t))
    /\ \A r \in ReqIds : WF_vars(SendTestPoll(r)) /\ WF_vars(RecvTestPoll(r))
    /\ \A q \in Qps : /\ WF_vars(CtsArrive(q)) /\ WF_vars(Deliver(q))
                      /\ WF_vars(Ack(q))
    /\ WF_vars(FlushRead)

FairSpec == Spec /\ Fairness

-----------------------------------------------------------------------------
(* Properties *)

WithId(wqes, r) == {w \in wqes : w.wr_id = r}

\* A WQE and a CQE carry the index of their request and nothing more, and
\* requests are recycled first-fit: what anpNetTest subtracts is right only if
\* the events of a request are at all times exactly its signalled WQEs and
\* CQEs, and nothing in flight names an unused request.
SendEventsExact ==
    sRes = "ok" => \A r \in ReqIds :
        Cardinality(WithId(dataWqes \cup ackWqes, r))
            + Cardinality(WithId(sCq, r))
          = IF sReqs[r].type = "UNUSED" THEN 0 ELSE sReqs[r].events

\* The same of the receive side, where a request can wait for its receive, for
\* its CTS when ncclIbPostFifo signalled it, or for its flush.
RecvEventsExact ==
    rRes = "ok" => \A r \in ReqIds :
        Cardinality(WithId(recvWqes, r))
            + Cardinality(WithId({w \in ctsWqes : w.flags = "SIGNALED"}, r))
            + Cardinality(WithId(flushWqes, r)) + Cardinality(WithId(rCq, r))
          = IF rReqs[r].type = "UNUSED" THEN 0 ELSE rReqs[r].events

\* Sender and receiver pick QPs by two counters that never talk to each other
\* (base.qpIndex of each side): the buffer of the t-th receive only ever gets
\* the data of the t-th send.
LandsInOrder == \A t \in Msgs : landed[t] \in {None, t}

\* A step anpNetTest reported done is true: a send's data is in its buffer, a
\* receive got the size the matching send had, its data being there; a receive
\* that wanted no completion reports 0.
CompletionsTrue ==
    \A t \in Msgs :
        /\ sStep[t].st = "done" => landed[t] = t
        /\ rStep[t].st \in {"rcvd", "flushing", "done"} =>
              IF work[t].proto = "LL" THEN rStep[t].size = 0
              ELSE landed[t] = t /\ rStep[t].size = work[t].size

SqDepth == 2 * MaxRequests          \* qpInitAttr.cap.max_send_wr
RqDepth == MaxRequests              \* qpInitAttr.cap.max_recv_wr
CqDepth == 3 * MaxRequests * NQps   \* ncclIbInitCommDevBase

OnQp(wqes, q) == {w \in wqes : w.qp = q}

\* No queue outgrows the depth it was created with.  For the CTS send queue
\* this rests on which CTS ncclIbPostFifo signals: an unsignalled one leaves
\* the queue when a later one of the same QP completes.
QueuesFit ==
    /\ \A q \in Qps : /\ Cardinality(OnQp(sSq, q)) <= SqDepth
                      /\ Cardinality(OnQp(rSq, q)) <= SqDepth
                      /\ Cardinality(OnQp(recvWqes, q)) <= RqDepth
    /\ Cardinality(sCq) <= CqDepth
    /\ Cardinality(rCq) <= CqDepth

\* A caller that may post finds a free request, and the FIFO slot empty:
\* flushes share the pool of the receives.
RequestAvailable ==
    /\ \A t \in Msgs : SendMayPost(t) =>
          /\ \E r \in ReqIds : sReqs[r].type = "UNUSED"
          /\ fifoReqs[SendSlot] = None
    /\ \A t \in Msgs :
          (RecvMayPost(t) \/ (rRes = "ok" /\ rStep[t].st = "rcvd")) =>
              \E r \in ReqIds : rReqs[r].type = "UNUSED"

\* anpNetTest never runs into its own internal errors: a call fails only when
\* the device failed.
NoInternalError == (sRes = "error" \/ rRes = "error") => faults > 0

\* The size slot of an open receive is written once, with the size of its own
\* message: a later receive does not recycle the slot under it.
SlotKept ==
    [][\A t \in Msgs :
          LET s == rReqs[rStep[t].req].slot
          IN  /\ rStep[t].st = "posted"
              /\ rStep'[t].st = "posted"
              /\ sizesFifo'[s] # sizesFifo[s]
              => sizesFifo[s] = 0 /\ sizesFifo'[s] = work[t].size]_vars

\* A message posted on both sides ends on both sides unless a post or a QP
\* fails: nobody waits for a CTS, a receive WQE or a completion that does not
\* come.
PostedCompletes ==
    \A t \in Msgs :
        (sStep[t].st # "idle" /\ rStep[t].st # "idle")
            ~> (faults > 0 \/ (sStep[t].st = "done" /\ rStep[t].st = "done"))

Channel == INSTANCE NetChannel WITH
    sent <- {t \in Msgs : sStep[t].st # "idle"},
    sendDone <- {t \in Msgs : sStep[t].st = "done"},
    posted <- {t \in Msgs : rStep[t].st # "idle"},
    buffer <- landed,
    reported <- [t \in Msgs |-> IF rStep[t].st \in {"idle", "posted"} THEN None
                                ELSE rStep[t].size]

\* The transport implements the channel RCCL relies on.
ImplementsChannel == Channel!Spec

-----------------------------------------------------------------------------
(* What makes the event counts inductive: who owns what is in flight. *)

SendOwned(w) == sStep[w.msg].st = "posted" /\ sStep[w.msg].req = w.wr_id

InFlight(t) == \/ \E w \in dataWqes \cup ackWqes : w.msg = t
               \/ \E c \in sCq : c.msg = t

\* Every WQE and CQE of a message belongs to the request its step holds.
SendOwnership ==
    \A w \in dataWqes \cup ackWqes \cup sCq : SendOwned(w)

\* A message is in one place at a time.
SendUnique ==
    /\ dataWqes \cap ackWqes = {}
    /\ \A w, v \in dataWqes \cup ackWqes : w.msg = v.msg => w = v
    /\ \A c, d \in sCq : c.msg = d.msg => c = d
    /\ \A w \in dataWqes \cup ackWqes, c \in sCq : w.msg # c.msg

\* Open steps hold requests of their own, with an event while in flight.
SendRequests ==
    /\ \A t \in Msgs : sStep[t].st = "posted" =>
          /\ sReqs[sStep[t].req].type = "SEND"
          /\ sReqs[sStep[t].req].events = IF InFlight(t) THEN 1 ELSE 0
    /\ \A t, u \in Msgs :
          /\ sStep[t].st = "posted" /\ sStep[u].st = "posted"
          /\ sStep[t].req = sStep[u].req
          => t = u
    /\ \A r \in ReqIds : sReqs[r].type = "SEND" =>
          \E t \in Msgs : sStep[t].st = "posted" /\ sStep[t].req = r

SendInv == sRes = "ok" => SendOwnership /\ SendUnique /\ SendRequests

Signalled == {w \in ctsWqes : w.flags = "SIGNALED"}
Cqes(opcode) == {c \in rCq : c.opcode = opcode}

RecvOpen(t) == rStep[t].st \in {"posted", "flushing"}
RecvOwned(w, st) == rStep[w.msg].st = st /\ rStep[w.msg].req = w.wr_id

HasMsg(wqes, cqes, t) ==
    (\E w \in wqes : w.msg = t) \/ (\E c \in cqes : c.msg = t)
HasRecv(t) == HasMsg(recvWqes, Cqes("RECV_RDMA_WITH_IMM"), t)
HasCts(t) == HasMsg(Signalled, Cqes("RDMA_WRITE"), t)
HasFlush(t) == HasMsg(flushWqes, Cqes("RDMA_READ"), t)
Count(b) == IF b THEN 1 ELSE 0

RecvOwnership ==
    /\ \A w \in recvWqes \cup Signalled : RecvOwned(w, "posted")
    /\ \A w \in flushWqes : RecvOwned(w, "flushing")
    /\ \A c \in rCq :
          RecvOwned(c, IF c.opcode = "RDMA_READ" THEN "flushing" ELSE "posted")

OncePerMsg(wqes, cqes) ==
    /\ \A w, v \in wqes : w.msg = v.msg => w = v
    /\ \A c, d \in cqes : c.msg = d.msg => c = d
    /\ \A w \in wqes, c \in cqes : w.msg # c.msg

RecvUnique ==
    /\ OncePerMsg(recvWqes, Cqes("RECV_RDMA_WITH_IMM"))
    /\ OncePerMsg(Signalled, Cqes("RDMA_WRITE"))
    /\ OncePerMsg(flushWqes, Cqes("RDMA_READ"))

RecvRequests ==
    /\ \A t \in Msgs : rStep[t].st = "posted" =>
          /\ rReqs[rStep[t].req].type = "RECV"
          /\ rReqs[rStep[t].req].events = Count(HasRecv(t)) + Count(HasCts(t))
    /\ \A t \in Msgs : rStep[t].st = "flushing" =>
          /\ rReqs[rStep[t].req].type = "FLUSH"
          /\ rReqs[rStep[t].req].events = Count(HasFlush(t))
    /\ \A t, u \in Msgs :
          RecvOpen(t) /\ RecvOpen(u) /\ rStep[t].req = rStep[u].req => t = u
    /\ \A r \in ReqIds : rReqs[r].type # "UNUSED" =>
          \E t \in Msgs : RecvOpen(t) /\ rStep[t].req = r

RecvInv == rRes = "ok" => RecvOwnership /\ RecvUnique /\ RecvRequests
=============================================================================
