------------------------- MODULE NetTransportProofs -------------------------
(***************************************************************************)
(* Theorems about NetTransport, for every number of requests, QPs and      *)
(* messages, every window and every workload the assumption admits.        *)
(***************************************************************************)
EXTENDS NetTransport, FiniteSetTheorems, TLAPS

\* The remainder by a positive number, as FIFO slots and QP indices use it.
LEMMA ModRange ==
    ASSUME NEW a \in Nat, NEW n \in Nat \ {0}
    PROVE  a % n \in 0 .. n - 1
  OBVIOUS

\* The FIFO slots are slots.
LEMMA SlotsInRange ==
    ASSUME TypeOK
    PROVE  SendSlot \in Slots /\ RecvSlot \in Slots
  BY ConstantsAssumption, ModRange
  DEF TypeOK, SendTypeOK, RecvTypeOK, SendSlot, RecvSlot, Slots

\* The QP index stays in range.
LEMMA NextQpInRange ==
    ASSUME NEW q \in Qps
    PROVE  NextQp(q) \in Qps
  BY ConstantsAssumption, ModRange DEF NextQp, Qps

\* What a receive request looks like.
LEMMA RecvRequestType ==
    ASSUME TypeOK, NEW e \in Int
    PROVE  RecvRequest(e) \in RecvReq
  BY SlotsInRange DEF RecvRequest, RecvReq

LEMMA WorkType ==
    ASSUME TypeOK, NEW t \in Msgs
    PROVE  work[t].size \in Nat /\ work[t].proto \in {"Simple", "LL"}
  BY ConstantsAssumption DEF TypeOK, Message

LEMMA InitTypeOK == Init => TypeOK
  <1> SUFFICES ASSUME Init PROVE TypeOK
    OBVIOUS
  <1>1. 0 \in ReqIds /\ 0 \in Slots /\ 0 \in Qps /\ 0 \in 0 .. MaxFaults
    BY ConstantsAssumption DEF ReqIds, Slots, Qps
  <1>2. SendTypeOK
    BY <1>1 DEF Init, SendTypeOK, SendReq, SendStep, Result
  <1>3. RecvTypeOK
    BY <1>1 DEF Init, RecvTypeOK, RecvReq, RecvStep, Result
  <1>4. WireTypeOK /\ SendQueuesTypeOK /\ RecvQueuesTypeOK /\ CqTypeOK
    BY DEF Init, WireTypeOK, SendQueuesTypeOK, RecvQueuesTypeOK, CqTypeOK
  <1> QED
    BY <1>1, <1>2, <1>3, <1>4 DEF Init, TypeOK, FaultTypeOK

\* The parts of the type invariant an action does not touch.
LEMMA UnchangedType ==
    ASSUME TypeOK
    PROVE  /\ UNCHANGED sVars => SendTypeOK'
           /\ UNCHANGED rVars => RecvTypeOK'
           /\ UNCHANGED sQueues => SendQueuesTypeOK'
           /\ UNCHANGED rQueues => RecvQueuesTypeOK'
           /\ UNCHANGED wire => WireTypeOK'
           /\ UNCHANGED <<sCq, rCq>> => CqTypeOK'
           /\ UNCHANGED faultVars => FaultTypeOK'
           /\ UNCHANGED work => (work \in Workloads)'
  BY DEF TypeOK, SendTypeOK, RecvTypeOK, SendQueuesTypeOK, RecvQueuesTypeOK,
         WireTypeOK, CqTypeOK, FaultTypeOK, sVars, rVars, sQueues, rQueues,
         wire, faultVars

LEMMA IsendType ==
    ASSUME TypeOK, NEW t \in Msgs, Isend(t)
    PROVE  TypeOK'
  <1>1. PICK r \in ReqIds : /\ sReqs' = [sReqs EXCEPT ![r] = SendRequest]
                            /\ MultiSend(t, r)
                            /\ sStep' = [sStep EXCEPT ![t] =
                                            [st |-> "posted", req |-> r]]
    BY DEF Isend
  <1>2. sQpIndex \in Qps /\ sQpIndex' \in Qps
    BY <1>1, NextQpInRange DEF MultiSend, TypeOK, SendTypeOK
  <1>3. SendTypeOK'
    <2>1. SendRequest \in SendReq /\ [st |-> "posted", req |-> r] \in SendStep
      BY DEF SendRequest, SendReq, SendStep
    <2> QED
      BY <1>1, <1>2, <2>1 DEF Isend, TypeOK, SendTypeOK
  <1>4. dataWqes' \subseteq DataWqe
    BY <1>1, <1>2, WorkType
    DEF MultiSend, DataOpcode, TypeOK, SendQueuesTypeOK, DataWqe
  <1>5. sSq' \subseteq [msg : Msgs, qp : Qps, n : 1 .. 2]
    BY <1>1, <1>2 DEF MultiSend, TypeOK, SendQueuesTypeOK, NWrs
  <1> QED
    BY <1>3, <1>4, <1>5, UnchangedType DEF Isend, TypeOK, SendQueuesTypeOK

LEMMA PostSendFailsType ==
    ASSUME TypeOK, NEW t \in Msgs, PostSendFails(t)
    PROVE  TypeOK'
  <1>1. SendTypeOK'
    BY SlotsInRange
    DEF PostSendFails, TypeOK, SendTypeOK, SendReq, SendRequest, Result
  <1>2. FaultTypeOK'
    BY ConstantsAssumption
    DEF PostSendFails, InjectFault, TypeOK, FaultTypeOK
  <1> QED
    BY <1>1, <1>2, UnchangedType DEF PostSendFails, TypeOK

LEMMA SendTestPollType ==
    ASSUME TypeOK, NEW r \in ReqIds, SendTestPoll(r)
    PROVE  TypeOK'
  <1>1. PICK c \in sCq :
          /\ sCq' = sCq \ {c}
          /\ sSq' = Retire(sSq, c)
          /\ \/ sRes' = "error" /\ UNCHANGED sReqs
             \/ /\ sReqs' = [sReqs EXCEPT ![c.wr_id].events = @ - 1]
                /\ UNCHANGED sRes
    BY DEF SendTestPoll
  <1>2. c.wr_id \in ReqIds
    BY DEF TypeOK, CqTypeOK, SendCqe
  <1>3. SendTypeOK'
    BY <1>1, <1>2 DEF SendTestPoll, TypeOK, SendTypeOK, SendReq, Result
  <1>4. SendQueuesTypeOK' /\ CqTypeOK'
    BY <1>1 DEF SendTestPoll, TypeOK, SendQueuesTypeOK, CqTypeOK, Retire
  <1> QED
    BY <1>3, <1>4, UnchangedType DEF SendTestPoll, TypeOK

LEMMA SendTestDoneType ==
    ASSUME TypeOK, NEW t \in Msgs, SendTestDone(t)
    PROVE  TypeOK'
  <1>1. sStep[t].req \in ReqIds
    BY DEF TypeOK, SendTypeOK, SendStep
  <1>2. SendTypeOK'
    BY <1>1 DEF SendTestDone, FreeRequest, TypeOK, SendTypeOK, SendReq, SendStep
  <1> QED
    BY <1>2, UnchangedType DEF SendTestDone, TypeOK

LEMMA SendTestErrorType ==
    ASSUME TypeOK, NEW r \in ReqIds, SendTestError(r)
    PROVE  TypeOK'
  <1>1. SendTypeOK'
    BY DEF SendTestError, TypeOK, SendTypeOK, Result
  <1> QED
    BY <1>1, UnchangedType DEF SendTestError, TypeOK

LEMMA PostFifoType ==
    ASSUME TypeOK, NEW t \in Msgs, NEW r \in ReqIds, PostFifo(t, r)
    PROVE  /\ fifoTail' \in Nat
           /\ rQpIndex \in Qps /\ rQpIndex' \in Qps
           /\ sizesFifo' \in [Slots -> Nat]
           /\ ctsWqes' \subseteq CtsWqe
           /\ rSq' \subseteq Place
  <1>1. rQpIndex \in Qps /\ rQpIndex' \in Qps
    BY NextQpInRange DEF PostFifo, TypeOK, RecvTypeOK
  <1>2. fifoTail' \in Nat /\ sizesFifo' \in [Slots -> Nat]
    BY SlotsInRange DEF PostFifo, TypeOK, RecvTypeOK
  <1>3. CtsFlags \in {"SIGNALED", "UNSIGNALED"}
    BY DEF CtsFlags
  <1>4. ctsWqes' \subseteq CtsWqe /\ rSq' \subseteq Place
    BY <1>1, <1>3 DEF PostFifo, TypeOK, RecvQueuesTypeOK, CtsWqe, Place
  <1> QED
    BY <1>1, <1>2, <1>4

LEMMA IrecvDefaultType ==
    ASSUME TypeOK, NEW t \in Msgs, IrecvDefault(t)
    PROVE  TypeOK'
  <1>1. PICK r \in ReqIds :
          /\ rReqs' = [rReqs EXCEPT ![r] = RecvRequest(1)]
          /\ recvWqes' = recvWqes \cup
                            {[msg |-> t, qp |-> rQpIndex, wr_id |-> r]}
          /\ PostFifo(t, r)
          /\ rStep' = [rStep EXCEPT ![t] =
                          [st |-> "posted", req |-> r, size |-> 0]]
    BY DEF IrecvDefault
  <1>2. RecvTypeOK'
    BY <1>1, RecvRequestType, PostFifoType
    DEF IrecvDefault, TypeOK, RecvTypeOK, RecvStep
  <1>3. RecvQueuesTypeOK'
    BY <1>1, PostFifoType
    DEF IrecvDefault, TypeOK, RecvQueuesTypeOK, RecvWqe
  <1> QED
    BY <1>2, <1>3, UnchangedType DEF IrecvDefault, TypeOK

LEMMA IrecvPostCTSType ==
    ASSUME TypeOK, NEW t \in Msgs, IrecvPostCTS(t)
    PROVE  TypeOK'
  <1>1. PICK r \in ReqIds :
          /\ rReqs' = [rReqs EXCEPT ![r] = RecvRequest(0)]
          /\ PostFifo(t, r)
          /\ rStep' = [rStep EXCEPT ![t] =
                          [st |-> "posted", req |-> r, size |-> 0]]
    BY DEF IrecvPostCTS
  <1>2. RecvTypeOK'
    BY <1>1, RecvRequestType, PostFifoType
    DEF IrecvPostCTS, TypeOK, RecvTypeOK, RecvStep
  <1>3. RecvQueuesTypeOK'
    BY <1>1, PostFifoType DEF IrecvPostCTS, TypeOK, RecvQueuesTypeOK
  <1> QED
    BY <1>2, <1>3, UnchangedType DEF IrecvPostCTS, TypeOK

LEMMA PostRecvFailsType ==
    ASSUME TypeOK, NEW t \in Msgs, PostRecvFails(t)
    PROVE  TypeOK'
  <1>1. RecvTypeOK'
    BY DEF PostRecvFails, TypeOK, RecvTypeOK, RecvReq
  <1>2. FaultTypeOK'
    BY ConstantsAssumption
    DEF PostRecvFails, InjectFault, TypeOK, FaultTypeOK
  <1> QED
    BY <1>1, <1>2, UnchangedType DEF PostRecvFails, TypeOK

LEMMA PostFifoFailsType ==
    ASSUME TypeOK, NEW t \in Msgs, PostFifoFails(t)
    PROVE  TypeOK'
  <1>1. PICK r \in ReqIds :
          \/ /\ rReqs' = [rReqs EXCEPT ![r] = RecvRequest(0)]
             /\ UNCHANGED recvWqes
          \/ /\ rReqs' = [rReqs EXCEPT ![r] =
                            [RecvRequest(1) EXCEPT !.type = "UNUSED"]]
             /\ recvWqes' = recvWqes \cup
                               {[msg |-> t, qp |-> rQpIndex, wr_id |-> r]}
    BY DEF PostFifoFails
  <1>2. /\ RecvRequest(0) \in RecvReq
        /\ [RecvRequest(1) EXCEPT !.type = "UNUSED"] \in RecvReq
    BY RecvRequestType, 0 \in Int, 1 \in Int DEF RecvReq
  <1>3. RecvTypeOK'
    BY <1>1, <1>2, SlotsInRange DEF PostFifoFails, TypeOK, RecvTypeOK, Result
  <1>4. RecvQueuesTypeOK'
    BY <1>1 DEF PostFifoFails, TypeOK, RecvTypeOK, RecvQueuesTypeOK, RecvWqe
  <1>5. FaultTypeOK'
    BY ConstantsAssumption
    DEF PostFifoFails, InjectFault, TypeOK, FaultTypeOK
  <1> QED
    BY <1>3, <1>4, <1>5, UnchangedType DEF PostFifoFails, TypeOK

\* What a flush request looks like.
LEMMA FlushRequestType ==
    ASSUME NEW req \in RecvReq, NEW e \in Int
    PROVE  FlushRequest(req, e) \in RecvReq
  BY DEF FlushRequest, RecvReq

LEMMA FlushType ==
    ASSUME TypeOK, NEW t \in Msgs, Flush(t)
    PROVE  TypeOK'
  <1>1. PICK r \in ReqIds :
          /\ rReqs' = [rReqs EXCEPT ![r] = FlushRequest(@, 1)]
          /\ flushWqes' = flushWqes \cup {[msg |-> t, wr_id |-> r]}
          /\ rStep' = [rStep EXCEPT ![t] =
                          [@ EXCEPT !.st = "flushing", !.req = r]]
    BY DEF Flush
  <1>2. rReqs' \in [ReqIds -> RecvReq]
    BY <1>1, FlushRequestType DEF TypeOK, RecvTypeOK
  <1>3. rStep' \in [Msgs -> RecvStep]
    BY <1>1 DEF TypeOK, RecvTypeOK, RecvStep
  <1>4. RecvTypeOK'
    BY <1>2, <1>3 DEF Flush, TypeOK, RecvTypeOK
  <1>5. RecvQueuesTypeOK'
    BY <1>1 DEF Flush, TypeOK, RecvQueuesTypeOK, FlushWqe
  <1> QED
    BY <1>4, <1>5, UnchangedType DEF Flush, TypeOK

LEMMA PostFlushFailsType ==
    ASSUME TypeOK, NEW t \in Msgs, PostFlushFails(t)
    PROVE  TypeOK'
  <1>1. rReqs' \in [ReqIds -> RecvReq]
    BY FlushRequestType DEF PostFlushFails, TypeOK, RecvTypeOK
  <1>3. RecvTypeOK'
    BY <1>1 DEF PostFlushFails, TypeOK, RecvTypeOK, Result
  <1>2. FaultTypeOK'
    BY ConstantsAssumption
    DEF PostFlushFails, InjectFault, TypeOK, FaultTypeOK
  <1> QED
    BY <1>2, <1>3, UnchangedType DEF PostFlushFails, TypeOK

LEMMA RecvTestPollType ==
    ASSUME TypeOK, NEW r \in ReqIds, RecvTestPoll(r)
    PROVE  TypeOK'
  <1>1. PICK c \in rCq :
          /\ rCq' = rCq \ {c}
          /\ rSq' = Retire(rSq, c) \/ rSq' = rSq
          /\ \/ rRes' = "error" /\ UNCHANGED <<rReqs, sizesFifo>>
             \/ /\ rReqs' = [rReqs EXCEPT ![c.wr_id].events = @ - 1]
                /\ \/ sizesFifo' = [sizesFifo EXCEPT
                                      ![rReqs[c.wr_id].slot] = c.size]
                   \/ sizesFifo' = sizesFifo
                /\ UNCHANGED rRes
    BY DEF RecvTestPoll
  <1>2. c.wr_id \in ReqIds /\ c.size \in Nat
    BY DEF TypeOK, CqTypeOK, RecvCqe
  <1>3. rReqs' \in [ReqIds -> RecvReq]
    BY <1>1, <1>2 DEF TypeOK, RecvTypeOK, RecvReq
  <1>4. sizesFifo' \in [Slots -> Nat]
    BY <1>1, <1>2 DEF TypeOK, RecvTypeOK, RecvReq
  <1>5. RecvTypeOK'
    BY <1>1, <1>3, <1>4 DEF RecvTestPoll, TypeOK, RecvTypeOK, Result
  <1>6. RecvQueuesTypeOK' /\ CqTypeOK'
    BY <1>1 DEF RecvTestPoll, TypeOK, RecvQueuesTypeOK, CqTypeOK, Retire
  <1> QED
    BY <1>5, <1>6, UnchangedType DEF RecvTestPoll, TypeOK

LEMMA RecvTestDoneType ==
    ASSUME TypeOK, NEW t \in Msgs, RecvTestDone(t)
    PROVE  TypeOK'
  <1>1. rStep[t].req \in ReqIds /\ rStep[t] \in RecvStep
    BY DEF TypeOK, RecvTypeOK, RecvStep
  <1>2. rReqs' \in [ReqIds -> RecvReq]
    BY <1>1 DEF RecvTestDone, FreeRequest, TypeOK, RecvTypeOK, RecvReq
  <1>3. sizesFifo[rReqs[rStep[t].req].slot] \in Nat
    BY <1>1 DEF TypeOK, RecvTypeOK, RecvReq
  <1>4. rStep' \in [Msgs -> RecvStep]
    BY <1>1, <1>3 DEF RecvTestDone, TypeOK, RecvTypeOK, RecvStep
  <1>5. RecvTypeOK'
    BY <1>2, <1>4 DEF RecvTestDone, TypeOK, RecvTypeOK
  <1> QED
    BY <1>5, UnchangedType DEF RecvTestDone, TypeOK

LEMMA RecvTestErrorType ==
    ASSUME TypeOK, NEW r \in ReqIds, RecvTestError(r)
    PROVE  TypeOK'
  <1>1. RecvTypeOK'
    BY DEF RecvTestError, TypeOK, RecvTypeOK, Result
  <1> QED
    BY <1>1, UnchangedType DEF RecvTestError, TypeOK

LEMMA ConsumeType ==
    ASSUME TypeOK, NEW t \in Msgs, Consume(t)
    PROVE  TypeOK'
  <1>1. RecvTypeOK'
    BY DEF Consume, TypeOK, RecvTypeOK, RecvStep
  <1> QED
    BY <1>1, UnchangedType DEF Consume, TypeOK

LEMMA NicType ==
    ASSUME TypeOK, Nic
    PROVE  TypeOK'
  <1>1. ASSUME NEW q \in Qps, CtsArrive(q) PROVE TypeOK'
    <2>1. PICK w \in ctsWqes :
            /\ ctsWqes' = ctsWqes \ {w}
            /\ ctsTable' = ctsTable \cup {[msg |-> w.msg, qp |-> q]}
            /\ rCq' = IF w.flags = "SIGNALED"
                      THEN rCq \cup {[msg |-> w.msg, qp |-> q,
                                      wr_id |-> w.wr_id, size |-> 0,
                                      opcode |-> "RDMA_WRITE"]}
                      ELSE rCq
      BY <1>1 DEF CtsArrive
    <2>2. w.msg \in Msgs /\ w.wr_id \in ReqIds /\ q \in 0 .. NQps
      BY ConstantsAssumption DEF TypeOK, RecvQueuesTypeOK, CtsWqe, Qps
    <2>3. RecvQueuesTypeOK' /\ WireTypeOK'
      BY <1>1, <2>1, <2>2
      DEF CtsArrive, TypeOK, RecvQueuesTypeOK, WireTypeOK, Place
    <2>4. CqTypeOK'
      BY <1>1, <2>1, <2>2 DEF CtsArrive, TypeOK, CqTypeOK, RecvCqe
    <2> QED
      BY <1>1, <2>3, <2>4, UnchangedType DEF CtsArrive, TypeOK
  <1>2. ASSUME NEW q \in Qps, Deliver(q) PROVE TypeOK'
    <2>1. PICK d \in dataWqes, c \in ctsTable :
            /\ dataWqes' = dataWqes \ {d}
            /\ ackWqes' = ackWqes \cup {d}
            /\ ctsTable' = ctsTable \ {c}
            /\ landed' = [landed EXCEPT ![c.msg] = d.msg]
            /\ \/ \E w \in recvWqes :
                     /\ recvWqes' = recvWqes \ {w}
                     /\ rCq' = rCq \cup
                           {[msg |-> w.msg, qp |-> q, wr_id |-> w.wr_id,
                             size |-> d.size, opcode |-> "RECV_RDMA_WITH_IMM"]}
               \/ UNCHANGED <<recvWqes, rCq>>
      BY <1>2 DEF Deliver
    <2>2. d \in DataWqe /\ d.msg \in Msgs /\ d.size \in Nat /\ c.msg \in Msgs
      BY DEF TypeOK, SendQueuesTypeOK, WireTypeOK, DataWqe, Place
    <2>3. SendQueuesTypeOK' /\ WireTypeOK'
      BY <1>2, <2>1, <2>2 DEF Deliver, TypeOK, SendQueuesTypeOK, WireTypeOK
    <2>4. RecvQueuesTypeOK'
      BY <1>2, <2>1 DEF Deliver, TypeOK, RecvQueuesTypeOK
    <2>5. CqTypeOK'
      <3>1. \A w \in recvWqes : w.msg \in Msgs /\ w.wr_id \in ReqIds
        BY DEF TypeOK, RecvQueuesTypeOK, RecvWqe
      <3>2. q \in 0 .. NQps
        BY ConstantsAssumption DEF Qps
      <3> QED
        BY <1>2, <2>1, <2>2, <3>1, <3>2 DEF Deliver, TypeOK, CqTypeOK, RecvCqe
    <2> QED
      BY <1>2, <2>3, <2>4, <2>5, UnchangedType DEF Deliver, TypeOK
  <1>3. ASSUME NEW q \in Qps, Ack(q) PROVE TypeOK'
    <2>1. PICK d \in ackWqes :
            /\ ackWqes' = ackWqes \ {d}
            /\ sCq' = sCq \cup {[msg |-> d.msg, qp |-> q, wr_id |-> d.wr_id]}
      BY <1>3 DEF Ack
    <2>2. d.msg \in Msgs /\ d.wr_id \in ReqIds
      BY DEF TypeOK, WireTypeOK, DataWqe
    <2>3. WireTypeOK' /\ CqTypeOK'
      BY <1>3, <2>1, <2>2 DEF Ack, TypeOK, WireTypeOK, CqTypeOK, SendCqe
    <2> QED
      BY <1>3, <2>3, UnchangedType DEF Ack, TypeOK
  <1>4. ASSUME FlushRead PROVE TypeOK'
    <2>1. PICK w \in flushWqes :
            /\ flushWqes' = flushWqes \ {w}
            /\ rCq' = rCq \cup {[msg |-> w.msg, qp |-> FlushQp,
                                 wr_id |-> w.wr_id, size |-> 0,
                                 opcode |-> "RDMA_READ"]}
      BY <1>4 DEF FlushRead
    <2>2. w.msg \in Msgs /\ w.wr_id \in ReqIds /\ FlushQp \in 0 .. NQps
      BY ConstantsAssumption
      DEF TypeOK, RecvQueuesTypeOK, FlushWqe, FlushQp
    <2>3. RecvQueuesTypeOK'
      BY <1>4, <2>1 DEF FlushRead, TypeOK, RecvQueuesTypeOK
    <2>4. CqTypeOK'
      BY <1>4, <2>1, <2>2 DEF FlushRead, TypeOK, CqTypeOK, RecvCqe
    <2> QED
      BY <1>4, <2>3, <2>4, UnchangedType DEF FlushRead, TypeOK
  <1> QED
    BY <1>1, <1>2, <1>3, <1>4 DEF Nic

LEMMA QpBreaksType ==
    ASSUME TypeOK, NEW q \in Qps, QpBreaks(q)
    PROVE  TypeOK'
  <1>1. FaultTypeOK'
    BY ConstantsAssumption DEF QpBreaks, InjectFault, TypeOK, FaultTypeOK
  <1> QED
    BY <1>1, UnchangedType DEF QpBreaks, TypeOK

\* Every step of the transport, a stuttering one included, keeps the types.
LEMMA NextTypeOK == TypeOK /\ [Next]_vars => TypeOK'
  <1> SUFFICES ASSUME TypeOK, [Next]_vars PROVE TypeOK'
    OBVIOUS
  <1>1. CASE Send
    BY <1>1, IsendType, SendTestDoneType, SendTestPollType DEF Send
  <1>2. CASE Recv
    BY <1>2, IrecvDefaultType, IrecvPostCTSType, FlushType, RecvTestDoneType,
       ConsumeType, RecvTestPollType DEF Recv
  <1>3. CASE Nic
    BY <1>3, NicType
  <1>4. CASE Fault
    BY <1>4, PostSendFailsType, PostRecvFailsType, PostFifoFailsType,
       PostFlushFailsType, QpBreaksType, SendTestErrorType, RecvTestErrorType
    DEF Fault
  <1>5. CASE UNCHANGED vars
    BY <1>5, UnchangedType DEF vars, TypeOK
  <1> QED
    BY <1>1, <1>2, <1>3, <1>4, <1>5 DEF Next, Finished

\* The type invariant holds whatever the calls, the NICs and the faults do.
THEOREM TypeCorrect == Spec => []TypeOK
  BY InitTypeOK, NextTypeOK, PTL DEF Spec

-----------------------------------------------------------------------------
(* The events of the send side *)

LEMMA InitSendInv == Init => SendInv
  BY DEF Init, SendInv, SendOwnership, SendUnique, SendRequests

\* What does not touch the sender's requests, steps, data and completions.
LEMMA SendInvFrame ==
    ASSUME SendInv,
           UNCHANGED <<sReqs, sRes, sStep, dataWqes, ackWqes, sCq>>
    PROVE  SendInv'
  BY DEF SendInv, SendOwnership, SendOwned, SendUnique, SendRequests, InFlight

LEMMA IsendSendInv ==
    ASSUME TypeOK, SendInv, NEW t \in Msgs, Isend(t)
    PROVE  SendInv'
  <1>1. PICK r \in ReqIds : /\ GetRequest(sReqs, r)
                            /\ sReqs' = [sReqs EXCEPT ![r] = SendRequest]
                            /\ MultiSend(t, r)
                            /\ sStep' = [sStep EXCEPT ![t] =
                                            [st |-> "posted", req |-> r]]
    BY DEF Isend
  <1>2. /\ sRes = "ok" /\ sRes' = "ok"
        /\ sStep[t].st = "idle"
        /\ sReqs[r].type = "UNUSED"
        /\ SendOwnership /\ SendUnique /\ SendRequests
        /\ ackWqes' = ackWqes /\ sCq' = sCq
    BY <1>1 DEF Isend, SendMayPost, MayPost, GetRequest, SendInv, wire
  <1>3. PICK w : w.msg = t /\ w.wr_id = r /\ dataWqes' = dataWqes \cup {w}
    BY <1>1 DEF MultiSend
  <1>4. /\ sStep \in [Msgs -> SendStep] /\ sReqs \in [ReqIds -> SendReq]
        /\ \A v \in dataWqes \cup ackWqes \cup sCq :
              v.msg \in Msgs /\ v.wr_id \in ReqIds
    BY DEF TypeOK, SendTypeOK, SendQueuesTypeOK, WireTypeOK, CqTypeOK, DataWqe,
           SendCqe
  <1>5. \A v \in dataWqes \cup ackWqes \cup sCq : v.msg # t
    BY <1>2, <1>4 DEF SendOwnership, SendOwned
  <1>6. \A u \in Msgs : sStep[u].st = "posted" => u # t /\ sStep[u].req # r
    BY <1>2, <1>4 DEF SendRequests
  <1>7. /\ sStep'[t].st = "posted" /\ sStep'[t].req = r
        /\ \A u \in Msgs : u # t => sStep'[u] = sStep[u]
        /\ sReqs'[r].type = "SEND" /\ sReqs'[r].events = 1
        /\ \A x \in ReqIds : x # r => sReqs'[x] = sReqs[x]
    BY <1>1, <1>4 DEF SendRequest
  <1>8. SendOwnership'
    BY <1>2, <1>3, <1>4, <1>5, <1>7 DEF SendOwnership, SendOwned
  <1>9. SendUnique'
    BY <1>2, <1>3, <1>5 DEF SendUnique
  <1>10. SendRequests'
    <2>1. InFlight(t)' /\ \A u \in Msgs : u # t => (InFlight(u)' <=> InFlight(u))
      BY <1>2, <1>3, <1>5 DEF InFlight
    <2>2. \A u \in Msgs : sStep'[u].st = "posted" =>
             /\ sReqs'[sStep'[u].req].type = "SEND"
             /\ sReqs'[sStep'[u].req].events = IF InFlight(u)' THEN 1 ELSE 0
      BY <1>2, <1>4, <1>6, <1>7, <2>1 DEF SendRequests, SendStep
    <2>3. \A u, v \in Msgs :
             /\ sStep'[u].st = "posted" /\ sStep'[v].st = "posted"
             /\ sStep'[u].req = sStep'[v].req
             => u = v
      BY <1>2, <1>6, <1>7 DEF SendRequests
    <2>4. \A x \in ReqIds : sReqs'[x].type = "SEND" =>
             \E u \in Msgs : sStep'[u].st = "posted" /\ sStep'[u].req = x
      BY <1>2, <1>6, <1>7 DEF SendRequests
    <2> QED
      BY <2>2, <2>3, <2>4 DEF SendRequests
  <1> QED
    BY <1>8, <1>9, <1>10 DEF SendInv

LEMMA SendTestPollSendInv ==
    ASSUME TypeOK, SendInv, NEW r \in ReqIds, SendTestPoll(r)
    PROVE  SendInv' /\ sRes' = "ok"
  <1>1. /\ sRes = "ok" /\ SendOwnership /\ SendUnique /\ SendRequests
        /\ UNCHANGED <<sStep, dataWqes, ackWqes>>
    BY DEF SendTestPoll, SendInv, wire
  <1>2. PICK c \in sCq :
          /\ sCq' = sCq \ {c}
          /\ IF sReqs[c.wr_id].type = "SEND" /\ sReqs[c.wr_id].events <= 0
             THEN sRes' = "error" /\ UNCHANGED sReqs
             ELSE /\ sReqs' = [sReqs EXCEPT ![c.wr_id].events = @ - 1]
                  /\ UNCHANGED sRes
    BY DEF SendTestPoll
  <1>3. /\ sStep \in [Msgs -> SendStep] /\ sReqs \in [ReqIds -> SendReq]
        /\ \A v \in dataWqes \cup ackWqes \cup sCq :
              v.msg \in Msgs /\ v.wr_id \in ReqIds
    BY DEF TypeOK, SendTypeOK, SendQueuesTypeOK, WireTypeOK, CqTypeOK, DataWqe,
           SendCqe
  <1>4. sStep[c.msg].st = "posted" /\ sStep[c.msg].req = c.wr_id
    BY <1>1 DEF SendOwnership, SendOwned
  <1>5. sReqs[c.wr_id].type = "SEND" /\ sReqs[c.wr_id].events = 1
    BY <1>1, <1>3, <1>4 DEF SendRequests, InFlight
  <1>6. /\ sRes' = "ok"
        /\ sReqs'[c.wr_id].type = "SEND" /\ sReqs'[c.wr_id].events = 0
        /\ \A x \in ReqIds : x # c.wr_id => sReqs'[x] = sReqs[x]
    BY <1>1, <1>2, <1>3, <1>5 DEF SendReq
  <1>7. ~InFlight(c.msg)'
    BY <1>1, <1>2 DEF InFlight, SendUnique
  <1>8. \A u \in Msgs : u # c.msg => (InFlight(u)' <=> InFlight(u))
    BY <1>1, <1>2 DEF InFlight
  <1>9. SendOwnership' /\ SendUnique'
    BY <1>1, <1>2 DEF SendOwnership, SendOwned, SendUnique
  <1>10. SendRequests'
    <2>1. \A u \in Msgs : sStep'[u].st = "posted" =>
             /\ sReqs'[sStep'[u].req].type = "SEND"
             /\ sReqs'[sStep'[u].req].events = IF InFlight(u)' THEN 1 ELSE 0
      <3> SUFFICES ASSUME NEW u \in Msgs, sStep[u].st = "posted"
                   PROVE  /\ sReqs'[sStep[u].req].type = "SEND"
                          /\ sReqs'[sStep[u].req].events
                               = IF InFlight(u)' THEN 1 ELSE 0
        BY <1>1
      <3>1. CASE u = c.msg
        BY <3>1, <1>4, <1>6, <1>7
      <3>2. CASE u # c.msg
        <4>1. sStep[u].req # c.wr_id /\ sStep[u].req \in ReqIds
          BY <3>2, <1>1, <1>3, <1>4 DEF SendRequests, SendStep
        <4> QED
          BY <3>2, <4>1, <1>1, <1>6, <1>8 DEF SendRequests
      <3> QED
        BY <3>1, <3>2
    <2>2. \A x \in ReqIds : sReqs'[x].type = "SEND" =>
             \E u \in Msgs : sStep'[u].st = "posted" /\ sStep'[u].req = x
      BY <1>1, <1>5, <1>6 DEF SendRequests
    <2> QED
      BY <1>1, <2>1, <2>2 DEF SendRequests
  <1> QED
    BY <1>6, <1>9, <1>10 DEF SendInv

LEMMA SendTestDoneSendInv ==
    ASSUME TypeOK, SendInv, NEW t \in Msgs, SendTestDone(t)
    PROVE  SendInv'
  <1>1. /\ sRes = "ok" /\ SendOwnership /\ SendUnique /\ SendRequests
        /\ UNCHANGED <<sRes, dataWqes, ackWqes, sCq>>
    BY DEF SendTestDone, SendInv, wire, sQueues
  <1>2. /\ sStep \in [Msgs -> SendStep] /\ sReqs \in [ReqIds -> SendReq]
        /\ \A v \in dataWqes \cup ackWqes \cup sCq :
              v.msg \in Msgs /\ v.wr_id \in ReqIds
    BY DEF TypeOK, SendTypeOK, SendQueuesTypeOK, WireTypeOK, CqTypeOK, DataWqe,
           SendCqe
  <1> DEFINE r == sStep[t].req
  <1>3. r \in ReqIds /\ sStep[t].st = "posted" /\ sReqs[r].events = 0
    BY <1>2 DEF SendTestDone, TestDone, SendStep
  <1>4. ~InFlight(t)
    BY <1>1, <1>3 DEF SendRequests
  <1>5. /\ sStep'[t].st = "done"
        /\ \A u \in Msgs : u # t => sStep'[u] = sStep[u]
        /\ sReqs'[r].type = "UNUSED"
        /\ \A x \in ReqIds : x # r => sReqs'[x] = sReqs[x]
    BY <1>2, <1>3 DEF SendTestDone, FreeRequest, SendReq, SendStep
  <1>6. SendOwnership'
    BY <1>1, <1>2, <1>4, <1>5 DEF SendOwnership, SendOwned, InFlight
  <1>7. SendUnique'
    BY <1>1 DEF SendUnique
  <1>8. SendRequests'
    <2>1. \A u \in Msgs : InFlight(u)' <=> InFlight(u)
      BY <1>1 DEF InFlight
    <2>2. \A u \in Msgs : sStep'[u].st = "posted" =>
             u # t /\ sStep[u].req # r /\ sStep[u].req \in ReqIds
      BY <1>1, <1>2, <1>3, <1>5 DEF SendRequests, SendStep
    <2> QED
      BY <1>1, <1>3, <1>5, <2>1, <2>2 DEF SendRequests
  <1> QED
    BY <1>6, <1>7, <1>8 DEF SendInv

LEMMA DeliverSendInv ==
    ASSUME TypeOK, SendInv, NEW q \in Qps, Deliver(q)
    PROVE  SendInv'
  <1>1. PICK d \in dataWqes : /\ dataWqes' = dataWqes \ {d}
                              /\ ackWqes' = ackWqes \cup {d}
    BY DEF Deliver
  <1>2. UNCHANGED <<sReqs, sRes, sStep, sCq>>
    BY DEF Deliver, sVars
  <1>3. dataWqes' \cup ackWqes' = dataWqes \cup ackWqes
    BY <1>1
  <1>4. SendUnique => SendUnique'
    BY <1>1, <1>2, <1>3 DEF SendUnique
  <1>5. SendOwnership => SendOwnership'
    BY <1>2, <1>3 DEF SendOwnership, SendOwned
  <1>6. SendRequests => SendRequests'
    BY <1>2, <1>3 DEF SendRequests, InFlight
  <1> QED
    BY <1>2, <1>4, <1>5, <1>6 DEF SendInv

LEMMA AckSendInv ==
    ASSUME TypeOK, SendInv, NEW q \in Qps, Ack(q)
    PROVE  SendInv'
  <1>1. PICK d \in ackWqes :
          /\ ackWqes' = ackWqes \ {d}
          /\ sCq' = sCq \cup {[msg |-> d.msg, qp |-> q, wr_id |-> d.wr_id]}
    BY DEF Ack
  <1>2. UNCHANGED <<sReqs, sRes, sStep, dataWqes>>
    BY DEF Ack, sVars, sQueues
  <1> SUFFICES ASSUME sRes = "ok", SendOwnership, SendUnique, SendRequests
               PROVE  SendOwnership' /\ SendUnique' /\ SendRequests'
    BY <1>2 DEF SendInv
  <1>3. PICK c : c.msg = d.msg /\ c.wr_id = d.wr_id /\ sCq' = sCq \cup {c}
    BY <1>1
  <1>4. SendOwnership'
    BY <1>1, <1>2, <1>3 DEF SendOwnership, SendOwned
  <1>5. SendUnique'
    BY <1>1, <1>2, <1>3 DEF SendUnique
  <1>6. \A u \in Msgs : InFlight(u)' <=> InFlight(u)
    BY <1>1, <1>2, <1>3 DEF InFlight
  <1>7. SendRequests'
    BY <1>2, <1>6 DEF SendRequests
  <1> QED
    BY <1>4, <1>5, <1>7

LEMMA NextSendInv == TypeOK /\ SendInv /\ [Next]_vars => SendInv'
  <1> SUFFICES ASSUME TypeOK, SendInv, [Next]_vars PROVE SendInv'
    OBVIOUS
  <1>1. CASE Send
    BY <1>1, IsendSendInv, SendTestDoneSendInv, SendTestPollSendInv DEF Send
  <1>2. CASE Recv
    <2>1. UNCHANGED <<sReqs, sRes, sStep, dataWqes, ackWqes, sCq>>
      BY <1>2 DEF Recv, IrecvDefault, IrecvPostCTS, Flush, RecvTestDone, Consume,
                  RecvTestPoll, sVars, sQueues, wire
    <2> QED
      BY <2>1, SendInvFrame
  <1>3. CASE Nic
    <2>1. ASSUME NEW q \in Qps, CtsArrive(q) PROVE SendInv'
      BY <2>1, SendInvFrame DEF CtsArrive, sVars, sQueues
    <2>2. ASSUME FlushRead PROVE SendInv'
      BY <2>2, SendInvFrame DEF FlushRead, sVars, sQueues, wire
    <2> QED
      BY <1>3, <2>1, <2>2, DeliverSendInv, AckSendInv DEF Nic
  <1>4. CASE Fault
    <2>1. ASSUME NEW t \in Msgs, PostSendFails(t) PROVE SendInv'
      BY <2>1 DEF PostSendFails, SendInv
    <2>2. ASSUME NEW r \in ReqIds, SendTestError(r) PROVE SendInv'
      BY <2>2 DEF SendTestError, SendInv
    <2>3. ASSUME NEW t \in Msgs, \/ PostRecvFails(t) \/ PostFifoFails(t)
                                 \/ PostFlushFails(t)
          PROVE  SendInv'
      BY <2>3, SendInvFrame
      DEF PostRecvFails, PostFifoFails, PostFlushFails, sVars, sQueues, wire
    <2>4. ASSUME NEW q \in Qps, QpBreaks(q) PROVE SendInv'
      BY <2>4, SendInvFrame DEF QpBreaks, sVars, sQueues, wire
    <2>5. ASSUME NEW r \in ReqIds, RecvTestError(r) PROVE SendInv'
      BY <2>5, SendInvFrame DEF RecvTestError, sVars, sQueues, wire
    <2> QED
      BY <1>4, <2>1, <2>2, <2>3, <2>4, <2>5 DEF Fault
  <1>5. CASE UNCHANGED vars
    BY <1>5, SendInvFrame DEF vars, sVars, sQueues, wire
  <1> QED
    BY <1>1, <1>2, <1>3, <1>4, <1>5 DEF Next, Finished

\* The ownership invariant gives the counts.
LEMMA SendInvCounts == TypeOK /\ SendInv => SendEventsExact
  <1> SUFFICES ASSUME TypeOK, SendInv, sRes = "ok", NEW r \in ReqIds
               PROVE  Cardinality(WithId(dataWqes \cup ackWqes, r))
                        + Cardinality(WithId(sCq, r))
                      = IF sReqs[r].type = "UNUSED" THEN 0 ELSE sReqs[r].events
    BY DEF SendEventsExact
  <1> DEFINE U == WithId(dataWqes \cup ackWqes, r)
             C == WithId(sCq, r)
  <1>1. SendOwnership /\ SendUnique /\ SendRequests
    BY DEF SendInv
  <1>2. /\ sReqs[r].type \in {"UNUSED", "SEND"}
        /\ \A v \in dataWqes \cup ackWqes \cup sCq : v.msg \in Msgs
    BY DEF TypeOK, SendTypeOK, SendReq, SendQueuesTypeOK, WireTypeOK, CqTypeOK,
           DataWqe, SendCqe
  <1>3. \A v \in U \cup C : /\ v.msg \in Msgs
                            /\ sStep[v.msg].st = "posted"
                            /\ sStep[v.msg].req = r
    BY <1>1, <1>2 DEF WithId, SendOwnership, SendOwned
  <1>4. CASE sReqs[r].type = "UNUSED"
    <2>1. U = {} /\ C = {}
      BY <1>1, <1>3, <1>4 DEF SendRequests
    <2>2. Cardinality(U) = 0 /\ Cardinality(C) = 0
      BY <2>1, FS_EmptySet
    <2> QED
      BY <2>2, <1>4
  <1>5. CASE sReqs[r].type = "SEND"
    <2>1. PICK t \in Msgs : sStep[t].st = "posted" /\ sStep[t].req = r
      BY <1>1, <1>5 DEF SendRequests
    <2>2. \A v \in U \cup C : v.msg = t
      BY <1>1, <1>3, <2>1 DEF SendRequests
    <2>3. CASE ~InFlight(t)
      <3>1. U = {} /\ C = {}
        BY <2>2, <2>3 DEF InFlight, WithId
      <3>2. sReqs[r].events = 0
        BY <1>1, <2>1, <2>3 DEF SendRequests
      <3>3. Cardinality(U) = 0 /\ Cardinality(C) = 0
        BY <3>1, FS_EmptySet
      <3> QED
        BY <3>2, <3>3, <1>5
    <2>4. CASE \E w \in dataWqes \cup ackWqes : w.msg = t
      <3>1. PICK w \in dataWqes \cup ackWqes : w.msg = t
        BY <2>4
      <3>2. w \in U
        BY <1>1, <2>1, <3>1 DEF WithId, SendOwnership, SendOwned
      <3>3. U = {w} /\ C = {}
        BY <1>1, <2>2, <3>1, <3>2 DEF WithId, SendUnique
      <3>4. sReqs[r].events = 1
        BY <1>1, <2>1, <2>4 DEF SendRequests, InFlight
      <3>5. Cardinality(U) = 1 /\ Cardinality(C) = 0
        BY <3>3, FS_EmptySet, FS_Singleton
      <3> QED
        BY <3>4, <3>5, <1>5
    <2>5. CASE \E c \in sCq : c.msg = t
      <3>1. PICK c \in sCq : c.msg = t
        BY <2>5
      <3>2. c \in C
        BY <1>1, <2>1, <3>1 DEF WithId, SendOwnership, SendOwned
      <3>3. C = {c} /\ U = {}
        BY <1>1, <2>2, <3>1, <3>2 DEF WithId, SendUnique
      <3>4. sReqs[r].events = 1
        BY <1>1, <2>1, <2>5 DEF SendRequests, InFlight
      <3>5. Cardinality(U) = 0 /\ Cardinality(C) = 1
        BY <3>3, FS_EmptySet, FS_Singleton
      <3> QED
        BY <3>4, <3>5, <1>5
    <2> QED
      BY <2>3, <2>4, <2>5 DEF InFlight
  <1> QED
    BY <1>2, <1>4, <1>5

\* The events of every send request are exactly what is in flight for it, for
\* any number of requests, QPs and messages, whatever fails.
THEOREM SendEventsCorrect == Spec => []SendEventsExact
  <1>1. Init => TypeOK /\ SendInv
    BY InitTypeOK, InitSendInv
  <1>2. TypeOK /\ SendInv /\ [Next]_vars => (TypeOK /\ SendInv)'
    BY NextTypeOK, NextSendInv
  <1>3. TypeOK /\ SendInv => SendEventsExact
    BY SendInvCounts
  <1> QED
    BY <1>1, <1>2, <1>3, PTL DEF Spec

-----------------------------------------------------------------------------
(***************************************************************************)
(* The events of the receive side, and the absence of internal errors, for *)
(* every value of the constants.  A receive request may wait for two       *)
(* things at once, its receive WQE and its signalled CTS, and flushes take *)
(* requests from the same pool.                                            *)
(***************************************************************************)

LEMMA InitRecvInv == Init => RecvInv
  <1> SUFFICES ASSUME Init PROVE RecvOwnership /\ RecvUnique /\ RecvRequests
    BY DEF RecvInv
  <1>1. RecvOwnership /\ RecvUnique
    BY DEF Init, RecvOwnership, RecvUnique, OncePerMsg, Signalled, Cqes
  <1>2. RecvRequests
    BY DEF Init, RecvRequests, RecvOpen
  <1> QED
    BY <1>1, <1>2

\* What does not touch the receiver's requests, steps, WQEs and completions.
LEMMA RecvInvFrame ==
    ASSUME RecvInv,
           UNCHANGED <<rReqs, rRes, rStep, recvWqes, ctsWqes, flushWqes, rCq>>
    PROVE  RecvInv'
  BY DEF RecvInv, RecvOwnership, RecvOwned, RecvUnique, OncePerMsg,
         RecvRequests, RecvOpen, HasRecv, HasCts, HasFlush, HasMsg, Signalled,
         Cqes, Count

\* The shapes the proofs below need of the receive side.
LEMMA RecvShapes ==
    ASSUME TypeOK
    PROVE  /\ rStep \in [Msgs -> RecvStep]
           /\ rReqs \in [ReqIds -> RecvReq]
           /\ \A w \in recvWqes \cup ctsWqes \cup flushWqes \cup rCq :
                 w.msg \in Msgs /\ w.wr_id \in ReqIds
           /\ \A c \in rCq : c.opcode \in {"RECV_RDMA_WITH_IMM", "RDMA_WRITE",
                                           "RDMA_READ"}
  BY DEF TypeOK, RecvTypeOK, RecvQueuesTypeOK, CqTypeOK, RecvWqe, CtsWqe,
         FlushWqe, RecvCqe

\* Both forms of irecv: the step t takes the unused request r, posts a CTS and,
\* when e = 1, a receive WQE.
LEMMA IrecvRecvInv ==
    ASSUME TypeOK, RecvOwnership, RecvUnique, RecvRequests,
           NEW t \in Msgs, NEW r \in ReqIds, NEW e \in {0, 1}, NEW w, NEW x,
           rStep[t].st = "idle", rReqs[r].type = "UNUSED",
           rReqs' = [rReqs EXCEPT ![r] = RecvRequest(e)],
           rStep' = [rStep EXCEPT ![t] =
                        [st |-> "posted", req |-> r, size |-> 0]],
           w.msg = t, w.wr_id = r,
           recvWqes' = IF e = 1 THEN recvWqes \cup {w} ELSE recvWqes,
           x.msg = t, x.wr_id = r, x.flags = CtsFlags,
           ctsWqes' = ctsWqes \cup {x},
           UNCHANGED <<flushWqes, rCq>>
    PROVE  RecvOwnership' /\ RecvUnique' /\ RecvRequests'
  <1>1. \A op : Cqes(op)' = Cqes(op)
    BY DEF Cqes
  <1>2. Signalled' = IF CtsFlags = "SIGNALED" THEN Signalled \cup {x}
                                              ELSE Signalled
    BY DEF Signalled
  <1>3. \A v \in recvWqes \cup Signalled \cup flushWqes \cup rCq :
           v.msg \in Msgs /\ v.wr_id \in ReqIds /\ v.msg # t
    BY RecvShapes DEF RecvOwnership, RecvOwned, Signalled
  <1>4. \A u \in Msgs : RecvOpen(u) => u # t /\ rStep[u].req # r
    <2> SUFFICES ASSUME NEW u \in Msgs, RecvOpen(u)
                 PROVE  u # t /\ rStep[u].req # r
      OBVIOUS
    <2>1. rReqs[rStep[u].req].type # "UNUSED"
      BY DEF RecvRequests, RecvOpen
    <2> QED
      BY <2>1 DEF RecvOpen
  <1>5. /\ rStep'[t].st = "posted" /\ rStep'[t].req = r
        /\ \A u \in Msgs : u # t => rStep'[u] = rStep[u]
    BY RecvShapes
  <1>6. /\ rReqs'[r].type = "RECV"
        /\ rReqs'[r].events = e + Count(CtsFlags = "SIGNALED")
        /\ \A y \in ReqIds : y # r => rReqs'[y] = rReqs[y]
    BY RecvShapes DEF RecvRequest, Count
  <1>7. RecvOwnership'
    <2>1. \A v \in recvWqes' \cup Signalled' : RecvOwned(v, "posted")'
      BY <1>2, <1>3, <1>5 DEF RecvOwnership, RecvOwned
    <2>2. \A v \in flushWqes : RecvOwned(v, "flushing")'
      BY <1>3, <1>5 DEF RecvOwnership, RecvOwned
    <2>3. \A c \in rCq :
             RecvOwned(c, IF c.opcode = "RDMA_READ" THEN "flushing"
                                                    ELSE "posted")'
      BY <1>3, <1>5 DEF RecvOwnership, RecvOwned
    <2> QED
      BY <2>1, <2>2, <2>3 DEF RecvOwnership
  <1>8. \A op : \A c \in Cqes(op) : c \in rCq
    BY DEF Cqes
  <1>9. RecvUnique'
    <2>1. OncePerMsg(recvWqes, Cqes("RECV_RDMA_WITH_IMM"))'
      BY <1>1, <1>3, <1>8 DEF RecvUnique, OncePerMsg
    <2>2. OncePerMsg(Signalled, Cqes("RDMA_WRITE"))'
      BY <1>1, <1>2, <1>3, <1>8 DEF RecvUnique, OncePerMsg
    <2>3. OncePerMsg(flushWqes, Cqes("RDMA_READ"))'
      BY <1>1 DEF RecvUnique, OncePerMsg
    <2> QED
      BY <2>1, <2>2, <2>3 DEF RecvUnique
  <1>10. RecvRequests'
    <2>1. /\ HasRecv(t)' <=> e = 1
          /\ HasCts(t)' <=> CtsFlags = "SIGNALED"
      BY <1>1, <1>2, <1>3, <1>8 DEF HasRecv, HasCts, HasMsg
    <2>2. \A u \in Msgs : u # t => /\ HasRecv(u)' <=> HasRecv(u)
                                   /\ HasCts(u)' <=> HasCts(u)
                                   /\ HasFlush(u)' <=> HasFlush(u)
      BY <1>1, <1>2 DEF HasRecv, HasCts, HasFlush, HasMsg
    <2>3. \A u \in Msgs : rStep'[u].st = "posted" =>
             /\ rReqs'[rStep'[u].req].type = "RECV"
             /\ rReqs'[rStep'[u].req].events
                  = Count(HasRecv(u)') + Count(HasCts(u)')
      <3> SUFFICES ASSUME NEW u \in Msgs, rStep'[u].st = "posted"
                   PROVE  /\ rReqs'[rStep'[u].req].type = "RECV"
                          /\ rReqs'[rStep'[u].req].events
                               = Count(HasRecv(u)') + Count(HasCts(u)')
        OBVIOUS
      <3>1. CASE u = t
        BY <3>1, <1>5, <1>6, <2>1 DEF Count
      <3>2. CASE u # t
        <4>1. /\ rStep[u].st = "posted" /\ rStep'[u].req = rStep[u].req
              /\ rStep[u].req \in ReqIds /\ rStep[u].req # r
          BY <3>2, <1>4, <1>5, RecvShapes DEF RecvOpen, RecvStep
        <4> QED
          BY <3>2, <4>1, <1>6, <2>2 DEF RecvRequests, Count
      <3> QED
        BY <3>1, <3>2
    <2>4. \A u \in Msgs : rStep'[u].st = "flushing" =>
             /\ rReqs'[rStep'[u].req].type = "FLUSH"
             /\ rReqs'[rStep'[u].req].events = Count(HasFlush(u)')
      <3> SUFFICES ASSUME NEW u \in Msgs, rStep'[u].st = "flushing"
                   PROVE  /\ rReqs'[rStep'[u].req].type = "FLUSH"
                          /\ rReqs'[rStep'[u].req].events = Count(HasFlush(u)')
        OBVIOUS
      <3>1. /\ u # t /\ rStep[u].st = "flushing"
            /\ rStep'[u].req = rStep[u].req
            /\ rStep[u].req \in ReqIds /\ rStep[u].req # r
        BY <1>4, <1>5, RecvShapes DEF RecvOpen, RecvStep
      <3> QED
        BY <3>1, <1>6, <2>2 DEF RecvRequests, Count
    <2>5. \A u, v \in Msgs :
             /\ RecvOpen(u)' /\ RecvOpen(v)' /\ rStep'[u].req = rStep'[v].req
             => u = v
      BY <1>4, <1>5 DEF RecvRequests, RecvOpen
    <2>6. \A y \in ReqIds : rReqs'[y].type # "UNUSED" =>
             \E u \in Msgs : RecvOpen(u)' /\ rStep'[u].req = y
      BY <1>4, <1>5, <1>6 DEF RecvRequests, RecvOpen
    <2> QED
      BY <2>3, <2>4, <2>5, <2>6 DEF RecvRequests
  <1> QED
    BY <1>7, <1>9, <1>10

LEMMA IrecvDefaultRecvInv ==
    ASSUME TypeOK, RecvInv, NEW t \in Msgs, IrecvDefault(t)
    PROVE  RecvInv'
  <1>1. PICK r \in ReqIds :
          /\ GetRequest(rReqs, r)
          /\ rReqs' = [rReqs EXCEPT ![r] = RecvRequest(1)]
          /\ recvWqes' = recvWqes \cup
                            {[msg |-> t, qp |-> rQpIndex, wr_id |-> r]}
          /\ PostFifo(t, r)
          /\ rStep' = [rStep EXCEPT ![t] =
                          [st |-> "posted", req |-> r, size |-> 0]]
    BY DEF IrecvDefault
  <1>2. /\ rRes = "ok" /\ rStep[t].st = "idle" /\ rReqs[r].type = "UNUSED"
        /\ RecvOwnership /\ RecvUnique /\ RecvRequests
        /\ UNCHANGED <<flushWqes, rCq>>
    BY <1>1 DEF IrecvDefault, RecvMayPost, MayPost, GetRequest, RecvInv
  <1>3. PICK w : w.msg = t /\ w.wr_id = r /\ recvWqes' = recvWqes \cup {w}
    BY <1>1
  <1>4. PICK x : /\ x.msg = t /\ x.wr_id = r /\ x.flags = CtsFlags
                 /\ ctsWqes' = ctsWqes \cup {x}
    BY <1>1 DEF PostFifo
  <1>5. RecvOwnership' /\ RecvUnique' /\ RecvRequests'
    <2>1. recvWqes' = IF 1 = 1 THEN recvWqes \cup {w} ELSE recvWqes
      BY <1>3
    <2> QED
      BY <1>1, <1>2, <1>3, <1>4, <2>1, IrecvRecvInv
  <1> QED
    BY <1>5 DEF RecvInv

LEMMA IrecvPostCTSRecvInv ==
    ASSUME TypeOK, RecvInv, NEW t \in Msgs, IrecvPostCTS(t)
    PROVE  RecvInv'
  <1>1. PICK r \in ReqIds :
          /\ GetRequest(rReqs, r)
          /\ rReqs' = [rReqs EXCEPT ![r] = RecvRequest(0)]
          /\ PostFifo(t, r)
          /\ rStep' = [rStep EXCEPT ![t] =
                          [st |-> "posted", req |-> r, size |-> 0]]
    BY DEF IrecvPostCTS
  <1>2. /\ rRes = "ok" /\ rStep[t].st = "idle" /\ rReqs[r].type = "UNUSED"
        /\ RecvOwnership /\ RecvUnique /\ RecvRequests
        /\ UNCHANGED <<recvWqes, flushWqes, rCq>>
    BY <1>1 DEF IrecvPostCTS, RecvMayPost, MayPost, GetRequest, RecvInv
  <1>3. PICK x : /\ x.msg = t /\ x.wr_id = r /\ x.flags = CtsFlags
                 /\ ctsWqes' = ctsWqes \cup {x}
    BY <1>1 DEF PostFifo
  <1>4. RecvOwnership' /\ RecvUnique' /\ RecvRequests'
    <2>1. recvWqes' = IF 0 = 1 THEN recvWqes \cup {x} ELSE recvWqes
      BY <1>2
    <2> QED
      BY <1>1, <1>2, <1>3, <2>1, IrecvRecvInv
  <1> QED
    BY <1>4 DEF RecvInv

\* The freed request keeps a stale event, which nobody reads: it is unused.
LEMMA PostRecvFailsRecvInv ==
    ASSUME TypeOK, RecvInv, NEW t \in Msgs, PostRecvFails(t)
    PROVE  RecvInv'
  <1>1. PICK r \in ReqIds : /\ rReqs[r].type = "UNUSED"
                            /\ rReqs' = [rReqs EXCEPT ![r].events = 1]
    BY DEF PostRecvFails, GetRequest
  <1>2. UNCHANGED <<rRes, rStep, recvWqes, ctsWqes, flushWqes, rCq>>
    BY DEF PostRecvFails, rQueues
  <1> SUFFICES ASSUME RecvOwnership, RecvUnique, RecvRequests
               PROVE  RecvOwnership' /\ RecvUnique' /\ RecvRequests'
    BY <1>2 DEF RecvInv
  <1>3. RecvOwnership' /\ RecvUnique'
    BY <1>2 DEF RecvOwnership, RecvOwned, RecvUnique, OncePerMsg, Signalled,
                Cqes
  <1>4. /\ \A y \in ReqIds : rReqs'[y].type = rReqs[y].type
        /\ \A y \in ReqIds : rReqs[y].type # "UNUSED" => rReqs'[y] = rReqs[y]
    BY <1>1, RecvShapes DEF RecvReq
  <1>5. \A u \in Msgs : /\ HasRecv(u)' <=> HasRecv(u)
                        /\ HasCts(u)' <=> HasCts(u)
                        /\ HasFlush(u)' <=> HasFlush(u)
                        /\ RecvOpen(u)' <=> RecvOpen(u)
                        /\ rStep[u].req \in ReqIds
    BY <1>2, RecvShapes
    DEF HasRecv, HasCts, HasFlush, HasMsg, Signalled, Cqes, RecvOpen, RecvStep
  <1>6. RecvRequests'
    BY <1>2, <1>4, <1>5 DEF RecvRequests, Count
  <1> QED
    BY <1>3, <1>6

LEMMA FlushRecvInv ==
    ASSUME TypeOK, RecvInv, NEW t \in Msgs, Flush(t)
    PROVE  RecvInv'
  <1>1. PICK r \in ReqIds :
          /\ GetRequest(rReqs, r)
          /\ rReqs' = [rReqs EXCEPT ![r] = FlushRequest(@, 1)]
          /\ flushWqes' = flushWqes \cup {[msg |-> t, wr_id |-> r]}
          /\ rStep' = [rStep EXCEPT ![t] =
                          [@ EXCEPT !.st = "flushing", !.req = r]]
    BY DEF Flush
  <1>2. /\ rRes = "ok" /\ rStep[t].st = "rcvd" /\ rReqs[r].type = "UNUSED"
        /\ RecvOwnership /\ RecvUnique /\ RecvRequests
        /\ UNCHANGED <<recvWqes, ctsWqes, rCq>>
    BY <1>1 DEF Flush, GetRequest, RecvInv
  <1>3. PICK w : w.msg = t /\ w.wr_id = r /\ flushWqes' = flushWqes \cup {w}
    BY <1>1
  <1>4. /\ rStep'[t].st = "flushing" /\ rStep'[t].req = r
        /\ \A u \in Msgs : u # t => rStep'[u] = rStep[u]
    BY <1>1, RecvShapes DEF RecvStep
  <1>5. /\ rReqs'[r].type = "FLUSH" /\ rReqs'[r].events = 1
        /\ \A y \in ReqIds : y # r => rReqs'[y] = rReqs[y]
    BY <1>1, RecvShapes DEF FlushRequest
  <1>6. \A v \in recvWqes \cup Signalled \cup flushWqes \cup rCq :
           v.msg \in Msgs /\ v.wr_id \in ReqIds /\ v.msg # t
    BY <1>2, RecvShapes DEF RecvOwnership, RecvOwned, Signalled
  <1>7. \A u \in Msgs : RecvOpen(u) => u # t /\ rStep[u].req # r
    BY <1>2 DEF RecvRequests, RecvOpen
  <1>8. Signalled' = Signalled /\ \A op : Cqes(op)' = Cqes(op)
    BY <1>2 DEF Signalled, Cqes
  <1>9. \A op : \A c \in Cqes(op) : c \in rCq
    BY DEF Cqes
  <1>10. RecvOwnership'
    BY <1>2, <1>3, <1>4, <1>6, <1>8 DEF RecvOwnership, RecvOwned
  <1>11. RecvUnique'
    <2>1. OncePerMsg(flushWqes, Cqes("RDMA_READ"))'
      BY <1>2, <1>3, <1>6, <1>8, <1>9 DEF RecvUnique, OncePerMsg
    <2>2. /\ OncePerMsg(recvWqes, Cqes("RECV_RDMA_WITH_IMM"))'
          /\ OncePerMsg(Signalled, Cqes("RDMA_WRITE"))'
      BY <1>2, <1>8 DEF RecvUnique, OncePerMsg
    <2> QED
      BY <2>1, <2>2 DEF RecvUnique
  <1>12. RecvRequests'
    <2>1. HasFlush(t)'
      BY <1>3 DEF HasFlush, HasMsg
    <2>2. \A u \in Msgs : u # t => /\ HasRecv(u)' <=> HasRecv(u)
                                   /\ HasCts(u)' <=> HasCts(u)
                                   /\ HasFlush(u)' <=> HasFlush(u)
      BY <1>2, <1>3, <1>8 DEF HasRecv, HasCts, HasFlush, HasMsg
    <2>3. \A u \in Msgs : rStep'[u].st \in {"posted", "flushing"} /\ u # t =>
             /\ rStep'[u] = rStep[u]
             /\ rStep[u].req \in ReqIds /\ rStep[u].req # r
      BY <1>4, <1>7, RecvShapes DEF RecvOpen, RecvStep
    <2>4. \A u \in Msgs : rStep'[u].st = "posted" =>
             /\ rReqs'[rStep'[u].req].type = "RECV"
             /\ rReqs'[rStep'[u].req].events
                  = Count(HasRecv(u)') + Count(HasCts(u)')
      BY <1>2, <1>4, <1>5, <2>2, <2>3 DEF RecvRequests, Count
    <2>5. \A u \in Msgs : rStep'[u].st = "flushing" =>
             /\ rReqs'[rStep'[u].req].type = "FLUSH"
             /\ rReqs'[rStep'[u].req].events = Count(HasFlush(u)')
      BY <1>2, <1>4, <1>5, <2>1, <2>2, <2>3 DEF RecvRequests, Count
    <2>6. \A u, v \in Msgs :
             /\ RecvOpen(u)' /\ RecvOpen(v)' /\ rStep'[u].req = rStep'[v].req
             => u = v
      BY <1>2, <1>4, <1>7 DEF RecvRequests, RecvOpen
    <2>7. \A y \in ReqIds : rReqs'[y].type # "UNUSED" =>
             \E u \in Msgs : RecvOpen(u)' /\ rStep'[u].req = y
      BY <1>2, <1>4, <1>5, <1>7 DEF RecvRequests, RecvOpen
    <2> QED
      BY <2>4, <2>5, <2>6, <2>7 DEF RecvRequests
  <1> QED
    BY <1>10, <1>11, <1>12 DEF RecvInv

\* A polled completion is one its request waits for: anpNetTest finds a receive
\* behind immediate data, and takes away exactly one event.
LEMMA RecvTestPollRecvInv ==
    ASSUME TypeOK, RecvInv, NEW r \in ReqIds, RecvTestPoll(r)
    PROVE  RecvInv' /\ rRes' = "ok"
  <1>1. /\ rRes = "ok" /\ RecvOwnership /\ RecvUnique /\ RecvRequests
        /\ UNCHANGED <<rStep, recvWqes, ctsWqes, flushWqes>>
    BY DEF RecvTestPoll, RecvInv
  <1>2. PICK c \in rCq :
          /\ rCq' = rCq \ {c}
          /\ IF c.opcode = "RECV_RDMA_WITH_IMM" /\ rReqs[c.wr_id].type # "RECV"
             THEN rRes' = "error" /\ UNCHANGED rReqs
             ELSE /\ rReqs' = [rReqs EXCEPT ![c.wr_id].events = @ - 1]
                  /\ UNCHANGED rRes
    BY DEF RecvTestPoll
  <1> DEFINE t == c.msg
             y == c.wr_id
  <1>3. t \in Msgs /\ y \in ReqIds
    BY RecvShapes
  <1>4. /\ c.opcode = "RDMA_READ" => rStep[t].st = "flushing"
        /\ c.opcode # "RDMA_READ" => rStep[t].st = "posted"
        /\ rStep[t].req = y
        /\ RecvOpen(t)
    BY <1>1 DEF RecvOwnership, RecvOwned, RecvOpen
  <1>5. c.opcode = "RECV_RDMA_WITH_IMM" => rReqs[y].type = "RECV"
    BY <1>1, <1>3, <1>4 DEF RecvRequests
  <1>6. /\ rRes' = "ok"
        /\ rReqs' = [rReqs EXCEPT ![y].events = @ - 1]
    BY <1>1, <1>2, <1>5
  <1>7. /\ rReqs'[y].type = rReqs[y].type
        /\ rReqs'[y].events = rReqs[y].events - 1
        /\ \A x \in ReqIds : x # y => rReqs'[x] = rReqs[x]
    BY <1>3, <1>6, RecvShapes DEF RecvReq
  <1>8. Signalled' = Signalled /\ \A op : Cqes(op)' = Cqes(op) \ {c}
    BY <1>1, <1>2 DEF Signalled, Cqes
  <1>9. RecvOwnership'
    BY <1>1, <1>2, <1>8 DEF RecvOwnership, RecvOwned
  <1>10. RecvUnique'
    BY <1>1, <1>8 DEF RecvUnique, OncePerMsg
  <1>11. \A u \in Msgs : u # t => /\ HasRecv(u)' <=> HasRecv(u)
                                  /\ HasCts(u)' <=> HasCts(u)
                                  /\ HasFlush(u)' <=> HasFlush(u)
    BY <1>1, <1>8 DEF HasRecv, HasCts, HasFlush, HasMsg
  <1>12. \A u \in Msgs : RecvOpen(u) /\ u # t =>
            rStep[u].req \in ReqIds /\ rStep[u].req # y
    BY <1>1, <1>3, <1>4, RecvShapes DEF RecvRequests, RecvStep
  <1>13. /\ rReqs'[y].type = IF c.opcode = "RDMA_READ" THEN "FLUSH" ELSE "RECV"
         /\ rReqs'[y].events = IF c.opcode = "RDMA_READ"
                               THEN Count(HasFlush(t)')
                               ELSE Count(HasRecv(t)') + Count(HasCts(t)')
    <2>1. CASE c.opcode = "RDMA_READ"
      <3>1. HasFlush(t) /\ ~HasFlush(t)'
        BY <1>1, <1>8, <2>1
        DEF HasFlush, HasMsg, RecvUnique, OncePerMsg, Cqes
      <3> QED
        BY <1>1, <1>3, <1>4, <1>7, <2>1, <3>1 DEF RecvRequests, Count
    <2>2. CASE c.opcode = "RDMA_WRITE"
      <3>1. HasCts(t) /\ ~HasCts(t)'
        BY <1>1, <1>8, <2>2 DEF HasCts, HasMsg, RecvUnique, OncePerMsg, Cqes
      <3>2. HasRecv(t)' <=> HasRecv(t)
        BY <1>1, <1>8, <2>2 DEF HasRecv, HasMsg, Cqes
      <3> QED
        BY <1>1, <1>3, <1>4, <1>7, <2>2, <3>1, <3>2 DEF RecvRequests, Count
    <2>3. CASE c.opcode = "RECV_RDMA_WITH_IMM"
      <3>1. HasRecv(t) /\ ~HasRecv(t)'
        BY <1>1, <1>8, <2>3 DEF HasRecv, HasMsg, RecvUnique, OncePerMsg, Cqes
      <3>2. HasCts(t)' <=> HasCts(t)
        BY <1>1, <1>8, <2>3 DEF HasCts, HasMsg, Cqes
      <3> QED
        BY <1>1, <1>3, <1>4, <1>7, <2>3, <3>1, <3>2 DEF RecvRequests, Count
    <2> QED
      BY <2>1, <2>2, <2>3, RecvShapes
  <1>14. RecvRequests'
    <2>1. \A u \in Msgs : rStep'[u].st = "posted" =>
             /\ rReqs'[rStep'[u].req].type = "RECV"
             /\ rReqs'[rStep'[u].req].events
                  = Count(HasRecv(u)') + Count(HasCts(u)')
      <3> SUFFICES ASSUME NEW u \in Msgs, rStep[u].st = "posted"
                   PROVE  /\ rReqs'[rStep[u].req].type = "RECV"
                          /\ rReqs'[rStep[u].req].events
                               = Count(HasRecv(u)') + Count(HasCts(u)')
        BY <1>1
      <3>1. CASE u = t
        BY <3>1, <1>4, <1>13
      <3>2. CASE u # t
        BY <3>2, <1>1, <1>7, <1>11, <1>12 DEF RecvRequests, RecvOpen, Count
      <3> QED
        BY <3>1, <3>2
    <2>2. \A u \in Msgs : rStep'[u].st = "flushing" =>
             /\ rReqs'[rStep'[u].req].type = "FLUSH"
             /\ rReqs'[rStep'[u].req].events = Count(HasFlush(u)')
      <3> SUFFICES ASSUME NEW u \in Msgs, rStep[u].st = "flushing"
                   PROVE  /\ rReqs'[rStep[u].req].type = "FLUSH"
                          /\ rReqs'[rStep[u].req].events = Count(HasFlush(u)')
        BY <1>1
      <3>1. CASE u = t
        BY <3>1, <1>4, <1>13
      <3>2. CASE u # t
        BY <3>2, <1>1, <1>7, <1>11, <1>12 DEF RecvRequests, RecvOpen, Count
      <3> QED
        BY <3>1, <3>2
    <2>3. \A x \in ReqIds : rReqs'[x].type # "UNUSED" =>
             \E u \in Msgs : RecvOpen(u)' /\ rStep'[u].req = x
      BY <1>1, <1>7 DEF RecvRequests, RecvOpen
    <2>4. \A u, v \in Msgs :
             /\ RecvOpen(u)' /\ RecvOpen(v)' /\ rStep'[u].req = rStep'[v].req
             => u = v
      BY <1>1 DEF RecvRequests, RecvOpen
    <2> QED
      BY <2>1, <2>2, <2>3, <2>4 DEF RecvRequests
  <1> QED
    BY <1>6, <1>9, <1>10, <1>14 DEF RecvInv

LEMMA RecvTestDoneRecvInv ==
    ASSUME TypeOK, RecvInv, NEW t \in Msgs, RecvTestDone(t)
    PROVE  RecvInv'
  <1>1. /\ rRes = "ok" /\ RecvOwnership /\ RecvUnique /\ RecvRequests
        /\ UNCHANGED <<rRes, recvWqes, ctsWqes, flushWqes, rCq>>
    BY DEF RecvTestDone, RecvInv, rQueues
  <1> DEFINE y == rStep[t].req
  <1>2. y \in ReqIds /\ RecvOpen(t) /\ rReqs[y].events = 0
    BY RecvShapes DEF RecvTestDone, TestDone, RecvOpen, RecvStep
  <1>3. /\ rStep[t].st = "posted" => ~HasRecv(t) /\ ~HasCts(t)
        /\ rStep[t].st = "flushing" => ~HasFlush(t)
    BY <1>1, <1>2 DEF RecvRequests, Count
  <1>4. /\ rStep'[t].st \in {"rcvd", "done"}
        /\ \A u \in Msgs : u # t => rStep'[u] = rStep[u]
    BY RecvShapes DEF RecvTestDone, RecvStep
  <1>5. /\ rReqs'[y].type = "UNUSED"
        /\ \A x \in ReqIds : x # y => rReqs'[x] = rReqs[x]
    BY <1>2, RecvShapes DEF RecvTestDone, FreeRequest, RecvReq
  <1>6. Signalled' = Signalled /\ \A op : Cqes(op)' = Cqes(op)
    BY <1>1 DEF Signalled, Cqes
  <1>7. \A v \in recvWqes \cup Signalled \cup flushWqes \cup rCq :
           v.msg \in Msgs /\ v.msg # t
    <2>1. \A v \in recvWqes \cup Signalled : v.msg # t
      BY <1>1, <1>3 DEF RecvOwnership, RecvOwned, HasRecv, HasCts, HasMsg
    <2>2. \A v \in flushWqes : v.msg # t
      BY <1>1, <1>3 DEF RecvOwnership, RecvOwned, HasFlush, HasMsg
    <2>3. \A c \in rCq : c.msg # t
      <3> SUFFICES ASSUME NEW c \in rCq, c.msg = t PROVE FALSE
        OBVIOUS
      <3>1. CASE c.opcode = "RDMA_READ"
        BY <3>1, <1>1, <1>3
        DEF RecvOwnership, RecvOwned, HasFlush, HasMsg, Cqes
      <3>2. CASE c.opcode \in {"RDMA_WRITE", "RECV_RDMA_WITH_IMM"}
        BY <3>2, <1>1, <1>3
        DEF RecvOwnership, RecvOwned, HasCts, HasRecv, HasMsg, Cqes
      <3> QED
        BY <3>1, <3>2, RecvShapes
    <2> QED
      BY <2>1, <2>2, <2>3, RecvShapes DEF Signalled
  <1>8. RecvOwnership'
    BY <1>1, <1>4, <1>6, <1>7 DEF RecvOwnership, RecvOwned
  <1>9. RecvUnique'
    BY <1>1, <1>6 DEF RecvUnique, OncePerMsg
  <1>10. RecvRequests'
    <2>1. \A u \in Msgs : /\ HasRecv(u)' <=> HasRecv(u)
                          /\ HasCts(u)' <=> HasCts(u)
                          /\ HasFlush(u)' <=> HasFlush(u)
      BY <1>1, <1>6 DEF HasRecv, HasCts, HasFlush, HasMsg
    <2>2. \A u \in Msgs : RecvOpen(u)' =>
             /\ u # t /\ rStep'[u] = rStep[u] /\ RecvOpen(u)
             /\ rStep[u].req \in ReqIds /\ rStep[u].req # y
      BY <1>1, <1>2, <1>4, RecvShapes DEF RecvRequests, RecvOpen, RecvStep
    <2>3. \A u \in Msgs : rStep'[u].st = "posted" =>
             /\ rReqs'[rStep'[u].req].type = "RECV"
             /\ rReqs'[rStep'[u].req].events
                  = Count(HasRecv(u)') + Count(HasCts(u)')
      BY <1>1, <1>5, <2>1, <2>2 DEF RecvRequests, RecvOpen, Count
    <2>4. \A u \in Msgs : rStep'[u].st = "flushing" =>
             /\ rReqs'[rStep'[u].req].type = "FLUSH"
             /\ rReqs'[rStep'[u].req].events = Count(HasFlush(u)')
      BY <1>1, <1>5, <2>1, <2>2 DEF RecvRequests, RecvOpen, Count
    <2>5. \A u, v \in Msgs :
             /\ RecvOpen(u)' /\ RecvOpen(v)' /\ rStep'[u].req = rStep'[v].req
             => u = v
      BY <1>1, <2>2 DEF RecvRequests
    <2>6. \A x \in ReqIds : rReqs'[x].type # "UNUSED" =>
             \E u \in Msgs : RecvOpen(u)' /\ rStep'[u].req = x
      BY <1>1, <1>4, <1>5 DEF RecvRequests, RecvOpen
    <2> QED
      BY <2>3, <2>4, <2>5, <2>6 DEF RecvRequests
  <1> QED
    BY <1>8, <1>9, <1>10 DEF RecvInv

LEMMA ConsumeRecvInv ==
    ASSUME TypeOK, RecvInv, NEW t \in Msgs, Consume(t)
    PROVE  RecvInv'
  <1>1. UNCHANGED <<rReqs, rRes, recvWqes, ctsWqes, flushWqes, rCq>>
    BY DEF Consume, rQueues
  <1>2. /\ rStep[t].st = "rcvd" /\ rStep'[t].st = "done"
        /\ \A u \in Msgs : u # t => rStep'[u] = rStep[u]
    BY RecvShapes DEF Consume, RecvStep
  <1> SUFFICES ASSUME RecvOwnership, RecvUnique, RecvRequests
               PROVE  RecvOwnership' /\ RecvUnique' /\ RecvRequests'
    BY <1>1 DEF RecvInv
  <1>3. Signalled' = Signalled /\ \A op : Cqes(op)' = Cqes(op)
    BY <1>1 DEF Signalled, Cqes
  <1>4. RecvUnique'
    BY <1>1, <1>3 DEF RecvUnique, OncePerMsg
  <1>5. \A v \in recvWqes \cup Signalled \cup flushWqes \cup rCq :
           v.msg \in Msgs /\ v.msg # t
    BY <1>2, RecvShapes DEF RecvOwnership, RecvOwned, Signalled
  <1>6. RecvOwnership'
    BY <1>1, <1>2, <1>3, <1>5 DEF RecvOwnership, RecvOwned
  <1>7. \A u \in Msgs : /\ HasRecv(u)' <=> HasRecv(u)
                        /\ HasCts(u)' <=> HasCts(u)
                        /\ HasFlush(u)' <=> HasFlush(u)
    BY <1>1, <1>3 DEF HasRecv, HasCts, HasFlush, HasMsg
  <1>8. RecvRequests'
    BY <1>1, <1>2, <1>7 DEF RecvRequests, RecvOpen, Count
  <1> QED
    BY <1>4, <1>6, <1>8

\* The NIC turns a WQE into the CQE of the same message: the message stays in
\* one place and has as many of its events outstanding as before.
LEMMA CompletionMoves ==
    ASSUME NEW wqes, NEW cqes, NEW w \in wqes, NEW c, c.msg = w.msg,
           OncePerMsg(wqes, cqes)
    PROVE  /\ OncePerMsg(wqes \ {w}, cqes \cup {c})
           /\ \A u : HasMsg(wqes \ {w}, cqes \cup {c}, u) <=> HasMsg(wqes, cqes, u)
  BY DEF OncePerMsg, HasMsg

\* Requests and steps alone do not tell a WQE from its CQE.
LEMMA RecvRequestsFrame ==
    ASSUME RecvRequests, UNCHANGED <<rReqs, rStep>>,
           \A u \in Msgs : /\ HasRecv(u)' <=> HasRecv(u)
                           /\ HasCts(u)' <=> HasCts(u)
                           /\ HasFlush(u)' <=> HasFlush(u)
    PROVE  RecvRequests'
  BY DEF RecvRequests, RecvOpen, Count

LEMMA CtsArriveRecvInv ==
    ASSUME TypeOK, RecvInv, NEW q \in Qps, CtsArrive(q)
    PROVE  RecvInv'
  <1>1. PICK w \in ctsWqes :
          /\ ctsWqes' = ctsWqes \ {w}
          /\ rCq' = IF w.flags = "SIGNALED"
                    THEN rCq \cup {[msg |-> w.msg, qp |-> q, wr_id |-> w.wr_id,
                                    size |-> 0, opcode |-> "RDMA_WRITE"]}
                    ELSE rCq
    BY DEF CtsArrive
  <1>2. UNCHANGED <<rReqs, rRes, rStep, recvWqes, flushWqes>>
    BY DEF CtsArrive, rVars
  <1> SUFFICES ASSUME RecvOwnership, RecvUnique, RecvRequests
               PROVE  RecvOwnership' /\ RecvUnique' /\ RecvRequests'
    BY <1>2 DEF RecvInv
  <1>3. CASE w.flags # "SIGNALED"
    <2>1. Signalled' = Signalled /\ rCq' = rCq
      BY <1>1, <1>3 DEF Signalled
    <2> QED
      BY <1>2, <2>1, RecvRequestsFrame
      DEF RecvOwnership, RecvOwned, RecvUnique, OncePerMsg, HasRecv, HasCts,
          HasFlush, HasMsg, Cqes
  <1>4. CASE w.flags = "SIGNALED"
    <2>1. PICK c : /\ c.msg = w.msg /\ c.wr_id = w.wr_id
                   /\ c.opcode = "RDMA_WRITE" /\ rCq' = rCq \cup {c}
      BY <1>1, <1>4
    <2>2. w \in Signalled /\ Signalled' = Signalled \ {w}
      BY <1>1, <1>4 DEF Signalled
    <2>3. /\ Cqes("RDMA_WRITE")' = Cqes("RDMA_WRITE") \cup {c}
          /\ Cqes("RECV_RDMA_WITH_IMM")' = Cqes("RECV_RDMA_WITH_IMM")
          /\ Cqes("RDMA_READ")' = Cqes("RDMA_READ")
      BY <2>1 DEF Cqes
    <2>4. RecvOwnership'
      BY <1>2, <2>1, <2>2 DEF RecvOwnership, RecvOwned
    <2>5. /\ OncePerMsg(Signalled, Cqes("RDMA_WRITE"))'
          /\ \A u : HasCts(u)' <=> HasCts(u)
      BY <2>1, <2>2, <2>3, CompletionMoves
      DEF RecvUnique, HasCts, OncePerMsg, HasMsg
    <2>6. RecvUnique'
      BY <1>2, <2>3, <2>5 DEF RecvUnique, OncePerMsg
    <2>7. RecvRequests'
      BY <1>2, <2>3, <2>5, RecvRequestsFrame DEF HasRecv, HasFlush, HasMsg
    <2> QED
      BY <2>4, <2>6, <2>7
  <1> QED
    BY <1>3, <1>4

LEMMA DeliverRecvInv ==
    ASSUME TypeOK, RecvInv, NEW q \in Qps, Deliver(q)
    PROVE  RecvInv'
  <1>1. PICK d \in dataWqes :
          \/ \E w \in recvWqes :
                /\ recvWqes' = recvWqes \ {w}
                /\ rCq' = rCq \cup
                      {[msg |-> w.msg, qp |-> q, wr_id |-> w.wr_id,
                        size |-> d.size, opcode |-> "RECV_RDMA_WITH_IMM"]}
          \/ UNCHANGED <<recvWqes, rCq>>
    BY DEF Deliver
  <1>2. UNCHANGED <<rReqs, rRes, rStep, ctsWqes, flushWqes>>
    BY DEF Deliver, rVars
  <1>3. CASE UNCHANGED <<recvWqes, rCq>>
    BY <1>2, <1>3, RecvInvFrame
  <1>4. ASSUME NEW w \in recvWqes, recvWqes' = recvWqes \ {w},
               rCq' = rCq \cup
                      {[msg |-> w.msg, qp |-> q, wr_id |-> w.wr_id,
                        size |-> d.size, opcode |-> "RECV_RDMA_WITH_IMM"]}
        PROVE  RecvInv'
    <2> SUFFICES ASSUME RecvOwnership, RecvUnique, RecvRequests
                 PROVE  RecvOwnership' /\ RecvUnique' /\ RecvRequests'
      BY <1>2 DEF RecvInv
    <2>1. PICK c : /\ c.msg = w.msg /\ c.wr_id = w.wr_id
                   /\ c.opcode = "RECV_RDMA_WITH_IMM" /\ rCq' = rCq \cup {c}
      BY <1>4
    <2>2. /\ Cqes("RECV_RDMA_WITH_IMM")' = Cqes("RECV_RDMA_WITH_IMM") \cup {c}
          /\ Cqes("RDMA_WRITE")' = Cqes("RDMA_WRITE")
          /\ Cqes("RDMA_READ")' = Cqes("RDMA_READ")
          /\ Signalled' = Signalled
      BY <1>2, <2>1 DEF Cqes, Signalled
    <2>3. RecvOwnership'
      BY <1>2, <1>4, <2>1, <2>2 DEF RecvOwnership, RecvOwned
    <2>4. /\ OncePerMsg(recvWqes, Cqes("RECV_RDMA_WITH_IMM"))'
          /\ \A u : HasRecv(u)' <=> HasRecv(u)
      BY <1>4, <2>1, <2>2, CompletionMoves
      DEF RecvUnique, HasRecv, OncePerMsg, HasMsg
    <2>5. RecvUnique'
      BY <1>2, <2>2, <2>4 DEF RecvUnique, OncePerMsg
    <2>6. RecvRequests'
      BY <1>2, <2>2, <2>4, RecvRequestsFrame DEF HasCts, HasFlush, HasMsg
    <2> QED
      BY <2>3, <2>5, <2>6
  <1> QED
    BY <1>1, <1>3, <1>4

LEMMA FlushReadRecvInv ==
    ASSUME TypeOK, RecvInv, FlushRead
    PROVE  RecvInv'
  <1>1. PICK w \in flushWqes :
          /\ flushWqes' = flushWqes \ {w}
          /\ rCq' = rCq \cup {[msg |-> w.msg, qp |-> FlushQp, wr_id |-> w.wr_id,
                               size |-> 0, opcode |-> "RDMA_READ"]}
    BY DEF FlushRead
  <1>2. UNCHANGED <<rReqs, rRes, rStep, ctsWqes, recvWqes>>
    BY DEF FlushRead, rVars
  <1> SUFFICES ASSUME RecvOwnership, RecvUnique, RecvRequests
               PROVE  RecvOwnership' /\ RecvUnique' /\ RecvRequests'
    BY <1>2 DEF RecvInv
  <1>3. PICK c : /\ c.msg = w.msg /\ c.wr_id = w.wr_id
                 /\ c.opcode = "RDMA_READ" /\ rCq' = rCq \cup {c}
    BY <1>1
  <1>4. /\ Cqes("RDMA_READ")' = Cqes("RDMA_READ") \cup {c}
        /\ Cqes("RDMA_WRITE")' = Cqes("RDMA_WRITE")
        /\ Cqes("RECV_RDMA_WITH_IMM")' = Cqes("RECV_RDMA_WITH_IMM")
        /\ Signalled' = Signalled
    BY <1>2, <1>3 DEF Cqes, Signalled
  <1>5. RecvOwnership'
    BY <1>1, <1>2, <1>3, <1>4 DEF RecvOwnership, RecvOwned
  <1>6. /\ OncePerMsg(flushWqes, Cqes("RDMA_READ"))'
        /\ \A u : HasFlush(u)' <=> HasFlush(u)
    BY <1>1, <1>3, <1>4, CompletionMoves
    DEF RecvUnique, HasFlush, OncePerMsg, HasMsg
  <1>7. RecvUnique'
    BY <1>2, <1>4, <1>6 DEF RecvUnique, OncePerMsg
  <1>8. RecvRequests'
    BY <1>2, <1>4, <1>6, RecvRequestsFrame DEF HasCts, HasRecv, HasMsg
  <1> QED
    BY <1>5, <1>7, <1>8

LEMMA NextRecvInv == TypeOK /\ RecvInv /\ [Next]_vars => RecvInv'
  <1> SUFFICES ASSUME TypeOK, RecvInv, [Next]_vars PROVE RecvInv'
    OBVIOUS
  <1>1. CASE Send
    <2>1. UNCHANGED <<rReqs, rRes, rStep, recvWqes, ctsWqes, flushWqes, rCq>>
      BY <1>1 DEF Send, Isend, SendTestPoll, SendTestDone, rVars, rQueues
    <2> QED
      BY <2>1, RecvInvFrame
  <1>2. CASE Recv
    BY <1>2, IrecvDefaultRecvInv, IrecvPostCTSRecvInv, FlushRecvInv,
       RecvTestDoneRecvInv, ConsumeRecvInv, RecvTestPollRecvInv DEF Recv
  <1>3. CASE Nic
    <2>1. ASSUME NEW q \in Qps, Ack(q) PROVE RecvInv'
      BY <2>1, RecvInvFrame DEF Ack, rVars, rQueues
    <2> QED
      BY <1>3, <2>1, CtsArriveRecvInv, DeliverRecvInv, FlushReadRecvInv DEF Nic
  <1>4. CASE Fault
    <2>1. ASSUME NEW t \in Msgs, PostFifoFails(t) \/ PostFlushFails(t)
          PROVE  RecvInv'
      BY <2>1 DEF PostFifoFails, PostFlushFails, RecvInv
    <2>2. ASSUME NEW r \in ReqIds, RecvTestError(r) PROVE RecvInv'
      BY <2>2 DEF RecvTestError, RecvInv
    <2>3. ASSUME NEW t \in Msgs, PostSendFails(t) PROVE RecvInv'
      BY <2>3, RecvInvFrame DEF PostSendFails, rVars, rQueues
    <2>4. ASSUME NEW q \in Qps, QpBreaks(q) PROVE RecvInv'
      BY <2>4, RecvInvFrame DEF QpBreaks, rVars, rQueues
    <2>5. ASSUME NEW r \in ReqIds, SendTestError(r) PROVE RecvInv'
      BY <2>5, RecvInvFrame DEF SendTestError, rVars, rQueues
    <2> QED
      BY <1>4, <2>1, <2>2, <2>3, <2>4, <2>5, PostRecvFailsRecvInv DEF Fault
  <1>5. CASE UNCHANGED vars
    BY <1>5, RecvInvFrame DEF vars, rVars, rQueues
  <1> QED
    BY <1>1, <1>2, <1>3, <1>4, <1>5 DEF Next, Finished

\* A message that is once in wqes or once in cqes counts one, whichever of the
\* two it is in; a request names no other.
LEMMA OnceCount ==
    ASSUME NEW W, NEW D, NEW r, NEW t, OncePerMsg(W, D),
           \A w \in W \cup D : w.msg = t <=> w.wr_id = r
    PROVE  /\ IsFiniteSet(WithId(W, r)) /\ IsFiniteSet(WithId(D, r))
           /\ Cardinality(WithId(W, r)) + Cardinality(WithId(D, r))
                = Count(HasMsg(W, D, t))
  <1> DEFINE A == WithId(W, r)
             B == WithId(D, r)
  <1>1. CASE ~HasMsg(W, D, t)
    <2>1. A = {} /\ B = {}
      BY <1>1 DEF WithId, HasMsg
    <2>2. /\ IsFiniteSet(A) /\ Cardinality(A) = 0
          /\ IsFiniteSet(B) /\ Cardinality(B) = 0
      BY <2>1, FS_EmptySet
    <2> QED
      BY <1>1, <2>2 DEF Count
  <1>2. CASE \E w \in W : w.msg = t
    <2>1. PICK w \in W : w.msg = t
      BY <1>2
    <2>2. /\ \A v \in W : v.wr_id = r <=> v = w
          /\ \A c \in D : c.wr_id # r
      BY <2>1 DEF OncePerMsg
    <2>3. A = {w} /\ B = {}
      BY <2>1, <2>2 DEF WithId
    <2>4. /\ IsFiniteSet(A) /\ Cardinality(A) = 1
          /\ IsFiniteSet(B) /\ Cardinality(B) = 0
      <3> HIDE DEF A, B
      <3> QED
        BY <2>3, FS_EmptySet, FS_Singleton
    <2> QED
      BY <1>2, <2>4 DEF Count, HasMsg
  <1>3. CASE \E c \in D : c.msg = t
    <2>1. PICK c \in D : c.msg = t
      BY <1>3
    <2>2. /\ \A d \in D : d.wr_id = r <=> d = c
          /\ \A w \in W : w.wr_id # r
      BY <2>1 DEF OncePerMsg
    <2>3. A = {} /\ B = {c}
      BY <2>1, <2>2 DEF WithId
    <2>4. /\ IsFiniteSet(A) /\ Cardinality(A) = 0
          /\ IsFiniteSet(B) /\ Cardinality(B) = 1
      <3> HIDE DEF A, B
      <3> QED
        BY <2>3, FS_EmptySet, FS_Singleton
    <2> QED
      BY <1>3, <2>4 DEF Count, HasMsg
  <1> QED
    BY <1>1, <1>2, <1>3 DEF HasMsg

\* The completions of a request are those of its receive, of its CTS and of
\* its flush.
LEMMA CqeKinds ==
    ASSUME CqTypeOK, NEW r,
           IsFiniteSet(WithId(Cqes("RECV_RDMA_WITH_IMM"), r)),
           IsFiniteSet(WithId(Cqes("RDMA_WRITE"), r)),
           IsFiniteSet(WithId(Cqes("RDMA_READ"), r))
    PROVE  Cardinality(WithId(rCq, r))
             = Cardinality(WithId(Cqes("RECV_RDMA_WITH_IMM"), r))
               + Cardinality(WithId(Cqes("RDMA_WRITE"), r))
               + Cardinality(WithId(Cqes("RDMA_READ"), r))
  <1> DEFINE A == WithId(Cqes("RECV_RDMA_WITH_IMM"), r)
             B == WithId(Cqes("RDMA_WRITE"), r)
             C == WithId(Cqes("RDMA_READ"), r)
  <1>1. WithId(rCq, r) = (A \cup B) \cup C
    BY DEF WithId, Cqes, CqTypeOK, RecvCqe
  <1>2. A \cap B = {} /\ (A \cup B) \cap C = {}
    BY DEF WithId, Cqes
  <1> HIDE DEF A, B, C
  <1>3. /\ IsFiniteSet(A \cup B)
        /\ Cardinality(A \cup B) = Cardinality(A) + Cardinality(B)
    <2>1. IsFiniteSet(A) /\ IsFiniteSet(B)
      BY DEF A, B
    <2>2. /\ Cardinality(A) \in Nat /\ Cardinality(B) \in Nat
          /\ Cardinality(A \cap B) = 0
      BY <1>2, <2>1, FS_CardinalityType, FS_EmptySet
    <2>3. /\ IsFiniteSet(A \cup B)
          /\ Cardinality(A \cup B)
               = Cardinality(A) + Cardinality(B) - Cardinality(A \cap B)
      BY <2>1, FS_Union
    <2> QED
      BY <2>2, <2>3
  <1>4. Cardinality((A \cup B) \cup C) = Cardinality(A \cup B) + Cardinality(C)
    <2>1. IsFiniteSet(C)
      BY DEF C
    <2>2. /\ Cardinality(A \cup B) \in Nat /\ Cardinality(C) \in Nat
          /\ Cardinality((A \cup B) \cap C) = 0
      BY <1>2, <1>3, <2>1, FS_CardinalityType, FS_EmptySet
    <2>3. Cardinality((A \cup B) \cup C)
            = Cardinality(A \cup B) + Cardinality(C)
              - Cardinality((A \cup B) \cap C)
      BY <1>3, <2>1, FS_Union
    <2> QED
      BY <2>2, <2>3
  <1> QED
    BY <1>1, <1>3, <1>4 DEF A, B, C

LEMMA RecvInvCounts == TypeOK /\ RecvInv => RecvEventsExact
  <1> SUFFICES ASSUME TypeOK, RecvInv, rRes = "ok", NEW r \in ReqIds
               PROVE  Cardinality(WithId(recvWqes, r))
                        + Cardinality(WithId(Signalled, r))
                        + Cardinality(WithId(flushWqes, r))
                        + Cardinality(WithId(rCq, r))
                      = IF rReqs[r].type = "UNUSED" THEN 0 ELSE rReqs[r].events
    BY DEF RecvEventsExact, Signalled
  <1> DEFINE RcvC == Cqes("RECV_RDMA_WITH_IMM")
             CtsC == Cqes("RDMA_WRITE")
             FlsC == Cqes("RDMA_READ")
  <1>1. RecvOwnership /\ RecvUnique /\ RecvRequests
    BY DEF RecvInv
  <1>2. CqTypeOK /\ \A v \in recvWqes \cup Signalled \cup flushWqes \cup rCq :
                       v.msg \in Msgs
    BY DEF TypeOK, RecvQueuesTypeOK, CqTypeOK, RecvWqe, CtsWqe, FlushWqe,
           RecvCqe, Signalled
  <1>3. /\ \A v \in recvWqes \cup RcvC \cup Signalled \cup CtsC :
              v.msg \in Msgs /\ RecvOwned(v, "posted")
        /\ \A v \in flushWqes \cup FlsC :
              v.msg \in Msgs /\ RecvOwned(v, "flushing")
    BY <1>1, <1>2 DEF RecvOwnership, Cqes
  <1>4. CASE rReqs[r].type = "UNUSED"
    <2>1. /\ WithId(recvWqes, r) = {} /\ WithId(Signalled, r) = {}
          /\ WithId(flushWqes, r) = {}
      BY <1>1, <1>3, <1>4 DEF WithId, RecvOwned, RecvRequests
    <2>2. WithId(rCq, r) = {}
      BY <1>1, <1>2, <1>4 DEF WithId, RecvOwnership, RecvOwned, RecvRequests
    <2>3. /\ Cardinality(WithId(recvWqes, r)) = 0
          /\ Cardinality(WithId(Signalled, r)) = 0
          /\ Cardinality(WithId(flushWqes, r)) = 0
          /\ Cardinality(WithId(rCq, r)) = 0
      BY <2>1, <2>2, FS_EmptySet
    <2> QED
      BY <1>4, <2>3
  <1>5. CASE rReqs[r].type # "UNUSED"
    <2>1. PICK t \in Msgs : RecvOpen(t) /\ rStep[t].req = r
      BY <1>1, <1>5 DEF RecvRequests
    <2>2. \A v \in recvWqes \cup RcvC \cup Signalled \cup CtsC \cup flushWqes
                    \cup FlsC : v.msg = t <=> v.wr_id = r
      BY <1>1, <1>3, <2>1 DEF RecvOwned, RecvOpen, RecvRequests
    <2>3. /\ IsFiniteSet(WithId(recvWqes, r)) /\ IsFiniteSet(WithId(RcvC, r))
          /\ Cardinality(WithId(recvWqes, r)) + Cardinality(WithId(RcvC, r))
               = Count(HasRecv(t))
      BY <1>1, <2>2, OnceCount DEF RecvUnique, HasRecv
    <2>4. /\ IsFiniteSet(WithId(Signalled, r)) /\ IsFiniteSet(WithId(CtsC, r))
          /\ Cardinality(WithId(Signalled, r)) + Cardinality(WithId(CtsC, r))
               = Count(HasCts(t))
      BY <1>1, <2>2, OnceCount DEF RecvUnique, HasCts
    <2>5. /\ IsFiniteSet(WithId(flushWqes, r)) /\ IsFiniteSet(WithId(FlsC, r))
          /\ Cardinality(WithId(flushWqes, r)) + Cardinality(WithId(FlsC, r))
               = Count(HasFlush(t))
      BY <1>1, <2>2, OnceCount DEF RecvUnique, HasFlush
    <2>6. rReqs[r].events
            = Count(HasRecv(t)) + Count(HasCts(t)) + Count(HasFlush(t))
      <3>1. CASE rStep[t].st = "posted"
        <4>1. ~HasFlush(t)
          BY <1>3, <3>1 DEF HasFlush, HasMsg, RecvOwned
        <4> QED
          BY <1>1, <2>1, <3>1, <4>1 DEF RecvRequests, Count
      <3>2. CASE rStep[t].st = "flushing"
        <4>1. ~HasRecv(t) /\ ~HasCts(t)
          BY <1>3, <3>2 DEF HasRecv, HasCts, HasMsg, RecvOwned
        <4> QED
          BY <1>1, <2>1, <3>2, <4>1 DEF RecvRequests, Count
      <3> QED
        BY <2>1, <3>1, <3>2 DEF RecvOpen
    <2>7. Cardinality(WithId(rCq, r))
            = Cardinality(WithId(RcvC, r)) + Cardinality(WithId(CtsC, r))
              + Cardinality(WithId(FlsC, r))
      BY <1>2, <2>3, <2>4, <2>5, CqeKinds
    <2>8. /\ Cardinality(WithId(recvWqes, r)) \in Nat
          /\ Cardinality(WithId(RcvC, r)) \in Nat
          /\ Cardinality(WithId(Signalled, r)) \in Nat
          /\ Cardinality(WithId(CtsC, r)) \in Nat
          /\ Cardinality(WithId(flushWqes, r)) \in Nat
          /\ Cardinality(WithId(FlsC, r)) \in Nat
      BY <2>3, <2>4, <2>5, FS_CardinalityType
    <2> HIDE DEF RcvC, CtsC, FlsC
    <2> QED
      BY <1>5, <2>3, <2>4, <2>5, <2>6, <2>7, <2>8
  <1> QED
    BY <1>4, <1>5

\* The events of every receive request are exactly what is in flight for it,
\* for any number of requests, QPs and messages, whatever fails.
THEOREM RecvEventsCorrect == Spec => []RecvEventsExact
  <1>1. Init => TypeOK /\ RecvInv
    BY InitTypeOK, InitRecvInv
  <1>2. TypeOK /\ RecvInv /\ [Next]_vars => (TypeOK /\ RecvInv)'
    BY NextTypeOK, NextRecvInv
  <1>3. TypeOK /\ RecvInv => RecvEventsExact
    BY RecvInvCounts
  <1> QED
    BY <1>1, <1>2, <1>3, PTL DEF Spec

-----------------------------------------------------------------------------
(* anpNetTest's internal errors *)

\* A QP breaks only by a fault.
FaultInv == broken # {} => faults > 0

\* A step that injects a fault leaves both invariants true.
LEMMA InjectFaultInv ==
    ASSUME TypeOK, InjectFault PROVE NoInternalError' /\ FaultInv'
  <1>1. faults \in Nat /\ faults' = faults + 1
    BY DEF InjectFault, TypeOK, FaultTypeOK
  <1> QED
    BY <1>1 DEF NoInternalError, FaultInv

LEMMA NextNoInternalError ==
    ASSUME TypeOK, SendInv, RecvInv, NoInternalError, FaultInv, [Next]_vars
    PROVE  NoInternalError' /\ FaultInv'
  <1>1. CASE Send
    <2>1. UNCHANGED <<broken, faults, rRes>>
      BY <1>1 DEF Send, Isend, SendTestPoll, SendTestDone, faultVars, rVars
    <2>2. sRes' = sRes \/ sRes' = "ok"
      BY <1>1, SendTestPollSendInv DEF Send, Isend, SendTestDone
    <2> QED
      BY <2>1, <2>2 DEF NoInternalError, FaultInv
  <1>2. CASE Recv
    <2>1. UNCHANGED <<broken, faults, sRes>>
      BY <1>2 DEF Recv, IrecvDefault, IrecvPostCTS, Flush, RecvTestDone,
                  Consume, RecvTestPoll, faultVars, sVars
    <2>2. rRes' = rRes \/ rRes' = "ok"
      BY <1>2, RecvTestPollRecvInv
      DEF Recv, IrecvDefault, IrecvPostCTS, Flush, RecvTestDone, Consume
    <2> QED
      BY <2>1, <2>2 DEF NoInternalError, FaultInv
  <1>3. CASE Nic
    BY <1>3 DEF Nic, CtsArrive, Deliver, Ack, FlushRead, faultVars, sVars, rVars,
                NoInternalError, FaultInv
  <1>4. CASE Fault
    <2>1. ASSUME NEW t \in Msgs, \/ PostSendFails(t) \/ PostRecvFails(t)
                                 \/ PostFifoFails(t) \/ PostFlushFails(t)
          PROVE  InjectFault
      BY <2>1 DEF PostSendFails, PostRecvFails, PostFifoFails, PostFlushFails
    <2>2. ASSUME NEW q \in Qps, QpBreaks(q) PROVE InjectFault
      BY <2>2 DEF QpBreaks
    <2>3. ASSUME NEW r \in ReqIds, SendTestError(r) \/ RecvTestError(r)
          PROVE  NoInternalError' /\ FaultInv'
      <3>1. broken # {} /\ UNCHANGED <<broken, faults>>
        BY <2>3 DEF SendTestError, RecvTestError, faultVars
      <3> QED
        BY <3>1 DEF NoInternalError, FaultInv
    <2> QED
      BY <1>4, <2>1, <2>2, <2>3, InjectFaultInv DEF Fault
  <1>5. CASE UNCHANGED vars
    BY <1>5 DEF vars, sVars, rVars, faultVars, NoInternalError, FaultInv
  <1> QED
    BY <1>1, <1>2, <1>3, <1>4, <1>5 DEF Next, Finished

\* anpNetTest runs into none of its own internal errors, for any number of
\* requests, QPs and messages: a call fails only after the device failed.
THEOREM NoInternalErrorCorrect == Spec => []NoInternalError
  <1> DEFINE Inv == TypeOK /\ SendInv /\ RecvInv /\ NoInternalError /\ FaultInv
  <1>1. Init => Inv
    <2>1. Init => NoInternalError /\ FaultInv
      BY DEF Init, NoInternalError, FaultInv
    <2> QED
      BY <2>1, InitTypeOK, InitSendInv, InitRecvInv
  <1>2. Inv /\ [Next]_vars => Inv'
    BY NextTypeOK, NextSendInv, NextRecvInv, NextNoInternalError
  <1> QED
    BY <1>1, <1>2, PTL DEF Spec
=============================================================================
