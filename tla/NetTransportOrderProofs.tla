---------------------- MODULE NetTransportOrderProofs ----------------------
(***************************************************************************)
(* The order of the data, the truth of the completions and the refinement  *)
(* of NetChannel, for every value of the constants.                        *)
(*                                                                         *)
(* The sender and the receiver never agree on a QP: each counts its own    *)
(* posts and takes the next QP in turn.  The argument is that both         *)
(* counters are functions of the number of posts, so that everything about *)
(* message t is on QP t % NQps, and that on one QP the first data, the     *)
(* first CTS and the first receive are of one and the same message.        *)
(***************************************************************************)
EXTENDS NetTransportProofs

QpOf(t) == t % NQps

SlotOf(t) == t % MaxRequests

\* Each side's counter is the number of its posts.
Counters ==
    /\ \A t \in Msgs : sStep[t].st # "idle" <=> t < fifoHead
    /\ \A t \in Msgs : rStep[t].st # "idle" <=> t < fifoTail
    /\ sQpIndex = QpOf(fifoHead)
    /\ rQpIndex = QpOf(fifoTail)

HasData(t) == \E w \in dataWqes : w.msg = t
HasCtsWqe(t) == \E w \in ctsWqes : w.msg = t
HasCtsEntry(t) == \E w \in ctsTable : w.msg = t
HasRecvWqe(t) == \E w \in recvWqes : w.msg = t

\* What is queued for a message is on the QP of its number.
OnOwnQp ==
    \A w \in dataWqes \cup ctsWqes \cup ctsTable \cup recvWqes :
        w.qp = QpOf(w.msg)

\* The data WQE of a message is what anpNetIsend was asked to send.
DataTrue ==
    \A w \in dataWqes : /\ w.size = work[w.msg].size
                        /\ w.opcode = DataOpcode(w.msg)

\* Until the data of a message is in its buffer, the data waits at the sender
\* if it was sent, a CTS and a receive WQE wait for it if it is awaited; and no
\* longer.
Waiting ==
    \A t \in Msgs :
        /\ HasData(t) <=> (t < fifoHead /\ landed[t] = None)
        /\ (HasCtsWqe(t) \/ HasCtsEntry(t))
              <=> (t < fifoTail /\ landed[t] = None)
        /\ t < fifoTail =>
              (HasRecvWqe(t)
                 <=> (work[t].proto = "Simple" /\ landed[t] = None))
        /\ landed[t] # None => landed[t] = t /\ t < fifoHead /\ t < fifoTail

\* One WQE of each kind for a message; CTS arrive in the order of their QP.
WqesDistinct ==
    /\ \A w, v \in dataWqes : w.msg = v.msg => w = v
    /\ \A w, v \in ctsWqes : w.msg = v.msg => w = v
    /\ \A w, v \in recvWqes : w.msg = v.msg => w = v
    /\ \A c \in ctsTable, w \in ctsWqes : c.qp = w.qp => c.msg < w.msg

\* A receive WQE beyond the tail is what a failed ncclIbPostFifo left behind.
RecvWqesKnown ==
    \A w \in recvWqes :
        w.msg < fifoTail \/ (rRes = "error" /\ w.msg = fifoTail)

OrderInv ==
    Counters /\ OnOwnQp /\ DataTrue /\ Waiting /\ WqesDistinct /\ RecvWqesKnown

\* The open steps of a caller lie in a window before its counter.
WindowInv ==
    /\ \A t \in Msgs : sStep[t].st = "posted" => fifoHead <= t + Window
    /\ \A t \in Msgs :
          rStep[t].st \notin {"idle", "done"} => fifoTail <= t + Window

\* A receive completion carries the size of its message.
CqeSizes ==
    \A c \in Cqes("RECV_RDMA_WITH_IMM") :
        c.size = work[c.msg].size /\ work[c.msg].proto = "Simple"

\* The slot of an open receive is 0 until its receive completion was polled,
\* and the size of the message from then on.
SizesInv ==
    rRes = "ok" => \A t \in Msgs : rStep[t].st = "posted" =>
        /\ rReqs[rStep[t].req].slot = SlotOf(t)
        /\ sizesFifo[SlotOf(t)] =
              IF work[t].proto = "LL" \/ HasRecv(t) THEN 0 ELSE work[t].size
-----------------------------------------------------------------------------
(* Remainders *)

LEMMA DivMod ==
    ASSUME NEW a \in Nat, NEW n \in Nat \ {0}
    PROVE  /\ a % n \in 0 .. n - 1
           /\ a \div n \in Nat
           /\ a = n * (a \div n) + (a % n)
  OBVIOUS

LEMMA ModUnique ==
    ASSUME NEW n \in Nat \ {0}, NEW a \in Nat, NEW k \in Nat,
           NEW r \in 0 .. n - 1, a = n * k + r
    PROVE  a % n = r
  BY SMT

\* An index that is wrapped at every step is the count of the steps, wrapped.
LEMMA ModSucc ==
    ASSUME NEW a \in Nat, NEW n \in Nat \ {0}
    PROVE  (a + 1) % n = ((a % n) + 1) % n
  <1> DEFINE k == a \div n
             r == a % n
  <1>1. k \in Nat /\ r \in 0 .. n - 1 /\ a = n * k + r
    BY DivMod
  <1> HIDE DEF k, r
  <1>2. CASE r + 1 < n
    <2>1. (a + 1) % n = r + 1
      BY <1>1, <1>2, a + 1 = n * k + (r + 1), ModUnique
    <2>2. (r + 1) % n = r + 1
      BY <1>1, <1>2, r + 1 = n * 0 + (r + 1), ModUnique
    <2> QED
      BY <2>1, <2>2 DEF r
  <1>3. CASE r + 1 = n
    <2>1. (a + 1) % n = 0
      <3>1. n * (k + 1) = n * k + n
        BY <1>1
      <3> QED
        BY <1>1, <1>3, <3>1, a + 1 = n * (k + 1) + 0, ModUnique
    <2>2. (r + 1) % n = 0
      BY <1>1, <1>3, r + 1 = n * 1 + 0, ModUnique
    <2> QED
      BY <2>1, <2>2 DEF r
  <1> QED
    BY <1>1, <1>2, <1>3

\* Numbers less than n apart have different slots of a FIFO of n slots.
LEMMA ModInjective ==
    ASSUME NEW n \in Nat \ {0}, NEW a \in Nat, NEW b \in Nat,
           a <= b, b < a + n, a % n = b % n
    PROVE  a = b
  <1> DEFINE k == (b \div n) - (a \div n)
  <1>1. /\ a = n * (a \div n) + (a % n)
        /\ b = n * (b \div n) + (b % n)
        /\ a \div n \in Nat /\ b \div n \in Nat
    BY DivMod
  <1>2. b - a = n * k
    BY <1>1
  <1>3. k \in Int /\ n * k >= 0 /\ n * k < n
    BY <1>1, <1>2
  <1> HIDE DEF k
  <1>4. k < 1 /\ k > -1
    BY <1>3
  <1> QED
    BY <1>2, <1>3, <1>4

-----------------------------------------------------------------------------
(* The order of the data *)

LEMMA InitOrderInv == Init => OrderInv
  <1> SUFFICES ASSUME Init PROVE OrderInv
    OBVIOUS
  <1>1. 0 % NQps = 0
    BY ConstantsAssumption, 0 = NQps * 0 + 0, ModUnique
  <1>2. Counters
    BY <1>1 DEF Init, Counters, QpOf, Msgs
  <1>3. Waiting
    BY DEF Init, Waiting, HasData, HasCtsWqe, HasCtsEntry, Msgs
  <1>4. OnOwnQp /\ DataTrue /\ WqesDistinct /\ RecvWqesKnown
    BY DEF Init, OnOwnQp, DataTrue, WqesDistinct, RecvWqesKnown
  <1> QED
    BY <1>2, <1>3, <1>4 DEF OrderInv

\* Steps that post nothing and move no data.
PostsNothing ==
    /\ UNCHANGED <<fifoHead, sQpIndex, fifoTail, rQpIndex, dataWqes, ctsWqes,
                   ctsTable, recvWqes, landed, work>>
    /\ \A t \in Msgs : /\ sStep'[t].st = "idle" <=> sStep[t].st = "idle"
                       /\ rStep'[t].st = "idle" <=> rStep[t].st = "idle"
    /\ rRes = "error" => rRes' = "error"

LEMMA OrderInvFrame ==
    ASSUME OrderInv, PostsNothing
    PROVE  OrderInv'
  <1> USE DEF PostsNothing
  <1>1. Counters'
    BY DEF OrderInv, Counters, QpOf
  <1>2. Waiting'
    BY DEF OrderInv, Waiting, HasData, HasCtsWqe, HasCtsEntry, HasRecvWqe
  <1>3. OnOwnQp' /\ DataTrue' /\ WqesDistinct'
    BY DEF OrderInv, OnOwnQp, DataTrue, DataOpcode, WqesDistinct, QpOf
  <1>4. RecvWqesKnown'
    BY DEF OrderInv, RecvWqesKnown
  <1> QED
    BY <1>1, <1>2, <1>3, <1>4 DEF OrderInv

\* The shapes the proofs below need.
LEMMA OrderShapes ==
    ASSUME TypeOK
    PROVE  /\ fifoHead \in Nat /\ fifoTail \in Nat
           /\ Msgs \subseteq Nat /\ None \notin Msgs
           /\ \A w \in dataWqes \cup ctsWqes \cup ctsTable \cup recvWqes :
                 w.msg \in Msgs
           /\ landed \in [Msgs -> Msgs \cup {None}]
           /\ sStep \in [Msgs -> SendStep] /\ rStep \in [Msgs -> RecvStep]
  BY DEF TypeOK, SendTypeOK, RecvTypeOK, SendQueuesTypeOK, RecvQueuesTypeOK,
         WireTypeOK, DataWqe, CtsWqe, Place, RecvWqe, Msgs, None

\* The caller posts the messages in the order of their numbers.
LEMMA PostsInOrder ==
    ASSUME TypeOK, OrderInv, NEW t \in Msgs
    PROVE  /\ MayPost(sStep, t) => t = fifoHead
           /\ MayPost(rStep, t) => t = fifoTail
  <1> USE OrderShapes
  <1>1. t > 0 => t - 1 \in Msgs
    BY ConstantsAssumption DEF Msgs
  <1>2. \A n \in Nat : ~(t < n) /\ (t > 0 => t - 1 < n) => t = n
    OBVIOUS
  <1>3. ASSUME MayPost(sStep, t) PROVE t = fifoHead
    <2>1. ~(t < fifoHead)
      BY <1>3 DEF MayPost, OrderInv, Counters
    <2>2. t > 0 => sStep[t - 1].st # "idle"
      BY <1>1, <1>3 DEF MayPost
    <2> QED
      BY <1>1, <1>2, <2>1, <2>2 DEF OrderInv, Counters
  <1>4. ASSUME MayPost(rStep, t) PROVE t = fifoTail
    <2>1. ~(t < fifoTail)
      BY <1>4 DEF MayPost, OrderInv, Counters
    <2>2. t > 0 => rStep[t - 1].st # "idle"
      BY <1>1, <1>4 DEF MayPost
    <2> QED
      BY <1>1, <1>2, <2>1, <2>2 DEF OrderInv, Counters
  <1> QED
    BY <1>3, <1>4

LEMMA IsendOrderInv ==
    ASSUME TypeOK, OrderInv, NEW t \in Msgs, Isend(t)
    PROVE  OrderInv'
  <1> USE OrderShapes
  <1>1. PICK r \in ReqIds : /\ MultiSend(t, r)
                            /\ sStep' = [sStep EXCEPT ![t] =
                                            [st |-> "posted", req |-> r]]
    BY DEF Isend
  <1>2. /\ t = fifoHead /\ fifoHead' = fifoHead + 1
        /\ UNCHANGED <<fifoTail, rQpIndex, rStep, rRes, ctsWqes, ctsTable,
                       recvWqes, landed, work>>
    BY PostsInOrder DEF Isend, SendMayPost, rVars, rQueues, wire
  <1>3. PICK d : /\ d.msg = t /\ d.qp = QpOf(t) /\ d.size = work[t].size
                 /\ d.opcode = DataOpcode(t) /\ dataWqes' = dataWqes \cup {d}
    BY <1>1, <1>2 DEF MultiSend, OrderInv, Counters
  <1>4. \A w \in dataWqes : w.msg < t
    BY <1>2 DEF OrderInv, Waiting, HasData
  <1>5. landed[t] = None
    BY <1>2 DEF OrderInv, Waiting
  <1>6. Counters'
    <2>1. sQpIndex' = QpOf(fifoHead')
      BY <1>1, <1>2, ModSucc, ConstantsAssumption
      DEF MultiSend, NextQp, QpOf, OrderInv, Counters
    <2>2. \A u \in Msgs : sStep'[u].st # "idle" <=> u < fifoHead'
      <3>1. \A u \in Msgs : u # t => sStep'[u] = sStep[u]
        BY <1>1, <1>2
      <3>2. sStep'[t].st # "idle"
        BY <1>1, <1>2
      <3>3. \A u \in Msgs : u < fifoHead' <=> (u < fifoHead \/ u = t)
        BY <1>1, <1>2
      <3> QED
        BY <3>1, <3>2, <3>3 DEF OrderInv, Counters
    <2> QED
      BY <1>2, <2>1, <2>2 DEF OrderInv, Counters, QpOf
  <1>7. OnOwnQp' /\ DataTrue'
    BY <1>2, <1>3 DEF OrderInv, OnOwnQp, DataTrue, DataOpcode, QpOf
  <1>8. Waiting'
    <2>1. \A u \in Msgs : HasData(u)' <=> (HasData(u) \/ u = t)
      BY <1>3 DEF HasData
    <2>2. \A u \in Msgs : /\ HasCtsWqe(u)' <=> HasCtsWqe(u)
                          /\ HasCtsEntry(u)' <=> HasCtsEntry(u)
                          /\ HasRecvWqe(u)' <=> HasRecvWqe(u)
      BY <1>2 DEF HasCtsWqe, HasCtsEntry, HasRecvWqe
    <2> QED
      BY <1>2, <1>5, <2>1, <2>2 DEF OrderInv, Waiting
  <1>9. WqesDistinct' /\ RecvWqesKnown'
    BY <1>2, <1>3, <1>4 DEF OrderInv, WqesDistinct, RecvWqesKnown
  <1> QED
    BY <1>6, <1>7, <1>8, <1>9 DEF OrderInv

\* Both forms of irecv: message t gets a CTS and, if e, a receive WQE.
LEMMA IrecvOrderInv ==
    ASSUME TypeOK, OrderInv, NEW t \in Msgs, NEW e \in BOOLEAN, NEW w, NEW x,
           NEW r \in ReqIds,
           RecvMayPost(t), e <=> work[t].proto = "Simple",
           rStep' = [rStep EXCEPT ![t] =
                        [st |-> "posted", req |-> r, size |-> 0]],
           w.msg = t, w.qp = rQpIndex,
           recvWqes' = IF e THEN recvWqes \cup {w} ELSE recvWqes,
           x.msg = t, x.qp = rQpIndex, ctsWqes' = ctsWqes \cup {x},
           fifoTail' = fifoTail + 1, rQpIndex' = NextQp(rQpIndex),
           UNCHANGED <<fifoHead, sQpIndex, sStep, dataWqes, ctsTable, landed,
                       rRes, work>>
    PROVE  OrderInv'
  <1> USE OrderShapes
  <1>1. t = fifoTail /\ rQpIndex = QpOf(t) /\ rRes = "ok"
    BY PostsInOrder DEF RecvMayPost, OrderInv, Counters
  <1>2. \A v \in ctsWqes \cup ctsTable \cup recvWqes : v.msg < t
    BY <1>1 DEF OrderInv, Waiting, HasCtsWqe, HasCtsEntry, RecvWqesKnown
  <1>3. landed[t] = None
    BY <1>1 DEF OrderInv, Waiting
  <1>4. Counters'
    <2>1. rQpIndex' = QpOf(fifoTail')
      BY <1>1, ModSucc, ConstantsAssumption DEF NextQp, QpOf
    <2>2. \A u \in Msgs : rStep'[u].st # "idle" <=> u < fifoTail'
      <3>1. \A u \in Msgs : u # t => rStep'[u] = rStep[u]
        BY <1>1
      <3>2. rStep'[t].st # "idle"
        BY <1>1
      <3>3. \A u \in Msgs : u < fifoTail' <=> (u < fifoTail \/ u = t)
        BY <1>1
      <3> QED
        BY <3>1, <3>2, <3>3 DEF OrderInv, Counters
    <2> QED
      BY <2>1, <2>2 DEF OrderInv, Counters, QpOf
  <1>5. OnOwnQp' /\ DataTrue'
    BY <1>1 DEF OrderInv, OnOwnQp, DataTrue, DataOpcode, QpOf
  <1>6. Waiting'
    <2>1. \A u \in Msgs : /\ HasCtsWqe(u)' <=> (HasCtsWqe(u) \/ u = t)
                          /\ HasRecvWqe(u)' <=> (HasRecvWqe(u) \/ (e /\ u = t))
                          /\ HasCtsEntry(u)' <=> HasCtsEntry(u)
                          /\ HasData(u)' <=> HasData(u)
      BY DEF HasCtsWqe, HasRecvWqe, HasCtsEntry, HasData
    <2>2. ~HasRecvWqe(t)
      BY <1>2 DEF HasRecvWqe
    <2> QED
      BY <1>1, <1>3, <2>1, <2>2 DEF OrderInv, Waiting
  <1>7. WqesDistinct' /\ RecvWqesKnown'
    BY <1>1, <1>2 DEF OrderInv, WqesDistinct, RecvWqesKnown
  <1> QED
    BY <1>4, <1>5, <1>6, <1>7 DEF OrderInv

LEMMA IrecvDefaultOrderInv ==
    ASSUME TypeOK, OrderInv, NEW t \in Msgs, IrecvDefault(t)
    PROVE  OrderInv'
  <1>1. PICK r \in ReqIds :
          /\ recvWqes' = recvWqes \cup
                            {[msg |-> t, qp |-> rQpIndex, wr_id |-> r]}
          /\ PostFifo(t, r)
          /\ rStep' = [rStep EXCEPT ![t] =
                          [st |-> "posted", req |-> r, size |-> 0]]
    BY DEF IrecvDefault
  <1>2. /\ RecvMayPost(t) /\ work[t].proto = "Simple"
        /\ UNCHANGED <<fifoHead, sQpIndex, sStep, dataWqes, ctsTable, landed,
                       rRes, work>>
    BY DEF IrecvDefault, sVars, sQueues, wire
  <1>3. PICK w : /\ w.msg = t /\ w.qp = rQpIndex
                 /\ recvWqes' = recvWqes \cup {w}
    BY <1>1
  <1>4. PICK x : x.msg = t /\ x.qp = rQpIndex /\ ctsWqes' = ctsWqes \cup {x}
    BY <1>1 DEF PostFifo
  <1>5. /\ fifoTail' = fifoTail + 1 /\ rQpIndex' = NextQp(rQpIndex)
        /\ recvWqes' = IF TRUE THEN recvWqes \cup {w} ELSE recvWqes
    BY <1>1, <1>3 DEF PostFifo
  <1> QED
    BY <1>1, <1>2, <1>3, <1>4, <1>5, IrecvOrderInv

LEMMA IrecvPostCTSOrderInv ==
    ASSUME TypeOK, OrderInv, NEW t \in Msgs, IrecvPostCTS(t)
    PROVE  OrderInv'
  <1>1. PICK r \in ReqIds :
          /\ PostFifo(t, r)
          /\ rStep' = [rStep EXCEPT ![t] =
                          [st |-> "posted", req |-> r, size |-> 0]]
    BY DEF IrecvPostCTS
  <1>2. /\ RecvMayPost(t) /\ work[t].proto # "Simple"
        /\ UNCHANGED <<fifoHead, sQpIndex, sStep, dataWqes, ctsTable, landed,
                       rRes, recvWqes, work>>
    BY DEF IrecvPostCTS, sVars, sQueues, wire
  <1>3. PICK x : x.msg = t /\ x.qp = rQpIndex /\ ctsWqes' = ctsWqes \cup {x}
    BY <1>1 DEF PostFifo
  <1>4. /\ fifoTail' = fifoTail + 1 /\ rQpIndex' = NextQp(rQpIndex)
        /\ recvWqes' = IF FALSE THEN recvWqes \cup {x} ELSE recvWqes
    BY <1>1, <1>2 DEF PostFifo
  <1> QED
    BY <1>1, <1>2, <1>3, <1>4, IrecvOrderInv

\* The receive WQE left behind is the last of its QP, and nothing is posted
\* after it.
LEMMA PostFifoFailsOrderInv ==
    ASSUME TypeOK, OrderInv, NEW t \in Msgs, PostFifoFails(t)
    PROVE  OrderInv'
  <1> USE OrderShapes
  <1>1. /\ t = fifoTail /\ rRes = "ok" /\ rRes' = "error"
        /\ UNCHANGED <<fifoHead, sQpIndex, sStep, fifoTail, rQpIndex, rStep,
                       dataWqes, ctsWqes, ctsTable, landed, work>>
    BY PostsInOrder DEF PostFifoFails, RecvMayPost, sVars, sQueues, wire
  <1>2. CASE recvWqes' = recvWqes
    BY <1>1, <1>2, OrderInvFrame DEF PostsNothing
  <1>3. CASE \E w : /\ w.msg = t /\ w.qp = rQpIndex
                    /\ recvWqes' = recvWqes \cup {w}
    <2>1. PICK w : /\ w.msg = t /\ w.qp = rQpIndex
                   /\ recvWqes' = recvWqes \cup {w}
      BY <1>3
    <2>2. \A v \in recvWqes : v.msg < t
      BY <1>1 DEF OrderInv, RecvWqesKnown
    <2>3. Counters'
      BY <1>1 DEF OrderInv, Counters, QpOf
    <2>4. OnOwnQp' /\ DataTrue'
      BY <1>1, <2>1
      DEF OrderInv, Counters, OnOwnQp, DataTrue, DataOpcode, QpOf
    <2>5. Waiting'
      <3>1. \A u \in Msgs : /\ u < fifoTail =>
                                 (HasRecvWqe(u)' <=> HasRecvWqe(u))
                            /\ HasCtsWqe(u)' <=> HasCtsWqe(u)
                            /\ HasCtsEntry(u)' <=> HasCtsEntry(u)
                            /\ HasData(u)' <=> HasData(u)
        BY <1>1, <2>1 DEF HasCtsWqe, HasRecvWqe, HasCtsEntry, HasData
      <3> QED
        BY <1>1, <3>1 DEF OrderInv, Waiting
    <2>6. WqesDistinct' /\ RecvWqesKnown'
      BY <1>1, <2>1, <2>2 DEF OrderInv, WqesDistinct, RecvWqesKnown
    <2> QED
      BY <2>3, <2>4, <2>5, <2>6 DEF OrderInv
  <1>4. PICK r \in ReqIds :
          \/ UNCHANGED recvWqes
          \/ recvWqes' = recvWqes \cup
                            {[msg |-> t, qp |-> rQpIndex, wr_id |-> r]}
    BY DEF PostFifoFails
  <1> QED
    BY <1>2, <1>3, <1>4

LEMMA CtsArriveOrderInv ==
    ASSUME TypeOK, OrderInv, NEW q \in Qps, CtsArrive(q)
    PROVE  OrderInv'
  <1> USE OrderShapes
  <1>1. PICK w \in ctsWqes :
          /\ w.qp = q /\ First(ctsWqes, w)
          /\ ctsWqes' = ctsWqes \ {w}
          /\ ctsTable' = ctsTable \cup {[msg |-> w.msg, qp |-> q]}
    BY DEF CtsArrive
  <1>2. UNCHANGED <<fifoHead, sQpIndex, sStep, fifoTail, rQpIndex, rStep, rRes,
                    dataWqes, recvWqes, landed, work>>
    BY DEF CtsArrive, sVars, rVars, sQueues
  <1>3. PICK c : /\ c.msg = w.msg /\ c.qp = q
                 /\ ctsTable' = ctsTable \cup {c}
    BY <1>1
  <1>4. \A v \in ctsWqes' : v.qp = q => w.msg < v.msg
    <2> SUFFICES ASSUME NEW v \in ctsWqes', v.qp = q PROVE w.msg < v.msg
      OBVIOUS
    <2>1. v \in ctsWqes /\ v # w /\ w.msg <= v.msg /\ w.msg # v.msg
      BY <1>1 DEF First, OrderInv, WqesDistinct
    <2> QED
      BY <2>1
  <1>5. Counters'
    BY <1>2 DEF OrderInv, Counters, QpOf
  <1>6. OnOwnQp' /\ DataTrue'
    BY <1>1, <1>2, <1>3 DEF OrderInv, OnOwnQp, DataTrue, DataOpcode, QpOf
  <1>7. Waiting'
    <2>1. \A u \in Msgs : (HasCtsWqe(u)' \/ HasCtsEntry(u)')
                             <=> (HasCtsWqe(u) \/ HasCtsEntry(u))
      BY <1>1, <1>3 DEF HasCtsWqe, HasCtsEntry
    <2>2. \A u \in Msgs : /\ HasRecvWqe(u)' <=> HasRecvWqe(u)
                          /\ HasData(u)' <=> HasData(u)
      BY <1>2 DEF HasRecvWqe, HasData
    <2> QED
      BY <1>2, <2>1, <2>2 DEF OrderInv, Waiting
  <1>8. WqesDistinct' /\ RecvWqesKnown'
    BY <1>1, <1>2, <1>3, <1>4 DEF OrderInv, WqesDistinct, RecvWqesKnown
  <1> QED
    BY <1>5, <1>6, <1>7, <1>8 DEF OrderInv

\* The first data, the first CTS and the first receive of a QP are of one
\* message: what ties the two qpIndex counters together.
LEMMA FirstsMatch ==
    ASSUME TypeOK, OrderInv, NEW d \in dataWqes, NEW c \in ctsTable,
           d.qp = c.qp, First(dataWqes, d), First(ctsTable, c)
    PROVE  /\ c.msg = d.msg
           /\ \A w \in recvWqes :
                 /\ w.qp = d.qp /\ First(recvWqes, w)
                 /\ work[d.msg].proto = "Simple"
                 => w.msg = d.msg
  <1> USE OrderShapes
  <1>1. /\ d.msg < fifoHead /\ landed[d.msg] = None /\ d.qp = QpOf(d.msg)
        /\ c.msg < fifoTail /\ landed[c.msg] = None /\ c.qp = QpOf(c.msg)
    BY DEF OrderInv, Waiting, OnOwnQp, HasData, HasCtsEntry
  <1>2. \A k \in Msgs : /\ k < fifoHead /\ landed[k] = None /\ QpOf(k) = d.qp
                        => d.msg <= k
    BY DEF OrderInv, Waiting, OnOwnQp, HasData, First
  <1>3. \A k \in Msgs : /\ k < fifoTail /\ landed[k] = None /\ QpOf(k) = d.qp
                        => c.msg <= k
    <2> SUFFICES ASSUME NEW k \in Msgs, k < fifoTail, landed[k] = None,
                        QpOf(k) = d.qp
                 PROVE  c.msg <= k
      OBVIOUS
    <2>1. CASE HasCtsEntry(k)
      BY <2>1 DEF HasCtsEntry, OrderInv, OnOwnQp, First
    <2>2. CASE HasCtsWqe(k)
      BY <2>2 DEF HasCtsWqe, OrderInv, OnOwnQp, WqesDistinct
    <2> QED
      BY <2>1, <2>2 DEF OrderInv, Waiting
  <1>4. c.msg = d.msg
    <2>1. c.msg < d.msg => d.msg <= c.msg
      <3>1. c.msg \in Msgs /\ d.msg \in Msgs
        OBVIOUS
      <3>2. c.msg < d.msg => c.msg < fifoHead
        BY <1>1, <3>1
      <3> QED
        BY <1>1, <1>2, <3>1, <3>2
    <2>2. d.msg < c.msg => c.msg <= d.msg
      BY <1>1, <1>3
    <2> QED
      BY <2>1, <2>2
  <1>5. ASSUME NEW w \in recvWqes, w.qp = d.qp, First(recvWqes, w),
               work[d.msg].proto = "Simple"
        PROVE  w.msg = d.msg
    <2>1. HasRecvWqe(d.msg)
      BY <1>1, <1>4, <1>5 DEF OrderInv, Waiting
    <2>2. w.msg <= d.msg
      BY <2>1, <1>1, <1>5 DEF HasRecvWqe, First, OrderInv, OnOwnQp
    <2>3. w.msg < fifoTail
      BY <1>1, <1>4, <2>2
    <2>4. landed[w.msg] = None /\ QpOf(w.msg) = d.qp
      BY <2>3, <1>5 DEF OrderInv, Waiting, HasRecvWqe, OnOwnQp
    <2> QED
      BY <1>3, <1>4, <2>2, <2>3, <2>4
  <1> QED
    BY <1>4, <1>5

LEMMA DeliverOrderInv ==
    ASSUME TypeOK, OrderInv, NEW q \in Qps, Deliver(q)
    PROVE  /\ OrderInv'
           /\ \E m \in Msgs : /\ m < fifoHead /\ m < fifoTail
                              /\ landed[m] = None
                              /\ landed' = [landed EXCEPT ![m] = m]
  <1> USE OrderShapes
  <1>1. PICK d \in dataWqes, c \in ctsTable :
          /\ d.qp = q /\ First(dataWqes, d)
          /\ c.qp = q /\ First(ctsTable, c)
          /\ dataWqes' = dataWqes \ {d}
          /\ ctsTable' = ctsTable \ {c}
          /\ landed' = [landed EXCEPT ![c.msg] = d.msg]
          /\ IF d.opcode = "RDMA_WRITE_WITH_IMM"
             THEN \E w \in recvWqes : /\ w.qp = q /\ First(recvWqes, w)
                                      /\ recvWqes' = recvWqes \ {w}
             ELSE UNCHANGED recvWqes
    BY DEF Deliver
  <1>2. UNCHANGED <<fifoHead, sQpIndex, sStep, fifoTail, rQpIndex, rStep, rRes,
                    ctsWqes, work>>
    BY DEF Deliver, sVars, rVars
  <1> DEFINE m == d.msg
  <1>3. /\ m \in Msgs /\ c.msg = m /\ landed' = [landed EXCEPT ![m] = m]
    BY <1>1, FirstsMatch
  <1>4. m < fifoHead /\ m < fifoTail /\ landed[m] = None
    BY <1>1, <1>3 DEF OrderInv, Waiting, HasData, HasCtsEntry
  <1>5. landed'[m] = m /\ \A u \in Msgs : u # m => landed'[u] = landed[u]
    BY <1>3
  <1>6. \A v \in ctsTable : v.msg = m => v = c
    BY <1>1, <1>3 DEF OrderInv, OnOwnQp, TypeOK, WireTypeOK, Place
  <1>7. d.opcode = "RDMA_WRITE_WITH_IMM" <=> work[m].proto = "Simple"
    BY <1>3, WorkType DEF OrderInv, DataTrue, DataOpcode
  <1>8. \A u \in Msgs : /\ HasData(u)' <=> (HasData(u) /\ u # m)
                        /\ HasCtsEntry(u)' <=> (HasCtsEntry(u) /\ u # m)
                        /\ HasCtsWqe(u)' <=> HasCtsWqe(u)
    BY <1>1, <1>2, <1>3, <1>6
    DEF HasData, HasCtsEntry, HasCtsWqe, OrderInv, WqesDistinct
  <1>9. ~HasCtsWqe(m)
    BY <1>1, <1>3 DEF HasCtsWqe, OrderInv, WqesDistinct, OnOwnQp
  <1>10. /\ recvWqes' \subseteq recvWqes
         /\ \A u \in Msgs : u # m => (HasRecvWqe(u)' <=> HasRecvWqe(u))
         /\ ~HasRecvWqe(m)'
    <2>1. CASE work[m].proto = "Simple"
      <3>1. PICK w \in recvWqes : /\ w.qp = q /\ First(recvWqes, w)
                                  /\ recvWqes' = recvWqes \ {w}
        BY <1>1, <1>7, <2>1
      <3>2. w.msg = m
        BY <1>1, <2>1, <3>1, FirstsMatch
      <3> QED
        BY <3>1, <3>2 DEF HasRecvWqe, OrderInv, WqesDistinct
    <2>2. CASE work[m].proto # "Simple"
      BY <1>1, <1>3, <1>4, <1>7, <2>2 DEF HasRecvWqe, OrderInv, Waiting
    <2> QED
      BY <2>1, <2>2
  <1>11. Counters'
    BY <1>2 DEF OrderInv, Counters, QpOf
  <1>12. OnOwnQp' /\ DataTrue'
    BY <1>1, <1>2, <1>10 DEF OrderInv, OnOwnQp, DataTrue, DataOpcode, QpOf
  <1>13. Waiting'
    <2>1. \A u \in Msgs : u # m =>
             /\ HasData(u)' <=> (u < fifoHead' /\ landed'[u] = None)
             /\ (HasCtsWqe(u)' \/ HasCtsEntry(u)')
                   <=> (u < fifoTail' /\ landed'[u] = None)
             /\ u < fifoTail' =>
                  (HasRecvWqe(u)'
                     <=> (work'[u].proto = "Simple" /\ landed'[u] = None))
             /\ landed'[u] # None =>
                  landed'[u] = u /\ u < fifoHead' /\ u < fifoTail'
      BY <1>2, <1>5, <1>8, <1>10 DEF OrderInv, Waiting
    <2>2. /\ landed'[m] # None /\ landed'[m] = m
          /\ m < fifoHead' /\ m < fifoTail'
      BY <1>2, <1>3, <1>4, <1>5
    <2>3. ~HasData(m)' /\ ~HasCtsWqe(m)' /\ ~HasCtsEntry(m)' /\ ~HasRecvWqe(m)'
      BY <1>3, <1>8, <1>9, <1>10
    <2> HIDE DEF m
    <2> QED
      BY <2>1, <2>2, <2>3 DEF Waiting
  <1>14. WqesDistinct' /\ RecvWqesKnown'
    BY <1>1, <1>2, <1>10 DEF OrderInv, WqesDistinct, RecvWqesKnown
  <1> QED
    BY <1>3, <1>4, <1>11, <1>12, <1>13, <1>14 DEF OrderInv

LEMMA NextOrderInv == TypeOK /\ OrderInv /\ [Next]_vars => OrderInv'
  <1> SUFFICES ASSUME TypeOK, OrderInv, [Next]_vars PROVE OrderInv'
    OBVIOUS
  <1> USE OrderShapes
  <1>1. PostsNothing => OrderInv'
    BY OrderInvFrame
  <1>2. CASE Send
    <2>1. ASSUME NEW t \in Msgs, SendTestDone(t) PROVE PostsNothing
      BY <2>1
      DEF PostsNothing, SendTestDone, rVars, sQueues, rQueues, wire, SendStep
    <2>2. ASSUME NEW r \in ReqIds, SendTestPoll(r) PROVE PostsNothing
      BY <2>2 DEF PostsNothing, SendTestPoll, rVars, rQueues, wire
    <2> QED
      BY <1>1, <1>2, <2>1, <2>2, IsendOrderInv DEF Send
  <1>3. CASE Recv
    <2>1. ASSUME NEW t \in Msgs, Flush(t) PROVE PostsNothing
      BY <2>1 DEF PostsNothing, Flush, sVars, sQueues, wire, RecvStep
    <2>2. ASSUME NEW t \in Msgs, RecvTestDone(t) PROVE PostsNothing
      BY <2>2
      DEF PostsNothing, RecvTestDone, sVars, sQueues, rQueues, wire, RecvStep
    <2>3. ASSUME NEW t \in Msgs, Consume(t) PROVE PostsNothing
      BY <2>3
      DEF PostsNothing, Consume, sVars, sQueues, rQueues, wire, RecvStep
    <2>4. ASSUME NEW r \in ReqIds, RecvTestPoll(r) PROVE PostsNothing
      BY <2>4 DEF PostsNothing, RecvTestPoll, sVars, sQueues, wire
    <2> QED
      BY <1>1, <1>3, <2>1, <2>2, <2>3, <2>4, IrecvDefaultOrderInv,
         IrecvPostCTSOrderInv DEF Recv
  <1>4. CASE Nic
    <2>1. ASSUME NEW q \in Qps, Ack(q) PROVE PostsNothing
      BY <2>1 DEF PostsNothing, Ack, sVars, rVars, sQueues, rQueues
    <2>2. ASSUME FlushRead PROVE PostsNothing
      BY <2>2 DEF PostsNothing, FlushRead, sVars, rVars, sQueues, wire
    <2> QED
      BY <1>1, <1>4, <2>1, <2>2, CtsArriveOrderInv, DeliverOrderInv DEF Nic
  <1>5. CASE Fault
    <2>1. ASSUME NEW t \in Msgs,
                 PostSendFails(t) \/ PostRecvFails(t) \/ PostFlushFails(t)
          PROVE  PostsNothing
      BY <2>1
      DEF PostsNothing, PostSendFails, PostRecvFails, PostFlushFails, sVars,
          rVars, sQueues, rQueues, wire
    <2>2. ASSUME NEW q \in Qps, QpBreaks(q) PROVE PostsNothing
      BY <2>2 DEF PostsNothing, QpBreaks, sVars, rVars, sQueues, rQueues, wire
    <2>3. ASSUME NEW r \in ReqIds, SendTestError(r) \/ RecvTestError(r)
          PROVE  PostsNothing
      BY <2>3
      DEF PostsNothing, SendTestError, RecvTestError, sVars, rVars, sQueues,
          rQueues, wire
    <2> QED
      BY <1>1, <1>5, <2>1, <2>2, <2>3, PostFifoFailsOrderInv DEF Fault
  <1>6. CASE UNCHANGED vars
    BY <1>1, <1>6 DEF PostsNothing, vars, sVars, rVars, sQueues, rQueues, wire
  <1> QED
    BY <1>2, <1>3, <1>4, <1>5, <1>6 DEF Next, Finished

\* The data of the t-th send, and of no other, lands in the buffer of the t-th
\* receive: on every number of QPs, through failing posts and broken QPs, the
\* two independent qpIndex counters pair the right CTS with the right data.
THEOREM LandsInOrderCorrect == Spec => []LandsInOrder
  <1>1. Init => TypeOK /\ OrderInv
    BY InitTypeOK, InitOrderInv
  <1>2. TypeOK /\ OrderInv /\ [Next]_vars => (TypeOK /\ OrderInv)'
    BY NextTypeOK, NextOrderInv
  <1>3. TypeOK /\ OrderInv => LandsInOrder
    BY DEF OrderInv, Waiting, LandsInOrder
  <1> QED
    BY <1>1, <1>2, <1>3, PTL DEF Spec

-----------------------------------------------------------------------------
(* The window of the callers, and the slots of the size FIFO *)

LEMMA InitWindowInv == Init => WindowInv
  BY DEF Init, WindowInv

LEMMA NextWindowInv ==
    TypeOK /\ OrderInv /\ WindowInv /\ [Next]_vars => WindowInv'
  <1> SUFFICES ASSUME TypeOK, OrderInv, WindowInv, [Next]_vars
               PROVE  WindowInv'
    OBVIOUS
  <1> USE OrderShapes
  <1> DEFINE SendKept == /\ fifoHead' = fifoHead
                         /\ \A t \in Msgs : sStep'[t].st = "posted" =>
                                             sStep[t].st = "posted"
             RecvKept == /\ fifoTail' = fifoTail
                         /\ \A t \in Msgs :
                               rStep'[t].st \notin {"idle", "done"} =>
                                  rStep[t].st \notin {"idle", "done"}
  <1>1. SendKept /\ RecvKept => WindowInv'
    BY DEF WindowInv
  <1>2. ASSUME NEW t \in Msgs, Isend(t) PROVE WindowInv'
    <2>1. PICK r \in ReqIds :
             sStep' = [sStep EXCEPT ![t] = [st |-> "posted", req |-> r]]
      BY <1>2 DEF Isend
    <2>2. t = fifoHead /\ fifoHead' = fifoHead + 1 /\ UNCHANGED rVars
      BY <1>2, PostsInOrder DEF Isend, SendMayPost
    <2>3. \A u \in Msgs : sStep[u].st = "posted" => ~(u + Window <= t)
      BY <1>2 DEF Isend, SendMayPost, MayPost
    <2>4. \A u \in Msgs : sStep'[u].st = "posted" => fifoHead' <= u + Window
      BY <2>1, <2>2, <2>3, ConstantsAssumption
    <2> QED
      BY <2>2, <2>4 DEF WindowInv, rVars
  <1>3. ASSUME NEW t \in Msgs, IrecvDefault(t) \/ IrecvPostCTS(t)
        PROVE  WindowInv'
    <2>1. PICK r \in ReqIds :
             /\ rStep' = [rStep EXCEPT ![t] =
                            [st |-> "posted", req |-> r, size |-> 0]]
             /\ fifoTail' = fifoTail + 1
      BY <1>3 DEF IrecvDefault, IrecvPostCTS, PostFifo
    <2>2. t = fifoTail /\ UNCHANGED sVars
      BY <1>3, PostsInOrder DEF IrecvDefault, IrecvPostCTS, RecvMayPost
    <2>3. \A u \in Msgs : rStep[u].st # "done" => ~(u + Window <= t)
      BY <1>3 DEF IrecvDefault, IrecvPostCTS, RecvMayPost, MayPost
    <2>4. \A u \in Msgs : rStep'[u].st \notin {"idle", "done"} =>
                             fifoTail' <= u + Window
      BY <2>1, <2>2, <2>3, ConstantsAssumption
    <2> QED
      BY <2>2, <2>4 DEF WindowInv, sVars
  <1>4. CASE Send
    <2>1. ASSUME NEW t \in Msgs, SendTestDone(t) PROVE SendKept /\ RecvKept
      BY <2>1 DEF SendTestDone, rVars, SendStep
    <2>2. ASSUME NEW r \in ReqIds, SendTestPoll(r) PROVE SendKept /\ RecvKept
      BY <2>2 DEF SendTestPoll, rVars
    <2> QED
      BY <1>1, <1>2, <1>4, <2>1, <2>2 DEF Send
  <1>5. CASE Recv
    <2>1. ASSUME NEW t \in Msgs, Flush(t) PROVE SendKept /\ RecvKept
      BY <2>1 DEF Flush, sVars, RecvStep
    <2>2. ASSUME NEW t \in Msgs, RecvTestDone(t) PROVE SendKept /\ RecvKept
      BY <2>2 DEF RecvTestDone, sVars, RecvStep
    <2>3. ASSUME NEW t \in Msgs, Consume(t) PROVE SendKept /\ RecvKept
      BY <2>3 DEF Consume, sVars, RecvStep
    <2>4. ASSUME NEW r \in ReqIds, RecvTestPoll(r) PROVE SendKept /\ RecvKept
      BY <2>4 DEF RecvTestPoll, sVars
    <2> QED
      BY <1>1, <1>3, <1>5, <2>1, <2>2, <2>3, <2>4 DEF Recv
  <1>6. CASE Nic \/ Fault \/ Finished \/ UNCHANGED vars
    <2>1. UNCHANGED <<fifoHead, sStep, fifoTail, rStep>>
      BY <1>6 DEF Nic, CtsArrive, Deliver, Ack, FlushRead, Fault, PostSendFails,
                  PostRecvFails, PostFifoFails, PostFlushFails, QpBreaks,
                  SendTestError, RecvTestError, Finished, vars, sVars, rVars
    <2> QED
      BY <1>1, <2>1
  <1> QED
    BY <1>4, <1>5, <1>6 DEF Next

\* No two open receives share a slot, and the slot at the tail is free when the
\* caller may post.
LEMMA OpenSlotsDistinct ==
    ASSUME TypeOK, OrderInv, WindowInv, NEW t \in Msgs, rStep[t].st = "posted"
    PROVE  /\ \A u \in Msgs :
                rStep[u].st = "posted" /\ SlotOf(u) = SlotOf(t) => u = t
           /\ \A u \in Msgs : RecvMayPost(u) => RecvSlot # SlotOf(t)
  <1> USE OrderShapes, ConstantsAssumption
  <1>1. \A u \in Msgs : rStep[u].st = "posted" =>
                           u < fifoTail /\ fifoTail <= u + MaxRequests
    <2> SUFFICES ASSUME NEW u \in Msgs, rStep[u].st = "posted"
                 PROVE  u < fifoTail /\ fifoTail <= u + MaxRequests
      OBVIOUS
    <2>1. u < fifoTail
      BY DEF OrderInv, Counters
    <2>2. fifoTail <= u + Window
      BY DEF WindowInv
    <2> QED
      BY <2>1, <2>2
  <1>2. ASSUME NEW u \in Msgs, rStep[u].st = "posted", SlotOf(u) = SlotOf(t)
        PROVE  u = t
    <2>1. u < t + MaxRequests /\ t < u + MaxRequests
      BY <1>1, <1>2
    <2>2. CASE u <= t
      BY <1>2, <2>1, <2>2, ModInjective DEF SlotOf
    <2>3. CASE t <= u
      BY <1>2, <2>1, <2>3, ModInjective DEF SlotOf
    <2> QED
      BY <2>2, <2>3
  <1>3. ASSUME NEW u \in Msgs, RecvMayPost(u), RecvSlot = SlotOf(t) PROVE FALSE
    <2>1. u = fifoTail /\ ~(t + Window <= u)
      BY <1>3, PostsInOrder DEF RecvMayPost, MayPost
    <2>2. t <= fifoTail /\ fifoTail < t + MaxRequests /\ t # fifoTail
      BY <1>1, <2>1
    <2> QED
      BY <1>3, <2>2, ModInjective DEF SlotOf, RecvSlot
  <1> QED
    BY <1>2, <1>3

-----------------------------------------------------------------------------
(* What completions carry *)

LEMMA InitCqeSizes == Init => CqeSizes
  BY DEF Init, CqeSizes, Cqes

LEMMA NextCqeSizes ==
    TypeOK /\ OrderInv /\ CqeSizes /\ [Next]_vars => CqeSizes'
  <1> SUFFICES ASSUME TypeOK, OrderInv, CqeSizes, [Next]_vars
               PROVE  CqeSizes'
    OBVIOUS
  <1> USE OrderShapes
  <1>1. ASSUME UNCHANGED work,
               \A c \in rCq' \ rCq : c.opcode # "RECV_RDMA_WITH_IMM"
        PROVE  CqeSizes'
    BY <1>1 DEF CqeSizes, Cqes
  <1>2. ASSUME NEW q \in Qps, Deliver(q) PROVE CqeSizes'
    <2>1. PICK d \in dataWqes, c \in ctsTable :
            /\ d.qp = q /\ First(dataWqes, d)
            /\ c.qp = q /\ First(ctsTable, c)
            /\ IF d.opcode = "RDMA_WRITE_WITH_IMM"
               THEN \E w \in recvWqes :
                      /\ w.qp = q /\ First(recvWqes, w)
                      /\ rCq' = rCq \cup
                            {[msg |-> w.msg, qp |-> q, wr_id |-> w.wr_id,
                              size |-> d.size, opcode |-> "RECV_RDMA_WITH_IMM"]}
               ELSE UNCHANGED rCq
      BY <1>2 DEF Deliver
    <2>2. UNCHANGED work
      BY <1>2 DEF Deliver
    <2>3. CASE d.opcode = "RDMA_WRITE_WITH_IMM"
      <3>1. PICK w \in recvWqes :
              /\ w.qp = q /\ First(recvWqes, w)
              /\ rCq' = rCq \cup
                    {[msg |-> w.msg, qp |-> q, wr_id |-> w.wr_id,
                      size |-> d.size, opcode |-> "RECV_RDMA_WITH_IMM"]}
        BY <2>1, <2>3
      <3>2. work[d.msg].proto = "Simple" /\ d.size = work[d.msg].size
        BY <2>3, WorkType DEF OrderInv, DataTrue, DataOpcode
      <3>3. w.msg = d.msg
        BY <2>1, <3>1, <3>2, FirstsMatch
      <3> QED
        BY <2>2, <3>1, <3>2, <3>3 DEF CqeSizes, Cqes
    <2>4. CASE d.opcode # "RDMA_WRITE_WITH_IMM"
      BY <1>1, <2>1, <2>2, <2>4
    <2> QED
      BY <2>3, <2>4
  <1>3. ASSUME NEW q \in Qps, CtsArrive(q) PROVE CqeSizes'
    BY <1>1, <1>3 DEF CtsArrive
  <1>4. CASE FlushRead
    BY <1>1, <1>4 DEF FlushRead
  <1>5. ASSUME NEW r \in ReqIds, RecvTestPoll(r) PROVE CqeSizes'
    BY <1>1, <1>5 DEF RecvTestPoll
  <1>6. ASSUME NEW q \in Qps, Ack(q) PROVE CqeSizes'
    BY <1>1, <1>6 DEF Ack
  <1>7. CASE Send \/ Fault \/ Finished \/ UNCHANGED vars
    <2>1. UNCHANGED <<rCq, work>>
      BY <1>7 DEF Send, Isend, SendTestDone, SendTestPoll, Fault, PostSendFails,
                  PostRecvFails, PostFifoFails, PostFlushFails, QpBreaks,
                  SendTestError, RecvTestError, Finished, vars
    <2> QED
      BY <1>1, <2>1
  <1>8. ASSUME NEW t \in Msgs,
               \/ IrecvDefault(t) \/ IrecvPostCTS(t) \/ Flush(t)
               \/ RecvTestDone(t) \/ Consume(t)
        PROVE  CqeSizes'
    <2>1. UNCHANGED <<rCq, work>>
      BY <1>8 DEF IrecvDefault, IrecvPostCTS, Flush, RecvTestDone, Consume
    <2> QED
      BY <1>1, <2>1
  <1> QED
    BY <1>2, <1>3, <1>4, <1>5, <1>6, <1>7, <1>8 DEF Next, Recv, Nic

LEMMA InitSizesInv == Init => SizesInv
  BY DEF Init, SizesInv

\* Steps that write no slot and complete no receive.
SlotsUnwritten ==
    /\ rRes' = "ok" => rRes = "ok"
    /\ UNCHANGED <<sizesFifo, work>>
    /\ \A t \in Msgs : rStep'[t].st = "posted" =>
          /\ rStep[t].st = "posted"
          /\ rStep'[t].req = rStep[t].req
          /\ rReqs'[rStep[t].req].slot = rReqs[rStep[t].req].slot
          /\ HasRecv(t)' <=> HasRecv(t)

LEMMA SizesInvFrame ==
    ASSUME SizesInv, SlotsUnwritten
    PROVE  SizesInv'
  <1> SUFFICES ASSUME rRes' = "ok", NEW t \in Msgs, rStep'[t].st = "posted"
               PROVE  /\ rReqs'[rStep'[t].req].slot = SlotOf(t)
                      /\ sizesFifo'[SlotOf(t)] =
                            IF work'[t].proto = "LL" \/ HasRecv(t)' THEN 0
                            ELSE work'[t].size
    BY DEF SizesInv, SlotOf
  <1>1. /\ rRes = "ok" /\ rStep[t].st = "posted"
        /\ rStep'[t].req = rStep[t].req
        /\ rReqs'[rStep[t].req].slot = rReqs[rStep[t].req].slot
        /\ sizesFifo' = sizesFifo /\ work' = work
    BY DEF SlotsUnwritten
  <1>2. HasRecv(t)' <=> HasRecv(t)
    BY DEF SlotsUnwritten
  <1> QED
    BY <1>1, <1>2 DEF SizesInv

\* Both forms of irecv clear the slot at the tail and give it to message t.
LEMMA IrecvSizesInv ==
    ASSUME TypeOK, RecvInv, OrderInv, WindowInv, SizesInv,
           NEW t \in Msgs, NEW r \in ReqIds, NEW e \in {0, 1}, NEW w,
           RecvMayPost(t), GetRequest(rReqs, r),
           e = 1 <=> work[t].proto = "Simple",
           rReqs' = [rReqs EXCEPT ![r] = RecvRequest(e)],
           rStep' = [rStep EXCEPT ![t] =
                        [st |-> "posted", req |-> r, size |-> 0]],
           sizesFifo' = [sizesFifo EXCEPT ![RecvSlot] = 0],
           w.msg = t,
           recvWqes' = IF e = 1 THEN recvWqes \cup {w} ELSE recvWqes,
           UNCHANGED <<rCq, work, rRes>>
    PROVE  SizesInv'
  <1> USE OrderShapes, RecvShapes
  <1>1. /\ t = fifoTail /\ RecvSlot = SlotOf(t) /\ rRes = "ok"
        /\ rReqs[r].type = "UNUSED" /\ rStep[t].st = "idle"
        /\ RecvSlot \in Slots
    BY PostsInOrder, SlotsInRange
    DEF RecvMayPost, MayPost, GetRequest, RecvSlot, SlotOf
  <1>2. sizesFifo \in [Slots -> Nat]
    BY DEF TypeOK, RecvTypeOK
  <1>3. Cqes("RECV_RDMA_WITH_IMM")' = Cqes("RECV_RDMA_WITH_IMM")
    BY DEF Cqes
  <1> SUFFICES ASSUME NEW u \in Msgs, rStep'[u].st = "posted"
               PROVE  /\ rReqs'[rStep'[u].req].slot = SlotOf(u)
                      /\ sizesFifo'[SlotOf(u)] =
                            IF work[u].proto = "LL" \/ HasRecv(u)' THEN 0
                            ELSE work[u].size
    BY DEF SizesInv, SlotOf
  <1>4. CASE u = t
    <2>1. rStep'[t].req = r /\ rReqs'[r].slot = RecvSlot
      BY DEF RecvRequest
    <2>2. work[t].proto # "LL" => HasRecv(t)'
      BY WorkType DEF HasRecv, HasMsg
    <2>3. sizesFifo'[SlotOf(t)] = 0
      BY <1>1, <1>2
    <2> QED
      BY <1>1, <1>4, <2>1, <2>2, <2>3
  <1>5. CASE u # t
    <2>1. rStep'[u] = rStep[u] /\ rStep[u].st = "posted"
      BY <1>5
    <2>2. rStep[u].req \in ReqIds /\ rReqs[rStep[u].req].type = "RECV"
      BY <1>1, <2>1 DEF RecvInv, RecvRequests, RecvStep
    <2>3. rReqs'[rStep'[u].req] = rReqs[rStep[u].req]
      BY <1>1, <2>1, <2>2
    <2>4. SlotOf(u) # RecvSlot /\ SlotOf(u) \in Slots
      BY <2>1, OpenSlotsDistinct, ModRange, ConstantsAssumption
      DEF SlotOf, Slots
    <2>5. sizesFifo'[SlotOf(u)] = sizesFifo[SlotOf(u)]
      BY <1>1, <1>2, <2>4
    <2>6. HasRecv(u)' <=> HasRecv(u)
      BY <1>3, <1>5 DEF HasRecv, HasMsg
    <2> QED
      BY <1>1, <2>1, <2>3, <2>5, <2>6 DEF SizesInv
  <1> QED
    BY <1>4, <1>5

\* A polled receive completion writes the slot of its own message, from 0 to
\* the size of the message, and no other open slot.
LEMMA PolledSlot ==
    ASSUME TypeOK, RecvInv, OrderInv, WindowInv, CqeSizes, SizesInv,
           rRes = "ok", NEW c \in rCq, c.opcode = "RECV_RDMA_WITH_IMM"
    PROVE  /\ c.msg \in Msgs /\ rStep[c.msg].st = "posted"
           /\ rReqs[c.wr_id].slot = SlotOf(c.msg)
           /\ rReqs[c.wr_id].type = "RECV"
           /\ c.size = work[c.msg].size /\ work[c.msg].proto = "Simple"
           /\ sizesFifo[SlotOf(c.msg)] = 0
           /\ \A u \in Msgs : rStep[u].st = "posted" /\ u # c.msg =>
                                 SlotOf(u) # SlotOf(c.msg)
  <1>1. /\ c.msg \in Msgs /\ rStep[c.msg].st = "posted"
        /\ rStep[c.msg].req = c.wr_id
    BY RecvShapes DEF RecvInv, RecvOwnership, RecvOwned
  <1>2. rReqs[c.wr_id].slot = SlotOf(c.msg)
    BY <1>1 DEF SizesInv
  <1>3. rReqs[c.wr_id].type = "RECV"
    BY <1>1 DEF RecvInv, RecvRequests
  <1>4. HasRecv(c.msg)
    BY DEF HasRecv, HasMsg, Cqes
  <1>5. sizesFifo[SlotOf(c.msg)] = 0
    BY <1>1, <1>4 DEF SizesInv
  <1>6. c.size = work[c.msg].size /\ work[c.msg].proto = "Simple"
    BY DEF CqeSizes, Cqes
  <1>7. \A u \in Msgs : rStep[u].st = "posted" /\ u # c.msg =>
                           SlotOf(u) # SlotOf(c.msg)
    BY <1>1, OpenSlotsDistinct
  <1> QED
    BY <1>1, <1>2, <1>3, <1>5, <1>6, <1>7

LEMMA RecvTestPollSizesInv ==
    ASSUME TypeOK, RecvInv, OrderInv, WindowInv, CqeSizes, SizesInv,
           NEW r \in ReqIds, RecvTestPoll(r)
    PROVE  SizesInv'
  <1> USE OrderShapes, RecvShapes
  <1>1. PICK c \in rCq :
          /\ rCq' = rCq \ {c}
          /\ IF c.opcode = "RECV_RDMA_WITH_IMM" /\ rReqs[c.wr_id].type # "RECV"
             THEN rRes' = "error" /\ UNCHANGED <<rReqs, sizesFifo>>
             ELSE /\ rReqs' = [rReqs EXCEPT ![c.wr_id].events = @ - 1]
                  /\ sizesFifo' = IF c.opcode = "RECV_RDMA_WITH_IMM"
                                  THEN [sizesFifo EXCEPT
                                          ![rReqs[c.wr_id].slot] = c.size]
                                  ELSE sizesFifo
    BY DEF RecvTestPoll
  <1>2. rRes = "ok" /\ UNCHANGED <<rStep, recvWqes, work>>
    BY DEF RecvTestPoll
  <1>3. \A u \in Msgs : rStep[u].req \in ReqIds
    BY DEF RecvStep
  <1>4. \A i \in ReqIds : rReqs'[i].slot = rReqs[i].slot
    BY <1>1, RecvShapes DEF RecvReq
  <1>5. CASE c.opcode # "RECV_RDMA_WITH_IMM"
    <2>1. Cqes("RECV_RDMA_WITH_IMM")' = Cqes("RECV_RDMA_WITH_IMM")
      BY <1>1, <1>5 DEF Cqes
    <2>2. \A u \in Msgs : HasRecv(u)' <=> HasRecv(u)
      BY <1>2, <2>1 DEF HasRecv, HasMsg
    <2>3. SlotsUnwritten
      BY <1>1, <1>2, <1>3, <1>4, <1>5, <2>2 DEF SlotsUnwritten
    <2> QED
      BY <2>3, SizesInvFrame
  <1>6. CASE c.opcode = "RECV_RDMA_WITH_IMM"
    <2> DEFINE m == c.msg
    <2>1. /\ m \in Msgs /\ rReqs[c.wr_id].slot = SlotOf(m)
          /\ rReqs[c.wr_id].type = "RECV"
          /\ c.size = work[m].size /\ work[m].proto = "Simple"
          /\ \A u \in Msgs : rStep[u].st = "posted" /\ u # m =>
                                SlotOf(u) # SlotOf(m)
      BY <1>2, <1>6, PolledSlot
    <2>2. sizesFifo' = [sizesFifo EXCEPT ![SlotOf(m)] = work[m].size]
      BY <1>1, <1>6, <2>1
    <2>3. /\ ~HasRecv(m)'
          /\ \A u \in Msgs : u # m => (HasRecv(u)' <=> HasRecv(u))
      BY <1>1, <1>2, <1>6
      DEF HasRecv, HasMsg, Cqes, RecvInv, RecvUnique, OncePerMsg
    <2>4. \A u \in Msgs : SlotOf(u) \in Slots
      BY ModRange, ConstantsAssumption DEF SlotOf, Slots
    <2>5. sizesFifo \in [Slots -> Nat]
      BY DEF TypeOK, RecvTypeOK
    <2> SUFFICES ASSUME NEW u \in Msgs, rStep'[u].st = "posted"
                 PROVE  /\ rReqs'[rStep'[u].req].slot = SlotOf(u)
                        /\ sizesFifo'[SlotOf(u)] =
                              IF work'[u].proto = "LL" \/ HasRecv(u)' THEN 0
                              ELSE work'[u].size
      BY DEF SizesInv, SlotOf
    <2>6. rStep'[u].req = rStep[u].req /\ rStep[u].st = "posted"
      BY <1>2
    <2>7. rReqs'[rStep'[u].req].slot = SlotOf(u)
      BY <1>2, <1>3, <1>4, <2>6 DEF SizesInv
    <2>8. CASE u = m
      BY <1>2, <2>1, <2>2, <2>3, <2>4, <2>5, <2>7, <2>8
    <2>9. CASE u # m
      <3>1. sizesFifo'[SlotOf(u)] = sizesFifo[SlotOf(u)]
        BY <2>1, <2>2, <2>4, <2>5, <2>6, <2>9
      <3>2. HasRecv(u)' <=> HasRecv(u)
        BY <2>3, <2>9
      <3> QED
        BY <1>2, <2>6, <2>7, <3>1, <3>2 DEF SizesInv
    <2> QED
      BY <2>8, <2>9
  <1> QED
    BY <1>5, <1>6

LEMMA NextSizesInv ==
    /\ TypeOK /\ RecvInv /\ OrderInv /\ WindowInv /\ CqeSizes /\ SizesInv
    /\ [Next]_vars
    => SizesInv'
  <1> SUFFICES ASSUME TypeOK, RecvInv, OrderInv, WindowInv, CqeSizes, SizesInv,
                      [Next]_vars
               PROVE  SizesInv'
    OBVIOUS
  <1> USE OrderShapes, RecvShapes
  <1>1. SlotsUnwritten => SizesInv'
    BY SizesInvFrame
  <1>2. ASSUME UNCHANGED <<recvWqes, rCq>>
        PROVE  \A u \in Msgs : HasRecv(u)' <=> HasRecv(u)
    BY <1>2 DEF HasRecv, HasMsg, Cqes
  <1>3. ASSUME UNCHANGED <<rRes, sizesFifo, work, rStep, rReqs>>,
               \A u \in Msgs : HasRecv(u)' <=> HasRecv(u)
        PROVE  SlotsUnwritten
    BY <1>3 DEF SlotsUnwritten
  <1>4. ASSUME rRes' = "error" PROVE SizesInv'
    BY <1>4 DEF SizesInv
  <1>5. ASSUME NEW t \in Msgs, IrecvDefault(t) PROVE SizesInv'
    <2>1. PICK r \in ReqIds :
            /\ GetRequest(rReqs, r)
            /\ rReqs' = [rReqs EXCEPT ![r] = RecvRequest(1)]
            /\ recvWqes' = recvWqes \cup
                              {[msg |-> t, qp |-> rQpIndex, wr_id |-> r]}
            /\ PostFifo(t, r)
            /\ rStep' = [rStep EXCEPT ![t] =
                            [st |-> "posted", req |-> r, size |-> 0]]
      BY <1>5 DEF IrecvDefault
    <2>2. /\ RecvMayPost(t) /\ work[t].proto = "Simple"
          /\ UNCHANGED <<rCq, work, rRes>>
      BY <1>5 DEF IrecvDefault
    <2>3. PICK w : w.msg = t /\ recvWqes' = recvWqes \cup {w}
      BY <2>1
    <2>4. /\ sizesFifo' = [sizesFifo EXCEPT ![RecvSlot] = 0]
          /\ 1 \in {0, 1} /\ (1 = 1 <=> work[t].proto = "Simple")
          /\ recvWqes' = IF 1 = 1 THEN recvWqes \cup {w} ELSE recvWqes
      BY <2>1, <2>2, <2>3 DEF PostFifo
    <2> QED
      BY <2>1, <2>2, <2>3, <2>4, IrecvSizesInv
  <1>6. ASSUME NEW t \in Msgs, IrecvPostCTS(t) PROVE SizesInv'
    <2>1. PICK r \in ReqIds :
            /\ GetRequest(rReqs, r)
            /\ rReqs' = [rReqs EXCEPT ![r] = RecvRequest(0)]
            /\ PostFifo(t, r)
            /\ rStep' = [rStep EXCEPT ![t] =
                            [st |-> "posted", req |-> r, size |-> 0]]
      BY <1>6 DEF IrecvPostCTS
    <2>2. /\ RecvMayPost(t) /\ work[t].proto # "Simple"
          /\ UNCHANGED <<recvWqes, rCq, work, rRes>>
      BY <1>6 DEF IrecvPostCTS
    <2>3. PICK w : w.msg = t
      BY [msg |-> t].msg = t
    <2>4. /\ sizesFifo' = [sizesFifo EXCEPT ![RecvSlot] = 0]
          /\ 0 \in {0, 1} /\ (0 = 1 <=> work[t].proto = "Simple")
          /\ recvWqes' = IF 0 = 1 THEN recvWqes \cup {w} ELSE recvWqes
      BY <2>1, <2>2 DEF PostFifo
    <2> QED
      BY <2>1, <2>2, <2>3, <2>4, IrecvSizesInv
  <1>7. ASSUME NEW t \in Msgs, Flush(t) PROVE SizesInv'
    <2>1. /\ UNCHANGED <<rRes, sizesFifo, work, recvWqes, rCq>>
          /\ \A i \in ReqIds : rReqs'[i].slot = rReqs[i].slot
      BY <1>7 DEF Flush, FlushRequest
    <2>2. \A u \in Msgs : rStep'[u].st = "posted" => rStep'[u] = rStep[u]
      BY <1>7 DEF Flush, RecvStep
    <2> QED
      BY <1>1, <1>2, <2>1, <2>2 DEF SlotsUnwritten, RecvStep
  <1>8. ASSUME NEW t \in Msgs, RecvTestDone(t) PROVE SizesInv'
    <2>1. /\ UNCHANGED <<rRes, sizesFifo, work, recvWqes, rCq>>
          /\ \A i \in ReqIds : rReqs'[i].slot = rReqs[i].slot
      BY <1>8 DEF RecvTestDone, FreeRequest, rQueues, RecvReq
    <2>2. \A u \in Msgs : rStep'[u].st = "posted" => rStep'[u] = rStep[u]
      BY <1>8 DEF RecvTestDone, RecvStep
    <2> QED
      BY <1>1, <1>2, <2>1, <2>2 DEF SlotsUnwritten, RecvStep
  <1>9. ASSUME NEW t \in Msgs, Consume(t) PROVE SizesInv'
    <2>1. UNCHANGED <<rRes, sizesFifo, work, rReqs, recvWqes, rCq>>
      BY <1>9 DEF Consume, rQueues
    <2>2. \A u \in Msgs : rStep'[u].st = "posted" => rStep'[u] = rStep[u]
      BY <1>9 DEF Consume, RecvStep
    <2> QED
      BY <1>1, <1>2, <2>1, <2>2 DEF SlotsUnwritten
  <1>10. ASSUME NEW t \in Msgs, PostRecvFails(t) PROVE SizesInv'
    <2>1. /\ UNCHANGED <<rRes, sizesFifo, work, rStep, recvWqes, rCq>>
          /\ \A i \in ReqIds : rReqs'[i].slot = rReqs[i].slot
      BY <1>10 DEF PostRecvFails, rQueues, RecvReq
    <2> QED
      BY <1>1, <1>2, <2>1 DEF SlotsUnwritten, RecvStep
  <1>11. ASSUME NEW q \in Qps, CtsArrive(q) PROVE SizesInv'
    <2>1. UNCHANGED <<rRes, sizesFifo, work, rStep, rReqs, recvWqes>>
      BY <1>11 DEF CtsArrive, rVars
    <2>2. Cqes("RECV_RDMA_WITH_IMM")' = Cqes("RECV_RDMA_WITH_IMM")
      BY <1>11 DEF CtsArrive, Cqes
    <2> QED
      BY <1>1, <1>3, <2>1, <2>2 DEF HasRecv, HasMsg
  <1>12. ASSUME FlushRead PROVE SizesInv'
    <2>1. UNCHANGED <<rRes, sizesFifo, work, rStep, rReqs, recvWqes>>
      BY <1>12 DEF FlushRead, rVars
    <2>2. Cqes("RECV_RDMA_WITH_IMM")' = Cqes("RECV_RDMA_WITH_IMM")
      BY <1>12 DEF FlushRead, Cqes
    <2> QED
      BY <1>1, <1>3, <2>1, <2>2 DEF HasRecv, HasMsg
  <1>13. ASSUME NEW q \in Qps, Deliver(q) PROVE SizesInv'
    <2>1. UNCHANGED <<rRes, sizesFifo, work, rStep, rReqs>>
      BY <1>13 DEF Deliver, rVars
    <2>2. \/ UNCHANGED <<recvWqes, rCq>>
          \/ \E w \in recvWqes : \E c :
                /\ c.msg = w.msg /\ c.opcode = "RECV_RDMA_WITH_IMM"
                /\ recvWqes' = recvWqes \ {w} /\ rCq' = rCq \cup {c}
      BY <1>13 DEF Deliver
    <2>3. CASE UNCHANGED <<recvWqes, rCq>>
      BY <1>1, <1>2, <1>3, <2>1, <2>3
    <2>4. ASSUME NEW w \in recvWqes, NEW c, c.msg = w.msg,
                 c.opcode = "RECV_RDMA_WITH_IMM",
                 recvWqes' = recvWqes \ {w}, rCq' = rCq \cup {c}
          PROVE  SizesInv'
      <3>1. \A u \in Msgs : HasRecv(u)' <=> HasRecv(u)
        BY <2>4 DEF HasRecv, HasMsg, Cqes
      <3> QED
        BY <1>1, <1>3, <2>1, <3>1
    <2> QED
      BY <2>2, <2>3, <2>4
  <1>14. CASE Send \/ Finished \/ UNCHANGED vars
    <2>1. UNCHANGED <<rRes, sizesFifo, work, rStep, rReqs, recvWqes, rCq>>
      BY <1>14 DEF Send, Isend, SendTestDone, SendTestPoll, Finished, vars,
                   rVars, rQueues
    <2> QED
      BY <1>1, <1>2, <1>3, <2>1
  <1>15. ASSUME NEW q \in Qps, Ack(q) \/ QpBreaks(q) PROVE SizesInv'
    <2>1. UNCHANGED <<rRes, sizesFifo, work, rStep, rReqs, recvWqes, rCq>>
      BY <1>15 DEF Ack, QpBreaks, rVars, rQueues
    <2> QED
      BY <1>1, <1>2, <1>3, <2>1
  <1>16. ASSUME NEW t \in Msgs, PostSendFails(t) PROVE SizesInv'
    <2>1. UNCHANGED <<rRes, sizesFifo, work, rStep, rReqs, recvWqes, rCq>>
      BY <1>16 DEF PostSendFails, rVars, rQueues
    <2> QED
      BY <1>1, <1>2, <1>3, <2>1
  <1>17. ASSUME NEW t \in Msgs, PostFifoFails(t) \/ PostFlushFails(t)
         PROVE  SizesInv'
    BY <1>4, <1>17 DEF PostFifoFails, PostFlushFails
  <1>18. ASSUME NEW r \in ReqIds, SendTestError(r) PROVE SizesInv'
    <2>1. UNCHANGED <<rRes, sizesFifo, work, rStep, rReqs, recvWqes, rCq>>
      BY <1>18 DEF SendTestError, rVars, rQueues
    <2> QED
      BY <1>1, <1>2, <1>3, <2>1
  <1>19. ASSUME NEW r \in ReqIds, RecvTestError(r) PROVE SizesInv'
    BY <1>4, <1>19 DEF RecvTestError
  <1>20. CASE Recv
    BY <1>5, <1>6, <1>7, <1>8, <1>9, <1>20, RecvTestPollSizesInv DEF Recv
  <1>21. CASE Nic
    BY <1>11, <1>12, <1>13, <1>15, <1>21 DEF Nic
  <1>22. CASE Fault
    BY <1>10, <1>15, <1>16, <1>17, <1>18, <1>19, <1>22 DEF Fault
  <1> QED
    BY <1>14, <1>20, <1>21, <1>22 DEF Next

-----------------------------------------------------------------------------
(* What the callers are told *)

\* When anpNetTest reports a send, its data is in the buffer.
LEMMA SendReportTrue ==
    ASSUME TypeOK, SendInv, OrderInv, NEW t \in Msgs, SendTestDone(t)
    PROVE  landed[t] = t
  <1> USE OrderShapes
  <1>1. /\ sRes = "ok" /\ sStep[t].st = "posted"
        /\ sReqs[sStep[t].req].events = 0
    BY DEF SendTestDone, TestDone
  <1>2. ~InFlight(t)
    BY <1>1 DEF SendInv, SendRequests
  <1>3. ~HasData(t)
    BY <1>2 DEF InFlight, HasData
  <1>4. t < fifoHead
    BY <1>1 DEF OrderInv, Counters
  <1> QED
    BY <1>3, <1>4 DEF OrderInv, Waiting

\* When anpNetTest reports a receive that wants its completion, the data is
\* there and the slot holds its size; otherwise the slot holds 0.
LEMMA RecvReportTrue ==
    ASSUME TypeOK, RecvInv, OrderInv, SizesInv, NEW t \in Msgs,
           RecvTestDone(t), rStep[t].st = "posted"
    PROVE  IF work[t].proto = "LL"
           THEN sizesFifo[rReqs[rStep[t].req].slot] = 0
           ELSE /\ landed[t] = t
                /\ sizesFifo[rReqs[rStep[t].req].slot] = work[t].size
  <1> USE OrderShapes
  <1>1. rRes = "ok" /\ rReqs[rStep[t].req].events = 0
    BY DEF RecvTestDone, TestDone
  <1>2. Count(HasRecv(t)) + Count(HasCts(t)) = 0
    BY <1>1 DEF RecvInv, RecvRequests
  <1>3. ~HasRecv(t)
    BY <1>2 DEF Count
  <1>4. sizesFifo[rReqs[rStep[t].req].slot] =
           IF work[t].proto = "LL" THEN 0 ELSE work[t].size
    BY <1>1, <1>3 DEF SizesInv
  <1>5. t < fifoTail
    BY DEF OrderInv, Counters
  <1>6. ~HasRecvWqe(t)
    BY <1>3 DEF HasRecv, HasMsg, HasRecvWqe
  <1>7. work[t].proto # "LL" => landed[t] = t
    BY <1>5, <1>6, WorkType DEF OrderInv, Waiting
  <1> QED
    BY <1>4, <1>7

\* What makes the reports inductive.
TransportInv ==
    /\ TypeOK /\ SendInv /\ RecvInv /\ OrderInv
    /\ WindowInv /\ CqeSizes /\ SizesInv

LEMMA InitTransportInv == Init => TransportInv
  BY InitTypeOK, InitSendInv, InitRecvInv, InitOrderInv, InitWindowInv,
     InitCqeSizes, InitSizesInv DEF TransportInv

LEMMA NextTransportInv == TransportInv /\ [Next]_vars => TransportInv'
  BY NextTypeOK, NextSendInv, NextRecvInv, NextOrderInv, NextWindowInv,
     NextCqeSizes, NextSizesInv DEF TransportInv

\* Data that landed stays: the only change of a buffer fills it.
LEMMA LandedStays ==
    ASSUME TransportInv, [Next]_vars
    PROVE  /\ UNCHANGED work
           /\ \A t \in Msgs : landed[t] = t => landed'[t] = t
  <1>1. CASE Send \/ Recv \/ Fault \/ Finished \/ UNCHANGED vars
    <2>1. CASE Send
      BY <2>1 DEF Send, Isend, SendTestDone, SendTestPoll, wire
    <2>2. CASE Recv
      BY <2>2 DEF Recv, IrecvDefault, IrecvPostCTS, Flush, RecvTestDone, Consume,
                  RecvTestPoll, wire
    <2>3. CASE Fault
      BY <2>3 DEF Fault, PostSendFails, PostRecvFails, PostFifoFails,
                  PostFlushFails, QpBreaks, SendTestError, RecvTestError, wire
    <2>4. CASE Finished \/ UNCHANGED vars
      BY <2>4 DEF Finished, vars, wire
    <2> QED
      BY <1>1, <2>1, <2>2, <2>3, <2>4
  <1>2. ASSUME NEW q \in Qps, Deliver(q)
        PROVE  /\ UNCHANGED work
               /\ \A t \in Msgs : landed[t] = t => landed'[t] = t
    <2>1. PICK m \in Msgs : landed' = [landed EXCEPT ![m] = m]
      BY <1>2, DeliverOrderInv DEF TransportInv
    <2> QED
      BY <1>2, <2>1, OrderShapes DEF Deliver, TransportInv
  <1>3. CASE Nic
    BY <1>2, <1>3 DEF Nic, CtsArrive, Ack, FlushRead, wire
  <1> QED
    BY <1>1, <1>3 DEF Next

LEMMA NextCompletionsTrue ==
    TransportInv /\ CompletionsTrue /\ [Next]_vars => CompletionsTrue'
  <1> SUFFICES ASSUME TransportInv, CompletionsTrue, [Next]_vars, NEW t \in Msgs
               PROVE  /\ sStep'[t].st = "done" => landed'[t] = t
                      /\ rStep'[t].st \in {"rcvd", "flushing", "done"} =>
                           IF work'[t].proto = "LL" THEN rStep'[t].size = 0
                           ELSE /\ landed'[t] = t
                                /\ rStep'[t].size = work'[t].size
    BY DEF CompletionsTrue
  <1>1. UNCHANGED work /\ (landed[t] = t => landed'[t] = t)
    BY LandedStays
  <1>2. sStep \in [Msgs -> SendStep] /\ rStep \in [Msgs -> RecvStep]
    BY OrderShapes DEF TransportInv
  <1> DEFINE Reported == {"rcvd", "flushing", "done"}
  <1>3. sStep'[t].st = "done" => landed[t] = t
    <2>1. ASSUME NEW u \in Msgs, SendTestDone(u), sStep'[t].st = "done"
          PROVE  landed[t] = t
      <3>1. CASE u = t
        BY <2>1, <3>1, SendReportTrue DEF TransportInv
      <3>2. CASE u # t
        BY <2>1, <3>2, <1>2 DEF SendTestDone, CompletionsTrue
      <3> QED
        BY <3>1, <3>2
    <2>2. ASSUME NEW u \in Msgs, Isend(u), sStep'[t].st = "done"
          PROVE  landed[t] = t
      BY <2>2, <1>2 DEF Isend, CompletionsTrue
    <2>3. CASE sStep' = sStep
      BY <2>3 DEF CompletionsTrue
    <2>4. \/ sStep' = sStep
          \/ \E u \in Msgs : Isend(u) \/ SendTestDone(u)
      <3>1. CASE Send
        BY <3>1 DEF Send, SendTestPoll
      <3>2. CASE Recv \/ Nic \/ Finished \/ UNCHANGED vars
        BY <3>2 DEF Recv, IrecvDefault, IrecvPostCTS, Flush, RecvTestDone,
                    Consume, RecvTestPoll, Nic, CtsArrive, Deliver, Ack,
                    FlushRead, Finished, vars, sVars
      <3>3. CASE Fault
        BY <3>3 DEF Fault, PostSendFails, PostRecvFails, PostFifoFails,
                    PostFlushFails, QpBreaks, SendTestError, RecvTestError, sVars
      <3> QED
        BY <3>1, <3>2, <3>3 DEF Next
    <2> QED
      BY <2>1, <2>2, <2>3, <2>4
  <1>4. rStep'[t].st \in Reported =>
           \/ /\ rStep[t].st \in Reported
              /\ rStep'[t].size = rStep[t].size
           \/ /\ rStep[t].st = "posted" /\ RecvTestDone(t)
              /\ rStep'[t].size = sizesFifo[rReqs[rStep[t].req].slot]
    <2>1. ASSUME NEW u \in Msgs, IrecvDefault(u) \/ IrecvPostCTS(u),
                 rStep'[t].st \in Reported
          PROVE  rStep[t].st \in Reported /\ rStep'[t].size = rStep[t].size
      BY <2>1, <1>2 DEF IrecvDefault, IrecvPostCTS
    <2>2. ASSUME NEW u \in Msgs, Flush(u) \/ Consume(u),
                 rStep'[t].st \in Reported
          PROVE  rStep[t].st \in Reported /\ rStep'[t].size = rStep[t].size
      <3>1. CASE u = t
        BY <2>2, <3>1, <1>2 DEF Flush, Consume, RecvStep
      <3>2. CASE u # t
        BY <2>2, <3>2, <1>2 DEF Flush, Consume, RecvStep
      <3> QED
        BY <3>1, <3>2
    <2>3. ASSUME NEW u \in Msgs, RecvTestDone(u), rStep'[t].st \in Reported
          PROVE  \/ /\ rStep[t].st \in Reported
                    /\ rStep'[t].size = rStep[t].size
                 \/ /\ rStep[t].st = "posted" /\ RecvTestDone(t)
                    /\ rStep'[t].size = sizesFifo[rReqs[rStep[t].req].slot]
      <3>1. CASE u = t
        BY <2>3, <3>1, <1>2 DEF RecvTestDone, RecvStep
      <3>2. CASE u # t
        BY <2>3, <3>2, <1>2 DEF RecvTestDone, RecvStep
      <3> QED
        BY <3>1, <3>2
    <2>4. \/ rStep' = rStep
          \/ \E u \in Msgs : \/ IrecvDefault(u) \/ IrecvPostCTS(u) \/ Flush(u)
                             \/ RecvTestDone(u) \/ Consume(u)
      <3>1. CASE Recv
        BY <3>1 DEF Recv, RecvTestPoll
      <3>2. CASE Send \/ Nic \/ Finished \/ UNCHANGED vars
        BY <3>2 DEF Send, Isend, SendTestDone, SendTestPoll, Nic, CtsArrive,
                    Deliver, Ack, FlushRead, Finished, vars, rVars
      <3>3. CASE Fault
        BY <3>3 DEF Fault, PostSendFails, PostRecvFails, PostFifoFails,
                    PostFlushFails, QpBreaks, SendTestError, RecvTestError, rVars
      <3> QED
        BY <3>1, <3>2, <3>3 DEF Next
    <2> QED
      BY <2>1, <2>2, <2>3, <2>4
  <1>5. ASSUME rStep'[t].st \in Reported
        PROVE  IF work[t].proto = "LL" THEN rStep'[t].size = 0
               ELSE landed[t] = t /\ rStep'[t].size = work[t].size
    <2>1. CASE rStep[t].st \in Reported /\ rStep'[t].size = rStep[t].size
      BY <2>1 DEF CompletionsTrue
    <2>2. CASE /\ rStep[t].st = "posted" /\ RecvTestDone(t)
               /\ rStep'[t].size = sizesFifo[rReqs[rStep[t].req].slot]
      BY <2>2, RecvReportTrue DEF TransportInv
    <2> QED
      BY <1>4, <1>5, <2>1, <2>2
  <1> QED
    BY <1>1, <1>3, <1>5

LEMMA InitCompletionsTrue == Init => CompletionsTrue
  BY DEF Init, CompletionsTrue

\* Whatever anpNetTest reports done is done: a send's data is in the receiver's
\* buffer, a receive holds the data and reports the size of the matching send,
\* also after posts failed and QPs broke.
THEOREM CompletionsTrueCorrect == Spec => []CompletionsTrue
  <1>1. Init => TransportInv /\ CompletionsTrue
    BY InitTransportInv, InitCompletionsTrue
  <1>2. TransportInv /\ CompletionsTrue /\ [Next]_vars
          => (TransportInv /\ CompletionsTrue)'
    BY NextTransportInv, NextCompletionsTrue
  <1> QED
    BY <1>1, <1>2, PTL DEF Spec

-----------------------------------------------------------------------------
(* The size slot of an open receive *)

\* The slot of an open receive is written by the poll of its own completion and
\* by nothing else.
LEMMA SlotWrites ==
    ASSUME TransportInv, [Next]_vars, NEW t \in Msgs, rStep[t].st = "posted",
           sizesFifo'[rReqs[rStep[t].req].slot]
             # sizesFifo[rReqs[rStep[t].req].slot]
    PROVE  /\ sizesFifo[rReqs[rStep[t].req].slot] = 0
           /\ sizesFifo'[rReqs[rStep[t].req].slot] = work[t].size
  <1> DEFINE s == rReqs[rStep[t].req].slot
  <1>1. /\ TypeOK /\ RecvInv /\ OrderInv /\ WindowInv /\ CqeSizes /\ SizesInv
        /\ sizesFifo \in [Slots -> Nat]
    BY DEF TransportInv, TypeOK, RecvTypeOK
  <1>2. ASSUME NEW u \in Msgs, RecvMayPost(u),
               sizesFifo' = [sizesFifo EXCEPT ![RecvSlot] = 0]
        PROVE  FALSE
    <2>1. s = SlotOf(t)
      BY <1>1, <1>2 DEF SizesInv, RecvMayPost
    <2>2. RecvSlot # SlotOf(t)
      BY <1>1, <1>2, OpenSlotsDistinct
    <2>3. SlotOf(t) \in Slots
      BY ModRange, ConstantsAssumption, <1>1, OrderShapes DEF SlotOf, Slots
    <2> QED
      BY <1>1, <1>2, <2>1, <2>2, <2>3
  <1>3. ASSUME NEW r \in ReqIds, RecvTestPoll(r)
        PROVE  sizesFifo[s] = 0 /\ sizesFifo'[s] = work[t].size
    <2>1. PICK c \in rCq :
             /\ c.opcode = "RECV_RDMA_WITH_IMM"
             /\ sizesFifo' = [sizesFifo EXCEPT ![rReqs[c.wr_id].slot] = c.size]
      BY <1>3 DEF RecvTestPoll
    <2>2. rRes = "ok"
      BY <1>3 DEF RecvTestPoll
    <2>3. s = SlotOf(t)
      BY <1>1, <2>2 DEF SizesInv
    <2>4. /\ rReqs[c.wr_id].slot = SlotOf(c.msg)
          /\ c.msg \in Msgs /\ c.size = work[c.msg].size
          /\ sizesFifo[SlotOf(c.msg)] = 0
      BY <1>1, <2>1, <2>2, PolledSlot
    <2>5. SlotOf(c.msg) \in Slots /\ SlotOf(t) \in Slots
      BY <2>4, ModRange, ConstantsAssumption, <1>1, OrderShapes
      DEF SlotOf, Slots
    <2>6. SlotOf(t) = SlotOf(c.msg)
      BY <1>1, <2>1, <2>3, <2>4, <2>5
    <2>7. t = c.msg
      BY <1>1, <2>1, <2>2, <2>6, PolledSlot
    <2> QED
      BY <1>1, <2>1, <2>3, <2>4, <2>5, <2>7
  <1>4. \/ sizesFifo' = sizesFifo
        \/ \E u \in Msgs : /\ RecvMayPost(u)
                          /\ sizesFifo' = [sizesFifo EXCEPT ![RecvSlot] = 0]
        \/ \E r \in ReqIds : RecvTestPoll(r)
    <2>1. CASE Recv
      BY <2>1 DEF Recv, IrecvDefault, IrecvPostCTS, PostFifo, Flush,
                  RecvTestDone, Consume
    <2>2. CASE Send \/ Nic \/ Finished \/ UNCHANGED vars
      BY <2>2 DEF Send, Isend, SendTestDone, SendTestPoll, Nic, CtsArrive,
                  Deliver, Ack, FlushRead, Finished, vars, rVars
    <2>3. CASE Fault
      BY <2>3 DEF Fault, PostSendFails, PostRecvFails, PostFifoFails,
                  PostFlushFails, QpBreaks, SendTestError, RecvTestError, rVars
    <2> QED
      BY <2>1, <2>2, <2>3 DEF Next
  <1> QED
    BY <1>2, <1>3, <1>4

\* No later receive recycles the size slot of an open one, which changes once,
\* from 0 to the size of its own message.
THEOREM SlotKeptCorrect == Spec => SlotKept
  <1>1. TransportInv /\ [Next]_vars =>
          [\A t \in Msgs :
             LET s == rReqs[rStep[t].req].slot
             IN  /\ rStep[t].st = "posted"
                 /\ rStep'[t].st = "posted"
                 /\ sizesFifo'[s] # sizesFifo[s]
                 => sizesFifo[s] = 0 /\ sizesFifo'[s] = work[t].size]_vars
    BY SlotWrites
  <1> QED
    BY <1>1, InitTransportInv, NextTransportInv, PTL DEF Spec, SlotKept

-----------------------------------------------------------------------------
(* The transport implements the channel *)

Sent == {t \in Msgs : sStep[t].st # "idle"}
SendsDone == {t \in Msgs : sStep[t].st = "done"}
Posted == {t \in Msgs : rStep[t].st # "idle"}
Reports == [t \in Msgs |-> IF rStep[t].st \in {"idle", "posted"} THEN None
                                                              ELSE rStep[t].size]

LEMMA ChannelInit == Init => Channel!Init
  BY DEF Init, Channel!Init, None, Channel!None

\* Isend is a send of the channel.
LEMMA ChannelSend ==
    ASSUME TypeOK, NEW t \in Msgs, Isend(t)
    PROVE  Channel!Send(t)
  <1>1. PICK r \in ReqIds : sStep' = [sStep EXCEPT ![t] =
                                        [st |-> "posted", req |-> r]]
    BY DEF Isend
  <1>2. sStep[t].st = "idle" /\ \A u \in Msgs : u < t => sStep[u].st # "idle"
    BY DEF Isend, SendMayPost, MayPost
  <1>3. Sent' = Sent \cup {t} /\ SendsDone' = SendsDone
    BY <1>1, <1>2, OrderShapes DEF Sent, SendsDone
  <1>4. UNCHANGED <<work, rStep, landed>>
    BY DEF Isend, rVars, wire
  <1> QED
    BY <1>2, <1>3, <1>4 DEF Channel!Send, Sent, SendsDone

\* Both forms of irecv are a post of the channel.
LEMMA ChannelPost ==
    ASSUME TypeOK, NEW t \in Msgs, IrecvDefault(t) \/ IrecvPostCTS(t)
    PROVE  Channel!Post(t)
  <1>1. PICK r \in ReqIds : rStep' = [rStep EXCEPT ![t] =
                                 [st |-> "posted", req |-> r, size |-> 0]]
    BY DEF IrecvDefault, IrecvPostCTS
  <1>2. rStep[t].st = "idle" /\ \A u \in Msgs : u < t => rStep[u].st # "idle"
    BY DEF IrecvDefault, IrecvPostCTS, RecvMayPost, MayPost
  <1>3. Posted' = Posted \cup {t} /\ Reports' = Reports
    BY <1>1, <1>2, OrderShapes DEF Posted, Reports
  <1>4. UNCHANGED <<work, sStep, landed>>
    BY DEF IrecvDefault, IrecvPostCTS, sVars, wire
  <1> QED
    BY <1>2, <1>3, <1>4 DEF Channel!Post, Posted, Reports, None, Channel!None

\* The NIC of the sender delivers one message of the channel.
LEMMA ChannelDeliver ==
    ASSUME TypeOK, OrderInv, NEW q \in Qps, Deliver(q)
    PROVE  \E t \in Msgs : Channel!Deliver(t)
  <1>1. PICK m \in Msgs : /\ m < fifoHead /\ m < fifoTail /\ landed[m] = None
                         /\ landed' = [landed EXCEPT ![m] = m]
    BY DeliverOrderInv
  <1>2. UNCHANGED <<work, sStep, rStep>>
    BY DEF Deliver, sVars, rVars
  <1>3. sStep[m].st # "idle" /\ rStep[m].st # "idle"
    BY <1>1 DEF OrderInv, Counters
  <1>4. Channel!Deliver(m)
    BY <1>1, <1>2, <1>3 DEF Channel!Deliver, None, Channel!None
  <1> QED
    BY <1>4

\* A send that anpNetTest reports done was delivered.
LEMMA ChannelSendDone ==
    ASSUME TypeOK, SendInv, OrderInv, NEW t \in Msgs, SendTestDone(t)
    PROVE  Channel!SendDone(t)
  <1>1. /\ sStep[t].st = "posted"
        /\ sStep' = [sStep EXCEPT ![t].st = "done"]
        /\ UNCHANGED <<work, rStep, landed>>
    BY DEF SendTestDone, rVars, wire
  <1>2. Sent' = Sent /\ SendsDone' = SendsDone \cup {t}
    BY <1>1, OrderShapes DEF Sent, SendsDone, SendStep
  <1>3. landed[t] = t
    BY SendReportTrue
  <1> QED
    BY <1>1, <1>2, <1>3 DEF Channel!SendDone, Sent, SendsDone

\* A receive that anpNetTest ends is reported once, with the right size.
LEMMA ChannelReport ==
    ASSUME TransportInv, NEW t \in Msgs, RecvTestDone(t), rStep[t].st = "posted"
    PROVE  Channel!Report(t)
  <1> DEFINE size == sizesFifo[rReqs[rStep[t].req].slot]
  <1>1. /\ rStep' = [rStep EXCEPT ![t] = [@ EXCEPT !.st = "rcvd", !.size = size]]
        /\ UNCHANGED <<work, sStep, landed>>
    BY DEF RecvTestDone, sVars, wire
  <1>2. TypeOK /\ rStep \in [Msgs -> RecvStep]
    BY OrderShapes DEF TransportInv
  <1>3. Posted' = Posted /\ t \in Posted
    BY <1>1, <1>2 DEF Posted, RecvStep
  <1>4. Reports[t] = None /\ Reports' = [Reports EXCEPT ![t] = size]
    BY <1>1, <1>2 DEF Reports, RecvStep
  <1>5. IF work[t].proto = "LL" THEN size = 0
        ELSE landed[t] = t /\ size = work[t].size
    BY RecvReportTrue DEF TransportInv
  <1> HIDE DEF size
  <1>6. work[t].proto \in {"Simple", "LL"}
    BY <1>2, WorkType
  <1> QED
    BY <1>1, <1>3, <1>4, <1>5, <1>6
    DEF Channel!Report, Posted, Reports, None, Channel!None

\* The steps the channel does not see.
LEMMA ChannelStutter ==
    ASSUME TypeOK,
           UNCHANGED <<work, sStep, landed>>,
           Posted' = Posted, Reports' = Reports
    PROVE  UNCHANGED Channel!chVars
  BY DEF Channel!chVars, Posted, Reports, None, Channel!None

LEMMA ChannelNext ==
    TransportInv /\ [Next]_vars => [Channel!Next]_(Channel!chVars)
  <1> SUFFICES ASSUME TransportInv, [Next]_vars
               PROVE  Channel!Next \/ UNCHANGED Channel!chVars
    OBVIOUS
  <1>1. /\ TypeOK /\ SendInv /\ RecvInv /\ OrderInv /\ SizesInv
        /\ rStep \in [Msgs -> RecvStep]
    BY OrderShapes DEF TransportInv
  <1>2. ASSUME UNCHANGED <<work, sStep, landed, rStep>>
        PROVE  UNCHANGED Channel!chVars
    BY <1>1, <1>2, ChannelStutter DEF Posted, Reports
  <1>3. CASE Send
    <2>1. ASSUME NEW r \in ReqIds, SendTestPoll(r)
          PROVE  UNCHANGED Channel!chVars
      BY <1>2, <2>1 DEF SendTestPoll, wire, rVars
    <2> QED
      BY <1>1, <1>3, <2>1, ChannelSend, ChannelSendDone DEF Send, Channel!Next
  <1>4. CASE Recv
    <2>1. ASSUME NEW t \in Msgs, Flush(t) \/ Consume(t)
          PROVE  UNCHANGED Channel!chVars
      <3>1. UNCHANGED <<work, sStep, landed>>
        BY <2>1 DEF Flush, Consume, sVars, wire
      <3>2. Posted' = Posted /\ Reports' = Reports
        <4>1. CASE Flush(t)
          BY <1>1, <4>1 DEF Flush, Posted, Reports, RecvStep
        <4>2. CASE Consume(t)
          BY <1>1, <4>2 DEF Consume, Posted, Reports, RecvStep
        <4> QED
          BY <2>1, <4>1, <4>2
      <3> QED
        BY <1>1, <3>1, <3>2, ChannelStutter
    <2>2. ASSUME NEW t \in Msgs, RecvTestDone(t)
          PROVE  Channel!Next \/ UNCHANGED Channel!chVars
      <3>1. CASE rStep[t].st = "posted"
        BY <2>2, <3>1, ChannelReport DEF Channel!Next
      <3>2. CASE rStep[t].st # "posted"
        <4>1. UNCHANGED <<work, sStep, landed>>
          BY <2>2 DEF RecvTestDone, sVars, wire
        <4>2. Posted' = Posted /\ Reports' = Reports
          BY <1>1, <2>2, <3>2 DEF RecvTestDone, Posted, Reports, RecvStep
        <4> QED
          BY <1>1, <4>1, <4>2, ChannelStutter
      <3> QED
        BY <3>1, <3>2
    <2>3. ASSUME NEW r \in ReqIds, RecvTestPoll(r)
          PROVE  UNCHANGED Channel!chVars
      BY <1>2, <2>3 DEF RecvTestPoll, wire, sVars
    <2> QED
      BY <1>1, <1>4, <2>1, <2>2, <2>3, ChannelPost DEF Recv, Channel!Next
  <1>5. CASE Nic
    <2>1. ASSUME NEW q \in Qps, CtsArrive(q) \/ Ack(q)
          PROVE  UNCHANGED Channel!chVars
      BY <1>2, <2>1 DEF CtsArrive, Ack, sVars, rVars
    <2>2. ASSUME FlushRead PROVE UNCHANGED Channel!chVars
      BY <1>2, <2>2 DEF FlushRead, sVars, rVars, wire
    <2> QED
      BY <1>1, <1>5, <2>1, <2>2, ChannelDeliver DEF Nic, Channel!Next
  <1>6. CASE Fault
    BY <1>2, <1>6 DEF Fault, PostSendFails, PostRecvFails, PostFifoFails,
                      PostFlushFails, QpBreaks, SendTestError, RecvTestError,
                      sVars, rVars, wire
  <1>7. CASE Finished \/ UNCHANGED vars
    BY <1>2, <1>7 DEF Finished, vars, sVars, rVars, wire
  <1> QED
    BY <1>3, <1>4, <1>5, <1>6, <1>7 DEF Next

\* Every behaviour of the transport, the failing ones included, is one of the
\* channel RCCL relies on: the t-th receive gets the data of the t-th send and
\* nothing is reported before it happened.
THEOREM TransportImplementsChannel == Spec => ImplementsChannel
  BY ChannelInit, ChannelNext, InitTransportInv, NextTransportInv, PTL
  DEF Spec, ImplementsChannel, Channel!Spec

-----------------------------------------------------------------------------
(***************************************************************************)
(* The bounds of the transport, for every value of the constants: a caller *)
(* that keeps to its window always finds a free request, and no send       *)
(* queue, receive queue or completion queue outgrows the depth it was      *)
(* created with.                                                           *)
(*                                                                         *)
(* The hard one is the send queue of the CTS: most CTS are unsignalled,    *)
(* and leave the queue only when a later, signalled one of the same QP is  *)
(* polled.  The argument is that every MaxRequests * NQps messages one CTS *)
(* of each QP is signalled, whether NQps divides MaxRequests or not, and   *)
(* that a signalled CTS nobody polled keeps its step, and with it the      *)
(* window, open.                                                           *)
(***************************************************************************)

\* A FIFO slot of the sender holds a request only after a failed post.
SendSlotsFree == sRes = "ok" => \A s \in Slots : fifoReqs[s] = None

\* Everything in flight at the sender belongs to an open step, once; unlike
\* SendInv this survives an error, after which nobody posts and nobody polls.
SendPlaces ==
    /\ SendUnique
    /\ \A w \in dataWqes \cup ackWqes \cup sCq : sStep[w.msg].st = "posted"

\* The entries of the data send queues are those of messages in flight, all on
\* the QP of their number.
SendEntries ==
    /\ \A w \in dataWqes \cup ackWqes \cup sCq \cup sSq : w.qp = QpOf(w.msg)
    /\ \A e \in sSq : InFlight(e.msg)

\* The receive side, with the receive WQE a failed ncclIbPostFifo leaves.
RecvPlaces ==
    /\ RecvUnique
    /\ \A w \in recvWqes :
          \/ rStep[w.msg].st = "posted"
          \/ /\ rRes = "error" /\ w.msg = fifoTail
             /\ \A u \in Msgs :
                   rStep[u].st \notin {"idle", "done"} => fifoTail < u + Window
    /\ \A w \in Signalled \cup flushWqes \cup rCq : RecvOpen(w.msg)

\* ncclIbPostFifo signals the CTS whose slot is the one of its QP.
IsSignalled(t) == SlotOf(t) = QpOf(t)

\* An entry stays in the CTS send queue of a QP only as long as no signalled CTS
\* after it was polled: those posted are still in flight.
CtsEntries ==
    /\ \A e \in rSq : e.msg < fifoTail /\ e.qp = QpOf(e.msg)
    /\ \A c \in Cqes("RDMA_WRITE") : c.qp = QpOf(c.msg)
    /\ \A e \in rSq, t \in Msgs :
          /\ e.msg <= t /\ t < fifoTail
          /\ QpOf(t) = e.qp /\ IsSignalled(t)
          => HasCts(t)

DepthInv ==
    SendSlotsFree /\ SendPlaces /\ SendEntries /\ RecvPlaces /\ CtsEntries

-----------------------------------------------------------------------------
(* Counting *)

\* A set whose members have distinct keys in an interval is no larger than it.
LEMMA KeyedBound ==
    ASSUME NEW S, NEW a \in Int, NEW b \in Int, a <= b + 1,
           NEW f \in [S -> a .. b], \A x, y \in S : f[x] = f[y] => x = y
    PROVE  /\ IsFiniteSet(S) /\ Cardinality(S) \in Nat
           /\ Cardinality(S) <= b - a + 1
  <1>1. IsFiniteSet(a .. b) /\ Cardinality(a .. b) = b - a + 1
    BY FS_Interval
  <1>2. f \in Injection(S, a .. b)
    BY DEF Injection, IsInjective
  <1>3. IsFiniteSet(S) /\ Cardinality(S) <= Cardinality(a .. b)
    BY <1>1, <1>2, FS_Injection
  <1> QED
    BY <1>1, <1>3, FS_CardinalityType

LEMMA UnionBound ==
    ASSUME NEW S, NEW T, IsFiniteSet(S), IsFiniteSet(T),
           NEW m \in Nat, NEW n \in Nat, Cardinality(S) <= m, Cardinality(T) <= n
    PROVE  /\ IsFiniteSet(S \cup T) /\ Cardinality(S \cup T) \in Nat
           /\ Cardinality(S \cup T) <= m + n
  <1>1. /\ IsFiniteSet(S \cup T)
        /\ Cardinality(S \cup T)
             = Cardinality(S) + Cardinality(T) - Cardinality(S \cap T)
    BY FS_Union
  <1>2. IsFiniteSet(S \cap T)
    BY FS_Subset
  <1> QED
    BY <1>1, <1>2, FS_CardinalityType

\* Fewer holders than requests leave a request to nobody.
LEMMA FreeRequestLeft ==
    ASSUME NEW T, IsFiniteSet(T), Cardinality(T) < MaxRequests,
           NEW S \in SUBSET T, NEW h \in [S -> ReqIds]
    PROVE  \E r \in ReqIds : \A t \in S : h[t] # r
  <1> SUFFICES ASSUME \A r \in ReqIds : \E t \in S : h[t] = r PROVE FALSE
    OBVIOUS
  <1>1. IsFiniteSet(S) /\ Cardinality(S) <= Cardinality(T)
    BY FS_Subset
  <1>2. Cardinality(ReqIds) = MaxRequests
    BY FS_Interval, ConstantsAssumption DEF ReqIds
  <1>3. h \in Surjection(S, ReqIds)
    BY DEF Surjection
  <1>4. Cardinality(ReqIds) <= Cardinality(S)
    BY <1>1, <1>3, FS_Surjection
  <1> QED
    BY <1>1, <1>2, <1>4, FS_CardinalityType, ConstantsAssumption

\* The steps a caller that may post message t can have open.
LEMMA OpenBefore ==
    ASSUME NEW t \in Nat
    PROVE  /\ IsFiniteSet((t - Window + 1) .. (t - 1))
           /\ Cardinality((t - Window + 1) .. (t - 1)) < MaxRequests
  <1> DEFINE a == t - Window + 1
             b == t - 1
  <1>1. /\ a \in Int /\ b \in Int
        /\ (IF a > b THEN 0 ELSE b - a + 1) < MaxRequests
    BY ConstantsAssumption
  <1> HIDE DEF a, b
  <1>2. IsFiniteSet(a .. b) /\ Cardinality(a .. b) < MaxRequests
    BY <1>1, FS_Interval
  <1> QED
    BY <1>2 DEF a, b

-----------------------------------------------------------------------------
(* A free request for every caller that keeps to its window *)

LEMMA InitSendSlotsFree == Init => SendSlotsFree
  BY DEF Init, SendSlotsFree

LEMMA NextSendSlotsFree ==
    SendSlotsFree /\ [Next]_vars => SendSlotsFree'
  <1> SUFFICES ASSUME SendSlotsFree, [Next]_vars PROVE SendSlotsFree'
    OBVIOUS
  <1>1. CASE UNCHANGED fifoReqs /\ (sRes' = "ok" => sRes = "ok")
    BY <1>1 DEF SendSlotsFree
  <1>2. CASE sRes' = "error"
    BY <1>2 DEF SendSlotsFree
  <1>3. CASE Send
    BY <1>1, <1>2, <1>3 DEF Send, Isend, SendTestDone, SendTestPoll
  <1>4. CASE Recv
    BY <1>1, <1>4 DEF Recv, IrecvDefault, IrecvPostCTS, Flush, RecvTestDone,
                      Consume, RecvTestPoll, sVars
  <1>5. CASE Nic \/ Finished \/ UNCHANGED vars
    BY <1>1, <1>5 DEF Nic, CtsArrive, Deliver, Ack, FlushRead, Finished, vars,
                      sVars
  <1>6. CASE Fault
    BY <1>1, <1>2, <1>6 DEF Fault, PostSendFails, PostRecvFails, PostFifoFails,
                            PostFlushFails, QpBreaks, SendTestError,
                            RecvTestError, sVars
  <1> QED
    BY <1>3, <1>4, <1>5, <1>6 DEF Next

LEMMA RequestsSuffice == TransportInv /\ SendSlotsFree => RequestAvailable
  <1> SUFFICES ASSUME TransportInv, SendSlotsFree PROVE RequestAvailable
    OBVIOUS
  <1>1. /\ TypeOK /\ SendInv /\ RecvInv /\ OrderInv /\ WindowInv
        /\ Msgs \subseteq Nat /\ fifoTail \in Nat /\ fifoHead \in Nat
        /\ sStep \in [Msgs -> SendStep] /\ rStep \in [Msgs -> RecvStep]
        /\ sReqs \in [ReqIds -> SendReq] /\ rReqs \in [ReqIds -> RecvReq]
    BY OrderShapes DEF TransportInv, TypeOK, SendTypeOK, RecvTypeOK
  <1>2. Window \in Nat /\ Window >= 1 /\ Window <= MaxRequests
        /\ MaxRequests \in Nat
    BY ConstantsAssumption
  <1>3. ASSUME NEW t \in Msgs, SendMayPost(t)
        PROVE  (\E r \in ReqIds : sReqs[r].type = "UNUSED")
               /\ fifoReqs[SendSlot] = None
    <2> DEFINE S == {u \in Msgs : sStep[u].st = "posted"}
               h == [u \in S |-> sStep[u].req]
    <2>1. sRes = "ok" /\ t = fifoHead
      BY <1>1, <1>3, PostsInOrder DEF SendMayPost
    <2>2. S \subseteq (t - Window + 1) .. (t - 1)
      <3> SUFFICES ASSUME NEW u \in Msgs, sStep[u].st = "posted"
                   PROVE  u \in (t - Window + 1) .. (t - 1)
        OBVIOUS
      <3>1. u < fifoHead
        BY <1>1 DEF OrderInv, Counters
      <3>2. ~(u + Window <= t)
        BY <1>3 DEF SendMayPost, MayPost
      <3> QED
        BY <1>1, <1>2, <2>1, <3>1, <3>2
    <2>3. h \in [S -> ReqIds]
      BY <1>1 DEF SendStep
    <2>4. PICK r \in ReqIds : \A u \in S : h[u] # r
      <3> DEFINE T == (t - Window + 1) .. (t - 1)
      <3>1. IsFiniteSet(T) /\ Cardinality(T) < MaxRequests /\ S \in SUBSET T
        BY <1>1, <2>2, OpenBefore
      <3> HIDE DEF S, h, T
      <3> QED
        BY <2>3, <3>1, FreeRequestLeft
    <2>5. sReqs[r].type # "SEND"
      BY <1>1, <2>1, <2>4 DEF SendInv, SendRequests
    <2>6. fifoReqs[SendSlot] = None
      BY <1>1, <2>1, SlotsInRange DEF SendSlotsFree
    <2> QED
      BY <1>1, <2>5, <2>6 DEF SendReq
  <1>4. ASSUME NEW T, IsFiniteSet(T), Cardinality(T) < MaxRequests,
               rRes = "ok", \A u \in Msgs : RecvOpen(u) => u \in T
        PROVE  \E r \in ReqIds : rReqs[r].type = "UNUSED"
    <2> DEFINE S == {u \in Msgs : RecvOpen(u)}
               h == [u \in S |-> rStep[u].req]
    <2>1. S \in SUBSET T
      BY <1>4
    <2>2. h \in [S -> ReqIds]
      BY <1>1 DEF RecvStep
    <2>3. PICK r \in ReqIds : \A u \in S : h[u] # r
      <3> HIDE DEF S, h
      <3> QED
        BY <1>4, <2>1, <2>2, FreeRequestLeft
    <2>4. ~\E u \in Msgs : RecvOpen(u) /\ rStep[u].req = r
      BY <2>3
    <2>5. rReqs[r].type = "UNUSED"
      BY <1>1, <1>4, <2>4 DEF RecvInv, RecvRequests
    <2> QED
      BY <2>5
  <1>5. \A u \in Msgs : rStep[u].st \notin {"idle", "done"} =>
                           u < fifoTail /\ fifoTail <= u + Window
    BY <1>1 DEF OrderInv, Counters, WindowInv
  <1>6. ASSUME NEW t \in Msgs, RecvMayPost(t)
        PROVE  \E r \in ReqIds : rReqs[r].type = "UNUSED"
    <2>1. rRes = "ok" /\ t = fifoTail
      BY <1>1, <1>6, PostsInOrder DEF RecvMayPost
    <2>2. \A u \in Msgs : RecvOpen(u) => u \in (t - Window + 1) .. (t - 1)
      <3> SUFFICES ASSUME NEW u \in Msgs, RecvOpen(u)
                   PROVE  u \in (t - Window + 1) .. (t - 1)
        OBVIOUS
      <3>1. u < fifoTail
        BY <1>5 DEF RecvOpen
      <3>2. ~(u + Window <= t)
        BY <1>6 DEF RecvMayPost, MayPost, RecvOpen
      <3> QED
        BY <1>1, <1>2, <2>1, <3>1, <3>2
    <2> QED
      BY <1>1, <1>4, <2>1, <2>2, OpenBefore
  <1>7. ASSUME NEW t \in Msgs, rRes = "ok", rStep[t].st = "rcvd"
        PROVE  \E r \in ReqIds : rReqs[r].type = "UNUSED"
    <2> DEFINE W == (fifoTail - Window) .. (fifoTail - 1)
               T == W \ {t}
    <2>1. /\ fifoTail - Window \in Int /\ fifoTail - 1 \in Int
          /\ (fifoTail - 1) - (fifoTail - Window) + 1 = Window
          /\ fifoTail - Window <= fifoTail - 1
      BY <1>1, <1>2
    <2>2. IsFiniteSet(W) /\ Cardinality(W) = Window
      BY <2>1, FS_Interval
    <2>3. \A u \in Msgs : rStep[u].st \notin {"idle", "done"} => u \in W
      BY <1>1, <1>2, <1>5
    <2>4. t \in W
      BY <1>7, <2>3
    <2>5. \A u \in Msgs : RecvOpen(u) => u \in T
      BY <1>7, <2>3 DEF RecvOpen
    <2> HIDE DEF W
    <2>6. IsFiniteSet(T) /\ Cardinality(T) = Window - 1
      BY <2>2, <2>4, FS_RemoveElement
    <2> HIDE DEF T
    <2> QED
      BY <1>2, <1>4, <1>7, <2>5, <2>6
  <1> QED
    BY <1>3, <1>6, <1>7 DEF RequestAvailable

\* Neither side runs out of requests, flushes included, and the FIFO slot of a
\* send is empty, as long as the callers keep to a window of MaxRequests.
THEOREM RequestAvailableCorrect == Spec => []RequestAvailable
  <1>1. Init => TransportInv /\ SendSlotsFree
    BY InitTransportInv, InitSendSlotsFree
  <1>2. TransportInv /\ SendSlotsFree /\ [Next]_vars
          => (TransportInv /\ SendSlotsFree)'
    BY NextTransportInv, NextSendSlotsFree
  <1> QED
    BY <1>1, <1>2, RequestsSuffice, PTL DEF Spec

-----------------------------------------------------------------------------
(* The data send queues and the completion queue of the sender *)

LEMMA InitSendPlaces == Init => SendPlaces /\ SendEntries
  BY DEF Init, SendPlaces, SendUnique, SendEntries

\* The steps of the sender that touch its queues.
LEMMA SendQueueSteps ==
    ASSUME [Next]_vars
    PROVE  \/ UNCHANGED <<dataWqes, ackWqes, sCq, sSq>>
           \/ \E t \in Msgs : Isend(t)
           \/ \E r \in ReqIds : SendTestPoll(r)
           \/ \E q \in Qps : Deliver(q) \/ Ack(q)
  <1>1. CASE Send
    BY <1>1 DEF Send, SendTestDone, sQueues, wire
  <1>2. CASE Recv
    BY <1>2 DEF Recv, IrecvDefault, IrecvPostCTS, Flush, RecvTestDone, Consume,
                RecvTestPoll, sQueues, wire
  <1>3. CASE Nic
    BY <1>3 DEF Nic, CtsArrive, FlushRead, sQueues, wire
  <1>4. CASE Fault
    BY <1>4 DEF Fault, PostSendFails, PostRecvFails, PostFifoFails,
                PostFlushFails, QpBreaks, SendTestError, RecvTestError, sQueues,
                wire
  <1>5. CASE Finished \/ UNCHANGED vars
    BY <1>5 DEF Finished, vars, sQueues, wire
  <1> QED
    BY <1>1, <1>2, <1>3, <1>4, <1>5 DEF Next

LEMMA NextSendPlaces ==
    TypeOK /\ SendInv /\ SendPlaces /\ [Next]_vars => SendPlaces'
  <1> SUFFICES ASSUME TypeOK, SendInv, SendPlaces, [Next]_vars
               PROVE  SendPlaces'
    OBVIOUS
  <1>1. SendInv'
    BY NextSendInv
  <1>2. CASE sRes' = "ok"
    BY <1>1, <1>2 DEF SendInv, SendOwnership, SendOwned, SendPlaces
  <1>3. CASE sRes' # "ok"
    <2>1. sStep' = sStep
      <3>1. ~Send \/ \E r \in ReqIds : SendTestPoll(r)
        BY <1>3 DEF Send, Isend, SendTestDone, SendMayPost
      <3>2. CASE \E r \in ReqIds : SendTestPoll(r)
        BY <3>2 DEF SendTestPoll
      <3>3. CASE Recv \/ Nic \/ Finished \/ UNCHANGED vars
        BY <3>3 DEF Recv, IrecvDefault, IrecvPostCTS, Flush, RecvTestDone,
                    Consume, RecvTestPoll, Nic, CtsArrive, Deliver, Ack,
                    FlushRead, Finished, vars, sVars
      <3>4. CASE Fault
        BY <3>4 DEF Fault, PostSendFails, PostRecvFails, PostFifoFails,
                    PostFlushFails, QpBreaks, SendTestError, RecvTestError, sVars
      <3> QED
        BY <3>1, <3>2, <3>3, <3>4 DEF Next
    <2>2. CASE UNCHANGED <<dataWqes, ackWqes, sCq>>
      BY <2>1, <2>2 DEF SendPlaces, SendUnique
    <2>3. ASSUME NEW r \in ReqIds, SendTestPoll(r) PROVE SendPlaces'
      BY <1>3, <2>3, SendTestPollSendInv
    <2>4. ASSUME NEW t \in Msgs, Isend(t) PROVE SendPlaces'
      BY <1>3, <2>4 DEF Isend, SendMayPost
    <2>5. ASSUME NEW q \in Qps, Deliver(q) PROVE SendPlaces'
      <3>1. PICK d \in dataWqes : /\ dataWqes' = dataWqes \ {d}
                                  /\ ackWqes' = ackWqes \cup {d}
        BY <2>5 DEF Deliver
      <3>2. sCq' = sCq /\ dataWqes' \cup ackWqes' = dataWqes \cup ackWqes
        BY <2>5, <3>1 DEF Deliver
      <3> QED
        BY <2>1, <3>1, <3>2 DEF SendPlaces, SendUnique
    <2>6. ASSUME NEW q \in Qps, Ack(q) PROVE SendPlaces'
      <3>1. PICK d \in ackWqes :
              /\ ackWqes' = ackWqes \ {d}
              /\ sCq' = sCq \cup {[msg |-> d.msg, qp |-> q, wr_id |-> d.wr_id]}
        BY <2>6 DEF Ack
      <3>2. PICK c : c.msg = d.msg /\ sCq' = sCq \cup {c}
        BY <3>1
      <3>3. dataWqes' = dataWqes
        BY <2>6 DEF Ack, sQueues
      <3> QED
        BY <2>1, <3>1, <3>2, <3>3 DEF SendPlaces, SendUnique
    <2> QED
      BY <2>2, <2>3, <2>4, <2>5, <2>6, SendQueueSteps
  <1> QED
    BY <1>2, <1>3

LEMMA NextSendEntries ==
    TypeOK /\ OrderInv /\ SendEntries /\ [Next]_vars => SendEntries'
  <1> SUFFICES ASSUME TypeOK, OrderInv, SendEntries, [Next]_vars
               PROVE  SendEntries'
    OBVIOUS
  <1>1. CASE UNCHANGED <<dataWqes, ackWqes, sCq, sSq>>
    BY <1>1 DEF SendEntries, InFlight, QpOf
  <1>2. ASSUME NEW t \in Msgs, Isend(t) PROVE SendEntries'
    <2>1. PICK r \in ReqIds : MultiSend(t, r)
      BY <1>2 DEF Isend
    <2>2. t = fifoHead /\ sQpIndex = QpOf(t) /\ UNCHANGED <<ackWqes, sCq>>
      BY <1>2, PostsInOrder DEF Isend, SendMayPost, OrderInv, Counters, wire
    <2>3. PICK d : d.msg = t /\ d.qp = QpOf(t) /\ dataWqes' = dataWqes \cup {d}
      BY <2>1, <2>2 DEF MultiSend
    <2>4. \A e \in sSq' : e \in sSq \/ (e.msg = t /\ e.qp = QpOf(t))
      BY <2>1, <2>2 DEF MultiSend
    <2>5. \A m : InFlight(m) \/ m = t => InFlight(m)'
      BY <2>2, <2>3 DEF InFlight
    <2> QED
      BY <2>2, <2>3, <2>4, <2>5 DEF SendEntries, QpOf
  <1>3. ASSUME NEW r \in ReqIds, SendTestPoll(r) PROVE SendEntries'
    <2>1. PICK c \in sCq : sCq' = sCq \ {c} /\ sSq' = Retire(sSq, c)
      BY <1>3 DEF SendTestPoll
    <2>2. UNCHANGED <<dataWqes, ackWqes>>
      BY <1>3 DEF SendTestPoll, wire
    <2>3. \A e \in sSq' : e \in sSq /\ e.msg # c.msg
      <3> SUFFICES ASSUME NEW e \in sSq' PROVE e \in sSq /\ e.msg # c.msg
        OBVIOUS
      <3>1. e \in sSq /\ (e.qp # c.qp \/ e.msg > c.msg)
        BY <2>1 DEF Retire
      <3>2. e.qp = QpOf(e.msg) /\ c.qp = QpOf(c.msg)
        BY <3>1 DEF SendEntries
      <3>3. e.msg \in Int /\ c.msg \in Int
        BY <3>1 DEF TypeOK, SendQueuesTypeOK, CqTypeOK, SendCqe, Msgs
      <3> QED
        BY <3>1, <3>2, <3>3
    <2>4. \A m : InFlight(m) /\ m # c.msg => InFlight(m)'
      BY <2>1, <2>2 DEF InFlight
    <2> QED
      BY <2>1, <2>2, <2>3, <2>4 DEF SendEntries, QpOf
  <1>4. ASSUME NEW q \in Qps, Deliver(q) PROVE SendEntries'
    <2>1. dataWqes' \cup ackWqes' = dataWqes \cup ackWqes
      BY <1>4 DEF Deliver
    <2>2. UNCHANGED <<sCq, sSq>>
      BY <1>4 DEF Deliver
    <2> QED
      BY <2>1, <2>2 DEF SendEntries, InFlight, QpOf
  <1>5. ASSUME NEW q \in Qps, Ack(q) PROVE SendEntries'
    <2>1. PICK d \in ackWqes :
            /\ d.qp = q /\ ackWqes' = ackWqes \ {d}
            /\ sCq' = sCq \cup {[msg |-> d.msg, qp |-> q, wr_id |-> d.wr_id]}
      BY <1>5 DEF Ack
    <2>2. PICK c : c.msg = d.msg /\ c.qp = d.qp /\ sCq' = sCq \cup {c}
      BY <2>1
    <2>3. UNCHANGED <<dataWqes, sSq>>
      BY <1>5 DEF Ack, sQueues
    <2>4. \A m : InFlight(m) => InFlight(m)'
      BY <2>1, <2>2, <2>3 DEF InFlight
    <2> QED
      BY <2>1, <2>2, <2>3, <2>4 DEF SendEntries, QpOf
  <1> QED
    BY <1>1, <1>2, <1>3, <1>4, <1>5, SendQueueSteps

-----------------------------------------------------------------------------
(* The queues of the receiver *)

LEMMA InitRecvPlaces == Init => RecvPlaces /\ CtsEntries
  BY DEF Init, RecvPlaces, RecvUnique, OncePerMsg, Signalled, Cqes, CtsEntries

\* The steps that leave the receiver in error, or find it there.
LEMMA RecvErrorSteps ==
    ASSUME TypeOK, RecvInv, [Next]_vars, rRes' # "ok"
    PROVE  \/ UNCHANGED <<rStep, recvWqes, ctsWqes, flushWqes, rCq, fifoTail>>
              /\ (rRes = "error" => rRes' = "error")
           \/ \E t \in Msgs : PostFifoFails(t) \/ Consume(t)
           \/ \E q \in Qps : CtsArrive(q) \/ Deliver(q)
           \/ FlushRead
  <1>1. CASE Send
    BY <1>1 DEF Send, Isend, SendTestPoll, SendTestDone, rVars, rQueues
  <1>2. CASE Recv
    <2>1. ASSUME NEW r \in ReqIds, RecvTestPoll(r) PROVE FALSE
      BY <2>1, RecvTestPollRecvInv
    <2> QED
      BY <1>2, <2>1 DEF Recv, IrecvDefault, IrecvPostCTS, Flush, RecvTestDone,
                        RecvMayPost
  <1>3. CASE Nic
    BY <1>3 DEF Nic, Ack, rVars, rQueues
  <1>4. CASE Fault
    BY <1>4 DEF Fault, PostSendFails, PostRecvFails, PostFlushFails, QpBreaks,
                SendTestError, RecvTestError, RecvMayPost, rVars, rQueues
  <1>5. CASE Finished \/ UNCHANGED vars
    BY <1>5 DEF Finished, vars, rVars, rQueues
  <1> QED
    BY <1>1, <1>2, <1>3, <1>4, <1>5 DEF Next

\* A completion the NIC makes takes the place of its WQE.
LEMMA NicRecvUnique ==
    ASSUME RecvUnique,
           \/ \E q \in Qps : CtsArrive(q) \/ Deliver(q)
           \/ FlushRead
    PROVE  /\ RecvUnique'
           /\ recvWqes' \subseteq recvWqes
           /\ flushWqes' \subseteq flushWqes /\ Signalled' \subseteq Signalled
           /\ \A c \in rCq' : c \in rCq \/ \E w \in recvWqes \cup Signalled
                                                     \cup flushWqes :
                                  c.msg = w.msg
  <1>1. ASSUME NEW q \in Qps, CtsArrive(q)
        PROVE  /\ RecvUnique'
               /\ UNCHANGED <<recvWqes, flushWqes>>
               /\ Signalled' \subseteq Signalled
               /\ \A c \in rCq' : c \in rCq \/ \E w \in Signalled :
                                      c.msg = w.msg
    <2>1. PICK w \in ctsWqes :
            /\ ctsWqes' = ctsWqes \ {w}
            /\ rCq' = IF w.flags = "SIGNALED"
                      THEN rCq \cup {[msg |-> w.msg, qp |-> q,
                                      wr_id |-> w.wr_id,
                                      size |-> 0, opcode |-> "RDMA_WRITE"]}
                      ELSE rCq
      BY <1>1 DEF CtsArrive
    <2>2. UNCHANGED <<recvWqes, flushWqes>>
      BY <1>1 DEF CtsArrive
    <2>3. CASE w.flags # "SIGNALED"
      <3>1. Signalled' = Signalled /\ rCq' = rCq
        BY <2>1, <2>3 DEF Signalled
      <3> QED
        BY <2>2, <3>1 DEF RecvUnique, OncePerMsg, Cqes
    <2>4. CASE w.flags = "SIGNALED"
      <3>1. PICK c : /\ c.msg = w.msg
                     /\ c.opcode = "RDMA_WRITE" /\ rCq' = rCq \cup {c}
        BY <2>1, <2>4
      <3>2. w \in Signalled /\ Signalled' = Signalled \ {w}
        BY <2>1, <2>4 DEF Signalled
      <3>3. /\ Cqes("RDMA_WRITE")' = Cqes("RDMA_WRITE") \cup {c}
            /\ Cqes("RECV_RDMA_WITH_IMM")' = Cqes("RECV_RDMA_WITH_IMM")
            /\ Cqes("RDMA_READ")' = Cqes("RDMA_READ")
        BY <3>1 DEF Cqes
      <3>4. OncePerMsg(Signalled, Cqes("RDMA_WRITE"))'
        BY <3>1, <3>2, <3>3, CompletionMoves DEF RecvUnique, OncePerMsg
      <3>5. RecvUnique'
        BY <2>2, <3>3, <3>4 DEF RecvUnique, OncePerMsg
      <3> QED
        BY <2>2, <3>1, <3>2, <3>5
    <2> QED
      BY <2>3, <2>4
  <1>2. ASSUME NEW q \in Qps, Deliver(q)
        PROVE  /\ RecvUnique'
               /\ recvWqes' \subseteq recvWqes
               /\ UNCHANGED flushWqes /\ Signalled' = Signalled
               /\ \A c \in rCq' : c \in rCq \/ \E w \in recvWqes : c.msg = w.msg
    <2>1. UNCHANGED flushWqes /\ Signalled' = Signalled
      BY <1>2 DEF Deliver, Signalled
    <2>2. CASE UNCHANGED <<recvWqes, rCq>>
      BY <2>1, <2>2 DEF RecvUnique, OncePerMsg, Cqes
    <2>3. ASSUME NEW d, NEW w \in recvWqes, recvWqes' = recvWqes \ {w},
                 rCq' = rCq \cup
                        {[msg |-> w.msg, qp |-> q, wr_id |-> w.wr_id,
                          size |-> d.size, opcode |-> "RECV_RDMA_WITH_IMM"]}
          PROVE  /\ RecvUnique' /\ recvWqes' \subseteq recvWqes
                 /\ \A c \in rCq' :
                       c \in rCq \/ \E v \in recvWqes : c.msg = v.msg
      <3>1. PICK c : /\ c.msg = w.msg
                     /\ c.opcode = "RECV_RDMA_WITH_IMM" /\ rCq' = rCq \cup {c}
        BY <2>3
      <3>2. /\ Cqes("RECV_RDMA_WITH_IMM")' = Cqes("RECV_RDMA_WITH_IMM") \cup {c}
            /\ Cqes("RDMA_WRITE")' = Cqes("RDMA_WRITE")
            /\ Cqes("RDMA_READ")' = Cqes("RDMA_READ")
        BY <3>1 DEF Cqes
      <3>3. OncePerMsg(recvWqes, Cqes("RECV_RDMA_WITH_IMM"))'
        BY <2>3, <3>1, <3>2, CompletionMoves DEF RecvUnique, OncePerMsg
      <3>4. RecvUnique'
        BY <2>1, <3>2, <3>3 DEF RecvUnique, OncePerMsg
      <3> QED
        BY <2>3, <3>1, <3>4
    <2> QED
      BY <1>2, <2>1, <2>2, <2>3 DEF Deliver
  <1>3. ASSUME FlushRead
        PROVE  /\ RecvUnique'
               /\ UNCHANGED recvWqes /\ Signalled' = Signalled
               /\ flushWqes' \subseteq flushWqes
               /\ \A c \in rCq' : c \in rCq \/ \E w \in flushWqes :
                                      c.msg = w.msg
    <2>1. PICK w \in flushWqes :
            /\ flushWqes' = flushWqes \ {w}
            /\ rCq' = rCq \cup {[msg |-> w.msg, qp |-> FlushQp,
                                 wr_id |-> w.wr_id,
                                 size |-> 0, opcode |-> "RDMA_READ"]}
      BY <1>3 DEF FlushRead
    <2>2. UNCHANGED recvWqes /\ Signalled' = Signalled
      BY <1>3 DEF FlushRead, Signalled
    <2>3. PICK c : /\ c.msg = w.msg
                   /\ c.opcode = "RDMA_READ" /\ rCq' = rCq \cup {c}
      BY <2>1
    <2>4. /\ Cqes("RDMA_READ")' = Cqes("RDMA_READ") \cup {c}
          /\ Cqes("RDMA_WRITE")' = Cqes("RDMA_WRITE")
          /\ Cqes("RECV_RDMA_WITH_IMM")' = Cqes("RECV_RDMA_WITH_IMM")
      BY <2>3 DEF Cqes
    <2>5. OncePerMsg(flushWqes, Cqes("RDMA_READ"))'
      BY <2>1, <2>3, <2>4, CompletionMoves DEF RecvUnique, OncePerMsg
    <2>6. RecvUnique'
      BY <2>2, <2>4, <2>5 DEF RecvUnique, OncePerMsg
    <2> QED
      BY <2>1, <2>2, <2>3, <2>6
  <1> QED
    BY <1>1, <1>2, <1>3

\* The data of a message never takes the receive WQE of a failed post.
LEMMA DeliverTakesPosted ==
    ASSUME TypeOK, OrderInv, RecvPlaces, NEW q \in Qps, Deliver(q)
    PROVE  \A c \in rCq' : c \in rCq \/ rStep[c.msg].st = "posted"
  <1> USE OrderShapes
  <1>1. CASE UNCHANGED rCq
    BY <1>1
  <1>2. ASSUME NEW d \in dataWqes, NEW c \in ctsTable, NEW w \in recvWqes,
               d.qp = q, First(dataWqes, d), c.qp = q, First(ctsTable, c),
               w.qp = q, First(recvWqes, w), d.opcode = "RDMA_WRITE_WITH_IMM"
        PROVE  rStep[w.msg].st = "posted"
    <2>1. work[d.msg].proto = "Simple"
      BY <1>2, WorkType DEF OrderInv, DataTrue, DataOpcode, Message
    <2>2. w.msg = d.msg /\ c.msg = d.msg
      BY <1>2, <2>1, FirstsMatch
    <2>3. c.msg < fifoTail
      BY <1>2 DEF OrderInv, Waiting, HasCtsEntry
    <2> QED
      BY <1>2, <2>2, <2>3 DEF RecvPlaces
  <1> QED
    BY <1>1, <1>2 DEF Deliver

LEMMA NextRecvPlaces ==
    TypeOK /\ RecvInv /\ OrderInv /\ RecvPlaces /\ [Next]_vars => RecvPlaces'
  <1> SUFFICES ASSUME TypeOK, RecvInv, OrderInv, RecvPlaces, [Next]_vars
               PROVE  RecvPlaces'
    OBVIOUS
  <1> USE OrderShapes
  <1>1. CASE rRes' = "ok"
    <2>1. RecvOwnership' /\ RecvUnique'
      BY <1>1, NextRecvInv DEF RecvInv
    <2> QED
      BY <2>1 DEF RecvOwnership, RecvOwned, RecvPlaces, RecvOpen
  <1>2. CASE rRes' # "ok"
    <2>0. rRes' = "error"
      BY <1>2, NextTypeOK DEF TypeOK, RecvTypeOK, Result
    <2>1. CASE /\ UNCHANGED <<rStep, recvWqes, ctsWqes, flushWqes, rCq,
                              fifoTail>>
               /\ rRes = "error" => rRes' = "error"
      BY <2>1 DEF RecvPlaces, RecvUnique, OncePerMsg, Signalled, Cqes, RecvOpen
    <2>2. ASSUME NEW t \in Msgs, PostFifoFails(t) PROVE RecvPlaces'
      <3>1. /\ t = fifoTail /\ rRes = "ok" /\ MayPost(rStep, t)
            /\ UNCHANGED <<rStep, ctsWqes, flushWqes, rCq, fifoTail>>
        BY <2>2, PostsInOrder DEF PostFifoFails, RecvMayPost
      <3>2. \A u \in Msgs :
               rStep[u].st \notin {"idle", "done"} => fifoTail < u + Window
        BY <3>1, ConstantsAssumption DEF MayPost
      <3>3. CASE UNCHANGED recvWqes
        BY <3>1, <3>3 DEF RecvPlaces, RecvUnique, OncePerMsg, Signalled, Cqes,
                          RecvOpen
      <3>4. ASSUME NEW w, w.msg = t, recvWqes' = recvWqes \cup {w}
            PROVE  RecvPlaces'
        <4>1. \A v \in recvWqes : v.msg < t /\ v.msg # t
          BY <3>1 DEF OrderInv, RecvWqesKnown
        <4>2. rStep[t].st = "idle"
          BY <3>1 DEF MayPost
        <4>3. \A c \in Cqes("RECV_RDMA_WITH_IMM") : c.msg # t
          BY <4>2 DEF RecvPlaces, RecvOpen, Cqes
        <4>4. OncePerMsg(recvWqes, Cqes("RECV_RDMA_WITH_IMM"))'
          BY <3>1, <3>4, <4>1, <4>3 DEF RecvPlaces, RecvUnique, OncePerMsg, Cqes
        <4>5. RecvUnique'
          BY <3>1, <4>4 DEF RecvPlaces, RecvUnique, OncePerMsg, Signalled, Cqes
        <4>6. \A v \in recvWqes : rStep[v.msg].st = "posted"
          BY <3>1 DEF RecvPlaces
        <4> QED
          BY <2>0, <3>1, <3>2, <3>4, <4>5, <4>6
          DEF RecvPlaces, Signalled, RecvOpen
      <3> QED
        BY <2>2, <3>3, <3>4 DEF PostFifoFails
    <2>3. ASSUME NEW t \in Msgs, Consume(t) PROVE RecvPlaces'
      <3>1. /\ rStep[t].st = "rcvd"
            /\ rStep' = [rStep EXCEPT ![t].st = "done"]
            /\ UNCHANGED <<recvWqes, ctsWqes, flushWqes, rCq, fifoTail, rRes>>
        BY <2>3 DEF Consume, rQueues
      <3>2. \A u \in Msgs : u # t => rStep'[u] = rStep[u]
        BY <3>1
      <3>3. rStep'[t].st = "done"
        BY <3>1 DEF RecvStep
      <3>4. RecvUnique'
        BY <3>1 DEF RecvPlaces, RecvUnique, OncePerMsg, Signalled, Cqes
      <3>5. \A w \in recvWqes \cup Signalled \cup flushWqes \cup rCq :
               w.msg \in Msgs
        BY RecvShapes DEF Signalled
      <3>6. \A w \in recvWqes' :
               \/ rStep'[w.msg].st = "posted"
               \/ /\ rRes' = "error" /\ w.msg = fifoTail'
                  /\ \A u \in Msgs : rStep'[u].st \notin {"idle", "done"} =>
                        fifoTail' < u + Window
        BY <3>1, <3>2, <3>3, <3>5 DEF RecvPlaces
      <3>7. \A w \in (Signalled \cup flushWqes \cup rCq)' : RecvOpen(w.msg)'
        BY <3>1, <3>2, <3>5 DEF RecvPlaces, Signalled, RecvOpen
      <3> QED
        BY <3>4, <3>6, <3>7 DEF RecvPlaces
    <2>4. ASSUME \/ \E q \in Qps : CtsArrive(q) \/ Deliver(q)
                 \/ FlushRead
          PROVE  RecvPlaces'
      <3>1. UNCHANGED <<rStep, fifoTail, rRes>>
        BY <2>4 DEF CtsArrive, Deliver, FlushRead, rVars
      <3>2. /\ RecvUnique' /\ recvWqes' \subseteq recvWqes
            /\ flushWqes' \subseteq flushWqes /\ Signalled' \subseteq Signalled
        BY <2>4, NicRecvUnique DEF RecvPlaces
      <3>3. \A c \in rCq' : c \in rCq \/ RecvOpen(c.msg)
        <4>1. ASSUME NEW q \in Qps, Deliver(q)
              PROVE  \A c \in rCq' : c \in rCq \/ RecvOpen(c.msg)
          BY <4>1, DeliverTakesPosted DEF RecvOpen
        <4>2. ASSUME NEW q \in Qps, CtsArrive(q)
              PROVE  \A c \in rCq' : c \in rCq \/ \E w \in Signalled :
                                         c.msg = w.msg
          BY <4>2 DEF CtsArrive, Signalled
        <4>3. ASSUME FlushRead
              PROVE  \A c \in rCq' : c \in rCq \/ \E w \in flushWqes :
                                         c.msg = w.msg
          BY <4>3 DEF FlushRead
        <4> QED
          BY <2>4, <4>1, <4>2, <4>3 DEF RecvPlaces
      <3> QED
        BY <3>1, <3>2, <3>3 DEF RecvPlaces, RecvOpen
    <2> QED
      BY <1>2, <2>1, <2>2, <2>3, <2>4, RecvErrorSteps
  <1> QED
    BY <1>1, <1>2

\* The steps that touch the CTS of the receiver.
LEMMA CtsSteps ==
    ASSUME [Next]_vars
    PROVE  \/ UNCHANGED <<fifoTail, rSq, ctsWqes, rCq>>
           \/ \E t \in Msgs : IrecvDefault(t) \/ IrecvPostCTS(t)
           \/ \E r \in ReqIds : RecvTestPoll(r)
           \/ \E q \in Qps : CtsArrive(q) \/ Deliver(q)
           \/ FlushRead
  <1>1. CASE Send
    BY <1>1 DEF Send, Isend, SendTestPoll, SendTestDone, rVars, rQueues
  <1>2. CASE Recv
    BY <1>2 DEF Recv, Flush, RecvTestDone, Consume, rQueues
  <1>3. CASE Nic
    BY <1>3 DEF Nic, Ack, rVars, rQueues
  <1>4. CASE Fault
    BY <1>4 DEF Fault, PostSendFails, PostRecvFails, PostFifoFails,
                PostFlushFails, QpBreaks, SendTestError, RecvTestError, rVars,
                rQueues
  <1>5. CASE Finished \/ UNCHANGED vars
    BY <1>5 DEF Finished, vars, rVars, rQueues
  <1> QED
    BY <1>1, <1>2, <1>3, <1>4, <1>5 DEF Next

LEMMA NextCtsEntries ==
    TypeOK /\ OrderInv /\ RecvUnique /\ CtsEntries /\ [Next]_vars
      => CtsEntries'
  <1> SUFFICES ASSUME TypeOK, OrderInv, RecvUnique, CtsEntries, [Next]_vars
               PROVE  CtsEntries'
    OBVIOUS
  <1> USE OrderShapes DEF QpOf, IsSignalled, SlotOf
  <1>0. \A e \in rSq : e.msg \in Nat
    BY DEF TypeOK, RecvQueuesTypeOK, Place
  <1>1. ASSUME UNCHANGED <<fifoTail, rSq>>,
               Cqes("RDMA_WRITE")' = Cqes("RDMA_WRITE"),
               Signalled' = Signalled
        PROVE  CtsEntries'
    BY <1>1 DEF CtsEntries, HasCts, HasMsg
  <1>2. ASSUME NEW t \in Msgs, NEW r \in ReqIds, RecvMayPost(t), PostFifo(t, r),
               UNCHANGED rCq
        PROVE  CtsEntries'
    <2>1. t = fifoTail /\ rQpIndex = QpOf(t)
      BY <1>2, PostsInOrder DEF RecvMayPost, OrderInv, Counters
    <2>2. PICK x : /\ x.msg = t /\ x.flags = CtsFlags
                   /\ ctsWqes' = ctsWqes \cup {x}
      BY <1>2 DEF PostFifo
    <2>3. CtsFlags = "SIGNALED" <=> IsSignalled(t)
      BY <2>1 DEF CtsFlags, RecvSlot, CtsQpSlot
    <2>4. IsSignalled(t) => HasCts(t)'
      BY <2>2, <2>3 DEF HasCts, HasMsg, Signalled
    <2>5. \A u : HasCts(u) => HasCts(u)'
      BY <1>2, <2>2 DEF HasCts, HasMsg, Signalled, Cqes
    <2>6. \A e \in rSq' : e \in rSq \/ (e.msg = t /\ e.qp = QpOf(t))
      BY <1>2, <2>1 DEF PostFifo
    <2>7. fifoTail' = fifoTail + 1
      BY <1>2 DEF PostFifo
    <2>8. \A e \in rSq' : e.msg < fifoTail' /\ e.qp = QpOf(e.msg)
      BY <1>0, <2>1, <2>6, <2>7 DEF CtsEntries
    <2>9. ASSUME NEW e \in rSq', NEW u \in Msgs, e.msg <= u, u < fifoTail',
                 QpOf(u) = e.qp, IsSignalled(u)
          PROVE  HasCts(u)'
      <3>1. CASE u = t
        BY <2>4, <2>9, <3>1
      <3>2. CASE u # t
        <4>1. u < fifoTail
          BY <2>1, <2>7, <2>9, <3>2
        <4>2. e \in rSq
          BY <2>1, <2>6, <2>9, <4>1
        <4> QED
          BY <2>5, <2>9, <4>1, <4>2 DEF CtsEntries
      <3> QED
        BY <3>1, <3>2
    <2> QED
      BY <1>2, <2>8, <2>9 DEF CtsEntries, Cqes
  <1>3. ASSUME NEW t \in Msgs, IrecvDefault(t) \/ IrecvPostCTS(t)
        PROVE  CtsEntries'
    BY <1>2, <1>3 DEF IrecvDefault, IrecvPostCTS
  <1>4. ASSUME NEW q \in Qps, CtsArrive(q) PROVE CtsEntries'
    <2>1. PICK w \in ctsWqes :
            /\ w.qp = q /\ ctsWqes' = ctsWqes \ {w}
            /\ rCq' = IF w.flags = "SIGNALED"
                      THEN rCq \cup {[msg |-> w.msg, qp |-> q,
                                      wr_id |-> w.wr_id,
                                      size |-> 0, opcode |-> "RDMA_WRITE"]}
                      ELSE rCq
      BY <1>4 DEF CtsArrive
    <2>2. UNCHANGED <<fifoTail, rSq>>
      BY <1>4 DEF CtsArrive, rVars
    <2>3. CASE w.flags # "SIGNALED"
      <3>1. Signalled' = Signalled /\ rCq' = rCq
        BY <2>1, <2>3 DEF Signalled
      <3> QED
        BY <1>1, <2>2, <3>1 DEF Cqes
    <2>4. CASE w.flags = "SIGNALED"
      <3>1. PICK c : /\ c.msg = w.msg /\ c.qp = w.qp
                     /\ c.opcode = "RDMA_WRITE" /\ rCq' = rCq \cup {c}
        BY <2>1, <2>4
      <3>2. Signalled' = Signalled \ {w}
        BY <2>1 DEF Signalled
      <3>3. Cqes("RDMA_WRITE")' = Cqes("RDMA_WRITE") \cup {c}
        BY <3>1 DEF Cqes
      <3>4. \A u : HasCts(u) => HasCts(u)'
        BY <3>1, <3>2, <3>3 DEF HasCts, HasMsg
      <3>5. c.qp = QpOf(c.msg)
        BY <3>1 DEF OrderInv, OnOwnQp
      <3> QED
        BY <2>2, <3>3, <3>4, <3>5 DEF CtsEntries
    <2> QED
      BY <2>3, <2>4
  <1>5. ASSUME (\E q \in Qps : Deliver(q)) \/ FlushRead PROVE CtsEntries'
    <2>1. UNCHANGED <<fifoTail, rSq>> /\ Signalled' = Signalled
      BY <1>5 DEF Deliver, FlushRead, rVars, Signalled
    <2>2. Cqes("RDMA_WRITE")' = Cqes("RDMA_WRITE")
      BY <1>5 DEF Deliver, FlushRead, Cqes
    <2> QED
      BY <1>1, <2>1, <2>2
  <1>6. ASSUME NEW r \in ReqIds, RecvTestPoll(r) PROVE CtsEntries'
    <2>1. PICK c \in rCq :
            /\ rCq' = rCq \ {c}
            /\ rSq' = IF c.opcode = "RDMA_WRITE" THEN Retire(rSq, c) ELSE rSq
      BY <1>6 DEF RecvTestPoll
    <2>2. UNCHANGED fifoTail /\ Signalled' = Signalled
      BY <1>6 DEF RecvTestPoll, Signalled
    <2>3. CASE c.opcode # "RDMA_WRITE"
      <3>1. Cqes("RDMA_WRITE")' = Cqes("RDMA_WRITE") /\ rSq' = rSq
        BY <2>1, <2>3 DEF Cqes
      <3> QED
        BY <1>1, <2>2, <3>1
    <2>4. CASE c.opcode = "RDMA_WRITE"
      <3>1. /\ Cqes("RDMA_WRITE")' = Cqes("RDMA_WRITE") \ {c}
            /\ c \in Cqes("RDMA_WRITE") /\ rSq' = Retire(rSq, c)
        BY <2>1, <2>4 DEF Cqes
      <3>2. \A u : HasCts(u) /\ u # c.msg => HasCts(u)'
        BY <2>2, <3>1 DEF HasCts, HasMsg
      <3>3. c.qp = QpOf(c.msg) /\ c.msg \in Nat
        BY <3>1, RecvShapes DEF CtsEntries
      <3>4. \A e \in rSq' : e \in rSq /\ (e.qp # c.qp \/ e.msg > c.msg)
        BY <3>1 DEF Retire
      <3>5. ASSUME NEW e \in rSq', NEW u \in Msgs, e.msg <= u, u < fifoTail',
                   QpOf(u) = e.qp, IsSignalled(u)
            PROVE  HasCts(u)'
        <4>1. u # c.msg
          BY <1>0, <3>3, <3>4, <3>5
        <4>2. HasCts(u)
          BY <2>2, <3>4, <3>5 DEF CtsEntries
        <4> QED
          BY <3>2, <4>1, <4>2
      <3>6. \A e \in rSq' : e.msg < fifoTail' /\ e.qp = QpOf(e.msg)
        BY <2>2, <3>4 DEF CtsEntries
      <3> QED
        BY <3>1, <3>5, <3>6 DEF CtsEntries
    <2> QED
      BY <2>3, <2>4
  <1>7. CASE UNCHANGED <<fifoTail, rSq, ctsWqes, rCq>>
    BY <1>1, <1>7 DEF Cqes, Signalled
  <1> QED
    BY <1>3, <1>4, <1>5, <1>6, <1>7, CtsSteps

-----------------------------------------------------------------------------
(* How long a CTS can wait for a signalled one *)

LEMMA TimesMonotone ==
    ASSUME NEW a \in Nat, NEW b \in Nat, NEW n \in Nat, a <= b
    PROVE  n * a <= n * b /\ n * a \in Nat /\ n * b \in Nat
  <1>1. n * b = n * a + n * (b - a) /\ n * (b - a) >= 0
    OBVIOUS
  <1> QED
    BY <1>1

\* Among the messages of a QP, one in MaxRequests has a signalled CTS: the one
\* whose number is, modulo MaxRequests * NQps, the number of the QP.
LEMMA SignalPeriod ==
    ASSUME NEW a \in Nat
    PROVE  \E s \in Nat : /\ a <= s /\ s + NQps <= a + MaxRequests * NQps
                          /\ QpOf(s) = QpOf(a) /\ IsSignalled(s)
  <1> DEFINE k == a \div NQps
             q == a % NQps
             j == k \div MaxRequests
             i == k % MaxRequests
             P == MaxRequests * NQps
  <1>1. /\ NQps \in Nat \ {0} /\ MaxRequests \in Nat \ {0}
        /\ NQps <= MaxRequests
    BY ConstantsAssumption
  <1>2. k \in Nat /\ q \in 0 .. NQps - 1 /\ a = NQps * k + q
    BY <1>1, DivMod
  <1> HIDE DEF k, q
  <1>3. j \in Nat /\ i \in 0 .. MaxRequests - 1 /\ k = MaxRequests * j + i
    BY <1>1, <1>2, DivMod
  <1> HIDE DEF j, i
  <1>4. q \in 0 .. MaxRequests - 1
    BY <1>1, <1>2
  \* A number that is q modulo the period is signalled, and on QP q.
  <1>5. ASSUME NEW n \in Nat, NEW s \in Nat, s = P * n + q
        PROVE  QpOf(s) = q /\ IsSignalled(s)
    <2>1. /\ MaxRequests * n \in Nat /\ NQps * n \in Nat
          /\ P * n = NQps * (MaxRequests * n)
          /\ P * n = MaxRequests * (NQps * n)
      BY <1>1
    <2>2. s % NQps = q
      BY <1>1, <1>2, <1>5, <2>1, ModUnique
    <2>3. s % MaxRequests = q
      BY <1>1, <1>4, <1>5, <2>1, ModUnique
    <2> QED
      BY <2>2, <2>3 DEF QpOf, IsSignalled, SlotOf
  <1>6. a = P * j + NQps * i + q /\ P \in Nat /\ P * j \in Nat
    <2>1. NQps * k = NQps * (MaxRequests * j) + NQps * i
      BY <1>1, <1>3
    <2>2. NQps * (MaxRequests * j) = P * j
      BY <1>1, <1>3
    <2> QED
      BY <1>1, <1>2, <1>3, <2>1, <2>2
  <1>7. QpOf(a) = q
    BY DEF QpOf, q
  <1>8. NQps <= P
    <2>1. NQps * 1 <= NQps * MaxRequests
      BY <1>1, TimesMonotone
    <2> QED
      BY <1>1, <2>1
  <1>9. CASE i = 0
    <2>1. a = P * j + q
      BY <1>1, <1>2, <1>3, <1>6, <1>9
    <2>2. IsSignalled(a)
      BY <1>3, <1>5, <2>1
    <2> QED
      BY <1>1, <1>6, <1>8, <2>2
  <1>10. CASE i # 0
    <2> DEFINE s == P * (j + 1) + q
    <2>1. P * (j + 1) = P * j + P /\ j + 1 \in Nat
      BY <1>3, <1>6
    <2>2. s \in Nat
      BY <1>2, <1>6, <2>1
    <2>3. NQps * 1 <= NQps * i /\ NQps * i \in Nat
      BY <1>1, <1>3, <1>10, TimesMonotone
    <2>4. NQps * i <= NQps * MaxRequests
      BY <1>1, <1>3, TimesMonotone
    <2>5. a <= s /\ s + NQps <= a + P
      BY <1>1, <1>2, <1>6, <2>1, <2>3, <2>4
    <2>6. QpOf(s) = q /\ IsSignalled(s)
      BY <1>5, <2>1, <2>2
    <2> QED
      BY <1>7, <2>2, <2>5, <2>6
  <1> QED
    BY <1>9, <1>10

\* Two entries of one CTS send queue are less than 2 * MaxRequests turns of the
\* QPs apart.
LEMMA CtsEntriesNear ==
    ASSUME TypeOK, OrderInv, WindowInv, RecvPlaces, CtsEntries,
           NEW x \in rSq, NEW y \in rSq, x.qp = y.qp, x.msg <= y.msg
    PROVE  y.msg \div NQps < (x.msg \div NQps) + 2 * MaxRequests
  <1> DEFINE kx == x.msg \div NQps
             ky == y.msg \div NQps
             q == x.msg % NQps
             P == MaxRequests * NQps
  <1>1. /\ NQps \in Nat \ {0} /\ MaxRequests \in Nat \ {0}
        /\ Window \in Nat /\ Window <= MaxRequests
    BY ConstantsAssumption
  <1>2. /\ x.msg \in Msgs /\ y.msg \in Msgs /\ Msgs \subseteq Nat
        /\ fifoTail \in Nat /\ x.msg \in Nat /\ y.msg \in Nat
    BY OrderShapes DEF TypeOK, RecvQueuesTypeOK, Place
  <1>3. y.msg < fifoTail /\ x.qp = QpOf(x.msg) /\ y.qp = QpOf(y.msg)
    BY DEF CtsEntries
  <1>4. /\ kx \in Nat /\ ky \in Nat /\ q \in 0 .. NQps - 1
        /\ x.msg = NQps * kx + q /\ y.msg = NQps * ky + q
    BY <1>1, <1>2, <1>3, DivMod DEF QpOf
  <1>5. PICK s \in Nat : /\ x.msg <= s /\ s + NQps <= x.msg + P
                         /\ QpOf(s) = QpOf(x.msg) /\ IsSignalled(s)
    BY <1>2, SignalPeriod
  <1>6. P \in Nat /\ MaxRequests <= P
    <2>1. MaxRequests * 1 <= MaxRequests * NQps
      BY <1>1, TimesMonotone
    <2> QED
      BY <1>1, <2>1
  <1> HIDE DEF P
  <1>7. y.msg < x.msg + P + P
    <2>1. CASE y.msg < s
      BY <1>1, <1>2, <1>5, <1>6, <2>1
    <2>2. CASE s <= y.msg
      <3>1. s \in Msgs
        BY <1>2, <1>5, <2>2, ConstantsAssumption DEF Msgs
      <3>2. HasCts(s)
        BY <1>2, <1>3, <1>5, <2>2, <3>1 DEF CtsEntries
      <3>3. RecvOpen(s)
        BY <3>2 DEF HasCts, HasMsg, Cqes, RecvPlaces
      <3>4. fifoTail <= s + Window
        BY <3>1, <3>3 DEF WindowInv, RecvOpen
      <3> QED
        BY <1>1, <1>2, <1>3, <1>5, <1>6, <3>4
    <2> QED
      BY <1>2, <1>5, <2>1, <2>2
  <1> HIDE DEF kx, ky, q
  <1>8. ASSUME kx + 2 * MaxRequests <= ky PROVE FALSE
    <2>1. NQps * (kx + 2 * MaxRequests) <= NQps * ky
      BY <1>1, <1>4, <1>8, TimesMonotone
    <2>2. NQps * (kx + 2 * MaxRequests) = NQps * kx + P + P
      BY <1>1, <1>4 DEF P
    <2>3. NQps * kx \in Nat /\ NQps * ky \in Nat
      BY <1>1, <1>4
    <2> QED
      BY <1>4, <1>6, <1>7, <2>1, <2>2, <2>3
  <1>9. ky < kx + 2 * MaxRequests
    BY <1>1, <1>4, <1>8
  <1> QED
    BY <1>9 DEF kx, ky

-----------------------------------------------------------------------------
(* The depths *)

\* A set with one member for each message, of messages from a to b only.
LEMMA OncePerMsgBound ==
    ASSUME NEW S, NEW a \in Int, NEW b \in Int, a <= b + 1,
           \A x \in S : x.msg \in a .. b,
           \A x, y \in S : x.msg = y.msg => x = y
    PROVE  /\ IsFiniteSet(S) /\ Cardinality(S) \in Nat
           /\ Cardinality(S) <= b - a + 1
  <1> DEFINE f == [x \in S |-> x.msg]
  <1>1. f \in [S -> a .. b]
    OBVIOUS
  <1>2. \A x, y \in S : f[x] = f[y] => x = y
    OBVIOUS
  <1> HIDE DEF f
  <1> QED
    BY <1>1, <1>2, KeyedBound

LEMMA CtsQueueFits ==
    ASSUME TypeOK, OrderInv, WindowInv, RecvPlaces, CtsEntries, NEW q \in Qps
    PROVE  Cardinality(OnQp(rSq, q)) <= SqDepth
  <1> DEFINE S == OnQp(rSq, q)
             n == 2 * MaxRequests
             f == [x \in S |-> (x.msg \div NQps) % n]
  <1>1. NQps \in Nat \ {0} /\ MaxRequests \in Nat \ {0} /\ n \in Nat \ {0}
    BY ConstantsAssumption
  <1>2. \A x \in S : /\ x \in rSq /\ x.qp = q /\ x \in Place
                     /\ x.msg \in Nat /\ QpOf(x.msg) = q
                     /\ x.msg \div NQps \in Nat
                     /\ x.msg = NQps * (x.msg \div NQps) + q
    <2> SUFFICES ASSUME NEW x \in S
                 PROVE  /\ x \in rSq /\ x.qp = q /\ x \in Place
                        /\ x.msg \in Nat /\ QpOf(x.msg) = q
                        /\ x.msg \div NQps \in Nat
                        /\ x.msg = NQps * (x.msg \div NQps) + q
      OBVIOUS
    <2>1. x \in rSq /\ x.qp = q /\ x \in Place /\ x.msg \in Nat
      BY DEF OnQp, TypeOK, RecvQueuesTypeOK, Place, Msgs
    <2>2. x.msg % NQps = q
      BY <2>1 DEF CtsEntries, QpOf
    <2> QED
      BY <1>1, <2>1, <2>2, DivMod DEF QpOf
  <1>3. f \in [S -> 0 .. n - 1]
    BY <1>1, <1>2, DivMod
  <1>4. ASSUME NEW x \in S, NEW y \in S, x.msg <= y.msg, f[x] = f[y]
        PROVE  x = y
    <2> DEFINE kx == x.msg \div NQps
               ky == y.msg \div NQps
    <2>1. ky < kx + n
      BY <1>2, <1>4, CtsEntriesNear
    <2>2. kx % n = ky % n
      BY <1>4
    <2>3. kx <= ky
      <3>1. kx \in Nat /\ ky \in Nat /\ x.msg = NQps * kx + q
            /\ y.msg = NQps * ky + q /\ q \in Nat
        BY <1>2 DEF Qps
      <3> HIDE DEF kx, ky
      <3>2. ASSUME ky + 1 <= kx PROVE FALSE
        <4>1. NQps * (ky + 1) <= NQps * kx
          BY <1>1, <3>1, <3>2, TimesMonotone
        <4>2. NQps * (ky + 1) = NQps * ky + NQps
          BY <1>1, <3>1
        <4>3. NQps * ky \in Nat /\ NQps * kx \in Nat
          BY <1>1, <3>1
        <4> QED
          BY <1>1, <1>4, <3>1, <4>1, <4>2, <4>3
      <3> QED
        BY <3>1, <3>2
    <2>4. kx \in Nat /\ ky \in Nat
      BY <1>2
    <2>5. kx = ky
      <3> HIDE DEF kx, ky, n
      <3> QED
        BY <1>1, <2>1, <2>2, <2>3, <2>4, ModInjective
    <2>6. x.msg = y.msg /\ x.qp = y.qp
      BY <1>2, <2>5
    <2> QED
      BY <1>2, <2>6 DEF Place
  <1>5. \A x, y \in S : f[x] = f[y] => x = y
    <2> SUFFICES ASSUME NEW x \in S, NEW y \in S, f[x] = f[y] PROVE x = y
      OBVIOUS
    <2>1. x.msg <= y.msg \/ y.msg <= x.msg
      BY <1>2
    <2> HIDE DEF f, S
    <2> QED
      BY <1>4, <2>1
  <1>6. 0 <= (n - 1) + 1 /\ n - 1 \in Int /\ (n - 1) - 0 + 1 = n
    BY <1>1
  <1> HIDE DEF f, S, n
  <1>7. Cardinality(S) <= (n - 1) - 0 + 1
    BY <1>3, <1>5, <1>6, KeyedBound
  <1> QED
    BY <1>6, <1>7 DEF S, SqDepth, n

LEMMA DepthsSuffice == TransportInv /\ DepthInv => QueuesFit
  <1> SUFFICES ASSUME TransportInv, DepthInv PROVE QueuesFit
    OBVIOUS
  <1>1. /\ TypeOK /\ OrderInv /\ WindowInv /\ SendPlaces /\ SendEntries
        /\ RecvPlaces /\ CtsEntries
        /\ Msgs \subseteq Nat /\ fifoTail \in Nat /\ fifoHead \in Nat
    BY OrderShapes DEF TransportInv, DepthInv
  <1>2. /\ MaxRequests \in Nat \ {0} /\ NQps \in Nat \ {0}
        /\ Window \in Nat \ {0} /\ Window <= MaxRequests
    BY ConstantsAssumption
  <1>3. CqDepth \in Nat /\ 3 * MaxRequests <= CqDepth
    <2>1. (3 * MaxRequests) * 1 <= (3 * MaxRequests) * NQps
      BY <1>2, TimesMonotone
    <2> QED
      BY <1>2, <2>1 DEF CqDepth
  <1>4. \A t \in Msgs : sStep[t].st = "posted"
                           => t \in fifoHead - Window .. fifoHead - 1
    BY <1>1, <1>2 DEF OrderInv, Counters, WindowInv
  <1>5. \A t \in Msgs : rStep[t].st \notin {"idle", "done"}
                           => t \in fifoTail - Window .. fifoTail - 1
    BY <1>1, <1>2 DEF OrderInv, Counters, WindowInv
  <1> DEFINE ah == fifoHead - Window
             bh == fifoHead - 1
             at == fifoTail - Window
             bt == fifoTail - 1
  <1>6. /\ ah \in Int /\ bh \in Int /\ ah <= bh + 1 /\ bh - ah + 1 = Window
        /\ at \in Int /\ bt \in Int /\ at <= bt + 1 /\ bt - at + 1 = Window
    BY <1>1, <1>2
  <1>7. Cardinality(sCq) <= CqDepth
    <2>1. \A c \in sCq : c.msg \in ah .. bh
      BY <1>1, <1>4 DEF SendPlaces, TypeOK, CqTypeOK, SendCqe
    <2>2. \A c, d \in sCq : c.msg = d.msg => c = d
      BY <1>1 DEF SendPlaces, SendUnique
    <2> HIDE DEF ah, bh
    <2>3. Cardinality(sCq) \in Nat /\ Cardinality(sCq) <= bh - ah + 1
      BY <1>6, <2>1, <2>2, OncePerMsgBound
    <2> QED
      BY <1>2, <1>3, <1>6, <2>3
  <1>8. ASSUME NEW q \in Qps PROVE Cardinality(OnQp(sSq, q)) <= SqDepth
    <2> DEFINE S == OnQp(sSq, q)
               f == [e \in S |-> 2 * e.msg + e.n]
               a == 2 * ah + 1
               b == 2 * bh + 2
    <2>1. \A e \in S : /\ e \in [msg : Msgs, qp : Qps, n : 1 .. 2]
                       /\ e.qp = q /\ e.msg \in ah .. bh
      <3> SUFFICES ASSUME NEW e \in S
                   PROVE  /\ e \in [msg : Msgs, qp : Qps, n : 1 .. 2]
                          /\ e.qp = q /\ e.msg \in ah .. bh
        OBVIOUS
      <3>1. e \in [msg : Msgs, qp : Qps, n : 1 .. 2] /\ e.qp = q /\ e \in sSq
        BY <1>1 DEF OnQp, TypeOK, SendQueuesTypeOK
      <3>2. InFlight(e.msg)
        BY <1>1, <3>1 DEF SendEntries
      <3>3. sStep[e.msg].st = "posted"
        BY <1>1, <3>2 DEF InFlight, SendPlaces
      <3> QED
        BY <1>4, <3>1, <3>3
    <2>2. a \in Int /\ b \in Int /\ a <= b + 1 /\ b - a + 1 = 2 * Window
      BY <1>1, <1>2
    <2>3. f \in [S -> a .. b]
      <3> SUFFICES ASSUME NEW e \in S PROVE 2 * e.msg + e.n \in a .. b
        OBVIOUS
      <3>1. e.msg \in Int /\ ah <= e.msg /\ e.msg <= bh /\ e.n \in 1 .. 2
        BY <1>6, <2>1
      <3> QED
        BY <1>6, <3>1
    <2>4. ASSUME NEW x \in S, NEW y \in S, f[x] = f[y] PROVE x = y
      <3>1. /\ x.msg \in Nat /\ x.n \in 1 .. 2 /\ y.msg \in Nat /\ y.n \in 1 .. 2
            /\ x.qp = y.qp
        BY <1>1, <2>1
      <3>2. 2 * x.msg + x.n = 2 * y.msg + y.n
        BY <2>4
      <3>3. x.msg = y.msg /\ x.n = y.n
        BY <3>1, <3>2
      <3> QED
        BY <2>1, <3>1, <3>3
    <2> HIDE DEF S, f, a, b
    <2>5. Cardinality(S) \in Nat /\ Cardinality(S) <= b - a + 1
      BY <2>2, <2>3, <2>4, KeyedBound
    <2> QED
      BY <1>2, <2>2, <2>5 DEF S, SqDepth
  <1>9. ASSUME NEW q \in Qps PROVE Cardinality(OnQp(recvWqes, q)) <= RqDepth
    <2> DEFINE S == OnQp(recvWqes, q)
    <2>1. /\ \A w \in S : w \in recvWqes /\ w.msg \in Msgs
          /\ \A w, v \in S : w.msg = v.msg => w = v
      BY <1>1, RecvShapes DEF OnQp, RecvPlaces, RecvUnique, OncePerMsg
    <2>2. CASE \A w \in S : rStep[w.msg].st = "posted"
      <3>1. \A w \in S : w.msg \in at .. bt
        BY <1>5, <2>1, <2>2
      <3> HIDE DEF at, bt, S
      <3>2. Cardinality(S) \in Nat /\ Cardinality(S) <= bt - at + 1
        BY <1>6, <2>1, <3>1, OncePerMsgBound
      <3> QED
        BY <1>2, <1>6, <3>2 DEF S, RqDepth
    <2>3. CASE \E w \in S : rStep[w.msg].st # "posted"
      <3>1. \A u \in Msgs : rStep[u].st \notin {"idle", "done"}
                               => fifoTail < u + Window
        BY <1>1, <2>1, <2>3 DEF RecvPlaces
      <3>2. \A w \in S : w.msg \in at + 1 .. bt + 1
        <4> SUFFICES ASSUME NEW w \in S PROVE w.msg \in at + 1 .. bt + 1
          OBVIOUS
        <4>1. CASE rStep[w.msg].st = "posted"
          <5>1. /\ w.msg \in Int /\ w.msg <= fifoTail - 1
                /\ fifoTail < w.msg + Window
            <6>1. w.msg \in Msgs /\ w.msg \in Nat
              BY <1>1, <2>1
            <6>2. w.msg \in fifoTail - Window .. fifoTail - 1
              BY <1>5, <4>1, <6>1
            <6>3. fifoTail < w.msg + Window
              BY <3>1, <4>1, <6>1
            <6> QED
              BY <1>1, <6>1, <6>2, <6>3
          <5> QED
            BY <1>1, <1>2, <5>1
        <4>2. CASE rStep[w.msg].st # "posted"
          <5>1. w.msg = fifoTail
            BY <1>1, <2>1, <4>2 DEF RecvPlaces
          <5> QED
            BY <1>1, <1>2, <5>1
        <4> QED
          BY <4>1, <4>2
      <3>3. /\ at + 1 \in Int /\ bt + 1 \in Int /\ at + 1 <= bt + 1 + 1
            /\ (bt + 1) - (at + 1) + 1 = Window
        BY <1>6
      <3> HIDE DEF at, bt, S
      <3>4. /\ Cardinality(S) \in Nat
            /\ Cardinality(S) <= (bt + 1) - (at + 1) + 1
        BY <2>1, <3>2, <3>3, OncePerMsgBound
      <3> QED
        BY <1>2, <3>3, <3>4 DEF S, RqDepth
    <2> QED
      BY <2>2, <2>3
  <1>10. Cardinality(rCq) <= CqDepth
    <2> DEFINE A == Cqes("RECV_RDMA_WITH_IMM")
               B == Cqes("RDMA_WRITE")
               C == Cqes("RDMA_READ")
    <2>1. \A c \in rCq : c.msg \in at .. bt
      BY <1>1, <1>5, RecvShapes DEF RecvPlaces, RecvOpen
    <2>2. /\ \A c \in A \cup B \cup C : c.msg \in at .. bt
          /\ \A c, d \in A : c.msg = d.msg => c = d
          /\ \A c, d \in B : c.msg = d.msg => c = d
          /\ \A c, d \in C : c.msg = d.msg => c = d
      BY <1>1, <2>1 DEF Cqes, RecvPlaces, RecvUnique, OncePerMsg
    <2>3. rCq = (A \cup B) \cup C
      BY <1>1, RecvShapes DEF Cqes
    <2> HIDE DEF at, bt, A, B, C
    <2>4. /\ IsFiniteSet(A) /\ Cardinality(A) \in Nat
          /\ Cardinality(A) <= Window
      BY <1>6, <2>2, OncePerMsgBound
    <2>5. /\ IsFiniteSet(B) /\ Cardinality(B) \in Nat
          /\ Cardinality(B) <= Window
      BY <1>6, <2>2, OncePerMsgBound
    <2>6. /\ IsFiniteSet(C) /\ Cardinality(C) \in Nat
          /\ Cardinality(C) <= Window
      BY <1>6, <2>2, OncePerMsgBound
    <2>7. /\ IsFiniteSet(A \cup B) /\ Cardinality(A \cup B) \in Nat
          /\ Cardinality(A \cup B) <= Window + Window
      BY <1>2, <2>4, <2>5, UnionBound
    <2>8. Cardinality((A \cup B) \cup C) <= (Window + Window) + Window
      BY <1>2, <2>6, <2>7, Window + Window \in Nat, UnionBound
    <2>9. Cardinality(rCq) \in Nat /\ Cardinality(rCq) <= 3 * Window
      <3>1. IsFiniteSet(rCq)
        BY <2>3, <2>6, <2>7, FS_Union
      <3> QED
        BY <1>2, <2>3, <2>8, <3>1, FS_CardinalityType
    <2> QED
      BY <1>2, <1>3, <2>9
  <1> QED
    BY <1>1, <1>7, <1>8, <1>9, <1>10, CtsQueueFits DEF QueuesFit

\* No queue outgrows the depth it was created with, whatever the number of QPs
\* and of requests: in particular the CTS send queues, where ncclIbPostFifo
\* signals only the CTS whose slot is the one of their QP.
THEOREM QueuesFitCorrect == Spec => []QueuesFit
  <1>1. Init => TransportInv /\ DepthInv
    BY InitTransportInv, InitSendSlotsFree, InitSendPlaces, InitRecvPlaces
    DEF DepthInv
  <1>2. TransportInv /\ DepthInv /\ [Next]_vars => (TransportInv /\ DepthInv)'
    <2> SUFFICES ASSUME TransportInv, DepthInv, [Next]_vars
                 PROVE  TransportInv' /\ DepthInv'
      OBVIOUS
    <2>1. TypeOK /\ SendInv /\ RecvInv /\ OrderInv
      BY DEF TransportInv
    <2>2. SendPlaces' /\ SendEntries' /\ RecvPlaces'
      BY <2>1, NextSendPlaces, NextSendEntries, NextRecvPlaces DEF DepthInv
    <2>3. CtsEntries'
      BY <2>1, NextCtsEntries DEF DepthInv, RecvPlaces
    <2> QED
      BY <2>2, <2>3, NextTransportInv, NextSendSlotsFree DEF DepthInv
  <1> QED
    BY <1>1, <1>2, DepthsSuffice, PTL DEF Spec
=============================================================================
