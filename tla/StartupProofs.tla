--------------------------- MODULE StartupProofs ---------------------------
(***************************************************************************)
(* Theorems about the discovery of the devices (Devices) and the set-up of *)
(* communicators (Startup), for every host, every number of threads and    *)
(* every value of the limits.                                              *)
(***************************************************************************)
EXTENDS Startup, FiniteSums, SequenceTheorems

\* The places of anpNetInit between pthread_mutex_lock and its unlock.
Held == {"begin", "list", "open", "port", "entry", "first", "count", "speed",
         "number", "remerge", "clear", "summary", "fail"}

\* The lock has one owner, and nobody else is between the two calls.
LockInv == \A t \in Threads : pc[t] \in Held <=> ncclIbLock = t

\* Where the owner is.
Where == IF ncclIbLock = NoThread THEN "out" ELSE pc[ncclIbLock]

\* In the loop over ports; with the entry of a port filled; looking for its
\* merged device; with the entry in one.
InLoop == {"port", "entry", "first", "count", "speed", "number"}
Filled == {"entry", "first", "count", "speed", "number"}
Choosing == {"entry", "first", "count"}
Joined == {"speed", "number"}

\* The entries that are in merged devices.
Listed == IF Where \in Joined THEN ncclNIbDevs + 1 ELSE ncclNIbDevs

\* Before the discovery begins nothing has been written.
Fresh ==
    /\ ncclNMergedIbDevs = -1
    /\ walk = [pass |-> 1, mergeNics |-> MergeNics, d |-> 1, port |-> 1,
               nPorts |-> 0, mergedDev |-> 0]
    /\ ncclIbMergedDevs = [n \in Slots |-> NoMergedDev]

\* The two counters.  A device adds at most its ports to a list that had room
\* when it was opened.
CountInv ==
    /\ ncclNIbDevs = -1 => Fresh /\ ncclIbLock = NoThread
    /\ Where = "begin" => Fresh
    /\ (ncclNIbDevs # -1 /\ Where \notin {"begin", "remerge"})
          => ncclNMergedIbDevs \in 0 .. Listed
    /\ Where = "remerge" => ncclNMergedIbDevs \in Nat
    /\ ncclNIbDevs < MaxIbDevs + MaxPorts
    /\ (\A d \in DOMAIN hcas : Len(hcas[d].ports) <= 1) => ncclNIbDevs <= MaxIbDevs

PortsBounded == \A d \in DOMAIN hcas : Len(hcas[d].ports) <= MaxPorts

\* Where the loops of the discovery are.
WalkInv ==
    /\ walk.d > 0
    /\ Where \in {"begin", "list", "remerge", "clear"} => ncclNIbDevs = 0
    /\ ncclIbLock # NoThread => ncclNIbDevs # -1
    /\ Where \in InLoop =>
          /\ walk.d \in DOMAIN hcas
          /\ walk.port > walk.nPorts
          /\ walk.port <= Len(hcas[walk.d].ports) + 1
          /\ ncclNIbDevs - walk.nPorts \in 0 .. MaxIbDevs - 1
          /\ <<walk.pass, walk.d>> \in contexts
    /\ Where \in Filled =>
          /\ walk.port <= Len(hcas[walk.d].ports)
          /\ UsablePort(hcas[walk.d].ports[walk.port])

\* An entry that describes a port of the host.
OfPort(e) ==
    /\ e.hca \in DOMAIN hcas
    /\ e.portNum \in DOMAIN hcas[e.hca].ports
    /\ e.link = hcas[e.hca].ports[e.portNum].link

\* The entry of port k of device d in this pass.
EntryOf(e, d, k) ==
    /\ OfPort(e) /\ e.hca = d /\ e.portNum = k
    /\ e.context = <<walk.pass, d>>
    /\ e.pciPath = PciPath(hcas[d]) /\ e.guid = hcas[d].guid

\* An entry has the context its device was opened with in this pass.  Entries
\* of the device that is being looked at are counted in nPorts.
EntryInv ==
    /\ \A n \in 0 .. ncclNIbDevs - 1 :
          /\ OfPort(ncclIbDevs[n])
          /\ ncclIbDevs[n].context = <<walk.pass, ncclIbDevs[n].hca>>
          /\ ncclIbDevs[n].context \in contexts
          /\ \/ ncclIbDevs[n].hca < walk.d
             \/ ncclIbDevs[n].hca = walk.d /\ walk.nPorts > 0 /\ Where \in InLoop
    /\ Where \in Filled => EntryOf(ncclIbDevs[ncclNIbDevs], walk.d, walk.port)

First(m) == ncclIbDevs[ncclIbMergedDevs[m].devs[1]]

\* Where the filled entry goes: to a merged device of its NIC that has room, or
\* to a new one if there is none.
ChoiceInv ==
    /\ Where \in Choosing =>
          /\ walk.mergedDev <= ncclNMergedIbDevs
          /\ walk.mergedDev < ncclNMergedIbDevs =>
                /\ walk.mergeNics /\ HasRoom(walk.mergedDev)
                /\ SameNic(ncclIbDevs[ncclNIbDevs], First(walk.mergedDev))
          /\ (walk.mergeNics /\ walk.mergedDev = ncclNMergedIbDevs) =>
                \A m \in 0 .. ncclNMergedIbDevs - 1 :
                    ~(HasRoom(m) /\ SameNic(ncclIbDevs[ncclNIbDevs], First(m)))
    /\ Where \in {"first", "count"} => walk.mergedDev = ncclNMergedIbDevs
    /\ Where = "first" => ncclIbMergedDevs[walk.mergedDev] = [devs |-> <<0>>, speed |-> 0]
    /\ Where = "count" =>
          ncclIbMergedDevs[walk.mergedDev] = [devs |-> <<ncclNIbDevs>>, speed |-> 0]
    /\ Where \in Joined => walk.mergedDev < ncclNMergedIbDevs

\* Merged devices are nonempty and made of listed entries; the rest of the
\* array is zero.
MergedInv ==
    \A m \in Slots :
        /\ m < ncclNMergedIbDevs => ncclIbMergedDevs[m].devs # <<>>
        /\ (/\ m >= ncclNMergedIbDevs /\ Where # "clear"
            /\ Where \in {"first", "count"} => m # ncclNMergedIbDevs)
              => ncclIbMergedDevs[m] = NoMergedDev
        /\ (m < ncclNMergedIbDevs /\ Where # "remerge") =>
              \A i \in DOMAIN ncclIbMergedDevs[m].devs : ncclIbMergedDevs[m].devs[i] < Listed

\* Whatever is in the array of merged devices leads to a port.
Reachable(n) == OfPort(ncclIbDevs[n]) /\ ncclIbDevs[n].context \in contexts
MembersInv ==
    \A m \in Slots : \A i \in DOMAIN ncclIbMergedDevs[m].devs :
        Reachable(ncclIbMergedDevs[m].devs[i])

DevicesInv == /\ DevicesTypeOK /\ PortsBounded /\ LockInv /\ CountInv
              /\ WalkInv /\ EntryInv /\ ChoiceInv /\ MergedInv /\ MembersInv

\* A thread that is setting up a communicator has one, on a device it was told
\* of, and a QP to create during the calls of ncclIbCreateQp.
Busy(t) == step[t] \notin {"next", "failed"}
SetupInv ==
    /\ \A t \in Threads : Busy(t) => todo[t] # <<>>
    /\ \A t \in Threads : InCall(t) => jobs[t] # <<>>

\* Two calls under way that touch the same domain or entry know of it.
AloneInv ==
    \A t, u \in Threads :
        (t # u /\ InCall(t) /\ InCall(u) /\ Interfere(t, u)) => ~alone[t] /\ ~alone[u]

\* The entry is marked before it is used, and a call nobody interferes with
\* finds the mask it has set.
CallInv ==
    \A t \in Threads :
        /\ step[t] \in {"mask", "create"} => UdEntry(t).allocated
        /\ (step[t] = "create" /\ alone[t]) => udma_mask[Job1(t).dev] = UdEntry(t).ud_id

\* The entry of a QP created undisturbed is marked, and nobody who tested it
\* before is about to write it.
QpInv ==
    \A q \in qps : q.alone =>
        /\ q.pipe = channel_ud[q.kind][q.channel].ud_id
        /\ channel_ud[q.kind][q.channel].allocated
        /\ \A t \in Threads : step[t] \in {"read", "assign"} =>
              ~(Job1(t).kind = q.kind /\ Current(t).channel = q.channel)

-----------------------------------------------------------------------------

-----------------------------------------------------------------------------
(* What the operators of the discovery return *)

\* firstBitSet finds a bit or runs into its limit.
LEMMA FirstBitSetRange ==
    ASSUME NEW val \in Nat, NEW max \in Nat
    PROVE  FirstBitSet(val, max) \in 0 .. max
  <1> DEFINE zero(k) == (val \div 2^k) % 2 = 0
             one(k) == (val \div 2^k) % 2 = 1
             ends == {i \in Nat : i <= max /\ (i = max \/ ~zero(i))}
  <1>1. \A k \in Nat : zero(k) \/ one(k)
    <2> SUFFICES ASSUME NEW k \in Nat PROVE zero(k) \/ one(k)
      OBVIOUS
    <2>1. (val \div 2^k) % 2 \in 0 .. 1
      OBVIOUS
    <2> QED
      BY <2>1
  <1>2. ends # {} /\ ends \in SUBSET Nat
    OBVIOUS
  <1>3. PICK i \in ends : \A j \in ends : i <= j
    BY <1>2, LeastElement
  <1>4. i \in 0 .. max /\ (i < max => one(i))
    BY <1>1, <1>3
  <1>5. \A k \in 0 .. i - 1 : zero(k)
    BY <1>3, <1>4
  <1> HIDE DEF ends
  <1> QED
    BY <1>4, <1>5 DEF FirstBitSet

LEMMA PortSpeedType ==
    ASSUME NEW p \in Port
    PROVE  PortSpeed(p) \in Nat
  <1>1. FirstBitSet(p.speed, 7) \in 0 .. 7 /\ FirstBitSet(p.width, 4) \in 0 .. 4
    BY FirstBitSetRange DEF Port
  <1>2. \A i \in 0 .. 7 : IbvSpeeds[i + 1] \in Nat
    BY DEF IbvSpeeds
  <1>3. \A i \in 0 .. 4 : IbvWidths[i + 1] \in Nat
    BY DEF IbvWidths
  <1>4. Len(IbvSpeeds) - 1 = 7 /\ Len(IbvWidths) - 1 = 4
    BY DEF IbvSpeeds, IbvWidths
  <1>5. \A a, b \in Nat : a * b \in Nat
    OBVIOUS
  <1>6. PortSpeed(p) = IbvSpeeds[FirstBitSet(p.speed, 7) + 1]
                         * IbvWidths[FirstBitSet(p.width, 4) + 1]
    BY <1>4 DEF PortSpeed
  <1>7. /\ IbvSpeeds[FirstBitSet(p.speed, 7) + 1] \in Nat
        /\ IbvWidths[FirstBitSet(p.width, 4) + 1] \in Nat
    BY <1>1, <1>2, <1>3
  <1> QED
    BY <1>5, <1>6, <1>7

\* The devices and ports of a host.
LEMMA HostFacts ==
    ASSUME host \in Host
    PROVE  /\ hcas \in Seq(Hca) /\ host.callers \in SUBSET Threads
           /\ host.gid \in UserGid /\ Len(hcas) \in Nat
           /\ DOMAIN hcas = 1 .. Len(hcas)
           /\ \A d \in DOMAIN hcas :
                 /\ hcas[d] \in Hca /\ hcas[d].ports \in Seq(Port)
                 /\ Len(hcas[d].ports) \in Nat
                 /\ DOMAIN hcas[d].ports = 1 .. Len(hcas[d].ports)
                 /\ \A k \in DOMAIN hcas[d].ports : hcas[d].ports[k] \in Port
  <1>1. hcas \in Seq(Hca) /\ host.callers \in SUBSET Threads /\ host.gid \in UserGid
    BY DEF Host, hcas
  <1>2. Len(hcas) \in Nat /\ DOMAIN hcas = 1 .. Len(hcas)
    BY <1>1, LenProperties
  <1>3. ASSUME NEW d \in DOMAIN hcas
        PROVE  /\ hcas[d] \in Hca /\ hcas[d].ports \in Seq(Port)
               /\ Len(hcas[d].ports) \in Nat
               /\ DOMAIN hcas[d].ports = 1 .. Len(hcas[d].ports)
               /\ \A k \in DOMAIN hcas[d].ports : hcas[d].ports[k] \in Port
    <2>1. hcas[d] \in Hca
      BY <1>1, <1>2, ElementOfSeq
    <2>2. hcas[d].ports \in Seq(Port)
      BY <2>1 DEF Hca
    <2>3. Len(hcas[d].ports) \in Nat /\ DOMAIN hcas[d].ports = 1 .. Len(hcas[d].ports)
      BY <2>2, LenProperties
    <2> QED
      BY <2>1, <2>2, <2>3, ElementOfSeq
  <1> QED
    BY <1>1, <1>2, <1>3

LEMMA RealPortType ==
    ASSUME NEW path, ncclNIbDevs \in Int
    PROVE  RealPort(path) \in Nat
  <1> DEFINE I == 0 .. ncclNIbDevs - 1
             T == {n \in I : ncclIbDevs[n].pciPath = path}
  <1>1. IsFiniteSet(I)
    BY FS_Interval
  <1>2. IsFiniteSet(T)
    BY <1>1, FS_Subset
  <1> QED
    BY <1>2, FS_CardinalityType DEF RealPort

\* The entry of a usable port.
LEMMA IbDevOfType ==
    ASSUME DevicesTypeOK, NEW d \in DOMAIN hcas, NEW k \in DOMAIN hcas[d].ports,
           UsablePort(hcas[d].ports[k])
    PROVE  /\ IbDevOf(d, k) \in IbDev
           /\ IbDevOf(d, k).hca = d /\ IbDevOf(d, k).portNum = k
           /\ IbDevOf(d, k).link = hcas[d].ports[k].link
           /\ IbDevOf(d, k).context = <<walk.pass, d>>
           /\ IbDevOf(d, k).pciPath = PciPath(hcas[d])
           /\ IbDevOf(d, k).guid = hcas[d].guid
  <1> DEFINE p == hcas[d].ports[k]
             h == hcas[d]
  <1>1. h \in Hca /\ p \in Port /\ d \in Nat /\ k \in Nat
    BY HostFacts DEF DevicesTypeOK
  <1>2. p.link \in {"IB", "RoCE"} /\ PortSpeed(p) \in Nat
    BY <1>1, PortSpeedType DEF UsablePort, Port
  <1>3. RealPort(PciPath(h)) \in Nat
    BY RealPortType DEF DevicesTypeOK, Slots
  <1>4. PciPath(h) \in PciPaths /\ h.guid \in Nat /\ h.max_qp \in Nat
    BY <1>1 DEF Hca, PciPath, PciPaths
  <1>5. <<walk.pass, d>> \in Contexts
    BY <1>1 DEF DevicesTypeOK, Walk, Contexts
  <1>6. (IF ArParam # -2 THEN ArParam ELSE IF p.link = "IB" THEN 1 ELSE 0) \in Int
    BY DevicesConstantsAssumption
  <1> HIDE DEF p, h
  <1>7. IbDevOf(d, k) =
         [hca |-> d, portNum |-> k, guid |-> h.guid, pciPath |-> PciPath(h),
          link |-> p.link, speed |-> PortSpeed(p),
          realPort |-> RealPort(PciPath(h)), maxQp |-> h.max_qp,
          ar |-> IF ArParam # -2 THEN ArParam ELSE IF p.link = "IB" THEN 1 ELSE 0,
          context |-> <<walk.pass, d>>]
    BY DEF IbDevOf, p, h
  <1>8. IbDevOf(d, k) \in IbDev
    BY <1>1, <1>2, <1>3, <1>4, <1>5, <1>6, <1>7 DEF IbDev
  <1>9. /\ IbDevOf(d, k).hca = d /\ IbDevOf(d, k).portNum = k
        /\ IbDevOf(d, k).link = p.link
        /\ IbDevOf(d, k).context = <<walk.pass, d>>
        /\ IbDevOf(d, k).pciPath = PciPath(h) /\ IbDevOf(d, k).guid = h.guid
    BY <1>7
  <1> QED
    BY <1>8, <1>9 DEF p, h

\* Where an entry goes: to a merged device of its NIC that has room, or to a
\* new one if there is none.
LEMMA FindMatchingDevIs ==
    ASSUME ncclNMergedIbDevs \in Nat, NEW dev
    PROVE  LET m == FindMatchingDev(dev)
           IN  /\ \/ m = ncclNMergedIbDevs
                  \/ /\ m \in 0 .. ncclNMergedIbDevs - 1 /\ HasRoom(m) /\ walk.mergeNics
                     /\ SameNic(dev, First(m))
               /\ (walk.mergeNics /\ m = ncclNMergedIbDevs) =>
                     \A o \in 0 .. ncclNMergedIbDevs - 1 :
                         ~(HasRoom(o) /\ SameNic(dev, First(o)))
  <1> DEFINE fits == {m \in 0 .. ncclNMergedIbDevs - 1 :
                        HasRoom(m) /\ SameNic(dev, First(m))}
             first == CHOOSE m \in fits : \A o \in fits : m <= o
  <1>1. FindMatchingDev(dev) = IF walk.mergeNics /\ fits # {} THEN first ELSE ncclNMergedIbDevs
    BY DEF FindMatchingDev, First
  <1>2. ASSUME fits # {} PROVE first \in fits
    <2>1. fits \in SUBSET Nat
      OBVIOUS
    <2>2. \E m \in fits : \A o \in fits : m <= o
      BY <1>2, <2>1, LeastElement
    <2> HIDE DEF fits
    <2> QED
      BY <2>2
  <1>3. CASE walk.mergeNics /\ fits # {}
    <2>1. first \in fits /\ FindMatchingDev(dev) = first
      BY <1>1, <1>2, <1>3
    <2>2. \A x \in fits : x # ncclNMergedIbDevs
      OBVIOUS
    <2> HIDE DEF first
    <2> QED
      BY <1>3, <2>1, <2>2
  <1>4. CASE ~(walk.mergeNics /\ fits # {})
    BY <1>1, <1>4
  <1> QED
    BY <1>3, <1>4

-----------------------------------------------------------------------------
(* The discovery keeps its invariant *)

LEMMA NoMerged ==
    /\ NoMergedDev \in MergedDev /\ Len(NoMergedDev.devs) = 0
    /\ DOMAIN NoMergedDev.devs = {} /\ NoMergedDev.devs = <<>> /\ NoMergedDev.speed = 0
  <1>1. <<>> \in Seq(Slots)
    OBVIOUS
  <1> QED
    BY <1>1 DEF NoMergedDev, MergedDev

LEMMA InitDevicesInv == DevicesInit => DevicesInv
  <1> SUFFICES ASSUME DevicesInit PROVE DevicesInv
    OBVIOUS
  <1>1. host \in Host /\ PortsBounded
    BY DevicesConstantsAssumption DEF DevicesInit, PortsBounded, hcas
  <1>2. NoIbDev \in IbDev
    <2>1. <<1, 0>> \in Contexts
      BY DEF Contexts
    <2>2. [bus |-> 0, slot |-> 0] \in PciPaths
      BY DEF PciPaths
    <2> QED
      BY <2>1, <2>2 DEF NoIbDev, IbDev
  <1>3. 0 \in Slots
    BY DevicesConstantsAssumption DEF Slots
  <1>4. walk \in Walk
    BY <1>3, DevicesConstantsAssumption DEF DevicesInit, Walk
  <1>5. DevicesTypeOK
    <2>1. \A n \in Slots : Len(ncclIbMergedDevs[n].devs) <= MaxDevsPerNic
      BY NoMerged, DevicesConstantsAssumption DEF DevicesInit
    <2> QED
      BY <1>1, <1>2, <1>4, <2>1, NoMerged, DevicesConstantsAssumption
      DEF DevicesInit, DevicesTypeOK, Pcs
  <1>6. LockInv
    BY DevicesConstantsAssumption DEF DevicesInit, LockInv, Held
  <1>7. Where = "out"
    BY DEF DevicesInit, Where
  <1>8. CountInv
    BY <1>7, DevicesConstantsAssumption DEF DevicesInit, CountInv, Fresh
  <1>9. WalkInv
    BY <1>7 DEF DevicesInit, WalkInv, InLoop, Filled
  <1>10. EntryInv /\ ChoiceInv
    BY <1>7 DEF DevicesInit, EntryInv, ChoiceInv, Filled, Choosing, Joined
  <1>11. MergedInv /\ MembersInv
    BY NoMerged, DevicesConstantsAssumption DEF DevicesInit, MergedInv, MembersInv, Slots
  <1> QED
    BY <1>1, <1>5, <1>6, <1>8, <1>9, <1>10, <1>11 DEF DevicesInv

\* One owner, one place.
LEMMA WhereIs ==
    ASSUME LockInv, NEW t \in Threads, pc[t] \in Held
    PROVE  Where = pc[t] /\ ncclIbLock = t /\ ncclIbLock # NoThread
  BY DevicesConstantsAssumption DEF LockInv, Where

\* The owner goes on to another place.
LEMMA WhereMoves ==
    ASSUME LockInv, NEW t \in Threads, NEW p \in Held, pc[t] \in Held,
           pc \in [Threads -> Pcs], pc' = [pc EXCEPT ![t] = p], ncclIbLock' = ncclIbLock
    PROVE  /\ Where = pc[t] /\ Where' = p /\ LockInv'
           /\ ncclIbLock # NoThread /\ ncclIbLock' # NoThread
           /\ pc' \in [Threads -> Pcs]
  <1>1. Where = pc[t] /\ ncclIbLock = t /\ ncclIbLock # NoThread
    BY WhereIs
  <1>2. Where' = p
    BY <1>1 DEF Where
  <1>3. LockInv'
    BY <1>1 DEF LockInv
  <1>4. pc' \in [Threads -> Pcs]
    BY DEF Held, Pcs
  <1> QED
    BY <1>1, <1>2, <1>3, <1>4

LEMMA InjectFaultType ==
    ASSUME DevicesTypeOK, InjectFault
    PROVE  faults' \in 0 .. MaxFaults
  BY DevicesConstantsAssumption DEF DevicesTypeOK, InjectFault

\* Whoever leaves lists, loops and the place of the owner alone keeps all that
\* is said about them.
LEMMA ListsKept ==
    ASSUME DevicesInv, UNCHANGED <<host, listVars, walk, contexts>>, Where' = Where,
           ncclIbLock' = ncclIbLock
    PROVE  /\ PortsBounded' /\ CountInv' /\ WalkInv' /\ EntryInv' /\ ChoiceInv'
           /\ MergedInv' /\ MembersInv'
  <1> USE DEF listVars
  <1>1. hcas' = hcas
    BY DEF hcas
  <1>2. PortsBounded'
    BY <1>1 DEF DevicesInv, PortsBounded
  <1>3. CountInv'
    BY <1>1 DEF DevicesInv, CountInv, Fresh, Listed
  <1>4. WalkInv'
    BY <1>1 DEF DevicesInv, WalkInv
  <1>5. EntryInv'
    BY <1>1 DEF DevicesInv, EntryInv, EntryOf, OfPort
  <1>6. ChoiceInv'
    BY DEF DevicesInv, ChoiceInv, First, HasRoom
  <1>7. MergedInv'
    BY DEF DevicesInv, MergedInv, Listed
  <1>8. MembersInv'
    BY <1>1 DEF DevicesInv, MembersInv, Reachable, OfPort
  <1> QED
    BY <1>2, <1>3, <1>4, <1>5, <1>6, <1>7, <1>8

\* Steps of threads without the lock.
LEMMA OutsideKeeps ==
    ASSUME DevicesInv, NEW t \in Threads, NEW p \in Pcs \ Held, pc[t] \notin Held,
           pc' = [pc EXCEPT ![t] = p],
           met' \in [Threads -> {"none", "before", "during", "after"}],
           ndev' \in [Threads -> Slots \cup {-1}],
           UNCHANGED <<host, ncclIbLock, listVars, walk, contexts, faults>>
    PROVE  DevicesInv'
  <1>1. pc \in [Threads -> Pcs] /\ LockInv
    BY DEF DevicesInv, DevicesTypeOK
  <1>2. ncclIbLock # t
    BY <1>1 DEF LockInv
  <1>3. LockInv'
    BY <1>1, <1>2 DEF LockInv
  <1>4. Where' = Where
    <2>1. CASE ncclIbLock = NoThread
      BY <2>1 DEF Where
    <2>2. CASE ncclIbLock # NoThread
      <3>1. ncclIbLock \in Threads
        BY <2>2 DEF DevicesInv, DevicesTypeOK
      <3>2. pc'[ncclIbLock] = pc[ncclIbLock]
        BY <1>1, <1>2, <3>1
      <3> QED
        BY <2>2, <3>2 DEF Where
    <2> QED
      BY <2>1, <2>2
  <1>5. DevicesTypeOK'
    BY DEF DevicesInv, DevicesTypeOK, listVars
  <1> QED
    BY <1>3, <1>4, <1>5, ListsKept DEF DevicesInv

LEMMA CallKeeps ==
    ASSUME DevicesInv, NEW t \in Threads, Call(t)
    PROVE  DevicesInv'
  <1>1. /\ UNCHANGED <<host, ncclIbLock, listVars, walk, contexts, ndev, faults>>
        /\ pc[t] = "call"
    BY DEF Call
  <1>2. \E p \in {"lock", "ok"} : pc' = [pc EXCEPT ![t] = p]
    BY DEF Call, Goto
  <1>3. met' \in [Threads -> {"none", "before", "during", "after"}]
    BY DEF DevicesInv, DevicesTypeOK, Call
  <1>4. ndev' \in [Threads -> Slots \cup {-1}]
    BY <1>1 DEF DevicesInv, DevicesTypeOK
  <1>5. PICK p \in {"lock", "ok"} : pc' = [pc EXCEPT ![t] = p]
    BY <1>2
  <1>6. p \in Pcs \ Held /\ pc[t] \notin Held
    BY <1>1 DEF Pcs, Held
  <1> QED
    BY <1>1, <1>3, <1>4, <1>5, <1>6, OutsideKeeps

LEMMA NetDevicesKeeps ==
    ASSUME DevicesInv, NEW t \in Threads, NetDevices(t)
    PROVE  DevicesInv'
  <1>1. /\ UNCHANGED <<host, ncclIbLock, listVars, walk, contexts, met, faults>>
        /\ pc[t] = "ok" /\ pc' = [pc EXCEPT ![t] = "ready"]
        /\ ndev' = [ndev EXCEPT ![t] = ncclNMergedIbDevs]
    BY DEF NetDevices, Goto
  <1>2. /\ met' \in [Threads -> {"none", "before", "during", "after"}]
        /\ ndev' \in [Threads -> Slots \cup {-1}]
    BY <1>1 DEF DevicesInv, DevicesTypeOK
  <1>3. "ready" \in Pcs \ Held /\ pc[t] \notin Held
    BY <1>1 DEF Pcs, Held
  <1> QED
    BY <1>1, <1>2, <1>3, OutsideKeeps

\* Places where the two lists agree and nothing is under way.
Plain == {"list", "open", "port", "summary", "fail", "out"}

\* Steps between such places that leave the lists alone.
LEMMA PlainFrame ==
    ASSUME DevicesInv, UNCHANGED <<host, listVars>>, Where \in Plain, Where' \in Plain,
           ncclNIbDevs # -1
    PROVE  PortsBounded' /\ CountInv' /\ ChoiceInv' /\ MergedInv'
  <1> USE DEF listVars
  <1>1. hcas' = hcas
    BY DEF hcas
  <1>2. Listed = ncclNIbDevs /\ Listed' = ncclNIbDevs
    BY DEF Listed, Plain, Joined
  <1>3. PortsBounded'
    BY <1>1 DEF DevicesInv, PortsBounded
  <1>4. CountInv'
    BY <1>1, <1>2 DEF DevicesInv, CountInv, Plain
  <1>5. ChoiceInv'
    BY DEF ChoiceInv, Plain, Choosing, Joined
  <1>6. MergedInv'
    BY <1>2 DEF DevicesInv, MergedInv, Plain
  <1> QED
    BY <1>3, <1>4, <1>5, <1>6

\* A step that closes no context of a member.
LEMMA MembersFrame ==
    ASSUME DevicesInv, UNCHANGED <<host, ncclIbDevs, ncclIbMergedDevs>>,
           contexts \subseteq contexts'
    PROVE  MembersInv'
  <1>1. hcas' = hcas
    BY DEF hcas
  <1> QED
    BY <1>1 DEF DevicesInv, MembersInv, Reachable, OfPort

\* Entries of finished devices only, where nobody is at a port.
LEMMA EntriesBehind ==
    ASSUME DevicesInv, NEW n \in 0 .. ncclNIbDevs - 1, walk.nPorts = 0 \/ Where \notin InLoop
    PROVE  ncclIbDevs[n].hca < walk.d /\ ncclIbDevs[n].hca \in Nat
  <1>1. ~(walk.nPorts > 0 /\ Where \in InLoop)
    OBVIOUS
  <1>2. ncclIbDevs[n].hca < walk.d
    BY <1>1 DEF DevicesInv, EntryInv
  <1>3. n \in Slots
    BY DevicesConstantsAssumption DEF DevicesInv, DevicesTypeOK, Slots
  <1> QED
    BY <1>2, <1>3 DEF DevicesInv, DevicesTypeOK, IbDev

\* Moves of the owner that leave lists and loops alone.
LEMMA OwnerMoves ==
    ASSUME DevicesInv, NEW t \in Threads, NEW p \in {"open", "summary", "fail"},
           pc[t] \in {"list", "open"} \/ (pc[t] = "port" /\ walk.nPorts = 0),
           pc' = [pc EXCEPT ![t] = p], faults' \in 0 .. MaxFaults,
           contexts \subseteq contexts', contexts' \subseteq Contexts,
           UNCHANGED <<host, ncclIbLock, listVars, walk, met, ndev>>
    PROVE  DevicesInv'
  <1>1. p \in Held /\ pc[t] \in Held /\ pc \in [Threads -> Pcs] /\ LockInv
    BY DEF Held, DevicesInv, DevicesTypeOK
  <1>2. /\ Where = pc[t] /\ Where' = p /\ LockInv' /\ ncclIbLock # NoThread
        /\ pc' \in [Threads -> Pcs] /\ ncclIbLock' # NoThread
    BY <1>1, WhereMoves
  <1>3. ncclNIbDevs # -1 /\ ncclNIbDevs' # -1
    BY <1>2 DEF DevicesInv, WalkInv, listVars
  <1>4. Where \in Plain /\ Where' \in Plain /\ Where' \notin InLoop /\ Where' \notin Filled
        /\ Where' \notin {"begin", "list", "remerge", "clear"}
    BY <1>2 DEF Plain, InLoop, Filled
  <1>5. PortsBounded' /\ CountInv' /\ ChoiceInv' /\ MergedInv'
    BY <1>3, <1>4, PlainFrame
  <1>6. MembersInv'
    BY MembersFrame DEF listVars
  <1>7. DevicesTypeOK'
    BY <1>2 DEF DevicesInv, DevicesTypeOK, listVars
  <1>8. WalkInv'
    BY <1>3, <1>4 DEF DevicesInv, WalkInv
  <1>9. EntryInv'
    <2>1. walk.nPorts = 0 \/ Where \notin InLoop
      BY <1>2 DEF InLoop
    <2>2. \A n \in 0 .. ncclNIbDevs - 1 : ncclIbDevs[n].hca < walk.d
      BY <2>1, EntriesBehind
    <2>3. hcas' = hcas
      BY DEF hcas
    <2> QED
      BY <1>4, <2>2, <2>3 DEF DevicesInv, EntryInv, OfPort, listVars
  <1> QED
    BY <1>2, <1>5, <1>6, <1>7, <1>8, <1>9 DEF DevicesInv

LEMMA OwnerMovesKeep ==
    ASSUME DevicesInv, NEW t \in Threads,
           ListDevices(t) \/ EndList(t) \/ DiscoveryFails(t) \/ QueryFails(t)
    PROVE  DevicesInv'
  <1>0. contexts \subseteq Contexts /\ faults \in 0 .. MaxFaults
    BY DEF DevicesInv, DevicesTypeOK
  <1>1. CASE ListDevices(t)
    BY <1>0, <1>1, OwnerMoves DEF ListDevices, Goto
  <1>2. CASE EndList(t)
    BY <1>0, <1>2, OwnerMoves DEF EndList, Goto
  <1>3. CASE DiscoveryFails(t)
    <2>1. faults' \in 0 .. MaxFaults
      BY <1>3, InjectFaultType DEF DiscoveryFails, DevicesInv
    <2> QED
      BY <1>0, <1>3, <2>1, OwnerMoves DEF DiscoveryFails, Goto
  <1>4. CASE QueryFails(t)
    <2>1. faults' \in 0 .. MaxFaults
      BY <1>4, InjectFaultType DEF QueryFails, DevicesInv
    <2>2. contexts' = contexts \cup {<<walk.pass, walk.d>>}
      BY <1>4 DEF QueryFails
    <2>3. <<walk.pass, walk.d>> \in Contexts
      BY DEF DevicesInv, DevicesTypeOK, Walk, Contexts
    <2>4. contexts \subseteq contexts' /\ contexts' \subseteq Contexts
      BY <1>0, <2>2, <2>3
    <2> QED
      BY <1>4, <2>1, <2>4, OwnerMoves DEF QueryFails, Goto
  <1> QED
    BY <1>1, <1>2, <1>3, <1>4

\* Letting go of the lock.
LEMMA UnlocksKeep ==
    ASSUME DevicesInv, NEW t \in Threads, Unlock(t) \/ UnlockFailed(t)
    PROVE  DevicesInv'
  <1>1. /\ pc[t] \in {"summary", "fail"} /\ ncclIbLock' = NoThread
        /\ UNCHANGED <<host, listVars, walk, contexts, met, ndev, faults>>
        /\ \E p \in {"ok", "error"} : pc' = [pc EXCEPT ![t] = p]
    BY DEF Unlock, UnlockFailed, Goto
  <1>2. PICK p \in {"ok", "error"} : pc' = [pc EXCEPT ![t] = p]
    BY <1>1
  <1>3. pc \in [Threads -> Pcs] /\ LockInv /\ pc[t] \in Held /\ p \notin Held /\ p \in Pcs
    BY <1>1 DEF DevicesInv, DevicesTypeOK, Held, Pcs
  <1>4. Where = pc[t] /\ ncclIbLock = t /\ ncclIbLock # NoThread
    BY <1>3, WhereIs
  <1>5. Where' = "out"
    BY <1>1 DEF Where
  <1>6. LockInv'
    BY <1>1, <1>2, <1>3, <1>4, DevicesConstantsAssumption DEF LockInv
  <1>7. ncclNIbDevs # -1 /\ Where \in Plain /\ Where' \in Plain
    BY <1>1, <1>4, <1>5 DEF DevicesInv, WalkInv, Plain
  <1>8. PortsBounded' /\ CountInv' /\ ChoiceInv' /\ MergedInv' /\ MembersInv'
    BY <1>1, <1>7, PlainFrame, MembersFrame DEF listVars
  <1>9. DevicesTypeOK'
    BY <1>1, <1>2, <1>3 DEF DevicesInv, DevicesTypeOK, listVars
  <1>10. WalkInv'
    BY <1>1, <1>5 DEF DevicesInv, WalkInv, InLoop, Filled
  <1>11. EntryInv'
    <2>1. \A n \in 0 .. ncclNIbDevs - 1 : ncclIbDevs[n].hca < walk.d
      BY <1>1, <1>4, EntriesBehind DEF InLoop
    <2>2. hcas' = hcas
      BY <1>1 DEF hcas
    <2> QED
      BY <1>1, <1>5, <2>1, <2>2 DEF DevicesInv, EntryInv, OfPort, listVars, Filled
  <1> QED
    BY <1>6, <1>8, <1>9, <1>10, <1>11 DEF DevicesInv

\* The lock, and with it the discovery if nobody has begun one.
LEMMA LockKeeps ==
    ASSUME DevicesInv, NEW t \in Threads, Lock(t)
    PROVE  DevicesInv'
  <1>1. /\ pc[t] = "lock" /\ ncclIbLock = NoThread /\ ncclIbLock' = t
        /\ UNCHANGED <<host, ncclIbDevs, ncclNMergedIbDevs, ncclIbMergedDevs, walk, contexts,
                       met, ndev, faults>>
    BY DEF Lock
  <1>2. \E p \in {"begin", "summary"} : pc' = [pc EXCEPT ![t] = p]
    BY DEF Lock, Goto
  <1>3. PICK p \in {"begin", "summary"} : pc' = [pc EXCEPT ![t] = p]
    BY <1>2
  <1>4. pc \in [Threads -> Pcs] /\ LockInv /\ p \in Held /\ p \in Pcs /\ t # NoThread
    BY DevicesConstantsAssumption DEF DevicesInv, DevicesTypeOK, Held, Pcs
  <1>5. LockInv'
    BY <1>1, <1>3, <1>4, DevicesConstantsAssumption DEF LockInv
  <1>6. Where = "out" /\ Where' = p
    BY <1>1, <1>3, <1>4 DEF Where
  <1>7. hcas' = hcas /\ PortsBounded'
    BY <1>1 DEF hcas, DevicesInv, PortsBounded
  <1>8. MembersInv'
    BY <1>1, MembersFrame
  <1>9. CASE ncclNIbDevs = -1
    <2>1. pc' = [pc EXCEPT ![t] = "begin"] /\ ncclNIbDevs' = 0
      BY <1>9 DEF Lock, NotDiscovered, Goto
    <2>2. Where' = "begin"
      BY <1>3, <1>4, <1>6, <2>1
    <2>3. DevicesTypeOK'
      BY <1>1, <1>3, <1>4, <2>1, DevicesConstantsAssumption DEF DevicesInv, DevicesTypeOK, Slots
    <2>4. Fresh /\ Fresh'
      BY <1>1, <1>9 DEF DevicesInv, CountInv, Fresh
    <2>5. CountInv'
      BY <2>1, <2>2, <2>4, DevicesConstantsAssumption DEF CountInv
    <2>6. WalkInv'
      BY <1>1, <2>1, <2>2 DEF DevicesInv, WalkInv, InLoop, Filled
    <2>7. EntryInv' /\ ChoiceInv'
      BY <2>1, <2>2 DEF EntryInv, ChoiceInv, Filled, Choosing, Joined
    <2>8. MergedInv'
      <3>1. ncclNMergedIbDevs' = -1 /\ \A m \in Slots : ncclIbMergedDevs'[m] = NoMergedDev
        BY <2>4 DEF Fresh
      <3> QED
        BY <3>1, NoMerged, DevicesConstantsAssumption DEF MergedInv, Slots
    <2> QED
      BY <1>5, <1>7, <1>8, <2>3, <2>5, <2>6, <2>7, <2>8 DEF DevicesInv
  <1>10. CASE ncclNIbDevs # -1
    <2>1. pc' = [pc EXCEPT ![t] = "summary"] /\ UNCHANGED listVars
      BY <1>1, <1>10 DEF Lock, NotDiscovered, Goto, listVars
    <2>2. Where' = "summary"
      BY <1>3, <1>4, <1>6, <2>1
    <2>3. DevicesTypeOK'
      BY <1>1, <1>3, <1>4, <2>1 DEF DevicesInv, DevicesTypeOK, listVars
    <2>4. CountInv' /\ ChoiceInv' /\ MergedInv'
      BY <1>1, <1>6, <1>10, <2>1, <2>2, PlainFrame DEF Plain
    <2>5. WalkInv'
      BY <1>1, <1>10, <2>1, <2>2 DEF DevicesInv, WalkInv, InLoop, Filled, listVars
    <2>6. EntryInv'
      <3>1. \A n \in 0 .. ncclNIbDevs - 1 : ncclIbDevs[n].hca < walk.d
        BY <1>6, EntriesBehind DEF InLoop
      <3> QED
        BY <1>1, <1>7, <2>1, <2>2, <3>1 DEF DevicesInv, EntryInv, OfPort, listVars, Filled
    <2> QED
      BY <1>5, <1>7, <1>8, <2>3, <2>4, <2>5, <2>6 DEF DevicesInv
  <1> QED
    BY <1>9, <1>10

\* The second counter.
LEMMA ResetMergedKeeps ==
    ASSUME DevicesInv, NEW t \in Threads, ResetMerged(t)
    PROVE  DevicesInv'
  <1>1. /\ pc[t] = "begin" /\ pc' = [pc EXCEPT ![t] = "list"] /\ ncclNMergedIbDevs' = 0
        /\ UNCHANGED <<host, ncclIbLock, ncclNIbDevs, ncclIbDevs, ncclIbMergedDevs,
                       walk, contexts, met, ndev, faults>>
    BY DEF ResetMerged, Goto
  <1>2. pc \in [Threads -> Pcs] /\ LockInv /\ "list" \in Held /\ pc[t] \in Held
    BY <1>1 DEF DevicesInv, DevicesTypeOK, Held
  <1>3. Where = "begin" /\ Where' = "list" /\ LockInv' /\ pc' \in [Threads -> Pcs]
    <2>1. PICK p \in Held : p = "list" /\ pc' = [pc EXCEPT ![t] = p]
      BY <1>1 DEF Held
    <2>2. pc' = [pc EXCEPT ![t] = p] /\ ncclIbLock' = ncclIbLock
      BY <1>1, <2>1
    <2>3. /\ Where = pc[t] /\ Where' = p /\ LockInv' /\ pc' \in [Threads -> Pcs]
          /\ ncclIbLock # NoThread
      BY <1>2, <2>2, WhereMoves
    <2> QED
      BY <1>1, <2>1, <2>3
  <1>4. hcas' = hcas /\ PortsBounded'
    BY <1>1 DEF hcas, DevicesInv, PortsBounded
  <1>5. ncclNIbDevs = 0 /\ Fresh
    BY <1>3 DEF DevicesInv, WalkInv, CountInv
  <1>6. DevicesTypeOK'
    BY <1>1, <1>3, DevicesConstantsAssumption DEF DevicesInv, DevicesTypeOK, Slots
  <1>7. CountInv'
    BY <1>1, <1>3, <1>5, DevicesConstantsAssumption DEF CountInv, Listed, Joined
  <1>8. WalkInv'
    BY <1>1, <1>3, <1>5 DEF DevicesInv, WalkInv, InLoop, Filled
  <1>9. EntryInv' /\ ChoiceInv'
    BY <1>1, <1>3, <1>5 DEF EntryInv, ChoiceInv, Filled, Choosing, Joined
  <1>10. MergedInv'
    <2>1. \A m \in Slots : ncclIbMergedDevs'[m] = NoMergedDev
      BY <1>1, <1>5 DEF Fresh
    <2> QED
      BY <1>1, <2>1, NoMerged, DevicesConstantsAssumption DEF MergedInv, Slots
  <1>11. MembersInv'
    BY <1>1, MembersFrame
  <1> QED
    BY <1>3, <1>4, <1>6, <1>7, <1>8, <1>9, <1>10, <1>11 DEF DevicesInv

LEMMA WalkFields ==
    ASSUME walk \in Walk
    PROVE  /\ walk.pass \in 1 .. 2 /\ walk.mergeNics \in BOOLEAN
           /\ walk.d \in Nat /\ walk.port \in Nat /\ walk.nPorts \in Nat
           /\ walk.mergedDev \in Slots
           /\ walk = [pass |-> walk.pass, mergeNics |-> walk.mergeNics, d |-> walk.d,
                      port |-> walk.port, nPorts |-> walk.nPorts,
                      mergedDev |-> walk.mergedDev]
  BY DEF Walk

LEMMA OpenDeviceKeeps ==
    ASSUME DevicesInv, NEW t \in Threads, OpenDevice(t)
    PROVE  DevicesInv'
  <1>1. /\ pc[t] = "open" /\ pc' = [pc EXCEPT ![t] = "port"]
        /\ contexts' = contexts \cup {<<walk.pass, walk.d>>}
        /\ UNCHANGED <<host, ncclIbLock, listVars, met, ndev, faults>>
    BY DEF OpenDevice, Goto
  <1>2. walk \in Walk /\ walk' \in Walk /\ walk' = [walk EXCEPT !.port = 1, !.nPorts = 0]
    BY DEF OpenDevice, DevicesInv, DevicesTypeOK, Walk
  <1>3. /\ walk'.pass = walk.pass /\ walk'.d = walk.d /\ walk'.port = 1 /\ walk'.nPorts = 0
    BY <1>2 DEF Walk
  <1>4. pc \in [Threads -> Pcs] /\ LockInv /\ "port" \in Held /\ pc[t] \in Held
    BY <1>1 DEF DevicesInv, DevicesTypeOK, Held
  <1>5. /\ Where = "open" /\ Where' = "port" /\ LockInv' /\ pc' \in [Threads -> Pcs]
        /\ ncclIbLock # NoThread
    <2>1. PICK p \in Held : p = "port" /\ pc' = [pc EXCEPT ![t] = p]
      BY <1>1 DEF Held
    <2>2. pc' = [pc EXCEPT ![t] = p] /\ ncclIbLock' = ncclIbLock
      BY <1>1, <2>1
    <2>3. /\ Where = pc[t] /\ Where' = p /\ LockInv' /\ pc' \in [Threads -> Pcs]
          /\ ncclIbLock # NoThread
      BY <1>4, <2>2, WhereMoves
    <2> QED
      BY <1>1, <2>1, <2>3
  <1>6. ncclNIbDevs # -1
    BY <1>5 DEF DevicesInv, WalkInv
  <1>7. PortsBounded' /\ CountInv' /\ ChoiceInv' /\ MergedInv' /\ MembersInv'
    BY <1>1, <1>5, <1>6, PlainFrame, MembersFrame DEF Plain, listVars
  <1>8. DevicesTypeOK'
    <2>1. <<walk.pass, walk.d>> \in Contexts
      BY <1>2, WalkFields DEF Contexts
    <2> QED
      BY <1>1, <1>2, <1>5, <2>1 DEF DevicesInv, DevicesTypeOK, listVars
  <1>9. hcas' = hcas /\ ncclNIbDevs' = ncclNIbDevs
    BY <1>1 DEF hcas, listVars
  <1>10. WalkInv'
    <2>1. walk.d \in DOMAIN hcas /\ ncclNIbDevs \in 0 .. MaxIbDevs - 1
      <3>1. walk.d <= Len(hcas) /\ ncclNIbDevs < MaxIbDevs
        BY DEF OpenDevice, MoreDevices, RoomForDevice
      <3>2. walk.d \in Nat /\ walk.d > 0 /\ ncclNIbDevs \in Nat
        BY <1>2, <1>6, WalkFields, DevicesConstantsAssumption
        DEF DevicesInv, WalkInv, DevicesTypeOK, Slots
      <3> QED
        BY <3>1, <3>2, HostFacts, DevicesConstantsAssumption DEF DevicesInv, DevicesTypeOK
    <2>2. Len(hcas[walk.d].ports) \in Nat
      BY <2>1, HostFacts DEF DevicesInv, DevicesTypeOK
    <2>3. walk'.d > 0
      BY <1>3 DEF DevicesInv, WalkInv
    <2>4. /\ walk'.d \in DOMAIN hcas' /\ walk'.port > walk'.nPorts
          /\ walk'.port <= Len(hcas'[walk'.d].ports) + 1
          /\ ncclNIbDevs' - walk'.nPorts \in 0 .. MaxIbDevs - 1
          /\ <<walk'.pass, walk'.d>> \in contexts'
      BY <1>1, <1>3, <1>9, <2>1, <2>2
    <2> QED
      BY <1>5, <1>6, <1>9, <2>3, <2>4 DEF WalkInv, Filled
  <1>11. EntryInv'
    <2>1. \A n \in 0 .. ncclNIbDevs - 1 : ncclIbDevs[n].hca < walk.d
      BY <1>5, EntriesBehind DEF InLoop
    <2> QED
      BY <1>1, <1>3, <1>5, <1>9, <2>1 DEF DevicesInv, EntryInv, OfPort, listVars, Filled
  <1> QED
    BY <1>5, <1>7, <1>8, <1>10, <1>11 DEF DevicesInv

LEMMA OpenFailsKeeps ==
    ASSUME DevicesInv, NEW t \in Threads, OpenFails(t)
    PROVE  DevicesInv'
  <1>1. /\ pc[t] = "open" /\ InjectFault
        /\ UNCHANGED <<host, ncclIbLock, listVars, contexts, pc, met, ndev>>
    BY DEF OpenFails
  <1>2. walk \in Walk /\ walk' \in Walk /\ walk' = [walk EXCEPT !.d = @ + 1]
    BY DEF OpenFails, DevicesInv, DevicesTypeOK, Walk
  <1>3. walk.d \in Nat /\ walk'.pass = walk.pass /\ walk'.d = walk.d + 1
    BY <1>2 DEF Walk
  <1>4. /\ Where = "open" /\ Where' = "open" /\ LockInv'
        /\ ncclIbLock # NoThread
    <2>1. LockInv /\ pc[t] \in Held
      BY <1>1 DEF DevicesInv, Held
    <2>2. Where = "open" /\ ncclIbLock # NoThread
      BY <1>1, <2>1, WhereIs
    <2> QED
      BY <1>1, <2>1, <2>2 DEF Where, LockInv
  <1>5. ncclNIbDevs # -1
    BY <1>4 DEF DevicesInv, WalkInv
  <1>6. PortsBounded' /\ CountInv' /\ ChoiceInv' /\ MergedInv' /\ MembersInv'
    BY <1>1, <1>4, <1>5, PlainFrame, MembersFrame DEF Plain, listVars
  <1>7. DevicesTypeOK'
    BY <1>1, <1>2, InjectFaultType DEF DevicesInv, DevicesTypeOK, listVars
  <1>8. WalkInv'
    BY <1>1, <1>3, <1>4, <1>5 DEF WalkInv, InLoop, Filled, listVars
  <1>9. EntryInv'
    <2>1. \A n \in 0 .. ncclNIbDevs - 1 : ncclIbDevs[n].hca < walk.d /\ ncclIbDevs[n].hca \in Nat
      BY <1>4, EntriesBehind DEF InLoop
    <2>2. \A n \in 0 .. ncclNIbDevs - 1 : ncclIbDevs[n].hca < walk'.d
      BY <1>3, <2>1
    <2>3. hcas' = hcas
      BY <1>1 DEF hcas
    <2> QED
      BY <1>1, <1>3, <1>4, <2>2, <2>3 DEF DevicesInv, EntryInv, OfPort, listVars, Filled
  <1> QED
    BY <1>4, <1>6, <1>7, <1>8, <1>9 DEF DevicesInv

LEMMA SkipPortKeeps ==
    ASSUME DevicesInv, NEW t \in Threads, SkipPort(t)
    PROVE  DevicesInv'
  <1>1. /\ pc[t] = "port" /\ MorePorts /\ faults' \in 0 .. MaxFaults
        /\ UNCHANGED <<host, ncclIbLock, listVars, contexts, pc, met, ndev>>
    BY InjectFaultType DEF SkipPort, DevicesInv, DevicesTypeOK
  <1>2. walk \in Walk /\ walk' \in Walk /\ walk' = [walk EXCEPT !.port = @ + 1]
    BY DEF SkipPort, DevicesInv, DevicesTypeOK, Walk
  <1>3. /\ walk'.pass = walk.pass /\ walk'.d = walk.d /\ walk'.port = walk.port + 1
        /\ walk'.nPorts = walk.nPorts /\ walk.port \in Nat /\ walk.nPorts \in Nat
    BY <1>2 DEF Walk
  <1>4. /\ Where = "port" /\ Where' = "port" /\ LockInv'
        /\ ncclIbLock # NoThread
    <2>1. LockInv /\ pc[t] \in Held
      BY <1>1 DEF DevicesInv, Held
    <2>2. Where = "port" /\ ncclIbLock # NoThread
      BY <1>1, <2>1, WhereIs
    <2> QED
      BY <1>1, <2>1, <2>2 DEF Where, LockInv
  <1>5. ncclNIbDevs # -1
    BY <1>4 DEF DevicesInv, WalkInv
  <1>6. PortsBounded' /\ CountInv' /\ ChoiceInv' /\ MergedInv' /\ MembersInv'
    BY <1>1, <1>4, <1>5, PlainFrame, MembersFrame DEF Plain, listVars
  <1>7. DevicesTypeOK'
    BY <1>1, <1>2 DEF DevicesInv, DevicesTypeOK, listVars
  <1>8. hcas' = hcas /\ ncclNIbDevs' = ncclNIbDevs
    BY <1>1 DEF hcas, listVars
  <1>9. EntryInv'
    BY <1>1, <1>3, <1>4, <1>8 DEF DevicesInv, EntryInv, OfPort, listVars, Filled
  <1>10. WalkInv'
    <2>1. walk.d \in DOMAIN hcas /\ walk.port <= Len(hcas[walk.d].ports)
          /\ walk.port > walk.nPorts
      BY <1>1, <1>4 DEF MorePorts, DevicesInv, WalkInv, InLoop
    <2>2. Len(hcas[walk.d].ports) \in Nat
      BY <2>1, HostFacts DEF DevicesInv, DevicesTypeOK
    <2>3. walk'.port > walk'.nPorts /\ walk'.port <= Len(hcas'[walk'.d].ports) + 1
      BY <1>3, <1>8, <2>1, <2>2
    <2> QED
      BY <1>1, <1>3, <1>4, <1>5, <1>8, <2>3 DEF DevicesInv, WalkInv, InLoop, Filled
  <1> QED
    BY <1>4, <1>6, <1>7, <1>9, <1>10 DEF DevicesInv


\* The owner's move from one named place to another.
LEMMA MovesTo ==
    ASSUME DevicesInv, NEW t \in Threads, NEW p \in Held, NEW q \in Held, pc[t] = q,
           Goto(t, p), ncclIbLock' = ncclIbLock
    PROVE  /\ Where = q /\ Where' = p /\ LockInv' /\ pc' \in [Threads -> Pcs]
           /\ ncclIbLock # NoThread /\ ncclIbLock' # NoThread
           /\ ncclNIbDevs \in Slots /\ ncclNIbDevs \in Nat
  <1>1. pc \in [Threads -> Pcs] /\ LockInv /\ pc[t] \in Held
    BY DEF DevicesInv, DevicesTypeOK
  <1>2. pc' = [pc EXCEPT ![t] = p]
    BY DEF Goto
  <1>3. /\ Where = pc[t] /\ Where' = p /\ LockInv' /\ pc' \in [Threads -> Pcs]
        /\ ncclIbLock # NoThread /\ ncclIbLock' # NoThread
    BY <1>1, <1>2, WhereMoves
  <1>4. ncclNIbDevs \in Slots /\ ncclNIbDevs \in Nat
    BY <1>3, DevicesConstantsAssumption DEF DevicesInv, DevicesTypeOK, WalkInv, Slots
  <1> QED
    BY <1>3, <1>4

LEMMA EndDeviceKeeps ==
    ASSUME DevicesInv, NEW t \in Threads, EndDevice(t)
    PROVE  DevicesInv'
  <1>1. /\ pc[t] = "port" /\ Goto(t, "open")
        /\ contexts' = IF walk.nPorts = 0 THEN contexts \ {<<walk.pass, walk.d>>}
                       ELSE contexts
        /\ UNCHANGED <<host, ncclIbLock, listVars, met, ndev, faults>>
    BY DEF EndDevice
  <1>2. walk \in Walk /\ walk' \in Walk /\ walk' = [walk EXCEPT !.d = @ + 1]
    BY DEF EndDevice, DevicesInv, DevicesTypeOK, Walk
  <1>3. walk'.pass = walk.pass /\ walk'.d = walk.d + 1 /\ walk.d \in Nat
    BY <1>2 DEF Walk
  <1>4. /\ Where = "port" /\ Where' = "open" /\ LockInv' /\ pc' \in [Threads -> Pcs]
        /\ ncclNIbDevs \in Nat
    BY <1>1, MovesTo DEF Held
  <1>5. PortsBounded' /\ CountInv' /\ ChoiceInv' /\ MergedInv'
    BY <1>1, <1>4, PlainFrame DEF Plain
  <1>6. DevicesTypeOK'
    BY <1>1, <1>2, <1>4 DEF DevicesInv, DevicesTypeOK, listVars
  <1>7. hcas' = hcas /\ ncclNIbDevs' = ncclNIbDevs
    BY <1>1 DEF hcas, listVars
  <1>8. WalkInv'
    BY <1>3, <1>4, <1>7 DEF WalkInv, InLoop, Filled
  <1>9. ASSUME NEW n \in 0 .. ncclNIbDevs - 1
        PROVE  /\ OfPort(ncclIbDevs[n])
               /\ ncclIbDevs[n].context = <<walk.pass, ncclIbDevs[n].hca>>
               /\ ncclIbDevs[n].context \in contexts'
               /\ ncclIbDevs[n].hca < walk'.d
    <2>1. /\ ncclIbDevs[n].context = <<walk.pass, ncclIbDevs[n].hca>>
          /\ ncclIbDevs[n].context \in contexts /\ OfPort(ncclIbDevs[n])
          /\ ncclIbDevs[n].hca <= walk.d /\ ncclIbDevs[n].hca \in Nat
      <3>1. n \in Slots
        BY DevicesConstantsAssumption DEF DevicesInv, DevicesTypeOK, Slots
      <3>2. ncclIbDevs[n].hca \in Nat
        BY <3>1 DEF DevicesInv, DevicesTypeOK, IbDev
      <3> QED
        BY <1>3, <3>2 DEF DevicesInv, EntryInv
    <2>2. CASE walk.nPorts = 0
      <3>1. ncclIbDevs[n].hca # walk.d
        BY <1>3, <2>1, <2>2, EntriesBehind
      <3> QED
        BY <1>1, <1>3, <2>1, <2>2, <3>1
    <2>3. CASE walk.nPorts # 0
      BY <1>1, <1>3, <2>1, <2>3
    <2> QED
      BY <2>2, <2>3
  <1>10. EntryInv'
    BY <1>1, <1>3, <1>4, <1>7, <1>9 DEF EntryInv, OfPort, listVars, Filled
  <1>11. MembersInv'
    <2> SUFFICES ASSUME NEW m \in Slots, NEW i \in DOMAIN ncclIbMergedDevs[m].devs
                 PROVE  Reachable(ncclIbMergedDevs[m].devs[i])'
      BY <1>1 DEF MembersInv, listVars
    <2>1. ncclIbMergedDevs[m].devs # <<>> /\ ncclIbMergedDevs[m].devs \in Seq(Slots)
      BY DEF DevicesInv, DevicesTypeOK, MergedDev
    <2>2. m < ncclNMergedIbDevs
      <3>1. m \in Int /\ ncclNMergedIbDevs \in Int
        BY DevicesConstantsAssumption DEF DevicesInv, DevicesTypeOK, Slots
      <3>2. ~(m >= ncclNMergedIbDevs)
        BY <1>4, <2>1, NoMerged DEF DevicesInv, MergedInv
      <3> QED
        BY <3>1, <3>2
    <2>3. ncclIbMergedDevs[m].devs[i] \in Slots
      BY <2>1, LenProperties, ElementOfSeq
    <2>4. ncclIbMergedDevs[m].devs[i] \in 0 .. ncclNIbDevs - 1
      <3>1. ncclIbMergedDevs[m].devs[i] < ncclNIbDevs
        BY <1>4, <2>2 DEF DevicesInv, MergedInv, Listed, Joined
      <3> QED
        BY <1>4, <2>3, <3>1, DevicesConstantsAssumption DEF Slots
    <2> QED
      BY <1>1, <1>7, <1>9, <2>4 DEF Reachable, OfPort, listVars
  <1> QED
    BY <1>4, <1>5, <1>6, <1>8, <1>10, <1>11 DEF DevicesInv

\* The rebuild clears the first counter,
LEMMA RebuildKeeps ==
    ASSUME DevicesInv, NEW t \in Threads, Rebuild(t)
    PROVE  DevicesInv'
  <1>1. /\ pc[t] = "open" /\ ncclNIbDevs' = 0 /\ Goto(t, "remerge")
        /\ UNCHANGED <<host, ncclIbLock, ncclIbDevs, ncclNMergedIbDevs, ncclIbMergedDevs,
                       contexts, met, ndev, faults>>
    BY DEF Rebuild
  <1>2. walk' \in Walk /\ walk'.d = 1
    <2>1. walk' = [walk EXCEPT !.pass = 2, !.mergeNics = FALSE, !.d = 1] /\ walk \in Walk
      BY DEF Rebuild, DevicesInv, DevicesTypeOK
    <2>2. walk' = [pass |-> 2, mergeNics |-> FALSE, d |-> 1, port |-> walk.port,
                   nPorts |-> walk.nPorts, mergedDev |-> walk.mergedDev]
      BY <2>1 DEF Walk
    <2>3. walk.port \in Nat /\ walk.nPorts \in Nat /\ walk.mergedDev \in Slots
      BY <2>1, WalkFields
    <2> QED
      BY <2>2, <2>3 DEF Walk
  <1>3. /\ Where = "open" /\ Where' = "remerge" /\ LockInv' /\ pc' \in [Threads -> Pcs]
        /\ ncclNIbDevs \in Nat
    BY <1>1, MovesTo DEF Held
  <1>4. DevicesTypeOK'
    <2>1. 0 \in Slots
      BY DevicesConstantsAssumption DEF Slots
    <2> QED
      BY <1>1, <1>2, <1>3, <2>1 DEF DevicesInv, DevicesTypeOK
  <1>5. PortsBounded' /\ MembersInv'
    BY <1>1, MembersFrame DEF DevicesInv, PortsBounded, hcas
  <1>6. ncclNMergedIbDevs \in Nat
    BY <1>3 DEF DevicesInv, CountInv, Listed, Joined
  <1>7. CountInv'
    BY <1>1, <1>3, <1>6, DevicesConstantsAssumption DEF CountInv
  <1>8. WalkInv'
    BY <1>1, <1>2, <1>3 DEF WalkInv, InLoop, Filled
  <1>9. EntryInv' /\ ChoiceInv'
    BY <1>1, <1>3 DEF EntryInv, ChoiceInv, Filled, Choosing, Joined
  <1>10. MergedInv'
    BY <1>1, <1>3 DEF DevicesInv, MergedInv
  <1> QED
    BY <1>3, <1>4, <1>5, <1>7, <1>8, <1>9, <1>10 DEF DevicesInv

\* then the second, and then the array.
LEMMA ClearingKeeps ==
    ASSUME DevicesInv, NEW t \in Threads, UncountMerged(t) \/ ClearMerged(t)
    PROVE  DevicesInv'
  <1>1. CASE UncountMerged(t)
    <2>1. /\ pc[t] = "remerge" /\ ncclNMergedIbDevs' = 0 /\ Goto(t, "clear")
          /\ UNCHANGED <<host, ncclIbLock, ncclNIbDevs, ncclIbDevs, ncclIbMergedDevs, walk,
                         contexts, met, ndev, faults>>
      BY <1>1 DEF UncountMerged
    <2>2. /\ Where = "remerge" /\ Where' = "clear" /\ LockInv' /\ pc' \in [Threads -> Pcs]
      BY <2>1, MovesTo DEF Held
    <2>3. ncclNIbDevs = 0 /\ walk.d > 0
      BY <2>2 DEF DevicesInv, WalkInv
    <2>4. DevicesTypeOK'
      BY <2>1, <2>2, DevicesConstantsAssumption DEF DevicesInv, DevicesTypeOK, Slots
    <2>5. PortsBounded' /\ MembersInv'
      BY <2>1, MembersFrame DEF DevicesInv, PortsBounded, hcas
    <2>6. CountInv' /\ WalkInv'
      BY <2>1, <2>2, <2>3, DevicesConstantsAssumption
      DEF CountInv, WalkInv, Listed, Joined, InLoop, Filled
    <2>7. EntryInv' /\ ChoiceInv'
      BY <2>1, <2>2, <2>3 DEF EntryInv, ChoiceInv, Filled, Choosing, Joined
    <2>8. MergedInv'
      BY <2>1, <2>2, DevicesConstantsAssumption DEF MergedInv, Slots
    <2> QED
      BY <2>2, <2>4, <2>5, <2>6, <2>7, <2>8 DEF DevicesInv
  <1>2. CASE ClearMerged(t)
    <2>1. /\ pc[t] = "clear" /\ Goto(t, "open")
          /\ ncclIbMergedDevs' = [n \in Slots |-> NoMergedDev]
          /\ UNCHANGED <<host, ncclIbLock, ncclNIbDevs, ncclIbDevs, ncclNMergedIbDevs, walk,
                         contexts, met, ndev, faults>>
      BY <1>2 DEF ClearMerged
    <2>2. /\ Where = "clear" /\ Where' = "open" /\ LockInv' /\ pc' \in [Threads -> Pcs]
      BY <2>1, MovesTo DEF Held
    <2>3. ncclNIbDevs = 0 /\ walk.d > 0 /\ ncclNMergedIbDevs = 0
      <3>1. ncclNIbDevs = 0 /\ walk.d > 0
        BY <2>2 DEF DevicesInv, WalkInv
      <3>2. ncclNMergedIbDevs \in 0 .. 0
        BY <2>2, <3>1 DEF DevicesInv, CountInv, Listed, Joined
      <3> QED
        BY <3>1, <3>2
    <2>4. DevicesTypeOK'
      <3>1. \A n \in Slots : Len(ncclIbMergedDevs'[n].devs) <= MaxDevsPerNic
        BY <2>1, NoMerged, DevicesConstantsAssumption
      <3>2. ncclIbMergedDevs' \in [Slots -> MergedDev]
        BY <2>1, NoMerged
      <3> QED
        BY <2>1, <2>2, <3>1, <3>2 DEF DevicesInv, DevicesTypeOK
    <2>5. PortsBounded' /\ MembersInv'
      BY <2>1, NoMerged DEF DevicesInv, PortsBounded, hcas, MembersInv
    <2>6. CountInv' /\ WalkInv'
      BY <2>1, <2>2, <2>3, DevicesConstantsAssumption
      DEF CountInv, WalkInv, Listed, Joined, InLoop, Filled
    <2>7. EntryInv' /\ ChoiceInv'
      BY <2>1, <2>2, <2>3 DEF EntryInv, ChoiceInv, Filled, Choosing, Joined
    <2>8. MergedInv'
      BY <2>1, <2>2, <2>3, NoMerged, DevicesConstantsAssumption DEF MergedInv, Slots
    <2> QED
      BY <2>2, <2>4, <2>5, <2>6, <2>7, <2>8 DEF DevicesInv
  <1> QED
    BY <1>1, <1>2

\* Between the filling of an entry and its counting, entries and loops stay.
LEMMA FilledStep ==
    ASSUME DevicesInv, NEW t \in Threads, NEW p \in Filled, NEW q \in Filled, pc[t] = q,
           Goto(t, p),
           UNCHANGED <<host, ncclIbLock, ncclNIbDevs, ncclIbDevs, walk, contexts, met, ndev,
                       faults>>
    PROVE  /\ Where = q /\ Where' = p /\ LockInv' /\ pc' \in [Threads -> Pcs]
           /\ ncclNIbDevs \in Slots /\ ncclNIbDevs \in Nat
           /\ PortsBounded' /\ WalkInv' /\ EntryInv' /\ hcas' = hcas
  <1>1. p \in Held /\ q \in Held /\ p \in InLoop /\ q \in InLoop
        /\ p \notin {"begin", "list", "remerge", "clear"}
    BY DEF Filled, Held, InLoop
  <1>2. /\ Where = q /\ Where' = p /\ LockInv' /\ pc' \in [Threads -> Pcs]
        /\ ncclNIbDevs \in Slots /\ ncclNIbDevs \in Nat
    BY <1>1, MovesTo
  <1>3. hcas' = hcas /\ PortsBounded'
    BY DEF DevicesInv, PortsBounded, hcas
  <1>4. WalkInv'
    BY <1>1, <1>2, <1>3 DEF DevicesInv, WalkInv
  <1>5. EntryInv'
    BY <1>1, <1>2, <1>3 DEF DevicesInv, EntryInv, EntryOf, OfPort
  <1> QED
    BY <1>2, <1>3, <1>4, <1>5

\* There every entry up to the filled one leads to an open port.
LEMMA FilledReachable ==
    ASSUME DevicesInv, Where \in Filled, NEW n \in 0 .. ncclNIbDevs
    PROVE  Reachable(n)
  <1>1. Where \in InLoop
    BY DEF Filled, InLoop
  <1>2. CASE n = ncclNIbDevs
    BY <1>1, <1>2 DEF DevicesInv, EntryInv, EntryOf, WalkInv, Reachable
  <1>3. CASE n # ncclNIbDevs
    <2>1. ncclNIbDevs \in Int
      BY DevicesConstantsAssumption DEF DevicesInv, DevicesTypeOK, Slots
    <2>2. n \in 0 .. ncclNIbDevs - 1
      BY <1>3, <2>1
    <2> QED
      BY <2>2 DEF DevicesInv, EntryInv, Reachable
  <1> QED
    BY <1>2, <1>3

SlotWritten(m, v) == ncclIbMergedDevs' = [ncclIbMergedDevs EXCEPT ![m] = v]

\* One merged device written, the others as before.
LEMMA SlotWrites ==
    ASSUME DevicesTypeOK, NEW m \in Slots, NEW v \in MergedDev,
           Len(v.devs) <= MaxDevsPerNic, SlotWritten(m, v)
    PROVE  /\ ncclIbMergedDevs' \in [Slots -> MergedDev]
           /\ \A n \in Slots : Len(ncclIbMergedDevs'[n].devs) <= MaxDevsPerNic
           /\ ncclIbMergedDevs'[m] = v
           /\ \A o \in Slots : o # m => ncclIbMergedDevs'[o] = ncclIbMergedDevs[o]
  BY DEF DevicesTypeOK, SlotWritten

LEMMA SlotMembers ==
    ASSUME DevicesInv, NEW m \in Slots, NEW v \in MergedDev,
           Len(v.devs) <= MaxDevsPerNic, SlotWritten(m, v), Where \in Filled,
           UNCHANGED <<host, ncclIbDevs, contexts>>,
           \A i \in DOMAIN v.devs :
               \/ v.devs[i] \in 0 .. ncclNIbDevs
               \/ \E j \in DOMAIN ncclIbMergedDevs[m].devs : v.devs[i] = ncclIbMergedDevs[m].devs[j]
    PROVE  MembersInv'
  <1>1. /\ ncclIbMergedDevs'[m] = v
        /\ \A o \in Slots : o # m => ncclIbMergedDevs'[o] = ncclIbMergedDevs[o]
    BY SlotWrites DEF DevicesInv
  <1> SUFFICES ASSUME NEW o \in Slots, NEW i \in DOMAIN ncclIbMergedDevs'[o].devs
               PROVE  Reachable(ncclIbMergedDevs'[o].devs[i])
    BY DEF MembersInv, Reachable, OfPort, hcas
  <1>2. CASE o = m
    BY <1>1, <1>2, FilledReachable DEF DevicesInv, MembersInv
  <1>3. CASE o # m
    BY <1>1, <1>3 DEF DevicesInv, MembersInv
  <1> QED
    BY <1>2, <1>3

LEMMA SingleMerged ==
    ASSUME NEW n \in Slots
    PROVE  /\ [devs |-> <<n>>, speed |-> 0] \in MergedDev
           /\ Len(<<n>>) <= MaxDevsPerNic /\ DOMAIN <<n>> = {1} /\ <<n>>[1] = n
           /\ <<n>> # <<>>
  <1>1. <<n>> \in Seq(Slots) /\ Len(<<n>>) = 1
    OBVIOUS
  <1> QED
    BY <1>1, DevicesConstantsAssumption DEF MergedDev

\* A new merged device is filled behind the last one,
LEMMA NewSlotKeeps ==
    ASSUME DevicesInv, NEW t \in Threads, NewMerged(t) \/ SetFirst(t)
    PROVE  DevicesInv'
  <1> DEFINE m == walk.mergedDev
             k == IF NewMerged(t) THEN 0 ELSE ncclNIbDevs
  <1>1. PICK p, q \in Filled, n \in 0 .. ncclNIbDevs :
             /\ pc[t] = q /\ Goto(t, p) /\ q \in {"entry", "first"}
             /\ \/ p = "first" /\ n = 0
                \/ p = "count" /\ n = ncclNIbDevs
             /\ ncclIbMergedDevs' = [ncclIbMergedDevs EXCEPT ![m].devs = <<n>>]
             /\ (q = "entry" => m = ncclNMergedIbDevs)
    <2>1. ncclNIbDevs \in Nat
      <3>1. pc[t] \in Held /\ LockInv
        BY DEF NewMerged, SetFirst, Held, DevicesInv
      <3>2. ncclIbLock # NoThread
        BY <3>1, WhereIs
      <3> QED
        BY <3>2, DevicesConstantsAssumption DEF DevicesInv, DevicesTypeOK, WalkInv, Slots
    <2>2. CASE NewMerged(t)
      <3>1. 0 \in 0 .. ncclNIbDevs /\ "first" \in Filled /\ "entry" \in Filled
        BY <2>1 DEF Filled
      <3> QED
        BY <2>2, <3>1 DEF NewMerged
    <2>3. CASE SetFirst(t)
      <3>1. ncclNIbDevs \in 0 .. ncclNIbDevs /\ "first" \in Filled /\ "count" \in Filled
        BY <2>1 DEF Filled
      <3> QED
        BY <2>3, <3>1 DEF SetFirst
    <2> QED
      BY <2>2, <2>3
  <1>2. UNCHANGED <<host, ncclIbLock, ncclNIbDevs, ncclIbDevs, ncclNMergedIbDevs, walk,
                    contexts, met, ndev, faults>>
    BY DEF NewMerged, SetFirst
  <1>3. /\ Where = q /\ Where' = p /\ LockInv' /\ pc' \in [Threads -> Pcs]
        /\ ncclNIbDevs \in Slots /\ ncclNIbDevs \in Nat
        /\ PortsBounded' /\ WalkInv' /\ EntryInv' /\ hcas' = hcas
    BY <1>1, <1>2, FilledStep
  <1>4. m = ncclNMergedIbDevs /\ m \in Slots /\ ncclNMergedIbDevs \in 0 .. ncclNIbDevs
    <2>1. m = ncclNMergedIbDevs
      BY <1>1, <1>3 DEF DevicesInv, ChoiceInv
    <2>2. m \in Slots
      BY WalkFields DEF DevicesInv, DevicesTypeOK
    <2>3. ncclNMergedIbDevs \in 0 .. ncclNIbDevs
      BY <1>1, <1>3 DEF DevicesInv, CountInv, Listed, Joined
    <2> QED
      BY <2>1, <2>2, <2>3
  <1>5. n \in Slots
    BY <1>3, DevicesConstantsAssumption DEF Slots
  <1> DEFINE v == [devs |-> <<n>>, speed |-> 0]
  <1>6. SlotWritten(m, v)
    <2>1. ncclIbMergedDevs[m].speed = 0 /\ ncclIbMergedDevs[m] \in MergedDev
      <3>1. ncclIbMergedDevs[m] \in MergedDev
        BY <1>4 DEF DevicesInv, DevicesTypeOK
      <3>2. CASE q = "first"
        BY <1>3, <3>1, <3>2 DEF DevicesInv, ChoiceInv
      <3>3. CASE q = "entry"
        <4>1. m \in Int /\ m >= ncclNMergedIbDevs
          BY <1>4, DevicesConstantsAssumption DEF Slots
        <4>2. ncclIbMergedDevs[m] = NoMergedDev
          BY <1>3, <1>4, <3>3, <4>1 DEF DevicesInv, MergedInv
        <4> QED
          BY <3>1, <4>2, NoMerged
      <3> QED
        BY <1>1, <3>2, <3>3
    <2>2. ncclIbMergedDevs \in [Slots -> MergedDev]
      BY DEF DevicesInv, DevicesTypeOK
    <2>3. v = [ncclIbMergedDevs[m] EXCEPT !.devs = <<n>>]
      BY <2>1 DEF MergedDev
    <2>4. ncclIbMergedDevs' = [ncclIbMergedDevs EXCEPT
                                   ![m] = [ncclIbMergedDevs[m] EXCEPT !.devs = <<n>>]]
      BY <1>1
    <2> QED
      BY <2>3, <2>4 DEF SlotWritten
  <1>7. v \in MergedDev /\ Len(v.devs) <= MaxDevsPerNic /\ DOMAIN v.devs = {1} /\ v.devs[1] = n
    BY <1>5, SingleMerged
  <1> HIDE DEF m, v
  <1>8. /\ ncclIbMergedDevs' \in [Slots -> MergedDev]
        /\ \A o \in Slots : Len(ncclIbMergedDevs'[o].devs) <= MaxDevsPerNic
        /\ ncclIbMergedDevs'[m] = v
        /\ \A o \in Slots : o # m => ncclIbMergedDevs'[o] = ncclIbMergedDevs[o]
    BY <1>4, <1>6, <1>7, SlotWrites DEF DevicesInv
  <1>9. DevicesTypeOK'
    BY <1>2, <1>3, <1>8 DEF DevicesInv, DevicesTypeOK
  <1>10. MembersInv'
    <2>1. \A i \in DOMAIN v.devs : v.devs[i] \in 0 .. ncclNIbDevs
      BY <1>1, <1>7
    <2> QED
      BY <1>2, <1>3, <1>4, <1>6, <1>7, <2>1, SlotMembers
  <1>11. p \notin Joined /\ q \notin Joined /\ p \notin {"begin", "remerge", "clear"}
         /\ q \notin {"begin", "remerge", "clear"} /\ p \in {"first", "count"}
    BY <1>1 DEF Joined
  <1>12. CountInv'
    BY <1>2, <1>3, <1>4, <1>11 DEF DevicesInv, CountInv, Listed
  <1>13. ChoiceInv'
    <2>1. walk'.mergedDev = ncclNMergedIbDevs'
      BY <1>2, <1>4 DEF m
    <2>2. ASSUME walk.mergeNics, NEW o \in 0 .. ncclNMergedIbDevs - 1
          PROVE  ~(HasRoom(o) /\ SameNic(ncclIbDevs[ncclNIbDevs], First(o)))'
      <3>1. o \in Slots /\ o # m
        BY <1>3, <1>4, DevicesConstantsAssumption DEF Slots
      <3>2. ncclIbMergedDevs'[o] = ncclIbMergedDevs[o]
        BY <1>8, <3>1
      <3>3. ~(HasRoom(o) /\ SameNic(ncclIbDevs[ncclNIbDevs], First(o)))
        BY <1>1, <1>3, <1>4, <2>2 DEF DevicesInv, ChoiceInv, Choosing, m
      <3> QED
        BY <1>2, <3>2, <3>3 DEF HasRoom, First, SameNic
    <2>3. ncclIbMergedDevs'[walk'.mergedDev] = [devs |-> <<n>>, speed |-> 0]
      BY <1>2, <1>8 DEF m, v
    <2>4. /\ p = "first" => n = 0
          /\ p = "count" => n = ncclNIbDevs'
      BY <1>1, <1>2
    <2>5. ncclNMergedIbDevs' \in Int
      BY <1>2, <1>4
    <2> QED
      BY <1>2, <1>3, <1>11, <2>1, <2>2, <2>3, <2>4, <2>5 DEF ChoiceInv, Joined
  <1>14. MergedInv'
    <2> SUFFICES ASSUME NEW o \in Slots
                 PROVE  /\ o < ncclNMergedIbDevs => ncclIbMergedDevs'[o].devs # <<>>
                        /\ (o >= ncclNMergedIbDevs /\ o # ncclNMergedIbDevs)
                              => ncclIbMergedDevs'[o] = NoMergedDev
                        /\ o < ncclNMergedIbDevs =>
                              \A i \in DOMAIN ncclIbMergedDevs'[o].devs :
                                  ncclIbMergedDevs'[o].devs[i] < ncclNIbDevs
      BY <1>2, <1>3, <1>11 DEF MergedInv, Listed
    <2>1. CASE o = m
      <3>1. ~(o < ncclNMergedIbDevs) /\ o = ncclNMergedIbDevs
        BY <1>4, <2>1
      <3> QED
        BY <3>1
    <2>2. CASE o # m
      <3>1. ncclIbMergedDevs'[o] = ncclIbMergedDevs[o]
        BY <1>8, <2>2
      <3>2. Listed = ncclNIbDevs
        BY <1>3, <1>11 DEF Listed
      <3> QED
        BY <1>3, <1>11, <3>1, <3>2 DEF DevicesInv, MergedInv
    <2> QED
      BY <2>1, <2>2
  <1> QED
    BY <1>3, <1>9, <1>10, <1>12, <1>13, <1>14 DEF DevicesInv

\* The members that a counted merged device has.
Before(m) == IF m < ncclNMergedIbDevs THEN ncclIbMergedDevs[m].devs ELSE <<>>

\* What listing a port does: merged device m gets the filled entry n as its
\* last member and counts from now on, and every other one is as before.
PortJoined(n, m) ==
    /\ n = ncclNIbDevs /\ n \in Nat /\ Listed = n /\ Listed' = n + 1 /\ m = walk.mergedDev
    /\ Where \in Choosing /\ Where' = "speed"
    /\ ncclNMergedIbDevs \in 0 .. n /\ m \in 0 .. ncclNMergedIbDevs
    /\ m < ncclNMergedIbDevs =>
          /\ walk.mergeNics /\ HasRoom(m) /\ SameNic(ncclIbDevs[n], First(m))
          /\ ncclIbMergedDevs'[m].speed = ncclIbMergedDevs[m].speed
    /\ m = ncclNMergedIbDevs =>
          /\ ncclIbMergedDevs'[m].speed = 0
          /\ walk.mergeNics => \A o \in 0 .. ncclNMergedIbDevs - 1 :
                                   ~(HasRoom(o) /\ SameNic(ncclIbDevs[n], First(o)))
    /\ ncclNMergedIbDevs' = IF m = ncclNMergedIbDevs THEN m + 1 ELSE ncclNMergedIbDevs
    /\ ncclIbMergedDevs'[m].devs = Append(Before(m), n)
    /\ \A o \in Slots : o # m => ncclIbMergedDevs'[o] = ncclIbMergedDevs[o]
    /\ UNCHANGED <<host, ncclIbLock, ncclNIbDevs, ncclIbDevs, walk, contexts, met, ndev, faults>>

\* The places of a merged device's list that were there before.
LEMMA AppendFacts ==
    ASSUME NEW s \in Seq(Slots), NEW e \in Slots
    PROVE  /\ Append(s, e) \in Seq(Slots) /\ Len(Append(s, e)) = Len(s) + 1
           /\ DOMAIN s = 1 .. Len(s) /\ Len(s) \in Nat
           /\ DOMAIN Append(s, e) = 1 .. Len(s) + 1
           /\ \A i \in 1 .. Len(s) : Append(s, e)[i] = s[i]
           /\ Append(s, e)[Len(s) + 1] = e
  BY AppendProperties, LenProperties

LEMMA BeforeIs ==
    ASSUME DevicesTypeOK, NEW m \in Slots
    PROVE  Before(m) \in Seq(Slots) /\ Len(Before(m)) \in Nat
  <1>1. ncclIbMergedDevs[m].devs \in Seq(Slots) /\ <<>> \in Seq(Slots)
    BY DEF DevicesTypeOK, MergedDev
  <1>2. Before(m) \in Seq(Slots)
    BY <1>1 DEF Before
  <1> QED
    BY <1>2, LenProperties

LEMMA JoinIs ==
    ASSUME DevicesInv, NEW t \in Threads, JoinMerged(t) \/ CountMerged(t)
    PROVE  \E n, m \in Slots : PortJoined(n, m)
  <1> DEFINE n == ncclNIbDevs
             m == walk.mergedDev
             nm == ncclNMergedIbDevs
  <1>1. PICK p, q \in Filled : /\ pc[t] = q /\ Goto(t, p) /\ p = "speed"
                               /\ q \in Choosing
                               /\ \/ q = "entry" /\ JoinMerged(t)
                                  \/ q = "count" /\ CountMerged(t)
    BY DEF JoinMerged, CountMerged, Filled, Choosing
  <1>2. UNCHANGED <<host, ncclIbLock, ncclNIbDevs, ncclIbDevs, walk, contexts, met, ndev, faults>>
    BY DEF JoinMerged, CountMerged
  <1>3. /\ Where = q /\ Where' = p /\ n \in Slots /\ n \in Nat
    BY <1>1, <1>2, FilledStep
  <1>4. Listed = n /\ Listed' = n + 1 /\ q \notin Joined
    BY <1>1, <1>2, <1>3 DEF Listed, Joined, Choosing
  <1>5. nm \in 0 .. n
    BY <1>1, <1>3, <1>4 DEF DevicesInv, CountInv
  <1>6. m \in Slots /\ m <= nm /\ m \in Nat
    BY <1>1, <1>3, WalkFields, DevicesConstantsAssumption
    DEF DevicesInv, DevicesTypeOK, ChoiceInv, Slots
  <1>7. ncclIbMergedDevs[m] \in MergedDev /\ ncclIbMergedDevs \in [Slots -> MergedDev]
    BY <1>6 DEF DevicesInv, DevicesTypeOK
  <1>8. (m = nm /\ walk.mergeNics) =>
            \A o \in 0 .. nm - 1 : ~(HasRoom(o) /\ SameNic(ncclIbDevs[n], First(o)))
    BY <1>1, <1>3 DEF DevicesInv, ChoiceInv
  <1>9. m < nm => walk.mergeNics /\ HasRoom(m) /\ SameNic(ncclIbDevs[n], First(m))
    BY <1>1, <1>3 DEF DevicesInv, ChoiceInv
  <1>10. CASE JoinMerged(t)
    <2>1. m < nm /\ m # nm
      BY <1>5, <1>6, <1>10 DEF JoinMerged
    <2>2. /\ ncclIbMergedDevs' = [ncclIbMergedDevs EXCEPT ![m] =
                   [ncclIbMergedDevs[m] EXCEPT !.devs = Append(ncclIbMergedDevs[m].devs, n)]]
          /\ ncclNMergedIbDevs' = nm
      BY <1>10 DEF JoinMerged
    <2>3. /\ ncclIbMergedDevs'[m].devs = Append(ncclIbMergedDevs[m].devs, n)
          /\ ncclIbMergedDevs'[m].speed = ncclIbMergedDevs[m].speed
          /\ \A o \in Slots : o # m => ncclIbMergedDevs'[o] = ncclIbMergedDevs[o]
      BY <1>6, <1>7, <2>2 DEF MergedDev
    <2>4. Before(m) = ncclIbMergedDevs[m].devs
      BY <2>1 DEF Before
    <2>5. PortJoined(n, m)
      BY <1>1, <1>2, <1>3, <1>4, <1>5, <1>6, <1>9, <2>1, <2>2, <2>3, <2>4 DEF PortJoined
    <2> QED
      BY <1>3, <1>6, <2>5
  <1>11. CASE CountMerged(t)
    <2>1. q = "count"
      BY <1>1, <1>11 DEF CountMerged
    <2>2. m = nm /\ ncclIbMergedDevs[m] = [devs |-> <<n>>, speed |-> 0] /\ ~(m < nm)
      BY <1>3, <1>5, <2>1 DEF DevicesInv, ChoiceInv
    <2>3. ncclIbMergedDevs' = ncclIbMergedDevs /\ ncclNMergedIbDevs' = nm + 1
      BY <1>11 DEF CountMerged
    <2>4. Before(m) = <<>> /\ Append(<<>>, n) = <<n>>
      BY <2>2 DEF Before
    <2>5. PortJoined(n, m)
      BY <1>1, <1>2, <1>3, <1>4, <1>5, <1>6, <1>8, <2>2, <2>3, <2>4 DEF PortJoined
    <2> QED
      BY <1>3, <1>6, <2>5
  <1> QED
    BY <1>10, <1>11

\* The members of the merged device that got the port: the ones it had, and
\* the new entry.
LEMMA AddedMembers ==
    ASSUME DevicesInv, NEW n \in Slots, NEW m \in Slots, PortJoined(n, m)
    PROVE  /\ ncclIbMergedDevs'[m].devs \in Seq(Slots)
           /\ Len(ncclIbMergedDevs'[m].devs) <= MaxDevsPerNic
           /\ Len(ncclIbMergedDevs'[m].devs) = Len(Before(m)) + 1
           /\ \A i \in DOMAIN ncclIbMergedDevs'[m].devs :
                 \/ ncclIbMergedDevs'[m].devs[i] = n
                 \/ /\ i \in DOMAIN Before(m)
                    /\ ncclIbMergedDevs'[m].devs[i] = Before(m)[i]
           /\ \A i \in DOMAIN Before(m) :
                 /\ i \in DOMAIN ncclIbMergedDevs'[m].devs
                 /\ ncclIbMergedDevs'[m].devs[i] = Before(m)[i]
           /\ \E i \in DOMAIN ncclIbMergedDevs'[m].devs : ncclIbMergedDevs'[m].devs[i] = n
           /\ ncclIbMergedDevs'[m].devs[Len(ncclIbMergedDevs'[m].devs)] = n
  <1> DEFINE s == Before(m)
             r == ncclIbMergedDevs'[m].devs
  <1>1. s \in Seq(Slots) /\ Len(s) \in Nat
    BY BeforeIs DEF DevicesInv
  <1>2. r = Append(s, n)
    BY DEF PortJoined
  <1>3. Len(s) < MaxDevsPerNic
    <2>1. CASE m < ncclNMergedIbDevs
      BY <2>1 DEF PortJoined, HasRoom, Before
    <2>2. CASE ~(m < ncclNMergedIbDevs)
      <3>1. Len(s) = 0
        BY <2>2 DEF Before
      <3> QED
        BY <3>1, DevicesConstantsAssumption
    <2> QED
      BY <2>1, <2>2
  <1> HIDE DEF s, r
  <1>4. /\ r \in Seq(Slots) /\ Len(r) = Len(s) + 1 /\ DOMAIN r = 1 .. Len(s) + 1
        /\ \A i \in 1 .. Len(s) : r[i] = s[i]
        /\ r[Len(s) + 1] = n /\ DOMAIN s = 1 .. Len(s)
    BY <1>1, <1>2, AppendFacts
  <1>5. Len(r) <= MaxDevsPerNic
    BY <1>1, <1>3, <1>4, DevicesConstantsAssumption
  <1>6. /\ \A i \in DOMAIN r : r[i] = n \/ (i \in DOMAIN s /\ r[i] = s[i])
        /\ \A i \in DOMAIN s : i \in DOMAIN r /\ r[i] = s[i]
        /\ \E i \in DOMAIN r : r[i] = n
    BY <1>1, <1>4
  <1> QED
    BY <1>4, <1>5, <1>6 DEF s, r

LEMMA JoinKeeps ==
    ASSUME DevicesInv, NEW t \in Threads, JoinMerged(t) \/ CountMerged(t)
    PROVE  DevicesInv'
  <1>1. PICK n \in Slots, m \in Slots : PortJoined(n, m)
    BY JoinIs
  <1>2. PICK p, q \in Filled : pc[t] = q /\ Goto(t, p) /\ p = "speed"
    BY DEF JoinMerged, CountMerged, Filled
  <1>3. /\ UNCHANGED <<host, ncclIbLock, ncclNIbDevs, ncclIbDevs, walk, contexts, met, ndev,
                       faults>>
        /\ ncclNIbDevs = n /\ n \in Nat /\ Listed = n /\ Listed' = n + 1 /\ m = walk.mergedDev
        /\ ncclNMergedIbDevs \in 0 .. n /\ m \in 0 .. ncclNMergedIbDevs
        /\ ncclNMergedIbDevs' = IF m = ncclNMergedIbDevs THEN m + 1 ELSE ncclNMergedIbDevs
        /\ \A o \in Slots : o # m => ncclIbMergedDevs'[o] = ncclIbMergedDevs[o]
    BY <1>1 DEF PortJoined
  <1>4. /\ Where = q /\ Where' = "speed" /\ LockInv' /\ pc' \in [Threads -> Pcs]
        /\ PortsBounded' /\ WalkInv' /\ EntryInv' /\ hcas' = hcas
    BY <1>2, <1>3, FilledStep
  <1>5. ncclIbMergedDevs' \in [Slots -> MergedDev]
    <2>1. ncclIbMergedDevs \in [Slots -> MergedDev] /\ ncclIbMergedDevs[m] \in MergedDev
      BY DEF DevicesInv, DevicesTypeOK
    <2>2. CASE JoinMerged(t)
      <3> DEFINE list == Append(ncclIbMergedDevs[m].devs, n)
                 v == [ncclIbMergedDevs[m] EXCEPT !.devs = list]
      <3>1. ncclIbMergedDevs' = [ncclIbMergedDevs EXCEPT ![m] = v]
        BY <1>3, <2>2 DEF JoinMerged
      <3>2. list \in Seq(Slots)
        BY <2>1, AppendFacts DEF MergedDev
      <3>3. v \in MergedDev
        <4> HIDE DEF list
        <4> QED
          BY <2>1, <3>2 DEF MergedDev
      <3> HIDE DEF v
      <3> QED
        BY <2>1, <3>1, <3>3
    <2>3. CASE CountMerged(t)
      BY <2>1, <2>3 DEF CountMerged
    <2> QED
      BY <2>2, <2>3
  <1>6. DevicesTypeOK'
    <2>1. \A o \in Slots : Len(ncclIbMergedDevs'[o].devs) <= MaxDevsPerNic
      BY <1>1, <1>3, AddedMembers DEF DevicesInv, DevicesTypeOK
    <2>2. ncclNMergedIbDevs' \in Slots
      <3>1. n + 1 \in Slots
        BY <1>3, DevicesConstantsAssumption DEF DevicesInv, CountInv, Slots
      <3> QED
        BY <1>3, <3>1, DevicesConstantsAssumption DEF Slots
    <2> QED
      BY <1>3, <1>4, <1>5, <2>1, <2>2 DEF DevicesInv, DevicesTypeOK
  <1>7. CountInv'
    <2>1. ncclNMergedIbDevs' \in 0 .. n + 1
      BY <1>3
    <2> QED
      BY <1>3, <1>4, <2>1 DEF DevicesInv, CountInv
  <1>8. ChoiceInv'
    <2>1. walk'.mergedDev < ncclNMergedIbDevs'
      BY <1>3
    <2> QED
      BY <1>4, <2>1 DEF ChoiceInv, Choosing, Joined
  <1>9. ASSUME NEW e, e < n, e \in Slots PROVE e < n + 1
    BY <1>3, <1>9, DevicesConstantsAssumption DEF Slots
  <1>10. MergedInv'
    <2> SUFFICES ASSUME NEW o \in Slots
                 PROVE  /\ o < ncclNMergedIbDevs' => ncclIbMergedDevs'[o].devs # <<>>
                        /\ o >= ncclNMergedIbDevs' => ncclIbMergedDevs'[o] = NoMergedDev
                        /\ o < ncclNMergedIbDevs' =>
                             \A i \in DOMAIN ncclIbMergedDevs'[o].devs :
                              ncclIbMergedDevs'[o].devs[i] < n + 1
      BY <1>3, <1>4 DEF MergedInv
    <2>1. Where \notin {"remerge", "clear"}
      BY <1>4 DEF Filled
    <2>2. o \in Nat
      BY DevicesConstantsAssumption DEF Slots
    <2>3. ASSUME o < ncclNMergedIbDevs, NEW i \in DOMAIN ncclIbMergedDevs[o].devs
          PROVE  ncclIbMergedDevs[o].devs[i] < n + 1
      <3>1. ncclIbMergedDevs[o].devs[i] < n
        BY <1>3, <2>1, <2>3 DEF DevicesInv, MergedInv
      <3>2. ncclIbMergedDevs[o].devs \in Seq(Slots)
        BY DEF DevicesInv, DevicesTypeOK, MergedDev
      <3>3. ncclIbMergedDevs[o].devs[i] \in Slots
        BY <3>2, LenProperties, ElementOfSeq
      <3> QED
        BY <1>9, <3>1, <3>3
    <2>4. CASE o = m
      <3>1. m < ncclNMergedIbDevs' /\ ~(m >= ncclNMergedIbDevs')
        BY <1>3
      <3>2. ncclIbMergedDevs'[o].devs # <<>>
        <4>1. \E i \in DOMAIN ncclIbMergedDevs'[m].devs : ncclIbMergedDevs'[m].devs[i] = n
          BY <1>1, AddedMembers
        <4> QED
          BY <2>4, <4>1
      <3>3. ASSUME NEW i \in DOMAIN ncclIbMergedDevs'[m].devs
            PROVE  ncclIbMergedDevs'[m].devs[i] < n + 1
        <4>1. \/ ncclIbMergedDevs'[m].devs[i] = n
              \/ /\ i \in DOMAIN Before(m)
                 /\ ncclIbMergedDevs'[m].devs[i] = Before(m)[i]
          BY <1>1, AddedMembers
        <4>2. CASE m < ncclNMergedIbDevs
          BY <1>3, <2>3, <2>4, <4>1, <4>2 DEF Before
        <4>3. CASE ~(m < ncclNMergedIbDevs)
          <5>1. DOMAIN Before(m) = {}
            BY <4>3 DEF Before
          <5> QED
            BY <1>3, <4>1, <5>1
        <4> QED
          BY <4>2, <4>3
      <3> QED
        BY <2>4, <3>1, <3>2, <3>3
    <2>5. CASE o # m
      <3>1. ncclIbMergedDevs'[o] = ncclIbMergedDevs[o]
        BY <1>3, <2>5
      <3>2. o < ncclNMergedIbDevs' => o < ncclNMergedIbDevs
        BY <1>3, <2>2, <2>5
      <3>3. o >= ncclNMergedIbDevs' => o >= ncclNMergedIbDevs
        BY <1>3, <2>2, <2>5
      <3>4. Where \in {"first", "count"} => o # ncclNMergedIbDevs
        BY <1>3, <2>5 DEF DevicesInv, ChoiceInv
      <3> QED
        BY <2>1, <2>3, <3>1, <3>2, <3>3, <3>4 DEF DevicesInv, MergedInv
    <2> QED
      BY <2>4, <2>5
  <1>11. MembersInv'
    <2> SUFFICES ASSUME NEW o \in Slots, NEW i \in DOMAIN ncclIbMergedDevs'[o].devs
                 PROVE  Reachable(ncclIbMergedDevs'[o].devs[i])
      BY <1>3 DEF MembersInv, Reachable, OfPort, hcas
    <2>1. CASE o = m
      <3>1. \/ ncclIbMergedDevs'[m].devs[i] = n
            \/ /\ i \in DOMAIN Before(m)
               /\ ncclIbMergedDevs'[m].devs[i] = Before(m)[i]
        BY <1>1, <2>1, AddedMembers
      <3>2. Reachable(n)
        BY <1>3, <1>4, FilledReachable
      <3>3. ASSUME i \in DOMAIN Before(m) PROVE Reachable(Before(m)[i])
        <4>1. m < ncclNMergedIbDevs
          BY <3>3 DEF Before
        <4> QED
          BY <3>3, <4>1 DEF Before, DevicesInv, MembersInv
      <3> QED
        BY <2>1, <3>1, <3>2, <3>3
    <2>2. CASE o # m
      BY <1>3, <2>2 DEF DevicesInv, MembersInv
    <2> QED
      BY <2>1, <2>2
  <1> QED
    BY <1>4, <1>6, <1>7, <1>8, <1>10, <1>11 DEF DevicesInv

LEMMA AddSpeedKeeps ==
    ASSUME DevicesInv, NEW t \in Threads, AddSpeed(t)
    PROVE  DevicesInv'
  <1> DEFINE m == walk.mergedDev
             v == [ncclIbMergedDevs[m] EXCEPT !.speed = @ + ncclIbDevs[ncclNIbDevs].speed]
  <1>1. PICK p, q \in Filled : /\ pc[t] = q /\ Goto(t, p) /\ q = "speed" /\ p = "number"
    BY DEF AddSpeed, Filled
  <1>2. /\ UNCHANGED <<host, ncclIbLock, ncclNIbDevs, ncclIbDevs, ncclNMergedIbDevs, walk,
                       contexts, met, ndev, faults>>
        /\ SlotWritten(m, v)
    BY DEF AddSpeed, SlotWritten
  <1>3. /\ Where = "speed" /\ Where' = "number" /\ LockInv' /\ pc' \in [Threads -> Pcs]
        /\ ncclNIbDevs \in Slots /\ ncclNIbDevs \in Nat
        /\ PortsBounded' /\ WalkInv' /\ EntryInv' /\ hcas' = hcas
    BY <1>1, <1>2, FilledStep
  <1>4. m \in Slots /\ ncclIbMergedDevs[m] \in MergedDev /\ ncclIbDevs[ncclNIbDevs].speed \in Nat
    <2>1. m \in Slots
      BY WalkFields DEF DevicesInv, DevicesTypeOK
    <2> QED
      BY <1>3, <2>1 DEF DevicesInv, DevicesTypeOK, IbDev
  <1>5. v \in MergedDev /\ v.devs = ncclIbMergedDevs[m].devs
    BY <1>4 DEF MergedDev
  <1>6. Len(v.devs) <= MaxDevsPerNic
    BY <1>4, <1>5 DEF DevicesInv, DevicesTypeOK
  <1> HIDE DEF v, m
  <1>7. /\ ncclIbMergedDevs' \in [Slots -> MergedDev]
        /\ \A o \in Slots : Len(ncclIbMergedDevs'[o].devs) <= MaxDevsPerNic
        /\ ncclIbMergedDevs'[m] = v
        /\ \A o \in Slots : o # m => ncclIbMergedDevs'[o] = ncclIbMergedDevs[o]
    BY <1>2, <1>4, <1>5, <1>6, SlotWrites DEF DevicesInv
  <1>8. DevicesTypeOK'
    BY <1>2, <1>3, <1>7 DEF DevicesInv, DevicesTypeOK
  <1>9. Listed' = Listed
    BY <1>2, <1>3 DEF Listed, Joined
  <1>10. CountInv'
    BY <1>2, <1>3, <1>9 DEF DevicesInv, CountInv
  <1>11. m < ncclNMergedIbDevs
    BY <1>3 DEF DevicesInv, ChoiceInv, Joined, m
  <1>12. ChoiceInv'
    BY <1>2, <1>3, <1>11 DEF ChoiceInv, Choosing, Joined, m
  <1>13. \A o \in Slots : ncclIbMergedDevs'[o].devs = ncclIbMergedDevs[o].devs
    BY <1>4, <1>5, <1>7
  <1>14. MergedInv'
    <2> SUFFICES ASSUME NEW o \in Slots
                 PROVE  /\ o < ncclNMergedIbDevs => ncclIbMergedDevs'[o].devs # <<>>
                        /\ o >= ncclNMergedIbDevs => ncclIbMergedDevs'[o] = NoMergedDev
                        /\ o < ncclNMergedIbDevs =>
                              \A i \in DOMAIN ncclIbMergedDevs'[o].devs :
                                  ncclIbMergedDevs'[o].devs[i] < Listed
      BY <1>2, <1>3, <1>9 DEF MergedInv
    <2>1. o >= ncclNMergedIbDevs => o # m
      <3>1. o \in Int /\ m \in Int /\ ncclNMergedIbDevs \in Int
        BY <1>4, DevicesConstantsAssumption DEF DevicesInv, DevicesTypeOK, Slots
      <3> QED
        BY <1>11, <3>1
    <2> QED
      BY <1>3, <1>7, <1>13, <2>1 DEF DevicesInv, MergedInv
  <1>15. MembersInv'
    <2> SUFFICES ASSUME NEW o \in Slots, NEW i \in DOMAIN ncclIbMergedDevs'[o].devs
                 PROVE  Reachable(ncclIbMergedDevs'[o].devs[i])
      BY <1>2 DEF MembersInv, Reachable, OfPort, hcas
    <2> QED
      BY <1>13 DEF DevicesInv, MembersInv
  <1> QED
    BY <1>3, <1>8, <1>10, <1>12, <1>14, <1>15 DEF DevicesInv

\* Members of counted merged devices, where they are counted entries too.
LEMMA MembersCounted ==
    ASSUME DevicesInv, Where \notin {"begin", "remerge"}, NEW m \in Slots, m < ncclNMergedIbDevs,
           NEW i \in DOMAIN ncclIbMergedDevs[m].devs
    PROVE  ncclIbMergedDevs[m].devs[i] \in Slots /\ ncclIbMergedDevs[m].devs[i] \in 0 .. Listed - 1
  <1>1. ncclIbMergedDevs[m].devs \in Seq(Slots)
    BY DEF DevicesInv, DevicesTypeOK, MergedDev
  <1>2. ncclIbMergedDevs[m].devs[i] \in Slots
    BY <1>1, LenProperties, ElementOfSeq
  <1>3. ncclIbMergedDevs[m].devs[i] < Listed
    BY DEF DevicesInv, MergedInv
  <1>4. Listed \in Int
    BY DevicesConstantsAssumption DEF DevicesInv, DevicesTypeOK, Listed, Slots
  <1> QED
    BY <1>2, <1>3, <1>4, DevicesConstantsAssumption DEF Slots

\* The first member of a merged device is one of its members.
LEMMA FirstMember ==
    ASSUME DevicesInv, NEW m \in Slots, m < ncclNMergedIbDevs
    PROVE  1 \in DOMAIN ncclIbMergedDevs[m].devs
  <1>1. ncclIbMergedDevs[m].devs \in Seq(Slots) /\ ncclIbMergedDevs[m].devs # <<>>
    BY DEF DevicesInv, DevicesTypeOK, MergedDev, MergedInv
  <1> QED
    BY <1>1

\* What filling an entry does.
LEMMA AddPortIs ==
    ASSUME DevicesInv, NEW t \in Threads, AddPort(t)
    PROVE  \E n \in Slots, dev \in IbDev :
             /\ n = ncclNIbDevs /\ n \in Nat /\ dev = IbDevOf(walk.d, walk.port)
             /\ ncclIbDevs' = [ncclIbDevs EXCEPT ![n] = dev]
             /\ EntryOf(dev, walk.d, walk.port)
             /\ Where = "port" /\ Where' = "entry" /\ LockInv' /\ pc' \in [Threads -> Pcs]
             /\ walk.d \in DOMAIN hcas /\ MorePorts
             /\ UsablePort(hcas[walk.d].ports[walk.port])
             /\ <<walk.pass, walk.d>> \in contexts
             /\ walk' = [walk EXCEPT !.mergedDev = FindMatchingDev(dev)]
             /\ UNCHANGED <<host, ncclIbLock, ncclNIbDevs, ncclNMergedIbDevs,
                            ncclIbMergedDevs, contexts, met, ndev, faults>>
  <1> DEFINE dev == IbDevOf(walk.d, walk.port)
  <1>1. /\ pc[t] = "port" /\ Goto(t, "entry") /\ MorePorts
        /\ UsablePort(hcas[walk.d].ports[walk.port])
        /\ UNCHANGED <<host, ncclIbLock, ncclNIbDevs, ncclNMergedIbDevs,
                       ncclIbMergedDevs, contexts, met, ndev, faults>>
        /\ ncclIbDevs' = [ncclIbDevs EXCEPT ![ncclNIbDevs] = dev]
        /\ walk' = [walk EXCEPT !.mergedDev = FindMatchingDev(dev)]
    BY DEF AddPort
  <1>2. /\ Where = "port" /\ Where' = "entry" /\ LockInv' /\ pc' \in [Threads -> Pcs]
        /\ ncclNIbDevs \in Slots /\ ncclNIbDevs \in Nat
    BY <1>1, MovesTo DEF Held
  <1>3. walk.d \in DOMAIN hcas /\ walk.port \in DOMAIN hcas[walk.d].ports
        /\ <<walk.pass, walk.d>> \in contexts
    <2>1. walk.d \in DOMAIN hcas /\ walk.port > walk.nPorts
          /\ walk.port <= Len(hcas[walk.d].ports) /\ <<walk.pass, walk.d>> \in contexts
      BY <1>1, <1>2 DEF MorePorts, DevicesInv, WalkInv, InLoop
    <2>2. walk.port \in Nat /\ walk.nPorts \in Nat
      BY WalkFields DEF DevicesInv, DevicesTypeOK
    <2> QED
      BY <2>1, <2>2, HostFacts DEF DevicesInv, DevicesTypeOK
  <1>4. dev \in IbDev /\ EntryOf(dev, walk.d, walk.port)
    BY <1>1, <1>3, IbDevOfType DEF DevicesInv, OfPort, EntryOf
  <1> QED
    BY <1>1, <1>2, <1>3, <1>4

LEMMA AddPortKeeps ==
    ASSUME DevicesInv, NEW t \in Threads, AddPort(t)
    PROVE  DevicesInv'
  <1>1. PICK n \in Slots, dev \in IbDev :
             /\ n = ncclNIbDevs /\ n \in Nat /\ dev = IbDevOf(walk.d, walk.port)
             /\ ncclIbDevs' = [ncclIbDevs EXCEPT ![n] = dev]
             /\ EntryOf(dev, walk.d, walk.port)
             /\ Where = "port" /\ Where' = "entry" /\ LockInv' /\ pc' \in [Threads -> Pcs]
             /\ walk.d \in DOMAIN hcas /\ MorePorts
             /\ UsablePort(hcas[walk.d].ports[walk.port])
             /\ <<walk.pass, walk.d>> \in contexts
             /\ walk' = [walk EXCEPT !.mergedDev = FindMatchingDev(dev)]
             /\ UNCHANGED <<host, ncclIbLock, ncclNIbDevs, ncclNMergedIbDevs,
                            ncclIbMergedDevs, contexts, met, ndev, faults>>
    BY AddPortIs
  <1>2. walk \in Walk /\ hcas' = hcas /\ Listed = n /\ Listed' = n
    BY <1>1 DEF DevicesInv, DevicesTypeOK, hcas, Listed, Joined
  <1>3. ncclNMergedIbDevs \in 0 .. n /\ ncclNMergedIbDevs \in Nat
    BY <1>1, <1>2 DEF DevicesInv, CountInv
  <1>4. PICK m \in Slots :
           /\ m = FindMatchingDev(dev) /\ m \in Nat /\ m <= ncclNMergedIbDevs
           /\ m < ncclNMergedIbDevs => HasRoom(m) /\ walk.mergeNics /\ SameNic(dev, First(m))
           /\ (walk.mergeNics /\ m = ncclNMergedIbDevs) =>
                 \A o \in 0 .. ncclNMergedIbDevs - 1 : ~(HasRoom(o) /\ SameNic(dev, First(o)))
    <2> DEFINE f == FindMatchingDev(dev)
    <2>1. /\ \/ f = ncclNMergedIbDevs
             \/ /\ f \in 0 .. ncclNMergedIbDevs - 1 /\ HasRoom(f) /\ walk.mergeNics
                /\ SameNic(dev, First(f))
          /\ (walk.mergeNics /\ f = ncclNMergedIbDevs) =>
                \A o \in 0 .. ncclNMergedIbDevs - 1 : ~(HasRoom(o) /\ SameNic(dev, First(o)))
      BY <1>3, FindMatchingDevIs
    <2> HIDE DEF f
    <2>2. f \in Slots /\ f \in Nat /\ f <= ncclNMergedIbDevs
      BY <1>1, <1>3, <2>1, DevicesConstantsAssumption DEF Slots
    <2>3. f < ncclNMergedIbDevs => f # ncclNMergedIbDevs
      BY <1>3, <2>2
    <2> QED
      BY <2>1, <2>2, <2>3 DEF f
  <1>5. m \in Slots /\ m \in Nat /\ m <= ncclNMergedIbDevs
    BY <1>4
  <1>6. /\ walk'.pass = walk.pass /\ walk'.d = walk.d /\ walk'.port = walk.port
        /\ walk'.nPorts = walk.nPorts /\ walk'.mergeNics = walk.mergeNics
        /\ walk'.mergedDev = m /\ walk' \in Walk
    <2>1. walk' = [pass |-> walk.pass, mergeNics |-> walk.mergeNics, d |-> walk.d,
                   port |-> walk.port, nPorts |-> walk.nPorts, mergedDev |-> m]
      BY <1>1, <1>2, <1>4 DEF Walk
    <2> QED
      BY <1>2, <1>5, <2>1, WalkFields DEF Walk
  <1>7. /\ ncclIbDevs'[n] = dev /\ ncclIbDevs' \in [Slots -> IbDev]
        /\ \A k \in Slots : k # n => ncclIbDevs'[k] = ncclIbDevs[k]
    BY <1>1 DEF DevicesInv, DevicesTypeOK
  <1>8. DevicesTypeOK'
    BY <1>1, <1>6, <1>7 DEF DevicesInv, DevicesTypeOK
  <1>9. PortsBounded' /\ CountInv'
    BY <1>1, <1>2, <1>3 DEF DevicesInv, PortsBounded, CountInv
  <1>10. WalkInv'
    BY <1>1, <1>2, <1>6 DEF DevicesInv, WalkInv, InLoop, MorePorts
  <1>11. EntryInv'
    <2>1. EntryOf(dev, walk.d, walk.port)'
      BY <1>1, <1>2, <1>6 DEF EntryOf, OfPort, PciPath
    <2>2. EntryOf(ncclIbDevs[ncclNIbDevs], walk.d, walk.port)'
      BY <1>1, <1>2, <1>6, <1>7 DEF EntryOf, OfPort, PciPath
    <2>3. ASSUME NEW k \in 0 .. n - 1
          PROVE  /\ OfPort(ncclIbDevs[k])'
                 /\ ncclIbDevs'[k].context = <<walk'.pass, ncclIbDevs'[k].hca>>
                 /\ ncclIbDevs'[k].context \in contexts'
                 /\ \/ ncclIbDevs'[k].hca < walk'.d
                    \/ ncclIbDevs'[k].hca = walk'.d /\ walk'.nPorts > 0
      <3>1. k \in Slots /\ k # n
        BY <1>1, DevicesConstantsAssumption DEF Slots
      <3>2. ncclIbDevs'[k] = ncclIbDevs[k]
        BY <1>7, <3>1
      <3> QED
        BY <1>1, <1>2, <1>6, <3>2 DEF DevicesInv, EntryInv, OfPort
    <2> QED
      BY <1>1, <2>2, <2>3 DEF EntryInv, InLoop
  <1>12. ASSUME NEW o \in 0 .. ncclNMergedIbDevs - 1
         PROVE  First(o)' = First(o) /\ HasRoom(o)' = HasRoom(o) /\ o \in Slots
    <2>1. o \in Slots /\ o < ncclNMergedIbDevs
      BY <1>1, <1>3, DevicesConstantsAssumption DEF Slots
    <2>2. 1 \in DOMAIN ncclIbMergedDevs[o].devs
      BY <2>1, FirstMember
    <2>3. ncclIbMergedDevs[o].devs[1] \in Slots /\ ncclIbMergedDevs[o].devs[1] \in 0 .. n - 1
      BY <1>1, <1>2, <2>1, <2>2, MembersCounted
    <2>4. ncclIbMergedDevs[o].devs[1] # n
      BY <1>1, <2>3
    <2> QED
      BY <1>1, <1>7, <2>1, <2>3, <2>4 DEF First, HasRoom
  <1>13. ChoiceInv'
    <2>1. m < ncclNMergedIbDevs => walk.mergeNics /\ HasRoom(m)' /\ SameNic(dev, First(m)')
      BY <1>3, <1>4, <1>5, <1>12
    <2>2. (walk.mergeNics /\ m = ncclNMergedIbDevs) =>
              \A o \in 0 .. ncclNMergedIbDevs - 1 : ~(HasRoom(o)' /\ SameNic(dev, First(o)'))
      BY <1>4, <1>12
    <2>3. ncclIbDevs'[ncclNIbDevs'] = dev
      BY <1>1, <1>7
    <2> QED
      BY <1>1, <1>5, <1>6, <2>1, <2>2, <2>3 DEF ChoiceInv, Joined, HasRoom, First, SameNic
  <1>14. MergedInv'
    BY <1>1, <1>2 DEF DevicesInv, MergedInv
  <1>15. MembersInv'
    <2>2. ASSUME NEW o \in Slots, NEW i \in DOMAIN ncclIbMergedDevs[o].devs
          PROVE  OfPort(ncclIbDevs'[ncclIbMergedDevs[o].devs[i]])
                 /\ ncclIbDevs'[ncclIbMergedDevs[o].devs[i]].context \in contexts
      <3> DEFINE e == ncclIbMergedDevs[o].devs[i]
      <3>1. ncclIbMergedDevs[o].devs \in Seq(Slots)
        BY DEF DevicesInv, DevicesTypeOK, MergedDev
      <3>2. e \in Slots /\ Reachable(e)
        BY <3>1, LenProperties, ElementOfSeq DEF DevicesInv, MembersInv
      <3> HIDE DEF e
      <3>3. OfPort(ncclIbDevs'[e]) /\ ncclIbDevs'[e].context \in contexts
        <4>1. CASE e = n
          BY <1>1, <1>7, <4>1 DEF EntryOf
        <4>2. CASE e # n
          BY <1>7, <3>2, <4>2 DEF Reachable
        <4> QED
          BY <4>1, <4>2
      <3> QED
        BY <3>3 DEF e
    <2>3. ncclIbMergedDevs' = ncclIbMergedDevs /\ contexts' = contexts /\ hcas' = hcas
      BY <1>1, <1>2
    <2> QED
      BY <2>2, <2>3 DEF MembersInv, Reachable, OfPort
  <1> QED
    BY <1>1, <1>8, <1>9, <1>10, <1>11, <1>13, <1>14, <1>15 DEF DevicesInv

\* The entry is counted.
LEMMA CountPortKeeps ==
    ASSUME DevicesInv, NEW t \in Threads, CountPort(t)
    PROVE  DevicesInv'
  <1>1. /\ pc[t] = "number" /\ Goto(t, "port") /\ ncclNIbDevs' = ncclNIbDevs + 1
        /\ UNCHANGED <<host, ncclIbLock, ncclIbDevs, ncclNMergedIbDevs, ncclIbMergedDevs,
                       contexts, met, ndev, faults>>
    BY DEF CountPort
  <1>2. /\ Where = "number" /\ Where' = "port" /\ LockInv' /\ pc' \in [Threads -> Pcs]
        /\ ncclNIbDevs \in Slots /\ ncclNIbDevs \in Nat
    BY <1>1, MovesTo DEF Held
  <1>3. PICK n \in Nat : n = ncclNIbDevs
    BY <1>2
  <1>4. walk \in Walk /\ walk' = [walk EXCEPT !.port = @ + 1, !.nPorts = walk.nPorts + 1]
    BY DEF CountPort, CountsPort, DevicesInv, DevicesTypeOK
  <1>5. /\ walk.d \in Nat /\ walk.port \in Nat /\ walk.nPorts \in Nat
        /\ walk'.pass = walk.pass /\ walk'.d = walk.d /\ walk'.port = walk.port + 1
        /\ walk'.nPorts = walk.nPorts + 1
    BY <1>4 DEF Walk
  <1>6. walk' \in Walk
    <2>1. walk' = [pass |-> walk.pass, mergeNics |-> walk.mergeNics, d |-> walk.d,
                   port |-> walk.port + 1, nPorts |-> walk.nPorts + 1,
                   mergedDev |-> walk.mergedDev]
      BY <1>4 DEF Walk
    <2> QED
      BY <1>4, <1>5, <2>1, WalkFields DEF Walk
  <1>7. Listed = n + 1 /\ Listed' = n + 1
    BY <1>1, <1>2, <1>3 DEF Listed, Joined
  <1>8. hcas' = hcas /\ walk.d \in DOMAIN hcas /\ Len(hcas[walk.d].ports) \in Nat
    <2>1. walk.d \in DOMAIN hcas
      BY <1>2 DEF DevicesInv, WalkInv, InLoop
    <2> QED
      BY <1>1, <2>1, HostFacts DEF hcas, DevicesInv, DevicesTypeOK
  <1>9. /\ walk.port > walk.nPorts /\ walk.port <= Len(hcas[walk.d].ports)
        /\ n - walk.nPorts \in 0 .. MaxIbDevs - 1
        /\ <<walk.pass, walk.d>> \in contexts /\ walk.d > 0
    BY <1>2, <1>3 DEF DevicesInv, WalkInv, InLoop, Filled
  <1>10. n + 1 < MaxIbDevs + MaxPorts
         /\ ((\A d \in DOMAIN hcas : Len(hcas[d].ports) <= 1) => n + 1 <= MaxIbDevs)
    <2> DEFINE len == Len(hcas[walk.d].ports)
               p == walk.port
               k == walk.nPorts
    <2>1. /\ len \in Nat /\ p \in Nat /\ k \in Nat /\ p > k /\ p <= len
          /\ n - k \in 0 .. MaxIbDevs - 1
          /\ MaxIbDevs \in Nat /\ MaxPorts \in Nat
      BY <1>5, <1>8, <1>9, DevicesConstantsAssumption
    <2>2. len <= MaxPorts
      BY <1>8 DEF DevicesInv, PortsBounded
    <2>3. (\A d \in DOMAIN hcas : Len(hcas[d].ports) <= 1) => len <= 1
      BY <1>8
    <2> HIDE DEF len, p, k
    <2> QED
      BY <2>1, <2>2, <2>3
  <1>11. DevicesTypeOK'
    <2>1. n + 1 \in Slots
      BY <1>10, DevicesConstantsAssumption DEF Slots
    <2> QED
      BY <1>1, <1>2, <1>3, <1>6, <2>1 DEF DevicesInv, DevicesTypeOK
  <1>12. PortsBounded'
    BY <1>8 DEF DevicesInv, PortsBounded
  <1>13. CountInv'
    <2>1. ncclNMergedIbDevs \in 0 .. Listed
      BY <1>2 DEF DevicesInv, CountInv
    <2> QED
      BY <1>1, <1>2, <1>3, <1>7, <1>8, <1>10, <2>1 DEF CountInv
  <1>14. WalkInv'
    <2>1. walk'.port > walk'.nPorts /\ walk'.port <= Len(hcas'[walk'.d].ports) + 1
      BY <1>5, <1>8, <1>9
    <2>2. ncclNIbDevs' - walk'.nPorts \in 0 .. MaxIbDevs - 1
      BY <1>1, <1>3, <1>5, <1>9, DevicesConstantsAssumption
    <2>3. /\ <<walk'.pass, walk'.d>> \in contexts' /\ walk'.d > 0
          /\ walk'.d \in DOMAIN hcas' /\ ncclNIbDevs' # -1
      BY <1>1, <1>3, <1>5, <1>8, <1>9
    <2> QED
      BY <1>2, <2>1, <2>2, <2>3 DEF WalkInv, Filled
  <1>15. EntryInv'
    <2>1. ASSUME NEW k \in 0 .. n
          PROVE  /\ OfPort(ncclIbDevs[k])
                 /\ ncclIbDevs[k].context = <<walk.pass, ncclIbDevs[k].hca>>
                 /\ ncclIbDevs[k].context \in contexts
                 /\ ncclIbDevs[k].hca < walk.d \/ ncclIbDevs[k].hca = walk.d
      <3>1. CASE k = n
        BY <1>2, <1>3, <1>9, <3>1 DEF DevicesInv, EntryInv, EntryOf, Filled
      <3>2. CASE k # n
        <4>1. k \in 0 .. n - 1
          BY <3>2
        <4> QED
          BY <1>3, <4>1 DEF DevicesInv, EntryInv
      <3> QED
        BY <3>1, <3>2
    <2>2. ncclNIbDevs' - 1 = n /\ walk'.nPorts > 0 /\ walk'.pass = walk.pass /\ walk'.d = walk.d
          /\ ncclIbDevs' = ncclIbDevs /\ contexts' = contexts
      BY <1>1, <1>3, <1>5
    <2>3. Where' \in InLoop /\ Where' \notin Filled
      BY <1>2 DEF InLoop, Filled
    <2> QED
      BY <1>8, <2>1, <2>2, <2>3 DEF EntryInv, OfPort
  <1>16. ChoiceInv'
    BY <1>2 DEF ChoiceInv, Choosing, Joined
  <1>17. MergedInv'
    BY <1>1, <1>2, <1>7 DEF DevicesInv, MergedInv
  <1>18. MembersInv'
    BY <1>1, MembersFrame
  <1> QED
    BY <1>2, <1>11, <1>12, <1>13, <1>14, <1>15, <1>16, <1>17, <1>18 DEF DevicesInv

\* Every step of the discovery keeps the invariant.
LEMMA NextDevicesInv ==
    ASSUME DevicesInv, DevicesNext
    PROVE  DevicesInv'
  <1>1. PICK t \in Threads :
            \/ Call(t) \/ Lock(t) \/ ResetMerged(t) \/ ListDevices(t)
            \/ OpenDevice(t) \/ OpenFails(t) \/ QueryFails(t)
            \/ SkipPort(t) \/ AddPort(t) \/ JoinMerged(t)
            \/ NewMerged(t) \/ SetFirst(t) \/ CountMerged(t)
            \/ AddSpeed(t) \/ CountPort(t) \/ EndDevice(t)
            \/ Rebuild(t) \/ UncountMerged(t) \/ ClearMerged(t)
            \/ EndList(t) \/ Unlock(t)
            \/ DiscoveryFails(t) \/ UnlockFailed(t)
            \/ NetDevices(t)
    BY DEF DevicesNext
  <1> QED
    BY <1>1, CallKeeps, LockKeeps, ResetMergedKeeps, OwnerMovesKeep, OpenDeviceKeeps,
       OpenFailsKeeps, SkipPortKeeps, AddPortKeeps, JoinKeeps, NewSlotKeeps, AddSpeedKeeps,
       CountPortKeeps, EndDeviceKeeps, RebuildKeeps, ClearingKeeps, UnlocksKeep,
       NetDevicesKeeps

-----------------------------------------------------------------------------
(* The two lists describe the same ports *)

\* The members of m whose speed has been added.
Added(m) ==
    IF Where = "speed" /\ m = walk.mergedDev THEN Members(m) \ {ncclNIbDevs} ELSE Members(m)

\* Every listed entry is in a merged device; each in one only, with entries of
\* its NIC; and the entry that waits for its speed to be added is the last one.
EachListed == Where # "remerge" =>
    \A n \in 0 .. Listed - 1 : \E m \in 0 .. ncclNMergedIbDevs - 1 : n \in Members(m)
OneOwner ==
    \A m, o \in 0 .. ncclNMergedIbDevs - 1 :
        \A n \in Members(m) : n \in Members(o) => o = m
OneNic ==
    \A m \in 0 .. ncclNMergedIbDevs - 1 :
        \A n \in Members(m) : SameNic(ncclIbDevs[n], First(m))
SpeedsAdded ==
    \A m \in 0 .. ncclNMergedIbDevs - 1 : ncclIbMergedDevs[m].speed = SpeedOf(Added(m))
LastAdded ==
    Where = "speed" =>
        LET list == ncclIbMergedDevs[walk.mergedDev].devs IN list[Len(list)] = ncclNIbDevs

SoundInv == EachListed /\ OneOwner /\ OneNic /\ SpeedsAdded /\ LastAdded

LEMMA SpeedIs ==
    ASSUME NEW list, NEW S
    PROVE  MapThenSumSet(LAMBDA n : list[n].speed, S) =
              SumOver([n \in S |-> list[n].speed], S)
  BY DEF MapThenSumSet, MapThenFoldSet, SumOver

LEMMA SpeedOfNone ==
    ASSUME NEW S
    PROVE  S = {} => SpeedOf(S) = 0
  <1> DEFINE f == [n \in S |-> ncclIbDevs[n].speed]
  <1>1. SpeedOf(S) = SumOver(f, S)
    BY DEF SpeedOf, MapThenSumSet, MapThenFoldSet, SumOver
  <1> HIDE DEF f
  <1>2. S = {} => SumOver(f, S) = 0
    BY SumEmpty
  <1> QED
    BY <1>1, <1>2

\* The speed of entries that are left alone.
LEMMA SpeedFrame ==
    ASSUME NEW S, \A n \in S : ncclIbDevs'[n] = ncclIbDevs[n]
    PROVE  SpeedOf(S)' = SpeedOf(S)
  <1>1. PICK old : old = ncclIbDevs
    OBVIOUS
  <1>2. PICK new : new = ncclIbDevs'
    OBVIOUS
  <1> DEFINE f == [n \in S |-> new[n].speed]
             g == [n \in S |-> old[n].speed]
  <1>3. f = g
    BY <1>1, <1>2
  <1>4. MapThenSumSet(LAMBDA n : new[n].speed, S) = MapThenSumSet(LAMBDA n : old[n].speed, S)
    <2>1. /\ MapThenSumSet(LAMBDA n : new[n].speed, S) = SumOver(f, S)
          /\ MapThenSumSet(LAMBDA n : old[n].speed, S) = SumOver(g, S)
      BY SpeedIs
    <2> HIDE DEF f, g
    <2> QED
      BY <1>3, <2>1
  <1>5. SpeedOf(S) = MapThenSumSet(LAMBDA n : old[n].speed, S)
    BY <1>1 DEF SpeedOf
  <1>6. SpeedOf(S)' = MapThenSumSet(LAMBDA n : new[n].speed, S)
    BY <1>2 DEF SpeedOf, MapThenSumSet, MapThenFoldSet
  <1> QED
    BY <1>4, <1>5, <1>6

\* The speed of a set with one entry more.
LEMMA SpeedOfMore ==
    ASSUME DevicesTypeOK, NEW S \in SUBSET Slots, NEW n \in Slots, n \notin S
    PROVE  SpeedOf(S \cup {n}) = SpeedOf(S) + ncclIbDevs[n].speed
  <1>1. PICK old : old = ncclIbDevs
    OBVIOUS
  <1> DEFINE T == S \cup {n}
             f == [k \in S |-> old[k].speed]
             g == [k \in T |-> old[k].speed]
  <1>2. IsFiniteSet(S)
    <2>1. IsFiniteSet(Slots)
      BY FS_Interval, DevicesConstantsAssumption DEF Slots
    <2> QED
      BY <2>1, FS_Subset
  <1>3. \A k \in Slots : old[k].speed \in Nat
    BY <1>1 DEF DevicesTypeOK, IbDev
  <1>4. SpeedOf(S) = SumOver(f, S) /\ SpeedOf(T) = SumOver(g, T)
    <2>1. /\ MapThenSumSet(LAMBDA k : old[k].speed, S) = SumOver(f, S)
          /\ MapThenSumSet(LAMBDA k : old[k].speed, T) = SumOver(g, T)
      BY SpeedIs
    <2>2. /\ SpeedOf(S) = MapThenSumSet(LAMBDA k : old[k].speed, S)
          /\ SpeedOf(T) = MapThenSumSet(LAMBDA k : old[k].speed, T)
      BY <1>1 DEF SpeedOf
    <2> QED
      BY <2>1, <2>2
  <1>5. (\A k \in S \cup {n} : g[k] \in Int) /\ g[n] = old[n].speed /\ old[n].speed \in Int
    BY <1>3
  <1>6. (\A k \in S : f[k] \in Int) /\ \A k \in S : g[k] = f[k]
    BY <1>3
  <1>7. SumOver(g, T) = g[n] + SumOver(g, S) /\ SumOver(g, S) \in Int
    BY <1>2, <1>5, SumInsert
  <1>8. SumOver(g, S) = SumOver(f, S)
    BY <1>2, <1>6, SumSame
  <1> HIDE DEF f, g, T
  <1>9. SpeedOf(T) = SpeedOf(S) + old[n].speed
    BY <1>4, <1>5, <1>7, <1>8
  <1> QED
    BY <1>1, <1>9 DEF T

\* The members of a counted merged device are entries.
LEMMA MembersAre ==
    ASSUME DevicesInv, NEW m \in 0 .. ncclNMergedIbDevs - 1
    PROVE  /\ m \in Slots /\ m < ncclNMergedIbDevs /\ Members(m) \subseteq Slots
           /\ 1 \in DOMAIN ncclIbMergedDevs[m].devs
           /\ ncclIbMergedDevs[m].devs[1] \in Members(m)
           /\ Where \notin {"begin", "remerge"} =>
                 \A n \in Members(m) : n \in Nat /\ n < Listed
  <1>1. m \in Slots /\ m < ncclNMergedIbDevs
    BY DevicesConstantsAssumption DEF DevicesInv, DevicesTypeOK, Slots
  <1>2. 1 \in DOMAIN ncclIbMergedDevs[m].devs
    BY <1>1, FirstMember
  <1>3. ncclIbMergedDevs[m].devs[1] \in Members(m)
    BY <1>2 DEF Members
  <1>4. ncclIbMergedDevs[m].devs \in Seq(Slots)
    BY <1>1 DEF DevicesInv, DevicesTypeOK, MergedDev
  <1>5. \A i \in DOMAIN ncclIbMergedDevs[m].devs : ncclIbMergedDevs[m].devs[i] \in Slots
    BY <1>4, LenProperties, ElementOfSeq
  <1>6. Members(m) \subseteq Slots
    BY <1>5 DEF Members
  <1>7. Where \notin {"begin", "remerge"} => \A n \in Members(m) : n \in Nat /\ n < Listed
    <2> SUFFICES ASSUME Where \notin {"begin", "remerge"}, NEW i \in DOMAIN ncclIbMergedDevs[m].devs
                 PROVE  /\ ncclIbMergedDevs[m].devs[i] \in Nat
                        /\ ncclIbMergedDevs[m].devs[i] < Listed
      BY DEF Members
    <2>1. ncclIbMergedDevs[m].devs[i] < Listed
      BY <1>1 DEF DevicesInv, MergedInv
    <2>2. ncclIbMergedDevs[m].devs[i] \in Slots
      BY <1>5
    <2>3. \A n \in Slots : n \in Nat
      BY DevicesConstantsAssumption DEF Slots
    <2> QED
      BY <2>1, <2>2, <2>3
  <1> QED
    BY <1>1, <1>2, <1>3, <1>6, <1>7

\* What is under way when the lists disagree.
LEMMA TornIs ==
    ASSUME DevicesInv
    PROVE  Torn <=> Where \in {"speed", "number", "remerge"}
  <1>1. ASSUME Torn PROVE Where \in {"speed", "number", "remerge"}
    <2>1. PICK t \in Threads : pc[t] \in {"speed", "number", "remerge"}
      BY <1>1 DEF Torn
    <2>2. pc[t] \in Held /\ LockInv
      BY <2>1 DEF Held, DevicesInv
    <2>3. Where = pc[t]
      BY <2>2, WhereIs
    <2> QED
      BY <2>1, <2>3
  <1>2. ASSUME Where \in {"speed", "number", "remerge"} PROVE Torn
    <2>1. ncclIbLock # NoThread /\ Where = pc[ncclIbLock]
      BY <1>2 DEF Where
    <2>2. ncclIbLock \in Threads
      BY <2>1 DEF DevicesInv, DevicesTypeOK
    <2> QED
      BY <1>2, <2>1, <2>2 DEF Torn
  <1> QED
    BY <1>1, <1>2

LEMMA SoundIs ==
    ASSUME DevicesInv, SoundInv
    PROVE  MergedSound
  <1>1. ASSUME NEW m \in 0 .. ncclNMergedIbDevs - 1 PROVE Readable(m)
    <2> DEFINE list == ncclIbMergedDevs[m].devs
    <2>1. m \in Slots /\ 1 \in DOMAIN list
      BY <1>1, MembersAre
    <2>2. list # <<>>
      BY <2>1
    <2>3. \A n \in Members(m) : Reachable(n)
      BY <2>1 DEF Members, DevicesInv, MembersInv
    <2>4. \A n \in Members(m) : SameNic(ncclIbDevs[n], First(m))
      BY DEF SoundInv, OneNic
    <2>5. GetProperties(m).pciPath = First(m).pciPath /\ GetProperties(m).guid = First(m).guid
          /\ GetProperties(m).speed = ncclIbMergedDevs[m].speed
      BY DEF GetProperties, First
    <2>6. \A n \in Members(m) :
              /\ ncclIbDevs[n].context \in contexts
              /\ ncclIbDevs[n].pciPath = GetProperties(m).pciPath
              /\ ncclIbDevs[n].guid = GetProperties(m).guid
              /\ ncclIbDevs[n].link = ncclIbDevs[list[1]].link
              /\ \A o \in 0 .. ncclNMergedIbDevs - 1 : n \in Members(o) => o = m
      <3> SUFFICES ASSUME NEW n \in Members(m)
                   PROVE  /\ ncclIbDevs[n].context \in contexts
                          /\ ncclIbDevs[n].pciPath = GetProperties(m).pciPath
                          /\ ncclIbDevs[n].guid = GetProperties(m).guid
                          /\ ncclIbDevs[n].link = ncclIbDevs[list[1]].link
                          /\ \A o \in 0 .. ncclNMergedIbDevs - 1 : n \in Members(o) => o = m
        OBVIOUS
      <3>1. ncclIbDevs[n].context \in contexts
        BY <2>3 DEF Reachable
      <3>2. /\ ncclIbDevs[n].pciPath = First(m).pciPath /\ ncclIbDevs[n].guid = First(m).guid
            /\ ncclIbDevs[n].link = First(m).link
        BY <2>4 DEF SameNic
      <3>3. \A o \in 0 .. ncclNMergedIbDevs - 1 : n \in Members(o) => o = m
        BY DEF SoundInv, OneOwner
      <3> QED
        BY <2>5, <3>1, <3>2, <3>3 DEF First
    <2>7. GetProperties(m).speed \in {SpeedOf(Members(m)), SpeedOf(Members(m) \ {list[Len(list)]})}
      <3>1. ncclIbMergedDevs[m].speed = SpeedOf(Added(m))
        BY DEF SoundInv, SpeedsAdded
      <3>2. CASE Where = "speed" /\ m = walk.mergedDev
        BY <2>5, <3>1, <3>2 DEF SoundInv, LastAdded, Added
      <3>3. CASE ~(Where = "speed" /\ m = walk.mergedDev)
        BY <2>5, <3>1, <3>3 DEF Added
      <3> QED
        BY <3>2, <3>3
    <2> QED
      BY <2>2, <2>6, <2>7 DEF Readable
  <1>2. ASSUME ~Torn PROVE ListsAgree
    <2>1. Where \notin {"speed", "number", "remerge"}
      BY <1>2, TornIs
    <2>2. Listed = ncclNIbDevs
      BY <2>1 DEF Listed, Joined
    <2>3. \A n \in 0 .. ncclNIbDevs - 1 : \E m \in 0 .. ncclNMergedIbDevs - 1 : n \in Members(m)
      BY <2>1, <2>2 DEF SoundInv, EachListed
    <2>4. ASSUME NEW m \in 0 .. ncclNMergedIbDevs - 1
          PROVE  /\ Members(m) \subseteq 0 .. ncclNIbDevs - 1
                 /\ GetProperties(m).speed = SpeedOf(Members(m))
      <3>1. Where # "begin"
        <4>1. Where = "begin" => ncclNMergedIbDevs = -1
          BY DEF DevicesInv, CountInv, Fresh
        <4> QED
          BY <4>1
      <3>2. \A n \in Members(m) : n \in Nat /\ n < ncclNIbDevs
        BY <2>1, <2>2, <3>1, MembersAre
      <3>3. ncclNIbDevs \in Int
        BY DevicesConstantsAssumption DEF DevicesInv, DevicesTypeOK, Slots
      <3>4. Members(m) \subseteq 0 .. ncclNIbDevs - 1
        BY <3>2, <3>3
      <3>5. ncclIbMergedDevs[m].speed = SpeedOf(Members(m))
        BY <2>1 DEF SoundInv, SpeedsAdded, Added
      <3> QED
        BY <3>4, <3>5 DEF GetProperties
    <2> QED
      BY <2>3, <2>4 DEF ListsAgree
  <1> QED
    BY <1>1, <1>2 DEF MergedSound

\* Steps that leave the counted merged devices and their entries alone.
LEMMA SoundFrame ==
    ASSUME DevicesInv, SoundInv, ncclNMergedIbDevs' = ncclNMergedIbDevs,
           \A m \in 0 .. ncclNMergedIbDevs - 1 :
               /\ ncclIbMergedDevs'[m] = ncclIbMergedDevs[m]
               /\ \A n \in Members(m) : ncclIbDevs'[n] = ncclIbDevs[n],
           Where # "speed", Where' # "speed",
           \/ Where' = "remerge"
           \/ Where # "remerge" /\ Listed' = Listed
    PROVE  SoundInv'
  <1>1. PICK M : M = 0 .. ncclNMergedIbDevs - 1
    OBVIOUS
  <1>2. M = (0 .. ncclNMergedIbDevs - 1)'
    BY <1>1
  <1>3. \A m \in M : Members(m)' = Members(m) /\ Added(m)' = Members(m) /\ Added(m) = Members(m)
    BY <1>1 DEF Members, Added
  <1>4. \A m \in M : First(m)' = First(m)
    BY <1>1, MembersAre DEF First
  <1>5. EachListed'
    BY <1>1, <1>2, <1>3 DEF SoundInv, EachListed
  <1>6. OneOwner'
    BY <1>1, <1>2, <1>3 DEF SoundInv, OneOwner
  <1>7. OneNic'
    <2> SUFFICES ASSUME NEW m \in M, NEW n \in Members(m)
                 PROVE  SameNic(ncclIbDevs'[n], First(m)')
      BY <1>2, <1>3 DEF OneNic, SameNic
    <2>1. ncclIbDevs'[n] = ncclIbDevs[n] /\ First(m)' = First(m)
      BY <1>1, <1>4
    <2>2. SameNic(ncclIbDevs[n], First(m))
      BY <1>1 DEF SoundInv, OneNic
    <2> QED
      BY <2>1, <2>2
  <1>8. SpeedsAdded'
    <2> SUFFICES ASSUME NEW m \in M
                 PROVE  ncclIbMergedDevs'[m].speed = SpeedOf(Added(m))'
      BY <1>2 DEF SpeedsAdded
    <2>1. PICK S : S = Members(m)
      OBVIOUS
    <2>2. SpeedOf(S)' = SpeedOf(S)
      BY <1>1, <2>1, SpeedFrame
    <2>3. SpeedOf(Added(m)) = SpeedOf(S)
      BY <1>3, <2>1
    <2>4. SpeedOf(Added(m))' = SpeedOf(S)'
      BY <1>3, <2>1
    <2>5. ncclIbMergedDevs[m].speed = SpeedOf(Added(m))
      BY <1>1 DEF SoundInv, SpeedsAdded
    <2> QED
      BY <1>1, <2>2, <2>3, <2>4, <2>5
  <1>9. LastAdded'
    BY DEF LastAdded
  <1> QED
    BY <1>5, <1>6, <1>7, <1>8, <1>9 DEF SoundInv

\* Steps after which nothing is counted.
LEMMA EmptySound ==
    ASSUME ncclNIbDevs' = 0, ncclNMergedIbDevs' \in {-1, 0}, Where' \notin Joined
    PROVE  SoundInv'
  <1>1. 0 .. Listed' - 1 = {} /\ 0 .. ncclNMergedIbDevs' - 1 = {}
    <2>1. Listed' = 0
      BY DEF Listed
    <2>2. PICK a \in {0}, b \in {-1, 0} : a = Listed' /\ b = ncclNMergedIbDevs'
      BY <2>1
    <2>3. 0 .. a - 1 = {} /\ 0 .. b - 1 = {}
      OBVIOUS
    <2> QED
      BY <2>2, <2>3
  <1>2. Where' # "speed"
    BY DEF Joined
  <1> QED
    BY <1>1, <1>2 DEF SoundInv, EachListed, OneOwner, OneNic, SpeedsAdded, LastAdded

\* Listing a port changes the members of one merged device, by its entry.
LEMMA MembersAdded ==
    ASSUME DevicesInv, NEW n \in Slots, NEW m \in Slots, PortJoined(n, m)
    PROVE  /\ Members(m)' = {Before(m)[i] : i \in DOMAIN Before(m)} \cup {n}
           /\ m < ncclNMergedIbDevs => Members(m)' = Members(m) \cup {n}
           /\ m = ncclNMergedIbDevs => Members(m)' = {n}
           /\ \A o \in Slots : o # m => Members(o)' = Members(o)
           /\ \A o \in 0 .. ncclNMergedIbDevs - 1 : n \notin Members(o)
           /\ ncclIbMergedDevs'[m].devs[1] = IF m < ncclNMergedIbDevs
                                             THEN ncclIbMergedDevs[m].devs[1] ELSE n
  <1>1. \A o \in Slots : o # m => Members(o)' = Members(o)
    BY DEF Members, PortJoined
  <1> DEFINE s == Before(m)
             r == ncclIbMergedDevs'[m].devs
  <1>2. /\ \A i \in DOMAIN r : r[i] = n \/ (i \in DOMAIN s /\ r[i] = s[i])
        /\ \A i \in DOMAIN s : i \in DOMAIN r /\ r[i] = s[i]
        /\ \E i \in DOMAIN r : r[i] = n
    BY AddedMembers
  <1>3. Members(m)' = {r[i] : i \in DOMAIN r}
    BY DEF Members
  <1>4. Members(m)' = {s[i] : i \in DOMAIN s} \cup {n}
    <2> HIDE DEF s, r
    <2> QED
      BY <1>2, <1>3
  <1>5. m < ncclNMergedIbDevs => {s[i] : i \in DOMAIN s} = Members(m)
    BY DEF Before, Members
  <1>6. m = ncclNMergedIbDevs => s = <<>> /\ r = <<n>>
    <2> SUFFICES ASSUME m = ncclNMergedIbDevs PROVE s = <<>> /\ r = <<n>>
      OBVIOUS
    <2>1. s = <<>>
      <3>1. ncclNMergedIbDevs \in Int
        BY DEF PortJoined
      <3> QED
        BY <3>1 DEF Before
    <2>2. r = Append(s, n)
      BY DEF PortJoined
    <2> HIDE DEF s, r
    <2> QED
      BY <2>1, <2>2
  <1>7. \A o \in 0 .. ncclNMergedIbDevs - 1 : n \notin Members(o)
    <2>1. Where \notin {"begin", "remerge"} /\ Listed = n
      BY DEF PortJoined, Choosing
    <2>2. ~(n < n)
      BY DEF PortJoined
    <2> QED
      BY <2>1, <2>2, MembersAre
  <1>8. m < ncclNMergedIbDevs => r[1] = ncclIbMergedDevs[m].devs[1]
    <2> SUFFICES ASSUME m < ncclNMergedIbDevs PROVE r[1] = ncclIbMergedDevs[m].devs[1]
      OBVIOUS
    <2>1. 1 \in DOMAIN ncclIbMergedDevs[m].devs /\ s = ncclIbMergedDevs[m].devs
      BY FirstMember DEF Before
    <2> HIDE DEF s, r
    <2> QED
      BY <1>2, <2>1
  <1>9. m < ncclNMergedIbDevs \/ m = ncclNMergedIbDevs
    BY DEF PortJoined
  <1>10. m = ncclNMergedIbDevs => ~(m < ncclNMergedIbDevs) /\ r[1] = n /\ {s[i] : i \in DOMAIN s} = {}
    BY <1>6 DEF PortJoined
  <1> HIDE DEF s, r
  <1> QED
    BY <1>1, <1>4, <1>5, <1>7, <1>8, <1>9, <1>10 DEF s, r

LEMMA JoinSound ==
    ASSUME DevicesInv, SoundInv, NEW t \in Threads, JoinMerged(t) \/ CountMerged(t)
    PROVE  SoundInv'
  <1>1. PICK n \in Slots, m \in Slots : PortJoined(n, m)
    BY JoinIs
  <1> DEFINE nm == ncclNMergedIbDevs
  <1>2. /\ ncclNIbDevs = n /\ ncclNIbDevs' = n /\ n \in Nat /\ Listed = n /\ Listed' = n + 1
        /\ nm \in 0 .. n /\ nm \in Nat /\ m <= nm /\ m \in Nat
        /\ nm' = IF m = nm THEN m + 1 ELSE nm
        /\ Where \in Choosing /\ Where # "speed" /\ Where # "remerge" /\ Where' = "speed"
        /\ ncclIbDevs' = ncclIbDevs /\ walk'.mergedDev = m
    BY <1>1 DEF PortJoined, Choosing
  <1>3. /\ m < nm => Members(m)' = Members(m) \cup {n}
        /\ m = nm => Members(m)' = {n}
        /\ \A o \in Slots : o # m => Members(o)' = Members(o)
        /\ \A o \in 0 .. nm - 1 : n \notin Members(o)
        /\ ncclIbMergedDevs'[m].devs[1] = IF m < nm THEN ncclIbMergedDevs[m].devs[1] ELSE n
    BY <1>1, MembersAdded
  <1>4. /\ 0 .. nm - 1 \subseteq Slots /\ 0 .. nm' - 1 \subseteq Slots
        /\ 0 .. nm - 1 \subseteq 0 .. nm' - 1 /\ m \in 0 .. nm' - 1
        /\ \A o \in 0 .. nm' - 1 : o # m => o \in 0 .. nm - 1
        /\ m # nm => m \in 0 .. nm - 1 /\ m < nm
        /\ m < nm => m \in 0 .. nm - 1
    <2>1. n + 1 \in Slots
      BY <1>2, DevicesConstantsAssumption DEF DevicesInv, CountInv, Slots
    <2>2. nm' \in 0 .. n + 1
      BY <1>2
    <2> HIDE DEF nm
    <2> QED
      BY <1>2, <2>1, <2>2, DevicesConstantsAssumption DEF Slots
  <1>5. n \in Members(m)'
    BY <1>3, <1>4
  <1>6. ASSUME NEW o \in 0 .. nm' - 1, NEW k \in Members(o)', k # n
        PROVE  o \in 0 .. nm - 1 /\ k \in Members(o)
    <2>1. CASE o = m
      BY <1>3, <1>4, <1>6, <2>1
    <2>2. CASE o # m
      BY <1>3, <1>4, <1>6, <2>2
    <2> QED
      BY <2>1, <2>2
  <1>7. ASSUME NEW o \in 0 .. nm' - 1, n \in Members(o)' PROVE o = m
    BY <1>3, <1>4, <1>7
  <1>8. EachListed'
    <2> SUFFICES ASSUME NEW k \in 0 .. n PROVE \E o \in 0 .. nm' - 1 : k \in Members(o)'
      BY <1>2 DEF EachListed
    <2>1. CASE k = n
      BY <1>4, <1>5, <2>1
    <2>2. CASE k # n
      <3>1. k \in 0 .. n - 1
        BY <1>2, <2>2
      <3>2. PICK o \in 0 .. nm - 1 : k \in Members(o)
        BY <1>2, <3>1 DEF SoundInv, EachListed
      <3>3. k \in Members(o)'
        BY <1>3, <1>4, <3>2
      <3> QED
        BY <1>4, <3>2, <3>3
    <2> QED
      BY <2>1, <2>2
  <1>9. OneOwner'
    <2> SUFFICES ASSUME NEW a \in 0 .. nm' - 1, NEW o \in 0 .. nm' - 1, NEW k \in Members(a)',
                        k \in Members(o)'
                 PROVE  o = a
      BY DEF OneOwner
    <2>1. CASE k = n
      BY <1>7, <2>1
    <2>2. CASE k # n
      <3>1. a \in 0 .. nm - 1 /\ k \in Members(a)
        BY <1>6, <2>2
      <3>2. o \in 0 .. nm - 1 /\ k \in Members(o)
        BY <1>6, <2>2
      <3> QED
        BY <3>1, <3>2 DEF SoundInv, OneOwner
    <2> QED
      BY <2>1, <2>2
  <1>10. \A o \in 0 .. nm - 1 : First(o)' = First(o)
    <2> SUFFICES ASSUME NEW o \in 0 .. nm - 1 PROVE First(o)' = First(o)
      OBVIOUS
    <2>1. CASE o = m
      <3>1. m < nm
        BY <1>2, <2>1
      <3> QED
        BY <1>2, <1>3, <2>1, <3>1 DEF First
    <2>2. CASE o # m
      <3>1. ncclIbMergedDevs'[o] = ncclIbMergedDevs[o]
        BY <1>1, <1>4, <2>2 DEF PortJoined
      <3> QED
        BY <1>2, <3>1 DEF First
    <2> QED
      BY <2>1, <2>2
  <1>11. OneNic'
    <2> SUFFICES ASSUME NEW o \in 0 .. nm' - 1, NEW k \in Members(o)'
                 PROVE  SameNic(ncclIbDevs[k], First(o)')
      BY <1>2 DEF OneNic, SameNic
    <2>1. CASE k = n
      <3>1. o = m
        BY <1>7, <2>1
      <3>2. CASE m < nm
        <4>1. First(m)' = First(m)
          BY <1>4, <1>10, <3>2
        <4>2. SameNic(ncclIbDevs[n], First(m))
          BY <1>1, <3>2 DEF PortJoined
        <4> QED
          BY <2>1, <3>1, <4>1, <4>2
      <3>3. CASE ~(m < nm)
        <4>1. First(m)' = ncclIbDevs[n]
          BY <1>2, <1>3, <3>3 DEF First
        <4> QED
          BY <2>1, <3>1, <4>1 DEF SameNic
      <3> QED
        BY <3>2, <3>3
    <2>2. CASE k # n
      <3>1. o \in 0 .. nm - 1 /\ k \in Members(o)
        BY <1>6, <2>2
      <3>2. SameNic(ncclIbDevs[k], First(o)) /\ First(o)' = First(o)
        BY <1>10, <3>1 DEF SoundInv, OneNic
      <3> QED
        BY <3>2
    <2> QED
      BY <2>1, <2>2
  <1>12. SpeedsAdded'
    <2> SUFFICES ASSUME NEW o \in 0 .. nm' - 1
                 PROVE  ncclIbMergedDevs'[o].speed = SpeedOf(Added(o))'
      BY DEF SpeedsAdded
    <2>1. PICK S : S = Added(o)'
      OBVIOUS
    <2>2. SpeedOf(S)' = SpeedOf(S) /\ SpeedOf(Added(o))' = SpeedOf(S)'
      BY <1>2, <2>1, SpeedFrame
    <2>3. ASSUME o \in 0 .. nm - 1, S = Members(o), ncclIbMergedDevs'[o].speed = ncclIbMergedDevs[o].speed
          PROVE  ncclIbMergedDevs'[o].speed = SpeedOf(S)
      <3>1. Added(o) = S
        BY <1>2, <2>3 DEF Added
      <3>2. ncclIbMergedDevs[o].speed = SpeedOf(Added(o))
        BY <2>3 DEF SoundInv, SpeedsAdded
      <3> QED
        BY <2>3, <3>1, <3>2
    <2>4. CASE o # m
      <3>1. o \in 0 .. nm - 1 /\ o \in Slots
        BY <1>4, <2>4
      <3>2. ncclIbMergedDevs'[o] = ncclIbMergedDevs[o]
        BY <1>1, <2>4, <3>1 DEF PortJoined
      <3>3. S = Members(o)
        BY <1>2, <1>3, <2>1, <2>4, <3>1 DEF Added
      <3> QED
        BY <2>2, <2>3, <3>1, <3>2, <3>3
    <2>5. CASE o = m /\ m < nm
      <3>1. S = Members(m)
        <4>1. S = Members(m)' \ {n}
          BY <1>2, <2>1, <2>5 DEF Added
        <4>2. n \notin Members(m)
          BY <1>3, <1>4, <2>5
        <4> QED
          BY <1>3, <2>5, <4>1, <4>2
      <3>2. ncclIbMergedDevs'[m].speed = ncclIbMergedDevs[m].speed
        BY <1>1, <2>5 DEF PortJoined
      <3> QED
        BY <1>4, <2>2, <2>3, <2>5, <3>1, <3>2
    <2>6. CASE o = m /\ m = nm
      <3>1. S = {}
        BY <1>2, <1>3, <2>1, <2>6 DEF Added
      <3>2. ncclIbMergedDevs'[m].speed = 0
        BY <1>1, <2>6 DEF PortJoined
      <3>3. SpeedOf(S) = 0
        BY <3>1, SpeedOfNone
      <3> QED
        BY <2>2, <2>6, <3>2, <3>3
    <2> QED
      BY <1>4, <2>4, <2>5, <2>6
  <1>13. LastAdded'
    BY <1>1, <1>2, AddedMembers DEF LastAdded
  <1> QED
    BY <1>8, <1>9, <1>11, <1>12, <1>13 DEF SoundInv

LEMMA AddSpeedSound ==
    ASSUME DevicesInv, SoundInv, NEW t \in Threads, AddSpeed(t)
    PROVE  SoundInv'
  <1>1. pc[t] = "speed" /\ Goto(t, "number")
        /\ UNCHANGED <<host, ncclIbLock, ncclNIbDevs, ncclIbDevs, ncclNMergedIbDevs, walk,
                       contexts, met, ndev, faults>>
    BY DEF AddSpeed
  <1>2. Where = "speed" /\ Where' = "number" /\ ncclNIbDevs \in Slots
    BY <1>1, MovesTo DEF Held
  <1>3. PICK n \in Slots, m \in Slots, nm \in Int :
            n = ncclNIbDevs /\ m = walk.mergedDev /\ nm = ncclNMergedIbDevs
    BY <1>2, WalkFields, DevicesConstantsAssumption DEF DevicesInv, DevicesTypeOK, Slots
  <1>4. ncclIbMergedDevs' = [ncclIbMergedDevs EXCEPT ![m].speed = @ + ncclIbDevs[n].speed]
    BY <1>3 DEF AddSpeed
  <1>5. /\ ncclIbMergedDevs'[m].speed = ncclIbMergedDevs[m].speed + ncclIbDevs[n].speed
        /\ ncclIbMergedDevs'[m].devs = ncclIbMergedDevs[m].devs
        /\ \A o \in Slots : o # m => ncclIbMergedDevs'[o] = ncclIbMergedDevs[o]
    BY <1>4 DEF DevicesInv, DevicesTypeOK, MergedDev
  <1>6. \A o \in Slots : /\ ncclIbMergedDevs'[o].devs = ncclIbMergedDevs[o].devs
                         /\ Members(o)' = Members(o) /\ First(o)' = First(o)
    BY <1>1, <1>5 DEF Members, First
  <1>7. 0 .. nm - 1 \subseteq Slots /\ m \in 0 .. nm - 1
    <2>1. m < nm
      BY <1>2, <1>3 DEF DevicesInv, ChoiceInv, Joined
    <2> QED
      BY <1>3, <2>1, DevicesConstantsAssumption DEF DevicesInv, DevicesTypeOK, Slots
  <1>8. Listed' = Listed
    BY <1>1, <1>2 DEF Listed, Joined
  <1>9. EachListed' /\ OneOwner' /\ LastAdded'
    <2>1. ncclNMergedIbDevs' = nm /\ \A o \in 0 .. nm - 1 : Members(o)' = Members(o)
      BY <1>1, <1>3, <1>6, <1>7
    <2>2. EachListed'
      <3>1. \A k \in 0 .. Listed - 1 : \E o \in 0 .. nm - 1 : k \in Members(o)
        BY <1>2, <1>3 DEF SoundInv, EachListed
      <3> QED
        BY <1>8, <2>1, <3>1 DEF EachListed
    <2>3. OneOwner'
      <3>1. \A a, o \in 0 .. nm - 1 : \A k \in Members(a) : k \in Members(o) => o = a
        BY <1>3 DEF SoundInv, OneOwner
      <3> QED
        BY <2>1, <3>1 DEF OneOwner
    <2>4. LastAdded'
      BY <1>2 DEF LastAdded
    <2> QED
      BY <2>2, <2>3, <2>4
  <1>10. OneNic'
    <2> SUFFICES ASSUME NEW o \in 0 .. nm - 1, NEW k \in Members(o)
                 PROVE  SameNic(ncclIbDevs[k], First(o))
      BY <1>1, <1>3, <1>6, <1>7 DEF OneNic, SameNic
    <2> QED
      BY <1>3 DEF SoundInv, OneNic
  <1>11. SpeedsAdded'
    <2> SUFFICES ASSUME NEW o \in 0 .. nm - 1
                 PROVE  ncclIbMergedDevs'[o].speed = SpeedOf(Added(o))'
      BY <1>1, <1>3 DEF SpeedsAdded
    <2>1. PICK S : S = Members(o)
      OBVIOUS
    <2>2. SpeedOf(Added(o))' = SpeedOf(S)'
      BY <1>2, <1>6, <1>7, <2>1 DEF Added
    <2>3. SpeedOf(S)' = SpeedOf(S)
      BY <1>1, SpeedFrame
    <2>4. ncclIbMergedDevs[o].speed = SpeedOf(Added(o))
      BY <1>3 DEF SoundInv, SpeedsAdded
    <2>5. CASE o # m
      <3>1. Added(o) = S
        BY <1>3, <2>1, <2>5 DEF Added
      <3> QED
        BY <1>5, <1>7, <2>2, <2>3, <2>4, <2>5, <3>1
    <2>6. CASE o = m
      <3>1. Added(m) = S \ {n}
        BY <1>2, <1>3, <2>1, <2>6 DEF Added
      <3>2. n \in S /\ S \subseteq Slots
        <4>1. S \subseteq Slots /\ 1 \in DOMAIN ncclIbMergedDevs[m].devs
          BY <1>3, <1>7, <2>1, <2>6, MembersAre
        <4>2. PICK list : list = ncclIbMergedDevs[m].devs
          OBVIOUS
        <4>3. list \in Seq(Slots) /\ list # <<>>
          BY <4>1, <4>2 DEF DevicesInv, DevicesTypeOK, MergedDev
        <4>4. Len(list) \in DOMAIN list
          <5>1. Len(list) \in Nat /\ DOMAIN list = 1 .. Len(list)
            BY <4>3, LenProperties
          <5>2. Len(list) # 0
            BY <4>3, EmptySeq
          <5> QED
            BY <5>1, <5>2
        <4>5. list[Len(list)] = n
          BY <1>2, <1>3, <4>2 DEF SoundInv, LastAdded
        <4> QED
          BY <2>1, <2>6, <4>1, <4>2, <4>4, <4>5 DEF Members
      <3>3. SpeedOf((S \ {n}) \cup {n}) = SpeedOf(S \ {n}) + ncclIbDevs[n].speed
        <4>1. S \ {n} \in SUBSET Slots /\ n \notin S \ {n}
          BY <3>2
        <4> QED
          BY <4>1, SpeedOfMore DEF DevicesInv
      <3>4. (S \ {n}) \cup {n} = S
        BY <3>2
      <3> QED
        BY <1>5, <2>2, <2>3, <2>4, <2>6, <3>1, <3>3, <3>4
    <2> QED
      BY <2>5, <2>6
  <1> QED
    BY <1>9, <1>10, <1>11 DEF SoundInv

LEMMA AddPortSound ==
    ASSUME DevicesInv, SoundInv, NEW t \in Threads, AddPort(t)
    PROVE  SoundInv'
  <1>1. PICK n \in Slots, dev \in IbDev :
             /\ n = ncclNIbDevs /\ n \in Nat
             /\ ncclIbDevs' = [ncclIbDevs EXCEPT ![n] = dev]
             /\ Where = "port" /\ Where' = "entry"
             /\ UNCHANGED <<ncclNIbDevs, ncclNMergedIbDevs, ncclIbMergedDevs>>
    BY AddPortIs
  <1>2. Listed = n /\ Listed' = n
    BY <1>1 DEF Listed, Joined
  <1>3. ASSUME NEW m \in 0 .. ncclNMergedIbDevs - 1, NEW k \in Members(m)
        PROVE  ncclIbDevs'[k] = ncclIbDevs[k]
    <2>1. k \in Slots /\ k \in Nat /\ k < n
      BY <1>1, <1>2, MembersAre
    <2>2. k # n
      BY <1>1, <2>1
    <2> QED
      BY <1>1, <2>1, <2>2 DEF DevicesInv, DevicesTypeOK
  <1> QED
    BY <1>1, <1>2, <1>3, SoundFrame

LEMMA NewSlotSound ==
    ASSUME DevicesInv, SoundInv, NEW t \in Threads, NewMerged(t) \/ SetFirst(t)
    PROVE  SoundInv'
  <1>1. PICK p, q \in Filled :
             pc[t] = q /\ Goto(t, p) /\ q \in {"entry", "first"} /\ p \in {"first", "count"}
    BY DEF NewMerged, SetFirst, Filled
  <1>2. /\ UNCHANGED <<host, ncclIbLock, ncclNIbDevs, ncclIbDevs, ncclNMergedIbDevs, walk,
                       contexts, met, ndev, faults>>
        /\ \E s : ncclIbMergedDevs' = [ncclIbMergedDevs EXCEPT ![walk.mergedDev].devs = s]
        /\ q = "entry" => walk.mergedDev = ncclNMergedIbDevs
    BY <1>1 DEF NewMerged, SetFirst
  <1>3. Where = q /\ Where' = p
    BY <1>1, <1>2, FilledStep
  <1>4. walk.mergedDev = ncclNMergedIbDevs
    BY <1>1, <1>2, <1>3 DEF DevicesInv, ChoiceInv
  <1>5. ASSUME NEW m \in 0 .. ncclNMergedIbDevs - 1
        PROVE  ncclIbMergedDevs'[m] = ncclIbMergedDevs[m]
    <2>1. m \in Slots /\ m < ncclNMergedIbDevs
      BY MembersAre
    <2>2. m # walk.mergedDev
      BY <1>4, <2>1, DevicesConstantsAssumption DEF Slots
    <2> QED
      BY <1>2, <2>1, <2>2 DEF DevicesInv, DevicesTypeOK
  <1>6. Listed' = Listed /\ Where # "remerge" /\ Where # "speed" /\ Where' # "speed"
    BY <1>1, <1>2, <1>3 DEF Listed, Joined
  <1> QED
    BY <1>2, <1>5, <1>6, SoundFrame

\* Steps that write no list, between places where nothing is under way.
LEMMA PlainSound ==
    ASSUME DevicesInv, SoundInv, UNCHANGED listVars,
           Where = Where' \/ (Where \in Plain /\ Where' \in Plain), walk' = walk \/ Where # "speed"
    PROVE  SoundInv'
  <1>1. ncclNIbDevs' = ncclNIbDevs /\ ncclIbDevs' = ncclIbDevs
        /\ ncclNMergedIbDevs' = ncclNMergedIbDevs /\ ncclIbMergedDevs' = ncclIbMergedDevs
    BY DEF listVars
  <1>2. CASE Where # "speed" /\ Where' # "speed"
    <2>1. Listed' = Listed /\ (Where = "remerge" <=> Where' = "remerge")
      BY <1>1 DEF Listed, Plain, Joined
    <2> QED
      BY <1>1, <1>2, <2>1, SoundFrame
  <1>3. CASE Where = "speed" \/ Where' = "speed"
    <2>1. Where = "speed" /\ Where' = "speed" /\ walk' = walk
      BY <1>3 DEF Plain
    <2>2. \A S : SpeedOf(S)' = SpeedOf(S)
      BY <1>1 DEF SpeedOf, MapThenSumSet, MapThenFoldSet
    <2>3. \A m : Members(m)' = Members(m) /\ First(m)' = First(m) /\ Added(m)' = Added(m)
      BY <1>1, <2>1 DEF Members, First, Added
    <2>4. Listed' = Listed
      BY <1>1, <2>1 DEF Listed
    <2>5. EachListed' /\ OneOwner'
      BY <1>1, <2>1, <2>3, <2>4 DEF SoundInv, EachListed, OneOwner
    <2>6. OneNic'
      BY <1>1, <2>3 DEF SoundInv, OneNic, SameNic
    <2>7. SpeedsAdded'
      BY <1>1, <2>2, <2>3 DEF SoundInv, SpeedsAdded
    <2>8. LastAdded'
      BY <1>1, <2>1 DEF SoundInv, LastAdded
    <2> QED
      BY <2>5, <2>6, <2>7, <2>8 DEF SoundInv
  <1> QED
    BY <1>2, <1>3

\* Steps outside leave the owner where it is.
LEMMA WhereKept ==
    ASSUME DevicesInv, NEW t \in Threads, NEW p, pc[t] \notin Held,
           pc' = [pc EXCEPT ![t] = p], ncclIbLock' = ncclIbLock
    PROVE  Where' = Where
  <1>1. pc \in [Threads -> Pcs] /\ ncclIbLock # t
    BY DEF DevicesInv, DevicesTypeOK, LockInv
  <1>2. CASE ncclIbLock = NoThread
    BY <1>2 DEF Where
  <1>3. CASE ncclIbLock # NoThread
    <2>1. ncclIbLock \in Threads
      BY <1>3 DEF DevicesInv, DevicesTypeOK
    <2>2. pc'[ncclIbLock] = pc[ncclIbLock]
      BY <1>1, <2>1
    <2> QED
      BY <1>3, <2>2 DEF Where
  <1> QED
    BY <1>2, <1>3

\* The steps that write no list: from place q of the owner to p, both plain, or
\* of a thread that does not own the lock.
PlainStep(t) ==
    \/ Call(t) \/ ListDevices(t) \/ OpenDevice(t) \/ OpenFails(t) \/ QueryFails(t)
    \/ SkipPort(t) \/ EndDevice(t) \/ EndList(t) \/ Unlock(t) \/ DiscoveryFails(t)
    \/ UnlockFailed(t) \/ NetDevices(t)

LEMMA PlainStepIs ==
    ASSUME DevicesInv, NEW t \in Threads, PlainStep(t)
    PROVE  /\ UNCHANGED <<host, listVars>>
           /\ \/ Where' = Where /\ walk' = walk /\ pc[t] \in {"call", "ok"}
              \/ Where \in Plain /\ Where' \in Plain /\ Where = pc[t]
                 /\ (Where' = "out" \/ Where' = pc'[t])
  <1>1. UNCHANGED <<host, listVars>>
    BY DEF PlainStep, Call, ListDevices, OpenDevice, OpenFails, QueryFails, SkipPort, EndDevice,
           EndList, Unlock, DiscoveryFails, UnlockFailed, NetDevices
  <1>2. CASE Call(t) \/ NetDevices(t)
    <2>1. walk' = walk /\ ncclIbLock' = ncclIbLock /\ pc[t] \in {"call", "ok"}
          /\ \E p : pc' = [pc EXCEPT ![t] = p]
      BY <1>2 DEF Call, NetDevices, Goto
    <2>2. Where' = Where
      BY <2>1, WhereKept DEF Held
    <2> QED
      BY <1>1, <2>1, <2>2
  <1>3. CASE Unlock(t) \/ UnlockFailed(t)
    <2>1. pc[t] \in {"summary", "fail"} /\ ncclIbLock' = NoThread
      BY <1>3 DEF Unlock, UnlockFailed
    <2>2. pc[t] \in Held /\ LockInv
      BY <2>1 DEF Held, DevicesInv
    <2>3. Where = pc[t] /\ Where' = "out"
      BY <2>1, <2>2, WhereIs DEF Where
    <2> QED
      BY <1>1, <2>1, <2>3 DEF Plain
  <1>4. CASE \/ ListDevices(t) \/ OpenDevice(t) \/ OpenFails(t) \/ QueryFails(t)
             \/ SkipPort(t) \/ EndDevice(t) \/ EndList(t) \/ DiscoveryFails(t)
    <2>0. pc \in [Threads -> Pcs]
      BY DEF DevicesInv, DevicesTypeOK
    <2>1. pc[t] \in {"list", "open", "port"} /\ ncclIbLock' = ncclIbLock
          /\ pc'[t] \in {"open", "port", "summary", "fail"}
      BY <1>4, <2>0 DEF ListDevices, OpenDevice, OpenFails, QueryFails, SkipPort, EndDevice,
                 EndList, DiscoveryFails, Goto
    <2>2. pc[t] \in Held /\ LockInv
      BY <2>1 DEF Held, DevicesInv
    <2>3. Where = pc[t] /\ ncclIbLock = t /\ ncclIbLock # NoThread
      BY <2>2, WhereIs
    <2>4. Where' = pc'[t]
      BY <2>1, <2>3 DEF Where
    <2> QED
      BY <1>1, <2>1, <2>3, <2>4 DEF Plain
  <1> QED
    BY <1>2, <1>3, <1>4 DEF PlainStep

\* The lists while they are counted down and cleared.
LEMMA ResetSound ==
    ASSUME DevicesInv, SoundInv, NEW t \in Threads,
           Lock(t) \/ ResetMerged(t) \/ Rebuild(t) \/ UncountMerged(t) \/ ClearMerged(t)
    PROVE  SoundInv'
  <1>1. CASE Lock(t)
    <2>1. pc[t] = "lock" /\ ncclIbLock = NoThread /\ ncclIbLock' = t
      BY <1>1 DEF Lock
    <2>2. \E p \in {"begin", "summary"} : pc' = [pc EXCEPT ![t] = p]
      BY <1>1 DEF Lock, Goto
    <2>3. PICK p \in {"begin", "summary"} : pc' = [pc EXCEPT ![t] = p]
      BY <2>2
    <2>4. pc \in [Threads -> Pcs] /\ t # NoThread
      BY DevicesConstantsAssumption DEF DevicesInv, DevicesTypeOK
    <2>5. Where = "out" /\ Where' = p
      BY <2>1, <2>3, <2>4 DEF Where
    <2>6. CASE ncclNIbDevs = -1
      <3>1. ncclNIbDevs' = 0 /\ ncclNMergedIbDevs' = -1
        BY <1>1, <2>6 DEF Lock, NotDiscovered, DevicesInv, CountInv, Fresh
      <3>2. Where' \notin Joined
        BY <2>5 DEF Joined
      <3> QED
        BY <3>1, <3>2, EmptySound
    <2>7. CASE ncclNIbDevs # -1
      <3>1. UNCHANGED listVars /\ walk' = walk
        BY <1>1, <2>7 DEF Lock, NotDiscovered, listVars
      <3>2. pc' = [pc EXCEPT ![t] = "summary"]
        BY <1>1, <2>7 DEF Lock, NotDiscovered, Goto
      <3>3. p = "summary"
        BY <2>3, <2>4, <3>2
      <3>4. Where \in Plain /\ Where' \in Plain
        BY <2>5, <3>3 DEF Plain
      <3> QED
        BY <3>1, <3>4, PlainSound
    <2> QED
      BY <2>6, <2>7
  <1>2. CASE ResetMerged(t)
    <2>1. pc[t] = "begin" /\ Goto(t, "list") /\ ncclIbLock' = ncclIbLock
          /\ ncclNMergedIbDevs' = 0 /\ ncclNIbDevs' = ncclNIbDevs
      BY <1>2 DEF ResetMerged
    <2>2. Where = "begin" /\ Where' = "list"
      BY <2>1, MovesTo DEF Held
    <2>3. ncclNIbDevs' = 0
      BY <2>1, <2>2 DEF DevicesInv, WalkInv
    <2> QED
      BY <2>1, <2>2, <2>3, EmptySound DEF Joined
  <1>3. CASE Rebuild(t)
    <2>1. pc[t] = "open" /\ Goto(t, "remerge") /\ ncclIbLock' = ncclIbLock
          /\ UNCHANGED <<ncclIbDevs, ncclNMergedIbDevs, ncclIbMergedDevs>>
      BY <1>3 DEF Rebuild
    <2>2. Where = "open" /\ Where' = "remerge"
      BY <2>1, MovesTo DEF Held
    <2> QED
      BY <2>1, <2>2, SoundFrame
  <1>4. CASE UncountMerged(t)
    <2>1. pc[t] = "remerge" /\ Goto(t, "clear") /\ ncclIbLock' = ncclIbLock
          /\ ncclNMergedIbDevs' = 0 /\ ncclNIbDevs' = ncclNIbDevs
      BY <1>4 DEF UncountMerged
    <2>2. Where = "remerge" /\ Where' = "clear"
      BY <2>1, MovesTo DEF Held
    <2>3. ncclNIbDevs' = 0
      BY <2>1, <2>2 DEF DevicesInv, WalkInv
    <2> QED
      BY <2>1, <2>2, <2>3, EmptySound DEF Joined
  <1>5. CASE ClearMerged(t)
    <2>1. pc[t] = "clear" /\ Goto(t, "open") /\ ncclIbLock' = ncclIbLock
          /\ ncclNMergedIbDevs' = ncclNMergedIbDevs /\ ncclNIbDevs' = ncclNIbDevs
      BY <1>5 DEF ClearMerged
    <2>2. Where = "clear" /\ Where' = "open"
      BY <2>1, MovesTo DEF Held
    <2>3. ncclNIbDevs = 0
      BY <2>2 DEF DevicesInv, WalkInv
    <2>4. ncclNMergedIbDevs \in 0 .. 0
      BY <2>2, <2>3 DEF DevicesInv, CountInv, Listed, Joined
    <2>5. ncclNMergedIbDevs' = 0
      BY <2>1, <2>4
    <2> QED
      BY <2>1, <2>2, <2>3, <2>5, EmptySound DEF Joined
  <1> QED
    BY <1>1, <1>2, <1>3, <1>4, <1>5

LEMMA CountPortSound ==
    ASSUME DevicesInv, SoundInv, NEW t \in Threads, CountPort(t)
    PROVE  SoundInv'
  <1>1. /\ pc[t] = "number" /\ Goto(t, "port") /\ ncclNIbDevs' = ncclNIbDevs + 1
        /\ UNCHANGED <<ncclIbLock, ncclIbDevs, ncclNMergedIbDevs, ncclIbMergedDevs>>
    BY DEF CountPort
  <1>2. Where = "number" /\ Where' = "port"
    BY <1>1, MovesTo DEF Held
  <1>3. Listed' = Listed
    BY <1>1, <1>2 DEF Listed, Joined
  <1> QED
    BY <1>1, <1>2, <1>3, SoundFrame

LEMMA NextSound ==
    ASSUME DevicesInv, SoundInv, DevicesNext
    PROVE  SoundInv'
  <1>1. PICK t \in Threads :
            \/ PlainStep(t) \/ AddPort(t) \/ AddSpeed(t) \/ CountPort(t)
            \/ JoinMerged(t) \/ CountMerged(t) \/ NewMerged(t) \/ SetFirst(t)
            \/ Lock(t) \/ ResetMerged(t) \/ Rebuild(t) \/ UncountMerged(t) \/ ClearMerged(t)
    BY DEF DevicesNext, PlainStep
  <1>2. CASE PlainStep(t)
    <2>1. /\ UNCHANGED listVars
          /\ \/ Where' = Where /\ walk' = walk
             \/ Where \in Plain /\ Where' \in Plain
      BY <1>2, PlainStepIs
    <2>2. walk' = walk \/ Where # "speed"
      BY <2>1 DEF Plain
    <2> QED
      BY <2>1, <2>2, PlainSound
  <1> QED
    BY <1>1, <1>2, AddPortSound, AddSpeedSound, CountPortSound, JoinSound, NewSlotSound, ResetSound

LEMMA InitSound == DevicesInit => SoundInv
  <1> SUFFICES ASSUME DevicesInit PROVE SoundInv
    OBVIOUS
  <1>1. ncclNIbDevs = -1 /\ ncclNMergedIbDevs = -1 /\ Where = "out"
    BY DEF DevicesInit, Where
  <1>2. Listed = -1
    BY <1>1 DEF Listed, Joined
  <1>3. 0 .. Listed - 1 = {} /\ 0 .. ncclNMergedIbDevs - 1 = {}
    BY <1>1, <1>2
  <1> QED
    BY <1>1, <1>3 DEF SoundInv, EachListed, OneOwner, OneNic, SpeedsAdded, LastAdded


-----------------------------------------------------------------------------
(* The search for a GID *)

\* The choices after n entries, from the choices after n - 1.
BestStep(table, user, best, n) ==
    IF n <= 1 THEN {0}
    ELSE UNION {IF i = GidError THEN {GidError}
                ELSE UpdateGidIndex(table, user, i, n - 1) : i \in best[n - 1]}

SearchesTo(table, user, best, n) ==
    \A k \in 0 .. n : best[k] = BestStep(table, user, best, k)

LEMMA SearchExists ==
    ASSUME NEW table, NEW user, NEW n \in Nat
    PROVE  \E best : DOMAIN best = 0 .. n /\ SearchesTo(table, user, best, n)
  <1> DEFINE bad == {k \in Nat : ~\E best : DOMAIN best = 0 .. k
                                            /\ SearchesTo(table, user, best, k)}
  <1>1. SUFFICES ASSUME bad # {} PROVE FALSE
    OBVIOUS
  <1>2. PICK k \in bad : \A j \in bad : k <= j
    BY <1>1, LeastElement
  <1>3. CASE k = 0
    <2> DEFINE b == [i \in 0 .. 0 |-> {0}]
    <2>1. DOMAIN b = 0 .. 0 /\ SearchesTo(table, user, b, 0)
      BY DEF SearchesTo, BestStep
    <2> QED
      BY <1>2, <1>3, <2>1
  <1>4. CASE k # 0
    <2>1. k - 1 \in Nat /\ k - 1 \notin bad
      BY <1>2, <1>4
    <2>2. PICK b : DOMAIN b = 0 .. k - 1 /\ SearchesTo(table, user, b, k - 1)
      BY <2>1
    <2> DEFINE c == [i \in 0 .. k |-> IF i < k THEN b[i] ELSE BestStep(table, user, b, k)]
    <2>3. DOMAIN c = 0 .. k /\ \A i \in 0 .. k - 1 : c[i] = b[i]
      BY <2>1
    <2>4. c[k] = BestStep(table, user, b, k)
      BY <2>1
    <2> HIDE DEF c
    <2>5. ASSUME NEW i \in 0 .. k
          PROVE  BestStep(table, user, c, i) = BestStep(table, user, b, i)
      <3>1. i > 1 => c[i - 1] = b[i - 1]
        BY <2>3
      <3>2. CASE i <= 1
        BY <3>2 DEF BestStep
      <3>3. CASE ~(i <= 1)
        <4>1. c[i - 1] = b[i - 1]
          BY <2>1, <3>1, <3>3
        <4> QED
          BY <3>3, <4>1 DEF BestStep
      <3> QED
        BY <3>2, <3>3
    <2>6. \A i \in 0 .. k : c[i] = BestStep(table, user, c, i)
      <3> SUFFICES ASSUME NEW i \in 0 .. k PROVE c[i] = BestStep(table, user, c, i)
        OBVIOUS
      <3>1. CASE i = k
        BY <2>4, <2>5, <3>1
      <3>2. CASE i # k
        <4>1. i \in 0 .. k - 1
          BY <2>1, <3>2
        <4> QED
          BY <2>2, <2>3, <2>5, <4>1 DEF SearchesTo
      <3> QED
        BY <3>1, <3>2
    <2> QED
      BY <1>2, <2>3, <2>6 DEF SearchesTo
  <1> QED
    BY <1>3, <1>4

LEMMA SearchIs ==
    ASSUME NEW table \in Seq(Gid), NEW user
    PROVE  \E best : /\ SearchesTo(table, user, best, Len(table))
                     /\ SearchGidIndex(table, user) = best[Len(table)]
  <1> DEFINE N == Len(table)
             best == CHOOSE b : b = [n \in 0 .. N |->
                        IF n <= 1 THEN {0}
                        ELSE UNION {IF i = GidError THEN {GidError}
                                    ELSE UpdateGidIndex(table, user, i, n - 1) :
                                        i \in b[n - 1]}]
  <1>1. N \in Nat
    BY LenProperties
  <1>2. PICK b : DOMAIN b = 0 .. N /\ SearchesTo(table, user, b, N)
    BY <1>1, SearchExists
  <1> DEFINE fn == [n \in 0 .. N |-> b[n]]
  <1>3. \A n \in 0 .. N : fn[n] = BestStep(table, user, fn, n)
    <2> SUFFICES ASSUME NEW n \in 0 .. N PROVE fn[n] = BestStep(table, user, fn, n)
      OBVIOUS
    <2>1. fn[n] = BestStep(table, user, b, n)
      BY <1>2 DEF SearchesTo
    <2>2. CASE n <= 1
      BY <2>1, <2>2 DEF BestStep
    <2>3. CASE ~(n <= 1)
      <3>1. fn[n - 1] = b[n - 1]
        BY <1>1, <2>3
      <3> HIDE DEF fn
      <3> QED
        BY <2>1, <2>3, <3>1 DEF BestStep
    <2> QED
      BY <2>2, <2>3
  <1>4. fn = [n \in 0 .. N |-> BestStep(table, user, fn, n)]
    <2>1. fn = [n \in 0 .. N |-> fn[n]]
      OBVIOUS
    <2> HIDE DEF fn
    <2> QED
      BY <1>3, <2>1
  <1> HIDE DEF fn, N
  <1>5. best = [n \in 0 .. N |-> BestStep(table, user, best, n)]
    BY <1>4 DEF BestStep
  <1>6. SearchGidIndex(table, user) = best[N]
    BY DEF SearchGidIndex, N
  <1> HIDE DEF best
  <1>7. SearchesTo(table, user, best, N)
    BY <1>5 DEF SearchesTo
  <1> QED
    BY <1>6, <1>7 DEF N

LEMMA StepFrom ==
    ASSUME NEW table, NEW user, NEW best, NEW n \in Nat, n > 1,
           NEW r \in BestStep(table, user, best, n)
    PROVE  \E i \in best[n - 1] :
              IF i = GidError THEN r = GidError
              ELSE r \in UpdateGidIndex(table, user, i, n - 1)
  BY DEF BestStep

LEMMA UpdateRange ==
    ASSUME NEW table, NEW user, NEW cur, NEW cand,
           NEW r \in UpdateGidIndex(table, user, cur, cand)
    PROVE  r \in {GidError, cur, cand}
  BY DEF UpdateGidIndex

\* A choice is an entry that was looked at, or the error.
LEMMA SearchRange ==
    ASSUME NEW table, NEW user, NEW best, NEW N \in Nat, SearchesTo(table, user, best, N),
           NEW n \in 0 .. N, NEW r \in best[n]
    PROVE  r = GidError \/ r = 0 \/ r \in 1 .. n - 1
  <1> DEFINE Ok(k) == \A x \in best[k] : x = GidError \/ x = 0 \/ x \in 1 .. k - 1
             bad == {k \in Nat : k <= N /\ ~Ok(k)}
  <1>1. SUFFICES ASSUME bad # {} PROVE FALSE
    OBVIOUS
  <1>2. PICK k \in bad : \A j \in bad : k <= j
    BY <1>1, LeastElement
  <1>3. best[k] = BestStep(table, user, best, k)
    BY <1>2 DEF SearchesTo
  <1>4. k > 1
    BY <1>2, <1>3 DEF BestStep
  <1>5. k - 1 \in Nat /\ k - 1 <= N /\ Ok(k - 1)
    <2>1. k - 1 \in Nat /\ k - 1 <= N /\ ~(k <= k - 1)
      BY <1>2, <1>4
    <2> QED
      BY <1>2, <2>1
  <1>6. ASSUME NEW x \in best[k]
        PROVE  x = GidError \/ x = 0 \/ x \in 1 .. k - 1
    <2>1. PICK i \in best[k - 1] : IF i = GidError THEN x = GidError
                                   ELSE x \in UpdateGidIndex(table, user, i, k - 1)
      BY <1>2, <1>3, <1>4, <1>6, StepFrom
    <2>2. x \in {GidError, i, k - 1}
      BY <2>1, UpdateRange
    <2>3. i = GidError \/ i = 0 \/ i \in 1 .. k - 2
      BY <1>2, <1>4, <1>5
    <2> QED
      BY <1>2, <1>4, <2>2, <2>3
  <1> QED
    BY <1>2, <1>6

LEMMA SearchType ==
    ASSUME NEW table \in Seq(Gid), NEW user
    PROVE  SearchGidIndex(table, user) \subseteq Int
  <1>1. Len(table) \in Nat
    BY LenProperties
  <1>2. PICK best : /\ SearchesTo(table, user, best, Len(table))
                    /\ SearchGidIndex(table, user) = best[Len(table)]
    BY SearchIs
  <1> DEFINE N == Len(table)
  <1>3. N \in 0 .. N
    BY <1>1
  <1>4. \A r \in best[N] : r = GidError \/ r = 0 \/ r \in 1 .. N - 1
    <2> HIDE DEF N
    <2> QED
      BY <1>1, <1>2, <1>3, SearchRange DEF N
  <1> QED
    BY <1>2, <1>4 DEF GidError

\* One comparison: a usable choice stays, a usable candidate replaces what is
\* not settled, and no candidate that does not pass becomes settled.
LEMMA UpdateIs ==
    ASSUME NEW table, NEW user \in UserGid, NEW cur, NEW cand,
           Entry(table, cur) \in Gid, Entry(table, cand) \in Gid,
           NEW r \in UpdateGidIndex(table, user, cur, cand), r # GidError
    PROVE  /\ Usable(Entry(table, cur), user) => r = cur
           /\ (~Settled(Entry(table, cur), user) /\ Usable(Entry(table, cand), user)) =>
                 r = cand
           /\ (~Settled(Entry(table, cur), user) /\ ~Passes(Entry(table, cand), user)) =>
                 r = cur \/ (r = cand /\ ~Settled(Entry(table, cand), user))
  <1> DEFINE g == Entry(table, cur)
             c == Entry(table, cand)
  <1>1. /\ user.ver \in 1 .. 2
        /\ \A x \in Gid : user.ver \in Versions(x) => x.ver = user.ver \/ x.ver = 3
        /\ \A x \in Gid : x.ver = user.ver => Versions(x) = {user.ver}
    BY DEF UserGid, Gid, Versions, NoVersion
  <1>2. CASE c.fam # g.fam /\ c.fam = user.fam /\ c.subnet
    <2>1. r = cand
      BY <1>2 DEF UpdateGidIndex
    <2> QED
      BY <1>1, <1>2, <2>1 DEF Usable, Passes, Settled
  <1>3. CASE ~(c.fam # g.fam /\ c.fam = user.fam /\ c.subnet)
             /\ (c.fam # user.fam \/ ~c.valid \/ ~c.subnet)
    <2>1. r = cur
      BY <1>3 DEF UpdateGidIndex
    <2> QED
      BY <1>1, <1>3, <2>1 DEF Usable, Passes, Settled
  <1>4. CASE ~(c.fam # g.fam /\ c.fam = user.fam /\ c.subnet)
             /\ ~(c.fam # user.fam \/ ~c.valid \/ ~c.subnet)
    <2>1. PICK v \in Versions(g), w \in Versions(c) :
             r = IF BetterVersion(g, v, w, user) THEN cand ELSE cur
      BY <1>4 DEF UpdateGidIndex
    <2>2. g.fam = user.fam /\ c.fam = user.fam /\ c.valid /\ c.subnet
      BY <1>4
    <2>3. Usable(g, user) => g.valid /\ v = user.ver
      BY <1>1, <2>1 DEF Usable
    <2>4. Usable(c, user) => w = user.ver
      BY <1>1, <2>1 DEF Usable
    <2>5. ~Settled(g, user) => ~g.valid \/ v # user.ver
      BY <2>1, <2>2 DEF Settled
    <2>6. ~Passes(c, user) => w # user.ver
      BY <2>1, <2>2 DEF Passes
    <2> QED
      BY <2>1, <2>3, <2>4, <2>5, <2>6 DEF BetterVersion
  <1> QED
    BY <1>2, <1>3, <1>4

\* Where entry 0 is not good enough, every choice before the first usable
\* entry f was looked at is not settled, and from then on it is f.
SoFar(table, user, f, r, n) ==
    /\ r \in 0 .. n - 1
    /\ n <= f => ~Settled(Entry(table, r), user)
    /\ n > f => r = f

LEMMA SearchFinds ==
    ASSUME NEW table \in Seq(Gid), NEW user \in UserGid, NEW best,
           SearchesTo(table, user, best, Len(table)),
           ~Settled(Entry(table, 0), user),
           NEW f, FirstUsable(table, user, f),
           NEW n \in 1 .. Len(table), NEW r \in best[n], r # GidError
    PROVE  SoFar(table, user, f, r, n)
  <1> DEFINE N == Len(table)
             Ok(k) == \A x \in best[k] : x # GidError => SoFar(table, user, f, x, k)
             bad == {k \in Nat : k >= 1 /\ k <= N /\ ~Ok(k)}
  <1>1. N \in Nat
    BY LenProperties
  <1>2. \A k \in 0 .. N - 1 : Entry(table, k) \in Gid
    BY <1>1, LenProperties, ElementOfSeq DEF Entry
  <1>3. /\ f \in 1 .. N - 1 /\ Usable(Entry(table, f), user)
        /\ \A k \in 1 .. f - 1 : ~Passes(Entry(table, k), user)
    BY DEF FirstUsable
  <1> HIDE DEF N
  <1>4. SUFFICES ASSUME bad # {} PROVE FALSE
    BY <1>1 DEF N
  <1>5. PICK k \in bad : \A j \in bad : k <= j
    BY <1>4, LeastElement
  <1>6. best[k] = BestStep(table, user, best, k) /\ k \in Nat /\ k >= 1 /\ k <= N
    BY <1>1, <1>5 DEF SearchesTo, N
  <1>7. PICK x \in best[k] : x # GidError /\ ~SoFar(table, user, f, x, k)
    BY <1>5
  <1>8. CASE k = 1
    <2>1. x = 0
      BY <1>6, <1>7, <1>8 DEF BestStep
    <2> QED
      BY <1>3, <1>7, <1>8, <2>1 DEF SoFar
  <1>9. CASE k # 1
    <2> DEFINE j == k - 1
    <2>1. j \in Nat /\ j >= 1 /\ j <= N - 1 /\ ~(k <= j) /\ k = j + 1
      BY <1>1, <1>6, <1>9
    <2>2. j \notin bad
      BY <1>5, <2>1
    <2>3. PICK i \in best[j] : IF i = GidError THEN x = GidError
                               ELSE x \in UpdateGidIndex(table, user, i, j)
      BY <1>6, <1>7, <1>9, StepFrom
    <2>4. i # GidError /\ x \in UpdateGidIndex(table, user, i, j)
      BY <1>7, <2>3
    <2>5. SoFar(table, user, f, i, j)
      BY <1>1, <2>1, <2>2, <2>3, <2>4
    <2> HIDE DEF j, bad
    <2>6. i \in 0 .. j - 1 /\ Entry(table, i) \in Gid /\ Entry(table, j) \in Gid
      BY <1>1, <1>2, <2>1, <2>5 DEF SoFar
    <2>7. /\ Usable(Entry(table, i), user) => x = i
          /\ (~Settled(Entry(table, i), user) /\ Usable(Entry(table, j), user)) => x = j
          /\ (~Settled(Entry(table, i), user) /\ ~Passes(Entry(table, j), user)) =>
                x = i \/ (x = j /\ ~Settled(Entry(table, j), user))
      BY <1>7, <2>4, <2>6, UpdateIs
    <2>8. CASE j > f
      <3>1. i = f /\ x = i
        BY <1>3, <2>5, <2>7, <2>8 DEF SoFar
      <3> QED
        BY <1>3, <1>7, <2>1, <2>6, <2>8, <3>1 DEF SoFar
    <2>9. CASE j = f
      <3>1. x = j
        BY <1>3, <2>1, <2>5, <2>7, <2>9 DEF SoFar
      <3> QED
        BY <1>3, <1>7, <2>1, <2>9, <3>1 DEF SoFar
    <2>10. CASE j < f
      <3>1. ~Settled(Entry(table, i), user)
        BY <1>3, <2>1, <2>5, <2>10 DEF SoFar
      <3>2. ~Passes(Entry(table, j), user)
        BY <1>3, <2>1, <2>10
      <3>3. x \in 0 .. k - 1 /\ ~Settled(Entry(table, x), user)
        BY <2>1, <2>6, <2>7, <3>1, <3>2
      <3> QED
        BY <1>3, <1>7, <2>1, <2>10, <3>3 DEF SoFar
    <2> QED
      BY <1>3, <2>1, <2>8, <2>9, <2>10
  <1> QED
    BY <1>8, <1>9

\* ncclIbGetGidIndex on Ethernet with the search asked for, against what it is
\* for.
LEMMA GidSearchCorrect ==
    ASSUME NEW table \in Seq(Gid), NEW user \in UserGid,
           ~Settled(Entry(table, 0), user),
           \E i \in 1 .. Len(table) - 1 : FirstUsable(table, user, i),
           NEW r \in SearchGidIndex(table, user), r # GidError
    PROVE  FirstUsable(table, user, r)
  <1> DEFINE N == Len(table)
  <1>1. N \in Nat
    BY LenProperties
  <1>2. PICK f \in 1 .. Len(table) - 1 : FirstUsable(table, user, f)
    OBVIOUS
  <1>3. PICK best : /\ SearchesTo(table, user, best, Len(table))
                    /\ SearchGidIndex(table, user) = best[Len(table)]
    BY SearchIs
  <1>4. N \in 1 .. N /\ N > f
    BY <1>1, <1>2
  <1>5. SoFar(table, user, f, r, N)
    BY <1>2, <1>3, <1>4, SearchFinds
  <1>6. r = f
    BY <1>4, <1>5 DEF SoFar
  <1> QED
    BY <1>2, <1>6

LEMMA GidIndexType ==
    ASSUME NEW link, NEW table \in Seq(Gid), NEW user \in UserGid
    PROVE  GetGidIndex(link, table, user) \subseteq Int
  <1>1. user.routable \in Int /\ user.index \in Int /\ GidError \in Int
    BY DEF UserGid, GidError
  <1> QED
    BY <1>1, SearchType DEF GetGidIndex

-----------------------------------------------------------------------------
(* The set-up of communicators *)

SetupTypeOK ==
    /\ channel_ud \in [Kinds -> [Channels -> [ud_id : Pipelines,
                                              allocated : BOOLEAN]]]
    /\ last_ud \in [Kinds -> [Slots -> Pipelines]]
    /\ udma_mask \in [Slots -> Pipelines]
    /\ todo \in [Threads -> Seq(Conn)]
    /\ step \in [Threads -> Steps]
    /\ devs \in [Threads -> Seq(Slots)]
    /\ jobs \in [Threads -> Seq(Job)]
    /\ lud \in [Threads -> Pipelines]
    /\ alone \in [Threads -> BOOLEAN]
    /\ qps \subseteq [thread : Threads, n : Nat, dev : Slots, channel : Channels,
                      kind : Kinds, pipe : Pipelines, alone : BOOLEAN]
    /\ IsFiniteSet(qps)
    /\ gids \subseteq [link : {"IB", "RoCE"}, table : Seq(Gid), index : Int]

\* The GIDs chosen are what ncclIbGetGidIndex returns.
GidInv == \A g \in gids : g.index \in GetGidIndex(g.link, g.table, host.gid)

\* The entries a communicator is on describe ports of the host, whatever the
\* discovery does with the lists after they were copied.
CopyInv == \A t \in Threads : \A i \in DOMAIN devs[t] : OfPort(ncclIbDevs[devs[t][i]])

PipelineInv == /\ SetupTypeOK /\ SetupInv /\ AloneInv /\ CallInv /\ QpInv

StartupInv == DevicesInv /\ PipelineInv /\ CopyInv /\ GidInv

LEMMA InitStartupInv == Init => StartupInv
  <1> SUFFICES ASSUME Init PROVE StartupInv
    OBVIOUS
  <1>1. DevicesInv
    BY InitDevicesInv DEF Init
  <1>2. SetupTypeOK
    <2>1. IsFiniteSet(qps)
      BY FS_EmptySet DEF Init
    <2> QED
      BY <2>1, StartupConstantsAssumption
      DEF Init, SetupTypeOK, Kinds, Pipelines, Steps
  <1>3. SetupInv /\ AloneInv /\ CallInv /\ QpInv /\ GidInv
    BY DEF Init, SetupInv, AloneInv, CallInv, QpInv, GidInv, Busy, InCall
  <1>4. CopyInv
    BY DEF Init, CopyInv
  <1> QED
    BY <1>1, <1>2, <1>3, <1>4 DEF StartupInv, PipelineInv

LEMMA DevicesFrame ==
    ASSUME DevicesInv, UNCHANGED <<host, ncclIbLock, listVars, walk, contexts, pc, met, ndev>>,
           faults' \in 0 .. MaxFaults
    PROVE  DevicesInv' /\ Where' = Where
  <1>1. Where' = Where
    BY DEF Where
  <1>2. DevicesTypeOK'
    BY DEF DevicesInv, DevicesTypeOK, listVars
  <1>3. LockInv'
    BY DEF DevicesInv, LockInv
  <1> QED
    BY <1>1, <1>2, <1>3, ListsKept DEF DevicesInv

LEMMA CopyFrame ==
    ASSUME CopyInv, UNCHANGED <<devs, host, ncclIbDevs>>
    PROVE  CopyInv'
  BY DEF CopyInv, OfPort, hcas

\* Steps of the set-up leave the discovery alone.
LEMMA ElsewhereFrame ==
    ASSUME StartupInv, UNCHANGED devicesVars
    PROVE  /\ DevicesInv' /\ host' = host /\ Where' = Where
           /\ devs' = devs => CopyInv'
           /\ gids' = gids => GidInv'
  <1>1. /\ UNCHANGED <<host, ncclIbLock, listVars, walk, contexts, pc, met, ndev>>
        /\ faults' = faults
    BY DEF devicesVars
  <1>2. faults' \in 0 .. MaxFaults
    BY <1>1 DEF StartupInv, DevicesInv, DevicesTypeOK
  <1>3. DevicesInv' /\ Where' = Where
    BY <1>1, <1>2, DevicesFrame DEF StartupInv
  <1>4. devs' = devs => CopyInv'
    BY <1>1, CopyFrame DEF StartupInv, listVars
  <1>5. gids' = gids => GidInv'
    BY <1>1 DEF StartupInv, GidInv
  <1> QED
    BY <1>1, <1>3, <1>4, <1>5

LEMMA PipelineFrame ==
    ASSUME PipelineInv, UNCHANGED startupVars
    PROVE  PipelineInv'
  <1> USE DEF startupVars, udVars
  <1>1. SetupTypeOK' /\ SetupInv'
    BY DEF PipelineInv, SetupTypeOK, SetupInv, Busy, InCall, Current
  <1>2. AloneInv'
    BY DEF PipelineInv, AloneInv, InCall, Interfere, Job1, Current
  <1>3. CallInv' /\ QpInv'
    BY DEF PipelineInv, CallInv, QpInv, UdEntry, Job1, Current
  <1> QED
    BY <1>1, <1>2, <1>3 DEF PipelineInv

LEMMA DevicesStepKeeps ==
    ASSUME StartupInv, DevicesNext, UNCHANGED startupVars
    PROVE  StartupInv'
  <1>1. DevicesInv'
    BY NextDevicesInv DEF StartupInv
  <1>2. PipelineInv'
    BY PipelineFrame DEF StartupInv
  <1>3. PICK t \in Threads :
            \/ PlainStep(t) \/ AddPort(t) \/ AddSpeed(t) \/ CountPort(t)
            \/ JoinMerged(t) \/ CountMerged(t) \/ NewMerged(t) \/ SetFirst(t)
            \/ Lock(t) \/ ResetMerged(t) \/ Rebuild(t) \/ UncountMerged(t) \/ ClearMerged(t)
    BY DEF DevicesNext, PlainStep
  <1>4. host' = host /\ (AddPort(t) \/ ncclIbDevs' = ncclIbDevs)
    <2>1. CASE PlainStep(t)
      BY <2>1, PlainStepIs DEF StartupInv, listVars
    <2> QED
      BY <1>3, <2>1 DEF AddPort, AddSpeed, CountPort, JoinMerged, CountMerged, NewMerged,
         SetFirst, Lock, ResetMerged, Rebuild, UncountMerged, ClearMerged
  <1>5. devs' = devs /\ gids' = gids
    BY DEF startupVars
  <1>6. GidInv'
    BY <1>4, <1>5 DEF StartupInv, GidInv
  <1>7. CopyInv'
    <2>1. CASE ncclIbDevs' = ncclIbDevs
      BY <1>4, <1>5, <2>1, CopyFrame DEF StartupInv
    <2>2. CASE AddPort(t)
      <3>1. PICK n \in Slots, dev \in IbDev :
               /\ ncclIbDevs' = [ncclIbDevs EXCEPT ![n] = dev]
               /\ EntryOf(dev, walk.d, walk.port)
        BY <2>2, AddPortIs DEF StartupInv
      <3>2. OfPort(dev)
        BY <3>1 DEF EntryOf
      <3>3. ncclIbDevs \in [Slots -> IbDev]
        BY DEF StartupInv, DevicesInv, DevicesTypeOK
      <3>4. hcas' = hcas
        BY <1>4 DEF hcas
      <3> SUFFICES ASSUME NEW u \in Threads, NEW i \in DOMAIN devs[u]
                   PROVE  OfPort(ncclIbDevs'[devs[u][i]])
        BY <1>5, <3>4 DEF CopyInv, OfPort
      <3>5. OfPort(ncclIbDevs[devs[u][i]])
        BY DEF StartupInv, CopyInv
      <3>6. devs[u] \in Seq(Slots)
        BY DEF StartupInv, PipelineInv, SetupTypeOK
      <3>7. devs[u][i] \in Slots
        BY <3>6, LenProperties, ElementOfSeq
      <3>8. ncclIbDevs'[devs[u][i]] \in {dev, ncclIbDevs[devs[u][i]]}
        BY <3>1, <3>3, <3>7
      <3> QED
        BY <3>2, <3>5, <3>8
    <2> QED
      BY <1>4, <2>1, <2>2
  <1> QED
    BY <1>1, <1>2, <1>6, <1>7 DEF StartupInv

\* The QPs of a communicator are on its devices.
LEMMA EachJob ==
    ASSUME NEW ds \in Seq(Slots), NEW k \in Kinds, NEW n \in Nat, n > 0 => Len(ds) > 0
    PROVE  [i \in 1 .. n |-> [dev |-> ds[((i - 1) % Len(ds)) + 1], kind |-> k]] \in Seq(Job)
  <1> DEFINE L == Len(ds)
  <1>1. L \in Nat
    BY LenProperties
  <1>2. ASSUME NEW i \in 1 .. n
        PROVE  [dev |-> ds[((i - 1) % L) + 1], kind |-> k] \in Job
    <2>1. L > 0
      BY <1>2
    <2>2. ((i - 1) % L) + 1 \in 1 .. L
      <3>1. i - 1 \in Nat
        OBVIOUS
      <3>2. \A a \in Nat, b \in Nat : b > 0 => (a % b) + 1 \in 1 .. b
        OBVIOUS
      <3> HIDE DEF L
      <3> QED
        BY <1>1, <2>1, <3>1, <3>2
    <2>3. ds[((i - 1) % L) + 1] \in Slots
      BY <2>2, ElementOfSeq
    <2> QED
      BY <2>3 DEF Job
  <1> HIDE DEF L
  <1>3. [i \in 1 .. n |-> [dev |-> ds[((i - 1) % L) + 1], kind |-> k]] \in Seq(Job)
    <2>1. [i \in 1 .. n |-> [dev |-> ds[((i - 1) % L) + 1], kind |-> k]] \in [1 .. n -> Job]
      BY <1>2
    <2> QED
      BY <2>1, SeqDef
  <1> QED
    BY <1>3 DEF L

LEMMA QpJobsType ==
    ASSUME NEW c \in Conn, NEW ds \in Seq(Slots)
    PROVE  QpJobs(c, ds) \in Seq(Job)
  <1> DEFINE each(n, k) == [i \in 1 .. n |->
                 [dev |-> ds[((i - 1) % Len(ds)) + 1], kind |-> k]]
  <1>1. Len(ds) \in Nat
    BY LenProperties
  <1>2. QpsPerConn * Len(ds) \in Nat /\ (QpsPerConn * Len(ds) > 0 => Len(ds) > 0)
    <2>1. \A a, b \in Nat : a * b \in Nat /\ (b = 0 => a * b = 0)
      OBVIOUS
    <2> DEFINE L == Len(ds)
    <2>2. L \in Nat /\ QpsPerConn \in Nat
      BY <1>1, StartupConstantsAssumption
    <2> HIDE DEF L
    <2>3. QpsPerConn * L \in Nat /\ (L = 0 => QpsPerConn * L = 0)
      BY <2>1, <2>2
    <2>4. QpsPerConn * L > 0 => L > 0
      BY <2>2, <2>3
    <2> QED
      BY <2>3, <2>4 DEF L
  <1>3. \A k \in Kinds : each(QpsPerConn * Len(ds), k) \in Seq(Job)
    BY <1>2, EachJob
  <1>4. each(Len(ds), "data") \in Seq(Job)
    BY <1>1, EachJob DEF Kinds
  <1>5. "data" \in Kinds /\ "cts" \in Kinds
    BY DEF Kinds
  <1>6. QpJobs(c, ds) =
          IF c.call = "connect" THEN each(QpsPerConn * Len(ds), "data")
          ELSE each(QpsPerConn * Len(ds), "cts")
               \o (IF FlushEnabled THEN each(Len(ds), "data") ELSE <<>>)
    BY DEF QpJobs
  <1> HIDE DEF each
  <1>7. \A s, r \in Seq(Job) : s \o r \in Seq(Job)
    BY ConcatProperties
  <1>8. <<>> \in Seq(Job)
    OBVIOUS
  <1> QED
    BY <1>3, <1>4, <1>5, <1>6, <1>7, <1>8

\* A thread outside ncclIbCreateQp touches nothing the calls of others depend
\* on.
OthersSame(t) ==
    \A u \in Threads \ {t} : step'[u] = step[u] /\ jobs'[u] = jobs[u] /\ todo'[u] = todo[u]

LEMMA OutsideFrame ==
    ASSUME PipelineInv, NEW t \in Threads, ~InCall(t), ~InCall(t)', OthersSame(t),
           UNCHANGED <<udVars, alone, qps>>
    PROVE  AloneInv' /\ CallInv' /\ QpInv'
  <1>1. \A u \in Threads : InCall(u)' => u # t /\ InCall(u)
    BY DEF InCall, OthersSame
  <1>2. \A u \in Threads : u # t => /\ step'[u] = step[u] /\ Job1(u)' = Job1(u)
                                    /\ Current(u)' = Current(u)
    BY DEF OthersSame, Job1, Current
  <1>3. AloneInv'
    BY <1>1, <1>2 DEF PipelineInv, AloneInv, Interfere
  <1>4. CallInv'
    <2>1. \A u \in Threads : step'[u] \in {"mask", "create"} => InCall(u)'
      BY DEF InCall
    <2> QED
      BY <1>1, <1>2, <2>1 DEF PipelineInv, CallInv, UdEntry, udVars
  <1>5. QpInv'
    <2>1. \A u \in Threads : step'[u] \in {"read", "assign"} => InCall(u)'
      BY DEF InCall
    <2> QED
      BY <1>1, <1>2, <2>1 DEF PipelineInv, QpInv, udVars
  <1> QED
    BY <1>3, <1>4, <1>5

LEMMA BeginKeeps ==
    ASSUME StartupInv, NEW t \in Threads, Begin(t)
    PROVE  StartupInv'
  <1>1. /\ step[t] = "next" /\ todo[t] # <<>> /\ Current(t).dev < ndev[t]
        /\ UNCHANGED <<devicesVars, udVars, todo, lud, alone, qps, gids>>
    BY DEF Begin
  <1>2. step' = [step EXCEPT ![t] = step'[t]] /\ step'[t] \in {"gid", "qp"}
    BY DEF Begin, Go, StartupInv, PipelineInv, SetupTypeOK
  <1>3. Current(t) \in Conn /\ Current(t).dev \in Slots
    <2>1. todo[t] \in Seq(Conn)
      BY DEF StartupInv, PipelineInv, SetupTypeOK
    <2>2. Current(t) \in Conn
      BY <1>1, <2>1, HeadTailProperties, EmptySeq, LenProperties, ElementOfSeq DEF Current
    <2>3. Current(t).dev \in Nat
      BY <2>2 DEF Conn
    <2>4. ndev[t] \in Slots \cup {-1}
      BY DEF StartupInv, DevicesInv, DevicesTypeOK
    <2> QED
      BY <1>1, <2>2, <2>3, <2>4, DevicesConstantsAssumption DEF Slots
  <1>4. PICK m \in Slots : m = Current(t).dev
    BY <1>3
  <1>5. PICK ds \in Seq(Slots) : ds = ncclIbMergedDevs[m].devs
    BY DEF StartupInv, DevicesInv, DevicesTypeOK, MergedDev
  <1>6. /\ devs' = [devs EXCEPT ![t] = ds]
        /\ jobs' = [jobs EXCEPT ![t] = QpJobs(Current(t), ds)]
    BY <1>4, <1>5 DEF Begin
  <1>7. QpJobs(Current(t), ds) \in Seq(Job)
    BY <1>3, QpJobsType
  <1>8. SetupTypeOK'
    BY <1>1, <1>2, <1>6, <1>7 DEF StartupInv, PipelineInv, SetupTypeOK, udVars, Steps
  <1>9. ~InCall(t) /\ ~InCall(t)' /\ OthersSame(t)
    BY <1>1, <1>2, <1>6 DEF InCall, OthersSame, StartupInv, PipelineInv, SetupTypeOK
  <1>10. SetupInv'
    <2>1. \A u \in Threads : Busy(u)' => todo'[u] # <<>>
      BY <1>1, <1>2 DEF StartupInv, PipelineInv, SetupTypeOK, SetupInv, Busy
    <2>2. \A u \in Threads : InCall(u)' => jobs'[u] # <<>>
      BY <1>9 DEF StartupInv, PipelineInv, SetupInv, InCall, OthersSame
    <2> QED
      BY <2>1, <2>2 DEF SetupInv
  <1>11. AloneInv' /\ CallInv' /\ QpInv'
    BY <1>1, <1>9, OutsideFrame DEF StartupInv
  <1>12. DevicesInv' /\ GidInv' /\ host' = host
    BY <1>1, ElsewhereFrame
  <1>13. CopyInv'
    <2>1. ncclIbDevs' = ncclIbDevs /\ hcas' = hcas
      BY <1>1, <1>12 DEF devicesVars, listVars, hcas
    <2>2. \A i \in DOMAIN ds : OfPort(ncclIbDevs[ds[i]])
      BY <1>5 DEF StartupInv, DevicesInv, MembersInv, Reachable
    <2>3. devs \in [Threads -> Seq(Slots)]
      BY DEF StartupInv, PipelineInv, SetupTypeOK
    <2> SUFFICES ASSUME NEW u \in Threads, NEW i \in DOMAIN devs'[u]
                 PROVE  OfPort(ncclIbDevs[devs'[u][i]])
      BY <2>1 DEF CopyInv, OfPort
    <2>4. CASE u = t
      BY <1>6, <2>2, <2>3, <2>4
    <2>5. CASE u # t
      BY <1>6, <2>3, <2>5 DEF StartupInv, CopyInv
    <2> QED
      BY <2>4, <2>5
  <1> QED
    BY <1>8, <1>10, <1>11, <1>12, <1>13 DEF StartupInv, PipelineInv

\* What is asked of ncclIbGetGidIndex is about ports of the host.
LEMMA ChosenType ==
    ASSUME DevicesInv, NEW n \in Slots, OfPort(ncclIbDevs[n]), NEW i \in GidsOf(n)
    PROVE  /\ Chosen(n, i) \in [link : {"IB", "RoCE"}, table : Seq(Gid), index : Int]
           /\ Chosen(n, i).index \in GetGidIndex(Chosen(n, i).link, Chosen(n, i).table, host.gid)
  <1> DEFINE e == ncclIbDevs[n]
             table == GidTable(n)
             g == Chosen(n, i)
  <1>1. e \in IbDev
    BY DEF DevicesInv, DevicesTypeOK
  <1>2. table \in Seq(Gid) /\ host.gid \in UserGid
    <2>1. hcas[e.hca].ports[e.portNum] \in Port
      BY HostFacts DEF OfPort, DevicesInv, DevicesTypeOK
    <2> QED
      BY <2>1, HostFacts DEF Port, DevicesInv, DevicesTypeOK, GidTable
  <1>3. e.link \in {"IB", "RoCE"}
    BY <1>1 DEF IbDev
  <1>4. i \in GetGidIndex(e.link, table, host.gid)
    BY DEF GidsOf
  <1>5. i \in Int
    BY <1>2, <1>4, GidIndexType
  <1>6. g = [link |-> e.link, table |-> table, index |-> i]
    BY DEF Chosen
  <1> HIDE DEF g, e, table
  <1>7. /\ g \in [link : {"IB", "RoCE"}, table : Seq(Gid), index : Int]
        /\ g.index \in GetGidIndex(g.link, g.table, host.gid)
    BY <1>2, <1>3, <1>4, <1>5, <1>6
  <1> QED
    BY <1>7 DEF g

LEMMA ChooseGidsKeeps ==
    ASSUME StartupInv, NEW t \in Threads, ChooseGids(t)
    PROVE  StartupInv'
  <1>1. /\ step[t] \in {"gid", "gidlast"}
        /\ UNCHANGED <<devicesVars, udVars, devs, jobs, lud, alone, qps>>
    BY DEF ChooseGids
  <1>2. PICK choice :
          /\ \A n \in Asked(t) : choice[n] \in GidsOf(n)
          /\ gids' = gids \cup {Chosen(n, choice[n]) : n \in Asked(t)}
          /\ IF \E n \in Asked(t) : ~CanQuery(GidTable(n), choice[n])
             THEN Go(t, "failed") /\ UNCHANGED todo
             ELSE IF step[t] = "gid" THEN Go(t, "qp") /\ UNCHANGED todo
             ELSE Go(t, "next") /\ todo' = [todo EXCEPT ![t] = Tail(@)]
    BY DEF ChooseGids
  <1>3. /\ step' = [step EXCEPT ![t] = step'[t]] /\ step'[t] \in {"failed", "qp", "next"}
        /\ \/ todo' = todo
           \/ todo' = [todo EXCEPT ![t] = Tail(@)] /\ step'[t] = "next"
    BY <1>2 DEF Go, StartupInv, PipelineInv, SetupTypeOK
  <1>4. todo[t] # <<>>
    BY <1>1 DEF StartupInv, PipelineInv, SetupInv, Busy
  <1>5. ASSUME NEW n \in Asked(t)
        PROVE  n \in Slots /\ OfPort(ncclIbDevs[n])
    <2>1. PICK k \in DOMAIN devs[t] : n = devs[t][k]
      BY <1>5 DEF Asked
    <2>2. devs[t] \in Seq(Slots)
      BY DEF StartupInv, PipelineInv, SetupTypeOK
    <2>3. devs[t][k] \in Slots
      BY <2>2, LenProperties, ElementOfSeq
    <2> QED
      BY <2>1, <2>3 DEF StartupInv, CopyInv
  <1>6. ASSUME NEW g \in gids', g \notin gids
        PROVE  /\ g \in [link : {"IB", "RoCE"}, table : Seq(Gid), index : Int]
               /\ g.index \in GetGidIndex(g.link, g.table, host.gid)
    <2>1. PICK n \in Asked(t) : g = Chosen(n, choice[n])
      BY <1>2, <1>6
    <2>2. n \in Slots /\ OfPort(ncclIbDevs[n]) /\ choice[n] \in GidsOf(n)
      BY <1>2, <1>5
    <2> QED
      BY <2>1, <2>2, ChosenType DEF StartupInv
  <1>7. SetupTypeOK'
    <2>1. Tail(todo[t]) \in Seq(Conn)
      BY <1>4, HeadTailProperties DEF StartupInv, PipelineInv, SetupTypeOK
    <2>2. todo' \in [Threads -> Seq(Conn)]
      BY <1>3, <2>1 DEF StartupInv, PipelineInv, SetupTypeOK
    <2>3. gids' \subseteq [link : {"IB", "RoCE"}, table : Seq(Gid), index : Int]
      BY <1>6 DEF StartupInv, PipelineInv, SetupTypeOK
    <2> QED
      BY <1>1, <1>3, <2>2, <2>3 DEF StartupInv, PipelineInv, SetupTypeOK, udVars, Steps
  <1>8. ~InCall(t) /\ ~InCall(t)' /\ OthersSame(t)
    BY <1>1, <1>3 DEF InCall, OthersSame, StartupInv, PipelineInv, SetupTypeOK
  <1>9. SetupInv'
    <2>1. \A u \in Threads : Busy(u)' => Busy(u) /\ todo'[u] = todo[u]
      BY <1>1, <1>3 DEF Busy, StartupInv, PipelineInv, SetupTypeOK
    <2>2. \A u \in Threads : InCall(u)' => jobs'[u] # <<>>
      BY <1>8 DEF StartupInv, PipelineInv, SetupInv, InCall, OthersSame
    <2> QED
      BY <2>1, <2>2 DEF SetupInv, StartupInv, PipelineInv
  <1>10. AloneInv' /\ CallInv' /\ QpInv'
    BY <1>1, <1>8, OutsideFrame DEF StartupInv
  <1>11. DevicesInv' /\ host' = host /\ CopyInv'
    BY <1>1, ElsewhereFrame
  <1>12. GidInv'
    BY <1>6, <1>11 DEF StartupInv, GidInv
  <1> QED
    BY <1>7, <1>9, <1>10, <1>11, <1>12 DEF StartupInv, PipelineInv

LEMMA EndQpsKeeps ==
    ASSUME StartupInv, NEW t \in Threads, EndQps(t)
    PROVE  StartupInv'
  <1>1. /\ step[t] = "qp"
        /\ UNCHANGED <<devicesVars, udVars, devs, jobs, lud, alone, qps, gids>>
    BY DEF EndQps
  <1>2. /\ step' = [step EXCEPT ![t] = step'[t]] /\ step'[t] \in {"gidlast", "next"}
        /\ \/ todo' = todo
           \/ todo' = [todo EXCEPT ![t] = Tail(@)] /\ step'[t] = "next"
    BY DEF EndQps, Go, StartupInv, PipelineInv, SetupTypeOK
  <1>3. todo[t] # <<>>
    BY <1>1 DEF StartupInv, PipelineInv, SetupInv, Busy
  <1>4. SetupTypeOK'
    <2>1. Tail(todo[t]) \in Seq(Conn)
      BY <1>3, HeadTailProperties DEF StartupInv, PipelineInv, SetupTypeOK
    <2>2. todo' \in [Threads -> Seq(Conn)]
      BY <1>2, <2>1 DEF StartupInv, PipelineInv, SetupTypeOK
    <2> QED
      BY <1>1, <1>2, <2>2 DEF StartupInv, PipelineInv, SetupTypeOK, udVars, Steps
  <1>5. ~InCall(t) /\ ~InCall(t)' /\ OthersSame(t)
    BY <1>1, <1>2 DEF InCall, OthersSame, StartupInv, PipelineInv, SetupTypeOK
  <1>6. SetupInv'
    <2>1. \A u \in Threads : Busy(u)' => Busy(u) /\ todo'[u] = todo[u]
      BY <1>1, <1>2 DEF Busy, StartupInv, PipelineInv, SetupTypeOK
    <2>2. \A u \in Threads : InCall(u)' => jobs'[u] # <<>>
      BY <1>5 DEF StartupInv, PipelineInv, SetupInv, InCall, OthersSame
    <2> QED
      BY <2>1, <2>2 DEF SetupInv, StartupInv, PipelineInv
  <1>7. AloneInv' /\ CallInv' /\ QpInv'
    BY <1>1, <1>5, OutsideFrame DEF StartupInv
  <1>8. DevicesInv' /\ CopyInv' /\ GidInv'
    BY <1>1, ElsewhereFrame
  <1> QED
    BY <1>4, <1>6, <1>7, <1>8 DEF StartupInv, PipelineInv

\* The job and the communicator of a thread in or before a call.
LEMMA CallTypes ==
    ASSUME PipelineInv, NEW t \in Threads, Busy(t), jobs[t] # <<>>
    PROVE  /\ Job1(t) \in Job /\ Job1(t).dev \in Slots /\ Job1(t).kind \in Kinds
           /\ Current(t) \in Conn /\ Current(t).channel \in Channels
  <1>1. jobs[t] \in Seq(Job) /\ todo[t] \in Seq(Conn) /\ todo[t] # <<>>
    BY DEF PipelineInv, SetupTypeOK, SetupInv
  <1>2. Job1(t) \in Job /\ Current(t) \in Conn
    BY <1>1, EmptySeq, LenProperties, ElementOfSeq DEF Job1, Current
  <1> QED
    BY <1>2 DEF Job, Conn

LEMMA InCallTypes ==
    ASSUME PipelineInv, NEW t \in Threads, InCall(t)
    PROVE  /\ Busy(t) /\ jobs[t] # <<>>
           /\ Job1(t) \in Job /\ Job1(t).dev \in Slots /\ Job1(t).kind \in Kinds
           /\ Current(t) \in Conn /\ Current(t).channel \in Channels
  <1>1. Busy(t) /\ jobs[t] # <<>>
    BY DEF PipelineInv, SetupInv, InCall, Busy
  <1> QED
    BY <1>1, CallTypes

\* A step of a call: the thread moves on and has its job and communicator
\* still.
LEMMA StepFrame ==
    ASSUME PipelineInv, NEW t \in Threads, NEW s \in Steps,
           step' = [step EXCEPT ![t] = s], UNCHANGED <<todo, jobs>>,
           s \in {"read", "assign", "toggle", "mark", "mask", "create"},
           Busy(t), jobs[t] # <<>>
    PROVE  /\ SetupInv' /\ step' \in [Threads -> Steps]
           /\ \A u \in Threads : /\ Job1(u)' = Job1(u) /\ Current(u)' = Current(u)
                                 /\ u # t => step'[u] = step[u]
           /\ step'[t] = s /\ InCall(t)'
  <1>1. step \in [Threads -> Steps]
    BY DEF PipelineInv, SetupTypeOK
  <1>2. \A u \in Threads : Busy(u)' => Busy(u)
    BY <1>1 DEF Busy
  <1>3. \A u \in Threads : InCall(u)' => InCall(u) \/ u = t
    BY <1>1 DEF InCall
  <1>4. SetupInv'
    BY <1>2, <1>3 DEF PipelineInv, SetupInv, Current
  <1> QED
    BY <1>1, <1>4 DEF Job1, Current, InCall

\* The same two calls interfere, whoever looks.
LEMMA InterfereSymmetric ==
    ASSUME NEW t, NEW u
    PROVE  Interfere(t, u) <=> Interfere(u, t)
  BY DEF Interfere

\* Steps of a call after its first keep AloneInv.
LEMMA AloneFrame ==
    ASSUME PipelineInv, NEW t \in Threads, InCall(t), alone' = alone,
           \A u \in Threads : /\ Job1(u)' = Job1(u) /\ Current(u)' = Current(u)
                              /\ u # t => step'[u] = step[u]
    PROVE  AloneInv'
  BY DEF PipelineInv, AloneInv, InCall, Interfere

LEMMA TestUdKeeps ==
    ASSUME StartupInv, NEW t \in Threads, TestUd(t)
    PROVE  StartupInv'
  <1> DEFINE others == {u \in Threads \ {t} : InCall(u) /\ Interfere(t, u)}
  <1> USE DEF StartupInv
  <1>1. /\ step[t] = "qp" /\ jobs[t] # <<>>
        /\ alone' = [u \in Threads |-> IF u = t THEN others = {}
                                       ELSE alone[u] /\ u \notin others]
        /\ UNCHANGED <<devicesVars, udVars, todo, devs, jobs, lud, qps, gids>>
    BY DEF TestUd
  <1>2. Busy(t)
    BY <1>1 DEF Busy
  <1>3. /\ Job1(t).dev \in Slots /\ Job1(t).kind \in Kinds
        /\ Current(t).channel \in Channels
    BY <1>1, <1>2, CallTypes
  <1>4. PICK s \in {"mask", "read"} :
          /\ step' = [step EXCEPT ![t] = s]
          /\ s = "mask" => UdEntry(t).allocated
          /\ s = "read" => ~UdEntry(t).allocated
    BY DEF TestUd, Go
  <1>5. /\ SetupInv' /\ step' \in [Threads -> Steps]
        /\ \A u \in Threads : /\ Job1(u)' = Job1(u) /\ Current(u)' = Current(u)
                              /\ u # t => step'[u] = step[u]
        /\ step'[t] = s /\ InCall(t)'
    BY <1>1, <1>2, <1>4, StepFrame DEF Steps
  <1>6. lud' \in [Threads -> Pipelines]
    BY <1>1 DEF PipelineInv, SetupTypeOK
  <1>7. alone' \in [Threads -> BOOLEAN]
    BY <1>1 DEF PipelineInv, SetupTypeOK
  <1>8. SetupTypeOK'
    BY <1>1, <1>5, <1>6, <1>7 DEF PipelineInv, SetupTypeOK, udVars
  <1>9. \A u \in Threads : alone'[u] => u = t \/ alone[u]
    BY <1>1
  <1>10. \A u \in Threads : u # t => (InCall(u)' <=> InCall(u))
    BY <1>5 DEF InCall
  <1>11. \A u, v \in Threads : Interfere(u, v)' <=> Interfere(u, v)
    BY <1>5 DEF Interfere
  <1>12. AloneInv'
    <2> SUFFICES ASSUME NEW u \in Threads, NEW v \in Threads, u # v,
                        InCall(u)', InCall(v)', Interfere(u, v)
                 PROVE  ~alone'[u] /\ ~alone'[v]
      BY <1>11 DEF AloneInv
    <2>1. CASE u = t
      <3>1. v \in others
        BY <1>10, <2>1
      <3> QED
        BY <1>1, <2>1, <3>1
    <2>2. CASE v = t
      <3>1. u \in others
        BY <1>10, <2>2, InterfereSymmetric
      <3> QED
        BY <1>1, <2>2, <3>1
    <2>3. CASE u # t /\ v # t
      <3>1. ~alone[u] /\ ~alone[v]
        BY <1>10, <2>3 DEF PipelineInv, AloneInv
      <3> QED
        BY <1>9, <2>3, <3>1
    <2> QED
      BY <2>1, <2>2, <2>3
  <1>13. CallInv'
    <2>1. \A u \in Threads : UdEntry(u)' = UdEntry(u) /\ udma_mask' = udma_mask
      BY <1>1, <1>5 DEF UdEntry, udVars
    <2> QED
      BY <1>4, <1>5, <1>9, <2>1 DEF PipelineInv, CallInv
  <1>14. QpInv'
    <2> SUFFICES ASSUME NEW q \in qps, q.alone
                 PROVE  /\ q.pipe = channel_ud[q.kind][q.channel].ud_id
                        /\ channel_ud[q.kind][q.channel].allocated
                        /\ \A u \in Threads : step'[u] \in {"read", "assign"} =>
                              ~(Job1(u).kind = q.kind /\ Current(u).channel = q.channel)
      BY <1>1, <1>5 DEF QpInv, udVars
    <2>1. /\ q.pipe = channel_ud[q.kind][q.channel].ud_id
          /\ channel_ud[q.kind][q.channel].allocated
          /\ \A u \in Threads : step[u] \in {"read", "assign"} =>
                ~(Job1(u).kind = q.kind /\ Current(u).channel = q.channel)
      BY DEF PipelineInv, QpInv
    <2>2. step'[t] = "read" => ~(Job1(t).kind = q.kind /\ Current(t).channel = q.channel)
      BY <1>4, <1>5, <2>1 DEF UdEntry
    <2> QED
      BY <1>5, <2>1, <2>2
  <1>15. DevicesInv' /\ CopyInv' /\ GidInv'
    BY <1>1, ElsewhereFrame
  <1> QED
    BY <1>5, <1>8, <1>12, <1>13, <1>14, <1>15 DEF PipelineInv

LEMMA ReadUdKeeps ==
    ASSUME StartupInv, NEW t \in Threads, ReadUd(t)
    PROVE  StartupInv'
  <1> USE DEF StartupInv
  <1>1. /\ step[t] = "read" /\ step' = [step EXCEPT ![t] = "assign"]
        /\ lud' = [lud EXCEPT ![t] = last_ud[Job1(t).kind][Job1(t).dev]]
        /\ UNCHANGED <<devicesVars, udVars, todo, devs, jobs, alone, qps, gids>>
    BY DEF ReadUd, Go
  <1>2. InCall(t)
    BY <1>1 DEF InCall
  <1>3. Busy(t) /\ jobs[t] # <<>> /\ Job1(t).kind \in Kinds /\ Job1(t).dev \in Slots
    BY <1>2, InCallTypes
  <1>4. /\ SetupInv' /\ step' \in [Threads -> Steps]
        /\ \A u \in Threads : /\ Job1(u)' = Job1(u) /\ Current(u)' = Current(u)
                              /\ u # t => step'[u] = step[u]
        /\ step'[t] = "assign"
    BY <1>1, <1>3, StepFrame DEF Steps
  <1>5. SetupTypeOK'
    <2>1. last_ud[Job1(t).kind][Job1(t).dev] \in Pipelines
      BY <1>3 DEF PipelineInv, SetupTypeOK
    <2>2. lud' \in [Threads -> Pipelines]
      BY <1>1, <2>1 DEF PipelineInv, SetupTypeOK
    <2> QED
      BY <1>1, <1>4, <2>2 DEF PipelineInv, SetupTypeOK, udVars
  <1>6. AloneInv'
    BY <1>1, <1>2, <1>4, AloneFrame
  <1>7. \A u \in Threads : UdEntry(u)' = UdEntry(u)
    BY <1>1, <1>4 DEF UdEntry, udVars
  <1>8. \A u \in Threads : /\ step'[u] \in {"mask", "create"} => step[u] = step'[u]
                           /\ step'[u] \in {"read", "assign"} => step[u] \in {"read", "assign"}
    BY <1>1, <1>4
  <1>9. CallInv'
    BY <1>1, <1>4, <1>7, <1>8 DEF PipelineInv, CallInv, udVars
  <1>10. QpInv'
    BY <1>1, <1>4, <1>8 DEF PipelineInv, QpInv, udVars
  <1>11. DevicesInv' /\ CopyInv' /\ GidInv'
    BY <1>1, ElsewhereFrame
  <1> QED
    BY <1>4, <1>5, <1>6, <1>9, <1>10, <1>11 DEF PipelineInv

\* The write of an entry's field.
Written(k, c, v) ==
    /\ channel_ud' \in [Kinds -> [Channels -> [ud_id : Pipelines, allocated : BOOLEAN]]]
    /\ channel_ud'[k][c] = v
    /\ \A j \in Kinds, d \in Channels :
          (j # k \/ d # c) => channel_ud'[j][d] = channel_ud[j][d]

LEMMA EntryWritten ==
    ASSUME SetupTypeOK, NEW k \in Kinds, NEW c \in Channels,
           NEW v \in [ud_id : Pipelines, allocated : BOOLEAN],
           channel_ud' = [channel_ud EXCEPT ![k][c] = v]
    PROVE  Written(k, c, v)
  BY DEF SetupTypeOK, Written

LEMMA AssignUdKeeps ==
    ASSUME StartupInv, NEW t \in Threads, AssignUd(t)
    PROVE  StartupInv'
  <1> USE DEF StartupInv
  <1>1. /\ step[t] = "assign" /\ step' = [step EXCEPT ![t] = "toggle"]
        /\ UNCHANGED <<devicesVars, last_ud, udma_mask, todo, devs, jobs, lud, alone, qps, gids>>
    BY DEF AssignUd, Go
  <1>2. InCall(t)
    BY <1>1 DEF InCall
  <1>3. /\ Busy(t) /\ jobs[t] # <<>>
        /\ Job1(t).kind \in Kinds /\ Current(t).channel \in Channels
    BY <1>2, InCallTypes
  <1>a. PICK k \in Kinds, c \in Channels : k = Job1(t).kind /\ c = Current(t).channel
    BY <1>3
  <1>4. /\ SetupInv' /\ step' \in [Threads -> Steps]
        /\ \A u \in Threads : /\ Job1(u)' = Job1(u) /\ Current(u)' = Current(u)
                              /\ u # t => step'[u] = step[u]
        /\ step'[t] = "toggle"
    BY <1>1, <1>3, StepFrame DEF Steps
  <1>5. PICK v \in [ud_id : Pipelines, allocated : BOOLEAN] :
            /\ channel_ud' = [channel_ud EXCEPT ![k][c] = v]
            /\ v.allocated = channel_ud[k][c].allocated
    <2> DEFINE e == channel_ud[k][c]
               v == [e EXCEPT !.ud_id = lud[t]]
    <2>1. e \in [ud_id : Pipelines, allocated : BOOLEAN] /\ lud[t] \in Pipelines
      BY DEF PipelineInv, SetupTypeOK
    <2>2. v \in [ud_id : Pipelines, allocated : BOOLEAN] /\ v.allocated = e.allocated
      <3> HIDE DEF e
      <3> QED
        BY <2>1
    <2>3. channel_ud' = [channel_ud EXCEPT ![k][c] = v]
      BY <1>a DEF AssignUd
    <2> HIDE DEF v
    <2> QED
      BY <2>2, <2>3
  <1>7. /\ channel_ud' \in [Kinds -> [Channels -> [ud_id : Pipelines,
                                                   allocated : BOOLEAN]]]
        /\ \A j \in Kinds, d \in Channels :
              /\ channel_ud'[j][d].allocated = channel_ud[j][d].allocated
              /\ (j # k \/ d # c) => channel_ud'[j][d] = channel_ud[j][d]
    <2>1. /\ channel_ud' \in [Kinds -> [Channels -> [ud_id : Pipelines,
                                                     allocated : BOOLEAN]]]
          /\ channel_ud'[k][c] = v
          /\ \A j \in Kinds, d \in Channels :
                (j # k \/ d # c) => channel_ud'[j][d] = channel_ud[j][d]
      <3>1. SetupTypeOK
        BY DEF PipelineInv
      <3>2. Written(k, c, v)
        BY <1>5, <3>1, EntryWritten
      <3> QED
        BY <3>2 DEF Written
    <2>2. ASSUME NEW j \in Kinds, NEW d \in Channels
          PROVE  channel_ud'[j][d].allocated = channel_ud[j][d].allocated
      <3>1. CASE j = k /\ d = c
        BY <1>5, <2>1, <3>1
      <3>2. CASE j # k \/ d # c
        BY <2>1, <3>2
      <3> QED
        BY <3>1, <3>2
    <2> QED
      BY <2>1, <2>2
  <1>8. SetupTypeOK'
    BY <1>1, <1>4, <1>7 DEF PipelineInv, SetupTypeOK
  <1>9. AloneInv'
    BY <1>1, <1>2, <1>4, AloneFrame
  <1>10. CallInv'
    <2> SUFFICES ASSUME NEW u \in Threads, step'[u] \in {"mask", "create"}
                 PROVE  /\ UdEntry(u)'.allocated
                        /\ (step'[u] = "create" /\ alone[u]) =>
                              udma_mask[Job1(u).dev] = UdEntry(u)'.ud_id
      BY <1>1, <1>4 DEF CallInv
    <2>1. u # t /\ step[u] = step'[u] /\ InCall(u)
      BY <1>4 DEF InCall
    <2>2. Job1(u).kind \in Kinds /\ Current(u).channel \in Channels
      BY <2>1, InCallTypes
    <2>3. UdEntry(u)' = channel_ud'[Job1(u).kind][Current(u).channel]
      BY <1>4 DEF UdEntry
    <2>4. UdEntry(u)'.allocated
      BY <1>7, <2>1, <2>2, <2>3 DEF PipelineInv, CallInv, UdEntry
    <2>5. ASSUME step'[u] = "create", alone[u]
          PROVE  udma_mask[Job1(u).dev] = UdEntry(u)'.ud_id
      <3>1. ~Interfere(u, t)
        BY <1>2, <2>1, <2>5 DEF PipelineInv, AloneInv
      <3>2. Job1(u).kind # k \/ Current(u).channel # c
        BY <1>a, <3>1 DEF Interfere
      <3> QED
        BY <1>7, <2>1, <2>2, <2>3, <2>5, <3>2 DEF PipelineInv, CallInv, UdEntry
    <2> QED
      BY <2>4, <2>5
  <1>11. QpInv'
    <2> SUFFICES ASSUME NEW q \in qps, q.alone
                 PROVE  /\ channel_ud'[q.kind][q.channel] = channel_ud[q.kind][q.channel]
                        /\ \A u \in Threads : step'[u] \in {"read", "assign"} => step[u] \in {"read", "assign"}
      <3>1. qps' = qps
        BY <1>1
      <3>2. \A u \in Threads : Job1(u)' = Job1(u) /\ Current(u)' = Current(u)
        BY <1>4
      <3> QED
        BY <3>1, <3>2 DEF PipelineInv, QpInv
    <2>1. q.kind \in Kinds /\ q.channel \in Channels
      BY DEF PipelineInv, SetupTypeOK
    <2>2. q.kind # k \/ q.channel # c
      BY <1>1, <1>a DEF PipelineInv, QpInv
    <2> QED
      BY <1>4, <1>7, <2>1, <2>2
  <1>12. DevicesInv' /\ CopyInv' /\ GidInv'
    BY <1>1, ElsewhereFrame
  <1> QED
    BY <1>4, <1>8, <1>9, <1>10, <1>11, <1>12 DEF PipelineInv

LEMMA ToggleUdKeeps ==
    ASSUME StartupInv, NEW t \in Threads, ToggleUd(t)
    PROVE  StartupInv'
  <1> USE DEF StartupInv
  <1>1. /\ step[t] = "toggle" /\ step' = [step EXCEPT ![t] = "mark"]
        /\ last_ud' = [last_ud EXCEPT ![Job1(t).kind][Job1(t).dev] = Other(@)]
        /\ UNCHANGED <<devicesVars, channel_ud, udma_mask, todo, devs, jobs, lud, alone, qps, gids>>
    BY DEF ToggleUd, Go
  <1>2. InCall(t)
    BY <1>1 DEF InCall
  <1>3. Busy(t) /\ jobs[t] # <<>> /\ Job1(t).kind \in Kinds /\ Job1(t).dev \in Slots
    BY <1>2, InCallTypes
  <1>4. /\ SetupInv' /\ step' \in [Threads -> Steps]
        /\ \A u \in Threads : /\ Job1(u)' = Job1(u) /\ Current(u)' = Current(u)
                              /\ u # t => step'[u] = step[u]
        /\ step'[t] = "mark"
    BY <1>1, <1>3, StepFrame DEF Steps
  <1>5. SetupTypeOK'
    <2>1. \A p \in Pipelines : Other(p) \in Pipelines
      BY DEF Other, Pipelines
    <2>2. last_ud' \in [Kinds -> [Slots -> Pipelines]]
      BY <1>1, <1>3, <2>1 DEF PipelineInv, SetupTypeOK
    <2> QED
      BY <1>1, <1>4, <2>2 DEF PipelineInv, SetupTypeOK
  <1>6. AloneInv'
    BY <1>1, <1>2, <1>4, AloneFrame
  <1>7. \A u \in Threads : UdEntry(u)' = UdEntry(u)
    BY <1>1, <1>4 DEF UdEntry
  <1>8. \A u \in Threads : step'[u] \in {"mask", "create", "read", "assign"} => step[u] = step'[u]
    BY <1>4
  <1>9. CallInv'
    BY <1>1, <1>4, <1>7, <1>8 DEF PipelineInv, CallInv
  <1>10. QpInv'
    BY <1>1, <1>4, <1>8 DEF PipelineInv, QpInv
  <1>11. DevicesInv' /\ CopyInv' /\ GidInv'
    BY <1>1, ElsewhereFrame
  <1> QED
    BY <1>4, <1>5, <1>6, <1>9, <1>10, <1>11 DEF PipelineInv

LEMMA MarkUdKeeps ==
    ASSUME StartupInv, NEW t \in Threads, MarkUd(t)
    PROVE  StartupInv'
  <1> USE DEF StartupInv
  <1>1. /\ step[t] = "mark" /\ step' = [step EXCEPT ![t] = "mask"]
        /\ UNCHANGED <<devicesVars, last_ud, udma_mask, todo, devs, jobs, lud, alone, qps, gids>>
    BY DEF MarkUd, Go
  <1>2. InCall(t)
    BY <1>1 DEF InCall
  <1>3. /\ Busy(t) /\ jobs[t] # <<>>
        /\ Job1(t).kind \in Kinds /\ Current(t).channel \in Channels
    BY <1>2, InCallTypes
  <1>4. PICK k \in Kinds, c \in Channels : k = Job1(t).kind /\ c = Current(t).channel
    BY <1>3
  <1>5. /\ SetupInv' /\ step' \in [Threads -> Steps]
        /\ \A u \in Threads : /\ Job1(u)' = Job1(u) /\ Current(u)' = Current(u)
                              /\ u # t => step'[u] = step[u]
        /\ step'[t] = "mask"
    BY <1>1, <1>3, StepFrame DEF Steps
  <1>6. PICK v \in [ud_id : Pipelines, allocated : BOOLEAN] :
            /\ channel_ud' = [channel_ud EXCEPT ![k][c] = v]
            /\ v.ud_id = channel_ud[k][c].ud_id /\ v.allocated = TRUE
    <2> DEFINE e == channel_ud[k][c]
               v == [e EXCEPT !.allocated = TRUE]
    <2>1. e \in [ud_id : Pipelines, allocated : BOOLEAN]
      BY DEF PipelineInv, SetupTypeOK
    <2>2. v \in [ud_id : Pipelines, allocated : BOOLEAN] /\ v.ud_id = e.ud_id /\ v.allocated = TRUE
      <3> HIDE DEF e
      <3> QED
        BY <2>1
    <2>3. channel_ud' = [channel_ud EXCEPT ![k][c] = v]
      BY <1>4 DEF MarkUd, Marked
    <2> HIDE DEF v
    <2> QED
      BY <2>2, <2>3
  <1>7. /\ channel_ud' \in [Kinds -> [Channels -> [ud_id : Pipelines,
                                                   allocated : BOOLEAN]]]
        /\ channel_ud'[k][c] = v
        /\ \A j \in Kinds, d \in Channels :
              (j # k \/ d # c) => channel_ud'[j][d] = channel_ud[j][d]
    <2>1. channel_ud' = [channel_ud EXCEPT ![k][c] = v]
      BY <1>6
    <2>2. SetupTypeOK
      BY DEF PipelineInv
    <2>3. Written(k, c, v)
      BY <2>1, <2>2, EntryWritten
    <2> QED
      BY <2>3 DEF Written
  <1>8. \A j \in Kinds, d \in Channels :
            /\ channel_ud'[j][d].ud_id = channel_ud[j][d].ud_id
            /\ channel_ud[j][d].allocated => channel_ud'[j][d].allocated
    <2> SUFFICES ASSUME NEW j \in Kinds, NEW d \in Channels
                 PROVE  /\ channel_ud'[j][d].ud_id = channel_ud[j][d].ud_id
                        /\ channel_ud[j][d].allocated => channel_ud'[j][d].allocated
      OBVIOUS
    <2>1. CASE j = k /\ d = c
      BY <1>6, <1>7, <2>1
    <2>2. CASE j # k \/ d # c
      BY <1>7, <2>2
    <2> QED
      BY <2>1, <2>2
  <1>9. SetupTypeOK'
    BY <1>1, <1>5, <1>7 DEF PipelineInv, SetupTypeOK
  <1>10. AloneInv'
    BY <1>1, <1>2, <1>5, AloneFrame
  <1>11. CallInv'
    <2> SUFFICES ASSUME NEW u \in Threads, step'[u] \in {"mask", "create"}
                 PROVE  /\ UdEntry(u)'.allocated
                        /\ (step'[u] = "create" /\ alone[u]) =>
                              udma_mask[Job1(u).dev] = UdEntry(u)'.ud_id
      BY <1>1, <1>5 DEF CallInv
    <2>1. UdEntry(u)' = channel_ud'[Job1(u).kind][Current(u).channel]
      BY <1>5 DEF UdEntry
    <2>2. CASE u = t
      BY <1>4, <1>5, <1>6, <1>7, <2>1, <2>2
    <2>3. CASE u # t
      <3>1. step[u] = step'[u] /\ InCall(u)
        BY <1>5, <2>3 DEF InCall
      <3>2. Job1(u).kind \in Kinds /\ Current(u).channel \in Channels
        BY <3>1, InCallTypes
      <3>3. /\ UdEntry(u).allocated
            /\ (step[u] = "create" /\ alone[u]) => udma_mask[Job1(u).dev] = UdEntry(u).ud_id
        BY <3>1 DEF PipelineInv, CallInv
      <3> QED
        BY <1>8, <2>1, <3>1, <3>2, <3>3 DEF UdEntry
    <2> QED
      BY <2>2, <2>3
  <1>12. QpInv'
    <2> SUFFICES ASSUME NEW q \in qps, q.alone
                 PROVE  /\ q.pipe = channel_ud'[q.kind][q.channel].ud_id
                        /\ channel_ud'[q.kind][q.channel].allocated
                        /\ \A u \in Threads : step'[u] \in {"read", "assign"} =>
                              ~(Job1(u).kind = q.kind /\ Current(u).channel = q.channel)
      BY <1>1, <1>5 DEF QpInv
    <2>1. q.kind \in Kinds /\ q.channel \in Channels
      BY DEF PipelineInv, SetupTypeOK
    <2>2. \A u \in Threads : step'[u] \in {"read", "assign"} => step[u] \in {"read", "assign"}
      BY <1>5
    <2> QED
      BY <1>8, <2>1, <2>2 DEF PipelineInv, QpInv
  <1>13. DevicesInv' /\ CopyInv' /\ GidInv'
    BY <1>1, ElsewhereFrame
  <1> QED
    BY <1>5, <1>9, <1>10, <1>11, <1>12, <1>13 DEF PipelineInv

LEMMA SetMaskKeeps ==
    ASSUME StartupInv, NEW t \in Threads, SetMask(t)
    PROVE  StartupInv'
  <1> USE DEF StartupInv
  <1>1. /\ step[t] = "mask" /\ step' = [step EXCEPT ![t] = "create"]
        /\ udma_mask' = [udma_mask EXCEPT ![Job1(t).dev] = UdEntry(t).ud_id]
        /\ UNCHANGED <<devicesVars, channel_ud, last_ud, todo, devs, jobs, lud, alone, qps, gids>>
    BY DEF SetMask, Go
  <1>2. InCall(t)
    BY <1>1 DEF InCall
  <1>3. /\ Busy(t) /\ jobs[t] # <<>> /\ Job1(t).dev \in Slots
        /\ Job1(t).kind \in Kinds /\ Current(t).channel \in Channels
    BY <1>2, InCallTypes
  <1>4. /\ SetupInv' /\ step' \in [Threads -> Steps]
        /\ \A u \in Threads : /\ Job1(u)' = Job1(u) /\ Current(u)' = Current(u)
                              /\ u # t => step'[u] = step[u]
        /\ step'[t] = "create"
    BY <1>1, <1>3, StepFrame DEF Steps
  <1>5. UdEntry(t).ud_id \in Pipelines /\ udma_mask \in [Slots -> Pipelines]
    BY <1>3 DEF UdEntry, PipelineInv, SetupTypeOK
  <1>6. SetupTypeOK'
    BY <1>1, <1>4, <1>5 DEF PipelineInv, SetupTypeOK
  <1>7. AloneInv'
    BY <1>1, <1>2, <1>4, AloneFrame
  <1>8. \A u \in Threads : UdEntry(u)' = UdEntry(u)
    BY <1>1, <1>4 DEF UdEntry
  <1>9. CallInv'
    <2> SUFFICES ASSUME NEW u \in Threads, step'[u] \in {"mask", "create"}
                 PROVE  /\ UdEntry(u).allocated
                        /\ (step'[u] = "create" /\ alone[u]) =>
                              udma_mask'[Job1(u).dev] = UdEntry(u).ud_id
      BY <1>1, <1>4, <1>8 DEF CallInv
    <2>1. CASE u = t
      BY <1>1, <1>3, <1>5, <2>1 DEF PipelineInv, CallInv
    <2>2. CASE u # t
      <3>1. step[u] = step'[u] /\ InCall(u)
        BY <1>4, <2>2 DEF InCall
      <3>2. Job1(u).dev \in Slots
        BY <3>1, InCallTypes
      <3>3. alone[u] => Job1(u).dev # Job1(t).dev
        BY <1>2, <2>2, <3>1 DEF PipelineInv, AloneInv, Interfere
      <3>4. alone[u] => udma_mask'[Job1(u).dev] = udma_mask[Job1(u).dev]
        BY <1>1, <1>5, <3>2, <3>3
      <3> QED
        BY <3>1, <3>4 DEF PipelineInv, CallInv
    <2> QED
      BY <2>1, <2>2
  <1>10. QpInv'
    <2>1. \A u \in Threads : step'[u] \in {"read", "assign"} => step[u] \in {"read", "assign"}
      BY <1>4
    <2> QED
      BY <1>1, <1>4, <2>1 DEF PipelineInv, QpInv
  <1>11. DevicesInv' /\ CopyInv' /\ GidInv'
    BY <1>1, ElsewhereFrame
  <1> QED
    BY <1>4, <1>6, <1>7, <1>9, <1>10, <1>11 DEF PipelineInv

\* The end of a call of ncclIbCreateQp, with a QP or without.
LEMMA CallEnds ==
    ASSUME PipelineInv, NEW t \in Threads, NEW s \in {"qp", "failed"}, NEW js \in Seq(Job),
           step[t] = "create", step' = [step EXCEPT ![t] = s],
           qps' \in {qps, qps \cup {NewQp(t)}}, jobs' = [jobs EXCEPT ![t] = js],
           UNCHANGED <<udVars, todo, devs, lud, alone, gids>>
    PROVE  PipelineInv'
  <1>1. qps' \subseteq qps \cup {NewQp(t)}
    OBVIOUS
  <1>2. InCall(t)
    BY DEF InCall
  <1>3. /\ Busy(t) /\ jobs[t] # <<>> /\ Job1(t).dev \in Slots
        /\ Job1(t).kind \in Kinds /\ Current(t).channel \in Channels
    BY <1>2, InCallTypes
  <1>4. step \in [Threads -> Steps] /\ jobs \in [Threads -> Seq(Job)]
    BY DEF PipelineInv, SetupTypeOK
  <1>5. /\ step'[t] = s /\ ~InCall(t)'
        /\ \A u \in Threads : /\ Current(u)' = Current(u)
                              /\ u # t => step'[u] = step[u] /\ Job1(u)' = Job1(u)
                              /\ u # t => jobs'[u] = jobs[u]
    BY <1>4 DEF InCall, Current, Job1
  <1>6. /\ NewQp(t) \in [thread : Threads, n : Nat, dev : Slots, channel : Channels,
                         kind : Kinds, pipe : Pipelines, alone : BOOLEAN]
        /\ NewQp(t).alone = alone[t] /\ NewQp(t).pipe = udma_mask[Job1(t).dev]
        /\ NewQp(t).kind = Job1(t).kind /\ NewQp(t).channel = Current(t).channel
    <2> DEFINE c == Cardinality({q \in qps : q.thread = t})
    <2>1. c \in Nat
      <3>1. IsFiniteSet({q \in qps : q.thread = t})
        BY FS_Subset DEF PipelineInv, SetupTypeOK
      <3> QED
        BY <3>1, FS_CardinalityType
    <2>2. udma_mask[Job1(t).dev] \in Pipelines /\ alone[t] \in BOOLEAN
      BY <1>3 DEF PipelineInv, SetupTypeOK
    <2> HIDE DEF c
    <2>3. NewQp(t) = [thread |-> t, n |-> c, dev |-> Job1(t).dev,
                      channel |-> Current(t).channel, kind |-> Job1(t).kind,
                      pipe |-> udma_mask[Job1(t).dev], alone |-> alone[t]]
      BY DEF NewQp, c
    <2> QED
      BY <1>3, <2>1, <2>2, <2>3
  <1>7. SetupTypeOK'
    <2>2. jobs' \in [Threads -> Seq(Job)]
      BY <1>4
    <2>3. step' \in [Threads -> Steps]
      BY <1>4 DEF Steps
    <2>4. IsFiniteSet(qps')
      <3>1. IsFiniteSet(qps)
        BY DEF PipelineInv, SetupTypeOK
      <3>2. IsFiniteSet(qps \cup {NewQp(t)})
        BY <3>1, FS_AddElement
      <3> QED
        BY <3>1, <3>2
    <2> QED
      BY <1>1, <1>6, <2>2, <2>3, <2>4 DEF PipelineInv, SetupTypeOK, udVars
  <1>8. SetupInv'
    <2>1. \A u \in Threads : Busy(u)' => Busy(u)
      BY <1>1, <1>5 DEF Busy
    <2>2. \A u \in Threads : InCall(u)' => InCall(u) /\ jobs'[u] = jobs[u]
      BY <1>5 DEF InCall
    <2> QED
      BY <1>1, <2>1, <2>2 DEF PipelineInv, SetupInv
  <1>9. \A u \in Threads : InCall(u)' => u # t /\ InCall(u)
    BY <1>5 DEF InCall
  <1>10. AloneInv'
    BY <1>1, <1>5, <1>9 DEF PipelineInv, AloneInv, Interfere
  <1>11. CallInv'
    <2>1. \A u \in Threads : step'[u] \in {"mask", "create"} => u # t
      BY <1>5
    <2>2. \A u \in Threads : u # t => UdEntry(u)' = UdEntry(u)
      BY <1>1, <1>5 DEF UdEntry, udVars
    <2> QED
      BY <1>1, <1>5, <2>1, <2>2 DEF PipelineInv, CallInv, udVars
  <1>12. QpInv'
    <2> SUFFICES ASSUME NEW q \in qps \cup {NewQp(t)}, q.alone
                 PROVE  /\ q.pipe = channel_ud[q.kind][q.channel].ud_id
                        /\ channel_ud[q.kind][q.channel].allocated
                        /\ \A u \in Threads : (u # t /\ step[u] \in {"read", "assign"}) =>
                              ~(Job1(u).kind = q.kind /\ Current(u).channel = q.channel)
      <3>1. \A u \in Threads : step'[u] \in {"read", "assign"} => /\ u # t /\ step[u] \in {"read", "assign"}
                                                      /\ Job1(u)' = Job1(u)
                                                      /\ Current(u)' = Current(u)
        BY <1>5
      <3> QED
        BY <1>1, <3>1 DEF QpInv, udVars
    <2>1. CASE q \in qps
      BY <2>1 DEF PipelineInv, QpInv
    <2>2. CASE q = NewQp(t)
      <3>1. /\ alone[t] /\ q.pipe = udma_mask[Job1(t).dev]
            /\ channel_ud[q.kind][q.channel] = UdEntry(t)
        BY <1>6, <2>2 DEF UdEntry
      <3>2. UdEntry(t).allocated /\ udma_mask[Job1(t).dev] = UdEntry(t).ud_id
        BY <1>1, <3>1 DEF PipelineInv, CallInv
      <3>3. ASSUME NEW u \in Threads, u # t, step[u] \in {"read", "assign"}
            PROVE  ~(Job1(u).kind = q.kind /\ Current(u).channel = q.channel)
        <4>1. InCall(u)
          BY <3>3 DEF InCall
        <4>2. ~Interfere(t, u)
          BY <1>2, <3>1, <3>3, <4>1 DEF PipelineInv, AloneInv
        <4> QED
          BY <1>6, <2>2, <4>2 DEF Interfere
      <3> QED
        BY <3>1, <3>2, <3>3
    <2> QED
      BY <2>1, <2>2
  <1> QED
    BY <1>7, <1>8, <1>10, <1>11, <1>12 DEF PipelineInv

LEMMA CreateQpKeeps ==
    ASSUME StartupInv, NEW t \in Threads, CreateQp(t)
    PROVE  StartupInv'
  <1>1. /\ step[t] = "create" /\ step' = [step EXCEPT ![t] = "qp"]
        /\ qps' = qps \cup {NewQp(t)}
        /\ jobs' = [jobs EXCEPT ![t] = Tail(@)]
        /\ UNCHANGED <<devicesVars, udVars, todo, devs, lud, alone, gids>>
    BY DEF CreateQp, Go
  <1>2. jobs[t] # <<>> /\ jobs \in [Threads -> Seq(Job)] /\ InCall(t)
    BY <1>1 DEF StartupInv, PipelineInv, SetupTypeOK, SetupInv, InCall
  <1>3. PICK js \in Seq(Job) : js = Tail(jobs[t])
    BY <1>2, HeadTailProperties
  <1>4. PipelineInv'
    BY <1>1, <1>3, CallEnds DEF StartupInv
  <1>5. DevicesInv' /\ CopyInv' /\ GidInv'
    BY <1>1, ElsewhereFrame
  <1> QED
    BY <1>4, <1>5 DEF StartupInv

LEMMA CreateQpFailsKeeps ==
    ASSUME StartupInv, NEW t \in Threads, CreateQpFails(t)
    PROVE  StartupInv' /\ UNCHANGED <<host, listVars, walk>> /\ Where' = Where
  <1>1. /\ step[t] = "create" /\ step' = [step EXCEPT ![t] = "failed"]
        /\ qps' \in {qps, qps \cup {NewQp(t)}} /\ InjectFault
        /\ UNCHANGED <<host, ncclIbLock, listVars, walk, contexts, pc, met, ndev>>
        /\ UNCHANGED <<udVars, todo, devs, lud, alone, gids>> /\ jobs' = jobs
    BY DEF CreateQpFails, Go
  <1>2. PICK js \in Seq(Job) : js = jobs[t]
    BY DEF StartupInv, PipelineInv, SetupTypeOK
  <1>3. jobs' = [jobs EXCEPT ![t] = js]
    BY <1>1, <1>2 DEF StartupInv, PipelineInv, SetupTypeOK
  <1>4. PipelineInv'
    BY <1>1, <1>3, CallEnds DEF StartupInv
  <1>5. faults' \in 0 .. MaxFaults
    BY <1>1, InjectFaultType DEF StartupInv, DevicesInv
  <1>6. DevicesInv' /\ Where' = Where
    BY <1>1, <1>5, DevicesFrame DEF StartupInv
  <1>7. CopyInv'
    BY <1>1, CopyFrame DEF StartupInv, listVars
  <1>8. GidInv'
    BY <1>1 DEF StartupInv, GidInv
  <1> QED
    BY <1>1, <1>4, <1>6, <1>7, <1>8 DEF StartupInv

LEMMA NextStartupInv ==
    ASSUME StartupInv, [Next]_vars
    PROVE  StartupInv'
  <1>1. CASE DevicesNext /\ UNCHANGED startupVars
    BY <1>1, DevicesStepKeeps
  <1>2. ASSUME NEW t \in Threads,
               \/ Begin(t) \/ ChooseGids(t)
               \/ TestUd(t) \/ ReadUd(t) \/ AssignUd(t) \/ ToggleUd(t) \/ MarkUd(t)
               \/ SetMask(t) \/ CreateQp(t) \/ CreateQpFails(t) \/ EndQps(t)
        PROVE  StartupInv'
    BY <1>2, BeginKeeps, ChooseGidsKeeps, TestUdKeeps, ReadUdKeeps, AssignUdKeeps,
       ToggleUdKeeps, MarkUdKeeps, SetMaskKeeps, CreateQpKeeps, CreateQpFailsKeeps, EndQpsKeeps
  <1>3. CASE UNCHANGED vars
    <2>1. UNCHANGED devicesVars /\ UNCHANGED startupVars
      BY <1>3 DEF vars
    <2>2. DevicesInv' /\ CopyInv' /\ GidInv'
      BY <2>1, ElsewhereFrame DEF startupVars
    <2>3. PipelineInv'
      BY <2>1, PipelineFrame DEF StartupInv
    <2> QED
      BY <2>2, <2>3 DEF StartupInv
  <1> QED
    BY <1>1, <1>2, <1>3 DEF Next

\* The invariant all theorems of this module rest on.
LEMMA StartupInvariance == Spec => []StartupInv
  <1>1. Init => StartupInv
    BY InitStartupInv
  <1>2. StartupInv /\ [Next]_vars => StartupInv'
    BY NextStartupInv
  <1> QED
    BY <1>1, <1>2, PTL DEF Spec

\* Every variable has its type: the counters of anpNetInit stay within the
\* arrays of the model, no merged device has more members than devs of
\* ncclIbMergedDev holds, and what ncclIbCreateQp indexes is in range.
THEOREM StartupTyped == Spec => []TypeOK
  <1>1. StartupInv => TypeOK
    BY DEF StartupInv, DevicesInv, PipelineInv, SetupTypeOK, TypeOK
  <1> QED
    BY <1>1, StartupInvariance, PTL

\* In anpNetInit every entry a caller can reach has an open context, in both
\* passes of a rebuild and whatever fails; and with one port per device the
\* list stays within MAX_IB_DEVS entries.
THEOREM EntriesAreValid == Spec => []EntriesValid
  <1>1. StartupInv => EntriesValid
    BY DEF StartupInv, DevicesInv, CountInv, EntryInv, EntriesValid
  <1> QED
    BY <1>1, StartupInvariance, PTL

\* A QP that ncclIbCreateQp made without interference of another call is on the
\* pipeline the table has for its channel, then and later, however many
\* threads create QPs on the same protection domain.
THEOREM QpsOnTheirPipeline == Spec => []QpOnChannelPipeline
  <1>1. StartupInv => QpOnChannelPipeline
    BY DEF StartupInv, PipelineInv, QpInv, QpOnChannelPipeline
  <1> QED
    BY <1>1, StartupInvariance, PTL

\* On Ethernet with the search asked for, ncclIbGetGidIndex ends at the first
\* usable GID, for tables of every length, unless it returns an error, entry 0
\* is good enough but for the range, or sysfs has no version for an entry
\* before it.
THEOREM GidsFirstUsable == Spec => []GidFirstUsable
  <1>1. ASSUME StartupInv PROVE GidFirstUsable
    <2> SUFFICES ASSUME NEW g \in gids,
                        g.link = "RoCE", host.gid.index < 0, g.index # GidError,
                        ~Settled(Entry(g.table, 0), host.gid),
                        \E i \in 1 .. Len(g.table) - 1 : FirstUsable(g.table, host.gid, i)
                 PROVE  FirstUsable(g.table, host.gid, g.index)
      BY DEF GidFirstUsable
    <2>1. g.table \in Seq(Gid)
      BY <1>1 DEF StartupInv, PipelineInv, SetupTypeOK
    <2>2. host.gid \in UserGid /\ host.gid.index \in Int
      BY <1>1 DEF StartupInv, DevicesInv, DevicesTypeOK, Host, UserGid
    <2>3. g.index \in GetGidIndex(g.link, g.table, host.gid)
      BY <1>1 DEF StartupInv, GidInv
    <2>4. g.index \in SearchGidIndex(g.table, host.gid)
      BY <2>2, <2>3 DEF GetGidIndex
    <2> QED
      BY <2>1, <2>2, <2>4, GidSearchCorrect
  <1> QED
    BY <1>1, StartupInvariance, PTL

\* What the steps of the set-up do to the lists: nothing.
LEMMA SetupLists ==
    ASSUME StartupInv, [Next]_vars
    PROVE  DevicesNext \/ (UNCHANGED <<listVars, walk>> /\ Where' = Where)
  <1>1. CASE \E t \in Threads : CreateQpFails(t)
    BY <1>1, CreateQpFailsKeeps
  <1>2. CASE UNCHANGED devicesVars
    <2>1. Where' = Where
      BY <1>2, ElsewhereFrame
    <2> QED
      BY <1>2, <2>1 DEF devicesVars
  <1>3. DevicesNext \/ UNCHANGED devicesVars \/ \E t \in Threads : CreateQpFails(t)
    BY DEF Next, vars, Begin, ChooseGids, TestUd, ReadUd, AssignUd, ToggleUd, MarkUd, SetMask,
           CreateQp, EndQps
  <1> QED
    BY <1>1, <1>2, <1>3

\* Callers that read the lists of anpNetInit without the lock: at every moment,
\* between any two writes of the discovery and of a rebuild, every merged
\* device that is counted is made of entries of one NIC with open contexts,
\* shares none with another and has the speed of its members but for at most
\* the last; and but for the moments between the writes that add a port, and
\* the first of a rebuild, the two lists describe the same ports with the same
\* speed, for every host and limit.
THEOREM MergedDevicesSound == Spec => []MergedSound
  <1>1. Init => SoundInv
    BY InitSound DEF Init
  <1>2. StartupInv /\ SoundInv /\ [Next]_vars => SoundInv'
    <2> SUFFICES ASSUME StartupInv, SoundInv, [Next]_vars PROVE SoundInv'
      OBVIOUS
    <2>1. CASE DevicesNext
      BY <2>1, NextSound DEF StartupInv
    <2>2. CASE UNCHANGED <<listVars, walk>> /\ Where' = Where
      BY <2>2, PlainSound DEF StartupInv
    <2> QED
      BY <2>1, <2>2, SetupLists
  <1>3. StartupInv /\ SoundInv => MergedSound
    BY SoundIs DEF StartupInv
  <1> QED
    BY <1>1, <1>2, <1>3, StartupInvariance, PTL DEF Spec

-----------------------------------------------------------------------------
(* Whoever does not call during the discovery is told of all devices *)

\* The merged devices can be counted on: not before the first count is reset,
\* nor while the list that a rebuild gives up is still counted.
Counted == ncclNIbDevs # -1 /\ Where \notin {"begin", "remerge"}

\* The usable ports that were listed or passed over in this pass.
Seen == {x \in UsablePorts :
            \/ x[1] < walk.d
            \/ /\ Where \in InLoop /\ x[1] = walk.d
               /\ x[2] < walk.port \/ (Where \in Joined /\ x[2] = walk.port)}
SeenOf(c) == {x \in Seen : Nic(x) = c}

\* The NIC of an entry, and how many entries the merged devices have, all or
\* those of one NIC.
NicOf(e) == [path |-> e.pciPath, guid |-> e.guid, link |-> e.link]
Size(m) == Len(Before(m))
Sizes == [m \in Slots |-> Size(m)]
SizesOf(c) == [m \in Slots |-> IF m < ncclNMergedIbDevs /\ NicOf(First(m)) = c
                               THEN Size(m) ELSE 0]

\* Merged devices are filled one after the other: no two of a NIC have room.
FilledInOrder ==
    \A m, o \in 0 .. ncclNMergedIbDevs - 1 :
        (m # o /\ NicOf(First(m)) = NicOf(First(o))) => ~(HasRoom(m) /\ HasRoom(o))
FillInv ==
    /\ Counted => SumOver(Sizes, Slots) = Listed
    /\ walk.mergeNics <=> MergeNics /\ walk.pass = 1
    /\ (Counted /\ ~walk.mergeNics) => ncclNMergedIbDevs = Listed
    /\ (Counted /\ walk.mergeNics) => FilledInOrder
    /\ Where = "remerge" => walk.d = 1

\* Without a failure every port that was passed has an entry, and a merged
\* device of its NIC.
SeenInv ==
    (faults = 0 /\ Counted) =>
        /\ Cardinality(Seen) = Listed
        /\ \A c : SumOver(SizesOf(c), Slots) = Cardinality(SeenOf(c))

\* How many ports a merged device gets if all get the same number.
PortCounts == {Cardinality(PortsOfNic(x)) : x \in UsablePorts}
EvenSizes == {k \in 1 .. MaxDevsPerNic :
                 \/ k = MaxDevsPerNic /\ \A s \in PortCounts : s % k = 0
                 \/ PortCounts = {k}}

\* The discovery is over.
Over == ncclNIbDevs # -1 /\ Where \in {"out", "summary"}

\* What it comes to, if nothing fails and all ports fit.
AllFit == faults = 0 /\ Cardinality(UsablePorts) <= MaxIbDevs
ResultInv ==
    /\ (AllFit /\ walk.pass = 2) => EvenSizes = {}
    /\ (AllFit /\ Over) => ncclNMergedIbDevs = ExpectedDevices
    /\ \A t \in Threads : (pc[t] = "ok" /\ met[t] # "during") => Over
    /\ Where = "fail" => faults > 0
    /\ CallersSeeAll

SeeAllInv == FillInv /\ SeenInv /\ ResultInv

LEMMA Multiples ==
    ASSUME NEW K \in Nat \ {0}, NEW j \in Nat, NEW r \in Nat, r < K
    PROVE  /\ j * K \in Nat /\ (j > 0 => j * K >= K)
           /\ (j * K + r) % K = 0 <=> r = 0
           /\ (j * K) \div K = j
  <1> DEFINE n == j * K + r
             q == n \div K
             e == n % K
  <1>1. j * K \in Nat /\ (j > 0 => j * K >= K)
    OBVIOUS
  <1>2. n \in Nat
    BY <1>1
  <1>3. q \in Int /\ e \in Nat /\ e < K /\ n = K * q + e
    <2> HIDE DEF n
    <2> QED
      BY <1>2
  <1>4. (q - j) * K = r - e
    <2> HIDE DEF q, e
    <2>1. K * q + e = j * K + r
      BY <1>3
    <2>2. (q - j) * K = K * q - j * K
      BY <1>3
    <2> QED
      BY <1>1, <1>3, <2>1, <2>2
  <1>5. q - j \in Int
    BY <1>3
  <1> HIDE DEF q, e, n
  <1>6. PICK i \in Int : i = q - j
    BY <1>5
  <1>7. i * K = r - e
    BY <1>4, <1>6
  <1>8. i = 0
    <2>1. i >= 1 => i * K >= K
      OBVIOUS
    <2>2. i <= -1 => i * K <= -K
      OBVIOUS
    <2> QED
      BY <1>3, <1>7, <2>1, <2>2
  <1>9. r = e /\ q = j
    <2>1. i * K = 0
      BY <1>8
    <2> QED
      BY <1>3, <1>6, <1>7, <1>8, <2>1
  <1>10. r = 0 => n = j * K
    BY <1>1 DEF n
  <1>11. (j * K + r) % K = 0 <=> r = 0
    BY <1>9 DEF n, e
  <1> QED
    BY <1>1, <1>11

\* The merged devices C have sizes f, K at most and s together.
SizesAdd(s, K, C, f) ==
    /\ s \in Nat
    /\ C # {} <=> s > 0
    /\ \A m \in C : s % K = 0 => f[m] = K
    /\ \A m \in C : s <= K => f[m] = s
    /\ (\A m \in C : f[m] = K) => s % K = 0
    /\ \A k \in 1 .. K - 1 : ((\A m \in C : f[m] = k) /\ C # {}) => s = k

\* The merged devices C of one NIC, f their sizes: all but one are full.
LEMMA NicSizes ==
    ASSUME NEW S, IsFiniteSet(S), NEW K \in Nat \ {0}, NEW C \in SUBSET S, NEW f,
           \A m \in C : f[m] \in 1 .. K,
           \A m \in S \ C : f[m] = 0,
           \A m, o \in C : m # o => f[m] = K \/ f[o] = K
    PROVE  SizesAdd(SumOver(f, S), K, C, f)
  <1>1. \A x \in S : f[x] \in Int
    OBVIOUS
  <1>2. ASSUME NEW m \in C
        PROVE  /\ SumOver(f, S) = f[m] + SumOver(f, S \ {m})
               /\ SumOver(f, S \ {m}) \in Nat /\ f[m] \in Nat
               /\ IsFiniteSet(S \ {m})
    <2>1. /\ SumOver(f, S) = f[m] + SumOver(f, S \ {m}) /\ SumOver(f, S \ {m}) \in Int
      BY <1>1, SumRemove
    <2>2. IsFiniteSet(S \ {m}) /\ {} \in SUBSET (S \ {m})
      BY FS_Subset
    <2>3. SumOver(f, {}) <= SumOver(f, S \ {m})
      <3>1. \A x \in S \ {m} : f[x] \in Int /\ f[x] \in Int
        BY <1>1
      <3>2. \A x \in {} : f[x] <= f[x]
        OBVIOUS
      <3>3. \A x \in (S \ {m}) \ {} : 0 <= f[x]
        OBVIOUS
      <3> QED
        BY <2>2, <3>1, <3>2, <3>3, SumMonotone
    <2>4. SumOver(f, {}) = 0
      BY SumEmpty
    <2> QED
      BY <2>1, <2>2, <2>3, <2>4
  \* Where one of them has room.
  <1>3. ASSUME NEW m \in C, f[m] < K
        PROVE  \E j \in Nat : SumOver(f, S) = j * K + f[m]
    <2> DEFINE R == C \ {m}
               Q == S \ {m}
    <2>1. R \in SUBSET Q /\ IsFiniteSet(Q)
      BY <1>2
    <2>2. \A x \in R : f[x] = K
      BY <1>3
    <2>3. \A x \in Q \ R : f[x] = 0
      OBVIOUS
    <2>4. SumOver(f, S) = f[m] + SumOver(f, Q) /\ f[m] \in Nat
      BY <1>2
    <2> HIDE DEF R, Q
    <2>5. Cardinality(R) \in Nat /\ SumOver(f, Q) = Cardinality(R) * K
      BY <2>1, <2>2, <2>3, SumEqual
    <2>6. PICK j \in Nat : j = Cardinality(R)
      BY <2>5
    <2>7. SumOver(f, S) = j * K + f[m]
      <3>1. j * K \in Nat
        OBVIOUS
      <3> QED
        BY <2>4, <2>5, <2>6, <3>1
    <2> QED
      BY <2>7
  <1>4. ASSUME NEW k \in Nat, \A m \in C : f[m] = k
        PROVE  SumOver(f, S) = Cardinality(C) * k /\ Cardinality(C) \in Nat
    BY <1>4, SumEqual
  <1>5. SumOver(f, S) \in Nat /\ (C # {} <=> SumOver(f, S) > 0)
    <2>1. CASE C = {}
      <3>1. \A m \in C : f[m] = 0
        BY <2>1
      <3>2. SumOver(f, S) = Cardinality(C) * 0 /\ Cardinality(C) \in Nat
        BY <1>4, <3>1
      <3>3. SumOver(f, S) = 0
        BY <3>2
      <3> QED
        BY <2>1, <3>3
    <2>2. CASE C # {}
      <3>1. PICK m \in C : TRUE
        BY <2>2
      <3>2. f[m] \in 1 .. K
        OBVIOUS
      <3>3. PICK a \in Nat, b \in Nat : a = f[m] /\ b = SumOver(f, S \ {m})
        BY <1>2
      <3>4. SumOver(f, S) = a + b /\ a > 0
        BY <1>2, <3>2, <3>3
      <3> QED
        BY <3>4
    <2> QED
      BY <2>1, <2>2
  <1>6. ASSUME NEW m \in C, SumOver(f, S) % K = 0 PROVE f[m] = K
    <2> SUFFICES ASSUME f[m] # K PROVE FALSE
      OBVIOUS
    <2>1. PICK r \in Nat : r = f[m] /\ r < K /\ r # 0
      OBVIOUS
    <2>2. PICK j \in Nat : SumOver(f, S) = j * K + r
      BY <1>3, <2>1
    <2> QED
      BY <1>6, <2>1, <2>2, Multiples
  <1>7. ASSUME NEW m \in C, SumOver(f, S) <= K PROVE f[m] = SumOver(f, S)
    <2>1. CASE f[m] = K
      <3>1. PICK b \in Nat : b = SumOver(f, S \ {m})
        BY <1>2
      <3>2. SumOver(f, S) = K + b
        BY <1>2, <2>1, <3>1
      <3> QED
        BY <1>7, <2>1, <3>2
    <2>2. CASE f[m] # K
      <3>1. PICK r \in Nat : r = f[m] /\ r < K /\ r # 0
        BY <2>2
      <3>2. PICK j \in Nat : SumOver(f, S) = j * K + r
        BY <1>3, <3>1
      <3>3. j * K \in Nat /\ (j > 0 => j * K >= K)
        BY <3>1, Multiples
      <3>4. j = 0
        BY <1>7, <3>1, <3>2, <3>3
      <3>5. j * K = 0
        BY <3>4
      <3> QED
        BY <3>1, <3>2, <3>5
    <2> QED
      BY <2>1, <2>2
  <1>8. ASSUME \A m \in C : f[m] = K PROVE SumOver(f, S) % K = 0
    <2>1. PICK j \in Nat : SumOver(f, S) = j * K
      BY <1>4, <1>8
    <2>2. 0 < K /\ j * K \in Nat
      BY Multiples
    <2>3. (j * K + 0) % K = 0
      BY <2>2, Multiples
    <2>4. j * K + 0 = j * K
      BY <2>2
    <2> QED
      BY <2>1, <2>3, <2>4
  <1>9. ASSUME NEW k \in 1 .. K - 1, \A m \in C : f[m] = k, C # {}
        PROVE  SumOver(f, S) = k
    <2>1. PICK m \in C : TRUE
      BY <1>9
    <2>2. \A o \in C : o = m
      BY <1>9
    <2>3. C = {m}
      BY <2>1, <2>2
    <2>4. Cardinality(C) = 1
      BY <2>3, FS_Singleton
    <2>5. SumOver(f, S) = 1 * k
      BY <1>4, <1>9, <2>4
    <2> QED
      BY <2>5
  <1> QED
    BY <1>5, <1>6, <1>7, <1>8, <1>9 DEF SizesAdd

LEMMA UsableFacts ==
    ASSUME DevicesTypeOK
    PROVE  /\ IsFiniteSet(UsablePorts) /\ Cardinality(UsablePorts) \in Nat
           /\ \A x \in UsablePorts : /\ x = <<x[1], x[2]>> /\ x[1] \in DOMAIN hcas
                                     /\ x[1] \in 1 .. Len(hcas) /\ x[2] \in 1 .. MaxPorts
                                     /\ x[2] <= Len(hcas[x[1]].ports)
                                     /\ UsablePort(hcas[x[1]].ports[x[2]])
  <1>1. DOMAIN hcas = 1 .. Len(hcas) /\ Len(hcas) \in Nat
    BY HostFacts DEF DevicesTypeOK
  <1>2. IsFiniteSet(DOMAIN hcas) /\ IsFiniteSet(1 .. MaxPorts)
    BY <1>1, FS_Interval, DevicesConstantsAssumption
  <1>3. IsFiniteSet((DOMAIN hcas) \X (1 .. MaxPorts))
    BY <1>2, FS_Product
  <1>4. UsablePorts \in SUBSET ((DOMAIN hcas) \X (1 .. MaxPorts))
    BY DEF UsablePorts
  <1>5. IsFiniteSet(UsablePorts)
    BY <1>3, <1>4, FS_Subset
  <1>6. \A x \in UsablePorts : /\ x[2] <= Len(hcas[x[1]].ports)
                               /\ UsablePort(hcas[x[1]].ports[x[2]])
    BY DEF UsablePorts
  <1> QED
    BY <1>1, <1>4, <1>5, <1>6, FS_CardinalityType

LEMMA SizeFacts ==
    ASSUME DevicesInv, Counted
    PROVE  /\ ncclNMergedIbDevs \in Nat /\ 0 .. ncclNMergedIbDevs - 1 \in SUBSET Slots
           /\ IsFiniteSet(Slots) /\ \A m \in Slots : m \in Nat
           /\ \A m \in Slots : Size(m) \in 0 .. MaxDevsPerNic
           /\ \A m \in Slots : m < ncclNMergedIbDevs => Size(m) > 0
           /\ \A m \in Slots : m >= ncclNMergedIbDevs => Size(m) = 0
  <1>1. IsFiniteSet(Slots) /\ \A m \in Slots : m \in Nat
    BY FS_Interval, DevicesConstantsAssumption DEF Slots
  <1>2. ncclNMergedIbDevs \in Nat /\ 0 .. ncclNMergedIbDevs - 1 \in SUBSET Slots
    <2>1. ncclNMergedIbDevs \in 0 .. Listed /\ ncclNMergedIbDevs \in Slots \cup {-1}
      BY DEF DevicesInv, CountInv, DevicesTypeOK, Counted
    <2> QED
      BY <2>1, DevicesConstantsAssumption DEF Slots
  <1>3. ASSUME NEW m \in Slots
        PROVE  /\ Size(m) \in 0 .. MaxDevsPerNic
               /\ m < ncclNMergedIbDevs => Size(m) > 0
               /\ m >= ncclNMergedIbDevs => Size(m) = 0
    <2> DEFINE s == Before(m)
    <2>1. s \in Seq(Slots)
      BY BeforeIs DEF DevicesInv
    <2>2. m < ncclNMergedIbDevs => s # <<>> /\ Len(s) <= MaxDevsPerNic
      BY DEF DevicesInv, MergedInv, DevicesTypeOK, Before
    <2>3. ~(m < ncclNMergedIbDevs) => s = <<>>
      BY DEF Before
    <2>4. Size(m) = Len(s)
      BY DEF Size
    <2> HIDE DEF s
    <2>5. Len(s) \in Nat /\ (s = <<>> <=> Len(s) = 0)
      BY <2>1, LenProperties, EmptySeq
    <2>6. m >= ncclNMergedIbDevs => ~(m < ncclNMergedIbDevs)
      BY <1>1, <1>2
    <2> QED
      BY <2>2, <2>3, <2>4, <2>5, <2>6, DevicesConstantsAssumption
  <1> QED
    BY <1>1, <1>2, <1>3

LEMMA RoomIs ==
    ASSUME NEW m, m < ncclNMergedIbDevs
    PROVE  HasRoom(m) <=> Size(m) < MaxDevsPerNic
  BY DEF HasRoom, Size, Before

\* What the ports of one NIC say about the sizes of its merged devices.
LEMMA NicTotals ==
    ASSUME DevicesInv, FillInv, Counted, walk.mergeNics, NEW c, NEW s,
           s = SumOver(SizesOf(c), Slots)
    PROVE  /\ s \in Nat
           /\ \A m \in 0 .. ncclNMergedIbDevs - 1 : NicOf(First(m)) = c =>
                 /\ s > 0
                 /\ s % MaxDevsPerNic = 0 => Size(m) = MaxDevsPerNic
                 /\ s <= MaxDevsPerNic => Size(m) = s
           /\ (\A m \in 0 .. ncclNMergedIbDevs - 1 : Size(m) = MaxDevsPerNic)
                 => s % MaxDevsPerNic = 0
           /\ \A k \in 1 .. MaxDevsPerNic - 1 :
                 ((\A m \in 0 .. ncclNMergedIbDevs - 1 : Size(m) = k) /\ s > 0) => s = k
  <1>1. PICK f : f = SizesOf(c)
    OBVIOUS
  <1>2. PICK K \in Nat \ {0} : K = MaxDevsPerNic
    BY DevicesConstantsAssumption
  <1> DEFINE A == 0 .. ncclNMergedIbDevs - 1
             C == {m \in A : NicOf(First(m)) = c}
  <1>3. A \in SUBSET Slots /\ IsFiniteSet(Slots) /\ \A m \in A : m \in Nat
    BY SizeFacts
  <1>4. \A m \in Slots : m < ncclNMergedIbDevs <=> m \in A
    BY SizeFacts
  <1>5. C \in SUBSET Slots /\ \A m \in C : f[m] = Size(m)
    BY <1>1, <1>3, <1>4 DEF SizesOf
  <1>6. \A m \in Slots \ C : f[m] = 0
    BY <1>1, <1>4 DEF SizesOf
  <1>7. \A m \in A : Size(m) \in 1 .. K
    <2>1. \A m \in A : m \in Slots /\ m < ncclNMergedIbDevs
      BY <1>3, <1>4
    <2> QED
      BY <1>2, <2>1, SizeFacts
  <1>8. \A m, o \in C : m # o => f[m] = K \/ f[o] = K
    <2> SUFFICES ASSUME NEW m \in C, NEW o \in C, m # o PROVE f[m] = K \/ f[o] = K
      OBVIOUS
    <2>1. ~(HasRoom(m) /\ HasRoom(o))
      BY DEF FillInv, FilledInOrder
    <2>2. ~(Size(m) < K /\ Size(o) < K)
      BY <1>2, <1>3, <1>4, <2>1, RoomIs
    <2>3. Size(m) \in 1 .. K /\ Size(o) \in 1 .. K
      BY <1>7
    <2> QED
      BY <1>5, <2>2, <2>3
  <1>9. \A m \in C : f[m] \in 1 .. K
    BY <1>5, <1>7
  <1>10. C \in SUBSET A /\ \A m \in A : NicOf(First(m)) = c => m \in C
    OBVIOUS
  <1> HIDE DEF C, A
  <1>11. /\ s \in Nat
         /\ C # {} <=> s > 0
         /\ \A m \in C : s % K = 0 => f[m] = K
         /\ \A m \in C : s <= K => f[m] = s
         /\ (\A m \in C : f[m] = K) => s % K = 0
         /\ \A k \in 1 .. K - 1 : ((\A m \in C : f[m] = k) /\ C # {}) => s = k
    <2>1. s = SumOver(f, Slots)
      BY <1>1
    <2>2. IsFiniteSet(Slots) /\ C \in SUBSET Slots
      BY <1>3, <1>5
    <2>3. SizesAdd(SumOver(f, Slots), K, C, f)
      BY <1>6, <1>8, <1>9, <2>2, NicSizes
    <2> QED
      BY <2>1, <2>3 DEF SizesAdd
  <1>12. \A m \in A : NicOf(First(m)) = c =>
            s > 0 /\ (s % K = 0 => Size(m) = K) /\ (s <= K => Size(m) = s)
    BY <1>5, <1>10, <1>11
  <1>13. (\A m \in A : Size(m) = K) => s % K = 0
    BY <1>5, <1>10, <1>11
  <1>14. ASSUME NEW k \in 1 .. K - 1, \A m \in A : Size(m) = k, s > 0 PROVE s = k
    BY <1>5, <1>10, <1>11, <1>14
  <1> QED
    BY <1>2, <1>11, <1>12, <1>13, <1>14 DEF A

\* If all ports were seen, the list is even exactly when the ports allow it.
AllSeen ==
    /\ Counted /\ Cardinality(UsablePorts) = Listed
    /\ \A c : SumOver(SizesOf(c), Slots) = Cardinality({x \in UsablePorts : Nic(x) = c})

LEMMA EvenMeans ==
    ASSUME DevicesInv, FillInv, walk.mergeNics, AllSeen, NEW k \in EvenSizes,
           NEW m \in 0 .. ncclNMergedIbDevs - 1
    PROVE  Size(m) = k
  <1>1. PICK c : c = NicOf(First(m))
    OBVIOUS
  <1>2. PICK s : s = SumOver(SizesOf(c), Slots)
    OBVIOUS
  <1> DEFINE P == {x \in UsablePorts : Nic(x) = c}
  <1>3. s = Cardinality(P)
    BY <1>2 DEF AllSeen
  <1>4. /\ s \in Nat /\ s > 0 /\ (s % MaxDevsPerNic = 0 => Size(m) = MaxDevsPerNic)
        /\ s <= MaxDevsPerNic => Size(m) = s
    BY <1>1, <1>2, NicTotals DEF AllSeen
  <1>5. P # {}
    <2>1. Cardinality({}) = 0
      BY FS_EmptySet
    <2> QED
      BY <1>3, <1>4, <2>1
  <1>6. PICK x \in UsablePorts : Nic(x) = c
    BY <1>5
  <1>7. PortsOfNic(x) = P
    BY <1>6 DEF PortsOfNic
  <1>8. s \in PortCounts
    BY <1>3, <1>6, <1>7 DEF PortCounts
  <1>9. CASE k = MaxDevsPerNic /\ \A i \in PortCounts : i % k = 0
    BY <1>4, <1>8, <1>9
  <1>10. CASE PortCounts = {k}
    <2>1. s = k /\ k \in 1 .. MaxDevsPerNic
      BY <1>8, <1>10 DEF EvenSizes
    <2> QED
      BY <1>4, <2>1, DevicesConstantsAssumption
  <1> QED
    BY <1>9, <1>10 DEF EvenSizes

LEMMA EvenExists ==
    ASSUME DevicesInv, FillInv, walk.mergeNics, AllSeen, ~Mixed
    PROVE  EvenSizes # {}
  <1> DEFINE A == 0 .. ncclNMergedIbDevs - 1
             K == MaxDevsPerNic
             Count(x) == Cardinality(PortsOfNic(x))
  <1>1. K \in Nat \ {0} /\ A \in SUBSET Slots /\ \A m \in A : Size(m) \in 1 .. K
    <2>1. \A m \in A : m \in Slots /\ m < ncclNMergedIbDevs /\ Size(m) \in 0 .. K
      BY SizeFacts DEF AllSeen
    <2> QED
      BY <2>1, SizeFacts, DevicesConstantsAssumption DEF AllSeen
  <1>2. \A m \in A : Size(m) = Size(0)
    <2>1. \A m \in A : m < ncclNMergedIbDevs /\ 0 < ncclNMergedIbDevs
      BY SizeFacts DEF AllSeen
    <2> QED
      BY <2>1 DEF Mixed, Size, Before
  <1>3. ASSUME NEW x \in UsablePorts
        PROVE  /\ Count(x) \in Nat /\ Count(x) > 0
               /\ (\A m \in A : Size(m) = K) => Count(x) % K = 0
               /\ \A k \in 1 .. K - 1 : (\A m \in A : Size(m) = k) => Count(x) = k
    <2>1. PICK c, s : c = Nic(x) /\ s = SumOver(SizesOf(c), Slots)
      OBVIOUS
    <2>2. PortsOfNic(x) = {y \in UsablePorts : Nic(y) = c} /\ x \in PortsOfNic(x)
      BY <2>1 DEF PortsOfNic
    <2>3. Count(x) = s
      BY <2>1, <2>2 DEF AllSeen
    <2>4. s > 0
      <3>1. IsFiniteSet(PortsOfNic(x))
        <4>1. IsFiniteSet(UsablePorts) /\ PortsOfNic(x) \in SUBSET UsablePorts
          BY UsableFacts DEF DevicesInv, PortsOfNic
        <4> QED
          BY <4>1, FS_Subset
      <3>2. Count(x) \in Nat /\ Count(x) # 0
        BY <2>2, <3>1, FS_CardinalityType, FS_EmptySet
      <3> QED
        BY <2>3, <3>2
    <2> HIDE DEF Count
    <2> QED
      BY <2>1, <2>3, <2>4, NicTotals DEF AllSeen
  <1>4. \A i \in PortCounts : \E x \in UsablePorts : i = Count(x)
    BY DEF PortCounts
  <1>5. \A x \in UsablePorts : Count(x) \in PortCounts
    BY DEF PortCounts
  <1> HIDE DEF Count
  <1>6. CASE \A m \in A : Size(m) = K
    <2>1. \A i \in PortCounts : i % K = 0
      BY <1>3, <1>4, <1>6
    <2>2. K \in EvenSizes
      BY <1>1, <2>1 DEF EvenSizes
    <2> QED
      BY <2>2
  <1>7. CASE ~\A m \in A : Size(m) = K
    <2>1. PICK k \in 1 .. K - 1 : k = Size(0)
      BY <1>1, <1>2, <1>7
    <2>2. \A m \in A : Size(m) = k
      BY <1>2, <2>1
    <2>3. \A i \in PortCounts : i = k
      BY <1>3, <1>4, <2>2
    <2>4. UsablePorts # {}
      <3> SUFFICES ASSUME UsablePorts = {} PROVE FALSE
        OBVIOUS
      <3>1. Listed = 0
        BY FS_EmptySet DEF AllSeen
      <3>2. A = {}
        BY <3>1 DEF DevicesInv, CountInv, AllSeen, Counted
      <3> QED
        BY <1>7, <3>2
    <2>5. PortCounts = {k}
      BY <1>5, <2>3, <2>4
    <2>6. k \in EvenSizes
      BY <1>1, <2>5 DEF EvenSizes
    <2> QED
      BY <2>6
  <1> QED
    BY <1>6, <1>7

LEMMA ExpectedIs ==
    ExpectedDevices = IF MergeNics /\ EvenSizes # {}
                      THEN Cardinality(UsablePorts) \div (CHOOSE k \in EvenSizes : TRUE)
                      ELSE Cardinality(UsablePorts)
  BY DEF ExpectedDevices, EvenSizes, PortCounts

LEMMA MergedTotal ==
    ASSUME DevicesInv, FillInv, walk.mergeNics, AllSeen, ~Mixed
    PROVE  ncclNMergedIbDevs = ExpectedDevices
  <1>1. EvenSizes # {}
    BY EvenExists
  <1>2. PICK k \in EvenSizes : k = CHOOSE i \in EvenSizes : TRUE
    BY <1>1
  <1>3. k \in Nat \ {0}
    BY DevicesConstantsAssumption DEF EvenSizes
  <1> DEFINE A == 0 .. ncclNMergedIbDevs - 1
  <1>4. \A m \in A : Size(m) = k
    BY EvenMeans
  <1>5. /\ A \in SUBSET Slots /\ IsFiniteSet(Slots) /\ ncclNMergedIbDevs \in Nat
        /\ \A m \in Slots \ A : Size(m) = 0
    <2>1. ncclNMergedIbDevs \in Nat /\ A \in SUBSET Slots /\ IsFiniteSet(Slots)
      BY SizeFacts DEF AllSeen
    <2>2. \A m \in Slots \ A : m >= ncclNMergedIbDevs
      <3>1. \A m \in Slots : m \in Nat
        BY SizeFacts DEF AllSeen
      <3> QED
        BY <2>1, <3>1
    <2> QED
      BY <2>1, <2>2, SizeFacts DEF AllSeen
  <1>6. Cardinality(A) = ncclNMergedIbDevs
    <2>1. PICK j \in Nat : j = ncclNMergedIbDevs
      BY <1>5
    <2>2. Cardinality(0 .. j - 1) = j
      <3>1. j - 1 \in Int /\ (j - 1) - 0 + 1 = j
        OBVIOUS
      <3>2. j = 0 => 0 .. j - 1 = {}
        OBVIOUS
      <3>3. j > 0 => Cardinality(0 .. j - 1) = j
        BY FS_Interval
      <3>4. j = 0 => Cardinality(0 .. j - 1) = 0
        BY <3>2, FS_EmptySet
      <3> QED
        BY <3>3, <3>4
    <2> QED
      BY <2>1, <2>2
  <1>7. PICK f : f = Sizes
    OBVIOUS
  <1>8. (\A m \in A : f[m] = k) /\ (\A m \in Slots \ A : f[m] = 0)
    BY <1>4, <1>5, <1>7 DEF Sizes
  <1> HIDE DEF A
  <1>9. SumOver(f, Slots) = Cardinality(A) * k
    BY <1>3, <1>5, <1>8, SumEqual
  <1>10. Cardinality(UsablePorts) = ncclNMergedIbDevs * k
    BY <1>6, <1>7, <1>9 DEF FillInv, AllSeen
  <1>11. (ncclNMergedIbDevs * k) \div k = ncclNMergedIbDevs
    <2>1. PICK j \in Nat : j = ncclNMergedIbDevs
      BY <1>5
    <2>2. 0 \in Nat /\ 0 < k
      BY <1>3
    <2>3. (j * k) \div k = j
      BY <1>3, <2>2, Multiples
    <2> QED
      BY <2>1, <2>3
  <1>12. MergeNics
    BY DEF FillInv
  <1>13. ExpectedDevices = Cardinality(UsablePorts) \div k
    BY <1>1, <1>2, <1>12, ExpectedIs
  <1> QED
    BY <1>10, <1>11, <1>13

LEMMA MixedMeans ==
    ASSUME DevicesInv, FillInv, AllSeen, Mixed
    PROVE  EvenSizes = {}
  <1> SUFFICES ASSUME NEW k \in EvenSizes PROVE FALSE
    OBVIOUS
  <1>1. walk.mergeNics
    BY DEF Mixed
  <1>2. PICK m \in 0 .. ncclNMergedIbDevs - 1 : Size(m) # Size(0)
    <2>1. \A m \in 0 .. ncclNMergedIbDevs - 1 : m < ncclNMergedIbDevs /\ 0 < ncclNMergedIbDevs
      BY SizeFacts DEF AllSeen
    <2> QED
      BY <2>1 DEF Mixed, Size, Before
  <1>3. 0 \in 0 .. ncclNMergedIbDevs - 1
    <2>1. ncclNMergedIbDevs \in Nat
      BY SizeFacts DEF AllSeen
    <2> QED
      BY <1>2, <2>1
  <1>4. Size(m) = k /\ Size(0) = k
    BY <1>1, <1>3, EvenMeans
  <1> QED
    BY <1>2, <1>4

\* Without a failure the loops end when all usable ports were seen.
LEMMA EndSeesAll ==
    ASSUME DevicesInv, SeenInv, AllFit, NEW t \in Threads, pc[t] = "open", ~MoreDevices
    PROVE  AllSeen
  <1>1. Counted /\ faults = 0 /\ Where = "open" /\ Listed = ncclNIbDevs
    <2>1. pc[t] \in Held /\ LockInv
      BY DEF Held, DevicesInv
    <2>2. Where = "open" /\ ncclIbLock # NoThread
      BY <2>1, WhereIs
    <2> QED
      BY <2>2 DEF DevicesInv, WalkInv, AllFit, Counted, Listed, Joined
  <1>2. /\ Cardinality(Seen) = ncclNIbDevs
        /\ \A c : SumOver(SizesOf(c), Slots) = Cardinality(SeenOf(c))
    BY <1>1 DEF SeenInv
  <1>3. Seen \in SUBSET UsablePorts
    BY DEF Seen
  <1>4. /\ IsFiniteSet(UsablePorts) /\ Cardinality(UsablePorts) \in Nat
        /\ \A x \in UsablePorts : x[1] \in 1 .. Len(hcas)
    BY UsableFacts DEF DevicesInv
  <1>5. Seen = UsablePorts
    <2>1. CASE walk.d > Len(hcas)
      <3>1. walk.d \in Nat /\ Len(hcas) \in Nat
        BY HostFacts, WalkFields DEF DevicesInv, DevicesTypeOK
      <3>2. \A x \in UsablePorts : x[1] < walk.d
        BY <1>4, <2>1, <3>1
      <3> QED
        BY <3>2 DEF Seen
    <2>2. CASE walk.d <= Len(hcas)
      <3>1. ~(ncclNIbDevs < MaxIbDevs)
        BY <2>2 DEF MoreDevices, RoomForDevice
      <3>2. Cardinality(Seen) <= Cardinality(UsablePorts)
        BY <1>3, <1>4, FS_Subset
      <3>3. ncclNIbDevs \in Int /\ MaxIbDevs \in Int /\ Cardinality(UsablePorts) <= MaxIbDevs
        BY DevicesConstantsAssumption DEF AllFit, DevicesInv, DevicesTypeOK, Slots
      <3>4. Cardinality(UsablePorts) = Cardinality(Seen)
        BY <1>2, <1>4, <3>1, <3>2, <3>3
      <3> QED
        BY <1>3, <1>4, <3>4, FS_Subset
    <2>3. walk.d \in Nat /\ Len(hcas) \in Nat
      BY HostFacts, WalkFields DEF DevicesInv, DevicesTypeOK
    <2> QED
      BY <2>1, <2>2, <2>3
  <1>6. \A c : SeenOf(c) = {x \in UsablePorts : Nic(x) = c}
    BY <1>5 DEF SeenOf
  <1> QED
    BY <1>1, <1>2, <1>5, <1>6 DEF AllSeen

-----------------------------------------------------------------------------

LEMMA HostFixed ==
    ASSUME host' = host
    PROVE  /\ UsablePorts' = UsablePorts /\ EvenSizes' = EvenSizes
           /\ ExpectedDevices' = ExpectedDevices
           /\ \A x : Nic(x)' = Nic(x)
  <1>1. hcas' = hcas
    BY DEF hcas
  <1>2. UsablePorts' = UsablePorts
    BY <1>1 DEF UsablePorts
  <1>3. \A x : Nic(x)' = Nic(x)
    BY <1>1 DEF Nic
  <1>4. \A x : PortsOfNic(x)' = PortsOfNic(x)
    BY <1>2, <1>3 DEF PortsOfNic
  <1>5. PortCounts' = PortCounts
    BY <1>2, <1>4 DEF PortCounts
  <1>6. EvenSizes' = EvenSizes
    BY <1>5 DEF EvenSizes
  <1>7. ExpectedDevices' = IF MergeNics /\ EvenSizes' # {}
                      THEN Cardinality(UsablePorts') \div (CHOOSE k \in EvenSizes' : TRUE)
                      ELSE Cardinality(UsablePorts')
    BY DEF ExpectedDevices, EvenSizes, PortCounts
  <1> QED
    BY <1>2, <1>3, <1>6, <1>7, ExpectedIs


\* Steps that leave alone what is counted.
LEMMA FillFrame ==
    ASSUME DevicesInv, FillInv, ncclNMergedIbDevs' = ncclNMergedIbDevs,
           \A m \in 0 .. ncclNMergedIbDevs - 1 :
               /\ ncclIbMergedDevs'[m].devs = ncclIbMergedDevs[m].devs
               /\ First(m)' = First(m),
           Counted' => Counted /\ Listed' = Listed,
           walk'.pass = walk.pass, walk'.mergeNics = walk.mergeNics,
           Where' = "remerge" => walk'.d = 1
    PROVE  FillInv' /\ (Counted' => \A c : SizesOf(c)' = SizesOf(c))
  <1>1. ASSUME Counted', NEW m \in Slots
        PROVE  /\ Size(m)' = Size(m)
               /\ m < ncclNMergedIbDevs => First(m)' = First(m) /\ m \in 0 .. ncclNMergedIbDevs - 1
    <2>1. m < ncclNMergedIbDevs => m \in 0 .. ncclNMergedIbDevs - 1
      BY <1>1, SizeFacts
    <2>2. Before(m)' = Before(m)
      BY <2>1 DEF Before
    <2> QED
      BY <2>1, <2>2 DEF Size
  <1>2. Counted' => Sizes' = Sizes
    BY <1>1 DEF Sizes, Slots
  <1>3. Counted' => \A c : SizesOf(c)' = SizesOf(c)
    BY <1>1 DEF SizesOf, NicOf, Slots
  <1>4. FilledInOrder => FilledInOrder'
    BY DEF FilledInOrder, HasRoom, NicOf
  <1> QED
    BY <1>2, <1>3, <1>4 DEF FillInv

LEMMA CountsFrame ==
    ASSUME DevicesInv, SeeAllInv, ncclNMergedIbDevs' = ncclNMergedIbDevs, host' = host,
           \A m \in 0 .. ncclNMergedIbDevs - 1 :
               /\ ncclIbMergedDevs'[m].devs = ncclIbMergedDevs[m].devs
               /\ First(m)' = First(m),
           Counted' => Counted /\ Listed' = Listed,
           walk'.pass = walk.pass, walk'.mergeNics = walk.mergeNics,
           Where' = "remerge" => walk'.d = 1,
           faults' = 0 => faults = 0 /\ Seen' = Seen
    PROVE  FillInv' /\ SeenInv'
  <1>1. FillInv' /\ (Counted' => \A c : SizesOf(c)' = SizesOf(c))
    BY FillFrame DEF SeeAllInv
  <1>2. faults' = 0 => \A c : SeenOf(c)' = SeenOf(c)
    BY HostFixed DEF SeenOf
  <1>3. SeenInv'
    BY <1>1, <1>2 DEF SeeAllInv, SeenInv
  <1> QED
    BY <1>1, <1>3

\* Steps that write no list.
LEMMA ListsFrame ==
    ASSUME DevicesInv, SeeAllInv, UNCHANGED <<host, listVars>>,
           Where = Where' \/ (Where \in Plain /\ Where' \in Plain),
           walk'.pass = walk.pass, walk'.mergeNics = walk.mergeNics,
           Where = "remerge" => walk' = walk,
           faults' = 0 => faults = 0 /\ Seen' = Seen
    PROVE  FillInv' /\ SeenInv'
  <1>1. /\ ncclNMergedIbDevs' = ncclNMergedIbDevs /\ ncclIbMergedDevs' = ncclIbMergedDevs
        /\ ncclIbDevs' = ncclIbDevs /\ ncclNIbDevs' = ncclNIbDevs
    BY DEF listVars
  <1>2. \A m : First(m)' = First(m)
    BY <1>1 DEF First
  <1>3. Listed' = Listed /\ (Counted' => Counted)
    BY <1>1 DEF Listed, Counted, Plain, Joined
  <1>4. Where' = "remerge" => walk'.d = 1
    BY DEF Plain, SeeAllInv, FillInv
  <1> QED
    BY <1>1, <1>2, <1>3, <1>4, CountsFrame

LEMMA SeenSame ==
    ASSUME UNCHANGED <<host, walk>>,
           \/ Where' = Where
           \/ Where \notin InLoop /\ Where' \notin InLoop
    PROVE  Seen' = Seen
  <1>1. UsablePorts' = UsablePorts
    BY HostFixed
  <1> QED
    BY <1>1 DEF Seen, Joined, InLoop

-----------------------------------------------------------------------------

\* While the discovery is not over nothing is promised.
LEMMA ResultPending ==
    ASSUME ResultInv, ~Over, ~Over', NEW t \in Threads, pc'[t] \notin {"ok", "ready"},
           \A u \in Threads \ {t} : pc'[u] = pc[u],
           UNCHANGED <<host, met, ndev>>, faults' = 0 => faults = 0,
           Where' = "fail" => faults' > 0,
           (AllFit' /\ walk'.pass = 2) => EvenSizes = {}
    PROVE  ResultInv'
  <1>1. EvenSizes' = EvenSizes /\ ExpectedDevices' = ExpectedDevices
        /\ UsablePorts' = UsablePorts
    BY HostFixed
  <1>2. \A u \in Threads : ~(pc'[u] = "ok" /\ met'[u] # "during")
    <2> SUFFICES ASSUME NEW u \in Threads, pc'[u] = "ok", met'[u] # "during" PROVE FALSE
      OBVIOUS
    <2>1. u # t /\ pc[u] = "ok" /\ met[u] # "during"
      OBVIOUS
    <2> QED
      BY <2>1 DEF ResultInv
  <1>3. CallersSeeAll'
    <2> SUFFICES ASSUME NEW u \in Threads, pc'[u] = "ready", met'[u] # "during", faults' = 0,
                        Cardinality(UsablePorts') <= MaxIbDevs
                 PROVE  ndev'[u] = ExpectedDevices'
      BY DEF CallersSeeAll
    <2>1. u # t /\ pc[u] = "ready" /\ met[u] # "during" /\ faults = 0
      OBVIOUS
    <2> QED
      BY <1>1, <2>1 DEF ResultInv, CallersSeeAll
  <1> QED
    BY <1>1, <1>2, <1>3 DEF ResultInv

\* The thread that discovers goes on.
During == Held \ {"summary"}

LEMMA ResultDuring ==
    ASSUME DevicesInv, ResultInv, NEW t \in Threads, NEW q \in During, NEW p \in During,
           pc[t] = q, pc' = [pc EXCEPT ![t] = p], ncclIbLock' = ncclIbLock,
           UNCHANGED <<host, met, ndev>>, faults' = 0 => faults = 0,
           p = "fail" => faults' > 0,
           (AllFit' /\ walk'.pass = 2) => (EvenSizes = {} \/ walk.pass = 2)
    PROVE  ResultInv'
  <1>1. q \in Held /\ p \in Held /\ Goto(t, p)
    BY DEF During, Goto
  <1>2. Where = q /\ Where' = p
    BY <1>1, MovesTo
  <1>3. ~Over /\ ~Over'
    BY <1>2 DEF Over, During, Held
  <1>4. /\ pc'[t] = p /\ p \notin {"ok", "ready"}
        /\ \A u \in Threads \ {t} : pc'[u] = pc[u]
    BY DEF DevicesInv, DevicesTypeOK, During, Held
  <1>5. (AllFit' /\ walk'.pass = 2) => EvenSizes = {}
    <2>1. UsablePorts' = UsablePorts
      BY HostFixed
    <2> QED
      BY <2>1 DEF ResultInv, AllFit
  <1> QED
    BY <1>2, <1>3, <1>4, <1>5, ResultPending

\* A step that neither begins nor ends the discovery.
LEMMA ResultFrame ==
    ASSUME ResultInv, UNCHANGED <<host, listVars, walk, faults>>,
           NEW t \in Threads, \A u \in Threads \ {t} : pc'[u] = pc[u],
           \A u \in Threads \ {t} : met'[u] = met[u] /\ ndev'[u] = ndev[u],
           Over => Over',
           Where' = "fail" => Where = "fail",
           (pc'[t] = "ok" /\ met'[t] # "during") => Over',
           (AllFit /\ Over') => Over,
           (AllFit /\ pc'[t] = "ready" /\ met'[t] # "during") => ndev'[t] = ExpectedDevices
    PROVE  ResultInv'
  <1>1. EvenSizes' = EvenSizes /\ ExpectedDevices' = ExpectedDevices
        /\ UsablePorts' = UsablePorts
    BY HostFixed
  <1>2. AllFit' <=> AllFit
    BY <1>1 DEF AllFit
  <1>3. ncclNMergedIbDevs' = ncclNMergedIbDevs
    BY DEF listVars
  <1>4. \A u \in Threads : (pc'[u] = "ok" /\ met'[u] # "during") => Over'
    BY DEF ResultInv
  <1>5. Where' = "fail" => faults' > 0
    BY DEF ResultInv
  <1>6. CallersSeeAll'
    <2> SUFFICES ASSUME NEW u \in Threads, pc'[u] = "ready", met'[u] # "during", faults' = 0,
                        Cardinality(UsablePorts') <= MaxIbDevs
                 PROVE  ndev'[u] = ExpectedDevices'
      BY DEF CallersSeeAll
    <2>1. AllFit
      BY <1>1 DEF AllFit
    <2>2. CASE u = t
      BY <1>1, <2>1, <2>2
    <2>3. CASE u # t
      <3>1. pc[u] = "ready" /\ met[u] # "during" /\ ndev'[u] = ndev[u]
        BY <2>3
      <3> QED
        BY <1>1, <2>1, <3>1 DEF ResultInv, CallersSeeAll, AllFit
    <2> QED
      BY <2>2, <2>3
  <1>7. (AllFit' /\ walk'.pass = 2) => EvenSizes' = {}
    BY <1>1, <1>2 DEF ResultInv
  <1>8. (AllFit' /\ Over') => ncclNMergedIbDevs' = ExpectedDevices'
    BY <1>1, <1>2, <1>3 DEF ResultInv
  <1> QED
    BY <1>4, <1>5, <1>6, <1>7, <1>8 DEF ResultInv

LEMMA CallSees ==
    ASSUME DevicesInv, SeeAllInv, NEW t \in Threads, Call(t)
    PROVE  SeeAllInv'
  <1>1. /\ UNCHANGED <<host, ncclIbLock, listVars, walk, contexts, ndev, faults>>
        /\ pc[t] = "call"
    BY DEF Call
  <1>2. /\ \A u \in Threads \ {t} : pc'[u] = pc[u]
        /\ \A u \in Threads \ {t} : met'[u] = met[u] /\ ndev'[u] = ndev[u]
        /\ \/ pc'[t] = "lock" /\ ncclNIbDevs = -1
           \/ /\ pc'[t] = "ok" /\ ncclNIbDevs # -1
              /\ met'[t] # "during" => ncclIbLock = NoThread
    <2>1. pc \in [Threads -> Pcs] /\ met \in [Threads -> {"none", "before", "during", "after"}]
      BY DEF DevicesInv, DevicesTypeOK
    <2>2. \A u \in Threads \ {t} : pc'[u] = pc[u] /\ met'[u] = met[u]
      BY <2>1 DEF Call, Goto
    <2>3. CASE ncclNIbDevs = -1
      BY <1>1, <2>1, <2>2, <2>3 DEF Call, Goto
    <2>4. CASE ncclNIbDevs # -1
      <3>1. pc' = [pc EXCEPT ![t] = "ok"]
            /\ met' = [met EXCEPT ![t] =
                           IF ncclIbLock = NoThread THEN "after" ELSE "during"]
        BY <2>4 DEF Call, Goto
      <3>2. pc'[t] = "ok" /\ met'[t] = IF ncclIbLock = NoThread THEN "after" ELSE "during"
        BY <2>1, <3>1
      <3> QED
        BY <1>1, <2>2, <2>4, <3>2
    <2> QED
      BY <2>3, <2>4
  <1>3. Where' = Where
    <2>1. \E p : pc' = [pc EXCEPT ![t] = p]
      BY DEF Call, Goto
    <2> QED
      BY <1>1, <2>1, WhereKept DEF Held
  <1>4. FillInv' /\ SeenInv'
    BY <1>1, <1>3, ListsFrame, SeenSame
  <1>5. Over' <=> Over
    BY <1>1, <1>3 DEF Over, listVars
  <1>6. (pc'[t] = "ok" /\ met'[t] # "during") => Over
    BY <1>2 DEF Over, Where
  <1>7. pc'[t] # "ready"
    BY <1>2
  <1>8. ResultInv'
    BY <1>1, <1>2, <1>3, <1>5, <1>6, <1>7, ResultFrame DEF SeeAllInv
  <1> QED
    BY <1>4, <1>8 DEF SeeAllInv

LEMMA UnlockSees ==
    ASSUME DevicesInv, SeeAllInv, NEW t \in Threads, Unlock(t) \/ UnlockFailed(t)
    PROVE  SeeAllInv'
  <1>1. UNCHANGED <<host, listVars, walk, contexts, met, ndev, faults>>
        /\ ncclIbLock' = NoThread
    BY DEF Unlock, UnlockFailed
  <1>2. /\ \A u \in Threads \ {t} : pc'[u] = pc[u]
        /\ \/ pc'[t] = "ok" /\ pc[t] = "summary"
           \/ pc'[t] = "error" /\ pc[t] = "fail"
    BY DEF DevicesInv, DevicesTypeOK, Unlock, UnlockFailed, Goto
  <1>3. Where = pc[t] /\ Where' = "out" /\ ncclNIbDevs # -1
    <2>1. pc[t] \in Held /\ LockInv
      BY <1>2 DEF Held, DevicesInv
    <2>2. Where = pc[t] /\ ncclIbLock # NoThread
      BY <2>1, WhereIs
    <2> QED
      BY <1>1, <2>2 DEF Where, DevicesInv, WalkInv
  <1>4. FillInv' /\ SeenInv'
    <2>1. Where \in Plain /\ Where' \in Plain /\ Where # "remerge"
          /\ Where \notin InLoop /\ Where' \notin InLoop
      BY <1>2, <1>3 DEF Plain, InLoop
    <2>2. Seen' = Seen
      BY <1>1, <2>1, SeenSame
    <2> QED
      BY <1>1, <2>1, <2>2, ListsFrame
  <1>5. Over'
    BY <1>1, <1>3 DEF Over, listVars
  <1>6. pc[t] = "summary" => Over
    BY <1>3 DEF Over
  <1>7. AllFit => Over
    <2>1. pc[t] = "fail" => ~AllFit
      BY <1>3 DEF SeeAllInv, ResultInv, AllFit
    <2> QED
      BY <1>2, <1>6, <2>1
  <1>8. pc'[t] # "ready" /\ Where' # "fail"
    BY <1>2, <1>3
  <1>9. ResultInv'
    BY <1>1, <1>2, <1>5, <1>7, <1>8, ResultFrame DEF SeeAllInv
  <1> QED
    BY <1>4, <1>9 DEF SeeAllInv

LEMMA NetDevicesSees ==
    ASSUME DevicesInv, SeeAllInv, NEW t \in Threads, NetDevices(t)
    PROVE  SeeAllInv'
  <1>1. UNCHANGED <<host, ncclIbLock, listVars, walk, contexts, met, faults>> /\ pc[t] = "ok"
        /\ pc' = [pc EXCEPT ![t] = "ready"]
    BY DEF NetDevices, Goto
  <1>2. /\ \A u \in Threads \ {t} : pc'[u] = pc[u]
        /\ \A u \in Threads \ {t} : met'[u] = met[u] /\ ndev'[u] = ndev[u]
        /\ pc'[t] = "ready" /\ ndev'[t] = ncclNMergedIbDevs
    BY DEF DevicesInv, DevicesTypeOK, NetDevices, Goto
  <1>3. Where' = Where
    BY <1>1, WhereKept DEF Held
  <1>4. FillInv' /\ SeenInv'
    BY <1>1, <1>3, ListsFrame, SeenSame
  <1>5. Over' <=> Over
    BY <1>1, <1>3 DEF Over, listVars
  <1>6. (AllFit /\ met'[t] # "during") => ndev'[t] = ExpectedDevices
    BY <1>1, <1>2 DEF SeeAllInv, ResultInv
  <1>7. ResultInv'
    BY <1>1, <1>2, <1>3, <1>5, <1>6, ResultFrame DEF SeeAllInv
  <1> QED
    BY <1>4, <1>7 DEF SeeAllInv

\* A list that was just emptied, with the loops at their start.
LEMMA EmptySees ==
    ASSUME ncclNIbDevs' = 0, ncclNMergedIbDevs' = 0, Where' \in {"list", "clear"},
           walk'.mergeNics <=> MergeNics /\ walk'.pass = 1,
           host' = host, DevicesTypeOK, walk'.d = 1
    PROVE  FillInv' /\ SeenInv'
  <1>1. /\ IsFiniteSet(Slots) /\ \A m \in Slots : m \in Nat
        /\ {} \in SUBSET Slots
    BY FS_Interval, DevicesConstantsAssumption DEF Slots
  <1>2. \A m \in Slots : Size(m)' = 0
    <2> SUFFICES ASSUME NEW m \in Slots PROVE Size(m)' = 0
      OBVIOUS
    <2>1. ~(m < 0)
      BY <1>1
    <2>2. Before(m)' = <<>>
      BY <2>1 DEF Before
    <2> QED
      BY <2>2 DEF Size
  <1>3. ASSUME NEW f, \A m \in Slots : f[m] = 0 PROVE SumOver(f, Slots) = 0
    <2>1. \A m \in {} : f[m] = 0
      OBVIOUS
    <2>2. \A m \in Slots \ {} : f[m] = 0
      BY <1>3
    <2>3. SumOver(f, Slots) = Cardinality({}) * 0 /\ Cardinality({}) \in Nat
      BY <1>1, <2>1, <2>2, SumEqual
    <2> QED
      BY <2>3
  <1>4. SumOver(Sizes', Slots) = 0
    <2>1. PICK f : f = Sizes'
      OBVIOUS
    <2>2. \A m \in Slots : f[m] = 0
      BY <1>2, <2>1 DEF Sizes
    <2> QED
      BY <1>3, <2>1, <2>2
  <1>5. 0 .. ncclNMergedIbDevs' - 1 = {}
    OBVIOUS
  <1>6. Listed' = 0
    BY DEF Listed, Joined
  <1>7. FillInv'
    BY <1>4, <1>5, <1>6 DEF FillInv, FilledInOrder, Slots
  <1>8. Seen' = {}
    <2>1. UsablePorts' = UsablePorts /\ \A x \in UsablePorts : x[1] \in Nat /\ x[1] >= 1
      <3>1. \A x \in UsablePorts : x[1] \in 1 .. Len(hcas)
        BY UsableFacts
      <3>2. Len(hcas) \in Nat
        BY HostFacts DEF DevicesTypeOK
      <3> QED
        BY <3>1, <3>2, HostFixed
    <2> QED
      BY <2>1 DEF Seen, InLoop
  <1>9. \A c : SeenOf(c)' = {}
    BY <1>8 DEF SeenOf
  <1>10. \A c : SumOver(SizesOf(c)', Slots) = 0
    <2> SUFFICES ASSUME NEW c PROVE SumOver(SizesOf(c)', Slots) = 0
      OBVIOUS
    <2>1. PICK f : f = SizesOf(c)'
      OBVIOUS
    <2>2. \A m \in Slots : f[m] = 0
      BY <1>1, <2>1 DEF SizesOf
    <2> QED
      BY <1>3, <2>1, <2>2
  <1>11. Cardinality({}) = 0
    BY FS_EmptySet
  <1>12. SeenInv'
    BY <1>6, <1>8, <1>9, <1>10, <1>11 DEF SeenInv, Slots
  <1> QED
    BY <1>7, <1>12

\* Nothing is said of lists that are not counted.
LEMMA UncountedSees ==
    ASSUME ~Counted', walk'.mergeNics <=> MergeNics /\ walk'.pass = 1,
           Where' = "remerge" => walk'.d = 1
    PROVE  FillInv' /\ SeenInv'
  BY DEF FillInv, SeenInv

LEMMA LockSees ==
    ASSUME DevicesInv, SeeAllInv, NEW t \in Threads, Lock(t)
    PROVE  SeeAllInv'
  <1>1. /\ UNCHANGED <<host, ncclIbDevs, ncclNMergedIbDevs, ncclIbMergedDevs, walk, contexts,
                       met, ndev, faults>>
        /\ pc[t] = "lock" /\ ncclIbLock = NoThread /\ ncclIbLock' = t
    BY DEF Lock
  <1>2. pc \in [Threads -> Pcs] /\ t # NoThread
    BY DevicesConstantsAssumption DEF DevicesInv, DevicesTypeOK
  <1>3. CASE ncclNIbDevs = -1
    <2>1. /\ ncclNIbDevs' = 0 /\ pc'[t] = "begin"
          /\ \A u \in Threads \ {t} : pc'[u] = pc[u]
      BY <1>2, <1>3 DEF Lock, NotDiscovered, Goto
    <2>2. walk.pass = 1 /\ walk.mergeNics = MergeNics
      BY <1>3 DEF DevicesInv, CountInv, Fresh
    <2>3. Where' = "begin"
      BY <1>1, <1>2, <2>1 DEF Where
    <2>4. FillInv' /\ SeenInv'
      <3>1. walk'.mergeNics <=> MergeNics /\ walk'.pass = 1
        BY <1>1, <2>2, DevicesConstantsAssumption
      <3>2. ~Counted'
        BY <2>3 DEF Counted
      <3> QED
        BY <2>3, <3>1, <3>2, UncountedSees
    <2>5. ~Over /\ ~Over'
      BY <1>3, <2>3 DEF Over
    <2>6. ~(walk'.pass = 2)
      BY <1>1, <2>2
    <2>7. ResultInv'
      BY <1>1, <2>1, <2>3, <2>5, <2>6, ResultPending DEF SeeAllInv
    <2> QED
      BY <2>4, <2>7 DEF SeeAllInv
  <1>4. CASE ncclNIbDevs # -1
    <2>1. /\ UNCHANGED listVars /\ pc'[t] = "summary"
          /\ \A u \in Threads \ {t} : pc'[u] = pc[u]
      BY <1>1, <1>2, <1>4 DEF Lock, NotDiscovered, Goto, listVars
    <2>2. Where = "out" /\ Where' = "summary"
      BY <1>1, <1>2, <2>1 DEF Where
    <2>3. FillInv' /\ SeenInv'
      <3>1. Where \in Plain /\ Where' \in Plain /\ Where # "remerge"
            /\ Where \notin InLoop /\ Where' \notin InLoop
        BY <2>2 DEF Plain, InLoop
      <3>2. Seen' = Seen
        BY <1>1, <3>1, SeenSame
      <3> QED
        BY <1>1, <2>1, <3>1, <3>2, ListsFrame
    <2>4. Over' <=> Over
      BY <2>1, <2>2 DEF Over, listVars
    <2>5. ResultInv'
      BY <1>1, <2>1, <2>2, <2>4, ResultFrame DEF SeeAllInv
    <2> QED
      BY <2>3, <2>5 DEF SeeAllInv
  <1> QED
    BY <1>3, <1>4

\* The lists are counted, or counted down, from nothing.
LEMMA ResetSees ==
    ASSUME DevicesInv, SeeAllInv, NEW t \in Threads, ResetMerged(t) \/ UncountMerged(t)
    PROVE  SeeAllInv'
  <1>1. PICK q, p \in During :
            /\ pc[t] = q /\ Goto(t, p) /\ pc' = [pc EXCEPT ![t] = p]
            /\ \/ q = "begin" /\ p = "list"
               \/ q = "remerge" /\ p = "clear"
    BY DEF ResetMerged, UncountMerged, Goto, During, Held
  <1>2. /\ UNCHANGED <<host, ncclIbLock, ncclNIbDevs, walk, met, ndev, faults>>
        /\ ncclNMergedIbDevs' = 0
    BY DEF ResetMerged, UncountMerged
  <1>3. Where = q /\ Where' = p
    <2>1. q \in Held /\ p \in Held
      BY DEF During
    <2> QED
      BY <1>1, <1>2, <2>1, MovesTo
  <1>4. ncclNIbDevs' = 0 /\ walk'.d = 1
    <2>1. ncclNIbDevs = 0
      BY <1>1, <1>3 DEF DevicesInv, WalkInv
    <2>2. q = "begin" => walk.d = 1
      BY <1>3 DEF DevicesInv, CountInv, Fresh
    <2>3. q = "remerge" => walk.d = 1
      BY <1>3 DEF SeeAllInv, FillInv
    <2> QED
      BY <1>1, <1>2, <2>1, <2>2, <2>3
  <1>5. FillInv' /\ SeenInv'
    <2>1. walk'.mergeNics <=> MergeNics /\ walk'.pass = 1
      BY <1>2 DEF SeeAllInv, FillInv
    <2>2. DevicesTypeOK /\ Where' \in {"list", "clear"}
      BY <1>1, <1>3 DEF DevicesInv
    <2> QED
      BY <1>2, <1>4, <2>1, <2>2, EmptySees
  <1>6. p # "fail"
    BY <1>1
  <1>7. ResultInv'
    BY <1>1, <1>2, <1>6, ResultDuring DEF SeeAllInv
  <1> QED
    BY <1>5, <1>7 DEF SeeAllInv

LEMMA ClearSees ==
    ASSUME DevicesInv, SeeAllInv, NEW t \in Threads, ClearMerged(t)
    PROVE  SeeAllInv'
  <1>1. /\ pc[t] = "clear" /\ Goto(t, "open") /\ pc' = [pc EXCEPT ![t] = "open"]
        /\ UNCHANGED <<host, ncclIbLock, ncclNIbDevs, ncclNMergedIbDevs, walk, met, ndev, faults>>
    BY DEF ClearMerged, Goto
  <1>2. Where = "clear" /\ Where' = "open" /\ ncclNIbDevs \in Nat
    BY <1>1, MovesTo DEF Held
  <1>3. Listed' = Listed /\ Counted /\ Listed = 0
    BY <1>1, <1>2 DEF Listed, Joined, Counted, DevicesInv, WalkInv
  <1>4. 0 .. ncclNMergedIbDevs - 1 = {}
    BY <1>2, <1>3 DEF DevicesInv, CountInv
  <1>5. Seen' = Seen
    BY <1>1, <1>2, SeenSame DEF InLoop
  <1>6. FillInv' /\ SeenInv'
    BY <1>1, <1>2, <1>3, <1>4, <1>5, CountsFrame
  <1>7. "clear" \in During /\ "open" \in During
    BY DEF During, Held
  <1>8. ResultInv'
    BY <1>1, <1>7, ResultDuring DEF SeeAllInv
  <1> QED
    BY <1>6, <1>8 DEF SeeAllInv

LEMMA RebuildSees ==
    ASSUME DevicesInv, SeeAllInv, NEW t \in Threads, Rebuild(t)
    PROVE  SeeAllInv'
  <1>1. /\ pc[t] = "open" /\ Goto(t, "remerge") /\ pc' = [pc EXCEPT ![t] = "remerge"]
        /\ UNCHANGED <<host, ncclIbLock, met, ndev, faults>>
        /\ walk' = [walk EXCEPT !.pass = 2, !.mergeNics = FALSE, !.d = 1]
        /\ ~MoreDevices /\ Mixed
    BY DEF Rebuild, Goto
  <1>2. walk'.pass = 2 /\ walk'.mergeNics = FALSE /\ walk'.d = 1
    BY <1>1 DEF DevicesInv, DevicesTypeOK, Walk
  <1>3. Where' = "remerge"
    BY <1>1, MovesTo DEF Held
  <1>4. FillInv' /\ SeenInv'
    BY <1>2, <1>3, UncountedSees DEF Counted
  <1>5. AllFit' => EvenSizes = {}
    <2> SUFFICES ASSUME AllFit' PROVE EvenSizes = {}
      OBVIOUS
    <2>1. AllFit
      <3>1. UsablePorts' = UsablePorts
        BY <1>1, HostFixed
      <3> QED
        BY <1>1, <3>1 DEF AllFit
    <2>2. AllSeen
      BY <1>1, <2>1, EndSeesAll DEF SeeAllInv
    <2> QED
      BY <1>1, <2>2, MixedMeans DEF SeeAllInv
  <1>6. "remerge" \in During /\ "open" \in During
    BY DEF During, Held
  <1>7. ResultInv'
    BY <1>1, <1>5, <1>6, ResultDuring DEF SeeAllInv
  <1> QED
    BY <1>4, <1>7 DEF SeeAllInv

LEMMA EndListSees ==
    ASSUME DevicesInv, SeeAllInv, NEW t \in Threads, EndList(t)
    PROVE  SeeAllInv'
  <1>1. /\ UNCHANGED <<host, ncclIbLock, listVars, walk, met, ndev, faults>> /\ pc[t] = "open"
        /\ ~MoreDevices /\ ~Mixed /\ Goto(t, "summary")
    BY DEF EndList
  <1>2. (\A u \in Threads \ {t} : pc'[u] = pc[u]) /\ pc'[t] = "summary"
    BY DEF EndList, Goto, DevicesInv, DevicesTypeOK
  <1>3. Where = "open" /\ Where' = "summary"
    BY <1>1, MovesTo DEF Held
  <1>4. FillInv' /\ SeenInv'
    <2>1. Where \in Plain /\ Where' \in Plain /\ Where # "remerge"
          /\ Where \notin InLoop /\ Where' \notin InLoop
      BY <1>3 DEF Plain, InLoop
    <2>2. Seen' = Seen
      BY <1>1, <2>1, SeenSame
    <2> QED
      BY <1>1, <2>1, <2>2, ListsFrame
  <1>5. /\ EvenSizes' = EvenSizes /\ ExpectedDevices' = ExpectedDevices
        /\ UsablePorts' = UsablePorts /\ (AllFit' <=> AllFit)
    <2>1. EvenSizes' = EvenSizes /\ ExpectedDevices' = ExpectedDevices /\ UsablePorts' = UsablePorts
      BY <1>1, HostFixed
    <2> QED
      BY <1>1, <2>1 DEF AllFit
  <1>6. AllFit => ncclNMergedIbDevs = ExpectedDevices
    <2> SUFFICES ASSUME AllFit PROVE ncclNMergedIbDevs = ExpectedDevices
      OBVIOUS
    <2>1. AllSeen
      BY <1>1, EndSeesAll DEF SeeAllInv
    <2>2. CASE walk.mergeNics
      BY <1>1, <2>1, <2>2, MergedTotal DEF SeeAllInv
    <2>3. CASE ~walk.mergeNics
      <3>1. ncclNMergedIbDevs = Listed /\ Listed = Cardinality(UsablePorts)
        BY <2>1, <2>3 DEF SeeAllInv, FillInv, AllSeen
      <3>2. ~MergeNics \/ walk.pass = 2
        <4>1. walk.pass \in 1 .. 2
          BY WalkFields DEF DevicesInv, DevicesTypeOK
        <4> QED
          BY <2>3, <4>1 DEF SeeAllInv, FillInv
      <3>3. walk.pass = 2 => EvenSizes = {}
        BY DEF SeeAllInv, ResultInv
      <3> QED
        BY <3>1, <3>2, <3>3, ExpectedIs
    <2> QED
      BY <2>2, <2>3
  <1>7. ~Over
    BY <1>3 DEF Over
  <1>8. \A u \in Threads : ~(pc'[u] = "ok" /\ met'[u] # "during")
    <2> SUFFICES ASSUME NEW u \in Threads, pc'[u] = "ok", met'[u] # "during" PROVE FALSE
      OBVIOUS
    <2>1. u # t /\ pc[u] = "ok" /\ met[u] # "during"
      BY <1>1, <1>2
    <2> QED
      BY <1>7, <2>1 DEF SeeAllInv, ResultInv
  <1>9. CallersSeeAll'
    <2> SUFFICES ASSUME NEW u \in Threads, pc'[u] = "ready", met'[u] # "during", faults' = 0,
                        Cardinality(UsablePorts') <= MaxIbDevs
                 PROVE  ndev'[u] = ExpectedDevices'
      BY DEF CallersSeeAll
    <2>1. u # t /\ pc[u] = "ready" /\ met[u] # "during" /\ faults = 0
      BY <1>1, <1>2
    <2> QED
      BY <1>1, <1>5, <2>1 DEF SeeAllInv, ResultInv, CallersSeeAll
  <1>10. ResultInv'
    <2>1. (AllFit' /\ walk'.pass = 2) => EvenSizes' = {}
      BY <1>1, <1>5 DEF SeeAllInv, ResultInv
    <2>2. (AllFit' /\ Over') => ncclNMergedIbDevs' = ExpectedDevices'
      BY <1>1, <1>5, <1>6 DEF listVars
    <2>3. Where' # "fail"
      BY <1>3
    <2> QED
      BY <1>8, <1>9, <2>1, <2>2, <2>3 DEF ResultInv
  <1> QED
    BY <1>4, <1>10 DEF SeeAllInv

\* Steps of the owner that write no list.
LEMMA LoopSees ==
    ASSUME DevicesInv, SeeAllInv, NEW t \in Threads, NEW q \in {"list", "open", "port"},
           NEW p \in {"open", "port", "fail"}, pc[t] = q, pc' = [pc EXCEPT ![t] = p],
           ncclIbLock' = ncclIbLock, UNCHANGED <<host, listVars, met, ndev>>,
           faults' = 0 => faults = 0 /\ Seen' = Seen, p = "fail" => faults' > 0,
           walk'.pass = walk.pass, walk'.mergeNics = walk.mergeNics
    PROVE  SeeAllInv'
  <1>1. q \in During /\ p \in During /\ q \in Held /\ p \in Held /\ Goto(t, p)
        /\ q \in Plain /\ p \in Plain /\ q # "remerge"
    BY DEF During, Held, Goto, Plain
  <1>2. Where = q /\ Where' = p
    BY <1>1, MovesTo
  <1>3. FillInv' /\ SeenInv'
    BY <1>1, <1>2, ListsFrame
  <1>4. ResultInv'
    BY <1>1, ResultDuring DEF SeeAllInv
  <1> QED
    BY <1>3, <1>4 DEF SeeAllInv

LEMMA ListDevicesSees ==
    ASSUME DevicesInv, SeeAllInv, NEW t \in Threads, ListDevices(t)
    PROVE  SeeAllInv'
  <1>1. /\ pc[t] = "list" /\ pc' = [pc EXCEPT ![t] = "open"] /\ Goto(t, "open")
        /\ UNCHANGED <<host, ncclIbLock, listVars, walk, met, ndev, faults>>
    BY DEF ListDevices, Goto
  <1>2. Where = "list" /\ Where' = "open"
    BY <1>1, MovesTo DEF Held
  <1>3. Seen' = Seen
    BY <1>1, <1>2, SeenSame DEF InLoop
  <1> QED
    BY <1>1, <1>3, LoopSees

LEMMA FailsSee ==
    ASSUME DevicesInv, SeeAllInv, NEW t \in Threads, DiscoveryFails(t) \/ QueryFails(t)
    PROVE  SeeAllInv'
  <1>1. /\ pc[t] \in {"list", "open", "port"} /\ pc' = [pc EXCEPT ![t] = "fail"]
        /\ UNCHANGED <<host, ncclIbLock, listVars, walk, met, ndev>>
        /\ faults' = faults + 1
    BY DEF DiscoveryFails, QueryFails, InjectFault, Goto
  <1>2. faults' > 0 /\ faults' # 0
    BY <1>1, DevicesConstantsAssumption DEF DevicesInv, DevicesTypeOK
  <1> QED
    BY <1>1, <1>2, LoopSees

LEMMA OpenFailsSees ==
    ASSUME DevicesInv, SeeAllInv, NEW t \in Threads, OpenFails(t)
    PROVE  SeeAllInv'
  <1>1. /\ UNCHANGED <<host, ncclIbLock, listVars, pc, met, ndev>> /\ pc[t] = "open"
        /\ walk' = [walk EXCEPT !.d = @ + 1] /\ faults' = faults + 1
    BY DEF OpenFails, InjectFault
  <1>2. walk'.pass = walk.pass /\ walk'.mergeNics = walk.mergeNics
        /\ pc' = [pc EXCEPT ![t] = "open"]
    BY <1>1 DEF DevicesInv, DevicesTypeOK, Walk
  <1>3. faults' # 0
    BY <1>1, DevicesConstantsAssumption DEF DevicesInv, DevicesTypeOK
  <1> QED
    BY <1>1, <1>2, <1>3, LoopSees

LEMMA OpenDeviceSees ==
    ASSUME DevicesInv, SeeAllInv, NEW t \in Threads, OpenDevice(t)
    PROVE  SeeAllInv'
  <1>1. /\ UNCHANGED <<host, ncclIbLock, listVars, met, ndev, faults>> /\ pc[t] = "open"
        /\ walk' = [walk EXCEPT !.port = 1, !.nPorts = 0]
        /\ pc' = [pc EXCEPT ![t] = "port"] /\ Goto(t, "port")
    BY DEF OpenDevice, Goto
  <1>2. /\ walk'.pass = walk.pass /\ walk'.mergeNics = walk.mergeNics /\ walk'.d = walk.d
        /\ walk'.port = 1
    BY <1>1 DEF DevicesInv, DevicesTypeOK, Walk
  <1>3. Where = "open" /\ Where' = "port"
    BY <1>1, MovesTo DEF Held
  <1>4. Seen' = Seen
    <2>1. UsablePorts' = UsablePorts /\ \A x \in UsablePorts : ~(x[2] < 1)
      <3>1. \A x \in UsablePorts : x[2] \in 1 .. MaxPorts
        BY UsableFacts DEF DevicesInv
      <3> QED
        BY <1>1, <3>1, HostFixed, DevicesConstantsAssumption
    <2> QED
      BY <1>2, <1>3, <2>1 DEF Seen, InLoop, Joined
  <1> QED
    BY <1>1, <1>2, <1>4, LoopSees

LEMMA SkipPortSees ==
    ASSUME DevicesInv, SeeAllInv, NEW t \in Threads, SkipPort(t)
    PROVE  SeeAllInv'
  <1>1. /\ UNCHANGED <<host, ncclIbLock, listVars, pc, met, ndev>> /\ pc[t] = "port"
        /\ walk' = [walk EXCEPT !.port = @ + 1]
    BY DEF SkipPort
  <1>2. /\ walk'.pass = walk.pass /\ walk'.mergeNics = walk.mergeNics /\ walk'.d = walk.d
        /\ walk'.port = walk.port + 1 /\ walk.port \in Nat
        /\ pc' = [pc EXCEPT ![t] = "port"]
    BY <1>1 DEF DevicesInv, DevicesTypeOK, Walk
  <1>3. faults' = 0 => faults = 0 /\ ~UsablePort(hcas[walk.d].ports[walk.port])
    <2>1. faults \in Nat
      BY DevicesConstantsAssumption DEF DevicesInv, DevicesTypeOK
    <2> QED
      BY <2>1 DEF SkipPort, InjectFault
  <1>4. Where = "port" /\ Where' = "port"
    <2>1. Goto(t, "port")
      BY <1>2 DEF Goto
    <2> QED
      BY <1>1, <2>1, MovesTo DEF Held
  <1>5. ASSUME ~UsablePort(hcas[walk.d].ports[walk.port]) PROVE Seen' = Seen
    <2>1. UsablePorts' = UsablePorts
      BY <1>1, HostFixed
    <2>2. ASSUME NEW x \in UsablePorts, x[1] = walk.d
          PROVE  x[2] < walk.port + 1 <=> x[2] < walk.port
      <3>1. x[2] \in 1 .. MaxPorts /\ UsablePort(hcas[x[1]].ports[x[2]])
        BY UsableFacts DEF DevicesInv
      <3>2. x[2] # walk.port
        BY <1>5, <2>2, <3>1
      <3> QED
        BY <1>2, <3>1, <3>2, DevicesConstantsAssumption
    <2> QED
      BY <1>2, <1>4, <2>1, <2>2 DEF Seen, InLoop, Joined
  <1> QED
    BY <1>1, <1>2, <1>3, <1>5, LoopSees

LEMMA EndDeviceSees ==
    ASSUME DevicesInv, SeeAllInv, NEW t \in Threads, EndDevice(t)
    PROVE  SeeAllInv'
  <1>1. /\ UNCHANGED <<host, ncclIbLock, listVars, met, ndev, faults>> /\ pc[t] = "port"
        /\ walk' = [walk EXCEPT !.d = @ + 1] /\ ~MorePorts
        /\ pc' = [pc EXCEPT ![t] = "open"] /\ Goto(t, "open")
    BY DEF EndDevice, Goto
  <1>2. Where = "port" /\ Where' = "open"
    BY <1>1, MovesTo DEF Held
  <1>3. /\ walk'.pass = walk.pass /\ walk'.mergeNics = walk.mergeNics
        /\ walk'.d = walk.d + 1 /\ walk.d \in Nat /\ walk.port \in Nat
    BY <1>1 DEF DevicesInv, DevicesTypeOK, Walk
  <1>4. Seen' = Seen
    <2>1. UsablePorts' = UsablePorts
      BY <1>1, HostFixed
    <2>2. ASSUME NEW x \in UsablePorts
          PROVE  /\ x[1] < walk.d + 1 <=> x[1] < walk.d \/ x[1] = walk.d
                 /\ x[1] = walk.d => x[2] < walk.port
      <3>1. x[1] \in Nat /\ x[2] \in Nat /\ x[2] <= Len(hcas[x[1]].ports) /\ x[1] \in DOMAIN hcas
        <4>1. /\ x[1] \in 1 .. Len(hcas) /\ x[2] \in 1 .. MaxPorts /\ Len(hcas) \in Nat
              /\ x[2] <= Len(hcas[x[1]].ports) /\ x[1] \in DOMAIN hcas
          BY UsableFacts, HostFacts DEF DevicesInv, DevicesTypeOK
        <4> QED
          BY <4>1, DevicesConstantsAssumption
      <3>2. PICK n \in Nat : n = Len(hcas[x[1]].ports)
        BY <3>1, HostFacts DEF DevicesInv, DevicesTypeOK
      <3>3. x[1] = walk.d => ~(walk.port <= n)
        BY <1>1, <3>2 DEF MorePorts
      <3> QED
        BY <1>3, <3>1, <3>2, <3>3
    <2> QED
      BY <1>2, <1>3, <2>1, <2>2 DEF Seen, InLoop, Joined
  <1> QED
    BY <1>1, <1>3, <1>4, LoopSees

-----------------------------------------------------------------------------

LEMMA AddPortSees ==
    ASSUME DevicesInv, SeeAllInv, NEW t \in Threads, AddPort(t)
    PROVE  SeeAllInv'
  <1>1. PICK n \in Slots, dev \in IbDev :
             /\ n = ncclNIbDevs /\ n \in Nat
             /\ ncclIbDevs' = [ncclIbDevs EXCEPT ![n] = dev]
             /\ Where = "port" /\ Where' = "entry"
             /\ walk' = [walk EXCEPT !.mergedDev = FindMatchingDev(dev)]
             /\ UNCHANGED <<host, ncclIbLock, ncclNIbDevs, ncclNMergedIbDevs,
                            ncclIbMergedDevs, contexts, met, ndev, faults>>
    BY AddPortIs
  <1>2. Listed = n /\ Listed' = n /\ Counted
    BY <1>1 DEF Listed, Joined, Counted
  <1>3. ASSUME NEW m \in 0 .. ncclNMergedIbDevs - 1 PROVE First(m)' = First(m)
    <2>1. PICK k \in Members(m) : k = ncclIbMergedDevs[m].devs[1]
      BY MembersAre
    <2>2. k \in Slots /\ k \in Nat /\ k < n
      BY <1>1, <1>2, MembersAre
    <2>3. k # n
      BY <1>1, <2>2
    <2>4. ncclIbDevs'[k] = ncclIbDevs[k]
      BY <1>1, <2>2, <2>3 DEF DevicesInv, DevicesTypeOK
    <2> QED
      BY <1>1, <2>1, <2>4 DEF First
  <1>4. /\ walk'.pass = walk.pass /\ walk'.mergeNics = walk.mergeNics
        /\ walk'.d = walk.d /\ walk'.port = walk.port
    BY <1>1 DEF DevicesInv, DevicesTypeOK, Walk
  <1>5. Seen' = Seen
    <2>1. UsablePorts' = UsablePorts
      BY <1>1, HostFixed
    <2> QED
      BY <1>1, <1>4, <2>1 DEF Seen, InLoop, Joined
  <1>6. FillInv' /\ SeenInv'
    BY <1>1, <1>2, <1>3, <1>4, <1>5, CountsFrame
  <1>7. ResultInv'
    <2>1. pc[t] = "port" /\ pc' = [pc EXCEPT ![t] = "entry"]
          /\ "port" \in During /\ "entry" \in During
      BY DEF AddPort, Goto, During, Held
    <2> QED
      BY <1>1, <1>4, <2>1, ResultDuring DEF SeeAllInv
  <1> QED
    BY <1>6, <1>7 DEF SeeAllInv

LEMMA NewSlotSees ==
    ASSUME DevicesInv, SeeAllInv, NEW t \in Threads, NewMerged(t) \/ SetFirst(t)
    PROVE  SeeAllInv'
  <1>1. PICK p, q \in Filled :
             pc[t] = q /\ Goto(t, p) /\ q \in {"entry", "first"} /\ p \in {"first", "count"}
    BY DEF NewMerged, SetFirst, Filled
  <1>2. /\ UNCHANGED <<host, ncclIbLock, ncclNIbDevs, ncclIbDevs, ncclNMergedIbDevs, walk,
                       contexts, met, ndev, faults>>
        /\ \E s : ncclIbMergedDevs' = [ncclIbMergedDevs EXCEPT ![walk.mergedDev].devs = s]
        /\ q = "entry" => walk.mergedDev = ncclNMergedIbDevs
    BY <1>1 DEF NewMerged, SetFirst
  <1>3. Where = q /\ Where' = p /\ ncclNIbDevs \in Nat
    BY <1>1, <1>2, FilledStep
  <1>4. walk.mergedDev = ncclNMergedIbDevs
    BY <1>1, <1>2, <1>3 DEF DevicesInv, ChoiceInv
  <1>5. ASSUME NEW m \in 0 .. ncclNMergedIbDevs - 1
        PROVE  ncclIbMergedDevs'[m] = ncclIbMergedDevs[m] /\ First(m)' = First(m)
    <2>1. m \in Slots /\ m < ncclNMergedIbDevs
      BY MembersAre
    <2>2. m # walk.mergedDev
      BY <1>4, <2>1, DevicesConstantsAssumption DEF Slots
    <2>3. ncclIbMergedDevs'[m] = ncclIbMergedDevs[m]
      BY <1>2, <2>1, <2>2 DEF DevicesInv, DevicesTypeOK
    <2> QED
      BY <1>2, <2>3 DEF First
  <1>6. Listed' = Listed /\ Counted /\ Where' # "remerge"
    BY <1>1, <1>2, <1>3 DEF Listed, Joined, Counted
  <1>7. Seen' = Seen
    <2>1. UsablePorts' = UsablePorts
      BY <1>2, HostFixed
    <2> QED
      BY <1>1, <1>2, <1>3, <2>1 DEF Seen, InLoop, Joined
  <1>8. FillInv' /\ SeenInv'
    BY <1>2, <1>5, <1>6, <1>7, CountsFrame
  <1>9. ResultInv'
    <2>1. pc' = [pc EXCEPT ![t] = p] /\ p \in During /\ q \in During /\ p # "fail"
      BY <1>1 DEF Goto, During, Held
    <2> QED
      BY <1>1, <1>2, <2>1, ResultDuring DEF SeeAllInv
  <1> QED
    BY <1>8, <1>9 DEF SeeAllInv

LEMMA AddSpeedSees ==
    ASSUME DevicesInv, SeeAllInv, NEW t \in Threads, AddSpeed(t)
    PROVE  SeeAllInv'
  <1>1. /\ pc[t] = "speed" /\ Goto(t, "number") /\ pc' = [pc EXCEPT ![t] = "number"]
        /\ UNCHANGED <<host, ncclIbLock, ncclNIbDevs, ncclIbDevs, ncclNMergedIbDevs, walk,
                       contexts, met, ndev, faults>>
        /\ ncclIbMergedDevs' = [ncclIbMergedDevs EXCEPT ![walk.mergedDev].speed =
                                @ + ncclIbDevs[ncclNIbDevs].speed]
    BY DEF AddSpeed, Goto
  <1>2. Where = "speed" /\ Where' = "number" /\ ncclNIbDevs \in Nat
    BY <1>1, MovesTo DEF Held
  <1>3. ASSUME NEW m \in 0 .. ncclNMergedIbDevs - 1
        PROVE  ncclIbMergedDevs'[m].devs = ncclIbMergedDevs[m].devs /\ First(m)' = First(m)
    <2>1. m \in Slots
      BY MembersAre
    <2>2. ncclIbMergedDevs'[m].devs = ncclIbMergedDevs[m].devs
      BY <1>1, <2>1 DEF DevicesInv, DevicesTypeOK, MergedDev
    <2> QED
      BY <1>1, <2>2 DEF First
  <1>4. Listed' = Listed /\ Counted
    BY <1>1, <1>2 DEF Listed, Joined, Counted
  <1>5. Seen' = Seen
    <2>1. UsablePorts' = UsablePorts
      BY <1>1, HostFixed
    <2> QED
      BY <1>1, <1>2, <2>1 DEF Seen, InLoop, Joined
  <1>6. FillInv' /\ SeenInv'
    BY <1>1, <1>2, <1>3, <1>4, <1>5, CountsFrame
  <1>7. ResultInv'
    <2>1. "speed" \in During /\ "number" \in During
      BY DEF During, Held
    <2> QED
      BY <1>1, <2>1, ResultDuring DEF SeeAllInv
  <1> QED
    BY <1>6, <1>7 DEF SeeAllInv

LEMMA CountPortSees ==
    ASSUME DevicesInv, SeeAllInv, NEW t \in Threads, CountPort(t)
    PROVE  SeeAllInv'
  <1>1. /\ pc[t] = "number" /\ Goto(t, "port") /\ pc' = [pc EXCEPT ![t] = "port"]
        /\ ncclNIbDevs' = ncclNIbDevs + 1
        /\ walk' = [walk EXCEPT !.port = @ + 1, !.nPorts = CountsPort]
        /\ UNCHANGED <<host, ncclIbLock, ncclIbDevs, ncclNMergedIbDevs, ncclIbMergedDevs,
                       met, ndev, faults>>
    BY DEF CountPort, Goto
  <1>2. Where = "number" /\ Where' = "port" /\ ncclNIbDevs \in Nat
    BY <1>1, MovesTo DEF Held
  <1>3. \A m : First(m)' = First(m)
    BY <1>1 DEF First
  <1>4. Listed' = Listed /\ Counted
    BY <1>1, <1>2 DEF Listed, Joined, Counted
  <1>5. /\ walk'.pass = walk.pass /\ walk'.mergeNics = walk.mergeNics
        /\ walk'.d = walk.d /\ walk'.port = walk.port + 1 /\ walk.port \in Nat
    BY <1>1 DEF DevicesInv, DevicesTypeOK, Walk
  <1>6. Seen' = Seen
    <2>1. UsablePorts' = UsablePorts
      BY <1>1, HostFixed
    <2>2. \A x \in UsablePorts : x[2] < walk.port + 1 <=> x[2] < walk.port \/ x[2] = walk.port
      <3>1. \A x \in UsablePorts : x[2] \in 1 .. MaxPorts
        BY UsableFacts DEF DevicesInv
      <3> QED
        BY <1>5, <3>1, DevicesConstantsAssumption
    <2> QED
      BY <1>2, <1>5, <2>1, <2>2 DEF Seen, InLoop, Joined
  <1>7. FillInv' /\ SeenInv'
    BY <1>1, <1>2, <1>3, <1>4, <1>5, <1>6, CountsFrame
  <1>8. ResultInv'
    <2>1. "number" \in During /\ "port" \in During
      BY DEF During, Held
    <2> QED
      BY <1>1, <1>5, <2>1, ResultDuring DEF SeeAllInv
  <1> QED
    BY <1>7, <1>8 DEF SeeAllInv

\* What listing a port does to the sizes and first entries of merged devices.
Grown(m, dev) ==
    /\ m \in Nat /\ ncclNMergedIbDevs \in Nat /\ m <= ncclNMergedIbDevs
    /\ ncclNMergedIbDevs' = IF m = ncclNMergedIbDevs THEN m + 1 ELSE ncclNMergedIbDevs
    /\ \A o \in Slots : Size(o) \in Nat
    /\ Size(m)' = Size(m) + 1
    /\ \A o \in Slots \ {m} : Size(o)' = Size(o)
    /\ m = ncclNMergedIbDevs => Size(m) = 0
    /\ \A o \in Slots : o < ncclNMergedIbDevs => First(o)' = First(o)
    /\ m = ncclNMergedIbDevs => First(m)' = dev
    /\ m < ncclNMergedIbDevs => NicOf(First(m)) = NicOf(dev)

LEMMA JoinGrows ==
    ASSUME DevicesInv, NEW n \in Slots, NEW m \in Slots, PortJoined(n, m), NEW dev,
           dev = ncclIbDevs[n]
    PROVE  Grown(m, dev) /\ Counted /\ Counted'
  <1>1. /\ m \in Nat /\ ncclNMergedIbDevs \in Nat /\ m <= ncclNMergedIbDevs /\ n \in Nat
        /\ ncclNIbDevs = n /\ ncclNIbDevs' = n /\ ncclIbDevs' = ncclIbDevs
        /\ Where \in Choosing /\ Where' = "speed"
        /\ ncclNMergedIbDevs' = IF m = ncclNMergedIbDevs THEN m + 1 ELSE ncclNMergedIbDevs
    BY DevicesConstantsAssumption DEF PortJoined, Slots
  <1>2. Counted /\ Counted'
    BY <1>1 DEF Counted, Choosing
  <1>3. (\A o \in Slots : Size(o) \in Nat) /\ (m = ncclNMergedIbDevs => Size(m) = 0)
    BY <1>1, <1>2, SizeFacts
  <1>4. Size(m)' = Size(m) + 1
    <2>1. m < ncclNMergedIbDevs'
      BY <1>1
    <2>2. Len(ncclIbMergedDevs'[m].devs) = Len(Before(m)) + 1
      BY AddedMembers
    <2> QED
      BY <2>1, <2>2 DEF Size, Before
  <1>5. \A o \in Slots \ {m} : /\ ncclIbMergedDevs'[o] = ncclIbMergedDevs[o]
                               /\ o < ncclNMergedIbDevs' <=> o < ncclNMergedIbDevs
    <2>1. \A o \in Slots : o \in Nat
      BY DevicesConstantsAssumption DEF Slots
    <2> QED
      BY <1>1, <2>1 DEF PortJoined
  <1>6. \A o \in Slots \ {m} : Size(o)' = Size(o)
    BY <1>5 DEF Size, Before
  <1>7. ASSUME NEW o \in Slots, o < ncclNMergedIbDevs PROVE First(o)' = First(o)
    <2>1. ncclIbMergedDevs'[o].devs[1] = ncclIbMergedDevs[o].devs[1]
      <3>1. CASE o # m
        BY <1>5, <3>1
      <3>2. CASE o = m
        BY <1>7, <3>2, MembersAdded
      <3> QED
        BY <3>1, <3>2
    <2> QED
      BY <1>1, <2>1 DEF First
  <1>8. m = ncclNMergedIbDevs => First(m)' = dev
    <2>1. m = ncclNMergedIbDevs => ncclIbMergedDevs'[m].devs[1] = n
      BY <1>1, MembersAdded
    <2> QED
      BY <1>1, <2>1 DEF First
  <1>9. m < ncclNMergedIbDevs => NicOf(First(m)) = NicOf(dev)
    BY DEF PortJoined, SameNic, NicOf
  <1> QED
    BY <1>1, <1>2, <1>3, <1>4, <1>6, <1>7, <1>8, <1>9 DEF Grown

LEMMA JoinFills ==
    ASSUME DevicesInv, FillInv, NEW n \in Slots, NEW m \in Slots, PortJoined(n, m),
           NEW dev, dev = ncclIbDevs[n], Grown(m, dev), Counted
    PROVE  FillInv'
  <1>1. /\ n \in Nat /\ m \in Nat /\ IsFiniteSet(Slots) /\ ncclNMergedIbDevs \in Nat
        /\ Listed = n /\ Listed' = n + 1 /\ m <= ncclNMergedIbDevs
        /\ walk' = walk /\ Where' = "speed"
    BY SizeFacts DEF PortJoined, Grown
  <1>2. SumOver(Sizes', Slots) = n + 1
    <2>1. PICK f, h : f = Sizes /\ h = Sizes'
      OBVIOUS
    <2>2. \A o \in Slots : f[o] = Size(o) /\ h[o] = Size(o)'
      BY <2>1 DEF Sizes, Slots
    <2>3. \A o \in Slots : f[o] \in Int
      <3>1. \A o \in Slots : Size(o) \in Nat
        BY DEF Grown
      <3>2. \A o \in Slots : f[o] = Size(o)
        BY <2>2
      <3> QED
        BY <3>1, <3>2
    <2>4. h[m] = f[m] + 1
      BY <2>2 DEF Grown
    <2>5. \A o \in Slots \ {m} : h[o] = f[o]
      BY <2>2 DEF Grown
    <2>6. SumOver(h, Slots) = SumOver(f, Slots) + 1
      <3>1. IsFiniteSet(Slots) /\ 1 \in Int
        BY <1>1
      <3> QED
        BY <2>3, <2>4, <2>5, <3>1, SumRaise
    <2>7. SumOver(f, Slots) = n
      BY <1>1, <2>1 DEF FillInv
    <2> QED
      BY <2>1, <2>6, <2>7
  <1>3. ~walk.mergeNics => ncclNMergedIbDevs' = Listed'
    <2> SUFFICES ASSUME ~walk.mergeNics PROVE ncclNMergedIbDevs' = Listed'
      OBVIOUS
    <2>1. m = ncclNMergedIbDevs
      BY <1>1 DEF PortJoined
    <2>2. ncclNMergedIbDevs' = m + 1 /\ ncclNMergedIbDevs = Listed
      BY <2>1 DEF Grown, FillInv
    <2> QED
      BY <1>1, <2>1, <2>2
  <1>4. ASSUME NEW o \in Slots, o < ncclNMergedIbDevs PROVE HasRoom(o)' => HasRoom(o)
    <2>1. PICK a \in Nat : a = Size(o)
      BY DEF Grown
    <2>2. Size(o)' \in {a, a + 1}
      BY <2>1 DEF Grown
    <2>3. o < ncclNMergedIbDevs'
      <3>1. o \in Nat
        BY DevicesConstantsAssumption DEF Slots
      <3> QED
        BY <1>1, <1>4, <3>1 DEF Grown
    <2>4. HasRoom(o)' <=> Size(o)' < MaxDevsPerNic
      BY <2>3 DEF HasRoom, Size, Before
    <2>5. HasRoom(o) <=> a < MaxDevsPerNic
      BY <1>4, <2>1, RoomIs
    <2> QED
      BY <2>2, <2>4, <2>5, DevicesConstantsAssumption
  <1>5. ASSUME walk.mergeNics, NEW a \in 0 .. ncclNMergedIbDevs' - 1,
               NEW b \in 0 .. ncclNMergedIbDevs' - 1, a # b,
               NicOf(First(a)') = NicOf(First(b)')
        PROVE  ~(HasRoom(a)' /\ HasRoom(b)')
    <2>1. 0 .. ncclNMergedIbDevs - 1 \in SUBSET Slots
      BY SizeFacts
    <2>2. \A o \in 0 .. ncclNMergedIbDevs' - 1 : \/ o \in 0 .. ncclNMergedIbDevs - 1
                                                 \/ o = m /\ m = ncclNMergedIbDevs
      BY <1>1 DEF Grown
    <2>3. \A o \in 0 .. ncclNMergedIbDevs - 1 :
              First(o)' = First(o) /\ o \in Slots /\ o < ncclNMergedIbDevs
      BY <1>1, <2>1 DEF Grown
    <2>4. CASE a \in 0 .. ncclNMergedIbDevs - 1 /\ b \in 0 .. ncclNMergedIbDevs - 1
      <3>1. NicOf(First(a)) = NicOf(First(b)) /\ a \in Slots /\ b \in Slots
        BY <1>5, <2>3, <2>4
      <3>2. ~(HasRoom(a) /\ HasRoom(b))
        BY <1>5, <2>4, <3>1 DEF FillInv, FilledInOrder
      <3> QED
        BY <1>4, <2>3, <2>4, <3>1, <3>2
    <2>5. ASSUME NEW o \in 0 .. ncclNMergedIbDevs - 1, m = ncclNMergedIbDevs,
                 NicOf(First(o)') = NicOf(First(m)')
          PROVE  ~HasRoom(o)'
      <3>1. NicOf(First(o)) = NicOf(dev)
        BY <2>3, <2>5 DEF Grown
      <3>2. SameNic(dev, First(o))
        <4>1. NicOf(dev).path = NicOf(First(o)).path /\ NicOf(dev).guid = NicOf(First(o)).guid
              /\ NicOf(dev).link = NicOf(First(o)).link
          BY <3>1
        <4> QED
          BY <4>1 DEF NicOf, SameNic
      <3>3. ~HasRoom(o)
        BY <1>5, <2>5, <3>2 DEF PortJoined
      <3> QED
        BY <1>4, <2>3, <3>3
    <2> QED
      BY <1>5, <2>2, <2>4, <2>5
  <1>6. walk.mergeNics => FilledInOrder'
    BY <1>5 DEF FilledInOrder, NicOf
  <1> QED
    BY <1>1, <1>2, <1>3, <1>6 DEF FillInv

LEMMA JoinPasses ==
    ASSUME DevicesInv, SeenInv, NEW n \in Slots, NEW m \in Slots, PortJoined(n, m),
           NEW dev, dev = ncclIbDevs[n], Grown(m, dev), Counted,
           <<walk.d, walk.port>> \in UsablePorts, NicOf(dev) = Nic(<<walk.d, walk.port>>)
    PROVE  SeenInv'
  <1> DEFINE p == <<walk.d, walk.port>>
  <1>0. /\ host' = host /\ faults' = faults /\ walk' = walk
        /\ Where \in Choosing /\ Where' = "speed"
    BY DEF PortJoined
  <1> SUFFICES ASSUME faults = 0 PROVE SeenInv'
    BY <1>0 DEF SeenInv
  <1>1. /\ n \in Nat /\ m \in Nat /\ IsFiniteSet(Slots) /\ ncclNMergedIbDevs \in Nat
        /\ Listed = n /\ Listed' = n + 1 /\ m <= ncclNMergedIbDevs
    BY SizeFacts DEF PortJoined, Grown
  <1>2. UsablePorts' = UsablePorts /\ \A x : Nic(x)' = Nic(x)
    BY <1>0, HostFixed
  <1>3. Seen' = Seen \cup {p} /\ p \notin Seen
    <2>1. walk.d \in Nat /\ walk.port \in Nat
      BY WalkFields DEF DevicesInv, DevicesTypeOK
    <2>2. p \notin Seen
      BY <1>0, <2>1 DEF Seen, Choosing, Joined
    <2>3. ASSUME NEW x \in UsablePorts
          PROVE  (x[1] = walk.d /\ (x[2] < walk.port \/ x[2] = walk.port)) <=>
                    (x[1] = walk.d /\ x[2] < walk.port) \/ x = p
      <3>1. x = <<x[1], x[2]>>
        BY UsableFacts DEF DevicesInv
      <3>2. x = p <=> x[1] = walk.d /\ x[2] = walk.port
        BY <3>1
      <3> QED
        BY <3>2
    <2>4. Seen' = {x \in UsablePorts : \/ x[1] < walk.d
                                       \/ x[1] = walk.d /\ (x[2] < walk.port \/ x[2] = walk.port)}
      BY <1>0, <1>2 DEF Seen, InLoop, Joined
    <2>5. Seen = {x \in UsablePorts : x[1] < walk.d \/ (x[1] = walk.d /\ x[2] < walk.port)}
      BY <1>0 DEF Seen, InLoop, Joined, Choosing
    <2>6. p \in UsablePorts
      OBVIOUS
    <2> HIDE DEF p
    <2> QED
      BY <2>2, <2>3, <2>4, <2>5, <2>6
  <1>4. IsFiniteSet(Seen) /\ Cardinality(Seen) \in Nat
    <2>1. Seen \in SUBSET UsablePorts /\ IsFiniteSet(UsablePorts)
      BY UsableFacts DEF Seen, DevicesInv
    <2> QED
      BY <2>1, FS_Subset, FS_CardinalityType
  <1>5. NicOf(dev) = Nic(p)
    OBVIOUS
  <1> HIDE DEF p
  <1>6. Cardinality(Seen') = n + 1
    <2>1. Cardinality(Seen) = n
      BY <1>1 DEF SeenInv
    <2> QED
      BY <1>1, <1>3, <1>4, <2>1, FS_AddElement
  <1>7. ASSUME NEW c PROVE SumOver(SizesOf(c)', Slots) = Cardinality(SeenOf(c)')
    <2>1. PICK f, h : f = SizesOf(c) /\ h = SizesOf(c)'
      OBVIOUS
    <2>2. SumOver(f, Slots) = Cardinality(SeenOf(c))
      BY <2>1 DEF SeenInv
    <2>3. /\ \A o \in Slots : f[o] = IF o < ncclNMergedIbDevs /\ NicOf(First(o)) = c
                                     THEN Size(o) ELSE 0
          /\ \A o \in Slots : h[o] = IF o < ncclNMergedIbDevs' /\ NicOf(First(o)') = c
                                     THEN Size(o)' ELSE 0
      BY <2>1 DEF SizesOf, NicOf, Slots
    <2>4. \A o \in Slots : f[o] \in Int
      BY <2>3 DEF Grown
    <2>5. ASSUME NEW o \in Slots \ {m} PROVE h[o] = f[o]
      <3>1. o < ncclNMergedIbDevs' <=> o < ncclNMergedIbDevs
        <4>1. o \in Nat
          BY SizeFacts
        <4> QED
          BY <1>1, <4>1 DEF Grown
      <3>2. o < ncclNMergedIbDevs => First(o)' = First(o)
        BY DEF Grown
      <3>3. Size(o)' = Size(o)
        BY DEF Grown
      <3> QED
        BY <2>3, <3>1, <3>2, <3>3
    <2>6. m < ncclNMergedIbDevs'
      BY <1>1 DEF Grown
    <2>7. NicOf(First(m)') = NicOf(dev)
      <3>1. CASE m < ncclNMergedIbDevs
        <4>1. First(m)' = First(m)
          BY <3>1 DEF Grown
        <4> QED
          BY <3>1, <4>1 DEF Grown
      <3>2. CASE m = ncclNMergedIbDevs
        <4>1. First(m)' = dev
          BY <3>2 DEF Grown
        <4> QED
          BY <4>1
      <3> QED
        BY <1>1, <3>1, <3>2
    <2>8. CASE c = NicOf(dev)
      <3>1. h[m] = Size(m)'
        BY <2>3, <2>6, <2>7, <2>8
      <3>2. f[m] = Size(m)
        <4>1. CASE m < ncclNMergedIbDevs
          BY <2>3, <2>8, <4>1 DEF Grown
        <4>2. CASE m = ncclNMergedIbDevs
          <5>1. ~(m < ncclNMergedIbDevs) /\ Size(m) = 0
            BY <1>1, <4>2 DEF Grown
          <5> QED
            BY <2>3, <5>1
        <4> QED
          BY <1>1, <4>1, <4>2
      <3>3. h[m] = f[m] + 1
        BY <3>1, <3>2 DEF Grown
      <3>4. SumOver(h, Slots) = SumOver(f, Slots) + 1
        <4>1. IsFiniteSet(Slots) /\ 1 \in Int
          BY <1>1
        <4> QED
          BY <2>4, <2>5, <3>3, <4>1, SumRaise
      <3>5. SeenOf(c)' = SeenOf(c) \cup {p} /\ p \notin SeenOf(c)
        BY <1>2, <1>3, <1>5, <2>8 DEF SeenOf
      <3>6. IsFiniteSet(SeenOf(c))
        <4>1. SeenOf(c) \in SUBSET Seen
          BY DEF SeenOf
        <4> QED
          BY <1>4, <4>1, FS_Subset
      <3>7. Cardinality(SeenOf(c)') = Cardinality(SeenOf(c)) + 1
        BY <3>5, <3>6, FS_AddElement
      <3> QED
        BY <2>1, <2>2, <3>4, <3>7
    <2>9. CASE c # NicOf(dev)
      <3>1. h[m] = 0
        BY <2>3, <2>7, <2>9
      <3>2. f[m] = 0
        <4>1. m < ncclNMergedIbDevs => NicOf(First(m)) # c
          BY <2>9 DEF Grown
        <4> QED
          BY <2>3, <4>1
      <3>3. \A o \in Slots : h[o] = f[o]
        BY <2>5, <3>1, <3>2
      <3>4. SumOver(h, Slots) = SumOver(f, Slots)
        BY <1>1, <2>4, <3>3, SumSame
      <3>5. SeenOf(c)' = SeenOf(c)
        BY <1>2, <1>3, <1>5, <2>9 DEF SeenOf
      <3> QED
        BY <2>1, <2>2, <3>4, <3>5
    <2> QED
      BY <2>8, <2>9
  <1> QED
    BY <1>1, <1>6, <1>7 DEF SeenInv, Slots

LEMMA JoinSees ==
    ASSUME DevicesInv, SeeAllInv, NEW t \in Threads, JoinMerged(t) \/ CountMerged(t)
    PROVE  SeeAllInv'
  <1>1. PICK n \in Slots, m \in Slots : PortJoined(n, m)
    BY JoinIs
  <1>2. PICK dev : dev = ncclIbDevs[n]
    OBVIOUS
  <1>3. Grown(m, dev) /\ Counted
    BY <1>1, <1>2, JoinGrows
  <1>4. FillInv'
    BY <1>1, <1>2, <1>3, JoinFills DEF SeeAllInv
  <1>5. /\ n = ncclNIbDevs /\ Where \in Filled /\ Where \in InLoop
        /\ UNCHANGED <<host, ncclIbLock, walk, met, ndev, faults>>
    BY <1>1 DEF PortJoined, Choosing, Filled, InLoop
  <1>6. walk.d \in DOMAIN hcas /\ walk.port \in 1 .. MaxPorts
        /\ walk.port <= Len(hcas[walk.d].ports)
        /\ UsablePort(hcas[walk.d].ports[walk.port])
    <2>1. walk.d \in DOMAIN hcas /\ walk.port > walk.nPorts
          /\ walk.port <= Len(hcas[walk.d].ports)
          /\ UsablePort(hcas[walk.d].ports[walk.port])
      BY <1>5 DEF DevicesInv, WalkInv
    <2>2. walk.port \in Nat /\ walk.nPorts \in Nat
      BY WalkFields DEF DevicesInv, DevicesTypeOK
    <2>3. Len(hcas[walk.d].ports) <= MaxPorts /\ Len(hcas[walk.d].ports) \in Nat
      BY <2>1, HostFacts DEF DevicesInv, PortsBounded, DevicesTypeOK
    <2> QED
      BY <2>1, <2>2, <2>3, DevicesConstantsAssumption
  <1>7. <<walk.d, walk.port>> \in UsablePorts
    BY <1>6 DEF UsablePorts
  <1>8. NicOf(dev) = Nic(<<walk.d, walk.port>>)
    <2>1. /\ dev.link = hcas[walk.d].ports[walk.port].link
          /\ dev.pciPath = PciPath(hcas[walk.d]) /\ dev.guid = hcas[walk.d].guid
      BY <1>2, <1>5 DEF DevicesInv, EntryInv, EntryOf, OfPort
    <2> QED
      BY <2>1 DEF NicOf, Nic
  <1>9. SeenInv'
    BY <1>1, <1>2, <1>3, <1>7, <1>8, JoinPasses DEF SeeAllInv
  <1>10. ResultInv'
    <2>1. PICK q \in During : pc[t] = q /\ pc' = [pc EXCEPT ![t] = "speed"]
                              /\ "speed" \in During
      BY DEF JoinMerged, CountMerged, Goto, During, Held
    <2> QED
      BY <1>5, <2>1, ResultDuring DEF SeeAllInv
  <1> QED
    BY <1>4, <1>9, <1>10 DEF SeeAllInv

LEMMA InitSees == Init => SeeAllInv
  <1> SUFFICES ASSUME Init PROVE SeeAllInv
    OBVIOUS
  <1>1. /\ ncclNIbDevs = -1 /\ Where = "out"
        /\ walk.pass = 1 /\ walk.mergeNics = MergeNics
        /\ \A t \in Threads : pc[t] \in {"call", "absent"}
    BY DEF Init, DevicesInit, Where
  <1>2. ~Counted /\ ~Over
    BY <1>1 DEF Counted, Over
  <1>3. FillInv
    BY <1>1, <1>2, DevicesConstantsAssumption DEF FillInv
  <1>4. SeenInv
    BY <1>2 DEF SeenInv
  <1>5. ResultInv
    BY <1>1, <1>2 DEF ResultInv, CallersSeeAll
  <1> QED
    BY <1>3, <1>4, <1>5 DEF SeeAllInv

LEMMA NextSees ==
    ASSUME DevicesInv, SeeAllInv, DevicesNext
    PROVE  SeeAllInv'
  <1>1. PICK t \in Threads :
            \/ Call(t) \/ Lock(t) \/ ResetMerged(t) \/ ListDevices(t)
            \/ OpenDevice(t) \/ OpenFails(t) \/ QueryFails(t)
            \/ SkipPort(t) \/ AddPort(t) \/ JoinMerged(t)
            \/ NewMerged(t) \/ SetFirst(t) \/ CountMerged(t)
            \/ AddSpeed(t) \/ CountPort(t) \/ EndDevice(t)
            \/ Rebuild(t) \/ UncountMerged(t) \/ ClearMerged(t)
            \/ EndList(t) \/ Unlock(t)
            \/ DiscoveryFails(t) \/ UnlockFailed(t)
            \/ NetDevices(t)
    BY DEF DevicesNext
  <1> QED
    BY <1>1, CallSees, LockSees, ResetSees, ListDevicesSees, OpenDeviceSees, OpenFailsSees,
       FailsSee, SkipPortSees, AddPortSees, JoinSees, NewSlotSees, AddSpeedSees, CountPortSees,
       EndDeviceSees, RebuildSees, ClearSees, EndListSees, UnlockSees, NetDevicesSees

\* Steps of the set-up leave all of it alone, but for a failing call.
LEMMA SetupSees ==
    ASSUME DevicesInv, SeeAllInv, UNCHANGED <<host, listVars, walk, pc, met, ndev>>,
           Where' = Where, faults' = faults \/ faults' > 0
    PROVE  SeeAllInv'
  <1>1. faults' = 0 => faults = 0
    OBVIOUS
  <1>2. FillInv' /\ SeenInv'
    BY <1>1, ListsFrame, SeenSame
  <1>3. /\ UsablePorts' = UsablePorts /\ EvenSizes' = EvenSizes
        /\ ExpectedDevices' = ExpectedDevices
    BY HostFixed
  <1>4. (Over' <=> Over) /\ (AllFit' => AllFit) /\ ncclNMergedIbDevs' = ncclNMergedIbDevs
    BY <1>1, <1>3 DEF Over, AllFit, listVars
  <1>5. Where' = "fail" => faults' > 0
    BY DEF SeeAllInv, ResultInv
  <1>6. CallersSeeAll'
    BY <1>1, <1>3 DEF SeeAllInv, ResultInv, CallersSeeAll
  <1>7. ResultInv'
    BY <1>3, <1>4, <1>5, <1>6 DEF SeeAllInv, ResultInv
  <1> QED
    BY <1>2, <1>7 DEF SeeAllInv

\* A thread that calls anpNetInit before the discovery begins or after it ended
\* is told by anpNetDevices of all devices, however many threads call and
\* whether or not the list was built twice: one device per port, or per group
\* of ports of a NIC where all groups come out alike.  For every host whose
\* usable ports fit into the array, if no call of libibverbs fails.
THEOREM CallersAreToldAll == Spec => []CallersSeeAll
  <1>1. Init => SeeAllInv
    BY InitSees
  <1>2. StartupInv /\ SeeAllInv /\ [Next]_vars => SeeAllInv'
    <2> SUFFICES ASSUME StartupInv, SeeAllInv, [Next]_vars PROVE SeeAllInv'
      OBVIOUS
    <2>0. DevicesInv /\ DevicesTypeOK
      BY DEF StartupInv, DevicesInv
    <2>1. CASE DevicesNext
      BY <2>0, <2>1, NextSees
    <2>2. CASE UNCHANGED devicesVars
      <3>1. Where' = Where
        BY <2>2, ElsewhereFrame
      <3> QED
        BY <2>0, <2>2, <3>1, SetupSees DEF devicesVars
    <2>3. CASE \E t \in Threads : CreateQpFails(t)
      <3>1. UNCHANGED <<host, listVars, walk, pc, met, ndev, ncclIbLock>> /\ faults' = faults + 1
        BY <2>3 DEF CreateQpFails, InjectFault
      <3>2. faults' > 0
        BY <2>0, <3>1, DevicesConstantsAssumption DEF DevicesTypeOK
      <3>3. Where' = Where
        BY <3>1 DEF Where
      <3> QED
        BY <2>0, <3>1, <3>2, <3>3, SetupSees
    <2>4. DevicesNext \/ UNCHANGED devicesVars \/ \E t \in Threads : CreateQpFails(t)
      BY DEF Next, vars, Begin, ChooseGids, TestUd, ReadUd, AssignUd, ToggleUd, MarkUd, SetMask,
             CreateQp, EndQps
    <2> QED
      BY <2>1, <2>2, <2>3, <2>4
  <1>3. SeeAllInv => CallersSeeAll
    BY DEF SeeAllInv, ResultInv
  <1> QED
    BY <1>1, <1>2, <1>3, StartupInvariance, PTL DEF Spec
=============================================================================
