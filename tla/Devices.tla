------------------------------ MODULE Devices ------------------------------
(***************************************************************************)
(* Device discovery (src/src/net_ib.cc): anpNetInit builds the lists       *)
(* ncclIbDevs (one entry per usable port) and ncclIbMergedDevs (one per    *)
(* NIC that RCCL sees), once per process; anpNetDevices and                *)
(* anpNetGetProperties report them.                                        *)
(*                                                                         *)
(* Several threads may call anpNetInit.  The first test of ncclNIbDevs is  *)
(* made without the lock, and so are all reads of a caller that passed it; *)
(* one action makes one write that such a caller can see.  (The fields of  *)
(* an entry are written together: no merged device leads to it yet.)  What *)
(* libibverbs and sysfs report is chosen in the initial state and does not *)
(* change; every device has a path in sysfs.  Registration of the signal   *)
(* and exit handlers is part of module Telemetry; interface names, log     *)
(* lines and relaxed ordering leave no state that is modelled.             *)
(***************************************************************************)
EXTENDS Integers, Sequences, FiniteSets, FiniteSetsExt, GidIndex

CONSTANTS
    Threads,        \* the threads that call the plugin
    NoThread,
    Hosts,          \* what is tried, a set of Host
    MaxIbDevs,      \* MAX_IB_DEVS
    MaxDevsPerNic,  \* NCCL_IB_MAX_DEVS_PER_NIC
    MergeVfs,       \* ncclParamIbMergeVfs()
    MergeNics,      \* ncclParamIbMergeNics()
    ArParam,        \* ncclParamIbAdaptiveRouting(), -2 when not set
    MaxPorts,       \* bound: ports of a device
    MaxFaults       \* bound: failing calls

\* What ibv_query_port and matchIfList say of a port, with its GID table.
Port == [active : BOOLEAN, link : {"IB", "RoCE", "other"}, speed : Nat,
         width : Nat, selected : BOOLEAN, gids : Seq(Gid)]

\* What ibv_query_device says of a device, and the PCI address of its path.
Hca == [guid : Nat, bus : Nat, slot : Nat, fn : Nat, max_qp : Nat,
        ports : Seq(Port)]

\* A host: its devices, the threads that call the plugin and the settings its
\* user made.
Host == [hcas : Seq(Hca), callers : SUBSET Threads, gid : UserGid]

ASSUME DevicesConstantsAssumption ==
    /\ NoThread \notin Threads
    /\ MaxIbDevs \in Nat \ {0} /\ MaxDevsPerNic \in Nat \ {0}
    /\ MergeVfs \in BOOLEAN /\ MergeNics \in BOOLEAN
    /\ ArParam \in Int /\ MaxPorts \in Nat /\ MaxFaults \in Nat
    /\ \A h \in Hosts : /\ h \in Host
                       /\ \A d \in DOMAIN h.hcas :
                             Len(h.hcas[d].ports) <= MaxPorts

VARIABLES
    host,               \* what the plugin runs on
    ncclIbLock,         \* owner of the lock
    ncclNIbDevs, ncclIbDevs,
    ncclNMergedIbDevs, ncclIbMergedDevs,
    walk,               \* locals of anpNetInit, of whoever has the lock
    contexts,           \* open device contexts
    pc,                 \* where each thread is
    met,                \* what the unlocked test of a thread came upon
    ndev,               \* what anpNetDevices told a thread, -1 before
    faults

hcas == host.hcas
listVars == <<ncclNIbDevs, ncclIbDevs, ncclNMergedIbDevs, ncclIbMergedDevs>>
devicesVars == <<host, ncclIbLock, listVars, walk, contexts, pc, met, ndev,
                 faults>>

Slots == 0 .. MaxIbDevs + MaxPorts
Contexts == (1 .. 2) \X Nat
PciPaths == [bus : Nat, slot : Nat]

IbDev == [hca : Nat, portNum : Nat, guid : Nat, pciPath : PciPaths,
          link : {"IB", "RoCE"}, speed : Nat, realPort : Nat, maxQp : Nat,
          ar : Int, context : Contexts]
NoIbDev == [hca |-> 0, portNum |-> 0, guid |-> 0,
            pciPath |-> [bus |-> 0, slot |-> 0], link |-> "IB", speed |-> 0,
            realPort |-> 0, maxQp |-> 0, ar |-> 0, context |-> <<1, 0>>]
MergedDev == [devs : Seq(Slots), speed : Nat]
NoMergedDev == [devs |-> <<>>, speed |-> 0]
Walk == [pass : 1 .. 2, mergeNics : BOOLEAN, d : Nat, port : Nat, nPorts : Nat,
         mergedDev : Slots]

Pcs == {"absent", "call", "lock", "begin", "list", "open", "port", "entry",
        "first", "count", "speed", "number", "remerge", "clear", "summary",
        "fail", "ok", "ready", "error"}

DevicesTypeOK ==
    /\ host \in Host
    /\ ncclIbLock \in Threads \cup {NoThread}
    /\ ncclNIbDevs \in Slots \cup {-1}
    /\ ncclIbDevs \in [Slots -> IbDev]
    /\ ncclNMergedIbDevs \in Slots \cup {-1}
    /\ ncclIbMergedDevs \in [Slots -> MergedDev]
    /\ \A n \in Slots : Len(ncclIbMergedDevs[n].devs) <= MaxDevsPerNic
    /\ walk \in Walk
    /\ contexts \subseteq Contexts
    /\ pc \in [Threads -> Pcs]
    /\ met \in [Threads -> {"none", "before", "during", "after"}]
    /\ ndev \in [Threads -> Slots \cup {-1}]
    /\ faults \in 0 .. MaxFaults

DevicesInit ==
    /\ host \in Hosts
    /\ ncclIbLock = NoThread
    /\ ncclNIbDevs = -1
    /\ ncclIbDevs = [n \in Slots |-> NoIbDev]
    /\ ncclNMergedIbDevs = -1
    /\ ncclIbMergedDevs = [n \in Slots |-> NoMergedDev]
    /\ walk = [pass |-> 1, mergeNics |-> MergeNics, d |-> 1, port |-> 1,
               nPorts |-> 0, mergedDev |-> 0]
    /\ contexts = {}
    /\ pc = [t \in Threads |-> IF t \in host.callers THEN "call" ELSE "absent"]
    /\ met = [t \in Threads |-> "none"]
    /\ ndev = [t \in Threads |-> -1]
    /\ faults = 0

Goto(t, label) == pc' = [pc EXCEPT ![t] = label]
InjectFault == faults < MaxFaults /\ faults' = faults + 1

-----------------------------------------------------------------------------
(* What is read of a port *)

\* firstBitSet(val, max)
FirstBitSet(val, max) ==
    CHOOSE i \in 0 .. max :
        /\ i < max => (val \div 2^i) % 2 = 1
        /\ \A k \in 0 .. i - 1 : (val \div 2^k) % 2 = 0

IbvWidths == <<1, 4, 8, 12, 2>>
IbvSpeeds == <<2500, 5000, 10000, 10000, 14000, 25000, 50000, 100000>>

\* ncclIbSpeed(active_speed) * ncclIbWidth(active_width)
PortSpeed(p) ==
    IbvSpeeds[FirstBitSet(p.speed, Len(IbvSpeeds) - 1) + 1]
        * IbvWidths[FirstBitSet(p.width, Len(IbvWidths) - 1) + 1]

\* ncclIbGetPciPath: the function of the address is dropped, and with
\* MergeVfs the slot too.
PciPath(h) == [bus |-> h.bus, slot |-> IF MergeVfs THEN 0 ELSE h.slot]

\* Earlier entries of the same path count as ports.
RealPort(path) ==
    Cardinality({n \in 0 .. ncclNIbDevs - 1 : ncclIbDevs[n].pciPath = path})

UsablePort(p) == p.active /\ p.link # "other" /\ p.selected

IbDevOf(d, k) ==
    LET h == hcas[d]
        p == h.ports[k]
    IN  [hca |-> d, portNum |-> k, guid |-> h.guid, pciPath |-> PciPath(h),
         link |-> p.link, speed |-> PortSpeed(p),
         realPort |-> RealPort(PciPath(h)), maxQp |-> h.max_qp,
         ar |-> IF ArParam # -2 THEN ArParam ELSE IF p.link = "IB" THEN 1 ELSE 0,
         context |-> <<walk.pass, d>>]

\* Mutant: the link layers are not compared.
SameNicAnyLink(a, b) == a.pciPath = b.pciPath /\ a.guid = b.guid

SameNic(a, b) == a.pciPath = b.pciPath /\ a.guid = b.guid /\ a.link = b.link

\* Mutant: one member more than devs holds.
HasRoomForOneMore(m) == Len(ncclIbMergedDevs[m].devs) <= MaxDevsPerNic

HasRoom(m) == Len(ncclIbMergedDevs[m].devs) < MaxDevsPerNic

\* ncclIbFindMatchingDev: the first merged device with room that entry dev
\* belongs to, or the next free one.
FindMatchingDev(dev) ==
    LET fits == {m \in 0 .. ncclNMergedIbDevs - 1 :
                    /\ HasRoom(m)
                    /\ SameNic(dev, ncclIbDevs[ncclIbMergedDevs[m].devs[1]])}
    IN  IF walk.mergeNics /\ fits # {}
        THEN CHOOSE m \in fits : \A o \in fits : m <= o
        ELSE ncclNMergedIbDevs

-----------------------------------------------------------------------------
(* anpNetInit *)

\* The test without the lock; ncclNIbDevs is no longer -1 as soon as the
\* discovery begins.
Call(t) ==
    /\ pc[t] = "call"
    /\ IF ncclNIbDevs = -1
       THEN Goto(t, "lock") /\ met' = [met EXCEPT ![t] = "before"]
       ELSE /\ Goto(t, "ok")
            /\ met' = [met EXCEPT ![t] =
                           IF ncclIbLock = NoThread THEN "after" ELSE "during"]
    /\ UNCHANGED <<host, ncclIbLock, listVars, walk, contexts, ndev, faults>>

\* Mutant: the test is not made again with the lock held.
DiscoversAnyway == TRUE

\* The second test, with the lock.
NotDiscovered == ncclNIbDevs = -1

Lock(t) ==
    /\ pc[t] = "lock"
    /\ ncclIbLock = NoThread
    /\ ncclIbLock' = t
    /\ IF NotDiscovered
       THEN Goto(t, "begin") /\ ncclNIbDevs' = 0
       ELSE Goto(t, "summary") /\ UNCHANGED ncclNIbDevs
    /\ UNCHANGED <<host, ncclIbDevs, ncclNMergedIbDevs, ncclIbMergedDevs, walk,
                   contexts, met, ndev, faults>>

ResetMerged(t) ==
    /\ pc[t] = "begin"
    /\ ncclNMergedIbDevs' = 0
    /\ Goto(t, "list")
    /\ UNCHANGED <<host, ncclIbLock, ncclNIbDevs, ncclIbDevs, ncclIbMergedDevs,
                   walk, contexts, met, ndev, faults>>

\* The interface and the device list are found.
ListDevices(t) ==
    /\ pc[t] = "list"
    /\ Goto(t, "open")
    /\ UNCHANGED <<host, ncclIbLock, listVars, walk, contexts, met, ndev, faults>>

\* The condition of the loop over the devices.
RoomForDevice == ncclNIbDevs < MaxIbDevs

MoreDevices == walk.d <= Len(hcas) /\ RoomForDevice

OpenDevice(t) ==
    /\ pc[t] = "open"
    /\ MoreDevices
    /\ contexts' = contexts \cup {<<walk.pass, walk.d>>}
    /\ walk' = [walk EXCEPT !.port = 1, !.nPorts = 0]
    /\ Goto(t, "port")
    /\ UNCHANGED <<host, ncclIbLock, listVars, met, ndev, faults>>

\* A device that cannot be opened, or opened and queried, is left out.
OpenFails(t) ==
    /\ pc[t] = "open"
    /\ MoreDevices
    /\ InjectFault
    /\ walk' = [walk EXCEPT !.d = @ + 1]
    /\ UNCHANGED <<host, ncclIbLock, listVars, contexts, pc, met, ndev>>

\* A device that can be opened, but neither queried nor closed.
QueryFails(t) ==
    /\ pc[t] = "open"
    /\ MoreDevices
    /\ InjectFault
    /\ contexts' = contexts \cup {<<walk.pass, walk.d>>}
    /\ Goto(t, "fail")
    /\ UNCHANGED <<host, ncclIbLock, listVars, walk, met, ndev>>

MorePorts == walk.port <= Len(hcas[walk.d].ports)

\* A port that is down, of another link layer or not selected is skipped, and
\* so is one that cannot be queried.
SkipPort(t) ==
    /\ pc[t] = "port"
    /\ MorePorts
    /\ IF UsablePort(hcas[walk.d].ports[walk.port])
       THEN InjectFault ELSE UNCHANGED faults
    /\ walk' = [walk EXCEPT !.port = @ + 1]
    /\ UNCHANGED <<host, ncclIbLock, listVars, contexts, pc, met, ndev>>

\* The entry behind the last is filled and its merged device looked for.
AddPort(t) ==
    LET dev == IbDevOf(walk.d, walk.port)
    IN  /\ pc[t] = "port"
        /\ MorePorts
        /\ UsablePort(hcas[walk.d].ports[walk.port])
        /\ ncclIbDevs' = [ncclIbDevs EXCEPT ![ncclNIbDevs] = dev]
        /\ walk' = [walk EXCEPT !.mergedDev = FindMatchingDev(dev)]
        /\ Goto(t, "entry")
        /\ UNCHANGED <<host, ncclIbLock, ncclNIbDevs, ncclNMergedIbDevs,
                       ncclIbMergedDevs, contexts, met, ndev, faults>>

\* A merged device that is found gets the entry as its next member.
JoinMerged(t) ==
    /\ pc[t] = "entry"
    /\ walk.mergedDev # ncclNMergedIbDevs
    /\ ncclIbMergedDevs' = [ncclIbMergedDevs EXCEPT ![walk.mergedDev].devs =
                                Append(@, ncclNIbDevs)]
    /\ Goto(t, "speed")
    /\ UNCHANGED <<host, ncclIbLock, ncclNIbDevs, ncclIbDevs, ncclNMergedIbDevs,
                   walk, contexts, met, ndev, faults>>

\* A new one is given its size, and devs[0] is zero as in all of the array,
NewMerged(t) ==
    /\ pc[t] = "entry"
    /\ walk.mergedDev = ncclNMergedIbDevs
    /\ ncclIbMergedDevs' = [ncclIbMergedDevs EXCEPT ![walk.mergedDev].devs = <<0>>]
    /\ Goto(t, "first")
    /\ UNCHANGED <<host, ncclIbLock, ncclNIbDevs, ncclIbDevs, ncclNMergedIbDevs,
                   walk, contexts, met, ndev, faults>>

\* its member,
SetFirst(t) ==
    /\ pc[t] = "first"
    /\ ncclIbMergedDevs' = [ncclIbMergedDevs EXCEPT ![walk.mergedDev].devs =
                                <<ncclNIbDevs>>]
    /\ Goto(t, "count")
    /\ UNCHANGED <<host, ncclIbLock, ncclNIbDevs, ncclIbDevs, ncclNMergedIbDevs,
                   walk, contexts, met, ndev, faults>>

\* and is counted.
CountMerged(t) ==
    /\ pc[t] = "count"
    /\ ncclNMergedIbDevs' = ncclNMergedIbDevs + 1
    /\ Goto(t, "speed")
    /\ UNCHANGED <<host, ncclIbLock, ncclNIbDevs, ncclIbDevs, ncclIbMergedDevs,
                   walk, contexts, met, ndev, faults>>

AddSpeed(t) ==
    /\ pc[t] = "speed"
    /\ ncclIbMergedDevs' = [ncclIbMergedDevs EXCEPT ![walk.mergedDev].speed =
                                @ + ncclIbDevs[ncclNIbDevs].speed]
    /\ Goto(t, "number")
    /\ UNCHANGED <<host, ncclIbLock, ncclNIbDevs, ncclIbDevs, ncclNMergedIbDevs,
                   walk, contexts, met, ndev, faults>>

\* Mutant: an entry does not keep the context of its device open.
CountsNoPort == walk.nPorts

CountsPort == walk.nPorts + 1

CountPort(t) ==
    /\ pc[t] = "number"
    /\ ncclNIbDevs' = ncclNIbDevs + 1
    /\ walk' = [walk EXCEPT !.port = @ + 1, !.nPorts = CountsPort]
    /\ Goto(t, "port")
    /\ UNCHANGED <<host, ncclIbLock, ncclIbDevs, ncclNMergedIbDevs,
                   ncclIbMergedDevs, contexts, met, ndev, faults>>

\* After the last port: a device without an entry is closed.
EndDevice(t) ==
    /\ pc[t] = "port"
    /\ ~MorePorts
    /\ contexts' = IF walk.nPorts = 0 THEN contexts \ {<<walk.pass, walk.d>>}
                   ELSE contexts
    /\ walk' = [walk EXCEPT !.d = @ + 1]
    /\ Goto(t, "open")
    /\ UNCHANGED <<host, ncclIbLock, listVars, met, ndev, faults>>

\* Single-port and multi-port NICs are mixed.
Mixed ==
    walk.mergeNics /\ \E m \in 0 .. ncclNMergedIbDevs - 1 :
        Len(ncclIbMergedDevs[m].devs) # Len(ncclIbMergedDevs[0].devs)

\* The list is built again without merging: the counts and then the array are
\* cleared.  The devices are opened again and get another thread for their
\* events; what the first pass opened stays open.
Rebuild(t) ==
    /\ pc[t] = "open"
    /\ ~MoreDevices
    /\ Mixed
    /\ walk' = [walk EXCEPT !.pass = 2, !.mergeNics = FALSE, !.d = 1]
    /\ ncclNIbDevs' = 0
    /\ Goto(t, "remerge")
    /\ UNCHANGED <<host, ncclIbLock, ncclIbDevs, ncclNMergedIbDevs,
                   ncclIbMergedDevs, contexts, met, ndev, faults>>

UncountMerged(t) ==
    /\ pc[t] = "remerge"
    /\ ncclNMergedIbDevs' = 0
    /\ Goto(t, "clear")
    /\ UNCHANGED <<host, ncclIbLock, ncclNIbDevs, ncclIbDevs, ncclIbMergedDevs,
                   walk, contexts, met, ndev, faults>>

\* memset(ncclIbMergedDevs, 0, ...)
ClearMerged(t) ==
    /\ pc[t] = "clear"
    /\ ncclIbMergedDevs' = [n \in Slots |-> NoMergedDev]
    /\ Goto(t, "open")
    /\ UNCHANGED <<host, ncclIbLock, ncclNIbDevs, ncclIbDevs, ncclNMergedIbDevs,
                   walk, contexts, met, ndev, faults>>

EndList(t) ==
    /\ pc[t] = "open"
    /\ ~MoreDevices
    /\ ~Mixed
    /\ Goto(t, "summary")
    /\ UNCHANGED <<host, ncclIbLock, listVars, walk, contexts, met, ndev, faults>>

Unlock(t) ==
    /\ pc[t] = "summary"
    /\ ncclIbLock' = NoThread
    /\ Goto(t, "ok")
    /\ UNCHANGED <<host, listVars, walk, contexts, met, ndev, faults>>

\* goto fail: there is no interface or device list, a context cannot be closed
\* or the list not freed.  The counts stay as they are, so that nobody
\* discovers again.
DiscoveryFails(t) ==
    /\ \/ pc[t] = "list"
       \/ pc[t] = "port" /\ ~MorePorts /\ walk.nPorts = 0
       \/ pc[t] = "open" /\ ~MoreDevices /\ ~Mixed
    /\ InjectFault
    /\ Goto(t, "fail")
    /\ UNCHANGED <<host, ncclIbLock, listVars, walk, contexts, met, ndev>>

UnlockFailed(t) ==
    /\ pc[t] = "fail"
    /\ ncclIbLock' = NoThread
    /\ Goto(t, "error")
    /\ UNCHANGED <<host, listVars, walk, contexts, met, ndev, faults>>

-----------------------------------------------------------------------------

\* anpNetDevices
NetDevices(t) ==
    /\ pc[t] = "ok"
    /\ ndev' = [ndev EXCEPT ![t] = ncclNMergedIbDevs]
    /\ Goto(t, "ready")
    /\ UNCHANGED <<host, ncclIbLock, listVars, walk, contexts, met, faults>>

\* anpNetGetProperties, as far as it depends on the device: the speed of all
\* members, the rest of the first.
GetProperties(m) ==
    LET first == ncclIbDevs[ncclIbMergedDevs[m].devs[1]]
    IN  [speed |-> ncclIbMergedDevs[m].speed, pciPath |-> first.pciPath,
         guid |-> first.guid, port |-> first.portNum + first.realPort,
         maxComms |-> first.maxQp]

DevicesNext ==
    \E t \in Threads :
        \/ Call(t) \/ Lock(t) \/ ResetMerged(t) \/ ListDevices(t)
        \/ OpenDevice(t) \/ OpenFails(t) \/ QueryFails(t)
        \/ SkipPort(t) \/ AddPort(t) \/ JoinMerged(t)
        \/ NewMerged(t) \/ SetFirst(t) \/ CountMerged(t)
        \/ AddSpeed(t) \/ CountPort(t) \/ EndDevice(t)
        \/ Rebuild(t) \/ UncountMerged(t) \/ ClearMerged(t)
        \/ EndList(t) \/ Unlock(t)
        \/ DiscoveryFails(t) \/ UnlockFailed(t)
        \/ NetDevices(t)

-----------------------------------------------------------------------------
(* Properties *)

Members(m) == {ncclIbMergedDevs[m].devs[i] : i \in DOMAIN ncclIbMergedDevs[m].devs}

\* The speed of a set of entries, all together.
SpeedOf(devs) == MapThenSumSet(LAMBDA n : ncclIbDevs[n].speed, devs)

\* The discovery is between two writes that belong together: an entry has
\* joined a merged device and is not counted, or the first count of a rebuild
\* is cleared.
Torn == \E t \in Threads : pc[t] \in {"speed", "number", "remerge"}

\* The two lists describe the same ports: each entry is in a merged device, no
\* merged device has other members, and the speed reported is that of them all.
ListsAgree ==
    /\ \A n \in 0 .. ncclNIbDevs - 1 :
          \E m \in 0 .. ncclNMergedIbDevs - 1 : n \in Members(m)
    /\ \A m \in 0 .. ncclNMergedIbDevs - 1 :
          /\ Members(m) \subseteq 0 .. ncclNIbDevs - 1
          /\ GetProperties(m).speed = SpeedOf(Members(m))

\* What a caller finds in merged device m: entries of ports of one NIC whose
\* contexts are open, so that anpNetGetProperties may take their properties
\* from one of them ("should be the same"), in no other merged device, and a
\* speed that misses at most the last of them.
Readable(m) ==
    LET devs == ncclIbMergedDevs[m].devs
    IN  /\ devs # <<>>
        /\ \A n \in Members(m) :
              /\ ncclIbDevs[n].context \in contexts
              /\ ncclIbDevs[n].pciPath = GetProperties(m).pciPath
              /\ ncclIbDevs[n].guid = GetProperties(m).guid
              /\ ncclIbDevs[n].link = ncclIbDevs[devs[1]].link
              /\ \A o \in 0 .. ncclNMergedIbDevs - 1 : n \in Members(o) => o = m
        /\ GetProperties(m).speed \in
              {SpeedOf(Members(m)), SpeedOf(Members(m) \ {devs[Len(devs)]})}

\* Every merged device that is counted can be read at every moment of the
\* discovery, the rebuild included, by callers that take no lock; and the
\* lists agree but for the moments between two writes that belong together:
\* whenever a device is looked at, in both passes, and for good once the lock
\* is free, also after a failure.
MergedSound ==
    /\ \A m \in 0 .. ncclNMergedIbDevs - 1 : Readable(m)
    /\ ~Torn => ListsAgree

\* The usable ports of the host, and the NIC each belongs to.
UsablePorts ==
    {x \in (DOMAIN hcas) \X (1 .. MaxPorts) :
        x[2] <= Len(hcas[x[1]].ports) /\ UsablePort(hcas[x[1]].ports[x[2]])}
Nic(x) == [path |-> PciPath(hcas[x[1]]), guid |-> hcas[x[1]].guid,
           link |-> hcas[x[1]].ports[x[2]].link]
PortsOfNic(x) == {y \in UsablePorts : Nic(y) = Nic(x)}

\* How many devices RCCL should see: one per NIC, or per MaxDevsPerNic ports of
\* it, if that gives all of them the same number of ports, and else one per
\* port.
ExpectedDevices ==
    LET n == Cardinality(UsablePorts)
        sizes == {Cardinality(PortsOfNic(x)) : x \in UsablePorts}
        even == {k \in 1 .. MaxDevsPerNic :
                    \/ k = MaxDevsPerNic /\ \A s \in sizes : s % k = 0
                    \/ sizes = {k}}
    IN  IF MergeNics /\ even # {} THEN n \div (CHOOSE k \in even : TRUE) ELSE n

\* A thread that called anpNetInit before the discovery began or after it
\* ended is told of all devices, however many threads call: the discovery runs
\* once, and whoever waits for the lock finds it done.  (A thread that calls
\* while it is under way passes the unlocked test and may be told of none.)
CallersSeeAll ==
    \A t \in Threads :
        (/\ pc[t] = "ready" /\ met[t] # "during" /\ faults = 0
         /\ Cardinality(UsablePorts) <= MaxIbDevs)
            => ndev[t] = ExpectedDevices

\* Every entry that a caller can reach lies in the array and has an open
\* context, in both passes of a rebuild.  The room in the array is tested once
\* per device, so that this is sure only where a device has one port.
EntriesValid ==
    /\ (\A d \in DOMAIN hcas : Len(hcas[d].ports) <= 1) => ncclNIbDevs <= MaxIbDevs
    /\ \A n \in 0 .. ncclNIbDevs - 1 : ncclIbDevs[n].context \in contexts
=============================================================================
