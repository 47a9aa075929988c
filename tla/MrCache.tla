------------------------------ MODULE MrCache ------------------------------
(***************************************************************************)
(* The protection domain and the memory-region cache of every device:      *)
(* ncclIbInitCommDevBase, ncclIbDestroyBase, ncclIbRegMrDmaBuf and         *)
(* anpNetDeregMr of net_ib.cc.                                             *)
(*                                                                         *)
(* All communicators of a process share the devices.  A communicator works *)
(* on its NDevs devices one after the other and takes the lock of a device *)
(* for each, so the calls of two communicators interleave between devices  *)
(* and one step here is one critical section.  A registration returns one  *)
(* MR for each device; several handles may hold the same one.              *)
(***************************************************************************)
EXTENDS Integers, Sequences, FiniteSets, SequencesExt

CONSTANTS
    Comms,          \* the communicators that may be open at a time
    FlushComms,     \* those that register gpuFlush.gpuMr (receive side)
    NDevs,          \* ndevs, the devices of a communicator
    MaxHandles,     \* bound: the handles a communicator holds at a time
    Regions,        \* the buffers registered: [data, size]
    PageSize,       \* sysconf(_SC_PAGESIZE)
    MinCapacity,    \* the first capacity of a cache: 32
    MaxFaults       \* bound: the calls that fail

Region == [data : Nat, size : Nat \ {0}]

ASSUME MrConstantsAssumption ==
    /\ FlushComms \subseteq Comms /\ IsFiniteSet(Comms)
    /\ NDevs \in Nat \ {0} /\ MaxHandles \in Nat \ {0}
    /\ PageSize \in Nat \ {0} /\ MinCapacity \in Nat \ {0}
    /\ Regions \subseteq Region
    /\ MaxFaults \in Nat

Devs == 1 .. NDevs
Handles == 1 .. MaxHandles
Null == 0

\* Pointers that ibv_reg_mr and ibv_alloc_pd return; a freed one is reused.
\* A failed call leaks at most one MR of a device, a communicator that fails
\* stops, so there are enough of each.
MrIds == 1 .. MaxHandles * Cardinality(Comms) + MaxFaults
PdIds == 1 .. Cardinality(Comms)

VARIABLES
    pd,         \* ncclIbDev.pd
    pdRefs,     \* ncclIbDev.pdRefs
    slots,      \* mrCache.slots up to its population
    capacity,   \* mrCache.capacity
    alloc,      \* the length mrCache.slots was really allocated with
    pds,        \* device: the protection domains that exist
    mrs,        \* device: the MRs that exist, by pointer
    gpuMrs,     \* device: the protection domains with a gpuFlush.gpuMr
    comm,       \* the thread of a communicator: what it does, at which device
    commPd,     \* base.pd of a communicator on each device
    handle,     \* ncclIbMrHandle: what the caller registered and its MRs
    heap,       \* "corrupt" once slots were written past their allocation,
                \* "crashed" once a null protection domain was used
    faults

devVars == <<pd, pdRefs, pds, gpuMrs>>
cacheVars == <<slots, capacity, alloc, mrs>>
vars == <<devVars, cacheVars, comm, commPd, handle, heap, faults>>

Slot == [addr : Nat, pages : Nat, refs : Nat, mr : MrIds]
NoMr == [addr |-> 0, pages |-> 0, pd |-> Null]
NoHandle == [data |-> 0, size |-> 0, mrs |-> [d \in Devs |-> Null]]

\* The type invariant of the module.
TypeOK ==
    /\ pd \in [Devs -> PdIds \cup {Null}]
    /\ pdRefs \in [Devs -> Nat]
    /\ pds \in [Devs -> SUBSET PdIds]
    /\ gpuMrs \in [Devs -> SUBSET PdIds]
    /\ slots \in [Devs -> Seq(Slot)]
    /\ capacity \in [Devs -> Nat]
    /\ alloc \in [Devs -> Nat]
    /\ mrs \in [Devs -> [MrIds -> [addr : Nat, pages : Nat,
                                   pd : PdIds \cup {Null}]]]
    /\ comm \in [Comms -> [pc : {"closed", "init_pd", "init_cq", "open", "reg",
                                 "dereg", "close", "failed"},
                           dev : Devs, h : Handles]]
    /\ commPd \in [Comms -> [Devs -> PdIds \cup {Null}]]
    /\ handle \in [Comms -> [Handles -> [data : Nat, size : Nat,
                                         mrs : [Devs -> MrIds \cup {Null}]]]]
    /\ heap \in {"ok", "corrupt", "crashed"}
    /\ faults \in 0 .. MaxFaults

Init ==
    /\ pd = [d \in Devs |-> Null]
    /\ pdRefs = [d \in Devs |-> 0]
    /\ pds = [d \in Devs |-> {}]
    /\ gpuMrs = [d \in Devs |-> {}]
    /\ slots = [d \in Devs |-> <<>>]
    /\ capacity = [d \in Devs |-> 0]
    /\ alloc = [d \in Devs |-> 0]
    /\ mrs = [d \in Devs |-> [m \in MrIds |-> NoMr]]
    /\ comm = [c \in Comms |-> [pc |-> "closed", dev |-> 1, h |-> 1]]
    /\ commPd = [c \in Comms |-> [d \in Devs |-> Null]]
    /\ handle = [c \in Comms |-> [h \in Handles |-> NoHandle]]
    /\ heap = "ok"
    /\ faults = 0

-----------------------------------------------------------------------------

\* Thread c is at pc, about to lock device d.
At(c, pc, d) == comm[c].pc = pc /\ comm[c].dev = d /\ heap = "ok"

\* The loops over the devices of a communicator: the same step for the next
\* device, or the end of the call.
ForEachDev(c, d, again, end) ==
    comm' = [comm EXCEPT ![c] =
               IF d < NDevs THEN [pc |-> again, dev |-> d + 1, h |-> @.h]
               ELSE [pc |-> end, dev |-> 1, h |-> 1]]

\* NCCLCHECK returns an error and nothing is undone.  The set-up or the close
\* of a communicator stops for good.
Fail(c) == comm' = [comm EXCEPT ![c].pc = "failed"]

\* A registration or deregistration that fails leaves the communicator open,
\* to be used or closed; its handle is lost.
FailCall(c) ==
    /\ comm' = [comm EXCEPT ![c] = [pc |-> "open", dev |-> 1, h |-> 1]]
    /\ handle' = [handle EXCEPT ![c][comm[c].h] = NoHandle]

InjectFault == faults < MaxFaults /\ faults' = faults + 1

Fresh(used, ids, p) == p \in ids \ used /\ \A q \in ids \ used : p <= q

Registered(d) == {m \in MrIds : mrs[d][m] # NoMr}

-----------------------------------------------------------------------------
(* ncclIbInitCommDevBase, called for each device by anpNetConnect and        *)
(* anpNetAccept, and ncclIbDestroyBase, called by the close calls.           *)

\* Mutant: only the first communicator counts itself.
CountFirstOnly(refs) == IF refs = 0 THEN 1 ELSE refs

\* ibDev->pdRefs++
CountRef(refs) == refs + 1

\* The first communicator on a device allocates its protection domain.
InitPd(c) ==
    \E d \in Devs :
        /\ At(c, "closed", d) \/ At(c, "init_pd", d)
        /\ pdRefs' = [pdRefs EXCEPT ![d] = CountRef(@)]
        /\ IF pdRefs[d] = 0
           THEN \E p \in PdIds : /\ Fresh(pds[d], PdIds, p)
                                 /\ pds' = [pds EXCEPT ![d] = @ \cup {p}]
                                 /\ pd' = [pd EXCEPT ![d] = p]
           ELSE UNCHANGED <<pd, pds>>
        /\ commPd' = [commPd EXCEPT ![c][d] = pd'[d]]
        /\ comm' = [comm EXCEPT ![c].pc = "init_cq"]
        /\ UNCHANGED <<gpuMrs, cacheVars, handle, heap, faults>>

\* ibv_alloc_pd fails: the count has been taken and is not given back.
InitPdFails(c) ==
    /\ \E d \in Devs :
          /\ At(c, "closed", d) \/ At(c, "init_pd", d)
          /\ pdRefs[d] = 0
          /\ pdRefs' = [pdRefs EXCEPT ![d] = CountRef(@)]
          /\ pd' = [pd EXCEPT ![d] = Null]
    /\ Fail(c)
    /\ InjectFault
    /\ UNCHANGED <<pds, gpuMrs, cacheVars, commPd, handle, heap>>

\* The completion queue, which needs no protection domain and, after the last
\* device, the rest of the set-up, gpuFlush.gpuMr of the receive side included.
InitCq(c) ==
    \E d \in Devs :
        /\ At(c, "init_cq", d)
        /\ d = NDevs => \A e \in Devs : commPd[c][e] # Null
        /\ ForEachDev(c, d, "init_pd", "open")
        /\ gpuMrs' = IF d = NDevs /\ c \in FlushComms
                     THEN [e \in Devs |-> gpuMrs[e] \cup {commPd[c][e]}]
                     ELSE gpuMrs
        /\ UNCHANGED <<pd, pdRefs, pds, cacheVars, commPd, handle, heap,
                       faults>>

\* The domain that an earlier communicator failed to allocate is taken over
\* untested; libibverbs dereferences it when the first queue pair is created,
\* which ends the process.
UseNullPd(c) ==
    /\ At(c, "init_cq", NDevs)
    /\ \E d \in Devs : commPd[c][d] = Null
    /\ heap' = "crashed"
    /\ UNCHANGED <<devVars, cacheVars, comm, commPd, handle, faults>>

InitCqFails(c) ==
    /\ \E d \in Devs : At(c, "init_cq", d)
    /\ Fail(c)
    /\ InjectFault
    /\ UNCHANGED <<devVars, cacheVars, commPd, handle, heap>>

\* The caller closes a communicator once it has given back its handles.
Close(c) ==
    /\ At(c, "open", 1)
    /\ handle[c] = [h \in Handles |-> NoHandle]
    /\ comm' = [comm EXCEPT ![c].pc = "close"]
    /\ UNCHANGED <<devVars, cacheVars, commPd, handle, heap, faults>>

\* ibv_dealloc_pd refuses a protection domain that is in use.
Busy(d) == pd[d] \in gpuMrs[d] \/ \E m \in Registered(d) : mrs[d][m].pd = pd[d]

\* The last communicator on a device frees its protection domain.
DestroyBase(c) ==
    \E d \in Devs :
        /\ At(c, "close", d)
        /\ pdRefs' = [pdRefs EXCEPT ![d] = @ - 1]
        /\ commPd' = [commPd EXCEPT ![c][d] = Null]
        /\ IF pdRefs[d] = 1 /\ Busy(d)
           THEN Fail(c) /\ UNCHANGED pds
           ELSE /\ ForEachDev(c, d, "close", "closed")
                /\ pds' = IF pdRefs[d] = 1 THEN [pds EXCEPT ![d] = @ \ {pd[d]}]
                          ELSE pds
        /\ UNCHANGED <<pd, gpuMrs, cacheVars, handle, heap, faults>>

\* ibv_destroy_cq fails before the count is touched.
DestroyCqFails(c) ==
    /\ \E d \in Devs : At(c, "close", d)
    /\ Fail(c)
    /\ InjectFault
    /\ UNCHANGED <<devVars, cacheVars, commPd, handle, heap>>

-----------------------------------------------------------------------------
(* ncclIbRegMrDmaBuf *)

\* The pages that hold a buffer.
PageAddr(g) == g.data - (g.data % PageSize)

\* Mutant: the pages of the buffer's length, wherever it starts.
PagesOfLength(g) == (g.size + PageSize - 1) \div PageSize

Pages(g) == (g.data + g.size - PageAddr(g) + PageSize - 1) \div PageSize

Covers(s, g) ==
    /\ PageAddr(g) >= s.addr
    /\ (PageAddr(g) - s.addr) \div PageSize + Pages(g) <= s.pages

\* The linear search stops at the end, at a slot that begins after the buffer
\* or at one that covers it.
Stops(d, g, i) ==
    \/ i = Len(slots[d]) + 1
    \/ PageAddr(g) < slots[d][i].addr
    \/ Covers(slots[d][i], g)

Search(d, g) ==
    CHOOSE i \in 1 .. Len(slots[d]) + 1 :
        Stops(d, g, i) /\ \A j \in 1 .. i - 1 : ~Stops(d, g, j)

Hit(d, g) ==
    LET i == Search(d, g) IN i <= Len(slots[d]) /\ Covers(slots[d][i], g)

\* Mutant: the cache grows one registration too late.
GrowLate(d) == IF Len(slots[d]) > capacity[d]
               THEN IF capacity[d] < MinCapacity THEN MinCapacity
                    ELSE 2 * capacity[d]
               ELSE capacity[d]

Grow(d) == IF Len(slots[d]) = capacity[d]
           THEN IF capacity[d] < MinCapacity THEN MinCapacity
                ELSE 2 * capacity[d]
           ELSE capacity[d]

\* The length of slots once it has grown; ncclRealloc is called with the
\* capacity, and only when the cache is full.
Allocated(d) == IF Len(slots[d]) = capacity[d] THEN Grow(d) ELSE alloc[d]

\* The buffer thread c is registering.
Buffer(c) == handle[c][comm[c].h]

\* The caller registers buffer g and gets the first free handle.
RegMr(c, g) ==
    \E h \in Handles :
        /\ At(c, "open", 1)
        /\ Fresh({k \in Handles : handle[c][k] # NoHandle}, Handles, h)
        /\ handle' = [handle EXCEPT ![c][h] =
                         [data |-> g.data, size |-> g.size,
                          mrs |-> [d \in Devs |-> Null]]]
        /\ comm' = [comm EXCEPT ![c] = [pc |-> "reg", dev |-> 1, h |-> h]]
        /\ UNCHANGED <<devVars, cacheVars, commPd, heap, faults>>

\* Mutant: a hit does not count the new handle.
AddRefNot(s) == s

AddRef(s) == [s EXCEPT !.refs = @ + 1]

RegHit(c) ==
    \E d \in Devs :
        LET i == Search(d, Buffer(c))
        IN  /\ At(c, "reg", d)
            /\ Hit(d, Buffer(c))
            /\ slots' = [slots EXCEPT ![d][i] = AddRef(@)]
            /\ handle' = [handle EXCEPT ![c][comm[c].h].mrs[d] = slots[d][i].mr]
            /\ ForEachDev(c, d, "reg", "open")
            /\ UNCHANGED <<devVars, capacity, alloc, mrs, commPd, heap, faults>>

\* A new MR, inserted where the search stopped.
RegMiss(c) ==
    \E d \in Devs, m \in MrIds :
        LET g == Buffer(c)
            s == [addr |-> PageAddr(g), pages |-> Pages(g), refs |-> 1, mr |-> m]
        IN  /\ At(c, "reg", d)
            /\ ~Hit(d, g)
            /\ Len(slots[d]) < Allocated(d)
            /\ Fresh(Registered(d), MrIds, m)
            /\ mrs' = [mrs EXCEPT ![d][m] =
                          [addr |-> s.addr, pages |-> s.pages,
                           pd |-> commPd[c][d]]]
            /\ slots' = [slots EXCEPT ![d] = InsertAt(@, Search(d, g), s)]
            /\ capacity' = [capacity EXCEPT ![d] = Grow(d)]
            /\ alloc' = [alloc EXCEPT ![d] = Allocated(d)]
            /\ handle' = [handle EXCEPT ![c][comm[c].h].mrs[d] = m]
            /\ ForEachDev(c, d, "reg", "open")
            /\ UNCHANGED <<devVars, commPd, heap, faults>>

\* The insertion goes past the allocation; what follows is undefined.
RegOverrun(c) ==
    /\ \E d \in Devs : /\ At(c, "reg", d)
                       /\ ~Hit(d, Buffer(c))
                       /\ Len(slots[d]) >= Allocated(d)
    /\ heap' = "corrupt"
    /\ UNCHANGED <<devVars, cacheVars, comm, commPd, handle, faults>>

\* ibv_reg_mr fails: the cache has grown, the MRs of earlier devices stay.
RegMrFails(c) ==
    \E d \in Devs :
        /\ At(c, "reg", d)
        /\ ~Hit(d, Buffer(c))
        /\ capacity' = [capacity EXCEPT ![d] = Grow(d)]
        /\ alloc' = [alloc EXCEPT ![d] = Allocated(d)]
        /\ FailCall(c)
        /\ InjectFault
        /\ UNCHANGED <<devVars, slots, mrs, commPd, heap>>

\* ncclRealloc fails after the capacity has been raised.
ReallocFails(c) ==
    \E d \in Devs :
        /\ At(c, "reg", d)
        /\ ~Hit(d, Buffer(c))
        /\ Len(slots[d]) = capacity[d]
        /\ capacity' = [capacity EXCEPT ![d] = Grow(d)]
        /\ FailCall(c)
        /\ InjectFault
        /\ UNCHANGED <<devVars, slots, alloc, mrs, commPd, heap>>

-----------------------------------------------------------------------------
(* anpNetDeregMr *)

DeregMr(c, h) ==
    /\ At(c, "open", 1)
    /\ handle[c][h] # NoHandle
    /\ comm' = [comm EXCEPT ![c] = [pc |-> "dereg", dev |-> 1, h |-> h]]
    /\ UNCHANGED <<devVars, cacheVars, commPd, handle, heap, faults>>

\* The slot of an MR: the first one that has its pointer.
SlotOf(d, m) ==
    CHOOSE i \in 1 .. Len(slots[d]) :
        slots[d][i].mr = m /\ \A j \in 1 .. i - 1 : slots[d][j].mr # m

Known(d, m) == \E i \in 1 .. Len(slots[d]) : slots[d][i].mr = m

\* Mutant: the last slot is dropped instead of moved.
DropLast(s, i) == [j \in 1 .. Len(s) - 1 |-> s[j]]

\* The last slot fills the hole.
FillHole(s, i) == [j \in 1 .. Len(s) - 1 |-> IF j = i THEN s[Len(s)] ELSE s[j]]

\* The slot goes with its last reference, the array with its last slot.
DropSlot(d, i) ==
    /\ slots' = [slots EXCEPT ![d] = FillHole(@, i)]
    /\ IF Len(slots[d]) = 1
       THEN /\ capacity' = [capacity EXCEPT ![d] = 0]
            /\ alloc' = [alloc EXCEPT ![d] = 0]
       ELSE UNCHANGED <<capacity, alloc>>

\* 0 == --refs
IsLastRef(s) == s.refs = 1

\* The handle is freed after its last device.
DeregNext(c, d) ==
    /\ ForEachDev(c, d, "dereg", "open")
    /\ handle' = [handle EXCEPT ![c][comm[c].h] =
                     IF d < NDevs THEN [@ EXCEPT !.mrs[d] = Null] ELSE NoHandle]

\* ncclIbDeregMrInternal: another handle keeps the MR.
DeregKeep(c) ==
    \E d \in Devs :
        LET m == Buffer(c).mrs[d]
        IN  /\ At(c, "dereg", d)
            /\ Known(d, m)
            /\ ~IsLastRef(slots[d][SlotOf(d, m)])
            /\ slots' = [slots EXCEPT ![d][SlotOf(d, m)].refs = @ - 1]
            /\ DeregNext(c, d)
            /\ UNCHANGED <<devVars, capacity, alloc, mrs, commPd, heap, faults>>

\* ncclIbDeregMrInternal: the MR goes.
DeregLast(c) ==
    \E d \in Devs :
        LET m == Buffer(c).mrs[d]
        IN  /\ At(c, "dereg", d)
            /\ IF ~Known(d, m)
               THEN Fail(c) /\ UNCHANGED <<cacheVars, handle>>
               ELSE /\ IsLastRef(slots[d][SlotOf(d, m)])
                    /\ DropSlot(d, SlotOf(d, m))
                    /\ mrs' = [mrs EXCEPT ![d][m] = NoMr]
                    /\ DeregNext(c, d)
            /\ UNCHANGED <<devVars, commPd, heap, faults>>

\* ibv_dereg_mr fails: the slot is gone, the MR is not.
DeregFails(c) ==
    \E d \in Devs :
        LET m == Buffer(c).mrs[d]
        IN  /\ At(c, "dereg", d)
            /\ Known(d, m)
            /\ IsLastRef(slots[d][SlotOf(d, m)])
            /\ DropSlot(d, SlotOf(d, m))
            /\ FailCall(c)
            /\ InjectFault
            /\ UNCHANGED <<devVars, mrs, commPd, heap>>

-----------------------------------------------------------------------------

Next ==
    \E c \in Comms :
        \/ InitPd(c) \/ InitCq(c) \/ UseNullPd(c) \/ Close(c) \/ DestroyBase(c)
        \/ \E g \in Regions : RegMr(c, g)
        \/ RegHit(c) \/ RegMiss(c) \/ RegOverrun(c)
        \/ \E h \in Handles : DeregMr(c, h)
        \/ DeregKeep(c) \/ DeregLast(c)
        \/ InitPdFails(c) \/ InitCqFails(c) \/ DestroyCqFails(c)
        \/ RegMrFails(c) \/ ReallocFails(c) \/ DeregFails(c)

Spec == Init /\ [][Next]_vars

-----------------------------------------------------------------------------
(* Properties *)

\* The MRs thread c may use or has yet to give back on device d.
Holds(c, h, d) == handle[c][h].mrs[d] # Null

\* A handle is good for as long as its caller has it, whatever the other
\* communicators register and deregister and whichever of their calls fail:
\* on every device its MR exists and spans the whole buffer.
HandlesLive ==
    \A c \in Comms, h \in Handles, d \in Devs :
        Holds(c, h, d) =>
            LET b == handle[c][h]
                r == mrs[d][b.mrs[d]]
            IN  /\ r # NoMr
                /\ r.addr <= b.data
                /\ b.data + b.size <= r.addr + r.pages * PageSize

\* The references of a slot are the handles that hold its MR; an MR is in one
\* slot and has references.
RefsExact ==
    \A d \in Devs :
        /\ \A i \in DOMAIN slots[d] :
              /\ slots[d][i].refs > 0
              /\ slots[d][i].refs =
                    Cardinality({k \in Comms \X Handles :
                                   handle[k[1]][k[2]].mrs[d] = slots[d][i].mr})
        /\ \A i, j \in DOMAIN slots[d] :
              slots[d][i].mr = slots[d][j].mr => i = j

\* A cached MR was registered in the protection domain of whoever came first;
\* it is the one of everybody it is handed to, as the queue pairs of a
\* communicator can only use MRs of their own domain.
SameDomain ==
    \A c \in Comms, h \in Handles, d \in Devs :
        Holds(c, h, d) =>
            /\ commPd[c][d] \in pds[d]
            /\ mrs[d][handle[c][h].mrs[d]].pd = commPd[c][d]

\* slots never holds more than it was allocated for.
SlotsFit == heap = "ok" /\ \A d \in Devs : Len(slots[d]) <= alloc[d]

\* The communicators on the protection domain of a device.
Users(d) == {c \in Comms : commPd[c][d] # Null}

\* gpuFlush.gpuMr is all that is left behind, and what it holds: as long as no
\* call has failed otherwise, a close stops only at a device with such an MR,
\* and keeps the domains of the devices after it; once every communicator is
\* closed or stopped, the cache of a device is gone and its domains are those
\* with a gpuMr and those of the communicators stopped before it.
AllReleased ==
    faults = 0 =>
    /\ \A c \in Comms : comm[c].pc = "failed" =>
          /\ gpuMrs[comm[c].dev] # {}
          /\ \A d \in Devs : (commPd[c][d] # Null) <=> d > comm[c].dev
    /\ (\A c \in Comms : comm[c].pc \in {"closed", "failed"}) =>
          \A d \in Devs :
             /\ slots[d] = <<>> /\ capacity[d] = 0 /\ Registered(d) = {}
             /\ pds[d] = gpuMrs[d] \cup {commPd[c][d] : c \in Users(d)}
             /\ pdRefs[d] = Cardinality(Users(d))

\* A protection domain is never freed under a communicator that is open.
OpenHasDomain ==
    \A c \in Comms : comm[c].pc \in {"open", "reg", "dereg"} =>
        \A d \in Devs : commPd[c][d] \in pds[d]

\* "didn't find in cache" (ncclIbRegMrDmaBufInternal): a buffer is registered
\* anew only if no slot of the cache covers it.
RegistersOnlyUncached ==
    [][\A d \in Devs : \A m \in MrIds :
          (mrs[d][m] = NoMr /\ mrs'[d][m] # NoMr) =>
              \A i \in DOMAIN slots[d] :
                  ~(/\ slots[d][i].addr <= mrs'[d][m].addr
                    /\ mrs'[d][m].addr + mrs'[d][m].pages * PageSize
                         <= slots[d][i].addr + slots[d][i].pages * PageSize)
      ]_vars
=============================================================================
