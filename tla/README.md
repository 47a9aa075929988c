# A TLA+ verification of the ANP network plugin

ANP is a network plugin for RCCL: it moves the messages of collectives between
GPUs over RDMA queue pairs, on AMD NICs that match data writes with
clear-to-send (CTS) messages in hardware. This directory holds TLA+ models of
its core, the TLC runs that check them and TLAPS proofs of the properties that
hold for every size of the system. Paths are relative to the directory that
holds `src/` and `tla/`; nearly all of the plugin is `src/src/net_ib.cc`.

The build modelled is the default one: `CTS_INLINE_ENABLED` and
`CTS_RCVR_OFFLOAD_ENABLED` set, `NDEBUG` set; `Telemetry` models what
`ANP_TELEMETRY_ENABLED` adds to it.

## 1. Inventory

| component | code | state it keeps | operations |
|---|---|---|---|
| data path | `net_ib.cc` 984-1217, 1873-1894, 2019-2659 | request pool, FIFO head and tail, QP index, size FIFO; the queues of the NIC | `anpNetIsend`, `anpNetIrecv`, `anpNetFlush`, `anpNetTest` |
| memory registration, protection domains | `net_ib.cc` 83-123, 1219-1259, 1898-2015 | per device: domain and its count, cache of MRs with references | `anpNetRegMr(DmaBuf)`, `anpNetDeregMr`, opening and closing of a communicator |
| connection set-up, close | `net_ib.cc` 1271-1871, 2661-2718 | stage of a handle and of a listen communicator, QPs, socket | `anpNetListen`, `anpNetConnect`, `anpNetAccept`, `anpNetClose*` |
| device discovery, properties | `net_ib.cc` 543-615, 732-982 | `ncclIbDevs`, `ncclIbMergedDevs` | `anpNetInit`, `anpNetDevices`, `anpNetGetProperties` |
| GID selection | `net_ib.cc` 304-537 | none | `ncclIbGetGidIndex` |
| asynchronous events | `net_ib.cc` 282-296 | none | `ncclIbAsyncThreadMain` |
| udma pipeline of a QP | `net_ib.cc` 1261-1303 | static tables, mask of a domain | within `ncclIbCreateQp` |
| telemetry | `anp_state.h`, `anp_metrics.h`, `net_ib.cc` 149-280 | counters and histograms per QP, maps of devices and QPs, `active_threads` | updates of the data path, report threads, signal handlers, wait at exit |
| bootstrap of virtual IPs | `bootstrap.cc`, `bootstrap_socket.cc`, `anp_bootstrap.h` | table of host configurations, count of responses, connections | election, `run_root_node`, `recv_config_thread`, `run_leaf_node` |
| iptables wrapper | `anp_iptables_wrap.h` | rules of the kernel | `execute_iptables_command` |
| parameters, verbs wrapper, viewer | `anp_param.h`, `misc/ibvwrap_extn.cc`, `tools/plugin_top.py` | cached values | none that matter here |

How they interact. RCCL's proxy threads call the plugin; a thread per direction
posts operations of a connection in order and polls them with `anpNetTest`. A
receive writes a CTS into the sender's NIC; the sender posts its data without
looking for it, and the NIC pairs data and CTS per QP. All communicators of a
process share the devices and with them protection domains and MR caches,
under one lock per device. Two communicators meet over a TCP socket that
exchanges metadata without blocking. Every queue pair that is created, every
SIGUSR1 and the end of the process start a report: a copy of the telemetry maps
that a detached thread writes to a file while the data path goes on counting in
the counters it shares. The bootstrap is a program of its own: its
call from the plugin (`do_bootstrap`, `net_ib.cc` 743) is commented out.

What is hard here:

* a completion names its request by an index of eight bits, and requests are
  recycled at once: an event too many or too few is charged to another message;
* nothing on the wire says which receive a send belongs to: two counters, one
  at each side, have to stay in step over several QPs;
* most CTS are not signalled: their queue drains only if the right ones are;
* an MR is shared by handles that come and go on different threads, in a cache
  whose order a deregistration disturbs, in domains that are freed and reused;
* metadata arrives in pieces, over any number of calls, and a communicator must
  not be returned before the peer can take traffic;
* the devices are discovered once for all threads, behind a test made without
  the lock, and may be discovered twice over the same tables;
* a QP is put on a DMA pipeline through an attribute of a domain that all
  threads share, and through tables without a lock;
* reports read counters that change, may be started by a signal on any thread,
  and exit() waits for their threads on whatever thread it runs;
* threads and hosts of the bootstrap fail one by one and the others go on;
* failures between two steps: a post, a verb, an allocation, a broken QP.

`PROJECT.json` lists these as hazards with the line where each bites and the
properties that would catch it.

## 2. Modules

| module | stands for |
|---|---|
| `NetTransport` | the data path of one connection: both proxies and both NICs |
| `NetChannel` | abstract: what a connection promises RCCL |
| `NetTransportProofs`, `NetTransportOrderProofs` | theorems about `NetTransport`: what each request accounts for; order, refinement and bounds. The second extends the first |
| `MrCache` | domains and MR caches under several communicators |
| `MrCacheProofs` | theorems about `MrCache` |
| `NetConnect` | set-up and close of a connection |
| `NetConnectProofs` | theorems about `NetConnect` |
| `GidIndex` | the choice of a GID, as operators |
| `Devices` | discovery: `anpNetInit`, the lists of ports and merged devices |
| `Startup` | composes `Devices` and `GidIndex` with threads that create QPs |
| `StartupProofs` | theorems about `Startup`, `Devices` and `GidIndex` |
| `Telemetry` | counters, reports, signals and the wait at exit |
| `TelemetryProofs` | theorems about `Telemetry` |
| `Bootstrap` | election, root, threads and leaves of the bootstrap |
| `BootstrapProofs` | theorems about `Bootstrap` |
| `FiniteSums` | lemmas about sums over finite sets, used by `TelemetryProofs` and `StartupProofs` |
| `MCTransport`, `MCMrCache`, `MCConnect`, `MCStartup`, `MCTelemetry`, `MCBootstrap` | values for TLC |

`map` in `PROJECT.json` gives the lines of every definition. A definition whose
comment begins with "Mutant" is not part of a model: it is the form a plausible
bug would give the definition after it, and shows that the property it is
listed with can fail.

### NetTransport

Variables carry the names of the code (`fifoHead`, `fifoReqs`, `sizesFifo`,
`sQpIndex` and `rQpIndex` for `base.qpIndex` of the two sides). One action is
one call that changes state: `Isend` is `anpNetIsend` with `ncclIbMultiSend`;
`IrecvDefault` and `IrecvPostCTS` are the two forms of `anpNetIrecv`, each with
`ncclIbPostFifo`; `Flush` is `anpNetFlush`. A call of `anpNetTest` is any
number of `TestPoll` steps, one for each completion handled, and a `TestDone`
step. The actions named `...Fails` and `...Error` are the error exits of the
same functions, `QpBreaks` the event behind a bad completion.

External: the NICs (`CtsArrive`, `Deliver`, `Ack`, `FlushRead`), modelled from
what the code relies on: work queues are served in order per QP, a data write
waits for the oldest CTS of its QP, a polled completion retires all earlier
entries of its send queue. RCCL's proxy keeps at most `Window` steps open,
posts them in order (`MayPost`), flushes what it has received, and makes no
call on a communicator that has returned an error. It clears its request before
a receive is posted: when `ibv_post_recv` fails, `anpNetIrecvDefault` returns
success and leaves `*request` as it was (2454-2458), and `PostRecvFails` takes
the caller to find none there.

A message is its number, with a size and a protocol. For LL the sender passes
`NCCL_NET_USE_WRITE_OP` and the receiver `NCCL_NET_OPTIONAL_RECV_COMPLETION`:
no receive WQE, no immediate data, and `anpNetTest` says nothing about the data.

Left out: two merged devices in one connection (`ncclIbMultiSend` asserts one
QP per send), `IB_SPLIT_DATA_ON_QPS`, the `#else` branches of the offload build.

### MrCache

One step is one critical section of a device lock: calls of two communicators
interleave between the devices of one call. `InitPd`/`InitCq`, `DestroyBase`,
`RegHit`/`RegMiss`, `DeregKeep`/`DeregLast` are the bodies of
`ncclIbInitCommDevBase`, `ncclIbDestroyBase`, `ncclIbRegMrDmaBufInternal` and
`ncclIbDeregMrInternal`, with the search of the cache, the growth of `slots`
and the hole filled from the end as the code has them. Failing verbs and
allocations are the actions ending in `Fails`; `RegOverrun` is the write past
the slots that a failed reallocation leads to, `UseNullPd` the creation of a QP
on the domain that an earlier communicator failed to allocate, which nothing
tests (1223-1232) and which ends the process. `gpuMrs` are the MRs of GPU
flushes, which `anpNetCloseRecv` does not give back (2699-2707). External: pointers that
`ibv_reg_mr` and `ibv_alloc_pd` return, reused once free, and `ibv_dealloc_pd`
refusing a domain in use.

### NetConnect

`sStage` and `rStage` are the `ncclIbCommStage` of the two sides. One action is
the code between two labels of `anpNetConnect` or `anpNetAccept`; a transfer
moves any number of chunks the socket has or takes. Left out: ECE, traffic
classes, LID and FLID addressing, sides with different numbers of devices.

### GidIndex, Devices, Startup

`GidIndex` has no state. A GID is reduced to the answers of the tests the code
makes of its 128 bits; `UpdateGidIndex` is `ncclUpdateGidIndex` and
`SearchGidIndex` the loop around it, with the errors that end it. When sysfs
names neither version, the variable that is compared was never written: the
operators then give a set, with every index the code may end with.

`Devices` keeps the globals under their names (`ncclNIbDevs`, `ncclIbDevs`,
`ncclNMergedIbDevs`, `ncclIbMergedDevs`, `ncclIbLock`) and in `walk` the locals
of the thread that has the lock. `Call` is the test without the lock, `Lock` the
one with it. A thread that passes the first test reads counts and lists without
the lock, so one action makes one write to them: `Lock` and `ResetMerged` are
lines 758 and 759; a usable port is `AddPort` (the fields of its entry, to which
no merged device leads yet, and `ncclIbFindMatchingDev`), then `NewMerged`,
`SetFirst`, `CountMerged` (851-853) or `JoinMerged` (859-860, of which only the
second can be seen), `AddSpeed` (865) and `CountPort` (866). The `goto
build_ib_list` is `Rebuild`, `UncountMerged`, `ClearMerged` (878-880);
`QueryFails` and `DiscoveryFails` are the ways to `goto fail`. Left out: a device
without a path in sysfs, whose `pciPath` is NULL and then read (546-548). Both
arrays have more slots in the model than in the code, so that a write past their
end is a state to be judged. What `libibverbs` and sysfs report is chosen once,
in `host`. The code marks every entry with the context it was opened with, and
so does the model (`<<pass, device>>`): the second pass opens devices again.

`Startup` adds threads that set up communicators on the devices they were told
of, which a rebuild may have cleared since: the GIDs (`ChooseGids`) and, for each
QP, the accesses of `ncclIbCreateQp` to the static tables and to the mask of the
domain, one action each (`TestUd` to `CreateQp`, or `CreateQpFails`). `alone` records
that no call for the same device or channel overlapped; it is history, and
changes nothing. `anpNetConnect` and `anpNetAccept` go no further here: their
exchange is `NetConnect`.

### Telemetry

`devices` and `queue_state` are the two maps of `anp_state`; what the reports do
with the map of devices depends on which element comes first, and that is any.
`queue_state` is keyed as in the code, by `qp_num` alone (`anp_state.h` 124). The
NIC gives a number to one existing QP of a device (`BeginQp`); QPs of two devices
may have the same, and after `DestroyQp` a later QP may get it again, since
nothing is ever removed from the maps. `qp_info` holds the counters made for each
QP, `Found` those that a call on it finds under its number.
One application thread creates QPs (`BeginQp` to `SetKind`, one step per access
to a map) and makes the calls of the data path. `PostSend` takes an id that is
not in flight on its QP: the id is made of the indices of requests in use, and a
request in use has at most one send in flight (`SendUnique` and `SendRequests` of
`NetTransport`). `anp_create_json_thread` is
`CopyState`, `CountThread`, `CreateThread` or `CreateFails`, run by that thread
after a QP or by a signal handler (`sig`) on whatever thread it interrupts. A
report reads each QP twice (`Read`), in the order `to_json` does, renames its
file (`Rename`, which is also the end of the snapshot) and lowers
`active_threads` (`EndThread`). `Exit` is the start of exit handlers, by a
return from main, by a call, or by SIGUSR2 on any thread; `EndWait` the end of
the poll on `active_threads`, after which the destructor of `g_anp_state` writes
report `Final`. Times are steps of `now`; `done` and `late` are history.

Left out: the parts of `anp_state` nothing calls (`remove_queue_pair`,
`update_recv_wqe_metrics`, `increment_num_cts_sent`, the sample buffer and its
histogram), counters that are only incremented and printed
(`num_slot_miss`, `num_write_wqe` and their like), two application threads on
the maps at once: that is a data race on a `std::unordered_map`, and no set of
outcomes can be given for it.

### Bootstrap

`pc` is where the bootstrap thread of a host is, `thread` where the
`recv_config_thread` of a leaf's connection is. `all_hosts` is keyed as the
code keys it: by address at the root, by host name at a leaf. A payload travels
in pieces and `recv` returns those that have arrived; a leaf may end with any
part of its answer on the way (`LeafCrashSending`). External: TCP, including
the reset that closing a socket with unread input causes, and SIGPIPE
(`RootKilled`). Left out: a field of four bytes that `recv` splits (the header is
one piece), `pthread_create` that fails (497-499), as the join that follows is of
an id that was never written, the configuration file and the interfaces in it,
lists with repeated or malformed lines, memory exhaustion.

## 3. Runs

All bounds are constants set in the `.cfg` files.

| run | instance | shows |
|---|---|---|
| `transport` | 1 QP, 2 requests, 5 messages, adaptive routing | events exact on both sides, completions true, no queue over its depth, no internal error, size slots kept |
| `transport_qps` | 2 QPs, 3 requests, 4 messages | data of the t-th send lands in the t-th receive; `NetTransport` implements `NetChannel` |
| `transport_faults` | 2 QPs, 3 messages, 1 fault | nothing reported done that is not; a request is always free, a failed receive can be posted again; without a fault what both sides posted completes on both sides |
| `mrcache` | 2 communicators, 1 device, 2 handles each | handles live, references exact, domains right, slots within their allocation |
| `mrcache_faults` | 2 communicators, one with flush MRs, 2 devices, 1 fault | open communicators keep their domain whatever fails; while nothing has failed, closes leave only the flush MR and what it holds |
| `mrcache_lookup` | 1 communicator, 3 buffers | violation, see section 5 |
| `connect` | 4 QPs, 2 devices, metadata of 3 chunks, 2 faults | peer ready, QPs paired, framing, both sides end |
| `connect_mtu` | 2 QPs, 2 devices | violation, see section 5 |
| `bootstrap` | 3 hosts, payloads of 2 pieces, 1 fault | one view of the hosts, responses whole, rules after all answers, everybody ends |
| `bootstrap_vip` | 3 hosts, no fault | violation, see section 5 |
| `startup` | 2 threads, 7 inventories of NICs, 1 fault, 3 entries in the list of ports; 1 thread and all GID tables of 3 entries | counted merged devices readable at every moment, lists that agree between ports, in both passes and after a failure; whoever called before or after the discovery sees all devices; entries within the array and open; QPs on the pipeline of their channel; the first usable GID |
| `telemetry` | 2 QPs, with one number or two, 3 reports and the last, 4 calls of the data path, 1 signal, 1 fault | histograms exact where one device uses a number, sums without CTS in bounds while counted, no writer left after the wait but late ones and callers without a thread, exit ends |

Why the bounds are enough. In `transport` five messages over two requests use
every request, FIFO slot and size slot at least twice, and the CTS send queue
comes within one entry of its depth: with one more unsignalled CTS it would
overflow. In `transport_qps` three requests over two QPs make slots and QPs turn
with different periods, so that no property holds because the two coincide. In
`mrcache` three buffers (one reaching into pages of the others, one apart) and a
first capacity of 1 instead of 32 make the cache grow, be hit, lose a slot in
the middle and shrink to nothing; the constant 32 plays no other part. In
`connect` three chunks allow a first, a middle and a last partial transfer. In
`bootstrap` two leaves are what two threads need to interleave, and two pieces
what a short read needs.

In `startup` the inventories are those the discovery tells apart: separate NICs,
two ports or two functions of one NIC (merged), a mix (rebuilt), two link layers
on one NIC (not merged), ports that are down or not selected, and one port too
many for the array; a device of three ports fills a merged device. The GID
tables cover every class a search distinguishes. Two communicators of one thread
and one of the other, on the same NIC, share channels and domain.

In `telemetry` each process follows one of seven plans, so that not everything
happens at once: `Sending` (two QPs, a call that reaches the clamped bucket),
`Reusing` (the second QP gets the number of the first; 4 calls reuse an id),
`Sharing` (QPs of two devices with one number), `Reported` and `Signalled` (a data
and a CTS QP counted while reported, the report started by a QP or by a signal
between two steps of its creation), `Ending` (two QPs on two devices and an end
of the process), `Interrupted` (a QP, a signal and an end on any thread, one
failure). Counters are taken modulo 256 instead of 2^64; no
plan counts that far, so that a wrap can only come from the subtraction.

Deadlock is checked except where the system may stop: after an error
(`transport_faults`, `mrcache_faults`), when all communicators are set up
(`startup`), at the end of a process (`telemetry`) and of the bootstrap, a
program that terminates.

Symmetry is used for communicators in `mrcache`, a safety run in which they are
interchangeable.

### Fairness

`transport_faults`: weak fairness of every poll of an open request (RCCL's proxy
calls `anpNetTest` in a loop until it is done), of the GPU taking what arrived
and of each step of the NICs. No fairness for posting: the property is about
what both sides have posted. `telemetry`: the threads that write reports,
the callers that start them and the poll in exit() are scheduled; nobody has to
create QPs, send signals or end the process. `connect`: both callers call again until they have
a communicator, as the interface asks for, and TCP connects. `bootstrap`: every
process and thread is scheduled and TCP delivers. `BootstrapEnds` claims the end
only where the code can reach it: when nothing fails, or once all leaves have
connected.

## 4. Proofs

Each theorem holds for every value of the constants that satisfies the named
assumption of the component's module, and for any number of steps: where a run
has three messages or two communicators, the proof has any number. The proofs
use nothing else, except that the theorems about `Bootstrap` name what the lists
of the hosts must be. Every component has an inductive invariant, a conjunction
of named parts, one lemma per action that preserves it, and the theorems as
consequences; where a property needs a second one, it rests on the first.

| module | theorem | states |
|---|---|---|
| `NetTransportProofs` | `TypeCorrect` | `TypeOK` |
| | `SendEventsCorrect` | `SendEventsExact` |
| | `RecvEventsCorrect` | `RecvEventsExact` |
| | `NoInternalErrorCorrect` | `NoInternalError` |
| `NetTransportOrderProofs` | `LandsInOrderCorrect` | `LandsInOrder` |
| | `CompletionsTrueCorrect` | `CompletionsTrue` |
| | `SlotKeptCorrect` | `SlotKept` (action property) |
| | `TransportImplementsChannel` | `ImplementsChannel` (refinement) |
| | `RequestAvailableCorrect` | `RequestAvailable` |
| | `QueuesFitCorrect` | `QueuesFit` |
| `NetConnectProofs` | `ConnectTypeCorrect` | `TypeOK` |
| | `FramedCorrect` | `Framed` |
| | `QpsPairedCorrect` | `QpsPaired` |
| | `PeerReadyCorrect` | `PeerReady` |
| `MrCacheProofs` | `MrTypeCorrect` | `TypeOK` |
| | `HandlesLiveCorrect` | `HandlesLive` |
| | `OpenHasDomainCorrect` | `OpenHasDomain` |
| | `RefsExactCorrect`, `SlotsFitCorrect`, `SameDomainCorrect` | these, while nothing has failed |
| | `AllReleasedCorrect` | `AllReleased` |
| `TelemetryProofs` | `TelemetryTypeCorrect` | `TypeOK` |
| | `LatencyTrueCorrect` | `LatencyTrue` |
| | `SafeToExitCorrect` | `SafeToExit` |
| | `SentExcludesCtsCorrect` | `SentExcludesCts` |
| `StartupProofs` | `StartupTyped` | `TypeOK` |
| | `EntriesAreValid` | `EntriesValid` |
| | `MergedDevicesSound` | `MergedSound` |
| | `CallersAreToldAll` | `CallersSeeAll` |
| | `QpsOnTheirPipeline` | `QpOnChannelPipeline` |
| | `GidsFirstUsable` | `GidFirstUsable` |
| `BootstrapProofs` | `BootstrapTypeCorrect` | `TypeOK` |
| | `SameViewCorrect` | `SameView` |
| | `WholePayloadsCorrect` | `WholePayloads` |
| | `RulesAfterAnswersCorrect` | `RulesAfterAnswers` |

### The data path

The proofs about `NetTransport` use `ConstantsAssumption`: at least one request
and one QP, no more QPs than requests, a window not larger than the pool.

`SendEventsExact` is a statement about cardinalities and is not inductive: it
does not say whose the entries in flight are, so that a freed request could be
handed out with an entry of its predecessor still in flight. `SendInv` says it:
every WQE and CQE of a message belongs to the request that the open step of the
message holds (`SendOwnership`); a message is in one place at a time
(`SendUnique`); open steps hold different requests, used requests belong to open
steps, and a request has an event exactly while its message is in flight
(`SendRequests`). Each action preserves it; the cardinalities follow because
what is in flight for a request is then empty or a singleton.

`RecvInv` does the same for the receive side, where three kinds of entries (the
receive, the signalled CTS, the flush) share one request, a receive may have
two events at once, and a flush takes a request from the same pool. Both
invariants are conditional on the side not having failed: a failed post leaves
a request behind that nothing accounts for, and the caller stops there.
`NoInternalErrorCorrect` uses both: the internal errors of `anpNetTest` need a
completion for a request without events, which the invariants exclude.

The two sides never agree on a QP; each takes the next one in turn. `OrderInv`
says that both counters are the number of posts modulo `NQps` (`Counters`), so
that everything of message t is on QP t % NQps (`OnOwnQp`); that a message not
yet in its buffer has its data, its CTS and its receive waiting exactly as far
as each side has posted (`Waiting`); and that the CTS of a QP arrive in order
(`WqesDistinct`). The oldest data, CTS and receive of a QP are then those of one
message, which is `LandsInOrder`. `WindowInv` and `SizesInv` add that open steps
lie within a window before the counter, so that no slot of `sizesFifo` is
shared by two of them: `SlotKept` and `CompletionsTrue`. With these a step of
`NetTransport` is a step of `NetChannel` or changes nothing of it.

`QueuesFit` is the hard bound. An unsignalled CTS leaves its send queue only
when a later signalled one of its QP is polled, and a CTS is signalled when its
slot equals its QP's number. `SignalPeriod` shows that this happens once in any
`MaxRequests * NQps` consecutive messages, for each QP, whether `NQps` divides
`MaxRequests` or not; `CtsEntries` that a signalled CTS after an entry of the
queue is still in flight, hence its step open and within the window. Counting
the messages between gives the depth the queue was created with.
`RequestAvailable` counts too: fewer open steps than requests leave one free.

### Connection set-up

`ConnectConstantsAssumption` gives positive numbers of devices, QPs and chunks,
and MTUs of the verbs' enumeration. Each direction of the socket is a stream
known in advance. `Streams` says that the socket holds the part of the stream
between what its writer has written and its reader has read; `Stages` that the
stage and offset of a side tell how far it has come in both; `QpsFollow` that
the QPs are connected from a certain stage on. A side that has read a chunk of
the peer thus knows the peer's stage: `Framed`, `QpsPaired` and `PeerReady`.

### Memory registration

A failed call breaks off in the middle and leaves a reference too many, never
one too few. `Counted` says so: a slot has at least as many references as
handles hold its MR, a domain as many as communicators use it, and both are
there as long as somebody needs them. It survives any number of failures and
gives `HandlesLive` and `OpenHasDomain`. While nothing has failed the counts are
exact (`Exact`), which gives `RefsExact`, `SlotsFit` and `SameDomain`. These
theorems have the form `Spec => [](faults = 0 => P)`: section 5 tells what
failures do. `AllReleased` has that condition in itself and holds for every set
of communicators with flush MRs: `Releases` says which domains are still there,
each with a communicator that uses it, a flush MR or both, and that a
communicator whose close stopped has given back the devices up to the one where
it stopped and no other.
The order of the slots is not part of it, as `mrcache_lookup` shows that it is
lost; the proofs hold for whatever slot the search finds.

### Telemetry

`AppInv` compares what the data path keeps of a QP with the times its work
requests took (`Measures`): the tracker is what the NIC has, min and max are
attained, each bucket counts the times that `Bucket` puts there. What makes this
inductive is `Numbering`: existing QPs of a device have different numbers, and so
each of them finds the counters made for it, unless a QP of another device has
had its number; the counters of a destroyed QP are found by nobody once its
number is given again. `BucketBounds`
shows that these are the times between the printed bounds, for every width and
number of buckets, so that `LatencyTrue` follows. `ReportInv` says that
`active_threads` is the number of reports between `CountThread` and
`EndThread`, whichever of them fail, that a report which its caller writes is one
whose thread could not be created (`CallerInv`), and that the last report is
written after the wait; `SafeToExit` follows.

`SentExcludesCts` is about a difference of sums whose terms are read one by one
while they change. `SentInv` bounds each term by itself (`RowInv`): what a report
has read under the number of a QP lies between the counter at its start and the counter now, the
clear-to-send messages were read before the sum and are none for a data QP, and
a QP whose kind is not yet set has sent nothing (`KindInv`). All QPs together
have sent no more than there were calls of the data path, so that no sum reaches
`CounterMod`: as the entries of one channel have different numbers
(`EntriesInv`), their sum is one over different QPs (`SumReindex`). The sums are then compared term by term with lemmas of
`FiniteSums`.

`TelemetryConstantsAssumption` says that a process makes fewer calls than
`CounterMod`, 2^64 in the code. `BucketSizeAssumption` says that the interval of
the configuration is not above the largest power of 2 of `PowerOf2`.

### Start-up

`DevicesConstantsAssumption` gives positive limits and hosts whose devices have
at most `MaxPorts` ports. The arrays of the model have `MaxPorts` slots more
than `MAX_IB_DEVS`, so that the entry written past the end of the code's array
is a state and not an error of the model; `StartupTyped` shows that no more than
these are reached.

`DevicesInv` says who is between lock and unlock (`LockInv`), that nothing has
been written before the discovery begins (`CountInv`), where the loops are
(`WalkInv`), that an entry has the context of this pass (`EntryInv`), where the
entry that was filled is to go (`ChoiceInv`), and that the merged devices in use
have members, all of which lead to open ports, and the others are zero
(`MergedInv`, `MembersInv`). It gives `EntriesValid`. `MergedSound` follows from
`SoundInv`, which says for every point between two writes which part of them is
done: the entry that joined last may be missing from the count of entries and
from the speed of its merged device, and nothing else.

`CallersSeeAll` needs a count of ports that neither list keeps. `SeenInv` takes
it from the loops: without a failure the entries are as many as the usable ports
that were passed (`Seen`), and for each NIC the sizes of its merged devices add
up to its ports among them. `FillInv` says that of the merged devices of one NIC
only one has room, as `ncclIbFindMatchingDev` fills the first it finds. `OneNic`
derives what the sizes are when all ports are passed: all are `MaxDevsPerNic`
exactly if the ports of the NIC are a multiple of it, all are k below it exactly
if the NIC has k ports. The test of `anpNetInit` for a mix (`Mixed`) is thus
true exactly if no size fits all NICs (`EvenMeans`, `EvenExists`): then the
second pass gives a device per port, else their number is the ports divided by
the size (`MergedTotal`). `ResultInv` carries this from the end of the
discovery to every thread that did not come upon it half done.

`PipelineInv` is about `ncclIbCreateQp`: a call marks its channel's entry before
it uses it (`CallInv`), two calls that touch the same domain or entry both know
that they are not alone (`AloneInv`), and the entry behind a QP created alone is
marked, with nobody left who tested it before and is about to write it
(`QpInv`).

`GidInv` says that a chosen GID is what `GetGidIndex` gives for its table. That
this is the first usable one is a fact about a recursive function, for tables of
every length: `SearchExists` shows that the function is defined, and
`SearchFinds` what it has found after n entries.

### Induction over data

The provers cannot instantiate the library's induction theorems. Where a claim
is about sums or searches of any length, the proof takes the set of numbers at
which it fails, its least element (`LeastElement`) and derives a contradiction
from the number before. `FiniteSums` does it for sums: removing an element,
raising one term, comparing and adding sums term by term, equal terms, terms
renamed one to one (`SumRemove`, `SumRaise`, `SumMonotone`, `SumPlus`,
`SumEqual`, `SumReindex`).

### Bootstrap

All four theorems assume `ListsAgree`: every file names every host once, in any
order. Otherwise two hosts may elect themselves, or the root waits for more
leaves than there are. `OneRoot` derives from it what the rest uses: every host
elects `R`, and `TotalLNs` is the number of the others. `SameViewCorrect` also
assumes `NamesDiffer`, as a leaf keeps one configuration per `host_name`. The
lists and names of the run `bootstrap` satisfy both.

`BootInv` follows the root. `Phases` says that from the request on `connArr`
holds as many different leaves as there are, hence all of them (`AllAccepted`),
so that each loop reaches every leaf. `UpOn` counts the pieces of an answer:
none before the leaf responds, no more than one answer has until the thread has
taken the header (a leaf that ended may have sent fewer), none once it has read
`PayloadLen`. `DownOn` does it for the request and
the composite: neither is sent while the leaf still waits for the other, because
the composite is sent after the join, when the thread of the leaf has ended and
the leaf has therefore answered or failed (`ThreadOn`). `Joint` is the state
after the join: all threads have ended and the composite is the table of the
root. No step leaves it, and a leaf that has read any of the composite, like a
host with a rule, is evidence for it (`TableOn`, `RootTable`). This gives
`SameView` and `RulesAfterAnswers`; the counts give `WholePayloads`.

### Only model-checked

* `PostedCompletes`, `Established`, `BootstrapEnds`, `ExitEnds`: liveness under
  fairness is out of the prover's reach.
* The absence of deadlocks in the runs that check it, as it speaks of `ENABLED`.
* The three violations of section 5.

Every invariant, the action property and the refinement that a passing run
checks are stated by a theorem; those of `MrCache` that failures may break, and
those of `Bootstrap` that need lists that agree, under the condition named there.

## 5. Where code and comments disagree

* `mrcache_lookup`: a deregistration fills the hole with the last slot
  (`net_ib.cc` 1986), the search stops at the first slot that begins after the
  buffer ("didn't find in cache", 1907). A buffer that is cached further on is
  registered again. Handles stay good; the cache loses hits and grows.
* `connect_mtu`: the receiver moves its QPs to RTR before it takes the minimum
  of the two MTUs ("Adjust the MTU", 1827). When its port has the smaller MTU
  its QPs are set up with the larger one of the sender.
* `bootstrap_vip`: a leaf keys the hosts by name and looks itself up by address
  (`anp_bootstrap.h` 383, 187): it installs remote rules for itself ("skip local
  host", 188) and no local ones.

Observed on the way, not stated by a run:

* after a registration that failed on its second device the MR of the first
  stays cached, the close of its communicator forgets the domain without freeing
  it, and the next communicator may get an MR of another domain (`SameDomain` is
  about behaviours without a failure); `pdRefs` is not lowered when
  `ibv_alloc_pd` fails, and the next communicator crashes on the null domain
  (`UseNullPd`; `OpenHasDomain` only says that none is open on it);
  `anpNetCloseRecv` does not deregister `gpuFlush.gpuMr`, so that the close of the
  last communicator of a device fails (`AllReleased` says how much this leaves);
* a thread that calls `anpNetInit` while another discovers returns at once and
  may be told of no device (`CallersSeeAll` leaves it out), or of one whose speed
  lacks its last port, or that a rebuild then clears; after a failed discovery
  nobody tries again; a rebuild resets domains and caches of entries that an
  early caller may use;
* the room in `ncclIbDevs` is tested once per device, so that a device of two
  ports may write past it (`EntriesValid` claims the bound for single ports);
* overlapping calls of `ncclIbCreateQp` on one device may put a QP on the wrong
  pipeline (`QpOnChannelPipeline` is about calls that do not overlap);
* entry 0 of a GID table is kept even outside `NCCL_IB_ADDR_RANGE`, an entry
  that cannot be read ends the search, and one whose version sysfs does not tell
  is compared with an uninitialised variable (`GidFirstUsable` leaves these out);
* QPs of two devices with the same number replace each other's counters and then
  count in each other's place (`LatencyTrue` leaves them out);
* a report may still be written after "Safe to exit": by a handler or a QP that
  was late, or by a caller whose `pthread_create` failed and which lowers
  `active_threads` (229) before it writes (230); `SafeToExit` says that there are
  no others;
* SIGUSR2 on a thread that is itself counted in `active_threads` waits for that
  thread for ever (`ExitEnds` leaves it out);
* sizes and polls are counted at whichever device comes first in a map, and a
  device is named by its merged index but counted by its port's;
* the root of the bootstrap says that all leaves have answered (`bootstrap.cc`
  505) whether or not they have; a response that `recv` returns in parts is
  dropped, for everyone; a leaf that ends before it connects, or a host that
  vanishes without closing its connections, leaves the root waiting
  (`BootstrapEnds` leaves them out).

## 6. Plan

What is left to model, in this order: `Bootstrap` with repeated addresses;
a composition of `NetConnect` and `NetTransport`, traffic from the moment either
side returns.

The composition would start `NetTransport` from the states in which `PeerReady`
and `QpsPaired` hold, and so rest on theorems that are proved.

## 7. Not modelled

Asynchronous events (logged only), the verbs wrapper (forwards calls), the
viewer (displays files), parameters (constants here). Formatting, logging and
the text of iptables commands. The plugin's own debug counters
(`g_debug_stats`), which are printed and not read. Time: `sleep` in a retry loop is a step not
taken, and timeouts of the NIC are broken QPs.
