------------------------------ MODULE Startup ------------------------------
(***************************************************************************)
(* Threads that went through the discovery of module Devices set up        *)
(* communicators (src/src/net_ib.cc): anpNetConnect and anpNetAccept       *)
(* choose a GID per device and create queue pairs, and ncclIbCreateQp puts *)
(* each on one of the two DMA pipelines of the NIC.  The pipeline is an    *)
(* attribute of the protection domain, which all communicators of a device *)
(* share, and the tables that alternate the channels between pipelines are *)
(* static variables without a lock; one action is one access to them.      *)
(* The exchange with the peer is module NetConnect.                        *)
(***************************************************************************)
EXTENDS Devices

CONSTANTS
    Conns,          \* what each thread sets up, a sequence of Conn
    Channels,       \* channel ids
    QpsPerConn,     \* ncclParamIbQpsPerConn()
    FlushEnabled    \* flushEnabled of a receive communicator

\* A communicator: the call, its merged device and the channel RCCL passes.
Conn == [call : {"connect", "accept"}, dev : Nat, channel : Channels]

ASSUME StartupConstantsAssumption ==
    /\ Conns \in [Threads -> Seq(Conn)]
    /\ QpsPerConn \in Nat \ {0} /\ FlushEnabled \in BOOLEAN

VARIABLES
    channel_ud,     \* channel_ud and data_channel_ud
    last_ud,        \* last_ud and data_last_ud
    udma_mask,      \* the mask of each device's protection domain
    todo,           \* connections a thread still has to set up
    step,           \* what it does for the first of them
    devs,           \* the entries that one is on, comm->devs[i].base.ibDevN
    jobs,           \* the QPs that are left to create, see QpJobs
    lud,            \* local of ncclIbCreateQp
    alone,          \* no other call interfered with the one under way
    qps,            \* the QPs created
    gids            \* the GIDs chosen

udVars == <<channel_ud, last_ud, udma_mask>>
startupVars == <<udVars, todo, step, devs, jobs, lud, alone, qps, gids>>
vars == <<devicesVars, startupVars>>

\* A QP is a data QP or a CTS QP; each kind has tables of its own.
Kinds == {"data", "cts"}
Pipelines == {"low", "high"}
Other(p) == IF p = "low" THEN "high" ELSE "low"

Job == [dev : Slots, kind : Kinds]
Steps == {"next", "gid", "qp", "read", "assign", "toggle", "mark", "mask", "create",
          "gidlast", "failed"}

TypeOK ==
    /\ DevicesTypeOK
    /\ channel_ud \in [Kinds -> [Channels -> [ud_id : Pipelines,
                                              allocated : BOOLEAN]]]
    /\ last_ud \in [Kinds -> [Slots -> Pipelines]]
    /\ udma_mask \in [Slots -> Pipelines]
    /\ todo \in [Threads -> Seq(Conn)]
    /\ step \in [Threads -> Steps]
    /\ devs \in [Threads -> Seq(Slots)]
    /\ jobs \in [Threads -> Seq(Job)]
    /\ lud \in [Threads -> Pipelines]
    /\ alone \in [Threads -> BOOLEAN]
    /\ qps \subseteq [thread : Threads, n : Nat, dev : Slots, channel : Channels,
                      kind : Kinds, pipe : Pipelines, alone : BOOLEAN]
    /\ gids \subseteq [link : {"IB", "RoCE"}, table : Seq(Gid), index : Int]

Init ==
    /\ DevicesInit
    /\ channel_ud = [k \in Kinds |-> [c \in Channels |->
                        [ud_id |-> "low", allocated |-> FALSE]]]
    /\ last_ud = [k \in Kinds |-> [d \in Slots |-> "low"]]
    /\ udma_mask = [d \in Slots |-> "low"]
    /\ todo = Conns
    /\ step = [t \in Threads |-> "next"]
    /\ devs = [t \in Threads |-> <<>>]
    /\ jobs = [t \in Threads |-> <<>>]
    /\ lud = [t \in Threads |-> "low"]
    /\ alone = [t \in Threads |-> TRUE]
    /\ qps = {}
    /\ gids = {}

-----------------------------------------------------------------------------

Current(t) == todo[t][1]
Go(t, label) == step' = [step EXCEPT ![t] = label]

\* The QPs of a communicator alternate between the devices; a receive
\* communicator has a data QP per device for its flushes.
QpJobs(c, ds) ==
    LET each(n, k) == [i \in 1 .. n |->
                          [dev |-> ds[((i - 1) % Len(ds)) + 1], kind |-> k]]
    IN  IF c.call = "connect" THEN each(QpsPerConn * Len(ds), "data")
        ELSE each(QpsPerConn * Len(ds), "cts")
             \o (IF FlushEnabled THEN each(Len(ds), "data") ELSE <<>>)

\* A thread goes on with its next communicator, if it was told of the device,
\* which a rebuild may have cleared since: the communicator is then on no entry
\* and has no QPs.  anpNetAccept chooses its GIDs first, anpNetConnect last.
Begin(t) ==
    LET ds == ncclIbMergedDevs[Current(t).dev].devs
    IN  /\ pc[t] = "ready"
        /\ step[t] = "next"
        /\ todo[t] # <<>>
        /\ Current(t).dev < ndev[t]
        /\ devs' = [devs EXCEPT ![t] = ds]
        /\ jobs' = [jobs EXCEPT ![t] = QpJobs(Current(t), ds)]
        /\ Go(t, IF Current(t).call = "accept" THEN "gid" ELSE "qp")
        /\ UNCHANGED <<devicesVars, udVars, todo, lud, alone, qps, gids>>

\* ncclIbGetGidIndex for entry n, with the choice i.
GidTable(n) == hcas[ncclIbDevs[n].hca].ports[ncclIbDevs[n].portNum].gids
GidsOf(n) == GetGidIndex(ncclIbDevs[n].link, GidTable(n), host.gid)
Chosen(n, i) == [link |-> ncclIbDevs[n].link, table |-> GidTable(n), index |-> i]

\* anpNetConnect asks for a GID on Ethernet only.
Asked(t) == {devs[t][k] : k \in {j \in DOMAIN devs[t] :
                \/ Current(t).call = "accept"
                \/ ncclIbDevs[devs[t][j]].link = "RoCE"}}

\* A GID is chosen for each entry and queried; an error ends the call.
ChooseGids(t) ==
    /\ step[t] \in {"gid", "gidlast"}
    /\ \E choice \in [Asked(t) -> UNION {GidsOf(n) : n \in Asked(t)}] :
          /\ \A n \in Asked(t) : choice[n] \in GidsOf(n)
          /\ gids' = gids \cup {Chosen(n, choice[n]) : n \in Asked(t)}
          /\ IF \E n \in Asked(t) : ~CanQuery(GidTable(n), choice[n])
             THEN Go(t, "failed") /\ UNCHANGED todo
             ELSE IF step[t] = "gid" THEN Go(t, "qp") /\ UNCHANGED todo
             ELSE Go(t, "next") /\ todo' = [todo EXCEPT ![t] = Tail(@)]
    /\ UNCHANGED <<devicesVars, udVars, devs, jobs, lud, alone, qps>>

-----------------------------------------------------------------------------
(* ncclIbCreateQp *)

Job1(t) == jobs[t][1]
UdEntry(t) == channel_ud[Job1(t).kind][Current(t).channel]
InCall(t) == step[t] \in {"read", "assign", "toggle", "mark", "mask", "create"}

\* Two calls touch the same protection domain or the same entry of a table.
Interfere(t, u) ==
    \/ Job1(t).dev = Job1(u).dev
    \/ Job1(t).kind = Job1(u).kind /\ Current(t).channel = Current(u).channel

\* The test of ud_allocated
TestUd(t) ==
    LET others == {u \in Threads \ {t} : InCall(u) /\ Interfere(t, u)}
    IN  /\ step[t] = "qp"
        /\ jobs[t] # <<>>
        /\ Go(t, IF UdEntry(t).allocated THEN "mask" ELSE "read")
        /\ alone' = [u \in Threads |-> IF u = t THEN others = {}
                                       ELSE alone[u] /\ u \notin others]
        /\ UNCHANGED <<devicesVars, udVars, todo, devs, jobs, lud, qps, gids>>

\* The last pipeline used on the device is read,
ReadUd(t) ==
    /\ step[t] = "read"
    /\ lud' = [lud EXCEPT ![t] = last_ud[Job1(t).kind][Job1(t).dev]]
    /\ Go(t, "assign")
    /\ UNCHANGED <<devicesVars, udVars, todo, devs, jobs, alone, qps, gids>>

\* given to the channel,
AssignUd(t) ==
    /\ step[t] = "assign"
    /\ channel_ud' = [channel_ud EXCEPT
           ![Job1(t).kind][Current(t).channel].ud_id = lud[t]]
    /\ Go(t, "toggle")
    /\ UNCHANGED <<devicesVars, last_ud, udma_mask, todo, devs, jobs, lud,
                   alone, qps, gids>>

\* and changed for the next one.
ToggleUd(t) ==
    /\ step[t] = "toggle"
    /\ last_ud' = [last_ud EXCEPT ![Job1(t).kind][Job1(t).dev] = Other(@)]
    /\ Go(t, "mark")
    /\ UNCHANGED <<devicesVars, channel_ud, udma_mask, todo, devs, jobs, lud,
                   alone, qps, gids>>

\* Mutant: the channel is not marked, so that every QP takes the next pipeline.
NotMarked(t) == FALSE

Marked(t) == TRUE

MarkUd(t) ==
    /\ step[t] = "mark"
    /\ channel_ud' = [channel_ud EXCEPT
           ![Job1(t).kind][Current(t).channel].allocated = Marked(t)]
    /\ Go(t, "mask")
    /\ UNCHANGED <<devicesVars, last_ud, udma_mask, todo, devs, jobs, lud,
                   alone, qps, gids>>

\* wrap_ibv_pd_set_udma_mask
SetMask(t) ==
    /\ step[t] = "mask"
    /\ udma_mask' = [udma_mask EXCEPT ![Job1(t).dev] = UdEntry(t).ud_id]
    /\ Go(t, "create")
    /\ UNCHANGED <<devicesVars, channel_ud, last_ud, todo, devs, jobs, lud,
                   alone, qps, gids>>

\* wrap_ibv_create_qp: the QP goes where the domain's mask says.
NewQp(t) ==
    [thread |-> t, n |-> Cardinality({q \in qps : q.thread = t}),
     dev |-> Job1(t).dev, channel |-> Current(t).channel, kind |-> Job1(t).kind,
     pipe |-> udma_mask[Job1(t).dev], alone |-> alone[t]]

CreateQp(t) ==
    /\ step[t] = "create"
    /\ qps' = qps \cup {NewQp(t)}
    /\ jobs' = [jobs EXCEPT ![t] = Tail(@)]
    /\ Go(t, "qp")
    /\ UNCHANGED <<devicesVars, udVars, todo, devs, lud, alone, gids>>

\* The QP cannot be created, or not be initialised.
CreateQpFails(t) ==
    /\ step[t] = "create"
    /\ InjectFault
    /\ qps' \in {qps, qps \cup {NewQp(t)}}
    /\ Go(t, "failed")
    /\ UNCHANGED <<host, ncclIbLock, listVars, walk, contexts, pc, met, ndev,
                   udVars, todo, devs, jobs, lud, alone, gids>>

\* The QPs are created: anpNetConnect goes on with the GIDs, anpNetAccept is
\* done with what is modelled here.
EndQps(t) ==
    /\ step[t] = "qp"
    /\ jobs[t] = <<>>
    /\ IF Current(t).call = "connect"
       THEN Go(t, "gidlast") /\ UNCHANGED todo
       ELSE Go(t, "next") /\ todo' = [todo EXCEPT ![t] = Tail(@)]
    /\ UNCHANGED <<devicesVars, udVars, devs, jobs, lud, alone, qps, gids>>

Next ==
    \/ DevicesNext /\ UNCHANGED startupVars
    \/ \E t \in Threads :
          \/ Begin(t) \/ ChooseGids(t)
          \/ TestUd(t) \/ ReadUd(t) \/ AssignUd(t) \/ ToggleUd(t) \/ MarkUd(t)
          \/ SetMask(t) \/ CreateQp(t) \/ CreateQpFails(t) \/ EndQps(t)

Spec == Init /\ [][Next]_vars

-----------------------------------------------------------------------------
(* Properties *)

\* A QP whose creation no other call interfered with is on the pipeline of its
\* channel, and stays on the pipeline of its channel: the entry of the channel
\* is written for its first QP only.  (Calls for one device that overlap may
\* put a QP on the pipeline the other call chose.)
QpOnChannelPipeline ==
    \A q \in qps : q.alone => q.pipe = channel_ud[q.kind][q.channel].ud_id

\* The search of ncclIbGetGidIndex against what it is for: with the search
\* asked for on Ethernet it ends at the first usable GID, unless it returns an
\* error, entry 0 was good enough but for the range, or an entry before it may
\* pass for usable because sysfs tells no version of it.
GidFirstUsable ==
    \A g \in gids :
        (/\ g.link = "RoCE" /\ host.gid.index < 0 /\ g.index # GidError
         /\ ~Settled(Entry(g.table, 0), host.gid)
         /\ \E i \in 1 .. Len(g.table) - 1 : FirstUsable(g.table, host.gid, i))
            => FirstUsable(g.table, host.gid, g.index)
=============================================================================
