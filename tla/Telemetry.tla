----------------------------- MODULE Telemetry -----------------------------
(***************************************************************************)
(* Telemetry of the plug-in: the counters and completion-time histograms   *)
(* the data path keeps per queue pair (src/include/anp_state.h and         *)
(* anp_metrics.h), and the JSON reports that detached threads write of     *)
(* them while they change (src/src/net_ib.cc).  A report is started by     *)
(* ncclIbCreateQp, by SIGUSR1 and by the end of the process.  A snapshot   *)
(* copies the maps of anp_state but shares the queue pairs' counters, so a *)
(* report reads counters that the data path goes on counting; one action   *)
(* is one access to what threads share.                                    *)
(*                                                                         *)
(* The counters are found by qp_num alone.  A number is unique among the   *)
(* QPs that exist on one device; QPs of two devices may have the same one, *)
(* and a later QP that of one that was destroyed, whose counters stay.     *)
(***************************************************************************)
EXTENDS Integers, Sequences, FiniteSets, FiniteSetsExt

CONSTANTS
    Plans,              \* what may happen to a process, see Plan
    MaxQps, MaxDumps,   \* bounds: queue pairs; reports but the one at exit
    Devices, NoDevice,  \* device ids
    QpNums,             \* numbers of queue pairs
    WrIds,              \* ids of work requests
    Steps,              \* how far the clock moves before a completion
    BucketIntervalNs,   \* bucket_interval_ns of the configuration
    MaxBuckets,         \* max_buckets of the configuration
    CounterMod          \* counter_t is a 64-bit integer; its modulus here

\* A queue pair: its device and channel, the number the NIC gives it, whether
\* it carries data or clear-to-send messages, and the device anpNetConnect
\* names before it is created, if any (anpNetAccept names none).
QpInfos == [dev : Devices, channel : Nat, num : QpNums, data : BOOLEAN,
            name : Devices \cup {NoDevice}]
\* The queue pairs an application creates, in order, and bounds on the
\* data-path calls, the SIGUSR1 signals and the failures; on which threads the
\* process may be ended.
Plan == [qps : Seq(QpInfos), work : Nat, signals : Nat, faults : Nat,
         exits : SUBSET {"main", "app", "sig", "thread"}]

ASSUME TelemetryConstantsAssumption ==
    /\ Plans \subseteq Plan
    /\ \A p \in Plans : Len(p.qps) <= MaxQps /\ p.work < CounterMod
    /\ NoDevice \notin Devices
    /\ Steps \subseteq Nat \ {0} /\ \E m \in Steps : \A s \in Steps : s <= m
    /\ BucketIntervalNs \in Nat /\ MaxBuckets \in Nat \ {0}
    /\ MaxQps \in Nat /\ MaxDumps \in Nat /\ CounterMod \in Nat

Qps == 1 .. MaxQps
\* Report 0 is the one that the destructor of g_anp_state writes.
Final == 0
Dumps == 0 .. MaxDumps
\* Contexts that run anp_create_json_thread: the application's thread and a
\* signal handler, on whatever thread it interrupts.
Callers == {"app", "sig"}
\* Where exit() may run: there, on another thread, on a report's own thread.
Exiters == ((Callers \cup {"main"}) \X {0}) \cup ({"thread"} \X (1 .. MaxDumps))

VARIABLES
    plan,           \* the process's plan
    devices,        \* anp_state::devices: which exist, which come first in
                    \* the map, the names, the entries of QPs (by the first
                    \* QP of each) and the device's counters
    queue_state,    \* anp_state::queue_state: by number, the QP for which the
                    \* qp_info_s was made that is found there
    qp_info,        \* the qp_info_s made for each QP
    app,            \* what the application does: [qp, at]
    inflight,       \* the work requests the NIC has: per QP, id to start time
    done,           \* the completion times of each QP
    now,            \* gettime_ns()
    work,           \* data-path calls so far
    destroyed,      \* the QPs that no longer exist
    active_threads, \* the std::atomic of that name
    calls,          \* the report each caller is starting, or 0
    st,             \* the state of each report
    snap,           \* the maps that a report copied
    rows,           \* what a report has read of each QP, see Read
    file,           \* the report last renamed to the file of a device
    registered,     \* the handlers of SIGUSR1 and SIGUSR2 are installed
    exit,           \* wait_for_threads_before_exit: [by, at]
    late,           \* reports counted after that wait
    signals, faults

stateVars == <<devices, queue_state, qp_info>>
workVars == <<inflight, done, now, work, destroyed>>
dumpVars == <<active_threads, st, snap, rows, file, late>>
exitVars == <<plan, registered, exit>>
vars == <<stateVars, workVars, dumpVars, exitVars, app, calls, signals,
          faults>>
QpInfo == plan.qps
Num(q) == QpInfo[q].num

-----------------------------------------------------------------------------
\* Configuration.

\* load_config: an interval is rounded up to a power of 2.
PowerOf2(n) == CHOOSE p \in {2 ^ k : k \in 0 .. 30} :
                   p >= n /\ (p \div 2 < n \/ p = 1)
BucketSize == PowerOf2(BucketIntervalNs)

\* The interval is not above the largest power.
ASSUME BucketSizeAssumption == BucketSize \in Nat \ {0}

\* time_histogram_s::log_time; times beyond the last bucket are put there.
Bucket(time) == LET i == time \div BucketSize
                IN  IF i < MaxBuckets THEN i ELSE MaxBuckets - 1
Buckets == 0 .. MaxBuckets - 1

\* The upper bound a report prints for a bucket.
Label(q, b) == IF b < MaxBuckets - 1 THEN (b + 1) * BucketSize - 1
               ELSE qp_info[q].max

-----------------------------------------------------------------------------
\* The type invariant and the initial state.

NewQp(data) == [data_qp |-> data, num_wqe_sent |-> 0, num_wqe_rcvd |-> 0,
                num_wqe_completed |-> 0, num_cts_sent |-> 0,
                min |-> 0, max |-> 0, buckets |-> [b \in Buckets |-> 0],
                tracker |-> <<>>]
MaxTime == plan.work * Max(Steps)
QpState == [data_qp : BOOLEAN, num_wqe_sent : Nat, num_wqe_rcvd : Nat,
            num_wqe_completed : Nat, num_cts_sent : Nat, min : Nat, max : Nat,
            buckets : [Buckets -> Nat]]
\* The report has nothing yet, copied the maps, is counted in active_threads;
\* its thread, or for want of one its caller, reads the counters; the file is
\* renamed; the thread has ended.
DumpStates == {"none", "copied", "counted", "thread", "caller", "renamed", "done"}
\* Maps from numbers to QPs.
NumMaps == UNION {[N -> Qps] : N \in SUBSET QpNums}
NoMaps == [qps |-> {}, states |-> <<>>, first |-> NoDevice,
           sent |-> [q \in Qps |-> 0]]

TypeOK ==
    /\ plan \in Plans
    /\ devices.in \subseteq Devices
    /\ devices.first \in Devices \cup {NoDevice}
    /\ devices.named \subseteq devices.in
    /\ devices.qps \subseteq Qps
    /\ devices.sizes \in [Devices -> 0 .. plan.work]
    /\ devices.cq_poll_count \in [Devices -> 0 .. plan.work]
    /\ queue_state \in NumMaps
    /\ DOMAIN qp_info \subseteq Qps
    /\ \A q \in DOMAIN qp_info :
         LET s == qp_info[q] IN
         /\ [f \in DOMAIN s \ {"tracker"} |-> s[f]] \in QpState
         /\ s.tracker \in [DOMAIN s.tracker -> 0 .. MaxTime]
    /\ app \in [qp : Nat, at : {"idle", "name", "map", "state", "kind", "dump"}]
    /\ \A q \in Qps : DOMAIN inflight[q] \subseteq WrIds
    /\ done \in [Qps -> Seq(Nat)]
    /\ now \in 0 .. MaxTime /\ work \in 0 .. plan.work
    /\ destroyed \subseteq DOMAIN qp_info
    /\ active_threads \in Nat
    /\ calls \in [Callers -> Dumps]
    /\ st \in [Dumps -> DumpStates]
    /\ snap \in [Dumps -> [qps : SUBSET Qps, states : NumMaps,
                           first : Devices \cup {NoDevice},
                           sent : [Qps -> Nat]]]
    /\ \A d \in Dumps, q \in Qps : DOMAIN rows[d][q] \subseteq {"cts", "sum"}
    /\ file \in [Devices \cup {NoDevice} -> Dumps \cup {-1}]
    /\ registered \in BOOLEAN
    /\ exit \in [by : Exiters \cup {<<"nobody", 0>>}, at : {"no", "wait", "dump", "exited"}]
    /\ late \subseteq Dumps
    /\ signals \in 0 .. plan.signals /\ faults \in 0 .. plan.faults

Init ==
    /\ plan \in Plans
    /\ devices = [in |-> {}, first |-> NoDevice, named |-> {}, qps |-> {},
                  sizes |-> [d \in Devices |-> 0],
                  cq_poll_count |-> [d \in Devices |-> 0]]
    /\ queue_state = <<>>
    /\ qp_info = <<>>
    /\ app = [qp |-> 0, at |-> "idle"]
    /\ inflight = [q \in Qps |-> <<>>]
    /\ done = [q \in Qps |-> <<>>]
    /\ now = 0 /\ work = 0
    /\ destroyed = {}
    /\ active_threads = 0
    /\ calls = [c \in Callers |-> 0]
    /\ st = [d \in Dumps |-> "none"]
    /\ snap = [d \in Dumps |-> NoMaps]
    /\ rows = [d \in Dumps |-> [q \in Qps |-> <<>>]]
    /\ file = [d \in Devices \cup {NoDevice} |-> -1]
    /\ registered = TRUE
    /\ exit = [by |-> <<"nobody", 0>>, at |-> "no"]
    /\ late = {}
    /\ signals = 0 /\ faults = 0

\* map[x] = v
Put(map, x, v) == [y \in DOMAIN map \cup {x} |-> IF y = x THEN v ELSE map[y]]

Alive == exit.at # "exited"
\* A thread that called exit() does nothing else.
Runs(c) == Alive /\ exit.by # <<c, 0>>
AppIdle == Runs("app") /\ app.at = "idle"
Fault == faults < plan.faults /\ faults' = faults + 1

-----------------------------------------------------------------------------
\* ncclIbCreateQp: add_queue_pair registers a QP in two maps, one after the
\* other, and says last whether it carries data.  remove_queue_pair is never
\* called: a QP that is destroyed stays in both.

AppAt(label) == app' = [app EXCEPT !.at = label]

\* ibv_create_qp: no other QP of the device has the number of the new one.
BeginQp ==
    /\ AppIdle
    /\ app.qp < Len(QpInfo)
    /\ \A q \in (1 .. app.qp) \ destroyed :
          Num(q) = Num(app.qp + 1) => QpInfo[q].dev # QpInfo[app.qp + 1].dev
    /\ app' = [qp |-> app.qp + 1,
               at |-> IF QpInfo[app.qp + 1].name = NoDevice THEN "map" ELSE "name"]
    /\ UNCHANGED <<stateVars, workVars, dumpVars, exitVars, calls, signals, faults>>

\* A new element of an unordered map may come first in it or not.
FirstChoices(d) ==
    IF d \in devices.in THEN {devices.first}
    ELSE {devices.first, d} \ {NoDevice}

\* set_device_name, in anpNetConnect: a device that is there keeps its name.
SetDeviceName ==
    LET d == QpInfo[app.qp].name IN
    /\ Runs("app") /\ app.at = "name"
    /\ \E f \in FirstChoices(d) :
         devices' = [devices EXCEPT !.in = @ \cup {d}, !.first = f,
                         !.named = IF d \in devices.in THEN @ ELSE @ \cup {d}]
    /\ AppAt("map")
    /\ UNCHANGED <<queue_state, qp_info, workVars, dumpVars, exitVars, calls, signals, faults>>

SameChannel(p, q) == /\ QpInfo[p].dev = QpInfo[q].dev
                     /\ QpInfo[p].channel = QpInfo[q].channel

\* The entry of a channel is found by the number of the QP, too.
AddToChannel ==
    LET d == QpInfo[app.qp].dev
        old == {q \in devices.qps : SameChannel(q, app.qp) /\ Num(q) = Num(app.qp)}
    IN
    /\ Runs("app") /\ app.at = "map"
    /\ \E f \in FirstChoices(d) :
         devices' = [devices EXCEPT !.in = @ \cup {d}, !.first = f,
                         !.qps = IF old = {} THEN @ \cup {app.qp} ELSE @]
    /\ AppAt("state")
    /\ UNCHANGED <<queue_state, qp_info, workVars, dumpVars, exitVars, calls, signals, faults>>

\* New counters replace what was found under the number; qp_info_s leaves
\* status.data_qp uninitialized: either value.
AddState ==
    /\ Runs("app") /\ app.at = "state"
    /\ \E any \in BOOLEAN : qp_info' = Put(qp_info, app.qp, NewQp(any))
    /\ queue_state' = Put(queue_state, Num(app.qp), app.qp)
    /\ AppAt("kind")
    /\ UNCHANGED <<devices, workVars, dumpVars, exitVars, calls, signals, faults>>

SetKind ==
    /\ Runs("app") /\ app.at = "kind"
    /\ qp_info' = [qp_info EXCEPT ![queue_state[Num(app.qp)]].data_qp =
                                     QpInfo[app.qp].data]
    /\ AppAt("dump")
    /\ UNCHANGED <<devices, queue_state, workVars, dumpVars, exitVars, calls, signals, faults>>

\* ibv_modify_qp fails: ncclIbCreateQp returns before the report.
ModifyQpFails ==
    /\ Runs("app") /\ app.at = "dump" /\ calls["app"] = 0
    /\ Fault
    /\ AppAt("idle")
    /\ UNCHANGED <<stateVars, workVars, dumpVars, exitVars, calls, signals>>

\* ibv_destroy_qp, in anpNetCloseSend and anpNetCloseRecv: what is in flight
\* does not complete, and nothing is counted.
DestroyQp(q) ==
    /\ AppIdle
    /\ q \in DOMAIN qp_info \ destroyed
    /\ destroyed' = destroyed \cup {q}
    /\ UNCHANGED <<stateVars, inflight, done, now, work, dumpVars, exitVars, app,
                   calls, signals, faults>>

-----------------------------------------------------------------------------
\* The data path.

\* update_wqe_size_metrics and update_cq_poll_metrics count at the device that
\* is first in the map, whichever device the QP is on.
Counted(field) == [devices EXCEPT ![field][devices.first] = @ + 1]

\* update_wqe_send_metrics.
UpdateWqeSend(s, wr, start) ==
    [s EXCEPT !.num_wqe_sent = @ + 1, !.tracker = Put(@, wr, start)]

\* Mutant: 0 is taken for a completion time.
SmallestTime(min, time) == IF min > time THEN time ELSE min

\* wqe_completion_time_min is 0 before the first completion.
SmallerTime(min, time) == IF min > time \/ min = 0 THEN time ELSE min

\* update_wqe_rcvd_metrics; only work requests that were tracked have a time.
UpdateWqeRcvd(s, wr, end) ==
    LET time == end - s.tracker[wr]
        rcvd == [s EXCEPT !.num_wqe_rcvd = @ + 1]
    IN  IF wr \notin DOMAIN s.tracker THEN rcvd
        ELSE [rcvd EXCEPT
                !.num_wqe_completed = @ + 1,
                !.max = IF @ < time THEN time ELSE @,
                !.min = SmallerTime(@, time),
                !.buckets[Bucket(time)] = @ + 1,
                !.tracker = [w \in DOMAIN @ \ {wr} |-> @[w]]]

\* The counters found for a QP.
Found(q) == queue_state[Num(q)]

\* A data-path call on a QP whose creation is complete.
Work(q) ==
    /\ AppIdle /\ q \in DOMAIN qp_info \ destroyed
    /\ work < plan.work /\ work' = work + 1

\* ncclIbMultiSend, for a message that is not empty (an empty one has no size
\* to count).  The id is made of the indices of requests in use, each of which
\* posts once on a QP, so no id is in flight twice on one QP.
PostSend(q, wr) ==
    /\ Work(q) /\ QpInfo[q].data
    /\ wr \notin DOMAIN inflight[q]
    /\ inflight' = [inflight EXCEPT ![q] = Put(@, wr, now)]
    /\ qp_info' = [qp_info EXCEPT ![Found(q)] = UpdateWqeSend(@, wr, now)]
    /\ devices' = Counted("sizes")
    /\ UNCHANGED <<queue_state, done, now, destroyed, dumpVars, exitVars, app,
                   calls, signals, faults>>

\* ncclIbPostFifo, update_cts_send_metrics.
PostCts(q) ==
    /\ Work(q) /\ ~QpInfo[q].data
    /\ qp_info' = [qp_info EXCEPT ![Found(q)].num_cts_sent = @ + 1,
                                  ![Found(q)].num_wqe_sent = @ + 1]
    /\ UNCHANGED <<devices, queue_state, inflight, done, now, destroyed, dumpVars,
                   exitVars, app, calls, signals, faults>>

\* anpNetTest takes the completion of a send; one with an error is not counted
\* and ends the communicator.
CompleteSend(q, wr, step) ==
    /\ Work(q) /\ wr \in DOMAIN inflight[q]
    /\ now' = now + step
    /\ done' = [done EXCEPT ![q] = Append(@, now' - inflight[q][wr])]
    /\ inflight' = [inflight EXCEPT ![q] = [w \in DOMAIN @ \ {wr} |-> @[w]]]
    /\ qp_info' = [qp_info EXCEPT ![Found(q)] = UpdateWqeRcvd(@, wr, now')]
    /\ devices' = Counted("cq_poll_count")
    /\ UNCHANGED <<queue_state, destroyed, dumpVars, exitVars, app, calls, signals,
                   faults>>

\* It takes the completion of a work request that nobody tracks: a signalled
\* clear-to-send message, a receive or a flush.
CompleteOther(q, wr) ==
    /\ Work(q) /\ ~QpInfo[q].data
    /\ qp_info' = [qp_info EXCEPT ![Found(q)] = UpdateWqeRcvd(@, wr, now)]
    /\ devices' = Counted("cq_poll_count")
    /\ UNCHANGED <<queue_state, inflight, done, now, destroyed, dumpVars, exitVars,
                   app, calls, signals, faults>>

\* It polls for a send and finds nothing: the poll is counted all the same.
\* (A poll that finds several completions stands here for as many polls.)
PollEmpty(q) ==
    /\ Work(q) /\ inflight[q] # <<>>
    /\ devices' = Counted("cq_poll_count")
    /\ UNCHANGED <<queue_state, qp_info, inflight, done, now, destroyed, dumpVars,
                   exitVars, app, calls, signals, faults>>

-----------------------------------------------------------------------------
\* anp_create_json_thread.

\* new anp_state(g_anp_state): the maps are copied, the QPs' counters shared.
Maps == [qps |-> devices.qps, states |-> queue_state,
         first |-> devices.first,
         sent |-> [q \in Qps |-> IF q \in DOMAIN qp_info
                                 THEN qp_info[q].num_wqe_sent ELSE 0]]

\* The application's thread is there after a QP, the handler after SIGUSR1.
CopyState(c) ==
    \E d \in 1 .. MaxDumps :
    /\ Runs(c) /\ calls[c] = 0
    /\ st[d] = "none" /\ \A e \in 1 .. d - 1 : st[e] # "none"
    /\ \/ c = "app" /\ app.at = "dump" /\ UNCHANGED signals
       \/ /\ c = "sig" /\ registered
          /\ signals < plan.signals /\ signals' = signals + 1
    /\ calls' = [calls EXCEPT ![c] = d]
    /\ st' = [st EXCEPT ![d] = "copied"]
    /\ snap' = [snap EXCEPT ![d] = Maps]
    /\ UNCHANGED <<stateVars, workVars, active_threads, rows, file, late,
                   exitVars, app, faults>>

CountThread(c) ==
    LET d == calls[c] IN
    /\ Runs(c) /\ d # 0 /\ st[d] = "copied"
    /\ active_threads' = active_threads + 1
    /\ st' = [st EXCEPT ![d] = "counted"]
    /\ late' = IF exit.at = "dump" THEN late \cup {d} ELSE late
    /\ UNCHANGED <<stateVars, workVars, snap, rows, file, exitVars, app, calls,
                   signals, faults>>

Return(c) ==
    /\ calls' = [calls EXCEPT ![c] = 0]
    /\ app' = IF c = "app" THEN [app EXCEPT !.at = "idle"] ELSE app

CreateThread(c) ==
    LET d == calls[c] IN
    /\ Runs(c) /\ d # 0 /\ st[d] = "counted"
    /\ st' = [st EXCEPT ![d] = "thread"]
    /\ Return(c)
    /\ UNCHANGED <<stateVars, workVars, active_threads, snap, rows, file, late,
                   exitVars, signals, faults>>

\* Mutant: the thread that was not created stays counted.
StillCounted == active_threads

Uncounted == active_threads - 1

\* pthread_create fails: the caller deletes the snapshot, which writes it.
CreateFails(c) ==
    LET d == calls[c] IN
    /\ Runs(c) /\ d # 0 /\ st[d] = "counted"
    /\ Fault
    /\ active_threads' = Uncounted
    /\ st' = [st EXCEPT ![d] = "caller"]
    /\ UNCHANGED <<stateVars, workVars, snap, rows, file, late, exitVars, app,
                   calls, signals>>

-----------------------------------------------------------------------------
\* ~anp_state: shutdown, write_json_to_file, to_json.

Reading(d) ==
    /\ Alive /\ st[d] \in {"thread", "caller"}
    /\ exit.by # <<"thread", d>>
    /\ \A c \in Callers : calls[c] = d /\ d # Final => Runs(c)

\* Mutant: the sum is read before the clear-to-send messages.
SumFirst == <<"sum", "cts">>

\* to_json reads a QP's num_wqe_sent for the clear-to-send messages of
\* the channel, unless the QP carries data, and again for the QP's own entry and
\* the sum of the channel.  QPs that had no counters are passed over.
ReadOrder == <<"cts", "sum">>
NoRow == [r \in {"cts", "sum"} |-> 0]
Complete(row) == DOMAIN row = DOMAIN NoRow

Read(d, q) ==
    LET row == rows[d][q]
        what == ReadOrder[Cardinality(DOMAIN row) + 1]
        qp == qp_info[snap[d].states[Num(q)]]
        value == IF what = "cts" /\ qp.data_qp THEN 0 ELSE qp.num_wqe_sent
    IN
    /\ Reading(d)
    /\ q \in snap[d].qps /\ ~Complete(row)
    /\ \A p \in Qps \ {q} : rows[d][p] = <<>> \/ Complete(rows[d][p])
    /\ rows' = [rows EXCEPT ![d][q] =
                   IF Num(q) \in DOMAIN snap[d].states
                   THEN Put(row, what, value) ELSE NoRow]
    /\ UNCHANGED <<stateVars, workVars, active_threads, st, snap, file, late,
                   exitVars, app, calls, signals, faults>>

AllRead(d) == \A q \in snap[d].qps : Complete(rows[d][q])

\* num_wqe_sent of a channel: the sum of its QPs without the clear-to-send
\* messages, in unsigned arithmetic.
ChannelSent(d, C) ==
    LET total(r) == MapThenSumSet(LAMBDA q : rows[d][q][r], C)
    IN  (total("sum") - total("cts")) % CounterMod

\* Mutant: a caller that deletes its snapshot lowers active_threads again.
AfterDeleteInThread(s) == "renamed"

\* Only a report's thread has active_threads left to lower.
AfterDelete(s) == IF s = "thread" THEN "renamed" ELSE "done"

\* The snapshot is gone, and with exit() the process.
Deleted(d) ==
    /\ snap' = [snap EXCEPT ![d] = NoMaps]
    /\ rows' = [rows EXCEPT ![d] = [q \in Qps |-> <<>>]]
    /\ st' = [st EXCEPT ![d] = AfterDelete(@)]
    /\ IF \E c \in Callers : calls[c] = d /\ d # Final
       THEN \E c \in Callers : calls[c] = d /\ Return(c)
       ELSE UNCHANGED <<calls, app>>
    /\ exit' = IF d = Final THEN [exit EXCEPT !.at = "exited"] ELSE exit

\* The temporary file of this thread becomes the file of the first device.
Rename(d) ==
    /\ Reading(d) /\ AllRead(d)
    /\ file' = [file EXCEPT ![snap[d].first] = d]
    /\ Deleted(d)
    /\ UNCHANGED <<stateVars, workVars, active_threads, late, plan,
                   registered, signals, faults>>

\* The temporary file cannot be opened or renamed: only a message.
WriteFails(d) ==
    /\ Reading(d) /\ AllRead(d)
    /\ Fault
    /\ Deleted(d)
    /\ UNCHANGED <<stateVars, workVars, active_threads, file, late, plan,
                   registered, signals>>

\* json_thread_init after the snapshot.
EndThread(d) ==
    /\ Alive /\ exit.by # <<"thread", d>>
    /\ st[d] = "renamed"
    /\ active_threads' = active_threads - 1
    /\ st' = [st EXCEPT ![d] = "done"]
    /\ UNCHANGED <<stateVars, workVars, snap, rows, file, late, exitVars, app,
                   calls, signals, faults>>

-----------------------------------------------------------------------------
\* The end of the process.

\* main returns or calls exit, or the handler of SIGUSR2 calls it on the
\* thread it interrupts; wait_for_threads_before_exit ignores the signals from
\* then on.
Exit(t) ==
    /\ exit.at = "no"
    /\ t[1] \in plan.exits
    /\ \/ t[1] = "main"
       \/ t[1] = "app" /\ (app.at = "idle" \/ registered)
       \/ t[1] = "sig" /\ calls["sig"] # 0 /\ registered
       \/ t[1] = "thread" /\ st[t[2]] \in {"thread", "renamed"} /\ registered
    /\ exit' = [by |-> t, at |-> "wait"]
    /\ registered' = FALSE
    /\ UNCHANGED <<plan, stateVars, workVars, dumpVars, app, calls, signals, faults>>

\* Mutant: a thread that is still there is not waited for.
AtMostOneThread == active_threads <= 1

\* No report's thread is left; the destructor of g_anp_state writes the last.
NoThreads == active_threads = 0

EndWait ==
    /\ exit.at = "wait" /\ NoThreads
    /\ exit' = [exit EXCEPT !.at = "dump"]
    /\ st' = [st EXCEPT ![Final] = "caller"]
    /\ snap' = [snap EXCEPT ![Final] = Maps]
    /\ UNCHANGED <<stateVars, workVars, active_threads, rows, file, late,
                   plan, registered, app, calls, signals, faults>>

-----------------------------------------------------------------------------

Creation(c) == CopyState(c) \/ CountThread(c) \/ CreateThread(c) \/ CreateFails(c)
Report(d) == (\E q \in Qps : Read(d, q)) \/ Rename(d) \/ WriteFails(d) \/ EndThread(d)
CreateQp == BeginQp \/ SetDeviceName \/ AddToChannel \/ AddState \/ SetKind
            \/ ModifyQpFails \/ \E q \in Qps : DestroyQp(q)
DataPath ==
    \E q \in Qps :
      \/ PostCts(q) \/ PollEmpty(q)
      \/ \E wr \in WrIds : \/ PostSend(q, wr) \/ CompleteOther(q, wr)
                           \/ \E s \in Steps : CompleteSend(q, wr, s)

Next ==
    \/ CreateQp \/ DataPath
    \/ \E c \in Callers : Creation(c)
    \/ \E d \in Dumps : Report(d)
    \/ \E t \in Exiters : Exit(t)
    \/ EndWait

Spec == Init /\ [][Next]_vars

\* Threads that run are scheduled: the ones that write reports, the callers
\* that start them and the one that polls active_threads in exit().  Nobody
\* has to create QPs, send signals or call exit().
Fairness ==
    /\ \A c \in Callers : WF_vars(CountThread(c) \/ CreateThread(c) \/ CreateFails(c))
    /\ \A d \in Dumps : WF_vars(Report(d))
    /\ WF_vars(EndWait)

FairSpec == Spec /\ Fairness

-----------------------------------------------------------------------------
\* Properties.

\* Only QPs of one device have had the number of q.
OneDevice(q) ==
    \A p \in 1 .. app.qp : Num(p) = Num(q) => QpInfo[p].dev = QpInfo[q].dev

\* The histogram of a QP is the exact histogram of the times its work requests
\* took, although update_wqe_rcvd_metrics finds the counters by a number that
\* other QPs of the device had before, or got after it, and the start of a
\* work request by an id that is used again; min and max are attained, and no
\* time is above the bound printed for its bucket.  Nothing is said of QPs of
\* two devices with the same number: they count in each other's place.
LatencyTrue ==
    \A q \in DOMAIN qp_info : OneDevice(q) =>
      LET s == qp_info[q]
          times == {done[q][i] : i \in DOMAIN done[q]}
      IN  /\ s.num_wqe_sent = s.num_cts_sent + Len(done[q]) + Cardinality(DOMAIN inflight[q])
          /\ s.num_wqe_completed = Len(done[q])
          /\ times # {} => s.min = Min(times) /\ s.max = Max(times)
          /\ \A b \in Buckets : s.buckets[b] =
               Cardinality({i \in DOMAIN done[q] : /\ done[q][i] <= Label(q, b)
                                                   /\ b > 0 => done[q][i] > Label(q, b - 1)})

\* num_wqe_sent of a channel in a report excludes the clear-to-send messages
\* without ever falling below zero, whatever the data path counts between the
\* reads and whichever QPs share a number: it is at least what was counted as
\* sent in the counters of the channel's data QPs when the snapshot was taken,
\* and at most all that is counted in those of the channel by now.
SentExcludesCts ==
    \A d \in Dumps : AllRead(d) =>
      \A p \in snap[d].qps :
        LET of(q) == snap[d].states[Num(q)]
            C == {q \in snap[d].qps : SameChannel(q, p)}
            known == {q \in C : Num(q) \in DOMAIN snap[d].states}
            data == {q \in known : QpInfo[of(q)].data}
            before == [q \in known |-> snap[d].sent[of(q)]]
            by_now == [q \in known |-> qp_info[of(q)].num_wqe_sent]
        IN  /\ MapThenSumSet(LAMBDA q : before[q], data) <= ChannelSent(d, C)
            /\ ChannelSent(d, C) <= MapThenSumSet(LAMBDA q : by_now[q], known)

\* "All threads completed. Safe to exit.": once the wait is over, no report is
\* still to be written but those counted after it (a handler that had been
\* entered before, a QP created meanwhile) and those whose thread could not be
\* created, which their caller uncounts before it writes them; without either,
\* and without another failure, the report that stays is the one of the final
\* state.
SafeToExit ==
    /\ exit.at \in {"dump", "exited"} =>
         \A d \in 1 .. MaxDumps :
             st[d] \in {"counted", "thread", "caller", "renamed"} =>
                 \/ d \in late
                 \/ faults > 0 /\ st[d] = "caller" /\ \E c \in Callers : calls[c] = d
    /\ exit.at = "exited" /\ late = {} /\ faults = 0 =>
         \E dev \in DOMAIN file : file[dev] = Final

\* exit() comes to its end, the threads of pending reports included, unless it
\* runs on a thread that is itself counted (SIGUSR2 interrupted it).
CountedExiter ==
    \/ exit.by[1] = "thread"
    \/ \E c \in Callers : exit.by[1] = c /\ calls[c] # 0 /\ st[calls[c]] = "counted"
ExitEnds == (exit.at = "wait" /\ ~CountedExiter) ~> (exit.at = "exited")
=============================================================================
