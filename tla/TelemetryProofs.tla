-------------------------- MODULE TelemetryProofs --------------------------
(***************************************************************************)
(* Telemetry, for every process: any number of queue pairs, work requests, *)
(* reports, signals and failures.  The histogram of a queue pair is exact, *)
(* exit() waits for every report that was counted before it, and a channel *)
(* is reported without its clear-to-send messages and never below zero.    *)
(*                                                                         *)
(* The inductive invariant has two halves that meet in the maps a report   *)
(* copies.  What the application's thread keeps of a queue pair is compared *)
(* with the times its work requests took; a report is compared with its    *)
(* share of active_threads.  SentInv adds what a report has read of each   *)
(* counter, between what the counter was and what it is by now.            *)
(***************************************************************************)
EXTENDS Telemetry, FiniteSums, FiniteSetTheorems, SequenceTheorems, TLAPS

AppLabels == {"idle", "name", "map", "state", "kind", "dump"}
Trackers == UNION {[W -> Nat] : W \in SUBSET WrIds}
QpStats == [data_qp : BOOLEAN, num_wqe_sent : Nat, num_wqe_rcvd : Nat,
            num_wqe_completed : Nat, num_cts_sent : Nat, min : Nat, max : Nat,
            buckets : [Buckets -> Nat], tracker : Trackers]
DeviceMaps == [in : SUBSET Devices, first : Devices \cup {NoDevice},
               named : SUBSET Devices, qps : SUBSET Qps,
               sizes : [Devices -> Nat], cq_poll_count : [Devices -> Nat]]

\* The times of bucket b.
InBucket(times, b) == {i \in 1 .. Len(times) : Bucket(times[i]) = b}

\* min and max are bounds that are attained; 0 stands for no time at all.
Attained(s, times) ==
    /\ times = <<>> => s.min = 0 /\ s.max = 0
    /\ \A i \in 1 .. Len(times) : s.min <= times[i] /\ times[i] <= s.max
    /\ times # <<>> => \E i, j \in 1 .. Len(times) : times[i] = s.min /\ times[j] = s.max

\* The counters s of a QP whose completed work requests took times and whose
\* other ones were posted at the times of open.
Measures(s, times, open) ==
    /\ s.tracker = open
    /\ s.num_wqe_sent = s.num_cts_sent + Len(times) + Cardinality(DOMAIN open)
    /\ s.num_wqe_completed = Len(times)
    /\ Attained(s, times)
    /\ \A b \in Buckets : s.buckets[b] = Cardinality(InBucket(times, b))

\* The times of work requests: each was posted by now and took some time.
TimesOn(q) ==
    /\ \A w \in DOMAIN inflight[q] : inflight[q][w] <= now
    /\ IsFiniteSet(DOMAIN inflight[q])
    /\ q \notin DOMAIN qp_info => inflight[q] = <<>> /\ done[q] = <<>>
    /\ q \in DOMAIN qp_info =>
          /\ ~QpInfo[q].data => DOMAIN inflight[q] = {}
          /\ OneDevice(q) => Measures(qp_info[q], done[q], inflight[q])

\* What is tracked was posted by now, by whichever QP.
TrackedBy(s, time) == \A w \in DOMAIN s.tracker : s.tracker[w] <= time

\* Queue pairs are created one after the other.
Creating ==
    /\ app \in [qp : 0 .. Len(plan.qps), at : AppLabels]
    /\ app.at # "idle" => app.qp > 0
    /\ app.at = "name" => QpInfo[app.qp].name # NoDevice
    /\ DOMAIN qp_info \subseteq 1 .. app.qp
    /\ app.at \in {"name", "map", "state"} => app.qp \notin DOMAIN qp_info

\* The counters found under a number were made for a QP of that number; QPs of
\* one device that exist have different numbers, and so each of them finds its
\* own unless another device uses its number.
Numbering ==
    /\ queue_state \in NumMaps
    /\ \A n \in DOMAIN queue_state :
          queue_state[n] \in DOMAIN qp_info /\ Num(queue_state[n]) = n
    /\ \A q \in DOMAIN qp_info : Num(q) \in DOMAIN queue_state
    /\ destroyed \subseteq DOMAIN qp_info
    /\ app.at = "kind" => app.qp \in DOMAIN qp_info /\ Found(app.qp) = app.qp
    /\ \A p, q \in (1 .. app.qp) \ destroyed :
          p # q /\ Num(p) = Num(q) => QpInfo[p].dev # QpInfo[q].dev
    /\ \A q \in DOMAIN qp_info \ destroyed : OneDevice(q) => Found(q) = q

AppInv ==
    /\ plan \in Plans
    /\ devices \in DeviceMaps /\ devices.named \subseteq devices.in
    /\ \A d \in Devices : devices.sizes[d] <= work /\ devices.cq_poll_count[d] <= work
    /\ qp_info \in [DOMAIN qp_info -> QpStats]
    /\ \A q \in DOMAIN qp_info : TrackedBy(qp_info[q], now)
    /\ inflight \in [Qps -> Trackers] /\ done \in [Qps -> Seq(Nat \ {0})]
    /\ work \in 0 .. plan.work /\ now \in Nat /\ now <= work * Max(Steps)
    /\ Creating
    /\ Numbering
    /\ \A q \in Qps : TimesOn(q)

\* The reports that active_threads counts.
Active == {d \in 1 .. MaxDumps : st[d] \in {"counted", "thread", "renamed"}}

ReportTypes ==
    /\ calls \in [Callers -> Dumps]
    /\ st \in [Dumps -> DumpStates]
    /\ snap \in [Dumps -> [qps : SUBSET Qps, states : NumMaps,
                           first : Devices \cup {NoDevice}, sent : [Qps -> Nat]]]
    /\ DOMAIN rows = Dumps /\ \A d \in Dumps : DOMAIN rows[d] = Qps
    /\ \A d \in Dumps, q \in Qps : DOMAIN rows[d][q] \subseteq {"cts", "sum"}
    /\ file \in [Devices \cup {NoDevice} -> Dumps \cup {-1}]
    /\ registered \in BOOLEAN
    /\ exit \in [by : Exiters \cup {<<"nobody", 0>>},
                 at : {"no", "wait", "dump", "exited"}]
    /\ late \subseteq Dumps
    /\ signals \in 0 .. plan.signals /\ faults \in 0 .. plan.faults

\* A report other than the last that its caller writes is one whose thread could
\* not be created.
CallerInv ==
    \A d \in 1 .. MaxDumps :
        st[d] = "caller" => faults # 0 /\ \E c \in Callers : calls[c] = d

\* The last report has no thread.  After the wait only late reports are
\* counted, and without a failure the last report ends with its file.
ReportInv ==
    /\ ReportTypes
    /\ active_threads = Cardinality(Active)
    /\ st[Final] \in {"none", "caller", "done"}
    /\ st[Final] = "caller" => exit.at = "dump"
    /\ exit.at \in {"dump", "exited"} => Active \subseteq late
    /\ CallerInv
    /\ exit.at = "exited" /\ faults = 0 => \E dev \in DOMAIN file : file[dev] = Final

TelemetryInv == AppInv /\ ReportInv

-----------------------------------------------------------------------------
(* Constants and arithmetic *)

LEMMA TelemetryConstants ==
    /\ MaxBuckets \in Nat \ {0} /\ MaxQps \in Nat /\ MaxDumps \in Nat
    /\ NoDevice \notin Devices /\ Steps \subseteq Nat \ {0}
    /\ BucketSize \in Nat \ {0} /\ Final \in Dumps /\ 0 \in Dumps
    /\ \A p \in Plans : /\ Len(p.qps) \in 0 .. MaxQps /\ p.qps \in Seq(QpInfos)
                        /\ p.work \in Nat /\ p.signals \in Nat /\ p.faults \in Nat
  <1>1. ASSUME NEW p \in Plans
        PROVE  /\ Len(p.qps) \in 0 .. MaxQps /\ p.qps \in Seq(QpInfos)
               /\ p.work \in Nat /\ p.signals \in Nat /\ p.faults \in Nat
    <2>1. p \in Plan /\ Len(p.qps) <= MaxQps
      BY TelemetryConstantsAssumption
    <2>2. p.qps \in Seq(QpInfos) /\ p.work \in Nat /\ p.signals \in Nat /\ p.faults \in Nat
      BY <2>1 DEF Plan
    <2> QED
      BY <2>1, <2>2, LenProperties, TelemetryConstantsAssumption
  <1> QED
    BY <1>1, TelemetryConstantsAssumption, BucketSizeAssumption DEF Final, Dumps

LEMMA MinIs ==
    ASSUME NEW T \in SUBSET Nat, NEW x \in T, \A y \in T : x <= y
    PROVE  Min(T) = x
  <1>1. \E z \in T : \A y \in T : z <= y
    OBVIOUS
  <1>2. Min(T) \in T /\ \A y \in T : Min(T) <= y
    BY <1>1 DEF Min
  <1>3. Min(T) \in Nat /\ x \in Nat /\ Min(T) <= x /\ x <= Min(T)
    BY <1>2
  <1> QED
    BY <1>3

LEMMA MaxIs ==
    ASSUME NEW T \in SUBSET Nat, NEW x \in T, \A y \in T : x >= y
    PROVE  Max(T) = x
  <1>1. \E z \in T : \A y \in T : z >= y
    OBVIOUS
  <1>2. Max(T) \in T /\ \A y \in T : Max(T) >= y
    BY <1>1 DEF Max
  <1>3. Max(T) \in Nat /\ x \in Nat /\ Max(T) >= x /\ x >= Max(T)
    BY <1>2
  <1> QED
    BY <1>3

LEMMA LongestStep ==
    Max(Steps) \in Nat /\ \A s \in Steps : s \in Nat \ {0} /\ s <= Max(Steps)
  <1>1. PICK m \in Steps : \A s \in Steps : s <= m
    BY TelemetryConstantsAssumption
  <1>2. Steps \in SUBSET Nat /\ \A s \in Steps : s \in Nat \ {0} /\ m >= s
    BY <1>1, TelemetryConstantsAssumption
  <1>3. Max(Steps) = m
    BY <1>2, MaxIs
  <1> QED
    BY <1>2, <1>3

LEMMA Quotient ==
    ASSUME NEW n \in Nat, NEW k \in Nat \ {0}, NEW b \in Nat
    PROVE  /\ n \div k \in Nat
           /\ n < (b + 1) * k <=> n \div k <= b
           /\ n >= b * k <=> n \div k >= b
  <1> DEFINE q == n \div k
             r == n % k
  <1>1. q \in Nat /\ r \in Nat /\ r < k /\ n = q * k + r
    OBVIOUS
  <1> HIDE DEF q, r
  <1>2. q <= b => q * k <= b * k
    BY <1>1
  <1>3. q >= b => q * k >= b * k
    BY <1>1
  <1>4. q >= b + 1 => q * k >= (b + 1) * k
    BY <1>1
  <1>5. b >= q + 1 => b * k >= (q + 1) * k
    BY <1>1
  <1>6. (b + 1) * k = b * k + k /\ (q + 1) * k = q * k + k
    BY <1>1
  <1>7. b * k \in Nat /\ q * k \in Nat
    BY <1>1
  <1> QED
    BY <1>1, <1>2, <1>3, <1>4, <1>5, <1>6, <1>7 DEF q

LEMMA NextMultiple ==
    ASSUME NEW n \in Nat, NEW k \in Nat
    PROVE  n * k \in Nat /\ (n + 1) * k = n * k + k
  OBVIOUS

LEMMA BucketType ==
    ASSUME NEW t \in Nat
    PROVE  Bucket(t) \in Buckets
  <1>1. t \div BucketSize \in Nat
    BY TelemetryConstants, Quotient
  <1> QED
    BY <1>1, TelemetryConstants DEF Bucket, Buckets

\* The bucket of a time is the one whose printed bounds are around it.
Bound(b, max) == IF b < MaxBuckets - 1 THEN (b + 1) * BucketSize - 1 ELSE max

LEMMA BucketBounds ==
    ASSUME NEW t \in Nat, NEW max \in Nat, t <= max, NEW b \in Buckets
    PROVE  Bucket(t) = b <=> /\ t <= Bound(b, max)
                             /\ b > 0 => t > Bound(b - 1, max)
  <1> DEFINE i == t \div BucketSize
             low == b * BucketSize
             high == (b + 1) * BucketSize
  <1>1. /\ b \in Nat /\ BucketSize \in Nat \ {0} /\ MaxBuckets \in Nat \ {0}
        /\ b <= MaxBuckets - 1
    BY TelemetryConstants DEF Buckets
  <1>2. i \in Nat /\ (t < high <=> i <= b) /\ (t >= low <=> i >= b)
    BY <1>1, Quotient
  <1>3. low \in Nat /\ high \in Nat /\ (b = 0 => low = 0)
    BY <1>1
  <1>4. Bucket(t) = IF i < MaxBuckets THEN i ELSE MaxBuckets - 1
    BY DEF Bucket
  <1>5. Bound(b, max) = IF b < MaxBuckets - 1 THEN high - 1 ELSE max
    BY DEF Bound
  <1>6. b > 0 => Bound(b - 1, max) = low - 1
    <2>1. (b - 1) + 1 = b /\ b - 1 < MaxBuckets - 1
      BY <1>1
    <2> QED
      BY <2>1 DEF Bound
  <1> HIDE DEF i, low, high
  <1>7. CASE b < MaxBuckets - 1
    BY <1>1, <1>2, <1>3, <1>4, <1>5, <1>6, <1>7
  <1>8. CASE b = MaxBuckets - 1
    BY <1>1, <1>2, <1>3, <1>4, <1>5, <1>6, <1>8
  <1> QED
    BY <1>1, <1>7, <1>8

-----------------------------------------------------------------------------
(* Maps and counters *)

LEMMA EmptyMap ==
    /\ \A S : <<>> \in [{} -> S]
    /\ <<>> \in Trackers /\ DOMAIN <<>> = {} /\ Cardinality(DOMAIN <<>>) = 0
    /\ IsFiniteSet(DOMAIN <<>>)
  <1>1. \A S : <<>> \in [{} -> S]
    OBVIOUS
  <1>2. DOMAIN <<>> = {}
    OBVIOUS
  <1>3. {} \in SUBSET WrIds
    OBVIOUS
  <1>4. <<>> \in Trackers
    BY <1>1, <1>3 DEF Trackers
  <1> QED
    BY <1>1, <1>2, <1>4, FS_EmptySet

LEMMA PutTracked ==
    ASSUME NEW f \in Trackers, NEW w \in WrIds, NEW n \in Nat
    PROVE  /\ Put(f, w, n) \in Trackers /\ DOMAIN Put(f, w, n) = DOMAIN f \cup {w}
           /\ Put(f, w, n)[w] = n
           /\ \A v \in DOMAIN f \ {w} : Put(f, w, n)[v] = f[v]
  <1>1. PICK W \in SUBSET WrIds : f \in [W -> Nat]
    BY DEF Trackers
  <1>2. Put(f, w, n) \in [W \cup {w} -> Nat]
    BY <1>1 DEF Put
  <1>3. Put(f, w, n) \in Trackers
    <2>1. W \cup {w} \in SUBSET WrIds
      OBVIOUS
    <2> QED
      BY <1>2, <2>1 DEF Trackers
  <1> QED
    BY <1>1, <1>3 DEF Put

LEMMA DropTracked ==
    ASSUME NEW f \in Trackers, NEW w
    PROVE  [v \in DOMAIN f \ {w} |-> f[v]] \in Trackers
  <1>1. PICK W \in SUBSET WrIds : f \in [W -> Nat]
    BY DEF Trackers
  <1>2. [v \in DOMAIN f \ {w} |-> f[v]] \in [W \ {w} -> Nat]
    BY <1>1
  <1>3. W \ {w} \in SUBSET WrIds
    OBVIOUS
  <1> QED
    BY <1>2, <1>3 DEF Trackers

LEMMA TrackedType ==
    ASSUME NEW f \in Trackers
    PROVE  /\ DOMAIN f \subseteq WrIds /\ f \in [DOMAIN f -> Nat]
  BY DEF Trackers

LEMMA NewMeasures ==
    ASSUME NEW data \in BOOLEAN
    PROVE  NewQp(data) \in QpStats /\ Measures(NewQp(data), <<>>, <<>>)
  <1>1. NewQp(data) \in QpStats
    BY EmptyMap DEF NewQp, QpStats
  <1>2. \A b \in Buckets : InBucket(<<>>, b) = {}
    BY DEF InBucket
  <1>3. \A b \in Buckets : Cardinality(InBucket(<<>>, b)) = 0
    BY <1>2, FS_EmptySet
  <1>4. Attained(NewQp(data), <<>>)
    BY DEF Attained, NewQp
  <1> QED
    BY <1>1, <1>3, <1>4, EmptyMap DEF Measures, NewQp

\* update_cts_send_metrics and the kind of a QP do not touch the times.
LEMMA OtherCounters ==
    ASSUME NEW s \in QpStats, NEW r \in QpStats, NEW times, NEW open,
           Len(times) \in Nat, Cardinality(DOMAIN open) \in Nat,
           Measures(s, times, open), r.tracker = s.tracker, r.min = s.min,
           r.max = s.max, r.buckets = s.buckets,
           r.num_wqe_completed = s.num_wqe_completed,
           r.num_wqe_sent - r.num_cts_sent = s.num_wqe_sent - s.num_cts_sent
    PROVE  Measures(r, times, open)
  <1>1. /\ r.num_wqe_sent \in Nat /\ r.num_cts_sent \in Nat /\ s.num_wqe_sent \in Nat
        /\ s.num_cts_sent \in Nat
    BY DEF QpStats
  <1>2. r.num_wqe_sent = r.num_cts_sent + Len(times) + Cardinality(DOMAIN open)
    <2>1. s.num_wqe_sent = s.num_cts_sent + Len(times) + Cardinality(DOMAIN open)
      BY DEF Measures
    <2>2. PICK k \in Nat : k = Len(times)
      OBVIOUS
    <2>3. PICK m \in Nat : m = Cardinality(DOMAIN open)
      OBVIOUS
    <2>4. s.num_wqe_sent = s.num_cts_sent + k + m
      BY <2>1, <2>2, <2>3
    <2>5. r.num_wqe_sent = r.num_cts_sent + k + m
      <3>1. PICK a \in Nat, b \in Nat, c \in Nat, d \in Nat :
               /\ a = r.num_wqe_sent /\ b = r.num_cts_sent
               /\ c = s.num_wqe_sent /\ d = s.num_cts_sent
        BY <1>1
      <3>2. a - b = c - d /\ c = d + k + m
        BY <2>4, <3>1
      <3>3. a = b + k + m
        BY <3>2
      <3> QED
        BY <3>1, <3>3
    <2> QED
      BY <2>2, <2>3, <2>5
  <1> QED
    BY <1>2 DEF Measures, Attained

LEMMA SendMeasures ==
    ASSUME NEW s \in QpStats, NEW times, Len(times) \in Nat, NEW open \in Trackers,
           IsFiniteSet(DOMAIN open), Measures(s, times, open),
           NEW w \in WrIds \ DOMAIN open, NEW n \in Nat
    PROVE  /\ UpdateWqeSend(s, w, n) \in QpStats
           /\ Measures(UpdateWqeSend(s, w, n), times, Put(open, w, n))
  <1> DEFINE r == UpdateWqeSend(s, w, n)
  <1>1. s.tracker = open
    BY DEF Measures
  <1>2. Put(open, w, n) \in Trackers /\ DOMAIN Put(open, w, n) = DOMAIN open \cup {w}
    BY PutTracked
  <1>3. /\ r \in QpStats /\ r.num_wqe_sent = s.num_wqe_sent + 1
        /\ r.tracker = Put(open, w, n) /\ r.num_cts_sent = s.num_cts_sent
        /\ r.num_wqe_completed = s.num_wqe_completed
        /\ r.min = s.min /\ r.max = s.max /\ r.buckets = s.buckets
    <2>1. r = [s EXCEPT !.num_wqe_sent = s.num_wqe_sent + 1, !.tracker = Put(open, w, n)]
      BY <1>1 DEF UpdateWqeSend, QpStats
    <2>2. PICK p \in Trackers : p = Put(open, w, n)
      BY <1>2
    <2>3. r = [s EXCEPT !.num_wqe_sent = s.num_wqe_sent + 1, !.tracker = p]
      BY <2>1, <2>2
    <2>4. s.num_wqe_sent + 1 \in Nat
      BY DEF QpStats
    <2> HIDE DEF r
    <2>5. r \in QpStats
      BY <2>2, <2>3, <2>4 DEF QpStats
    <2>6. /\ r.num_wqe_sent = s.num_wqe_sent + 1 /\ r.tracker = p
          /\ r.num_cts_sent = s.num_cts_sent
          /\ r.num_wqe_completed = s.num_wqe_completed
          /\ r.min = s.min /\ r.max = s.max /\ r.buckets = s.buckets
      BY <2>2, <2>3 DEF QpStats
    <2> QED
      BY <2>2, <2>5, <2>6
  <1>4. /\ Cardinality(DOMAIN open) \in Nat
        /\ Cardinality(DOMAIN open \cup {w}) = Cardinality(DOMAIN open) + 1
    BY FS_CardinalityType, FS_AddElement
  <1>5. s.num_wqe_sent \in Nat /\ s.num_cts_sent \in Nat
    BY DEF QpStats
  <1>6. r.num_wqe_sent = r.num_cts_sent + Len(times) + Cardinality(DOMAIN Put(open, w, n))
    BY <1>2, <1>3, <1>4, <1>5 DEF Measures
  <1> QED
    BY <1>3, <1>6 DEF Measures, Attained

LEMMA OneTimeMore ==
    ASSUME NEW times \in Seq(Nat \ {0}), NEW t \in Nat \ {0}, NEW b \in Buckets
    PROVE  /\ Cardinality(InBucket(times, b)) \in Nat
           /\ Cardinality(InBucket(Append(times, t), b)) =
                 Cardinality(InBucket(times, b)) + (IF Bucket(t) = b THEN 1 ELSE 0)
  <1> DEFINE n == Len(times)
             more == Append(times, t)
             I == InBucket(times, b)
  <1>1. /\ n \in Nat /\ Len(more) = n + 1 /\ more[n + 1] = t
        /\ \A i \in 1 .. n : more[i] = times[i]
    BY AppendProperties
  <1>2. IsFiniteSet(I) /\ n + 1 \notin I
    <2>1. I \in SUBSET (1 .. n)
      BY DEF InBucket
    <2>2. IsFiniteSet(1 .. n)
      BY <1>1, FS_Interval
    <2> QED
      BY <1>1, <2>1, <2>2, FS_Subset
  <1>3. InBucket(more, b) = IF Bucket(t) = b THEN I \cup {n + 1} ELSE I
    <2>1. \A i : i \in InBucket(more, b) <=>
                    i \in 1 .. n + 1 /\ Bucket(more[i]) = b
      BY <1>1 DEF InBucket
    <2>2. \A i : i \in I <=> i \in 1 .. n /\ Bucket(times[i]) = b
      BY DEF InBucket
    <2>3. \A i : i \in 1 .. n + 1 <=> i \in 1 .. n \/ i = n + 1
      BY <1>1
    <2> HIDE DEF more, I
    <2> QED
      BY <1>1, <2>1, <2>2, <2>3
  <1>4. Cardinality(I) \in Nat /\ Cardinality(I \cup {n + 1}) = Cardinality(I) + 1
    BY <1>2, FS_CardinalityType, FS_AddElement
  <1> QED
    BY <1>3, <1>4

LEMMA RcvdMeasures ==
    ASSUME NEW s \in QpStats, NEW times \in Seq(Nat \ {0}), NEW open \in Trackers,
           IsFiniteSet(DOMAIN open), Measures(s, times, open),
           NEW w \in DOMAIN open, NEW end \in Nat, end > open[w]
    PROVE  /\ end - open[w] \in Nat \ {0}
           /\ UpdateWqeRcvd(s, w, end) \in QpStats
           /\ Measures(UpdateWqeRcvd(s, w, end), Append(times, end - open[w]),
                       [v \in DOMAIN open \ {w} |-> open[v]])
  <1> DEFINE r == UpdateWqeRcvd(s, w, end)
  <1>1. s.tracker = open /\ open[w] \in Nat
    BY TrackedType DEF Measures
  <1>2. PICK t \in Nat \ {0} : t = end - open[w]
    BY <1>1
  <1>3. PICK rest \in Trackers : rest = [v \in DOMAIN open \ {w} |-> open[v]]
    BY DropTracked
  <1>4. Bucket(t) \in Buckets
    BY BucketType
  <1>5. PICK all \in [Buckets -> Nat] :
           all = [s.buckets EXCEPT ![Bucket(t)] = s.buckets[Bucket(t)] + 1]
    <2>1. s.buckets \in [Buckets -> Nat]
      BY DEF QpStats
    <2>2. PICK k \in Buckets : k = Bucket(t)
      BY <1>4
    <2>3. [s.buckets EXCEPT ![k] = s.buckets[k] + 1] \in [Buckets -> Nat]
      BY <2>1
    <2> QED
      BY <2>2, <2>3
  <1>6. /\ s.max \in Nat /\ s.min \in Nat /\ s.num_wqe_rcvd + 1 \in Nat
        /\ s.num_wqe_completed + 1 \in Nat /\ s.num_wqe_sent \in Nat /\ s.num_cts_sent \in Nat
        /\ s.num_wqe_completed \in Nat /\ s.buckets \in [Buckets -> Nat]
    BY DEF QpStats
  <1>7. PICK hi \in Nat : hi = IF s.max < t THEN t ELSE s.max
    BY <1>6
  <1>8. PICK lo \in Nat : lo = SmallerTime(s.min, t)
    BY <1>6 DEF SmallerTime
  <1>9. r = [s EXCEPT !.num_wqe_rcvd = s.num_wqe_rcvd + 1,
                      !.num_wqe_completed = s.num_wqe_completed + 1,
                      !.max = hi, !.min = lo, !.buckets = all, !.tracker = rest]
    <2>1. w \in DOMAIN s.tracker /\ t = end - s.tracker[w]
      BY <1>1, <1>2
    <2> DEFINE rcvd == [s EXCEPT !.num_wqe_rcvd = s.num_wqe_rcvd + 1]
    <2>2. r = [rcvd EXCEPT !.num_wqe_completed = rcvd.num_wqe_completed + 1,
                           !.max = IF rcvd.max < t THEN t ELSE rcvd.max,
                           !.min = SmallerTime(rcvd.min, t),
                           !.buckets = [rcvd.buckets EXCEPT
                              ![Bucket(t)] = rcvd.buckets[Bucket(t)] + 1],
                           !.tracker = [v \in DOMAIN rcvd.tracker \ {w} |-> rcvd.tracker[v]]]
      BY <2>1 DEF UpdateWqeRcvd, QpStats
    <2>3. /\ rcvd.num_wqe_completed = s.num_wqe_completed /\ rcvd.max = s.max
          /\ rcvd.min = s.min /\ rcvd.buckets = s.buckets /\ rcvd.tracker = open
      BY <1>1 DEF QpStats
    <2>4. r = [rcvd EXCEPT !.num_wqe_completed = s.num_wqe_completed + 1,
                           !.max = hi, !.min = lo, !.buckets = all, !.tracker = rest]
      BY <1>3, <1>5, <1>7, <1>8, <2>2, <2>3
    <2> HIDE DEF r
    <2> QED
      BY <2>4 DEF QpStats
  <1> HIDE DEF r
  <1>10. r \in QpStats
    BY <1>6, <1>9 DEF QpStats
  <1>11. /\ r.num_wqe_completed = s.num_wqe_completed + 1 /\ r.tracker = rest
         /\ r.num_wqe_sent = s.num_wqe_sent /\ r.num_cts_sent = s.num_cts_sent
         /\ r.max = hi /\ r.min = lo /\ r.buckets = all
    BY <1>9 DEF QpStats
  <1>12. PICK more \in Seq(Nat \ {0}) : more = Append(times, t)
    BY AppendProperties
  <1>13. PICK n \in Nat : /\ n = Len(times) /\ Len(more) = n + 1 /\ more[n + 1] = t
                          /\ \A i \in 1 .. n : more[i] = times[i] /\ times[i] \in Nat \ {0}
    <2>1. Len(times) \in Nat /\ \A i \in 1 .. Len(times) : times[i] \in Nat \ {0}
      BY LenProperties, ElementOfSeq
    <2> QED
      BY <1>12, <2>1, AppendProperties
  <1>14. r.num_wqe_sent = r.num_cts_sent + Len(more) + Cardinality(DOMAIN rest)
    <2>1. DOMAIN rest = DOMAIN open \ {w}
      BY <1>3
    <2>2. PICK k \in Nat \ {0} : k = Cardinality(DOMAIN open) /\ Cardinality(DOMAIN rest) = k - 1
      <3>1. /\ Cardinality(DOMAIN open) \in Nat
            /\ Cardinality(DOMAIN open \ {w}) = Cardinality(DOMAIN open) - 1
        BY FS_CardinalityType, FS_RemoveElement
      <3>2. Cardinality(DOMAIN open) # 0
        BY FS_EmptySet
      <3> QED
        BY <2>1, <3>1, <3>2
    <2>3. s.num_wqe_sent = s.num_cts_sent + n + k
      BY <1>13, <2>2 DEF Measures
    <2>4. s.num_wqe_sent = s.num_cts_sent + (n + 1) + (k - 1)
      <3>1. PICK a \in Nat : a = s.num_cts_sent
        BY <1>6
      <3>2. a + n + k = a + (n + 1) + (k - 1)
        OBVIOUS
      <3> QED
        BY <2>3, <3>1, <3>2
    <2> QED
      BY <1>11, <1>13, <2>2, <2>4
  <1>15. r.num_wqe_completed = Len(more)
    BY <1>11, <1>13 DEF Measures
  <1>16. Attained(r, more)
    <2>1. /\ times = <<>> => s.min = 0 /\ s.max = 0
          /\ \A i \in 1 .. n : s.min <= times[i] /\ times[i] <= s.max
          /\ times # <<>> => \E i, j \in 1 .. n : times[i] = s.min /\ times[j] = s.max
      BY <1>13 DEF Measures, Attained
    <2>2. lo <= t /\ t <= hi /\ s.max <= hi
      BY <1>6, <1>7, <1>8 DEF SmallerTime
    <2>3. CASE times = <<>>
      <3>1. n = 0 /\ lo = t /\ hi = t
        BY <1>7, <1>8, <1>13, <2>1, <2>3 DEF SmallerTime
      <3>2. more # <<>> /\ 1 \in 1 .. Len(more) /\ more[1] = t
        <4>1. Len(more) = 1 /\ more[1] = t
          BY <1>13, <3>1
        <4>2. more # <<>>
          BY <1>12, AppendProperties
        <4> QED
          BY <4>1, <4>2
      <3>3. \A i \in 1 .. Len(more) : more[i] = t
        BY <1>13, <3>1
      <3> QED
        BY <1>11, <3>1, <3>2, <3>3 DEF Attained
    <2>4. CASE times # <<>>
      <3>1. PICK i \in 1 .. n, j \in 1 .. n : times[i] = s.min /\ times[j] = s.max
        BY <2>1, <2>4
      <3>2. lo = (IF s.min > t THEN t ELSE s.min) /\ lo <= s.min
        <4>1. PICK m \in Nat \ {0} : m = s.min
          BY <1>13, <3>1
        <4>2. lo = IF m > t \/ m = 0 THEN t ELSE m
          BY <1>8, <4>1 DEF SmallerTime
        <4>3. lo = (IF m > t THEN t ELSE m) /\ lo <= m
          BY <4>2
        <4> QED
          BY <4>1, <4>3
      <3>3. \A k \in 1 .. n + 1 : lo <= more[k] /\ more[k] <= hi
        <4> SUFFICES ASSUME NEW k \in 1 .. n + 1 PROVE lo <= more[k] /\ more[k] <= hi
          OBVIOUS
        <4>1. CASE k = n + 1
          BY <1>13, <2>2, <4>1
        <4>2. CASE k # n + 1
          <5>1. k \in 1 .. n
            BY <4>2
          <5>2. more[k] = times[k] /\ times[k] \in Nat
            BY <1>13, <5>1
          <5>3. s.min <= times[k] /\ times[k] <= s.max
            BY <2>1, <5>1
          <5>4. lo <= times[k] /\ times[k] <= hi
            BY <1>6, <2>2, <3>2, <5>2, <5>3
          <5> QED
            BY <5>2, <5>4
        <4> QED
          BY <4>1, <4>2
      <3>4. /\ i \in 1 .. n + 1 /\ j \in 1 .. n + 1 /\ n + 1 \in 1 .. n + 1
            /\ more[i] = s.min /\ more[j] = s.max /\ more[n + 1] = t
        BY <1>13, <3>1
      <3>5. \E k \in 1 .. n + 1 : more[k] = lo
        <4>1. lo = t \/ lo = s.min
          BY <3>2
        <4> QED
          BY <3>4, <4>1
      <3>6. \E k \in 1 .. n + 1 : more[k] = hi
        <4>1. hi = t \/ hi = s.max
          BY <1>7
        <4> QED
          BY <3>4, <4>1
      <3>7. more # <<>>
        BY <1>13
      <3> QED
        BY <1>11, <1>13, <3>3, <3>5, <3>6, <3>7 DEF Attained
    <2> QED
      BY <2>3, <2>4
  <1>17. ASSUME NEW b \in Buckets PROVE r.buckets[b] = Cardinality(InBucket(more, b))
    <2>1. /\ Cardinality(InBucket(times, b)) \in Nat
          /\ Cardinality(InBucket(more, b)) =
                Cardinality(InBucket(times, b)) + (IF Bucket(t) = b THEN 1 ELSE 0)
      BY <1>12, OneTimeMore
    <2>2. s.buckets[b] = Cardinality(InBucket(times, b))
      BY DEF Measures
    <2>3. all[b] = IF Bucket(t) = b THEN s.buckets[b] + 1 ELSE s.buckets[b]
      BY <1>4, <1>5, <1>6
    <2> QED
      BY <1>11, <2>1, <2>2, <2>3
  <1>18. Measures(r, more, rest)
    BY <1>11, <1>14, <1>15, <1>16, <1>17 DEF Measures
  <1> QED
    BY <1>2, <1>3, <1>10, <1>12, <1>18 DEF r

\* The same counters for QPs that share them: only their types are known.
LEMMA RcvdType ==
    ASSUME NEW s \in QpStats, NEW w, NEW end \in Nat, TrackedBy(s, end)
    PROVE  UpdateWqeRcvd(s, w, end) \in QpStats /\ TrackedBy(UpdateWqeRcvd(s, w, end), end)
  <1> DEFINE r == UpdateWqeRcvd(s, w, end)
  <1>1. PICK open \in Trackers : open = s.tracker
    BY DEF QpStats
  <1>2. /\ s.max \in Nat /\ s.min \in Nat /\ s.num_wqe_rcvd + 1 \in Nat
        /\ s.num_wqe_completed + 1 \in Nat /\ s.buckets \in [Buckets -> Nat]
    BY DEF QpStats
  <1>3. CASE w \notin DOMAIN open
    <2>1. r = [s EXCEPT !.num_wqe_rcvd = s.num_wqe_rcvd + 1]
      BY <1>1, <1>3 DEF UpdateWqeRcvd, QpStats
    <2> HIDE DEF r
    <2>2. r \in QpStats
      BY <1>2, <2>1 DEF QpStats
    <2>3. r.tracker = s.tracker
      BY <2>1 DEF QpStats
    <2> QED
      BY <2>2, <2>3 DEF TrackedBy, r
  <1>4. CASE w \in DOMAIN open
    <2>1. open[w] \in Nat /\ open[w] <= end
      BY <1>1, <1>4, TrackedType DEF TrackedBy
    <2>2. PICK t \in Nat : t = end - open[w]
      BY <2>1
    <2>3. PICK rest \in Trackers : rest = [v \in DOMAIN open \ {w} |-> open[v]]
      BY DropTracked
    <2>4. PICK b \in Buckets : b = Bucket(t)
      BY BucketType
    <2>5. PICK all \in [Buckets -> Nat] : all = [s.buckets EXCEPT ![b] = s.buckets[b] + 1]
      <3>1. [s.buckets EXCEPT ![b] = s.buckets[b] + 1] \in [Buckets -> Nat]
        BY <1>2
      <3> QED
        BY <3>1
    <2>6. PICK hi \in Nat : hi = IF s.max < t THEN t ELSE s.max
      BY <1>2
    <2>7. PICK lo \in Nat : lo = SmallerTime(s.min, t)
      BY <1>2 DEF SmallerTime
    <2>8. r = [s EXCEPT !.num_wqe_rcvd = s.num_wqe_rcvd + 1,
                        !.num_wqe_completed = s.num_wqe_completed + 1,
                        !.max = hi, !.min = lo, !.buckets = all, !.tracker = rest]
      <3>1. w \in DOMAIN s.tracker /\ t = end - s.tracker[w]
        BY <1>1, <1>4, <2>2
      <3> DEFINE rcvd == [s EXCEPT !.num_wqe_rcvd = s.num_wqe_rcvd + 1]
      <3>2. r = [rcvd EXCEPT !.num_wqe_completed = rcvd.num_wqe_completed + 1,
                             !.max = IF rcvd.max < t THEN t ELSE rcvd.max,
                             !.min = SmallerTime(rcvd.min, t),
                             !.buckets = [rcvd.buckets EXCEPT
                                ![Bucket(t)] = rcvd.buckets[Bucket(t)] + 1],
                             !.tracker = [v \in DOMAIN rcvd.tracker \ {w} |-> rcvd.tracker[v]]]
        BY <3>1 DEF UpdateWqeRcvd, QpStats
      <3>3. /\ rcvd.num_wqe_completed = s.num_wqe_completed /\ rcvd.max = s.max
            /\ rcvd.min = s.min /\ rcvd.buckets = s.buckets /\ rcvd.tracker = open
        BY <1>1 DEF QpStats
      <3>4. r = [rcvd EXCEPT !.num_wqe_completed = s.num_wqe_completed + 1,
                             !.max = hi, !.min = lo, !.buckets = all, !.tracker = rest]
        BY <2>3, <2>4, <2>5, <2>6, <2>7, <3>2, <3>3
      <3> HIDE DEF r
      <3> QED
        BY <3>4 DEF QpStats
    <2> HIDE DEF r
    <2>9. r \in QpStats
      BY <1>2, <2>8 DEF QpStats
    <2>10. r.tracker = rest
      BY <2>8 DEF QpStats
    <2>11. \A v \in DOMAIN rest : rest[v] <= end
      BY <1>1, <2>3 DEF TrackedBy
    <2> QED
      BY <2>9, <2>10, <2>11 DEF TrackedBy, r
  <1> QED
    BY <1>3, <1>4

LEMMA SendType ==
    ASSUME NEW s \in QpStats, NEW w \in WrIds, NEW n \in Nat, TrackedBy(s, n)
    PROVE  UpdateWqeSend(s, w, n) \in QpStats /\ TrackedBy(UpdateWqeSend(s, w, n), n)
  <1> DEFINE r == UpdateWqeSend(s, w, n)
  <1>1. PICK open \in Trackers : open = s.tracker
    BY DEF QpStats
  <1>2. PICK p \in Trackers : /\ p = Put(open, w, n) /\ DOMAIN p = DOMAIN open \cup {w}
                              /\ p[w] = n /\ \A v \in DOMAIN open \ {w} : p[v] = open[v]
    BY PutTracked
  <1>3. r = [s EXCEPT !.num_wqe_sent = s.num_wqe_sent + 1, !.tracker = p]
    BY <1>1, <1>2 DEF UpdateWqeSend, QpStats
  <1>4. s.num_wqe_sent + 1 \in Nat
    BY DEF QpStats
  <1> HIDE DEF r
  <1>5. r \in QpStats
    BY <1>3, <1>4 DEF QpStats
  <1>6. r.tracker = p
    BY <1>3 DEF QpStats
  <1>7. \A v \in DOMAIN p : p[v] <= n
    BY <1>1, <1>2 DEF TrackedBy
  <1> QED
    BY <1>5, <1>6, <1>7 DEF TrackedBy, r

LEMMA UntrackedMeasures ==
    ASSUME NEW s \in QpStats, NEW times \in Seq(Nat \ {0}), NEW open \in Trackers,
           IsFiniteSet(DOMAIN open), Measures(s, times, open),
           NEW w, w \notin DOMAIN open, NEW end
    PROVE  /\ UpdateWqeRcvd(s, w, end) \in QpStats
           /\ Measures(UpdateWqeRcvd(s, w, end), times, open)
  <1> DEFINE r == UpdateWqeRcvd(s, w, end)
  <1>1. r = [s EXCEPT !.num_wqe_rcvd = s.num_wqe_rcvd + 1]
    BY DEF UpdateWqeRcvd, Measures, QpStats
  <1> HIDE DEF r
  <1>2. /\ r \in QpStats /\ r.tracker = s.tracker /\ r.min = s.min /\ r.max = s.max
        /\ r.buckets = s.buckets /\ r.num_wqe_completed = s.num_wqe_completed
        /\ r.num_wqe_sent = s.num_wqe_sent /\ r.num_cts_sent = s.num_cts_sent
    <2>1. s.num_wqe_rcvd + 1 \in Nat
      BY DEF QpStats
    <2>2. r \in QpStats
      BY <1>1, <2>1 DEF QpStats
    <2>3. /\ r.tracker = s.tracker /\ r.min = s.min /\ r.max = s.max
          /\ r.buckets = s.buckets /\ r.num_wqe_completed = s.num_wqe_completed
          /\ r.num_wqe_sent = s.num_wqe_sent /\ r.num_cts_sent = s.num_cts_sent
      BY <1>1 DEF QpStats
    <2> QED
      BY <2>2, <2>3
  <1>3. Len(times) \in Nat /\ Cardinality(DOMAIN open) \in Nat
    BY LenProperties, FS_CardinalityType
  <1>4. r.num_wqe_sent - r.num_cts_sent = s.num_wqe_sent - s.num_cts_sent
    BY <1>2
  <1>5. Measures(r, times, open)
    BY <1>2, <1>3, <1>4, OtherCounters
  <1> QED
    BY <1>2, <1>5 DEF r

-----------------------------------------------------------------------------
(* The application's thread *)

LEMMA AppFacts ==
    ASSUME AppInv
    PROVE  /\ plan.qps \in Seq(QpInfos) /\ Len(plan.qps) \in 0 .. MaxQps
           /\ \A i \in 1 .. Len(plan.qps) : plan.qps[i] \in QpInfos /\ i \in Qps
           /\ plan.work \in Nat /\ plan.faults \in Nat /\ plan.signals \in Nat
           /\ app \in [qp : 0 .. Len(plan.qps), at : AppLabels]
           /\ DOMAIN qp_info \subseteq Qps
           /\ \A q \in DOMAIN qp_info : qp_info[q] \in QpStats
           /\ \A q \in Qps : inflight[q] \in Trackers /\ done[q] \in Seq(Nat \ {0})
           /\ work \in Nat /\ now \in Nat
  <1>1. /\ plan.qps \in Seq(QpInfos) /\ Len(plan.qps) \in 0 .. MaxQps
        /\ plan.work \in Nat /\ plan.faults \in Nat /\ plan.signals \in Nat
    BY TelemetryConstants DEF AppInv
  <1>2. \A i \in 1 .. Len(plan.qps) : plan.qps[i] \in QpInfos
    BY <1>1, ElementOfSeq
  <1>3. \A i \in 1 .. Len(plan.qps) : i \in Qps
    BY <1>1, TelemetryConstants DEF Qps
  <1>4. /\ app \in [qp : 0 .. Len(plan.qps), at : AppLabels]
        /\ DOMAIN qp_info \subseteq 1 .. app.qp
    BY DEF AppInv, Creating
  <1>5. DOMAIN qp_info \subseteq Qps
    BY <1>1, <1>3, <1>4
  <1>6. work \in Nat /\ now \in Nat
    BY <1>1 DEF AppInv
  <1> QED
    BY <1>1, <1>2, <1>3, <1>4, <1>5, <1>6 DEF AppInv

\* Times do not depend on the clock, and numbers not on the counters.
LEMMA TimesKept ==
    ASSUME AppInv, UNCHANGED <<plan, qp_info, inflight, done, now>>,
           app'.qp \in Nat, app.qp <= app'.qp
    PROVE  \A q \in Qps : TimesOn(q)'
  <1>1. app.qp \in Nat
    BY AppFacts
  <1>2. \A q \in Qps : OneDevice(q)' => OneDevice(q)
    BY <1>1 DEF OneDevice, Num, QpInfo
  <1> QED
    BY <1>2 DEF AppInv, TimesOn, QpInfo

LEMMA NumbersKept ==
    ASSUME Numbering, UNCHANGED <<plan, queue_state>>, DOMAIN qp_info' = DOMAIN qp_info,
           app'.qp = app.qp, app'.at = "kind" => app.at = "kind",
           destroyed \subseteq destroyed', destroyed' \subseteq DOMAIN qp_info
    PROVE  Numbering'
  <1>1. \A q : OneDevice(q)' <=> OneDevice(q)
    BY DEF OneDevice, Num, QpInfo
  <1>2. (\A q : Found(q)' = Found(q)) /\ \A q : Num(q)' = Num(q)
    BY DEF Found, Num, QpInfo
  <1>3. app'.at = "kind" => app'.qp \in DOMAIN qp_info' /\ Found(app'.qp) = app'.qp
    BY DEF Numbering
  <1>4. app'.at = "kind" => app'.qp \in DOMAIN qp_info' /\ (Found(app.qp) = app.qp)'
    BY <1>2, <1>3 DEF Found, Num, QpInfo
  <1>5. \A p, q \in (1 .. app'.qp) \ destroyed' :
           p # q /\ Num(p) = Num(q) => plan.qps[p].dev # plan.qps[q].dev
    BY DEF Numbering, QpInfo
  <1>6. \A q \in DOMAIN qp_info' \ destroyed' : OneDevice(q) => Found(q) = q
    BY DEF Numbering
  <1>7. /\ queue_state' \in NumMaps /\ destroyed' \subseteq DOMAIN qp_info'
        /\ \A n \in DOMAIN queue_state' :
              queue_state'[n] \in DOMAIN qp_info' /\ Num(queue_state[n]) = n
        /\ \A q \in DOMAIN qp_info' : Num(q) \in DOMAIN queue_state'
    BY DEF Numbering
  <1> QED
    BY <1>1, <1>2, <1>4, <1>5, <1>6, <1>7 DEF Numbering, QpInfo

LEMMA AppKept ==
    ASSUME AppInv, UNCHANGED <<plan, stateVars, workVars>>,
           app' = app \/ app' = [app EXCEPT !.at = "idle"]
    PROVE  AppInv'
  <1>1. UNCHANGED <<plan, devices, queue_state, qp_info, inflight, done, now, work, destroyed>>
    BY DEF stateVars, workVars
  <1>2. app'.qp = app.qp /\ app.qp \in Nat /\ (app'.at = app.at \/ app'.at = "idle")
        /\ app' \in [qp : 0 .. Len(plan.qps), at : AppLabels]
    BY AppFacts DEF AppLabels
  <1>3. \A q \in Qps : TimesOn(q)'
    BY <1>1, <1>2, TimesKept
  <1>4. Creating'
    BY <1>1, <1>2 DEF AppInv, Creating, QpInfo
  <1>5. Numbering'
    <2>1. Numbering /\ destroyed \subseteq DOMAIN qp_info
      BY DEF AppInv, Numbering
    <2> QED
      BY <1>1, <1>2, <2>1, NumbersKept
  <1> QED
    BY <1>1, <1>3, <1>4, <1>5 DEF AppInv

\* A step of ncclIbCreateQp.
LEMMA MapsStep ==
    ASSUME AppInv, UNCHANGED <<plan, queue_state, qp_info, workVars>>,
           devices' \in DeviceMaps, devices'.named \subseteq devices'.in,
           devices'.sizes = devices.sizes,
           devices'.cq_poll_count = devices.cq_poll_count, Creating', Numbering',
           app.qp <= app'.qp
    PROVE  AppInv'
  <1>1. UNCHANGED <<plan, qp_info, inflight, done, now, work>>
    BY DEF workVars
  <1>2. app'.qp \in Nat
    BY AppFacts DEF Creating
  <1>3. \A q \in Qps : TimesOn(q)'
    BY <1>1, <1>2, TimesKept
  <1> QED
    BY <1>1, <1>3 DEF AppInv

LEMMA BeginQpStep ==
    ASSUME AppInv, BeginQp
    PROVE  AppInv'
  <1>1. /\ app.qp < Len(plan.qps) /\ app.at = "idle"
        /\ app' = [qp |-> app.qp + 1,
                   at |-> IF plan.qps[app.qp + 1].name = NoDevice THEN "map" ELSE "name"]
        /\ \A q \in (1 .. app.qp) \ destroyed :
              Num(q) = Num(app.qp + 1) => plan.qps[q].dev # plan.qps[app.qp + 1].dev
        /\ UNCHANGED <<plan, stateVars, workVars>>
    BY DEF BeginQp, AppIdle, QpInfo, exitVars
  <1>2. Creating /\ Numbering /\ Len(plan.qps) \in Nat /\ app.qp \in Nat
    BY AppFacts DEF AppInv
  <1>3. /\ app' \in [qp : 0 .. Len(plan.qps), at : AppLabels] /\ app'.qp = app.qp + 1
        /\ app'.at = "name" => plan.qps[app'.qp].name # NoDevice
        /\ app'.at # "idle" => app'.qp > 0
        /\ app'.at # "kind"
    BY <1>1, <1>2 DEF AppLabels
  <1>4. /\ DOMAIN qp_info \subseteq 1 .. app.qp + 1
        /\ app.qp + 1 \notin DOMAIN qp_info
    BY <1>2 DEF Creating
  <1>5. UNCHANGED <<plan, queue_state, qp_info, destroyed>>
    BY <1>1 DEF stateVars, workVars
  <1>6. Creating'
    BY <1>3, <1>4, <1>5 DEF Creating, QpInfo
  <1>7. Numbering'
    <2>1. \A q : OneDevice(q)' => OneDevice(q)
      BY <1>2, <1>3, <1>5 DEF OneDevice, Num, QpInfo
    <2>2. (\A q : Found(q)' = Found(q)) /\ \A q : Num(q)' = Num(q)
      BY <1>5 DEF Found, Num, QpInfo
    <2>3. ASSUME NEW p \in (1 .. app.qp + 1) \ destroyed, NEW q \in (1 .. app.qp + 1) \ destroyed,
                 p # q, Num(p) = Num(q)
          PROVE  plan.qps[p].dev # plan.qps[q].dev
      <3>1. CASE p \in 1 .. app.qp /\ q \in 1 .. app.qp
        BY <1>2, <2>3, <3>1 DEF Numbering, QpInfo
      <3>2. CASE p = app.qp + 1 /\ q \in 1 .. app.qp
        BY <1>1, <2>3, <3>2
      <3>3. CASE p \in 1 .. app.qp /\ q = app.qp + 1
        BY <1>1, <2>3, <3>3
      <3>4. (p \in 1 .. app.qp \/ p = app.qp + 1) /\ (q \in 1 .. app.qp \/ q = app.qp + 1)
        BY <1>2
      <3> QED
        BY <2>3, <3>1, <3>2, <3>3, <3>4
    <2>4. \A p, q \in (1 .. app'.qp) \ destroyed' :
             p # q /\ Num(p) = Num(q) => plan.qps[p].dev # plan.qps[q].dev
      BY <1>3, <1>5, <2>3
    <2>5. \A q \in DOMAIN qp_info \ destroyed : OneDevice(q) => Found(q) = q
      BY <1>2 DEF Numbering
    <2> QED
      BY <1>2, <1>3, <1>5, <2>1, <2>2, <2>4, <2>5 DEF Numbering, QpInfo
  <1>8. /\ devices' = devices /\ devices \in DeviceMaps /\ devices.named \subseteq devices.in
        /\ UNCHANGED <<plan, queue_state, qp_info, workVars>>
    BY <1>1 DEF stateVars, AppInv
  <1>9. app.qp <= app'.qp
    BY <1>2, <1>3
  <1> QED
    BY <1>6, <1>7, <1>8, <1>9, MapsStep

LEMMA AppMoves ==
    ASSUME AppInv, NEW p \in AppLabels \ {"name", "kind"}, AppAt(p), app.at # "idle",
           UNCHANGED <<plan, queue_state, qp_info, destroyed>>,
           p = "state" => app.at \in {"name", "map"},
           p = "map" => app.at = "name"
    PROVE  Creating' /\ Numbering' /\ app.qp <= app'.qp
  <1>1. app' = [app EXCEPT !.at = p] /\ app \in [qp : 0 .. Len(plan.qps), at : AppLabels]
    BY AppFacts DEF AppAt
  <1>2. app'.qp = app.qp /\ app'.at = p /\ app' \in [qp : 0 .. Len(plan.qps), at : AppLabels]
    BY <1>1
  <1>3. app.qp <= app'.qp
    BY <1>1, <1>2
  <1>4. Creating'
    BY <1>2 DEF AppInv, Creating, QpInfo
  <1>5. Numbering'
    <2>1. Numbering /\ destroyed \subseteq DOMAIN qp_info
      BY DEF AppInv, Numbering
    <2> QED
      BY <1>2, <2>1, NumbersKept
  <1> QED
    BY <1>3, <1>4, <1>5

LEMMA DestroyQpStep ==
    ASSUME AppInv, NEW x \in Qps, DestroyQp(x)
    PROVE  AppInv'
  <1>1. /\ x \in DOMAIN qp_info /\ destroyed' = destroyed \cup {x}
        /\ UNCHANGED <<plan, devices, queue_state, qp_info, inflight, done, now, work, app>>
    BY DEF DestroyQp, stateVars, exitVars
  <1>2. app.qp \in Nat /\ app.qp <= app.qp
    BY AppFacts
  <1>3. \A q \in Qps : TimesOn(q)'
    BY <1>1, <1>2, TimesKept
  <1>4. Creating'
    BY <1>1 DEF AppInv, Creating, QpInfo
  <1>5. Numbering'
    <2>1. Numbering /\ destroyed' \subseteq DOMAIN qp_info
      BY <1>1 DEF AppInv, Numbering
    <2> QED
      BY <1>1, <2>1, NumbersKept
  <1> QED
    BY <1>1, <1>3, <1>4, <1>5 DEF AppInv

LEMMA SetDeviceNameStep ==
    ASSUME AppInv, SetDeviceName
    PROVE  AppInv'
  <1> DEFINE d == plan.qps[app.qp].name
  <1>1. PICK f \in FirstChoices(d) :
           devices' = [devices EXCEPT !.in = @ \cup {d}, !.first = f,
                           !.named = IF d \in devices.in THEN @ ELSE @ \cup {d}]
    BY DEF SetDeviceName, QpInfo
  <1>2. /\ app.at = "name" /\ AppAt("map")
        /\ UNCHANGED <<queue_state, qp_info, workVars>> /\ plan' = plan
    BY DEF SetDeviceName, exitVars
  <1>3. d \in Devices
    <2>1. app.qp \in 1 .. Len(plan.qps) /\ d # NoDevice
      BY <1>2, AppFacts DEF AppInv, Creating, QpInfo
    <2> QED
      BY <2>1, AppFacts DEF QpInfos
  <1>4. devices \in DeviceMaps /\ devices.named \subseteq devices.in
    BY DEF AppInv
  <1>5. f \in Devices \cup {NoDevice}
    BY <1>1, <1>3, <1>4 DEF FirstChoices, DeviceMaps
  <1> HIDE DEF d
  <1>6. /\ devices' \in DeviceMaps /\ devices'.named \subseteq devices'.in
        /\ devices'.sizes = devices.sizes /\ devices'.cq_poll_count = devices.cq_poll_count
    BY <1>1, <1>3, <1>4, <1>5 DEF DeviceMaps
  <1>7. Creating' /\ Numbering' /\ app.qp <= app'.qp
    <2>1. UNCHANGED <<plan, queue_state, qp_info, destroyed>>
      BY <1>2 DEF workVars
    <2> QED
      BY <1>2, <2>1, AppMoves DEF AppLabels
  <1> QED
    BY <1>2, <1>6, <1>7, MapsStep

LEMMA AddToChannelStep ==
    ASSUME AppInv, AddToChannel
    PROVE  AppInv'
  <1> DEFINE d == plan.qps[app.qp].dev
  <1>1. PICK f \in FirstChoices(d), Q \in {devices.qps, devices.qps \cup {app.qp}} :
           devices' = [devices EXCEPT !.in = @ \cup {d}, !.first = f, !.qps = Q]
    <2> DEFINE old == {q \in devices.qps : SameChannel(q, app.qp) /\ Num(q) = Num(app.qp)}
    <2>1. PICK f \in FirstChoices(d) :
             devices' = [devices EXCEPT !.in = @ \cup {d}, !.first = f,
                             !.qps = IF old = {} THEN @ \cup {app.qp} ELSE @]
      BY DEF AddToChannel, QpInfo
    <2> HIDE DEF old
    <2>2. PICK Q \in {devices.qps, devices.qps \cup {app.qp}} :
             devices' = [devices EXCEPT !.in = @ \cup {d}, !.first = f, !.qps = Q]
      <3>1. CASE old = {}
        BY <2>1, <3>1
      <3>2. CASE old # {}
        BY <2>1, <3>2
      <3> QED
        BY <3>1, <3>2
    <2> QED
      BY <2>2
  <1>2. /\ app.at = "map" /\ AppAt("state")
        /\ UNCHANGED <<queue_state, qp_info, workVars>> /\ plan' = plan
    BY DEF AddToChannel, exitVars
  <1>3. d \in Devices /\ app.qp \in Qps
    <2>1. app.qp \in 1 .. Len(plan.qps)
      BY <1>2, AppFacts DEF AppInv, Creating
    <2> QED
      BY <2>1, AppFacts DEF QpInfos
  <1>4. devices \in DeviceMaps /\ devices.named \subseteq devices.in
    BY DEF AppInv
  <1>5. f \in Devices \cup {NoDevice}
    BY <1>1, <1>3, <1>4 DEF FirstChoices, DeviceMaps
  <1> HIDE DEF d
  <1>6. /\ devices' \in DeviceMaps /\ devices'.named \subseteq devices'.in
        /\ devices'.sizes = devices.sizes /\ devices'.cq_poll_count = devices.cq_poll_count
    BY <1>1, <1>3, <1>4, <1>5 DEF DeviceMaps
  <1>7. Creating' /\ Numbering' /\ app.qp <= app'.qp
    <2>1. UNCHANGED <<plan, queue_state, qp_info, destroyed>>
      BY <1>2 DEF workVars
    <2> QED
      BY <1>2, <2>1, AppMoves DEF AppLabels
  <1> QED
    BY <1>2, <1>6, <1>7, MapsStep

LEMMA AddStateStep ==
    ASSUME AppInv, AddState
    PROVE  AppInv'
  <1> DEFINE p == app.qp
  <1>1. PICK any \in BOOLEAN : qp_info' = Put(qp_info, p, NewQp(any))
    BY DEF AddState
  <1>2. /\ app.at = "state" /\ app' = [app EXCEPT !.at = "kind"]
        /\ queue_state' = Put(queue_state, Num(p), p)
        /\ UNCHANGED <<devices, workVars>> /\ plan' = plan
    BY DEF AddState, AppAt, exitVars
  <1>3. /\ p \in 1 .. Len(plan.qps) /\ p \in Qps /\ p \notin DOMAIN qp_info
        /\ DOMAIN qp_info \subseteq 1 .. p
    BY <1>2, AppFacts DEF AppInv, Creating
  <1>4. NewQp(any) \in QpStats /\ Measures(NewQp(any), <<>>, <<>>)
    BY NewMeasures
  <1>5. /\ DOMAIN qp_info' = DOMAIN qp_info \cup {p}
        /\ qp_info'[p] = NewQp(any)
        /\ \A q \in DOMAIN qp_info : qp_info'[q] = qp_info[q]
    BY <1>1, <1>3 DEF Put
  <1>6. qp_info' \in [DOMAIN qp_info' -> QpStats]
    <2>1. \A q \in DOMAIN qp_info : qp_info[q] \in QpStats
      BY AppFacts
    <2>2. \A q \in DOMAIN qp_info' : qp_info'[q] \in QpStats
      BY <1>4, <1>5, <2>1
    <2>3. qp_info' = [q \in DOMAIN qp_info' |-> qp_info'[q]]
      BY <1>1 DEF Put
    <2> QED
      BY <2>2, <2>3
  <1>7. UNCHANGED <<inflight, done, now, work, destroyed>>
    BY <1>2 DEF workVars
  <1>8. app'.qp = p /\ app'.at = "kind" /\ app' \in [qp : 0 .. Len(plan.qps), at : AppLabels]
    <2>1. app \in [qp : 0 .. Len(plan.qps), at : AppLabels]
      BY AppFacts
    <2> QED
      BY <1>2, <2>1 DEF AppLabels
  <1>9. \A q : (OneDevice(q)' <=> OneDevice(q)) /\ Num(q)' = Num(q)
    BY <1>2, <1>8 DEF OneDevice, Num, QpInfo
  <1>10. \A q \in DOMAIN qp_info' : TrackedBy(qp_info'[q], now')
    <2>1. NewQp(any).tracker = <<>>
      BY DEF NewQp
    <2>2. TrackedBy(NewQp(any), now)
      BY <2>1, EmptyMap DEF TrackedBy
    <2> QED
      BY <1>5, <1>7, <2>2 DEF AppInv
  <1>11. ASSUME NEW q \in Qps PROVE TimesOn(q)'
    <2>1. TimesOn(q)
      BY DEF AppInv
    <2>2. CASE q # p
      <3>1. /\ q \in DOMAIN qp_info' <=> q \in DOMAIN qp_info
            /\ q \in DOMAIN qp_info => qp_info'[q] = qp_info[q]
        BY <1>5, <2>2
      <3> QED
        BY <1>2, <1>7, <1>9, <2>1, <3>1 DEF TimesOn, QpInfo
    <2>3. CASE q = p
      <3>1. inflight'[q] = <<>> /\ done'[q] = <<>> /\ q \in DOMAIN qp_info'
        BY <1>3, <1>5, <1>7, <2>1, <2>3 DEF TimesOn
      <3>2. Measures(qp_info'[q], done'[q], inflight'[q])
        BY <1>4, <1>5, <2>3, <3>1
      <3> QED
        BY <3>1, <3>2, EmptyMap DEF TimesOn
    <2> QED
      BY <2>2, <2>3
  <1>12. Creating'
    <2>1. DOMAIN qp_info' \subseteq 1 .. p /\ p > 0
      BY <1>3, <1>5
    <2> QED
      BY <1>2, <1>8, <2>1 DEF Creating
  <1>13. Numbering'
    <2>1. Numbering
      BY DEF AppInv
    <2>2. Num(p) \in QpNums
      BY <1>3, AppFacts DEF Num, QpInfo, QpInfos
    <2>3. PICK N \in SUBSET QpNums : queue_state \in [N -> Qps] /\ DOMAIN queue_state = N
      BY <2>1 DEF Numbering, NumMaps
    <2>4. /\ DOMAIN queue_state' = N \cup {Num(p)} /\ queue_state'[Num(p)] = p
          /\ \A n \in N \ {Num(p)} : queue_state'[n] = queue_state[n]
          /\ queue_state' \in [N \cup {Num(p)} -> Qps]
      BY <1>2, <1>3, <2>3 DEF Put
    <2>5. queue_state' \in NumMaps
      <3>1. N \cup {Num(p)} \in SUBSET QpNums
        BY <2>2
      <3> QED
        BY <2>4, <3>1 DEF NumMaps
    <2>6. \A n \in DOMAIN queue_state' :
             queue_state'[n] \in DOMAIN qp_info' /\ Num(queue_state'[n]) = n
      BY <1>5, <2>1, <2>3, <2>4 DEF Numbering
    <2>7. \A q \in DOMAIN qp_info' : Num(q) \in DOMAIN queue_state'
      BY <1>5, <2>1, <2>3, <2>4 DEF Numbering
    <2>8. destroyed' \subseteq DOMAIN qp_info' /\ p \notin destroyed
      BY <1>3, <1>5, <1>7, <2>1 DEF Numbering
    <2>9. \A q, r \in (1 .. app'.qp) \ destroyed' :
             q # r /\ Num(q) = Num(r) => plan.qps[q].dev # plan.qps[r].dev
      BY <1>7, <1>8, <2>1 DEF Numbering, QpInfo
    <2>10. ASSUME NEW q \in DOMAIN qp_info' \ destroyed', OneDevice(q)
           PROVE  queue_state'[Num(q)] = q
      <3>1. CASE q = p
        BY <2>4, <3>1
      <3>2. CASE q # p
        <4>1. q \in DOMAIN qp_info \ destroyed /\ q \in (1 .. p) \ destroyed
              /\ p \in (1 .. p) \ destroyed
          BY <1>3, <1>5, <1>7, <2>8, <3>2
        <4>2. Num(q) # Num(p)
          BY <2>1, <2>10, <3>2, <4>1 DEF Numbering, OneDevice
        <4>3. queue_state[Num(q)] = q /\ Num(q) \in N
          BY <2>1, <2>3, <2>10, <4>1 DEF Numbering, Found
        <4> QED
          BY <2>4, <4>2, <4>3
      <3> QED
        BY <3>1, <3>2
    <2>11. \A q : Found(q)' = queue_state'[Num(q)]
      BY <1>9 DEF Found
    <2>12. app'.at = "kind" => app'.qp \in DOMAIN qp_info' /\ (Found(app.qp) = app.qp)'
      <3>1. (Found(app.qp))' = queue_state'[Num(p)]
        BY <1>2, <1>8 DEF Found, Num, QpInfo
      <3> QED
        BY <1>5, <1>8, <2>4, <3>1
    <2>13. \A n \in DOMAIN queue_state' :
              queue_state'[n] \in DOMAIN qp_info' /\ (Num(queue_state[n]))' = n
      BY <1>2, <2>6 DEF Num, QpInfo
    <2>14. \A q \in DOMAIN qp_info' : Num(q)' \in DOMAIN queue_state'
      BY <1>9, <2>7
    <2>15. \A q, r \in (1 .. app'.qp) \ destroyed' :
              q # r /\ Num(q)' = Num(r)' => QpInfo'[q].dev # QpInfo'[r].dev
      BY <1>2, <1>9, <2>9 DEF QpInfo
    <2>16. \A q \in DOMAIN qp_info' \ destroyed' : OneDevice(q)' => Found(q)' = q
      BY <1>9, <2>10, <2>11
    <2> QED
      BY <2>5, <2>8, <2>12, <2>13, <2>14, <2>15, <2>16 DEF Numbering
  <1> QED
    BY <1>2, <1>6, <1>7, <1>10, <1>11, <1>12, <1>13 DEF AppInv

LEMMA SetKindStep ==
    ASSUME AppInv, SetKind
    PROVE  AppInv'
  <1> DEFINE p == app.qp
             k == plan.qps[p].data
  <1>1. /\ app.at = "kind" /\ app' = [app EXCEPT !.at = "dump"]
        /\ qp_info' = [qp_info EXCEPT ![queue_state[Num(p)]].data_qp = k]
        /\ UNCHANGED <<devices, queue_state, workVars>> /\ plan' = plan
    BY DEF SetKind, AppAt, exitVars, QpInfo
  <1>2. UNCHANGED <<inflight, done, now, work, destroyed>>
    BY <1>1 DEF workVars
  <1>3. p \in 1 .. Len(plan.qps) /\ p \in Qps /\ DOMAIN qp_info \subseteq 1 .. p
    BY <1>1, AppFacts DEF AppInv, Creating
  <1>4. k \in BOOLEAN
    BY <1>3, AppFacts DEF QpInfos
  <1>a. queue_state[Num(p)] = p
    BY <1>1 DEF AppInv, Numbering, Found
  <1>b. app'.qp = app.qp /\ app'.at = "dump" /\ app' \in [qp : 0 .. Len(plan.qps), at : AppLabels]
    <2>1. app \in [qp : 0 .. Len(plan.qps), at : AppLabels]
      BY AppFacts
    <2> QED
      BY <1>1, <2>1 DEF AppLabels
  <1>c. \A q : OneDevice(q)' <=> OneDevice(q)
    BY <1>1, <1>b DEF OneDevice, Num, QpInfo
  <1> HIDE DEF p, k
  <1>5. qp_info \in [DOMAIN qp_info -> QpStats]
    BY DEF AppInv
  <1>6. /\ DOMAIN qp_info' = DOMAIN qp_info
        /\ \A q \in DOMAIN qp_info :
              qp_info'[q] = IF q = p THEN [qp_info[q] EXCEPT !.data_qp = k]
                                ELSE qp_info[q]
    BY <1>1, <1>5, <1>a
  <1>7. ASSUME NEW s \in QpStats
        PROVE  LET r == [s EXCEPT !.data_qp = k]
               IN  /\ r \in QpStats /\ r.tracker = s.tracker /\ r.min = s.min
                   /\ r.max = s.max /\ r.buckets = s.buckets
                   /\ r.num_wqe_completed = s.num_wqe_completed
                   /\ r.num_wqe_sent = s.num_wqe_sent
                   /\ r.num_cts_sent = s.num_cts_sent
    <2> DEFINE r == [s EXCEPT !.data_qp = k]
    <2>1. r \in QpStats
      BY <1>4 DEF QpStats
    <2>2. /\ r.tracker = s.tracker /\ r.min = s.min /\ r.max = s.max
          /\ r.buckets = s.buckets /\ r.num_wqe_completed = s.num_wqe_completed
          /\ r.num_wqe_sent = s.num_wqe_sent /\ r.num_cts_sent = s.num_cts_sent
      BY DEF QpStats
    <2> QED
      BY <2>1, <2>2
  <1>8. \A q \in DOMAIN qp_info : qp_info'[q] \in QpStats /\ qp_info'[q].tracker = qp_info[q].tracker
    BY <1>5, <1>6, <1>7
  <1>9. /\ qp_info' \in [DOMAIN qp_info' -> QpStats]
        /\ \A q \in DOMAIN qp_info' : TrackedBy(qp_info'[q], now')
    <2>1. qp_info' = [q \in DOMAIN qp_info |-> qp_info'[q]]
      BY <1>1, <1>5
    <2>2. \A q \in DOMAIN qp_info : TrackedBy(qp_info[q], now)
      BY DEF AppInv
    <2>3. \A q \in DOMAIN qp_info : TrackedBy(qp_info'[q], now')
      BY <1>2, <1>8, <2>2 DEF TrackedBy
    <2> QED
      BY <1>6, <1>8, <2>1, <2>3
  <1>10. ASSUME NEW q \in Qps PROVE TimesOn(q)'
    <2>1. TimesOn(q)
      BY DEF AppInv
    <2>2. CASE q # p \/ q \notin DOMAIN qp_info
      BY <1>1, <1>2, <1>6, <1>c, <2>1, <2>2 DEF TimesOn, QpInfo
    <2>3. CASE q = p /\ q \in DOMAIN qp_info
      <3>1. PICK s \in QpStats : s = qp_info[q]
        BY <1>5, <2>3
      <3>2. PICK r \in QpStats : r = [s EXCEPT !.data_qp = k]
        BY <1>7
      <3>3. Len(done[q]) \in Nat /\ Cardinality(DOMAIN inflight[q]) \in Nat
        BY <2>1, AppFacts, LenProperties, FS_CardinalityType DEF TimesOn
      <3>4. OneDevice(q) => Measures(s, done[q], inflight[q])
        BY <2>1, <2>3, <3>1 DEF TimesOn
      <3>5. OneDevice(q) => Measures(r, done[q], inflight[q])
        <4>1. /\ r.tracker = s.tracker /\ r.min = s.min /\ r.max = s.max
              /\ r.buckets = s.buckets /\ r.num_wqe_completed = s.num_wqe_completed
              /\ r.num_wqe_sent - r.num_cts_sent = s.num_wqe_sent - s.num_cts_sent
          BY <1>7, <3>2
        <4> QED
          BY <3>3, <3>4, <4>1, OtherCounters
      <3>6. qp_info'[q] = r
        BY <1>6, <2>3, <3>1, <3>2
      <3> QED
        BY <1>1, <1>2, <1>6, <1>c, <2>1, <2>3, <3>5, <3>6 DEF TimesOn, QpInfo
    <2> QED
      BY <2>2, <2>3
  <1>11. Creating'
    <2>1. DOMAIN qp_info' \subseteq 1 .. p /\ p > 0
      BY <1>3, <1>6
    <2> QED
      BY <1>1, <1>b, <2>1 DEF Creating, p
  <1>12. Numbering'
    <2>1. Numbering /\ destroyed' \subseteq DOMAIN qp_info
      BY <1>2 DEF AppInv, Numbering
    <2> QED
      BY <1>1, <1>2, <1>6, <1>b, <2>1, NumbersKept
  <1> QED
    BY <1>1, <1>2, <1>9, <1>10, <1>11, <1>12 DEF AppInv

LEMMA CountedMaps ==
    ASSUME AppInv, NEW field \in {"sizes", "cq_poll_count"}
    PROVE  /\ Counted(field) \in DeviceMaps
           /\ Counted(field).named = devices.named /\ Counted(field).in = devices.in
           /\ \A d \in Devices : /\ Counted(field).sizes[d] <= work + 1
                                 /\ Counted(field).cq_poll_count[d] <= work + 1
  <1> DEFINE c == Counted(field)
  <1>1. /\ devices \in DeviceMaps /\ work \in Nat
        /\ \A d \in Devices : devices.sizes[d] <= work /\ devices.cq_poll_count[d] <= work
    BY AppFacts DEF AppInv
  <1>2. ASSUME NEW g \in [Devices -> Nat], NEW x
        PROVE  /\ [g EXCEPT ![x] = g[x] + 1] \in [Devices -> Nat]
               /\ (\A d \in Devices : g[d] <= work) =>
                     \A d \in Devices : [g EXCEPT ![x] = g[x] + 1][d] <= work + 1
    <2> DEFINE h == [g EXCEPT ![x] = g[x] + 1]
    <2>1. \A d \in Devices : g[d] \in Nat
      OBVIOUS
    <2>2. h = [d \in Devices |-> IF d = x THEN g[d] + 1 ELSE g[d]]
      OBVIOUS
    <2>3. \A d \in Devices : h[d] = IF d = x THEN g[d] + 1 ELSE g[d]
      BY <2>2
    <2>4. \A d \in Devices : (IF d = x THEN g[d] + 1 ELSE g[d]) \in Nat
      BY <2>1
    <2>5. h \in [Devices -> Nat]
      BY <2>2, <2>4
    <2> HIDE DEF h
    <2>6. ASSUME NEW d \in Devices, g[d] <= work PROVE h[d] <= work + 1
      <3>1. PICK n \in Nat : n = g[d]
        BY <2>1
      <3>2. n <= work + 1 /\ n + 1 <= work + 1
        BY <1>1, <2>6, <3>1
      <3> QED
        BY <2>3, <3>1, <3>2
    <2> QED
      BY <2>5, <2>6 DEF h
  <1>3. devices.sizes \in [Devices -> Nat] /\ devices.cq_poll_count \in [Devices -> Nat]
    BY <1>1 DEF DeviceMaps
  <1>4. CASE field = "sizes"
    <2>1. PICK g \in [Devices -> Nat] :
             g = [devices.sizes EXCEPT ![devices.first] = devices.sizes[devices.first] + 1]
      BY <1>2, <1>3
    <2>2. c = [devices EXCEPT !.sizes = g]
      BY <1>1, <1>4, <2>1 DEF Counted, DeviceMaps
    <2>3. \A d \in Devices : g[d] <= work + 1
      BY <1>1, <1>2, <1>3, <2>1
    <2>4. \A d \in Devices : devices.cq_poll_count[d] <= work + 1
      BY <1>1, <1>3
    <2> HIDE DEF c
    <2>5. /\ c \in DeviceMaps /\ c.named = devices.named /\ c.in = devices.in
          /\ c.sizes = g /\ c.cq_poll_count = devices.cq_poll_count
      BY <1>1, <2>2 DEF DeviceMaps
    <2> QED
      BY <2>3, <2>4, <2>5 DEF c
  <1>5. CASE field = "cq_poll_count"
    <2>1. PICK g \in [Devices -> Nat] :
             g = [devices.cq_poll_count EXCEPT
                    ![devices.first] = devices.cq_poll_count[devices.first] + 1]
      BY <1>2, <1>3
    <2>2. c = [devices EXCEPT !.cq_poll_count = g]
      BY <1>1, <1>5, <2>1 DEF Counted, DeviceMaps
    <2>3. \A d \in Devices : g[d] <= work + 1
      BY <1>1, <1>2, <1>3, <2>1
    <2>4. \A d \in Devices : devices.sizes[d] <= work + 1
      BY <1>1, <1>3
    <2> HIDE DEF c
    <2>5. /\ c \in DeviceMaps /\ c.named = devices.named /\ c.in = devices.in
          /\ c.cq_poll_count = g /\ c.sizes = devices.sizes
      BY <1>1, <2>2 DEF DeviceMaps
    <2> QED
      BY <2>3, <2>4, <2>5 DEF c
  <1> QED
    BY <1>4, <1>5

\* A data-path call on q: r are the counters found for q, f the work requests of
\* q and t their times afterwards.
LEMMA QpStep ==
    ASSUME AppInv, UNCHANGED <<plan, app, queue_state, destroyed>>,
           work < plan.work, work' = work + 1,
           NEW q \in DOMAIN qp_info \ destroyed, NEW r \in QpStats, NEW f \in Trackers,
           NEW t \in Seq(Nat \ {0}), NEW field \in {"sizes", "cq_poll_count"},
           devices' = devices \/ devices' = Counted(field),
           qp_info' = [qp_info EXCEPT ![Found(q)] = r],
           inflight' = [inflight EXCEPT ![q] = f], done' = [done EXCEPT ![q] = t],
           now' \in Nat, now <= now', now' <= now + Max(Steps),
           \A w \in DOMAIN f : f[w] <= now', IsFiniteSet(DOMAIN f),
           ~plan.qps[q].data => DOMAIN f = {}, TrackedBy(r, now'),
           OneDevice(q) => Measures(r, t, f)
    PROVE  AppInv'
  <1>1. /\ q \in Qps /\ work \in Nat /\ plan.work \in Nat /\ now \in Nat
        /\ inflight \in [Qps -> Trackers] /\ done \in [Qps -> Seq(Nat \ {0})]
        /\ qp_info \in [DOMAIN qp_info -> QpStats]
    BY AppFacts DEF AppInv
  <1>a. PICK o \in DOMAIN qp_info : o = Found(q) /\ Num(o) = Num(q)
    BY DEF AppInv, Numbering, Found
  <1>2. /\ DOMAIN qp_info' = DOMAIN qp_info /\ qp_info'[o] = r
        /\ \A p \in DOMAIN qp_info : p # o => qp_info'[p] = qp_info[p]
        /\ qp_info' \in [DOMAIN qp_info' -> QpStats]
    BY <1>1, <1>a
  <1>3. /\ inflight' \in [Qps -> Trackers] /\ inflight'[q] = f
        /\ \A p \in Qps : p # q => inflight'[p] = inflight[p]
    BY <1>1
  <1>4. /\ done' \in [Qps -> Seq(Nat \ {0})] /\ done'[q] = t
        /\ \A p \in Qps : p # q => done'[p] = done[p]
    BY <1>1
  <1>b. \A p : OneDevice(p)' <=> OneDevice(p)
    BY DEF OneDevice, Num, QpInfo
  <1>c. q \in 1 .. app.qp /\ (OneDevice(q) => o = q)
    BY <1>a DEF AppInv, Creating, Numbering
  <1>d. OneDevice(o) => o = q
    BY <1>a, <1>c DEF OneDevice
  <1>e. \A p \in DOMAIN qp_info' : TrackedBy(qp_info'[p], now')
    <2>1. ASSUME NEW p \in DOMAIN qp_info, p # o PROVE TrackedBy(qp_info[p], now')
      <3>1. PICK g \in Trackers : g = qp_info[p].tracker
        BY <1>1 DEF QpStats
      <3>2. \A w \in DOMAIN g : g[w] \in Nat /\ g[w] <= now
        BY <3>1, TrackedType DEF AppInv, TrackedBy
      <3>3. \A w \in DOMAIN g : g[w] <= now'
        BY <1>1, <3>2
      <3> QED
        BY <3>1, <3>3 DEF TrackedBy
    <2> QED
      BY <1>2, <2>1
  <1>5. ASSUME NEW p \in Qps PROVE TimesOn(p)'
    <2>1. CASE p = q
      <3>1. OneDevice(q)' => Measures(qp_info'[q], t, f)
        BY <1>2, <1>b, <1>c
      <3> QED
        BY <1>2, <1>3, <1>4, <2>1, <3>1 DEF TimesOn, QpInfo
    <2>2. CASE p # q
      <3>1. TimesOn(p)
        BY DEF AppInv
      <3>2. inflight'[p] = inflight[p] /\ done'[p] = done[p]
        BY <1>3, <1>4, <2>2
      <3>3. \A w \in DOMAIN inflight'[p] : inflight'[p][w] <= now'
        <4>1. inflight[p] \in [DOMAIN inflight[p] -> Nat]
          BY <1>1, TrackedType
        <4>2. ASSUME NEW w \in DOMAIN inflight[p] PROVE inflight[p][w] <= now'
          <5>1. PICK n \in Nat : n = inflight[p][w]
            BY <4>1
          <5>2. n <= now
            BY <3>1, <5>1 DEF TimesOn
          <5>3. n <= now'
            BY <1>1, <5>2
          <5> QED
            BY <5>1, <5>3
        <4> QED
          BY <3>2, <4>2
      <3>4. p \in DOMAIN qp_info /\ OneDevice(p)' => qp_info'[p] = qp_info[p]
        BY <1>2, <1>b, <1>d, <2>2
      <3> QED
        BY <1>2, <1>b, <3>1, <3>2, <3>3, <3>4 DEF TimesOn, QpInfo
    <2> QED
      BY <2>1, <2>2
  <1>6. Creating'
    BY <1>2 DEF AppInv, Creating, QpInfo
  <1>f. Numbering'
    <2>1. Numbering /\ destroyed \subseteq DOMAIN qp_info
      BY DEF AppInv, Numbering
    <2> QED
      BY <1>2, <2>1, NumbersKept
  <1>7. now' <= work' * Max(Steps)
    <2>1. PICK m \in Nat : m = Max(Steps)
      BY LongestStep
    <2>2. now <= work * m
      BY <2>1 DEF AppInv
    <2>3. (work + 1) * m = work * m + m /\ work * m \in Nat
      BY <1>1, NextMultiple
    <2> QED
      BY <1>1, <2>1, <2>2, <2>3
  <1>8. work' \in 0 .. plan.work
    BY <1>1
  <1>9. /\ devices' \in DeviceMaps /\ devices'.named \subseteq devices'.in
        /\ \A d \in Devices : devices'.sizes[d] <= work' /\ devices'.cq_poll_count[d] <= work'
    <2>1. /\ devices \in DeviceMaps /\ devices.named \subseteq devices.in
          /\ \A d \in Devices : devices.sizes[d] <= work /\ devices.cq_poll_count[d] <= work
      BY DEF AppInv
    <2>2. CASE devices' = devices
      <3>1. \A d \in Devices : devices.sizes[d] \in Nat /\ devices.cq_poll_count[d] \in Nat
        BY <2>1 DEF DeviceMaps
      <3>2. \A d \in Devices : devices.sizes[d] <= work + 1 /\ devices.cq_poll_count[d] <= work + 1
        BY <1>1, <2>1, <3>1
      <3> QED
        BY <2>1, <2>2, <3>2
    <2>3. CASE devices' = Counted(field)
      BY <2>1, <2>3, CountedMaps
    <2> QED
      BY <2>2, <2>3
  <1> QED
    BY <1>2, <1>3, <1>4, <1>5, <1>6, <1>7, <1>8, <1>9, <1>e, <1>f DEF AppInv

\* What is known of a QP that is worked on, and of the counters found for it.
LEMMA WorkFacts ==
    ASSUME AppInv, NEW q \in Qps, Work(q)
    PROVE  /\ q \in DOMAIN qp_info \ destroyed /\ work < plan.work /\ work' = work + 1
           /\ Found(q) \in DOMAIN qp_info
           /\ qp_info[Found(q)] \in QpStats /\ inflight[q] \in Trackers
           /\ done[q] \in Seq(Nat \ {0}) /\ now \in Nat /\ Max(Steps) \in Nat
           /\ \A w \in DOMAIN inflight[q] : inflight[q][w] <= now
           /\ IsFiniteSet(DOMAIN inflight[q])
           /\ ~plan.qps[q].data => DOMAIN inflight[q] = {}
           /\ TrackedBy(qp_info[Found(q)], now)
           /\ OneDevice(q) => Measures(qp_info[Found(q)], done[q], inflight[q])
           /\ inflight = [inflight EXCEPT ![q] = inflight[q]]
           /\ done = [done EXCEPT ![q] = done[q]]
           /\ qp_info = [qp_info EXCEPT ![Found(q)] = qp_info[Found(q)]]
  <1>1. q \in DOMAIN qp_info \ destroyed /\ work < plan.work /\ work' = work + 1
    BY DEF Work
  <1>a. PICK o \in DOMAIN qp_info : o = Found(q)
    BY <1>1 DEF AppInv, Numbering, Found
  <1>2. /\ qp_info[o] \in QpStats /\ inflight[q] \in Trackers
        /\ done[q] \in Seq(Nat \ {0}) /\ now \in Nat /\ Max(Steps) \in Nat
    BY <1>1, AppFacts, LongestStep
  <1>3. TimesOn(q) /\ TrackedBy(qp_info[o], now)
    BY DEF AppInv
  <1>b. OneDevice(q) => o = q
    BY <1>1, <1>a DEF AppInv, Numbering
  <1>c. OneDevice(q) => Measures(qp_info[o], done[q], inflight[q])
    BY <1>1, <1>3, <1>b DEF TimesOn
  <1>4. /\ inflight = [inflight EXCEPT ![q] = inflight[q]]
        /\ done = [done EXCEPT ![q] = done[q]]
        /\ qp_info = [qp_info EXCEPT ![o] = qp_info[o]]
    BY DEF AppInv
  <1>5. /\ \A w \in DOMAIN inflight[q] : inflight[q][w] <= now
        /\ IsFiniteSet(DOMAIN inflight[q])
        /\ ~plan.qps[q].data => DOMAIN inflight[q] = {}
    BY <1>1, <1>3 DEF TimesOn, QpInfo
  <1> QED
    BY <1>1, <1>2, <1>3, <1>4, <1>5, <1>a, <1>c

LEMMA PostSendStep ==
    ASSUME AppInv, NEW q \in Qps, NEW w \in WrIds, PostSend(q, w)
    PROVE  AppInv'
  <1>1. /\ Work(q) /\ plan.qps[q].data /\ w \notin DOMAIN inflight[q]
        /\ inflight' = [inflight EXCEPT ![q] = Put(inflight[q], w, now)]
        /\ qp_info' = [qp_info EXCEPT ![Found(q)] = UpdateWqeSend(qp_info[Found(q)], w, now)]
        /\ devices' = Counted("sizes")
        /\ UNCHANGED <<queue_state, done, now, destroyed, plan, app>>
    BY DEF PostSend, QpInfo, exitVars
  <1>2. /\ q \in DOMAIN qp_info \ destroyed /\ work < plan.work /\ work' = work + 1
        /\ qp_info[Found(q)] \in QpStats /\ inflight[q] \in Trackers
        /\ done[q] \in Seq(Nat \ {0}) /\ now \in Nat /\ Max(Steps) \in Nat
        /\ \A v \in DOMAIN inflight[q] : inflight[q][v] <= now
        /\ IsFiniteSet(DOMAIN inflight[q]) /\ TrackedBy(qp_info[Found(q)], now)
        /\ OneDevice(q) => Measures(qp_info[Found(q)], done[q], inflight[q])
        /\ done = [done EXCEPT ![q] = done[q]]
    BY <1>1, WorkFacts
  <1>3. Len(done[q]) \in Nat
    BY <1>2, LenProperties
  <1>4. PICK f \in Trackers : f = Put(inflight[q], w, now)
    BY <1>2, PutTracked
  <1>5. PICK r \in QpStats : /\ r = UpdateWqeSend(qp_info[Found(q)], w, now)
                             /\ TrackedBy(r, now)
    BY <1>2, SendType
  <1>6. OneDevice(q) => Measures(r, done[q], f)
    BY <1>1, <1>2, <1>3, <1>4, <1>5, SendMeasures
  <1>7. /\ DOMAIN f = DOMAIN inflight[q] \cup {w} /\ f[w] = now
        /\ \A v \in DOMAIN inflight[q] \ {w} : f[v] = inflight[q][v]
    <2>1. PICK g \in Trackers : g = inflight[q]
      BY <1>2
    <2>2. f = Put(g, w, now)
      BY <1>4, <2>1
    <2>3. DOMAIN f = DOMAIN g \cup {w} /\ f[w] = now /\ \A v \in DOMAIN g \ {w} : f[v] = g[v]
      BY <2>2 DEF Put
    <2> QED
      BY <2>1, <2>3
  <1>8. (\A v \in DOMAIN f : f[v] <= now) /\ IsFiniteSet(DOMAIN f)
    <2>1. IsFiniteSet(DOMAIN f)
      BY <1>2, <1>7, FS_AddElement
    <2>2. now <= now
      BY <1>2
    <2> QED
      BY <1>2, <1>7, <2>1, <2>2
  <1>9. /\ qp_info' = [qp_info EXCEPT ![Found(q)] = r]
        /\ inflight' = [inflight EXCEPT ![q] = f]
        /\ done' = [done EXCEPT ![q] = done[q]]
        /\ now' \in Nat /\ now <= now' /\ now' <= now + Max(Steps)
        /\ (\A v \in DOMAIN f : f[v] <= now') /\ TrackedBy(r, now')
    BY <1>1, <1>2, <1>4, <1>5, <1>8
  <1> QED
    BY <1>1, <1>2, <1>6, <1>8, <1>9, QpStep

LEMMA PostCtsStep ==
    ASSUME AppInv, NEW q \in Qps, PostCts(q)
    PROVE  AppInv'
  <1>1. /\ Work(q) /\ ~plan.qps[q].data
        /\ qp_info' = [qp_info EXCEPT ![Found(q)].num_cts_sent = @ + 1,
                                      ![Found(q)].num_wqe_sent = @ + 1]
        /\ UNCHANGED <<devices, queue_state, inflight, done, now, destroyed, plan, app>>
    BY DEF PostCts, QpInfo, exitVars
  <1>2. /\ q \in DOMAIN qp_info \ destroyed /\ work < plan.work /\ work' = work + 1
        /\ qp_info[Found(q)] \in QpStats /\ inflight[q] \in Trackers
        /\ done[q] \in Seq(Nat \ {0}) /\ now \in Nat /\ Max(Steps) \in Nat
        /\ \A v \in DOMAIN inflight[q] : inflight[q][v] <= now
        /\ IsFiniteSet(DOMAIN inflight[q]) /\ DOMAIN inflight[q] = {}
        /\ TrackedBy(qp_info[Found(q)], now)
        /\ OneDevice(q) => Measures(qp_info[Found(q)], done[q], inflight[q])
        /\ inflight = [inflight EXCEPT ![q] = inflight[q]]
        /\ done = [done EXCEPT ![q] = done[q]]
    BY <1>1, WorkFacts
  <1>a. PICK o \in DOMAIN qp_info : o = Found(q)
    BY <1>1, WorkFacts
  <1>3. PICK s \in QpStats : s = qp_info[o]
    BY <1>2, <1>a
  <1>4. PICK a \in Nat, b \in Nat : a = s.num_cts_sent /\ b = s.num_wqe_sent
    BY DEF QpStats
  <1> DEFINE r == [s EXCEPT !.num_cts_sent = a + 1, !.num_wqe_sent = b + 1]
  <1>5. qp_info' = [qp_info EXCEPT ![o] = r]
    <2>1. qp_info \in [DOMAIN qp_info -> QpStats]
      BY DEF AppInv
    <2> QED
      BY <1>1, <1>3, <1>4, <1>a, <2>1 DEF QpStats
  <1>6. r \in QpStats
    <2>1. PICK c \in Nat, e \in Nat : c = a + 1 /\ e = b + 1
      OBVIOUS
    <2>2. [s EXCEPT !.num_cts_sent = c, !.num_wqe_sent = e] \in QpStats
      BY DEF QpStats
    <2> QED
      BY <2>1, <2>2
  <1>7. /\ r.tracker = s.tracker /\ r.min = s.min /\ r.max = s.max
        /\ r.buckets = s.buckets /\ r.num_wqe_completed = s.num_wqe_completed
        /\ r.num_wqe_sent = b + 1 /\ r.num_cts_sent = a + 1
    BY DEF QpStats
  <1> HIDE DEF r
  <1>8. OneDevice(q) => Measures(r, done[q], inflight[q])
    <2>1. Len(done[q]) \in Nat /\ Cardinality(DOMAIN inflight[q]) \in Nat
      BY <1>2, LenProperties, FS_CardinalityType
    <2>2. r.num_wqe_sent - r.num_cts_sent = s.num_wqe_sent - s.num_cts_sent
      <3>1. (b + 1) - (a + 1) = b - a
        OBVIOUS
      <3> QED
        BY <1>4, <1>7, <3>1
    <2>3. OneDevice(q) => Measures(s, done[q], inflight[q])
      BY <1>2, <1>3, <1>a
    <2> QED
      BY <1>6, <1>7, <2>1, <2>2, <2>3, OtherCounters
  <1>9. /\ inflight' = [inflight EXCEPT ![q] = inflight[q]]
        /\ done' = [done EXCEPT ![q] = done[q]]
        /\ now' \in Nat /\ now <= now' /\ now' <= now + Max(Steps)
        /\ \A v \in DOMAIN inflight[q] : inflight[q][v] <= now'
    BY <1>1, <1>2
  <1>10. TrackedBy(r, now') /\ qp_info' = [qp_info EXCEPT ![Found(q)] = r]
    BY <1>1, <1>2, <1>3, <1>5, <1>7, <1>a DEF TrackedBy
  <1> QED
    BY <1>1, <1>2, <1>6, <1>8, <1>9, <1>10, QpStep

LEMMA CompleteSendStep ==
    ASSUME AppInv, NEW q \in Qps, NEW w \in WrIds, NEW step \in Steps,
           CompleteSend(q, w, step)
    PROVE  AppInv'
  <1>1. /\ Work(q) /\ w \in DOMAIN inflight[q] /\ now' = now + step
        /\ done' = [done EXCEPT ![q] = Append(done[q], now' - inflight[q][w])]
        /\ inflight' = [inflight EXCEPT ![q] =
                           [v \in DOMAIN inflight[q] \ {w} |-> inflight[q][v]]]
        /\ qp_info' = [qp_info EXCEPT ![Found(q)] = UpdateWqeRcvd(qp_info[Found(q)], w, now')]
        /\ devices' = Counted("cq_poll_count")
        /\ UNCHANGED <<queue_state, destroyed, plan, app>>
    BY DEF CompleteSend, exitVars
  <1>2. /\ q \in DOMAIN qp_info \ destroyed /\ work < plan.work /\ work' = work + 1
        /\ qp_info[Found(q)] \in QpStats /\ inflight[q] \in Trackers
        /\ done[q] \in Seq(Nat \ {0}) /\ now \in Nat /\ Max(Steps) \in Nat
        /\ \A v \in DOMAIN inflight[q] : inflight[q][v] <= now
        /\ IsFiniteSet(DOMAIN inflight[q])
        /\ ~plan.qps[q].data => DOMAIN inflight[q] = {}
        /\ TrackedBy(qp_info[Found(q)], now)
        /\ OneDevice(q) => Measures(qp_info[Found(q)], done[q], inflight[q])
    BY <1>1, WorkFacts
  <1>3. PICK end \in Nat : end = now' /\ now < end /\ end <= now + Max(Steps)
    BY <1>1, <1>2, LongestStep
  <1>4. PICK f \in Trackers : f = [v \in DOMAIN inflight[q] \ {w} |-> inflight[q][v]]
    BY <1>2, DropTracked
  <1>5. \A v \in DOMAIN inflight[q] : inflight[q][v] \in Nat
    BY <1>2, TrackedType
  <1>6. \A v \in DOMAIN inflight[q] : inflight[q][v] < end
    BY <1>2, <1>3, <1>5
  <1>a. TrackedBy(qp_info[Found(q)], end)
    <2>1. PICK g \in Trackers : g = qp_info[Found(q)].tracker
      BY <1>2 DEF QpStats
    <2>2. \A v \in DOMAIN g : g[v] \in Nat /\ g[v] <= now
      BY <1>2, <2>1, TrackedType DEF TrackedBy
    <2>3. \A v \in DOMAIN g : g[v] <= end
      BY <1>2, <1>3, <2>2
    <2> QED
      BY <2>1, <2>3 DEF TrackedBy
  <1>8. PICK r \in QpStats : /\ r = UpdateWqeRcvd(qp_info[Found(q)], w, end)
                             /\ TrackedBy(r, end)
    BY <1>2, <1>a, RcvdType
  <1>7. /\ end - inflight[q][w] \in Nat \ {0}
        /\ OneDevice(q) => Measures(r, Append(done[q], end - inflight[q][w]), f)
    <2>1. end > inflight[q][w] /\ end - inflight[q][w] \in Nat \ {0}
      BY <1>1, <1>3, <1>5, <1>6
    <2> QED
      BY <1>1, <1>2, <1>4, <1>8, <2>1, RcvdMeasures
  <1>9. PICK t \in Seq(Nat \ {0}) : t = Append(done[q], end - inflight[q][w])
    BY <1>2, <1>7, AppendProperties
  <1>10. OneDevice(q) => Measures(r, t, f)
    BY <1>7, <1>9
  <1>11. DOMAIN f = DOMAIN inflight[q] \ {w} /\ \A v \in DOMAIN f : f[v] = inflight[q][v]
    BY <1>4
  <1>12. IsFiniteSet(DOMAIN f) /\ (~plan.qps[q].data => DOMAIN f = {})
    BY <1>2, <1>11, FS_Subset
  <1>13. \A v \in DOMAIN f : f[v] <= now'
    BY <1>3, <1>5, <1>6, <1>11
  <1>14. /\ qp_info' = [qp_info EXCEPT ![Found(q)] = r] /\ TrackedBy(r, now')
         /\ inflight' = [inflight EXCEPT ![q] = f] /\ done' = [done EXCEPT ![q] = t]
    BY <1>1, <1>3, <1>4, <1>8, <1>9
  <1>15. now' \in Nat /\ now <= now' /\ now' <= now + Max(Steps)
    BY <1>2, <1>3
  <1> QED
    BY <1>1, <1>2, <1>10, <1>12, <1>13, <1>14, <1>15, QpStep

LEMMA CompleteOtherStep ==
    ASSUME AppInv, NEW q \in Qps, NEW w \in WrIds, CompleteOther(q, w)
    PROVE  AppInv'
  <1>1. /\ Work(q) /\ ~plan.qps[q].data
        /\ qp_info' = [qp_info EXCEPT ![Found(q)] = UpdateWqeRcvd(qp_info[Found(q)], w, now)]
        /\ devices' = Counted("cq_poll_count")
        /\ UNCHANGED <<queue_state, inflight, done, now, destroyed, plan, app>>
    BY DEF CompleteOther, QpInfo, exitVars
  <1>2. /\ q \in DOMAIN qp_info \ destroyed /\ work < plan.work /\ work' = work + 1
        /\ qp_info[Found(q)] \in QpStats /\ inflight[q] \in Trackers
        /\ done[q] \in Seq(Nat \ {0}) /\ now \in Nat /\ Max(Steps) \in Nat
        /\ \A v \in DOMAIN inflight[q] : inflight[q][v] <= now
        /\ IsFiniteSet(DOMAIN inflight[q]) /\ DOMAIN inflight[q] = {}
        /\ TrackedBy(qp_info[Found(q)], now)
        /\ OneDevice(q) => Measures(qp_info[Found(q)], done[q], inflight[q])
        /\ inflight = [inflight EXCEPT ![q] = inflight[q]]
        /\ done = [done EXCEPT ![q] = done[q]]
    BY <1>1, WorkFacts
  <1>3. PICK r \in QpStats : /\ r = UpdateWqeRcvd(qp_info[Found(q)], w, now)
                             /\ TrackedBy(r, now)
    BY <1>2, RcvdType
  <1>4. OneDevice(q) => Measures(r, done[q], inflight[q])
    <2>1. w \notin DOMAIN inflight[q]
      BY <1>2
    <2> QED
      BY <1>2, <1>3, <2>1, UntrackedMeasures
  <1>5. qp_info' = [qp_info EXCEPT ![Found(q)] = r] /\ TrackedBy(r, now')
    BY <1>1, <1>3
  <1>6. /\ inflight' = [inflight EXCEPT ![q] = inflight[q]]
        /\ done' = [done EXCEPT ![q] = done[q]]
        /\ now' \in Nat /\ now <= now' /\ now' <= now + Max(Steps)
        /\ \A v \in DOMAIN inflight[q] : inflight[q][v] <= now'
    BY <1>1, <1>2
  <1> QED
    BY <1>1, <1>2, <1>4, <1>5, <1>6, QpStep

LEMMA PollEmptyStep ==
    ASSUME AppInv, NEW q \in Qps, PollEmpty(q)
    PROVE  AppInv'
  <1>1. /\ Work(q) /\ devices' = Counted("cq_poll_count")
        /\ UNCHANGED <<queue_state, qp_info, inflight, done, now, destroyed, plan, app>>
    BY DEF PollEmpty, exitVars
  <1>2. /\ q \in DOMAIN qp_info \ destroyed /\ work < plan.work /\ work' = work + 1
        /\ qp_info[Found(q)] \in QpStats /\ inflight[q] \in Trackers
        /\ done[q] \in Seq(Nat \ {0}) /\ now \in Nat /\ Max(Steps) \in Nat
        /\ \A v \in DOMAIN inflight[q] : inflight[q][v] <= now
        /\ IsFiniteSet(DOMAIN inflight[q])
        /\ ~plan.qps[q].data => DOMAIN inflight[q] = {}
        /\ TrackedBy(qp_info[Found(q)], now)
        /\ OneDevice(q) => Measures(qp_info[Found(q)], done[q], inflight[q])
        /\ inflight = [inflight EXCEPT ![q] = inflight[q]]
        /\ done = [done EXCEPT ![q] = done[q]]
        /\ qp_info = [qp_info EXCEPT ![Found(q)] = qp_info[Found(q)]]
    BY <1>1, WorkFacts
  <1>3. /\ qp_info' = [qp_info EXCEPT ![Found(q)] = qp_info[Found(q)]]
        /\ inflight' = [inflight EXCEPT ![q] = inflight[q]]
        /\ done' = [done EXCEPT ![q] = done[q]]
        /\ now' \in Nat /\ now <= now' /\ now' <= now + Max(Steps)
        /\ \A v \in DOMAIN inflight[q] : inflight[q][v] <= now'
        /\ TrackedBy(qp_info[Found(q)], now')
    BY <1>1, <1>2
  <1> QED
    BY <1>1, <1>2, <1>3, QpStep

LEMMA DataPathStep ==
    ASSUME AppInv, DataPath
    PROVE  AppInv'
  <1>1. PICK q \in Qps :
           \/ PostCts(q) \/ PollEmpty(q)
           \/ \E w \in WrIds : \/ PostSend(q, w) \/ CompleteOther(q, w)
                               \/ \E s \in Steps : CompleteSend(q, w, s)
    BY DEF DataPath
  <1> QED
    BY <1>1, PostCtsStep, PollEmptyStep, PostSendStep, CompleteOtherStep, CompleteSendStep

-----------------------------------------------------------------------------
(* Reports *)

InThread == {"counted", "thread", "renamed"}

\* What a change of a report's state means for active_threads.
LEMMA StateMoves ==
    ASSUME st \in [Dumps -> DumpStates], NEW d \in Dumps, NEW x \in DumpStates,
           st' = [st EXCEPT ![d] = x]
    PROVE  /\ st' \in [Dumps -> DumpStates] /\ st'[d] = x
           /\ \A e \in Dumps : e # d => st'[e] = st[e]
           /\ Cardinality(Active) \in Nat
           /\ (d = Final \/ (x \in InThread <=> st[d] \in InThread)) => Active' = Active
           /\ (d # Final /\ x \in InThread /\ st[d] \notin InThread) =>
                 /\ Active' = Active \cup {d}
                 /\ Cardinality(Active') = Cardinality(Active) + 1
           /\ (d # Final /\ x \notin InThread /\ st[d] \in InThread) =>
                 /\ Active' = Active \ {d}
                 /\ Cardinality(Active') = Cardinality(Active) - 1
  <1>1. /\ st' \in [Dumps -> DumpStates] /\ st'[d] = x
        /\ \A e \in Dumps : e # d => st'[e] = st[e]
    OBVIOUS
  <1>2. /\ Active = {e \in 1 .. MaxDumps : st[e] \in InThread}
        /\ Active' = {e \in 1 .. MaxDumps : st'[e] \in InThread}
    BY DEF Active, InThread
  <1>3. (\A e \in 1 .. MaxDumps : e \in Dumps /\ e # Final) /\ (d # Final => d \in 1 .. MaxDumps)
    BY TelemetryConstants DEF Dumps, Final
  <1>4. IsFiniteSet(Active)
    <2>1. IsFiniteSet(1 .. MaxDumps) /\ Active \subseteq 1 .. MaxDumps
      BY <1>2, FS_Interval, TelemetryConstants
    <2> QED
      BY <2>1, FS_Subset
  <1>5. (d = Final \/ (x \in InThread <=> st[d] \in InThread)) => Active' = Active
    BY <1>1, <1>2, <1>3
  <1>6. (d # Final /\ x \in InThread /\ st[d] \notin InThread) =>
           Active' = Active \cup {d} /\ d \notin Active
    BY <1>1, <1>2, <1>3
  <1>7. (d # Final /\ x \notin InThread /\ st[d] \in InThread) =>
           Active' = Active \ {d} /\ d \in Active
    BY <1>1, <1>2, <1>3
  <1>8. Cardinality(Active) \in Nat
    BY <1>4, FS_CardinalityType
  <1>9. d \notin Active => Cardinality(Active \cup {d}) = Cardinality(Active) + 1
    BY <1>4, FS_AddElement
  <1>10. d \in Active => Cardinality(Active \ {d}) = Cardinality(Active) - 1
    BY <1>4, FS_RemoveElement
  <1> QED
    BY <1>1, <1>5, <1>6, <1>7, <1>8, <1>9, <1>10

LEMMA FaultCounted ==
    ASSUME AppInv, ReportTypes, Fault
    PROVE  faults' \in 0 .. plan.faults /\ faults' # 0
  BY AppFacts DEF ReportTypes, Fault

LEMMA MapsType ==
    ASSUME AppInv
    PROVE  Maps \in [qps : SUBSET Qps, states : NumMaps,
                     first : Devices \cup {NoDevice}, sent : [Qps -> Nat]]
  <1>1. devices.qps \in SUBSET Qps /\ devices.first \in Devices \cup {NoDevice}
    BY DEF AppInv, DeviceMaps
  <1>2. queue_state \in NumMaps
    BY DEF AppInv, Numbering
  <1>3. \A q \in DOMAIN qp_info : qp_info[q].num_wqe_sent \in Nat
    BY AppFacts DEF QpStats
  <1>4. [q \in Qps |-> IF q \in DOMAIN qp_info
                       THEN qp_info[q].num_wqe_sent ELSE 0] \in [Qps -> Nat]
    BY <1>3
  <1> QED
    BY <1>1, <1>2, <1>4 DEF Maps

LEMMA NoMapsType ==
    NoMaps \in [qps : SUBSET Qps, states : NumMaps,
                first : Devices \cup {NoDevice}, sent : [Qps -> Nat]]
  <1>1. <<>> \in [{} -> Qps] /\ {} \in SUBSET QpNums
    BY EmptyMap
  <1>2. <<>> \in NumMaps
    BY <1>1 DEF NumMaps
  <1> QED
    BY <1>2 DEF NoMaps

\* A change of the state of report d, and of what caller c starts.
LEMMA CallersKept ==
    ASSUME ReportInv, NEW d \in Dumps, NEW c \in Callers, NEW x \in Dumps, NEW y,
           calls' = calls \/ (calls' = [calls EXCEPT ![c] = x] /\ calls[c] \in {0, d}),
           st' = [st EXCEPT ![d] = y],
           y = "caller" => d = Final \/ (faults' # 0 /\ calls' = calls /\ calls[c] = d),
           faults' = faults \/ faults' # 0
    PROVE  CallerInv'
  <1>1. calls \in [Callers -> Dumps] /\ st \in [Dumps -> DumpStates]
    BY DEF ReportInv, ReportTypes
  <1> SUFFICES ASSUME NEW e \in 1 .. MaxDumps, st'[e] = "caller"
               PROVE  faults' # 0 /\ \E b \in Callers : calls'[b] = e
    BY DEF CallerInv
  <1>2. e \in Dumps /\ e # 0 /\ e # Final
    BY TelemetryConstants DEF Dumps, Final
  <1>3. CASE e = d
    <2>1. y = "caller"
      BY <1>1, <1>3
    <2> QED
      BY <1>2, <1>3, <2>1
  <1>4. CASE e # d
    <2>1. st[e] = "caller"
      BY <1>1, <1>2, <1>4
    <2>2. PICK b \in Callers : calls[b] = e /\ faults # 0
      BY <2>1 DEF ReportInv, CallerInv
    <2>3. calls'[b] = e
      BY <1>1, <1>2, <1>4, <2>2
    <2> QED
      BY <2>2, <2>3
  <1> QED
    BY <1>3, <1>4

\* The steps that leave the reports alone.
LEMMA ReportsKept ==
    ASSUME AppInv, ReportInv, UNCHANGED <<dumpVars, exitVars, calls, signals>>,
           faults' = faults \/ Fault
    PROVE  ReportInv'
  <1>1. UNCHANGED <<active_threads, st, snap, rows, file, late, plan, registered, exit,
                    calls, signals>>
    BY DEF dumpVars, exitVars
  <1>2. ReportTypes
    BY DEF ReportInv
  <1>3. faults' \in 0 .. plan.faults /\ (faults' = 0 => faults = 0)
    BY <1>2, FaultCounted DEF ReportTypes
  <1>4. ReportTypes'
    BY <1>1, <1>2, <1>3 DEF ReportTypes
  <1>5. Active' = Active
    BY <1>1 DEF Active
  <1>6. CallerInv'
    BY <1>1, <1>3 DEF ReportInv, CallerInv
  <1> QED
    BY <1>1, <1>3, <1>4, <1>5, <1>6 DEF ReportInv

LEMMA CopyStateStep ==
    ASSUME AppInv, ReportInv, NEW c \in Callers, CopyState(c)
    PROVE  ReportInv'
  <1>1. PICK d \in 1 .. MaxDumps :
           /\ st[d] = "none" /\ calls[c] = 0 /\ calls' = [calls EXCEPT ![c] = d]
           /\ st' = [st EXCEPT ![d] = "copied"] /\ snap' = [snap EXCEPT ![d] = Maps]
           /\ signals' = signals \/ (signals < plan.signals /\ signals' = signals + 1)
           /\ UNCHANGED <<active_threads, rows, file, late, exitVars, faults>>
    BY DEF CopyState
  <1>2. UNCHANGED <<plan, registered, exit>>
    BY <1>1 DEF exitVars
  <1>3. ReportTypes
    BY DEF ReportInv
  <1>4. d \in Dumps /\ d # Final /\ Final \in Dumps
    BY TelemetryConstants DEF Dumps, Final
  <1>5. calls' \in [Callers -> Dumps]
    BY <1>1, <1>3, <1>4 DEF ReportTypes
  <1>6. snap' \in [Dumps -> [qps : SUBSET Qps, states : NumMaps,
                           first : Devices \cup {NoDevice}, sent : [Qps -> Nat]]]
    BY <1>1, <1>3, <1>4, MapsType DEF ReportTypes
  <1>7. signals' \in 0 .. plan.signals
    BY <1>1, <1>3, AppFacts DEF ReportTypes
  <1>8. st' \in [Dumps -> DumpStates] /\ st'[Final] = st[Final] /\ Active' = Active
    <2>1. st \in [Dumps -> DumpStates] /\ "copied" \in DumpStates
      BY <1>3 DEF ReportTypes, DumpStates
    <2>2. "copied" \notin InThread /\ st[d] \notin InThread
      BY <1>1 DEF InThread
    <2> QED
      BY <1>1, <1>4, <2>1, <2>2, StateMoves
  <1>9. ReportTypes'
    BY <1>1, <1>2, <1>3, <1>5, <1>6, <1>7, <1>8 DEF ReportTypes
  <1>10. CallerInv'
    BY <1>1, <1>4, CallersKept
  <1> QED
    BY <1>1, <1>2, <1>8, <1>9, <1>10 DEF ReportInv

\* The report a caller is starting, in the state the caller left it.
LEMMA CallersReport ==
    ASSUME ReportInv, NEW c \in Callers, calls[c] # 0
    PROVE  calls[c] \in Dumps /\ calls[c] # Final /\ calls[c] \in 1 .. MaxDumps
  <1>1. calls[c] \in Dumps
    BY DEF ReportInv, ReportTypes
  <1> QED
    BY <1>1, TelemetryConstants DEF Dumps, Final

LEMMA CountThreadStep ==
    ASSUME AppInv, ReportInv, NEW c \in Callers, CountThread(c)
    PROVE  ReportInv'
  <1> DEFINE d == calls[c]
  <1>1. /\ exit.at # "exited" /\ d # 0 /\ st[d] = "copied"
        /\ active_threads' = active_threads + 1 /\ st' = [st EXCEPT ![d] = "counted"]
        /\ late' = IF exit.at = "dump" THEN late \cup {d} ELSE late
        /\ UNCHANGED <<snap, rows, file, plan, registered, exit, calls, signals, faults>>
    BY DEF CountThread, Runs, Alive, exitVars
  <1>2. ReportTypes /\ active_threads = Cardinality(Active)
    BY DEF ReportInv
  <1>3. d \in Dumps /\ d # Final /\ Final \in Dumps
    BY <1>1, CallersReport, TelemetryConstants
  <1>4. /\ st' \in [Dumps -> DumpStates] /\ st'[Final] = st[Final]
        /\ Active' = Active \cup {d} /\ Cardinality(Active') = Cardinality(Active) + 1
    <2>1. st \in [Dumps -> DumpStates] /\ "counted" \in DumpStates
      BY <1>2 DEF ReportTypes, DumpStates
    <2>2. "counted" \in InThread /\ st[d] \notin InThread
      BY <1>1 DEF InThread
    <2> QED
      BY <1>1, <1>3, <2>1, <2>2, StateMoves
  <1>5. ReportTypes'
    <2>1. late' \subseteq Dumps
      BY <1>1, <1>2, <1>3 DEF ReportTypes
    <2> QED
      BY <1>1, <1>2, <1>4, <2>1 DEF ReportTypes
  <1>6. active_threads' = Cardinality(Active')
    BY <1>1, <1>2, <1>4
  <1>7. exit'.at \in {"dump", "exited"} => Active' \subseteq late'
    BY <1>1, <1>4 DEF ReportInv
  <1>8. CallerInv'
    BY <1>1, <1>3, CallersKept
  <1> QED
    BY <1>1, <1>4, <1>5, <1>6, <1>7, <1>8 DEF ReportInv

LEMMA ReturnTypes ==
    ASSUME ReportInv, NEW c \in Callers, Return(c)
    PROVE  calls' \in [Callers -> Dumps]
  BY TelemetryConstants DEF ReportInv, ReportTypes, Return

LEMMA CreateThreadStep ==
    ASSUME AppInv, ReportInv, NEW c \in Callers, CreateThread(c)
    PROVE  ReportInv'
  <1> DEFINE d == calls[c]
  <1>1. /\ d # 0 /\ st[d] = "counted" /\ st' = [st EXCEPT ![d] = "thread"] /\ Return(c)
        /\ UNCHANGED <<active_threads, snap, rows, file, late, plan, registered, exit,
                       signals, faults>>
    BY DEF CreateThread, exitVars
  <1>2. ReportTypes
    BY DEF ReportInv
  <1>3. d \in Dumps /\ d # Final /\ Final \in Dumps
    BY <1>1, CallersReport, TelemetryConstants
  <1>4. st' \in [Dumps -> DumpStates] /\ st'[Final] = st[Final] /\ Active' = Active
    <2>1. st \in [Dumps -> DumpStates] /\ "thread" \in DumpStates
      BY <1>2 DEF ReportTypes, DumpStates
    <2>2. "thread" \in InThread /\ st[d] \in InThread
      BY <1>1 DEF InThread
    <2> QED
      BY <1>1, <1>3, <2>1, <2>2, StateMoves
  <1>5. calls' \in [Callers -> Dumps]
    BY <1>1, ReturnTypes
  <1>6. ReportTypes'
    BY <1>1, <1>2, <1>4, <1>5 DEF ReportTypes
  <1>7. CallerInv'
    <2>1. calls' = [calls EXCEPT ![c] = 0] /\ 0 \in Dumps
      BY <1>1, TelemetryConstants DEF Return
    <2> QED
      BY <1>1, <1>3, <2>1, CallersKept
  <1> QED
    BY <1>1, <1>4, <1>6, <1>7 DEF ReportInv

LEMMA CreateFailsStep ==
    ASSUME AppInv, ReportInv, NEW c \in Callers, CreateFails(c)
    PROVE  ReportInv'
  <1> DEFINE d == calls[c]
  <1>1. /\ d # 0 /\ st[d] = "counted" /\ st' = [st EXCEPT ![d] = "caller"] /\ Fault
        /\ active_threads' = active_threads - 1
        /\ UNCHANGED <<snap, rows, file, late, plan, registered, exit, calls, signals>>
    BY DEF CreateFails, Uncounted, exitVars
  <1>2. ReportTypes /\ active_threads = Cardinality(Active)
    BY DEF ReportInv
  <1>3. d \in Dumps /\ d # Final /\ Final \in Dumps
    BY <1>1, CallersReport, TelemetryConstants
  <1>4. /\ st' \in [Dumps -> DumpStates] /\ st'[Final] = st[Final]
        /\ Active' = Active \ {d} /\ Cardinality(Active') = Cardinality(Active) - 1
    <2>1. st \in [Dumps -> DumpStates] /\ "caller" \in DumpStates
      BY <1>2 DEF ReportTypes, DumpStates
    <2>2. "caller" \notin InThread /\ st[d] \in InThread
      BY <1>1 DEF InThread
    <2> QED
      BY <1>1, <1>3, <2>1, <2>2, StateMoves
  <1>5. faults' \in 0 .. plan.faults /\ faults' # 0
    BY <1>1, <1>2, FaultCounted
  <1>6. ReportTypes'
    BY <1>1, <1>2, <1>4, <1>5 DEF ReportTypes
  <1>7. active_threads' = Cardinality(Active')
    BY <1>1, <1>2, <1>4
  <1>8. exit'.at \in {"dump", "exited"} => Active' \subseteq late'
    BY <1>1, <1>4 DEF ReportInv
  <1>9. CallerInv'
    BY <1>1, <1>3, <1>5, CallersKept
  <1> QED
    BY <1>1, <1>4, <1>5, <1>6, <1>7, <1>8, <1>9 DEF ReportInv

LEMMA ReadStep ==
    ASSUME AppInv, ReportInv, NEW d \in Dumps, NEW q \in Qps, Read(d, q)
    PROVE  ReportInv'
  <1> DEFINE row == rows[d][q]
             what == ReadOrder[Cardinality(DOMAIN row) + 1]
             known == Num(q) \in DOMAIN snap[d].states
             qp == qp_info[snap[d].states[Num(q)]]
  <1>1. ReportTypes
    BY DEF ReportInv
  <1>2. PICK new : /\ rows' = [rows EXCEPT ![d][q] = new]
                   /\ DOMAIN new = DOMAIN NoRow \/ DOMAIN new = DOMAIN row \cup {what}
    <2> DEFINE value == IF what = "cts" /\ qp.data_qp THEN 0
                        ELSE qp.num_wqe_sent
    <2>1. rows' = [rows EXCEPT ![d][q] =
                     IF known THEN Put(row, what, value) ELSE NoRow]
      BY DEF Read
    <2>2. DOMAIN Put(row, what, value) = DOMAIN row \cup {what}
      BY DEF Put
    <2> HIDE DEF value, what, known
    <2>3. CASE known
      <3>1. rows' = [rows EXCEPT ![d][q] = Put(row, what, value)]
        BY <2>1, <2>3
      <3> QED
        BY <2>2, <3>1
    <2>4. CASE ~known
      <3>1. rows' = [rows EXCEPT ![d][q] = NoRow]
        BY <2>1, <2>4
      <3> QED
        BY <3>1
    <2> QED
      BY <2>3, <2>4
  <1>3. /\ ~Complete(row)
        /\ UNCHANGED <<active_threads, st, snap, file, late, plan, registered, exit, calls,
                       signals, faults>>
    BY DEF Read, exitVars
  <1>4. DOMAIN NoRow = {"cts", "sum"}
    BY DEF NoRow
  <1>5. what \in {"cts", "sum"}
    <2>1. DOMAIN row \subseteq {"cts", "sum"} /\ DOMAIN row # {"cts", "sum"}
      BY <1>1, <1>3, <1>4 DEF ReportTypes, Complete
    <2>2. DOMAIN row = {} \/ DOMAIN row = {"cts"} \/ DOMAIN row = {"sum"}
      BY <2>1
    <2>3. Cardinality(DOMAIN row) = 0 \/ Cardinality(DOMAIN row) = 1
      BY <2>2, FS_EmptySet, FS_Singleton
    <2> QED
      BY <2>3 DEF ReadOrder
  <1>6. DOMAIN new \subseteq {"cts", "sum"}
    BY <1>1, <1>2, <1>4, <1>5 DEF ReportTypes
  <1> HIDE DEF row, what, known, qp
  <1>7. /\ DOMAIN rows' = Dumps /\ \A e \in Dumps : DOMAIN rows'[e] = Qps
        /\ \A e \in Dumps, p \in Qps : DOMAIN rows'[e][p] \subseteq {"cts", "sum"}
    <2>1. /\ DOMAIN rows = Dumps /\ \A e \in Dumps : DOMAIN rows[e] = Qps
          /\ \A e \in Dumps, p \in Qps : DOMAIN rows[e][p] \subseteq {"cts", "sum"}
      BY <1>1 DEF ReportTypes
    <2>2. DOMAIN rows' = Dumps /\ \A e \in Dumps : DOMAIN rows'[e] = Qps
      BY <1>2, <2>1
    <2>3. \A e \in Dumps, p \in Qps :
             rows'[e][p] = IF e = d /\ p = q THEN new ELSE rows[e][p]
      BY <1>2, <2>1
    <2> QED
      BY <1>6, <2>1, <2>2, <2>3
  <1>8. ReportTypes'
    BY <1>1, <1>3, <1>7 DEF ReportTypes
  <1>9. Active' = Active
    BY <1>3 DEF Active
  <1>10. CallerInv'
    BY <1>3 DEF ReportInv, CallerInv
  <1> QED
    BY <1>3, <1>8, <1>9, <1>10 DEF ReportInv

\* The deletion of a snapshot, with what it does to the reports' states.
LEMMA DeletedFacts ==
    ASSUME ReportInv, NEW d \in Dumps, Reading(d), Deleted(d)
    PROVE  /\ calls' \in [Callers -> Dumps] /\ st' \in [Dumps -> DumpStates]
           /\ snap' \in [Dumps -> [qps : SUBSET Qps, states : NumMaps,
                                   first : Devices \cup {NoDevice}, sent : [Qps -> Nat]]]
           /\ DOMAIN rows' = Dumps /\ \A e \in Dumps : DOMAIN rows'[e] = Qps
           /\ \A e \in Dumps, q \in Qps : DOMAIN rows'[e][q] \subseteq {"cts", "sum"}
           /\ exit' \in [by : Exiters \cup {<<"nobody", 0>>},
                         at : {"no", "wait", "dump", "exited"}]
           /\ Active' = Active /\ st'[Final] \in {"none", "caller", "done"}
           /\ st'[Final] = "caller" => exit'.at = "dump"
           /\ d # Final => exit' = exit /\ exit.at # "exited"
           /\ d = Final => exit.at = "dump" /\ exit'.at = "exited"
           /\ app' = app \/ app' = [app EXCEPT !.at = "idle"]
  <1>1. ReportTypes /\ Final \in Dumps
    BY TelemetryConstants DEF ReportInv
  <1>2. exit.at # "exited" /\ st[d] \in {"thread", "caller"}
    BY DEF Reading, Alive
  <1>3. /\ calls' \in [Callers -> Dumps]
        /\ app' = app \/ app' = [app EXCEPT !.at = "idle"]
    <2>1. CASE \E c \in Callers : calls[c] = d /\ d # Final
      <3>1. PICK c \in Callers : Return(c)
        BY <2>1 DEF Deleted
      <3> QED
        BY <3>1, ReturnTypes DEF Return
    <2>2. CASE ~\E c \in Callers : calls[c] = d /\ d # Final
      BY <1>1, <2>2 DEF Deleted, ReportTypes
    <2> QED
      BY <2>1, <2>2
  <1>4. snap' \in [Dumps -> [qps : SUBSET Qps, states : NumMaps,
                             first : Devices \cup {NoDevice}, sent : [Qps -> Nat]]]
    BY <1>1, NoMapsType DEF Deleted, ReportTypes
  <1>5. /\ DOMAIN rows' = Dumps /\ \A e \in Dumps : DOMAIN rows'[e] = Qps
        /\ \A e \in Dumps, q \in Qps : DOMAIN rows'[e][q] \subseteq {"cts", "sum"}
    <2>1. rows' = [rows EXCEPT ![d] = [q \in Qps |-> <<>>]]
      BY DEF Deleted
    <2>2. /\ DOMAIN rows = Dumps /\ \A e \in Dumps : DOMAIN rows[e] = Qps
          /\ \A e \in Dumps, q \in Qps : DOMAIN rows[e][q] \subseteq {"cts", "sum"}
      BY <1>1 DEF ReportTypes
    <2>3. PICK none : none = [q \in Qps |-> <<>>]
      OBVIOUS
    <2>4. DOMAIN none = Qps /\ \A q \in Qps : DOMAIN none[q] = {}
      BY <2>3, EmptyMap
    <2>5. DOMAIN rows' = Dumps /\ \A e \in Dumps : rows'[e] = IF e = d THEN none ELSE rows[e]
      BY <2>1, <2>2, <2>3
    <2> QED
      BY <2>2, <2>4, <2>5
  <1>6. PICK x \in DumpStates : /\ x = AfterDelete(st[d])
                                /\ x = IF st[d] = "thread" THEN "renamed" ELSE "done"
    BY DEF AfterDelete, DumpStates
  <1>7. st' = [st EXCEPT ![d] = x] /\ st \in [Dumps -> DumpStates]
    BY <1>1, <1>6 DEF Deleted, ReportTypes
  <1>8. /\ st' \in [Dumps -> DumpStates] /\ st'[d] = x /\ Active' = Active
        /\ \A e \in Dumps : e # d => st'[e] = st[e]
    <2>1. x \in InThread <=> st[d] \in InThread
      BY <1>2, <1>6 DEF InThread
    <2> QED
      BY <1>7, <2>1, StateMoves
  <1>9. exit \in [by : Exiters \cup {<<"nobody", 0>>}, at : {"no", "wait", "dump", "exited"}]
    BY <1>1 DEF ReportTypes
  <1>10. CASE d = Final
    <2>1. st[Final] = "caller" /\ exit.at = "dump" /\ x = "done"
      BY <1>2, <1>6, <1>10 DEF ReportInv
    <2>2. exit' = [exit EXCEPT !.at = "exited"]
      BY <1>10 DEF Deleted
    <2>3. exit' \in [by : Exiters \cup {<<"nobody", 0>>}, at : {"no", "wait", "dump", "exited"}]
          /\ exit'.at = "exited"
      BY <1>9, <2>2
    <2> QED
      BY <1>3, <1>4, <1>5, <1>8, <1>10, <2>1, <2>3
  <1>11. CASE d # Final
    <2>1. exit' = exit
      BY <1>11 DEF Deleted
    <2>2. st'[Final] = st[Final]
      BY <1>1, <1>8, <1>11
    <2> QED
      BY <1>2, <1>3, <1>4, <1>5, <1>8, <1>9, <1>11, <2>1, <2>2 DEF ReportInv
  <1> QED
    BY <1>10, <1>11

LEMMA DeletedCallers ==
    ASSUME ReportInv, NEW d \in Dumps, Reading(d), Deleted(d), faults' = faults \/ faults' # 0
    PROVE  CallerInv'
  <1>1. PICK y : y = AfterDelete(st[d]) /\ y # "caller"
    BY DEF AfterDelete
  <1>2. st' = [st EXCEPT ![d] = y]
    BY <1>1 DEF Deleted
  <1>3. CASE \E c \in Callers : calls[c] = d /\ d # Final
    <2>1. PICK c \in Callers : calls[c] = d /\ Return(c)
      BY <1>3 DEF Deleted
    <2>2. calls' = [calls EXCEPT ![c] = 0] /\ 0 \in Dumps
      BY <2>1, TelemetryConstants DEF Return
    <2> QED
      BY <1>1, <1>2, <2>1, <2>2, CallersKept
  <1>4. CASE ~\E c \in Callers : calls[c] = d /\ d # Final
    <2>1. calls' = calls
      BY <1>4 DEF Deleted
    <2>2. "app" \in Callers /\ 0 \in Dumps
      BY TelemetryConstants DEF Callers
    <2> QED
      BY <1>1, <1>2, <2>1, <2>2, CallersKept
  <1> QED
    BY <1>3, <1>4

LEMMA RenameStep ==
    ASSUME AppInv, ReportInv, NEW d \in Dumps, Rename(d)
    PROVE  ReportInv'
  <1> DEFINE f == snap[d].first
  <1>1. /\ Reading(d) /\ Deleted(d) /\ file' = [file EXCEPT ![f] = d]
        /\ UNCHANGED <<active_threads, late, plan, registered, signals, faults>>
    BY DEF Rename
  <1>2. ReportTypes
    BY DEF ReportInv
  <1>3. f \in Devices \cup {NoDevice}
    BY <1>2 DEF ReportTypes
  <1>4. /\ file' \in [Devices \cup {NoDevice} -> Dumps \cup {-1}]
        /\ DOMAIN file' = Devices \cup {NoDevice} /\ file'[f] = d
    BY <1>1, <1>2, <1>3 DEF ReportTypes
  <1> HIDE DEF f
  <1>5. ReportTypes'
    BY <1>1, <1>2, <1>4, DeletedFacts DEF ReportTypes
  <1>6. active_threads' = Cardinality(Active') /\ st'[Final] \in {"none", "caller", "done"}
        /\ (st'[Final] = "caller" => exit'.at = "dump")
    BY <1>1, DeletedFacts DEF ReportInv
  <1>7. exit'.at \in {"dump", "exited"} => Active' \subseteq late'
    BY <1>1, DeletedFacts DEF ReportInv
  <1>8. exit'.at = "exited" => \E dev \in DOMAIN file' : file'[dev] = Final
    <2>1. exit'.at = "exited" => d = Final
      BY <1>1, DeletedFacts
    <2> QED
      BY <1>3, <1>4, <2>1
  <1>9. CallerInv'
    BY <1>1, DeletedCallers
  <1> QED
    BY <1>5, <1>6, <1>7, <1>8, <1>9 DEF ReportInv

LEMMA WriteFailsStep ==
    ASSUME AppInv, ReportInv, NEW d \in Dumps, WriteFails(d)
    PROVE  ReportInv'
  <1>1. /\ Reading(d) /\ Deleted(d) /\ Fault
        /\ UNCHANGED <<active_threads, file, late, plan, registered, signals>>
    BY DEF WriteFails
  <1>2. ReportTypes
    BY DEF ReportInv
  <1>3. faults' \in 0 .. plan.faults /\ faults' # 0
    BY <1>1, <1>2, FaultCounted
  <1>4. ReportTypes'
    BY <1>1, <1>2, <1>3, DeletedFacts DEF ReportTypes
  <1>5. active_threads' = Cardinality(Active') /\ st'[Final] \in {"none", "caller", "done"}
        /\ (st'[Final] = "caller" => exit'.at = "dump")
    BY <1>1, DeletedFacts DEF ReportInv
  <1>6. exit'.at \in {"dump", "exited"} => Active' \subseteq late'
    BY <1>1, DeletedFacts DEF ReportInv
  <1>7. CallerInv'
    BY <1>1, <1>3, DeletedCallers
  <1> QED
    BY <1>3, <1>4, <1>5, <1>6, <1>7 DEF ReportInv

LEMMA EndThreadStep ==
    ASSUME AppInv, ReportInv, NEW d \in Dumps, EndThread(d)
    PROVE  ReportInv'
  <1>1. /\ exit.at # "exited" /\ st[d] = "renamed"
        /\ active_threads' = active_threads - 1 /\ st' = [st EXCEPT ![d] = "done"]
        /\ UNCHANGED <<snap, rows, file, late, plan, registered, exit, calls, signals, faults>>
    BY DEF EndThread, Alive, exitVars
  <1>2. ReportTypes /\ active_threads = Cardinality(Active)
    BY DEF ReportInv
  <1>3. d # Final /\ Final \in Dumps
    BY <1>1, TelemetryConstants DEF ReportInv
  <1>4. /\ st' \in [Dumps -> DumpStates] /\ st'[Final] = st[Final]
        /\ Active' = Active \ {d} /\ Cardinality(Active') = Cardinality(Active) - 1
    <2>1. st \in [Dumps -> DumpStates] /\ "done" \in DumpStates
      BY <1>2 DEF ReportTypes, DumpStates
    <2>2. "done" \notin InThread /\ st[d] \in InThread
      BY <1>1 DEF InThread
    <2> QED
      BY <1>1, <1>3, <2>1, <2>2, StateMoves
  <1>5. ReportTypes'
    BY <1>1, <1>2, <1>4 DEF ReportTypes
  <1>6. active_threads' = Cardinality(Active')
    BY <1>1, <1>2, <1>4
  <1>7. exit'.at \in {"dump", "exited"} => Active' \subseteq late'
    BY <1>1, <1>4 DEF ReportInv
  <1>8. CallerInv'
    <2>1. "app" \in Callers /\ 0 \in Dumps
      BY TelemetryConstants DEF Callers
    <2> QED
      BY <1>1, <2>1, CallersKept
  <1> QED
    BY <1>1, <1>4, <1>5, <1>6, <1>7, <1>8 DEF ReportInv

LEMMA ExitStep ==
    ASSUME AppInv, ReportInv, NEW t \in Exiters, Exit(t)
    PROVE  ReportInv'
  <1>1. /\ exit.at = "no" /\ exit' = [by |-> t, at |-> "wait"] /\ registered' = FALSE
        /\ UNCHANGED <<plan, active_threads, st, snap, rows, file, late, calls, signals, faults>>
    BY DEF Exit, dumpVars
  <1>2. ReportTypes
    BY DEF ReportInv
  <1>3. /\ exit' \in [by : Exiters \cup {<<"nobody", 0>>}, at : {"no", "wait", "dump", "exited"}]
        /\ exit'.at = "wait"
    BY <1>1
  <1>4. ReportTypes'
    BY <1>1, <1>2, <1>3 DEF ReportTypes
  <1>5. Active' = Active
    BY <1>1 DEF Active
  <1>6. st[Final] # "caller"
    BY <1>1 DEF ReportInv
  <1>7. CallerInv'
    BY <1>1 DEF ReportInv, CallerInv
  <1> QED
    BY <1>1, <1>3, <1>4, <1>5, <1>6, <1>7 DEF ReportInv

LEMMA EndWaitStep ==
    ASSUME AppInv, ReportInv, EndWait
    PROVE  ReportInv'
  <1>1. /\ active_threads = 0 /\ exit' = [exit EXCEPT !.at = "dump"]
        /\ st' = [st EXCEPT ![Final] = "caller"] /\ snap' = [snap EXCEPT ![Final] = Maps]
        /\ UNCHANGED <<active_threads, rows, file, late, plan, registered, calls, signals,
                       faults>>
    BY DEF EndWait, NoThreads
  <1>2. ReportTypes /\ active_threads = Cardinality(Active) /\ Final \in Dumps
    BY TelemetryConstants DEF ReportInv
  <1>3. st' \in [Dumps -> DumpStates] /\ st'[Final] = "caller" /\ Active' = Active
    <2>1. st \in [Dumps -> DumpStates] /\ "caller" \in DumpStates
      BY <1>2 DEF ReportTypes, DumpStates
    <2> QED
      BY <1>1, <1>2, <2>1, StateMoves
  <1>4. Active = {}
    <2>1. IsFiniteSet(1 .. MaxDumps) /\ Active \subseteq 1 .. MaxDumps
      BY FS_Interval, TelemetryConstants DEF Active
    <2>2. IsFiniteSet(Active)
      BY <2>1, FS_Subset
    <2> QED
      BY <1>1, <1>2, <2>2, FS_EmptySet
  <1>5. snap' \in [Dumps -> [qps : SUBSET Qps, states : NumMaps,
                             first : Devices \cup {NoDevice}, sent : [Qps -> Nat]]]
    BY <1>1, <1>2, MapsType DEF ReportTypes
  <1>6. /\ exit' \in [by : Exiters \cup {<<"nobody", 0>>}, at : {"no", "wait", "dump", "exited"}]
        /\ exit'.at = "dump"
    BY <1>1, <1>2 DEF ReportTypes
  <1>7. ReportTypes'
    BY <1>1, <1>2, <1>3, <1>5, <1>6 DEF ReportTypes
  <1>8. CallerInv'
    <2>1. "app" \in Callers /\ 0 \in Dumps
      BY TelemetryConstants DEF Callers
    <2> QED
      BY <1>1, <1>2, <2>1, CallersKept
  <1> QED
    BY <1>1, <1>2, <1>3, <1>4, <1>6, <1>7, <1>8 DEF ReportInv

-----------------------------------------------------------------------------
(* The specification *)

LEMMA TelemetryInit ==
    ASSUME Init
    PROVE  TelemetryInv
  <1>1. /\ plan \in Plans
        /\ devices = [in |-> {}, first |-> NoDevice, named |-> {}, qps |-> {},
                      sizes |-> [d \in Devices |-> 0],
                      cq_poll_count |-> [d \in Devices |-> 0]]
        /\ queue_state = <<>> /\ qp_info = <<>> /\ app = [qp |-> 0, at |-> "idle"]
        /\ inflight = [q \in Qps |-> <<>>] /\ done = [q \in Qps |-> <<>>]
        /\ now = 0 /\ work = 0 /\ destroyed = {}
    BY DEF Init
  <1>2. Len(plan.qps) \in Nat /\ plan.work \in Nat /\ plan.signals \in Nat /\ plan.faults \in Nat
    BY <1>1, TelemetryConstants
  <1>3. AppInv
    <2>1. /\ devices \in DeviceMaps /\ devices.named \subseteq devices.in
          /\ \A d \in Devices : devices.sizes[d] <= work /\ devices.cq_poll_count[d] <= work
      <3>1. PICK g \in [Devices -> Nat] : g = [d \in Devices |-> 0]
        OBVIOUS
      <3>2. \A d \in Devices : g[d] = 0
        BY <3>1
      <3>3. devices = [in |-> {}, first |-> NoDevice, named |-> {}, qps |-> {},
                       sizes |-> g, cq_poll_count |-> g]
        BY <1>1, <3>1
      <3> QED
        BY <1>1, <3>2, <3>3 DEF DeviceMaps
    <2>2. qp_info \in [DOMAIN qp_info -> QpStats] /\ DOMAIN qp_info = {}
      BY <1>1, EmptyMap
    <2>3. inflight \in [Qps -> Trackers]
      BY <1>1, EmptyMap
    <2>4. done \in [Qps -> Seq(Nat \ {0})]
      BY <1>1
    <2>5. now <= work * Max(Steps)
      <3>1. PICK m \in Nat : m = Max(Steps)
        BY LongestStep
      <3>2. 0 <= 0 * m
        OBVIOUS
      <3> QED
        BY <1>1, <3>1, <3>2
    <2>6. Creating
      BY <1>1, <1>2, <2>2 DEF Creating, AppLabels
    <2>7. \A q \in Qps : TimesOn(q)
      BY <1>1, <2>2, EmptyMap DEF TimesOn
    <2>8. Numbering
      <3>1. <<>> \in [{} -> Qps] /\ {} \in SUBSET QpNums /\ DOMAIN queue_state = {}
        BY <1>1, EmptyMap
      <3>2. queue_state \in NumMaps
        BY <1>1, <3>1 DEF NumMaps
      <3>3. app.at = "idle" /\ 1 .. app.qp = {}
        BY <1>1
      <3> QED
        BY <1>1, <2>2, <3>1, <3>2, <3>3 DEF Numbering
    <2> QED
      BY <1>1, <1>2, <2>1, <2>2, <2>3, <2>4, <2>5, <2>6, <2>7, <2>8 DEF AppInv
  <1>4. /\ active_threads = 0 /\ calls = [c \in Callers |-> 0]
        /\ st = [d \in Dumps |-> "none"] /\ snap = [d \in Dumps |-> NoMaps]
        /\ rows = [d \in Dumps |-> [q \in Qps |-> <<>>]]
        /\ file = [d \in Devices \cup {NoDevice} |-> -1] /\ registered = TRUE
        /\ exit = [by |-> <<"nobody", 0>>, at |-> "no"] /\ late = {}
        /\ signals = 0 /\ faults = 0
    BY DEF Init
  <1>5. ReportTypes
    <2>1. calls \in [Callers -> Dumps]
      BY <1>4, TelemetryConstants
    <2>2. st \in [Dumps -> DumpStates]
      BY <1>4 DEF DumpStates
    <2>3. snap \in [Dumps -> [qps : SUBSET Qps, states : NumMaps,
                              first : Devices \cup {NoDevice}, sent : [Qps -> Nat]]]
      BY <1>4, NoMapsType
    <2>4. /\ DOMAIN rows = Dumps /\ \A d \in Dumps : DOMAIN rows[d] = Qps
          /\ \A d \in Dumps, q \in Qps : DOMAIN rows[d][q] \subseteq {"cts", "sum"}
      BY <1>4, EmptyMap
    <2>5. file \in [Devices \cup {NoDevice} -> Dumps \cup {-1}]
      BY <1>4
    <2>6. exit \in [by : Exiters \cup {<<"nobody", 0>>}, at : {"no", "wait", "dump", "exited"}]
      BY <1>4
    <2> QED
      BY <1>2, <1>4, <2>1, <2>2, <2>3, <2>4, <2>5, <2>6 DEF ReportTypes
  <1>6. active_threads = Cardinality(Active)
    <2>1. \A d \in 1 .. MaxDumps : st[d] = "none"
      BY <1>4, TelemetryConstants DEF Dumps
    <2>2. Active = {}
      BY <2>1 DEF Active
    <2> QED
      BY <1>4, <2>2, FS_EmptySet
  <1>7. st[Final] = "none" /\ exit.at = "no"
    BY <1>4, TelemetryConstants
  <1>8. CallerInv
    <2>1. \A d \in 1 .. MaxDumps : st[d] = "none"
      BY <1>4, TelemetryConstants DEF Dumps
    <2> QED
      BY <2>1 DEF CallerInv
  <1> QED
    BY <1>3, <1>5, <1>6, <1>7, <1>8 DEF TelemetryInv, ReportInv

\* The calls on the application's thread.
LEMMA CreateQpStep ==
    ASSUME TelemetryInv, CreateQp
    PROVE  TelemetryInv'
  <1>1. AppInv /\ ReportInv
    BY DEF TelemetryInv
  <1>2. AppInv'
    <2>1. ASSUME ModifyQpFails PROVE AppInv'
      <3>1. UNCHANGED <<plan, stateVars, workVars>> /\ app' = [app EXCEPT !.at = "idle"]
        BY <2>1 DEF ModifyQpFails, AppAt, exitVars
      <3> QED
        BY <1>1, <3>1, AppKept
    <2> QED
      BY <1>1, <2>1, BeginQpStep, SetDeviceNameStep, AddToChannelStep, AddStateStep,
         SetKindStep, DestroyQpStep DEF CreateQp
  <1>3. /\ UNCHANGED <<dumpVars, exitVars, calls, signals>>
        /\ faults' = faults \/ Fault
    BY DEF CreateQp, BeginQp, SetDeviceName, AddToChannel, AddState, SetKind, ModifyQpFails,
           DestroyQp
  <1> QED
    BY <1>1, <1>2, <1>3, ReportsKept DEF TelemetryInv

LEMMA DataPathKeeps ==
    ASSUME TelemetryInv, DataPath
    PROVE  TelemetryInv'
  <1>1. AppInv /\ ReportInv /\ AppInv'
    BY DataPathStep DEF TelemetryInv
  <1>2. UNCHANGED <<dumpVars, exitVars, calls, signals>> /\ faults' = faults
    BY DEF DataPath, PostCts, PollEmpty, PostSend, CompleteOther, CompleteSend
  <1> QED
    BY <1>1, <1>2, ReportsKept DEF TelemetryInv

LEMMA CreationKeeps ==
    ASSUME TelemetryInv, NEW c \in Callers, Creation(c)
    PROVE  TelemetryInv'
  <1>1. AppInv /\ ReportInv
    BY DEF TelemetryInv
  <1>2. ReportInv'
    BY <1>1, CopyStateStep, CountThreadStep, CreateThreadStep, CreateFailsStep DEF Creation
  <1>3. /\ UNCHANGED <<plan, stateVars, workVars>>
        /\ app' = app \/ app' = [app EXCEPT !.at = "idle"]
    BY DEF Creation, CopyState, CountThread, CreateThread, CreateFails, Return, exitVars
  <1> QED
    BY <1>1, <1>2, <1>3, AppKept DEF TelemetryInv

LEMMA ReportKeeps ==
    ASSUME TelemetryInv, NEW d \in Dumps, Report(d)
    PROVE  TelemetryInv'
  <1>1. AppInv /\ ReportInv
    BY DEF TelemetryInv
  <1>2. ReportInv'
    BY <1>1, ReadStep, RenameStep, WriteFailsStep, EndThreadStep DEF Report
  <1>3. UNCHANGED <<plan, stateVars, workVars>>
    BY DEF Report, Read, Rename, WriteFails, EndThread, exitVars
  <1>4. app' = app \/ app' = [app EXCEPT !.at = "idle"]
    <2>1. CASE Rename(d) \/ WriteFails(d)
      BY <1>1, <2>1, DeletedFacts DEF Rename, WriteFails
    <2>2. CASE ~(Rename(d) \/ WriteFails(d))
      BY <2>2 DEF Report, Read, EndThread
    <2> QED
      BY <2>1, <2>2
  <1> QED
    BY <1>1, <1>2, <1>3, <1>4, AppKept DEF TelemetryInv

LEMMA EndKeeps ==
    ASSUME TelemetryInv, EndWait \/ \E t \in Exiters : Exit(t)
    PROVE  TelemetryInv'
  <1>1. AppInv /\ ReportInv
    BY DEF TelemetryInv
  <1>2. ReportInv'
    BY <1>1, ExitStep, EndWaitStep
  <1>3. UNCHANGED <<plan, stateVars, workVars, app>>
    BY DEF Exit, EndWait
  <1> QED
    BY <1>1, <1>2, <1>3, AppKept DEF TelemetryInv

LEMMA TelemetryStep ==
    ASSUME TelemetryInv, [Next]_vars
    PROVE  TelemetryInv'
  <1>1. CASE UNCHANGED vars
    <2>1. AppInv /\ ReportInv
      BY DEF TelemetryInv
    <2>2. /\ UNCHANGED <<plan, stateVars, workVars, app>>
          /\ UNCHANGED <<dumpVars, exitVars, calls, signals>> /\ faults' = faults
      BY <1>1 DEF vars, exitVars
    <2> QED
      BY <2>1, <2>2, AppKept, ReportsKept DEF TelemetryInv
  <1>2. CASE Next
    BY <1>2, CreateQpStep, DataPathKeeps, CreationKeeps, ReportKeeps, EndKeeps DEF Next
  <1> QED
    BY <1>1, <1>2

\* Every call of the plug-in, every report and the end of the process keep the
\* inductive invariant.
THEOREM TelemetryInvariant == Spec => []TelemetryInv
  <1>1. Init => TelemetryInv
    BY TelemetryInit
  <1>2. TelemetryInv /\ [Next]_vars => TelemetryInv'
    BY TelemetryStep
  <1> QED
    BY <1>1, <1>2, PTL DEF Spec

-----------------------------------------------------------------------------
(* What follows *)

\* The counters of a QP without the tracker.
LEMMA PublicCounters ==
    ASSUME NEW s \in QpStats
    PROVE  [f \in DOMAIN s \ {"tracker"} |-> s[f]] \in QpState
  <1>1. PICK a \in BOOLEAN, b \in Nat, c \in Nat, d \in Nat, e \in Nat, g \in Nat,
             h \in Nat, k \in [Buckets -> Nat] :
           /\ s.data_qp = a /\ s.num_wqe_sent = b /\ s.num_wqe_rcvd = c
           /\ s.num_wqe_completed = d /\ s.num_cts_sent = e /\ s.min = g
           /\ s.max = h /\ s.buckets = k
    BY DEF QpStats
  <1>2. DOMAIN s \ {"tracker"} = {"data_qp", "num_wqe_sent", "num_wqe_rcvd",
           "num_wqe_completed", "num_cts_sent", "min", "max", "buckets"}
    BY DEF QpStats
  <1>3. [f \in DOMAIN s \ {"tracker"} |-> s[f]] =
           [data_qp |-> a, num_wqe_sent |-> b, num_wqe_rcvd |-> c,
            num_wqe_completed |-> d, num_cts_sent |-> e, min |-> g, max |-> h,
            buckets |-> k]
    BY <1>1, <1>2
  <1>4. [data_qp |-> a, num_wqe_sent |-> b, num_wqe_rcvd |-> c,
         num_wqe_completed |-> d, num_cts_sent |-> e, min |-> g, max |-> h,
         buckets |-> k] \in QpState
    BY DEF QpState
  <1> QED
    BY <1>3, <1>4

LEMMA TelemetryTypes ==
    ASSUME TelemetryInv
    PROVE  TypeOK
  <1>1. AppInv /\ ReportTypes
    BY DEF TelemetryInv, ReportInv
  <1>2. now \in 0 .. MaxTime /\ MaxTime \in Nat /\ work \in 0 .. plan.work
    <2>1. PICK m \in Nat, w \in Nat, p \in Nat : /\ m = Max(Steps) /\ w = work /\ p = plan.work
                                                 /\ w <= p
      BY <1>1, LongestStep, AppFacts DEF AppInv
    <2>2. now \in Nat /\ now <= w * m /\ work \in 0 .. plan.work
      BY <1>1, <2>1 DEF AppInv
    <2>3. w * m <= p * m /\ w * m \in Nat /\ p * m \in Nat
      BY <2>1
    <2> QED
      BY <2>1, <2>2, <2>3 DEF MaxTime
  <1>3. /\ devices.in \subseteq Devices /\ devices.first \in Devices \cup {NoDevice}
        /\ devices.named \subseteq devices.in /\ devices.qps \subseteq Qps
        /\ devices.sizes \in [Devices -> 0 .. plan.work]
        /\ devices.cq_poll_count \in [Devices -> 0 .. plan.work]
    <2>1. devices \in DeviceMaps /\ devices.named \subseteq devices.in
      BY <1>1 DEF AppInv
    <2>2. devices.sizes \in [Devices -> Nat] /\ devices.cq_poll_count \in [Devices -> Nat]
      BY <2>1 DEF DeviceMaps
    <2>3. PICK w \in Nat, p \in Nat : w = work /\ p = plan.work /\ w <= p
      BY <1>1, AppFacts DEF AppInv
    <2>4. \A d \in Devices : devices.sizes[d] <= w /\ devices.cq_poll_count[d] <= w
      BY <1>1, <2>3 DEF AppInv
    <2>5. \A d \in Devices : devices.sizes[d] \in 0 .. p /\ devices.cq_poll_count[d] \in 0 .. p
      BY <2>2, <2>3, <2>4
    <2> QED
      BY <2>1, <2>2, <2>3, <2>5 DEF DeviceMaps
  <1>4. DOMAIN qp_info \subseteq Qps
    BY <1>1, AppFacts
  <1>5. ASSUME NEW q \in DOMAIN qp_info
        PROVE  /\ [f \in DOMAIN qp_info[q] \ {"tracker"} |-> qp_info[q][f]] \in QpState
               /\ qp_info[q].tracker \in [DOMAIN qp_info[q].tracker -> 0 .. MaxTime]
    <2>1. qp_info[q] \in QpStats /\ TrackedBy(qp_info[q], now)
      BY <1>1, AppFacts DEF AppInv
    <2>2. PICK g \in Trackers : g = qp_info[q].tracker
      BY <2>1 DEF QpStats
    <2>3. g \in [DOMAIN g -> Nat] /\ \A w \in DOMAIN g : g[w] <= now
      BY <2>1, <2>2, TrackedType DEF TrackedBy
    <2>4. \A w \in DOMAIN g : g[w] \in 0 .. MaxTime
      BY <1>2, <2>3
    <2>5. g \in [DOMAIN g -> 0 .. MaxTime]
      BY <2>3, <2>4
    <2> QED
      BY <2>1, <2>2, <2>5, PublicCounters
  <1>6. app \in [qp : Nat, at : {"idle", "name", "map", "state", "kind", "dump"}]
    BY <1>1, AppFacts DEF AppLabels
  <1>7. \A q \in Qps : DOMAIN inflight[q] \subseteq WrIds
    BY <1>1, AppFacts, TrackedType
  <1>8. done \in [Qps -> Seq(Nat)]
    <2>1. done \in [Qps -> Seq(Nat \ {0})]
      BY <1>1 DEF AppInv
    <2>2. \A s \in Seq(Nat \ {0}) : s \in Seq(Nat)
      OBVIOUS
    <2> QED
      BY <2>1, <2>2
  <1>9. active_threads \in Nat
    <2>1. IsFiniteSet(1 .. MaxDumps) /\ Active \subseteq 1 .. MaxDumps
      BY FS_Interval, TelemetryConstants DEF Active
    <2> QED
      BY <2>1, FS_Subset, FS_CardinalityType DEF TelemetryInv, ReportInv
  <1>10. queue_state \in NumMaps /\ destroyed \subseteq DOMAIN qp_info
    BY <1>1 DEF AppInv, Numbering
  <1> QED
    BY <1>1, <1>2, <1>3, <1>4, <1>5, <1>6, <1>7, <1>8, <1>9, <1>10 DEF TypeOK, AppInv, ReportTypes

\* What a report prints of times t, next to the label of each bucket.
Printed(q, t, s) ==
    LET times == {t[i] : i \in DOMAIN t}
    IN  /\ times # {} => s.min = Min(times) /\ s.max = Max(times)
        /\ \A b \in Buckets : s.buckets[b] =
             Cardinality({i \in DOMAIN t : /\ t[i] <= Label(q, b)
                                           /\ b > 0 => t[i] > Label(q, b - 1)})

LEMMA PrintedTimes ==
    ASSUME NEW q, NEW t \in Seq(Nat \ {0}), NEW open, NEW s \in QpStats,
           s = qp_info[q], Measures(s, t, open)
    PROVE  Printed(q, t, s)
  <1> DEFINE times == {t[i] : i \in DOMAIN t}
  <1>1. /\ DOMAIN t = 1 .. Len(t) /\ Len(t) \in Nat
        /\ \A i \in DOMAIN t : t[i] \in Nat
    BY LenProperties, ElementOfSeq
  <1>2. /\ \A i \in DOMAIN t : s.min <= t[i] /\ t[i] <= s.max
        /\ t # <<>> => \E i, j \in DOMAIN t : t[i] = s.min /\ t[j] = s.max
    BY <1>1 DEF Measures, Attained
  <1>3. s.min \in Nat /\ s.max \in Nat
    BY DEF QpStats
  <1>4. ASSUME times # {} PROVE s.min = Min(times) /\ s.max = Max(times)
    <2>1. t # <<>>
      BY <1>1, <1>4
    <2>2. times \in SUBSET Nat /\ s.min \in times /\ s.max \in times
      BY <1>1, <1>2, <2>1
    <2>3. (\A y \in times : s.min <= y) /\ \A y \in times : s.max >= y
      BY <1>1, <1>2, <1>3
    <2> QED
      BY <2>2, <2>3, MinIs, MaxIs
  <1>5. ASSUME NEW b \in Buckets
        PROVE  s.buckets[b] =
                 Cardinality({i \in DOMAIN t : /\ t[i] <= Label(q, b)
                                               /\ b > 0 => t[i] > Label(q, b - 1)})
    <2>1. Label(q, b) = Bound(b, s.max) /\ Label(q, b - 1) = Bound(b - 1, s.max)
      BY DEF Label, Bound
    <2>2. \A i \in DOMAIN t : Bucket(t[i]) = b <=> /\ t[i] <= Bound(b, s.max)
                                                   /\ b > 0 => t[i] > Bound(b - 1, s.max)
      BY <1>1, <1>2, <1>3, BucketBounds
    <2>3. InBucket(t, b) = {i \in DOMAIN t : /\ t[i] <= Label(q, b)
                                             /\ b > 0 => t[i] > Label(q, b - 1)}
      BY <1>1, <2>1, <2>2 DEF InBucket
    <2> QED
      BY <2>3 DEF Measures
  <1> QED
    BY <1>4, <1>5 DEF Printed

LEMMA TimesTrue ==
    ASSUME TelemetryInv
    PROVE  LatencyTrue
  <1>1. AppInv
    BY DEF TelemetryInv
  <1>2. ASSUME NEW q \in DOMAIN qp_info, OneDevice(q)
        PROVE  LET s == qp_info[q]
                   times == {done[q][i] : i \in DOMAIN done[q]}
               IN  /\ s.num_wqe_sent = s.num_cts_sent + Len(done[q])
                                         + Cardinality(DOMAIN inflight[q])
                   /\ s.num_wqe_completed = Len(done[q])
                   /\ times # {} => s.min = Min(times) /\ s.max = Max(times)
                   /\ \A b \in Buckets : s.buckets[b] =
                        Cardinality({i \in DOMAIN done[q] :
                                       /\ done[q][i] <= Label(q, b)
                                       /\ b > 0 => done[q][i] > Label(q, b - 1)})
    <2>1. /\ q \in Qps /\ qp_info[q] \in QpStats /\ done[q] \in Seq(Nat \ {0})
      BY <1>1, AppFacts
    <2>2. Measures(qp_info[q], done[q], inflight[q])
      BY <1>1, <1>2, <2>1 DEF AppInv, TimesOn
    <2>3. PICK t \in Seq(Nat \ {0}), s \in QpStats : t = done[q] /\ s = qp_info[q]
      BY <2>1
    <2>4. Printed(q, t, s)
      BY <2>2, <2>3, PrintedTimes
    <2> QED
      BY <2>2, <2>3, <2>4 DEF Measures, Printed
  <1> QED
    BY <1>2 DEF LatencyTrue

\* Every state of the telemetry is well typed: in particular no counter of a
\* device exceeds the calls that were made and no time the clock.
THEOREM TelemetryTypeCorrect == Spec => []TypeOK
  BY TelemetryInvariant, TelemetryTypes, PTL

\* The counters and the histogram of every QP whose number only QPs of its device
\* have had are the exact ones of the work requests it posted and completed,
\* whatever ids they reuse and however often the number is used again after a QP
\* was destroyed, for every bucket width and number of buckets:
\* update_wqe_send_metrics and update_wqe_rcvd_metrics never lose or mix up a time.
THEOREM LatencyTrueCorrect == Spec => []LatencyTrue
  BY TelemetryInvariant, TimesTrue, PTL

\* wait_for_threads_before_exit returns only when no report counted before is
\* pending; what is still written after it was counted later, or uncounted by the
\* caller whose pthread_create failed.  Without either the process leaves the file
\* of its final state, for any number of reports, signals and failures.
THEOREM SafeToExitCorrect == Spec => []SafeToExit
  <1>1. ASSUME TelemetryInv PROVE SafeToExit
    <2>1. ReportInv /\ ReportTypes /\ CallerInv /\ plan.faults \in Nat
      BY <1>1, AppFacts DEF TelemetryInv, ReportInv
    <2>2. faults # 0 => faults > 0
      BY <2>1 DEF ReportTypes
    <2>3. ASSUME exit.at \in {"dump", "exited"}, NEW d \in 1 .. MaxDumps,
                 st[d] \in {"counted", "thread", "caller", "renamed"}
          PROVE  \/ d \in late
                 \/ faults > 0 /\ st[d] = "caller" /\ \E c \in Callers : calls[c] = d
      <3>1. CASE st[d] = "caller"
        BY <2>1, <2>2, <3>1 DEF CallerInv
      <3>2. CASE st[d] # "caller"
        BY <2>1, <2>3, <3>2 DEF ReportInv, Active
      <3> QED
        BY <3>1, <3>2
    <2> QED
      BY <2>1, <2>3 DEF ReportInv, SafeToExit
  <1> QED
    BY <1>1, TelemetryInvariant, PTL

-----------------------------------------------------------------------------
(* What a report has read of the QPs' counters *)

\* The work requests counted as sent in the counters of each QP.
Sent == [q \in Qps |-> IF q \in DOMAIN qp_info
                       THEN qp_info[q].num_wqe_sent ELSE 0]

\* A QP's kind is unknown only before its first work request.
KindInv ==
    /\ \A q \in DOMAIN qp_info :
          \/ qp_info[q].data_qp = QpInfo[q].data
          \/ app.at = "kind" /\ q = app.qp /\ qp_info[q].num_wqe_sent = 0
    /\ calls["app"] # 0 => app.at = "dump"

\* What is read of a QP: nothing, the clear-to-send messages, or these and the
\* sum.  Nothing is taken for clear-to-send messages of a data QP, and what was
\* read later is not less.
RowRead(row, data, low, high) ==
    \/ row = <<>>
    \/ /\ DOMAIN row \in {{"cts"}, {"cts", "sum"}}
       /\ row["cts"] \in Nat /\ row["cts"] <= high
       /\ data => row["cts"] = 0
       /\ "sum" \in DOMAIN row =>
             /\ row["sum"] \in Nat /\ row["cts"] <= row["sum"]
             /\ low <= row["sum"] /\ row["sum"] <= high

\* Whether the maps of a report hold counters for q, and whose they are.
Known(d, q) == Num(q) \in DOMAIN snap[d].states
Of(d, q) == snap[d].states[Num(q)]

RowInv(d, q) ==
    /\ Known(d, q) =>
          /\ Of(d, q) \in DOMAIN qp_info
          /\ snap[d].sent[Of(d, q)] <= Sent[Of(d, q)]
          /\ RowRead(rows[d][q], QpInfo[Of(d, q)].data, snap[d].sent[Of(d, q)],
                     Sent[Of(d, q)])
    /\ ~Known(d, q) => rows[d][q] \in {<<>>, NoRow}

\* The inductive invariant of what reports have read.  No more is sent than
\* there were data-path calls, so that no sum reaches CounterMod.
SentInv ==
    /\ KindInv
    /\ SumOver(Sent, Qps) <= work
    /\ \A d \in Dumps : st[d] \notin {"thread", "caller"} => \A q \in Qps : rows[d][q] = <<>>
    /\ \A d \in Dumps, q \in Qps : RowInv(d, q)

\* The same for all reports: one that does not read has read nothing.
RowsInv ==
    /\ \A d \in Dumps : st[d] \notin {"thread", "caller"} => \A q \in Qps : rows[d][q] = <<>>
    /\ \A d \in Dumps, q \in Qps : RowInv(d, q)

LEMMA SentInvIs == SentInv <=> KindInv /\ SumOver(Sent, Qps) <= work /\ RowsInv
  BY DEF SentInv, RowsInv

LEMMA SentFacts ==
    ASSUME AppInv
    PROVE  /\ Sent \in [Qps -> Nat] /\ IsFiniteSet(Qps)
           /\ \A q \in DOMAIN qp_info : q \in Qps /\ Sent[q] = qp_info[q].num_wqe_sent
  <1>1. DOMAIN qp_info \subseteq Qps
    BY AppFacts
  <1>2. \A q \in DOMAIN qp_info : qp_info[q].num_wqe_sent \in Nat
    BY AppFacts DEF QpStats
  <1>3. IsFiniteSet(Qps)
    BY FS_Interval, TelemetryConstants DEF Qps
  <1> QED
    BY <1>1, <1>2, <1>3 DEF Sent

\* A step that lets the counters grow and leaves the reports alone.
LEMMA RowsKept ==
    ASSUME AppInv, AppInv', ReportInv, RowsInv, UNCHANGED <<plan, st, snap, rows>>,
           DOMAIN qp_info \subseteq DOMAIN qp_info',
           \A q \in Qps : Sent[q] <= Sent'[q]
    PROVE  RowsInv'
  <1>1. ASSUME NEW d \in Dumps, NEW q \in Qps PROVE RowInv(d, q)'
    <2>1. RowInv(d, q)
      BY DEF RowsInv
    <2>a. PICK o : o = Of(d, q)
      OBVIOUS
    <2>b. Of(d, q)' = o /\ (Known(d, q)' <=> Known(d, q))
      BY <2>a DEF Of, Known, Num, QpInfo
    <2>4. CASE Known(d, q)
      <3>1. o \in DOMAIN qp_info /\ o \in Qps
        BY <2>1, <2>4, <2>a, SentFacts DEF RowInv
      <3>2. Sent' \in [Qps -> Nat]
        <4>1. \A x \in DOMAIN qp_info' : qp_info'[x].num_wqe_sent \in Nat
          BY DEF AppInv, QpStats
        <4> QED
          BY <4>1 DEF Sent
      <3>3. Sent[o] \in Nat /\ Sent'[o] \in Nat /\ Sent[o] <= Sent'[o]
        BY <3>1, <3>2, SentFacts
      <3>4. snap[d].sent[o] \in Nat
        BY <3>1 DEF ReportInv, ReportTypes
      <3>5. PICK row, data : row = rows[d][q] /\ data = QpInfo[o].data
        OBVIOUS
      <3>6. PICK low \in Nat, high \in Nat, more \in Nat :
               /\ row = rows[d][q] /\ data = QpInfo[o].data /\ low = snap[d].sent[o]
               /\ high = Sent[o] /\ more = Sent'[o]
        BY <3>3, <3>4, <3>5
      <3>7. low <= high /\ high <= more /\ RowRead(row, data, low, high)
        BY <2>1, <2>4, <2>a, <3>3, <3>6 DEF RowInv
      <3>8. RowRead(row, data, low, more) /\ low <= more
        BY <3>7 DEF RowRead
      <3>9. o \in DOMAIN qp_info' /\ QpInfo' = QpInfo /\ rows' = rows /\ snap' = snap
        BY <3>1 DEF QpInfo
      <3> QED
        BY <2>4, <2>b, <3>6, <3>8, <3>9 DEF RowInv
    <2>5. CASE ~Known(d, q)
      BY <2>1, <2>5, <2>b DEF RowInv
    <2> QED
      BY <2>4, <2>5
  <1> QED
    BY <1>1 DEF RowsInv

LEMMA KindKept ==
    ASSUME KindInv, UNCHANGED <<plan, qp_info>>, app.at = "kind" => app' = app,
           calls'["app"] # 0 => app'.at = "dump"
    PROVE  KindInv'
  BY DEF KindInv, QpInfo

LEMMA SumKept ==
    ASSUME SumOver(Sent, Qps) <= work, UNCHANGED <<qp_info, work>>
    PROVE  (SumOver(Sent, Qps) <= work)'
  <1>1. Sent' = Sent
    BY DEF Sent
  <1> QED
    BY <1>1

LEMMA CreateQpCounts ==
    ASSUME TelemetryInv, SentInv, CreateQp
    PROVE  SentInv'
  <1>1. AppInv /\ AppInv' /\ ReportInv
    BY CreateQpStep DEF TelemetryInv
  <1>2. KindInv /\ SumOver(Sent, Qps) <= work /\ RowsInv
    BY SentInvIs
  <1>3. UNCHANGED <<plan, st, snap, rows, calls, work>>
    BY DEF CreateQp, BeginQp, SetDeviceName, AddToChannel, AddState, SetKind, ModifyQpFails,
           DestroyQp, exitVars, dumpVars, workVars
  <1>4. CASE AddState
    <2>1. PICK any \in BOOLEAN : qp_info' = Put(qp_info, app.qp, NewQp(any))
      BY <1>4 DEF AddState
    <2>2. app.at = "state" /\ app' = [app EXCEPT !.at = "kind"]
      BY <1>4 DEF AddState, AppAt
    <2>3. app.qp \notin DOMAIN qp_info /\ app'.qp = app.qp /\ app'.at = "kind"
      BY <1>1, <2>2 DEF AppInv, Creating
    <2>4. /\ DOMAIN qp_info' = DOMAIN qp_info \cup {app.qp}
          /\ qp_info'[app.qp] = NewQp(any)
          /\ \A q \in DOMAIN qp_info : qp_info'[q] = qp_info[q]
      BY <2>1, <2>3 DEF Put
    <2>5. NewQp(any).num_wqe_sent = 0
      BY DEF NewQp
    <2>6. Sent' = Sent
      BY <2>3, <2>4, <2>5 DEF Sent
    <2>7. KindInv'
      <3>1. \A q \in DOMAIN qp_info' :
              \/ qp_info'[q].data_qp = plan.qps[q].data
              \/ q = app.qp /\ qp_info'[q].num_wqe_sent = 0
        BY <1>2, <2>2, <2>4, <2>5 DEF KindInv, QpInfo
      <3>2. calls["app"] = 0
        BY <1>2, <2>2 DEF KindInv
      <3> QED
        BY <1>3, <2>3, <3>1, <3>2 DEF KindInv, QpInfo
    <2>8. RowsInv'
      <3>1. \A q \in Qps : Sent[q] <= Sent'[q]
        BY <1>1, <2>6, SentFacts
      <3> QED
        BY <1>1, <1>2, <1>3, <2>4, <3>1, RowsKept
    <2>9. SumOver(Sent', Qps) <= work'
      BY <1>2, <1>3, <2>6
    <2> QED
      BY <2>7, <2>8, <2>9 DEF SentInv, RowsInv
  <1>5. CASE SetKind
    <2>1. /\ app.at = "kind" /\ app' = [app EXCEPT !.at = "dump"]
          /\ qp_info' = [qp_info EXCEPT ![Found(app.qp)].data_qp = plan.qps[app.qp].data]
      BY <1>5 DEF SetKind, AppAt, QpInfo, Found
    <2>a. Found(app.qp) = app.qp
      BY <1>1, <2>1 DEF AppInv, Numbering
    <2>b. qp_info' = [qp_info EXCEPT ![app.qp].data_qp = plan.qps[app.qp].data]
      BY <2>1, <2>a
    <2>2. app'.at = "dump"
      BY <1>1, <2>1, AppFacts
    <2>3. PICK p, k : p = app.qp /\ k = plan.qps[app.qp].data
      OBVIOUS
    <2>4. qp_info \in [DOMAIN qp_info -> QpStats]
      BY <1>1 DEF AppInv
    <2>5. /\ DOMAIN qp_info' = DOMAIN qp_info
          /\ \A q \in DOMAIN qp_info :
                qp_info'[q] = IF q = p THEN [qp_info[q] EXCEPT !.data_qp = k]
                                  ELSE qp_info[q]
      BY <2>b, <2>3, <2>4
    <2>6. ASSUME NEW s \in QpStats
          PROVE  /\ [s EXCEPT !.data_qp = k].data_qp = k
                 /\ [s EXCEPT !.data_qp = k].num_wqe_sent = s.num_wqe_sent
      BY DEF QpStats
    <2>7. \A q \in DOMAIN qp_info :
            /\ qp_info'[q].num_wqe_sent = qp_info[q].num_wqe_sent
            /\ q = p => qp_info'[q].data_qp = k
            /\ q # p => qp_info'[q] = qp_info[q]
      BY <2>4, <2>5, <2>6
    <2>8. Sent' = Sent
      BY <2>5, <2>7 DEF Sent
    <2>9. KindInv'
      <3>1. \A q \in DOMAIN qp_info' : qp_info'[q].data_qp = plan.qps[q].data
        BY <1>2, <2>3, <2>5, <2>7 DEF KindInv, QpInfo
      <3> QED
        BY <1>3, <2>2, <3>1 DEF KindInv, QpInfo
    <2>10. RowsInv'
      <3>1. \A q \in Qps : Sent[q] <= Sent'[q]
        BY <1>1, <2>8, SentFacts
      <3> QED
        BY <1>1, <1>2, <1>3, <2>5, <3>1, RowsKept
    <2>11. SumOver(Sent', Qps) <= work'
      BY <1>2, <1>3, <2>8
    <2> QED
      BY <2>9, <2>10, <2>11 DEF SentInv, RowsInv
  <1>6. CASE \/ BeginQp \/ SetDeviceName \/ AddToChannel \/ ModifyQpFails
             \/ \E q \in Qps : DestroyQp(q)
    <2>1. qp_info' = qp_info /\ app.at # "kind"
      BY <1>6 DEF BeginQp, SetDeviceName, AddToChannel, ModifyQpFails, DestroyQp, AppIdle,
                  stateVars
    <2>2. calls["app"] = 0
      BY <1>2, <1>6 DEF BeginQp, SetDeviceName, AddToChannel, ModifyQpFails, DestroyQp,
                        AppIdle, KindInv
    <2>3. KindInv'
      BY <1>2, <1>3, <2>1, <2>2, KindKept
    <2>4. (SumOver(Sent, Qps) <= work)'
      BY <1>2, <1>3, <2>1, SumKept
    <2>5. Sent' = Sent
      BY <2>1 DEF Sent
    <2>6. RowsInv'
      <3>1. \A q \in Qps : Sent[q] <= Sent'[q]
        BY <1>1, <2>5, SentFacts
      <3> QED
        BY <1>1, <1>2, <1>3, <2>1, <3>1, RowsKept
    <2> QED
      BY <2>3, <2>4, <2>6 DEF SentInv, RowsInv
  <1> QED
    BY <1>4, <1>5, <1>6 DEF CreateQp

\* A data-path call that finds the counters of q.
LEMMA CallCounts ==
    ASSUME AppInv, AppInv', ReportInv, SentInv,
           NEW q \in DOMAIN qp_info, NEW r, NEW n \in {0, 1},
           qp_info' = [qp_info EXCEPT ![q] = r],
           r.data_qp = qp_info[q].data_qp,
           r.num_wqe_sent = qp_info[q].num_wqe_sent + n,
           app.at = "idle", work' = work + 1, UNCHANGED <<plan, app, st, snap, rows, calls>>
    PROVE  SentInv'
  <1>1. KindInv /\ SumOver(Sent, Qps) <= work /\ RowsInv /\ work \in Nat
    BY SentInvIs, AppFacts
  <1>2. qp_info \in [DOMAIN qp_info -> QpStats] /\ DOMAIN qp_info \subseteq Qps
    BY AppFacts DEF AppInv
  <1>3. /\ DOMAIN qp_info' = DOMAIN qp_info /\ qp_info'[q] = r
        /\ \A p \in DOMAIN qp_info : p # q => qp_info'[p] = qp_info[p]
    BY <1>2
  <1>4. /\ q \in Qps /\ Sent'[q] = Sent[q] + n
        /\ \A p \in Qps \ {q} : Sent'[p] = Sent[p]
    BY <1>2, <1>3 DEF Sent
  <1>5. KindInv'
    BY <1>1, <1>3 DEF KindInv, QpInfo
  <1>6. SumOver(Sent', Qps) <= work'
    <2>1. PICK old, new : old = Sent /\ new = Sent'
      OBVIOUS
    <2>2. IsFiniteSet(Qps) /\ n \in Int /\ q \in Qps /\ new[q] = old[q] + n
      BY <1>4, <2>1, SentFacts
    <2>a. \A p \in Qps \ {q} : new[p] = old[p]
      BY <1>4, <2>1
    <2>3. \A p \in Qps : old[p] \in Int
      BY <2>1, SentFacts
    <2>4. SumOver(old, Qps) \in Int /\ SumOver(new, Qps) = SumOver(old, Qps) + n
      BY <2>2, <2>3, <2>a, SumRaise
    <2>5. SumOver(old, Qps) <= work
      BY <1>1, <2>1
    <2>6. SumOver(new, Qps) <= work + 1
      BY <1>1, <2>4, <2>5
    <2> QED
      BY <2>1, <2>6
  <1>7. RowsInv'
    <2>1. \A p \in Qps : Sent[p] \in Nat
      BY SentFacts
    <2>2. \A p \in Qps : Sent[p] <= Sent'[p]
      BY <1>4, <2>1
    <2> QED
      BY <1>1, <1>3, <2>2, RowsKept
  <1> QED
    BY <1>5, <1>6, <1>7 DEF SentInv, RowsInv

LEMMA DataPathCounts ==
    ASSUME TelemetryInv, SentInv, DataPath
    PROVE  SentInv'
  <1>1. AppInv /\ AppInv' /\ ReportInv
    BY DataPathKeeps DEF TelemetryInv
  <1>2. PICK q \in Qps :
           \/ PostCts(q) \/ PollEmpty(q)
           \/ \E w \in WrIds : \/ PostSend(q, w) \/ CompleteOther(q, w)
                               \/ \E s \in Steps : CompleteSend(q, w, s)
    BY DEF DataPath
  <1>3. Work(q) /\ UNCHANGED <<plan, app, st, snap, rows, calls>>
    BY <1>2 DEF PostCts, PollEmpty, PostSend, CompleteOther, CompleteSend, exitVars, dumpVars
  <1>4. q \in DOMAIN qp_info /\ app.at = "idle" /\ work' = work + 1
    BY <1>3 DEF Work, AppIdle
  <1>a. PICK o \in DOMAIN qp_info : o = Found(q)
    BY <1>1, <1>4 DEF AppInv, Numbering, Found
  <1>5. PICK s \in QpStats : s = qp_info[o]
    BY <1>1, <1>a, AppFacts
  <1>6. qp_info \in [DOMAIN qp_info -> QpStats]
    BY <1>1 DEF AppInv
  <1>7. PICK r : /\ qp_info' = [qp_info EXCEPT ![o] = r]
                 /\ r.data_qp = s.data_qp
                 /\ r.num_wqe_sent = s.num_wqe_sent \/ r.num_wqe_sent = s.num_wqe_sent + 1
    <2>1. CASE PostCts(q)
      <3> DEFINE r == [s EXCEPT !.num_cts_sent = s.num_cts_sent + 1,
                                !.num_wqe_sent = s.num_wqe_sent + 1]
      <3>1. qp_info' = [qp_info EXCEPT ![o] = r]
        BY <1>a, <1>5, <1>6, <2>1 DEF PostCts, QpStats
      <3>2. r.data_qp = s.data_qp /\ r.num_wqe_sent = s.num_wqe_sent + 1
        BY DEF QpStats
      <3> QED
        BY <3>1, <3>2
    <2>2. CASE PollEmpty(q)
      <3>1. qp_info' = [qp_info EXCEPT ![o] = s]
        BY <1>a, <1>5, <1>6, <2>2 DEF PollEmpty
      <3> QED
        BY <3>1
    <2>3. ASSUME NEW w, NEW x
          PROVE  /\ UpdateWqeSend(s, w, x).data_qp = s.data_qp
                 /\ UpdateWqeSend(s, w, x).num_wqe_sent = s.num_wqe_sent + 1
                 /\ UpdateWqeRcvd(s, w, x).data_qp = s.data_qp
                 /\ UpdateWqeRcvd(s, w, x).num_wqe_sent = s.num_wqe_sent
      <3>1. /\ UpdateWqeSend(s, w, x).data_qp = s.data_qp
            /\ UpdateWqeSend(s, w, x).num_wqe_sent = s.num_wqe_sent + 1
        BY DEF UpdateWqeSend, QpStats
      <3>2. /\ UpdateWqeRcvd(s, w, x).data_qp = s.data_qp
            /\ UpdateWqeRcvd(s, w, x).num_wqe_sent = s.num_wqe_sent
        BY DEF UpdateWqeRcvd, QpStats
      <3> QED
        BY <3>1, <3>2
    <2>4. ASSUME NEW w \in WrIds, PostSend(q, w)
          PROVE  qp_info' = [qp_info EXCEPT ![o] = UpdateWqeSend(s, w, now)]
      BY <1>a, <1>5, <2>4 DEF PostSend
    <2>5. ASSUME NEW w \in WrIds, CompleteOther(q, w)
          PROVE  qp_info' = [qp_info EXCEPT ![o] = UpdateWqeRcvd(s, w, now)]
      BY <1>a, <1>5, <2>5 DEF CompleteOther
    <2>6. ASSUME NEW w \in WrIds, NEW z \in Steps, CompleteSend(q, w, z)
          PROVE  qp_info' = [qp_info EXCEPT ![o] = UpdateWqeRcvd(s, w, now')]
      BY <1>a, <1>5, <2>6 DEF CompleteSend
    <2>7. CASE \E w \in WrIds : PostSend(q, w)
      BY <2>3, <2>4, <2>7
    <2>8. CASE \E w \in WrIds : CompleteOther(q, w)
      BY <2>3, <2>5, <2>8
    <2>9. CASE \E w \in WrIds : \E z \in Steps : CompleteSend(q, w, z)
      <3>1. PICK w, x : qp_info' = [qp_info EXCEPT ![o] = UpdateWqeRcvd(s, w, x)]
        BY <2>6, <2>9
      <3> QED
        BY <2>3, <3>1
    <2> QED
      BY <1>2, <2>1, <2>2, <2>7, <2>8, <2>9
  <1>8. s.num_wqe_sent \in Nat
    BY DEF QpStats
  <1>9. PICK n \in {0, 1} : r.num_wqe_sent = s.num_wqe_sent + n
    BY <1>7, <1>8
  <1> QED
    BY <1>1, <1>3, <1>4, <1>a, <1>5, <1>7, <1>9, CallCounts

\* A step of one report.
LEMMA OneReport ==
    ASSUME RowsInv, UNCHANGED <<plan, qp_info>>, NEW d \in Dumps,
           \A e \in Dumps \ {d} : /\ st'[e] = st[e] /\ snap'[e] = snap[e]
                                  /\ rows'[e] = rows[e],
           st'[d] \notin {"thread", "caller"} => \A q \in Qps : rows'[d][q] = <<>>,
           \A q \in Qps : RowInv(d, q)'
    PROVE  RowsInv'
  <1>1. Sent' = Sent
    BY DEF Sent
  <1>2. ASSUME NEW e \in Dumps, NEW q \in Qps PROVE RowInv(e, q)'
    <2>1. CASE e = d
      BY <2>1
    <2>2. CASE e # d
      BY <1>1, <2>2 DEF RowsInv, RowInv, Known, Of, Num, QpInfo
    <2> QED
      BY <2>1, <2>2
  <1>3. ASSUME NEW e \in Dumps, st'[e] \notin {"thread", "caller"}
        PROVE  \A q \in Qps : rows'[e][q] = <<>>
    BY <1>3 DEF RowsInv
  <1> QED
    BY <1>2, <1>3 DEF RowsInv

\* The maps as they are copied: nothing has been read.
LEMMA FreshSnapshot ==
    ASSUME AppInv, UNCHANGED <<plan, qp_info>>, NEW d \in Dumps, snap'[d] = Maps,
           \A q \in Qps : rows'[d][q] = <<>>
    PROVE  \A q \in Qps : RowInv(d, q)'
  <1>1. Sent' = Sent /\ Maps.sent = Sent /\ Maps.states = queue_state
    BY DEF Sent, Maps
  <1>2. \A q \in Qps : Sent[q] \in Nat
    BY SentFacts
  <1>3. \A q \in Qps : Sent[q] <= Sent[q]
    BY <1>2
  <1>4. \A n \in DOMAIN queue_state : queue_state[n] \in DOMAIN qp_info /\ queue_state[n] \in Qps
    BY SentFacts DEF AppInv, Numbering
  <1>5. ASSUME NEW q \in Qps PROVE RowInv(d, q)'
    <2>1. CASE Known(d, q)'
      <3>1. PICK o \in Qps : o = Of(d, q)' /\ o \in DOMAIN qp_info
        BY <1>1, <1>4, <2>1 DEF Known, Of
      <3>2. snap'[d].sent[o] = Sent'[o] /\ Sent'[o] <= Sent'[o] /\ o \in DOMAIN qp_info'
        BY <1>1, <1>3, <3>1
      <3>3. RowRead(rows'[d][q], QpInfo'[o].data, snap'[d].sent[o], Sent'[o])
        BY DEF RowRead
      <3> QED
        BY <2>1, <3>1, <3>2, <3>3 DEF RowInv
    <2>2. CASE ~Known(d, q)'
      BY <2>2 DEF RowInv
    <2> QED
      BY <2>1, <2>2
  <1> QED
    BY <1>5

\* A report whose snapshot and rows stay as they are.
LEMMA SameRows ==
    ASSUME RowsInv, UNCHANGED <<plan, qp_info, snap, rows>>, NEW d \in Dumps,
           \A e \in Dumps \ {d} : st'[e] = st[e],
           st'[d] \in {"thread", "caller"} \/ st[d] \notin {"thread", "caller"}
    PROVE  RowsInv'
  <1>1. Sent' = Sent
    BY DEF Sent
  <1>2. \A q \in Qps : RowInv(d, q)'
    BY <1>1 DEF RowsInv, RowInv, Known, Of, Num, QpInfo
  <1>3. st'[d] \notin {"thread", "caller"} => \A q \in Qps : rows'[d][q] = <<>>
    BY DEF RowsInv
  <1> QED
    BY <1>2, <1>3, OneReport

LEMMA ReturnKeepsKind ==
    ASSUME AppInv, ReportInv, KindInv, NEW c \in Callers, calls[c] # 0, Return(c),
           UNCHANGED <<plan, qp_info>>
    PROVE  KindInv'
  <1>1. app \in [qp : 0 .. Len(plan.qps), at : AppLabels] /\ calls \in [Callers -> Dumps]
    BY AppFacts DEF ReportInv, ReportTypes
  <1>2. "app" \in Callers
    BY DEF Callers
  <1>3. CASE c = "app"
    <2>1. calls'["app"] = 0 /\ app.at = "dump"
      BY <1>1, <1>2, <1>3 DEF Return, KindInv
    <2> QED
      BY <2>1, KindKept
  <1>4. CASE c # "app"
    <2>1. calls'["app"] = calls["app"] /\ app' = app
      BY <1>1, <1>2, <1>4 DEF Return
    <2> QED
      BY <2>1, KindKept DEF KindInv
  <1> QED
    BY <1>3, <1>4

LEMMA CreationCounts ==
    ASSUME TelemetryInv, SentInv, NEW c \in Callers, Creation(c)
    PROVE  SentInv'
  <1>1. AppInv /\ ReportInv /\ ReportTypes
    BY DEF TelemetryInv, ReportInv
  <1>2. KindInv /\ SumOver(Sent, Qps) <= work /\ RowsInv
    BY SentInvIs
  <1>3. UNCHANGED <<plan, qp_info, work, rows>>
    BY DEF Creation, CopyState, CountThread, CreateThread, CreateFails, exitVars, stateVars,
           workVars
  <1>4. (SumOver(Sent, Qps) <= work)'
    BY <1>2, <1>3, SumKept
  <1>5. CASE CopyState(c)
    <2>1. PICK d \in 1 .. MaxDumps :
             /\ st[d] = "none" /\ calls' = [calls EXCEPT ![c] = d]
             /\ c = "app" => app.at = "dump"
             /\ st' = [st EXCEPT ![d] = "copied"] /\ snap' = [snap EXCEPT ![d] = Maps]
             /\ app' = app
      BY <1>5 DEF CopyState
    <2>2. d \in Dumps
      BY TelemetryConstants DEF Dumps
    <2>3. KindInv'
      <3>1. calls'["app"] # 0 => c = "app" \/ calls["app"] # 0
        BY <1>1, <2>1 DEF ReportTypes, Callers
      <3>2. calls'["app"] # 0 => app'.at = "dump"
        BY <1>2, <2>1, <3>1 DEF KindInv
      <3> QED
        BY <1>2, <1>3, <2>1, <3>2, KindKept
    <2>4. /\ snap'[d] = Maps
          /\ \A e \in Dumps \ {d} : st'[e] = st[e] /\ snap'[e] = snap[e] /\ rows'[e] = rows[e]
      BY <1>1, <1>3, <2>1, <2>2 DEF ReportTypes
    <2>5. \A q \in Qps : rows'[d][q] = <<>>
      BY <1>2, <1>3, <2>1, <2>2 DEF RowsInv
    <2>6. \A q \in Qps : RowInv(d, q)'
      BY <1>1, <1>3, <2>2, <2>4, <2>5, FreshSnapshot
    <2>7. RowsInv'
      BY <1>2, <1>3, <2>2, <2>4, <2>5, <2>6, OneReport
    <2> QED
      BY <1>4, <2>3, <2>7 DEF SentInv, RowsInv
  <1>6. CASE CountThread(c) \/ CreateThread(c) \/ CreateFails(c)
    <2>1. /\ calls[c] # 0 /\ st[calls[c]] \in {"copied", "counted"} /\ snap' = snap
          /\ \E x : st' = [st EXCEPT ![calls[c]] = x]
      BY <1>6 DEF CountThread, CreateThread, CreateFails
    <2>2. PICK d \in Dumps : d = calls[c]
      BY <1>1 DEF ReportTypes
    <2>3. \A e \in Dumps \ {d} : st'[e] = st[e]
      BY <1>1, <2>1, <2>2 DEF ReportTypes
    <2>4. RowsInv'
      BY <1>2, <1>3, <2>1, <2>2, <2>3, SameRows
    <2>5. KindInv'
      <3>1. CASE CreateThread(c)
        BY <1>1, <1>2, <1>3, <2>1, <3>1, ReturnKeepsKind DEF CreateThread
      <3>2. CASE CountThread(c) \/ CreateFails(c)
        <4>1. app' = app /\ calls' = calls
          BY <3>2 DEF CountThread, CreateFails
        <4> QED
          BY <1>2, <1>3, <4>1, KindKept DEF KindInv
      <3> QED
        BY <1>6, <3>1, <3>2
    <2> QED
      BY <1>4, <2>4, <2>5 DEF SentInv, RowsInv
  <1> QED
    BY <1>5, <1>6 DEF Creation

LEMMA EndCounts ==
    ASSUME TelemetryInv, SentInv, EndWait \/ \E t \in Exiters : Exit(t)
    PROVE  SentInv'
  <1>1. AppInv /\ ReportInv /\ ReportTypes /\ Final \in Dumps
    BY TelemetryConstants DEF TelemetryInv, ReportInv
  <1>2. KindInv /\ SumOver(Sent, Qps) <= work /\ RowsInv
    BY SentInvIs
  <1>3. UNCHANGED <<plan, qp_info, work, rows, app, calls>>
    BY DEF EndWait, Exit, exitVars, stateVars, workVars, dumpVars
  <1>4. KindInv' /\ (SumOver(Sent, Qps) <= work)'
    BY <1>2, <1>3, KindKept, SumKept DEF KindInv
  <1>5. CASE EndWait
    <2>1. /\ exit.at = "wait" /\ st' = [st EXCEPT ![Final] = "caller"]
          /\ snap' = [snap EXCEPT ![Final] = Maps]
      BY <1>5 DEF EndWait
    <2>2. st[Final] \notin {"thread", "caller"}
      BY <1>1, <2>1 DEF ReportInv
    <2>3. /\ snap'[Final] = Maps /\ st'[Final] = "caller"
          /\ \A e \in Dumps \ {Final} : st'[e] = st[e] /\ snap'[e] = snap[e] /\ rows'[e] = rows[e]
      BY <1>1, <1>3, <2>1 DEF ReportTypes
    <2>4. \A q \in Qps : rows'[Final][q] = <<>>
      BY <1>1, <1>2, <1>3, <2>2 DEF RowsInv
    <2>5. \A q \in Qps : RowInv(Final, q)'
      BY <1>1, <1>3, <2>3, <2>4, FreshSnapshot
    <2>6. RowsInv'
      BY <1>1, <1>2, <1>3, <2>3, <2>4, <2>5, OneReport
    <2> QED
      BY <1>4, <2>6 DEF SentInv, RowsInv
  <1>6. CASE \E t \in Exiters : Exit(t)
    <2>1. UNCHANGED <<st, snap>>
      BY <1>6 DEF Exit, dumpVars
    <2>2. RowsInv'
      BY <1>1, <1>2, <1>3, <2>1, SameRows
    <2> QED
      BY <1>4, <2>2 DEF SentInv, RowsInv
  <1> QED
    BY <1>5, <1>6

\* One access of to_json: the clear-to-send messages first, then the sum.
LEMMA ReadRow ==
    ASSUME NEW row, NEW data, NEW low \in Nat, NEW high \in Nat, low <= high,
           RowRead(row, data, low, high), ~Complete(row),
           NEW value \in Nat, value <= high,
           row = <<>> /\ data => value = 0, row # <<>> => value = high
    PROVE  RowRead(Put(row, ReadOrder[Cardinality(DOMAIN row) + 1], value), data, low, high)
  <1>1. CASE row = <<>>
    <2>1. DOMAIN row = {} /\ Cardinality(DOMAIN row) = 0
      BY <1>1, EmptyMap
    <2>2. ReadOrder[Cardinality(DOMAIN row) + 1] = "cts"
      BY <2>1 DEF ReadOrder
    <2>3. PICK new : new = Put(row, "cts", value)
      OBVIOUS
    <2>4. DOMAIN new = {"cts"} /\ new["cts"] = value
      BY <2>1, <2>3 DEF Put
    <2>5. RowRead(new, data, low, high)
      BY <1>1, <2>4 DEF RowRead
    <2> QED
      BY <2>2, <2>3, <2>5
  <1>2. CASE row # <<>>
    <2>1. DOMAIN row = {"cts"}
      BY <1>2 DEF RowRead, Complete, NoRow
    <2>2. row["cts"] \in Nat /\ row["cts"] <= high /\ (data => row["cts"] = 0)
      BY <1>2 DEF RowRead
    <2>3. ReadOrder[Cardinality(DOMAIN row) + 1] = "sum"
      <3>1. Cardinality(DOMAIN row) = 1
        BY <2>1, FS_Singleton
      <3> QED
        BY <3>1 DEF ReadOrder
    <2>4. PICK new : new = Put(row, "sum", value)
      OBVIOUS
    <2>5. DOMAIN new = {"cts", "sum"} /\ new["cts"] = row["cts"] /\ new["sum"] = value
      BY <2>1, <2>4 DEF Put
    <2>6. RowRead(new, data, low, high)
      BY <1>2, <2>2, <2>5 DEF RowRead
    <2> QED
      BY <2>3, <2>4, <2>6
  <1> QED
    BY <1>1, <1>2

LEMMA ReadCounts ==
    ASSUME TelemetryInv, SentInv, NEW d \in Dumps, NEW q \in Qps, Read(d, q)
    PROVE  RowsInv'
  <1>1. AppInv /\ ReportInv /\ ReportTypes
    BY DEF TelemetryInv, ReportInv
  <1>2. KindInv /\ RowsInv
    BY SentInvIs
  <1>3. /\ UNCHANGED <<plan, qp_info, st, snap>> /\ ~Complete(rows[d][q])
        /\ st[d] \in {"thread", "caller"}
    BY DEF Read, Reading, exitVars, stateVars
  <1>4. Sent' = Sent
    BY <1>3 DEF Sent
  <1> DEFINE row == rows[d][q]
             what == ReadOrder[Cardinality(DOMAIN row) + 1]
             o == Of(d, q)
             value == IF what = "cts" /\ qp_info[o].data_qp THEN 0
                      ELSE qp_info[o].num_wqe_sent
  <1>5. rows' = [rows EXCEPT ![d][q] =
                   IF Known(d, q) THEN Put(row, what, value) ELSE NoRow]
    BY DEF Read, Known, Of
  <1>6. PICK new : /\ rows' = [rows EXCEPT ![d][q] = new]
                   /\ Known(d, q) => new = Put(row, what, value)
                   /\ ~Known(d, q) => new = NoRow
    <2> HIDE DEF row, what, value
    <2> QED
      BY <1>5
  <1>7. Known(d, q) => RowRead(new, QpInfo[o].data, snap[d].sent[o], Sent[o])
    <2> SUFFICES ASSUME Known(d, q)
                 PROVE  RowRead(new, QpInfo[o].data, snap[d].sent[o], Sent[o])
      OBVIOUS
    <2>1. /\ o \in DOMAIN qp_info /\ snap[d].sent[o] <= Sent[o]
          /\ RowRead(row, QpInfo[o].data, snap[d].sent[o], Sent[o])
      BY <1>2 DEF RowsInv, RowInv
    <2> HIDE DEF o
    <2>2. Sent[o] = qp_info[o].num_wqe_sent /\ Sent[o] \in Nat /\ snap[d].sent[o] \in Nat
      BY <1>1, <2>1, SentFacts DEF ReportTypes
    <2>3. \/ qp_info[o].data_qp = QpInfo[o].data
          \/ qp_info[o].num_wqe_sent = 0
      BY <1>2, <2>1 DEF KindInv
    <2>4. row = <<>> => what = "cts"
      BY EmptyMap DEF ReadOrder
    <2>5. row # <<>> => what = "sum"
      <3> SUFFICES ASSUME row # <<>> PROVE what = "sum"
        OBVIOUS
      <3>1. DOMAIN row = {"cts"}
        BY <1>3, <2>1 DEF RowRead, Complete, NoRow
      <3>2. Cardinality(DOMAIN row) = 1
        BY <3>1, FS_Singleton
      <3> QED
        BY <3>2 DEF ReadOrder
    <2> HIDE DEF what
    <2>6. /\ value \in Nat /\ value <= Sent[o] /\ (row # <<>> => value = Sent[o])
          /\ row = <<>> /\ QpInfo[o].data => value = 0
      BY <2>2, <2>3, <2>4, <2>5
    <2>7. PICK v \in Nat : v = value
      BY <2>6
    <2>8. PICK w, k : w = row /\ k = QpInfo[o].data
      OBVIOUS
    <2>9. PICK low \in Nat, high \in Nat : low = snap[d].sent[o] /\ high = Sent[o]
      BY <2>2
    <2>10. RowRead(Put(w, ReadOrder[Cardinality(DOMAIN w) + 1], v), k, low, high)
      <3>1. /\ RowRead(w, k, low, high) /\ low <= high /\ v <= high /\ ~Complete(w)
            /\ (w = <<>> /\ k => v = 0) /\ (w # <<>> => v = high)
        BY <1>3, <2>1, <2>6, <2>7, <2>8, <2>9
      <3> QED
        BY <3>1, ReadRow
    <2>11. new = Put(w, ReadOrder[Cardinality(DOMAIN w) + 1], v)
      BY <1>6, <2>7, <2>8 DEF what
    <2> QED
      BY <2>8, <2>9, <2>10, <2>11
  <1> HIDE DEF row, what, value, o
  <1>8. \A e \in Dumps, p \in Qps :
           rows'[e][p] = IF e = d /\ p = q THEN new ELSE rows[e][p]
    BY <1>1, <1>6 DEF ReportTypes
  <1>9. ASSUME NEW p \in Qps PROVE RowInv(d, p)'
    <2>1. RowInv(d, p)
      BY <1>2 DEF RowsInv
    <2>a. Of(d, p)' = Of(d, p) /\ (Known(d, p)' <=> Known(d, p)) /\ QpInfo' = QpInfo
      BY <1>3 DEF Of, Known, Num, QpInfo
    <2>2. CASE p = q
      BY <1>3, <1>4, <1>6, <1>7, <1>8, <2>1, <2>2, <2>a DEF RowInv, o
    <2>3. CASE p # q
      BY <1>3, <1>4, <1>8, <2>1, <2>3, <2>a DEF RowInv
    <2> QED
      BY <2>2, <2>3
  <1>10. \A e \in Dumps \ {d} : st'[e] = st[e] /\ snap'[e] = snap[e] /\ rows'[e] = rows[e]
    BY <1>1, <1>3, <1>6 DEF ReportTypes
  <1>11. \A p \in Qps : RowInv(d, p)'
    BY <1>9
  <1>12. st'[d] \in {"thread", "caller"}
    BY <1>3
  <1> QED
    BY <1>2, <1>3, <1>10, <1>11, <1>12, OneReport

LEMMA DeletedCounts ==
    ASSUME TelemetryInv, SentInv, NEW d \in Dumps, Deleted(d), Reading(d),
           UNCHANGED <<plan, qp_info>>
    PROVE  KindInv' /\ RowsInv'
  <1>1. AppInv /\ ReportInv /\ ReportTypes
    BY DEF TelemetryInv, ReportInv
  <1>2. KindInv /\ RowsInv
    BY SentInvIs
  <1>3. KindInv'
    <2>1. CASE \E c \in Callers : calls[c] = d /\ d # Final
      <3>1. PICK c \in Callers : calls[c] = d /\ Return(c)
        BY <2>1 DEF Deleted
      <3>2. calls[c] # 0
        BY <2>1, <3>1 DEF Final
      <3> QED
        BY <1>1, <1>2, <3>1, <3>2, ReturnKeepsKind
    <2>2. CASE ~\E c \in Callers : calls[c] = d /\ d # Final
      <3>1. calls' = calls /\ app' = app
        BY <2>2 DEF Deleted
      <3> QED
        BY <1>2, <3>1, KindKept DEF KindInv
    <2> QED
      BY <2>1, <2>2
  <1>4. PICK none : none = [q \in Qps |-> <<>>]
    OBVIOUS
  <1>5. /\ snap' = [snap EXCEPT ![d] = NoMaps] /\ rows' = [rows EXCEPT ![d] = none]
        /\ \E x : st' = [st EXCEPT ![d] = x]
    BY <1>4 DEF Deleted
  <1>6. /\ snap'[d] = NoMaps /\ rows'[d] = none
        /\ \A e \in Dumps \ {d} : st'[e] = st[e] /\ snap'[e] = snap[e] /\ rows'[e] = rows[e]
    BY <1>1, <1>5 DEF ReportTypes
  <1>7. \A q \in Qps : rows'[d][q] = <<>>
    BY <1>4, <1>6
  <1>8. DOMAIN NoMaps.states = {}
    BY EmptyMap DEF NoMaps
  <1>9. \A q \in Qps : RowInv(d, q)'
    BY <1>6, <1>7, <1>8 DEF RowInv, Known
  <1> QED
    BY <1>2, <1>3, <1>6, <1>7, <1>9, OneReport

LEMMA ReportCounts ==
    ASSUME TelemetryInv, SentInv, NEW d \in Dumps, Report(d)
    PROVE  SentInv'
  <1>1. KindInv /\ SumOver(Sent, Qps) <= work /\ RowsInv
    BY SentInvIs
  <1>2. UNCHANGED <<plan, qp_info, work>>
    BY DEF Report, Read, Rename, WriteFails, EndThread, exitVars, stateVars, workVars
  <1>3. (SumOver(Sent, Qps) <= work)'
    BY <1>1, <1>2, SumKept
  <1>4. CASE \E q \in Qps : Read(d, q)
    <2>1. RowsInv' /\ app' = app /\ calls' = calls
      BY <1>4, ReadCounts DEF Read
    <2>2. KindInv'
      BY <1>1, <1>2, <2>1, KindKept DEF KindInv
    <2> QED
      BY <1>3, <2>1, <2>2 DEF SentInv, RowsInv
  <1>5. CASE Rename(d) \/ WriteFails(d)
    <2>1. Deleted(d) /\ Reading(d)
      BY <1>5 DEF Rename, WriteFails
    <2>2. KindInv' /\ RowsInv'
      BY <1>2, <2>1, DeletedCounts
    <2> QED
      BY <1>3, <2>2 DEF SentInv, RowsInv
  <1>6. CASE EndThread(d)
    <2>1. /\ app' = app /\ calls' = calls /\ st[d] = "renamed"
          /\ st' = [st EXCEPT ![d] = "done"] /\ UNCHANGED <<snap, rows>>
      BY <1>6 DEF EndThread
    <2>2. KindInv'
      BY <1>1, <1>2, <2>1, KindKept DEF KindInv
    <2>3. DOMAIN st = Dumps
      BY DEF TelemetryInv, ReportInv, ReportTypes
    <2>4. \A e \in Dumps \ {d} : st'[e] = st[e]
      BY <2>1, <2>3
    <2>5. RowsInv'
      BY <1>1, <1>2, <2>1, <2>4, SameRows
    <2> QED
      BY <1>3, <2>2, <2>5 DEF SentInv, RowsInv
  <1> QED
    BY <1>4, <1>5, <1>6 DEF Report

LEMMA SentInit ==
    ASSUME Init
    PROVE  SentInv
  <1>1. /\ qp_info = <<>> /\ work = 0 /\ calls = [c \in Callers |-> 0]
        /\ snap = [d \in Dumps |-> NoMaps] /\ rows = [d \in Dumps |-> [q \in Qps |-> <<>>]]
    BY DEF Init
  <1>2. DOMAIN qp_info = {}
    BY <1>1
  <1>3. KindInv
    BY <1>1, <1>2 DEF KindInv, Callers
  <1>4. SumOver(Sent, Qps) <= work
    <2>1. PICK f : f = Sent
      OBVIOUS
    <2>2. \A q \in Qps : f[q] = 0
      BY <1>2, <2>1 DEF Sent
    <2>3. \A q \in Qps : f[q] \in Int /\ f[q] \in Int
      BY <2>2
    <2>4. IsFiniteSet(Qps)
      BY FS_Interval, TelemetryConstants DEF Qps
    <2>5. \A q \in Qps \ {} : f[q] <= 0
      BY <2>2
    <2>6. {} \in SUBSET Qps /\ \A q \in {} : f[q] <= f[q]
      OBVIOUS
    <2>7. SumOver(f, Qps) <= SumOver(f, {})
      BY <2>3, <2>4, <2>5, <2>6, SumBounded
    <2>8. SumOver(f, {}) = 0
      BY SumEmpty
    <2> QED
      BY <1>1, <2>1, <2>7, <2>8
  <1>5. \A d \in Dumps, q \in Qps : rows[d][q] = <<>> /\ DOMAIN snap[d].states = {}
    BY <1>1, EmptyMap DEF NoMaps
  <1>6. RowsInv
    BY <1>5 DEF RowsInv, RowInv, Known
  <1> QED
    BY <1>3, <1>4, <1>6, SentInvIs

LEMMA SentStep ==
    ASSUME TelemetryInv, SentInv, [Next]_vars
    PROVE  SentInv'
  <1>1. CASE UNCHANGED vars
    <2>1. KindInv /\ SumOver(Sent, Qps) <= work /\ RowsInv /\ Final \in Dumps
      BY SentInvIs, TelemetryConstants
    <2>2. UNCHANGED <<plan, qp_info, work, app, calls, st, snap, rows>>
      BY <1>1 DEF vars, stateVars, workVars, dumpVars, exitVars
    <2>3. KindInv'
      BY <2>1, <2>2, KindKept DEF KindInv
    <2>4. (SumOver(Sent, Qps) <= work)'
      BY <2>1, <2>2, SumKept
    <2>5. RowsInv'
      BY <2>1, <2>2, SameRows
    <2> QED
      BY <2>3, <2>4, <2>5 DEF SentInv, RowsInv
  <1>2. CASE Next
    BY <1>2, CreateQpCounts, DataPathCounts, CreationCounts, ReportCounts, EndCounts DEF Next
  <1> QED
    BY <1>1, <1>2

LEMMA SentInvariant == Spec => []SentInv
  <1>1. Init => SentInv
    BY SentInit
  <1>2. TelemetryInv /\ SentInv /\ [Next]_vars => SentInv'
    BY SentStep
  <1> QED
    BY <1>1, <1>2, TelemetryInvariant, PTL DEF Spec

\* Entries of a channel have different numbers, and so find different counters.
Distinct(S) == \A p, q \in S : SameChannel(p, q) /\ Num(p) = Num(q) => p = q

EntriesInv ==
    /\ Distinct(devices.qps)
    /\ \A d \in Dumps :
          /\ Distinct(snap[d].qps)
          /\ \A n \in DOMAIN snap[d].states : Num(snap[d].states[n]) = n

LEMMA EntriesKept ==
    ASSUME EntriesInv, UNCHANGED <<plan, snap>>, devices'.qps = devices.qps
    PROVE  EntriesInv'
  BY DEF EntriesInv, Distinct, SameChannel, Num, QpInfo

\* A report copies the maps or drops its copy.
LEMMA EntriesCopied ==
    ASSUME TelemetryInv, EntriesInv, UNCHANGED <<plan, devices>>, NEW d \in Dumps,
           \/ snap' = [snap EXCEPT ![d] = Maps]
           \/ snap' = [snap EXCEPT ![d] = NoMaps]
    PROVE  EntriesInv'
  <1>1. DOMAIN snap = Dumps
    BY DEF TelemetryInv, ReportInv, ReportTypes
  <1>2. \A e \in Dumps \ {d} : snap'[e] = snap[e]
    BY <1>1
  <1>3. snap'[d] \in {Maps, NoMaps}
    BY <1>1
  <1>4. Distinct(Maps.qps) /\ \A n \in DOMAIN Maps.states : Num(Maps.states[n]) = n
    BY DEF Maps, EntriesInv, TelemetryInv, AppInv, Numbering
  <1>5. Distinct(NoMaps.qps) /\ \A n \in DOMAIN NoMaps.states : Num(NoMaps.states[n]) = n
    BY EmptyMap DEF NoMaps, Distinct
  <1>6. ASSUME NEW e \in Dumps
        PROVE  /\ Distinct(snap'[e].qps)
               /\ \A n \in DOMAIN snap'[e].states : Num(snap'[e].states[n]) = n
    <2>1. CASE e = d
      BY <1>3, <1>4, <1>5, <2>1
    <2>2. CASE e # d
      BY <1>2, <2>2 DEF EntriesInv
    <2> QED
      BY <2>1, <2>2
  <1>7. Distinct(devices'.qps)
    BY DEF EntriesInv
  <1> QED
    BY <1>6, <1>7 DEF EntriesInv, Distinct, SameChannel, Num, QpInfo

\* An entry is made only for a number that the channel does not have.
LEMMA EntryAdded ==
    ASSUME TelemetryInv, EntriesInv, AddToChannel
    PROVE  EntriesInv'
  <1> DEFINE old == {q \in devices.qps : SameChannel(q, app.qp) /\ Num(q) = Num(app.qp)}
             new == IF old = {} THEN devices.qps \cup {app.qp} ELSE devices.qps
  <1>1. UNCHANGED <<plan, snap>>
    BY DEF AddToChannel, exitVars, dumpVars
  <1>2. devices \in DeviceMaps
    BY DEF TelemetryInv, AppInv
  <1>3. PICK in, f : devices' = [devices EXCEPT !.in = in, !.first = f, !.qps = new]
    BY DEF AddToChannel
  <1>4. devices'.qps = new
    <2> HIDE DEF new
    <2> QED
      BY <1>2, <1>3 DEF DeviceMaps
  <1>5. ASSUME NEW p \in new, NEW q \in new, SameChannel(p, q), Num(p) = Num(q)
        PROVE  p = q
    <2>1. SameChannel(q, p)
      BY <1>5 DEF SameChannel
    <2> QED
      BY <1>5, <2>1 DEF EntriesInv, Distinct
  <1>6. Distinct(new)
    <2> HIDE DEF new
    <2> QED
      BY <1>5 DEF Distinct
  <1> HIDE DEF new
  <1> QED
    BY <1>1, <1>4, <1>6 DEF EntriesInv, Distinct, SameChannel, Num, QpInfo

LEMMA EntriesStep ==
    ASSUME TelemetryInv, EntriesInv, [Next]_vars
    PROVE  EntriesInv'
  <1>1. devices \in DeviceMaps
    BY DEF TelemetryInv, AppInv
  <1>2. CASE UNCHANGED vars
    BY <1>2, EntriesKept DEF vars, stateVars, dumpVars, exitVars
  <1>3. CASE CreateQp
    <2>1. CASE AddToChannel
      BY <2>1, EntryAdded
    <2>2. CASE SetDeviceName
      <3>1. PICK in, f, names : devices' = [devices EXCEPT !.in = in, !.first = f,
                                                           !.named = names]
        BY <2>2 DEF SetDeviceName
      <3>2. devices'.qps = devices.qps
        BY <1>1, <3>1 DEF DeviceMaps
      <3> QED
        BY <2>2, <3>2, EntriesKept DEF SetDeviceName, dumpVars, exitVars
    <2>3. CASE \/ BeginQp \/ AddState \/ SetKind \/ ModifyQpFails
               \/ \E q \in Qps : DestroyQp(q)
      BY <2>3, EntriesKept DEF BeginQp, AddState, SetKind, ModifyQpFails, DestroyQp,
                               stateVars, dumpVars, exitVars
    <2> QED
      BY <1>3, <2>1, <2>2, <2>3 DEF CreateQp
  <1>4. CASE DataPath
    <2>1. UNCHANGED <<plan, snap>>
      BY <1>4 DEF DataPath, PostCts, PollEmpty, PostSend, CompleteOther, CompleteSend,
                  exitVars, dumpVars
    <2>2. \/ devices' = devices \/ devices' = Counted("sizes")
          \/ devices' = Counted("cq_poll_count")
      BY <1>4 DEF DataPath, PostCts, PollEmpty, PostSend, CompleteOther, CompleteSend
    <2>3. devices'.qps = devices.qps
      BY <1>1, <2>2 DEF Counted, DeviceMaps
    <2> QED
      BY <2>1, <2>3, EntriesKept
  <1>5. ASSUME NEW c \in Callers, Creation(c) PROVE EntriesInv'
    <2>1. UNCHANGED <<plan, devices>>
      BY <1>5 DEF Creation, CopyState, CountThread, CreateThread, CreateFails, exitVars,
                  stateVars
    <2>2. CASE CopyState(c)
      <3>1. PICK d \in 1 .. MaxDumps : snap' = [snap EXCEPT ![d] = Maps]
        BY <2>2 DEF CopyState
      <3>2. d \in Dumps
        BY TelemetryConstants DEF Dumps
      <3> QED
        BY <2>1, <3>1, <3>2, EntriesCopied
    <2>3. CASE CountThread(c) \/ CreateThread(c) \/ CreateFails(c)
      BY <2>1, <2>3, EntriesKept DEF CountThread, CreateThread, CreateFails
    <2> QED
      BY <1>5, <2>2, <2>3 DEF Creation
  <1>6. ASSUME NEW d \in Dumps, Report(d) PROVE EntriesInv'
    <2>1. UNCHANGED <<plan, devices>>
      BY <1>6 DEF Report, Read, Rename, WriteFails, EndThread, exitVars, stateVars
    <2>2. CASE Rename(d) \/ WriteFails(d)
      <3>1. snap' = [snap EXCEPT ![d] = NoMaps]
        BY <2>2 DEF Rename, WriteFails, Deleted
      <3> QED
        BY <2>1, <3>1, EntriesCopied
    <2>3. CASE (\E q \in Qps : Read(d, q)) \/ EndThread(d)
      <3>1. snap' = snap
        BY <2>3 DEF Read, EndThread
      <3> QED
        BY <2>1, <3>1, EntriesKept
    <2> QED
      BY <1>6, <2>2, <2>3 DEF Report
  <1>7. CASE \E t \in Exiters : Exit(t)
    BY <1>7, EntriesKept DEF Exit, stateVars, dumpVars
  <1>8. CASE EndWait
    <2>1. UNCHANGED <<plan, devices>> /\ snap' = [snap EXCEPT ![Final] = Maps]
      BY <1>8 DEF EndWait, stateVars
    <2> QED
      BY <2>1, EntriesCopied, TelemetryConstants
  <1> QED
    BY <1>2, <1>3, <1>4, <1>5, <1>6, <1>7, <1>8 DEF Next

LEMMA EntriesInvariant == Spec => []EntriesInv
  <1>1. Init => EntriesInv
    <2> SUFFICES ASSUME Init PROVE EntriesInv
      OBVIOUS
    <2>1. devices.qps = {} /\ \A d \in Dumps : snap[d] = NoMaps
      BY DEF Init
    <2>2. NoMaps.qps = {} /\ DOMAIN NoMaps.states = {}
      BY EmptyMap DEF NoMaps
    <2> QED
      BY <2>1, <2>2 DEF EntriesInv, Distinct
  <1>2. TelemetryInv /\ EntriesInv /\ [Next]_vars => EntriesInv'
    BY EntriesStep
  <1> QED
    BY <1>1, <1>2, TelemetryInvariant, PTL DEF Spec

\* What a report prints of a channel: the QPs C, of which known had a state and
\* data carry data.  Per QP: cts and sum are what was read, low what had been
\* sent before and high what has been sent by now.
LEMMA ChannelBounds ==
    ASSUME NEW C, IsFiniteSet(C), NEW known \in SUBSET C, NEW before \in SUBSET known,
           NEW cts \in [C -> Nat], NEW sum \in [C -> Nat],
           NEW low, \A q \in C : low[q] \in Nat,
           NEW high, \A q \in C : high[q] \in Nat,
           \A q \in C : cts[q] <= sum[q],
           \A q \in before : cts[q] = 0 /\ low[q] <= sum[q],
           \A q \in known : sum[q] <= high[q],
           \A q \in C \ known : sum[q] = 0
    PROVE  /\ SumOver(cts, C) \in Nat /\ SumOver(sum, C) \in Nat
           /\ SumOver(low, before) \in Int /\ SumOver(high, known) \in Int
           /\ SumOver(low, before) <= SumOver(sum, C) - SumOver(cts, C)
           /\ 0 <= SumOver(sum, C) - SumOver(cts, C)
           /\ SumOver(sum, C) - SumOver(cts, C) <= SumOver(high, known)
  <1> DEFINE some == [q \in C |-> IF q \in before THEN low[q] ELSE 0]
             both == [q \in C |-> some[q] + cts[q]]
             none == [q \in C |-> 0]
  <1>1. \A q \in C : cts[q] \in Int /\ sum[q] \in Int /\ some[q] \in Int /\ both[q] \in Int
    OBVIOUS
  <1>2. before \in SUBSET C /\ C \in SUBSET C
    OBVIOUS
  <1>3. /\ SumOver(low, before) \in Int /\ SumOver(some, C) \in Int
        /\ SumOver(low, before) <= SumOver(some, C)
    <2>1. \A q \in C : low[q] \in Int /\ some[q] \in Int
      BY <1>1
    <2>2. \A q \in before : low[q] <= some[q]
      BY <1>2
    <2>3. \A q \in C \ before : 0 <= some[q]
      OBVIOUS
    <2> HIDE DEF some
    <2> QED
      BY <1>2, <2>1, <2>2, <2>3, SumMonotone
  <1>4. /\ SumOver(both, C) = SumOver(some, C) + SumOver(cts, C) /\ SumOver(cts, C) \in Int
    <2>1. \A q \in C : some[q] \in Int
      BY <1>1
    <2>2. \A q \in C : cts[q] \in Int
      BY <1>1
    <2>3. \A q \in C : both[q] = some[q] + cts[q]
      OBVIOUS
    <2> HIDE DEF some, both
    <2> QED
      BY <2>1, <2>2, <2>3, SumPlus
  <1>5. SumOver(both, C) <= SumOver(sum, C) /\ SumOver(sum, C) \in Int
    <2>1. \A q \in C : both[q] \in Int /\ sum[q] \in Int
      BY <1>1
    <2>2. \A q \in C : both[q] <= sum[q]
      OBVIOUS
    <2>3. \A q \in C \ C : 0 <= sum[q]
      OBVIOUS
    <2> HIDE DEF both
    <2> QED
      BY <1>2, <2>1, <2>2, <2>3, SumMonotone
  <1>6. 0 <= SumOver(cts, C) /\ SumOver(cts, C) <= SumOver(sum, C)
    <2>1. \A q \in C : none[q] \in Int /\ cts[q] \in Int
      OBVIOUS
    <2>2. \A q \in C : cts[q] \in Int /\ sum[q] \in Int
      OBVIOUS
    <2>3. {} \in SUBSET C /\ (\A q \in {} : none[q] <= cts[q])
      OBVIOUS
    <2>4. \A q \in C \ {} : 0 <= cts[q]
      OBVIOUS
    <2>5. \A q \in C \ C : 0 <= sum[q]
      OBVIOUS
    <2> HIDE DEF none
    <2>6. SumOver(none, {}) <= SumOver(cts, C)
      BY <2>1, <2>3, <2>4, SumMonotone
    <2>7. SumOver(none, {}) = 0
      BY SumEmpty
    <2>8. SumOver(cts, C) <= SumOver(sum, C)
      BY <1>2, <2>2, <2>5, SumMonotone
    <2> QED
      BY <2>6, <2>7, <2>8
  <1>7. SumOver(sum, C) <= SumOver(high, known) /\ SumOver(high, known) \in Int
    <2>1. \A q \in C : high[q] \in Int /\ sum[q] \in Int
      OBVIOUS
    <2>2. \A q \in C \ known : sum[q] <= 0
      OBVIOUS
    <2> QED
      BY <2>1, <2>2, SumBounded
  <1> HIDE DEF some, both, none
  <1>8. PICK a \in Int, b \in Int, k \in Int, t \in Int, h \in Int :
           /\ a = SumOver(low, before) /\ b = SumOver(some, C) /\ k = SumOver(cts, C)
           /\ t = SumOver(sum, C) /\ h = SumOver(high, known)
    BY <1>3, <1>4, <1>5, <1>7
  <1>9. a <= b /\ b + k <= t /\ 0 <= k /\ k <= t /\ t <= h
    BY <1>3, <1>4, <1>5, <1>6, <1>7, <1>8
  <1>10. k \in Nat /\ t \in Nat /\ a <= t - k /\ 0 <= t - k /\ t - k <= h
    BY <1>9
  <1> QED
    BY <1>8, <1>10

\* A difference below the modulus is printed as it is.
LEMMA SmallRemainder ==
    ASSUME NEW n \in Nat, NEW m \in Nat, n < m
    PROVE  n % m = n
  OBVIOUS

\* The sum as it is written of rows.
RowSum(row, r, S) == MapThenSumSet(LAMBDA q : row[q][r], S)

LEMMA RowSumIs ==
    ASSUME NEW S, IsFiniteSet(S), NEW row, NEW r, NEW f, \A x \in S : f[x] \in Int,
           \A x \in S : row[x][r] = f[x]
    PROVE  RowSum(row, r, S) = SumOver(f, S)
  <1> DEFINE Step(g, T) == IF T = {} THEN 0
                           ELSE LET x == CHOOSE x \in T : TRUE IN row[x][r] + g[T \ {x}]
             h == CHOOSE g : g = [T \in SUBSET S |-> Step(g, T)]
  <1>1. ASSUME NEW g, NEW T \in SUBSET S PROVE Step(g, T) = SumStep(f, g, T)
    <2>1. CASE T = {}
      BY <2>1 DEF SumStep
    <2>2. CASE T # {}
      <3>1. PICK x \in S : x = CHOOSE y \in T : TRUE
        BY <2>2, ChosenElement
      <3>2. Step(g, T) = row[x][r] + g[T \ {x}] /\ SumStep(f, g, T) = f[x] + g[T \ {x}]
        BY <2>2, <3>1 DEF SumStep
      <3> QED
        BY <3>2
    <2> QED
      BY <2>1, <2>2
  <1>2. PICK g \in [SUBSET S -> Int] : Adds(f, g, S)
    BY SumExists
  <1>3. g = [T \in SUBSET S |-> Step(g, T)]
    <2>1. \A T \in SUBSET S : g[T] = Step(g, T)
      BY <1>1, <1>2 DEF Adds
    <2> HIDE DEF Step
    <2> QED
      BY <1>2, <2>1
  <1>4. h = [T \in SUBSET S |-> Step(h, T)]
    <2> HIDE DEF Step
    <2> QED
      BY <1>3
  <1>5. RowSum(row, r, S) = h[S]
    BY DEF RowSum, MapThenSumSet, MapThenFoldSet
  <1> HIDE DEF h
  <1>6. Adds(f, h, S)
    <2>1. \A T \in SUBSET S : h[T] = Step(h, T)
      <3> HIDE DEF Step
      <3> QED
        BY <1>4
    <2> QED
      BY <1>1, <2>1 DEF Adds
  <1> QED
    BY <1>5, <1>6, SumOverAt

\* What a report has read of a channel when it is complete.
LEMMA ReadOfChannel ==
    ASSUME TelemetryInv, SentInv, NEW d \in Dumps, AllRead(d), NEW q \in snap[d].qps
    PROVE  /\ q \in Qps /\ rows[d][q]["cts"] \in Nat /\ rows[d][q]["sum"] \in Nat
           /\ rows[d][q]["cts"] <= rows[d][q]["sum"]
           /\ Known(d, q) =>
                 /\ Of(d, q) \in DOMAIN qp_info /\ Of(d, q) \in Qps
                 /\ snap[d].sent[Of(d, q)] \in Nat /\ Sent[Of(d, q)] \in Nat
                 /\ qp_info[Of(d, q)].num_wqe_sent = Sent[Of(d, q)]
                 /\ snap[d].sent[Of(d, q)] <= rows[d][q]["sum"]
                 /\ rows[d][q]["sum"] <= Sent[Of(d, q)]
                 /\ QpInfo[Of(d, q)].data => rows[d][q]["cts"] = 0
           /\ ~Known(d, q) => rows[d][q]["sum"] = 0
  <1>1. q \in Qps /\ \A o \in Qps : snap[d].sent[o] \in Nat
    BY DEF TelemetryInv, ReportInv, ReportTypes
  <1>2. AppInv
    BY DEF TelemetryInv
  <1>3. RowInv(d, q)
    BY <1>1 DEF SentInv
  <1>4. DOMAIN rows[d][q] = {"cts", "sum"} /\ rows[d][q] # <<>>
    BY EmptyMap DEF AllRead, Complete, NoRow
  <1>5. CASE Known(d, q)
    <2>1. PICK o : o = Of(d, q)
      OBVIOUS
    <2>2. o \in DOMAIN qp_info
      BY <1>3, <1>5, <2>1 DEF RowInv
    <2>3. o \in Qps /\ Sent[o] \in Nat /\ qp_info[o].num_wqe_sent = Sent[o]
      BY <1>2, <2>2, SentFacts
    <2>4. RowRead(rows[d][q], QpInfo[o].data, snap[d].sent[o], Sent[o])
      BY <1>3, <1>5, <2>1 DEF RowInv
    <2>5. /\ rows[d][q]["cts"] \in Nat /\ rows[d][q]["sum"] \in Nat
          /\ rows[d][q]["cts"] <= rows[d][q]["sum"]
          /\ snap[d].sent[o] <= rows[d][q]["sum"] /\ rows[d][q]["sum"] <= Sent[o]
          /\ QpInfo[o].data => rows[d][q]["cts"] = 0
      BY <1>4, <2>4 DEF RowRead
    <2> QED
      BY <1>1, <1>5, <2>1, <2>2, <2>3, <2>5
  <1>6. CASE ~Known(d, q)
    <2>1. rows[d][q] = NoRow
      BY <1>3, <1>4, <1>6 DEF RowInv
    <2>2. NoRow["cts"] = 0 /\ NoRow["sum"] = 0
      BY DEF NoRow
    <2> QED
      BY <1>1, <1>6, <2>1, <2>2
  <1> QED
    BY <1>5, <1>6

LEMMA SentExcludes ==
    ASSUME TelemetryInv, SentInv, EntriesInv
    PROVE  SentExcludesCts
  <1> SUFFICES ASSUME NEW d \in Dumps, AllRead(d), NEW p \in snap[d].qps
               PROVE  LET of(q) == snap[d].states[Num(q)]
                          C == {q \in snap[d].qps : SameChannel(q, p)}
                          known == {q \in C : Num(q) \in DOMAIN snap[d].states}
                          data == {q \in known : QpInfo[of(q)].data}
                          before == [q \in known |-> snap[d].sent[of(q)]]
                          by_now == [q \in known |-> qp_info[of(q)].num_wqe_sent]
                      IN  /\ MapThenSumSet(LAMBDA q : before[q], data) <= ChannelSent(d, C)
                          /\ ChannelSent(d, C) <= MapThenSumSet(LAMBDA q : by_now[q], known)
    BY DEF SentExcludesCts
  <1> DEFINE C == {q \in snap[d].qps : SameChannel(q, p)}
             known == {q \in C : Num(q) \in DOMAIN snap[d].states}
             data == {q \in known : QpInfo[snap[d].states[Num(q)]].data}
             before == [q \in known |-> snap[d].sent[snap[d].states[Num(q)]]]
             by_now == [q \in known |-> qp_info[snap[d].states[Num(q)]].num_wqe_sent]
             low == [q \in C |-> IF q \in known THEN before[q] ELSE 0]
             high == [q \in C |-> IF q \in known THEN by_now[q] ELSE 0]
             found == [q \in known |-> Of(d, q)]
             cts == [q \in C |-> rows[d][q]["cts"]]
             sum == [q \in C |-> rows[d][q]["sum"]]
  <1>1. /\ C \in SUBSET snap[d].qps /\ C \in SUBSET Qps /\ known \in SUBSET C
        /\ data \in SUBSET known /\ data \in SUBSET C
    BY DEF TelemetryInv, ReportInv, ReportTypes
  <1>2. Sent \in [Qps -> Nat] /\ IsFiniteSet(Qps)
    BY SentFacts DEF TelemetryInv
  <1>3. IsFiniteSet(C) /\ IsFiniteSet(known) /\ IsFiniteSet(data)
    BY <1>1, <1>2, FS_Subset
  <1>4. /\ cts \in [C -> Nat] /\ sum \in [C -> Nat]
        /\ \A q \in C : cts[q] <= sum[q]
    BY ReadOfChannel
  <1>5. ASSUME NEW q \in known
        PROVE  /\ before[q] = snap[d].sent[Of(d, q)] /\ by_now[q] = Sent[Of(d, q)]
               /\ before[q] \in Nat /\ by_now[q] \in Nat
               /\ before[q] <= sum[q] /\ sum[q] <= by_now[q]
               /\ q \in data => cts[q] = 0
               /\ found[q] = Of(d, q) /\ found[q] \in Qps
    <2>1. q \in snap[d].qps /\ Known(d, q)
      BY <1>5 DEF Known
    <2>2. /\ before[q] = snap[d].sent[Of(d, q)]
          /\ by_now[q] = qp_info[Of(d, q)].num_wqe_sent
          /\ q \in data => QpInfo[Of(d, q)].data
      BY DEF Of
    <2>3. cts[q] = rows[d][q]["cts"] /\ sum[q] = rows[d][q]["sum"]
      OBVIOUS
    <2> HIDE DEF before, by_now, cts, sum, data
    <2> QED
      BY <2>1, <2>2, <2>3, ReadOfChannel
  <1>6. ASSUME NEW q \in C \ known PROVE sum[q] = 0
    <2>1. ~Known(d, q)
      BY DEF Known
    <2> QED
      BY <2>1, ReadOfChannel
  <1>7. \A q \in known : low[q] = before[q] /\ high[q] = by_now[q]
    OBVIOUS
  <1>8. \A q \in C \ known : low[q] = 0 /\ high[q] = 0
    OBVIOUS
  <1>9. ASSUME NEW x \in known, NEW y \in known, found[x] = found[y] PROVE x = y
    <2>1. Num(Of(d, x)) = Num(x) /\ Num(Of(d, y)) = Num(y)
      BY DEF EntriesInv, Of
    <2>2. Num(x) = Num(y)
      BY <1>9, <2>1
    <2>3. SameChannel(x, y)
      BY DEF SameChannel
    <2> QED
      BY <2>2, <2>3 DEF EntriesInv, Distinct
  <1>10. /\ \A q \in C : rows[d][q]["cts"] = cts[q]
         /\ \A q \in C : rows[d][q]["sum"] = sum[q]
    OBVIOUS
  <1> HIDE DEF C, known, data, before, by_now, low, high, found, cts, sum
  <1>11. (\A q \in C : low[q] \in Nat) /\ (\A q \in C : high[q] \in Nat)
    BY <1>5, <1>7, <1>8
  <1>12. (\A q \in data : cts[q] = 0 /\ low[q] <= sum[q]) /\ (\A q \in known : sum[q] <= high[q])
    BY <1>1, <1>5, <1>7
  <1>13. /\ SumOver(cts, C) \in Nat /\ SumOver(sum, C) \in Nat
         /\ SumOver(low, data) \in Int /\ SumOver(high, known) \in Int
         /\ SumOver(low, data) <= SumOver(sum, C) - SumOver(cts, C)
         /\ 0 <= SumOver(sum, C) - SumOver(cts, C)
         /\ SumOver(sum, C) - SumOver(cts, C) <= SumOver(high, known)
    <2>1. \A q \in C : low[q] \in Nat
      BY <1>11
    <2>2. \A q \in C : high[q] \in Nat
      BY <1>11
    <2>3. \A q \in C : cts[q] <= sum[q]
      BY <1>4
    <2>4. \A q \in data : cts[q] = 0 /\ low[q] <= sum[q]
      BY <1>12
    <2>5. \A q \in known : sum[q] <= high[q]
      BY <1>12
    <2>6. \A q \in C \ known : sum[q] = 0
      BY <1>6
    <2>7. cts \in [C -> Nat] /\ sum \in [C -> Nat]
      BY <1>4
    <2> QED
      BY <1>1, <1>3, <2>1, <2>2, <2>3, <2>4, <2>5, <2>6, <2>7, ChannelBounds
  <1>14. SumOver(high, known) < CounterMod /\ CounterMod \in Nat
    <2>1. PICK f : f = Sent
      OBVIOUS
    <2>2. \A x \in Qps : f[x] \in Nat
      BY <1>2, <2>1
    <2>3. \A x \in known : found[x] \in Qps /\ high[x] = f[found[x]]
      BY <1>5, <1>7, <2>1
    <2>4. \A x, y \in known : found[x] = found[y] => x = y
      BY <1>9
    <2>5. SumOver(high, known) <= SumOver(f, Qps) /\ SumOver(f, Qps) \in Int
      BY <1>2, <1>3, <2>2, <2>3, <2>4, SumReindex
    <2>6. SumOver(f, Qps) <= work /\ work \in Nat
      BY <2>1 DEF SentInv, TelemetryInv, AppInv
    <2>7. work <= plan.work /\ plan.work \in Nat /\ plan \in Plans
      BY TelemetryConstants DEF TelemetryInv, AppInv
    <2>8. plan.work < CounterMod /\ CounterMod \in Nat
      BY <2>7, TelemetryConstantsAssumption
    <2>9. PICK a \in Int, b \in Int : a = SumOver(high, known) /\ b = SumOver(f, Qps)
      BY <1>13, <2>5
    <2>10. PICK w \in Nat, m \in Nat : w = work /\ m = plan.work
      BY <2>6, <2>7
    <2>11. a <= b /\ b <= w /\ w <= m /\ m < CounterMod
      BY <2>5, <2>6, <2>7, <2>8, <2>9, <2>10
    <2>12. a < CounterMod
      BY <2>8, <2>11
    <2> QED
      BY <2>8, <2>9, <2>12
  <1>15. PICK n \in Nat : n = SumOver(sum, C) - SumOver(cts, C)
    BY <1>13
  <1>16. n <= SumOver(high, known) /\ n < CounterMod
    BY <1>13, <1>14, <1>15
  <1>17. ChannelSent(d, C) = n
    <2>1. ChannelSent(d, C) = (RowSum(rows[d], "sum", C) - RowSum(rows[d], "cts", C)) % CounterMod
      BY DEF ChannelSent, RowSum
    <2>2. PICK row : row = rows[d]
      OBVIOUS
    <2>3. RowSum(row, "cts", C) = SumOver(cts, C)
      <3>1. (\A q \in C : cts[q] \in Int) /\ (\A q \in C : row[q]["cts"] = cts[q])
        BY <1>4, <1>10, <2>2
      <3> QED
        BY <1>3, <3>1, RowSumIs
    <2>4. RowSum(row, "sum", C) = SumOver(sum, C)
      <3>1. (\A q \in C : sum[q] \in Int) /\ (\A q \in C : row[q]["sum"] = sum[q])
        BY <1>4, <1>10, <2>2
      <3> QED
        BY <1>3, <3>1, RowSumIs
    <2>5. ChannelSent(d, C) = n % CounterMod
      BY <1>15, <2>1, <2>2, <2>3, <2>4
    <2> QED
      BY <1>14, <1>16, <2>5, SmallRemainder
  <1>18. SumOver(before, data) = SumOver(low, data) /\ SumOver(by_now, known) = SumOver(high, known)
    <2>1. \A x \in data : before[x] \in Int /\ before[x] = low[x]
      BY <1>1, <1>5, <1>7
    <2>2. \A x \in known : by_now[x] \in Int /\ by_now[x] = high[x]
      BY <1>5, <1>7
    <2>3. SumOver(before, data) = SumOver(low, data)
      BY <1>3, <2>1, SumSame
    <2>4. SumOver(by_now, known) = SumOver(high, known)
      BY <1>3, <2>2, SumSame
    <2> QED
      BY <2>3, <2>4
  <1>19. /\ MapThenSumSet(LAMBDA q : before[q], data) = SumOver(before, data)
         /\ MapThenSumSet(LAMBDA q : by_now[q], known) = SumOver(by_now, known)
    BY DEF SumOver
  <1>20. SumOver(before, data) <= n /\ n <= SumOver(by_now, known)
    BY <1>13, <1>15, <1>16, <1>18
  <1>21. /\ MapThenSumSet(LAMBDA q : before[q], data) <= ChannelSent(d, C)
         /\ ChannelSent(d, C) <= MapThenSumSet(LAMBDA q : by_now[q], known)
    BY <1>17, <1>19, <1>20
  <1> QED
    BY <1>21 DEF C, known, data, before, by_now

\* num_wqe_sent of a channel in a report is never below what was counted as sent
\* in the counters of its data QPs when the maps were copied, never above all
\* that is counted in those of the channel, and never wraps below zero, although
\* to_json reads every counter twice while the data path counts: for any QPs,
\* numbers, channels, reports and interleaving.
THEOREM SentExcludesCtsCorrect == Spec => []SentExcludesCts
  BY TelemetryInvariant, SentInvariant, EntriesInvariant, SentExcludes, PTL

=============================================================================
