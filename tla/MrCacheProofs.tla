---------------------------- MODULE MrCacheProofs ----------------------------
(***************************************************************************)
(* The memory-region cache and the protection domains, for every number of *)
(* communicators, devices, handles and buffers, and with any number of     *)
(* failing calls: a handle is good for as long as its caller has it and an *)
(* open communicator has its protection domain.  As long as no call has    *)
(* failed the references are exact, the cache stays within its allocation, *)
(* everybody's MRs are of his own domain and the last to close leaves      *)
(* nothing behind but the flush MRs and what they hold.                    *)
(*                                                                         *)
(* The inductive invariant counts: a slot has at least as many references  *)
(* as handles hold its MR, a domain at least as many as communicators are  *)
(* on it.  A failed call breaks off in the middle and leaves a reference   *)
(* too many, never one too few, which is why the first two results survive *)
(* failures and the others need the counts to be exact.                    *)
(***************************************************************************)
EXTENDS MrCache, FiniteSetTheorems, SequenceTheorems, TLAPS

Pcs == {"closed", "init_pd", "init_cq", "open", "reg", "dereg", "close", "failed"}
CommState == [pc : Pcs, dev : Devs, h : Handles]
Handle == [data : Nat, size : Nat, mrs : [Devs -> MrIds \cup {Null}]]

\* The handles that hold an MR.
Holders(d, m) == {k \in Comms \X Handles : handle[k[1]][k[2]].mrs[d] = m}

\* A handle that the caller has: one MR for each device.
Whole(b) == b.size > 0 /\ \A d \in Devs : b.mrs[d] # Null

\* Only the handle of the call under way is neither free nor whole: in a
\* registration it has the MRs of the devices that are done, in a
\* deregistration those of the devices that are left.
HandleStage(c) ==
    /\ \A h \in Handles :
          \/ handle[c][h] = NoHandle
          \/ comm[c].pc \in {"open", "reg", "dereg"} /\ Whole(handle[c][h])
          \/ comm[c].pc \in {"reg", "dereg"} /\ h = comm[c].h
    /\ comm[c].pc = "reg" =>
          /\ Buffer(c).size > 0
          /\ \A d \in Devs : (Buffer(c).mrs[d] # Null) <=> d < comm[c].dev
    /\ comm[c].pc = "dereg" =>
          \A d \in Devs : (Buffer(c).mrs[d] # Null) <=> d >= comm[c].dev

\* A communicator in use, or not yet closed, is on its devices' domains.
DomainStage(c) ==
    /\ comm[c].pc \in {"closed", "open"} => comm[c].dev = 1
    /\ comm[c].pc \in {"open", "reg", "dereg"} =>
          \A d \in Devs : commPd[c][d] # Null
    /\ comm[c].pc = "close" =>
          \A d \in Devs : d >= comm[c].dev => commPd[c][d] # Null

\* The domain in use on a device exists and is counted often enough.
DomainOn(d) ==
    /\ \A c \in Users(d) : commPd[c][d] = pd[d] /\ pd[d] \in pds[d]
    /\ pdRefs[d] >= Cardinality(Users(d))
    /\ pdRefs[d] > 0 => pd[d] \in pds[d] \cup {Null}

\* A slot says what its MR is, begins with a page and is counted often enough;
\* no two slots have the same MR.
SlotOn(d, s) ==
    /\ s.refs > 0 /\ s.refs >= Cardinality(Holders(d, s.mr))
    /\ mrs[d][s.mr].addr = s.addr /\ mrs[d][s.mr].pages = s.pages
    /\ s.pages > 0 /\ s.addr % PageSize = 0

SlotsOn(d) ==
    /\ \A i \in 1 .. Len(slots[d]) : SlotOn(d, slots[d][i])
    /\ \A i, j \in 1 .. Len(slots[d]) : slots[d][i].mr = slots[d][j].mr => i = j

\* Region r spans buffer b.
Spans(b, r) ==
    r.addr <= b.data /\ b.data + b.size <= r.addr + r.pages * PageSize

\* What a handle holds is in the cache and spans the handle's buffer.
HeldBy(c, h, d) ==
    Holds(c, h, d) => /\ Known(d, handle[c][h].mrs[d])
                      /\ Spans(handle[c][h], mrs[d][handle[c][h].mrs[d]])

Counted ==
    /\ \A c \in Comms : HandleStage(c) /\ DomainStage(c)
    /\ \A d \in Devs : DomainOn(d) /\ SlotsOn(d)
    /\ \A c \in Comms, h \in Handles, d \in Devs : HeldBy(c, h, d)

\* Without a failure the counts are exact, the cache has room for its slots,
\* and every MR is in it and of the domain in use.
ExactSlot(d, s) ==
    s.refs = Cardinality(Holders(d, s.mr)) /\ mrs[d][s.mr].pd = pd[d]

ExactOn(d) ==
    /\ capacity[d] = alloc[d] /\ Len(slots[d]) <= alloc[d]
    /\ Len(slots[d]) = 0 => capacity[d] = 0
    /\ \A i \in 1 .. Len(slots[d]) : ExactSlot(d, slots[d][i])
    /\ \A m \in Registered(d) : Known(d, m)
    /\ pdRefs[d] = Cardinality(Users(d))

\* Without a failure a communicator is on the domains of the devices it has
\* set up and not closed.
ExactStage(c) ==
    /\ comm[c].pc \in {"closed", "init_pd"} =>
          \A d \in Devs : (commPd[c][d] # Null) <=> d < comm[c].dev
    /\ comm[c].pc = "init_cq" =>
          \A d \in Devs : (commPd[c][d] # Null) <=> d <= comm[c].dev
    /\ comm[c].pc = "close" =>
          \A d \in Devs : (commPd[c][d] # Null) <=> d >= comm[c].dev

Exact ==
    /\ heap = "ok"
    /\ \A d \in Devs : ExactOn(d)
    /\ \A c \in Comms : ExactStage(c)

\* Without a failure the domains of a device are those with the gpuMr of a
\* receive communicator, which is never given back, and the one in use.
ReleasedOn(d) ==
    /\ gpuMrs[d] \subseteq pds[d] /\ pds[d] \subseteq gpuMrs[d] \cup {pd[d]}
    /\ pdRefs[d] = 0 => pds[d] = gpuMrs[d]

\* A close that stopped did so at a device with a gpuMr.
StoppedStage(c) ==
    comm[c].pc = "failed" =>
        /\ gpuMrs[comm[c].dev] # {}
        /\ \A d \in Devs : (commPd[c][d] # Null) <=> d > comm[c].dev

Releases ==
    /\ \A c \in Comms : StoppedStage(c)
    /\ \A d \in Devs : ReleasedOn(d)

MrInv ==
    /\ TypeOK /\ Counted
    /\ faults = 0 => Exact /\ Releases

-----------------------------------------------------------------------------
(* Arithmetic *)

LEMMA LeastElement ==
    ASSUME NEW T \in SUBSET Nat, T # {}
    PROVE  \E x \in T : \A y \in T : x <= y
  <1> DEFINE below(n) == 0 .. n
             belows == {below(n) : n \in T}
  <1>1. belows \subseteq FiniteSubsetsOf(Nat)
    <2> SUFFICES ASSUME NEW n \in T
                 PROVE  below(n) \in SUBSET Nat /\ IsFiniteSet(below(n))
      BY DEF FiniteSubsetsOf
    <2> QED
      BY FS_Interval
  <1>2. PICK b \in belows : \A a \in belows : ~(<<a, b>> \in StrictSubsetOrdering(Nat))
    <2>1. belows # {}
      OBVIOUS
    <2> HIDE DEF belows
    <2> QED
      BY <1>1, <2>1, FS_StrictSubsetOrderingWellFounded, WFMin
  <1>3. PICK x \in T : b = below(x)
    OBVIOUS
  <1>4. ASSUME NEW y \in T, y < x PROVE FALSE
    <2>1. below(y) \in SUBSET Nat /\ below(x) \in SUBSET Nat
      OBVIOUS
    <2>2. below(y) \subseteq below(x) /\ x \in below(x) /\ x \notin below(y)
      BY <1>4
    <2>3. below(y) # below(x)
      BY <2>2
    <2>4. <<below(y), below(x)>> \in StrictSubsetOrdering(Nat)
      BY <2>1, <2>2, <2>3 DEF StrictSubsetOrdering
    <2> QED
      BY <1>2, <1>3, <2>4
  <1>5. \A y \in T : x <= y
    BY <1>4
  <1> QED
    BY <1>5

LEMMA Division ==
    ASSUME NEW n \in Nat, NEW k \in Nat \ {0}
    PROVE  /\ n \div k \in Nat /\ n % k \in Nat /\ n % k < k
           /\ n = (n \div k) * k + (n % k)
  OBVIOUS

LEMMA Multiple ==
    ASSUME NEW q \in Nat, NEW k \in Nat \ {0}
    PROVE  (q * k) \div k = q /\ (q * k) % k = 0
  <1>1. /\ (q * k) \div k \in Nat /\ (q * k) % k \in Nat /\ (q * k) % k < k
        /\ q * k = ((q * k) \div k) * k + ((q * k) % k)
    BY Division
  <1> QED
    BY <1>1

LEMMA LargerMultiple ==
    ASSUME NEW a \in Nat, NEW b \in Nat, NEW k \in Nat, a <= b
    PROVE  a * k <= b * k
  OBVIOUS

LEMMA PagesSpan ==
    ASSUME NEW g, g.data \in Nat, g.size \in Nat \ {0}
    PROVE  /\ PageAddr(g) \in Nat /\ PageAddr(g) % PageSize = 0
           /\ Pages(g) \in Nat \ {0}
           /\ PageAddr(g) <= g.data
           /\ g.data + g.size <= PageAddr(g) + Pages(g) * PageSize
  <1> DEFINE q == g.data \div PageSize
             r == g.data % PageSize
             n == g.data + g.size - PageAddr(g) + PageSize - 1
  <1>0. PageSize \in Nat \ {0}
    BY MrConstantsAssumption
  <1>1. q \in Nat /\ r \in Nat /\ r < PageSize /\ g.data = q * PageSize + r
    BY <1>0, Division
  <1>2. PageAddr(g) = q * PageSize /\ q * PageSize \in Nat
    <2>1. PageAddr(g) = g.data - r
      BY DEF PageAddr
    <2> HIDE DEF q, r
    <2>2. q * PageSize \in Nat
      BY <1>0, <1>1
    <2> QED
      BY <1>1, <2>1, <2>2
  <1>3. PageAddr(g) % PageSize = 0
    BY <1>0, <1>1, <1>2, Multiple
  <1>4. n \in Nat /\ n >= PageSize /\ n = r + g.size + PageSize - 1
    <2> HIDE DEF q, r
    <2> QED
      BY <1>0, <1>1, <1>2
  <1>5. /\ Pages(g) \in Nat /\ n % PageSize \in Nat /\ n % PageSize < PageSize
        /\ n = Pages(g) * PageSize + (n % PageSize)
    <2> HIDE DEF n
    <2>1. /\ n \div PageSize \in Nat /\ n % PageSize \in Nat /\ n % PageSize < PageSize
          /\ n = (n \div PageSize) * PageSize + (n % PageSize)
      BY <1>0, <1>4, Division
    <2> QED
      BY <2>1 DEF Pages, n
  <1> DEFINE p == Pages(g) * PageSize
  <1>6. p \in Nat
    BY <1>0, <1>5
  <1>7. p >= r + g.size /\ p > 0
    <2> HIDE DEF p, n, r
    <2> QED
      BY <1>0, <1>1, <1>4, <1>5, <1>6 DEF p
  <1>8. Pages(g) # 0
    BY <1>0, <1>5, <1>7
  <1> QED
    <2> HIDE DEF r, q, n
    <2>1. g.data + g.size <= q * PageSize + p
      BY <1>0, <1>1, <1>2, <1>6, <1>7
    <2> QED
      BY <1>0, <1>1, <1>2, <1>3, <1>5, <1>8, <2>1

LEMMA CoversSpans ==
    ASSUME NEW g, g.data \in Nat, g.size \in Nat \ {0}, NEW s \in Slot,
           s.addr % PageSize = 0, Covers(s, g)
    PROVE  Spans(g, s)
  <1> DEFINE a == s.addr \div PageSize
             b == PageAddr(g) \div PageSize
             p == Pages(g)
  <1>0. PageSize \in Nat \ {0} /\ s.addr \in Nat /\ s.pages \in Nat
    BY MrConstantsAssumption DEF Slot
  <1>1. /\ PageAddr(g) \in Nat /\ PageAddr(g) % PageSize = 0 /\ p \in Nat
        /\ PageAddr(g) <= g.data /\ g.data + g.size <= PageAddr(g) + p * PageSize
    BY PagesSpan
  <1>2. a \in Nat /\ s.addr = a * PageSize
    <2>1. a \in Nat /\ s.addr = a * PageSize + (s.addr % PageSize)
      BY <1>0, Division
    <2> QED
      BY <1>0, <2>1
  <1>3. b \in Nat /\ PageAddr(g) = b * PageSize
    <2>1. b \in Nat /\ PageAddr(g) = b * PageSize + (PageAddr(g) % PageSize)
      BY <1>0, <1>1, Division
    <2> QED
      BY <1>0, <1>1, <2>1
  <1>4. PageAddr(g) >= s.addr
    BY DEF Covers
  <1> HIDE DEF a, b, p
  <1>5. b >= a
    BY <1>0, <1>2, <1>3, <1>4
  <1>6. PageAddr(g) - s.addr = (b - a) * PageSize
    BY <1>0, <1>2, <1>3
  <1>7. (PageAddr(g) - s.addr) \div PageSize = b - a
    <2>1. b - a \in Nat
      BY <1>2, <1>3, <1>5
    <2> QED
      BY <1>0, <1>6, <2>1, Multiple
  <1>8. b - a + p <= s.pages
    BY <1>7 DEF Covers, p
  <1>9. (b - a + p) * PageSize <= s.pages * PageSize
    BY <1>0, <1>1, <1>2, <1>3, <1>5, <1>8, LargerMultiple
  <1>10. (b - a + p) * PageSize = b * PageSize - a * PageSize + p * PageSize
    BY <1>0, <1>1, <1>2, <1>3
  <1> QED
    <2>1. /\ b * PageSize \in Nat /\ a * PageSize \in Nat /\ p * PageSize \in Nat
          /\ s.pages * PageSize \in Nat
      BY <1>0, <1>1, <1>2, <1>3
    <2> QED
      BY <1>0, <1>1, <1>2, <1>3, <1>4, <1>9, <1>10, <2>1 DEF Spans

-----------------------------------------------------------------------------
(* The parts of the state *)

LEMMA MrConstants ==
    /\ IsFiniteSet(Comms) /\ IsFiniteSet(Comms \X Handles)
    /\ NDevs \in Nat \ {0} /\ MinCapacity \in Nat \ {0} /\ MaxFaults \in Nat
    /\ 1 \in Devs /\ 1 \in Handles /\ Devs \subseteq Nat
    /\ Null \notin MrIds /\ Null \notin PdIds /\ NoHandle \in Handle
  <1>1. IsFiniteSet(Handles)
    BY MrConstantsAssumption, FS_Interval DEF Handles
  <1>2. IsFiniteSet(Comms \X Handles)
    BY <1>1, MrConstantsAssumption, FS_Product
  <1>3. Null \notin MrIds /\ Null \notin PdIds
    BY DEF Null, MrIds, PdIds
  <1>4. NoHandle \in Handle
    BY DEF NoHandle, Handle
  <1>5. 1 \in Devs /\ 1 \in Handles /\ Devs \subseteq Nat
    BY MrConstantsAssumption DEF Devs, Handles
  <1> QED
    BY <1>2, <1>3, <1>4, <1>5, MrConstantsAssumption

LEMMA SlotTypes ==
    ASSUME TypeOK, NEW d \in Devs
    PROVE  /\ slots[d] \in Seq(Slot) /\ Len(slots[d]) \in Nat
           /\ \A i \in 1 .. Len(slots[d]) : slots[d][i] \in Slot
  <1>1. slots[d] \in Seq(Slot)
    BY DEF TypeOK
  <1> QED
    BY <1>1, LenProperties, ElementOfSeq

LEMMA SearchStops ==
    ASSUME TypeOK, NEW d \in Devs, NEW g
    PROVE  Search(d, g) \in 1 .. Len(slots[d]) + 1 /\ Stops(d, g, Search(d, g))
  <1> DEFINE n == Len(slots[d])
             T == {i \in 1 .. n + 1 : Stops(d, g, i)}
  <1>1. n \in Nat
    BY LenProperties DEF TypeOK
  <1>2. n + 1 \in T
    BY <1>1 DEF Stops
  <1>3. T \in SUBSET Nat
    BY <1>1
  <1>4. PICK i \in T : \A j \in T : i <= j
    BY <1>2, <1>3, LeastElement
  <1>5. \A j \in 1 .. i - 1 : ~Stops(d, g, j)
    BY <1>1, <1>4
  <1>6. \E k \in 1 .. n + 1 : Stops(d, g, k) /\ \A j \in 1 .. k - 1 : ~Stops(d, g, j)
    BY <1>4, <1>5
  <1> QED
    BY <1>6 DEF Search

LEMMA SlotOfFound ==
    ASSUME TypeOK, NEW d \in Devs, NEW m, Known(d, m)
    PROVE  SlotOf(d, m) \in 1 .. Len(slots[d]) /\ slots[d][SlotOf(d, m)].mr = m
  <1> DEFINE n == Len(slots[d])
             T == {i \in 1 .. n : slots[d][i].mr = m}
  <1>1. n \in Nat
    BY LenProperties DEF TypeOK
  <1>2. T # {} /\ T \in SUBSET Nat
    BY <1>1 DEF Known
  <1>3. PICK i \in T : \A j \in T : i <= j
    BY <1>2, LeastElement
  <1>4. \A j \in 1 .. i - 1 : slots[d][j].mr # m
    BY <1>1, <1>3
  <1>5. \E k \in 1 .. n : slots[d][k].mr = m /\ \A j \in 1 .. k - 1 : slots[d][j].mr # m
    BY <1>3, <1>4
  <1> QED
    BY <1>5 DEF SlotOf

LEMMA Inserted ==
    ASSUME NEW s \in Seq(Slot), NEW i \in 1 .. Len(s) + 1, NEW e \in Slot
    PROVE  /\ InsertAt(s, i, e) \in Seq(Slot)
           /\ Len(InsertAt(s, i, e)) = Len(s) + 1
           /\ \A j \in 1 .. Len(s) + 1 :
                 InsertAt(s, i, e)[j] = IF j < i THEN s[j]
                                        ELSE IF j = i THEN e ELSE s[j - 1]
  <1> DEFINE p == SubSeq(s, 1, i - 1)
             q == SubSeq(s, i, Len(s))
  <1>1. Len(s) \in Nat
    BY LenProperties
  <1>2. /\ p \in Seq(Slot) /\ Len(p) = i - 1
        /\ \A j \in 1 .. i - 1 : p[j] = s[j]
    BY <1>1, SubSeqProperties
  <1>3. /\ q \in Seq(Slot) /\ Len(q) = Len(s) + 1 - i
        /\ \A j \in 1 .. Len(s) + 1 - i : q[j] = s[i + j - 1]
    <2>1. CASE i <= Len(s)
      BY <1>1, <2>1, SubSeqProperties
    <2>2. CASE i = Len(s) + 1
      BY <1>1, <2>2, SubSeqProperties
    <2> QED
      BY <1>1, <2>1, <2>2
  <1> HIDE DEF p, q
  <1> DEFINE r == p \o <<e>>
  <1>4. /\ r \in Seq(Slot) /\ Len(r) = i
        /\ \A j \in 1 .. i : r[j] = IF j < i THEN s[j] ELSE e
    <2>1. <<e>> \in Seq(Slot) /\ Len(<<e>>) = 1 /\ <<e>>[1] = e
      OBVIOUS
    <2>2. /\ r \in Seq(Slot) /\ Len(r) = Len(p) + 1
          /\ \A j \in 1 .. Len(p) + 1 :
                r[j] = IF j <= Len(p) THEN p[j] ELSE <<e>>[j - Len(p)]
      BY <1>2, <2>1, ConcatProperties
    <2> HIDE DEF r
    <2>3. ASSUME NEW j \in 1 .. i PROVE r[j] = IF j < i THEN s[j] ELSE e
      BY <1>1, <1>2, <2>1, <2>2
    <2> QED
      BY <1>1, <1>2, <2>2, <2>3
  <1> HIDE DEF r
  <1>5. InsertAt(s, i, e) = r \o q
    BY DEF InsertAt, r, p, q
  <1>6. /\ r \o q \in Seq(Slot) /\ Len(r \o q) = Len(s) + 1
        /\ \A j \in 1 .. Len(s) + 1 :
              (r \o q)[j] = IF j <= i THEN r[j] ELSE q[j - i]
    <2>1. Len(r) + Len(q) = Len(s) + 1
      BY <1>1, <1>3, <1>4
    <2>2. /\ r \o q \in Seq(Slot) /\ Len(r \o q) = Len(r) + Len(q)
          /\ \A j \in 1 .. Len(r) + Len(q) :
                (r \o q)[j] = IF j <= Len(r) THEN r[j] ELSE q[j - Len(r)]
      BY <1>3, <1>4, ConcatProperties
    <2> QED
      BY <1>4, <2>1, <2>2
  <1>7. ASSUME NEW j \in 1 .. Len(s) + 1
        PROVE  (r \o q)[j] = IF j < i THEN s[j] ELSE IF j = i THEN e ELSE s[j - 1]
    <2>1. CASE j <= i
      BY <1>1, <1>4, <1>6, <2>1
    <2>2. CASE j > i
      <3>1. j - i \in 1 .. Len(s) + 1 - i /\ i + (j - i) - 1 = j - 1
        BY <1>1, <2>2
      <3>2. q[j - i] = s[i + (j - i) - 1]
        BY <1>3, <3>1
      <3> QED
        BY <1>1, <1>6, <2>2, <3>1, <3>2
    <2>3. j <= i \/ j > i
      BY <1>1
    <2> QED
      BY <2>1, <2>2, <2>3
  <1> QED
    BY <1>5, <1>6, <1>7

LEMMA Filled ==
    ASSUME NEW s \in Seq(Slot), NEW i \in 1 .. Len(s)
    PROVE  /\ FillHole(s, i) \in Seq(Slot)
           /\ Len(FillHole(s, i)) = Len(s) - 1
           /\ \A j \in 1 .. Len(s) - 1 :
                 FillHole(s, i)[j] = IF j = i THEN s[Len(s)] ELSE s[j]
  <1>1. Len(s) \in Nat
    BY LenProperties
  <1>2. \A j \in 1 .. Len(s) : s[j] \in Slot
    BY <1>1, ElementOfSeq
  <1>3. \A j \in 1 .. Len(s) - 1 : (IF j = i THEN s[Len(s)] ELSE s[j]) \in Slot
    BY <1>1, <1>2
  <1>4. Len(s) - 1 \in Nat
    BY <1>1
  <1> QED
    BY <1>3, <1>4 DEF FillHole

\* A step gives one handle another value: it may leave the holders of an MR
\* or join them.
OneHandle(c, h, b) ==
    /\ handle' \in [Comms -> [Handles -> Handle]]
    /\ handle'[c][h] = b
    /\ \A o \in Comms \ {c} : handle'[o] = handle[o]
    /\ \A k \in Comms, g \in Handles :
          (k # c \/ g # h) => handle'[k][g] = handle[k][g]
    /\ \A d \in Devs, m \in MrIds :
          Cardinality(Holders(d, m)') =
              Cardinality(Holders(d, m))
              + (IF b.mrs[d] = m THEN 1 ELSE 0)
              - (IF handle[c][h].mrs[d] = m THEN 1 ELSE 0)

LEMMA HandleChange ==
    ASSUME TypeOK, NEW c \in Comms, NEW h \in Handles, NEW b \in Handle,
           handle' = [handle EXCEPT ![c][h] = b]
    PROVE  OneHandle(c, h, b)
  <1>1. handle \in [Comms -> [Handles -> Handle]]
    BY DEF TypeOK, Handle
  <1>2. handle' \in [Comms -> [Handles -> Handle]] /\ handle'[c][h] = b
    BY <1>1
  <1>3. ASSUME NEW k \in Comms \X Handles, k # <<c, h>>
        PROVE  handle'[k[1]][k[2]] = handle[k[1]][k[2]]
    <2>1. PICK c2 \in Comms, h2 \in Handles : k = <<c2, h2>>
      OBVIOUS
    <2>2. CASE c2 # c
      BY <1>1, <2>1, <2>2
    <2>3. CASE c2 = c
      <3>1. h2 # h
        BY <1>3, <2>1, <2>3
      <3> QED
        BY <1>1, <2>1, <2>3, <3>1
    <2> QED
      BY <2>2, <2>3
  <1>4. ASSUME NEW d \in Devs, NEW m \in MrIds
        PROVE  Cardinality(Holders(d, m)') =
                    Cardinality(Holders(d, m))
                    + (IF b.mrs[d] = m THEN 1 ELSE 0)
                    - (IF handle[c][h].mrs[d] = m THEN 1 ELSE 0)
    <2> DEFINE H == Holders(d, m)
    <2>1. IsFiniteSet(H) /\ Cardinality(H) \in Nat
      <3>1. H \in SUBSET (Comms \X Handles)
        BY DEF Holders
      <3> QED
        BY <3>1, MrConstants, FS_Subset, FS_CardinalityType
    <2>2. <<c, h>> \in H <=> handle[c][h].mrs[d] = m
      BY DEF Holders
    <2>3. H' = IF b.mrs[d] = m THEN H \cup {<<c, h>>} ELSE H \ {<<c, h>>}
      <3>1. \A k : k \in H' <=> /\ k \in Comms \X Handles
                                /\ handle'[k[1]][k[2]].mrs[d] = m
        BY DEF Holders
      <3>2. \A k : k \in H <=> /\ k \in Comms \X Handles
                               /\ handle[k[1]][k[2]].mrs[d] = m
        BY DEF Holders
      <3>3. <<c, h>> \in Comms \X Handles /\ handle'[<<c, h>>[1]][<<c, h>>[2]] = b
        BY <1>2
      <3> HIDE DEF H
      <3>4. CASE b.mrs[d] = m
        <4>1. \A k : k \in H' <=> k \in H \/ k = <<c, h>>
          BY <1>3, <3>1, <3>2, <3>3, <3>4
        <4> QED
          BY <3>4, <4>1
      <3>5. CASE b.mrs[d] # m
        <4>1. \A k : k \in H' <=> k \in H /\ k # <<c, h>>
          BY <1>3, <3>1, <3>2, <3>3, <3>5
        <4> QED
          BY <3>5, <4>1
      <3> QED
        BY <3>4, <3>5
    <2> HIDE DEF H
    <2>4. /\ Cardinality(H \cup {<<c, h>>}) =
               IF <<c, h>> \in H THEN Cardinality(H) ELSE Cardinality(H) + 1
          /\ Cardinality(H \ {<<c, h>>}) =
               IF <<c, h>> \in H THEN Cardinality(H) - 1 ELSE Cardinality(H)
      BY <2>1, FS_AddElement, FS_RemoveElement
    <2>5. Cardinality(H') = Cardinality(H)
                    + (IF b.mrs[d] = m THEN 1 ELSE 0)
                    - (IF handle[c][h].mrs[d] = m THEN 1 ELSE 0)
      BY <2>1, <2>2, <2>3, <2>4
    <2> QED
      BY <2>5 DEF H
  <1>5. \A o \in Comms \ {c} : handle'[o] = handle[o]
    BY <1>1
  <1>6. \A k \in Comms, g \in Handles :
          (k # c \/ g # h) => handle'[k][g] = handle[k][g]
    BY <1>1
  <1> QED
    BY <1>2, <1>4, <1>5, <1>6 DEF OneHandle
LEMMA HoldersFinite ==
    ASSUME NEW d \in Devs, NEW m
    PROVE  IsFiniteSet(Holders(d, m)) /\ Cardinality(Holders(d, m)) \in Nat
  <1>1. Holders(d, m) \in SUBSET (Comms \X Handles)
    BY DEF Holders
  <1> QED
    BY <1>1, MrConstants, FS_Subset, FS_CardinalityType

LEMMA UsersFinite ==
    ASSUME NEW d \in Devs
    PROVE  IsFiniteSet(Users(d)) /\ Cardinality(Users(d)) \in Nat
  <1>1. Users(d) \in SUBSET Comms
    BY DEF Users
  <1> QED
    BY <1>1, MrConstants, FS_Subset, FS_CardinalityType

LEMMA CommMoves ==
    ASSUME TypeOK, NEW c \in Comms, NEW p \in Pcs, comm' = [comm EXCEPT ![c].pc = p]
    PROVE  /\ comm' \in [Comms -> CommState]
           /\ comm'[c] = [pc |-> p, dev |-> comm[c].dev, h |-> comm[c].h]
           /\ \A o \in Comms \ {c} : comm'[o] = comm[o]
  <1>1. comm \in [Comms -> CommState]
    BY DEF TypeOK, CommState, Pcs
  <1> QED
    BY <1>1 DEF CommState

LEMMA CommFails ==
    ASSUME TypeOK, NEW c \in Comms, Fail(c)
    PROVE  /\ comm' \in [Comms -> CommState]
           /\ comm'[c].pc = "failed" /\ comm'[c].dev = comm[c].dev
           /\ \A o \in Comms \ {c} : comm'[o] = comm[o]
  <1>1. "failed" \in Pcs /\ comm' = [comm EXCEPT ![c].pc = "failed"]
    BY DEF Fail, Pcs
  <1>2. /\ comm' \in [Comms -> CommState]
        /\ comm'[c] = [pc |-> "failed", dev |-> comm[c].dev, h |-> comm[c].h]
        /\ \A o \in Comms \ {c} : comm'[o] = comm[o]
    BY <1>1, CommMoves
  <1> QED
    BY <1>2

LEMMA CommLoops ==
    ASSUME TypeOK, NEW c \in Comms, NEW d \in Devs, NEW p \in Pcs, NEW q \in Pcs,
           ForEachDev(c, d, p, q)
    PROVE  /\ comm' \in [Comms -> CommState]
           /\ comm'[c] = IF d < NDevs
                         THEN [pc |-> p, dev |-> d + 1, h |-> comm[c].h]
                         ELSE [pc |-> q, dev |-> 1, h |-> 1]
           /\ \A o \in Comms \ {c} : comm'[o] = comm[o]
  <1>1. comm \in [Comms -> CommState]
    BY DEF TypeOK, CommState, Pcs
  <1>2. d < NDevs => d + 1 \in Devs
    BY MrConstants DEF Devs
  <1> QED
    BY <1>1, <1>2, MrConstants DEF ForEachDev, CommState

LEMMA UsersChange ==
    ASSUME TypeOK, NEW c \in Comms, NEW d \in Devs, NEW p \in PdIds \cup {Null},
           commPd' = [commPd EXCEPT ![c][d] = p]
    PROVE  /\ commPd' \in [Comms -> [Devs -> PdIds \cup {Null}]]
           /\ commPd'[c][d] = p
           /\ \A e \in Devs \ {d} : commPd'[c][e] = commPd[c][e]
           /\ \A o \in Comms \ {c} : commPd'[o] = commPd[o]
           /\ \A e \in Devs \ {d} : Users(e)' = Users(e)
           /\ Users(d)' = IF p # Null THEN Users(d) \cup {c} ELSE Users(d) \ {c}
           /\ Cardinality(Users(d)') = Cardinality(Users(d))
                 + (IF p # Null THEN 1 ELSE 0)
                 - (IF commPd[c][d] # Null THEN 1 ELSE 0)
  <1>1. commPd \in [Comms -> [Devs -> PdIds \cup {Null}]]
    BY DEF TypeOK
  <1>2. /\ commPd' \in [Comms -> [Devs -> PdIds \cup {Null}]]
        /\ commPd'[c][d] = p
        /\ \A e \in Devs \ {d} : commPd'[c][e] = commPd[c][e]
        /\ \A o \in Comms \ {c} : commPd'[o] = commPd[o]
    BY <1>1
  <1>3. \A e \in Devs \ {d} : Users(e)' = Users(e)
    BY <1>2 DEF Users
  <1>4. Users(d)' = IF p # Null THEN Users(d) \cup {c} ELSE Users(d) \ {c}
    BY <1>2 DEF Users
  <1>5. IsFiniteSet(Users(d)) /\ Cardinality(Users(d)) \in Nat
    BY UsersFinite
  <1>6. c \in Users(d) <=> commPd[c][d] # Null
    BY DEF Users
  <1>7. /\ Cardinality(Users(d) \cup {c}) =
              IF c \in Users(d) THEN Cardinality(Users(d)) ELSE Cardinality(Users(d)) + 1
        /\ Cardinality(Users(d) \ {c}) =
              IF c \in Users(d) THEN Cardinality(Users(d)) - 1 ELSE Cardinality(Users(d))
    BY <1>5, FS_AddElement, FS_RemoveElement
  <1>8. Cardinality(Users(d)') = Cardinality(Users(d))
                 + (IF p # Null THEN 1 ELSE 0)
                 - (IF commPd[c][d] # Null THEN 1 ELSE 0)
    BY <1>4, <1>5, <1>6, <1>7
  <1> QED
    BY <1>2, <1>3, <1>4, <1>8

-----------------------------------------------------------------------------
(* What a step leaves alone *)

LEMMA CacheKept ==
    ASSUME Counted, UNCHANGED <<slots, mrs, handle>>
    PROVE  /\ \A d \in Devs : SlotsOn(d)'
           /\ \A c \in Comms, h \in Handles, d \in Devs : HeldBy(c, h, d)'
  <1>1. ASSUME NEW d \in Devs PROVE SlotsOn(d)'
    <2>1. \A m : Holders(d, m)' = Holders(d, m)
      BY DEF Holders
    <2>2. SlotsOn(d)
      BY DEF Counted
    <2> QED
      BY <2>1, <2>2 DEF SlotsOn, SlotOn
  <1>2. ASSUME NEW c \in Comms, NEW h \in Handles, NEW d \in Devs PROVE HeldBy(c, h, d)'
    <2>1. HeldBy(c, h, d)
      BY DEF Counted
    <2> QED
      BY <2>1 DEF HeldBy, Holds, Known, Spans
  <1> QED
    BY <1>1, <1>2

LEMMA DomainsKept ==
    ASSUME Counted, UNCHANGED <<pd, pdRefs, pds, commPd>>
    PROVE  \A d \in Devs : DomainOn(d)'
  BY DEF Counted, DomainOn, Users

LEMMA ExactKept ==
    ASSUME NEW d \in Devs, ExactOn(d),
           UNCHANGED <<slots, mrs, handle, capacity, alloc, pd, pdRefs, commPd>>
    PROVE  ExactOn(d)'
  <1>1. Users(d)' = Users(d) /\ \A m : Holders(d, m)' = Holders(d, m)
    BY DEF Users, Holders
  <1> QED
    BY <1>1 DEF ExactOn, ExactSlot, Registered, Known

\* The stages of the other communicators.
LEMMA OthersKept ==
    ASSUME Counted, NEW c \in Comms,
           \A o \in Comms \ {c} : /\ comm'[o] = comm[o] /\ commPd'[o] = commPd[o]
                                  /\ handle'[o] = handle[o]
    PROVE  \A o \in Comms \ {c} : /\ HandleStage(o)' /\ DomainStage(o)'
                                  /\ ExactStage(o) => ExactStage(o)'
  <1> SUFFICES ASSUME NEW o \in Comms \ {c}
               PROVE  /\ HandleStage(o)' /\ DomainStage(o)'
                      /\ ExactStage(o) => ExactStage(o)'
    OBVIOUS
  <1>1. comm'[o] = comm[o] /\ commPd'[o] = commPd[o] /\ handle'[o] = handle[o]
    OBVIOUS
  <1>2. HandleStage(o)'
    BY <1>1 DEF Counted, HandleStage, Buffer, Whole
  <1>3. DomainStage(o)'
    BY <1>1 DEF Counted, DomainStage
  <1>4. ExactStage(o) => ExactStage(o)'
    BY <1>1 DEF ExactStage
  <1> QED
    BY <1>2, <1>3, <1>4

\* The communicators that stopped stay where they are, and so do the gpuMrs.
LEMMA StoppedKept ==
    ASSUME TypeOK, NEW c \in Comms,
           \A o \in Comms \ {c} : comm'[o] = comm[o] /\ commPd'[o] = commPd[o],
           \A d \in Devs : gpuMrs[d] \subseteq gpuMrs'[d],
           \A o \in Comms : StoppedStage(o), StoppedStage(c)'
    PROVE  \A o \in Comms : StoppedStage(o)'
  <1> SUFFICES ASSUME NEW o \in Comms \ {c} PROVE StoppedStage(o)'
    OBVIOUS
  <1>1. comm[o].dev \in Devs
    BY DEF TypeOK
  <1>2. comm'[o] = comm[o] /\ commPd'[o] = commPd[o] /\ StoppedStage(o)
    OBVIOUS
  <1>3. gpuMrs[comm[o].dev] \subseteq gpuMrs'[comm[o].dev]
    BY <1>1
  <1> QED
    BY <1>2, <1>3 DEF StoppedStage

\* Whoever holds an MR of a device is on its domain.
LEMMA HolderIsUser ==
    ASSUME TypeOK, Counted, NEW c \in Comms, NEW h \in Handles, NEW d \in Devs,
           Holds(c, h, d)
    PROVE  comm[c].pc \in {"open", "reg", "dereg"} /\ c \in Users(d)
  <1>1. handle[c][h] # NoHandle
    BY DEF Holds, NoHandle
  <1>2. comm[c].pc \in {"open", "reg", "dereg"}
    BY <1>1 DEF Counted, HandleStage
  <1> QED
    BY <1>2 DEF Counted, DomainStage, Users

LEMMA SlotHasHolder ==
    ASSUME TypeOK, Counted, NEW d \in Devs, ExactOn(d), NEW i \in 1 .. Len(slots[d])
    PROVE  \E c \in Comms, h \in Handles : Holds(c, h, d)
  <1> DEFINE m == slots[d][i].mr
  <1>1. m \in MrIds
    BY SlotTypes DEF Slot
  <1>2. Cardinality(Holders(d, m)) > 0
    BY DEF Counted, SlotsOn, SlotOn, ExactOn, ExactSlot
  <1>3. Holders(d, m) # {}
    <2> SUFFICES ASSUME Holders(d, m) = {} PROVE FALSE
      OBVIOUS
    <2>1. Cardinality(Holders(d, m)) = 0
      BY FS_EmptySet
    <2> QED
      BY <1>2, <2>1
  <1>4. PICK k \in Comms \X Handles : handle[k[1]][k[2]].mrs[d] = m
    BY <1>3 DEF Holders
  <1> QED
    BY <1>1, <1>4, MrConstants DEF Holds

-----------------------------------------------------------------------------
(* Set-up and close *)

\* Steps of a communicator that move nothing but its thread.
LEMMA MoveStep ==
    ASSUME MrInv, NEW c \in Comms, NEW p \in Pcs,
           comm' = [comm EXCEPT ![c].pc = p],
           UNCHANGED <<devVars, cacheVars, commPd, handle, heap>>,
           faults' \in 0 .. MaxFaults, faults' = 0 => faults = 0,
           \A h \in Handles : handle[c][h] = NoHandle,
           p \notin {"closed", "open", "reg", "dereg", "init_pd", "init_cq"},
           p = "close" => comm[c].pc = "open",
           p = "failed" => faults' # 0
    PROVE  MrInv'
  <1>1. /\ comm' \in [Comms -> CommState]
        /\ comm'[c] = [pc |-> p, dev |-> comm[c].dev, h |-> comm[c].h]
        /\ \A o \in Comms \ {c} : comm'[o] = comm[o]
    BY CommMoves DEF MrInv
  <1>2. TypeOK'
    BY <1>1 DEF MrInv, TypeOK, devVars, cacheVars, CommState, Pcs
  <1>3. Counted'
    <2>1. /\ \A d \in Devs : SlotsOn(d)' /\ DomainOn(d)'
          /\ \A k \in Comms, h \in Handles, d \in Devs : HeldBy(k, h, d)'
      BY CacheKept, DomainsKept DEF MrInv, devVars, cacheVars
    <2>2. \A o \in Comms \ {c} : HandleStage(o)' /\ DomainStage(o)'
      BY <1>1, OthersKept DEF MrInv
    <2>3. HandleStage(c)'
      BY <1>1 DEF HandleStage
    <2>4. DomainStage(c)'
      <3>1. DomainStage(c)
        BY DEF MrInv, Counted
      <3> QED
        BY <1>1, <3>1 DEF DomainStage
    <2> QED
      BY <2>1, <2>2, <2>3, <2>4 DEF Counted
  <1>4. ASSUME faults' = 0 PROVE Exact'
    <2>1. Exact
      BY <1>4 DEF MrInv
    <2>2. \A d \in Devs : ExactOn(d)'
      BY <2>1, ExactKept DEF Exact, devVars, cacheVars
    <2>3. \A o \in Comms \ {c} : ExactStage(o)'
      BY <1>1, <2>1, OthersKept DEF MrInv, Exact
    <2>4. ExactStage(c)'
      <3>1. p = "close"
        BY <1>4 DEF Pcs
      <3>2. comm[c].pc = "open" /\ DomainStage(c)
        BY <3>1 DEF MrInv, Counted
      <3>3. \A d \in Devs : d >= comm[c].dev
        BY <3>2 DEF DomainStage, Devs
      <3> QED
        BY <1>1, <3>1, <3>2, <3>3 DEF ExactStage, DomainStage
    <2> QED
      BY <2>1, <2>2, <2>3, <2>4 DEF Exact
  <1>5. ASSUME faults' = 0 PROVE Releases'
    <2>1. Releases /\ TypeOK
      BY <1>5 DEF MrInv
    <2>2. StoppedStage(c)'
      BY <1>1, <1>5 DEF StoppedStage
    <2>3. \A o \in Comms : StoppedStage(o)'
      BY <1>1, <2>1, <2>2, StoppedKept DEF Releases, devVars
    <2> QED
      BY <2>1, <2>3 DEF Releases, ReleasedOn, devVars
  <1> QED
    BY <1>2, <1>3, <1>4, <1>5 DEF MrInv

LEMMA FaultCounts ==
    ASSUME TypeOK, InjectFault
    PROVE  faults' \in 0 .. MaxFaults /\ faults' # 0
  BY MrConstants DEF TypeOK, InjectFault

LEMMA CloseStep ==
    ASSUME MrInv, NEW c \in Comms, Close(c)
    PROVE  MrInv'
  <1>1. \A h \in Handles : handle[c][h] = NoHandle
    BY DEF Close
  <1>2. faults' \in 0 .. MaxFaults /\ faults' = faults
    BY DEF MrInv, TypeOK, Close
  <1> QED
    BY <1>1, <1>2, MoveStep DEF Close, At, Pcs

LEMMA InitCqFailsStep ==
    ASSUME MrInv, NEW c \in Comms, InitCqFails(c) \/ DestroyCqFails(c)
    PROVE  MrInv'
  <1>1. faults' \in 0 .. MaxFaults /\ faults' # 0
    BY FaultCounts DEF MrInv, InitCqFails, DestroyCqFails
  <1>2. comm[c].pc \in {"init_cq", "close"}
    BY DEF InitCqFails, DestroyCqFails, At
  <1>3. \A h \in Handles : handle[c][h] = NoHandle
    BY <1>2 DEF MrInv, Counted, HandleStage
  <1> QED
    BY <1>1, <1>3, MoveStep DEF InitCqFails, DestroyCqFails, Fail, Pcs

LEMMA InitPdStep ==
    ASSUME MrInv, NEW c \in Comms, InitPd(c)
    PROVE  MrInv'
  <1>1. PICK d \in Devs :
          /\ At(c, "closed", d) \/ At(c, "init_pd", d)
          /\ pdRefs' = [pdRefs EXCEPT ![d] = CountRef(@)]
          /\ IF pdRefs[d] = 0
             THEN \E p \in PdIds : /\ Fresh(pds[d], PdIds, p)
                                   /\ pds' = [pds EXCEPT ![d] = @ \cup {p}]
                                   /\ pd' = [pd EXCEPT ![d] = p]
             ELSE UNCHANGED <<pd, pds>>
          /\ commPd' = [commPd EXCEPT ![c][d] = pd'[d]]
          /\ comm' = [comm EXCEPT ![c].pc = "init_cq"]
          /\ UNCHANGED <<gpuMrs, cacheVars, handle, heap, faults>>
    BY DEF InitPd
  <1>2. TypeOK /\ Counted
    BY DEF MrInv
  <1>3. /\ comm' \in [Comms -> CommState]
        /\ comm'[c] = [pc |-> "init_cq", dev |-> d, h |-> comm[c].h]
        /\ \A o \in Comms \ {c} : comm'[o] = comm[o]
    BY <1>1, <1>2, CommMoves DEF Pcs, At
  <1>4. /\ pdRefs' \in [Devs -> Nat] /\ pdRefs'[d] = pdRefs[d] + 1
        /\ \A e \in Devs \ {d} : pdRefs'[e] = pdRefs[e]
        /\ pdRefs[d] \in Nat
    BY <1>1, <1>2 DEF TypeOK, CountRef
  <1>5. /\ pd' \in [Devs -> PdIds \cup {Null}] /\ pds' \in [Devs -> SUBSET PdIds]
        /\ \A e \in Devs \ {d} : pd'[e] = pd[e] /\ pds'[e] = pds[e]
        /\ pdRefs[d] = 0 => pd'[d] \in PdIds /\ pds'[d] = pds[d] \cup {pd'[d]}
        /\ pdRefs[d] # 0 => pd'[d] = pd[d] /\ pds'[d] = pds[d]
    <2>1. pd \in [Devs -> PdIds \cup {Null}] /\ pds \in [Devs -> SUBSET PdIds]
      BY <1>2 DEF TypeOK
    <2>2. CASE pdRefs[d] = 0
      <3>1. PICK p \in PdIds : /\ pds' = [pds EXCEPT ![d] = @ \cup {p}]
                               /\ pd' = [pd EXCEPT ![d] = p]
        BY <1>1, <2>2
      <3> QED
        BY <2>1, <2>2, <3>1
    <2>3. CASE pdRefs[d] # 0
      BY <1>1, <2>1, <2>3
    <2> QED
      BY <2>2, <2>3
  <1>6. pd'[d] \in PdIds \cup {Null}
    BY <1>5
  <1>7. /\ commPd' \in [Comms -> [Devs -> PdIds \cup {Null}]]
        /\ commPd'[c][d] = pd'[d]
        /\ \A e \in Devs \ {d} : commPd'[c][e] = commPd[c][e]
        /\ \A o \in Comms \ {c} : commPd'[o] = commPd[o]
        /\ \A e \in Devs \ {d} : Users(e)' = Users(e)
        /\ Users(d)' = IF pd'[d] # Null THEN Users(d) \cup {c} ELSE Users(d) \ {c}
        /\ Cardinality(Users(d)') = Cardinality(Users(d))
              + (IF pd'[d] # Null THEN 1 ELSE 0)
              - (IF commPd[c][d] # Null THEN 1 ELSE 0)
    BY <1>1, <1>2, <1>6, UsersChange
  <1>8. IsFiniteSet(Users(d)) /\ Cardinality(Users(d)) \in Nat
    BY UsersFinite
  <1>9. pdRefs[d] = 0 => Users(d) = {}
    <2>1. pdRefs[d] = 0 => Cardinality(Users(d)) = 0
      BY <1>2, <1>8 DEF Counted, DomainOn
    <2> QED
      BY <1>8, <2>1, FS_EmptySet
  <1>10. TypeOK'
    BY <1>1, <1>2, <1>3, <1>4, <1>5, <1>7 DEF TypeOK, cacheVars, CommState, Pcs
  <1>11. Counted'
    <2>1. /\ \A e \in Devs : SlotsOn(e)'
          /\ \A k \in Comms, h \in Handles, e \in Devs : HeldBy(k, h, e)'
      BY <1>1, <1>2, CacheKept DEF cacheVars
    <2>2. \A o \in Comms \ {c} : HandleStage(o)' /\ DomainStage(o)'
      BY <1>1, <1>2, <1>3, <1>7, OthersKept
    <2>3. HandleStage(c)' /\ DomainStage(c)'
      <3>1. HandleStage(c) /\ comm[c].pc \in {"closed", "init_pd"}
        BY <1>1, <1>2 DEF Counted, At
      <3>2. \A h \in Handles : handle'[c][h] = NoHandle
        BY <1>1, <3>1 DEF HandleStage
      <3> QED
        BY <1>3, <3>2 DEF HandleStage, DomainStage
    <2>4. ASSUME NEW e \in Devs PROVE DomainOn(e)'
      <3>1. DomainOn(e)
        BY <1>2 DEF Counted
      <3>2. CASE e # d
        <4>1. /\ Users(e)' = Users(e) /\ pd'[e] = pd[e] /\ pds'[e] = pds[e]
              /\ pdRefs'[e] = pdRefs[e]
              /\ \A k \in Comms : commPd'[k][e] = commPd[k][e]
          BY <1>4, <1>5, <1>7, <3>2
        <4>2. \A k \in Users(e) : k \in Comms
          BY DEF Users
        <4> QED
          BY <3>1, <4>1, <4>2 DEF DomainOn
      <3>3. CASE e = d /\ pdRefs[d] = 0
        <4>1. Users(d)' = {c} /\ Cardinality(Users(d)') <= 1
          <5>1. pd'[d] # Null
            BY <1>5, <3>3, MrConstants
          <5>2. Users(d) = {} /\ Cardinality(Users(d)) = 0
            BY <1>9, <3>3, FS_EmptySet
          <5> QED
            BY <1>7, <5>1, <5>2
        <4> QED
          <5>1. pdRefs'[d] = 1 /\ pd'[d] \in pds'[d] /\ commPd'[c][d] = pd'[d]
            BY <1>4, <1>5, <1>7, <3>3
          <5>2. DomainOn(d)'
            BY <4>1, <5>1 DEF DomainOn
          <5> QED
            BY <3>3, <5>2
      <3>4. CASE e = d /\ pdRefs[d] # 0
        <4>1. pd'[d] = pd[d] /\ pds'[d] = pds[d]
          BY <1>5, <3>4
        <4>2. pd[d] \in pds[d] \cup {Null}
          BY <1>4, <3>1, <3>4 DEF DomainOn
        <4>3. Cardinality(Users(d)') <= Cardinality(Users(d)) + 1
          BY <1>7, <1>8
        <4>4. ASSUME NEW k \in Users(d)' PROVE commPd'[k][d] = pd[d] /\ pd[d] \in pds[d]
          <5>1. CASE k = c
            <6>1. pd'[d] # Null
              BY <1>7, <5>1 DEF Users
            <6> QED
              BY <1>7, <4>1, <4>2, <5>1, <6>1
          <5>2. CASE k # c
            <6>1. k \in Users(d) /\ k \in Comms
              BY <1>7, <5>2 DEF Users
            <6> QED
              BY <1>7, <3>1, <3>4, <5>2, <6>1 DEF DomainOn
          <5> QED
            BY <5>1, <5>2
        <4>5. pdRefs'[d] >= Cardinality(Users(d)') /\ pdRefs'[d] > 0
          <5>1. Cardinality(Users(d)') \in Int
            BY <1>7, <1>8
          <5> QED
            BY <1>4, <1>8, <3>1, <3>4, <4>3, <5>1 DEF DomainOn
        <4> QED
          BY <3>4, <4>1, <4>2, <4>4, <4>5 DEF DomainOn
      <3> QED
        BY <3>2, <3>3, <3>4
    <2> QED
      BY <2>1, <2>2, <2>3, <2>4 DEF Counted
  <1>12. ASSUME faults' = 0 PROVE Exact'
    <2>1. Exact
      BY <1>1, <1>12 DEF MrInv
    <2>2. commPd[c][d] = Null /\ \A e \in Devs : (commPd[c][e] # Null) <=> e < d
      <3>1. ExactStage(c) /\ comm[c].pc \in {"closed", "init_pd"} /\ comm[c].dev = d
        BY <1>1, <2>1 DEF Exact, At
      <3> QED
        BY <3>1, MrConstants DEF ExactStage
    <2>3. pd'[d] # Null
      <3>1. CASE pdRefs[d] = 0
        BY <1>5, <3>1, MrConstants
      <3>2. CASE pdRefs[d] # 0
        <4>1. Cardinality(Users(d)) # 0
          BY <2>1, <3>2 DEF Exact, ExactOn
        <4>2. PICK k \in Users(d) : TRUE
          BY <1>8, <4>1, FS_EmptySet
        <4>3. commPd[k][d] = pd[d] /\ commPd[k][d] # Null
          BY <1>2, <4>2 DEF Counted, DomainOn, Users
        <4> QED
          BY <1>5, <3>2, <4>3
      <3> QED
        BY <3>1, <3>2
    <2>4. ASSUME NEW e \in Devs PROVE ExactOn(e)'
      <3>1. ExactOn(e)
        BY <2>1 DEF Exact
      <3>2. /\ capacity'[e] = alloc'[e] /\ Len(slots'[e]) <= alloc'[e]
            /\ Len(slots'[e]) = 0 => capacity'[e] = 0
            /\ \A m \in Registered(e)' : Known(e, m)'
        BY <1>1, <3>1 DEF ExactOn, cacheVars, Registered, Known
      <3>3. pdRefs'[e] = Cardinality(Users(e)')
        <4>1. CASE e = d
          <5>1. Cardinality(Users(d)') = Cardinality(Users(d)) + 1
            BY <1>7, <1>8, <2>2, <2>3
          <5>2. pdRefs[d] = Cardinality(Users(d))
            BY <3>1, <4>1 DEF ExactOn
          <5> QED
            BY <1>4, <4>1, <5>1, <5>2
        <4>2. CASE e # d
          BY <1>4, <1>7, <3>1, <4>2 DEF ExactOn
        <4> QED
          BY <4>1, <4>2
      <3>4. ASSUME NEW i \in 1 .. Len(slots[e]) PROVE ExactSlot(e, slots[e][i])'
        <4>1. pd'[e] = pd[e]
          <5>1. CASE e = d
            <6>1. PICK k \in Comms, h \in Handles : Holds(k, h, d)
              BY <1>2, <3>1, <5>1, SlotHasHolder
            <6>2. k \in Users(d)
              BY <1>2, <6>1, HolderIsUser
            <6>3. pdRefs[d] # 0
              BY <1>9, <6>2
            <6> QED
              BY <1>5, <5>1, <6>3
          <5>2. CASE e # d
            BY <1>5, <5>2
          <5> QED
            BY <5>1, <5>2
        <4>2. ExactSlot(e, slots[e][i])
          BY <3>1 DEF ExactOn
        <4> QED
          BY <1>1, <4>1, <4>2 DEF ExactSlot, Holders, cacheVars
      <3>5. \A i \in 1 .. Len(slots'[e]) : ExactSlot(e, slots[e][i])'
        BY <1>1, <3>4 DEF cacheVars
      <3> QED
        BY <3>2, <3>3, <3>5 DEF ExactOn
    <2>5. \A o \in Comms \ {c} : ExactStage(o)'
      BY <1>1, <1>2, <1>3, <1>7, <2>1, OthersKept DEF Exact
    <2>6. ExactStage(c)'
      <3>1. \A e \in Devs : (commPd'[c][e] # Null) <=> e <= d
        BY <1>7, <2>2, <2>3, MrConstants
      <3> QED
        BY <1>3, <3>1 DEF ExactStage
    <2> QED
      BY <1>1, <2>1, <2>4, <2>5, <2>6 DEF Exact
  <1>13. ASSUME faults' = 0 PROVE Releases'
    <2>1. Releases
      BY <1>1, <1>13 DEF MrInv
    <2>2. ASSUME NEW e \in Devs PROVE ReleasedOn(e)'
      <3>1. ReleasedOn(e) /\ gpuMrs'[e] = gpuMrs[e]
        BY <1>1, <2>1 DEF Releases
      <3>2. CASE e # d
        BY <1>4, <1>5, <3>1, <3>2 DEF ReleasedOn
      <3>3. CASE e = d
        <4>1. pdRefs'[d] # 0
          BY <1>4
        <4>2. CASE pdRefs[d] = 0
          BY <1>5, <3>1, <3>3, <4>1, <4>2 DEF ReleasedOn
        <4>3. CASE pdRefs[d] # 0
          BY <1>5, <3>1, <3>3, <4>1, <4>3 DEF ReleasedOn
        <4> QED
          BY <4>2, <4>3
      <3> QED
        BY <3>2, <3>3
    <2>3. StoppedStage(c)'
      BY <1>3 DEF StoppedStage
    <2>4. \A o \in Comms : StoppedStage(o)'
      BY <1>1, <1>2, <1>3, <1>7, <2>1, <2>3, StoppedKept DEF Releases
    <2> QED
      BY <2>2, <2>4 DEF Releases
  <1> QED
    BY <1>10, <1>11, <1>12, <1>13 DEF MrInv

LEMMA InitPdFailsStep ==
    ASSUME MrInv, NEW c \in Comms, InitPdFails(c)
    PROVE  MrInv'
  <1>1. PICK d \in Devs :
          /\ At(c, "closed", d) \/ At(c, "init_pd", d)
          /\ pdRefs[d] = 0
          /\ pdRefs' = [pdRefs EXCEPT ![d] = CountRef(@)]
          /\ pd' = [pd EXCEPT ![d] = Null]
    BY DEF InitPdFails
  <1>2. TypeOK /\ Counted
    BY DEF MrInv
  <1>3. UNCHANGED <<pds, gpuMrs, cacheVars, commPd, handle, heap>>
    BY DEF InitPdFails
  <1>4. faults' \in 0 .. MaxFaults /\ faults' # 0
    BY <1>2, FaultCounts DEF InitPdFails
  <1>5. /\ comm' \in [Comms -> CommState]
        /\ comm'[c] = [pc |-> "failed", dev |-> comm[c].dev, h |-> comm[c].h]
        /\ \A o \in Comms \ {c} : comm'[o] = comm[o]
    BY <1>2, CommMoves DEF Pcs, InitPdFails, Fail
  <1>6. /\ pdRefs' \in [Devs -> Nat] /\ pdRefs'[d] = 1
        /\ \A e \in Devs \ {d} : pdRefs'[e] = pdRefs[e] /\ pd'[e] = pd[e]
        /\ pd' \in [Devs -> PdIds \cup {Null}] /\ pd'[d] = Null
    BY <1>1, <1>2 DEF TypeOK, CountRef
  <1>7. TypeOK'
    BY <1>2, <1>3, <1>4, <1>5, <1>6 DEF TypeOK, cacheVars, CommState, Pcs
  <1>8. Counted'
    <2>1. /\ \A e \in Devs : SlotsOn(e)'
          /\ \A k \in Comms, h \in Handles, e \in Devs : HeldBy(k, h, e)'
      BY <1>2, <1>3, CacheKept DEF cacheVars
    <2>2. \A o \in Comms \ {c} : HandleStage(o)' /\ DomainStage(o)'
      BY <1>2, <1>3, <1>5, OthersKept
    <2>3. HandleStage(c)' /\ DomainStage(c)'
      <3>1. HandleStage(c) /\ comm[c].pc \in {"closed", "init_pd"}
        BY <1>1, <1>2 DEF Counted, At
      <3>2. \A h \in Handles : handle'[c][h] = NoHandle
        BY <1>3, <3>1 DEF HandleStage
      <3> QED
        BY <1>5, <3>2 DEF HandleStage, DomainStage
    <2>4. ASSUME NEW e \in Devs PROVE DomainOn(e)'
      <3>1. DomainOn(e) /\ Users(e)' = Users(e)
        BY <1>2, <1>3 DEF Counted, Users
      <3>2. CASE e # d
        BY <1>3, <1>6, <3>1, <3>2 DEF DomainOn
      <3>3. CASE e = d
        <4>1. IsFiniteSet(Users(d)) /\ Cardinality(Users(d)) \in Nat
          BY UsersFinite
        <4>2. Cardinality(Users(d)) = 0
          BY <1>1, <3>1, <3>3, <4>1 DEF DomainOn
        <4>3. Users(d) = {}
          BY <4>1, <4>2, FS_EmptySet
        <4> QED
          BY <1>6, <3>1, <3>3, <4>2, <4>3 DEF DomainOn
      <3> QED
        BY <3>2, <3>3
    <2> QED
      BY <2>1, <2>2, <2>3, <2>4 DEF Counted
  <1> QED
    BY <1>4, <1>7, <1>8 DEF MrInv

LEMMA InitCqStep ==
    ASSUME MrInv, NEW c \in Comms, InitCq(c)
    PROVE  MrInv'
  <1>1. PICK d \in Devs :
          /\ At(c, "init_cq", d)
          /\ d = NDevs => \A e \in Devs : commPd[c][e] # Null
          /\ ForEachDev(c, d, "init_pd", "open")
          /\ gpuMrs' = IF d = NDevs /\ c \in FlushComms
                       THEN [e \in Devs |-> gpuMrs[e] \cup {commPd[c][e]}]
                       ELSE gpuMrs
          /\ UNCHANGED <<pd, pdRefs, pds, cacheVars, commPd, handle, heap, faults>>
    BY DEF InitCq
  <1>2. TypeOK /\ Counted
    BY DEF MrInv
  <1>3. /\ comm' \in [Comms -> CommState]
        /\ \A o \in Comms \ {c} : comm'[o] = comm[o]
        /\ \/ d < NDevs /\ comm'[c].pc = "init_pd" /\ comm'[c].dev = d + 1
           \/ d = NDevs /\ comm'[c].pc = "open" /\ comm'[c].dev = 1
    <2>1. /\ comm' \in [Comms -> CommState]
          /\ comm'[c] = IF d < NDevs
                        THEN [pc |-> "init_pd", dev |-> d + 1, h |-> comm[c].h]
                        ELSE [pc |-> "open", dev |-> 1, h |-> 1]
          /\ \A o \in Comms \ {c} : comm'[o] = comm[o]
      BY <1>1, <1>2, CommLoops DEF Pcs
    <2>2. d < NDevs \/ d = NDevs
      BY MrConstants DEF Devs
    <2> QED
      BY <2>1, <2>2, MrConstants
  <1>4. /\ gpuMrs' \in [Devs -> SUBSET PdIds]
        /\ \A e \in Devs :
              \/ gpuMrs'[e] = gpuMrs[e]
              \/ d = NDevs /\ gpuMrs'[e] = gpuMrs[e] \cup {commPd[c][e]}
    <2>1. gpuMrs \in [Devs -> SUBSET PdIds] /\ commPd[c] \in [Devs -> PdIds \cup {Null}]
      BY <1>2 DEF TypeOK
    <2>2. CASE d = NDevs /\ c \in FlushComms
      <3>1. gpuMrs' = [e \in Devs |-> gpuMrs[e] \cup {commPd[c][e]}]
        BY <1>1, <2>2
      <3>2. \A e \in Devs : commPd[c][e] \in PdIds
        BY <1>1, <2>1, <2>2
      <3> QED
        BY <2>1, <2>2, <3>1, <3>2
    <2>3. CASE ~(d = NDevs /\ c \in FlushComms)
      BY <1>1, <2>1, <2>3
    <2> QED
      BY <2>2, <2>3
  <1>5. TypeOK'
    BY <1>1, <1>2, <1>3, <1>4 DEF TypeOK, cacheVars, CommState, Pcs
  <1>6. Counted'
    <2>1. /\ \A e \in Devs : SlotsOn(e)' /\ DomainOn(e)'
          /\ \A k \in Comms, h \in Handles, e \in Devs : HeldBy(k, h, e)'
      BY <1>1, <1>2, CacheKept, DomainsKept DEF cacheVars
    <2>2. \A o \in Comms \ {c} : HandleStage(o)' /\ DomainStage(o)'
      BY <1>1, <1>2, <1>3, OthersKept
    <2>3. HandleStage(c)' /\ DomainStage(c)'
      <3>1. HandleStage(c) /\ comm[c].pc = "init_cq"
        BY <1>1, <1>2 DEF Counted, At
      <3>2. \A h \in Handles : handle'[c][h] = NoHandle
        BY <1>1, <3>1 DEF HandleStage
      <3>3. comm'[c].pc = "open" => /\ comm'[c].dev = 1
                                    /\ \A e \in Devs : commPd[c][e] # Null
        BY <1>1, <1>3
      <3>4. comm'[c].pc \in {"init_pd", "open"}
        BY <1>3
      <3>5. commPd' = commPd
        BY <1>1
      <3> QED
        BY <3>2, <3>3, <3>4, <3>5 DEF HandleStage, DomainStage
    <2> QED
      BY <2>1, <2>2, <2>3 DEF Counted
  <1>7. ASSUME faults' = 0 PROVE Exact'
    <2>1. Exact /\ faults = 0
      BY <1>1, <1>7 DEF MrInv
    <2>2. \A e \in Devs : ExactOn(e)'
      BY <1>1, <2>1, ExactKept DEF Exact, cacheVars
    <2>3. \A o \in Comms \ {c} : ExactStage(o)'
      BY <1>1, <1>2, <1>3, <2>1, OthersKept DEF Exact
    <2>4. ExactStage(c)'
      <3>1. ExactStage(c) /\ comm[c].pc = "init_cq" /\ comm[c].dev = d
        BY <1>1, <2>1 DEF Exact, At
      <3>2. \A e \in Devs : (commPd[c][e] # Null) <=> e < d + 1
        BY <3>1, MrConstants DEF ExactStage
      <3>3. commPd' = commPd
        BY <1>1
      <3> QED
        BY <1>3, <3>2, <3>3 DEF ExactStage
    <2> QED
      BY <1>1, <2>1, <2>2, <2>3, <2>4 DEF Exact
  <1>8. ASSUME faults' = 0 PROVE Releases'
    <2>1. Releases /\ Exact
      BY <1>1, <1>8 DEF MrInv
    <2>2. StoppedStage(c)'
      BY <1>3 DEF StoppedStage
    <2>3. \A e \in Devs : gpuMrs[e] \subseteq gpuMrs'[e]
      BY <1>4
    <2>4. \A o \in Comms : StoppedStage(o)'
      BY <1>1, <1>2, <1>3, <2>1, <2>2, <2>3, StoppedKept DEF Releases
    <2>5. ASSUME NEW e \in Devs PROVE ReleasedOn(e)'
      <3>1. ReleasedOn(e)
        BY <2>1 DEF Releases
      <3>2. CASE gpuMrs'[e] = gpuMrs[e]
        BY <1>1, <3>1, <3>2 DEF ReleasedOn
      <3>3. CASE d = NDevs /\ gpuMrs'[e] = gpuMrs[e] \cup {commPd[c][e]}
        <4>1. c \in Users(e)
          BY <1>1, <3>3 DEF Users
        <4>2. commPd[c][e] = pd[e] /\ pd[e] \in pds[e]
          BY <1>2, <4>1 DEF Counted, DomainOn
        <4>3. IsFiniteSet(Users(e)) /\ pdRefs[e] = Cardinality(Users(e))
          BY <2>1, UsersFinite DEF Exact, ExactOn
        <4>4. pdRefs[e] # 0
          BY <4>1, <4>3, FS_EmptySet
        <4> QED
          BY <1>1, <3>1, <3>3, <4>2, <4>4 DEF ReleasedOn
      <3> QED
        BY <1>4, <3>2, <3>3
    <2> QED
      BY <2>4, <2>5 DEF Releases
  <1> QED
    BY <1>5, <1>6, <1>7, <1>8 DEF MrInv

LEMMA UseNullPdStep ==
    ASSUME MrInv, NEW c \in Comms, UseNullPd(c)
    PROVE  MrInv'
  <1>1. /\ At(c, "init_cq", NDevs) /\ heap' = "crashed"
        /\ UNCHANGED <<devVars, cacheVars, comm, commPd, handle, faults>>
    BY DEF UseNullPd
  <1>2. PICK d \in Devs : commPd[c][d] = Null
    BY DEF UseNullPd
  <1>3. TypeOK /\ Counted
    BY DEF MrInv
  <1>4. faults # 0
    <2> SUFFICES ASSUME faults = 0 PROVE FALSE
      OBVIOUS
    <2>1. ExactStage(c) /\ comm[c].pc = "init_cq" /\ comm[c].dev = NDevs
      BY <1>1 DEF MrInv, Exact, At
    <2> QED
      BY <1>2, <2>1, MrConstants DEF ExactStage, Devs
  <1>5. TypeOK'
    BY <1>1, <1>3 DEF TypeOK, devVars, cacheVars
  <1>6. Counted'
    <2>1. \A e \in Devs : DomainOn(e)' /\ SlotsOn(e)'
      BY <1>1, <1>3, CacheKept, DomainsKept DEF devVars, cacheVars
    <2>2. \A k \in Comms, h \in Handles, e \in Devs : HeldBy(k, h, e)'
      BY <1>1, <1>3, CacheKept DEF cacheVars
    <2>3. \A k \in Comms : HandleStage(k)' /\ DomainStage(k)'
      BY <1>1, <1>3 DEF Counted, HandleStage, DomainStage, Whole, Buffer
    <2> QED
      BY <2>1, <2>2, <2>3 DEF Counted
  <1> QED
    BY <1>1, <1>4, <1>5, <1>6 DEF MrInv

LEMMA DestroyBaseStep ==
    ASSUME MrInv, NEW c \in Comms, DestroyBase(c)
    PROVE  MrInv'
  <1>1. PICK d \in Devs :
          /\ At(c, "close", d)
          /\ pdRefs' = [pdRefs EXCEPT ![d] = @ - 1]
          /\ commPd' = [commPd EXCEPT ![c][d] = Null]
          /\ IF pdRefs[d] = 1 /\ Busy(d)
             THEN Fail(c) /\ UNCHANGED pds
             ELSE /\ ForEachDev(c, d, "close", "closed")
                  /\ pds' = IF pdRefs[d] = 1 THEN [pds EXCEPT ![d] = @ \ {pd[d]}]
                            ELSE pds
          /\ UNCHANGED <<pd, gpuMrs, cacheVars, handle, heap, faults>>
    BY DEF DestroyBase
  <1>2. TypeOK /\ Counted
    BY DEF MrInv
  <1>3. /\ comm' \in [Comms -> CommState]
        /\ \A o \in Comms \ {c} : comm'[o] = comm[o]
        /\ \/ pdRefs[d] = 1 /\ Busy(d) /\ comm'[c].pc = "failed" /\ comm'[c].dev = d
           \/ d < NDevs /\ comm'[c].pc = "close" /\ comm'[c].dev = d + 1
           \/ d = NDevs /\ comm'[c].pc = "closed" /\ comm'[c].dev = 1
    <2>1. CASE pdRefs[d] = 1 /\ Busy(d)
      <3>1. Fail(c) /\ comm[c].dev = d
        BY <1>1, <2>1 DEF At
      <3> QED
        BY <1>2, <2>1, <3>1, CommFails
    <2>2. CASE ~(pdRefs[d] = 1 /\ Busy(d))
      <3>1. ForEachDev(c, d, "close", "closed")
        BY <1>1, <2>2
      <3>2. /\ comm' \in [Comms -> CommState]
            /\ comm'[c] = IF d < NDevs
                          THEN [pc |-> "close", dev |-> d + 1, h |-> comm[c].h]
                          ELSE [pc |-> "closed", dev |-> 1, h |-> 1]
            /\ \A o \in Comms \ {c} : comm'[o] = comm[o]
        BY <1>2, <3>1, CommLoops DEF Pcs
      <3>3. d < NDevs \/ d = NDevs
        BY MrConstants DEF Devs
      <3> QED
        BY <3>2, <3>3, MrConstants
    <2> QED
      BY <2>1, <2>2
  <1>4. /\ commPd' \in [Comms -> [Devs -> PdIds \cup {Null}]]
        /\ commPd'[c][d] = Null
        /\ \A e \in Devs \ {d} : commPd'[c][e] = commPd[c][e]
        /\ \A o \in Comms \ {c} : commPd'[o] = commPd[o]
        /\ \A e \in Devs \ {d} : Users(e)' = Users(e)
        /\ Users(d)' = Users(d) \ {c}
        /\ Cardinality(Users(d)') = Cardinality(Users(d))
              - (IF commPd[c][d] # Null THEN 1 ELSE 0)
    <2>1. /\ commPd' \in [Comms -> [Devs -> PdIds \cup {Null}]]
          /\ commPd'[c][d] = Null
          /\ \A e \in Devs \ {d} : commPd'[c][e] = commPd[c][e]
          /\ \A o \in Comms \ {c} : commPd'[o] = commPd[o]
          /\ \A e \in Devs \ {d} : Users(e)' = Users(e)
          /\ Users(d)' = IF Null # Null THEN Users(d) \cup {c} ELSE Users(d) \ {c}
          /\ Cardinality(Users(d)') = Cardinality(Users(d))
                + (IF Null # Null THEN 1 ELSE 0)
                - (IF commPd[c][d] # Null THEN 1 ELSE 0)
      BY <1>1, <1>2, UsersChange
    <2> QED
      BY <2>1, UsersFinite
  <1>5. DomainStage(c) /\ comm[c].pc = "close" /\ comm[c].dev = d
    BY <1>1, <1>2 DEF Counted, At
  <1>6. commPd[c][d] # Null /\ c \in Users(d)
    BY <1>5, MrConstants DEF DomainStage, Users
  <1>7. /\ IsFiniteSet(Users(d)) /\ Cardinality(Users(d)) \in Nat
        /\ Cardinality(Users(d)') = Cardinality(Users(d)) - 1
        /\ IsFiniteSet(Users(d)') /\ Cardinality(Users(d)) >= 1
    <2>1. IsFiniteSet(Users(d)) /\ Cardinality(Users(d)) \in Nat
      BY UsersFinite
    <2>2. IsFiniteSet(Users(d)')
      BY <1>4, <2>1, FS_RemoveElement
    <2>3. Cardinality(Users(d)) # 0
      BY <1>6, <2>1, FS_EmptySet
    <2> QED
      BY <1>4, <1>6, <2>1, <2>2, <2>3
  <1>8. /\ pdRefs[d] \in Nat /\ pdRefs[d] >= Cardinality(Users(d))
        /\ pdRefs' \in [Devs -> Nat] /\ pdRefs'[d] = pdRefs[d] - 1
        /\ \A e \in Devs \ {d} : pdRefs'[e] = pdRefs[e]
    <2>1. pdRefs \in [Devs -> Nat] /\ pdRefs[d] >= Cardinality(Users(d))
      BY <1>2 DEF TypeOK, Counted, DomainOn
    <2>2. pdRefs[d] - 1 \in Nat
      BY <1>7, <2>1
    <2> QED
      BY <1>1, <2>1, <2>2
  <1>9. /\ pds' \in [Devs -> SUBSET PdIds]
        /\ \A e \in Devs \ {d} : pds'[e] = pds[e]
        /\ pdRefs[d] # 1 => pds'[d] = pds[d]
        /\ pdRefs[d] = 1 /\ ~Busy(d) => pds'[d] = pds[d] \ {pd[d]}
    <2>1. pds \in [Devs -> SUBSET PdIds]
      BY <1>2 DEF TypeOK
    <2>2. CASE pdRefs[d] = 1 /\ ~Busy(d)
      BY <1>1, <2>1, <2>2
    <2>3. CASE ~(pdRefs[d] = 1 /\ ~Busy(d))
      BY <1>1, <2>1, <2>3
    <2> QED
      BY <2>2, <2>3
  <1>10. pd' = pd
    BY <1>1
  <1>11. TypeOK'
    BY <1>1, <1>2, <1>3, <1>4, <1>8, <1>9 DEF TypeOK, cacheVars, CommState, Pcs
  <1>12. Counted'
    <2>1. /\ \A e \in Devs : SlotsOn(e)'
          /\ \A k \in Comms, h \in Handles, e \in Devs : HeldBy(k, h, e)'
      BY <1>1, <1>2, CacheKept DEF cacheVars
    <2>2. \A o \in Comms \ {c} : HandleStage(o)' /\ DomainStage(o)'
      BY <1>1, <1>2, <1>3, <1>4, OthersKept
    <2>3. HandleStage(c)'
      <3>1. HandleStage(c)
        BY <1>2 DEF Counted
      <3>2. \A h \in Handles : handle'[c][h] = NoHandle
        BY <1>1, <1>5, <3>1 DEF HandleStage
      <3> QED
        BY <1>3, <3>2 DEF HandleStage
    <2>4. DomainStage(c)'
      <3>1. ASSUME NEW e \in Devs, e >= d + 1 PROVE commPd'[c][e] # Null
        BY <1>4, <1>5, <3>1, MrConstants DEF DomainStage
      <3> QED
        BY <1>3, <3>1 DEF DomainStage
    <2>5. ASSUME NEW e \in Devs PROVE DomainOn(e)'
      <3>1. DomainOn(e)
        BY <1>2 DEF Counted
      <3>2. CASE e # d
        <4>1. /\ Users(e)' = Users(e) /\ pds'[e] = pds[e] /\ pdRefs'[e] = pdRefs[e]
              /\ \A k \in Comms : commPd'[k][e] = commPd[k][e]
          BY <1>4, <1>8, <1>9, <3>2
        <4>2. \A k \in Users(e) : k \in Comms
          BY DEF Users
        <4> QED
          BY <1>10, <3>1, <4>1, <4>2 DEF DomainOn
      <3>3. CASE e = d
        <4>1. DomainOn(d)
          BY <3>1, <3>3
        <4>2. pdRefs'[d] >= Cardinality(Users(d)')
          BY <1>7, <1>8
        <4>3. CASE pdRefs[d] = 1
          <5>1. Cardinality(Users(d)') = 0 /\ pdRefs'[d] = 0
            BY <1>7, <1>8, <4>3
          <5>2. Users(d)' = {}
            BY <1>7, <5>1, FS_EmptySet
          <5> QED
            BY <3>3, <4>2, <5>1, <5>2 DEF DomainOn
        <4>4. CASE pdRefs[d] # 1
          <5>1. pds'[d] = pds[d] /\ pdRefs[d] > 0
            BY <1>7, <1>8, <1>9, <4>4
          <5>2. \A k \in Users(d)' : k \in Users(d) /\ commPd'[k][d] = commPd[k][d]
            BY <1>4 DEF Users
          <5>3. DomainOn(d)'
            BY <1>10, <4>1, <4>2, <5>1, <5>2 DEF DomainOn
          <5> QED
            BY <3>3, <5>3
        <4> QED
          BY <4>3, <4>4
      <3> QED
        BY <3>2, <3>3
    <2> QED
      BY <2>1, <2>2, <2>3, <2>4, <2>5 DEF Counted
  <1>13. ASSUME faults' = 0 PROVE Exact'
    <2>1. Exact
      BY <1>1, <1>13 DEF MrInv
    <2>2. ASSUME NEW e \in Devs PROVE ExactOn(e)'
      <3>1. ExactOn(e) /\ \A m : Holders(e, m)' = Holders(e, m)
        BY <1>1, <2>1 DEF Exact, Holders
      <3>2. pdRefs'[e] = Cardinality(Users(e)')
        <4>1. CASE e = d
          <5>1. pdRefs[d] = Cardinality(Users(d))
            BY <3>1, <4>1 DEF ExactOn
          <5> QED
            BY <1>7, <1>8, <4>1, <5>1
        <4>2. CASE e # d
          BY <1>4, <1>8, <3>1, <4>2 DEF ExactOn
        <4> QED
          BY <4>1, <4>2
      <3> QED
        BY <1>1, <3>1, <3>2 DEF ExactOn, ExactSlot, cacheVars, Registered, Known
    <2>3. \A o \in Comms \ {c} : ExactStage(o)'
      BY <1>1, <1>2, <1>3, <1>4, <2>1, OthersKept DEF Exact
    <2>4. ExactStage(c)'
      <3>1. \A e \in Devs : (commPd[c][e] # Null) <=> e >= d
        BY <1>5, <2>1 DEF Exact, ExactStage
      <3>2. \A e \in Devs : (commPd'[c][e] # Null) <=> e >= d + 1
        BY <1>4, <3>1, MrConstants
      <3>3. d = NDevs => \A e \in Devs : ~(e >= d + 1) /\ ~(e < 1)
        BY MrConstants DEF Devs
      <3> QED
        BY <1>3, <3>2, <3>3 DEF ExactStage
    <2> QED
      BY <1>1, <2>1, <2>2, <2>3, <2>4 DEF Exact
  <1>14. ASSUME faults' = 0 PROVE Releases'
    <2>1. Exact /\ Releases
      BY <1>1, <1>14 DEF MrInv
    <2>2. pdRefs[d] = 1 /\ Busy(d) => pd[d] \in gpuMrs[d]
      <3> SUFFICES ASSUME pdRefs[d] = 1, Busy(d), pd[d] \notin gpuMrs[d] PROVE FALSE
        OBVIOUS
      <3>1. ExactOn(d)
        BY <2>1 DEF Exact
      <3>2. PICK m \in Registered(d) : TRUE
        BY <3>1 DEF Busy
      <3>3. PICK i \in 1 .. Len(slots[d]) : TRUE
        BY <3>1, <3>2 DEF ExactOn, Known
      <3>4. PICK k \in Comms, h \in Handles : Holds(k, h, d)
        BY <1>2, <3>1, <3>3, SlotHasHolder
      <3>5. k \in Users(d) /\ k # c
        BY <1>2, <1>5, <3>4, HolderIsUser
      <3>6. Users(d)' # {}
        BY <1>4, <3>5
      <3>7. Cardinality(Users(d)') # 0
        BY <1>7, <3>6, FS_EmptySet
      <3> QED
        BY <1>7, <1>8, <3>7
    <2>3. StoppedStage(c)'
      <3>1. \A e \in Devs : (commPd[c][e] # Null) <=> e >= d
        BY <1>5, <2>1 DEF Exact, ExactStage
      <3>2. \A e \in Devs : (commPd'[c][e] # Null) <=> e > d
        BY <1>4, <3>1, MrConstants
      <3>3. comm'[c].pc = "failed" => comm'[c].dev = d /\ gpuMrs'[d] # {}
        BY <1>1, <1>3, <2>2
      <3> QED
        BY <3>2, <3>3 DEF StoppedStage
    <2>4. \A o \in Comms : StoppedStage(o)'
      BY <1>1, <1>2, <1>3, <1>4, <2>1, <2>3, StoppedKept DEF Releases
    <2>5. ASSUME NEW e \in Devs PROVE ReleasedOn(e)'
      <3>1. ReleasedOn(e) /\ gpuMrs'[e] = gpuMrs[e] /\ pd'[e] = pd[e]
        BY <1>1, <2>1 DEF Releases
      <3>2. CASE e # d
        BY <1>8, <1>9, <3>1, <3>2 DEF ReleasedOn
      <3>3. CASE e = d /\ pdRefs[d] = 1 /\ Busy(d)
        <4>1. pds'[d] = pds[d]
          BY <1>1, <3>3
        <4> QED
          BY <2>2, <3>1, <3>3, <4>1 DEF ReleasedOn
      <3>4. CASE e = d /\ pdRefs[d] = 1 /\ ~Busy(d)
        <4>1. pds'[d] = pds[d] \ {pd[d]} /\ pd[d] \notin gpuMrs[d]
          BY <1>9, <3>4 DEF Busy
        <4> QED
          BY <3>1, <3>4, <4>1 DEF ReleasedOn
      <3>5. CASE e = d /\ pdRefs[d] # 1
        <4>1. pdRefs'[d] # 0 /\ pds'[d] = pds[d]
          BY <1>7, <1>8, <1>9, <3>5
        <4> QED
          BY <3>1, <3>5, <4>1 DEF ReleasedOn
      <3> QED
        BY <3>2, <3>3, <3>4, <3>5
    <2> QED
      BY <2>4, <2>5 DEF Releases
  <1> QED
    BY <1>11, <1>12, <1>13, <1>14 DEF MrInv

-----------------------------------------------------------------------------
(* Registration and deregistration *)

InUse == {"open", "reg", "dereg"}

\* What is left to show of a step on the cache by a communicator in use.
LEMMA CacheStep ==
    ASSUME MrInv, NEW c \in Comms, TypeOK',
           comm[c].pc \in InUse, comm'[c].pc \in InUse,
           comm'[c].pc = "open" => comm'[c].dev = 1,
           \A o \in Comms \ {c} : comm'[o] = comm[o] /\ handle'[o] = handle[o],
           UNCHANGED <<devVars, commPd>>, HandleStage(c)',
           \A d \in Devs : SlotsOn(d)',
           \A k \in Comms, h \in Handles, d \in Devs : HeldBy(k, h, d)',
           faults' = 0 => /\ faults = 0 /\ heap' = "ok"
                          /\ \A d \in Devs : ExactOn(d)'
    PROVE  MrInv'
  <1>1. Counted
    BY DEF MrInv
  <1>2. \A d \in Devs : DomainOn(d)'
    BY <1>1, DomainsKept DEF devVars
  <1>3. \A o \in Comms \ {c} : /\ HandleStage(o)' /\ DomainStage(o)'
                               /\ ExactStage(o) => ExactStage(o)'
    BY <1>1, OthersKept
  <1>4. DomainStage(c)'
    <2>1. DomainStage(c)
      BY <1>1 DEF Counted
    <2> QED
      BY <2>1 DEF DomainStage, InUse
  <1>5. Counted'
    BY <1>2, <1>3, <1>4 DEF Counted
  <1>6. ASSUME faults' = 0 PROVE Exact'
    <2>1. Exact
      BY <1>6 DEF MrInv
    <2>2. ExactStage(c)'
      BY DEF ExactStage, InUse
    <2> QED
      BY <1>3, <1>6, <2>1, <2>2 DEF Exact
  <1>7. ASSUME faults' = 0 PROVE Releases'
    <2>1. Releases /\ TypeOK
      BY <1>7 DEF MrInv
    <2>2. StoppedStage(c)'
      BY DEF StoppedStage, InUse
    <2>3. \A o \in Comms : StoppedStage(o)'
      BY <2>1, <2>2, StoppedKept DEF Releases, devVars
    <2> QED
      BY <2>1, <2>3 DEF Releases, ReleasedOn, devVars
  <1> QED
    BY <1>5, <1>6, <1>7 DEF MrInv

\* A device whose slots and MRs a step leaves alone, and of whose MRs the one
\* handle that changes gets none.
LEMMA DeviceKept ==
    ASSUME TypeOK, Counted, NEW c \in Comms, NEW h \in Handles, NEW b \in Handle,
           OneHandle(c, h, b),
           NEW e \in Devs, slots'[e] = slots[e], mrs'[e] = mrs[e],
           b.mrs[e] \in {handle[c][h].mrs[e], Null},
           b.mrs[e] # Null => /\ b.data = handle[c][h].data
                              /\ b.size = handle[c][h].size
    PROVE  /\ SlotsOn(e)'
           /\ \A k \in Comms, g \in Handles : HeldBy(k, g, e)'
           /\ (/\ ExactOn(e) /\ b.mrs[e] = handle[c][h].mrs[e]
               /\ capacity'[e] = capacity[e] /\ alloc'[e] = alloc[e]
               /\ UNCHANGED <<devVars, commPd>>) => ExactOn(e)'
  <1>1. /\ handle'[c][h] = b
        /\ \A k \in Comms, g \in Handles :
              (k # c \/ g # h) => handle'[k][g] = handle[k][g]
        /\ \A m \in MrIds :
              Cardinality(Holders(e, m)') = Cardinality(Holders(e, m))
                    + (IF b.mrs[e] = m THEN 1 ELSE 0)
                    - (IF handle[c][h].mrs[e] = m THEN 1 ELSE 0)
    BY DEF OneHandle
  <1>2. \A i \in 1 .. Len(slots[e]) : slots[e][i] \in Slot
    BY SlotTypes
  <1>3. \A m \in MrIds : Cardinality(Holders(e, m)) \in Nat
    BY HoldersFinite
  <1>4. SlotsOn(e) /\ \A k \in Comms, g \in Handles : HeldBy(k, g, e)
    BY DEF Counted
  <1>5. ASSUME NEW m \in MrIds
        PROVE  /\ Cardinality(Holders(e, m)') <= Cardinality(Holders(e, m))
               /\ Cardinality(Holders(e, m)') \in Int
               /\ b.mrs[e] = handle[c][h].mrs[e] =>
                     Cardinality(Holders(e, m)') = Cardinality(Holders(e, m))
    BY <1>1, <1>3, MrConstants
  <1>6. SlotsOn(e)'
    <2>1. ASSUME NEW i \in 1 .. Len(slots[e]) PROVE SlotOn(e, slots[e][i])'
      <3>1. /\ slots[e][i].mr \in MrIds /\ slots[e][i].refs \in Nat
            /\ SlotOn(e, slots[e][i])
        BY <1>2, <1>4 DEF Slot, SlotsOn
      <3>2. /\ Cardinality(Holders(e, slots[e][i].mr)') <= Cardinality(Holders(e, slots[e][i].mr))
            /\ Cardinality(Holders(e, slots[e][i].mr)') \in Int
            /\ Cardinality(Holders(e, slots[e][i].mr)) \in Nat
        BY <1>3, <1>5, <3>1
      <3>3. slots[e][i].refs >= Cardinality(Holders(e, slots[e][i].mr)')
        BY <3>1, <3>2 DEF SlotOn
      <3>4. slots'[e][i] = slots[e][i]
        OBVIOUS
      <3> QED
        BY <3>1, <3>3, <3>4 DEF SlotOn
    <2> QED
      BY <1>4, <2>1 DEF SlotsOn
  <1>7. ASSUME NEW k \in Comms, NEW g \in Handles PROVE HeldBy(k, g, e)'
    <2>1. CASE k # c \/ g # h
      <3>1. handle'[k][g] = handle[k][g] /\ HeldBy(k, g, e)
        BY <1>1, <1>4, <2>1
      <3> QED
        BY <3>1 DEF HeldBy, Holds, Known, Spans
    <2>2. CASE k = c /\ g = h
      <3>1. k = c /\ g = h /\ HeldBy(c, h, e) /\ handle'[k][g] = b
        BY <1>1, <1>4, <2>2
      <3>2. CASE b.mrs[e] = Null
        BY <3>1, <3>2 DEF HeldBy, Holds
      <3>3. CASE b.mrs[e] # Null
        BY <3>1, <3>3 DEF HeldBy, Holds, Known, Spans
      <3> QED
        BY <3>2, <3>3
    <2> QED
      BY <2>1, <2>2
  <1>8. ASSUME ExactOn(e), b.mrs[e] = handle[c][h].mrs[e],
               capacity'[e] = capacity[e], alloc'[e] = alloc[e],
               UNCHANGED <<devVars, commPd>>
        PROVE  ExactOn(e)'
    <2>1. ASSUME NEW i \in 1 .. Len(slots[e]) PROVE ExactSlot(e, slots[e][i])'
      <3>1. slots[e][i].mr \in MrIds /\ ExactSlot(e, slots[e][i])
        BY <1>2, <1>8 DEF Slot, ExactOn
      <3>2. Cardinality(Holders(e, slots[e][i].mr)') = Cardinality(Holders(e, slots[e][i].mr))
        BY <1>5, <1>8, <3>1
      <3>3. slots'[e][i] = slots[e][i] /\ pd'[e] = pd[e]
        BY <1>8 DEF devVars
      <3> QED
        BY <3>1, <3>2, <3>3 DEF ExactSlot
    <2>2. Users(e)' = Users(e) /\ pdRefs'[e] = pdRefs[e]
      BY <1>8 DEF Users, devVars
    <2> QED
      BY <1>8, <2>1, <2>2 DEF ExactOn, Registered, Known
  <1> QED
    BY <1>6, <1>7, <1>8

\* The first conjuncts of CacheStep.
LEMMA OthersSame ==
    ASSUME NEW c \in Comms, NEW h \in Handles, NEW b, OneHandle(c, h, b)
    PROVE  \A o \in Comms \ {c} : handle'[o] = handle[o]
  BY DEF OneHandle

LEMMA GrowFits ==
    ASSUME TypeOK, NEW d \in Devs
    PROVE  /\ Grow(d) \in Nat /\ Allocated(d) \in Nat
           /\ capacity[d] = alloc[d] /\ Len(slots[d]) <= alloc[d] =>
                 Grow(d) = Allocated(d) /\ Len(slots[d]) < Allocated(d)
  <1>1. /\ capacity[d] \in Nat /\ alloc[d] \in Nat /\ Len(slots[d]) \in Nat
        /\ MinCapacity \in Nat \ {0}
    BY SlotTypes, MrConstants DEF TypeOK
  <1> QED
    BY <1>1 DEF Grow, Allocated

LEMMA FailCallEffect ==
    ASSUME TypeOK, Counted, NEW c \in Comms, comm[c].pc \in {"reg", "dereg"}, FailCall(c)
    PROVE  /\ OneHandle(c, comm[c].h, NoHandle) /\ HandleStage(c)'
           /\ comm' \in [Comms -> CommState] /\ comm[c].h \in Handles
           /\ comm'[c] = [pc |-> "open", dev |-> 1, h |-> 1]
           /\ \A o \in Comms \ {c} : comm'[o] = comm[o]
  <1>1. comm \in [Comms -> CommState] /\ comm[c].h \in Handles
    BY DEF TypeOK, CommState, Pcs
  <1>2. OneHandle(c, comm[c].h, NoHandle)
    BY <1>1, HandleChange, MrConstants DEF FailCall
  <1>3. /\ comm' \in [Comms -> CommState]
        /\ comm'[c] = [pc |-> "open", dev |-> 1, h |-> 1]
        /\ \A o \in Comms \ {c} : comm'[o] = comm[o]
    <2>1. [pc |-> "open", dev |-> 1, h |-> 1] \in CommState
      BY MrConstants DEF CommState, Pcs
    <2> QED
      BY <1>1, <2>1 DEF FailCall
  <1>4. HandleStage(c)'
    <2>1. HandleStage(c)
      BY DEF Counted
    <2>2. ASSUME NEW g \in Handles
          PROVE  handle'[c][g] = NoHandle \/ Whole(handle'[c][g])
      <3>1. CASE g = comm[c].h
        BY <1>2, <3>1 DEF OneHandle
      <3>2. CASE g # comm[c].h
        BY <1>2, <2>1, <3>2 DEF OneHandle, HandleStage
      <3> QED
        BY <3>1, <3>2
    <2> QED
      BY <1>3, <2>2 DEF HandleStage, Whole
  <1> QED
    BY <1>1, <1>2, <1>3, <1>4

LEMMA RegFailsStep ==
    ASSUME MrInv, NEW c \in Comms, RegMrFails(c) \/ ReallocFails(c)
    PROVE  MrInv'
  <1>1. PICK d \in Devs :
          /\ At(c, "reg", d)
          /\ capacity' = [capacity EXCEPT ![d] = Grow(d)]
          /\ \/ alloc' = [alloc EXCEPT ![d] = Allocated(d)]
             \/ UNCHANGED alloc
          /\ FailCall(c)
          /\ InjectFault
          /\ UNCHANGED <<devVars, slots, mrs, commPd, heap>>
    BY DEF RegMrFails, ReallocFails
  <1>2. TypeOK /\ Counted /\ comm[c].pc = "reg"
    BY <1>1 DEF MrInv, At
  <1>3. /\ OneHandle(c, comm[c].h, NoHandle) /\ HandleStage(c)'
        /\ comm' \in [Comms -> CommState] /\ comm[c].h \in Handles
        /\ comm'[c] = [pc |-> "open", dev |-> 1, h |-> 1]
        /\ \A o \in Comms \ {c} : comm'[o] = comm[o]
    BY <1>1, <1>2, FailCallEffect
  <1>4. faults' \in 0 .. MaxFaults /\ faults' # 0
    BY <1>1, <1>2, FaultCounts
  <1>5. TypeOK'
    <2>1. capacity' \in [Devs -> Nat] /\ alloc' \in [Devs -> Nat]
      <3>1. Grow(d) \in Nat /\ Allocated(d) \in Nat
        BY <1>2, GrowFits
      <3>2. capacity \in [Devs -> Nat] /\ alloc \in [Devs -> Nat]
        BY <1>2 DEF TypeOK
      <3> QED
        BY <1>1, <3>1, <3>2
    <2>2. handle' \in [Comms -> [Handles -> Handle]]
      BY <1>3 DEF OneHandle
    <2> QED
      BY <1>1, <1>2, <1>3, <1>4, <2>1, <2>2 DEF TypeOK, devVars, CommState, Pcs, Handle
  <1>6. ASSUME NEW e \in Devs
        PROVE  SlotsOn(e)' /\ \A k \in Comms, g \in Handles : HeldBy(k, g, e)'
    <2>1. NoHandle \in Handle /\ NoHandle.mrs[e] = Null
      BY MrConstants DEF NoHandle
    <2>2. slots'[e] = slots[e] /\ mrs'[e] = mrs[e]
      BY <1>1
    <2> QED
      BY <1>2, <1>3, <2>1, <2>2, DeviceKept
  <1>7. \A o \in Comms \ {c} : handle'[o] = handle[o]
    BY <1>3, OthersSame
  <1> QED
    BY <1>1, <1>2, <1>3, <1>4, <1>5, <1>6, <1>7, CacheStep DEF InUse

LEMMA RegOverrunStep ==
    ASSUME MrInv, NEW c \in Comms, RegOverrun(c)
    PROVE  MrInv'
  <1>1. PICK d \in Devs : At(c, "reg", d) /\ Len(slots[d]) >= Allocated(d)
    BY DEF RegOverrun
  <1>2. /\ heap' = "corrupt"
        /\ UNCHANGED <<devVars, cacheVars, comm, commPd, handle, faults>>
    BY DEF RegOverrun
  <1>3. TypeOK /\ Counted /\ comm[c].pc = "reg"
    BY <1>1 DEF MrInv, At
  <1>4. faults # 0
    <2> SUFFICES ASSUME faults = 0 PROVE FALSE
      OBVIOUS
    <2>1. ExactOn(d)
      BY DEF MrInv, Exact
    <2>2. Len(slots[d]) < Allocated(d) /\ Len(slots[d]) \in Nat /\ Allocated(d) \in Nat
      BY <1>3, <2>1, GrowFits, SlotTypes DEF ExactOn
    <2> QED
      BY <1>1, <2>2
  <1>5. TypeOK'
    BY <1>2, <1>3 DEF TypeOK, devVars, cacheVars
  <1>6. HandleStage(c)'
    <2>1. HandleStage(c)
      BY <1>3 DEF Counted
    <2> QED
      BY <1>2, <2>1 DEF HandleStage, Buffer, Whole
  <1>7. /\ \A d2 \in Devs : SlotsOn(d2)'
        /\ \A k \in Comms, h \in Handles, d2 \in Devs : HeldBy(k, h, d2)'
    BY <1>2, <1>3, CacheKept DEF cacheVars
  <1> QED
    BY <1>2, <1>3, <1>4, <1>5, <1>6, <1>7, CacheStep DEF InUse

LEMMA DeregMrStep ==
    ASSUME MrInv, NEW c \in Comms, NEW h \in Handles, DeregMr(c, h)
    PROVE  MrInv'
  <1>1. /\ At(c, "open", 1) /\ handle[c][h] # NoHandle
        /\ comm' = [comm EXCEPT ![c] = [pc |-> "dereg", dev |-> 1, h |-> h]]
        /\ UNCHANGED <<devVars, cacheVars, commPd, handle, heap, faults>>
    BY DEF DeregMr
  <1>2. TypeOK /\ Counted /\ comm[c].pc = "open"
    BY <1>1 DEF MrInv, At
  <1>3. /\ comm' \in [Comms -> CommState]
        /\ comm'[c] = [pc |-> "dereg", dev |-> 1, h |-> h]
        /\ \A o \in Comms \ {c} : comm'[o] = comm[o]
    <2>1. comm \in [Comms -> CommState]
      BY <1>2 DEF TypeOK, CommState, Pcs
    <2>2. [pc |-> "dereg", dev |-> 1, h |-> h] \in CommState
      BY MrConstants DEF CommState, Pcs
    <2> QED
      BY <1>1, <2>1, <2>2
  <1>4. TypeOK'
    BY <1>1, <1>2, <1>3 DEF TypeOK, devVars, cacheVars, CommState, Pcs
  <1>5. HandleStage(c)'
    <2>1. HandleStage(c)
      BY <1>2 DEF Counted
    <2>2. \A g \in Handles : handle[c][g] = NoHandle \/ Whole(handle[c][g])
      BY <1>2, <2>1 DEF HandleStage
    <2>3. \A e \in Devs : handle[c][h].mrs[e] # Null /\ e >= 1
      BY <1>1, <2>2 DEF Whole, Devs
    <2>4. handle' = handle
      BY <1>1
    <2> QED
      BY <1>3, <2>2, <2>3, <2>4 DEF HandleStage, Whole, Buffer
  <1>6. /\ \A d \in Devs : SlotsOn(d)'
        /\ \A k \in Comms, g \in Handles, d \in Devs : HeldBy(k, g, d)'
    BY <1>1, <1>2, CacheKept DEF cacheVars
  <1>7. ASSUME faults' = 0
        PROVE  faults = 0 /\ heap' = "ok" /\ \A d \in Devs : ExactOn(d)'
    <2>1. Exact /\ faults = 0
      BY <1>1, <1>7 DEF MrInv
    <2> QED
      BY <1>1, <2>1, ExactKept DEF Exact, cacheVars, devVars
  <1> QED
    BY <1>1, <1>2, <1>3, <1>4, <1>5, <1>6, <1>7, CacheStep DEF InUse

LEMMA RegMrStep ==
    ASSUME MrInv, NEW c \in Comms, NEW g \in Regions, RegMr(c, g)
    PROVE  MrInv'
  <1> DEFINE b == [data |-> g.data, size |-> g.size, mrs |-> [d \in Devs |-> Null]]
  <1>1. PICK h \in Handles :
          /\ At(c, "open", 1)
          /\ Fresh({k \in Handles : handle[c][k] # NoHandle}, Handles, h)
          /\ handle' = [handle EXCEPT ![c][h] = b]
          /\ comm' = [comm EXCEPT ![c] = [pc |-> "reg", dev |-> 1, h |-> h]]
          /\ UNCHANGED <<devVars, cacheVars, commPd, heap, faults>>
    BY DEF RegMr
  <1>2. TypeOK /\ Counted /\ comm[c].pc = "open"
    BY <1>1 DEF MrInv, At
  <1>3. b \in Handle /\ b.size > 0 /\ \A e \in Devs : b.mrs[e] = Null
    <2>1. g.data \in Nat /\ g.size \in Nat \ {0}
      BY MrConstantsAssumption DEF Region
    <2> QED
      BY <2>1 DEF Handle
  <1> HIDE DEF b
  <1>4. OneHandle(c, h, b) /\ handle[c][h] = NoHandle
    BY <1>1, <1>2, <1>3, HandleChange DEF Fresh
  <1>5. /\ comm' \in [Comms -> CommState]
        /\ comm'[c] = [pc |-> "reg", dev |-> 1, h |-> h]
        /\ \A o \in Comms \ {c} : comm'[o] = comm[o]
    <2>1. comm \in [Comms -> CommState]
      BY <1>2 DEF TypeOK, CommState, Pcs
    <2>2. [pc |-> "reg", dev |-> 1, h |-> h] \in CommState
      BY MrConstants DEF CommState, Pcs
    <2> QED
      BY <1>1, <2>1, <2>2
  <1>6. TypeOK'
    <2>1. handle' \in [Comms -> [Handles -> Handle]]
      BY <1>4 DEF OneHandle
    <2> QED
      BY <1>1, <1>2, <1>5, <2>1 DEF TypeOK, devVars, cacheVars, CommState, Pcs, Handle
  <1>7. HandleStage(c)'
    <2>1. HandleStage(c)
      BY <1>2 DEF Counted
    <2>2. \A k \in Handles : handle[c][k] = NoHandle \/ Whole(handle[c][k])
      BY <1>2, <2>1 DEF HandleStage
    <2>3. /\ handle'[c][h] = b
          /\ \A k \in Handles \ {h} : handle'[c][k] = handle[c][k]
      BY <1>4 DEF OneHandle
    <2>4. \A e \in Devs : ~(e < 1)
      BY DEF Devs
    <2> QED
      BY <1>3, <1>5, <2>2, <2>3, <2>4 DEF HandleStage, Whole, Buffer
  <1>8. ASSUME NEW e \in Devs
        PROVE  /\ SlotsOn(e)' /\ \A k \in Comms, j \in Handles : HeldBy(k, j, e)'
               /\ ExactOn(e) => ExactOn(e)'
    <2>1. b.mrs[e] = Null /\ handle[c][h].mrs[e] = Null
      BY <1>3, <1>4 DEF NoHandle
    <2>2. /\ slots'[e] = slots[e] /\ mrs'[e] = mrs[e] /\ capacity'[e] = capacity[e]
          /\ alloc'[e] = alloc[e] /\ UNCHANGED <<devVars, commPd>>
      BY <1>1 DEF cacheVars
    <2> QED
      BY <1>2, <1>3, <1>4, <2>1, <2>2, DeviceKept
  <1>9. \A o \in Comms \ {c} : handle'[o] = handle[o]
    BY <1>4, OthersSame
  <1>10. ASSUME faults' = 0
         PROVE  faults = 0 /\ heap' = "ok" /\ \A d \in Devs : ExactOn(d)'
    <2>1. Exact /\ faults = 0
      BY <1>1, <1>10 DEF MrInv
    <2> QED
      BY <1>1, <1>8, <2>1 DEF Exact
  <1> QED
    BY <1>1, <1>2, <1>5, <1>6, <1>7, <1>8, <1>9, <1>10, CacheStep DEF InUse

\* The handle under way, with MR m of device d.
With(c, d, m) == [data |-> Buffer(c).data, size |-> Buffer(c).size,
                  mrs |-> [Buffer(c).mrs EXCEPT ![d] = m]]

LEMMA RegNextEffect ==
    ASSUME TypeOK, Counted, NEW c \in Comms, NEW d \in Devs, NEW m \in MrIds,
           comm[c].pc = "reg", comm[c].dev = d,
           handle' = [handle EXCEPT ![c][comm[c].h].mrs[d] = m],
           ForEachDev(c, d, "reg", "open")
    PROVE  /\ With(c, d, m) \in Handle /\ OneHandle(c, comm[c].h, With(c, d, m))
           /\ HandleStage(c)' /\ comm[c].h \in Handles
           /\ comm' \in [Comms -> CommState] /\ comm'[c].pc \in InUse
           /\ comm'[c].pc = "open" => comm'[c].dev = 1
           /\ \A o \in Comms \ {c} : comm'[o] = comm[o]
           /\ Buffer(c) \in Handle /\ Buffer(c).size > 0 /\ Buffer(c).mrs[d] = Null
           /\ With(c, d, m).mrs[d] = m
           /\ \A e \in Devs \ {d} : With(c, d, m).mrs[e] = Buffer(c).mrs[e]
  <1> DEFINE h == comm[c].h
             b == With(c, d, m)
  <1>1. h \in Handles /\ handle \in [Comms -> [Handles -> Handle]] /\ Buffer(c) \in Handle
    BY DEF TypeOK, Handle, Buffer
  <1>2. /\ b \in Handle /\ b.mrs[d] = m /\ b.size = Buffer(c).size
        /\ \A e \in Devs \ {d} : b.mrs[e] = Buffer(c).mrs[e]
    BY <1>1 DEF Handle, With
  <1>3. HandleStage(c)
    BY DEF Counted
  <1>4. /\ Buffer(c).size > 0
        /\ \A e \in Devs : (Buffer(c).mrs[e] # Null) <=> e < d
    BY <1>3 DEF HandleStage
  <1>5. Buffer(c).mrs[d] = Null
    BY <1>4, MrConstants
  <1>6. handle' = [handle EXCEPT ![c][h] = b]
    <2>1. [handle[c][h] EXCEPT !.mrs[d] = m] = b
      <3>1. PICK x \in Nat, y \in Nat, z \in [Devs -> MrIds \cup {Null}] :
                handle[c][h] = [data |-> x, size |-> y, mrs |-> z]
        <4>1. handle[c][h] \in Handle
          BY <1>1
        <4> HIDE DEF h
        <4> QED
          BY <4>1 DEF Handle
      <3> QED
        BY <3>1 DEF With, Buffer
    <2> QED
      BY <1>1, <2>1
  <1>7. OneHandle(c, h, b)
    BY <1>1, <1>2, <1>6, HandleChange
  <1>8. /\ comm' \in [Comms -> CommState]
        /\ comm'[c] = IF d < NDevs
                      THEN [pc |-> "reg", dev |-> d + 1, h |-> comm[c].h]
                      ELSE [pc |-> "open", dev |-> 1, h |-> 1]
        /\ \A o \in Comms \ {c} : comm'[o] = comm[o]
    BY CommLoops DEF Pcs
  <1>9. \A e \in Devs : (b.mrs[e] # Null) <=> e < d + 1
    BY <1>2, <1>4, MrConstants
  <1>10. HandleStage(c)'
    <2>1. /\ handle'[c][h] = b
          /\ \A k \in Handles \ {h} : handle'[c][k] = handle[c][k]
      BY <1>7 DEF OneHandle
    <2>2. \A k \in Handles \ {h} : handle'[c][k] = NoHandle \/ Whole(handle'[c][k])
      BY <1>3, <2>1 DEF HandleStage
    <2>3. CASE d < NDevs
      <3>1. comm'[c].pc = "reg" /\ comm'[c].dev = d + 1 /\ comm'[c].h = h
        BY <1>8, <2>3
      <3>2. Buffer(c)' = b
        BY <2>1, <3>1 DEF Buffer
      <3>3. /\ Buffer(c)'.size > 0
            /\ \A e \in Devs : (Buffer(c)'.mrs[e] # Null) <=> e < d + 1
        BY <1>2, <1>4, <1>9, <3>2
      <3>4. \A k \in Handles : \/ k = h \/ handle'[c][k] = NoHandle
                               \/ Whole(handle'[c][k])
        BY <2>2
      <3> QED
        BY <3>1, <3>3, <3>4 DEF HandleStage, Whole
    <2>4. CASE ~(d < NDevs)
      <3>1. comm'[c].pc = "open"
        BY <1>8, <2>4
      <3>2. \A e \in Devs : e < d + 1
        BY <2>4, MrConstants DEF Devs
      <3>3. Whole(b)
        BY <1>2, <1>4, <1>9, <3>2 DEF Whole
      <3>4. \A k \in Handles : handle'[c][k] = NoHandle \/ Whole(handle'[c][k])
        BY <2>1, <2>2, <3>3
      <3> QED
        BY <3>1, <3>4 DEF HandleStage, Whole
    <2> QED
      BY <2>3, <2>4
  <1>11. comm'[c].pc \in InUse /\ (comm'[c].pc = "open" => comm'[c].dev = 1)
    BY <1>8 DEF InUse
  <1> QED
    BY <1>1, <1>2, <1>4, <1>5, <1>7, <1>8, <1>10, <1>11

LEMMA RegHitStep ==
    ASSUME MrInv, NEW c \in Comms, RegHit(c)
    PROVE  MrInv'
  <1> DEFINE h == comm[c].h
  <1>1. PICK d \in Devs :
          LET i == Search(d, Buffer(c))
          IN  /\ At(c, "reg", d)
              /\ Hit(d, Buffer(c))
              /\ slots' = [slots EXCEPT ![d][i] = AddRef(@)]
              /\ handle' = [handle EXCEPT ![c][comm[c].h].mrs[d] = slots[d][i].mr]
              /\ ForEachDev(c, d, "reg", "open")
              /\ UNCHANGED <<devVars, capacity, alloc, mrs, commPd, heap, faults>>
    BY DEF RegHit
  <1>2. TypeOK /\ Counted /\ comm[c].pc = "reg" /\ comm[c].dev = d
    BY <1>1 DEF MrInv, At
  <1>3. /\ slots[d] \in Seq(Slot) /\ Len(slots[d]) \in Nat
        /\ \A j \in 1 .. Len(slots[d]) : slots[d][j] \in Slot
    BY <1>2, SlotTypes
  <1>4. PICK i \in 1 .. Len(slots[d]), m \in MrIds :
          /\ i = Search(d, Buffer(c)) /\ Covers(slots[d][i], Buffer(c))
          /\ m = slots[d][i].mr
    <2> DEFINE n == Search(d, Buffer(c))
    <2>1. n \in 1 .. Len(slots[d]) + 1
      BY <1>2, SearchStops
    <2>2. n <= Len(slots[d]) /\ Covers(slots[d][n], Buffer(c))
      BY <1>1 DEF Hit
    <2>3. n \in 1 .. Len(slots[d])
      BY <1>3, <2>1, <2>2
    <2>4. slots[d][n].mr \in MrIds
      BY <1>3, <2>3 DEF Slot
    <2> QED
      BY <2>2, <2>3, <2>4
  <1> DEFINE b == With(c, d, m)
  <1>5. /\ slots' = [slots EXCEPT ![d][i] = AddRef(@)]
        /\ handle' = [handle EXCEPT ![c][h].mrs[d] = m]
        /\ ForEachDev(c, d, "reg", "open")
        /\ UNCHANGED <<devVars, capacity, alloc, mrs, commPd, heap, faults>>
    BY <1>1, <1>4
  <1>6. /\ b \in Handle /\ OneHandle(c, h, b)
        /\ HandleStage(c)' /\ h \in Handles
        /\ comm' \in [Comms -> CommState] /\ comm'[c].pc \in InUse
        /\ comm'[c].pc = "open" => comm'[c].dev = 1
        /\ \A o \in Comms \ {c} : comm'[o] = comm[o]
        /\ Buffer(c) \in Handle /\ Buffer(c).size > 0 /\ Buffer(c).mrs[d] = Null
        /\ b.mrs[d] = m
        /\ \A e \in Devs \ {d} : b.mrs[e] = Buffer(c).mrs[e]
    <2>1. /\ handle' = [handle EXCEPT ![c][comm[c].h].mrs[d] = m]
          /\ ForEachDev(c, d, "reg", "open")
      BY <1>5
    <2> QED
      BY <1>2, <2>1, RegNextEffect
  <1>7. b.data = Buffer(c).data /\ b.size = Buffer(c).size
    BY DEF With
  <1> HIDE DEF b
  <1>8. /\ slots' \in [Devs -> Seq(Slot)] /\ Len(slots'[d]) = Len(slots[d])
        /\ \A e \in Devs \ {d} : slots'[e] = slots[e]
        /\ \A j \in 1 .. Len(slots[d]) :
              slots'[d][j] = IF j = i THEN AddRef(slots[d][i]) ELSE slots[d][j]
    <2>1. AddRef(slots[d][i]) \in Slot
      <3>1. slots[d][i] \in Slot
        BY <1>3, <1>4
      <3> QED
        BY <3>1 DEF AddRef, Slot
    <2>2. slots \in [Devs -> Seq(Slot)]
      BY <1>2 DEF TypeOK
    <2>3. slots'[d] = [slots[d] EXCEPT ![i] = AddRef(slots[d][i])]
      BY <1>5, <2>2
    <2>4. /\ [slots[d] EXCEPT ![i] = AddRef(slots[d][i])] \in Seq(Slot)
          /\ Len([slots[d] EXCEPT ![i] = AddRef(slots[d][i])]) = Len(slots[d])
      BY <1>3, <1>4, <2>1, ExceptSeq
    <2>5. slots' = [slots EXCEPT ![d] = [slots[d] EXCEPT ![i] = AddRef(slots[d][i])]]
      BY <1>5, <2>2
    <2> QED
      BY <1>3, <1>4, <2>2, <2>3, <2>4, <2>5
  <1>9. /\ AddRef(slots[d][i]).refs = slots[d][i].refs + 1 /\ slots[d][i].mr = m
        /\ AddRef(slots[d][i]).mr = m
        /\ AddRef(slots[d][i]).addr = slots[d][i].addr
        /\ AddRef(slots[d][i]).pages = slots[d][i].pages
    <2>1. slots[d][i] \in Slot
      BY <1>3, <1>4
    <2> QED
      BY <1>4, <2>1 DEF AddRef, Slot
  <1>10. TypeOK'
    <2>1. handle' \in [Comms -> [Handles -> Handle]]
      BY <1>6 DEF OneHandle
    <2> QED
      BY <1>2, <1>5, <1>6, <1>8, <2>1 DEF TypeOK, devVars, CommState, Pcs, Handle
  <1>11. ASSUME NEW e \in Devs, e # d
         PROVE  /\ SlotsOn(e)' /\ \A k \in Comms, g \in Handles : HeldBy(k, g, e)'
                /\ ExactOn(e) => ExactOn(e)'
    <2>1. /\ slots'[e] = slots[e] /\ mrs'[e] = mrs[e] /\ capacity'[e] = capacity[e]
          /\ alloc'[e] = alloc[e] /\ UNCHANGED <<devVars, commPd>>
      BY <1>5, <1>8, <1>11
    <2>2. b.mrs[e] = handle[c][h].mrs[e]
      BY <1>6, <1>11 DEF Buffer
    <2>3. b.data = handle[c][h].data /\ b.size = handle[c][h].size
      BY <1>7 DEF Buffer
    <2> QED
      BY <1>2, <1>6, <2>1, <2>2, <2>3, DeviceKept
  <1>12. /\ SlotsOn(d)
         /\ \A n \in MrIds : Cardinality(Holders(d, n)) \in Nat
         /\ \A n \in MrIds : Cardinality(Holders(d, n)') =
                Cardinality(Holders(d, n)) + (IF m = n THEN 1 ELSE 0)
    <2>1. SlotsOn(d)
      BY <1>2 DEF Counted
    <2>2. \A n \in MrIds : Cardinality(Holders(d, n)) \in Nat
      BY HoldersFinite
    <2>3. ASSUME NEW n \in MrIds
          PROVE  Cardinality(Holders(d, n)') =
                     Cardinality(Holders(d, n)) + (IF m = n THEN 1 ELSE 0)
      <3>1. Cardinality(Holders(d, n)') = Cardinality(Holders(d, n))
                    + (IF b.mrs[d] = n THEN 1 ELSE 0)
                    - (IF handle[c][h].mrs[d] = n THEN 1 ELSE 0)
        BY <1>6 DEF OneHandle
      <3>2. handle[c][h].mrs[d] # n /\ b.mrs[d] = m
        BY <1>6, MrConstants DEF Buffer
      <3> QED
        BY <2>2, <3>1, <3>2
    <2> QED
      BY <2>1, <2>2, <2>3
  <1>13. \A j \in 1 .. Len(slots[d]) : slots'[d][j].mr = slots[d][j].mr
    BY <1>8, <1>9
  <1>14. \A n : Known(d, n) => Known(d, n)'
    BY <1>8, <1>13 DEF Known
  <1>15. SlotsOn(d)'
    <2>1. ASSUME NEW j \in 1 .. Len(slots[d]) PROVE SlotOn(d, slots[d][j])'
      <3>1. SlotOn(d, slots[d][j]) /\ slots[d][j] \in Slot
        BY <1>3, <1>12 DEF SlotsOn
      <3>2. slots[d][j].mr \in MrIds /\ slots[d][j].refs \in Nat
        BY <3>1 DEF Slot
      <3>3. CASE j = i
        <4>1. /\ Cardinality(Holders(d, m)') = Cardinality(Holders(d, m)) + 1
              /\ Cardinality(Holders(d, m)) \in Nat
          BY <1>4, <1>12
        <4>2. slots'[d][j].refs = slots[d][j].refs + 1 /\ slots'[d][j].mr = m
          BY <1>8, <1>9, <3>3
        <4>3. slots'[d][j].refs > 0 /\ slots'[d][j].refs >= Cardinality(Holders(d, m)')
          BY <1>9, <3>1, <3>2, <3>3, <4>1, <4>2 DEF SlotOn
        <4>4. /\ slots'[d][j].addr = slots[d][j].addr
              /\ slots'[d][j].pages = slots[d][j].pages /\ mrs' = mrs
          BY <1>5, <1>8, <1>9, <3>3
        <4> QED
          BY <1>9, <3>1, <3>3, <4>2, <4>3, <4>4 DEF SlotOn
      <3>4. CASE j # i
        <4>1. slots'[d][j] = slots[d][j] /\ mrs' = mrs
          BY <1>5, <1>8, <3>4
        <4>2. slots[d][j].mr # m
          BY <1>4, <1>9, <1>12, <3>4 DEF SlotsOn
        <4>3. Cardinality(Holders(d, slots[d][j].mr)') = Cardinality(Holders(d, slots[d][j].mr))
          BY <1>12, <3>2, <4>1, <4>2
        <4> QED
          BY <3>1, <4>1, <4>3 DEF SlotOn
      <3> QED
        BY <3>3, <3>4
    <2>2. \A j, l \in 1 .. Len(slots[d]) : slots'[d][j].mr = slots'[d][l].mr => j = l
      BY <1>12, <1>13 DEF SlotsOn
    <2> QED
      BY <1>8, <2>1, <2>2 DEF SlotsOn
  <1>16. ASSUME NEW k \in Comms, NEW g \in Handles PROVE HeldBy(k, g, d)'
    <2>1. CASE k # c \/ g # h
      <3>1. handle'[k][g] = handle[k][g] /\ HeldBy(k, g, d) /\ mrs' = mrs
        BY <1>2, <1>5, <1>6, <2>1 DEF OneHandle, Counted
      <3> QED
        BY <1>14, <3>1 DEF HeldBy, Holds, Spans
    <2>2. CASE k = c /\ g = h
      <3>1. handle'[k][g] = b /\ b.mrs[d] = m /\ mrs' = mrs
        BY <1>5, <1>6, <2>2 DEF OneHandle
      <3>2. Known(d, m)'
        BY <1>4, <1>8, <1>9, <1>13 DEF Known
      <3>3. SlotOn(d, slots[d][i]) /\ slots[d][i] \in Slot
        BY <1>3, <1>4, <1>12 DEF SlotsOn
      <3>4. Spans(Buffer(c), slots[d][i])
        <4>1. Buffer(c).data \in Nat /\ Buffer(c).size \in Nat \ {0}
          BY <1>6 DEF Handle
        <4> QED
          BY <1>4, <3>3, <4>1, CoversSpans DEF SlotOn
      <3>5. Spans(b, mrs[d][m])
        BY <1>7, <1>9, <3>3, <3>4 DEF Spans, SlotOn
      <3> QED
        BY <3>1, <3>2, <3>5 DEF HeldBy, Holds, Spans
    <2> QED
      BY <2>1, <2>2
  <1>17. ASSUME ExactOn(d) PROVE ExactOn(d)'
    <2>1. ASSUME NEW j \in 1 .. Len(slots[d]) PROVE ExactSlot(d, slots[d][j])'
      <3>1. ExactSlot(d, slots[d][j]) /\ slots[d][j].mr \in MrIds
        BY <1>3, <1>17 DEF ExactOn, Slot
      <3>2. pd' = pd /\ mrs' = mrs
        BY <1>5 DEF devVars
      <3>3. CASE j = i
        <4>1. slots'[d][j].refs = slots[d][j].refs + 1 /\ slots'[d][j].mr = m
          BY <1>8, <1>9, <3>3
        <4> QED
          BY <1>4, <1>9, <1>12, <3>1, <3>2, <3>3, <4>1 DEF ExactSlot
      <3>4. CASE j # i
        <4>1. slots'[d][j] = slots[d][j] /\ slots[d][j].mr # m
          BY <1>4, <1>8, <1>9, <1>12, <3>4 DEF SlotsOn
        <4>2. Cardinality(Holders(d, slots[d][j].mr)') = Cardinality(Holders(d, slots[d][j].mr))
          BY <1>12, <3>1, <4>1
        <4> QED
          BY <3>1, <3>2, <4>1, <4>2 DEF ExactSlot
      <3> QED
        BY <3>3, <3>4
    <2>2. Users(d)' = Users(d) /\ pdRefs' = pdRefs /\ Registered(d)' = Registered(d)
      BY <1>5 DEF Users, devVars, Registered
    <2>3. capacity' = capacity /\ alloc' = alloc
      BY <1>5
    <2> QED
      BY <1>8, <1>14, <1>17, <2>1, <2>2, <2>3 DEF ExactOn
  <1>18. /\ \A e \in Devs : SlotsOn(e)'
         /\ \A k \in Comms, g \in Handles, e \in Devs : HeldBy(k, g, e)'
    BY <1>11, <1>15, <1>16
  <1>19. ASSUME faults' = 0
         PROVE  faults = 0 /\ heap' = "ok" /\ \A e \in Devs : ExactOn(e)'
    <2>1. Exact /\ faults = 0
      BY <1>5, <1>19 DEF MrInv
    <2> QED
      BY <1>5, <1>11, <1>17, <2>1 DEF Exact
  <1>20. \A o \in Comms \ {c} : handle'[o] = handle[o]
    BY <1>6, OthersSame
  <1> QED
    BY <1>2, <1>5, <1>6, <1>10, <1>18, <1>19, <1>20, CacheStep DEF InUse

LEMMA RegMissStep ==
    ASSUME MrInv, NEW c \in Comms, RegMiss(c)
    PROVE  MrInv'
  <1> DEFINE h == comm[c].h
             g == Buffer(c)
  <1>1. PICK d \in Devs, m \in MrIds :
          LET s == [addr |-> PageAddr(g), pages |-> Pages(g), refs |-> 1, mr |-> m]
          IN  /\ At(c, "reg", d)
              /\ Len(slots[d]) < Allocated(d)
              /\ Fresh(Registered(d), MrIds, m)
              /\ mrs' = [mrs EXCEPT ![d][m] =
                            [addr |-> s.addr, pages |-> s.pages,
                             pd |-> commPd[c][d]]]
              /\ slots' = [slots EXCEPT ![d] = InsertAt(@, Search(d, g), s)]
              /\ capacity' = [capacity EXCEPT ![d] = Grow(d)]
              /\ alloc' = [alloc EXCEPT ![d] = Allocated(d)]
              /\ handle' = [handle EXCEPT ![c][comm[c].h].mrs[d] = m]
              /\ ForEachDev(c, d, "reg", "open")
              /\ UNCHANGED <<devVars, commPd, heap, faults>>
    BY DEF RegMiss
  <1>2. TypeOK /\ Counted /\ comm[c].pc = "reg" /\ comm[c].dev = d
    BY <1>1 DEF MrInv, At
  <1>3. /\ slots[d] \in Seq(Slot) /\ Len(slots[d]) \in Nat
        /\ \A j \in 1 .. Len(slots[d]) : slots[d][j] \in Slot
    BY <1>2, SlotTypes
  <1> DEFINE b == With(c, d, m)
  <1>4. /\ b \in Handle /\ OneHandle(c, h, b)
        /\ HandleStage(c)' /\ h \in Handles
        /\ comm' \in [Comms -> CommState] /\ comm'[c].pc \in InUse
        /\ comm'[c].pc = "open" => comm'[c].dev = 1
        /\ \A o \in Comms \ {c} : comm'[o] = comm[o]
        /\ g \in Handle /\ g.size > 0 /\ g.mrs[d] = Null
        /\ b.mrs[d] = m
        /\ \A e \in Devs \ {d} : b.mrs[e] = g.mrs[e]
    <2>1. /\ handle' = [handle EXCEPT ![c][comm[c].h].mrs[d] = m]
          /\ ForEachDev(c, d, "reg", "open")
      BY <1>1
    <2> QED
      BY <1>2, <2>1, RegNextEffect
  <1>5. b.data = g.data /\ b.size = g.size
    BY DEF With
  <1> HIDE DEF b
  <1>6. /\ PageAddr(g) \in Nat /\ PageAddr(g) % PageSize = 0
        /\ Pages(g) \in Nat \ {0} /\ PageAddr(g) <= g.data
        /\ g.data + g.size <= PageAddr(g) + Pages(g) * PageSize
    <2>1. g.data \in Nat /\ g.size \in Nat \ {0}
      BY <1>4 DEF Handle
    <2> QED
      BY <2>1, PagesSpan
  <1>7. PICK s \in Slot : s = [addr |-> PageAddr(g), pages |-> Pages(g), refs |-> 1, mr |-> m]
    BY <1>6 DEF Slot
  <1>8. PICK i \in 1 .. Len(slots[d]) + 1 : i = Search(d, g)
    BY <1>2, SearchStops
  <1>9. /\ slots' \in [Devs -> Seq(Slot)] /\ Len(slots'[d]) = Len(slots[d]) + 1
        /\ \A e \in Devs \ {d} : slots'[e] = slots[e]
        /\ \A j \in 1 .. Len(slots[d]) + 1 :
              slots'[d][j] = IF j < i THEN slots[d][j]
                             ELSE IF j = i THEN s ELSE slots[d][j - 1]
    <2>1. slots \in [Devs -> Seq(Slot)]
      BY <1>2 DEF TypeOK
    <2>2. slots' = [slots EXCEPT ![d] = InsertAt(slots[d], i, s)]
      BY <1>1, <1>7, <1>8, <2>1
    <2>3. /\ InsertAt(slots[d], i, s) \in Seq(Slot)
          /\ Len(InsertAt(slots[d], i, s)) = Len(slots[d]) + 1
          /\ \A j \in 1 .. Len(slots[d]) + 1 :
                InsertAt(slots[d], i, s)[j] =
                    IF j < i THEN slots[d][j] ELSE IF j = i THEN s ELSE slots[d][j - 1]
      <3>1. PICK q \in Seq(Slot) : q = slots[d]
        BY <1>3
      <3>2. i \in 1 .. Len(q) + 1
        BY <3>1
      <3>3. /\ InsertAt(q, i, s) \in Seq(Slot)
            /\ Len(InsertAt(q, i, s)) = Len(q) + 1
            /\ \A j \in 1 .. Len(q) + 1 :
                  InsertAt(q, i, s)[j] = IF j < i THEN q[j]
                                         ELSE IF j = i THEN s ELSE q[j - 1]
        BY <3>2, Inserted
      <3> QED
        BY <3>1, <3>3
    <2>4. slots'[d] = InsertAt(slots[d], i, s)
      BY <2>1, <2>2
    <2> QED
      BY <2>1, <2>2, <2>3, <2>4
  <1>10. /\ mrs' \in [Devs -> [MrIds -> [addr : Nat, pages : Nat, pd : PdIds \cup {Null}]]]
         /\ mrs'[d][m] = [addr |-> s.addr, pages |-> s.pages, pd |-> commPd[c][d]]
         /\ \A n \in MrIds \ {m} : mrs'[d][n] = mrs[d][n]
         /\ \A e \in Devs \ {d} : mrs'[e] = mrs[e]
    <2>1. mrs \in [Devs -> [MrIds -> [addr : Nat, pages : Nat, pd : PdIds \cup {Null}]]]
      BY <1>2 DEF TypeOK
    <2>2. [addr |-> s.addr, pages |-> s.pages, pd |-> commPd[c][d]]
             \in [addr : Nat, pages : Nat, pd : PdIds \cup {Null}]
      BY <1>2 DEF TypeOK, Slot
    <2>3. mrs' = [mrs EXCEPT ![d][m] =
                     [addr |-> s.addr, pages |-> s.pages, pd |-> commPd[c][d]]]
      BY <1>1, <1>7
    <2> QED
      BY <2>1, <2>2, <2>3
  <1>11. /\ UNCHANGED <<devVars, commPd, heap, faults>>
         /\ capacity' \in [Devs -> Nat] /\ alloc' \in [Devs -> Nat]
         /\ capacity'[d] = Grow(d) /\ alloc'[d] = Allocated(d)
         /\ \A e \in Devs \ {d} : capacity'[e] = capacity[e] /\ alloc'[e] = alloc[e]
    <2>1. Grow(d) \in Nat /\ Allocated(d) \in Nat
      BY <1>2, GrowFits
    <2>2. capacity \in [Devs -> Nat] /\ alloc \in [Devs -> Nat]
      BY <1>2 DEF TypeOK
    <2> QED
      BY <1>1, <2>1, <2>2
  <1>12. TypeOK'
    <2>1. handle' \in [Comms -> [Handles -> Handle]]
      BY <1>4 DEF OneHandle
    <2> QED
      BY <1>2, <1>4, <1>9, <1>10, <1>11, <2>1 DEF TypeOK, devVars, CommState, Pcs, Handle
  <1>13. ASSUME NEW e \in Devs, e # d
         PROVE  /\ SlotsOn(e)' /\ \A k \in Comms, j \in Handles : HeldBy(k, j, e)'
                /\ ExactOn(e) => ExactOn(e)'
    <2>1. /\ slots'[e] = slots[e] /\ mrs'[e] = mrs[e] /\ capacity'[e] = capacity[e]
          /\ alloc'[e] = alloc[e] /\ UNCHANGED <<devVars, commPd>>
      BY <1>9, <1>10, <1>11, <1>13
    <2>2. b.mrs[e] = handle[c][h].mrs[e]
      BY <1>4, <1>13 DEF Buffer
    <2>3. b.data = handle[c][h].data /\ b.size = handle[c][h].size
      BY <1>5 DEF Buffer
    <2> QED
      BY <1>2, <1>4, <2>1, <2>2, <2>3, DeviceKept
  <1>14. SlotsOn(d)
    BY <1>2 DEF Counted
  <1>15. \A j \in 1 .. Len(slots[d]) : slots[d][j].mr # m
    <2> SUFFICES ASSUME NEW j \in 1 .. Len(slots[d]), slots[d][j].mr = m PROVE FALSE
      OBVIOUS
    <2>1. mrs[d][m].pages = slots[d][j].pages /\ slots[d][j].pages > 0
      BY <1>14 DEF SlotsOn, SlotOn
    <2>2. mrs[d][m] = NoMr
      BY <1>1 DEF Fresh, Registered
    <2> QED
      BY <2>1, <2>2 DEF NoMr
  <1>16. /\ Cardinality(Holders(d, m)') = 1
         /\ \A n \in MrIds \ {m} : Cardinality(Holders(d, n)') = Cardinality(Holders(d, n))
         /\ \A k \in Comms, j \in Handles : handle[k][j].mrs[d] # m
    <2>1. ASSUME NEW k \in Comms, NEW j \in Handles PROVE handle[k][j].mrs[d] # m
      <3>1. HeldBy(k, j, d) /\ m # Null
        BY <1>2, MrConstants DEF Counted
      <3>2. handle[k][j].mrs[d] = m => Known(d, m)
        BY <3>1 DEF HeldBy, Holds
      <3> QED
        BY <1>15, <3>2 DEF Known
    <2>2. Holders(d, m) = {}
      BY <2>1 DEF Holders
    <2>3. Cardinality(Holders(d, m)) = 0
      BY <2>2, FS_EmptySet
    <2>4. \A n \in MrIds : Cardinality(Holders(d, n)') = Cardinality(Holders(d, n))
                    + (IF b.mrs[d] = n THEN 1 ELSE 0)
                    - (IF handle[c][h].mrs[d] = n THEN 1 ELSE 0)
      BY <1>4 DEF OneHandle
    <2>5. \A n \in MrIds : Cardinality(Holders(d, n)) \in Nat /\ handle[c][h].mrs[d] # n
      BY <1>4, HoldersFinite, MrConstants DEF Buffer
    <2> QED
      BY <1>4, <2>1, <2>3, <2>4, <2>5
  <1>17. /\ \A j \in 1 .. Len(slots[d]) :
               /\ (IF j < i THEN j ELSE j + 1) \in 1 .. Len(slots[d]) + 1
               /\ slots'[d][IF j < i THEN j ELSE j + 1] = slots[d][j]
         /\ slots'[d][i] = s
         /\ \A j \in 1 .. Len(slots[d]) + 1 :
               j = i \/ \E l \in 1 .. Len(slots[d]) :
                            slots'[d][j] = slots[d][l] /\ j = IF l < i THEN l ELSE l + 1
    <2>1. ASSUME NEW j \in 1 .. Len(slots[d])
          PROVE  /\ (IF j < i THEN j ELSE j + 1) \in 1 .. Len(slots[d]) + 1
                 /\ slots'[d][IF j < i THEN j ELSE j + 1] = slots[d][j]
      <3>1. CASE j < i
        BY <1>3, <1>9, <3>1
      <3>2. CASE ~(j < i)
        <4>1. j + 1 \in 1 .. Len(slots[d]) + 1 /\ j + 1 > i /\ (j + 1) - 1 = j
          BY <1>3, <3>2
        <4>2. slots'[d][j + 1] = slots[d][(j + 1) - 1]
          BY <1>9, <4>1
        <4> QED
          BY <3>2, <4>1, <4>2
      <3> QED
        BY <3>1, <3>2
    <2>2. ASSUME NEW j \in 1 .. Len(slots[d]) + 1, j # i
          PROVE  \E l \in 1 .. Len(slots[d]) :
                     slots'[d][j] = slots[d][l] /\ j = IF l < i THEN l ELSE l + 1
      <3>1. CASE j < i
        BY <1>3, <1>9, <3>1
      <3>2. CASE j > i
        <4>1. j - 1 \in 1 .. Len(slots[d]) /\ ~(j - 1 < i) /\ j = (j - 1) + 1
          BY <1>3, <3>2
        <4> QED
          BY <1>9, <3>2, <4>1
      <3> QED
        BY <1>3, <2>2, <3>1, <3>2
    <2>3. slots'[d][i] = s
      BY <1>3, <1>9
    <2>4. \A j \in 1 .. Len(slots[d]) + 1 :
             j = i \/ \E l \in 1 .. Len(slots[d]) :
                          slots'[d][j] = slots[d][l] /\ j = IF l < i THEN l ELSE l + 1
      BY <2>2
    <2> QED
      BY <2>1, <2>3, <2>4
  <1>18. /\ s.mr = m /\ s.refs = 1 /\ s.pages > 0 /\ s.addr % PageSize = 0
         /\ s.addr = PageAddr(g) /\ s.pages = Pages(g)
    BY <1>6, <1>7
  <1>19. SlotsOn(d)'
    <2>1. ASSUME NEW j \in 1 .. Len(slots[d]) + 1 PROVE SlotOn(d, slots[d][j])'
      <3>1. CASE j = i
        <4>1. slots'[d][j] = s
          BY <1>17, <3>1
        <4> QED
          BY <1>10, <1>16, <1>18, <4>1 DEF SlotOn
      <3>2. CASE j # i
        <4>1. PICK l \in 1 .. Len(slots[d]) : slots'[d][j] = slots[d][l]
          BY <1>17, <3>2
        <4>2. /\ SlotOn(d, slots[d][l]) /\ slots[d][l].mr # m /\ slots[d][l].mr \in MrIds
          BY <1>3, <1>14, <1>15 DEF SlotsOn, Slot
        <4>3. /\ mrs'[d][slots[d][l].mr] = mrs[d][slots[d][l].mr]
          BY <1>10, <4>2
        <4>4. PICK n \in MrIds \ {m} : n = slots[d][l].mr
          BY <4>2
        <4>5. Cardinality(Holders(d, n)') = Cardinality(Holders(d, n))
          BY <1>16
        <4>6. Holders(d, slots[d][j].mr)' = Holders(d, n)'
          BY <4>1, <4>4 DEF Holders
        <4>7. slots'[d][j].refs >= Cardinality(Holders(d, slots[d][j].mr)')
          BY <4>1, <4>2, <4>4, <4>5, <4>6 DEF SlotOn
        <4> QED
          BY <4>1, <4>2, <4>3, <4>7 DEF SlotOn
      <3> QED
        BY <3>1, <3>2
    <2>2. ASSUME NEW j \in 1 .. Len(slots[d]) + 1, NEW l \in 1 .. Len(slots[d]) + 1,
                 slots'[d][j].mr = slots'[d][l].mr
          PROVE  j = l
      <3>1. CASE j = i /\ l # i
        <4>1. slots'[d][j].mr = m
          BY <1>17, <1>18, <3>1
        <4>2. PICK p \in 1 .. Len(slots[d]) : slots'[d][l] = slots[d][p]
          BY <1>17, <3>1
        <4> QED
          BY <1>15, <2>2, <4>1, <4>2
      <3>2. CASE l = i /\ j # i
        <4>1. slots'[d][l].mr = m
          BY <1>17, <1>18, <3>2
        <4>2. PICK p \in 1 .. Len(slots[d]) : slots'[d][j] = slots[d][p]
          BY <1>17, <3>2
        <4> QED
          BY <1>15, <2>2, <4>1, <4>2
      <3>3. CASE j # i /\ l # i
        <4>1. PICK p \in 1 .. Len(slots[d]) :
                 slots'[d][j] = slots[d][p] /\ j = IF p < i THEN p ELSE p + 1
          BY <1>17, <3>3
        <4>2. PICK q \in 1 .. Len(slots[d]) :
                 slots'[d][l] = slots[d][q] /\ l = IF q < i THEN q ELSE q + 1
          BY <1>17, <3>3
        <4>3. p = q
          BY <1>14, <2>2, <4>1, <4>2 DEF SlotsOn
        <4> QED
          BY <4>1, <4>2, <4>3
      <3> QED
        BY <3>1, <3>2, <3>3
    <2> QED
      BY <1>9, <2>1, <2>2 DEF SlotsOn
  <1>20. Known(d, m)' /\ \A n : Known(d, n) => Known(d, n)'
    <2>1. Known(d, m)'
      BY <1>9, <1>17, <1>18 DEF Known
    <2>2. ASSUME NEW n, Known(d, n) PROVE Known(d, n)'
      <3>1. PICK j \in 1 .. Len(slots[d]) : slots[d][j].mr = n
        BY <2>2 DEF Known
      <3> QED
        BY <1>9, <1>17, <3>1 DEF Known
    <2> QED
      BY <2>1, <2>2
  <1>21. ASSUME NEW k \in Comms, NEW j \in Handles PROVE HeldBy(k, j, d)'
    <2>1. CASE k # c \/ j # h
      <3>1. handle'[k][j] = handle[k][j] /\ HeldBy(k, j, d)
        BY <1>2, <1>4, <2>1 DEF OneHandle, Counted
      <3>2. Holds(k, j, d) => mrs'[d][handle[k][j].mrs[d]] = mrs[d][handle[k][j].mrs[d]]
        <4>1. Holds(k, j, d) => handle[k][j].mrs[d] \in MrIds \ {m}
          BY <1>2, <1>16 DEF Holds, TypeOK
        <4> QED
          BY <1>10, <4>1
      <3> QED
        BY <1>20, <3>1, <3>2 DEF HeldBy, Holds, Spans
    <2>2. CASE k = c /\ j = h
      <3>1. handle'[k][j] = b /\ b.mrs[d] = m
        BY <1>4, <2>2 DEF OneHandle
      <3>2. Spans(b, mrs'[d][m])
        BY <1>5, <1>6, <1>10, <1>18 DEF Spans
      <3> QED
        BY <1>20, <3>1, <3>2 DEF HeldBy, Holds, Spans
    <2> QED
      BY <2>1, <2>2
  <1>22. ASSUME ExactOn(d) PROVE ExactOn(d)'
    <2>1. pd' = pd /\ pdRefs' = pdRefs /\ Users(d)' = Users(d)
      BY <1>11 DEF devVars, Users
    <2>2. ASSUME NEW j \in 1 .. Len(slots[d]) + 1 PROVE ExactSlot(d, slots[d][j])'
      <3>1. CASE j = i
        <4>1. slots'[d][j] = s
          BY <1>17, <3>1
        <4>2. commPd[c][d] = pd[d]
          <5>1. c \in Users(d)
            BY <1>2 DEF Counted, DomainStage, Users
          <5> QED
            BY <1>2, <5>1 DEF Counted, DomainOn
        <4> QED
          BY <1>10, <1>16, <1>18, <2>1, <4>1, <4>2 DEF ExactSlot
      <3>2. CASE j # i
        <4>1. PICK l \in 1 .. Len(slots[d]) : slots'[d][j] = slots[d][l]
          BY <1>17, <3>2
        <4>2. PICK n \in MrIds \ {m} : n = slots[d][l].mr
          BY <1>3, <1>15 DEF Slot
        <4>3. /\ ExactSlot(d, slots[d][l]) /\ mrs'[d][n] = mrs[d][n]
              /\ Cardinality(Holders(d, n)') = Cardinality(Holders(d, n))
          BY <1>10, <1>16, <1>22 DEF ExactOn
        <4>4. Holders(d, slots[d][j].mr)' = Holders(d, n)'
          BY <4>1, <4>2 DEF Holders
        <4> QED
          BY <2>1, <4>1, <4>2, <4>3, <4>4 DEF ExactSlot
      <3> QED
        BY <3>1, <3>2
    <2>3. \A n \in Registered(d)' : Known(d, n)'
      <3>1. ASSUME NEW n \in Registered(d)' PROVE n = m \/ n \in Registered(d)
        BY <1>10 DEF Registered
      <3> QED
        BY <1>20, <1>22, <3>1 DEF ExactOn
    <2>4. /\ capacity'[d] = alloc'[d] /\ Len(slots'[d]) <= alloc'[d]
          /\ Len(slots'[d]) # 0
      <3>1. Grow(d) = Allocated(d) /\ Len(slots[d]) < Allocated(d) /\ Allocated(d) \in Nat
        BY <1>2, <1>22, GrowFits DEF ExactOn
      <3> QED
        BY <1>3, <1>9, <1>11, <3>1
    <2> QED
      BY <1>9, <1>22, <2>1, <2>2, <2>3, <2>4 DEF ExactOn
  <1>23. /\ \A e \in Devs : SlotsOn(e)'
         /\ \A k \in Comms, j \in Handles, e \in Devs : HeldBy(k, j, e)'
    BY <1>13, <1>19, <1>21
  <1>24. ASSUME faults' = 0
         PROVE  faults = 0 /\ heap' = "ok" /\ \A e \in Devs : ExactOn(e)'
    <2>1. Exact /\ faults = 0
      BY <1>11, <1>24 DEF MrInv
    <2> QED
      BY <1>11, <1>13, <1>22, <2>1 DEF Exact
  <1>25. \A o \in Comms \ {c} : handle'[o] = handle[o]
    BY <1>4, OthersSame
  <1> QED
    BY <1>2, <1>4, <1>11, <1>12, <1>23, <1>24, <1>25, CacheStep DEF InUse

\* The handle under way once device d is done with; a handle is freed after
\* its last device.
Without(c, d) == IF d < NDevs THEN With(c, d, Null) ELSE NoHandle

LEMMA DeregNextEffect ==
    ASSUME TypeOK, Counted, NEW c \in Comms, NEW d \in Devs,
           comm[c].pc = "dereg", comm[c].dev = d, DeregNext(c, d)
    PROVE  /\ Without(c, d) \in Handle /\ OneHandle(c, comm[c].h, Without(c, d))
           /\ HandleStage(c)' /\ comm[c].h \in Handles
           /\ comm' \in [Comms -> CommState] /\ comm'[c].pc \in InUse
           /\ comm'[c].pc = "open" => comm'[c].dev = 1
           /\ \A o \in Comms \ {c} : comm'[o] = comm[o]
           /\ Buffer(c).mrs[d] \in MrIds /\ Without(c, d).mrs[d] = Null
           /\ \A e \in Devs \ {d} : /\ Without(c, d).mrs[e] = Buffer(c).mrs[e]
                                    /\ Without(c, d).mrs[e] # Null =>
                                         /\ Without(c, d).data = Buffer(c).data
                                         /\ Without(c, d).size = Buffer(c).size
  <1> DEFINE h == comm[c].h
             b == Without(c, d)
  <1>1. h \in Handles /\ handle \in [Comms -> [Handles -> Handle]] /\ Buffer(c) \in Handle
    BY DEF TypeOK, Handle, Buffer
  <1>2. /\ With(c, d, Null) \in Handle /\ With(c, d, Null).mrs[d] = Null
        /\ With(c, d, Null).data = Buffer(c).data
        /\ With(c, d, Null).size = Buffer(c).size
        /\ \A e \in Devs \ {d} : With(c, d, Null).mrs[e] = Buffer(c).mrs[e]
    BY <1>1 DEF Handle, With
  <1>3. HandleStage(c)
    BY DEF Counted
  <1>4. \A e \in Devs : (Buffer(c).mrs[e] # Null) <=> e >= d
    BY <1>3 DEF HandleStage
  <1>5. Buffer(c).mrs[d] \in MrIds
    BY <1>1, <1>4, MrConstants DEF Handle
  <1>6. /\ b \in Handle /\ b.mrs[d] = Null
        /\ \A e \in Devs \ {d} : /\ b.mrs[e] = Buffer(c).mrs[e]
                                 /\ b.mrs[e] # Null => /\ b.data = Buffer(c).data
                                                       /\ b.size = Buffer(c).size
    <2>1. CASE d < NDevs
      BY <1>2, <2>1 DEF Without
    <2>2. CASE ~(d < NDevs)
      <3>1. b = NoHandle /\ \A e \in Devs : b.mrs[e] = Null
        BY <2>2 DEF Without, NoHandle
      <3>2. \A e \in Devs \ {d} : ~(e >= d)
        BY <2>2, MrConstants DEF Devs
      <3> QED
        BY <1>4, <3>1, <3>2, MrConstants
    <2> QED
      BY <2>1, <2>2
  <1>7. handle' = [handle EXCEPT ![c][h] = b]
    <2>1. [handle[c][h] EXCEPT !.mrs[d] = Null] = With(c, d, Null)
      <3>1. PICK x \in Nat, y \in Nat, z \in [Devs -> MrIds \cup {Null}] :
                handle[c][h] = [data |-> x, size |-> y, mrs |-> z]
        <4>1. handle[c][h] \in Handle
          BY <1>1
        <4> HIDE DEF h
        <4> QED
          BY <4>1 DEF Handle
      <3> QED
        BY <3>1 DEF With, Buffer
    <2>2. handle' = [handle EXCEPT ![c][h] =
                        IF d < NDevs THEN [handle[c][h] EXCEPT !.mrs[d] = Null]
                        ELSE NoHandle]
      BY <1>1 DEF DeregNext
    <2> QED
      BY <2>1, <2>2 DEF Without
  <1>8. OneHandle(c, h, b)
    BY <1>1, <1>6, <1>7, HandleChange
  <1>9. /\ comm' \in [Comms -> CommState]
        /\ comm'[c] = IF d < NDevs
                      THEN [pc |-> "dereg", dev |-> d + 1, h |-> comm[c].h]
                      ELSE [pc |-> "open", dev |-> 1, h |-> 1]
        /\ \A o \in Comms \ {c} : comm'[o] = comm[o]
    <2>1. ForEachDev(c, d, "dereg", "open") /\ "dereg" \in Pcs /\ "open" \in Pcs
      BY DEF DeregNext, Pcs
    <2> QED
      BY <2>1, CommLoops
  <1>10. HandleStage(c)'
    <2>1. /\ handle'[c][h] = b
          /\ \A k \in Handles \ {h} : handle'[c][k] = handle[c][k]
      BY <1>8 DEF OneHandle
    <2>2. \A k \in Handles \ {h} : handle'[c][k] = NoHandle \/ Whole(handle'[c][k])
      BY <1>3, <2>1 DEF HandleStage
    <2>3. CASE d < NDevs
      <3>1. comm'[c].pc = "dereg" /\ comm'[c].dev = d + 1 /\ comm'[c].h = h
        BY <1>9, <2>3
      <3>2. Buffer(c)' = b
        BY <2>1, <3>1 DEF Buffer
      <3>3. \A e \in Devs : (b.mrs[e] # Null) <=> e >= d + 1
        BY <1>4, <1>6, MrConstants
      <3>4. \A k \in Handles : \/ k = h \/ handle'[c][k] = NoHandle
                               \/ Whole(handle'[c][k])
        BY <2>2
      <3> QED
        BY <3>1, <3>2, <3>3, <3>4 DEF HandleStage, Whole
    <2>4. CASE ~(d < NDevs)
      <3>1. comm'[c].pc = "open"
        BY <1>9, <2>4
      <3>2. b = NoHandle
        BY <2>4 DEF Without
      <3>3. \A k \in Handles : handle'[c][k] = NoHandle \/ Whole(handle'[c][k])
        BY <2>1, <2>2, <3>2
      <3> QED
        BY <3>1, <3>3 DEF HandleStage, Whole
    <2> QED
      BY <2>3, <2>4
  <1>11. comm'[c].pc \in InUse /\ (comm'[c].pc = "open" => comm'[c].dev = 1)
    BY <1>9 DEF InUse
  <1> QED
    BY <1>1, <1>5, <1>6, <1>8, <1>9, <1>10, <1>11

LEMMA HolderCounted ==
    ASSUME TypeOK, Counted, NEW c \in Comms, NEW h \in Handles, NEW d \in Devs,
           NEW m \in MrIds, handle[c][h].mrs[d] = m
    PROVE  /\ Known(d, m) /\ Cardinality(Holders(d, m)) \in Nat \ {0}
           /\ Cardinality(Holders(d, m)) = 1 =>
                 \A k \in Comms, j \in Handles :
                    handle[k][j].mrs[d] = m => k = c /\ j = h
  <1>1. Known(d, m)
    BY MrConstants DEF Counted, HeldBy, Holds
  <1>2. /\ IsFiniteSet(Holders(d, m)) /\ Cardinality(Holders(d, m)) \in Nat
        /\ <<c, h>> \in Holders(d, m)
    <2>1. IsFiniteSet(Holders(d, m)) /\ Cardinality(Holders(d, m)) \in Nat
      BY HoldersFinite
    <2>2. <<c, h>> \in Holders(d, m)
      BY DEF Holders
    <2> QED
      BY <2>1, <2>2
  <1>3. Cardinality(Holders(d, m)) # 0
    BY <1>2, FS_EmptySet
  <1>4. ASSUME Cardinality(Holders(d, m)) = 1, NEW k \in Comms, NEW j \in Handles,
               handle[k][j].mrs[d] = m
        PROVE  k = c /\ j = h
    <2>1. PICK x : Holders(d, m) = {x}
      BY <1>2, <1>4, FS_Singleton
    <2>2. <<k, j>> \in Holders(d, m)
      BY <1>4 DEF Holders
    <2>3. <<k, j>> = <<c, h>>
      BY <1>2, <2>1, <2>2
    <2> QED
      BY <2>3
  <1> QED
    BY <1>1, <1>2, <1>3, <1>4

LEMMA DeregKeepStep ==
    ASSUME MrInv, NEW c \in Comms, DeregKeep(c)
    PROVE  MrInv'
  <1> DEFINE h == comm[c].h
  <1>1. PICK d \in Devs :
          LET m == Buffer(c).mrs[d]
          IN  /\ At(c, "dereg", d)
              /\ Known(d, m)
              /\ ~IsLastRef(slots[d][SlotOf(d, m)])
              /\ slots' = [slots EXCEPT ![d][SlotOf(d, m)].refs = @ - 1]
              /\ DeregNext(c, d)
              /\ UNCHANGED <<devVars, capacity, alloc, mrs, commPd, heap, faults>>
    BY DEF DeregKeep
  <1>2. TypeOK /\ Counted /\ comm[c].pc = "dereg" /\ comm[c].dev = d
    BY <1>1 DEF MrInv, At
  <1>3. /\ slots[d] \in Seq(Slot) /\ Len(slots[d]) \in Nat
        /\ \A j \in 1 .. Len(slots[d]) : slots[d][j] \in Slot
    BY <1>2, SlotTypes
  <1> DEFINE b == Without(c, d)
  <1>4. /\ b \in Handle /\ OneHandle(c, h, b)
        /\ HandleStage(c)' /\ h \in Handles
        /\ comm' \in [Comms -> CommState] /\ comm'[c].pc \in InUse
        /\ comm'[c].pc = "open" => comm'[c].dev = 1
        /\ \A o \in Comms \ {c} : comm'[o] = comm[o]
        /\ Buffer(c).mrs[d] \in MrIds /\ b.mrs[d] = Null
        /\ \A e \in Devs \ {d} : /\ b.mrs[e] = Buffer(c).mrs[e]
                                 /\ b.mrs[e] # Null => /\ b.data = Buffer(c).data
                                                       /\ b.size = Buffer(c).size
    <2>1. DeregNext(c, d)
      BY <1>1
    <2> QED
      BY <1>2, <2>1, DeregNextEffect
  <1> HIDE DEF b
  <1>5. PICK m \in MrIds : m = Buffer(c).mrs[d]
    BY <1>4
  <1>6. PICK i \in 1 .. Len(slots[d]) : i = SlotOf(d, m) /\ slots[d][i].mr = m
    <2>1. Known(d, m)
      BY <1>1, <1>5
    <2> QED
      BY <1>2, <2>1, SlotOfFound
  <1>7. /\ slots[d][i].refs # 1
        /\ slots' = [slots EXCEPT ![d][i].refs = @ - 1]
        /\ UNCHANGED <<devVars, capacity, alloc, mrs, commPd, heap, faults>>
    BY <1>1, <1>5, <1>6 DEF IsLastRef
  <1>8. /\ SlotsOn(d) /\ slots[d][i] \in Slot /\ slots[d][i].refs \in Nat
        /\ slots[d][i].refs > 1
    <2>1. SlotsOn(d) /\ slots[d][i] \in Slot
      BY <1>2, <1>3, <1>6 DEF Counted
    <2> QED
      BY <1>6, <1>7, <2>1 DEF SlotsOn, SlotOn, Slot
  <1> DEFINE s == [slots[d][i] EXCEPT !.refs = @ - 1]
  <1>9. /\ s \in Slot /\ s.refs = slots[d][i].refs - 1 /\ s.mr = m
        /\ s.addr = slots[d][i].addr /\ s.pages = slots[d][i].pages
    BY <1>6, <1>8 DEF Slot
  <1>10. /\ slots' \in [Devs -> Seq(Slot)] /\ Len(slots'[d]) = Len(slots[d])
         /\ \A e \in Devs \ {d} : slots'[e] = slots[e]
         /\ \A j \in 1 .. Len(slots[d]) : slots'[d][j] = IF j = i THEN s ELSE slots[d][j]
    <2>1. slots \in [Devs -> Seq(Slot)]
      BY <1>2 DEF TypeOK
    <2>2. slots'[d] = [slots[d] EXCEPT ![i] = s]
      BY <1>6, <1>7, <2>1
    <2>3. slots' = [slots EXCEPT ![d] = [slots[d] EXCEPT ![i] = s]]
      BY <1>7, <2>1
    <2> HIDE DEF s
    <2>4. /\ [slots[d] EXCEPT ![i] = s] \in Seq(Slot)
          /\ Len([slots[d] EXCEPT ![i] = s]) = Len(slots[d])
      BY <1>3, <1>6, <1>9, ExceptSeq
    <2> QED
      BY <1>3, <1>6, <2>1, <2>2, <2>3, <2>4
  <1> HIDE DEF s
  <1>11. TypeOK'
    <2>1. handle' \in [Comms -> [Handles -> Handle]]
      BY <1>4 DEF OneHandle
    <2> QED
      BY <1>2, <1>4, <1>7, <1>10, <2>1 DEF TypeOK, devVars, CommState, Pcs, Handle
  <1>12. ASSUME NEW e \in Devs, e # d
         PROVE  /\ SlotsOn(e)' /\ \A k \in Comms, g \in Handles : HeldBy(k, g, e)'
                /\ ExactOn(e) => ExactOn(e)'
    <2>1. /\ slots'[e] = slots[e] /\ mrs'[e] = mrs[e] /\ capacity'[e] = capacity[e]
          /\ alloc'[e] = alloc[e] /\ UNCHANGED <<devVars, commPd>>
      BY <1>7, <1>10, <1>12
    <2>2. /\ b.mrs[e] = handle[c][h].mrs[e]
          /\ b.mrs[e] # Null => /\ b.data = handle[c][h].data
                                /\ b.size = handle[c][h].size
      BY <1>4, <1>12 DEF Buffer
    <2> QED
      BY <1>2, <1>4, <2>1, <2>2, DeviceKept
  <1>13. /\ \A n \in MrIds : Cardinality(Holders(d, n)) \in Nat
         /\ \A n \in MrIds : Cardinality(Holders(d, n)') =
                Cardinality(Holders(d, n)) - (IF m = n THEN 1 ELSE 0)
    <2>1. \A n \in MrIds : Cardinality(Holders(d, n)) \in Nat
      BY HoldersFinite
    <2>2. ASSUME NEW n \in MrIds
          PROVE  Cardinality(Holders(d, n)') =
                     Cardinality(Holders(d, n)) - (IF m = n THEN 1 ELSE 0)
      <3>1. Cardinality(Holders(d, n)') = Cardinality(Holders(d, n))
                    + (IF b.mrs[d] = n THEN 1 ELSE 0)
                    - (IF handle[c][h].mrs[d] = n THEN 1 ELSE 0)
        BY <1>4 DEF OneHandle
      <3>2. handle[c][h].mrs[d] = m /\ b.mrs[d] # n
        BY <1>4, <1>5, MrConstants DEF Buffer
      <3> QED
        BY <2>1, <3>1, <3>2
    <2> QED
      BY <2>1, <2>2
  <1>14. \A j \in 1 .. Len(slots[d]) : slots'[d][j].mr = slots[d][j].mr
    BY <1>6, <1>9, <1>10
  <1>15. \A n : Known(d, n) => Known(d, n)'
    BY <1>10, <1>14 DEF Known
  <1>16. SlotsOn(d)'
    <2>1. ASSUME NEW j \in 1 .. Len(slots[d]) PROVE SlotOn(d, slots[d][j])'
      <3>1. SlotOn(d, slots[d][j]) /\ slots[d][j] \in Slot
        BY <1>3, <1>8 DEF SlotsOn
      <3>2. slots[d][j].mr \in MrIds /\ slots[d][j].refs \in Nat
        BY <3>1 DEF Slot
      <3>3. CASE j = i
        <4>1. /\ Cardinality(Holders(d, m)') = Cardinality(Holders(d, m)) - 1
              /\ Cardinality(Holders(d, m)) \in Nat
          BY <1>13
        <4>2. slots'[d][j] = s
          BY <1>10, <3>3
        <4>3. s.refs > 0 /\ s.refs >= Cardinality(Holders(d, m)')
          BY <1>6, <1>8, <1>9, <3>1, <3>3, <4>1 DEF SlotOn
        <4>4. /\ s.addr = slots[d][j].addr /\ s.pages = slots[d][j].pages /\ mrs' = mrs
          BY <1>7, <1>9, <3>3
        <4> QED
          BY <1>6, <1>9, <3>1, <3>3, <4>2, <4>3, <4>4 DEF SlotOn
      <3>4. CASE j # i
        <4>1. slots'[d][j] = slots[d][j] /\ mrs' = mrs
          BY <1>7, <1>10, <3>4
        <4>2. slots[d][j].mr # m
          BY <1>6, <1>8, <3>4 DEF SlotsOn
        <4>3. Cardinality(Holders(d, slots[d][j].mr)') = Cardinality(Holders(d, slots[d][j].mr))
          BY <1>13, <3>2, <4>1, <4>2
        <4> QED
          BY <3>1, <4>1, <4>3 DEF SlotOn
      <3> QED
        BY <3>3, <3>4
    <2>2. \A j, l \in 1 .. Len(slots[d]) : slots'[d][j].mr = slots'[d][l].mr => j = l
      BY <1>8, <1>14 DEF SlotsOn
    <2> QED
      BY <1>10, <2>1, <2>2 DEF SlotsOn
  <1>17. ASSUME NEW k \in Comms, NEW g \in Handles PROVE HeldBy(k, g, d)'
    <2>1. CASE k # c \/ g # h
      <3>1. handle'[k][g] = handle[k][g] /\ HeldBy(k, g, d) /\ mrs' = mrs
        BY <1>2, <1>4, <1>7, <2>1 DEF OneHandle, Counted
      <3> QED
        BY <1>15, <3>1 DEF HeldBy, Holds, Spans
    <2>2. CASE k = c /\ g = h
      BY <1>4, <2>2 DEF OneHandle, HeldBy, Holds
    <2> QED
      BY <2>1, <2>2
  <1>18. ASSUME ExactOn(d) PROVE ExactOn(d)'
    <2>1. ASSUME NEW j \in 1 .. Len(slots[d]) PROVE ExactSlot(d, slots[d][j])'
      <3>1. ExactSlot(d, slots[d][j]) /\ slots[d][j].mr \in MrIds
        BY <1>3, <1>18 DEF ExactOn, Slot
      <3>2. pd' = pd /\ mrs' = mrs
        BY <1>7 DEF devVars
      <3>3. CASE j = i
        <4>1. slots'[d][j].refs = slots[d][j].refs - 1 /\ slots'[d][j].mr = m
          BY <1>9, <1>10, <3>3
        <4> QED
          BY <1>6, <1>13, <3>1, <3>2, <3>3, <4>1 DEF ExactSlot
      <3>4. CASE j # i
        <4>1. slots'[d][j] = slots[d][j] /\ slots[d][j].mr # m
          BY <1>6, <1>8, <1>10, <3>4 DEF SlotsOn
        <4>2. Cardinality(Holders(d, slots[d][j].mr)') = Cardinality(Holders(d, slots[d][j].mr))
          BY <1>13, <3>1, <4>1
        <4> QED
          BY <3>1, <3>2, <4>1, <4>2 DEF ExactSlot
      <3> QED
        BY <3>3, <3>4
    <2>2. Users(d)' = Users(d) /\ pdRefs' = pdRefs /\ Registered(d)' = Registered(d)
      BY <1>7 DEF Users, devVars, Registered
    <2>3. capacity' = capacity /\ alloc' = alloc
      BY <1>7
    <2> QED
      BY <1>10, <1>15, <1>18, <2>1, <2>2, <2>3 DEF ExactOn
  <1>19. /\ \A e \in Devs : SlotsOn(e)'
         /\ \A k \in Comms, g \in Handles, e \in Devs : HeldBy(k, g, e)'
    BY <1>12, <1>16, <1>17
  <1>20. ASSUME faults' = 0
         PROVE  faults = 0 /\ heap' = "ok" /\ \A e \in Devs : ExactOn(e)'
    <2>1. Exact /\ faults = 0
      BY <1>7, <1>20 DEF MrInv
    <2> QED
      BY <1>7, <1>12, <1>18, <2>1 DEF Exact
  <1>21. \A o \in Comms \ {c} : handle'[o] = handle[o]
    BY <1>4, OthersSame
  <1> QED
    BY <1>2, <1>4, <1>7, <1>11, <1>19, <1>20, <1>21, CacheStep DEF InUse

\* The slot of an MR goes with its only holder.
LEMMA DropEffect ==
    ASSUME TypeOK, Counted, NEW c \in Comms, NEW h \in Handles, NEW d \in Devs,
           NEW m \in MrIds, handle[c][h].mrs[d] = m,
           NEW i \in 1 .. Len(slots[d]), slots[d][i].mr = m, slots[d][i].refs = 1,
           DropSlot(d, i), NEW b \in Handle, OneHandle(c, h, b), b.mrs[d] = Null,
           \A n \in MrIds \ {m} : mrs'[d][n] = mrs[d][n]
    PROVE  /\ slots' \in [Devs -> Seq(Slot)]
           /\ capacity' \in [Devs -> Nat] /\ alloc' \in [Devs -> Nat]
           /\ \A e \in Devs \ {d} : /\ slots'[e] = slots[e]
                                    /\ capacity'[e] = capacity[e] /\ alloc'[e] = alloc[e]
           /\ SlotsOn(d)' /\ \A k \in Comms, g \in Handles : HeldBy(k, g, d)'
           /\ (/\ ExactOn(d) /\ mrs'[d][m] = NoMr
               /\ UNCHANGED <<devVars, commPd>>) => ExactOn(d)'
  <1> DEFINE n == Len(slots[d])
  <1>1. /\ slots[d] \in Seq(Slot) /\ n \in Nat
        /\ \A j \in 1 .. n : slots[d][j] \in Slot
    BY SlotTypes
  <1>2. /\ capacity' \in [Devs -> Nat] /\ alloc' \in [Devs -> Nat]
        /\ \A e \in Devs \ {d} : capacity'[e] = capacity[e] /\ alloc'[e] = alloc[e]
        /\ n = 1 => capacity'[d] = 0 /\ alloc'[d] = 0
        /\ n # 1 => capacity' = capacity /\ alloc' = alloc
    <2>1. capacity \in [Devs -> Nat] /\ alloc \in [Devs -> Nat]
      BY DEF TypeOK
    <2> QED
      BY <2>1 DEF DropSlot
  <1>3. /\ slots' \in [Devs -> Seq(Slot)] /\ Len(slots'[d]) = n - 1
        /\ \A e \in Devs \ {d} : slots'[e] = slots[e]
        /\ \A j \in 1 .. n - 1 :
              slots'[d][j] = IF j = i THEN slots[d][n] ELSE slots[d][j]
    <2>1. /\ FillHole(slots[d], i) \in Seq(Slot)
          /\ Len(FillHole(slots[d], i)) = n - 1
          /\ \A j \in 1 .. n - 1 : FillHole(slots[d], i)[j] =
                                      IF j = i THEN slots[d][n] ELSE slots[d][j]
      BY <1>1, Filled
    <2>2. slots \in [Devs -> Seq(Slot)]
      BY DEF TypeOK
    <2>3. slots' = [slots EXCEPT ![d] = FillHole(slots[d], i)]
      BY <2>2 DEF DropSlot
    <2>4. slots'[d] = FillHole(slots[d], i)
      BY <2>2, <2>3
    <2> QED
      BY <2>1, <2>2, <2>3, <2>4
  <1> HIDE DEF n
  <1>4. SlotsOn(d) /\ \A k \in Comms, g \in Handles : HeldBy(k, g, d)
    BY DEF Counted
  <1>5. \A k \in Comms, g \in Handles : handle[k][g].mrs[d] = m => k = c /\ g = h
    <2>1. /\ Cardinality(Holders(d, m)) \in Nat \ {0}
          /\ Cardinality(Holders(d, m)) = 1 =>
                 \A k \in Comms, g \in Handles :
                    handle[k][g].mrs[d] = m => k = c /\ g = h
      BY HolderCounted
    <2>2. slots[d][i].refs >= Cardinality(Holders(d, m))
      BY <1>4 DEF SlotsOn, SlotOn
    <2>3. Cardinality(Holders(d, m)) = 1
      BY <2>1, <2>2
    <2> QED
      BY <2>1, <2>3
  <1>6. \A j \in 1 .. n : j # i => slots[d][j].mr \in MrIds \ {m}
    BY <1>1, <1>4 DEF SlotsOn, Slot, n
  <1>7. \A j \in 1 .. n - 1 :
           \E l \in 1 .. n : l # i /\ slots'[d][j] = slots[d][l]
                               /\ l = IF j = i THEN n ELSE j
    <2> SUFFICES ASSUME NEW j \in 1 .. n - 1
                 PROVE  \E l \in 1 .. n : l # i /\ slots'[d][j] = slots[d][l]
                                            /\ l = IF j = i THEN n ELSE j
      OBVIOUS
    <2>1. CASE j = i
      <3>1. n \in 1 .. n /\ n # i /\ slots'[d][j] = slots[d][n]
        BY <1>1, <1>3, <2>1
      <3> QED
        BY <2>1, <3>1
    <2>2. CASE j # i
      BY <1>1, <1>3, <2>2
    <2> QED
      BY <2>1, <2>2
  <1>8. \A l \in 1 .. n : l # i => \E j \in 1 .. n - 1 : slots'[d][j] = slots[d][l]
    <2> SUFFICES ASSUME NEW l \in 1 .. n, l # i
                 PROVE  \E j \in 1 .. n - 1 : slots'[d][j] = slots[d][l]
      OBVIOUS
    <2>1. i \in 1 .. n
      BY DEF n
    <2>2. CASE l = n
      <3>1. i \in 1 .. n - 1
        BY <1>1, <2>1, <2>2
      <3> QED
        BY <1>3, <2>2, <3>1
    <2>3. CASE l # n
      <3>1. l \in 1 .. n - 1
        BY <1>1, <2>3
      <3> QED
        BY <1>3, <3>1
    <2> QED
      BY <2>2, <2>3
  <1>9. \A x \in MrIds \ {m} : Cardinality(Holders(d, x)') = Cardinality(Holders(d, x))
    <2> SUFFICES ASSUME NEW x \in MrIds \ {m}
                 PROVE  Cardinality(Holders(d, x)') = Cardinality(Holders(d, x))
      OBVIOUS
    <2>1. Cardinality(Holders(d, x)') = Cardinality(Holders(d, x))
                    + (IF b.mrs[d] = x THEN 1 ELSE 0)
                    - (IF handle[c][h].mrs[d] = x THEN 1 ELSE 0)
      BY DEF OneHandle
    <2>2. b.mrs[d] # x /\ handle[c][h].mrs[d] # x /\ Cardinality(Holders(d, x)) \in Nat
      BY HoldersFinite, MrConstants
    <2> QED
      BY <2>1, <2>2
  <1>10. \A x \in MrIds \ {m} : Known(d, x) => Known(d, x)'
    <2> SUFFICES ASSUME NEW x \in MrIds \ {m}, Known(d, x) PROVE Known(d, x)'
      OBVIOUS
    <2>1. PICK l \in 1 .. n : slots[d][l].mr = x
      BY DEF Known, n
    <2>2. l # i
      BY <2>1
    <2>3. PICK j \in 1 .. n - 1 : slots'[d][j] = slots[d][l]
      BY <1>8, <2>2
    <2> QED
      BY <1>3, <2>1, <2>3 DEF Known
  <1>11. SlotsOn(d)'
    <2>1. ASSUME NEW j \in 1 .. n - 1 PROVE SlotOn(d, slots[d][j])'
      <3>1. PICK l \in 1 .. n : l # i /\ slots'[d][j] = slots[d][l]
        BY <1>7
      <3>2. PICK x \in MrIds \ {m} : x = slots[d][l].mr
        BY <1>6, <3>1
      <3>3. /\ SlotOn(d, slots[d][l]) /\ mrs'[d][x] = mrs[d][x]
            /\ Cardinality(Holders(d, x)') = Cardinality(Holders(d, x))
        BY <1>4, <1>9 DEF SlotsOn, n
      <3>4. Holders(d, slots[d][j].mr)' = Holders(d, x)'
        BY <3>1, <3>2 DEF Holders
      <3> QED
        BY <3>1, <3>2, <3>3, <3>4 DEF SlotOn
    <2>2. ASSUME NEW j \in 1 .. n - 1, NEW l \in 1 .. n - 1,
                 slots'[d][j].mr = slots'[d][l].mr
          PROVE  j = l
      <3>1. PICK p \in 1 .. n : /\ p # i /\ slots'[d][j] = slots[d][p]
                                /\ p = IF j = i THEN n ELSE j
        BY <1>7
      <3>2. PICK q \in 1 .. n : /\ q # i /\ slots'[d][l] = slots[d][q]
                                /\ q = IF l = i THEN n ELSE l
        BY <1>7
      <3>3. p = q
        BY <1>4, <2>2, <3>1, <3>2 DEF SlotsOn, n
      <3> QED
        BY <1>1, <3>1, <3>2, <3>3
    <2> QED
      BY <1>3, <2>1, <2>2 DEF SlotsOn
  <1>12. ASSUME NEW k \in Comms, NEW g \in Handles PROVE HeldBy(k, g, d)'
    <2>1. CASE k # c \/ g # h
      <3>1. handle'[k][g] = handle[k][g] /\ HeldBy(k, g, d)
        BY <1>4, <2>1 DEF OneHandle
      <3>2. Holds(k, g, d) => handle[k][g].mrs[d] \in MrIds \ {m}
        BY <1>5, <2>1 DEF TypeOK, Holds
      <3>3. Holds(k, g, d) => /\ mrs'[d][handle[k][g].mrs[d]] = mrs[d][handle[k][g].mrs[d]]
                              /\ Known(d, handle[k][g].mrs[d]) =>
                                   \E j \in 1 .. Len(slots'[d]) :
                                      slots'[d][j].mr = handle[k][g].mrs[d]
        BY <1>10, <3>2 DEF Known
      <3> QED
        BY <3>1, <3>2, <3>3 DEF HeldBy, Holds, Spans, Known
    <2>2. CASE k = c /\ g = h
      BY <2>2 DEF OneHandle, HeldBy, Holds
    <2> QED
      BY <2>1, <2>2
  <1>13. ASSUME ExactOn(d), mrs'[d][m] = NoMr, UNCHANGED <<devVars, commPd>>
         PROVE  ExactOn(d)'
    <2>1. pd' = pd /\ pdRefs' = pdRefs /\ Users(d)' = Users(d)
      BY <1>13 DEF devVars, Users
    <2>2. ASSUME NEW j \in 1 .. n - 1 PROVE ExactSlot(d, slots[d][j])'
      <3>1. PICK l \in 1 .. n : l # i /\ slots'[d][j] = slots[d][l]
        BY <1>7
      <3>2. PICK x \in MrIds \ {m} : x = slots[d][l].mr
        BY <1>6, <3>1
      <3>3. /\ ExactSlot(d, slots[d][l]) /\ mrs'[d][x] = mrs[d][x]
            /\ Cardinality(Holders(d, x)') = Cardinality(Holders(d, x))
        BY <1>9, <1>13 DEF ExactOn, n
      <3>4. Holders(d, slots[d][j].mr)' = Holders(d, x)'
        BY <3>1, <3>2 DEF Holders
      <3> QED
        BY <2>1, <3>1, <3>2, <3>3, <3>4 DEF ExactSlot
    <2>3. \A x \in Registered(d)' : Known(d, x)'
      <3>1. ASSUME NEW x \in Registered(d)'
            PROVE  x \in MrIds \ {m} /\ x \in Registered(d)
        BY <1>13 DEF Registered
      <3> QED
        BY <1>10, <1>13, <3>1 DEF ExactOn
    <2>4. /\ capacity'[d] = alloc'[d] /\ Len(slots'[d]) <= alloc'[d]
          /\ Len(slots'[d]) = 0 => capacity'[d] = 0
      <3>1. /\ capacity[d] = alloc[d] /\ n <= alloc[d] /\ alloc[d] \in Nat
        BY <1>13 DEF ExactOn, TypeOK, n
      <3>2. CASE n = 1
        BY <1>1, <1>2, <1>3, <3>2
      <3>3. CASE n # 1
        BY <1>1, <1>2, <1>3, <3>1, <3>3
      <3> QED
        BY <3>2, <3>3
    <2> QED
      BY <1>3, <1>13, <2>1, <2>2, <2>3, <2>4 DEF ExactOn
  <1> QED
    BY <1>2, <1>3, <1>11, <1>12, <1>13

LEMMA DeregLastStep ==
    ASSUME MrInv, NEW c \in Comms, DeregLast(c)
    PROVE  MrInv'
  <1> DEFINE h == comm[c].h
  <1>1. PICK d \in Devs :
          LET m == Buffer(c).mrs[d]
          IN  /\ At(c, "dereg", d)
              /\ IF ~Known(d, m)
                 THEN Fail(c) /\ UNCHANGED <<cacheVars, handle>>
                 ELSE /\ IsLastRef(slots[d][SlotOf(d, m)])
                      /\ DropSlot(d, SlotOf(d, m))
                      /\ mrs' = [mrs EXCEPT ![d][m] = NoMr]
                      /\ DeregNext(c, d)
              /\ UNCHANGED <<devVars, commPd, heap, faults>>
    BY DEF DeregLast
  <1>2. TypeOK /\ Counted /\ comm[c].pc = "dereg" /\ comm[c].dev = d
    BY <1>1 DEF MrInv, At
  <1>3. h \in Handles /\ Buffer(c) = handle[c][h] /\ Buffer(c).mrs[d] \in MrIds
    <2>1. h \in Handles /\ Buffer(c).mrs[d] \in MrIds \cup {Null}
      BY <1>2 DEF TypeOK, Buffer
    <2>2. Buffer(c).mrs[d] # Null
      BY <1>2, MrConstants DEF Counted, HandleStage
    <2> QED
      BY <2>1, <2>2 DEF Buffer
  <1>4. PICK m \in MrIds : m = Buffer(c).mrs[d]
    BY <1>3
  <1>5. Known(d, m)
    BY <1>2, <1>3, <1>4, HolderCounted
  <1>6. PICK i \in 1 .. Len(slots[d]) : i = SlotOf(d, m) /\ slots[d][i].mr = m
    BY <1>2, <1>5, SlotOfFound
  <1>7. /\ slots[d][i].refs = 1 /\ DropSlot(d, i) /\ DeregNext(c, d)
        /\ mrs' = [mrs EXCEPT ![d][m] = NoMr]
        /\ UNCHANGED <<devVars, commPd, heap, faults>>
    BY <1>1, <1>4, <1>5, <1>6 DEF IsLastRef
  <1> DEFINE b == Without(c, d)
  <1>8. /\ b \in Handle /\ OneHandle(c, h, b) /\ HandleStage(c)'
        /\ comm' \in [Comms -> CommState] /\ comm'[c].pc \in InUse
        /\ comm'[c].pc = "open" => comm'[c].dev = 1
        /\ \A o \in Comms \ {c} : comm'[o] = comm[o]
        /\ b.mrs[d] = Null
        /\ \A e \in Devs \ {d} : /\ b.mrs[e] = Buffer(c).mrs[e]
                                 /\ b.mrs[e] # Null => /\ b.data = Buffer(c).data
                                                       /\ b.size = Buffer(c).size
    BY <1>2, <1>7, DeregNextEffect
  <1> HIDE DEF b
  <1>9. /\ mrs' \in [Devs -> [MrIds -> [addr : Nat, pages : Nat, pd : PdIds \cup {Null}]]]
        /\ mrs'[d][m] = NoMr /\ \A x \in MrIds \ {m} : mrs'[d][x] = mrs[d][x]
        /\ \A e \in Devs \ {d} : mrs'[e] = mrs[e]
    <2>1. mrs \in [Devs -> [MrIds -> [addr : Nat, pages : Nat, pd : PdIds \cup {Null}]]]
      BY <1>2 DEF TypeOK
    <2>2. NoMr \in [addr : Nat, pages : Nat, pd : PdIds \cup {Null}]
      BY DEF NoMr
    <2> QED
      BY <1>7, <2>1, <2>2
  <1>10. /\ slots' \in [Devs -> Seq(Slot)]
         /\ capacity' \in [Devs -> Nat] /\ alloc' \in [Devs -> Nat]
         /\ \A e \in Devs \ {d} : /\ slots'[e] = slots[e]
                                  /\ capacity'[e] = capacity[e] /\ alloc'[e] = alloc[e]
         /\ SlotsOn(d)' /\ \A k \in Comms, g \in Handles : HeldBy(k, g, d)'
         /\ (/\ ExactOn(d) /\ mrs'[d][m] = NoMr
             /\ UNCHANGED <<devVars, commPd>>) => ExactOn(d)'
    <2>1. handle[c][h].mrs[d] = m
      BY <1>3, <1>4
    <2> HIDE DEF h
    <2> QED
      BY <1>2, <1>3, <1>6, <1>7, <1>8, <1>9, <2>1, DropEffect
  <1>11. TypeOK'
    <2>1. handle' \in [Comms -> [Handles -> Handle]]
      BY <1>8 DEF OneHandle
    <2> QED
      BY <1>2, <1>7, <1>8, <1>9, <1>10, <2>1 DEF TypeOK, devVars, CommState, Pcs, Handle
  <1>12. ASSUME NEW e \in Devs, e # d
         PROVE  /\ SlotsOn(e)' /\ \A k \in Comms, g \in Handles : HeldBy(k, g, e)'
                /\ ExactOn(e) => ExactOn(e)'
    <2>1. /\ slots'[e] = slots[e] /\ mrs'[e] = mrs[e] /\ capacity'[e] = capacity[e]
          /\ alloc'[e] = alloc[e] /\ UNCHANGED <<devVars, commPd>>
      BY <1>7, <1>9, <1>10, <1>12
    <2>2. /\ b.mrs[e] = handle[c][h].mrs[e]
          /\ b.mrs[e] # Null => /\ b.data = handle[c][h].data
                                /\ b.size = handle[c][h].size
      BY <1>3, <1>8, <1>12
    <2> QED
      BY <1>2, <1>3, <1>8, <2>1, <2>2, DeviceKept
  <1>13. /\ \A e \in Devs : SlotsOn(e)'
         /\ \A k \in Comms, g \in Handles, e \in Devs : HeldBy(k, g, e)'
    BY <1>10, <1>12
  <1>14. ASSUME faults' = 0
         PROVE  faults = 0 /\ heap' = "ok" /\ \A e \in Devs : ExactOn(e)'
    <2>1. Exact /\ faults = 0 /\ heap' = heap /\ UNCHANGED <<devVars, commPd>>
      BY <1>7, <1>14 DEF MrInv
    <2>2. \A e \in Devs : ExactOn(e)
      BY <2>1 DEF Exact
    <2>3. ExactOn(d)'
      BY <1>9, <1>10, <2>1, <2>2
    <2> QED
      BY <1>12, <2>1, <2>2, <2>3 DEF Exact
  <1>15. \A o \in Comms \ {c} : handle'[o] = handle[o]
    BY <1>3, <1>8, OthersSame
  <1> QED
    BY <1>2, <1>7, <1>8, <1>11, <1>13, <1>14, <1>15, CacheStep DEF InUse

LEMMA DeregFailsStep ==
    ASSUME MrInv, NEW c \in Comms, DeregFails(c)
    PROVE  MrInv'
  <1> DEFINE h == comm[c].h
  <1>1. PICK d \in Devs :
          LET m == Buffer(c).mrs[d]
          IN  /\ At(c, "dereg", d)
              /\ Known(d, m)
              /\ IsLastRef(slots[d][SlotOf(d, m)])
              /\ DropSlot(d, SlotOf(d, m))
              /\ FailCall(c)
              /\ InjectFault
              /\ UNCHANGED <<devVars, mrs, commPd, heap>>
    BY DEF DeregFails
  <1>2. TypeOK /\ Counted /\ comm[c].pc = "dereg" /\ comm[c].dev = d
    BY <1>1 DEF MrInv, At
  <1>3. h \in Handles /\ Buffer(c) = handle[c][h] /\ Buffer(c).mrs[d] \in MrIds
    <2>1. h \in Handles /\ Buffer(c).mrs[d] \in MrIds \cup {Null}
      BY <1>2 DEF TypeOK, Buffer
    <2>2. Buffer(c).mrs[d] # Null
      BY <1>2, MrConstants DEF Counted, HandleStage
    <2> QED
      BY <2>1, <2>2 DEF Buffer
  <1>4. PICK m \in MrIds : m = Buffer(c).mrs[d]
    BY <1>3
  <1>5. Known(d, m)
    BY <1>1, <1>4
  <1>6. PICK i \in 1 .. Len(slots[d]) : i = SlotOf(d, m) /\ slots[d][i].mr = m
    BY <1>2, <1>5, SlotOfFound
  <1>7. /\ slots[d][i].refs = 1 /\ DropSlot(d, i) /\ FailCall(c) /\ InjectFault
        /\ UNCHANGED <<devVars, mrs, commPd, heap>>
    BY <1>1, <1>4, <1>5, <1>6 DEF IsLastRef
  <1>8. /\ OneHandle(c, h, NoHandle) /\ HandleStage(c)' /\ NoHandle \in Handle
        /\ comm' \in [Comms -> CommState]
        /\ comm'[c] = [pc |-> "open", dev |-> 1, h |-> 1]
        /\ \A o \in Comms \ {c} : comm'[o] = comm[o]
        /\ \A e \in Devs : NoHandle.mrs[e] = Null
    <2>1. \A e \in Devs : NoHandle.mrs[e] = Null
      BY DEF NoHandle
    <2> QED
      BY <1>2, <1>7, <2>1, FailCallEffect, MrConstants
  <1>9. /\ slots' \in [Devs -> Seq(Slot)]
        /\ capacity' \in [Devs -> Nat] /\ alloc' \in [Devs -> Nat]
        /\ \A e \in Devs \ {d} : slots'[e] = slots[e]
        /\ SlotsOn(d)' /\ \A k \in Comms, g \in Handles : HeldBy(k, g, d)'
    <2>1. handle[c][h].mrs[d] = m /\ NoHandle.mrs[d] = Null
      BY <1>3, <1>4, <1>8
    <2>2. \A x \in MrIds \ {m} : mrs'[d][x] = mrs[d][x]
      BY <1>7
    <2> HIDE DEF h
    <2> QED
      BY <1>2, <1>3, <1>6, <1>7, <1>8, <2>1, <2>2, DropEffect
  <1>10. faults' \in 0 .. MaxFaults /\ faults' # 0
    BY <1>2, <1>7, FaultCounts
  <1>11. TypeOK'
    <2>1. handle' \in [Comms -> [Handles -> Handle]]
      BY <1>8 DEF OneHandle
    <2> QED
      BY <1>2, <1>7, <1>8, <1>9, <1>10, <2>1 DEF TypeOK, devVars, CommState, Pcs, Handle
  <1>12. ASSUME NEW e \in Devs, e # d
         PROVE  SlotsOn(e)' /\ \A k \in Comms, g \in Handles : HeldBy(k, g, e)'
    <2>1. slots'[e] = slots[e] /\ mrs'[e] = mrs[e] /\ NoHandle.mrs[e] = Null
      BY <1>7, <1>8, <1>9, <1>12
    <2> QED
      BY <1>2, <1>3, <1>8, <2>1, DeviceKept
  <1>13. /\ \A e \in Devs : SlotsOn(e)'
         /\ \A k \in Comms, g \in Handles, e \in Devs : HeldBy(k, g, e)'
    BY <1>9, <1>12
  <1>14. \A o \in Comms \ {c} : handle'[o] = handle[o]
    BY <1>3, <1>8, OthersSame
  <1> QED
    BY <1>2, <1>7, <1>8, <1>10, <1>11, <1>13, <1>14, CacheStep DEF InUse

-----------------------------------------------------------------------------
(* The invariant *)

LEMMA MrInit ==
    Init => MrInv
  <1> SUFFICES ASSUME Init PROVE MrInv
    OBVIOUS
  <1>1. TypeOK
    <2>1. slots \in [Devs -> Seq(Slot)]
      BY DEF Init
    <2>2. mrs \in [Devs -> [MrIds -> [addr : Nat, pages : Nat, pd : PdIds \cup {Null}]]]
      BY DEF Init, NoMr
    <2>3. handle \in [Comms -> [Handles -> Handle]]
      BY MrConstants DEF Init
    <2>4. comm \in [Comms -> CommState]
      BY MrConstants DEF Init, CommState, Pcs
    <2>5. faults \in 0 .. MaxFaults
      BY MrConstants DEF Init
    <2> QED
      BY <2>1, <2>2, <2>3, <2>4, <2>5 DEF Init, TypeOK, CommState, Pcs, Handle
  <1>2. ASSUME NEW d \in Devs
        PROVE  /\ slots[d] = <<>> /\ Len(slots[d]) = 0 /\ Users(d) = {}
               /\ Cardinality(Users(d)) = 0 /\ Registered(d) = {}
               /\ pdRefs[d] = 0 /\ capacity[d] = 0 /\ alloc[d] = 0
               /\ gpuMrs[d] = {} /\ pds[d] = {}
    <2>1. Users(d) = {} /\ Registered(d) = {}
      BY DEF Init, Users, Registered
    <2>2. Cardinality(Users(d)) = 0
      BY <2>1, FS_EmptySet
    <2> QED
      BY <2>1, <2>2 DEF Init
  <1>3. ASSUME NEW c \in Comms
        PROVE  /\ HandleStage(c) /\ DomainStage(c) /\ ExactStage(c)
               /\ comm[c].pc = "closed"
               /\ \A h \in Handles, d \in Devs : HeldBy(c, h, d)
    <2>1. /\ comm[c] = [pc |-> "closed", dev |-> 1, h |-> 1]
          /\ \A h \in Handles : handle[c][h] = NoHandle
          /\ \A d \in Devs : commPd[c][d] = Null /\ ~(d < 1)
      BY DEF Init, Devs
    <2>2. \A h \in Handles, d \in Devs : handle[c][h].mrs[d] = Null
      BY <2>1 DEF NoHandle
    <2> QED
      BY <2>1, <2>2 DEF HandleStage, DomainStage, ExactStage, HeldBy, Holds
  <1>4. Counted
    <2>1. \A d \in Devs : DomainOn(d) /\ SlotsOn(d)
      BY <1>2 DEF DomainOn, SlotsOn
    <2> QED
      BY <1>3, <2>1 DEF Counted
  <1>5. Exact
    <2>1. \A d \in Devs : ExactOn(d)
      BY <1>2 DEF ExactOn
    <2> QED
      BY <1>3, <2>1 DEF Exact, Init
  <1>6. Releases
    BY <1>2, <1>3 DEF Releases, ReleasedOn, StoppedStage
  <1> QED
    BY <1>1, <1>4, <1>5, <1>6 DEF MrInv

LEMMA MrStutter ==
    ASSUME MrInv, UNCHANGED vars
    PROVE  MrInv'
  <1>1. /\ UNCHANGED <<pd, pdRefs, pds, gpuMrs>> /\ UNCHANGED <<slots, capacity, alloc, mrs>>
        /\ UNCHANGED <<comm, commPd, handle, heap, faults>>
    BY DEF vars, devVars, cacheVars
  <1>2. TypeOK'
    BY <1>1 DEF MrInv, TypeOK
  <1>3. Counted'
    <2>1. Counted
      BY DEF MrInv
    <2>2. \A d \in Devs : DomainOn(d)' /\ SlotsOn(d)'
      BY <1>1, <2>1, CacheKept, DomainsKept
    <2>3. \A c \in Comms, h \in Handles, d \in Devs : HeldBy(c, h, d)'
      BY <1>1, <2>1, CacheKept
    <2>4. \A c \in Comms : HandleStage(c)' /\ DomainStage(c)'
      BY <1>1, <2>1 DEF Counted, HandleStage, DomainStage, Whole, Buffer
    <2> QED
      BY <2>2, <2>3, <2>4 DEF Counted
  <1>4. ASSUME faults' = 0 PROVE Exact'
    <2>1. Exact
      BY <1>1, <1>4 DEF MrInv
    <2>2. \A d \in Devs : ExactOn(d)'
      BY <1>1, <2>1, ExactKept DEF Exact
    <2> QED
      BY <1>1, <2>1, <2>2 DEF Exact, ExactStage
  <1>5. ASSUME faults' = 0 PROVE Releases'
    BY <1>1, <1>5 DEF MrInv, Releases, ReleasedOn, StoppedStage
  <1> QED
    BY <1>2, <1>3, <1>4, <1>5 DEF MrInv

LEMMA MrStep ==
    MrInv /\ [Next]_vars => MrInv'
  <1> SUFFICES ASSUME MrInv, [Next]_vars PROVE MrInv'
    OBVIOUS
  <1>1. CASE UNCHANGED vars
    BY <1>1, MrStutter
  <1>2. CASE Next
    <2>1. PICK c \in Comms :
            \/ InitPd(c) \/ InitCq(c) \/ UseNullPd(c) \/ Close(c) \/ DestroyBase(c)
            \/ \E g \in Regions : RegMr(c, g)
            \/ RegHit(c) \/ RegMiss(c) \/ RegOverrun(c)
            \/ \E h \in Handles : DeregMr(c, h)
            \/ DeregKeep(c) \/ DeregLast(c)
            \/ InitPdFails(c) \/ InitCqFails(c) \/ DestroyCqFails(c)
            \/ RegMrFails(c) \/ ReallocFails(c) \/ DeregFails(c)
      BY <1>2 DEF Next
    <2>2. CASE InitPd(c) \/ InitPdFails(c)
      BY <2>2, InitPdStep, InitPdFailsStep
    <2>3. CASE InitCq(c) \/ UseNullPd(c) \/ InitCqFails(c) \/ DestroyCqFails(c)
      BY <2>3, InitCqStep, UseNullPdStep, InitCqFailsStep
    <2>4. CASE Close(c) \/ DestroyBase(c)
      BY <2>4, CloseStep, DestroyBaseStep
    <2>5. CASE \E g \in Regions : RegMr(c, g)
      BY <2>5, RegMrStep
    <2>6. CASE RegHit(c) \/ RegMiss(c) \/ RegOverrun(c)
      BY <2>6, RegHitStep, RegMissStep, RegOverrunStep
    <2>7. CASE RegMrFails(c) \/ ReallocFails(c)
      BY <2>7, RegFailsStep
    <2>8. CASE \E h \in Handles : DeregMr(c, h)
      BY <2>8, DeregMrStep
    <2>9. CASE DeregKeep(c) \/ DeregLast(c) \/ DeregFails(c)
      BY <2>9, DeregKeepStep, DeregLastStep, DeregFailsStep
    <2> QED
      BY <2>1, <2>2, <2>3, <2>4, <2>5, <2>6, <2>7, <2>8, <2>9
  <1> QED
    BY <1>1, <1>2

LEMMA MrInvariant ==
    Spec => []MrInv
  BY MrInit, MrStep, PTL DEF Spec

-----------------------------------------------------------------------------
(* Results *)

\* The variables keep their types, whatever fails: ibv pointers, counts that
\* never drop below 0 and a cache whose slots are slots.
THEOREM MrTypeCorrect ==
    Spec => []TypeOK
  <1>1. MrInv => TypeOK
    BY DEF MrInv
  <1> QED
    BY <1>1, MrInvariant, PTL

\* A handle that ncclIbRegMrDmaBuf returned stays good until anpNetDeregMr
\* gives it back: on every device its MR exists and spans the buffer, whatever
\* the other communicators do and whichever calls fail.
THEOREM HandlesLiveCorrect ==
    Spec => []HandlesLive
  <1>1. ASSUME MrInv PROVE HandlesLive
    <2> SUFFICES ASSUME NEW c \in Comms, NEW h \in Handles, NEW d \in Devs,
                        Holds(c, h, d)
                 PROVE  /\ mrs[d][handle[c][h].mrs[d]] # NoMr
                        /\ Spans(handle[c][h], mrs[d][handle[c][h].mrs[d]])
      BY DEF HandlesLive, Spans
    <2>1. TypeOK /\ Counted /\ SlotsOn(d)
      BY <1>1 DEF MrInv, Counted
    <2>2. /\ Known(d, handle[c][h].mrs[d])
          /\ Spans(handle[c][h], mrs[d][handle[c][h].mrs[d]])
      BY <2>1 DEF Counted, HeldBy
    <2>3. PICK i \in 1 .. Len(slots[d]) : slots[d][i].mr = handle[c][h].mrs[d]
      BY <2>2 DEF Known
    <2>4. mrs[d][slots[d][i].mr].pages = slots[d][i].pages /\ slots[d][i].pages > 0
      BY <2>1 DEF SlotsOn, SlotOn
    <2>5. mrs[d][slots[d][i].mr] # NoMr
      BY <2>4 DEF NoMr
    <2> QED
      BY <2>2, <2>3, <2>5
  <1> QED
    BY <1>1, MrInvariant, PTL

\* ncclIbDestroyBase of one communicator never frees the protection domain
\* under another that is open, whichever calls failed before.
THEOREM OpenHasDomainCorrect ==
    Spec => []OpenHasDomain
  <1>1. ASSUME MrInv PROVE OpenHasDomain
    <2> SUFFICES ASSUME NEW c \in Comms, comm[c].pc \in {"open", "reg", "dereg"},
                        NEW d \in Devs
                 PROVE  commPd[c][d] \in pds[d]
      BY DEF OpenHasDomain
    <2>1. DomainStage(c) /\ DomainOn(d)
      BY <1>1 DEF MrInv, Counted
    <2>2. c \in Users(d)
      BY <2>1 DEF DomainStage, Users
    <2> QED
      BY <2>1, <2>2 DEF DomainOn
  <1> QED
    BY <1>1, MrInvariant, PTL

\* As long as no call has failed, the references that ncclIbRegMrDmaBuf and
\* anpNetDeregMr count in a slot are the handles that hold its MR, and no MR
\* is in two slots.
THEOREM RefsExactCorrect ==
    Spec => [](faults = 0 => RefsExact)
  <1>1. ASSUME MrInv, faults = 0 PROVE RefsExact
    <2> SUFFICES ASSUME NEW d \in Devs
                 PROVE  /\ \A i \in DOMAIN slots[d] :
                              /\ slots[d][i].refs > 0
                              /\ slots[d][i].refs = Cardinality(Holders(d, slots[d][i].mr))
                        /\ \A i, j \in DOMAIN slots[d] :
                              slots[d][i].mr = slots[d][j].mr => i = j
      BY DEF RefsExact, Holders
    <2>1. SlotsOn(d) /\ ExactOn(d) /\ TypeOK
      BY <1>1 DEF MrInv, Counted, Exact
    <2>2. DOMAIN slots[d] = 1 .. Len(slots[d])
      BY <2>1, SlotTypes, LenProperties
    <2> QED
      BY <2>1, <2>2 DEF SlotsOn, SlotOn, ExactOn, ExactSlot
  <1> QED
    BY <1>1, MrInvariant, PTL

\* As long as no call has failed, the cache that ncclIbRegMrDmaBuf grows and
\* anpNetDeregMr frees is never written past its allocation.
THEOREM SlotsFitCorrect ==
    Spec => [](faults = 0 => SlotsFit)
  <1>1. ASSUME MrInv, faults = 0 PROVE SlotsFit
    BY <1>1 DEF MrInv, Exact, ExactOn, SlotsFit
  <1> QED
    BY <1>1, MrInvariant, PTL

\* As long as no call has failed, the MR that a handle got from the cache is of
\* the protection domain of its own communicator, and that domain exists.
THEOREM SameDomainCorrect ==
    Spec => [](faults = 0 => SameDomain)
  <1>1. ASSUME MrInv, faults = 0 PROVE SameDomain
    <2> SUFFICES ASSUME NEW c \in Comms, NEW h \in Handles, NEW d \in Devs,
                        Holds(c, h, d)
                 PROVE  /\ commPd[c][d] \in pds[d]
                        /\ mrs[d][handle[c][h].mrs[d]].pd = commPd[c][d]
      BY DEF SameDomain
    <2>1. TypeOK /\ Counted /\ DomainOn(d) /\ ExactOn(d)
      BY <1>1 DEF MrInv, Counted, Exact
    <2>2. c \in Users(d)
      BY <2>1, HolderIsUser
    <2>3. PICK i \in 1 .. Len(slots[d]) : slots[d][i].mr = handle[c][h].mrs[d]
      BY <2>1 DEF Counted, HeldBy, Known
    <2> QED
      BY <2>1, <2>2, <2>3 DEF DomainOn, ExactOn, ExactSlot
  <1> QED
    BY <1>1, MrInvariant, PTL

\* As long as no call has failed, all that the close calls leave behind is the
\* gpuMr that anpNetCloseRecv does not give back and what it holds: a close
\* stops only at a device with such an MR, and once every communicator is
\* closed or stopped a device has no cache, no MR of it, and no domain but
\* those with a gpuMr and those of the communicators stopped before it.
THEOREM AllReleasedCorrect ==
    Spec => []AllReleased
  <1>1. MrInv => AllReleased
    <2> SUFFICES ASSUME MrInv, faults = 0 PROVE AllReleased
      BY DEF AllReleased
    <2>1. TypeOK /\ Counted /\ Exact /\ Releases
      BY DEF MrInv
    <2>2. \A c \in Comms : comm[c].pc = "failed" =>
            /\ gpuMrs[comm[c].dev] # {}
            /\ \A d \in Devs : (commPd[c][d] # Null) <=> d > comm[c].dev
      BY <2>1 DEF Releases, StoppedStage
    <2>3. ASSUME \A c \in Comms : comm[c].pc \in {"closed", "failed"}, NEW d \in Devs
          PROVE  /\ slots[d] = <<>> /\ capacity[d] = 0 /\ Registered(d) = {}
                 /\ pds[d] = gpuMrs[d] \cup {commPd[c][d] : c \in Users(d)}
                 /\ pdRefs[d] = Cardinality(Users(d))
      <3>1. ExactOn(d) /\ ReleasedOn(d) /\ DomainOn(d)
        BY <2>1 DEF Exact, Releases, Counted
      <3>2. slots[d] \in Seq(Slot) /\ Len(slots[d]) \in Nat
        BY <2>1, SlotTypes
      <3>3. ASSUME Len(slots[d]) # 0 PROVE FALSE
        <4>1. 1 \in 1 .. Len(slots[d])
          BY <3>2, <3>3
        <4>2. PICK c \in Comms, h \in Handles : Holds(c, h, d)
          BY <2>1, <3>1, <4>1, SlotHasHolder
        <4>3. comm[c].pc \in {"open", "reg", "dereg"}
          BY <2>1, <4>2, HolderIsUser
        <4> QED
          BY <2>3, <4>3
      <3>4. slots[d] = <<>> /\ capacity[d] = 0
        BY <3>1, <3>2, <3>3, EmptySeq DEF ExactOn
      <3>5. Registered(d) = {}
        <4>1. \A m : ~Known(d, m)
          BY <3>2, <3>3 DEF Known
        <4> QED
          BY <3>1, <4>1 DEF ExactOn
      <3>6. pdRefs[d] = Cardinality(Users(d))
        BY <3>1 DEF ExactOn
      <3>7. pds[d] = gpuMrs[d] \cup {commPd[c][d] : c \in Users(d)}
        <4>1. CASE Users(d) = {}
          <5>1. pdRefs[d] = 0
            BY <3>6, <4>1, FS_EmptySet
          <5> QED
            BY <3>1, <4>1, <5>1 DEF ReleasedOn
        <4>2. CASE Users(d) # {}
          <5>1. {commPd[c][d] : c \in Users(d)} = {pd[d]} /\ pd[d] \in pds[d]
            BY <3>1, <4>2 DEF DomainOn
          <5> QED
            BY <3>1, <5>1 DEF ReleasedOn
        <4> QED
          BY <4>1, <4>2
      <3> QED
        BY <3>4, <3>5, <3>6, <3>7
    <2> QED
      BY <2>2, <2>3 DEF AllReleased
  <1> QED
    BY <1>1, MrInvariant, PTL
=============================================================================
