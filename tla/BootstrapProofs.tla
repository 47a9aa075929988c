-------------------------- MODULE BootstrapProofs --------------------------
(***************************************************************************)
(* The bootstrap of virtual IPs, for every number of hosts, payloads of    *)
(* any length, any way recv cuts them up and any number of crashes: all    *)
(* hosts that end well have the same table, taken from messages read       *)
(* whole, and nobody installs a rule before the last answer.  The theorems *)
(* are about lists that name every host once, each file in an order of its *)
(* own (ListsAgree): otherwise there are two roots, or a root that waits   *)
(* for more leaves than there are.  For the same table the hosts also need *)
(* names of their own (NamesDiffer): two configurations of one name are    *)
(* one to a leaf.                                                          *)
(*                                                                         *)
(* The inductive invariant follows the root.  Its phase tells which leaves *)
(* it has asked, which threads it has started and which leaves have their  *)
(* table; what a leaf waits for bounds what can be on its connection.      *)
(* Once the root has joined its threads nothing changes its table any more *)
(* (Joint), and whoever holds a part of the composite knows that.          *)
(***************************************************************************)
EXTENDS Bootstrap, FiniteSetTheorems, SequenceTheorems, TLAPS

\* Every file names every host once.
ListsAgree ==
    \A h \in Hosts :
        /\ \A g \in Hosts : \E i \in DOMAIN IpList[h] : IpList[h][i] = g
        /\ \A i, j \in DOMAIN IpList[h] : IpList[h][i] = IpList[h][j] => i = j

\* Every configuration has a host_name of its own.
NamesDiffer == \A g, h \in Hosts : HostName[g] = HostName[h] => g = h

\* The host with the lowest address, and the others.
R == CHOOSE r \in Hosts : \A s \in Hosts : r <= s
Leaves == Hosts \ {R}

\* What agreeing lists give: one root, which every host finds, and the number
\* of leaves.
Election ==
    /\ R \in Hosts
    /\ Cardinality(Leaves) \in Nat
    /\ \A h \in Hosts : Lowest(h) = R /\ TotalLNs(h) = Cardinality(Leaves)

PhaseStates == {"start"} \cup RootStates \cup LeafStates \cup Ended
ThreadStates == {"none", "header", "payload", "store", "exit"}
Tables == UNION {[K -> Hosts] : K \in SUBSET Keys}

Shapes ==
    /\ pc \in [Hosts -> PhaseStates]
    /\ rootIp \in [Hosts -> Hosts]
    /\ connected \subseteq Leaves
    /\ connArr \in [Hosts -> Seq(Leaves)]
    /\ next \in [Hosts -> Nat \ {0}]
    /\ thread \in [Hosts -> ThreadStates]
    /\ responses_received \in [Hosts -> Nat]
    /\ all_hosts \in [Hosts -> Tables]
    /\ composite \in [Hosts -> SUBSET Hosts]
    /\ rules \in [Hosts -> SUBSET Rule]
    /\ toLeaf \in [Hosts -> Seq(Piece)] /\ leafBuf \in [Hosts -> Seq(Piece)]
    /\ toRoot \in [Hosts -> Seq(Piece)] /\ rootBuf \in [Hosts -> Seq(Piece)]
    /\ faults \in 0 .. MaxFaults

\* There is one root, and the others are its leaves.
Roles ==
    /\ \A h \in Hosts : rootIp[h] = IF pc[h] = "start" THEN h ELSE R
    /\ \A l \in Leaves : /\ pc[l] \notin RootStates
                         /\ connArr[l] = <<>> /\ next[l] = 1
    /\ pc[R] \notin LeafStates /\ thread[R] = "none"
    /\ \A l \in connected : pc[l] \notin {"start", "connect"}

\* The loop of the root has been at the connection of l.
Visited(l) == \E i \in 1 .. next[R] - 1 : connArr[R][i] = l

\* The root goes on when all leaves are connected, and every loop goes over
\* all of them.
Phases ==
    /\ \A i, j \in 1 .. Len(connArr[R]) : connArr[R][i] = connArr[R][j] => i = j
    /\ Accepted(R) \subseteq connected
    /\ pc[R] \in {"start", "listen"} => connArr[R] = <<>>
    /\ pc[R] = "accept" => Len(connArr[R]) < Cardinality(Leaves)
    /\ pc[R] \in RootStates \ {"listen", "accept"} 
          => Len(connArr[R]) = Cardinality(Leaves)
    /\ next[R] <= Cardinality(Leaves) \/ next[R] = 1
    /\ pc[R] \in {"request", "spawn", "send"} => next[R] <= Cardinality(Leaves)
    /\ pc[R] \in {"start", "listen", "accept", "join", "program", "close"}
          => next[R] = 1

\* All threads are joined: the table of the root is final.
Joint ==
    /\ pc[R] \in {"send", "program", "close"} \cup Ended
    /\ \A l \in Leaves : thread[l] = "exit"
    /\ composite[R] = Stored(R)

\* The states of a leaf before its answer, after it, and with the composite.
Before == {"start", "connect", "waitRequest", "respond"}
Informed == {"readComposite", "install", "done"}

ThreadOn(l) ==
    /\ pc[R] \in {"start", "listen", "accept", "request"} => thread[l] = "none"
    /\ pc[R] = "spawn" => (thread[l] # "none" <=> Visited(l))
    /\ pc[R] = "join" => thread[l] # "none"
    /\ thread[l] # "none" => l \in connected
    /\ thread[l] \in {"payload", "store", "exit"} => pc[l] \notin Before

\* The pieces on the way to and from a leaf.
Down(l) == Len(leafBuf[l]) + Len(toLeaf[l])
Up(l) == Len(rootBuf[l]) + Len(toRoot[l])

\* The request and the composite are sent once, each to a leaf that waits.
DownOn(l) ==
    /\ pc[l] \in {"start", "connect", "respond", "install", "done"} => Down(l) = 0
    /\ pc[l] = "waitRequest" => Down(l) <= 1
    /\ pc[l] = "waitComposite" => Down(l) <= PayloadLen + 1
    /\ pc[l] = "readComposite" => Down(l) <= PayloadLen
    /\ (\/ pc[R] \in {"start", "listen", "accept"}
        \/ pc[R] = "request" /\ ~Visited(l))
          => /\ pc[l] \in {"start", "connect", "waitRequest", "failed"}
             /\ pc[l] = "waitRequest" => Down(l) = 0
    /\ (\/ pc[R] \in {"request", "spawn", "join"}
        \/ pc[R] = "send" /\ ~Visited(l))
          => /\ pc[l] \notin Informed
             /\ pc[l] = "waitComposite" => Down(l) = 0

\* What is on the way to a leaf that has answered is the final table.
Final(p) == p.type = "COMPOSITE_CONFIG" /\ p.hosts = composite[R]
FinalOn(l) ==
    pc[l] \in {"waitComposite", "readComposite"} =>
        /\ \A i \in 1 .. Len(leafBuf[l]) : Final(leafBuf[l][i])
        /\ \A i \in 1 .. Len(toLeaf[l]) : Final(toLeaf[l][i])

\* An answer, or the part that a leaf had sent when it ended, is on the way
\* until its thread has read it.
UpOn(l) ==
    /\ pc[l] \in Before => Up(l) = 0
    /\ thread[l] \in {"none", "header"} => Up(l) <= PayloadLen + 1
    /\ thread[l] = "payload" => Up(l) <= PayloadLen
    /\ thread[l] = "store" => Up(l) = 0
    /\ l \in Stored(R) => thread[l] = "exit" /\ Up(l) = 0

TableOn(l) ==
    /\ pc[l] \in Before \cup {"waitComposite", "readComposite"} => all_hosts[l] = <<>>
    /\ NamesDiffer /\ pc[l] \in {"install", "done"} => Stored(l) = Stored(R)
    /\ pc[l] \in Informed => Joint
    /\ pc[l] = "waitComposite" /\ Down(l) > 0 => Joint

RootTable ==
    /\ Down(R) = 0 /\ Up(R) = 0
    /\ pc[R] \in {"send", "program", "close", "done"} => Joint
    /\ \A h \in Hosts : rules[h] # {} => Joint
    /\ \A k \in DOMAIN all_hosts[R] : all_hosts[R][k] = k
    /\ responses_received =
          [h \in Hosts |-> IF h = R THEN Cardinality(Stored(R) \ {R}) ELSE 0]

LeafInv(l) == ThreadOn(l) /\ DownOn(l) /\ FinalOn(l) /\ UpOn(l) /\ TableOn(l)

BootInv == Shapes /\ Roles /\ Phases /\ RootTable /\ \A l \in Leaves : LeafInv(l)

-----------------------------------------------------------------------------
(* The constants *)

LEMMA LeastElement ==
    ASSUME NEW T \in SUBSET Nat, T # {}
    PROVE  \E x \in T : \A y \in T : x <= y
  <1> DEFINE below(n) == 0 .. n
             belows == {below(n) : n \in T}
  <1>1. belows \subseteq FiniteSubsetsOf(Nat)
    <2> SUFFICES ASSUME NEW n \in T
                 PROVE  below(n) \in SUBSET Nat /\ IsFiniteSet(below(n))
      BY DEF FiniteSubsetsOf
    <2> QED
      BY FS_Interval
  <1>2. PICK b \in belows : \A a \in belows : ~(<<a, b>> \in StrictSubsetOrdering(Nat))
    <2>1. belows # {}
      OBVIOUS
    <2> HIDE DEF belows
    <2> QED
      BY <1>1, <2>1, FS_StrictSubsetOrderingWellFounded, WFMin
  <1>3. PICK x \in T : b = below(x)
    OBVIOUS
  <1>4. ASSUME NEW y \in T, y < x PROVE FALSE
    <2>1. below(y) \in SUBSET Nat /\ below(x) \in SUBSET Nat
      OBVIOUS
    <2>2. below(y) \subseteq below(x) /\ x \in below(x) /\ x \notin below(y)
      BY <1>4
    <2>3. below(y) # below(x)
      BY <2>2
    <2>4. <<below(y), below(x)>> \in StrictSubsetOrdering(Nat)
      BY <2>1, <2>2, <2>3 DEF StrictSubsetOrdering
    <2> QED
      BY <1>2, <1>3, <2>4
  <1>5. \A y \in T : x <= y
    BY <1>4
  <1> QED
    BY <1>5

LEMMA OneRoot ==
    ASSUME ListsAgree
    PROVE  Election
  <1>1. R \in Hosts /\ \A s \in Hosts : R <= s
    <2>1. \E r \in Hosts : \A s \in Hosts : r <= s
      BY BootstrapAssumption, LeastElement
    <2> QED
      BY <2>1 DEF R
  <1>2. IsFiniteSet(Leaves) /\ Cardinality(Leaves) = Cardinality(Hosts) - 1
    BY <1>1, BootstrapAssumption, FS_RemoveElement DEF Leaves
  <1>3. Cardinality(Leaves) \in Nat
    BY <1>2, FS_CardinalityType
  <1>4. ASSUME NEW h \in Hosts
        PROVE  Lowest(h) = R /\ TotalLNs(h) = Cardinality(Leaves)
    <2> DEFINE listed == {IpList[h][i] : i \in DOMAIN IpList[h]}
               f == [i \in 1 .. Len(IpList[h]) |-> IpList[h][i]]
    <2>1. IpList[h] \in Seq(Hosts)
      BY BootstrapAssumption
    <2>2. PICK n \in Nat : n = Len(IpList[h]) /\ DOMAIN IpList[h] = 1 .. n
      BY <2>1
    <2>3. \A i \in 1 .. n : IpList[h][i] \in Hosts
      BY <2>1, <2>2
    <2>4. listed = Hosts
      <3>1. listed \subseteq Hosts
        BY <2>2, <2>3
      <3>2. Hosts \subseteq listed
        BY DEF ListsAgree
      <3> QED
        BY <3>1, <3>2
    <2>5. Lowest(h) = R
      BY <2>4 DEF Lowest, R
    <2>6. f \in Bijection(1 .. n, Hosts)
      <3>1. f \in [1 .. n -> Hosts]
        BY <2>2, <2>3
      <3>2. \A i, j \in 1 .. n : f[i] = f[j] => i = j
        BY <2>2 DEF ListsAgree
      <3>3. \A g \in Hosts : \E i \in 1 .. n : f[i] = g
        BY <2>2 DEF ListsAgree
      <3> QED
        BY <3>1, <3>2, <3>3 DEF Bijection, Injection, Surjection, IsInjective
    <2>7. Cardinality(Hosts) = n
      BY <2>6, FS_CountingElements DEF ExistsBijection
    <2> QED
      BY <1>2, <2>2, <2>5, <2>7, FS_CardinalityType, BootstrapAssumption
      DEF TotalLNs
  <1> QED
    BY <1>1, <1>3, <1>4 DEF Election

LEMMA LeavesFinite ==
    ASSUME Election
    PROVE  /\ IsFiniteSet(Leaves)
           /\ Cardinality(Hosts) = Cardinality(Leaves) + 1
           /\ Cardinality(Leaves) = 0 => Leaves = {}
  <1>1. R \in Hosts /\ Cardinality(Leaves) \in Nat
    BY DEF Election
  <1>2. /\ IsFiniteSet(Leaves)
        /\ Cardinality(Leaves) = Cardinality(Hosts) - 1
    BY <1>1, BootstrapAssumption, FS_RemoveElement DEF Leaves
  <1>3. Cardinality(Hosts) \in Nat
    BY BootstrapAssumption, FS_CardinalityType
  <1> QED
    BY <1>1, <1>2, <1>3, FS_EmptySet

\* As many different leaves as there are, are all of them.
LEMMA AllAccepted ==
    ASSUME Election, NEW s \in Seq(Leaves), Len(s) = Cardinality(Leaves),
           \A i, j \in 1 .. Len(s) : s[i] = s[j] => i = j,
           NEW l \in Leaves
    PROVE  \E i \in 1 .. Len(s) : s[i] = l
  <1>1. PICK n \in Nat : n = Len(s)
    OBVIOUS
  <1>2. s \in [1 .. n -> Leaves]
    BY <1>1
  <1>3. s \in Injection(1 .. n, Leaves)
    BY <1>1, <1>2 DEF Injection, IsInjective
  <1>4. Cardinality(1 .. n) = n
    BY <1>1, FS_Interval
  <1>5. s \in Surjection(1 .. n, Leaves)
    BY <1>1, <1>3, <1>4, FS_Injection, LeavesFinite
  <1> QED
    BY <1>1, <1>5 DEF Surjection

LEMMA Size ==
    PayloadLen \in Nat /\ PayloadLen > 0
  BY BootstrapAssumption

-----------------------------------------------------------------------------
(* Messages *)

\* A message put on a connection.
LEMMA Sent ==
    ASSUME NEW s \in Seq(Piece), NEW t \in Seq(Piece)
    PROVE  /\ s \o t \in Seq(Piece) /\ Len(s \o t) = Len(s) + Len(t)
           /\ \A i \in 1 .. Len(s \o t) :
                 (s \o t)[i] = IF i <= Len(s) THEN s[i] ELSE t[i - Len(s)]
  OBVIOUS

LEMMA RequestTlv ==
    /\ Tlv("PLANAR_CONFIG_REQUEST", {}) \in Seq(Piece)
    /\ Len(Tlv("PLANAR_CONFIG_REQUEST", {})) = 1
  <1> DEFINE p == [kind |-> "header", type |-> "PLANAR_CONFIG_REQUEST", hosts |-> {}]
  <1>1. p \in Piece
    BY DEF Piece, Types
  <1>2. Tlv("PLANAR_CONFIG_REQUEST", {}) = <<p>> \o <<>>
    BY DEF Tlv
  <1> HIDE DEF p
  <1>3. <<p>> \in Seq(Piece) /\ Len(<<p>>) = 1
    BY <1>1
  <1>4. <<p>> \o <<>> = <<p>>
    BY <1>3, ConcatEmptySeq
  <1> QED
    BY <1>2, <1>3, <1>4

LEMMA PayloadTlv ==
    ASSUME NEW type \in {"CONFIG_RESPONSE", "COMPOSITE_CONFIG"},
           NEW hosts \in SUBSET Hosts
    PROVE  /\ Tlv(type, hosts) \in Seq(Piece)
           /\ Len(Tlv(type, hosts)) = PayloadLen + 1
           /\ \A i \in 1 .. PayloadLen + 1 :
                 /\ Tlv(type, hosts)[i].type = type
                 /\ Tlv(type, hosts)[i].hosts = hosts
  <1> DEFINE hd == [kind |-> "header", type |-> type, hosts |-> hosts]
             dt == [kind |-> "data", type |-> type, hosts |-> hosts]
             pay == [i \in 1 .. PayloadLen |-> dt]
  <1>1. PICK n \in Nat : n = PayloadLen
    BY Size
  <1>2. hd \in Piece /\ dt \in Piece
    BY DEF Piece, Types
  <1>3. Tlv(type, hosts) = <<hd>> \o pay
    BY DEF Tlv
  <1>4. hd.type = type /\ hd.hosts = hosts /\ dt.type = type /\ dt.hosts = hosts
    OBVIOUS
  <1> HIDE DEF hd, dt
  <1>5. pay \in Seq(Piece) /\ Len(pay) = n /\ \A i \in 1 .. n : pay[i] = dt
    <2>1. pay \in [1 .. n -> Piece]
      BY <1>1, <1>2
    <2> QED
      BY <2>1, <1>1
  <1> HIDE DEF pay
  <1>6. <<hd>> \in Seq(Piece) /\ Len(<<hd>>) = 1 /\ <<hd>>[1] = hd
    BY <1>2
  <1>7. /\ Tlv(type, hosts) \in Seq(Piece) /\ Len(Tlv(type, hosts)) = n + 1
        /\ \A i \in 1 .. n + 1 :
              Tlv(type, hosts)[i] = IF i = 1 THEN hd ELSE pay[i - 1]
    BY <1>3, <1>5, <1>6
  <1>8. \A i \in 1 .. n + 1 : Tlv(type, hosts)[i] \in {hd, dt}
    BY <1>5, <1>7
  <1> QED
    BY <1>1, <1>4, <1>7, <1>8

\* A piece taken off a connection.
LEMMA Taken ==
    ASSUME NEW s \in Seq(Piece), s # <<>>
    PROVE  /\ Head(s) \in Piece /\ Head(s) = s[1]
           /\ Tail(s) \in Seq(Piece) /\ Len(Tail(s)) = Len(s) - 1
           /\ Len(s) \in Nat \ {0}
           /\ \A i \in 1 .. Len(Tail(s)) : Tail(s)[i] = s[i + 1]
  OBVIOUS

\* A piece arrives.
LEMMA Arrived ==
    ASSUME NEW s \in Seq(Piece), NEW p \in Piece
    PROVE  /\ Append(s, p) \in Seq(Piece) /\ Len(Append(s, p)) = Len(s) + 1
           /\ \A i \in 1 .. Len(s) : Append(s, p)[i] = s[i]
           /\ Append(s, p)[Len(s) + 1] = p
  OBVIOUS

\* recv of a payload.
LEMMA Received ==
    ASSUME NEW s \in Seq(Piece), s # <<>>
    PROVE  /\ Rest(s, RecvSize(s)) \in Seq(Piece)
           /\ RecvSize(s) \in 1 .. PayloadLen /\ RecvSize(s) <= Len(s)
           /\ Len(Rest(s, RecvSize(s))) = Len(s) - RecvSize(s)
  <1>1. PICK m \in Nat : m = Len(s) /\ m > 0
    OBVIOUS
  <1>2. PICK p \in Nat : p = PayloadLen /\ p > 0
    BY Size
  <1>3. PICK n \in 1 .. m : n = RecvSize(s) /\ n <= p
    BY <1>1, <1>2 DEF RecvSize
  <1>4. Rest(s, n) = SubSeq(s, n + 1, m)
    BY <1>1, <1>3 DEF Rest
  <1>5. SubSeq(s, n + 1, m) \in Seq(Piece) /\ Len(SubSeq(s, n + 1, m)) = m - n
    BY <1>1, <1>3
  <1> QED
    BY <1>1, <1>2, <1>3, <1>4, <1>5

-----------------------------------------------------------------------------
(* What is left alone *)

LEMMA HostKinds ==
    ASSUME Election
    PROVE  R \in Hosts /\ R \notin Leaves /\ Leaves \subseteq Hosts
           /\ \A h \in Hosts : h = R \/ h \in Leaves
  BY DEF Election, Leaves

LEMMA BufferTypes ==
    ASSUME Shapes, NEW h \in Hosts
    PROVE  /\ toLeaf[h] \in Seq(Piece) /\ leafBuf[h] \in Seq(Piece)
           /\ toRoot[h] \in Seq(Piece) /\ rootBuf[h] \in Seq(Piece)
           /\ Len(toLeaf[h]) \in Nat /\ Len(leafBuf[h]) \in Nat
           /\ Len(toRoot[h]) \in Nat /\ Len(rootBuf[h]) \in Nat
           /\ Down(h) \in Nat /\ Up(h) \in Nat
  <1>1. /\ toLeaf[h] \in Seq(Piece) /\ leafBuf[h] \in Seq(Piece)
        /\ toRoot[h] \in Seq(Piece) /\ rootBuf[h] \in Seq(Piece)
    BY DEF Shapes
  <1>2. /\ Len(toLeaf[h]) \in Nat /\ Len(leafBuf[h]) \in Nat
        /\ Len(toRoot[h]) \in Nat /\ Len(rootBuf[h]) \in Nat
    BY <1>1
  <1>3. Down(h) \in Nat /\ Up(h) \in Nat
    <2>1. \A a, b \in Nat : a + b \in Nat
      OBVIOUS
    <2>2. Down(h) = Len(leafBuf[h]) + Len(toLeaf[h])
      BY DEF Down
    <2>3. Up(h) = Len(rootBuf[h]) + Len(toRoot[h])
      BY DEF Up
    <2> QED
      BY <1>2, <2>1, <2>2, <2>3, Zenon
  <1> QED
    BY <1>1, <1>2, <1>3

LEMMA DownDrops ==
    ASSUME Shapes, NEW l \in Hosts, NEW k \in Nat, k <= Len(leafBuf[l]),
           Len(leafBuf'[l]) = Len(leafBuf[l]) - k, toLeaf'[l] = toLeaf[l]
    PROVE  Down(l)' = Down(l) - k /\ Down(l) >= k
  <1>1. PICK a \in Nat : a = Len(leafBuf[l]) /\ k <= a
    BY BufferTypes
  <1>2. PICK b \in Nat : b = Len(toLeaf[l]) /\ b = Len(toLeaf'[l])
    BY BufferTypes
  <1>3. Len(leafBuf'[l]) = a - k
    BY <1>1
  <1>4. Down(l) = a + b /\ Down(l)' = (a - k) + b
    BY <1>1, <1>2, <1>3 DEF Down
  <1>5. \A x, y \in Nat : k <= x => (x - k) + y = (x + y) - k /\ x + y >= k
    OBVIOUS
  <1> QED
    BY <1>1, <1>2, <1>4, <1>5, Zenon

LEMMA UpDrops ==
    ASSUME Shapes, NEW l \in Hosts, NEW k \in Nat, k <= Len(rootBuf[l]),
           Len(rootBuf'[l]) = Len(rootBuf[l]) - k, toRoot'[l] = toRoot[l]
    PROVE  Up(l)' = Up(l) - k /\ Up(l) >= k
  <1>1. PICK a \in Nat : a = Len(rootBuf[l]) /\ k <= a
    BY BufferTypes
  <1>2. PICK b \in Nat : b = Len(toRoot[l]) /\ b = Len(toRoot'[l])
    BY BufferTypes
  <1>3. Len(rootBuf'[l]) = a - k
    BY <1>1
  <1>4. Up(l) = a + b /\ Up(l)' = (a - k) + b
    BY <1>1, <1>2, <1>3 DEF Up
  <1>5. \A x, y \in Nat : k <= x => (x - k) + y = (x + y) - k /\ x + y >= k
    OBVIOUS
  <1> QED
    BY <1>1, <1>2, <1>4, <1>5, Zenon

LEMMA DownGrows ==
    ASSUME Shapes, NEW l \in Hosts, NEW k \in Nat,
           Len(toLeaf'[l]) = Len(toLeaf[l]) + k, leafBuf'[l] = leafBuf[l]
    PROVE  Down(l)' = Down(l) + k
  <1>1. PICK a \in Nat : a = Len(leafBuf[l]) /\ a = Len(leafBuf'[l])
    BY BufferTypes
  <1>2. PICK b \in Nat : b = Len(toLeaf[l])
    BY BufferTypes
  <1>3. Len(toLeaf'[l]) = b + k
    BY <1>2
  <1>4. Down(l) = a + b /\ Down(l)' = a + (b + k)
    BY <1>1, <1>2, <1>3 DEF Down
  <1>5. \A x, y \in Nat : x + (y + k) = (x + y) + k
    OBVIOUS
  <1> QED
    BY <1>1, <1>2, <1>4, <1>5, Zenon

LEMMA UpGrows ==
    ASSUME Shapes, NEW l \in Hosts, NEW k \in Nat,
           Len(toRoot'[l]) = Len(toRoot[l]) + k, rootBuf'[l] = rootBuf[l]
    PROVE  Up(l)' = Up(l) + k
  <1>1. PICK a \in Nat : a = Len(rootBuf[l]) /\ a = Len(rootBuf'[l])
    BY BufferTypes
  <1>2. PICK b \in Nat : b = Len(toRoot[l])
    BY BufferTypes
  <1>3. Len(toRoot'[l]) = b + k
    BY <1>2
  <1>4. Up(l) = a + b /\ Up(l)' = a + (b + k)
    BY <1>1, <1>2, <1>3 DEF Up
  <1>5. \A x, y \in Nat : x + (y + k) = (x + y) + k
    OBVIOUS
  <1> QED
    BY <1>1, <1>2, <1>4, <1>5, Zenon

LEMMA NothingOnTheWay ==
    ASSUME Shapes, NEW l \in Hosts
    PROVE  /\ Down(l) = 0 => leafBuf[l] = <<>> /\ toLeaf[l] = <<>>
           /\ Up(l) = 0 => rootBuf[l] = <<>> /\ toRoot[l] = <<>>
  <1>1. \A a, b \in Nat : a + b = 0 => a = 0 /\ b = 0
    OBVIOUS
  <1>2. /\ Down(l) = 0 => Len(leafBuf[l]) = 0 /\ Len(toLeaf[l]) = 0
        /\ Up(l) = 0 => Len(rootBuf[l]) = 0 /\ Len(toRoot[l]) = 0
    BY <1>1, BufferTypes, Zenon DEF Down, Up
  <1>3. \A s \in Seq(Piece) : Len(s) = 0 => s = <<>>
    OBVIOUS
  <1> QED
    BY <1>2, <1>3, BufferTypes

LEMMA JointStays ==
    ASSUME Joint, pc'[R] \in {"send", "program", "close"} \cup Ended,
           thread' = thread, composite'[R] = composite[R],
           all_hosts'[R] = all_hosts[R]
    PROVE  Joint'
  BY DEF Joint, Stored

\* Nothing has happened to leaf m, and the root stays where it is.
SameAt(m) ==
    /\ pc'[m] = pc[m] /\ thread'[m] = thread[m]
    /\ all_hosts'[m] = all_hosts[m]
    /\ toLeaf'[m] = toLeaf[m] /\ leafBuf'[m] = leafBuf[m]
    /\ toRoot'[m] = toRoot[m] /\ rootBuf'[m] = rootBuf[m]

SameRoot ==
    /\ pc'[R] = pc[R] /\ connArr' = connArr /\ next' = next
    /\ composite' = composite

LEMMA LeafFrame ==
    ASSUME NEW m \in Leaves, LeafInv(m), SameAt(m), SameRoot,
           connected \subseteq connected', Joint => Joint',
           \/ all_hosts'[R] = all_hosts[R]
           \/ ~Joint /\ (m \in Stored(R)' => m \in Stored(R))
    PROVE  LeafInv(m)'
  <1>1. /\ Visited(m)' = Visited(m) /\ Down(m)' = Down(m) /\ Up(m)' = Up(m)
        /\ Stored(m)' = Stored(m)
    BY DEF SameAt, SameRoot, Visited, Down, Up, Stored
  <1>2. m \in Stored(R)' => m \in Stored(R)
    BY DEF Stored
  <1>3. ~Joint \/ Stored(R)' = Stored(R)
    BY DEF Stored
  <1>4. ThreadOn(m)'
    BY <1>1 DEF LeafInv, ThreadOn, SameAt, SameRoot
  <1>5. DownOn(m)'
    BY <1>1 DEF LeafInv, DownOn, SameAt, SameRoot
  <1>6. FinalOn(m)'
    BY DEF LeafInv, FinalOn, Final, SameAt, SameRoot
  <1>7. UpOn(m)'
    BY <1>1, <1>2 DEF LeafInv, UpOn, SameAt
  <1>8. TableOn(m)'
    BY <1>1, <1>3 DEF LeafInv, TableOn, SameAt, Informed
  <1> QED
    BY <1>4, <1>5, <1>6, <1>7, <1>8 DEF LeafInv

LEMMA PhasesFrame ==
    ASSUME Phases, SameRoot, connected \subseteq connected'
    PROVE  Phases'
  BY DEF Phases, SameRoot, Accepted

\* A step of leaf l keeps the invariant if it keeps what l owes it.
LEMMA LeafMoves ==
    ASSUME Election, BootInv, NEW l \in Leaves,
           NEW phase \in PhaseStates \ (RootStates \cup {"start", "connect"}),
           pc[l] # "start", pc' = [pc EXCEPT ![l] = phase],
           UNCHANGED <<rootIp, rootVars, threadVars>>,
           connected' \in {connected, connected \cup {l}},
           \A m \in Hosts \ {l} : SameAt(m),
           \A h \in Hosts : rules'[h] # {} => rules[h] # {} \/ Joint,
           Shapes', LeafInv(l)'
    PROVE  BootInv'
  <1> USE HostKinds
  <1>1. SameRoot /\ pc'[R] = pc[R] /\ SameAt(R)
    BY DEF SameRoot, SameAt, rootVars, BootInv, Shapes
  <1>2. Joint => Joint'
    BY <1>1, JointStays DEF threadVars, SameRoot, SameAt, Joint
  <1>3. Roles'
    <2>1. \A h \in Hosts : pc'[h] = "start" <=> pc[h] = "start"
      BY DEF BootInv, Shapes
    <2>2. \A h \in Hosts : rootIp'[h] = IF pc'[h] = "start" THEN h ELSE R
      BY <2>1 DEF BootInv, Roles
    <2>3. \A m \in Leaves : /\ pc'[m] \notin RootStates
                            /\ connArr'[m] = <<>> /\ next'[m] = 1
      BY DEF BootInv, Shapes, Roles, rootVars
    <2>4. \A m \in connected' : pc'[m] \notin {"start", "connect"}
      BY DEF BootInv, Shapes, Roles
    <2> QED
      BY <1>1, <2>2, <2>3, <2>4 DEF BootInv, Roles, SameAt
  <1>4. Phases'
    BY <1>1, PhasesFrame DEF BootInv
  <1>5. RootTable'
    <2>1. Down(R)' = 0 /\ Up(R)' = 0
      BY <1>1 DEF BootInv, RootTable, SameAt, Down, Up
    <2>2. Stored(R)' = Stored(R)
      BY <1>1 DEF SameAt, Stored
    <2> QED
      BY <1>1, <1>2, <2>1, <2>2 DEF BootInv, RootTable, SameAt, threadVars
  <1>6. ASSUME NEW m \in Leaves, m # l PROVE LeafInv(m)'
    BY <1>1, <1>2, <1>6, LeafFrame DEF BootInv, SameAt
  <1> QED
    BY <1>3, <1>4, <1>5, <1>6 DEF BootInv

-----------------------------------------------------------------------------
(* The steps of a leaf *)

LEMMA LeafOnly ==
    ASSUME Election, BootInv, NEW h \in Hosts, pc[h] \in LeafStates
    PROVE  h \in Leaves
  BY HostKinds DEF BootInv, Roles

LEMMA LeafConnectKeeps ==
    ASSUME Election, BootInv, NEW l \in Hosts, LeafConnect(l)
    PROVE  BootInv'
  <1> USE HostKinds
  <1>1. l \in Leaves /\ pc[l] = "connect"
    BY LeafOnly DEF LeafConnect, LeafStates
  <1>2. /\ pc' = [pc EXCEPT ![l] = "waitRequest"] /\ pc'[l] = "waitRequest"
        /\ pc'[R] = pc[R] /\ connected' = connected \cup {l}
        /\ \A m \in Hosts \ {l} : pc'[m] = pc[m]
    BY <1>1 DEF LeafConnect, BootInv, Shapes
  <1>3. UNCHANGED <<rootIp, rootVars, threadVars, all_hosts, rules, netToLeaf,
                    netToRoot, faults>>
    BY DEF LeafConnect
  <1>4. \A m \in Hosts \ {l} : SameAt(m)
    BY <1>2, <1>3 DEF SameAt, threadVars, netToLeaf, netToRoot
  <1>5. Shapes'
    BY <1>1, <1>2, <1>3
    DEF BootInv, Shapes, PhaseStates, LeafStates, rootVars, threadVars,
        netToLeaf, netToRoot
  <1>6. LeafInv(l)'
    <2>1. /\ Down(l)' = Down(l) /\ Up(l)' = Up(l) /\ Down(l) = 0 /\ Up(l) = 0
          /\ Visited(l)' = Visited(l) /\ Stored(R)' = Stored(R)
      BY <1>1, <1>3
      DEF Down, Up, Visited, Stored, BootInv, LeafInv, DownOn, UpOn, Before,
          rootVars, netToLeaf, netToRoot
    <2>2. ThreadOn(l)'
      BY <1>1, <1>2, <1>3, <2>1
      DEF BootInv, LeafInv, ThreadOn, Before, threadVars
    <2>3. DownOn(l)'
      BY <1>1, <1>2, <2>1 DEF DownOn, Informed
    <2>4. FinalOn(l)'
      BY <1>2 DEF FinalOn
    <2>5. UpOn(l)'
      BY <1>1, <1>2, <1>3, <2>1 DEF BootInv, LeafInv, UpOn, threadVars
    <2>6. TableOn(l)'
      BY <1>1, <1>2, <1>3 DEF BootInv, LeafInv, TableOn, Before, Informed
    <2> QED
      BY <2>2, <2>3, <2>4, <2>5, <2>6 DEF LeafInv
  <1>7. "waitRequest" \in PhaseStates \ (RootStates \cup {"start", "connect"})
    BY DEF PhaseStates, LeafStates, RootStates
  <1> QED
    BY <1>1, <1>2, <1>3, <1>4, <1>5, <1>6, <1>7, LeafMoves

\* A leaf that fails, whatever the reason.
LEMMA LeafFails ==
    ASSUME Election, BootInv, NEW l \in Leaves,
           pc[l] \in LeafStates, pc' = [pc EXCEPT ![l] = "failed"],
           UNCHANGED <<rootIp, connected, rootVars, threadVars, all_hosts,
                       rules, toLeaf, netToRoot>>,
           leafBuf' \in [Hosts -> Seq(Piece)],
           \A m \in Hosts \ {l} : leafBuf'[m] = leafBuf[m],
           faults' \in 0 .. MaxFaults
    PROVE  BootInv'
  <1> USE HostKinds
  <1>1. /\ pc'[l] = "failed" /\ pc'[R] = pc[R] /\ pc[l] # "start"
        /\ \A m \in Hosts \ {l} : pc'[m] = pc[m]
    BY DEF BootInv, Shapes, LeafStates
  <1>2. \A m \in Hosts \ {l} : SameAt(m)
    BY <1>1 DEF SameAt, threadVars, netToRoot
  <1>3. Shapes'
    BY <1>1
    DEF BootInv, Shapes, PhaseStates, Ended, rootVars, threadVars, netToRoot
  <1>4. LeafInv(l)'
    <2>1. /\ Up(l)' = Up(l) /\ Visited(l)' = Visited(l)
          /\ Stored(R)' = Stored(R)
      BY DEF Up, Visited, Stored, rootVars, netToRoot
    <2>2. ThreadOn(l)'
      BY <1>1, <2>1 DEF BootInv, LeafInv, ThreadOn, Before, threadVars
    <2>3. DownOn(l)'
      BY <1>1 DEF DownOn, Informed
    <2>4. FinalOn(l)'
      BY <1>1 DEF FinalOn
    <2>5. UpOn(l)'
      BY <1>1, <2>1 DEF BootInv, LeafInv, UpOn, threadVars, Before
    <2>6. TableOn(l)'
      BY <1>1 DEF TableOn, Before, Informed
    <2> QED
      BY <2>2, <2>3, <2>4, <2>5, <2>6 DEF LeafInv
  <1>5. "failed" \in PhaseStates \ (RootStates \cup {"start", "connect"})
    BY DEF PhaseStates, LeafStates, RootStates, Ended
  <1> QED
    BY <1>1, <1>2, <1>3, <1>4, <1>5, LeafMoves

LEMMA LeafFailuresKeep ==
    ASSUME Election, BootInv, NEW l \in Hosts,
           LeafRespondFails(l) \/ LeafEof(l) \/ LeafCrash(l)
    PROVE  BootInv'
  <1>1. l \in Leaves /\ pc[l] \in LeafStates
    BY LeafOnly DEF LeafRespondFails, LeafEof, LeafCrash, LeafStates
  <1>2. /\ pc' = [pc EXCEPT ![l] = "failed"]
        /\ UNCHANGED <<rootIp, connected, rootVars, threadVars, all_hosts,
                       rules, netToLeaf, netToRoot>>
    BY DEF LeafRespondFails, LeafEof, LeafCrash
  <1>3. faults' \in 0 .. MaxFaults
    <2>1. faults \in 0 .. MaxFaults /\ MaxFaults \in Nat
      BY BootstrapAssumption DEF BootInv, Shapes
    <2> QED
      BY <2>1 DEF LeafRespondFails, LeafEof, LeafCrash, InjectFault
  <1>4. leafBuf' = leafBuf /\ toLeaf' = toLeaf /\ leafBuf \in [Hosts -> Seq(Piece)]
    BY <1>2 DEF netToLeaf, BootInv, Shapes
  <1> QED
    BY <1>1, <1>2, <1>3, <1>4, LeafFails

\* The header of the request.
LEMMA LeafRequestedKeeps ==
    ASSUME Election, BootInv, NEW l \in Hosts, LeafRequested(l)
    PROVE  BootInv'
  <1> USE HostKinds
  <1>1. l \in Leaves /\ pc[l] = "waitRequest"
    BY LeafOnly DEF LeafRequested, LeafStates
  <1>2. /\ leafBuf[l] # <<>> /\ leafBuf' = [leafBuf EXCEPT ![l] = Tail(@)]
        /\ \/ pc' = [pc EXCEPT ![l] = "respond"]
           \/ pc' = [pc EXCEPT ![l] = "failed"]
        /\ UNCHANGED <<rootIp, connected, rootVars, threadVars, all_hosts,
                       rules, toLeaf, netToRoot, faults>>
    BY DEF LeafRequested, LeafHeader
  <1>3. /\ leafBuf' \in [Hosts -> Seq(Piece)] /\ leafBuf'[l] = Tail(leafBuf[l])
        /\ \A m \in Hosts \ {l} : leafBuf'[m] = leafBuf[m]
    BY <1>1, <1>2, BufferTypes, Taken DEF BootInv, Shapes
  <1>4. faults' \in 0 .. MaxFaults
    BY <1>2 DEF BootInv, Shapes
  <1>5. CASE pc' = [pc EXCEPT ![l] = "failed"]
    BY <1>1, <1>2, <1>3, <1>4, <1>5, LeafFails DEF LeafStates
  <1>6. CASE pc' = [pc EXCEPT ![l] = "respond"]
    <2>1. /\ pc'[l] = "respond" /\ pc'[R] = pc[R]
          /\ \A m \in Hosts \ {l} : pc'[m] = pc[m]
      BY <1>1, <1>6 DEF BootInv, Shapes
    <2>2. \A m \in Hosts \ {l} : SameAt(m)
      BY <1>2, <1>3, <2>1 DEF SameAt, threadVars, netToRoot
    <2>3. Shapes'
      BY <1>1, <1>2, <1>3, <1>6
      DEF BootInv, Shapes, PhaseStates, LeafStates, rootVars, threadVars,
          netToRoot
    <2>4. /\ Up(l)' = Up(l) /\ Visited(l)' = Visited(l)
          /\ Stored(R)' = Stored(R)
      BY <1>2 DEF Up, Visited, Stored, rootVars, netToRoot
    <2>5. Down(l) = 1 /\ Down(l)' = 0
      <3>1. /\ Len(leafBuf[l]) \in Nat \ {0}
            /\ Len(leafBuf'[l]) = Len(leafBuf[l]) - 1
        BY <1>2, <1>3, BufferTypes, Taken DEF BootInv
      <3>2. Down(l)' = Down(l) - 1 /\ Down(l) >= 1
        BY <1>2, <3>1, DownDrops DEF BootInv
      <3>3. Down(l) <= 1 /\ Down(l) \in Nat
        BY <1>1, BufferTypes DEF BootInv, LeafInv, DownOn
      <3> QED
        BY <3>2, <3>3
    <2>6. ThreadOn(l)'
      BY <1>1, <1>2, <2>1, <2>4
      DEF BootInv, LeafInv, ThreadOn, Before, threadVars
    <2>7. DownOn(l)'
      BY <1>1, <2>1, <2>4, <2>5 DEF BootInv, LeafInv, DownOn, Informed
    <2>8. FinalOn(l)'
      BY <2>1 DEF FinalOn
    <2>9. UpOn(l)'
      BY <1>1, <1>2, <2>1, <2>4 DEF BootInv, LeafInv, UpOn, threadVars, Before
    <2>10. TableOn(l)'
      BY <1>1, <1>2, <2>1 DEF BootInv, LeafInv, TableOn, Before, Informed
    <2>11. LeafInv(l)'
      BY <2>6, <2>7, <2>8, <2>9, <2>10 DEF LeafInv
    <2>12. "respond" \in PhaseStates \ (RootStates \cup {"start", "connect"})
      BY DEF PhaseStates, LeafStates, RootStates
    <2> QED
      BY <1>1, <1>2, <1>6, <2>2, <2>3, <2>11, <2>12, LeafMoves
  <1> QED
    BY <1>2, <1>5, <1>6

\* An answer, or the first part of one and the end of the leaf.
LEMMA LeafAnswers ==
    ASSUME Election, BootInv, NEW l \in Hosts, pc[l] = "respond",
           NEW msg \in Seq(Piece), Len(msg) <= PayloadLen + 1,
           NEW state \in {"waitComposite", "failed"},
           pc' = [pc EXCEPT ![l] = state],
           toRoot' = [toRoot EXCEPT ![l] = @ \o msg],
           UNCHANGED <<rootIp, connected, rootVars, threadVars, all_hosts,
                       rules, netToLeaf, rootBuf>>,
           faults' \in 0 .. MaxFaults
    PROVE  BootInv'
  <1> USE HostKinds
  <1>1. l \in Leaves
    BY LeafOnly DEF LeafStates
  <1>2. state \in PhaseStates \ (RootStates \cup Before)
    BY DEF PhaseStates, LeafStates, RootStates, Ended, Before
  <1>3. Len(msg) \in Nat
    OBVIOUS
  <1>4. /\ toRoot' \in [Hosts -> Seq(Piece)] /\ toRoot'[l] = toRoot[l] \o msg
        /\ \A m \in Hosts \ {l} : toRoot'[m] = toRoot[m]
    BY BufferTypes, Sent DEF BootInv, Shapes
  <1>5. /\ pc'[l] = state /\ pc'[R] = pc[R]
        /\ \A m \in Hosts \ {l} : pc'[m] = pc[m]
    BY <1>1, <1>2 DEF BootInv, Shapes
  <1>6. \A m \in Hosts \ {l} : SameAt(m)
    BY <1>2, <1>4, <1>5 DEF SameAt, threadVars, netToLeaf
  <1>7. Shapes'
    BY <1>1, <1>2, <1>4
    DEF BootInv, Shapes, PhaseStates, LeafStates, rootVars, threadVars,
        netToLeaf
  <1>8. LeafInv(l)'
    <2>1. /\ Down(l)' = Down(l) /\ Visited(l)' = Visited(l)
          /\ Stored(R)' = Stored(R)
      BY <1>2 DEF Down, Visited, Stored, rootVars, netToLeaf
    <2>2. Down(l) = 0 /\ Up(l) = 0
      BY <1>1 DEF BootInv, LeafInv, DownOn, UpOn, Before
    <2>3. Up(l)' <= PayloadLen + 1
      <3>1. Len(toRoot'[l]) = Len(toRoot[l]) + Len(msg)
        <4>1. Len(toRoot[l] \o msg) = Len(toRoot[l]) + Len(msg)
          BY <1>3, BufferTypes, Sent DEF BootInv
        <4> QED
          BY <1>3, <1>4, <4>1, Zenon
      <3>2. Up(l)' = Up(l) + Len(msg)
        BY <1>3, <3>1, UpGrows DEF BootInv
      <3> QED
        BY <1>3, <2>2, <3>2
    <2>4. thread'[l] = thread[l] /\ thread[l] \in {"none", "header"} /\ l \notin Stored(R)
      BY <1>1, <1>2, <2>2, Size
      DEF BootInv, LeafInv, Shapes, ThreadStates, ThreadOn, UpOn, Before,
          threadVars
    <2>5. ThreadOn(l)'
      BY <1>1, <1>2, <1>5, <2>1, <2>4 DEF BootInv, LeafInv, ThreadOn
    <2>6. DownOn(l)'
      BY <1>1, <1>5, <2>1, <2>2, Size
      DEF BootInv, LeafInv, DownOn, Informed
    <2>7. FinalOn(l)'
      <3>1. leafBuf'[l] = <<>> /\ toLeaf'[l] = <<>>
        BY <1>2, <2>2, NothingOnTheWay DEF BootInv, netToLeaf
      <3> QED
        BY <3>1 DEF FinalOn
    <2>8. UpOn(l)'
      BY <1>5, <2>1, <2>3, <2>4 DEF UpOn, Before
    <2>9. TableOn(l)'
      BY <1>1, <1>2, <1>5, <2>1, <2>2 DEF BootInv, LeafInv, TableOn, Before, Informed
    <2> QED
      BY <2>5, <2>6, <2>7, <2>8, <2>9 DEF LeafInv
  <1>9. state \in PhaseStates \ (RootStates \cup {"start", "connect"})
    BY <1>2 DEF Before
  <1> QED
    BY <1>1, <1>2, <1>6, <1>7, <1>8, <1>9, LeafMoves

LEMMA LeafRespondKeeps ==
    ASSUME Election, BootInv, NEW l \in Hosts, LeafRespond(l) \/ LeafCrashSending(l)
    PROVE  BootInv'
  <1> DEFINE msg == Tlv("CONFIG_RESPONSE", {l})
  <1>1. msg \in Seq(Piece) /\ Len(msg) = PayloadLen + 1
    BY PayloadTlv
  <1>2. faults \in 0 .. MaxFaults /\ MaxFaults \in Nat
    BY BootstrapAssumption DEF BootInv, Shapes
  <1>3. CASE LeafRespond(l)
    <2>1. /\ pc[l] = "respond" /\ pc' = [pc EXCEPT ![l] = "waitComposite"]
          /\ toRoot' = [toRoot EXCEPT ![l] = @ \o msg]
          /\ UNCHANGED <<rootIp, connected, rootVars, threadVars, all_hosts,
                         rules, netToLeaf, rootBuf, faults>>
      BY <1>3 DEF LeafRespond, SendTlv
    <2>2. Len(msg) <= PayloadLen + 1 /\ msg \in Seq(Piece)
      BY <1>1, Size
    <2>3. faults' \in 0 .. MaxFaults
      BY <1>2, <2>1
    <2> HIDE DEF msg
    <2> QED
      BY <2>1, <2>2, <2>3, LeafAnswers
  <1>4. CASE LeafCrashSending(l)
    <2>1. PICK n \in 1 .. PayloadLen :
             toRoot' = [toRoot EXCEPT ![l] = @ \o SubSeq(msg, 1, n)]
      BY <1>4 DEF LeafCrashSending
    <2>2. /\ pc[l] = "respond" /\ pc' = [pc EXCEPT ![l] = "failed"]
          /\ UNCHANGED <<rootIp, connected, rootVars, threadVars, all_hosts,
                         rules, netToLeaf, rootBuf>>
      BY <1>4 DEF LeafCrashSending
    <2>3. faults' \in 0 .. MaxFaults
      BY <1>2, <1>4 DEF LeafCrashSending, InjectFault
    <2> HIDE DEF msg
    <2>4. PICK part : part = SubSeq(msg, 1, n)
      OBVIOUS
    <2>5. part \in Seq(Piece) /\ Len(part) = n
      <3>1. PICK m \in Nat : m = PayloadLen
        BY Size
      <3>2. n \in 1 .. m /\ Len(msg) = m + 1 /\ msg \in Seq(Piece)
        BY <1>1, <3>1
      <3> QED
        BY <2>4, <3>2
    <2>6. Len(part) <= PayloadLen + 1
      BY <2>5, Size
    <2> QED
      BY <2>1, <2>2, <2>3, <2>4, <2>5, <2>6, LeafAnswers
  <1> QED
    BY <1>3, <1>4

\* The header of the composite.
LEMMA LeafCompositeKeeps ==
    ASSUME Election, BootInv, NEW l \in Hosts, LeafComposite(l)
    PROVE  BootInv'
  <1> USE HostKinds
  <1>1. l \in Leaves /\ pc[l] = "waitComposite"
    BY LeafOnly DEF LeafComposite, LeafStates
  <1>2. /\ leafBuf[l] # <<>> /\ leafBuf' = [leafBuf EXCEPT ![l] = Tail(@)]
        /\ \/ pc' = [pc EXCEPT ![l] = "readComposite"]
           \/ pc' = [pc EXCEPT ![l] = "failed"]
        /\ UNCHANGED <<rootIp, connected, rootVars, threadVars, all_hosts,
                       rules, toLeaf, netToRoot, faults>>
    BY DEF LeafComposite, LeafHeader
  <1>3. /\ leafBuf' \in [Hosts -> Seq(Piece)] /\ leafBuf'[l] = Tail(leafBuf[l])
        /\ \A m \in Hosts \ {l} : leafBuf'[m] = leafBuf[m]
    BY <1>1, <1>2, BufferTypes, Taken DEF BootInv, Shapes
  <1>4. faults' \in 0 .. MaxFaults
    BY <1>2 DEF BootInv, Shapes
  <1>5. CASE pc' = [pc EXCEPT ![l] = "failed"]
    BY <1>1, <1>2, <1>3, <1>4, <1>5, LeafFails DEF LeafStates
  <1>6. CASE pc' = [pc EXCEPT ![l] = "readComposite"]
    <2>1. /\ pc'[l] = "readComposite" /\ pc'[R] = pc[R]
          /\ \A m \in Hosts \ {l} : pc'[m] = pc[m]
      BY <1>1, <1>6 DEF BootInv, Shapes
    <2>2. \A m \in Hosts \ {l} : SameAt(m)
      BY <1>2, <1>3, <2>1 DEF SameAt, threadVars, netToRoot
    <2>3. Shapes'
      BY <1>1, <1>2, <1>3, <1>6
      DEF BootInv, Shapes, PhaseStates, LeafStates, rootVars, threadVars,
          netToRoot
    <2>4. /\ Up(l)' = Up(l) /\ Visited(l)' = Visited(l)
          /\ Stored(R)' = Stored(R)
      BY <1>2 DEF Up, Visited, Stored, rootVars, netToRoot
    <2>5. Down(l) # 0 /\ Down(l)' <= PayloadLen /\ Down(l) > 0
      <3>1. /\ Len(leafBuf[l]) \in Nat \ {0}
            /\ Len(leafBuf'[l]) = Len(leafBuf[l]) - 1
        BY <1>2, <1>3, BufferTypes, Taken DEF BootInv
      <3>2. Down(l)' = Down(l) - 1 /\ Down(l) >= 1
        BY <1>2, <3>1, DownDrops DEF BootInv
      <3>3. Down(l) <= PayloadLen + 1 /\ Down(l) \in Nat
        BY <1>1, BufferTypes DEF BootInv, LeafInv, DownOn
      <3> QED
        BY <3>2, <3>3, Size
    <2>6. Joint /\ Joint'
      <3>1. Joint
        BY <1>1, <2>5 DEF BootInv, LeafInv, TableOn
      <3> QED
        BY <1>2, <2>1, <3>1, JointStays DEF Joint, rootVars, threadVars
    <2>7. ThreadOn(l)'
      BY <1>1, <1>2, <2>1, <2>4
      DEF BootInv, LeafInv, ThreadOn, Before, threadVars
    <2>8. DownOn(l)'
      BY <1>1, <2>1, <2>4, <2>5 DEF BootInv, LeafInv, DownOn, Informed
    <2>9. FinalOn(l)'
      <3>1. \A i \in 1 .. Len(leafBuf'[l]) :
               /\ i + 1 \in 1 .. Len(leafBuf[l])
               /\ leafBuf'[l][i] = leafBuf[l][i + 1]
        <4>1. PICK a \in Nat \ {0} : a = Len(leafBuf[l]) /\ Len(Tail(leafBuf[l])) = a - 1
          BY <1>2, BufferTypes, Taken DEF BootInv
        <4>2. \A i \in 1 .. a - 1 : Tail(leafBuf[l])[i] = leafBuf[l][i + 1]
          BY <1>2, <4>1, BufferTypes, Taken DEF BootInv
        <4> QED
          BY <1>3, <4>1, <4>2
      <3>2. /\ \A i \in 1 .. Len(leafBuf[l]) : Final(leafBuf[l][i])
            /\ \A i \in 1 .. Len(toLeaf[l]) : Final(toLeaf[l][i])
        BY <1>1 DEF BootInv, LeafInv, FinalOn
      <3>3. composite' = composite /\ toLeaf' = toLeaf
        BY <1>2 DEF rootVars
      <3>4. \A i \in 1 .. Len(leafBuf'[l]) : Final(leafBuf[l][i + 1])
        BY <3>1, <3>2
      <3> QED
        BY <3>1, <3>2, <3>3, <3>4 DEF FinalOn, Final
    <2>10. UpOn(l)'
      BY <1>1, <1>2, <2>1, <2>4 DEF BootInv, LeafInv, UpOn, threadVars, Before
    <2>11. TableOn(l)'
      BY <1>1, <1>2, <2>1, <2>6 DEF BootInv, LeafInv, TableOn, Before, Informed
    <2>12. LeafInv(l)'
      BY <2>7, <2>8, <2>9, <2>10, <2>11 DEF LeafInv
    <2>13. "readComposite" \in PhaseStates \ (RootStates \cup {"start", "connect"})
      BY DEF PhaseStates, LeafStates, RootStates
    <2> QED
      BY <1>1, <1>2, <1>6, <2>2, <2>3, <2>12, <2>13, LeafMoves
  <1> QED
    BY <1>2, <1>5, <1>6

\* With a name of its own for each, the table read is the composite's.
LEMMA DeserializedAll ==
    ASSUME NEW hosts \in SUBSET Hosts,
           NEW new \in Deserialized(<<>>, hosts)
    PROVE  /\ new \in Tables
           /\ NamesDiffer => {new[k] : k \in DOMAIN new} = hosts
  <1> DEFINE K == {HostName[g] : g \in hosts}
  <1>1. DOMAIN <<>> \cup K = K
    OBVIOUS
  <1>2. /\ new \in [K -> Hosts]
        /\ \A k \in K : IF \E g \in hosts : HostName[g] = k
                        THEN new[k] \in hosts /\ HostName[new[k]] = k
                        ELSE new[k] = <<>>[k]
    BY <1>1 DEF Deserialized
  <1>3. \A k \in K : new[k] \in hosts /\ HostName[new[k]] = k
    BY <1>2
  <1>4. NamesDiffer => \A g \in hosts : HostName[g] \in K /\ new[HostName[g]] = g
    BY <1>3 DEF NamesDiffer
  <1>5. DOMAIN new = K
    BY <1>2
  <1>6. K \in SUBSET Keys
    BY DEF Keys
  <1>7. new \in Tables
    BY <1>2, <1>6 DEF Tables
  <1> QED
    BY <1>3, <1>4, <1>5, <1>7

\* The payload of the composite, read whole or not.
LEMMA LeafPayloadKeeps ==
    ASSUME Election, BootInv, NEW l \in Hosts, LeafPayload(l)
    PROVE  BootInv'
  <1> USE HostKinds
  <1> DEFINE n == RecvSize(leafBuf[l])
  <1>1. l \in Leaves /\ pc[l] = "readComposite"
    BY LeafOnly DEF LeafPayload, LeafStates
  <1>2. /\ leafBuf[l] # <<>> /\ leafBuf' = [leafBuf EXCEPT ![l] = Rest(@, n)]
        /\ UNCHANGED <<rootIp, connected, rootVars, threadVars, rules, toLeaf,
                       netToRoot, faults>>
    BY DEF LeafPayload
  <1>3. /\ Rest(leafBuf[l], n) \in Seq(Piece) /\ n \in 1 .. PayloadLen
        /\ n <= Len(leafBuf[l])
        /\ Len(Rest(leafBuf[l], n)) = Len(leafBuf[l]) - n
    BY <1>2, BufferTypes, Received DEF BootInv
  <1>4. /\ leafBuf' \in [Hosts -> Seq(Piece)]
        /\ leafBuf'[l] = Rest(leafBuf[l], n)
        /\ \A m \in Hosts \ {l} : leafBuf'[m] = leafBuf[m]
    BY <1>1, <1>2, <1>3 DEF BootInv, Shapes
  <1>5. faults' \in 0 .. MaxFaults
    BY <1>2 DEF BootInv, Shapes
  <1>6. CASE ~FullRead(n)
    <2>1. pc' = [pc EXCEPT ![l] = "failed"] /\ all_hosts' = all_hosts
      BY <1>6 DEF LeafPayload
    <2> HIDE DEF n
    <2> QED
      BY <1>1, <1>2, <1>4, <1>5, <2>1, LeafFails DEF LeafStates
  <1>7. CASE FullRead(n)
    <2> DEFINE sent == Head(leafBuf[l]).hosts
    <2>1. /\ pc' = [pc EXCEPT ![l] = "install"]
          /\ \E new \in Deserialized(all_hosts[l], sent) :
                all_hosts' = [all_hosts EXCEPT ![l] = new]
      BY <1>7 DEF LeafPayload
    <2>2. sent = composite[R] /\ sent \in SUBSET Hosts
      <3>1. 1 \in 1 .. Len(leafBuf[l]) /\ Head(leafBuf[l]) = leafBuf[l][1]
        BY <1>2, BufferTypes, Taken DEF BootInv
      <3>2. Final(leafBuf[l][1])
        BY <1>1, <3>1 DEF BootInv, LeafInv, FinalOn
      <3>3. composite[R] \in SUBSET Hosts
        BY DEF BootInv, Shapes
      <3> QED
        BY <3>1, <3>2, <3>3 DEF Final
    <2> HIDE DEF n, sent
    <2>3. PICK new \in Tables : /\ all_hosts' = [all_hosts EXCEPT ![l] = new]
                                /\ NamesDiffer => {new[k] : k \in DOMAIN new} = sent
      <3>1. all_hosts[l] = <<>>
        BY <1>1 DEF BootInv, LeafInv, TableOn
      <3>2. PICK new \in Deserialized(<<>>, sent) :
               all_hosts' = [all_hosts EXCEPT ![l] = new]
        BY <2>1, <3>1
      <3>3. new \in Tables /\ (NamesDiffer => {new[k] : k \in DOMAIN new} = sent)
        BY <2>2, DeserializedAll
      <3> QED
        BY <3>2, <3>3
    <2>4. /\ pc'[l] = "install" /\ pc'[R] = pc[R]
          /\ \A m \in Hosts \ {l} : pc'[m] = pc[m]
      BY <1>1, <2>1 DEF BootInv, Shapes
    <2>5. /\ all_hosts'[l] = new /\ all_hosts'[R] = all_hosts[R]
          /\ \A m \in Hosts \ {l} : all_hosts'[m] = all_hosts[m]
      BY <1>1, <2>3 DEF BootInv, Shapes
    <2>6. \A m \in Hosts \ {l} : SameAt(m)
      BY <1>2, <1>4, <2>4, <2>5 DEF SameAt, threadVars, netToRoot
    <2>7. Shapes'
      BY <1>1, <1>2, <1>4, <2>1, <2>3
      DEF BootInv, Shapes, PhaseStates, LeafStates, rootVars, threadVars,
          netToRoot
    <2>8. /\ Up(l)' = Up(l) /\ Visited(l)' = Visited(l)
          /\ Stored(R)' = Stored(R) /\ (NamesDiffer => Stored(l)' = sent)
      BY <1>2, <2>3, <2>5 DEF Up, Visited, Stored, rootVars, netToRoot
    <2>9. Down(l)' = 0
      <3>1. n = PayloadLen
        BY <1>7 DEF FullRead
      <3>2. n \in Nat
        BY <3>1, Size
      <3>3. Down(l)' = Down(l) - n /\ Down(l) >= n
        BY <1>2, <1>3, <1>4, <3>2, DownDrops DEF BootInv
      <3>4. Down(l) <= PayloadLen /\ Down(l) \in Nat
        BY <1>1, BufferTypes DEF BootInv, LeafInv, DownOn
      <3> QED
        BY <3>1, <3>2, <3>3, <3>4
    <2>10. Joint /\ Joint'
      <3>1. Joint
        BY <1>1 DEF BootInv, LeafInv, TableOn, Informed
      <3> QED
        BY <1>2, <2>4, <2>5, <3>1, JointStays DEF Joint, rootVars, threadVars
    <2>11. ThreadOn(l)'
      BY <1>1, <1>2, <2>4, <2>8
      DEF BootInv, LeafInv, ThreadOn, Before, threadVars
    <2>12. DownOn(l)'
      BY <1>1, <2>4, <2>8, <2>9 DEF BootInv, LeafInv, DownOn, Informed
    <2>13. FinalOn(l)'
      BY <2>4 DEF FinalOn
    <2>14. UpOn(l)'
      BY <1>1, <1>2, <2>4, <2>8 DEF BootInv, LeafInv, UpOn, threadVars, Before
    <2>15. TableOn(l)'
      <3>1. NamesDiffer => Stored(l)' = Stored(R)'
        BY <2>2, <2>8, <2>10 DEF Joint
      <3> QED
        BY <2>4, <2>10, <3>1 DEF TableOn, Before
    <2>16. LeafInv(l)'
      BY <2>11, <2>12, <2>13, <2>14, <2>15 DEF LeafInv
    <2>17. "install" \in PhaseStates \ (RootStates \cup {"start", "connect"})
      BY DEF PhaseStates, LeafStates, RootStates
    <2> QED
      BY <1>1, <1>2, <2>1, <2>6, <2>7, <2>16, <2>17, LeafMoves
  <1> QED
    BY <1>6, <1>7

LEMMA RulesType ==
    ASSUME Shapes, NEW h \in Hosts, ApplyRules(h)
    PROVE  /\ rules' \in [Hosts -> SUBSET Rule]
           /\ \A g \in Hosts \ {h} : rules'[g] = rules[g]
  <1>1. all_hosts[h] \in Tables
    BY DEF Shapes
  <1>2. \A k \in DOMAIN all_hosts[h] : all_hosts[h][k] \in Hosts
    BY <1>1 DEF Tables
  <1>3. LocalRules(h) \subseteq Rule /\ RemoteRules(h) \subseteq Rule
    BY <1>2 DEF LocalRules, RemoteRules, Rule
  <1> QED
    BY <1>3 DEF ApplyRules, Shapes

LEMMA LeafInstallKeeps ==
    ASSUME Election, BootInv, NEW l \in Hosts, LeafInstall(l)
    PROVE  BootInv'
  <1> USE HostKinds
  <1>1. l \in Leaves /\ pc[l] = "install"
    BY LeafOnly DEF LeafInstall, LeafStates
  <1>2. /\ pc' = [pc EXCEPT ![l] = "done"] /\ ApplyRules(l)
        /\ UNCHANGED <<rootIp, connected, rootVars, threadVars, all_hosts,
                       netToLeaf, netToRoot, faults>>
    BY DEF LeafInstall
  <1>3. /\ rules' \in [Hosts -> SUBSET Rule]
        /\ \A g \in Hosts \ {l} : rules'[g] = rules[g]
    BY <1>2, RulesType DEF BootInv
  <1>4. /\ pc'[l] = "done" /\ pc'[R] = pc[R]
        /\ \A m \in Hosts \ {l} : pc'[m] = pc[m]
    BY <1>1, <1>2 DEF BootInv, Shapes
  <1>5. \A m \in Hosts \ {l} : SameAt(m)
    BY <1>2, <1>4 DEF SameAt, threadVars, netToLeaf, netToRoot
  <1>6. Shapes'
    BY <1>1, <1>2, <1>3
    DEF BootInv, Shapes, PhaseStates, Ended, rootVars, threadVars, netToLeaf,
        netToRoot
  <1>7. Joint /\ Joint'
    <2>1. Joint
      BY <1>1 DEF BootInv, LeafInv, TableOn, Informed
    <2> QED
      BY <1>2, <1>4, <2>1, JointStays DEF Joint, rootVars, threadVars
  <1>8. LeafInv(l)'
    <2>1. /\ Down(l)' = Down(l) /\ Up(l)' = Up(l) /\ Visited(l)' = Visited(l)
          /\ Stored(R)' = Stored(R) /\ Stored(l)' = Stored(l)
      BY <1>2 DEF Down, Up, Visited, Stored, rootVars, netToLeaf, netToRoot
    <2>2. ThreadOn(l)'
      BY <1>1, <1>2, <1>4, <2>1
      DEF BootInv, LeafInv, ThreadOn, Before, threadVars
    <2>3. DownOn(l)'
      BY <1>1, <1>4, <2>1 DEF BootInv, LeafInv, DownOn, Informed
    <2>4. FinalOn(l)'
      BY <1>4 DEF FinalOn
    <2>5. UpOn(l)'
      BY <1>1, <1>2, <1>4, <2>1 DEF BootInv, LeafInv, UpOn, threadVars, Before
    <2>6. TableOn(l)'
      BY <1>1, <1>4, <1>7, <2>1 DEF BootInv, LeafInv, TableOn, Before
    <2> QED
      BY <2>2, <2>3, <2>4, <2>5, <2>6 DEF LeafInv
  <1>9. "done" \in PhaseStates \ (RootStates \cup {"start", "connect"})
    BY DEF PhaseStates, Ended, RootStates
  <1> QED
    BY <1>1, <1>2, <1>3, <1>5, <1>6, <1>7, <1>8, <1>9, LeafMoves

-----------------------------------------------------------------------------
(* The threads of the root *)

LEMMA ThreadOnly ==
    ASSUME Election, BootInv, NEW l \in Hosts, thread[l] # "none"
    PROVE  l \in Leaves /\ rootIp[l] = R
  <1>1. l \in Leaves
    BY HostKinds DEF BootInv, Roles
  <1>2. pc[l] # "start"
    BY <1>1 DEF BootInv, LeafInv, ThreadOn, Roles
  <1> QED
    BY <1>1, <1>2 DEF BootInv, Roles

\* A step of the thread of l keeps the invariant if it keeps what is owed
\* about l: no thread runs once they are joined.
LEMMA ThreadMoves ==
    ASSUME Election, BootInv, NEW l \in Leaves,
           thread[l] \notin {"none", "exit"},
           NEW state \in ThreadStates \ {"none"},
           thread' = [thread EXCEPT ![l] = state],
           UNCHANGED <<pc, rootIp, connected, rootVars, rules, netToLeaf,
                       toRoot, faults>>,
           rootBuf' \in [Hosts -> Seq(Piece)],
           \A m \in Hosts \ {l} : rootBuf'[m] = rootBuf[m],
           all_hosts' \in [Hosts -> Tables],
           \A m \in Leaves : all_hosts'[m] = all_hosts[m],
           \A m \in Leaves \ {l} : m \in Stored(R)' => m \in Stored(R),
           \A k \in DOMAIN all_hosts'[R] : all_hosts'[R][k] = k,
           Cardinality(Stored(R)' \ {R}) \in Nat,
           responses_received' =
              [h \in Hosts |-> IF h = R THEN Cardinality(Stored(R)' \ {R}) ELSE 0],
           state \in {"payload", "store", "exit"} => pc[l] \notin Before,
           UpOn(l)'
    PROVE  BootInv'
  <1> USE HostKinds
  <1>1. thread'[l] = state /\ \A m \in Hosts \ {l} : thread'[m] = thread[m]
    BY DEF BootInv, Shapes
  <1>2. ~Joint
    BY DEF Joint
  <1>3. Shapes'
    <2>1. responses_received' \in [Hosts -> Nat]
      OBVIOUS
    <2> QED
      BY <1>1, <2>1 DEF BootInv, Shapes, rootVars, netToLeaf
  <1>4. SameRoot
    BY DEF SameRoot, rootVars
  <1>5. Roles'
    BY <1>1 DEF BootInv, Roles, rootVars
  <1>6. Phases'
    BY <1>4, PhasesFrame DEF BootInv
  <1>7. RootTable'
    <2>1. Down(R)' = 0 /\ Up(R)' = 0
      BY DEF BootInv, RootTable, Down, Up, netToLeaf
    <2> QED
      BY <1>2, <2>1 DEF BootInv, RootTable
  <1>8. LeafInv(l)'
    <2>1. Down(l)' = Down(l) /\ Visited(l)' = Visited(l)
      BY DEF Down, Visited, netToLeaf, rootVars
    <2>2. ThreadOn(l)'
      BY <1>1, <2>1 DEF BootInv, LeafInv, ThreadOn
    <2>3. DownOn(l)'
      BY <2>1 DEF BootInv, LeafInv, DownOn
    <2>4. FinalOn(l)'
      BY DEF BootInv, LeafInv, FinalOn, Final, rootVars, netToLeaf
    <2>5. TableOn(l)'
      BY <1>2, <2>1 DEF BootInv, LeafInv, TableOn, Informed
    <2> QED
      BY <2>2, <2>3, <2>4, <2>5 DEF LeafInv
  <1>9. ASSUME NEW m \in Leaves, m # l PROVE LeafInv(m)'
    <2>1. SameAt(m)
      BY <1>1, <1>9 DEF SameAt, netToLeaf
    <2> QED
      BY <1>2, <1>4, <1>9, <2>1, LeafFrame DEF BootInv
  <1> QED
    BY <1>3, <1>5, <1>6, <1>7, <1>8, <1>9 DEF BootInv

\* A thread that reads or ends leaves the table alone.
LEMMA ThreadReads ==
    ASSUME Election, BootInv, NEW l \in Leaves, pc[l] \notin Before,
           thread[l] \notin {"none", "exit"},
           NEW state \in {"payload", "store", "exit"},
           thread' = [thread EXCEPT ![l] = state],
           UNCHANGED <<pc, rootIp, connected, rootVars, responses_received,
                       all_hosts, rules, netToLeaf, toRoot, faults>>,
           rootBuf' \in [Hosts -> Seq(Piece)],
           \A m \in Hosts \ {l} : rootBuf'[m] = rootBuf[m],
           state = "payload" => Up(l)' <= PayloadLen,
           state = "store" => Up(l)' = 0
    PROVE  BootInv'
  <1> USE HostKinds
  <1>1. Stored(R)' = Stored(R) /\ thread'[l] = state
    BY DEF BootInv, Shapes, Stored
  <1>2. l \notin Stored(R)
    BY DEF BootInv, LeafInv, UpOn
  <1>3. UpOn(l)'
    BY <1>1, <1>2 DEF UpOn
  <1>4. /\ \A k \in DOMAIN all_hosts'[R] : all_hosts'[R][k] = k
        /\ all_hosts' \in [Hosts -> Tables]
        /\ responses_received' =
              [h \in Hosts |-> IF h = R THEN Cardinality(Stored(R)' \ {R}) ELSE 0]
    BY <1>1 DEF BootInv, RootTable, Shapes
  <1>5. Cardinality(Stored(R)' \ {R}) \in Nat
    <2>1. responses_received'[R] \in Nat
      BY DEF BootInv, Shapes
    <2>2. responses_received'[R] = Cardinality(Stored(R)' \ {R})
      BY <1>4
    <2> QED
      BY <2>1, <2>2
  <1>6. state \in ThreadStates \ {"none"}
    BY DEF ThreadStates
  <1> QED
    BY <1>1, <1>3, <1>4, <1>5, <1>6, ThreadMoves

LEMMA ThreadHeaderKeeps ==
    ASSUME Election, BootInv, NEW l \in Hosts, ThreadHeader(l)
    PROVE  BootInv'
  <1>1. l \in Leaves /\ thread[l] = "header"
    BY ThreadOnly DEF ThreadHeader
  <1>2. /\ rootBuf[l] # <<>> /\ rootBuf' = [rootBuf EXCEPT ![l] = Tail(@)]
        /\ UNCHANGED <<pc, rootIp, connected, rootVars, responses_received,
                       all_hosts, rules, netToLeaf, toRoot, faults>>
    BY DEF ThreadHeader
  <1>3. PICK state \in {"payload", "exit"} : thread' = [thread EXCEPT ![l] = state]
    BY DEF ThreadHeader
  <1>4. /\ rootBuf' \in [Hosts -> Seq(Piece)] /\ rootBuf'[l] = Tail(rootBuf[l])
        /\ \A m \in Hosts \ {l} : rootBuf'[m] = rootBuf[m]
    BY <1>2, BufferTypes, Taken DEF BootInv, Shapes
  <1>5. Up(l)' = Up(l) - 1 /\ Up(l) >= 1
    <2>1. /\ Len(rootBuf[l]) \in Nat \ {0}
          /\ Len(rootBuf'[l]) = Len(rootBuf[l]) - 1
      BY <1>2, <1>4, BufferTypes, Taken DEF BootInv
    <2> QED
      BY <1>2, <2>1, UpDrops DEF BootInv
  <1>6. pc[l] \notin Before /\ Up(l)' <= PayloadLen
    <2>1. /\ Up(l) <= PayloadLen + 1 /\ Up(l) \in Nat
          /\ pc[l] \in Before => Up(l) = 0
      BY <1>1, BufferTypes DEF BootInv, LeafInv, UpOn
    <2> QED
      BY <1>5, <2>1, Size
  <1> QED
    BY <1>1, <1>2, <1>3, <1>4, <1>6, ThreadReads

\* The payload of an answer, read whole or not.
LEMMA ThreadPayloadKeeps ==
    ASSUME Election, BootInv, NEW l \in Hosts, ThreadPayload(l)
    PROVE  BootInv'
  <1> DEFINE n == RecvSize(rootBuf[l])
  <1>1. l \in Leaves /\ thread[l] = "payload"
    BY ThreadOnly DEF ThreadPayload
  <1>2. /\ rootBuf[l] # <<>> /\ rootBuf' = [rootBuf EXCEPT ![l] = Rest(@, n)]
        /\ UNCHANGED <<pc, rootIp, connected, rootVars, responses_received,
                       all_hosts, rules, netToLeaf, toRoot, faults>>
    BY DEF ThreadPayload
  <1>3. PICK state \in {"store", "exit"} :
           /\ thread' = [thread EXCEPT ![l] = state]
           /\ state = "store" => n = PayloadLen
    BY DEF ThreadPayload, FullRead
  <1>4. /\ Rest(rootBuf[l], n) \in Seq(Piece) /\ n \in 1 .. PayloadLen
        /\ n <= Len(rootBuf[l])
        /\ Len(Rest(rootBuf[l], n)) = Len(rootBuf[l]) - n
    BY <1>2, BufferTypes, Received DEF BootInv
  <1> HIDE DEF n
  <1>5. /\ rootBuf' \in [Hosts -> Seq(Piece)]
        /\ rootBuf'[l] = Rest(rootBuf[l], n)
        /\ \A m \in Hosts \ {l} : rootBuf'[m] = rootBuf[m]
    BY <1>2, <1>4 DEF BootInv, Shapes
  <1>6. Up(l) <= PayloadLen /\ Up(l) \in Nat
    BY <1>1, BufferTypes DEF BootInv, LeafInv, UpOn
  <1>7. pc[l] \notin Before
    BY <1>1 DEF BootInv, LeafInv, ThreadOn
  <1>8. state = "store" => Up(l)' = 0
    <2>1. n \in Nat
      BY <1>4, Size
    <2>2. Up(l)' = Up(l) - n
      BY <1>2, <1>4, <1>5, <2>1, UpDrops DEF BootInv
    <2>3. n <= Up(l)
      <3>1. PICK a \in Nat, b \in Nat : a = Len(rootBuf[l]) /\ b = Len(toRoot[l])
        BY BufferTypes DEF BootInv
      <3>2. Up(l) = a + b
        BY <3>1 DEF Up
      <3>3. n <= a
        BY <1>4, <3>1
      <3>4. n <= a + b
        BY <2>1, <3>3
      <3> QED
        BY <3>2, <3>4
    <2> QED
      BY <1>3, <1>6, <2>1, <2>2, <2>3, Size
  <1> QED
    BY <1>1, <1>2, <1>3, <1>5, <1>7, <1>8, ThreadReads

LEMMA ThreadEofKeeps ==
    ASSUME Election, BootInv, NEW l \in Hosts, ThreadEof(l)
    PROVE  BootInv'
  <1>1. l \in Leaves /\ thread[l] \in {"header", "payload"}
    BY ThreadOnly DEF ThreadEof
  <1>2. /\ thread' = [thread EXCEPT ![l] = "exit"]
        /\ UNCHANGED <<pc, rootIp, connected, rootVars, responses_received,
                       all_hosts, rules, netToLeaf, netToRoot, faults>>
    BY DEF ThreadEof
  <1>3. pc[l] \notin Before
    BY DEF ThreadEof, Ended, Before
  <1>4. rootBuf' = rootBuf /\ toRoot' = toRoot /\ rootBuf \in [Hosts -> Seq(Piece)]
    BY <1>2 DEF netToRoot, BootInv, Shapes
  <1> QED
    BY <1>1, <1>2, <1>3, <1>4, ThreadReads

\* Each key of the table of the root holds the host of that address.
LEMMA RootKeys ==
    ASSUME RootTable
    PROVE  Stored(R) = DOMAIN all_hosts[R]
  BY DEF RootTable, Stored

LEMMA ThreadStoreKeeps ==
    ASSUME Election, BootInv, NEW l \in Hosts, ThreadStore(l)
    PROVE  BootInv'
  <1> USE HostKinds
  <1>1. l \in Leaves /\ thread[l] = "store" /\ rootIp[l] = R
    BY ThreadOnly DEF ThreadStore
  <1>2. /\ all_hosts' = [all_hosts EXCEPT ![R] = Put(@, l, l)]
        /\ responses_received' = [responses_received EXCEPT ![R] = @ + 1]
        /\ thread' = [thread EXCEPT ![l] = "exit"]
        /\ UNCHANGED <<pc, rootIp, connected, rootVars, rules, netToLeaf,
                       netToRoot, faults>>
    BY <1>1 DEF ThreadStore
  <1>3. all_hosts[R] \in Tables
    BY DEF BootInv, Shapes
  <1>4. /\ all_hosts'[R] = Put(all_hosts[R], l, l)
        /\ \A m \in Leaves : all_hosts'[m] = all_hosts[m]
    BY <1>2 DEF BootInv, Shapes
  <1>5. /\ DOMAIN all_hosts'[R] = DOMAIN all_hosts[R] \cup {l}
        /\ \A k \in DOMAIN all_hosts'[R] : all_hosts'[R][k] = k
    BY <1>4 DEF Put, BootInv, RootTable
  <1>6. Stored(R)' = Stored(R) \cup {l}
    BY <1>5, RootKeys DEF Stored, BootInv
  <1>7. all_hosts' \in [Hosts -> Tables]
    <2>1. DOMAIN all_hosts'[R] \in SUBSET Keys
      BY <1>1, <1>3, <1>5 DEF Tables, Keys
    <2>2. \A k \in DOMAIN all_hosts'[R] : all_hosts'[R][k] \in Hosts
      BY <1>3, <1>5, RootKeys DEF Tables, BootInv, RootTable
    <2>3. all_hosts'[R] \in [DOMAIN all_hosts'[R] -> Hosts]
      BY <1>4, <2>2 DEF Put
    <2>4. all_hosts'[R] \in Tables
      BY <2>1, <2>3 DEF Tables
    <2> QED
      BY <1>2, <1>4, <2>4 DEF BootInv, Shapes
  <1>8. l \notin Stored(R)
    BY <1>1 DEF BootInv, LeafInv, UpOn
  <1>9. /\ Cardinality(Stored(R)' \ {R}) = Cardinality(Stored(R) \ {R}) + 1
        /\ Cardinality(Stored(R) \ {R}) \in Nat
    <2>1. Stored(R)' \ {R} = (Stored(R) \ {R}) \cup {l}
      BY <1>1, <1>6
    <2>2. Stored(R) \subseteq Hosts
      BY <1>3 DEF Stored, Tables
    <2>3. IsFiniteSet(Stored(R) \ {R})
      <3>1. Stored(R) \ {R} \in SUBSET Hosts
        BY <2>2
      <3> QED
        BY <3>1, BootstrapAssumption, FS_Subset
    <2> QED
      BY <1>8, <2>1, <2>3, FS_AddElement, FS_CardinalityType
  <1>10. responses_received' =
            [h \in Hosts |-> IF h = R THEN Cardinality(Stored(R)' \ {R}) ELSE 0]
    BY <1>2, <1>9 DEF BootInv, RootTable
  <1>11. pc[l] \notin Before
    BY <1>1 DEF BootInv, LeafInv, ThreadOn
  <1>12. UpOn(l)'
    <2>1. Up(l)' = 0
      BY <1>1, <1>2 DEF BootInv, LeafInv, UpOn, Up, netToRoot
    <2>2. thread'[l] = "exit"
      BY <1>2 DEF BootInv, Shapes
    <2> QED
      BY <2>1, <2>2 DEF UpOn
  <1>13. rootBuf' = rootBuf /\ toRoot' = toRoot /\ rootBuf \in [Hosts -> Seq(Piece)]
    BY <1>2 DEF netToRoot, BootInv, Shapes
  <1>14. "exit" \in ThreadStates \ {"none"}
    BY DEF ThreadStates
  <1>15. /\ Cardinality(Stored(R)' \ {R}) \in Nat
         /\ \A m \in Leaves \ {l} : m \in Stored(R)' => m \in Stored(R)
    BY <1>6, <1>9
  <1> QED
    BY <1>1, <1>2, <1>4, <1>5, <1>7, <1>10, <1>11, <1>12, <1>13, <1>14, <1>15,
       ThreadMoves

-----------------------------------------------------------------------------
(* The network *)

LEMMA ArriveAtRootKeeps ==
    ASSUME Election, BootInv, NEW h \in Hosts, ArriveAtRoot(h)
    PROVE  BootInv'
  <1> USE HostKinds
  <1> DEFINE piece == Head(toRoot[h])
  <1>1. /\ toRoot[h] # <<>>
        /\ rootBuf' = [rootBuf EXCEPT ![h] = Append(@, piece)]
        /\ toRoot' = [toRoot EXCEPT ![h] = Tail(@)]
        /\ UNCHANGED <<pc, rootIp, connected, rootVars, threadVars, all_hosts,
                       rules, netToLeaf, faults>>
    BY DEF ArriveAtRoot
  <1>2. piece \in Piece /\ Tail(toRoot[h]) \in Seq(Piece)
    BY <1>1, BufferTypes, Taken DEF BootInv
  <1> HIDE DEF piece
  <1>3. Append(rootBuf[h], piece) \in Seq(Piece)
    BY <1>2, BufferTypes, Arrived DEF BootInv
  <1>4. /\ rootBuf' \in [Hosts -> Seq(Piece)] /\ toRoot' \in [Hosts -> Seq(Piece)]
        /\ rootBuf'[h] = Append(rootBuf[h], piece)
        /\ toRoot'[h] = Tail(toRoot[h])
        /\ \A m \in Hosts \ {h} : rootBuf'[m] = rootBuf[m] /\ toRoot'[m] = toRoot[m]
    BY <1>1, <1>2, <1>3 DEF BootInv, Shapes
  <1>5. Up(h)' = Up(h)
    <2>1. PICK a \in Nat : a = Len(rootBuf[h]) /\ Len(rootBuf'[h]) = a + 1
      BY <1>2, <1>4, BufferTypes, Arrived DEF BootInv
    <2>2. PICK b \in Nat \ {0} : b = Len(toRoot[h]) /\ Len(toRoot'[h]) = b - 1
      BY <1>1, <1>4, BufferTypes, Taken DEF BootInv
    <2>3. Up(h) = a + b /\ Up(h)' = (a + 1) + (b - 1)
      BY <2>1, <2>2 DEF Up
    <2>4. (a + 1) + (b - 1) = a + b
      OBVIOUS
    <2> QED
      BY <2>3, <2>4, Zenon
  <1>6. h \in Leaves
    <2>1. ASSUME h = R PROVE FALSE
      BY <1>1, <2>1, NothingOnTheWay DEF BootInv, RootTable
    <2> QED
      BY <2>1
  <1>7. Shapes'
    BY <1>1, <1>4 DEF BootInv, Shapes, rootVars, threadVars, netToLeaf
  <1>8. SameRoot /\ connected' = connected
    BY <1>1 DEF SameRoot, rootVars
  <1>9. Joint => Joint'
    BY <1>1, JointStays DEF Joint, rootVars, threadVars
  <1>10. Roles' /\ Phases'
    BY <1>1, <1>8, PhasesFrame DEF BootInv, Roles, rootVars, threadVars
  <1>11. RootTable'
    <2>1. Down(R)' = 0 /\ Up(R)' = 0 /\ Stored(R)' = Stored(R)
      <3>1. /\ leafBuf'[R] = leafBuf[R] /\ toLeaf'[R] = toLeaf[R]
            /\ rootBuf'[R] = rootBuf[R] /\ toRoot'[R] = toRoot[R]
        BY <1>1, <1>4, <1>6 DEF netToLeaf
      <3>2. Down(R)' = Down(R) /\ Up(R)' = Up(R)
        BY <3>1 DEF Down, Up
      <3> QED
        BY <1>1, <3>2 DEF BootInv, RootTable, Stored
    <2> QED
      BY <1>1, <1>9, <2>1 DEF BootInv, RootTable, threadVars
  <1>12. ASSUME NEW m \in Leaves, m # h PROVE LeafInv(m)'
    <2>1. SameAt(m)
      BY <1>1, <1>4, <1>12 DEF SameAt, threadVars, netToLeaf
    <2> QED
      BY <1>1, <1>8, <1>9, <2>1, LeafFrame DEF BootInv
  <1>13. LeafInv(h)'
    <2>1. /\ Down(h)' = Down(h) /\ Visited(h)' = Visited(h)
          /\ Stored(h)' = Stored(h) /\ Stored(R)' = Stored(R)
      BY <1>1 DEF Down, Visited, Stored, netToLeaf, rootVars
    <2>2. ThreadOn(h)' /\ DownOn(h)'
      BY <1>1, <1>6, <2>1 DEF BootInv, LeafInv, ThreadOn, DownOn, threadVars
    <2>3. FinalOn(h)'
      BY <1>1, <1>6 DEF BootInv, LeafInv, FinalOn, Final, netToLeaf, rootVars
    <2>4. UpOn(h)'
      BY <1>1, <1>5, <1>6, <2>1 DEF BootInv, LeafInv, UpOn, threadVars
    <2>5. TableOn(h)'
      BY <1>1, <1>6, <1>9, <2>1 DEF BootInv, LeafInv, TableOn
    <2> QED
      BY <2>2, <2>3, <2>4, <2>5 DEF LeafInv
  <1> QED
    BY <1>7, <1>10, <1>11, <1>12, <1>13 DEF BootInv

LEMMA ArriveAtLeafKeeps ==
    ASSUME Election, BootInv, NEW h \in Hosts, ArriveAtLeaf(h)
    PROVE  BootInv'
  <1> USE HostKinds
  <1> DEFINE piece == Head(toLeaf[h])
  <1>1. /\ toLeaf[h] # <<>>
        /\ leafBuf' = [leafBuf EXCEPT ![h] = Append(@, piece)]
        /\ toLeaf' = [toLeaf EXCEPT ![h] = Tail(@)]
        /\ UNCHANGED <<pc, rootIp, connected, rootVars, threadVars, all_hosts,
                       rules, netToRoot, faults>>
    BY DEF ArriveAtLeaf
  <1>2. /\ piece \in Piece /\ Tail(toLeaf[h]) \in Seq(Piece)
        /\ piece = toLeaf[h][1] /\ 1 \in 1 .. Len(toLeaf[h])
    BY <1>1, BufferTypes, Taken DEF BootInv
  <1> HIDE DEF piece
  <1>3. Append(leafBuf[h], piece) \in Seq(Piece)
    BY <1>2, BufferTypes, Arrived DEF BootInv
  <1>4. /\ leafBuf' \in [Hosts -> Seq(Piece)] /\ toLeaf' \in [Hosts -> Seq(Piece)]
        /\ leafBuf'[h] = Append(leafBuf[h], piece)
        /\ toLeaf'[h] = Tail(toLeaf[h])
        /\ \A m \in Hosts \ {h} : leafBuf'[m] = leafBuf[m] /\ toLeaf'[m] = toLeaf[m]
    BY <1>1, <1>2, <1>3 DEF BootInv, Shapes
  <1>5. PICK a \in Nat : a = Len(leafBuf[h]) /\ Len(leafBuf'[h]) = a + 1
    BY <1>2, <1>4, BufferTypes, Arrived DEF BootInv
  <1>6. PICK b \in Nat \ {0} : b = Len(toLeaf[h]) /\ Len(toLeaf'[h]) = b - 1
    BY <1>1, <1>4, BufferTypes, Taken DEF BootInv
  <1>7. Down(h)' = Down(h)
    <2>1. Down(h) = a + b /\ Down(h)' = (a + 1) + (b - 1)
      BY <1>5, <1>6 DEF Down
    <2>2. (a + 1) + (b - 1) = a + b
      OBVIOUS
    <2> QED
      BY <2>1, <2>2, Zenon
  <1>8. h \in Leaves
    <2>1. ASSUME h = R PROVE FALSE
      BY <1>1, <2>1, NothingOnTheWay DEF BootInv, RootTable
    <2> QED
      BY <2>1
  <1>9. Shapes'
    BY <1>1, <1>4 DEF BootInv, Shapes, rootVars, threadVars, netToRoot
  <1>10. SameRoot /\ connected' = connected
    BY <1>1 DEF SameRoot, rootVars
  <1>11. Joint => Joint'
    BY <1>1, JointStays DEF Joint, rootVars, threadVars
  <1>12. Roles' /\ Phases'
    BY <1>1, <1>10, PhasesFrame DEF BootInv, Roles, rootVars, threadVars
  <1>13. RootTable'
    <2>1. Down(R)' = 0 /\ Up(R)' = 0 /\ Stored(R)' = Stored(R)
      <3>1. /\ leafBuf'[R] = leafBuf[R] /\ toLeaf'[R] = toLeaf[R]
            /\ rootBuf'[R] = rootBuf[R] /\ toRoot'[R] = toRoot[R]
        BY <1>1, <1>4, <1>8 DEF netToRoot
      <3>2. Down(R)' = Down(R) /\ Up(R)' = Up(R)
        BY <3>1 DEF Down, Up
      <3> QED
        BY <1>1, <3>2 DEF BootInv, RootTable, Stored
    <2> QED
      BY <1>1, <1>11, <2>1 DEF BootInv, RootTable, threadVars
  <1>14. ASSUME NEW m \in Leaves, m # h PROVE LeafInv(m)'
    <2>1. SameAt(m)
      BY <1>1, <1>4, <1>14 DEF SameAt, threadVars, netToRoot
    <2> QED
      BY <1>1, <1>10, <1>11, <2>1, LeafFrame DEF BootInv
  <1>15. LeafInv(h)'
    <2>1. /\ Up(h)' = Up(h) /\ Visited(h)' = Visited(h)
          /\ Stored(h)' = Stored(h) /\ Stored(R)' = Stored(R)
      BY <1>1 DEF Up, Visited, Stored, netToRoot, rootVars
    <2>2. ThreadOn(h)' /\ DownOn(h)'
      BY <1>1, <1>7, <1>8, <2>1 DEF BootInv, LeafInv, ThreadOn, DownOn, threadVars
    <2>3. FinalOn(h)'
      <3>1. SUFFICES ASSUME pc[h] \in {"waitComposite", "readComposite"}
                     PROVE  /\ \A i \in 1 .. Len(leafBuf'[h]) : Final(leafBuf'[h][i])
                            /\ \A i \in 1 .. Len(toLeaf'[h]) : Final(toLeaf'[h][i])
        BY <1>1 DEF FinalOn, Final, rootVars
      <3>2. /\ \A i \in 1 .. a : Final(leafBuf[h][i])
            /\ \A i \in 1 .. b : Final(toLeaf[h][i])
        BY <1>5, <1>6, <1>8, <3>1 DEF BootInv, LeafInv, FinalOn
      <3>3. /\ \A i \in 1 .. a : leafBuf'[h][i] = leafBuf[h][i]
            /\ leafBuf'[h][a + 1] = toLeaf[h][1]
        BY <1>2, <1>4, <1>5, BufferTypes, Arrived DEF BootInv
      <3>4. \A i \in 1 .. b - 1 : toLeaf'[h][i] = toLeaf[h][i + 1]
        BY <1>1, <1>4, <1>6, BufferTypes, Taken DEF BootInv
      <3>5. \A i \in 1 .. a + 1 : Final(leafBuf'[h][i])
        <4>1. Final(toLeaf[h][1])
          BY <1>2, <1>6, <3>2
        <4>2. \A i \in 1 .. a + 1 : i \in 1 .. a \/ i = a + 1
          OBVIOUS
        <4> QED
          BY <3>2, <3>3, <4>1, <4>2
      <3>6. \A i \in 1 .. b - 1 : Final(toLeaf'[h][i])
        <4>1. \A i \in 1 .. b - 1 : i + 1 \in 1 .. b
          OBVIOUS
        <4> QED
          BY <3>2, <3>4, <4>1
      <3> QED
        BY <1>5, <1>6, <3>5, <3>6
    <2>4. UpOn(h)'
      BY <1>1, <1>8, <2>1 DEF BootInv, LeafInv, UpOn, threadVars
    <2>5. TableOn(h)'
      BY <1>1, <1>7, <1>8, <1>11, <2>1 DEF BootInv, LeafInv, TableOn
    <2> QED
      BY <2>2, <2>3, <2>4, <2>5 DEF LeafInv
  <1> QED
    BY <1>9, <1>12, <1>13, <1>14, <1>15 DEF BootInv

-----------------------------------------------------------------------------
(* The root *)

LEMMA RootOnly ==
    ASSUME Election, BootInv, NEW h \in Hosts, pc[h] \in RootStates
    PROVE  h = R
  BY HostKinds DEF BootInv, Roles

\* The root takes a step, and the leaves stay what they are.
LEMMA RolesFrame ==
    ASSUME Election, Shapes, Roles, pc[R] # "start",
           NEW phase \in RootStates \cup Ended, pc' = [pc EXCEPT ![R] = phase],
           UNCHANGED <<rootIp, connected>>, thread'[R] = thread[R],
           \A m \in Leaves : connArr'[m] = connArr[m] /\ next'[m] = next[m]
    PROVE  /\ Roles' /\ pc' \in [Hosts -> PhaseStates] /\ pc'[R] = phase
           /\ \A m \in Leaves : pc'[m] = pc[m]
  <1> USE HostKinds
  <1>1. /\ pc' \in [Hosts -> PhaseStates] /\ pc'[R] = phase
        /\ \A m \in Leaves : pc'[m] = pc[m]
    BY DEF Shapes, PhaseStates
  <1>2. phase \notin LeafStates /\ phase # "start"
    BY DEF RootStates, Ended, LeafStates
  <1>3. \A h \in Hosts : pc'[h] = "start" <=> pc[h] = "start"
    BY <1>1, <1>2
  <1>4. \A h \in Hosts : rootIp'[h] = IF pc'[h] = "start" THEN h ELSE R
    BY <1>3 DEF Roles
  <1>5. \A m \in Leaves : /\ pc'[m] \notin RootStates
                          /\ connArr'[m] = <<>> /\ next'[m] = 1
    BY <1>1 DEF Roles
  <1>6. \A m \in connected' : pc'[m] \notin {"start", "connect"}
    BY <1>1 DEF Roles, Shapes
  <1> QED
    BY <1>1, <1>2, <1>4, <1>5, <1>6 DEF Roles

\* What a leaf that nothing happened to owes after a step of the root.
LEMMA PhaseFrame ==
    ASSUME NEW m \in Leaves, LeafInv(m), SameAt(m), Joint => Joint',
           composite'[R] = composite[R],
           \/ all_hosts'[R] = all_hosts[R]
           \/ ~Joint /\ (m \in Stored(R)' => m \in Stored(R)),
           ThreadOn(m)', DownOn(m)'
    PROVE  LeafInv(m)'
  <1>1. Down(m)' = Down(m) /\ Up(m)' = Up(m) /\ Stored(m)' = Stored(m)
    BY DEF SameAt, Down, Up, Stored
  <1>2. m \in Stored(R)' => m \in Stored(R)
    BY DEF Stored
  <1>3. ~Joint \/ Stored(R)' = Stored(R)
    BY DEF Stored
  <1>4. FinalOn(m)'
    BY DEF LeafInv, FinalOn, Final, SameAt
  <1>5. UpOn(m)'
    BY <1>1, <1>2 DEF LeafInv, UpOn, SameAt
  <1>6. TableOn(m)'
    BY <1>1, <1>3 DEF LeafInv, TableOn, SameAt, Informed
  <1> QED
    BY <1>4, <1>5, <1>6 DEF LeafInv

LEMMA ElectKeeps ==
    ASSUME Election, BootInv, NEW h \in Hosts, Elect(h)
    PROVE  BootInv'
  <1> USE HostKinds
  <1>1. /\ pc[h] = "start" /\ rootIp' = [rootIp EXCEPT ![h] = R]
        /\ pc' = [pc EXCEPT ![h] = IF R = h THEN "listen" ELSE "connect"]
        /\ UNCHANGED <<connected, rootVars, threadVars, all_hosts, rules,
                       netToLeaf, netToRoot, faults>>
    BY DEF Elect, Election
  <1>2. /\ pc'[h] = IF R = h THEN "listen" ELSE "connect"
        /\ \A m \in Hosts \ {h} : pc'[m] = pc[m]
        /\ pc' \in [Hosts -> PhaseStates]
    BY <1>1 DEF BootInv, Shapes, PhaseStates, RootStates, LeafStates
  <1>3. Shapes'
    BY <1>1, <1>2
    DEF BootInv, Shapes, rootVars, threadVars, netToLeaf, netToRoot
  <1>4. /\ Joint => Joint'
        /\ pc'[R] = pc[R] \/ (pc[R] = "start" /\ pc'[R] = "listen")
    <2>1. pc'[R] = pc[R] \/ (pc[R] = "start" /\ pc'[R] = "listen")
      BY <1>1, <1>2
    <2>2. Joint => pc'[R] \in {"send", "program", "close"} \cup Ended
      BY <2>1 DEF Joint, Ended
    <2> QED
      BY <1>1, <2>1, <2>2, JointStays DEF rootVars, threadVars
  <1>5. Roles'
    <2>1. \A g \in Hosts : rootIp'[g] = IF pc'[g] = "start" THEN g ELSE R
      BY <1>1, <1>2 DEF BootInv, Roles, Shapes
    <2>2. \A m \in Leaves : /\ pc'[m] \notin RootStates
                            /\ connArr'[m] = <<>> /\ next'[m] = 1
      BY <1>1, <1>2 DEF BootInv, Roles, RootStates, rootVars
    <2>3. pc'[R] \notin LeafStates /\ thread'[R] = "none"
      BY <1>1, <1>2, <1>4 DEF BootInv, Roles, LeafStates, threadVars
    <2>4. \A m \in connected' : pc'[m] \notin {"start", "connect"}
      BY <1>1, <1>2 DEF BootInv, Roles, Shapes
    <2> QED
      BY <2>1, <2>2, <2>3, <2>4 DEF Roles
  <1>6. Phases'
    <2>1. connArr' = connArr /\ next' = next /\ connected' = connected
      BY <1>1 DEF rootVars
    <2> QED
      BY <1>4, <2>1 DEF BootInv, Phases, Accepted, RootStates
  <1>7. RootTable'
    <2>1. Down(R)' = Down(R) /\ Up(R)' = Up(R) /\ Stored(R)' = Stored(R)
      BY <1>1 DEF Down, Up, Stored, netToLeaf, netToRoot
    <2> QED
      BY <1>1, <1>4, <2>1 DEF BootInv, RootTable, threadVars
  <1>8. ASSUME NEW m \in Leaves PROVE LeafInv(m)'
    <2>1. pc'[m] = pc[m] \/ (pc[m] = "start" /\ pc'[m] = "connect")
      BY <1>1, <1>2, <1>8
    <2>2. /\ Down(m)' = Down(m) /\ Up(m)' = Up(m) /\ Visited(m)' = Visited(m)
          /\ Stored(m)' = Stored(m) /\ Stored(R)' = Stored(R)
      BY <1>1 DEF Down, Up, Stored, Visited, netToLeaf, netToRoot, rootVars
    <2>3. ThreadOn(m)'
      BY <1>1, <1>4, <1>8, <2>1, <2>2
      DEF BootInv, LeafInv, ThreadOn, threadVars, Before
    <2>4. DownOn(m)'
      BY <1>4, <1>8, <2>1, <2>2 DEF BootInv, LeafInv, DownOn, Informed
    <2>5. FinalOn(m)'
      BY <1>1, <1>8, <2>1 DEF BootInv, LeafInv, FinalOn, Final, netToLeaf, rootVars
    <2>6. UpOn(m)'
      BY <1>1, <1>8, <2>1, <2>2 DEF BootInv, LeafInv, UpOn, threadVars, Before
    <2>7. TableOn(m)'
      BY <1>1, <1>4, <1>8, <2>1, <2>2 DEF BootInv, LeafInv, TableOn, Before, Informed
    <2> QED
      BY <2>3, <2>4, <2>5, <2>6, <2>7 DEF LeafInv
  <1> QED
    BY <1>3, <1>5, <1>6, <1>7, <1>8 DEF BootInv

LEMMA RootListenKeeps ==
    ASSUME Election, BootInv, NEW h \in Hosts, RootListen(h)
    PROVE  BootInv'
  <1> USE HostKinds
  <1>1. h = R /\ pc[R] = "listen"
    BY RootOnly DEF RootListen, RootStates
  <1>2. PICK phase \in {"join", "accept"} :
           /\ pc' = [pc EXCEPT ![R] = phase]
           /\ phase = IF Cardinality(Leaves) = 0 THEN "join" ELSE "accept"
    BY <1>1 DEF RootListen, Election
  <1>3. /\ all_hosts' = [all_hosts EXCEPT ![R] = Put(@, R, R)]
        /\ UNCHANGED <<rootIp, connected, rootVars, threadVars, rules,
                       netToLeaf, netToRoot, faults>>
    BY <1>1 DEF RootListen
  <1>4. /\ Roles' /\ pc' \in [Hosts -> PhaseStates] /\ pc'[R] = phase
        /\ \A m \in Leaves : pc'[m] = pc[m]
    <2>1. phase \in RootStates \cup Ended
      BY DEF RootStates
    <2> QED
      BY <1>1, <1>2, <1>3, <2>1, RolesFrame DEF BootInv, rootVars, threadVars
  <1>5. /\ all_hosts'[R] = Put(all_hosts[R], R, R)
        /\ \A m \in Leaves : all_hosts'[m] = all_hosts[m]
    BY <1>3 DEF BootInv, Shapes
  <1>6. /\ DOMAIN all_hosts'[R] = DOMAIN all_hosts[R] \cup {R}
        /\ \A k \in DOMAIN all_hosts'[R] : all_hosts'[R][k] = k
    BY <1>5 DEF Put, BootInv, RootTable
  <1>7. Stored(R)' = Stored(R) \cup {R}
    BY <1>6, RootKeys DEF Stored, BootInv
  <1>8. all_hosts' \in [Hosts -> Tables]
    <2>1. all_hosts[R] \in Tables
      BY DEF BootInv, Shapes
    <2>2. DOMAIN all_hosts'[R] \in SUBSET Keys
      BY <1>6, <2>1 DEF Tables, Keys
    <2>3. \A k \in DOMAIN all_hosts'[R] : all_hosts'[R][k] \in Hosts
      BY <1>6, <2>1, RootKeys DEF Tables, BootInv, RootTable
    <2>4. all_hosts'[R] \in [DOMAIN all_hosts'[R] -> Hosts]
      BY <1>5, <2>3 DEF Put
    <2>5. all_hosts'[R] \in Tables
      BY <2>2, <2>4 DEF Tables
    <2> QED
      BY <1>3, <1>5, <2>5 DEF BootInv, Shapes
  <1>9. Shapes'
    BY <1>3, <1>4, <1>8
    DEF BootInv, Shapes, rootVars, threadVars, netToLeaf, netToRoot
  <1>10. ~Joint
    BY <1>1 DEF Joint, Ended
  <1>11. connArr' = connArr /\ next' = next /\ connected' = connected /\ composite' = composite
    BY <1>3 DEF rootVars
  <1>12. Phases'
    <2>1. Len(connArr[R]) = 0 /\ Cardinality(Leaves) \in Nat /\ next[R] = 1
      BY <1>1 DEF BootInv, Phases, Election
    <2> QED
      BY <1>1, <1>2, <1>4, <1>11, <2>1 DEF BootInv, Phases, Accepted, RootStates
  <1>13. RootTable'
    <2>1. Down(R)' = Down(R) /\ Up(R)' = Up(R)
      BY <1>3 DEF Down, Up, netToLeaf, netToRoot
    <2>2. Stored(R)' \ {R} = Stored(R) \ {R}
      BY <1>7
    <2> QED
      BY <1>1, <1>3, <1>4, <1>6, <1>10, <2>1, <2>2 DEF BootInv, RootTable, threadVars
  <1>14. ASSUME NEW m \in Leaves PROVE LeafInv(m)'
    <2>1. pc'[R] = "accept"
      BY <1>2, <1>4, <1>14, LeavesFinite
    <2>2. SameAt(m)
      BY <1>3, <1>4, <1>5, <1>14 DEF SameAt, threadVars, netToLeaf, netToRoot
    <2>3. Down(m)' = Down(m)
      BY <2>2 DEF Down, SameAt
    <2>4. ThreadOn(m)' /\ DownOn(m)'
      BY <1>1, <1>11, <1>14, <2>1, <2>2, <2>3
      DEF BootInv, LeafInv, ThreadOn, DownOn, SameAt
    <2>5. m \in Stored(R)' => m \in Stored(R)
      BY <1>7, <1>14
    <2> QED
      BY <1>10, <1>11, <1>14, <2>2, <2>4, <2>5, PhaseFrame DEF BootInv
  <1> QED
    BY <1>4, <1>9, <1>12, <1>13, <1>14 DEF BootInv

LEMMA RootListenFailsKeeps ==
    ASSUME Election, BootInv, NEW h \in Hosts, RootListenFails(h)
    PROVE  BootInv'
  <1> USE HostKinds
  <1>1. h = R /\ pc[R] = "listen"
    BY RootOnly DEF RootListenFails, RootStates
  <1>2. /\ pc' = [pc EXCEPT ![R] = "failed"]
        /\ UNCHANGED <<rootIp, connected, rootVars, threadVars, all_hosts,
                       rules, netToLeaf, netToRoot>>
    BY <1>1 DEF RootListenFails
  <1>3. faults' \in 0 .. MaxFaults
    <2>1. faults \in 0 .. MaxFaults /\ MaxFaults \in Nat
      BY BootstrapAssumption DEF BootInv, Shapes
    <2> QED
      BY <2>1 DEF RootListenFails, InjectFault
  <1>4. /\ Roles' /\ pc' \in [Hosts -> PhaseStates] /\ pc'[R] = "failed"
        /\ \A m \in Leaves : pc'[m] = pc[m]
    BY <1>1, <1>2, RolesFrame DEF BootInv, Ended, rootVars, threadVars
  <1>5. Shapes'
    BY <1>2, <1>3, <1>4
    DEF BootInv, Shapes, rootVars, threadVars, netToLeaf, netToRoot
  <1>6. ~Joint
    BY <1>1 DEF Joint, Ended
  <1>7. connArr' = connArr /\ next' = next /\ connected' = connected /\ composite' = composite
    BY <1>2 DEF rootVars
  <1>8. Phases'
    BY <1>4, <1>7 DEF BootInv, Phases, Accepted, RootStates
  <1>9. RootTable'
    <2>1. Down(R)' = Down(R) /\ Up(R)' = Up(R) /\ Stored(R)' = Stored(R)
      BY <1>2 DEF Down, Up, Stored, netToLeaf, netToRoot
    <2> QED
      BY <1>2, <1>4, <1>6, <2>1 DEF BootInv, RootTable, threadVars
  <1>10. ASSUME NEW m \in Leaves PROVE LeafInv(m)'
    <2>1. SameAt(m)
      BY <1>2, <1>4, <1>10 DEF SameAt, threadVars, netToLeaf, netToRoot
    <2>2. Down(m)' = Down(m)
      BY <2>1 DEF Down, SameAt
    <2>3. ThreadOn(m)' /\ DownOn(m)'
      BY <1>1, <1>4, <1>7, <1>10, <2>1, <2>2
      DEF BootInv, LeafInv, ThreadOn, DownOn, SameAt
    <2> QED
      BY <1>2, <1>6, <1>7, <1>10, <2>1, <2>3, PhaseFrame DEF BootInv
  <1> QED
    BY <1>4, <1>5, <1>8, <1>9, <1>10 DEF BootInv

LEMMA RootAcceptKeeps ==
    ASSUME Election, BootInv, NEW h \in Hosts, RootAccept(h)
    PROVE  BootInv'
  <1> USE HostKinds
  <1>1. h = R /\ pc[R] = "accept"
    BY RootOnly DEF RootAccept, RootStates
  <1>2. PICK l \in connected \ Accepted(R) :
           connArr' = [connArr EXCEPT ![R] = Append(@, l)]
    BY <1>1 DEF RootAccept
  <1>3. UNCHANGED <<rootIp, connected, next, composite, threadVars, all_hosts,
                    rules, netToLeaf, netToRoot, faults>>
    BY DEF RootAccept
  <1>4. PICK n \in Nat : n = Len(connArr[R]) /\ n < Cardinality(Leaves)
    BY <1>1 DEF BootInv, Shapes, Phases
  <1>5. PICK phase \in {"request", "accept"} :
           /\ pc' = [pc EXCEPT ![R] = phase]
           /\ phase = IF n + 1 = Cardinality(Leaves) THEN "request" ELSE "accept"
    BY <1>1, <1>4 DEF RootAccept, Election, BootInv, Shapes
  <1>6. l \in Leaves /\ connArr[R] \in Seq(Leaves)
    BY <1>2 DEF BootInv, Shapes
  <1>7. /\ connArr'[R] = Append(connArr[R], l)
        /\ \A m \in Leaves : connArr'[m] = connArr[m]
        /\ connArr' \in [Hosts -> Seq(Leaves)]
    <2>1. Append(connArr[R], l) \in Seq(Leaves)
      BY <1>6
    <2>2. connArr \in [Hosts -> Seq(Leaves)]
      BY DEF BootInv, Shapes
    <2> QED
      BY <1>2, <2>1, <2>2
  <1>8. /\ Len(connArr'[R]) = n + 1 /\ connArr'[R][n + 1] = l
        /\ \A i \in 1 .. n : connArr'[R][i] = connArr[R][i]
        /\ DOMAIN connArr'[R] = 1 .. n + 1 /\ DOMAIN connArr[R] = 1 .. n
    BY <1>4, <1>6, <1>7
  <1>9. /\ Roles' /\ pc' \in [Hosts -> PhaseStates] /\ pc'[R] = phase
        /\ \A m \in Leaves : pc'[m] = pc[m]
    <2>1. phase \in RootStates \cup Ended
      BY DEF RootStates
    <2> QED
      BY <1>1, <1>3, <1>5, <1>7, <2>1, RolesFrame DEF BootInv, threadVars
  <1>10. Shapes'
    BY <1>3, <1>7, <1>9
    DEF BootInv, Shapes, threadVars, netToLeaf, netToRoot
  <1>11. ~Joint
    BY <1>1 DEF Joint, Ended
  <1>12. Phases'
    <2>1. \A i, j \in 1 .. n + 1 : connArr'[R][i] = connArr'[R][j] => i = j
      <3>1. \A i \in 1 .. n + 1 : i \in 1 .. n \/ i = n + 1
        OBVIOUS
      <3>2. \A i \in 1 .. n : connArr[R][i] # l
        BY <1>2, <1>8 DEF Accepted
      <3>3. \A i, j \in 1 .. n : connArr[R][i] = connArr[R][j] => i = j
        BY <1>4 DEF BootInv, Phases
      <3> QED
        BY <1>8, <3>1, <3>2, <3>3
    <2>2. Accepted(R)' \subseteq connected'
      <3>1. \A i \in 1 .. n + 1 : i \in 1 .. n \/ i = n + 1
        OBVIOUS
      <3>2. \A i \in 1 .. n : connArr[R][i] \in connected
        BY <1>8 DEF Accepted, BootInv, Phases
      <3>3. \A i \in 1 .. n + 1 : connArr'[R][i] \in connected
        BY <1>2, <1>8, <3>1, <3>2
      <3> QED
        BY <1>3, <1>8, <3>3 DEF Accepted
    <2>3. next'[R] = 1
      BY <1>1, <1>3 DEF BootInv, Phases
    <2>4. Cardinality(Leaves) \in Nat
      BY DEF Election
    <2>5. phase = "request" => Len(connArr'[R]) = Cardinality(Leaves) /\ next'[R] <= Cardinality(Leaves)
      BY <1>4, <1>5, <1>8, <2>3, <2>4
    <2>6. phase = "accept" => Len(connArr'[R]) < Cardinality(Leaves)
      BY <1>4, <1>5, <1>8, <2>4
    <2> QED
      BY <1>8, <1>9, <2>1, <2>2, <2>3, <2>5, <2>6 DEF Phases, RootStates
  <1>13. RootTable'
    <2>1. Down(R)' = Down(R) /\ Up(R)' = Up(R) /\ Stored(R)' = Stored(R)
      BY <1>3 DEF Down, Up, Stored, netToLeaf, netToRoot
    <2> QED
      BY <1>3, <1>9, <1>11, <2>1 DEF BootInv, RootTable, threadVars
  <1>14. ASSUME NEW m \in Leaves PROVE LeafInv(m)'
    <2>1. SameAt(m)
      BY <1>3, <1>9, <1>14 DEF SameAt, threadVars, netToLeaf, netToRoot
    <2>2. Down(m)' = Down(m)
      BY <2>1 DEF Down, SameAt
    <2>3. ThreadOn(m)'
      BY <1>1, <1>3, <1>9, <1>14, <2>1
      DEF BootInv, LeafInv, ThreadOn, SameAt
    <2>4. DownOn(m)'
      BY <1>1, <1>9, <1>14, <2>1, <2>2
      DEF BootInv, LeafInv, DownOn, SameAt, Informed
    <2> QED
      BY <1>3, <1>11, <1>14, <2>1, <2>3, <2>4, PhaseFrame DEF BootInv
  <1> QED
    BY <1>9, <1>10, <1>12, <1>13, <1>14 DEF BootInv

\* The loops over the connections.
LEMMA Advanced ==
    ASSUME Election, BootInv, pc[R] \in {"request", "spawn", "send"},
           NEW phase \in {"spawn", "join", "program"}, Advance(R, phase),
           UNCHANGED <<rootIp, connected, connArr>>, thread'[R] = thread[R]
    PROVE  /\ Leaf(R) \in Leaves /\ Leaf(R) \in connected /\ ~Visited(Leaf(R))
           /\ Roles' /\ Phases'
           /\ pc' \in [Hosts -> PhaseStates] /\ next' \in [Hosts -> Nat \ {0}]
           /\ \A m \in Leaves : pc'[m] = pc[m]
           /\ \/ /\ pc'[R] = pc[R]
                 /\ \A m \in Leaves : Visited(m)' <=> (Visited(m) \/ m = Leaf(R))
              \/ /\ pc'[R] = phase
                 /\ \A m \in Leaves : ~Visited(m)' /\ (Visited(m) \/ m = Leaf(R))
  <1> USE HostKinds
  <1>1. PICK n \in Nat : n = Cardinality(Leaves) /\ n = Len(connArr[R]) /\ n = TotalLNs(R)
    BY DEF Election, BootInv, Phases, RootStates
  <1>2. PICK k \in Nat \ {0} : k = next[R] /\ k <= n
    BY <1>1 DEF BootInv, Shapes, Phases
  <1>3. /\ connArr[R] \in Seq(Leaves) /\ DOMAIN connArr[R] = 1 .. n
        /\ \A i, j \in 1 .. n : connArr[R][i] = connArr[R][j] => i = j
    <2>1. connArr[R] \in Seq(Leaves)
      BY DEF BootInv, Shapes
    <2>2. DOMAIN connArr[R] = 1 .. n
      <3>1. DOMAIN connArr[R] = 1 .. Len(connArr[R])
        BY <2>1
      <3> QED
        BY <1>1, <3>1
    <2>3. \A i, j \in 1 .. n : connArr[R][i] = connArr[R][j] => i = j
      BY <1>1 DEF BootInv, Phases
    <2> QED
      BY <2>1, <2>2, <2>3
  <1>4. k \in 1 .. n /\ Leaf(R) = connArr[R][k]
    BY <1>2 DEF Leaf
  <1>5. Leaf(R) \in Leaves /\ Leaf(R) \in connected
    BY <1>1, <1>3, <1>4 DEF BootInv, Phases, Accepted
  <1>6. \A m \in Leaves : Visited(m) <=> \E i \in 1 .. k - 1 : connArr[R][i] = m
    BY <1>2 DEF Visited
  <1>7. ~Visited(Leaf(R))
    <2>1. \A i \in 1 .. k - 1 : i \in 1 .. n /\ i # k
      BY <1>2
    <2> QED
      BY <1>3, <1>4, <1>5, <1>6, <2>1
  <1>8. PICK q \in RootStates \cup Ended : pc' = [pc EXCEPT ![R] = q]
                   /\ q = IF k = n THEN phase ELSE pc[R]
    BY <1>1, <1>2 DEF Advance, IsLast, RootStates
  <1>9. /\ next'[R] = IF k = n THEN 1 ELSE k + 1
        /\ next' \in [Hosts -> Nat \ {0}]
        /\ \A m \in Leaves : next'[m] = next[m]
    <2>1. next' = [next EXCEPT ![R] = IF k = n THEN 1 ELSE k + 1]
      BY <1>1, <1>2 DEF Advance, IsLast
    <2>2. next \in [Hosts -> Nat \ {0}]
      BY DEF BootInv, Shapes
    <2>3. (IF k = n THEN 1 ELSE k + 1) \in Nat \ {0}
      BY <1>2
    <2> QED
      BY <2>1, <2>2, <2>3
  <1>10. /\ Roles' /\ pc' \in [Hosts -> PhaseStates] /\ pc'[R] = q
         /\ \A m \in Leaves : pc'[m] = pc[m]
    BY <1>8, <1>9, RolesFrame DEF BootInv
  <1>11. Phases'
    <2>1. next'[R] <= n
      BY <1>2, <1>9
    <2>2. (q \in {"spawn", "join", "program"} /\ next'[R] = 1) \/ q = pc[R]
      BY <1>8, <1>9
    <2>3. connArr' = connArr /\ connected' = connected
      OBVIOUS
    <2> QED
      BY <1>1, <1>10, <2>1, <2>2, <2>3 DEF BootInv, Phases, Accepted, RootStates
  <1>12. CASE k = n
    <2>1. pc'[R] = phase /\ next'[R] = 1
      BY <1>8, <1>9, <1>10, <1>12
    <2>2. \A m \in Leaves : ~Visited(m)'
      BY <2>1 DEF Visited
    <2>3. \A m \in Leaves : Visited(m) \/ m = Leaf(R)
      <3>1. \A i \in 1 .. n : i \in 1 .. k - 1 \/ i = k
        BY <1>2, <1>12
      <3>2. \A m \in Leaves : \E i \in 1 .. n : connArr[R][i] = m
        BY <1>1, <1>3, AllAccepted
      <3> QED
        BY <1>4, <1>6, <3>1, <3>2
    <2> QED
      BY <1>5, <1>7, <1>9, <1>10, <1>11, <2>1, <2>2, <2>3
  <1>13. CASE k # n
    <2>1. pc'[R] = pc[R] /\ next'[R] = k + 1
      BY <1>8, <1>9, <1>10, <1>13
    <2>2. \A m \in Leaves : Visited(m)' <=> \E i \in 1 .. k : connArr[R][i] = m
      <3>1. (k + 1) - 1 = k
        BY <1>2
      <3> QED
        BY <2>1, <3>1 DEF Visited
    <2>3. \A i \in 1 .. k : i \in 1 .. k - 1 \/ i = k
      BY <1>2
    <2>4. \A i \in 1 .. k - 1 : i \in 1 .. k
      BY <1>2
    <2>5. k \in 1 .. k
      BY <1>2
    <2>6. \A m \in Leaves : Visited(m)' <=> (Visited(m) \/ m = Leaf(R))
      BY <1>4, <1>6, <2>2, <2>3, <2>4, <2>5
    <2> QED
      BY <1>5, <1>7, <1>9, <1>10, <1>11, <2>1, <2>6
  <1> QED
    BY <1>12, <1>13

\* A message of the root to the next leaf.
LEMMA RootSends ==
    ASSUME Election, BootInv, NEW l \in Leaves, NEW msg \in Seq(Piece),
           toLeaf' = [toLeaf EXCEPT ![l] = @ \o msg],
           UNCHANGED <<threadVars, all_hosts, leafBuf, netToRoot>>,
           \A m \in Leaves : pc'[m] = pc[m]
    PROVE  /\ toLeaf' \in [Hosts -> Seq(Piece)] /\ toLeaf'[R] = toLeaf[R]
           /\ toLeaf'[l] = toLeaf[l] \o msg
           /\ Down(l)' = Down(l) + Len(msg)
           /\ Down(R)' = Down(R) /\ Up(R)' = Up(R) /\ Stored(R)' = Stored(R)
           /\ \A m \in Leaves \ {l} : SameAt(m)
  <1> USE HostKinds
  <1>1. /\ toLeaf[l] \o msg \in Seq(Piece)
        /\ Len(toLeaf[l] \o msg) = Len(toLeaf[l]) + Len(msg)
    BY BufferTypes, Sent DEF BootInv
  <1>2. /\ toLeaf' \in [Hosts -> Seq(Piece)] /\ toLeaf'[R] = toLeaf[R]
        /\ toLeaf'[l] = toLeaf[l] \o msg
        /\ \A m \in Leaves \ {l} : toLeaf'[m] = toLeaf[m]
    BY <1>1 DEF BootInv, Shapes
  <1>3. Down(l)' = Down(l) + Len(msg)
    <2>1. Len(msg) \in Nat
      OBVIOUS
    <2>2. Len(toLeaf'[l]) = Len(toLeaf[l]) + Len(msg)
      BY <1>1, <1>2
    <2> QED
      BY <2>1, <2>2, DownGrows DEF BootInv
  <1>4. Down(R)' = Down(R) /\ Up(R)' = Up(R) /\ Stored(R)' = Stored(R)
    BY <1>2 DEF Down, Up, Stored, netToRoot
  <1>5. \A m \in Leaves \ {l} : SameAt(m)
    BY <1>2 DEF SameAt, threadVars, netToRoot
  <1> QED
    BY <1>2, <1>3, <1>4, <1>5

LEMMA RootRequestKeeps ==
    ASSUME Election, BootInv, NEW h \in Hosts, RootRequest(h)
    PROVE  BootInv'
  <1> USE HostKinds
  <1> DEFINE msg == Tlv("PLANAR_CONFIG_REQUEST", {})
  <1>1. h = R /\ pc[R] = "request"
    BY RootOnly DEF RootRequest, RootStates
  <1>2. /\ toLeaf' = [toLeaf EXCEPT ![Leaf(R)] = @ \o msg] /\ Advance(R, "spawn")
        /\ UNCHANGED <<rootIp, connected, connArr, composite, threadVars,
                       all_hosts, rules, leafBuf, netToRoot, faults>>
    BY <1>1 DEF RootRequest, SendTlv
  <1>3. msg \in Seq(Piece) /\ Len(msg) = 1
    BY RequestTlv
  <1> HIDE DEF msg
  <1>4. /\ Leaf(R) \in Leaves /\ Leaf(R) \in connected /\ ~Visited(Leaf(R))
        /\ Roles' /\ Phases'
        /\ pc' \in [Hosts -> PhaseStates] /\ next' \in [Hosts -> Nat \ {0}]
        /\ \A m \in Leaves : pc'[m] = pc[m]
        /\ \/ /\ pc'[R] = pc[R]
              /\ \A m \in Leaves : Visited(m)' <=> (Visited(m) \/ m = Leaf(R))
           \/ /\ pc'[R] = "spawn"
              /\ \A m \in Leaves : ~Visited(m)' /\ (Visited(m) \/ m = Leaf(R))
    BY <1>1, <1>2, Advanced DEF threadVars
  <1>5. PICK l \in Leaves : l = Leaf(R)
    BY <1>4
  <1>6. /\ toLeaf' \in [Hosts -> Seq(Piece)] /\ toLeaf'[R] = toLeaf[R]
        /\ Down(l)' = Down(l) + 1
        /\ Down(R)' = Down(R) /\ Up(R)' = Up(R) /\ Stored(R)' = Stored(R)
        /\ \A m \in Leaves \ {l} : SameAt(m)
    BY <1>2, <1>3, <1>4, <1>5, RootSends
  <1>7. Shapes'
    BY <1>2, <1>4, <1>6 DEF BootInv, Shapes, threadVars, netToRoot
  <1>8. ~Joint
    BY <1>1 DEF Joint, Ended
  <1>9. RootTable'
    BY <1>1, <1>2, <1>4, <1>6, <1>8 DEF BootInv, RootTable, threadVars
  <1>10. ASSUME NEW m \in Leaves PROVE ThreadOn(m)'
    BY <1>1, <1>2, <1>4, <1>10 DEF BootInv, LeafInv, ThreadOn, threadVars
  <1>11. ASSUME NEW m \in Leaves, m # l PROVE LeafInv(m)'
    <2>1. SameAt(m)
      BY <1>6, <1>11
    <2>2. Down(m)' = Down(m)
      BY <2>1 DEF Down, SameAt
    <2>3. DownOn(m)'
      BY <1>1, <1>4, <1>5, <1>11, <2>1, <2>2 DEF BootInv, LeafInv, DownOn, SameAt
    <2> QED
      BY <1>2, <1>8, <1>10, <1>11, <2>1, <2>3, PhaseFrame DEF BootInv
  <1>12. LeafInv(l)'
    <2>2. /\ pc[l] \in {"waitRequest", "failed"}
          /\ pc[l] = "waitRequest" => Down(l) = 0
      BY <1>1, <1>4, <1>5 DEF BootInv, LeafInv, DownOn, Roles
    <2>3. /\ Up(l)' = Up(l) /\ pc'[l] = pc[l] /\ thread'[l] = thread[l]
          /\ all_hosts' = all_hosts /\ Down(l)' = Down(l) + 1
      BY <1>2, <1>4, <1>6 DEF Up, netToRoot, threadVars
    <2>4. pc[l] = "waitRequest" => Down(l)' = 1
      BY <2>2, <2>3
    <2>5. /\ pc'[R] = "request" => Visited(l)'
          /\ pc'[R] \in {"request", "spawn"}
      BY <1>1, <1>4, <1>5
    <2>6. DownOn(l)'
      BY <2>2, <2>3, <2>4, <2>5 DEF DownOn, Informed
    <2>7. FinalOn(l)'
      BY <2>2, <2>3 DEF FinalOn
    <2>8. UpOn(l)'
      BY <1>6, <2>3 DEF BootInv, LeafInv, UpOn
    <2>9. TableOn(l)'
      BY <2>2, <2>3 DEF BootInv, LeafInv, TableOn, Informed, Before
    <2> QED
      BY <1>10, <2>6, <2>7, <2>8, <2>9 DEF LeafInv
  <1> QED
    BY <1>4, <1>7, <1>9, <1>11, <1>12 DEF BootInv

LEMMA RootSendKeeps ==
    ASSUME Election, BootInv, NEW h \in Hosts, RootSend(h)
    PROVE  BootInv'
  <1> USE HostKinds
  <1> DEFINE msg == Tlv("COMPOSITE_CONFIG", composite[R])
  <1>1. h = R /\ pc[R] = "send"
    BY RootOnly DEF RootSend, RootStates
  <1>2. /\ toLeaf' = [toLeaf EXCEPT ![Leaf(R)] = @ \o msg] /\ Advance(R, "program")
        /\ UNCHANGED <<rootIp, connected, connArr, composite, threadVars,
                       all_hosts, rules, leafBuf, netToRoot, faults>>
    BY <1>1 DEF RootSend, SendTlv
  <1>3. /\ msg \in Seq(Piece) /\ Len(msg) = PayloadLen + 1
        /\ \A i \in 1 .. PayloadLen + 1 : Final(msg[i])
    <2>1. composite[R] \in SUBSET Hosts
      BY DEF BootInv, Shapes
    <2> QED
      BY <2>1, PayloadTlv DEF Final
  <1> HIDE DEF msg
  <1>4. /\ Leaf(R) \in Leaves /\ Leaf(R) \in connected /\ ~Visited(Leaf(R))
        /\ Roles' /\ Phases'
        /\ pc' \in [Hosts -> PhaseStates] /\ next' \in [Hosts -> Nat \ {0}]
        /\ \A m \in Leaves : pc'[m] = pc[m]
        /\ \/ /\ pc'[R] = pc[R]
              /\ \A m \in Leaves : Visited(m)' <=> (Visited(m) \/ m = Leaf(R))
           \/ /\ pc'[R] = "program"
              /\ \A m \in Leaves : ~Visited(m)' /\ (Visited(m) \/ m = Leaf(R))
    BY <1>1, <1>2, Advanced DEF threadVars
  <1>5. PICK l \in Leaves : l = Leaf(R)
    BY <1>4
  <1>6. /\ toLeaf' \in [Hosts -> Seq(Piece)] /\ toLeaf'[R] = toLeaf[R]
        /\ toLeaf'[l] = toLeaf[l] \o msg
        /\ Down(l)' = Down(l) + Len(msg)
        /\ Down(R)' = Down(R) /\ Up(R)' = Up(R) /\ Stored(R)' = Stored(R)
        /\ \A m \in Leaves \ {l} : SameAt(m)
    BY <1>2, <1>3, <1>4, <1>5, RootSends
  <1>7. Shapes'
    BY <1>2, <1>4, <1>6 DEF BootInv, Shapes, threadVars, netToRoot
  <1>8. Joint /\ Joint'
    <2>1. Joint
      BY <1>1 DEF BootInv, RootTable
    <2>2. pc'[R] \in {"send", "program", "close"} \cup Ended
      BY <1>1, <1>4
    <2> QED
      BY <1>2, <2>1, <2>2, JointStays DEF threadVars
  <1>9. RootTable'
    BY <1>2, <1>6, <1>8 DEF BootInv, RootTable, threadVars
  <1>10. ASSUME NEW m \in Leaves PROVE ThreadOn(m)'
    BY <1>1, <1>2, <1>4, <1>10 DEF BootInv, LeafInv, ThreadOn, threadVars
  <1>11. ASSUME NEW m \in Leaves, m # l PROVE LeafInv(m)'
    <2>1. SameAt(m)
      BY <1>6, <1>11
    <2>2. Down(m)' = Down(m)
      BY <2>1 DEF Down, SameAt
    <2>3. DownOn(m)'
      BY <1>1, <1>4, <1>5, <1>11, <2>1, <2>2 DEF BootInv, LeafInv, DownOn, SameAt
    <2> QED
      BY <1>2, <1>8, <1>10, <1>11, <2>1, <2>3, PhaseFrame DEF BootInv
  <1>12. LeafInv(l)'
    <2>2. /\ pc[l] \in {"waitComposite", "failed"}
          /\ pc[l] = "waitComposite" => Down(l) = 0
      <3>1. thread[l] = "exit"
        BY <1>8 DEF Joint
      <3>2. pc[l] \notin Before /\ pc[l] \notin Informed
            /\ (pc[l] = "waitComposite" => Down(l) = 0)
        BY <1>1, <1>4, <1>5, <3>1 DEF BootInv, LeafInv, ThreadOn, DownOn
      <3>3. pc[l] \in PhaseStates /\ pc[l] \notin RootStates
        BY DEF BootInv, Shapes, Roles
      <3> QED
        BY <3>2, <3>3 DEF PhaseStates, LeafStates, Ended, Before, Informed
    <2>3. /\ Up(l)' = Up(l) /\ pc'[l] = pc[l] /\ thread'[l] = thread[l]
          /\ all_hosts' = all_hosts /\ Down(l)' = Down(l) + (PayloadLen + 1)
      BY <1>2, <1>3, <1>4, <1>6 DEF Up, netToRoot, threadVars
    <2>4. pc[l] = "waitComposite" => Down(l)' <= PayloadLen + 1
      BY <2>2, <2>3, Size
    <2>5. /\ pc'[R] = "send" => Visited(l)'
          /\ pc'[R] \in {"send", "program"}
      BY <1>1, <1>4, <1>5
    <2>6. DownOn(l)'
      BY <2>2, <2>3, <2>4, <2>5 DEF DownOn, Informed
    <2>7. FinalOn(l)'
      <3>1. SUFFICES ASSUME pc[l] = "waitComposite" PROVE FinalOn(l)'
        BY <2>2, <2>3 DEF FinalOn
      <3>2. leafBuf[l] = <<>> /\ toLeaf[l] = <<>>
        BY <2>2, <3>1, NothingOnTheWay DEF BootInv
      <3>3. toLeaf'[l] = msg /\ leafBuf'[l] = <<>>
        BY <1>2, <1>3, <1>6, <3>2
      <3>4. \A i \in 1 .. Len(toLeaf'[l]) : Final(toLeaf'[l][i])
        BY <1>3, <3>3
      <3> QED
        BY <1>2, <3>3, <3>4 DEF FinalOn, Final
    <2>8. UpOn(l)'
      BY <1>6, <2>3 DEF BootInv, LeafInv, UpOn
    <2>9. TableOn(l)'
      BY <1>8, <2>2, <2>3 DEF BootInv, LeafInv, TableOn, Informed, Before
    <2> QED
      BY <1>10, <2>6, <2>7, <2>8, <2>9 DEF LeafInv
  <1> QED
    BY <1>4, <1>7, <1>9, <1>11, <1>12 DEF BootInv

LEMMA RootSpawnKeeps ==
    ASSUME Election, BootInv, NEW h \in Hosts, RootSpawn(h)
    PROVE  BootInv'
  <1> USE HostKinds
  <1>1. h = R /\ pc[R] = "spawn"
    BY RootOnly DEF RootSpawn, RootStates
  <1>2. /\ thread' = [thread EXCEPT ![Leaf(R)] = "header"] /\ Advance(R, "join")
        /\ UNCHANGED <<rootIp, connected, connArr, composite,
                       responses_received, all_hosts, rules, netToLeaf,
                       netToRoot, faults>>
    BY <1>1 DEF RootSpawn
  <1>3. Leaf(R) \in Leaves
    <2>1. /\ next[R] \in Nat \ {0} /\ Len(connArr[R]) = Cardinality(Leaves)
          /\ next[R] <= Cardinality(Leaves) /\ connArr[R] \in Seq(Leaves)
      BY <1>1 DEF BootInv, Shapes, Phases, RootStates
    <2>2. Cardinality(Leaves) \in Nat
      BY DEF Election
    <2>3. next[R] \in 1 .. Len(connArr[R])
      BY <2>1, <2>2
    <2> QED
      BY <2>1, <2>3 DEF Leaf
  <1>4. PICK l \in Leaves : l = Leaf(R)
    BY <1>3
  <1>5. /\ thread'[l] = "header" /\ thread' \in [Hosts -> ThreadStates]
        /\ \A m \in Hosts \ {l} : thread'[m] = thread[m]
    BY <1>2, <1>4 DEF BootInv, Shapes, ThreadStates
  <1>6. /\ l \in connected /\ ~Visited(l) /\ Roles' /\ Phases'
        /\ pc' \in [Hosts -> PhaseStates] /\ next' \in [Hosts -> Nat \ {0}]
        /\ \A m \in Leaves : pc'[m] = pc[m]
        /\ \/ /\ pc'[R] = pc[R]
              /\ \A m \in Leaves : Visited(m)' <=> (Visited(m) \/ m = l)
           \/ /\ pc'[R] = "join"
              /\ \A m \in Leaves : ~Visited(m)' /\ (Visited(m) \/ m = l)
    <2>1. thread'[R] = thread[R]
      BY <1>5
    <2> QED
      BY <1>1, <1>2, <1>4, <2>1, Advanced
  <1>7. Shapes'
    BY <1>2, <1>5, <1>6 DEF BootInv, Shapes, netToLeaf, netToRoot
  <1>8. ~Joint
    BY <1>1 DEF Joint, Ended
  <1>9. Stored(R)' = Stored(R)
    BY <1>2 DEF Stored
  <1>10. RootTable'
    <2>1. Down(R)' = Down(R) /\ Up(R)' = Up(R)
      BY <1>2 DEF Down, Up, netToLeaf, netToRoot
    <2> QED
      BY <1>1, <1>2, <1>6, <1>8, <1>9, <2>1 DEF BootInv, RootTable
  <1>11. ASSUME NEW m \in Leaves PROVE LeafInv(m)'
    <2>1. /\ Down(m)' = Down(m) /\ Up(m)' = Up(m) /\ pc'[m] = pc[m]
          /\ Stored(m)' = Stored(m)
      BY <1>2, <1>6, <1>11 DEF Down, Up, Stored, netToLeaf, netToRoot
    <2>2. m = l => thread[m] = "none"
      BY <1>1, <1>6 DEF BootInv, LeafInv, ThreadOn
    <2>3. m # l => thread'[m] = thread[m]
      BY <1>5, <1>11
    <2>4. ThreadOn(m)'
      BY <1>1, <1>2, <1>5, <1>6, <1>11, <2>1, <2>2, <2>3
      DEF BootInv, LeafInv, ThreadOn
    <2>5. DownOn(m)'
      BY <1>1, <1>6, <1>11, <2>1 DEF BootInv, LeafInv, DownOn
    <2>6. FinalOn(m)'
      BY <1>2, <1>11, <2>1 DEF BootInv, LeafInv, FinalOn, Final, netToLeaf
    <2>7. UpOn(m)'
      BY <1>5, <1>9, <1>11, <2>1, <2>2, <2>3 DEF BootInv, LeafInv, UpOn
    <2>8. TableOn(m)'
      BY <1>2, <1>8, <1>9, <1>11, <2>1 DEF BootInv, LeafInv, TableOn, Informed
    <2> QED
      BY <2>4, <2>5, <2>6, <2>7, <2>8 DEF LeafInv
  <1> QED
    BY <1>6, <1>7, <1>10, <1>11 DEF BootInv

LEMMA RootComposeKeeps ==
    ASSUME Election, BootInv, NEW h \in Hosts, RootCompose(h)
    PROVE  BootInv'
  <1> USE HostKinds
  <1>1. h = R /\ pc[R] = "join"
    BY RootOnly DEF RootCompose, RootStates
  <1>2. PICK phase \in {"program", "send"} :
           /\ pc' = [pc EXCEPT ![R] = phase]
           /\ phase = IF Cardinality(Leaves) = 0 THEN "program" ELSE "send"
    BY <1>1 DEF RootCompose, Election
  <1>3. /\ Joined(R) /\ composite' = [composite EXCEPT ![R] = Stored(R)]
        /\ UNCHANGED <<rootIp, connected, connArr, next, threadVars, all_hosts,
                       rules, netToLeaf, netToRoot, faults>>
    BY <1>1 DEF RootCompose
  <1>4. /\ Roles' /\ pc' \in [Hosts -> PhaseStates] /\ pc'[R] = phase
        /\ \A m \in Leaves : pc'[m] = pc[m]
    <2>1. phase \in RootStates \cup Ended
      BY DEF RootStates
    <2> QED
      BY <1>1, <1>2, <1>3, <2>1, RolesFrame DEF BootInv, threadVars
  <1>5. Stored(R) \subseteq Hosts
    <2>1. all_hosts[R] \in Tables
      BY DEF BootInv, Shapes
    <2> QED
      BY <2>1 DEF Stored, Tables
  <1>6. composite'[R] = Stored(R) /\ composite' \in [Hosts -> SUBSET Hosts]
    BY <1>3, <1>5 DEF BootInv, Shapes
  <1>7. Shapes'
    BY <1>3, <1>4, <1>6 DEF BootInv, Shapes, threadVars, netToLeaf, netToRoot
  <1>8. \A m \in Leaves : thread[m] = "exit"
    <2>1. /\ connArr[R] \in Seq(Leaves) /\ Len(connArr[R]) = Cardinality(Leaves)
          /\ \A i, j \in 1 .. Len(connArr[R]) : connArr[R][i] = connArr[R][j] => i = j
      BY <1>1 DEF BootInv, Shapes, Phases, RootStates
    <2>2. \A m \in Leaves : \E i \in 1 .. Len(connArr[R]) : connArr[R][i] = m
      BY <2>1, AllAccepted
    <2>3. DOMAIN connArr[R] = 1 .. Len(connArr[R])
      BY <2>1
    <2> QED
      BY <1>3, <2>2, <2>3 DEF Joined, Accepted
  <1>9. Joint'
    BY <1>2, <1>3, <1>4, <1>6, <1>8 DEF Joint, Stored, threadVars
  <1>10. ~Joint
    BY <1>1 DEF Joint, Ended
  <1>11. Phases'
    <2>1. connArr' = connArr /\ next' = next /\ connected' = connected
      BY <1>3
    <2>2. Cardinality(Leaves) \in Nat /\ next[R] = 1
      BY <1>1 DEF Election, BootInv, Phases
    <2>3. phase = "send" => next[R] <= Cardinality(Leaves)
      BY <1>2, <2>2
    <2> QED
      BY <1>1, <1>2, <1>4, <2>1, <2>2, <2>3 DEF BootInv, Phases, Accepted, RootStates
  <1>12. RootTable'
    <2>1. Down(R)' = Down(R) /\ Up(R)' = Up(R) /\ Stored(R)' = Stored(R)
      BY <1>3 DEF Down, Up, Stored, netToLeaf, netToRoot
    <2> QED
      BY <1>3, <1>9, <2>1 DEF BootInv, RootTable, threadVars
  <1>13. ASSUME NEW m \in Leaves PROVE LeafInv(m)'
    <2>1. phase = "send"
      BY <1>2, <1>13, LeavesFinite
    <2>2. /\ Down(m)' = Down(m) /\ Up(m)' = Up(m) /\ pc'[m] = pc[m]
          /\ Stored(m)' = Stored(m) /\ Stored(R)' = Stored(R)
      BY <1>3, <1>4, <1>13 DEF Down, Up, Stored, netToLeaf, netToRoot
    <2>3. pc[m] \notin Informed /\ (pc[m] = "waitComposite" => Down(m) = 0)
      BY <1>1, <1>13 DEF BootInv, LeafInv, DownOn
    <2>4. ThreadOn(m)'
      BY <1>1, <1>3, <1>4, <1>13, <2>1, <2>2 DEF BootInv, LeafInv, ThreadOn, threadVars
    <2>5. DownOn(m)'
      BY <1>1, <1>4, <1>13, <2>1, <2>2, <2>3 DEF BootInv, LeafInv, DownOn
    <2>6. FinalOn(m)'
      <3>1. SUFFICES ASSUME pc[m] = "waitComposite" PROVE FinalOn(m)'
        BY <2>2, <2>3 DEF FinalOn, Informed
      <3>2. leafBuf'[m] = <<>> /\ toLeaf'[m] = <<>>
        BY <1>3, <1>13, <2>3, <3>1, NothingOnTheWay DEF BootInv, netToLeaf
      <3> QED
        BY <3>2 DEF FinalOn
    <2>7. UpOn(m)'
      BY <1>3, <1>13, <2>2 DEF BootInv, LeafInv, UpOn, threadVars
    <2>8. TableOn(m)'
      BY <1>3, <1>9, <1>13, <2>2 DEF BootInv, LeafInv, TableOn
    <2> QED
      BY <2>4, <2>5, <2>6, <2>7, <2>8 DEF LeafInv
  <1> QED
    BY <1>4, <1>7, <1>11, <1>12, <1>13 DEF BootInv

LEMMA RootProgramKeeps ==
    ASSUME Election, BootInv, NEW h \in Hosts, RootProgram(h)
    PROVE  BootInv'
  <1> USE HostKinds
  <1>1. h = R /\ pc[R] = "program"
    BY RootOnly DEF RootProgram, RootStates
  <1>2. /\ pc' = [pc EXCEPT ![R] = "close"] /\ ApplyRules(R)
        /\ UNCHANGED <<rootIp, connected, rootVars, threadVars, all_hosts,
                       netToLeaf, netToRoot, faults>>
    BY <1>1 DEF RootProgram
  <1>3. rules' \in [Hosts -> SUBSET Rule]
    BY <1>2, RulesType DEF BootInv
  <1>4. /\ Roles' /\ pc' \in [Hosts -> PhaseStates] /\ pc'[R] = "close"
        /\ \A m \in Leaves : pc'[m] = pc[m]
    BY <1>1, <1>2, RolesFrame DEF BootInv, RootStates, rootVars, threadVars
  <1>5. Shapes'
    BY <1>2, <1>3, <1>4
    DEF BootInv, Shapes, rootVars, threadVars, netToLeaf, netToRoot
  <1>6. Joint /\ Joint'
    <2>1. Joint
      BY <1>1 DEF BootInv, RootTable
    <2> QED
      BY <1>2, <1>4, <2>1, JointStays DEF rootVars, threadVars
  <1>7. connArr' = connArr /\ next' = next /\ connected' = connected /\ composite' = composite
    BY <1>2 DEF rootVars
  <1>8. Phases'
    BY <1>1, <1>4, <1>7 DEF BootInv, Phases, Accepted, RootStates
  <1>9. RootTable'
    <2>1. Down(R)' = Down(R) /\ Up(R)' = Up(R) /\ Stored(R)' = Stored(R)
      BY <1>2 DEF Down, Up, Stored, netToLeaf, netToRoot
    <2> QED
      BY <1>2, <1>6, <2>1 DEF BootInv, RootTable, threadVars
  <1>10. ASSUME NEW m \in Leaves PROVE LeafInv(m)'
    <2>1. SameAt(m)
      BY <1>2, <1>4, <1>10 DEF SameAt, threadVars, netToLeaf, netToRoot
    <2>2. Down(m)' = Down(m)
      BY <2>1 DEF Down, SameAt
    <2>3. ThreadOn(m)' /\ DownOn(m)'
      BY <1>4, <1>7, <1>10, <2>1, <2>2
      DEF BootInv, LeafInv, ThreadOn, DownOn, SameAt
    <2> QED
      BY <1>2, <1>6, <1>7, <1>10, <2>1, <2>3, PhaseFrame DEF BootInv
  <1> QED
    BY <1>4, <1>5, <1>8, <1>9, <1>10 DEF BootInv

\* The root closes its sockets, at its end or because a signal ends it: what
\* is in flight is lost or not.
LEMMA RootEnds ==
    ASSUME Election, BootInv, pc[R] \in RootStates,
           NEW phase \in Ended, phase = "done" => pc[R] = "close",
           pc' = [pc EXCEPT ![R] = phase], CloseAll(R),
           UNCHANGED <<rootIp, connected, rootVars, threadVars, all_hosts,
                       rules, leafBuf, netToRoot, faults>>
    PROVE  BootInv'
  <1> USE HostKinds
  <1>1. /\ Roles' /\ pc' \in [Hosts -> PhaseStates] /\ pc'[R] = phase
        /\ \A m \in Leaves : pc'[m] = pc[m]
    BY RolesFrame DEF BootInv, RootStates, rootVars, threadVars
  <1>2. /\ toLeaf' \in [Hosts -> Seq(Piece)]
        /\ \A m \in Hosts : toLeaf'[m] = toLeaf[m] \/ toLeaf'[m] = <<>>
    <2>1. toLeaf \in [Hosts -> Seq(Piece)]
      BY DEF BootInv, Shapes
    <2> QED
      BY <2>1 DEF CloseAll
  <1>3. Shapes'
    BY <1>1, <1>2 DEF BootInv, Shapes, rootVars, threadVars, netToRoot
  <1>4. \A m \in Hosts : Down(m)' <= Down(m) /\ Down(m)' \in Nat /\ Down(m) \in Nat
    <2>1. SUFFICES ASSUME NEW m \in Hosts
                   PROVE  Down(m)' <= Down(m) /\ Down(m)' \in Nat /\ Down(m) \in Nat
      OBVIOUS
    <2>2. PICK a \in Nat : a = Len(leafBuf[m]) /\ Len(leafBuf'[m]) = a
      BY BufferTypes DEF BootInv
    <2>3. PICK b \in Nat : b = Len(toLeaf[m])
      BY BufferTypes DEF BootInv
    <2>4. Len(toLeaf'[m]) = b \/ Len(toLeaf'[m]) = 0
      BY <1>2, <2>3
    <2>5. PICK c \in Nat : c = Len(toLeaf'[m]) /\ c <= b
      BY <2>3, <2>4
    <2>6. Down(m) = a + b /\ Down(m)' = a + c
      BY <2>2, <2>3, <2>5 DEF Down
    <2>7. \A x, y, z \in Nat : z <= y => x + z <= x + y /\ x + y \in Nat /\ x + z \in Nat
      OBVIOUS
    <2>8. a + c <= a + b /\ a + b \in Nat /\ a + c \in Nat
      BY <2>2, <2>3, <2>5, <2>7
    <2> QED
      BY <2>6, <2>8
  <1>5. Joint => Joint'
    BY <1>1, JointStays DEF rootVars, threadVars, Ended
  <1>6. connArr' = connArr /\ next' = next /\ connected' = connected /\ composite' = composite
    BY DEF rootVars
  <1>7. Phases'
    BY <1>1, <1>6 DEF BootInv, Phases, Accepted, RootStates, Ended
  <1>8. RootTable'
    <2>1. Up(R)' = Up(R) /\ Stored(R)' = Stored(R)
      BY DEF Up, Stored, netToRoot
    <2>2. Down(R)' = 0
      BY <1>4 DEF BootInv, RootTable
    <2>3. phase = "done" => Joint'
      BY <1>5 DEF BootInv, RootTable
    <2> QED
      BY <1>1, <1>5, <2>1, <2>2, <2>3 DEF BootInv, RootTable, threadVars, Ended
  <1>9. ASSUME NEW m \in Leaves PROVE LeafInv(m)'
    <2>1. /\ Up(m)' = Up(m) /\ pc'[m] = pc[m] /\ thread'[m] = thread[m]
          /\ Stored(m)' = Stored(m) /\ Stored(R)' = Stored(R)
      BY <1>1, <1>9 DEF Up, Stored, netToRoot, threadVars
    <2>2. Down(m)' <= Down(m) /\ Down(m)' \in Nat /\ Down(m) \in Nat
      BY <1>4, <1>9
    <2>3. ThreadOn(m)'
      BY <1>1, <1>6, <1>9, <2>1 DEF BootInv, LeafInv, ThreadOn, Ended
    <2>4. DownOn(m)'
      <3>1. /\ pc[m] \in {"start", "connect", "respond", "install", "done"} => Down(m)' = 0
            /\ pc[m] = "waitRequest" => Down(m)' <= 1
            /\ pc[m] = "waitComposite" => Down(m)' <= PayloadLen + 1
            /\ pc[m] = "readComposite" => Down(m)' <= PayloadLen
        BY <1>9, <2>2, Size DEF BootInv, LeafInv, DownOn
      <3> QED
        BY <1>1, <2>1, <3>1 DEF DownOn, Ended
    <2>5. FinalOn(m)'
      <3>1. toLeaf'[m] = toLeaf[m] \/ Len(toLeaf'[m]) = 0
        BY <1>2, <1>9
      <3> QED
        BY <1>6, <1>9, <2>1, <3>1 DEF BootInv, LeafInv, FinalOn, Final
    <2>6. UpOn(m)'
      BY <1>9, <2>1 DEF BootInv, LeafInv, UpOn
    <2>7. TableOn(m)'
      <3>1. Down(m)' > 0 => Down(m) > 0
        BY <2>2
      <3> QED
        BY <1>5, <1>9, <2>1, <3>1 DEF BootInv, LeafInv, TableOn
    <2> QED
      BY <2>3, <2>4, <2>5, <2>6, <2>7 DEF LeafInv
  <1> QED
    BY <1>1, <1>3, <1>7, <1>8, <1>9 DEF BootInv

LEMMA RootEndsKeep ==
    ASSUME Election, BootInv, NEW h \in Hosts, RootKilled(h) \/ RootClose(h)
    PROVE  BootInv'
  <1>1. h = R /\ pc[R] \in RootStates
    BY RootOnly DEF RootKilled, RootClose, RootStates
  <1>2. CASE RootKilled(h)
    BY <1>1, <1>2, RootEnds DEF RootKilled, Ended
  <1>3. CASE RootClose(h)
    BY <1>1, <1>3, RootEnds DEF RootClose, Ended
  <1> QED
    BY <1>2, <1>3

-----------------------------------------------------------------------------
(* The theorems *)

LEMMA BootInvInit ==
    ASSUME Election, Init
    PROVE  BootInv
  <1> USE HostKinds
  <1>1. Shapes
    <2>1. /\ \A S : <<>> \in Seq(S)
          /\ <<>> \in [{} -> Hosts] /\ {} \in SUBSET Keys
      OBVIOUS
    <2>2. <<>> \in Tables
      BY <2>1 DEF Tables
    <2>3. 0 \in 0 .. MaxFaults
      BY BootstrapAssumption
    <2>4. /\ pc \in [Hosts -> PhaseStates] /\ rootIp \in [Hosts -> Hosts]
          /\ connected \subseteq Leaves /\ next \in [Hosts -> Nat \ {0}]
          /\ thread \in [Hosts -> ThreadStates]
          /\ responses_received \in [Hosts -> Nat]
          /\ composite \in [Hosts -> SUBSET Hosts]
          /\ rules \in [Hosts -> SUBSET Rule] /\ faults \in 0 .. MaxFaults
      BY <2>3 DEF Init, PhaseStates, ThreadStates
    <2>5. connArr \in [Hosts -> Seq(Leaves)] /\ all_hosts \in [Hosts -> Tables]
      BY <2>1, <2>2 DEF Init
    <2>6. /\ toLeaf \in [Hosts -> Seq(Piece)] /\ leafBuf \in [Hosts -> Seq(Piece)]
          /\ toRoot \in [Hosts -> Seq(Piece)] /\ rootBuf \in [Hosts -> Seq(Piece)]
      BY <2>1 DEF Init
    <2> QED
      BY <2>4, <2>5, <2>6 DEF Shapes
  <1>2. Roles
    BY DEF Init, Roles, RootStates, LeafStates
  <1>3. /\ connArr[R] = <<>> /\ Len(connArr[R]) = 0 /\ DOMAIN connArr[R] = {}
        /\ pc[R] = "start" /\ next[R] = 1
    BY DEF Init
  <1>4. Phases
    BY <1>3 DEF Phases, Accepted, RootStates
  <1>5. \A h \in Hosts : Down(h) = 0 /\ Up(h) = 0 /\ Stored(h) = {}
    BY DEF Init, Down, Up, Stored
  <1>6. RootTable
    <2>1. Cardinality(Stored(R) \ {R}) = 0
      <3>1. Stored(R) \ {R} = {}
        BY <1>5
      <3> QED
        BY <3>1, FS_EmptySet
    <2>2. \A k \in DOMAIN all_hosts[R] : all_hosts[R][k] = k
      BY DEF Init
    <2>3. responses_received =
             [h \in Hosts |-> IF h = R THEN Cardinality(Stored(R) \ {R}) ELSE 0]
      BY <2>1 DEF Init
    <2> QED
      BY <1>3, <1>5, <2>2, <2>3 DEF RootTable, Init
  <1>7. ASSUME NEW l \in Leaves PROVE LeafInv(l)
    <2>1. /\ pc[l] = "start" /\ thread[l] = "none" /\ all_hosts[l] = <<>>
          /\ Down(l) = 0 /\ Up(l) = 0 /\ Stored(R) = {}
      BY <1>5 DEF Init
    <2> QED
      BY <1>3, <2>1, Size
      DEF LeafInv, ThreadOn, DownOn, FinalOn, UpOn, TableOn, Before, Informed
  <1> QED
    BY <1>1, <1>2, <1>4, <1>6, <1>7 DEF BootInv

LEMMA BootInvStutter ==
    ASSUME BootInv, UNCHANGED vars
    PROVE  BootInv'
  <1>1. /\ pc' = pc /\ rootIp' = rootIp /\ connected' = connected
        /\ connArr' = connArr /\ next' = next /\ composite' = composite
        /\ thread' = thread /\ responses_received' = responses_received
        /\ all_hosts' = all_hosts /\ rules' = rules /\ toLeaf' = toLeaf
        /\ leafBuf' = leafBuf /\ toRoot' = toRoot /\ rootBuf' = rootBuf
        /\ faults' = faults
    BY DEF vars, rootVars, threadVars, netToLeaf, netToRoot
  <1>2. Joint => Joint'
    BY <1>1 DEF Joint, Stored
  <1>3. ASSUME NEW l \in Leaves PROVE LeafInv(l)'
    <2>1. SameAt(l) /\ SameRoot
      BY <1>1 DEF SameAt, SameRoot
    <2> QED
      BY <1>1, <1>2, <1>3, <2>1, LeafFrame DEF BootInv
  <1>4. Shapes' /\ Roles'
    BY <1>1 DEF BootInv, Shapes, Roles
  <1>5. Phases'
    BY <1>1, PhasesFrame DEF BootInv, SameRoot
  <1>6. RootTable'
    <2>1. Down(R)' = Down(R) /\ Up(R)' = Up(R) /\ Stored(R)' = Stored(R)
      BY <1>1 DEF Down, Up, Stored
    <2> QED
      BY <1>1, <1>2, <2>1 DEF BootInv, RootTable
  <1> QED
    BY <1>3, <1>4, <1>5, <1>6 DEF BootInv

LEMMA BootInvNext ==
    ASSUME Election, BootInv, [Next]_vars
    PROVE  BootInv'
  <1>1. CASE UNCHANGED vars
    BY <1>1, BootInvStutter
  <1>2. CASE Next
    <2>1. PICK h \in Hosts :
             \/ Elect(h) \/ Root(h) \/ Thread(h) \/ LeafNode(h)
             \/ ArriveAtLeaf(h) \/ ArriveAtRoot(h)
             \/ RootKilled(h) \/ RootListenFails(h) \/ LeafCrash(h)
             \/ LeafCrashSending(h)
      BY <1>2 DEF Next
    <2>2. CASE Root(h)
      BY <2>2, RootListenKeeps, RootAcceptKeeps, RootRequestKeeps,
         RootSpawnKeeps, RootComposeKeeps, RootSendKeeps, RootProgramKeeps,
         RootEndsKeep
      DEF Root
    <2>3. CASE Thread(h)
      BY <2>3, ThreadHeaderKeeps, ThreadPayloadKeeps, ThreadStoreKeeps,
         ThreadEofKeeps
      DEF Thread
    <2>4. CASE LeafNode(h)
      BY <2>4, LeafConnectKeeps, LeafRequestedKeeps, LeafRespondKeeps,
         LeafFailuresKeep, LeafCompositeKeeps, LeafPayloadKeeps,
         LeafInstallKeeps
      DEF LeafNode
    <2>5. CASE ArriveAtLeaf(h) \/ ArriveAtRoot(h)
      BY <2>5, ArriveAtLeafKeeps, ArriveAtRootKeeps
    <2>6. CASE \/ RootKilled(h) \/ RootListenFails(h) \/ LeafCrash(h)
               \/ LeafCrashSending(h)
      BY <2>6, RootEndsKeep, RootListenFailsKeeps, LeafFailuresKeep, LeafRespondKeeps
    <2>7. CASE Elect(h)
      BY <2>7, ElectKeeps
    <2> QED
      BY <2>1, <2>2, <2>3, <2>4, <2>5, <2>6, <2>7
  <1> QED
    BY <1>1, <1>2

LEMMA BootInvAlways ==
    ASSUME ListsAgree
    PROVE  Spec => []BootInv
  <1>1. Election
    BY OneRoot
  <1>2. Init => BootInv
    BY <1>1, BootInvInit
  <1>3. BootInv /\ [Next]_vars => BootInv'
    BY <1>1, BootInvNext
  <1> QED
    BY <1>2, <1>3, PTL DEF Spec

\* The type invariant of the bootstrap; the indices of the loops over connArr
\* stay in it, and no more answers are counted than there are leaves.
THEOREM BootstrapTypeCorrect ==
    ASSUME ListsAgree
    PROVE  Spec => []TypeOK
  <1>1. ASSUME BootInv PROVE TypeOK
    <2> USE HostKinds
    <2>1. Election
      BY OneRoot
    <2>2. \A h \in Hosts : next[h] \in 1 .. TotalLNs(h) \/ next[h] = 1
      <3>1. SUFFICES next[R] \in 1 .. TotalLNs(R) \/ next[R] = 1
        BY <1>1, <2>1 DEF BootInv, Roles
      <3>2. next[R] \in Nat \ {0} /\ (next[R] <= Cardinality(Leaves) \/ next[R] = 1)
        BY <1>1, <2>1 DEF BootInv, Shapes, Phases
      <3>3. TotalLNs(R) = Cardinality(Leaves) /\ Cardinality(Leaves) \in Nat
        BY <2>1 DEF Election
      <3> QED
        BY <3>2, <3>3
    <2>3. responses_received \in [Hosts -> 0 .. Cardinality(Hosts) - 1]
      <3>1. all_hosts[R] \in Tables
        BY <1>1, <2>1 DEF BootInv, Shapes
      <3>2. Stored(R) \ {R} \in SUBSET Leaves
        BY <3>1 DEF Stored, Tables, Leaves
      <3>3. /\ IsFiniteSet(Leaves) /\ Cardinality(Leaves) \in Nat
            /\ Cardinality(Hosts) = Cardinality(Leaves) + 1
        BY <2>1, LeavesFinite DEF Election
      <3>4. /\ Cardinality(Stored(R) \ {R}) <= Cardinality(Leaves)
            /\ Cardinality(Stored(R) \ {R}) \in Nat
        BY <3>2, <3>3, FS_Subset, FS_CardinalityType
      <3>5. /\ Cardinality(Stored(R) \ {R}) \in 0 .. Cardinality(Hosts) - 1
            /\ 0 \in 0 .. Cardinality(Hosts) - 1
        BY <3>3, <3>4
      <3> QED
        BY <1>1, <3>5 DEF BootInv, RootTable
    <2>4. \A h \in Hosts : /\ DOMAIN all_hosts[h] \subseteq Keys
                           /\ \A k \in DOMAIN all_hosts[h] : all_hosts[h][k] \in Hosts
      <3>1. \A h \in Hosts : all_hosts[h] \in Tables
        BY <1>1 DEF BootInv, Shapes
      <3> QED
        BY <3>1 DEF Tables
    <2>5. connArr \in [Hosts -> Seq(Hosts)] /\ connected \subseteq Hosts
      <3>1. Leaves \subseteq Hosts
        BY <2>1
      <3>2. \A s \in Seq(Leaves) : s \in Seq(Hosts)
        BY <3>1
      <3> QED
        BY <1>1, <3>1, <3>2 DEF BootInv, Shapes
    <2> QED
      BY <1>1, <2>2, <2>3, <2>4, <2>5
      DEF BootInv, Shapes, TypeOK, PhaseStates, ThreadStates
  <1> QED
    BY <1>1, BootInvAlways, PTL

\* Hosts that have programmed their rules know of the same hosts: the root
\* serialises its table when its last thread has ended, nothing enters the
\* table after that, and a leaf takes the whole of what the root sent.
THEOREM SameViewCorrect ==
    ASSUME ListsAgree, NamesDiffer
    PROVE  Spec => []SameView
  <1>1. ASSUME BootInv PROVE SameView
    <2> USE HostKinds
    <2>1. Election
      BY OneRoot
    <2>2. \A h \in Hosts : pc[h] \in {"close", "done"} => Stored(h) = Stored(R)
      BY <1>1, <2>1 DEF BootInv, Roles, RootStates, LeafInv, TableOn
    <2> QED
      BY <2>2 DEF SameView
  <1> QED
    BY <1>1, BootInvAlways, PTL

\* Whatever recv returns, a configuration the root has stored, and a composite
\* a leaf has taken, were read to the last piece.
THEOREM WholePayloadsCorrect ==
    ASSUME ListsAgree
    PROVE  Spec => []WholePayloads
  <1>1. ASSUME BootInv PROVE WholePayloads
    <2> USE HostKinds
    <2>1. Election
      BY OneRoot
    <2>2. \A h \in Hosts : h \in Stored(rootIp[h]) => Up(h) = 0
      <3>1. \A l \in Leaves : pc[l] = "start" => Stored(l) = {}
        BY <1>1 DEF BootInv, LeafInv, TableOn, Before, Stored
      <3> QED
        BY <1>1, <2>1, <3>1 DEF BootInv, Roles, RootTable, LeafInv, UpOn
    <2>3. \A h \in Hosts : pc[h] \in {"install", "done"} => Down(h) = 0
      BY <1>1, <2>1 DEF BootInv, RootTable, LeafInv, DownOn
    <2>4. <<>> \o <<>> = <<>>
      OBVIOUS
    <2> QED
      BY <1>1, <2>2, <2>3, <2>4, NothingOnTheWay DEF BootInv, WholePayloads
  <1> QED
    BY <1>1, BootInvAlways, PTL

\* No host, root or leaf, installs a rule before the thread of every leaf has
\* ended: with its answer, or because its connection failed.
THEOREM RulesAfterAnswersCorrect ==
    ASSUME ListsAgree
    PROVE  Spec => []RulesAfterAnswers
  <1>1. ASSUME BootInv PROVE RulesAfterAnswers
    <2> USE HostKinds
    <2>1. Election
      BY OneRoot
    <2>2. \A l \in Hosts : rootIp[l] # l => l \in Leaves
      BY <1>1, <2>1 DEF BootInv, Roles
    <2> QED
      BY <1>1, <2>2 DEF BootInv, RootTable, Joint, RulesAfterAnswers
  <1> QED
    BY <1>1, BootInvAlways, PTL
=============================================================================
