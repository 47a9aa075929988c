----------------------------- MODULE Bootstrap -----------------------------
(***************************************************************************)
(* The bootstrap of virtual IPs (src/src/bootstrap.cc): the hosts of a     *)
(* list elect the one with the lowest address as root; the root collects   *)
(* the configuration of every leaf, one thread per connection, and sends   *)
(* the composite of all to each; every host then programs the address      *)
(* translation of src/include/anp_bootstrap.h.                             *)
(*                                                                         *)
(* A host is its address, a number.  A configuration is named by its host. *)
(* A TLV message is a header and, with a payload, PayloadLen pieces: the   *)
(* network delivers piece by piece and recv returns what has arrived,      *)
(* which anpNcclSocketRecv takes for an error when it is not everything.   *)
(* The two words of a header, eight bytes, are not split.                  *)
(***************************************************************************)
EXTENDS Integers, Sequences, FiniteSets

CONSTANTS
    Hosts,       \* the hosts, as numerical addresses
    IpList,      \* the file of each host: the addresses in its own order
    HostName,    \* host_name of each configuration
    PayloadLen,  \* pieces of a payload
    MaxFaults    \* bound: hosts that crash, a root that cannot listen

ASSUME BootstrapAssumption ==
    /\ Hosts \subseteq Nat /\ IsFiniteSet(Hosts) /\ Hosts # {}
    /\ IpList \in [Hosts -> Seq(Hosts)]
    /\ \A h \in Hosts : \E i \in DOMAIN IpList[h] : IpList[h][i] = h
    /\ HostName \in [Hosts -> Nat]
    /\ PayloadLen \in Nat \ {0} /\ MaxFaults \in Nat

VARIABLES
    pc,         \* where the bootstrap thread of a host is
    rootIp,     \* the root a host elected
    connected,  \* leaves whose connect succeeded
    connArr,    \* connArr of a root: its leaves in the order of acceptance
    next,       \* the index i of the loops over connArr
    thread,     \* where the recv_config_thread of a leaf's connection is
    responses_received,
    all_hosts,  \* host_db.all_hosts: configurations by key
    composite,  \* the buffer of a root: the hosts it serialised
    rules,      \* the translation rules a host has installed
    toLeaf, toRoot,      \* pieces in flight on the connection of a leaf
    leafBuf, rootBuf,    \* pieces that arrived and were not read
    faults

rootVars == <<connArr, next, composite>>
threadVars == <<thread, responses_received>>
netToLeaf == <<toLeaf, leafBuf>>
netToRoot == <<toRoot, rootBuf>>
vars == <<pc, rootIp, connected, rootVars, threadVars, all_hosts, rules,
          netToLeaf, netToRoot, faults>>

\* total_LNs = ip_count - 1
TotalLNs(h) == Len(IpList[h]) - 1

Keys == Hosts \cup {HostName[h] : h \in Hosts}
Types == {"PLANAR_CONFIG_REQUEST", "CONFIG_RESPONSE", "COMPOSITE_CONFIG"}
Piece == [kind : {"header", "data"}, type : Types, hosts : SUBSET Hosts]
Rule == {"local", "remote"} \X Hosts
RootStates == {"listen", "accept", "request", "spawn", "join", "send",
               "program", "close"}
LeafStates == {"connect", "waitRequest", "respond", "waitComposite",
               "readComposite", "install"}
Ended == {"done", "failed"}

\* The type invariant of the module.
TypeOK ==
    /\ pc \in [Hosts -> {"start"} \cup RootStates \cup LeafStates \cup Ended]
    /\ rootIp \in [Hosts -> Hosts]
    /\ connected \subseteq Hosts
    /\ connArr \in [Hosts -> Seq(Hosts)]
    /\ \A h \in Hosts : next[h] \in 1 .. TotalLNs(h) \/ next[h] = 1
    /\ thread \in [Hosts -> {"none", "header", "payload", "store", "exit"}]
    /\ responses_received \in [Hosts -> 0 .. Cardinality(Hosts) - 1]
    /\ \A h \in Hosts : /\ DOMAIN all_hosts[h] \subseteq Keys
                        /\ \A k \in DOMAIN all_hosts[h] :
                              all_hosts[h][k] \in Hosts
    /\ composite \in [Hosts -> SUBSET Hosts]
    /\ rules \in [Hosts -> SUBSET Rule]
    /\ toLeaf \in [Hosts -> Seq(Piece)] /\ leafBuf \in [Hosts -> Seq(Piece)]
    /\ toRoot \in [Hosts -> Seq(Piece)] /\ rootBuf \in [Hosts -> Seq(Piece)]
    /\ faults \in 0 .. MaxFaults

Init ==
    /\ pc = [h \in Hosts |-> "start"]
    /\ rootIp = [h \in Hosts |-> h]
    /\ connected = {}
    /\ connArr = [h \in Hosts |-> <<>>]
    /\ next = [h \in Hosts |-> 1]
    /\ thread = [h \in Hosts |-> "none"]
    /\ responses_received = [h \in Hosts |-> 0]
    /\ all_hosts = [h \in Hosts |-> <<>>]
    /\ composite = [h \in Hosts |-> {}]
    /\ rules = [h \in Hosts |-> {}]
    /\ toLeaf = [h \in Hosts |-> <<>>] /\ leafBuf = [h \in Hosts |-> <<>>]
    /\ toRoot = [h \in Hosts |-> <<>>] /\ rootBuf = [h \in Hosts |-> <<>>]
    /\ faults = 0

-----------------------------------------------------------------------------
(* Helpers *)

\* host_db.all_hosts[key] = host
Put(db, key, host) ==
    [k \in DOMAIN db \cup {key} |-> IF k = key THEN host ELSE db[k]]

Stored(h) == {all_hosts[h][k] : k \in DOMAIN all_hosts[h]}

\* send_tlv: a header and the pieces of the payload.  A field of the header is
\* sent in four bytes, which recv gets as one; a header of which a part arrived
\* would end the receiver as a short payload does.
Tlv(type, hosts) ==
    <<[kind |-> "header", type |-> type, hosts |-> hosts]>> \o
    (IF type = "PLANAR_CONFIG_REQUEST" THEN <<>>
     ELSE [i \in 1 .. PayloadLen |->
              [kind |-> "data", type |-> type, hosts |-> hosts]])

SendTlv(chan, l, type, hosts) ==
    [chan EXCEPT ![l] = @ \o Tlv(type, hosts)]

\* anpNcclSocketRecv of a payload: blocks for one piece, takes what is there.
RecvSize(buf) == IF Len(buf) < PayloadLen THEN Len(buf) ELSE PayloadLen
Rest(buf, n) == SubSeq(buf, n + 1, Len(buf))

\* Mutant: whatever has arrived is taken for the payload.
AnyRead(n) == n > 0

\* anpNcclSocketRecv succeeds when it got the size it asked for.
FullRead(n) == n = PayloadLen

\* Mutant: the first address of the file is taken.
FirstListed(h) == IpList[h][1]

\* The lowest address of the file.
Lowest(h) ==
    LET listed == {IpList[h][i] : i \in DOMAIN IpList[h]}
    IN  CHOOSE r \in listed : \A s \in listed : r <= s

Leaf(h) == connArr[h][next[h]]
IsLast(h) == next[h] = TotalLNs(h)
Accepted(h) == {connArr[h][i] : i \in DOMAIN connArr[h]}

\* Mutant: the index is not reset for the next loop.
AdvanceOnly(h, phase) ==
    /\ pc' = [pc EXCEPT ![h] = IF IsLast(h) THEN phase ELSE @]
    /\ next' = [next EXCEPT ![h] = @ + 1]

\* The loop over connArr: the next connection, or the phase after the last.
Advance(h, phase) ==
    /\ pc' = [pc EXCEPT ![h] = IF IsLast(h) THEN phase ELSE @]
    /\ next' = [next EXCEPT ![h] = IF IsLast(h) THEN 1 ELSE @ + 1]

InjectFault ==
    /\ faults < MaxFaults
    /\ faults' = faults + 1

\* The sockets of h are closed.  TCP resets a connection that is closed with
\* unread input, and what is still in flight on it is lost (external).
CloseAll(h) ==
    toLeaf' = [l \in Hosts |->
        IF l \in Accepted(h) /\ rootBuf[l] \o toRoot[l] # <<>>
        THEN <<>> ELSE toLeaf[l]]

-----------------------------------------------------------------------------
(* The translation rules *)

\* apply_local_vip_iptables_rule looks up local_ip, the address of the host.
LocalRules(h) ==
    IF h \in DOMAIN all_hosts[h] THEN {<<"local", all_hosts[h][h]>>} ELSE {}

\* apply_remote_vip_iptables_rule skips the key local_ip.
RemoteRules(h) ==
    {<<"remote", all_hosts[h][k]>> : k \in DOMAIN all_hosts[h] \ {h}}

ApplyRules(h) ==
    rules' = [rules EXCEPT ![h] = @ \cup LocalRules(h) \cup RemoteRules(h)]

-----------------------------------------------------------------------------
(* Election and root *)

\* anp_bootstrap_handler
Elect(h) ==
    /\ pc[h] = "start"
    /\ rootIp' = [rootIp EXCEPT ![h] = Lowest(h)]
    /\ pc' = [pc EXCEPT ![h] = IF Lowest(h) = h THEN "listen" ELSE "connect"]
    /\ UNCHANGED <<connected, rootVars, threadVars, all_hosts, rules,
                   netToLeaf, netToRoot, faults>>

\* run_root_node stores its own configuration and listens.
RootListen(h) ==
    /\ pc[h] = "listen"
    /\ all_hosts' = [all_hosts EXCEPT ![h] = Put(@, h, h)]
    /\ pc' = [pc EXCEPT ![h] = IF TotalLNs(h) = 0 THEN "join" ELSE "accept"]
    /\ UNCHANGED <<rootIp, connected, rootVars, threadVars, rules, netToLeaf,
                   netToRoot, faults>>

RootListenFails(h) ==
    /\ pc[h] = "listen"
    /\ InjectFault
    /\ pc' = [pc EXCEPT ![h] = "failed"]
    /\ UNCHANGED <<rootIp, connected, rootVars, threadVars, all_hosts, rules,
                   netToLeaf, netToRoot>>

RootAccept(h) ==
    /\ pc[h] = "accept"
    /\ \E l \in connected \ Accepted(h) :
          /\ rootIp[l] = h
          /\ connArr' = [connArr EXCEPT ![h] = Append(@, l)]
    /\ pc' = [pc EXCEPT ![h] =
                 IF Len(connArr[h]) + 1 = TotalLNs(h) THEN "request" ELSE @]
    /\ UNCHANGED <<rootIp, connected, next, composite, threadVars, all_hosts,
                   rules, netToLeaf, netToRoot, faults>>

\* A failed send is logged and the loop goes on.
RootRequest(h) ==
    /\ pc[h] = "request"
    /\ toLeaf' = SendTlv(toLeaf, Leaf(h), "PLANAR_CONFIG_REQUEST", {})
    /\ Advance(h, "spawn")
    /\ UNCHANGED <<rootIp, connected, connArr, composite, threadVars,
                   all_hosts, rules, leafBuf, netToRoot, faults>>

\* pthread_create succeeds: after a failure the code joins an id that was never
\* set, which has no outcome to model.
RootSpawn(h) ==
    /\ pc[h] = "spawn"
    /\ thread' = [thread EXCEPT ![Leaf(h)] = "header"]
    /\ Advance(h, "join")
    /\ UNCHANGED <<rootIp, connected, connArr, composite, responses_received,
                   all_hosts, rules, netToLeaf, netToRoot, faults>>

\* Mutant: the root does not wait for its threads.
JoinedNone(h) == TRUE

\* pthread_join of every thread.
Joined(h) == \A l \in Accepted(h) : thread[l] = "exit"

\* serialize_all_hosts
RootCompose(h) ==
    /\ pc[h] = "join"
    /\ Joined(h)
    /\ composite' = [composite EXCEPT ![h] = Stored(h)]
    /\ pc' = [pc EXCEPT ![h] = IF TotalLNs(h) = 0 THEN "program" ELSE "send"]
    /\ UNCHANGED <<rootIp, connected, connArr, next, threadVars, all_hosts,
                   rules, netToLeaf, netToRoot, faults>>

RootSend(h) ==
    /\ pc[h] = "send"
    /\ toLeaf' = SendTlv(toLeaf, Leaf(h), "COMPOSITE_CONFIG", composite[h])
    /\ Advance(h, "program")
    /\ UNCHANGED <<rootIp, connected, connArr, composite, threadVars,
                   all_hosts, rules, leafBuf, netToRoot, faults>>

\* send(2) on a connection the leaf has closed: SIGPIPE, which nobody
\* handles, ends the root with all its threads and sockets.
RootKilled(h) ==
    /\ pc[h] \in {"request", "send"}
    /\ pc[Leaf(h)] = "failed"
    /\ pc' = [pc EXCEPT ![h] = "failed"]
    /\ CloseAll(h)
    /\ UNCHANGED <<rootIp, connected, rootVars, threadVars, all_hosts, rules,
                   leafBuf, netToRoot, faults>>

RootProgram(h) ==
    /\ pc[h] = "program"
    /\ ApplyRules(h)
    /\ pc' = [pc EXCEPT ![h] = "close"]
    /\ UNCHANGED <<rootIp, connected, rootVars, threadVars, all_hosts,
                   netToLeaf, netToRoot, faults>>

RootClose(h) ==
    /\ pc[h] = "close"
    /\ CloseAll(h)
    /\ pc' = [pc EXCEPT ![h] = "done"]
    /\ UNCHANGED <<rootIp, connected, rootVars, threadVars, all_hosts, rules,
                   leafBuf, netToRoot, faults>>

-----------------------------------------------------------------------------
(* recv_config_thread of the connection of leaf l *)

RootAlive(l) == pc[rootIp[l]] \notin Ended

ThreadHeader(l) ==
    /\ thread[l] = "header" /\ RootAlive(l)
    /\ rootBuf[l] # <<>>
    /\ rootBuf' = [rootBuf EXCEPT ![l] = Tail(@)]
    /\ thread' = [thread EXCEPT ![l] =
          IF Head(rootBuf[l]).type = "CONFIG_RESPONSE" THEN "payload"
          ELSE "exit"]
    /\ UNCHANGED <<pc, rootIp, connected, rootVars, responses_received,
                   all_hosts, rules, netToLeaf, toRoot, faults>>

\* A short read ends the thread without a word to anyone.
ThreadPayload(l) ==
    /\ thread[l] = "payload" /\ RootAlive(l)
    /\ rootBuf[l] # <<>>
    /\ LET n == RecvSize(rootBuf[l]) IN
          /\ rootBuf' = [rootBuf EXCEPT ![l] = Rest(@, n)]
          /\ thread' = [thread EXCEPT ![l] =
                           IF FullRead(n) THEN "store" ELSE "exit"]
    /\ UNCHANGED <<pc, rootIp, connected, rootVars, responses_received,
                   all_hosts, rules, netToLeaf, toRoot, faults>>

\* Under response_mutex; the key is host_ip.
ThreadStore(l) ==
    /\ thread[l] = "store" /\ RootAlive(l)
    /\ LET h == rootIp[l] IN
          /\ all_hosts' = [all_hosts EXCEPT ![h] = Put(@, l, l)]
          /\ responses_received' = [responses_received EXCEPT ![h] = @ + 1]
    /\ thread' = [thread EXCEPT ![l] = "exit"]
    /\ UNCHANGED <<pc, rootIp, connected, rootVars, rules, netToLeaf,
                   netToRoot, faults>>

\* The leaf has closed the connection and nothing is left to read.
ThreadEof(l) ==
    /\ thread[l] \in {"header", "payload"} /\ RootAlive(l)
    /\ pc[l] \in Ended
    /\ rootBuf[l] \o toRoot[l] = <<>>
    /\ thread' = [thread EXCEPT ![l] = "exit"]
    /\ UNCHANGED <<pc, rootIp, connected, rootVars, responses_received,
                   all_hosts, rules, netToLeaf, netToRoot, faults>>

-----------------------------------------------------------------------------
(* run_leaf_node *)

\* The retry loop ends with the first attempt the root is listening for.
LeafConnect(l) ==
    /\ pc[l] = "connect"
    /\ pc[rootIp[l]] \in RootStates \ {"listen"}
    /\ connected' = connected \cup {l}
    /\ pc' = [pc EXCEPT ![l] = "waitRequest"]
    /\ UNCHANGED <<rootIp, rootVars, threadVars, all_hosts, rules, netToLeaf,
                   netToRoot, faults>>

\* recv_tlv of a header; any other type than the expected ends the leaf.
LeafHeader(l, type, then) ==
    /\ leafBuf[l] # <<>>
    /\ leafBuf' = [leafBuf EXCEPT ![l] = Tail(@)]
    /\ pc' = [pc EXCEPT ![l] =
                 IF Head(leafBuf[l]).type = type THEN then ELSE "failed"]
    /\ UNCHANGED <<rootIp, connected, rootVars, threadVars, all_hosts, rules,
                   toLeaf, netToRoot, faults>>

LeafRequested(l) ==
    /\ pc[l] = "waitRequest"
    /\ LeafHeader(l, "PLANAR_CONFIG_REQUEST", "respond")

\* Nobody sees the three sends apart but when the leaf ends between them.
LeafRespond(l) ==
    /\ pc[l] = "respond"
    /\ toRoot' = SendTlv(toRoot, l, "CONFIG_RESPONSE", {l})
    /\ pc' = [pc EXCEPT ![l] = "waitComposite"]
    /\ UNCHANGED <<rootIp, connected, rootVars, threadVars, all_hosts, rules,
                   netToLeaf, rootBuf, faults>>

\* send fails on a connection whose root has gone.
LeafRespondFails(l) ==
    /\ pc[l] = "respond"
    /\ ~RootAlive(l)
    /\ pc' = [pc EXCEPT ![l] = "failed"]
    /\ UNCHANGED <<rootIp, connected, rootVars, threadVars, all_hosts, rules,
                   netToLeaf, netToRoot, faults>>

LeafComposite(l) ==
    /\ pc[l] = "waitComposite"
    /\ LeafHeader(l, "COMPOSITE_CONFIG", "readComposite")

\* deserialize_all_hosts keeps the configurations by host_name; of two with
\* one name the later stays, and the order is that of a hash table.
Deserialized(db, hosts) ==
    {new \in [DOMAIN db \cup {HostName[g] : g \in hosts} -> Hosts] :
        \A k \in DOMAIN new :
            IF \E g \in hosts : HostName[g] = k
            THEN new[k] \in hosts /\ HostName[new[k]] = k
            ELSE new[k] = db[k]}

LeafPayload(l) ==
    /\ pc[l] = "readComposite"
    /\ leafBuf[l] # <<>>
    /\ LET n == RecvSize(leafBuf[l]) IN
          /\ leafBuf' = [leafBuf EXCEPT ![l] = Rest(@, n)]
          /\ IF FullRead(n)
             THEN /\ \E new \in Deserialized(all_hosts[l],
                                             Head(leafBuf[l]).hosts) :
                        all_hosts' = [all_hosts EXCEPT ![l] = new]
                  /\ pc' = [pc EXCEPT ![l] = "install"]
             ELSE /\ pc' = [pc EXCEPT ![l] = "failed"]
                  /\ UNCHANGED all_hosts
    /\ UNCHANGED <<rootIp, connected, rootVars, threadVars, rules, toLeaf,
                   netToRoot, faults>>

LeafInstall(l) ==
    /\ pc[l] = "install"
    /\ ApplyRules(l)
    /\ pc' = [pc EXCEPT ![l] = "done"]
    /\ UNCHANGED <<rootIp, connected, rootVars, threadVars, all_hosts,
                   netToLeaf, netToRoot, faults>>

\* The root has closed the connection and nothing is left to read.
LeafEof(l) ==
    /\ pc[l] \in {"waitRequest", "waitComposite", "readComposite"}
    /\ ~RootAlive(l)
    /\ leafBuf[l] \o toLeaf[l] = <<>>
    /\ pc' = [pc EXCEPT ![l] = "failed"]
    /\ UNCHANGED <<rootIp, connected, rootVars, threadVars, all_hosts, rules,
                   netToLeaf, netToRoot, faults>>

LeafCrash(l) ==
    /\ pc[l] \in LeafStates
    /\ InjectFault
    /\ pc' = [pc EXCEPT ![l] = "failed"]
    /\ UNCHANGED <<rootIp, connected, rootVars, threadVars, all_hosts, rules,
                   netToLeaf, netToRoot>>

\* The leaf ends while it sends: a part of its answer is on the way.
LeafCrashSending(l) ==
    /\ pc[l] = "respond"
    /\ InjectFault
    /\ \E n \in 1 .. PayloadLen :
          toRoot' = [toRoot EXCEPT ![l] =
                        @ \o SubSeq(Tlv("CONFIG_RESPONSE", {l}), 1, n)]
    /\ pc' = [pc EXCEPT ![l] = "failed"]
    /\ UNCHANGED <<rootIp, connected, rootVars, threadVars, all_hosts, rules,
                   netToLeaf, rootBuf>>

-----------------------------------------------------------------------------
(* The network (external) *)

ArriveAtLeaf(l) ==
    /\ toLeaf[l] # <<>>
    /\ leafBuf' = [leafBuf EXCEPT ![l] = Append(@, Head(toLeaf[l]))]
    /\ toLeaf' = [toLeaf EXCEPT ![l] = Tail(@)]
    /\ UNCHANGED <<pc, rootIp, connected, rootVars, threadVars, all_hosts,
                   rules, netToRoot, faults>>

ArriveAtRoot(l) ==
    /\ toRoot[l] # <<>>
    /\ rootBuf' = [rootBuf EXCEPT ![l] = Append(@, Head(toRoot[l]))]
    /\ toRoot' = [toRoot EXCEPT ![l] = Tail(@)]
    /\ UNCHANGED <<pc, rootIp, connected, rootVars, threadVars, all_hosts,
                   rules, netToLeaf, faults>>

-----------------------------------------------------------------------------
(* Specification *)

Root(h) ==
    \/ RootListen(h) \/ RootAccept(h) \/ RootRequest(h) \/ RootSpawn(h)
    \/ RootCompose(h) \/ RootSend(h) \/ RootProgram(h) \/ RootClose(h)

Thread(l) ==
    \/ ThreadHeader(l) \/ ThreadPayload(l) \/ ThreadStore(l) \/ ThreadEof(l)

LeafNode(l) ==
    \/ LeafConnect(l) \/ LeafRequested(l) \/ LeafRespond(l)
    \/ LeafRespondFails(l) \/ LeafComposite(l) \/ LeafPayload(l)
    \/ LeafInstall(l) \/ LeafEof(l)

Next ==
    \E h \in Hosts :
        \/ Elect(h) \/ Root(h) \/ Thread(h) \/ LeafNode(h)
        \/ ArriveAtLeaf(h) \/ ArriveAtRoot(h)
        \/ RootKilled(h) \/ RootListenFails(h) \/ LeafCrash(h)
        \/ LeafCrashSending(h)

Spec == Init /\ [][Next]_vars

\* Every process and thread runs, and TCP delivers.
FairSpec ==
    /\ Spec
    /\ \A h \in Hosts :
          /\ WF_vars(Elect(h)) /\ WF_vars(Root(h)) /\ WF_vars(Thread(h))
          /\ WF_vars(LeafNode(h))
          /\ WF_vars(ArriveAtLeaf(h)) /\ WF_vars(ArriveAtRoot(h))

-----------------------------------------------------------------------------
(* Properties *)

\* Two hosts that have programmed their rules know of the same hosts, whatever
\* answers the root missed: run_root_node serialises its table once, after the
\* last thread has ended, and nothing is added to it later.
SameView ==
    \A g, h \in Hosts :
        (pc[g] \in {"close", "done"} /\ pc[h] \in {"close", "done"}) =>
            Stored(g) = Stored(h)

\* A configuration is taken only from a message read whole: for a leaf the
\* root knows, and a leaf with the composite, nothing is left of the message
\* on the connection, however recv has cut it up.
WholePayloads ==
    \A l \in Hosts :
        /\ l \in Stored(rootIp[l]) => rootBuf[l] \o toRoot[l] = <<>>
        /\ pc[l] \in {"install", "done"} => leafBuf[l] \o toLeaf[l] = <<>>

\* The bootstrap is a barrier: no host installs a rule before every leaf has
\* answered or its connection has failed.
RulesAfterAnswers ==
    \A h \in Hosts : rules[h] # {} =>
        \A l \in Hosts : rootIp[l] # l => thread[l] = "exit"

\* "skip local host" (apply_remote_vip_iptables_rule): a host installs no
\* remote rule for its own virtual addresses.
SkipsLocalHost == \A h \in Hosts : <<"remote", h>> \notin rules[h]

\* Every host ends, when nothing fails or once every leaf has connected: no
\* process waits for a message that is not sent or for a thread that hangs.
AllEnded == \A h \in Hosts : pc[h] \in Ended
AllConnected ==
    \A h \in Hosts : h \in connected \/ (pc[h] # "start" /\ rootIp[h] = h)
BootstrapEnds ==
    /\ <>(faults > 0 \/ AllEnded)
    /\ (AllConnected /\ \E h \in Hosts : pc[h] = "accept") ~> AllEnded
=============================================================================
