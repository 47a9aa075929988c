----------------------------- MODULE NetChannel -----------------------------
(***************************************************************************)
(* What a connected pair of communicators promises RCCL                    *)
(* (the isend, irecv and test entries of NCCL_NET_PLUGIN_SYMBOL in         *)
(* src/src/net_ib.cc): the t-th receive posted gets the data of the t-th   *)
(* send, and a completion is reported only for data that arrived.          *)
(* Messages may arrive in any order: a connection has several QPs.         *)
(***************************************************************************)
EXTENDS Integers

CONSTANTS Msgs,      \* 0 .. n-1
          Workloads  \* what may be exchanged: size and kind of each message

None == -1

VARIABLES
    work,       \* the messages; an LL one wants no receive completion
    sent,       \* the sends posted
    sendDone,   \* the sends reported complete
    posted,     \* the receives posted
    buffer,     \* the message whose data a receive's buffer holds
    reported    \* the size test reported for a receive

chVars == <<work, sent, sendDone, posted, buffer, reported>>

Init ==
    /\ work \in Workloads
    /\ sent = {}
    /\ sendDone = {}
    /\ posted = {}
    /\ buffer = [t \in Msgs |-> None]
    /\ reported = [t \in Msgs |-> None]

\* Sends and receives are numbered in the order of the calls.
Send(t) ==
    /\ t \notin sent
    /\ \A u \in Msgs : u < t => u \in sent
    /\ sent' = sent \cup {t}
    /\ UNCHANGED <<work, sendDone, posted, buffer, reported>>

Post(t) ==
    /\ t \notin posted
    /\ \A u \in Msgs : u < t => u \in posted
    /\ posted' = posted \cup {t}
    /\ UNCHANGED <<work, sent, sendDone, buffer, reported>>

Deliver(t) ==
    /\ t \in sent
    /\ t \in posted
    /\ buffer[t] = None
    /\ buffer' = [buffer EXCEPT ![t] = t]
    /\ UNCHANGED <<work, sent, sendDone, posted, reported>>

SendDone(t) ==
    /\ buffer[t] = t
    /\ sendDone' = sendDone \cup {t}
    /\ UNCHANGED <<work, sent, posted, buffer, reported>>

\* A receive without completion reports size 0 whether its data came or not.
Report(t) ==
    /\ t \in posted
    /\ reported[t] = None
    /\ work[t].proto = "Simple" => buffer[t] = t
    /\ reported' = [reported EXCEPT ![t] = IF work[t].proto = "LL" THEN 0
                                                ELSE work[t].size]
    /\ UNCHANGED <<work, sent, sendDone, posted, buffer>>

Next == \E t \in Msgs :
           \/ Send(t) \/ Post(t) \/ Deliver(t) \/ SendDone(t) \/ Report(t)

Spec == Init /\ [][Next]_chVars
=============================================================================
