----------------------------- MODULE MCStartup -----------------------------
(* Small hosts for Startup. *)
EXTENDS Startup, TLC

CONSTANTS t1, t2

ArNotSet == -2

G(fam, valid, subnet, ver) ==
    [read |-> TRUE, fam |-> fam, valid |-> valid, subnet |-> subnet, ver |-> ver, flid |-> FALSE]
Link6 == G(6, FALSE, TRUE, 1)
Good == G(4, TRUE, TRUE, 2)

Up(link, table) == [active |-> TRUE, link |-> link, speed |-> 32, width |-> 2,
                   selected |-> TRUE, gids |-> table]
Roce == Up("RoCE", <<Link6, Good>>)
Slow == [Roce EXCEPT !.speed = 1]
Ib == Up("IB", <<Link6, [Link6 EXCEPT !.flid = TRUE]>>)
Down == [Roce EXCEPT !.active = FALSE]
Unselected == [Roce EXCEPT !.selected = FALSE]

Nic_(bus, fn, ports) == [guid |-> bus, bus |-> bus, slot |-> 0, fn |-> fn,
                        max_qp |-> 8, ports |-> ports]

Search == [index |-> -1, fam |-> 4, ver |-> 2, routable |-> 1]
Default == [Search EXCEPT !.index = 0]

Inventories == {
    <<Nic_(1, 0, <<Roce>>), Nic_(2, 0, <<Slow>>)>>,            \* two NICs
    <<Nic_(1, 0, <<Roce, Slow>>)>>,                           \* two ports
    <<Nic_(1, 0, <<Roce>>), Nic_(1, 1, <<Slow>>)>>,            \* two functions
    <<Nic_(1, 0, <<Roce, Slow>>), Nic_(2, 0, <<Roce>>)>>,      \* mixed
    <<Nic_(1, 0, <<Roce, Ib>>)>>,                             \* two links
    <<Nic_(1, 0, <<Down>>), Nic_(2, 0, <<Unselected, Ib>>)>>,
    <<Nic_(1, 0, <<Roce>>), Nic_(2, 0, <<Slow>>), Nic_(3, 0, <<Roce>>),
      Nic_(4, 0, <<Slow>>)>>}                                 \* one too many

\* What a search can tell apart: a GID of the other family, and one of the
\* family asked for in all its forms.
GidClasses == {Link6, [Good EXCEPT !.read = FALSE]}
              \cup [read : {TRUE}, fam : {4}, valid : BOOLEAN, subnet : BOOLEAN,
                    ver : 0 .. 3, flid : {FALSE}]
GidTables == {<<a, b, c>> : a, b, c \in GidClasses}

MCHosts ==
    {[hcas |-> i, callers |-> {t1, t2}, gid |-> Default] : i \in Inventories}
    \cup {[hcas |-> <<Nic_(1, 0, <<Up("RoCE", g)>>)>>, callers |-> {t1},
           gid |-> Search] : g \in GidTables}
    \cup {[hcas |-> <<Nic_(1, 0, <<Roce, Slow, Slow>>)>>, callers |-> {t1},
           gid |-> Default]}

\* One thread sends on two channels, the other receives on the first of them
\* from the same NIC.
MCConns == (t1 :> <<[call |-> "connect", dev |-> 0, channel |-> 0],
                    [call |-> "connect", dev |-> 0, channel |-> 1]>>)
           @@ (t2 :> <<[call |-> "accept", dev |-> 0, channel |-> 0]>>)
=============================================================================
