----------------------------- MODULE MCTransport -----------------------------
(* Workloads for NetTransport; the other bounds are set in the cfg files. *)
EXTENDS NetTransport

Msg(size, proto) == [size |-> size, proto |-> proto]

\* All messages wait for their completion.  Every size is another one, so that
\* a size reported for the wrong message shows; one message is empty.
Simple == [t \in Msgs |-> Msg(IF t = 1 THEN 0 ELSE t + 1, "Simple")]

\* The two kinds in turn, as two collectives of different protocols make them.
Mixed == [t \in Msgs |-> Msg(t + 1, IF t % 2 = 1 THEN "LL" ELSE "Simple")]

\* Mostly messages without completion: requests that end without a poll.
LowLatency == [t \in Msgs |-> Msg(t + 1, IF t = 2 THEN "Simple" ELSE "LL")]

MCWorkloads == {Simple, Mixed, LowLatency}
=============================================================================
