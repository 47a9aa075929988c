---------------------------- MODULE MCTelemetry ----------------------------
(* Small processes for Telemetry. *)
EXTENDS Telemetry

Qp(dev, num, data, name) ==
    [dev |-> dev, channel |-> 0, num |-> num, data |-> data, name |-> name]

\* A send communicator with two QPs: completion times.
Sending == [qps |-> <<Qp(0, 1, TRUE, 0), Qp(0, 2, TRUE, NoDevice)>>, work |-> 3,
            signals |-> 0, faults |-> 0, exits |-> {}]
\* A second QP gets the number of the first, and QPs of two devices share one.
Reusing == [qps |-> <<Qp(0, 1, TRUE, 0), Qp(0, 1, TRUE, NoDevice)>>, work |-> 4,
            signals |-> 0, faults |-> 0, exits |-> {}]
Sharing == [qps |-> <<Qp(0, 1, TRUE, 0), Qp(1, 1, FALSE, NoDevice)>>, work |-> 2,
            signals |-> 0, faults |-> 0, exits |-> {}]
\* A channel with a data and a clear-to-send QP, reported while it is used, and
\* reported because of a signal while its QPs are created.
Reported == [qps |-> <<Qp(0, 1, TRUE, NoDevice), Qp(0, 2, FALSE, NoDevice)>>,
             work |-> 3, signals |-> 0, faults |-> 0, exits |-> {}]
Signalled == [Reported EXCEPT !.work = 1, !.signals = 1]
\* The process ends while QPs on two devices are reported, or while a QP and a
\* signal start reports.
Ending == [qps |-> <<Qp(0, 1, TRUE, 1), Qp(1, 2, FALSE, NoDevice)>>, work |-> 0,
           signals |-> 0, faults |-> 1, exits |-> {"main", "app", "thread"}]
Interrupted == [qps |-> <<Qp(0, 1, TRUE, 0)>>, work |-> 1, signals |-> 1, faults |-> 1,
                exits |-> {"main", "app", "sig", "thread"}]

MCPlans == {Sending, Reusing, Sharing, Reported, Signalled, Ending, Interrupted}
=============================================================================
