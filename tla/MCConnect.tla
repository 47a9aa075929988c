----------------------------- MODULE MCConnect -----------------------------
(* Small instances of NetConnect for TLC. *)
EXTENDS NetConnect

\* MTUs (enum ibv_mtu) of two devices; on the first the receiver's is the
\* smaller one, on the second the sender's.
SenderMtus == [d \in 0 .. 1 |-> IF d = 0 THEN 5 ELSE 3]
ReceiverMtus == [d \in 0 .. 1 |-> IF d = 0 THEN 4 ELSE 5]
=============================================================================
