-------------------------------- MODULE Fifo --------------------------------
(***************************************************************************)
(* A queue that neither loses, repeats nor reorders: what the transmit     *)
(* path of the UART (UartTx.tla) promises.  Nothing bounds it here.        *)
(***************************************************************************)
EXTENDS Sequences

CONSTANT Bytes

VARIABLE q

Init == q = <<>>

Put(b) == q' = Append(q, b)
Get    == q # <<>> /\ q' = Tail(q)

Next == Get \/ \E b \in Bytes : Put(b)

Spec == Init /\ [][Next]_q
=============================================================================
