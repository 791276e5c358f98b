------------------------------ MODULE MCUdpNat ------------------------------
(* Instances of UdpNat: packets p1 and p2 of client i1, q1 of client i2.    *)
EXTENDS UdpNat, TLC

CONSTANTS i1, i2, p1, p2, q1

FromOf == (p1 :> i1) @@ (p2 :> i1) @@ (q1 :> i2)
MCFrom == [p \in Packet |-> FromOf[p]]
=============================================================================
