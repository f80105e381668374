----------------------------- MODULE MCDelivery -----------------------------
(* Instances of Delivery: every sender and every routing, or one choice    *)
(* where liveness would not fit otherwise.                                 *)
EXTENDS Delivery

CONSTANTS s1, s2

MCAnyProtocol == SUBSET Sinks
MCAnyRouting == SUBSET (1 .. MaxMessages)

MCNotIdempotent == {{}}
MCFirstRouted == {{1}}
=============================================================================
