--------------------------- MODULE MCPerIpFeatures ---------------------------
(* Per-IP features: a protected address, and prefixes around it.             *)
EXTENDS PerIpFeatures, TLC

CONSTANTS host, net, wide, narrow

\* An address of its own inside one prefix, and the network address of that
\* prefix, where packets to the rest of it count.
OneNetwork == [n \in Subnets |-> net]
Around == [d \in Destinations |-> IF wide \in Subnets THEN <<narrow, wide>> ELSE <<narrow>>]
=============================================================================
