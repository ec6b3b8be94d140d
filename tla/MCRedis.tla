------------------------------- MODULE MCRedis -------------------------------
(***************************************************************************)
(* Two connections with three keys, two of them below the chosen prefix.   *)
(***************************************************************************)
EXTENDS Redis

CONSTANTS k1, k2, k3, c1, c2
=============================================================================
