----------------------------- MODULE MCLogScope -----------------------------
(***************************************************************************)
(* LogScope for TLC: a node of two containers and a node of none; later    *)
(* the service lists one container of the first node only.                 *)
(***************************************************************************)
EXTENDS LogScope

CONSTANTS n1, n2, a, b

MCNodeOf == (a :> n1) @@ (b :> n1)
MCLists == {[nodes |-> {n1}, containers |-> {a}]}
=============================================================================
