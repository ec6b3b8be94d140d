------------------------------ MODULE MCBridge ------------------------------
(***************************************************************************)
(* Bridge for TLC: a call of every kind, bodies of up to three chunks and      *)
(* answers of up to three pieces.                                             *)
(***************************************************************************)
EXTENDS Bridge, TLC

CONSTANTS c1

MCOneCall == {c1}
=============================================================================
