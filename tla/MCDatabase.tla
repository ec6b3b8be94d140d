----------------------------- MODULE MCDatabase -----------------------------
(***************************************************************************)
(* Two tables of two connections, of which one has a second database; two  *)
(* SQL tabs and two edits.                                                 *)
(***************************************************************************)
EXTENDS DatabaseEditor, TLC

CONSTANTS t1, t2, c1, c2, d1, d2, d3
MCConnectionOf == t1 :> c1 @@ t2 :> c2
MCDatabaseOf == t1 :> d1 @@ t2 :> d3
MCProfileOf == d1 :> c1 @@ d2 :> c1 @@ d3 :> c2

\* One table, for long sequences of clicks.
OneConnectionOf == t1 :> c1
OneDatabaseOf == t1 :> d1
OneProfileOf == d1 :> c1
=============================================================================
