------------------------------ MODULE MCLogFeed ------------------------------
(***************************************************************************)
(* LogFeed for TLC: two syncs on their way, a service that restarts and    *)
(* each time numbers a record of a history load and two live ones, of      *)
(* which the page keeps two; a pause, a range change or a failure.         *)
(***************************************************************************)
EXTENDS LogFeed
=============================================================================
