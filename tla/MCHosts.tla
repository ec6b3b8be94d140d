------------------------------ MODULE MCHosts ------------------------------
(***************************************************************************)
(* What the page does on SSH hosts, for TLC: flows of commands             *)
(* (CommandFlows), three of two lines, the second two in the group; or     *)
(* terminals (Terminal), two tabs, one directory below the shells' own,    *)
(* files of two names, and a service that keeps the last piece of output   *)
(* for a late reader.                                                      *)
(***************************************************************************)
EXTENDS CommandFlows, Terminal

\* The two share no variable: a behaviour is of one of them.
HostsInit == Init /\ TerminalInit
HostsNext ==
  \/ TerminalInit /\ Next /\ UNCHANGED terminalVars
  \/ Init /\ TerminalNext /\ UNCHANGED vars

HostsSpec ==
  /\ HostsInit /\ [][HostsNext]_<<vars, terminalVars>>
  /\ WF_vars(GoOn) /\ \A r \in Runs : WF_vars(~Due /\ Answer(r))
=============================================================================
