--------------------------- MODULE MCHistoryLoads ---------------------------
(***************************************************************************)
(* HistoryLoads for TLC: one node with one container, two range widths     *)
(* and two selections (everything, the container).                          *)
(***************************************************************************)
EXTENDS HistoryLoads

CONSTANTS n1, c1, w1, w2

MCNodes == {n1}
MCContainers == {c1}
MCPinned == [n \in MCNodes |-> NoContainer]
MCRanges == {1, 2}
MCRequests == {[nodes |-> {}, containers |-> {}],
               [nodes |-> {}, containers |-> {<<n1, c1>>}]}
MCReports == {{c1}, {}}
MCDepths == {0}
MCWorkers == {w1, w2}
=============================================================================
