--------------------------- MODULE MCHistoryWindow --------------------------
(***************************************************************************)
(* HistoryWindow for TLC: one node with one container of three records     *)
(* that is replaced by an empty one, two range widths.                                        *)
(***************************************************************************)
EXTENDS HistoryWindow

CONSTANTS n1, c1, c2, w1, w2

MCNodes == {n1}
MCContainers == {c1, c2}
MCPinned == [n \in MCNodes |-> NoContainer]
MCRanges == {2, 3}
MCDepths == 0..3
MCWorkers == {w1, w2}

MCRequests == {[nodes |-> {}, containers |-> {}]}

MCReplaced == {{c1}, {c2}}

MCThreeRecords == [k \in Keys |-> IF k[2] = c1 THEN {1, 2, 3} ELSE {}]
\* The container with records is the one that is asked for and streamed.
MCFirst == {<<n1, c1>>}
=============================================================================
