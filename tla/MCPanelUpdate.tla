--------------------------- MODULE MCPanelUpdate ---------------------------
(* Small instances of PanelUpdate for TLC. *)
EXTENDS PanelUpdate

CONSTANTS p1, p2

\* Nothing goes wrong: what the helpers, the panel and the pages do by themselves.
UntroubledSpec == Init /\ [][NoTrouble /\ Next]_vars /\ Fairness
=============================================================================
