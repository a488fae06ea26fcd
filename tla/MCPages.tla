------------------------------ MODULE MCPages ------------------------------
(***************************************************************************)
(* The browser: pages that follow an update of the panel, and the page of  *)
(* a stack.  They share no state, so a behaviour is one of the two, as in  *)
(* MCServer.                                                               *)
(***************************************************************************)
EXTENDS PanelUpdate, SelectionPage

CONSTANTS p1, p2, n1, n2, w1, w2

VARIABLE focus

Symmetry == Permutations(StackNames) \cup Permutations(Windows)

MCInit ==
    /\ focus \in {"update", "selection"}
    /\ Init /\ SelInit
    /\ focus # "selection" =>
         /\ owner
         /\ screen.selected = CHOOSE stack \in StackNames : TRUE
         /\ screen.window = CHOOSE hours \in Windows : TRUE
MCNext ==
    \/ focus = "update" /\ Next /\ UNCHANGED <<screenVars, focus>>
    \/ focus = "selection" /\ SelNext /\ UNCHANGED <<vars, focus>>
\* Bound: one preview, whose second request is the update (PanelUpdateEnds has more).
OnePreview == \A p \in Pages : pages[p].node.name = "preview" => pages[p].node.request # 2
MCSpec == MCInit /\ [][MCNext]_<<vars, screenVars, focus>>
=============================================================================
