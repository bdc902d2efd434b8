------------------------------ MODULE MCPages ------------------------------
(***************************************************************************)
(* The pages over master data and those people work with, for TLC.  The    *)
(* two share no variable, and a step of one is the same whatever the other *)
(* has come to: each is explored while the other has not begun.            *)
(***************************************************************************)
EXTENDS MCCatalog, Workbench

pagesVars == <<catalogVars, history, workbenchVars>>

CatalogRests == HistoryInit /\ UNCHANGED <<catalogVars, history>>

\* On the page that has one status only.
WorkbenchRests == WorkbenchInit /\ doc.kind = "stock" /\ UNCHANGED workbenchVars

PagesNext ==
    \/ CatalogRests /\ WorkbenchNext
    \/ WorkbenchRests /\ HistoryNext

PagesInit == HistoryInit /\ WorkbenchInit

PagesSpec == PagesInit /\ [][PagesNext]_pagesVars

PagesSymmetry == Permutations(Users) \cup Permutations(Commands) \cup Symmetry
=============================================================================
