--------------------------- MODULE CatalogHistory ---------------------------
(***************************************************************************)
(* Catalog with what callers could know: what was linked and active when a *)
(* call was sent, and all that was active at some time since.  No code     *)
(* keeps these; they are there for two properties of crossing calls.       *)
(***************************************************************************)
EXTENDS Catalog

VARIABLES
    then,     \* then[c]: the links and the active variants when call c was sent
    since     \* since[c]: whatever was active at some time since

history == <<then, since>>

NoPast == [links |-> {}, variants |-> {}]

Present == [links |-> link, variants |-> {v \in Variants : variant[v].active}]

HistoryInit ==
    /\ CatalogInit
    /\ then = [c \in Calls |-> NoPast]
    /\ since = [c \in Calls |-> {}]

UnderWay(c) == call[c].step \notin {"none", "done", "refused"}

HistoryNext ==
    /\ CatalogNext
    /\ then' = [c \in Calls |-> IF ~UnderWay(c)' THEN NoPast ELSE IF call[c].step = "none" THEN Present ELSE then[c]]
    /\ since' = [c \in Calls |-> IF UnderWay(c)' THEN since[c] \cup Active' ELSE {}]

HistorySpec == HistoryInit /\ [][HistoryNext]_<<catalogVars, history>>

----------------------------------------------------------------------------
(* Properties                                                              *)

\* Product updates that cross: when an update with a supplier list is stored, none of the links it found
\* when it was sent outlives it unless the list names it; the same for the list of variants.
LaterListsWin ==
    [][\A c \in Calls :
           call[c].op = "updateProduct" /\ call[c].step = "write" /\ call'[c].step = "done" =>
               LET in == call[c].in  p == call[c].on
               IN  /\ in.suppliers # Absent =>
                          \A row \in link' : row.product = p => row.by = c \/ row \notin then[c].links
                   /\ in.variants # Absent =>
                          \A v \in VariantsOf(p) :
                              variant'[v].active => v \in in.variants.keep \/ v \notin then[c].variants]_<<catalogVars, history>>

\* An order is stored only for a supplier or customer, a product and a variant that were all active at some
\* time after it was asked for: none for what had been deactivated before.
NewOrdersNameLiveRecords ==
    [][\A o \in order' \ order :
           {o.party, o.product, o.variant} \ {None} \subseteq since[o.by] \cup Active]_<<catalogVars, history>>
=============================================================================
