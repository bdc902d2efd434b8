----------------------------- MODULE MCCatalog -----------------------------
(***************************************************************************)
(* A small catalog for TLC.  Product p1 has variant v1 and supplier s1 and *)
(* belongs, like category k1 and customer d1, to the organization of the   *)
(* callers; what ends in 9 belongs to another.  The rest is to be created. *)
(***************************************************************************)
EXTENDS CatalogHistory, TLC

CONSTANTS p1, p2, p3, p9, v1, v2, v9, k1, k2, k3, k9, s1, s2, s3, s9, d1, d2, d9, w1, w9, b1, b9, z1, z2, n1

MCForeign == {p9, v9, k9, s9, d9, w9, b9}

MCExisting == {p1, p9, v1, v9, k1, k9, s1, s2, s9, d1, d9}

MCFamily == (v1 :> p1) @@ (v2 :> None) @@ (v9 :> p9)

MCLinked == {<<p1, s1>>, <<p9, s9>>}

MCSite == (b1 :> w1) @@ (b9 :> w9)

Ask(op, on, in) == [op |-> op, on |-> on, in |-> in]

NoChange == [sku |-> Absent, category |-> Absent, suppliers |-> Absent, variants |-> Absent, active |-> Absent]

NewProducts ==
    {[NoChange EXCEPT !.sku = n1, !.category = k1, !.suppliers = {s1}],
     [NoChange EXCEPT !.category = k9], [NoChange EXCEPT !.suppliers = {s9}],
     [NoChange EXCEPT !.variants = [keep |-> {}, add |-> TRUE, active |-> Absent]]}

ProductChanges ==
    {[NoChange EXCEPT !.sku = n1, !.active = TRUE], [NoChange EXCEPT !.category = k1], [NoChange EXCEPT !.category = k9],
     [NoChange EXCEPT !.suppliers = {s2}], [NoChange EXCEPT !.suppliers = {s1, s2}],
     [NoChange EXCEPT !.suppliers = {s9}],
     [NoChange EXCEPT !.variants = [keep |-> {}, add |-> TRUE, active |-> Absent]],
     [NoChange EXCEPT !.variants = [keep |-> {v1}, add |-> FALSE, active |-> TRUE]],
     [NoChange EXCEPT !.variants = [keep |-> {v9}, add |-> FALSE, active |-> FALSE]]}

NewOrders(parties) ==
    [party : parties, product : {p1}, variant : {None, v1, v9}] \cup {[party |-> s, product |-> p9, variant |-> None] : s \in parties}

MCAsked ==
    {Ask("createProduct", None, in) : in \in NewProducts}
    \cup {Ask("updateProduct", p1, in) : in \in ProductChanges}
    \cup {Ask("updateProduct", p, [NoChange EXCEPT !.sku = n1]) : p \in {p2, p3}}
    \cup {Ask("updateProduct", p9, [NoChange EXCEPT !.active = FALSE])}
    \cup {Ask("deleteProduct", p9, None)}
    \cup {Ask("createCategory", None, n1)}
    \cup {Ask("updateCategory", k, n1) : k \in {k1, k9}}
    \cup {Ask("deleteCategory", k, None) : k \in {k1, k9}}
    \cup {Ask("deleteSupplier", s, None) : s \in {s1, s9}}
    \cup {Ask("deleteCustomer", d, None) : d \in {d1, d9}}
    \cup {Ask("createPurchaseOrder", None, in) : in \in NewOrders({s1, s9})}
    \cup {Ask("createSalesOrder", None, in) : in \in NewOrders({d1, d9})}
    \cup {Ask("postStock", None, in) :
             in \in [product : {p1, p9}, variant : {None, v1, v9}, warehouse : {w1}, bin : {None, b1, b9}]
                    \cup {[product |-> p1, variant |-> None, warehouse |-> w9, bin |-> None]}}

Symmetry == Permutations(Calls) \cup Permutations(Forms) \cup Permutations({p2, p3}) \cup Permutations({k2, k3})
=============================================================================
