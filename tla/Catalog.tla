------------------------------ MODULE Catalog ------------------------------
(***************************************************************************)
(* Master data: products with their variants and supplier links,           *)
(* categories, suppliers, customers, zones and bins of one organization,   *)
(* the orders and stock commands that name them, and the pages' forms      *)
(* that create them.                                                       *)
(*                                                                         *)
(* The transactions of products run at READ COMMITTED: each statement sees *)
(* what is committed when it runs, and is a step of its own here where     *)
(* another call could come between.  What a transaction writes is applied  *)
(* when it commits; one whose row locks cross those of another fails like  *)
(* any that loses its connection.  Orders and stock commands are           *)
(* serializable: they read one snapshot.  Names, prices and the audit row  *)
(* of each command are left out, and with them the updates of suppliers    *)
(* and customers, which reach nothing else.                                *)
(***************************************************************************)
EXTENDS Naturals, FiniteSets

CONSTANTS
    Products, Variants, Categories, Suppliers, Customers, Zones, Bins,
    Foreign,      \* the products, categories, ... of another organization
    Existing,     \* the products, variants, categories, suppliers and customers there are at first,
    Family,       \* Family[v]: the product of variant v at first,
    Linked,       \* the pairs of a product and a supplier linked at first
    Site,         \* Site[b]: the warehouse of bin b
    Names,        \* SKUs, slugs and codes
    Blank,        \* a field left empty
    None,         \* null
    Absent,       \* a field that the request does not have
    Asked,        \* what callers of the API ask for
    Forms, Calls  \* bounds: forms opened, requests made

ASSUME IdsAssumption == {None, Absent} \cap (Products \cup Variants \cup Categories \cup Calls \cup Forms \cup Foreign \cup Names \cup {Blank}) = {}

\* At first, what belongs together belongs to one organization.
ASSUME OrganizationsAssumption ==
    /\ Existing \subseteq Products \cup Variants \cup Categories \cup Suppliers \cup Customers
    /\ \A v \in Variants \cap Existing : Family[v] \in Products /\ (v \in Foreign <=> Family[v] \in Foreign)
    /\ \A pair \in Linked : pair \in Products \X Suppliers /\ (pair[1] \in Foreign <=> pair[2] \in Foreign)

\* An id that is looked up in a table is one that the table has or might have.
ASSUME RequestsAssumption ==
    \A request \in Asked :
        /\ request.op = "createPurchaseOrder" => request.in.party \in Suppliers
        /\ request.op = "createSalesOrder" => request.in.party \in Customers

VARIABLES product, variant, link, category, supplier, customer, zone, order, stock, call, form

catalog == <<product, variant, link, category, supplier, customer, zone>>

catalogVars == <<catalog, order, stock, call, form>>

----------------------------------------------------------------------------

Rows(table) == {x \in DOMAIN table : table[x].row}

Own(ids) == ids \ Foreign

VariantsOf(p) == {v \in Variants : variant[v].of = p}

Active ==
    {p \in Products : product[p].row /\ product[p].active} \cup {v \in Variants : variant[v].active}
    \cup {s \in Suppliers : supplier[s] = "ACTIVE"} \cup {d \in Customers : customer[d] = "ACTIVE"}

\* form: the form that gave the record the name it has, for the properties; no code keeps it.
NoProduct == [row |-> FALSE, sku |-> None, category |-> None, active |-> FALSE, status |-> "ACTIVE", form |-> None]

NoName == [row |-> FALSE, name |-> None, form |-> None]

NoCall == [op |-> "none", step |-> "none", on |-> None, in |-> None, form |-> None, awaited |-> FALSE,
           seen |-> {}, gone |-> {}]

ClosedForm == [kind |-> "none", name |-> None, state |-> "new"]

At(c, op, step) == call[c].op = op /\ call[c].step = step

Goto(c, step) == call' = [call EXCEPT ![c].step = step]

\* The transaction is rolled back, the caller gets an error.
Refuse(c) == Goto(c, "refused") /\ UNCHANGED <<catalog, order, stock>>

Done(c) == Goto(c, "done")

----------------------------------------------------------------------------
(* products.service.ts                                                     *)

\* A blank SKU is not looked up, but it is stored, and it is unique like any other.
SkuTaken(sku) == sku \in Names /\ \E p \in Own(Rows(product)) : product[p].sku = sku

\* The unique index; null is not equal to null.
SkuFree(p, sku) == sku = None \/ \A q \in Own(Rows(product)) \ {p} : product[q].sku # sku

\* The foreign key; a deletion under way has set the column to null by the time it commits.
CategoryStands(k) == k \in {None, Absent} \/ category[k].row

Sku(sku) == IF sku = Absent THEN None ELSE sku

checkSku(c) ==
    /\ \/ At(c, "createProduct", "sku") /\ IF SkuTaken(call[c].in.sku) THEN Refuse(c) ELSE Goto(c, "category")
       \/ /\ At(c, "updateProduct", "sku")
          /\ LET p == call[c].on
             IN  IF \/ p \notin Own(Rows(product))
                    \/ call[c].in.sku # product[p].sku /\ SkuTaken(call[c].in.sku)
                 THEN Refuse(c) ELSE Goto(c, "category")
    /\ UNCHANGED <<catalog, order, stock, form>>

\* What if the ids of a request were taken for ids of the caller's organization?
BugValidateRelations(c) ==
    /\ \/ /\ call[c].step = "category"
          /\ IF call[c].in.category \in Rows(category) \cup {None, Absent} THEN Goto(c, "suppliers") ELSE Refuse(c)
       \/ /\ call[c].step = "suppliers"
          /\ IF call[c].in.suppliers = Absent \/ \A s \in call[c].in.suppliers : supplier[s] = "ACTIVE"
             THEN Goto(c, IF call[c].op = "createProduct" THEN "write" ELSE "variants") ELSE Refuse(c)
    /\ UNCHANGED <<catalog, order, stock, form>>

validateRelations(c) ==
    /\ \/ /\ call[c].step = "category"
          /\ IF call[c].in.category \in Own(Rows(category)) \cup {None, Absent}
             THEN Goto(c, "suppliers") ELSE Refuse(c)
       \/ /\ call[c].step = "suppliers"
          /\ IF \/ call[c].in.suppliers = Absent
                \/ \A s \in call[c].in.suppliers : s \notin Foreign /\ supplier[s] = "ACTIVE"
             THEN Goto(c, IF call[c].op = "createProduct" THEN "write" ELSE "variants") ELSE Refuse(c)
    /\ UNCHANGED <<catalog, order, stock, form>>

Links(p, suppliers, c) ==
    IF suppliers = Absent THEN {} ELSE {[product |-> p, supplier |-> s, by |-> c] : s \in suppliers}

createProduct(c) ==
    /\ At(c, "createProduct", "write")
    /\ LET in == call[c].in
       IN  IF ~SkuFree(None, Sku(in.sku)) \/ ~CategoryStands(in.category) THEN Refuse(c)
           ELSE \E p \in Own(Products) \ Rows(product) :
                    /\ product' = [product EXCEPT ![p] =
                           [row |-> TRUE, sku |-> Sku(in.sku), category |-> Sku(in.category), active |-> TRUE,
                            status |-> "ACTIVE", form |-> call[c].form]]
                    /\ link' = link \cup Links(p, in.suppliers, c)
                    /\ IF in.variants # Absent /\ in.variants.add
                       THEN \E v \in VariantsOf(None) : variant' = [variant EXCEPT ![v] = [of |-> p, active |-> TRUE]]
                       ELSE UNCHANGED variant
                    /\ Done(c)
                    /\ UNCHANGED <<category, supplier, customer, zone, order, stock>>
    /\ UNCHANGED form

\* The variants are listed before the update waits for any row.
readVariants(c) ==
    /\ At(c, "updateProduct", "variants")
    /\ LET in == call[c].in  current == VariantsOf(call[c].on)
       IN  IF in.variants = Absent THEN Goto(c, "links")
           ELSE IF ~(in.variants.keep \subseteq current) THEN Refuse(c)
           ELSE call' = [call EXCEPT ![c].step = "links", ![c].seen = current]
    /\ UNCHANGED <<catalog, order, stock, form>>

\* What if new suppliers were added to the links that stand?
BugDeleteLinks(c) ==
    /\ At(c, "updateProduct", "links")
    /\ Goto(c, "write")
    /\ UNCHANGED <<catalog, order, stock, form>>

\* deleteMany deletes the rows it sees.
deleteLinks(c) ==
    /\ At(c, "updateProduct", "links")
    /\ call' = [call EXCEPT ![c].step = "write",
                            ![c].gone = IF call[c].in.suppliers = Absent THEN {}
                                        ELSE {row \in link : row.product = call[c].on}]
    /\ UNCHANGED <<catalog, order, stock, form>>

\* A variant that the list names is changed as it says, one it leaves out is archived, one without id is new.
Listed(in, seen, p, fresh) ==
    [v \in Variants |->
        CASE v = fresh                                                  -> [of |-> p, active |-> TRUE]
          [] v \in in.variants.keep /\ in.variants.active # Absent      -> [variant[v] EXCEPT !.active = in.variants.active]
          [] v \in seen \ in.variants.keep                              -> [variant[v] EXCEPT !.active = FALSE]
          [] OTHER                                                      -> variant[v]]

updateProduct(c) ==
    /\ At(c, "updateProduct", "write")
    /\ LET p == call[c].on  in == call[c].in
           kept == link \ call[c].gone  new == Links(p, in.suppliers, c)
           Set(value, old) == IF value = Absent THEN old ELSE value
       IN  IF \/ in.sku # Absent /\ ~SkuFree(p, in.sku)
              \/ ~CategoryStands(in.category)
              \/ \E old \in kept, row \in new : old.product = p /\ old.supplier = row.supplier
           THEN Refuse(c)
           ELSE /\ product' = [product EXCEPT ![p].sku = Set(in.sku, @), ![p].category = Set(in.category, @),
                                              ![p].active = Set(in.active, @),
                                              ![p].form = IF Set(in.sku, product[p].sku) = product[p].sku THEN @ ELSE None]
                /\ link' = kept \cup new
                /\ IF in.variants = Absent THEN UNCHANGED variant
                   ELSE IF in.variants.add
                   THEN \E v \in VariantsOf(None) : variant' = Listed(in, call[c].seen, p, v)
                   ELSE variant' = Listed(in, call[c].seen, p, None)
                /\ Done(c)
                /\ UNCHANGED <<category, supplier, customer, zone, order, stock>>
    /\ UNCHANGED form

deleteProduct(c) ==
    /\ At(c, "deleteProduct", "write")
    /\ IF call[c].on \notin Own(Rows(product)) THEN Refuse(c)
       ELSE /\ product' = [product EXCEPT ![call[c].on].active = FALSE, ![call[c].on].status = "DISCONTINUED"]
            /\ Done(c)
            /\ UNCHANGED <<variant, link, category, supplier, customer, zone, order, stock>>
    /\ UNCHANGED form

----------------------------------------------------------------------------
(* categories.service.ts: no transactions, so each statement is one        *)

SlugTaken(k, slug) == \E j \in Own(Rows(category)) \ {k} : category[j].name = slug

createCategory(c) ==
    /\ \/ At(c, "createCategory", "slug") /\ IF SlugTaken(None, call[c].in) THEN Refuse(c) ELSE Goto(c, "write")
                                          /\ UNCHANGED <<catalog, order, stock>>
       \/ /\ At(c, "createCategory", "write")
          /\ IF SlugTaken(None, call[c].in) THEN Refuse(c)
             ELSE \E k \in Own(Categories) \ (Rows(category) \cup Existing) :
                      /\ category' = [category EXCEPT ![k] = [row |-> TRUE, name |-> call[c].in, form |-> call[c].form]]
                      /\ Done(c)
                      /\ UNCHANGED <<product, variant, link, supplier, customer, zone, order, stock>>
    /\ UNCHANGED form

updateCategory(c) ==
    LET k == call[c].on  taken == k \notin Own(Rows(category)) \/ SlugTaken(k, call[c].in)
    IN  /\ \/ /\ At(c, "updateCategory", "slug")
              /\ IF taken THEN Refuse(c) ELSE Goto(c, "write") /\ UNCHANGED <<catalog, order, stock>>
           \/ /\ At(c, "updateCategory", "write")
              /\ IF taken THEN Refuse(c)
                 ELSE /\ category' = [category EXCEPT ![k].name = call[c].in,
                                                      ![k].form = IF category[k].name = call[c].in THEN @ ELSE None]
                      /\ Done(c)
                      /\ UNCHANGED <<product, variant, link, supplier, customer, zone, order, stock>>
        /\ UNCHANGED form

\* The foreign key of the products that got the category since it was found empty is set to null.
deleteCategory(c) ==
    LET k == call[c].on
    IN  /\ \/ /\ At(c, "deleteCategory", "count")
              /\ IF k \notin Own(Rows(category)) \/ \E p \in Rows(product) : product[p].category = k
                 THEN Refuse(c) ELSE Goto(c, "write") /\ UNCHANGED <<catalog, order, stock>>
           \/ /\ At(c, "deleteCategory", "write")
              /\ IF ~category[k].row THEN Refuse(c)
                 ELSE /\ category' = [category EXCEPT ![k] = NoName]
                      /\ product' = [p \in Products |-> IF product[p].category = k
                                                        THEN [product[p] EXCEPT !.category = None] ELSE product[p]]
                      /\ Done(c)
                      /\ UNCHANGED <<variant, link, supplier, customer, zone, order, stock>>
        /\ UNCHANGED form

----------------------------------------------------------------------------
(* suppliers.service.ts, customers.service.ts, warehouses.service.ts       *)

createSupplier(c) ==
    /\ At(c, "createSupplier", "write")
    /\ \E s \in Own(Suppliers) : supplier[s] = "none" /\ supplier' = [supplier EXCEPT ![s] = "ACTIVE"]
    /\ Done(c)
    /\ UNCHANGED <<product, variant, link, category, customer, zone, order, stock, form>>

deleteSupplier(c) ==
    /\ At(c, "deleteSupplier", "write")
    /\ IF call[c].on \in Foreign \/ supplier[call[c].on] = "none" THEN Refuse(c)
       ELSE /\ supplier' = [supplier EXCEPT ![call[c].on] = "INACTIVE"]
            /\ Done(c)
            /\ UNCHANGED <<product, variant, link, category, customer, zone, order, stock>>
    /\ UNCHANGED form

createCustomer(c) ==
    /\ At(c, "createCustomer", "write")
    /\ \E d \in Own(Customers) : customer[d] = "none" /\ customer' = [customer EXCEPT ![d] = "ACTIVE"]
    /\ Done(c)
    /\ UNCHANGED <<product, variant, link, category, supplier, zone, order, stock, form>>

deleteCustomer(c) ==
    /\ At(c, "deleteCustomer", "write")
    /\ IF call[c].on \in Foreign \/ customer[call[c].on] = "none" THEN Refuse(c)
       ELSE /\ customer' = [customer EXCEPT ![call[c].on] = "INACTIVE"]
            /\ Done(c)
            /\ UNCHANGED <<product, variant, link, category, supplier, zone, order, stock>>
    /\ UNCHANGED form

\* Zones of the organization's warehouse; who may reach which warehouse is in Accounts.
createZone(c) ==
    /\ At(c, "createZone", "write")
    /\ IF \E z \in Rows(zone) : zone[z].name = call[c].in THEN Refuse(c)
       ELSE \E z \in Zones \ Rows(zone) :
                /\ zone' = [zone EXCEPT ![z] = [row |-> TRUE, name |-> call[c].in, form |-> call[c].form]]
                /\ Done(c)
                /\ UNCHANGED <<product, variant, link, category, supplier, customer, order, stock>>
    /\ UNCHANGED form

\* The schema of the route requires a name, which the page does not send and the table does not have.
createBin(c) == At(c, "createBin", "write") /\ Refuse(c) /\ UNCHANGED form

----------------------------------------------------------------------------
(* What names the catalog.  An order reads the records at one snapshot and *)
(* is stored when its transaction commits.                                 *)

Orderable(in) ==
    /\ in.product \in Own(Rows(product)) /\ product[in.product].active
    /\ in.variant # None => in.variant \in VariantsOf(in.product) /\ variant[in.variant].active

createPurchaseOrder(c) ==
    /\ At(c, "createPurchaseOrder", "snapshot")
    /\ LET in == call[c].in
       IN  IF in.party \notin Foreign /\ supplier[in.party] = "ACTIVE" /\ Orderable(in)
           THEN Goto(c, "store") /\ UNCHANGED <<catalog, order, stock>> ELSE Refuse(c)
    /\ UNCHANGED form

\* What if a new sales order did not ask whether its customer is active?
BugCreateSalesOrder(c) ==
    /\ At(c, "createSalesOrder", "snapshot")
    /\ LET in == call[c].in
       IN  IF in.party \notin Foreign /\ customer[in.party] # "none" /\ Orderable(in)
           THEN Goto(c, "store") /\ UNCHANGED <<catalog, order, stock>> ELSE Refuse(c)
    /\ UNCHANGED form

createSalesOrder(c) ==
    /\ At(c, "createSalesOrder", "snapshot")
    /\ LET in == call[c].in
       IN  IF in.party \notin Foreign /\ customer[in.party] = "ACTIVE" /\ Orderable(in)
           THEN Goto(c, "store") /\ UNCHANGED <<catalog, order, stock>> ELSE Refuse(c)
    /\ UNCHANGED form

storeOrder(c) ==
    /\ call[c].step = "store"
    /\ order' = order \cup {[by |-> c, party |-> call[c].in.party, product |-> call[c].in.product,
                             variant |-> call[c].in.variant]}
    /\ Done(c)
    /\ UNCHANGED <<catalog, stock, form>>

\* The check of every command that posts stock: a product that was deactivated is good enough.
validateInventoryIdentity(c) ==
    /\ At(c, "postStock", "snapshot")
    /\ LET in == call[c].in
       IN  IF /\ in.product \in Own(Rows(product)) /\ in.warehouse \notin Foreign
              /\ in.variant # None => in.variant \in VariantsOf(in.product) /\ variant[in.variant].active
              /\ in.bin # None => Site[in.bin] = in.warehouse
           THEN stock' = stock \cup {in} /\ Done(c) /\ UNCHANGED <<catalog, order>>
           ELSE Refuse(c)
    /\ UNCHANGED form

----------------------------------------------------------------------------
(* Callers                                                                 *)

FirstStep(op) ==
    CASE op \in {"createProduct", "updateProduct"}                                   -> "sku"
      [] op \in {"createCategory", "updateCategory"}                                 -> "slug"
      [] op = "deleteCategory"                                                       -> "count"
      [] op \in {"createPurchaseOrder", "createSalesOrder", "postStock"}             -> "snapshot"
      [] OTHER                                                                       -> "write"

Start(c, op, on, in, f) ==
    /\ call[c].step = "none"
    /\ call' = [call EXCEPT ![c] = [NoCall EXCEPT !.op = op, !.step = FirstStep(op), !.on = on, !.in = in,
                                                  !.form = f, !.awaited = f # None]]

Send(c) ==
    /\ \E request \in Asked : Start(c, request.op, request.on, request.in, None)
    /\ UNCHANGED <<catalog, order, stock, form>>

\* A lost connection, a deadlock, a missing permission.
Abort(c) ==
    /\ call[c].step \notin {"none", "done", "refused"}
    /\ Refuse(c)
    /\ UNCHANGED form

----------------------------------------------------------------------------
(* The forms of the pages.  A form keeps what was typed until a request of *)
(* its own succeeds.                                                       *)

Kinds == [product |-> "createProduct", category |-> "createCategory", supplier |-> "createSupplier",
          customer |-> "createCustomer", zone |-> "createZone", bin |-> "createBin"]

OpenForm(f) ==
    /\ form[f].state = "new"
    /\ \E kind \in DOMAIN Kinds, name \in Names \cup {Blank} :
          /\ name = Blank => kind = "product"      \* the other fields are required
          /\ form' = [form EXCEPT ![f] = [kind |-> kind, name |-> name, state |-> "open"]]
    /\ UNCHANGED <<catalog, order, stock, call>>

\* What if a SKU that was left blank were not sent?
BugFormSku(name) == IF name = Blank THEN Absent ELSE name

\* The product form sends a SKU that was left blank as one.
FormSku(name) == name

\* The product form picks one of the categories it has loaded, or none.
handleSubmit(f, c) ==
    /\ form[f].kind = "product" /\ form[f].state = "open"
    /\ \E k \in Own(Rows(category)) \cup {Absent} :
           Start(c, "createProduct", None,
                 [sku |-> FormSku(form[f].name), category |-> k, suppliers |-> Absent, variants |-> Absent], f)
    /\ form' = [form EXCEPT ![f].state = "saving"]
    /\ UNCHANGED <<catalog, order, stock>>

\* The category form is not disabled while it saves.
handleCreateCategory(f, c) ==
    /\ form[f].kind = "category" /\ form[f].state \in {"open", "saving"}
    /\ Start(c, "createCategory", None, form[f].name, f)
    /\ form' = [form EXCEPT ![f].state = "saving"]
    /\ UNCHANGED <<catalog, order, stock>>

\* Each of these is disabled while it saves.
Save(f, c, kind) ==
    /\ form[f].kind = kind /\ form[f].state = "open"
    /\ Start(c, Kinds[kind], None, form[f].name, f)
    /\ form' = [form EXCEPT ![f].state = "saving"]
    /\ UNCHANGED <<catalog, order, stock>>

handleCreateSupplier(f, c) == Save(f, c, "supplier")

handleCreateCustomer(f, c) == Save(f, c, "customer")

handleCreateZone(f, c) == Save(f, c, "zone")

handleCreateBin(f, c) == Save(f, c, "bin")

\* Success closes the form; after an error, or when the page has waited long enough, it may be submitted again.
Answer(c) ==
    /\ call[c].awaited
    /\ call' = [call EXCEPT ![c].awaited = FALSE]
    /\ form' = [form EXCEPT ![call[c].form].state =
                   IF call[c].step = "done" THEN "closed" ELSE IF @ = "saving" THEN "open" ELSE @]
    /\ UNCHANGED <<catalog, order, stock>>

handleDelete(c) ==
    /\ \E p \in Own(Rows(product)) : Start(c, "deleteProduct", p, None, None)
    /\ UNCHANGED <<catalog, order, stock, form>>

----------------------------------------------------------------------------

FirstProduct(p) == IF p \in Existing THEN [NoProduct EXCEPT !.row = TRUE, !.active = TRUE] ELSE NoProduct

FirstVariant(v) == [of |-> Family[v], active |-> v \in Existing]

FirstLinks == UNION {Links(pair[1], {pair[2]}, None) : pair \in Linked}

FirstCategory(k) == [NoName EXCEPT !.row = k \in Existing]

FirstStatus(party) == IF party \in Existing THEN "ACTIVE" ELSE "none"

CatalogInit ==
    /\ product = [p \in Products |-> FirstProduct(p)]
    /\ variant = [v \in Variants |-> FirstVariant(v)]
    /\ link = FirstLinks
    /\ category = [k \in Categories |-> FirstCategory(k)]
    /\ supplier = [s \in Suppliers |-> FirstStatus(s)]
    /\ customer = [d \in Customers |-> FirstStatus(d)]
    /\ zone = [z \in Zones |-> NoName]
    /\ order = {} /\ stock = {}
    /\ call = [c \in Calls |-> NoCall]
    /\ form = [f \in Forms |-> ClosedForm]

CatalogNext ==
    \E c \in Calls :
        \/ checkSku(c) \/ validateRelations(c) \/ createProduct(c)
        \/ readVariants(c) \/ deleteLinks(c) \/ updateProduct(c) \/ deleteProduct(c)
        \/ createCategory(c) \/ updateCategory(c) \/ deleteCategory(c)
        \/ createSupplier(c) \/ deleteSupplier(c) \/ createCustomer(c) \/ deleteCustomer(c)
        \/ createZone(c) \/ createBin(c)
        \/ createPurchaseOrder(c) \/ createSalesOrder(c) \/ storeOrder(c) \/ validateInventoryIdentity(c)
        \/ Send(c) \/ Abort(c) \/ Answer(c) \/ handleDelete(c)
        \/ \E f \in Forms :
              \/ OpenForm(f) \/ handleSubmit(f, c) \/ handleCreateCategory(f, c)
              \/ handleCreateSupplier(f, c) \/ handleCreateCustomer(f, c)
              \/ handleCreateZone(f, c) \/ handleCreateBin(f, c)

CatalogSpec == CatalogInit /\ [][CatalogNext]_catalogVars

----------------------------------------------------------------------------
(* Properties                                                              *)

\* Every record of the other organization is as it was at first.
ForeignUntouched ==
    /\ \A p \in Products \cap Foreign : product[p] = FirstProduct(p)
    /\ \A v \in Variants \cap Foreign \cap Existing : variant[v] = FirstVariant(v)
    /\ {row \in link : row.product \in Foreign} = {row \in FirstLinks : row.product \in Foreign}
    /\ \A k \in Categories \cap Foreign : category[k] = FirstCategory(k)
    /\ \A s \in Suppliers \cap Foreign : supplier[s] = FirstStatus(s)
    /\ \A d \in Customers \cap Foreign : customer[d] = FirstStatus(d)

\* Tenant isolation: whatever ids a request carries, a product, a link, an order or a stock row of the
\* callers' organization names records of that organization only, the variant is one of the product and
\* the bin one of the warehouse; and no product, variant, link, category, supplier or customer of the other
\* organization is changed, by renaming, archiving, deleting, listing or clearing.
RecordsStayInOrganization ==
    /\ \A p \in Own(Rows(product)) : product[p].category \notin Foreign
    /\ \A row \in link : row.product \in Foreign <=> row.supplier \in Foreign
    /\ \A o \in order : /\ {o.party, o.product} \cap Foreign = {}
                        /\ o.variant # None => variant[o.variant].of = o.product
    /\ \A s \in stock : /\ {s.product, s.warehouse} \cap Foreign = {}
                        /\ s.variant # None => variant[s.variant].of = s.product
                        /\ s.bin # None => Site[s.bin] = s.warehouse
    /\ ForeignUntouched

\* A form of a record with a SKU, a slug or a code creates one record, though it is submitted twice, or again after its
\* page has given up a request that is still served: the record stands in the way of the second as long as it has the
\* name that the form gave it.  Renamed, or deleted, it does not.
FormCreatesOne ==
    \A table \in {product, category, zone} :
        \A x, y \in Rows(table) : table[x].form = table[y].form /\ table[x].form # None => x = y
=============================================================================
