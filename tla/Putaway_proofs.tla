--------------------------- MODULE Putaway_proofs ---------------------------
(***************************************************************************)
(* Proofs about Putaway and the receiving it stands on, for any orders,    *)
(* items, bins, receipts, operators, handlers and corrections: orders say  *)
(* what receipts accepted, putaway creates no stock, and the goods of a    *)
(* line are moved once however handlers race, die and are repeated.        *)
(*                                                                         *)
(* The constant Op of FoldTheorems is free here: its lemmas about folds    *)
(* are used through the instances below, those about sums do not name it.  *)
(***************************************************************************)
EXTENDS Putaway, FoldTheorems

\* What folds of postings, of the rounds of a transfer and of what its sources offer compute.
Fold   == INSTANCE FoldTheorems WITH Op <- OneMore
Rounds == INSTANCE FoldTheorems WITH Op <- MoveFrom
Offers == INSTANCE FoldTheorems WITH Op <- AddOffer

----------------------------------------------------------------------------
(* The inductive invariant.                                                *)

TransferTypes == {"TRANSFER_OUT", "TRANSFER_IN"}

Products == {ProductOf[i] : i \in Items}

ItemsOfProduct(product) == {i \in Items : ProductOf[i] = product}

\* Sums as the properties have them, of any stock, received quantities and postings.
HeldIn(st, product) == SumFunctionOnSet([place \in Places |-> st[At(product, place)].onHand], Places)

ReceivedIn(received, product) ==
    SumFunctionOnSet([i \in ItemsOfProduct(product) |-> received[i]], ItemsOfProduct(product))

CorrectionsIn(made, product) == {p \in made : p.type = "ADJUSTMENT" /\ p.balance[1] = product}

CorrectedIn(made, product) ==
    SumFunctionOnSet([p \in CorrectionsIn(made, product) |-> p.delta.onHand], CorrectionsIn(made, product))

\* What is on hand of the products is what was received and corrected.
HeldFollows(inv, received) ==
    \A product \in Products :
        HeldIn(inv.stock, product) = ReceivedIn(received, product) + CorrectedIn(inv.posted, product)

\* The rows and postings have their types.
Typed(inv) == inv.stock \in [Balances -> Quantities] /\ IsFiniteSet(inv.posted) /\ inv.posted \subseteq Postings

ReceiptsSound ==
    /\ receipts = [key \in ReceiptKeys |-> receipts[key]]
    /\ \A key \in ReceiptKeys : DOMAIN receipts[key].lines \subseteq Items

\* An order's status says what its items received, and they received what the receipts accepted.
ReceivedSound ==
    /\ \A i \in Items : receivedQty[i] = Accepted(i) /\ receivedQty[i] <= Ordered[i]
    /\ \A o \in PurchaseOrders :
          /\ status[o] = "RECEIVED" <=> \A i \in ItemsOf[o] : receivedQty[i] = Ordered[i]
          /\ status[o] \in {"PARTIALLY_RECEIVED", "RECEIVED"} <=> \E i \in ItemsOf[o] : receivedQty[i] > 0

\* The key of a posting says what it was made for.
Known(p) ==
    \/ p.type = "ADJUSTMENT" /\ p.key.kind = "ADJUSTMENT"
    \/ /\ p.type = "RECEIPT" /\ p.key.kind = "RECEIPT_LINE" /\ p.key.client \in LineIds
       /\ receipts[p.key.client[1]] # NoReceipt
    \/ p.type \in TransferTypes /\ p.key.kind = p.type /\ p.key.client \in Lines

\* The movements of a line, one way, among these postings.
LegsIn(made, l, type) == {p \in made : p.type = type /\ p.key.client = l}

Unmoved(l) == \A type \in TransferTypes : MovementsOf(l, type) = {}

Moved(l) ==
    /\ \A type \in TransferTypes : QuantityOf(MovementsOf(l, type)) = Quantity(l)
    /\ Taken(posted, Key("TRANSFER_IN", l, 0))

RequestSound(h) ==
    /\ handlers[h].step \in {"move", "mark"} => handlers[h].line \in Lines
    /\ handlers[h].step = "mark" => Moved(handlers[h].line)

\* A line has been moved when its task or a request says so.
TasksSound ==
    /\ \A l \in Lines : Unmoved(l) \/ Moved(l)
    /\ \A l \in LineIds : tasks[l].status = "COMPLETED" => l \in Lines /\ Moved(l)
    /\ \A h \in Handlers : RequestSound(h)

PutawayInv ==
    /\ TypeOK
    /\ IsFiniteSet(posted)
    /\ ReceiptsSound
    /\ ReceivedSound
    /\ HeldFollows(Inventory, receivedQty)
    /\ \A p \in posted : Known(p)
    /\ TasksSound

----------------------------------------------------------------------------
(* One more posting.                                                       *)

\* A posting adds its deltas, field by field.
LEMMA AfterFields ==
    ASSUME NEW q \in Quantities, NEW d \in Deltas
    PROVE  After(q, d) \in Quantities /\ After(q, d).onHand = q.onHand + d.onHand
  BY DEF After, Quantities, Deltas

\* What the fields of a posting are.
LEMMA PostingFields ==
    ASSUME NEW p \in Postings
    PROVE  /\ p.balance \in Balances /\ p.delta \in Deltas /\ p.delta.onHand \in Int /\ p.quantity \in Int
           /\ p.key \in Keys
           /\ p.balance[2] \in Places /\ p.balance = At(p.balance[1], p.balance[2])
  <1>1. /\ p.balance \in Balances /\ p.delta \in Deltas /\ p.delta.onHand \in Int /\ p.quantity \in Int
        /\ p.key \in Keys
    BY DEF Postings, Deltas
  <1> QED
    BY <1>1, PlacesAssumption

\* A posting under a taken key changes nothing; one under a free key moves its row and is in the ledger.
LEMMA OneMoreIs ==
    ASSUME NEW inv, NEW p
    PROVE  /\ Taken(inv.posted, p.key) =>
                /\ OneMore(inv, p).posted = inv.posted /\ OneMore(inv, p).stock = inv.stock
           /\ ~Taken(inv.posted, p.key) =>
                /\ OneMore(inv, p).posted = inv.posted \cup {p}
                /\ OneMore(inv, p).stock = [inv.stock EXCEPT ![p.balance] = After(inv.stock[p.balance], p.delta)]
                /\ p \notin inv.posted
  <1>1. CASE Taken(inv.posted, p.key)
    <2>1. OneMore(inv, p) = [inv EXCEPT !.ok = @ /\ p.quantity > 0]
      BY <1>1 DEF OneMore
    <2> QED
      BY <1>1, <2>1
  <1>2. CASE ~Taken(inv.posted, p.key)
    <2>1. p \notin inv.posted
      BY <1>2 DEF Taken
    <2> QED
      BY <1>2, <2>1 DEF OneMore
  <1> QED
    BY <1>1, <1>2

\* A row that changes changes what is on hand of its product and of no other.
LEMMA HeldChanges ==
    ASSUME NEW st \in [Balances -> Quantities], NEW b \in Balances, NEW q \in Quantities, NEW product \in Products
    PROVE  /\ HeldIn(st, product) \in Int
           /\ HeldIn([st EXCEPT ![b] = q], product) =
                HeldIn(st, product) + (IF b[1] = product THEN q.onHand - st[b].onHand ELSE 0)
  <1> DEFINE after == [st EXCEPT ![b] = q]
             f == [place \in Places |-> st[At(product, place)].onHand]
             g == [place \in Places |-> after[At(product, place)].onHand]
  <1>1. IsFiniteSet(Places)
    BY ReceivingAssumption, FS_AddElement DEF Places
  <1>2. \A place \in Places : At(product, place) \in Balances
    BY ReceivingAssumption DEF Places, Products
  <1>3. after \in [Balances -> Quantities] /\ after[b] = q /\ \A c \in Balances \ {b} : after[c] = st[c]
    OBVIOUS
  <1> HIDE DEF after
  <1>4. IntegersOn(f, Places) /\ IntegersOn(g, Places)
    BY <1>2, <1>3 DEF IntegersOn, Quantities
  <1>5. HeldIn(st, product) = SumFunctionOnSet(f, Places) /\ HeldIn(after, product) = SumFunctionOnSet(g, Places)
    BY DEF HeldIn
  <1>6. HeldIn(st, product) \in Int
    BY <1>1, <1>4, <1>5, SumIsInteger
  <1>7. CASE b[1] = product
    <2>1. b[2] \in Places /\ b = At(product, b[2])
      BY <1>7, PlacesAssumption
    <2>2. f[b[2]] = st[b].onHand /\ g[b[2]] = q.onHand /\ g[b[2]] \in Int
      BY <1>3, <1>4, <2>1 DEF IntegersOn
    <2>3. \A place \in Places \ {b[2]} : At(product, place) # b
      BY DEF At
    <2>4. \A place \in Places \ {b[2]} : g[place] = f[place]
      BY <1>2, <1>3, <2>3
    <2> HIDE DEF f, g
    <2>5. SumFunctionOnSet(g, Places) = SumFunctionOnSet(f, Places) - f[b[2]] + g[b[2]]
      BY <1>1, <1>4, <2>1, <2>2, <2>4, SumWithOneChanged
    <2>6. f[b[2]] \in Int /\ g[b[2]] \in Int
      BY <1>4, <2>1 DEF IntegersOn
    <2>7. SumFunctionOnSet(g, Places) = SumFunctionOnSet(f, Places) + (g[b[2]] - f[b[2]])
      BY <1>5, <1>6, <2>5, <2>6
    <2> QED
      BY <1>5, <1>6, <1>7, <2>2, <2>7 DEF after
  <1>8. CASE b[1] # product
    <2>1. \A place \in Places : At(product, place) # b
      BY <1>8 DEF At
    <2>2. \A place \in Places : g[place] = f[place]
      BY <1>2, <1>3, <2>1
    <2> HIDE DEF f, g
    <2>3. SumFunctionOnSet(g, Places) = SumFunctionOnSet(f, Places)
      BY <1>1, <1>4, <2>2, SumsAgree
    <2> QED
      BY <1>5, <1>6, <1>8, <2>3 DEF after
  <1> QED
    BY <1>6, <1>7, <1>8

\* What one more posting adds to the corrections of a product.
LEMMA CorrectedChanges ==
    ASSUME NEW made, IsFiniteSet(made), made \subseteq Postings, NEW p \in Postings, p \notin made, NEW product
    PROVE  /\ CorrectedIn(made, product) \in Int
           /\ CorrectedIn(made \cup {p}, product) =
                CorrectedIn(made, product) + Adds(p.type = "ADJUSTMENT" /\ p.balance[1] = product, p.delta.onHand)
  <1> DEFINE c == p.type = "ADJUSTMENT" /\ p.balance[1] = product
             S == CorrectionsIn(made, product)
             R == CorrectionsIn(made \cup {p}, product)
             f == [r \in S |-> r.delta.onHand]
             g == [r \in R |-> r.delta.onHand]
  <1>1. IsFiniteSet(S) /\ p \notin S /\ R = (IF c THEN S \cup {p} ELSE S) /\ S \subseteq Postings
    BY FS_Subset DEF CorrectionsIn
  <1>2. \A r \in Postings : r.delta.onHand \in Int
    BY PostingFields
  <1>3. IntegersOn(f, S) /\ (\A r \in S : g[r] = f[r]) /\ (c => g[p] = p.delta.onHand /\ g[p] \in Int)
    BY <1>1, <1>2 DEF IntegersOn
  <1>4. CorrectedIn(made, product) = SumFunctionOnSet(f, S)
        /\ CorrectedIn(made \cup {p}, product) = SumFunctionOnSet(g, R)
    BY DEF CorrectedIn
  <1>5. c \in BOOLEAN
    OBVIOUS
  <1> HIDE DEF c, S, R, f, g
  <1>6. SumFunctionOnSet(f, S) \in Int /\ SumFunctionOnSet(g, R) = SumFunctionOnSet(f, S) + Adds(c, g[p])
    <2>1. IsFiniteSet(S) /\ p \notin S /\ c \in BOOLEAN /\ R = (IF c THEN S \cup {p} ELSE S)
      BY <1>1, <1>5
    <2>2. IntegersOn(f, S) /\ (\A r \in S : g[r] = f[r]) /\ (c => g[p] \in Int)
      BY <1>3
    <2> QED
      BY <2>1, <2>2, SumMayGrow
  <1>7. Adds(c, g[p]) = Adds(c, p.delta.onHand)
    BY <1>3 DEF Adds
  <1> QED
    BY <1>4, <1>6, <1>7 DEF c

\* What one more posting adds to the movements of a line one way.
LEMMA LegsChange ==
    ASSUME NEW made, IsFiniteSet(made), made \subseteq Postings, NEW p \in Postings, p \notin made, NEW l, NEW type
    PROVE  /\ QuantityOf(LegsIn(made, l, type)) \in Int
           /\ QuantityOf(LegsIn(made \cup {p}, l, type)) =
                QuantityOf(LegsIn(made, l, type)) + Adds(p.type = type /\ p.key.client = l, p.quantity)
  <1> DEFINE c == p.type = type /\ p.key.client = l
             S == LegsIn(made, l, type)
             R == LegsIn(made \cup {p}, l, type)
             f == [r \in S |-> r.quantity]
             g == [r \in R |-> r.quantity]
  <1>1. IsFiniteSet(S) /\ p \notin S /\ R = (IF c THEN S \cup {p} ELSE S) /\ S \subseteq Postings
    BY FS_Subset DEF LegsIn
  <1>2. \A r \in Postings : r.quantity \in Int
    BY PostingFields
  <1>3. IntegersOn(f, S) /\ (\A r \in S : g[r] = f[r]) /\ (c => g[p] = p.quantity /\ g[p] \in Int)
    BY <1>1, <1>2 DEF IntegersOn
  <1>4. QuantityOf(S) = SumFunctionOnSet(f, S) /\ QuantityOf(R) = SumFunctionOnSet(g, R)
    BY DEF QuantityOf
  <1>5. c \in BOOLEAN
    OBVIOUS
  <1> HIDE DEF c, S, R, f, g
  <1>6. SumFunctionOnSet(f, S) \in Int /\ SumFunctionOnSet(g, R) = SumFunctionOnSet(f, S) + Adds(c, g[p])
    <2>1. IsFiniteSet(S) /\ p \notin S /\ c \in BOOLEAN /\ R = (IF c THEN S \cup {p} ELSE S)
      BY <1>1, <1>5
    <2>2. IntegersOn(f, S) /\ (\A r \in S : g[r] = f[r]) /\ (c => g[p] \in Int)
      BY <1>3
    <2> QED
      BY <2>1, <2>2, SumMayGrow
  <1>7. Adds(c, g[p]) = Adds(c, p.quantity)
    BY <1>3 DEF Adds
  <1> QED
    BY <1>4, <1>6, <1>7 DEF c, S, R
\* One more posting keeps the types.
LEMMA OneMoreTyped ==
    ASSUME NEW inv, Typed(inv), NEW p \in Postings
    PROVE  Typed(OneMore(inv, p))
  <1> DEFINE new == OneMore(inv, p)
  <1>1. CASE Taken(inv.posted, p.key)
    <2>1. new.posted = inv.posted /\ new.stock = inv.stock
      BY <1>1, OneMoreIs
    <2> HIDE DEF new
    <2>2. Typed(new)
      BY <2>1 DEF Typed
    <2> QED
      BY <2>2 DEF new
  <1>2. CASE ~Taken(inv.posted, p.key)
    <2>1. /\ new.posted = inv.posted \cup {p}
          /\ new.stock = [inv.stock EXCEPT ![p.balance] = After(inv.stock[p.balance], p.delta)]
      BY <1>2, OneMoreIs
    <2> HIDE DEF new
    <2>2. p.balance \in Balances /\ inv.stock \in [Balances -> Quantities]
          /\ After(inv.stock[p.balance], p.delta) \in Quantities
      BY PostingFields, AfterFields DEF Typed
    <2>3. IsFiniteSet(new.posted) /\ new.posted \subseteq Postings
      BY <2>1, FS_AddElement DEF Typed
    <2>4. Typed(new)
      BY <2>1, <2>2, <2>3 DEF Typed
    <2> QED
      BY <2>4 DEF new
  <1> QED
    BY <1>1, <1>2

\* One more posting adds its delta to what is held of its product, and to what was corrected of it.
LEMMA HeldWithOneMore ==
    ASSUME NEW inv, Typed(inv), NEW p \in Postings, ~Taken(inv.posted, p.key), NEW product \in Products
    PROVE  /\ HeldIn(inv.stock, product) \in Int /\ CorrectedIn(inv.posted, product) \in Int
           /\ HeldIn(OneMore(inv, p).stock, product) =
                HeldIn(inv.stock, product) + Adds(p.balance[1] = product, p.delta.onHand)
           /\ CorrectedIn(OneMore(inv, p).posted, product) =
                CorrectedIn(inv.posted, product) +
                  Adds(p.type = "ADJUSTMENT" /\ p.balance[1] = product, p.delta.onHand)
  <1> DEFINE b     == p.balance
             after == After(inv.stock[b], p.delta)
  <1>1. /\ b \in Balances /\ p.delta \in Deltas /\ p.delta.onHand \in Int
        /\ inv.stock \in [Balances -> Quantities] /\ inv.stock[b] \in Quantities
        /\ IsFiniteSet(inv.posted) /\ inv.posted \subseteq Postings
    BY PostingFields DEF Typed
  <1>2. after \in Quantities /\ after.onHand = inv.stock[b].onHand + p.delta.onHand
    BY <1>1, AfterFields
  <1>3. /\ OneMore(inv, p).posted = inv.posted \cup {p} /\ p \notin inv.posted
        /\ OneMore(inv, p).stock = [inv.stock EXCEPT ![b] = after]
    BY OneMoreIs
  <1>4. inv.stock[b].onHand \in Int
    BY <1>1 DEF Quantities
  <1> HIDE DEF after, b
  <1>5. /\ HeldIn(inv.stock, product) \in Int
        /\ HeldIn([inv.stock EXCEPT ![b] = after], product) =
             HeldIn(inv.stock, product) + (IF b[1] = product THEN after.onHand - inv.stock[b].onHand ELSE 0)
    BY <1>1, <1>2, HeldChanges
  <1>6. after.onHand - inv.stock[b].onHand = p.delta.onHand
    BY <1>1, <1>2, <1>4
  <1>7. HeldIn([inv.stock EXCEPT ![b] = after], product) =
          HeldIn(inv.stock, product) + Adds(b[1] = product, p.delta.onHand)
    BY <1>5, <1>6 DEF Adds
  <1>8. /\ CorrectedIn(inv.posted, product) \in Int
        /\ CorrectedIn(inv.posted \cup {p}, product) =
             CorrectedIn(inv.posted, product) +
               Adds(p.type = "ADJUSTMENT" /\ p.balance[1] = product, p.delta.onHand)
    BY <1>1, <1>3, CorrectedChanges
  <1> QED
    BY <1>3, <1>5, <1>7, <1>8 DEF b

\* Two postings, one after the other.
LEMMA PostPair ==
    ASSUME NEW inv, NEW p, NEW r
    PROVE  PostAll(inv, <<p, r>>) = OneMore(OneMore(inv, p), r)
  <1>1. PostAll(inv, <<p, r>>) = Fold!Folded(inv, <<p, r>>)
    BY DEF PostAll, FoldLeft, MapThenFoldSet, Max, Fold!Folded, Fold!FoldLeft, Fold!MapThenFoldSet, Fold!Max
  <1>2. <<p, r>> \in Seq({p, r}) /\ Len(<<p, r>>) = 2 /\ <<p, r>>[1] = p /\ <<p, r>>[2] = r
    OBVIOUS
  <1> DEFINE seq == <<p, r>>
  <1> HIDE DEF seq
  <1>3. PICK f : Fold!Steps(f, inv, seq)
    BY <1>2, Fold!FoldLeftSteps DEF seq
  <1>4. Fold!Folded(inv, seq) = f[2]
    BY <1>2, <1>3, Fold!FoldLeftIs DEF seq
  <1>5. f[0] = inv /\ f[1] = OneMore(f[0], p) /\ f[2] = OneMore(f[1], r)
    <2>1. Len(seq) = 2 /\ seq[1] = p /\ seq[2] = r
      BY <1>2 DEF seq
    <2>2. 1 \in 1..2 /\ 2 \in 1..2 /\ 1 - 1 = 0 /\ 2 - 1 = 1
      OBVIOUS
    <2>3. f[0] = inv /\ \A n \in 1..2 : f[n] = OneMore(f[n - 1], seq[n])
      BY <1>3, <2>1 DEF Fold!Steps
    <2>4. f[1] = OneMore(f[1 - 1], seq[1]) /\ f[2] = OneMore(f[2 - 1], seq[2])
      BY <2>2, <2>3
    <2> QED
      BY <2>1, <2>2, <2>3, <2>4
  <1> QED
    BY <1>1, <1>4, <1>5 DEF seq

----------------------------------------------------------------------------
(* StockService.transfer, round by round.                                  *)

OfferRows == [balance : Balances, available : Nat]

\* What a row of sources of a line may be.
OffersOf(l) == {row \in OfferRows : row.balance[1] = ProductOf[l[2]]}

\* A posting of the transfer of this line, made in a round before this one.
LegBefore(p, l, index) ==
    p.type \in TransferTypes /\ p.key.kind = p.type /\ p.key.client = l /\ p.key.index \in Nat /\ p.key.index < index

\* The transfer of a quantity Q over `made`, when its sources so far offered `sum`.
RoundSound(move, request, made, Q, sum) ==
    /\ move.request = request
    /\ Typed(move.inv) /\ HeldFollows(move.inv, receivedQty)
    /\ move.index \in Nat
    /\ move.remaining = (IF sum >= Q THEN 0 ELSE Q - sum)
    /\ made \subseteq move.inv.posted
    /\ \A p \in move.inv.posted \ made : LegBefore(p, request.line, move.index)
    /\ \A type \in TransferTypes : QuantityOf(LegsIn(move.inv.posted, request.line, type)) = Q - move.remaining
    /\ move.index = 0 => move.remaining = Q
    /\ move.index > 0 => Taken(move.inv.posted, Key("TRANSFER_IN", request.line, 0))

\* A leg of a transfer as a posting.
LEMMA LegIs ==
    ASSUME NEW b \in Balances, NEW l \in LineIds, NEW n \in Nat, NEW q \in Int, NEW d \in Int,
           NEW type \in TransferTypes
    PROVE  LET p == Posting(b, Key(type, l, n), type, q, OnHand(d), NoKey)
           IN  /\ p \in Postings
               /\ p.balance = b /\ p.key = Key(type, l, n) /\ p.type = type /\ p.quantity = q /\ p.delta.onHand = d
               /\ p.key.kind = type /\ p.key.client = l /\ p.key.index = n
  <1>1. Key(type, l, n) \in Keys
    BY ReceivingAssumption DEF Key, Keys, KeyKinds, TransferTypes
  <1>2. OnHand(d) \in Deltas /\ OnHand(d).onHand = d
    BY DEF OnHand, Deltas
  <1>3. type \in MovementTypes
    BY DEF TransferTypes, MovementTypes
  <1> QED
    BY <1>1, <1>2, <1>3 DEF Posting, Postings, Key
\* One round: the legs posted and what remains make up the quantity, and nothing is gained or lost.
LEMMA MoveFromKeeps ==
    ASSUME NEW request \in Requests, NEW made, NEW Q \in Nat, NEW sum \in Nat, NEW move,
           NEW source \in OffersOf(request.line), RoundSound(move, request, made, Q, sum),
           \A p \in made : ~(p.key.kind \in TransferTypes /\ p.key.client = request.line)
    PROVE  /\ AddOffer(sum, source) \in Nat
           /\ RoundSound(MoveFrom(move, source), request, made, Q, AddOffer(sum, source))
  <1> DEFINE l    == request.line
             n    == move.index
             q    == Lesser(source.available, move.remaining)
             to   == At(ProductOf[l[2]], request.bin)
             out  == Posting(source.balance, Key("TRANSFER_OUT", l, n), "TRANSFER_OUT", q, OnHand(-q), NoKey)
             into == Posting(to, Key("TRANSFER_IN", l, n), "TRANSFER_IN", q, OnHand(q), NoKey)
             one  == OneMore(move.inv, out)
             two  == OneMore(one, into)
             new  == MoveFrom(move, source)
             after == AddOffer(sum, source)
  <1>1. /\ l \in LineIds /\ l[2] \in Items /\ request.bin \in Bins
        /\ source.available \in Nat /\ source.balance \in Balances /\ source.balance[1] = ProductOf[l[2]]
    BY DEF Requests, LineIds, OffersOf, OfferRows
  <1>2. /\ move.request = request /\ Typed(move.inv) /\ HeldFollows(move.inv, receivedQty) /\ n \in Nat
        /\ move.remaining = (IF sum >= Q THEN 0 ELSE Q - sum) /\ made \subseteq move.inv.posted
        /\ \A p \in move.inv.posted \ made : LegBefore(p, l, n)
        /\ \A type \in TransferTypes : QuantityOf(LegsIn(move.inv.posted, l, type)) = Q - move.remaining
        /\ n = 0 => move.remaining = Q
        /\ n > 0 => Taken(move.inv.posted, Key("TRANSFER_IN", l, 0))
    BY DEF RoundSound
  <1>3. move.remaining \in Nat /\ q \in Nat /\ after = sum + source.available /\ after \in Nat
    BY <1>1, <1>2 DEF Lesser, AddOffer
  <1>4. new = IF q <= 0 THEN move
              ELSE [request |-> request, inv |-> two, remaining |-> move.remaining - q, index |-> n + 1]
    BY <1>2, PostPair DEF MoveFrom, PutawayKey
  <1>5. CASE q <= 0
    <2>1. move.remaining = (IF after >= Q THEN 0 ELSE Q - after)
      BY <1>1, <1>2, <1>3, <1>5 DEF Lesser
    <2>2. new = move
      BY <1>4, <1>5
    <2> HIDE DEF new, after
    <2> QED
      BY <1>2, <1>3, <2>1, <2>2 DEF RoundSound, new, after
  <1>6. CASE q > 0
    <2>1. to \in Balances /\ to[1] = ProductOf[l[2]]
      BY <1>1, ReceivingAssumption DEF At
    <2>2. /\ out \in Postings /\ out.balance = source.balance /\ out.key = Key("TRANSFER_OUT", l, n)
          /\ out.type = "TRANSFER_OUT" /\ out.quantity = q /\ out.delta.onHand = -q
          /\ out.key.kind = "TRANSFER_OUT" /\ out.key.client = l /\ out.key.index = n
      <3>1. "TRANSFER_OUT" \in TransferTypes /\ -q \in Int /\ q \in Int
        BY <1>3 DEF TransferTypes
      <3> HIDE DEF q, l, n
      <3> QED
        BY <1>1, <1>2, <3>1, LegIs
    <2>3. /\ into \in Postings /\ into.balance = to /\ into.key = Key("TRANSFER_IN", l, n)
          /\ into.type = "TRANSFER_IN" /\ into.quantity = q /\ into.delta.onHand = q
          /\ into.key.kind = "TRANSFER_IN" /\ into.key.client = l /\ into.key.index = n
      <3>1. "TRANSFER_IN" \in TransferTypes /\ q \in Int
        BY <1>3 DEF TransferTypes
      <3> HIDE DEF q, l, n, to
      <3> QED
        BY <1>1, <1>2, <2>1, <3>1, LegIs
    <2> HIDE DEF q, to, out, into
    <2>4. ~Taken(move.inv.posted, out.key) /\ ~Taken(move.inv.posted, into.key)
      <3> SUFFICES ASSUME NEW p \in move.inv.posted, p.key = out.key \/ p.key = into.key PROVE FALSE
        BY DEF Taken
      <3>1. p.key.kind \in TransferTypes /\ p.key.client = l /\ p.key.index = n
        BY <2>2, <2>3 DEF TransferTypes
      <3>2. LegBefore(p, l, n)
        BY <1>2, <3>1
      <3> QED
        BY <1>2, <3>1, <3>2 DEF LegBefore
    <2>5. one.posted = move.inv.posted \cup {out} /\ out \notin move.inv.posted
      BY <2>4, OneMoreIs
    <2>6. ~Taken(one.posted, into.key)
      BY <2>2, <2>3, <2>4, <2>5 DEF Taken
    <2>7. two.posted = one.posted \cup {into} /\ into \notin one.posted
      <3> HIDE DEF one
      <3> QED
        BY <2>6, OneMoreIs
    <2>8. Typed(one) /\ Typed(two)
      <3>1. Typed(one)
        BY <1>2, <2>2, OneMoreTyped
      <3> HIDE DEF one
      <3> QED
        BY <2>3, <3>1, OneMoreTyped
    <2>9. HeldFollows(two, receivedQty)
      <3> SUFFICES ASSUME NEW product \in Products
                   PROVE  HeldIn(two.stock, product) =
                            ReceivedIn(receivedQty, product) + CorrectedIn(two.posted, product)
        BY DEF HeldFollows
      <3>1. HeldIn(move.inv.stock, product) =
              ReceivedIn(receivedQty, product) + CorrectedIn(move.inv.posted, product)
        BY <1>2 DEF HeldFollows
      <3>2. /\ HeldIn(move.inv.stock, product) \in Int /\ CorrectedIn(move.inv.posted, product) \in Int
            /\ HeldIn(one.stock, product) =
                 HeldIn(move.inv.stock, product) + Adds(out.balance[1] = product, out.delta.onHand)
            /\ CorrectedIn(one.posted, product) =
                 CorrectedIn(move.inv.posted, product) +
                   Adds(out.type = "ADJUSTMENT" /\ out.balance[1] = product, out.delta.onHand)
        BY <1>2, <2>2, <2>4, HeldWithOneMore
      <3> HIDE DEF one
      <3>3. /\ HeldIn(one.stock, product) \in Int /\ CorrectedIn(one.posted, product) \in Int
            /\ HeldIn(two.stock, product) =
                 HeldIn(one.stock, product) + Adds(into.balance[1] = product, into.delta.onHand)
            /\ CorrectedIn(two.posted, product) =
                 CorrectedIn(one.posted, product) +
                   Adds(into.type = "ADJUSTMENT" /\ into.balance[1] = product, into.delta.onHand)
        BY <2>3, <2>6, <2>8, HeldWithOneMore
      <3>4. /\ Adds(out.type = "ADJUSTMENT" /\ out.balance[1] = product, out.delta.onHand) = 0
            /\ Adds(into.type = "ADJUSTMENT" /\ into.balance[1] = product, into.delta.onHand) = 0
        BY <2>2, <2>3 DEF Adds
      <3>5. CorrectedIn(two.posted, product) = CorrectedIn(move.inv.posted, product)
        BY <3>2, <3>3, <3>4
      <3>6. CASE ProductOf[l[2]] = product
        <4>1. /\ Adds(out.balance[1] = product, out.delta.onHand) = -q
              /\ Adds(into.balance[1] = product, into.delta.onHand) = q
          BY <1>1, <2>1, <2>2, <2>3, <3>6 DEF Adds
        <4>2. \A a, b, c \in Int : b = a + (-q) /\ c = b + q => c = a
          BY <1>3
        <4>3. HeldIn(two.stock, product) \in Int
          BY <1>3, <3>3, <4>1
        <4>4. HeldIn(two.stock, product) = HeldIn(move.inv.stock, product)
          BY <3>2, <3>3, <4>1, <4>2, <4>3
        <4> QED
          BY <3>1, <3>5, <4>4
      <3>7. CASE ProductOf[l[2]] # product
        <4>1. /\ Adds(out.balance[1] = product, out.delta.onHand) = 0
              /\ Adds(into.balance[1] = product, into.delta.onHand) = 0
          BY <1>1, <2>1, <2>2, <2>3, <3>7 DEF Adds
        <4>2. HeldIn(two.stock, product) = HeldIn(move.inv.stock, product)
          BY <3>2, <3>3, <4>1
        <4> QED
          BY <3>1, <3>5, <4>2
      <3> QED
        BY <3>6, <3>7
    <2>10. /\ made \subseteq two.posted
           /\ \A p \in two.posted \ made : LegBefore(p, l, n + 1)
      <3>1. made \subseteq two.posted /\ two.posted = move.inv.posted \cup {out, into}
        BY <1>2, <2>5, <2>7
      <3>2. ASSUME NEW p \in move.inv.posted \ made
            PROVE  LegBefore(p, l, n + 1)
        BY <1>2 DEF LegBefore
      <3>3. LegBefore(out, l, n + 1) /\ LegBefore(into, l, n + 1)
        <4>1. n \in Nat /\ n < n + 1
          BY <1>2
        <4> QED
          BY <2>2, <2>3, <4>1 DEF LegBefore, TransferTypes
      <3> HIDE DEF l, n, two
      <3> QED
        BY <3>1, <3>2, <3>3
    <2>11. ASSUME NEW type \in TransferTypes
           PROVE  QuantityOf(LegsIn(two.posted, l, type)) = Q - (move.remaining - q)
      <3>1. IsFiniteSet(move.inv.posted) /\ move.inv.posted \subseteq Postings
            /\ IsFiniteSet(one.posted) /\ one.posted \subseteq Postings
        BY <1>2, <2>8 DEF Typed
      <3>2. QuantityOf(LegsIn(move.inv.posted, l, type)) = Q - move.remaining
        BY <1>2
      <3>3. QuantityOf(LegsIn(move.inv.posted \cup {out}, l, type)) =
              QuantityOf(LegsIn(move.inv.posted, l, type)) + Adds(out.type = type /\ out.key.client = l, out.quantity)
        BY <2>2, <2>5, <3>1, LegsChange
      <3> HIDE DEF one
      <3>4. QuantityOf(LegsIn(one.posted \cup {into}, l, type)) =
              QuantityOf(LegsIn(one.posted, l, type)) + Adds(into.type = type /\ into.key.client = l, into.quantity)
        BY <2>3, <2>7, <3>1, LegsChange
      <3>5. \/ /\ Adds(out.type = type /\ out.key.client = l, out.quantity) = q
               /\ Adds(into.type = type /\ into.key.client = l, into.quantity) = 0
            \/ /\ Adds(out.type = type /\ out.key.client = l, out.quantity) = 0
               /\ Adds(into.type = type /\ into.key.client = l, into.quantity) = q
        BY <2>2, <2>3 DEF Adds, TransferTypes
      <3>6. QuantityOf(LegsIn(two.posted, l, type)) = (Q - move.remaining) + q
        BY <1>3, <2>5, <2>7, <3>2, <3>3, <3>4, <3>5
      <3> QED
        BY <1>3, <3>6
    <2>12. move.remaining - q = (IF after >= Q THEN 0 ELSE Q - after)
      BY <1>1, <1>2, <1>3, <1>6 DEF q, Lesser
    <2>13. Taken(two.posted, Key("TRANSFER_IN", l, 0))
      <3>1. CASE n = 0
        BY <2>3, <2>7, <3>1 DEF Taken
      <3>2. CASE n > 0
        BY <1>2, <2>5, <2>7, <3>2 DEF Taken
      <3> QED
        BY <1>2, <3>1, <3>2
    <2>14. /\ new.request = request /\ new.inv = two /\ new.remaining = move.remaining - q /\ new.index = n + 1
           /\ n + 1 \in Nat /\ n + 1 # 0
      BY <1>2, <1>3, <1>4, <1>6
    <2> HIDE DEF new, two, one, after, n
    <2> QED
      BY <1>3, <2>8, <2>9, <2>10, <2>11, <2>12, <2>13, <2>14 DEF RoundSound, new, after
  <1> QED
    BY <1>3, <1>5, <1>6
\* A line with goods: what it says.
LEMMA LineFacts ==
    ASSUME PutawayInv, NEW l \in Lines
    PROVE  /\ l \in LineIds /\ l[1] \in ReceiptKeys /\ l[2] \in Items
           /\ Quantity(l) \in Nat /\ Quantity(l) > 0 /\ Source(l) \in Places
  <1>1. l \in LineIds /\ l[1] \in ReceiptKeys /\ l[2] \in Items
    BY DEF Lines, LineIds
  <1>2. l[2] \in DOMAIN receipts[l[1]].lines /\ Quantity(l) > 0
    BY DEF Lines, Quantity
  <1>3. receipts[l[1]].lines[l[2]] \in Counts /\ receipts[l[1]].place \in Places
    BY <1>1, <1>2 DEF PutawayInv, TypeOK
  <1> QED
    BY <1>1, <1>2, <1>3, ReceivingAssumption DEF Quantity, Source

\* The rows a transfer reads are rows of the product.
LEMMA SourcesTyped ==
    ASSUME PutawayInv, NEW l \in Lines
    PROVE  SourcesOf(l) \in Seq(OffersOf(l))
  <1>1. Source(l) \in Places /\ l[2] \in Items
    BY LineFacts
  <1>2. PlacesOf(l) \in Seq(Places)
    BY <1>1, PlacesAssumption DEF PlacesOf
  <1>3. ASSUME NEW place \in Places
        PROVE  Offer(At(ProductOf[l[2]], place)) \in OffersOf(l)
    <2>1. At(ProductOf[l[2]], place) \in Balances /\ At(ProductOf[l[2]], place)[1] = ProductOf[l[2]]
      BY <1>1, ReceivingAssumption DEF At, Places
    <2>2. stock[At(ProductOf[l[2]], place)].available \in Int
      BY <2>1 DEF PutawayInv, TypeOK, Quantities
    <2> QED
      BY <2>1, <2>2 DEF Offer, OffersOf, OfferRows
  <1>4. PICK N \in Nat : DOMAIN PlacesOf(l) = 1..N /\ \A n \in 1..N : PlacesOf(l)[n] \in Places
    BY <1>2
  <1>5. SourcesOf(l) = [n \in 1..N |-> Offer(At(ProductOf[l[2]], PlacesOf(l)[n]))]
    BY <1>4 DEF SourcesOf
  <1>6. SourcesOf(l) \in [1..N -> OffersOf(l)]
    BY <1>3, <1>4, <1>5
  <1> QED
    BY <1>4, <1>6

\* A line that was not moved has no movement under its keys.
LEMMA NoLegs ==
    ASSUME PutawayInv, NEW l, Unmoved(l), NEW p \in posted
    PROVE  ~(p.key.kind \in TransferTypes /\ p.key.client = l)
  <1> SUFFICES ASSUME p.key.kind \in TransferTypes, p.key.client = l PROVE FALSE
    OBVIOUS
  <1>1. p.type \in TransferTypes
    BY DEF PutawayInv, Known, TransferTypes
  <1> QED
    BY <1>1 DEF Unmoved, MovementsOf

\* A transfer that finds enough moves the whole quantity.
LEMMA MoveMovesAll ==
    ASSUME PutawayInv, NEW request \in Requests, request.line \in Lines, Unmoved(request.line),
           TotalAvailable(SourcesOf(request.line)) >= Quantity(request.line)
    PROVE  \E sum \in Nat : /\ sum >= Quantity(request.line)
                            /\ RoundSound(Move(request), request, posted, Quantity(request.line), sum)
  <1> DEFINE l    == request.line
             base == [request |-> request, inv |-> Inventory, remaining |-> Quantity(l), index |-> 0]
  <1>1. PICK Q : Q = Quantity(l)
    OBVIOUS
  <1>2. PICK seq : seq = SourcesOf(l)
    OBVIOUS
  <1>3. Q \in Nat /\ Q > 0 /\ seq \in Seq(OffersOf(l)) /\ Len(seq) \in Nat /\ \A n \in 1..Len(seq) : seq[n] \in OffersOf(l)
    BY <1>1, <1>2, LineFacts, SourcesTyped
  <1>4. \A p \in posted : ~(p.key.kind \in TransferTypes /\ p.key.client = l)
    BY NoLegs
  <1>5. PICK start : start = base
    OBVIOUS
  <1>6. RoundSound(start, request, posted, Q, 0)
    <2>1. /\ start.request = request /\ start.inv = Inventory /\ start.remaining = Q /\ start.index = 0
          /\ Inventory.stock = stock /\ Inventory.posted = posted
      BY <1>1, <1>5 DEF Inventory
    <2>2. Typed(Inventory)
      BY <2>1 DEF PutawayInv, TypeOK, Typed
    <2>3. HeldFollows(Inventory, receivedQty)
      BY DEF PutawayInv
    <2>4. ASSUME NEW type \in TransferTypes
          PROVE  QuantityOf(LegsIn(posted, l, type)) = 0
      <3>1. LegsIn(posted, l, type) = {}
        BY DEF LegsIn, Unmoved, MovementsOf
      <3> QED
        BY <3>1, SumOfNone DEF QuantityOf
    <2>5. Q = (IF 0 >= Q THEN 0 ELSE Q - 0) /\ Q - Q = 0 /\ ~(0 > 0) /\ 0 \in Nat
      BY <1>3
    <2> QED
      BY <1>3, <2>1, <2>2, <2>3, <2>4, <2>5 DEF RoundSound
  <1>7. PICK f : Rounds!Steps(f, start, seq)
    BY <1>3, Rounds!FoldLeftSteps
  <1>8. PICK g : Offers!Steps(g, 0, seq)
    BY <1>3, Offers!FoldLeftSteps
  <1>9. Move(request) = f[Len(seq)]
    <2>1. Move(request) = FoldLeft(MoveFrom, start, seq)
      BY <1>2, <1>5 DEF Move
    <2>2. FoldLeft(MoveFrom, start, seq) = Rounds!Folded(start, seq)
      BY DEF FoldLeft, MapThenFoldSet, Max, Rounds!Folded, Rounds!FoldLeft, Rounds!MapThenFoldSet, Rounds!Max
    <2> QED
      BY <1>3, <1>7, <2>1, <2>2, Rounds!FoldLeftIs
  <1>10. TotalAvailable(seq) = g[Len(seq)]
    <2>1. TotalAvailable(seq) = Offers!Folded(0, seq)
      BY DEF TotalAvailable, FoldLeft, MapThenFoldSet, Max, Offers!Folded, Offers!FoldLeft, Offers!MapThenFoldSet, Offers!Max
    <2> QED
      BY <1>3, <1>8, <2>1, Offers!FoldLeftIs
  <1> DEFINE T == {n \in Nat : n <= Len(seq) => g[n] \in Nat /\ RoundSound(f[n], request, posted, Q, g[n])}
  <1>11. 0 \in T
    <2>1. f[0] = start /\ g[0] = 0
      BY <1>7, <1>8 DEF Rounds!Steps, Offers!Steps
    <2> QED
      BY <1>6, <2>1
  <1>12. ASSUME NEW n \in Nat, n \in T
         PROVE  n + 1 \in T
    <2> SUFFICES ASSUME n + 1 <= Len(seq)
                 PROVE  g[n + 1] \in Nat /\ RoundSound(f[n + 1], request, posted, Q, g[n + 1])
      OBVIOUS
    <2>1. n <= Len(seq) /\ n + 1 \in 1..Len(seq) /\ (n + 1) - 1 = n
      BY <1>3
    <2>2. f[n + 1] = MoveFrom(f[n], seq[n + 1])
      <3>1. f[n + 1] = MoveFrom(f[(n + 1) - 1], seq[n + 1])
        BY <1>7, <2>1 DEF Rounds!Steps
      <3> QED
        BY <2>1, <3>1
    <2>3. g[n + 1] = AddOffer(g[n], seq[n + 1])
      <3>1. g[n + 1] = AddOffer(g[(n + 1) - 1], seq[n + 1])
        BY <1>8, <2>1 DEF Offers!Steps
      <3> QED
        BY <2>1, <3>1
    <2>4. g[n] \in Nat /\ RoundSound(f[n], request, posted, Q, g[n]) /\ seq[n + 1] \in OffersOf(l)
      BY <1>3, <1>12, <2>1
    <2>5. /\ AddOffer(g[n], seq[n + 1]) \in Nat
          /\ RoundSound(MoveFrom(f[n], seq[n + 1]), request, posted, Q, AddOffer(g[n], seq[n + 1]))
      BY <1>3, <1>4, <2>4, MoveFromKeeps
    <2> QED
      BY <2>2, <2>3, <2>5
  <1> HIDE DEF T
  <1>13. Len(seq) \in T
    BY <1>3, <1>11, <1>12, NaturalInduction
  <1>14. g[Len(seq)] \in Nat /\ RoundSound(f[Len(seq)], request, posted, Q, g[Len(seq)])
    <2>1. Len(seq) <= Len(seq)
      BY <1>3
    <2> QED
      BY <1>13, <2>1 DEF T
  <1>15. g[Len(seq)] >= Q
    BY <1>1, <1>2, <1>10
  <1> QED
    BY <1>1, <1>9, <1>14, <1>15
----------------------------------------------------------------------------
(* What a step leaves alone.                                               *)

\* Movements that are no legs, or legs of other lines, change nothing for a line.
LEMMA GoodsStay ==
    ASSUME PutawayInv, NEW l, Quantity(l)' = Quantity(l), posted \subseteq posted',
           \A p \in posted' \ posted : p.type \notin TransferTypes \/ p.key.client # l
    PROVE  (Unmoved(l) => Unmoved(l)') /\ (Moved(l) => Moved(l)')
  <1>1. \A type \in TransferTypes : MovementsOf(l, type)' = MovementsOf(l, type)
    BY DEF MovementsOf
  <1>2. Unmoved(l) => Unmoved(l)'
    BY <1>1 DEF Unmoved
  <1>3. ASSUME NEW type \in TransferTypes
        PROVE  QuantityOf(MovementsOf(l, type))' = QuantityOf(MovementsOf(l, type))
    <2>1. MovementsOf(l, type)' = MovementsOf(l, type)
      BY <1>1
    <2> HIDE DEF MovementsOf
    <2>2. QuantityOf(MovementsOf(l, type)') = QuantityOf(MovementsOf(l, type))
      BY <2>1
    <2> QED
      BY <2>2 DEF QuantityOf
  <1>4. Taken(posted, Key("TRANSFER_IN", l, 0)) => Taken(posted', Key("TRANSFER_IN", l, 0))
    BY DEF Taken
  <1>5. Moved(l) => Moved(l)'
    BY <1>3, <1>4 DEF Moved
  <1> QED
    BY <1>2, <1>5

\* Where no receipt changes, neither do the lines and what was accepted.
LEMMA LinesStay ==
    ASSUME UNCHANGED receivingVars
    PROVE  /\ Lines' = Lines
           /\ \A l : Quantity(l)' = Quantity(l) /\ Source(l)' = Source(l)
           /\ ReceiptsSound => ReceiptsSound'
           /\ ReceivedSound => ReceivedSound'
           /\ \A p : Known(p) => Known(p)'
  <1>1. receipts' = receipts /\ status' = status /\ receivedQty' = receivedQty
    BY DEF receivingVars
  <1>2. Lines' = Lines
    BY <1>1 DEF Lines
  <1>3. \A l : Quantity(l)' = Quantity(l) /\ Source(l)' = Source(l)
    BY <1>1 DEF Quantity, Source
  <1>4. ReceiptsSound => ReceiptsSound'
    BY <1>1 DEF ReceiptsSound
  <1>5. \A i : Accepted(i)' = Accepted(i)
    BY <1>1 DEF Accepted
  <1>6. ReceivedSound => ReceivedSound'
    BY <1>1, <1>5 DEF ReceivedSound
  <1>7. \A p : Known(p) => Known(p)'
    BY <1>1, <1>2 DEF Known
  <1> QED
    BY <1>2, <1>3, <1>4, <1>6, <1>7

\* Where lines stay there with their goods, tasks and requests stay sound.
LEMMA TasksStay ==
    ASSUME TasksSound, Lines \subseteq Lines', UNCHANGED <<tasks, handlers>>,
           \A l \in Lines : (Unmoved(l) => Unmoved(l)') /\ (Moved(l) => Moved(l)'),
           \A l \in Lines' \ Lines : Unmoved(l)'
    PROVE  TasksSound'
  <1>1. \A l \in Lines' : Unmoved(l)' \/ Moved(l)'
    BY DEF TasksSound
  <1>2. \A l \in LineIds : tasks'[l].status = "COMPLETED" => l \in Lines' /\ Moved(l)'
    BY DEF TasksSound
  <1>3. ASSUME NEW h \in Handlers
        PROVE  RequestSound(h)'
    <2>1. PICK l : l = handlers[h].line
      OBVIOUS
    <2>2. handlers' = handlers
      OBVIOUS
    <2>3. handlers[h].step = "mark" => Moved(l)'
      BY <2>1 DEF TasksSound, RequestSound
    <2>4. handlers[h].step \in {"move", "mark"} => l \in Lines'
      BY <2>1 DEF TasksSound, RequestSound
    <2> QED
      BY <2>1, <2>2, <2>3, <2>4 DEF RequestSound, Moved, MovementsOf, Quantity
  <1> QED
    BY <1>1, <1>2, <1>3 DEF TasksSound

\* The images of finitely many arguments are finitely many.
LEMMA ImageIsFinite ==
    ASSUME NEW S, IsFiniteSet(S), NEW f
    PROVE  IsFiniteSet({f[x] : x \in S})
  <1> DEFINE g == [x \in S |-> f[x]]
  <1>1. g \in Surjection(S, {f[x] : x \in S})
    BY DEF Surjection
  <1> QED
    BY <1>1, FS_Surjection

\* What was received of a product is an integer.
LEMMA ReceivedIsInteger ==
    ASSUME NEW received, \A i \in Items : received[i] \in Nat, NEW product
    PROVE  IsFiniteSet(ItemsOfProduct(product)) /\ ReceivedIn(received, product) \in Int
  <1>1. IsFiniteSet(Items)
    <2> DEFINE f == [o \in PurchaseOrders |-> ItemsOf[o]]
    <2>1. IsFiniteSet({f[o] : o \in PurchaseOrders})
      BY ReceivingAssumption, ImageIsFinite
    <2>2. {f[o] : o \in PurchaseOrders} = {ItemsOf[o] : o \in PurchaseOrders}
      OBVIOUS
    <2> QED
      BY <2>1, <2>2, ReceivingAssumption, FS_UNION DEF Items
  <1>2. IsFiniteSet(ItemsOfProduct(product))
    BY <1>1, FS_Subset DEF ItemsOfProduct
  <1> DEFINE f == [i \in ItemsOfProduct(product) |-> received[i]]
  <1>3. IntegersOn(f, ItemsOfProduct(product))
    BY DEF IntegersOn, ItemsOfProduct
  <1> QED
    BY <1>2, <1>3, SumIsInteger DEF ReceivedIn

\* A step of a task that posts nothing.
LEMMA TasksOnly ==
    ASSUME PutawayInv, UNCHANGED <<receivingVars, inventoryVars>>, TypeOK',
           \A l \in LineIds : tasks'[l].status = "COMPLETED" => l \in Lines /\ Moved(l),
           \A h \in Handlers : /\ handlers'[h].step \in {"move", "mark"} => handlers'[h].line \in Lines
                               /\ handlers'[h].step = "mark" => Moved(handlers'[h].line)
    PROVE  PutawayInv'
  <1>1. UNCHANGED receivingVars /\ stock' = stock /\ posted' = posted /\ receivedQty' = receivedQty
    BY DEF receivingVars, inventoryVars
  <1>2. /\ Lines' = Lines /\ ReceiptsSound' /\ ReceivedSound' /\ \A p \in posted : Known(p)'
    BY <1>1, LinesStay DEF PutawayInv
  <1>3. \A l : (Unmoved(l) => Unmoved(l)') /\ (Moved(l) => Moved(l)')
    BY <1>1, LinesStay, GoodsStay
  <1>4. HeldFollows(Inventory, receivedQty)'
    BY <1>1 DEF PutawayInv, HeldFollows, Inventory
  <1>5. TasksSound'
    <2>1. \A l \in Lines' : Unmoved(l)' \/ Moved(l)'
      BY <1>2, <1>3 DEF PutawayInv, TasksSound
    <2>2. \A l \in LineIds : tasks'[l].status = "COMPLETED" => l \in Lines' /\ Moved(l)'
      BY <1>2, <1>3
    <2>3. ASSUME NEW h \in Handlers
          PROVE  RequestSound(h)'
      <3>1. PICK l : l = handlers'[h].line
        OBVIOUS
      <3>2. handlers'[h].step = "mark" => Moved(l)'
        BY <1>3, <3>1
      <3>3. handlers'[h].step \in {"move", "mark"} => handlers'[h].line \in Lines'
        BY <1>2
      <3> QED
        BY <3>1, <3>2, <3>3 DEF RequestSound, Moved, MovementsOf, Quantity
    <2> QED
      BY <2>1, <2>2, <2>3 DEF TasksSound
  <1> QED
    BY <1>1, <1>2, <1>4, <1>5 DEF PutawayInv

\* What a request is, by its step.
LEMMA HandlerIs ==
    ASSUME TypeOK, NEW h \in Handlers
    PROVE  /\ handlers[h].step \in {"move", "mark"} => handlers[h] \in Requests
           /\ handlers[h].step = "flag" => handlers[h] \in Flags
  BY DEF TypeOK, Idle, Requests, Flags

----------------------------------------------------------------------------
(* The tasks.                                                              *)

\* Types after a step that changes tasks and one request only.
LEMMA TasksTyped ==
    ASSUME TypeOK, UNCHANGED <<receivingVars, inventoryVars>>,
           tasks' \in [LineIds -> Tasks],
           \A l \in LineIds : tasks'[l].status \in {"CLAIMED", "COMPLETED"} => tasks'[l].claimedBy # NoOperator,
           \A h \in Handlers : handlers'[h] \in {Idle} \cup Requests \cup Flags
    PROVE  TypeOK'
  BY DEF TypeOK, receivingVars, inventoryVars

\* A claim completes nothing.
LEMMA ClaimKeeps ==
    ASSUME PutawayInv, NEW l \in LineIds, NEW u \in Operators, Claim(l, u)
    PROVE  PutawayInv'
  <1>1. TypeOK /\ UNCHANGED <<receivingVars, inventoryVars, handlers>> /\ tasks \in [LineIds -> Tasks]
    BY DEF PutawayInv, TypeOK, Claim
  <1>2. tasks' = [tasks EXCEPT ![l] = [@ EXCEPT !.status = "CLAIMED", !.claimedBy = u]]
    BY DEF Claim
  <1>3. /\ tasks'[l] = [tasks[l] EXCEPT !.status = "CLAIMED", !.claimedBy = u]
        /\ \A m \in LineIds \ {l} : tasks'[m] = tasks[m]
    BY <1>1, <1>2
  <1>4. tasks'[l] \in Tasks /\ tasks'[l].status = "CLAIMED" /\ tasks'[l].claimedBy = u
    <2>1. tasks[l] \in Tasks
      BY <1>1
    <2> QED
      BY <1>3, <2>1 DEF Tasks
  <1>5. u # NoOperator
    BY PlacesAssumption
  <1>6. tasks' \in [LineIds -> Tasks]
    BY <1>1, <1>2, <1>4
  <1>7. \A m \in LineIds : tasks'[m].status \in {"CLAIMED", "COMPLETED"} => tasks'[m].claimedBy # NoOperator
    BY <1>1, <1>3, <1>4, <1>5 DEF TypeOK
  <1>8. handlers' = handlers
    BY <1>1
  <1>9. TypeOK'
    BY <1>1, <1>6, <1>7, <1>8, TasksTyped DEF TypeOK
  <1>10. \A m \in LineIds : tasks'[m].status = "COMPLETED" => m \in Lines /\ Moved(m)
    BY <1>3, <1>4 DEF PutawayInv, TasksSound
  <1>11. \A h \in Handlers : /\ handlers'[h].step \in {"move", "mark"} => handlers'[h].line \in Lines
                             /\ handlers'[h].step = "mark" => Moved(handlers'[h].line)
    BY <1>8 DEF PutawayInv, TasksSound, RequestSound
  <1> QED
    BY <1>1, <1>9, <1>10, <1>11, TasksOnly

\* A request that goes to another step, or ends, while rows stay as they are.
LEMMA RequestGoes ==
    ASSUME PutawayInv, NEW h \in Handlers, UNCHANGED <<receivingVars, inventoryVars, tasks>>,
           NEW to \in {Idle} \cup Requests \cup Flags, handlers' = [handlers EXCEPT ![h] = to],
           to.step \in {"move", "mark"} => to.line \in Lines,
           to.step = "mark" => Moved(to.line)
    PROVE  PutawayInv'
  <1>1. \A k \in Handlers : handlers'[k] = to \/ handlers'[k] = handlers[k]
    OBVIOUS
  <1>2. /\ UNCHANGED <<receivingVars, inventoryVars>> /\ tasks' = tasks /\ TypeOK
    BY DEF PutawayInv
  <1>3. TypeOK'
    BY <1>1, <1>2, TasksTyped DEF TypeOK
  <1>4. \A l \in LineIds : tasks'[l].status = "COMPLETED" => l \in Lines /\ Moved(l)
    BY <1>2 DEF PutawayInv, TasksSound
  <1>5. \A k \in Handlers : /\ handlers'[k].step \in {"move", "mark"} => handlers'[k].line \in Lines
                            /\ handlers'[k].step = "mark" => Moved(handlers'[k].line)
    BY <1>1 DEF PutawayInv, TasksSound, RequestSound
  <1> QED
    BY <1>2, <1>3, <1>4, <1>5, TasksOnly
\* A request starts, or ends before its last step.
LEMMA BeginsAndCrashesKeep ==
    ASSUME PutawayInv, NEW h \in Handlers,
           \/ \E l \in LineIds, u \in Operators, bin \in Bins : BeginComplete(h, l, u, bin)
           \/ \E l \in LineIds : BeginException(h, l)
           \/ Crash(h)
    PROVE  PutawayInv'
  <1>1. ASSUME NEW l \in LineIds, NEW u \in Operators, NEW bin \in Bins, BeginComplete(h, l, u, bin)
        PROVE  PutawayInv'
    <2> DEFINE to == [step |-> "move", line |-> l, user |-> u, bin |-> bin]
    <2>1. to \in Requests /\ to.step = "move" /\ to.line \in Lines /\ handlers' = [handlers EXCEPT ![h] = to]
          /\ UNCHANGED <<receivingVars, inventoryVars, tasks>>
      BY <1>1 DEF BeginComplete, Requests
    <2> HIDE DEF to
    <2> QED
      BY <2>1, RequestGoes
  <1>2. ASSUME NEW l \in LineIds, BeginException(h, l)
        PROVE  PutawayInv'
    <2> DEFINE to == [step |-> "flag", line |-> l]
    <2>1. to \in Flags /\ to.step = "flag" /\ handlers' = [handlers EXCEPT ![h] = to]
          /\ UNCHANGED <<receivingVars, inventoryVars, tasks>>
      BY <1>2 DEF BeginException, Flags
    <2> HIDE DEF to
    <2> QED
      BY <2>1, RequestGoes
  <1>3. ASSUME Crash(h)
        PROVE  PutawayInv'
    <2>1. Idle.step = "none" /\ handlers' = [handlers EXCEPT ![h] = Idle]
          /\ UNCHANGED <<receivingVars, inventoryVars, tasks>>
      BY <1>3 DEF Crash, Idle
    <2> QED
      BY <2>1, RequestGoes
  <1> QED
    BY <1>1, <1>2, <1>3

\* Only a request whose goods were moved completes a task.
LEMMA MarkCompletedKeeps ==
    ASSUME PutawayInv, NEW h \in Handlers, MarkCompleted(h)
    PROVE  PutawayInv'
  <1> DEFINE request == handlers[h]
             l       == request.line
  <1>1. /\ TypeOK /\ UNCHANGED <<receivingVars, inventoryVars>> /\ request.step = "mark"
        /\ handlers' = [handlers EXCEPT ![h] = Idle] /\ tasks \in [LineIds -> Tasks]
    BY DEF PutawayInv, TypeOK, MarkCompleted
  <1>2. l \in LineIds /\ request.bin \in Bins /\ request.user \in Operators /\ l \in Lines /\ Moved(l)
    BY <1>1, HandlerIs DEF Requests, PutawayInv, TasksSound, RequestSound
  <1>3. \/ tasks' = tasks
        \/ /\ tasks[l].claimedBy = request.user
           /\ tasks' = [tasks EXCEPT ![l].status = "COMPLETED", ![l].destination = request.bin]
    BY DEF MarkCompleted
  <1>4. \A m \in LineIds :
           \/ tasks'[m] = tasks[m]
           \/ /\ m = l /\ tasks[l].claimedBy = request.user
              /\ tasks'[m] = [tasks[m] EXCEPT !.status = "COMPLETED", !.destination = request.bin]
    BY <1>1, <1>2, <1>3
  <1>5. ASSUME NEW m \in LineIds
        PROVE  /\ tasks'[m] \in Tasks
               /\ tasks'[m].status \in {"CLAIMED", "COMPLETED"} => tasks'[m].claimedBy # NoOperator
               /\ tasks'[m].status = "COMPLETED" => m \in Lines /\ Moved(m)
    <2>1. tasks[m] \in Tasks
      BY <1>1
    <2>2. CASE tasks'[m] = tasks[m]
      BY <1>1, <2>1, <2>2 DEF TypeOK, PutawayInv, TasksSound
    <2>3. CASE m = l /\ tasks[l].claimedBy = request.user
               /\ tasks'[m] = [tasks[m] EXCEPT !.status = "COMPLETED", !.destination = request.bin]
      <3>1. tasks'[m] \in Tasks /\ tasks'[m].claimedBy = tasks[m].claimedBy
        BY <1>2, <2>1, <2>3 DEF Tasks, Places
      <3>2. tasks'[m].claimedBy # NoOperator
        BY <1>2, <2>3, <3>1, PlacesAssumption
      <3> QED
        BY <1>2, <2>3, <3>1, <3>2
    <2> QED
      BY <1>4, <2>2, <2>3
  <1>6. tasks' \in [LineIds -> Tasks]
    <2>1. tasks' = [m \in LineIds |-> tasks'[m]]
      BY <1>1, <1>3
    <2> QED
      BY <1>5, <2>1
  <1>7. \A k \in Handlers : handlers'[k] = handlers[k] \/ handlers'[k] = Idle
    BY <1>1
  <1>8. \A k \in Handlers : handlers'[k] \in {Idle} \cup Requests \cup Flags
    BY <1>1, <1>7 DEF TypeOK
  <1>9. TypeOK'
    BY <1>1, <1>5, <1>6, <1>8, TasksTyped
  <1>10. \A k \in Handlers : /\ handlers'[k].step \in {"move", "mark"} => handlers'[k].line \in Lines
                             /\ handlers'[k].step = "mark" => Moved(handlers'[k].line)
    BY <1>7 DEF PutawayInv, TasksSound, RequestSound, Idle
  <1> QED
    BY <1>1, <1>5, <1>9, <1>10, TasksOnly

\* An exception takes a task back from what it said.
LEMMA FlagKeeps ==
    ASSUME PutawayInv, NEW h \in Handlers, Flag(h)
    PROVE  PutawayInv'
  <1> DEFINE l == handlers[h].line
  <1>1. /\ TypeOK /\ UNCHANGED <<receivingVars, inventoryVars>> /\ handlers[h].step = "flag"
        /\ handlers' = [handlers EXCEPT ![h] = Idle] /\ tasks \in [LineIds -> Tasks]
        /\ tasks' = [tasks EXCEPT ![l].status = "EXCEPTION"]
    BY DEF PutawayInv, TypeOK, Flag
  <1>2. l \in LineIds
    BY <1>1, HandlerIs DEF Flags
  <1>3. /\ \A m \in LineIds \ {l} : tasks'[m] = tasks[m]
        /\ tasks'[l] = [tasks[l] EXCEPT !.status = "EXCEPTION"]
    BY <1>1, <1>2
  <1>4. tasks'[l] \in Tasks /\ tasks'[l].status = "EXCEPTION"
    <2>1. tasks[l] \in Tasks
      BY <1>1, <1>2
    <2> QED
      BY <1>3, <2>1 DEF Tasks
  <1>5. tasks' \in [LineIds -> Tasks]
    BY <1>1, <1>2, <1>4
  <1>6. \A m \in LineIds : /\ tasks'[m].status \in {"CLAIMED", "COMPLETED"} => tasks'[m].claimedBy # NoOperator
                           /\ tasks'[m].status = "COMPLETED" => m \in Lines /\ Moved(m)
    BY <1>1, <1>3, <1>4 DEF TypeOK, PutawayInv, TasksSound
  <1>7. \A k \in Handlers : handlers'[k] = handlers[k] \/ handlers'[k] = Idle
    BY <1>1
  <1>8. \A k \in Handlers : handlers'[k] \in {Idle} \cup Requests \cup Flags
    BY <1>1, <1>7 DEF TypeOK
  <1>9. TypeOK'
    BY <1>1, <1>5, <1>6, <1>8, TasksTyped
  <1>10. \A k \in Handlers : /\ handlers'[k].step \in {"move", "mark"} => handlers'[k].line \in Lines
                             /\ handlers'[k].step = "mark" => Moved(handlers'[k].line)
    BY <1>7 DEF PutawayInv, TasksSound, RequestSound, Idle
  <1> QED
    BY <1>1, <1>6, <1>9, <1>10, TasksOnly

\* What a request becomes when its goods are moved.
Marked(h) == [handlers[h] EXCEPT !.step = "mark"]

LEMMA MarkedIs ==
    ASSUME PutawayInv, NEW h \in Handlers, handlers[h].step = "move"
    PROVE  /\ handlers[h] \in Requests /\ handlers[h].line \in Lines
           /\ Marked(h) \in Requests /\ Marked(h).step = "mark" /\ Marked(h).line = handlers[h].line
  <1>1. handlers[h] \in Requests /\ handlers[h].line \in Lines
    BY HandlerIs DEF PutawayInv, TasksSound, RequestSound
  <1> QED
    BY <1>1 DEF Marked, Requests

\* A movement under a line's first key is there exactly when the line was moved.
LEMMA MovedBeforeIs ==
    ASSUME PutawayInv, NEW request \in Requests, request.line \in Lines
    PROVE  /\ MovedBefore(request) => Moved(request.line)
           /\ ~MovedBefore(request) => Unmoved(request.line)
  <1>1. Unmoved(request.line) \/ Moved(request.line)
    BY DEF PutawayInv, TasksSound
  <1>2. ASSUME MovedBefore(request)
        PROVE  ~Unmoved(request.line)
    <2>1. PICK p \in posted : p.key \in {Key("TRANSFER_OUT", request.line, 0), Key("TRANSFER_IN", request.line, 0)}
      BY <1>2 DEF MovedBefore, PutawayKey
    <2>2. p.key.kind \in TransferTypes /\ p.key.client = request.line
      BY <2>1 DEF Key, TransferTypes
    <2> QED
      BY <2>2, NoLegs
  <1>3. Moved(request.line) => MovedBefore(request)
    BY DEF Moved, Taken, MovedBefore, PutawayKey
  <1> QED
    BY <1>1, <1>2, <1>3
\* complete, second step: the goods are moved now, were moved before, or stay where they are.
LEMMA MoveStockKeeps ==
    ASSUME PutawayInv, NEW h \in Handlers, MoveStock(h)
    PROVE  PutawayInv'
  <1>1. PICK request : request = handlers[h]
    OBVIOUS
  <1>2. PICK l : l = request.line
    OBVIOUS
  <1>3. /\ request \in Requests /\ l \in Lines /\ request.step = "move" /\ l \in LineIds
        /\ Marked(h) \in Requests /\ Marked(h).step = "mark" /\ Marked(h).line = l
    BY <1>1, <1>2, MarkedIs, LineFacts DEF MoveStock
  <1>4. UNCHANGED <<receivingVars, tasks>>
    BY DEF MoveStock
  <1>5. CASE MovedBefore(request) /\ handlers' = [handlers EXCEPT ![h] = Marked(h)] /\ UNCHANGED inventoryVars
    <2>1. Moved(l)
      BY <1>2, <1>3, <1>5, MovedBeforeIs
    <2>2. PICK to : to = Marked(h)
      OBVIOUS
    <2>3. UNCHANGED <<receivingVars, inventoryVars, tasks>>
      BY <1>4, <1>5
    <2>4. to \in {Idle} \cup Requests \cup Flags /\ handlers' = [handlers EXCEPT ![h] = to] /\ to.line \in Lines
          /\ Moved(to.line)
      BY <1>3, <1>5, <2>1, <2>2
    <2> QED
      BY <2>3, <2>4, RequestGoes
  <1>6. CASE handlers' = [handlers EXCEPT ![h] = Idle] /\ UNCHANGED inventoryVars
    <2>1. UNCHANGED <<receivingVars, inventoryVars, tasks>> /\ Idle.step = "none"
      BY <1>4, <1>6 DEF Idle
    <2> QED
      BY <1>6, <2>1, RequestGoes
  <1>7. CASE /\ ~MovedBefore(request) /\ TotalAvailable(SourcesOf(l)) >= Quantity(l)
             /\ Posts(Move(request).inv) /\ handlers' = [handlers EXCEPT ![h] = Marked(h)]
    <2>1. PICK Q : Q = Quantity(l)
      OBVIOUS
    <2>2. Q \in Nat /\ Q > 0 /\ Unmoved(l)
      BY <1>2, <1>3, <1>7, <2>1, LineFacts, MovedBeforeIs
    <2>3. PICK sum \in Nat : sum >= Q /\ RoundSound(Move(request), request, posted, Q, sum)
      BY <1>2, <1>3, <1>7, <2>1, <2>2, MoveMovesAll
    <2>4. PICK move : move = Move(request)
      OBVIOUS
    <2>5. /\ Typed(move.inv) /\ HeldFollows(move.inv, receivedQty) /\ posted \subseteq move.inv.posted
          /\ \A p \in move.inv.posted \ posted : LegBefore(p, l, move.index)
          /\ move.remaining = 0 /\ move.index \in Nat /\ move.index > 0
          /\ \A type \in TransferTypes : QuantityOf(LegsIn(move.inv.posted, l, type)) = Q
          /\ Taken(move.inv.posted, Key("TRANSFER_IN", l, 0))
      <3>1. RoundSound(move, request, posted, Q, sum)
        BY <2>3, <2>4
      <3>2. move.remaining = 0 /\ Q - 0 = Q
        BY <2>2, <2>3, <3>1 DEF RoundSound
      <3>3. move.index \in Nat /\ move.index > 0
        BY <2>2, <3>1, <3>2 DEF RoundSound
      <3> QED
        BY <1>2, <3>1, <3>2, <3>3 DEF RoundSound
    <2>6. stock' = move.inv.stock /\ posted' = move.inv.posted
      BY <1>7, <2>4 DEF Posts
    <2>7. \A p \in posted' \ posted : p.type \in TransferTypes /\ p.key.kind = p.type /\ p.key.client = l
      BY <2>5, <2>6 DEF LegBefore
    <2>8. UNCHANGED receivingVars /\ receivedQty' = receivedQty /\ receipts' = receipts /\ tasks' = tasks
      BY <1>4 DEF receivingVars
    <2>9. /\ Lines' = Lines /\ \A m : Quantity(m)' = Quantity(m)
          /\ ReceiptsSound' /\ ReceivedSound' /\ \A p : Known(p) => Known(p)'
      BY <2>8, LinesStay DEF PutawayInv
    <2>10. Moved(l)'
      <3>1. \A type \in TransferTypes : QuantityOf(MovementsOf(l, type))' = Q
        BY <2>5, <2>6 DEF LegsIn, MovementsOf, QuantityOf
      <3>2. Quantity(l)' = Q
        BY <2>1, <2>9
      <3> QED
        BY <2>5, <2>6, <3>1, <3>2 DEF Moved
    <2>11. ASSUME NEW m, m # l
           PROVE  (Unmoved(m) => Unmoved(m)') /\ (Moved(m) => Moved(m)')
      <3>1. posted \subseteq posted' /\ \A p \in posted' \ posted : p.key.client # m
        BY <2>5, <2>6, <2>7, <2>11
      <3> QED
        BY <2>9, <3>1, GoodsStay
    <2>12. \A p \in posted' : Known(p)'
      BY <1>3, <2>7, <2>9 DEF PutawayInv, Known
    <2>13. TypeOK' /\ IsFiniteSet(posted')
      <3>1. stock' \in [Balances -> Quantities] /\ posted' \subseteq Postings /\ IsFiniteSet(posted')
        BY <2>5, <2>6 DEF Typed
      <3>2. status' = status
        BY <1>4 DEF receivingVars
      <3>3. \A k \in Handlers : handlers'[k] \in {Idle} \cup Requests \cup Flags
        BY <1>3, <1>7 DEF PutawayInv, TypeOK
      <3> QED
        BY <2>8, <3>1, <3>2, <3>3 DEF PutawayInv, TypeOK
    <2>14. HeldFollows(Inventory, receivedQty)'
      BY <2>5, <2>6, <2>8 DEF HeldFollows, Inventory
    <2>15. TasksSound'
      <3>1. \A m \in Lines' : Unmoved(m)' \/ Moved(m)'
        BY <2>9, <2>10, <2>11 DEF PutawayInv, TasksSound
      <3>2. \A m \in LineIds : tasks'[m].status = "COMPLETED" => m \in Lines' /\ Moved(m)'
        BY <2>8, <2>9, <2>10, <2>11 DEF PutawayInv, TasksSound
      <3>3. ASSUME NEW k \in Handlers
            PROVE  RequestSound(k)'
        <4>1. PICK m : m = handlers'[k].line
          OBVIOUS
        <4>2. handlers'[k] = Marked(h) \/ handlers'[k] = handlers[k]
          BY <1>7
        <4>3. handlers'[k].step = "mark" => Moved(m)'
          BY <1>3, <2>10, <2>11, <4>1, <4>2 DEF PutawayInv, TasksSound, RequestSound
        <4>4. handlers'[k].step \in {"move", "mark"} => handlers'[k].line \in Lines'
          BY <1>3, <2>9, <4>2 DEF PutawayInv, TasksSound, RequestSound
        <4> QED
          BY <4>1, <4>3, <4>4 DEF RequestSound, Moved, MovementsOf, Quantity
      <3> QED
        BY <3>1, <3>2, <3>3 DEF TasksSound
    <2> QED
      BY <2>9, <2>12, <2>13, <2>14, <2>15 DEF PutawayInv
  <1>8. \/ MovedBefore(request) /\ handlers' = [handlers EXCEPT ![h] = Marked(h)] /\ UNCHANGED inventoryVars
        \/ handlers' = [handlers EXCEPT ![h] = Idle] /\ UNCHANGED inventoryVars
        \/ /\ ~MovedBefore(request) /\ TotalAvailable(SourcesOf(l)) >= Quantity(l)
           /\ Posts(Move(request).inv) /\ handlers' = [handlers EXCEPT ![h] = Marked(h)]
    BY <1>1, <1>2 DEF MoveStock, Marked
  <1> QED
    BY <1>5, <1>6, <1>7, <1>8

----------------------------------------------------------------------------
(* Corrections.                                                            *)

\* A correction as a posting.
LEMMA CorrectionIs ==
    ASSUME NEW c \in Corrections
    PROVE  /\ AdjustPosting(c) \in Postings /\ AdjustPosting(c).key = AdjustKey(c)
           /\ AdjustPosting(c).type = "ADJUSTMENT" /\ AdjustPosting(c).key.kind = "ADJUSTMENT"
  <1>1. c.balance \in Balances /\ c.change \in Int /\ c.client \in ClientKeys
    BY PlacesAssumption
  <1>2. AdjustKey(c) \in Keys /\ AdjustKey(c).kind = "ADJUSTMENT"
    BY <1>1 DEF AdjustKey, Key, Keys, KeyKinds
  <1>3. OnHand(c.change) \in Deltas /\ Abs(c.change) \in Int
    BY <1>1 DEF OnHand, Deltas, Abs
  <1>4. "ADJUSTMENT" \in MovementTypes
    BY DEF MovementTypes
  <1> QED
    BY <1>1, <1>2, <1>3, <1>4 DEF AdjustPosting, Posting, Postings

\* What a correction changes is held and is corrected.
LEMMA CorrectKeeps ==
    ASSUME PutawayInv, NEW c \in Corrections, Correct(c)
    PROVE  PutawayInv'
  <1>1. PICK p : p = AdjustPosting(c)
    OBVIOUS
  <1>2. /\ p \in Postings /\ p.key = AdjustKey(c) /\ p.type = "ADJUSTMENT" /\ p.key.kind = "ADJUSTMENT"
        /\ p.type \notin TransferTypes
    BY <1>1, CorrectionIs DEF TransferTypes
  <1>3. PICK inv : inv = Inventory
    OBVIOUS
  <1>4. inv.stock = stock /\ inv.posted = posted /\ Typed(inv) /\ HeldFollows(inv, receivedQty)
    BY <1>3 DEF Inventory, PutawayInv, TypeOK, Typed
  <1>5. PICK new : new = OneMore(inv, p)
    OBVIOUS
  <1>6. ~Taken(inv.posted, p.key) /\ stock' = new.stock /\ posted' = new.posted
        /\ UNCHANGED <<receivingVars, tasks, handlers>>
    BY <1>1, <1>2, <1>3, <1>4, <1>5 DEF Correct, Posts
  <1>7. Typed(new) /\ new.posted = posted \cup {p}
    BY <1>2, <1>4, <1>5, <1>6, OneMoreTyped, OneMoreIs
  <1>8. HeldFollows(new, receivedQty)
    <2> SUFFICES ASSUME NEW product \in Products
                 PROVE  HeldIn(new.stock, product) =
                          ReceivedIn(receivedQty, product) + CorrectedIn(new.posted, product)
      BY DEF HeldFollows
    <2>1. HeldIn(inv.stock, product) = ReceivedIn(receivedQty, product) + CorrectedIn(inv.posted, product)
      BY <1>4 DEF HeldFollows
    <2>2. /\ HeldIn(inv.stock, product) \in Int /\ CorrectedIn(inv.posted, product) \in Int
          /\ HeldIn(new.stock, product) =
               HeldIn(inv.stock, product) + Adds(p.balance[1] = product, p.delta.onHand)
          /\ CorrectedIn(new.posted, product) =
               CorrectedIn(inv.posted, product) +
                 Adds(p.type = "ADJUSTMENT" /\ p.balance[1] = product, p.delta.onHand)
      BY <1>2, <1>4, <1>5, <1>6, HeldWithOneMore
    <2>3. PICK d : d = Adds(p.balance[1] = product, p.delta.onHand)
      OBVIOUS
    <2>4. d \in Int /\ Adds(p.type = "ADJUSTMENT" /\ p.balance[1] = product, p.delta.onHand) = d
      BY <1>2, <2>3, PostingFields DEF Adds
    <2>5. ReceivedIn(receivedQty, product) \in Int
      BY ReceivedIsInteger DEF PutawayInv, TypeOK
    <2> QED
      BY <2>1, <2>2, <2>3, <2>4, <2>5
  <1>9. UNCHANGED receivingVars /\ receivedQty' = receivedQty /\ receipts' = receipts /\ status' = status
        /\ tasks' = tasks /\ handlers' = handlers
    BY <1>6 DEF receivingVars
  <1>10. /\ Lines' = Lines /\ (\A m : Quantity(m)' = Quantity(m))
         /\ ReceiptsSound' /\ ReceivedSound' /\ \A r : Known(r) => Known(r)'
    BY <1>9, LinesStay DEF PutawayInv
  <1>11. \A m : (Unmoved(m) => Unmoved(m)') /\ (Moved(m) => Moved(m)')
    <2>1. posted \subseteq posted' /\ \A r \in posted' \ posted : r.type \notin TransferTypes
      BY <1>2, <1>6, <1>7
    <2> QED
      BY <1>10, <2>1, GoodsStay
  <1>12. \A r \in posted' : Known(r)'
    BY <1>2, <1>6, <1>7, <1>10 DEF PutawayInv, Known
  <1>13. TypeOK' /\ IsFiniteSet(posted')
    BY <1>6, <1>7, <1>9 DEF PutawayInv, TypeOK, Typed
  <1>14. HeldFollows(Inventory, receivedQty)'
    BY <1>6, <1>8, <1>9 DEF HeldFollows, Inventory
  <1>15. TasksSound'
    BY <1>9, <1>10, <1>11, TasksStay DEF PutawayInv
  <1> QED
    BY <1>10, <1>12, <1>13, <1>14, <1>15 DEF PutawayInv
----------------------------------------------------------------------------
(* PurchaseOrderService.                                                   *)

\* No status that says goods arrived is requested, or left on request.
LEMMA Transitions ==
    ASSUME NEW s \in Statuses
    PROVE  /\ validTransitions[s] \subseteq Statuses \ {"PARTIALLY_RECEIVED", "RECEIVED"}
           /\ s \in {"PARTIALLY_RECEIVED", "RECEIVED"} => validTransitions[s] = {}
  BY DEF validTransitions, Statuses

\* A status written on request says as much of the goods as the one before.
LEMMA UpdateStatusKeeps ==
    ASSUME PutawayInv, NEW o \in PurchaseOrders, NEW requested \in Statuses, UpdateStatus(o, requested),
           UNCHANGED <<tasks, handlers>>
    PROVE  PutawayInv'
  <1>1. /\ requested \in validTransitions[status[o]] /\ status' = [status EXCEPT ![o] = requested]
        /\ receivedQty' = receivedQty /\ receipts' = receipts /\ stock' = stock /\ posted' = posted
        /\ status \in [PurchaseOrders -> Statuses]
    BY DEF UpdateStatus, PutawayInv, TypeOK
  <1>2. /\ requested \notin {"PARTIALLY_RECEIVED", "RECEIVED"}
        /\ status[o] \notin {"PARTIALLY_RECEIVED", "RECEIVED"}
    BY <1>1, Transitions
  <1>3. \A i : Accepted(i)' = Accepted(i)
    BY <1>1 DEF Accepted
  <1>4. ReceivedSound'
    <2>1. ASSUME NEW x \in PurchaseOrders
          PROVE  /\ status'[x] = "RECEIVED" <=> status[x] = "RECEIVED"
                 /\ status'[x] \in {"PARTIALLY_RECEIVED", "RECEIVED"} <=>
                      status[x] \in {"PARTIALLY_RECEIVED", "RECEIVED"}
      BY <1>1, <1>2
    <2> QED
      BY <1>1, <1>3, <2>1 DEF PutawayInv, ReceivedSound
  <1>5. Lines' = Lines /\ (\A l : Quantity(l)' = Quantity(l)) /\ ReceiptsSound' /\ \A p : Known(p) => Known(p)'
    <2>1. Lines' = Lines
      BY <1>1 DEF Lines
    <2>2. \A l : Quantity(l)' = Quantity(l)
      BY <1>1 DEF Quantity
    <2>3. ReceiptsSound'
      BY <1>1 DEF PutawayInv, ReceiptsSound
    <2>4. \A p : Known(p) => Known(p)'
      BY <1>1, <2>1 DEF Known
    <2> QED
      BY <2>1, <2>2, <2>3, <2>4
  <1>6. \A l : (Unmoved(l) => Unmoved(l)') /\ (Moved(l) => Moved(l)')
    BY <1>1, <1>5, GoodsStay
  <1>7. TasksSound'
    BY <1>5, <1>6, TasksStay DEF PutawayInv
  <1>8. TypeOK'
    BY <1>1 DEF PutawayInv, TypeOK
  <1>9. HeldFollows(Inventory, receivedQty)'
    BY <1>1 DEF PutawayInv, HeldFollows, Inventory
  <1> QED
    BY <1>1, <1>4, <1>5, <1>7, <1>8, <1>9 DEF PutawayInv

\* Of item j, d more were received, and of the others no more.
MoreOf(received, after, j, d) ==
    /\ \A i \in Items : received[i] \in Nat /\ after[i] \in Nat
    /\ after[j] = received[j] + d
    /\ \A i \in Items \ {j} : after[i] = received[i]

\* What a receipt of d more of an item adds to what was received of a product.
LEMMA ReceivedChanges ==
    ASSUME NEW received, NEW after, NEW j \in Items, NEW d \in Nat, MoreOf(received, after, j, d), NEW product
    PROVE  ReceivedIn(after, product) = ReceivedIn(received, product) + Adds(ProductOf[j] = product, d)
  <1>0. /\ \A i \in Items : received[i] \in Nat /\ after[i] \in Nat
        /\ after[j] = received[j] + d /\ \A i \in Items \ {j} : after[i] = received[i]
    BY DEF MoreOf
  <1> DEFINE S == ItemsOfProduct(product)
             f == [i \in S |-> received[i]]
             g == [i \in S |-> after[i]]
  <1>1. IsFiniteSet(S) /\ S \subseteq Items /\ (j \in S <=> ProductOf[j] = product)
        /\ ReceivedIn(received, product) \in Int
    BY <1>0, ReceivedIsInteger DEF ItemsOfProduct
  <1>2. IntegersOn(f, S) /\ IntegersOn(g, S) /\ \A i \in S \ {j} : g[i] = f[i]
    BY <1>0, <1>1 DEF IntegersOn
  <1>3. ReceivedIn(received, product) = SumFunctionOnSet(f, S) /\ ReceivedIn(after, product) = SumFunctionOnSet(g, S)
    BY DEF ReceivedIn
  <1>4. j \in S => f[j] = received[j] /\ g[j] = received[j] + d /\ f[j] \in Nat /\ g[j] \in Int
    <2>1. received[j] \in Nat /\ received[j] + d \in Int
      BY <1>0
    <2> QED
      BY <1>0, <2>1
  <1> HIDE DEF S, f, g
  <1>5. CASE j \in S
    <2>1. SumFunctionOnSet(g, S) = SumFunctionOnSet(f, S) - f[j] + g[j]
      BY <1>1, <1>2, <1>4, <1>5, SumWithOneChanged
    <2>2. Adds(ProductOf[j] = product, d) = d
      BY <1>1, <1>5 DEF Adds
    <2> QED
      BY <1>1, <1>3, <1>4, <1>5, <2>1, <2>2
  <1>6. CASE j \notin S
    <2>1. SumFunctionOnSet(g, S) = SumFunctionOnSet(f, S)
      BY <1>1, <1>2, <1>6, SumsAgree
    <2>2. Adds(ProductOf[j] = product, d) = 0
      BY <1>1, <1>6 DEF Adds
    <2> QED
      BY <1>1, <1>3, <2>1, <2>2
  <1> QED
    BY <1>5, <1>6

\* A posting made for item i of this receipt.
LinePosted(p, key, i, count) ==
    /\ p \in Postings /\ p.type = "RECEIPT" /\ p.key.kind = "RECEIPT_LINE" /\ p.key.client = <<key, i>>
    /\ p.balance[1] = ProductOf[i]
    /\ p.delta.onHand = count.accepted /\ count.accepted \in Nat /\ <<key, i>> \in LineIds

\* A receipt line as a posting.
LEMMA LinePostingIs ==
    ASSUME NEW key \in ReceiptKeys, NEW i \in Items, NEW place \in Places, NEW count \in Counts
    PROVE  LinePosted(LinePosting(key, i, place, count), key, i, count)
  <1>1. count.accepted \in Nat
    BY ReceivingAssumption
  <1>2. <<key, i>> \in LineIds
    BY DEF LineIds
  <1>3. Key("RECEIPT_LINE", <<key, i>>, 0) \in Keys
    BY <1>2, ReceivingAssumption DEF Key, Keys, KeyKinds
  <1>4. OnHand(count.accepted) \in Deltas /\ OnHand(count.accepted).onHand = count.accepted
    BY <1>1 DEF OnHand, Deltas
  <1>5. At(ProductOf[i], place) \in Balances /\ At(ProductOf[i], place)[1] = ProductOf[i]
    BY ReceivingAssumption DEF At, Places
  <1>6. "RECEIPT" \in MovementTypes
    BY DEF MovementTypes
  <1> QED
    BY <1>1, <1>2, <1>3, <1>4, <1>5, <1>6 DEF LinePosted, LinePosting, Posting, Postings, Key

\* The lines of a receipt that accepted goods, and what items received with some of them.
Accepting(lines) == {i \in DOMAIN lines : lines[i].accepted > 0}

With(received, lines, done) ==
    [i \in Items |-> received[i] + IF i \in done THEN lines[i].accepted ELSE 0]

\* The postings of a receipt are what its items received.
LEMMA ReceiptPosts ==
    ASSUME NEW inv, Typed(inv), NEW received, \A i \in Items : received[i] \in Nat,
           HeldFollows(inv, With(received, <<>>, {})),
           NEW key \in ReceiptKeys, NEW place \in Places, NEW named \in SUBSET Items, NEW lines \in [named -> Counts],
           IsFiniteSet(named),
           \A p \in inv.posted : ~(p.key.kind = "RECEIPT_LINE" /\ p.key.client[1] = key),
           NEW S, \A x \in S : \E i \in Accepting(lines) : x = LinePosting(key, i, place, lines[i]),
           \A i \in Accepting(lines) : LinePosting(key, i, place, lines[i]) \in S
    PROVE  /\ Typed(PostAll(inv, SetToSeq(S)))
           /\ PostAll(inv, SetToSeq(S)).posted = inv.posted \cup S
           /\ HeldFollows(PostAll(inv, SetToSeq(S)), With(received, lines, Accepting(lines)))
  <1> DEFINE seq  == SetToSeq(S)
             P(i) == LinePosting(key, i, place, lines[i])
             Done(n) == {i \in Accepting(lines) : \E m \in 1..n : seq[m] = P(i)}
             First(n) == {seq[m] : m \in 1..n}
  <1>1. Accepting(lines) \subseteq named /\ Accepting(lines) \subseteq Items /\ DOMAIN lines = named
    BY DEF Accepting
  <1>2. IsFiniteSet(S)
    <2> DEFINE f == [i \in Accepting(lines) |-> P(i)]
    <2>1. IsFiniteSet(Accepting(lines))
      BY <1>1, FS_Subset
    <2>2. {f[i] : i \in Accepting(lines)} = S
      <3>1. \A i \in Accepting(lines) : f[i] = P(i)
        OBVIOUS
      <3> QED
        BY <3>1
    <2> HIDE DEF f
    <2>3. \A A : IsFiniteSet(A) => IsFiniteSet({f[i] : i \in A})
      BY ONLY ImageIsFinite
    <2> QED
      BY <2>1, <2>2, <2>3
  <1>3. ASSUME NEW i \in Accepting(lines)
        PROVE
           /\ P(i) \in Postings /\ P(i).key.kind = "RECEIPT_LINE" /\ P(i).key.client = <<key, i>>
           /\ P(i).type = "RECEIPT" /\ P(i).balance[1] = ProductOf[i]
           /\ P(i).delta.onHand = lines[i].accepted /\ lines[i].accepted \in Nat
    <2>1. i \in Items /\ lines[i] \in Counts
      BY <1>1
    <2>2. LinePosted(P(i), key, i, lines[i])
      BY <2>1, LinePostingIs
    <2> HIDE DEF P
    <2> QED
      BY <2>2 DEF LinePosted
  <1>4. /\ seq \in Seq(S) /\ Len(seq) \in Nat
        /\ \A x \in S : \E n \in 1..Len(seq) : seq[n] = x
        /\ \A m, n \in 1..Len(seq) : seq[m] = seq[n] => m = n
        /\ \A n \in 1..Len(seq) : seq[n] \in S
    <2>1. /\ seq \in Seq(S) /\ Len(seq) = Cardinality(S)
          /\ \A x \in S : \E n \in 1..Len(seq) : seq[n] = x
          /\ \A m, n \in 1..Len(seq) : seq[m] = seq[n] => m = n
      BY <1>2, SetToSeqIs
    <2> HIDE DEF seq
    <2>2. Len(seq) \in Nat /\ \A n \in 1..Len(seq) : seq[n] \in S
      BY <2>1
    <2> QED
      BY <2>1, <2>2
  <1>5. \A n \in 1..Len(seq) : \E i \in Accepting(lines) : seq[n] = P(i)
    BY <1>4
  <1> HIDE DEF seq, P
  <1>6. PICK f : Fold!Steps(f, inv, seq)
    BY <1>4, Fold!FoldLeftSteps
  <1>7. PostAll(inv, seq) = f[Len(seq)]
    <2>1. PostAll(inv, seq) = Fold!Folded(inv, seq)
      BY DEF PostAll, FoldLeft, MapThenFoldSet, Max, Fold!Folded, Fold!FoldLeft, Fold!MapThenFoldSet, Fold!Max
    <2> QED
      BY <1>4, <1>6, <2>1, Fold!FoldLeftIs
  <1> DEFINE T == {n \in Nat : n <= Len(seq) => /\ Typed(f[n]) /\ f[n].posted = inv.posted \cup First(n)
                                               /\ HeldFollows(f[n], With(received, lines, Done(n)))}
  <1>8. 0 \in T
    <2>1. Done(0) = {} /\ First(0) = {}
      OBVIOUS
    <2>2. f[0] = inv
      BY <1>6 DEF Fold!Steps
    <2>3. With(received, lines, {}) = With(received, <<>>, {})
      BY DEF With
    <2> QED
      BY <2>1, <2>2, <2>3
  <1>9. ASSUME NEW n \in Nat, n \in T
        PROVE  n + 1 \in T
    <2> SUFFICES ASSUME n + 1 <= Len(seq)
                 PROVE  /\ Typed(f[n + 1]) /\ f[n + 1].posted = inv.posted \cup First(n + 1)
                        /\ HeldFollows(f[n + 1], With(received, lines, Done(n + 1)))
      OBVIOUS
    <2>1. n <= Len(seq) /\ n + 1 \in 1..Len(seq) /\ (n + 1) - 1 = n
      BY <1>4
    <2>2. /\ Typed(f[n]) /\ f[n].posted = inv.posted \cup First(n)
          /\ HeldFollows(f[n], With(received, lines, Done(n)))
      BY <1>9, <2>1
    <2>3. PICK j \in Accepting(lines) : seq[n + 1] = P(j)
      BY <1>5, <2>1
    <2>4. f[n + 1] = OneMore(f[n], P(j))
      <3>1. f[n + 1] = OneMore(f[(n + 1) - 1], seq[n + 1])
        BY <1>6, <2>1 DEF Fold!Steps
      <3> QED
        BY <2>1, <2>3, <3>1
    <2>5. j \notin Done(n) /\ Done(n + 1) = Done(n) \cup {j}
      <3>1. \A m : m \in 1..(n + 1) <=> m \in 1..n \/ m = n + 1
        OBVIOUS
      <3>2. \A m \in 1..n : m \in 1..Len(seq) /\ m # n + 1
        BY <1>4, <2>1
      <3>3. \A i \in Accepting(lines) : P(i) = P(j) => i = j
        <4>1. \A i : <<key, i>> = <<key, j>> => i = j
          OBVIOUS
        <4> QED
          BY <1>3, <4>1
      <3>4. j \notin Done(n)
        BY <1>4, <2>1, <2>3, <3>2
      <3>5. Done(n + 1) = Done(n) \cup {j}
        BY <2>3, <3>1, <3>3
      <3> QED
        BY <3>4, <3>5
    <2>6. ~Taken(f[n].posted, P(j).key)
      <3> SUFFICES ASSUME NEW p \in f[n].posted, p.key = P(j).key PROVE FALSE
        BY DEF Taken
      <3>1. p.key.kind = "RECEIPT_LINE" /\ p.key.client = <<key, j>> /\ p.key.client[1] = key
        BY <1>3, <2>3
      <3>2. p \in First(n)
        BY <2>2, <3>1
      <3>3. PICK m \in 1..n : p = seq[m]
        BY <3>2
      <3>4. m \in 1..Len(seq)
        BY <1>4, <2>1
      <3>5. PICK i \in Accepting(lines) : seq[m] = P(i)
        BY <1>5, <3>4
      <3>6. i = j
        <4>1. <<key, i>> = <<key, j>>
          BY <1>3, <3>1, <3>3, <3>5
        <4> QED
          BY <4>1
      <3> QED
        BY <2>5, <3>5, <3>6
    <2>7. P(j) \in Postings
      BY <1>3
    <2>8. Typed(f[n + 1])
      BY <2>2, <2>4, <2>7, OneMoreTyped
    <2>9. f[n + 1].posted = inv.posted \cup First(n + 1)
      <3>1. f[n + 1].posted = f[n].posted \cup {P(j)}
        BY <2>4, <2>6, OneMoreIs
      <3>2. First(n + 1) = First(n) \cup {P(j)}
        <4>1. \A m : m \in 1..(n + 1) <=> m \in 1..n \/ m = n + 1
          OBVIOUS
        <4> QED
          BY <2>3, <4>1
      <3> QED
        BY <2>2, <3>1, <3>2
    <2>10. PICK before : before = With(received, lines, Done(n))
      OBVIOUS
    <2>11. PICK after : after = With(received, lines, Done(n + 1))
      OBVIOUS
    <2>12. /\ \A i \in Items : before[i] \in Nat /\ after[i] \in Nat
           /\ after[j] = before[j] + lines[j].accepted /\ j \in Items
           /\ \A i \in Items \ {j} : after[i] = before[i]
      <3>1. j \in Items /\ lines[j].accepted \in Nat /\ received[j] \in Nat
        BY <1>1, <1>3
      <3>2. \A i \in Done(n) \cup {j} : lines[i].accepted \in Nat
        BY <1>3
      <3> HIDE DEF Done
      <3>3. \A i \in Items : /\ before[i] = received[i] + IF i \in Done(n) THEN lines[i].accepted ELSE 0
                             /\ after[i] = received[i] + IF i \in Done(n) \cup {j} THEN lines[i].accepted ELSE 0
        BY <2>5, <2>10, <2>11 DEF With
      <3>4. \A i \in Items : before[i] \in Nat /\ after[i] \in Nat
        BY <3>2, <3>3
      <3>5. before[j] = received[j] + 0 /\ after[j] = received[j] + lines[j].accepted
        BY <2>5, <3>1, <3>3
      <3>6. \A i \in Items \ {j} : after[i] = before[i]
        BY <3>3
      <3> QED
        BY <3>1, <3>4, <3>5, <3>6
    <2>13. HeldFollows(f[n + 1], after)
      <3> SUFFICES ASSUME NEW product \in Products
                   PROVE  HeldIn(f[n + 1].stock, product) =
                            ReceivedIn(after, product) + CorrectedIn(f[n + 1].posted, product)
        BY DEF HeldFollows
      <3>1. HeldIn(f[n].stock, product) = ReceivedIn(before, product) + CorrectedIn(f[n].posted, product)
        BY <2>2, <2>10 DEF HeldFollows
      <3>2. /\ HeldIn(f[n].stock, product) \in Int /\ CorrectedIn(f[n].posted, product) \in Int
            /\ HeldIn(f[n + 1].stock, product) =
                 HeldIn(f[n].stock, product) + Adds(P(j).balance[1] = product, P(j).delta.onHand)
            /\ CorrectedIn(f[n + 1].posted, product) =
                 CorrectedIn(f[n].posted, product) +
                   Adds(P(j).type = "ADJUSTMENT" /\ P(j).balance[1] = product, P(j).delta.onHand)
        <4>1. PICK st : st = f[n]
          OBVIOUS
        <4>2. PICK p : p = P(j)
          OBVIOUS
        <4>3. Typed(st) /\ p \in Postings /\ ~Taken(st.posted, p.key) /\ f[n + 1] = OneMore(st, p)
          BY <2>2, <2>4, <2>6, <2>7, <4>1, <4>2
        <4>4. /\ HeldIn(st.stock, product) \in Int /\ CorrectedIn(st.posted, product) \in Int
              /\ HeldIn(OneMore(st, p).stock, product) =
                   HeldIn(st.stock, product) + Adds(p.balance[1] = product, p.delta.onHand)
              /\ CorrectedIn(OneMore(st, p).posted, product) =
                   CorrectedIn(st.posted, product) +
                     Adds(p.type = "ADJUSTMENT" /\ p.balance[1] = product, p.delta.onHand)
          BY <4>3, HeldWithOneMore
        <4> QED
          BY <4>1, <4>2, <4>3, <4>4
      <3>3. PICK d : d = Adds(ProductOf[j] = product, lines[j].accepted)
        OBVIOUS
      <3>4. /\ d \in Int /\ Adds(P(j).balance[1] = product, P(j).delta.onHand) = d
            /\ Adds(P(j).type = "ADJUSTMENT" /\ P(j).balance[1] = product, P(j).delta.onHand) = 0
        BY <1>3, <3>3 DEF Adds
      <3>5. ReceivedIn(after, product) = ReceivedIn(before, product) + d
        <4>1. PICK n1 \in Nat : n1 = lines[j].accepted
          BY <1>3
        <4>2. PICK item \in Items : item = j
          BY <2>12
        <4>3. MoreOf(before, after, item, n1)
          BY <2>12, <4>1, <4>2 DEF MoreOf
        <4>4. ReceivedIn(after, product) = ReceivedIn(before, product) + Adds(ProductOf[item] = product, n1)
          BY <4>3, ReceivedChanges
        <4> QED
          BY <3>3, <4>1, <4>2, <4>4
      <3>6. ReceivedIn(before, product) \in Int
        BY <2>12, ReceivedIsInteger
      <3> QED
        BY <3>1, <3>2, <3>4, <3>5, <3>6
    <2> QED
      BY <2>8, <2>9, <2>11, <2>13
  <1> HIDE DEF T
  <1>10. Len(seq) \in T /\ Len(seq) <= Len(seq)
    <2>1. Nat \subseteq T
      BY <1>8, <1>9, NaturalInduction
    <2> QED
      BY <1>4, <2>1
  <1>11. Done(Len(seq)) = Accepting(lines)
    <2>1. \A i \in Accepting(lines) : P(i) \in S
      BY DEF P
    <2> QED
      BY <1>4, <2>1
  <1>12. First(Len(seq)) = S
    <2>1. \A x \in First(Len(seq)) : x \in S
      BY <1>4
    <2>2. \A x \in S : x \in First(Len(seq))
      BY <1>4
    <2> QED
      BY <2>1, <2>2
  <1>13. /\ Typed(f[Len(seq)]) /\ f[Len(seq)].posted = inv.posted \cup First(Len(seq))
         /\ HeldFollows(f[Len(seq)], With(received, lines, Done(Len(seq))))
    BY <1>10 DEF T
  <1> QED
    BY <1>7, <1>11, <1>12, <1>13 DEF seq
\* What a receipt of these lines writes.
ReceiptWrites(key, place, named, lines) ==
    /\ receipts[key] = NoReceipt /\ DOMAIN receipts[key].lines = {}
    /\ named \subseteq Items /\ IsFiniteSet(named) /\ DOMAIN lines = named
    /\ \A i \in named : lines[i] \in Counts /\ lines[i].accepted \in Nat
    /\ receipts'[key] = [place |-> place, lines |-> lines]
    /\ \A k \in ReceiptKeys \ {key} : receipts'[k] = receipts[k]
    /\ receipts' = [k \in ReceiptKeys |-> receipts'[k]]
    /\ receivedQty' = With(receivedQty, lines, Accepting(lines))
    /\ receivedQty' \in [Items -> Nat]
    /\ \A i \in Items : receivedQty'[i] = receivedQty[i] + Adds(i \in named, lines[i].accepted)
    /\ \A i \in named : receivedQty'[i] <= Ordered[i]

\* A receipt of an order writes that.
LEMMA ReceiveIs ==
    ASSUME PutawayInv, NEW o \in PurchaseOrders, NEW key \in ReceiptKeys, NEW place \in Places,
           NEW named \in SUBSET ItemsOf[o], NEW lines \in [named -> Counts], Receive(o, key, place, lines)
    PROVE  ReceiptWrites(key, place, named, lines)
  <1>1. receipts[key] = NoReceipt /\ DOMAIN receipts[key].lines = {}
    <2>1. receipts[key] = NoReceipt
      BY DEF Receive
    <2>2. DOMAIN NoReceipt.lines = {}
      BY DEF NoReceipt
    <2> QED
      BY <2>1, <2>2
  <1>2. named \subseteq Items /\ IsFiniteSet(named) /\ DOMAIN lines = named
    <2>1. IsFiniteSet(ItemsOf[o])
      BY ReceivingAssumption
    <2> QED
      BY <2>1, FS_Subset DEF Items
  <1>3. \A i \in named : lines[i] \in Counts /\ lines[i].accepted \in Nat
    BY ReceivingAssumption
  <1>4. receipts' = [receipts EXCEPT ![key] = [place |-> place, lines |-> lines]]
    BY DEF Receive
  <1>5. receipts = [k \in ReceiptKeys |-> receipts[k]]
    BY DEF PutawayInv, ReceiptsSound
  <1>6. /\ receipts'[key] = [place |-> place, lines |-> lines]
        /\ \A k \in ReceiptKeys \ {key} : receipts'[k] = receipts[k]
        /\ receipts' = [k \in ReceiptKeys |-> receipts'[k]]
    BY <1>4, <1>5
  <1>7. receivedQty' = With(receivedQty, lines, Accepting(lines))
    BY DEF Receive, With, Accepting
  <1>8. receivedQty \in [Items -> Nat]
    BY DEF PutawayInv, TypeOK
  <1>9. ASSUME NEW i \in Items
        PROVE  receivedQty'[i] = receivedQty[i] + Adds(i \in named, lines[i].accepted) /\ receivedQty'[i] \in Nat
    <2>1. receivedQty'[i] = receivedQty[i] + IF i \in Accepting(lines) THEN lines[i].accepted ELSE 0
      BY <1>7 DEF With
    <2>2. CASE i \in named /\ lines[i].accepted > 0
      BY <1>2, <1>3, <1>8, <2>1, <2>2 DEF Accepting, Adds
    <2>3. CASE i \in named /\ ~(lines[i].accepted > 0)
      <3>1. lines[i].accepted = 0 /\ i \notin Accepting(lines)
        BY <1>3, <2>3 DEF Accepting
      <3> QED
        BY <1>8, <2>1, <2>3, <3>1 DEF Adds
    <2>4. CASE i \notin named
      BY <1>2, <1>8, <2>1, <2>4 DEF Accepting, Adds
    <2> QED
      BY <2>2, <2>3, <2>4
  <1>10. receivedQty' \in [Items -> Nat]
    BY <1>7, <1>9 DEF With
  <1>11. \A i \in named : receivedQty'[i] <= Ordered[i]
    BY <1>2 DEF Receive
  <1> QED
    BY <1>1, <1>2, <1>3, <1>6, <1>7, <1>9, <1>10, <1>11 DEF ReceiptWrites

\* What a receipt adds to what the receipts accepted of an item.
LEMMA AcceptedGrows ==
    ASSUME PutawayInv, NEW o \in PurchaseOrders, NEW key \in ReceiptKeys, NEW place \in Places,
           NEW named \in SUBSET ItemsOf[o], NEW lines \in [named -> Counts], Receive(o, key, place, lines),
           NEW i \in Items
    PROVE  Accepted(i)' = Accepted(i) + Adds(i \in named, lines[i].accepted)
  <1> DEFINE Naming(rs) == {k \in ReceiptKeys : i \in DOMAIN rs[k].lines}
             S == Naming(receipts)
             R == Naming(receipts')
             f == [k \in S |-> receipts[k].lines[i].accepted]
             g == [k \in R |-> receipts'[k].lines[i].accepted]
             c == i \in named
  <1>1. /\ DOMAIN receipts[key].lines = {}
        /\ DOMAIN lines = named /\ \A j \in named : lines[j].accepted \in Nat
        /\ receipts'[key] = [place |-> place, lines |-> lines]
        /\ \A k \in ReceiptKeys \ {key} : receipts'[k] = receipts[k]
    <2>1. ReceiptWrites(key, place, named, lines)
      BY ReceiveIs
    <2> QED
      BY <2>1 DEF ReceiptWrites
  <1>2. IsFiniteSet(S)
    BY ReceivingAssumption, FS_Subset
  <1>3. key \notin S
    BY <1>1
  <1>4. receipts'[key].lines = lines
    BY <1>1
  <1>5. R = IF c THEN S \cup {key} ELSE S
    BY <1>1, <1>4
  <1>6. IntegersOn(f, S)
    <2>1. \A k \in S : receipts[k].lines[i] \in Counts
      BY DEF PutawayInv, TypeOK
    <2> QED
      BY <2>1, ReceivingAssumption DEF IntegersOn
  <1>7. \A k \in S : g[k] = f[k]
    BY <1>1, <1>3, <1>5
  <1>8. c => g[key] = lines[i].accepted /\ g[key] \in Int
    BY <1>1, <1>4, <1>5
  <1>9. Accepted(i) = SumFunctionOnSet(f, S) /\ Accepted(i)' = SumFunctionOnSet(g, R) /\ c \in BOOLEAN
    BY DEF Accepted
  <1> HIDE DEF S, R, f, g, c
  <1>10. SumFunctionOnSet(g, R) = SumFunctionOnSet(f, S) + Adds(c, g[key])
    <2>1. IsFiniteSet(S) /\ key \notin S /\ c \in BOOLEAN /\ R = (IF c THEN S \cup {key} ELSE S)
      BY <1>2, <1>3, <1>5, <1>9
    <2>2. IntegersOn(f, S) /\ (\A k \in S : g[k] = f[k]) /\ (c => g[key] \in Int)
      BY <1>6, <1>7, <1>8
    <2>3. \A A, B, x, d, u, v :
             /\ IsFiniteSet(A) /\ x \notin A /\ d \in BOOLEAN /\ B = (IF d THEN A \cup {x} ELSE A)
             /\ IntegersOn(u, A) /\ (\A k \in A : v[k] = u[k]) /\ (d => v[x] \in Int)
             => SumFunctionOnSet(v, B) = SumFunctionOnSet(u, A) + Adds(d, v[x])
      BY ONLY SumMayGrow
    <2> QED
      BY ONLY <2>1, <2>2, <2>3
  <1>11. Adds(c, g[key]) = Adds(c, lines[i].accepted)
    BY <1>8 DEF Adds
  <1> QED
    BY <1>9, <1>10, <1>11 DEF c
\* A receipt leaves its order with the status its items have earned.
LEMMA ReceiptKeepsReceived ==
    ASSUME PutawayInv, NEW o \in PurchaseOrders, NEW key \in ReceiptKeys, NEW place \in Places,
           NEW named \in SUBSET ItemsOf[o], NEW lines \in [named -> Counts], Receive(o, key, place, lines)
    PROVE  ReceivedSound' /\ status' \in [PurchaseOrders -> Statuses]
  <1>1. /\ named \subseteq Items /\ \A i \in named : lines[i].accepted \in Nat
        /\ receivedQty' = With(receivedQty, lines, Accepting(lines)) /\ receivedQty' \in [Items -> Nat]
        /\ \A i \in Items : receivedQty'[i] = receivedQty[i] + Adds(i \in named, lines[i].accepted)
        /\ \A i \in named : receivedQty'[i] <= Ordered[i]
    <2>1. ReceiptWrites(key, place, named, lines)
      BY ReceiveIs
    <2> QED
      BY <2>1 DEF ReceiptWrites
  <1>2. /\ status \in [PurchaseOrders -> Statuses] /\ receivedQty \in [Items -> Nat]
        /\ \A i \in Items : receivedQty[i] = Accepted(i) /\ receivedQty[i] <= Ordered[i]
        /\ \A x \in PurchaseOrders :
              /\ status[x] = "RECEIVED" <=> \A i \in ItemsOf[x] : receivedQty[i] = Ordered[i]
              /\ status[x] \in {"PARTIALLY_RECEIVED", "RECEIVED"} <=> \E i \in ItemsOf[x] : receivedQty[i] > 0
    BY DEF PutawayInv, TypeOK, ReceivedSound
  <1>3. /\ status[o] \in {"SENT", "PARTIALLY_RECEIVED"}
        /\ status' = [status EXCEPT ![o] = Derived(o, receivedQty')]
    BY <1>1 DEF Receive, With, Accepting
  <1>4. ASSUME NEW i \in Items
        PROVE  receivedQty'[i] = Accepted(i)'
    <2>1. receivedQty[i] = Accepted(i)
      BY <1>2
    <2>2. Accepted(i)' = Accepted(i) + Adds(i \in named, lines[i].accepted)
      BY AcceptedGrows
    <2> QED
      BY <1>1, <2>1, <2>2
  <1>5. ASSUME NEW i \in Items
        PROVE  /\ receivedQty'[i] <= Ordered[i] /\ receivedQty'[i] >= receivedQty[i]
               /\ i \notin named => receivedQty'[i] = receivedQty[i]
               /\ receivedQty'[i] \in Nat /\ receivedQty[i] \in Nat /\ Ordered[i] \in Nat /\ Ordered[i] > 0
    <2>1. Ordered[i] \in Nat /\ Ordered[i] > 0
      BY ReceivingAssumption
    <2>2. CASE i \in named
      BY <1>1, <1>2, <2>1, <2>2 DEF Adds
    <2>3. CASE i \notin named
      BY <1>1, <1>2, <2>1, <2>3 DEF Adds
    <2> QED
      BY <2>2, <2>3
  <1>6. ASSUME NEW x \in PurchaseOrders, x # o
        PROVE  /\ status'[x] = "RECEIVED" <=> \A i \in ItemsOf[x] : receivedQty'[i] = Ordered[i]
               /\ status'[x] \in {"PARTIALLY_RECEIVED", "RECEIVED"} <=> \E i \in ItemsOf[x] : receivedQty'[i] > 0
    <2>1. \A i \in ItemsOf[x] : i \in Items /\ i \notin named
      BY <1>6, ReceivingAssumption DEF Items
    <2>2. \A i \in ItemsOf[x] : receivedQty'[i] = receivedQty[i]
      BY <1>5, <2>1
    <2>3. status'[x] = status[x]
      BY <1>2, <1>3, <1>6
    <2> QED
      BY <1>2, <2>2, <2>3
  <1>7. /\ status'[o] = "RECEIVED" <=> \A i \in ItemsOf[o] : receivedQty'[i] = Ordered[i]
        /\ status'[o] \in {"PARTIALLY_RECEIVED", "RECEIVED"} <=> \E i \in ItemsOf[o] : receivedQty'[i] > 0
        /\ status'[o] \in Statuses
    <2>1. status'[o] = Derived(o, receivedQty')
      BY <1>2, <1>3
    <2>2. PICK some : some \in ItemsOf[o]
      BY ReceivingAssumption
    <2>3. ItemsOf[o] \subseteq Items
      BY DEF Items
    <2>4. CASE \A i \in ItemsOf[o] : receivedQty'[i] >= Ordered[i]
      <3>1. status'[o] = "RECEIVED"
        BY <2>1, <2>4 DEF Derived
      <3>2. \A i \in ItemsOf[o] : receivedQty'[i] = Ordered[i]
        BY <1>5, <2>3, <2>4
      <3>3. receivedQty'[some] > 0
        BY <1>5, <2>2, <2>3, <3>2
      <3> QED
        BY <2>2, <3>1, <3>2, <3>3 DEF Statuses
    <2>5. CASE (\E i \in ItemsOf[o] : receivedQty'[i] < Ordered[i]) /\ \E i \in ItemsOf[o] : receivedQty'[i] > 0
      <3>1. ~(\A i \in ItemsOf[o] : receivedQty'[i] >= Ordered[i]) /\ ~(\A i \in ItemsOf[o] : receivedQty'[i] = Ordered[i])
        BY <1>5, <2>3, <2>5
      <3>2. status'[o] = "PARTIALLY_RECEIVED"
        BY <2>1, <2>5, <3>1 DEF Derived
      <3> QED
        BY <2>5, <3>1, <3>2 DEF Statuses
    <2>6. CASE \A i \in ItemsOf[o] : ~(receivedQty'[i] > 0)
      <3>1. ~(\A i \in ItemsOf[o] : receivedQty'[i] >= Ordered[i]) /\ ~(\A i \in ItemsOf[o] : receivedQty'[i] = Ordered[i])
        BY <1>5, <2>2, <2>3, <2>6
      <3>2. status'[o] = status[o]
        BY <2>1, <2>6, <3>1 DEF Derived
      <3>3. \A i \in ItemsOf[o] : ~(receivedQty[i] > 0)
        BY <1>5, <2>3, <2>6
      <3> QED
        BY <1>2, <2>6, <3>1, <3>2, <3>3
    <2>7. (\A i \in ItemsOf[o] : receivedQty'[i] >= Ordered[i]) \/ (\E i \in ItemsOf[o] : receivedQty'[i] < Ordered[i])
      BY <1>5, <2>3
    <2> QED
      BY <2>4, <2>5, <2>6, <2>7
  <1>8. status' \in [PurchaseOrders -> Statuses]
    BY <1>2, <1>3, <1>7
  <1>9. ReceivedSound'
    BY <1>4, <1>5, <1>6, <1>7 DEF ReceivedSound
  <1> QED
    BY <1>8, <1>9

\* What a receipt does to the lines: those there were keep their goods, the others are the receipt's own.
LEMMA ReceiptAddsLines ==
    ASSUME PutawayInv, NEW o \in PurchaseOrders, NEW key \in ReceiptKeys, NEW place \in Places,
           NEW named \in SUBSET ItemsOf[o], NEW lines \in [named -> Counts], Receive(o, key, place, lines)
    PROVE  /\ Lines \subseteq Lines'
           /\ \A l \in Lines : Quantity(l)' = Quantity(l)
           /\ \A l \in Lines' : l[1] # key => l \in Lines
           /\ \A l \in Lines : l[1] # key
  <1>1. /\ DOMAIN receipts[key].lines = {}
        /\ \A k \in ReceiptKeys \ {key} : receipts'[k] = receipts[k]
    <2>1. ReceiptWrites(key, place, named, lines)
      BY ReceiveIs
    <2> QED
      BY <2>1 DEF ReceiptWrites
  <1>2. \A l \in LineIds : l[1] \in ReceiptKeys
    BY DEF LineIds
  <1>3. \A l \in Lines : l[1] # key
    BY <1>1 DEF Lines
  <1>4. \A l \in LineIds : l[1] # key => receipts'[l[1]] = receipts[l[1]]
    BY <1>1, <1>2
  <1>5. \A l \in LineIds : l[1] # key => (l \in Lines <=> l \in Lines')
    BY <1>4 DEF Lines
  <1>6. \A l \in Lines : l \in LineIds
    BY DEF Lines
  <1>7. \A l \in Lines' : l \in LineIds
    BY DEF Lines
  <1>8. \A l \in Lines : Quantity(l)' = Quantity(l)
    BY <1>3, <1>4, <1>6 DEF Quantity
  <1> QED
    BY <1>3, <1>5, <1>6, <1>7, <1>8
\* The postings of a receipt are those of the lines it accepted goods on.
LEMMA ReceiptMakes ==
    ASSUME PutawayInv, NEW o \in PurchaseOrders, NEW key \in ReceiptKeys, NEW place \in Places,
           NEW named \in SUBSET ItemsOf[o], NEW lines \in [named -> Counts], Receive(o, key, place, lines)
    PROVE  /\ Typed(Inventory)' /\ HeldFollows(Inventory, receivedQty)' /\ posted \subseteq posted'
           /\ \A p \in posted' \ posted : p.type = "RECEIPT" /\ p.key.kind = "RECEIPT_LINE"
                                          /\ p.key.client \in LineIds /\ p.key.client[1] = key
           /\ posted' # posted => named # {}
  <1>1. /\ receipts[key] = NoReceipt /\ named \subseteq Items /\ IsFiniteSet(named) /\ DOMAIN lines = named
        /\ \A i \in named : lines[i] \in Counts
        /\ receivedQty' = With(receivedQty, lines, Accepting(lines))
    <2>1. ReceiptWrites(key, place, named, lines)
      BY ReceiveIs
    <2> QED
      BY <2>1 DEF ReceiptWrites
  <1>2. PICK inv : inv = Inventory
    OBVIOUS
  <1>3. PICK received : received = receivedQty
    OBVIOUS
  <1>4. PICK S : S = {LinePosting(key, i, place, lines[i]) : i \in Accepting(lines)}
    OBVIOUS
  <1>5. PICK new : new = PostAll(inv, SetToSeq(S))
    OBVIOUS
  <1>6. stock' = new.stock /\ posted' = new.posted
    BY <1>2, <1>4, <1>5 DEF Receive, Posts, Accepting
  <1>7. Typed(inv)
    BY <1>2 DEF PutawayInv, TypeOK, Typed, Inventory
  <1>8. \A i \in Items : received[i] \in Nat
    BY <1>3 DEF PutawayInv, TypeOK
  <1>9. HeldFollows(inv, With(received, <<>>, {}))
    <2>1. With(received, <<>>, {}) = received
      BY <1>3 DEF PutawayInv, TypeOK, With
    <2> QED
      BY <1>2, <1>3, <2>1 DEF PutawayInv
  <1>10. \A p \in inv.posted : ~(p.key.kind = "RECEIPT_LINE" /\ p.key.client[1] = key)
    <2> SUFFICES ASSUME NEW p \in posted, p.key.kind = "RECEIPT_LINE", p.key.client[1] = key
                 PROVE  FALSE
      BY <1>2 DEF Inventory
    <2>1. Known(p)
      BY DEF PutawayInv
    <2> QED
      BY <1>1, <2>1 DEF Known, TransferTypes
  <1>11. /\ \A x \in S : \E i \in Accepting(lines) : x = LinePosting(key, i, place, lines[i])
         /\ \A i \in Accepting(lines) : LinePosting(key, i, place, lines[i]) \in S
    BY <1>4
  <1>12. /\ Typed(new) /\ new.posted = inv.posted \cup S
         /\ HeldFollows(new, With(received, lines, Accepting(lines)))
    <2>1. named \in SUBSET Items
      BY <1>1
    <2> QED
      BY <1>1, <1>5, <1>7, <1>8, <1>9, <1>10, <1>11, <2>1, ReceiptPosts
  <1>13. HeldFollows(Inventory, receivedQty)'
    <2>1. HeldFollows(new, receivedQty')
      BY <1>1, <1>3, <1>12
    <2>2. Inventory'.stock = new.stock /\ Inventory'.posted = new.posted
      BY <1>6 DEF Inventory
    <2> QED
      BY <2>1, <2>2 DEF HeldFollows, Inventory
  <1>14. Typed(Inventory)'
    BY <1>6, <1>12 DEF Typed, Inventory
  <1>15. posted' = posted \cup S
    BY <1>2, <1>6, <1>12 DEF Inventory
  <1>16. ASSUME NEW p \in S
         PROVE  /\ p.type = "RECEIPT" /\ p.key.kind = "RECEIPT_LINE" /\ p.key.client \in LineIds
                /\ p.key.client[1] = key /\ named # {}
    <2>1. PICK i \in Accepting(lines) : p = LinePosting(key, i, place, lines[i])
      BY <1>11
    <2>2. i \in named /\ i \in Items /\ lines[i] \in Counts
      BY <1>1 DEF Accepting
    <2>3. LinePosted(p, key, i, lines[i])
      BY <2>1, <2>2, LinePostingIs
    <2> QED
      BY <2>2, <2>3 DEF LinePosted
  <1> QED
    BY <1>13, <1>14, <1>15, <1>16

\* A receipt posts what it accepted, and its lines are new tasks with nothing moved.
LEMMA ReceiveKeeps ==
    ASSUME PutawayInv, NEW o \in PurchaseOrders, NEW key \in ReceiptKeys, NEW place \in Places,
           NEW named \in SUBSET ItemsOf[o], NEW lines \in [named -> Counts], Receive(o, key, place, lines),
           UNCHANGED <<tasks, handlers>>
    PROVE  PutawayInv'
  <1>1. ReceiptWrites(key, place, named, lines)
    BY ReceiveIs
  <1>2. /\ Typed(Inventory)' /\ HeldFollows(Inventory, receivedQty)' /\ posted \subseteq posted'
        /\ \A p \in posted' \ posted : p.type = "RECEIPT" /\ p.key.kind = "RECEIPT_LINE"
                                       /\ p.key.client \in LineIds /\ p.key.client[1] = key
        /\ posted' # posted => named # {}
    BY ReceiptMakes
  <1>3. stock' \in [Balances -> Quantities] /\ IsFiniteSet(posted') /\ posted' \subseteq Postings
    BY <1>2 DEF Typed, Inventory
  <1>4. ReceivedSound' /\ status' \in [PurchaseOrders -> Statuses]
    BY ReceiptKeepsReceived
  <1>5. /\ Lines \subseteq Lines' /\ (\A l \in Lines : Quantity(l)' = Quantity(l))
        /\ (\A l \in Lines' : l[1] # key => l \in Lines) /\ (\A l \in Lines : l[1] # key)
    BY ReceiptAddsLines
  <1>6. ReceiptsSound'
    <2>1. ASSUME NEW k \in ReceiptKeys
          PROVE  DOMAIN receipts'[k].lines \subseteq Items
      <3>1. CASE k = key
        BY <1>1, <3>1 DEF ReceiptWrites
      <3>2. CASE k # key
        BY <1>1, <3>2 DEF ReceiptWrites, PutawayInv, ReceiptsSound
      <3> QED
        BY <3>1, <3>2
    <2> QED
      BY <1>1, <2>1 DEF ReceiptsSound, ReceiptWrites
  <1>7. ASSUME NEW k \in ReceiptKeys
        PROVE  /\ receipts'[k].place \in Places
               /\ \A i \in DOMAIN receipts'[k].lines : receipts'[k].lines[i] \in Counts
    <2>1. CASE k = key
      BY <1>1, <2>1 DEF ReceiptWrites
    <2>2. CASE k # key
      <3>1. receipts'[k] = receipts[k]
        BY <1>1, <2>2 DEF ReceiptWrites
      <3> QED
        BY <3>1 DEF PutawayInv, TypeOK
    <2> QED
      BY <2>1, <2>2
  <1>8. TypeOK'
    <2>1. tasks' = tasks /\ handlers' = handlers
      OBVIOUS
    <2>2. receivedQty' \in [Items -> Nat]
      BY <1>1 DEF ReceiptWrites
    <2> QED
      BY <1>3, <1>4, <1>7, <2>1, <2>2 DEF PutawayInv, TypeOK
  <1>9. ASSUME NEW p \in posted'
        PROVE  Known(p)'
    <2>1. receipts[key] = NoReceipt /\ \A k \in ReceiptKeys \ {key} : receipts'[k] = receipts[k]
      BY <1>1 DEF ReceiptWrites
    <2>2. \A l \in LineIds : l[1] \in ReceiptKeys
      BY DEF LineIds
    <2>3. CASE p \in posted
      <3>1. Known(p)
        BY <2>3 DEF PutawayInv
      <3> QED
        BY <1>5, <2>1, <2>2, <3>1 DEF Known
    <2>4. CASE p \notin posted
      <3>1. named # {}
        BY <1>2, <2>4
      <3>2. DOMAIN receipts'[key].lines = named
        BY <1>1 DEF ReceiptWrites
      <3>3. DOMAIN NoReceipt.lines = {}
        BY DEF NoReceipt
      <3>4. receipts'[key] # NoReceipt
        BY <3>1, <3>2, <3>3
      <3> QED
        BY <1>2, <2>4, <3>4 DEF Known
    <2> QED
      BY <2>3, <2>4
  <1>10. \A p \in posted' \ posted : p.type \notin TransferTypes
    BY <1>2 DEF TransferTypes
  <1>11. \A l \in Lines : (Unmoved(l) => Unmoved(l)') /\ (Moved(l) => Moved(l)')
    BY <1>2, <1>5, <1>10, GoodsStay
  <1>12. ASSUME NEW l \in Lines' \ Lines
         PROVE  Unmoved(l)'
    <2> SUFFICES ASSUME NEW p \in posted', p.type \in TransferTypes, p.key.client = l
                 PROVE  FALSE
      BY DEF Unmoved, MovementsOf
    <2>1. p \in posted
      BY <1>10
    <2>2. Known(p)
      BY <2>1 DEF PutawayInv
    <2> QED
      BY <2>2 DEF Known, TransferTypes
  <1>13. TasksSound'
    BY <1>5, <1>11, <1>12, TasksStay DEF PutawayInv
  <1> QED
    BY <1>2, <1>3, <1>4, <1>6, <1>8, <1>9, <1>13 DEF PutawayInv
----------------------------------------------------------------------------
(* Every reachable state.                                                  *)

LEMMA InitSound == Init => PutawayInv
  <1> SUFFICES ASSUME Init PROVE PutawayInv
    OBVIOUS
  <1>1. /\ status = [o \in PurchaseOrders |-> "DRAFT"] /\ receivedQty = [i \in Items |-> 0]
        /\ receipts = [key \in ReceiptKeys |-> NoReceipt] /\ stock = [b \in Balances |-> ZERO] /\ posted = {}
        /\ tasks = [l \in LineIds |-> NewTask] /\ handlers = [h \in Handlers |-> Idle]
    BY DEF Init, ReceivingInit
  <1>2. \A key \in ReceiptKeys : DOMAIN receipts[key].lines = {} /\ receipts[key].place = NoBin
    BY <1>1 DEF NoReceipt
  <1>3. ZERO \in Quantities /\ ZERO.onHand = 0
    BY DEF ZERO, Quantities
  <1>4. NewTask \in Tasks /\ NewTask.status = "READY"
    BY DEF NewTask, Tasks, Places
  <1>5. TypeOK
    BY <1>1, <1>2, <1>3, <1>4 DEF TypeOK, Statuses, Places
  <1>6. IsFiniteSet(posted)
    BY <1>1, FS_EmptySet
  <1>7. ReceiptsSound
    BY <1>1, <1>2 DEF ReceiptsSound
  <1>8. \A i \in Items : Accepted(i) = 0
    <2> SUFFICES ASSUME NEW i \in Items PROVE Accepted(i) = 0
      OBVIOUS
    <2>1. {key \in ReceiptKeys : i \in DOMAIN receipts[key].lines} = {}
      BY <1>2
    <2> QED
      BY <2>1, SumOfNone DEF Accepted
  <1>9. ReceivedSound
    <2>1. \A i \in Items : receivedQty[i] = 0 /\ Ordered[i] \in Nat /\ Ordered[i] # 0
      BY <1>1, ReceivingAssumption
    <2>2. \A o \in PurchaseOrders : status[o] = "DRAFT" /\ ItemsOf[o] # {} /\ ItemsOf[o] \subseteq Items
      BY <1>1, ReceivingAssumption DEF Items
    <2> QED
      BY <1>8, <2>1, <2>2 DEF ReceivedSound
  <1>10. HeldFollows(Inventory, receivedQty)
    <2> SUFFICES ASSUME NEW product \in Products
                 PROVE  HeldIn(stock, product) = ReceivedIn(receivedQty, product) + CorrectedIn(posted, product)
      BY DEF HeldFollows, Inventory
    <2>1. HeldIn(stock, product) = 0
      <3> DEFINE f == [place \in Places |-> stock[At(product, place)].onHand]
      <3>1. IsFiniteSet(Places)
        BY ReceivingAssumption, FS_AddElement DEF Places
      <3>2. \A place \in Places : At(product, place) \in Balances
        BY ReceivingAssumption DEF Places, Products
      <3>3. \A place \in Places : f[place] = 0
        BY <1>1, <1>3, <3>2
      <3> HIDE DEF f
      <3>4. SumFunctionOnSet(f, Places) = 0
        BY <3>1, <3>3, SumOfZeros
      <3> QED
        BY <3>4 DEF f, HeldIn
    <2>2. ReceivedIn(receivedQty, product) = 0
      <3> DEFINE f == [i \in ItemsOfProduct(product) |-> receivedQty[i]]
      <3>1. IsFiniteSet(ItemsOfProduct(product))
        BY <1>1, ReceivedIsInteger
      <3>2. \A i \in ItemsOfProduct(product) : f[i] = 0
        BY <1>1 DEF ItemsOfProduct
      <3> HIDE DEF f
      <3>3. SumFunctionOnSet(f, ItemsOfProduct(product)) = 0
        BY <3>1, <3>2, SumOfZeros
      <3> QED
        BY <3>3 DEF f, ReceivedIn
    <2>3. CorrectedIn(posted, product) = 0
      <3>1. CorrectionsIn(posted, product) = {}
        BY <1>1 DEF CorrectionsIn
      <3> QED
        BY <3>1, SumOfNone DEF CorrectedIn
    <2> QED
      BY <2>1, <2>2, <2>3
  <1>11. TasksSound
    <2>1. Lines = {}
      BY <1>2 DEF Lines, LineIds
    <2>2. \A l \in LineIds : tasks[l].status # "COMPLETED"
      BY <1>1, <1>4
    <2>3. \A h \in Handlers : RequestSound(h)
      BY <1>1 DEF RequestSound, Idle
    <2> QED
      BY <2>1, <2>2, <2>3 DEF TasksSound
  <1> QED
    BY <1>1, <1>5, <1>6, <1>7, <1>9, <1>10, <1>11 DEF PutawayInv

LEMMA NextSound == PutawayInv /\ [Next]_vars => PutawayInv'
  <1> SUFFICES ASSUME PutawayInv, [Next]_vars PROVE PutawayInv'
    OBVIOUS
  <1>1. ASSUME NEW o \in PurchaseOrders, NEW requested \in Statuses, UpdateStatus(o, requested),
               UNCHANGED <<tasks, handlers>>
        PROVE  PutawayInv'
    BY <1>1, UpdateStatusKeeps
  <1>2. ASSUME NEW o \in PurchaseOrders, NEW key \in ReceiptKeys, NEW place \in Places,
               NEW named \in SUBSET ItemsOf[o], NEW lines \in [named -> Counts], Receive(o, key, place, lines),
               UNCHANGED <<tasks, handlers>>
        PROVE  PutawayInv'
    BY <1>2, ReceiveKeeps
  <1>3. CASE ReceivingNext /\ UNCHANGED <<tasks, handlers>>
    <2>1. PICK o \in PurchaseOrders :
            \/ \E requested \in Statuses : UpdateStatus(o, requested)
            \/ \E key \in ReceiptKeys, place \in Bins \cup {NoBin}, named \in SUBSET ItemsOf[o] :
                  named # {} /\ \E lines \in [named -> Counts] : Receive(o, key, place, lines)
      BY <1>3 DEF ReceivingNext
    <2>2. CASE \E requested \in Statuses : UpdateStatus(o, requested)
      BY <1>1, <1>3, <2>2
    <2>3. CASE \E key \in ReceiptKeys, place \in Bins \cup {NoBin}, named \in SUBSET ItemsOf[o] :
                  named # {} /\ \E lines \in [named -> Counts] : Receive(o, key, place, lines)
      <3>1. PICK key \in ReceiptKeys, place \in Places, named \in SUBSET ItemsOf[o] :
              \E lines \in [named -> Counts] : Receive(o, key, place, lines)
        BY <2>3 DEF Places
      <3>2. PICK lines \in [named -> Counts] : Receive(o, key, place, lines)
        BY <3>1
      <3> QED
        BY <1>2, <1>3, <3>2
    <2> QED
      BY <2>1, <2>2, <2>3
  <1>4. CASE \E l \in LineIds, u \in Operators : Claim(l, u)
    BY <1>4, ClaimKeeps
  <1>5. CASE \/ \E h \in Handlers, l \in LineIds, u \in Operators, bin \in Bins : BeginComplete(h, l, u, bin)
             \/ \E h \in Handlers, l \in LineIds : BeginException(h, l)
             \/ \E h \in Handlers : Crash(h)
    BY <1>5, BeginsAndCrashesKeep
  <1>6. CASE \E h \in Handlers : MoveStock(h)
    BY <1>6, MoveStockKeeps
  <1>7. CASE \E h \in Handlers : MarkCompleted(h)
    BY <1>7, MarkCompletedKeeps
  <1>8. CASE \E h \in Handlers : Flag(h)
    BY <1>8, FlagKeeps
  <1>9. CASE \E c \in Corrections : Correct(c)
    BY <1>9, CorrectKeeps
  <1>10. CASE UNCHANGED vars
    <2>1. /\ UNCHANGED <<receivingVars, inventoryVars>> /\ tasks' = tasks /\ handlers' = handlers
          /\ status' = status /\ receivedQty' = receivedQty /\ receipts' = receipts /\ stock' = stock
          /\ posted' = posted
      BY <1>10 DEF vars, receivingVars, inventoryVars
    <2>2. TypeOK'
      BY <2>1 DEF PutawayInv, TypeOK
    <2>3. /\ \A l \in LineIds : tasks'[l].status = "COMPLETED" => l \in Lines /\ Moved(l)
          /\ \A h \in Handlers : /\ handlers'[h].step \in {"move", "mark"} => handlers'[h].line \in Lines
                                 /\ handlers'[h].step = "mark" => Moved(handlers'[h].line)
      BY <2>1 DEF PutawayInv, TasksSound, RequestSound
    <2> QED
      BY <2>1, <2>2, <2>3, TasksOnly
  <1> QED
    BY <1>3, <1>4, <1>5, <1>6, <1>7, <1>8, <1>9, <1>10 DEF Next

\* What is on hand follows receipts and corrections, postings say what they were made for, and whoever says a
\* line was moved is right: the inductive invariant.
THEOREM PutawayInvariant == Spec => []PutawayInv
  <1> QED
    BY InitSound, NextSound, PTL DEF Spec

\* The rows and requests keep their types (PurchaseOrder, GoodsReceipt, StockLevel, PutawayTask).
THEOREM PutawayTypeCorrect == Spec => []TypeOK
  <1>1. PutawayInv => TypeOK
    BY DEF PutawayInv
  <1> QED
    BY <1>1, PutawayInvariant, PTL

\* For any orders and receipts, an item's received quantity is what its receipts accepted and never above what was
\* ordered, and the order's status says so (PurchaseOrderService.receive).
THEOREM OrdersAlwaysFollowReceipts == Spec => []OrdersFollowReceipts
  <1>1. PutawayInv => OrdersFollowReceipts
    <2> SUFFICES ASSUME PutawayInv PROVE OrdersFollowReceipts
      OBVIOUS
    <2>1. \A o \in PurchaseOrders : ItemsOf[o] \subseteq Items
      BY DEF Items
    <2> QED
      BY <2>1 DEF PutawayInv, ReceivedSound, OrdersFollowReceipts
  <1> QED
    BY <1>1, PutawayInvariant, PTL

\* However many handlers move the same goods, die and are repeated, what is on hand of a product is what receipts
\* accepted and corrections changed (PutawayService.complete over StockService.transfer).
THEOREM PutawayNeverCreatesStock == Spec => []PutawayCreatesNoStock
  <1>1. PutawayInv => PutawayCreatesNoStock
    <2> SUFFICES ASSUME PutawayInv, NEW product \in Products
                 PROVE  HeldOf(product) = AcceptedOf(product) + CorrectedOf(product)
      BY DEF PutawayCreatesNoStock, Products
    <2>1. HeldIn(stock, product) = ReceivedIn(receivedQty, product) + CorrectedIn(posted, product)
      BY DEF PutawayInv, HeldFollows, Inventory
    <2>2. HeldOf(product) = HeldIn(stock, product)
      BY DEF HeldOf, HeldIn
    <2>3. AcceptedOf(product) = ReceivedIn(receivedQty, product)
      <3>1. \A i \in ItemsOfProduct(product) : receivedQty[i] = Accepted(i)
        BY DEF PutawayInv, ReceivedSound, ItemsOfProduct
      <3>2. [i \in ItemsOfProduct(product) |-> Accepted(i)] = [i \in ItemsOfProduct(product) |-> receivedQty[i]]
        BY <3>1
      <3>3. AcceptedOf(product) =
              SumFunctionOnSet([i \in ItemsOfProduct(product) |-> Accepted(i)], ItemsOfProduct(product))
        BY DEF AcceptedOf, ItemsOfProduct
      <3> QED
        BY <3>2, <3>3 DEF ReceivedIn
    <2>4. CorrectedOf(product) = CorrectedIn(posted, product)
      BY DEF CorrectedOf, CorrectedIn, CorrectionsIn
    <2> QED
      BY <2>1, <2>2, <2>3, <2>4
  <1> QED
    BY <1>1, PutawayInvariant, PTL

\* The goods of a line are moved whole, once for all attempts, and a task is completed only of goods that were moved
\* (PutawayService.complete, the transfer's idempotency keys).
THEOREM GoodsAlwaysMoveOnce == Spec => []GoodsMoveOnce
  <1>1. PutawayInv => GoodsMoveOnce
    <2> SUFFICES ASSUME PutawayInv, NEW l \in Lines
                 PROVE  /\ QuantityOf(MovementsOf(l, "TRANSFER_IN")) \in {0, Quantity(l)}
                        /\ QuantityOf(MovementsOf(l, "TRANSFER_OUT")) = QuantityOf(MovementsOf(l, "TRANSFER_IN"))
                        /\ tasks[l].status = "COMPLETED" => MovementsOf(l, "TRANSFER_IN") # {}
      BY DEF GoodsMoveOnce
    <2>1. Moved(l) => MovementsOf(l, "TRANSFER_IN") # {}
      <3> SUFFICES ASSUME Moved(l) PROVE MovementsOf(l, "TRANSFER_IN") # {}
        OBVIOUS
      <3>1. PICK p \in posted : p.key = Key("TRANSFER_IN", l, 0)
        BY DEF Moved, Taken
      <3>2. p.key.kind = "TRANSFER_IN" /\ p.key.client = l
        BY <3>1 DEF Key
      <3>3. Known(p)
        BY DEF PutawayInv
      <3>4. p.type = "TRANSFER_IN"
        BY <3>2, <3>3 DEF Known, TransferTypes
      <3> QED
        BY <3>2, <3>4 DEF MovementsOf
    <2>2. tasks[l].status = "COMPLETED" => Moved(l)
      BY DEF PutawayInv, TasksSound, Lines
    <2>3. Unmoved(l) \/ Moved(l)
      BY DEF PutawayInv, TasksSound
    <2>4. CASE Unmoved(l)
      <3>1. MovementsOf(l, "TRANSFER_IN") = {} /\ MovementsOf(l, "TRANSFER_OUT") = {}
        BY <2>4 DEF Unmoved, TransferTypes
      <3>2. QuantityOf({}) = 0
        BY SumOfNone DEF QuantityOf
      <3> QED
        BY <2>1, <2>2, <3>1, <3>2
    <2>5. CASE Moved(l)
      <3>1. /\ QuantityOf(MovementsOf(l, "TRANSFER_IN")) = Quantity(l)
            /\ QuantityOf(MovementsOf(l, "TRANSFER_OUT")) = Quantity(l)
        BY <2>5 DEF Moved, TransferTypes
      <3> QED
        BY <2>1, <2>5, <3>1
    <2> QED
      BY <2>3, <2>4, <2>5
  <1> QED
    BY <1>1, PutawayInvariant, PTL
=============================================================================
